---------------------------- MODULE FitCapacity ----------------------------
(***************************************************************************)
(* The feasibility estimate (internal/resources): how many more pods of    *)
(* the target's template the cluster could place, from the nodes and the   *)
(* pods in the caches.                                                     *)
(*                                                                         *)
(* A resource list is a function from Dims, the dimensions the estimate    *)
(* divides; pod slots are counted apart.  A label value that reads as an   *)
(* integer does so through Number.                                         *)
(***************************************************************************)
EXTENDS Integers, Sequences, FiniteSets, FiniteSetsExt, SequencesExt

CONSTANTS
  Reserve,             \* resources.perNodeReserve*, by dimension
  Margin,              \* resources.fitCapacityMarginPods
  RespectTaints, RespectNodeSelector, RespectNodeAffinity,
  OperatorNodes,       \* the nodes resources.nodeLabelSelector matches
  Number               \* strconv.ParseInt: label values to the integers they name

Dims == {"cpu", "memory"}

Amounts == [Dims -> Nat]

ASSUME EstimateAssumption ==
  /\ Reserve \in Amounts /\ Margin \in Nat
  /\ RespectTaints \in BOOLEAN
  /\ RespectNodeSelector \in BOOLEAN /\ RespectNodeAffinity \in BOOLEAN

FloorZero(v) == IF v > 0 THEN v ELSE 0

Greater(a, b) == IF a > b THEN a ELSE b

----------------------------------------------------------------------------
(* What one pod of a template costs.                                       *)

Total(containers, d) == FoldLeft(LAMBDA sum, c : sum + c.request[d], 0, containers)

\* Mutant: an init container is charged for the sidecars declared after it, too.
InitStepAllSidecars(acc, c, d) ==
  IF c.restartable
  THEN [sidecars |-> acc.sidecars + c.request[d], peak |-> acc.peak + c.request[d]]
  ELSE [acc EXCEPT !.peak = Greater(@, c.request[d] + acc.sidecars)]

\* One init container, in declaration order: a sidecar runs from here on, any
\* other runs alone with the sidecars already started.
InitStep(acc, c, d) ==
  IF c.restartable
  THEN [acc EXCEPT !.sidecars = @ + c.request[d]]
  ELSE [acc EXCEPT !.peak = Greater(@, c.request[d] + acc.sidecars)]

InitTotals(spec, d) ==
  FoldLeft(LAMBDA acc, c : InitStep(acc, c, d), [sidecars |-> 0, peak |-> 0], spec.inits)

PodRequest(spec) ==
  [d \in Dims |->
     LET init == InitTotals(spec, d)
     IN  Greater(Total(spec.containers, d) + init.sidecars, init.peak) + spec.overhead[d]]

\* EffectivePodRequest's condition for an answer rather than an error
RequestKnown(spec) == \A d \in Dims : PodRequest(spec)[d] > 0

----------------------------------------------------------------------------
(* Which nodes count.                                                      *)

Tolerates(t, taint) ==
  /\ t.effect \in {"", taint.effect}
  /\ IF t.key = "" THEN t.operator = "Exists"
     ELSE /\ t.key = taint.key
          /\ \/ t.operator = "Exists"
             \/ t.operator \in {"Equal", ""} /\ t.value = taint.value

\* PreferNoSchedule ranks nodes and keeps nobody away.
ToleratesAllTaints(taints, tolerations) ==
  \A taint \in taints :
    taint.effect \in {"NoSchedule", "NoExecute"} =>
      \E t \in tolerations : Tolerates(t, taint)

MatchesNodeSelector(labels, selector) ==
  \A key \in DOMAIN selector : key \in DOMAIN labels /\ labels[key] = selector[key]

\* Gt and Lt, on one value, where both sides are integers
CompareNumeric(operator, value, values) ==
  \E want \in values :
    /\ values = {want} /\ {value, want} \subseteq DOMAIN Number
    /\ IF operator = "Gt" THEN Number[value] > Number[want]
                          ELSE Number[value] < Number[want]

MatchesExpression(labels, e) ==
  LET present == e.key \in DOMAIN labels IN
  CASE e.operator = "Exists" -> present
    [] e.operator = "DoesNotExist" -> ~present
    [] e.operator = "In" -> present /\ labels[e.key] \in e.values
    [] e.operator = "NotIn" -> ~present \/ labels[e.key] \notin e.values
    [] e.operator \in {"Gt", "Lt"} ->
         present /\ CompareNumeric(e.operator, labels[e.key], e.values)
    [] OTHER -> TRUE

\* Some term holds; a term without a condition holds nowhere, and conditions on
\* fields are not evaluated.
MatchesAffinity(labels, terms) ==
  \/ terms = {}
  \/ \E term \in terms :
       /\ term.expressions # {} \/ term.fields # {}
       /\ \A e \in term.expressions : MatchesExpression(labels, e)

\* Succeeded and Failed pods have released their node; terminating ones have not.
Chargeable(pod) == pod.phase \notin {"Succeeded", "Failed"}

\* Mutant: a pod that has a node but has not started is not charged to it.
RunningOn(pods, n) == {p \in pods : p.node = n /\ p.phase = "Running"}

\* Charged to its node from the moment of binding, started or not.
ChargedTo(pods, n) == {p \in pods : p.node = n /\ Chargeable(p)}

\* Mutant: a pod that has finished keeps its slot.
SlotsOfAll(node, n, pods) == FloorZero(node.slots - Cardinality({p \in pods : p.node = n}))

FreeSlots(node, n, pods) == FloorZero(node.slots - Cardinality(ChargedTo(pods, n)))

\* evaluateCandidate: checks C4 .. C7, which no pod and no condition changes
PassesFilters(node, n, spec) ==
  /\ RespectTaints => ToleratesAllTaints(node.taints, spec.tolerations)
  /\ RespectNodeSelector => MatchesNodeSelector(node.labels, spec.selector)
  /\ RespectNodeAffinity => MatchesAffinity(node.labels, spec.affinity)
  /\ n \in OperatorNodes

\* evaluateCandidate: checks C1 .. C8
Candidate(node, n, pods, spec) ==
  /\ node.ready /\ ~node.stale /\ ~node.cordoned
  /\ PassesFilters(node, n, spec)
  /\ FreeSlots(node, n, pods) > 0

----------------------------------------------------------------------------
(* How many fit.                                                           *)

Requested(pods, n) ==
  [d \in Dims |-> MapThenSumSet(LAMBDA p : p.request[d], ChargedTo(pods, n))]

NodeFree(node, n, pods) ==
  [d \in Dims |-> FloorZero(node.allocatable[d] - Requested(pods, n)[d] - Reserve[d])]

\* Mutant: a pod that fits all but its last unit is counted.
RoundedUpFit(free, slots, request) ==
  Min({slots} \cup {(free[d] + request[d] - 1) \div request[d] : d \in Dims})

FitOnNode(free, slots, request) ==
  Min({slots} \cup {free[d] \div request[d] : d \in Dims})

NodeFit(node, n, pods, spec) ==
  IF Candidate(node, n, pods, spec)
  THEN FitOnNode(NodeFree(node, n, pods), FreeSlots(node, n, pods), PodRequest(spec))
  ELSE 0

RawFitSum(nodes, pods, spec) ==
  MapThenSumSet(LAMBDA n : NodeFit(nodes[n], n, pods, spec), DOMAIN nodes)

\* Calculate's FitCapacity
Feasible(nodes, pods, spec) == FloorZero(RawFitSum(nodes, pods, spec) - Margin)
============================================================================
