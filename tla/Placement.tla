----------------------------- MODULE Placement -----------------------------
(***************************************************************************)
(* The feasibility gate (G8 of internal/scaling on the estimate of         *)
(* internal/resources) and the kube-scheduler that has to keep its         *)
(* promise: replicas are admitted while the estimate has room, become      *)
(* pods, and are bound one by one, while other pods come and go and nodes  *)
(* fail.  The scheduler may choose any node that admits a pod.             *)
(***************************************************************************)
EXTENDS FitCapacity

CONSTANTS
  Nodes,
  InitialNodes,      \* functions from Nodes to node records
  Templates,         \* [spec, nodes]: a template, and the nodes whose taints,
                     \* labels and fields let the scheduler place it there
  StrangerRequests,  \* what the pods of others request
  MaxStep,           \* scaling.maxScaleUpStep
  PodNames,          \* bound: as many pods at a time
  MaxDegraded        \* bound: unusable nodes at a time

None == "none"

\* What of a node the estimate and the scheduler read; what it tolerates and its
\* labels stay as they are.
NodeRecords ==
  [ready : BOOLEAN, stale : BOOLEAN, cordoned : BOOLEAN,
   allocatable : Amounts, slots : Nat,
   taints : {ns[n].taints : ns \in InitialNodes, n \in Nodes},
   labels : {ns[n].labels : ns \in InitialNodes, n \in Nodes}]

Containers == Seq([request : Amounts, restartable : BOOLEAN])

ASSUME PlacementAssumption ==
  /\ IsFiniteSet(Nodes) /\ None \notin Nodes /\ IsFiniteSet(PodNames)
  /\ InitialNodes \subseteq [Nodes -> NodeRecords]
  /\ \A t \in Templates :
       /\ t.spec.containers \in Containers /\ t.spec.inits \in Containers
       /\ t.spec.overhead \in Amounts
  /\ StrangerRequests \subseteq Amounts
  /\ MaxStep \in Nat /\ MaxDegraded \in Nat

\* The filters of the estimate and those of the scheduler agree about the nodes the
\* operator has not excluded.
FiltersAgree ==
  \A t \in Templates, ns \in InitialNodes, n \in Nodes :
    PassesFilters(ns[n], n, t.spec) <=> n \in t.nodes \cap OperatorNodes

\* No template is without a request, which the controller would report instead.
RequestsKnown == \A t \in Templates : RequestKnown(t.spec)

VARIABLES
  template,   \* the target's, a member of Templates
  nodes,      \* the nodes, as the caches and the scheduler see them
  pods,       \* the pods: [name, ours, node, phase, request]
  displaced,  \* history: pods of ours that others' pods displaced since the gate
  degraded    \* history: a node got worse since the gate

vars == <<template, nodes, pods, displaced, degraded>>

spec == template.spec

Unbound == {p \in pods : p.ours /\ p.node = None}

----------------------------------------------------------------------------
(* The kube-scheduler.                                                     *)

\* What the scheduler has left on a node: no reserve, no margin.
Left(n, d) ==
  nodes[n].allocatable[d]
    - MapThenSumSet(LAMBDA p : p.request[d],
                    {p \in pods : p.node = n /\ p.phase \in {"Pending", "Running"}})

SlotsLeft(n) ==
  nodes[n].slots
    - Cardinality({p \in pods : p.node = n /\ p.phase \in {"Pending", "Running"}})

Open(n) == nodes[n].ready /\ ~nodes[n].cordoned

Usable(n) == Open(n) /\ ~nodes[n].stale

\* Room for k pods of one size, leaving `spare` unused.
Room(n, k, request, spare) ==
  /\ SlotsLeft(n) >= k
  /\ \A d \in Dims : Left(n, d) >= k * request[d] + spare[d]

NoSpare == [d \in Dims |-> 0]

Admits(n) == Open(n) /\ n \in template.nodes /\ Room(n, 1, PodRequest(spec), NoSpare)

\* How many pods of ours a pod of another size may displace.
Displaces(request) ==
  Max({1} \cup {(request[d] + PodRequest(spec)[d] - 1) \div PodRequest(spec)[d] : d \in Dims})

----------------------------------------------------------------------------
(* Steps.                                                                  *)

FreeNames == PodNames \ {p.name : p \in pods}

\* A reconcile in which the gate admits k more replicas, which become pods: none
\* of ours is waiting for a node (G5), and the estimate has room (G8).
Admit(k) ==
  /\ Unbound = {}
  /\ RequestKnown(spec)
  /\ k <= Feasible(nodes, pods, spec)
  /\ \E names \in kSubset(k, FreeNames) :
       pods' = pods \cup
         {[name |-> i, ours |-> TRUE, node |-> None, phase |-> "Pending",
           request |-> PodRequest(spec)] : i \in names}
  /\ displaced' = 0 /\ degraded' = FALSE
  /\ UNCHANGED <<template, nodes>>

Bind(p, n) ==
  /\ p \in Unbound /\ Admits(n)
  /\ pods' = (pods \ {p}) \cup {[p EXCEPT !.node = n]}
  /\ UNCHANGED <<template, nodes, displaced, degraded>>

BecomePhase(p, phase) ==
  /\ pods' = (pods \ {p}) \cup {[p EXCEPT !.phase = phase]}
  /\ UNCHANGED <<template, nodes, displaced, degraded>>

Start(p) == p.node # None /\ p.phase = "Pending" /\ BecomePhase(p, "Running")

\* Only pods of others complete: a Deployment restarts its containers.
Complete(p, phase) == ~p.ours /\ p.phase = "Running" /\ BecomePhase(p, phase)

Delete(p) ==
  /\ p \in pods
  /\ pods' = pods \ {p}
  /\ UNCHANGED <<template, nodes, displaced, degraded>>

\* Somebody else's pod is bound, wherever it fits.
Arrive(n, request) ==
  /\ Open(n) /\ Room(n, 1, request, NoSpare)
  /\ \E i \in FreeNames :
       pods' = pods \cup
         {[name |-> i, ours |-> FALSE, node |-> n, phase |-> "Pending",
           request |-> request]}
  /\ displaced' = Min({displaced + Displaces(request), Margin + 1})
  /\ UNCHANGED <<template, nodes, degraded>>

\* A node stops being usable: NotReady, cordoned, or silent for so long that the
\* estimate distrusts it.
Degrade(n) ==
  /\ Usable(n)
  /\ Cardinality({m \in Nodes : ~Usable(m)}) < MaxDegraded
  /\ \E flaw \in {"ready", "cordoned", "stale"} :
       nodes' = [nodes EXCEPT ![n][flaw] = ~@]
  /\ degraded' = TRUE
  /\ UNCHANGED <<template, pods, displaced>>

Recover(n) ==
  /\ ~Usable(n)
  /\ nodes' = [nodes EXCEPT ![n].ready = TRUE, ![n].cordoned = FALSE, ![n].stale = FALSE]
  /\ UNCHANGED <<template, pods, displaced, degraded>>

Init ==
  /\ template \in Templates /\ nodes \in InitialNodes
  /\ pods = {} /\ displaced = 0 /\ degraded = FALSE

Next ==
  \/ \E k \in 1..MaxStep : Admit(k)
  \/ \E p \in pods, n \in Nodes : Bind(p, n)
  \/ \E p \in pods : Start(p)
  \/ \E p \in pods, phase \in {"Succeeded", "Failed"} : Complete(p, phase)
  \/ \E p \in pods : Delete(p)
  \/ \E n \in Nodes, request \in StrangerRequests : Arrive(n, request)
  \/ \E n \in Nodes : Degrade(n) \/ Recover(n)

Spec == Init /\ [][Next]_vars

----------------------------------------------------------------------------
(* Properties.                                                             *)

\* A replica the gate admitted can be placed, whichever nodes the scheduler
\* chose for the ones before it: until a node gets worse, or other pods displace
\* more than the margin, some node admits every pod still waiting (I-4: Pending
\* is an estimation error rather than the normal outcome of a shortfall).
PromiseKept ==
  Unbound # {} /\ ~degraded /\ displaced <= Margin => \E n \in Nodes : Admits(n)

\* Binding a promised pod takes exactly one from the estimate at once, before it
\* runs, and nothing when its node had only the reserve left: promises are never
\* counted again, nor twice (byNode charges assigned-but-Pending pods).
PlacementCostsOne ==
  [][\A p \in Unbound, n \in Nodes :
       Bind(p, n) =>
         RawFitSum(nodes', pods', spec) =
           RawFitSum(nodes, pods, spec)
             - (IF NodeFit(nodes[n], n, pods, spec) > 0 THEN 1 ELSE 0)]_vars

\* The most pods of the template that can be spread over the nodes the scheduler
\* and the estimate accept, leaving every node's reserve unused.
MostPlaceable ==
  LET takes(n, k) ==
        \/ k = 0
        \/ /\ Usable(n) /\ n \in template.nodes \cap OperatorNodes
           /\ Room(n, k, PodRequest(spec), Reserve)
      most(n) == Max({k \in 0..nodes[n].slots : takes(n, k)})
  IN  MapThenSumSet(most, Nodes)

\* The estimate is neither optimistic nor a false hold: what is left of the best
\* placement after the margin (Calculate against its definition; the filters of
\* evaluateCandidate against the nodes the scheduler would use).
EstimateIsExact ==
  Feasible(nodes, pods, spec) = FloorZero(MostPlaceable - Margin)

\* The containers that run together at some moment of a pod's life: the sidecars
\* started so far with one init container, or all of them with the application.
Phases ==
  {[sidecars |-> {j \in 1..i : spec.inits[j].restartable}, init |-> i] :
     i \in {j \in DOMAIN spec.inits : ~spec.inits[j].restartable}}
  \cup {[sidecars |-> {j \in DOMAIN spec.inits : spec.inits[j].restartable}, init |-> 0]}

AtOnce(phase, d) ==
  MapThenSumSet(LAMBDA j : spec.inits[j].request[d], phase.sidecars)
    + (IF phase.init = 0
       THEN MapThenSumSet(LAMBDA j : spec.containers[j].request[d], DOMAIN spec.containers)
       ELSE spec.inits[phase.init].request[d])
    + spec.overhead[d]

\* What a pod is charged is the most its containers ever hold at the same time
\* (EffectivePodRequest with native sidecars among the init containers).
RequestIsPeak ==
  \A d \in Dims : PodRequest(spec)[d] = Max({AtOnce(phase, d) : phase \in Phases})
============================================================================
