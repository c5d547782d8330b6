---------------------------- MODULE MCPlacement ----------------------------
(* Two nodes, one of them tainted and labelled, and templates that reach one *)
(* or both of them.                                                          *)
EXTENDS Placement, TLC

Amount(cpu, memory) == [d \in Dims |-> IF d = "cpu" THEN cpu ELSE memory]
Container(amounts) == [request |-> amounts, restartable |-> FALSE]
Sidecar(amounts) == [request |-> amounts, restartable |-> TRUE]

SmallReserve == Amount(1, 0)
Numbers == "2" :> 2 @@ "10" :> 10

Taint(key, value, effect) == [key |-> key, value |-> value, effect |-> effect]
Tolerating(key, operator, value, effect) ==
  [key |-> key, operator |-> operator, value |-> value, effect |-> effect]

Healthy(cpu, memory, slots, taints, labels) ==
  [ready |-> TRUE, stale |-> FALSE, cordoned |-> FALSE,
   allocatable |-> Amount(cpu, memory), slots |-> slots,
   taints |-> taints, labels |-> labels]

\* n1 is roomy and prefers to be left alone; n2 is small and dedicated.
TwoNodes ==
  {"n1" :> Healthy(8, 4, 4, {Taint("batch", "", "PreferNoSchedule")},
                   "zone" :> "a" @@ "gen" :> "10")
   @@ "n2" :> Healthy(3, 3, 2, {Taint("dedicated", "work", "NoSchedule")},
                      "zone" :> "b" @@ "gen" :> "2")}

Plain(containers, inits) ==
  [containers |-> containers, inits |-> inits, overhead |-> Amount(0, 0),
   tolerations |-> {}, selector |-> <<>>, affinity |-> {}]

\* Fits n1 alone, by its taint; the peak is the second init container's.
Intolerant ==
  [Plain(<<Container(Amount(1, 1))>>,
         <<Container(Amount(1, 0)), Sidecar(Amount(1, 0)), Container(Amount(2, 1))>>)
   EXCEPT !.selector = "zone" :> "a"]
\* Tolerates by value, and runs a sidecar declared after its init container.
Tolerant ==
  [Plain(<<Container(Amount(1, 0)), Container(Amount(0, 1))>>,
         <<Container(Amount(1, 2)), Sidecar(Amount(0, 1))>>)
   EXCEPT !.tolerations = {Tolerating("dedicated", "Equal", "work", "")}]
\* Tolerates everything, but wants an old node.
Choosy ==
  [Plain(<<Container(Amount(1, 1))>>, <<>>)
   EXCEPT !.tolerations = {Tolerating("", "Exists", "", "NoSchedule")},
          !.affinity = {[expressions |-> {[key |-> "gen", operator |-> "Lt", values |-> {"10"}],
                                          [key |-> "zone", operator |-> "NotIn", values |-> {"a"}]},
                         fields |-> {}],
                        [expressions |-> {}, fields |-> {}]}]

SomeTemplates ==
  {[spec |-> Intolerant, nodes |-> {"n1"}],
   [spec |-> Tolerant, nodes |-> {"n1", "n2"}],
   [spec |-> Choosy, nodes |-> {"n2"}]}

SomeStrangers == {Amount(0, 0), Amount(2, 1)}

\* The templates name the nodes that the scheduler would use.
ASSUME NodesAreNamed == FiltersAgree /\ RequestsKnown

AnyNames == Permutations(PodNames)
============================================================================
