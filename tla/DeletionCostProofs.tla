------------------------- MODULE DeletionCostProofs -------------------------
(***************************************************************************)
(* A scale-down whose costs were all set removes the least busy pod, for   *)
(* any number of pods and any work.                                        *)
(*                                                                         *)
(* The argument: while `sure` stands, every Ready pod was scraped and has  *)
(* either been given its cost or is still to be given it; nobody but the   *)
(* controller changes the cost of a pod that stays.                        *)
(***************************************************************************)
EXTENDS DeletionCost, TLAPS

TypeOK ==
  /\ work \in [Pods -> Nat]
  /\ state \in [Pods -> {"absent", "starting", "ready"}]
  /\ cost \in [Pods -> Int]

SampleIsScraped ==
  DOMAIN sample \subseteq Pods /\ \A p \in DOMAIN sample : sample[p] = busy[p]

CostsAreSet ==
  /\ pc # "patch" => todo = {}
  /\ todo \subseteq DOMAIN sample
  /\ pc \in {"patch", "lower"} /\ sure =>
       \A p \in Ready(state) :
         p \in DOMAIN sample /\ (p \in todo \/ cost[p] = Capped(busy[p]))

BusyTyped == busy \in [Pods -> Nat]

Inv == TypeOK /\ BusyTyped /\ SampleIsScraped /\ CostsAreSet

LEMMA CappedTyped == ASSUME NEW n \in Nat PROVE Capped(n) \in Int
BY CostAssumption DEF Capped

LEMMA InitInv == Init => Inv
BY DEF Init, Inv, TypeOK, BusyTyped, SampleIsScraped, CostsAreSet

LEMMA DecideKeeps ==
  ASSUME Inv, NEW scraped \in SUBSET Ready(state), Decide(scraped) PROVE Inv'
BY DEF Decide, Inv, TypeOK, BusyTyped, SampleIsScraped, CostsAreSet, Ready

\* If the costs of an up-to-date cache are set, those left out have theirs.
LEMMA RefreshKeeps == ASSUME Inv, RefreshDeletionCosts PROVE Inv'
<1> DEFINE costs == DeletionCosts(seen.state, sample)
<1>1. TypeOK' /\ BusyTyped' /\ SampleIsScraped'
  BY DEF RefreshDeletionCosts, Inv, TypeOK, BusyTyped, SampleIsScraped
<1>2. /\ DOMAIN costs \subseteq DOMAIN sample
      /\ DOMAIN costs # {} => costs = [p \in Ready(seen.state) |-> Capped(sample[p])]
  BY DEF DeletionCosts
<1>3. ASSUME sure'
      PROVE  \A p \in Ready(state) :
               p \in DOMAIN sample /\ (p \in todo' \/ cost[p] = Capped(busy[p]))
  <2>1. DOMAIN costs # {} /\ seen.state = state /\ seen.cost = cost
    <3>1. DOMAIN costs # {} /\ seen = [state |-> state, cost |-> cost]
      BY <1>3, Zenon DEF RefreshDeletionCosts
    <3> QED BY <3>1
  <2>2. costs = [p \in Ready(state) |-> Capped(sample[p])]
    BY <1>2, <2>1
  <2>3. todo' = {p \in DOMAIN costs : cost[p] # costs[p]}
    BY <2>1 DEF RefreshDeletionCosts
  <2>4. Ready(state) \subseteq DOMAIN sample
    BY <1>2, <2>2
  <2>5. \A p \in Ready(state) : costs[p] = Capped(busy[p])
    BY <2>2, <2>4 DEF Inv, SampleIsScraped
  <2> QED BY <2>2, <2>3, <2>4, <2>5
<1>4. todo' \subseteq DOMAIN sample
  BY <1>2 DEF RefreshDeletionCosts
<1>5. pc' = "patch" /\ state' = state /\ cost' = cost /\ sample' = sample /\ busy' = busy
  BY DEF RefreshDeletionCosts
<1>6. CostsAreSet'
  BY <1>3, <1>4, <1>5 DEF CostsAreSet, Ready, Capped
<1> QED BY <1>1, <1>6 DEF Inv

\* A cost that is set is the work the pod was scraped with.
LEMMA SetKeeps == ASSUME Inv, NEW p \in Pods, SetDeletionCost(p) PROVE Inv'
<1>1. sample[p] = busy[p] /\ busy[p] \in Nat /\ Capped(sample[p]) \in Int
  BY CappedTyped DEF SetDeletionCost, Inv, SampleIsScraped, BusyTyped, CostsAreSet
<1>2. TypeOK' /\ BusyTyped' /\ SampleIsScraped'
  BY <1>1 DEF SetDeletionCost, Inv, TypeOK, BusyTyped, SampleIsScraped
<1>3. CostsAreSet'
  BY <1>1 DEF SetDeletionCost, Inv, TypeOK, CostsAreSet, Ready, Capped
<1> QED BY <1>2, <1>3 DEF Inv

\* After any failure `sure` is withdrawn; the end of the refresh leaves none
\* to be set.
LEMMA PatchEnds ==
  ASSUME Inv, (\E p \in Pods : SetFails(p)) \/ Refreshed PROVE Inv'
BY DEF SetFails, Refreshed, Inv, TypeOK, BusyTyped, SampleIsScraped, CostsAreSet, Ready

LEMMA LowerKeeps == ASSUME Inv, NEW p \in Pods, Lower(p) PROVE Inv'
BY DEF Lower, Inv, TypeOK, BusyTyped, SampleIsScraped, CostsAreSet

\* A pod that is created is not Ready yet; one that becomes so was not sampled.
LEMMA PodsKeep ==
  ASSUME Inv, NEW p \in Pods, Create(p) \/ Flip(p) \/ WorkChanges(p) PROVE Inv'
<1>1. CASE Create(p)
  BY <1>1 DEF Create, Inv, TypeOK, BusyTyped, SampleIsScraped, CostsAreSet, Ready, Capped
<1>2. CASE Flip(p)
  BY <1>2 DEF Flip, Inv, TypeOK, BusyTyped, SampleIsScraped, CostsAreSet
<1>3. CASE WorkChanges(p)
  BY <1>3 DEF WorkChanges, Inv, TypeOK, BusyTyped, SampleIsScraped, CostsAreSet, Ready, Capped
<1> QED BY <1>1, <1>2, <1>3

LEMMA ObservationKeeps == ASSUME Inv, SyncPods \/ UNCHANGED vars PROVE Inv'
BY DEF SyncPods, vars, Inv, TypeOK, BusyTyped, SampleIsScraped, CostsAreSet, Ready, Capped

LEMMA Invariance == Spec => []Inv
<1>1. Inv /\ [Next]_vars => Inv'
  BY DecideKeeps, RefreshKeeps, SetKeeps, PatchEnds, LowerKeeps, PodsKeep,
     ObservationKeeps DEF Next
<1> QED BY InitInv, <1>1, PTL DEF Spec

-----------------------------------------------------------------------------
\* Only the removal itself makes a Ready pod go.
LEMMA OnlyLowerRemoves ==
  ASSUME Inv, Next, NEW p \in Pods, state[p] = "ready", state'[p] = "absent"
  PROVE  Lower(p)
<1>1. \E q \in Pods : Lower(q) \/ Create(q) \/ Flip(q)
  <2>1. state' # state
    OBVIOUS
  <2> QED
    BY <2>1 DEF Next, Decide, RefreshDeletionCosts, Refreshed, SyncPods,
                SetDeletionCost, SetFails, WorkChanges
<1> QED
  BY <1>1 DEF Inv, TypeOK, Lower, Create, Flip

LEMMA RemovedIsLeastBusy ==
  ASSUME Inv, NEW p \in Pods, Lower(p), sure, state[p] = "ready"
  PROVE  \A q \in Ready(state') : Capped(busy[p]) <= Capped(busy[q])
<1>1. \A q \in Ready(state) : cost[q] = Capped(busy[q])
  BY DEF Lower, Inv, CostsAreSet
<1>2. p \in Ready(state) /\ Ready(state') \subseteq Ready(state)
  BY DEF Lower, Ready, Inv, TypeOK
<1>3. \A q \in Ready(state) : cost[p] <= cost[q]
  BY DEF Lower, Expendable
<1> QED BY <1>1, <1>2, <1>3

(* A Ready pod that a scale-down removes was the least busy of those that  *)
(* stay, for any number of pods, if every cost was set from an up-to-date  *)
(* cache (kubernetes/deletioncost.go, DeletionCosts).                      *)
THEOREM LeastBusyGoes == Spec => LeastBusyIsRemoved
<1> DEFINE Kept ==
      \A p \in Pods :
        sure /\ state[p] = "ready" /\ state'[p] = "absent" =>
          \A q \in Ready(state') : Capped(busy[p]) <= Capped(busy[q])
<1>1. Inv /\ [Next]_vars => [Kept]_vars
  BY OnlyLowerRemoves, RemovedIsLeastBusy
<1> QED BY Invariance, <1>1, PTL DEF Spec, LeastBusyIsRemoved
=============================================================================
