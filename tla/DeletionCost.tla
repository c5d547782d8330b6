---------------------------- MODULE DeletionCost ----------------------------
(***************************************************************************)
(* How a scale-down is pointed at the least busy pods                      *)
(* (controller/deletioncost.go, kubernetes/deletioncost.go): every Ready   *)
(* pod's cost is set to its own work, one PATCH after the other, and the   *)
(* count is lowered whatever became of them.  The ReplicaSet controller,   *)
(* which does the removing, the pods and the pod cache are external.       *)
(***************************************************************************)
EXTENDS Integers, FiniteSets

CONSTANTS
  Pods,
  MaxWork,    \* bound: the most work a pod has
  MaxCost     \* the largest cost there is: 2^31 - 1 in the code

ASSUME CostAssumption == MaxWork \in Nat /\ MaxCost \in Nat

VARIABLES
  work,    \* queued and in-flight records of each pod
  state,   \* of each pod: "absent", "starting", "ready"
  cost,    \* its pod-deletion-cost; no annotation is a cost of 0
  seen,    \* the pod cache: [state, cost]
  pc,      \* "idle", "refresh", "patch", "lower"
  sample,  \* the work each scraped pod reported
  todo,    \* pods whose cost is still to be set
  busy,    \* history: the work of every pod when it was scraped
  sure     \* history: every cost was set from an up-to-date cache, and the
           \* Ready pods are still the ones they were set for

vars == <<work, state, cost, seen, pc, sample, todo, busy, sure>>

Ready(st) == {p \in Pods : st[p] = "ready"}
Capped(n) == IF n > MaxCost THEN MaxCost ELSE n

-----------------------------------------------------------------------------
(* A plausible mistake: a pod that was not scraped keeps the cost it has.  *)
CostsOfScraped(st, scraped) == [p \in Ready(st) \cap DOMAIN scraped |-> Capped(scraped[p])]

(* DeletionCosts: of the Ready pods, all of them or (the empty function)   *)
(* none.                                                                   *)
DeletionCosts(st, scraped) ==
  IF Ready(st) \subseteq DOMAIN scraped THEN [p \in Ready(st) |-> Capped(scraped[p])]
  ELSE [p \in {} |-> 0]

(* The signal is collected and ScaleDown decided; `scraped` are the pods   *)
(* the headless service named.                                             *)
Decide(scraped) ==
  /\ pc = "idle" /\ Cardinality(Ready(state)) > 1
  /\ sample' = [p \in scraped |-> work[p]]
  /\ busy' = work
  /\ pc' = "refresh"
  /\ UNCHANGED <<work, state, cost, seen, todo, sure>>

(* refreshDeletionCosts looks at the pod cache once more.                  *)
RefreshDeletionCosts ==
  /\ pc = "refresh"
  /\ LET costs == DeletionCosts(seen.state, sample)
     IN  /\ todo' = {p \in DOMAIN costs : seen.cost[p] # costs[p]}
         /\ sure' = (DOMAIN costs # {} /\ seen = [state |-> state, cost |-> cost])
  /\ pc' = "patch"
  /\ UNCHANGED <<work, state, cost, seen, sample, busy>>

(* The PATCH is applied and answered.                                      *)
SetDeletionCost(p) ==
  /\ pc = "patch" /\ p \in todo /\ state[p] # "absent"
  /\ cost' = [cost EXCEPT ![p] = Capped(sample[p])]
  /\ todo' = todo \ {p}
  /\ UNCHANGED <<work, state, seen, pc, sample, busy, sure>>

(* It is refused, the pod is gone, or the deadline has passed: the next    *)
(* pod is tried all the same.                                              *)
SetFails(p) ==
  /\ pc = "patch" /\ p \in todo
  /\ todo' = todo \ {p} /\ sure' = FALSE
  /\ UNCHANGED <<work, state, cost, seen, pc, sample, busy>>

Refreshed ==
  /\ pc = "patch" /\ todo = {}
  /\ pc' = "lower"
  /\ UNCHANGED <<work, state, cost, seen, sample, todo, busy, sure>>

-----------------------------------------------------------------------------
(* The ReplicaSet controller, once the count is one lower: a pod that is   *)
(* not Ready, or else one with the lowest cost.                            *)

Expendable(p) ==
  \/ state[p] = "starting"
  \/ /\ \A q \in Pods : state[q] # "starting"
     /\ state[p] = "ready" /\ \A q \in Ready(state) : cost[p] <= cost[q]

Lower(p) ==
  /\ pc = "lower" /\ Expendable(p)
  /\ state' = [state EXCEPT ![p] = "absent"]
  /\ cost' = [cost EXCEPT ![p] = 0]
  /\ work' = [work EXCEPT ![p] = 0]
  /\ pc' = "idle"
  /\ UNCHANGED <<seen, sample, todo, busy, sure>>

-----------------------------------------------------------------------------
(* The pods and the cache.                                                 *)

Create(p) ==
  /\ state[p] = "absent" /\ state' = [state EXCEPT ![p] = "starting"]
  /\ UNCHANGED <<work, cost, seen, pc, sample, todo, busy, sure>>

Flip(p) ==
  /\ state[p] # "absent"
  /\ state' = [state EXCEPT ![p] = IF @ = "ready" THEN "starting" ELSE "ready"]
  /\ sure' = FALSE
  /\ UNCHANGED <<work, cost, seen, pc, sample, todo, busy>>

WorkChanges(p) ==
  /\ state[p] = "ready" /\ \E n \in 0..MaxWork : work' = [work EXCEPT ![p] = n]
  /\ UNCHANGED <<state, cost, seen, pc, sample, todo, busy, sure>>

SyncPods ==
  /\ seen' = [state |-> state, cost |-> cost]
  /\ UNCHANGED <<work, state, cost, pc, sample, todo, busy, sure>>

Init ==
  /\ work = [p \in Pods |-> 0] /\ cost = [p \in Pods |-> 0]
  /\ state = [p \in Pods |-> "ready"]
  /\ seen = [state |-> state, cost |-> cost]
  /\ pc = "idle" /\ sample = work /\ todo = {} /\ busy = work /\ sure = FALSE

Next ==
  \/ \E scraped \in SUBSET Ready(state) : Decide(scraped)
  \/ RefreshDeletionCosts \/ Refreshed \/ SyncPods
  \/ \E p \in Pods :
       \/ SetDeletionCost(p) \/ SetFails(p) \/ Lower(p)
       \/ Create(p) \/ Flip(p) \/ WorkChanges(p)

Spec == Init /\ [][Next]_vars

-----------------------------------------------------------------------------
(* A Ready pod is removed only if no Ready pod that stays was less busy    *)
(* when the signal was collected, whatever costs earlier scale-downs have  *)
(* left, provided every cost was set from an up-to-date cache and the same *)
(* pods are still Ready (kubernetes/deletioncost.go:177-186).              *)
LeastBusyIsRemoved ==
  [][\A p \in Pods :
       sure /\ state[p] = "ready" /\ state'[p] = "absent" =>
         \A q \in Ready(state') : Capped(busy[p]) <= Capped(busy[q])]_vars
=============================================================================
