------------------------------ MODULE Deciding ------------------------------
(***************************************************************************)
(* The engine asked once: Decide answers a snapshot, and the answer is     *)
(* compared with the policy, or with what Decide would have said of a      *)
(* neighbouring snapshot.                                                  *)
(***************************************************************************)
EXTENDS ScalingEngine

CONSTANTS
  Gates,          \* [valid, hpa, drifts, rollout]
  Pods,           \* [current, ready, pending, pendingAge, unmat, unmatAge,
                  \*  unhealthyAge]
  Backlogs, Cpus, \* members of Signal
  Rooms,          \* fit capacities
  Memories,       \* [sinceUp, sinceDown, history, backoff, lastGood]
  BacklogValues   \* items, in the neighbours of a snapshot

ASSUME QuestionAssumption ==
  /\ Gates \subseteq [valid : BOOLEAN, hpa : BOOLEAN, drifts : Nat, rollout : BOOLEAN]
  /\ Pods \subseteq [current : Nat, ready : Nat, pending : Nat, pendingAge : Nat,
                     unmat : Nat, unmatAge : Nat, unhealthyAge : Nat]
  /\ Backlogs \subseteq Signal /\ Cpus \subseteq Signal /\ Rooms \subseteq Nat
  /\ Memories \subseteq [sinceUp : Age, sinceDown : Age, history : SUBSET Sample,
                         backoff : BackoffState, lastGood : Nat]
  /\ BacklogValues \subseteq Int

VARIABLES asked, answer
exchange == <<asked, answer>>

Unanswered == [reason |-> "none"]

Questions ==
  /\ answer = Unanswered
  /\ \E gate \in Gates, pods \in Pods, backlog \in Backlogs, cpu \in Cpus,
        fit \in Rooms, memory \in Memories :
       asked =
         [valid |-> gate.valid, current |-> pods.current, ready |-> pods.ready,
          backlog |-> backlog, cpu |-> cpu, fit |-> fit,
          rollout |-> gate.rollout, hpa |-> gate.hpa, drifts |-> gate.drifts,
          sinceUp |-> memory.sinceUp, sinceDown |-> memory.sinceDown,
          history |-> memory.history, backoff |-> memory.backoff,
          lastGood |-> memory.lastGood,
          pending |-> pods.pending, pendingAge |-> pods.pendingAge,
          unhealthyAge |-> pods.unhealthyAge,
          unmat |-> pods.unmat, unmatAge |-> pods.unmatAge]

Answer ==
  /\ answer = Unanswered
  /\ answer' = Decide(asked)
  /\ UNCHANGED asked

Exchange == Questions /\ [][Answer]_exchange

----------------------------------------------------------------------------
(* Properties.                                                             *)

Answered == answer # Unanswered

\* More items never make Decide ask for fewer replicas: no guard that a larger
\* backlog trips turns a scale-up into a hold or a hold into a scale-down
\* (Decide's G2 .. G12).  It takes the partial scale-up: without it a larger
\* backlog asks for more than fits, and gets nothing.
MonotoneInDemand ==
  Answered /\ Fresh(asked.backlog) =>
    \A n \in BacklogValues :
      n >= asked.backlog.value =>
        Decide([asked EXCEPT !.backlog.value = n]).target >= answer.target

\* More room in the cluster never makes Decide ask for fewer replicas, through
\* the capacity-triggered backoff and both branches of the feasibility gate.
MonotoneInRoom ==
  Answered =>
    \A room \in Rooms :
      room >= asked.fit => Decide([asked EXCEPT !.fit = room]).target >= answer.target

\* A lowering without fresh backlog data is a revert, and no write takes the count
\* below what either demand signal alone calls for, or while some sample of the
\* window calls for the current one, unless it takes back no more replicas than
\* are stuck or beyond the maximum (I-7, I-8: both signals must be low to lower).
LowersOnlyWhenBothLow ==
  Answered /\ answer.target < asked.current =>
    \/ answer.reason = "RevertPendingPods"
         /\ answer.target >= Clamp(asked.current - (asked.pending + asked.unmat))
    \/ /\ Fresh(asked.backlog)
       /\ answer.target >= Clamp(DesiredBacklog(asked))
       /\ answer.target >= Clamp(DesiredUtilization(asked))
       /\ \A x \in InWindow(asked.history) : x.desired < asked.current

\* Every write the engine decides is one the actuator accepts: inside the range,
\* and a change (ScaleActuator.validate; decide_test.go's "a write is always
\* inside the configured clamp").
WritesAreAccepted ==
  Answered /\ IsWrite(answer) =>
    answer.target \in MinReplicas..MaxReplicas /\ answer.target # asked.current
============================================================================
