---------------------------- MODULE MCController ----------------------------
(* Instances of Controller for TLC: the environments the runs choose from.  *)
EXTENDS Controller

Healthy == NoPods
\* Two pods unschedulable for longer than the timeout, one of them left over
\* from a higher count that has just been lowered.
StuckTwo == [Healthy EXCEPT !.unready = 1, !.pending = 2, !.pendingAge = Horizon]
\* Two replicas a quota refuses to turn into pods.
QuotaTwo == [Healthy EXCEPT !.unready = 2, !.unmat = 2]

Quiet(fit) == [rollout |-> FALSE, hpa |-> FALSE, fit |-> fit]

Backlog(n) == [available |-> TRUE, age |-> 0, value |-> n]
NoSignal == [available |-> FALSE, age |-> 0, value |-> 0]

HealthyOnly == {Healthy}
EveryHealth == {Healthy, StuckTwo, QuotaTwo}
ThreeOnly == {Backlog(3)}
FitTwo == {Quiet(2)}
FitNoneOrTwo == {Quiet(0), Quiet(2)}
LowOrHigh == {Backlog(1), Backlog(4)}
NoCpu == {NoSignal}

\* A step of the controller, the server, the watch or the clock that no fault,
\* other writer or conflicting update takes: a reconcile that sees the backlog of
\* three, healthy pods and room, the actuation it leads to, what is still on its
\* way, and an interval that passes unless a reconcile is overdue.
Undisturbed ==
  \/ Observe("full", Healthy, Quiet(2), Backlog(3), NoSignal)
  \/ ReadLive \/ ReadStale \/ ReplyApplied \/ ReplyRefused
  \/ ServerApplies \/ ServerConflicts
  \/ \E o \in orphans : OrphanApplies(o)
  \/ \E n \in 1..Len(feed) : Deliver(n)
  \/ ~(pc = "idle" /\ due) /\ Tick

\* What the backlog of three items calls for.
Wanted == Clamp(CeilDiv(3, ItemsPerReplica))

\* Once faults, conflicts and other writers leave the target alone, the replica
\* count reaches what demand calls for and stays there: no drift hold, backoff,
\* cooldown, or half-finished actuation survives to keep it away (Run's ticker
\* with Decide; every hold is left by a condition that becomes true in time).
SettlesOnDemand ==
  <>[][Undisturbed]_vars => <>[](live = Wanted /\ cached = Wanted)
============================================================================
