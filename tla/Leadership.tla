----------------------------- MODULE Leadership -----------------------------
(* The processes of the controller and the lease that elects the one that    *)
(* may write: run and serve (main.go), lead and buildLeadership (leader.go), *)
(* the election as it is configured in kubernetes/lease.go, and, external,   *)
(* client-go's elector, the lease object and the kubelet.                    *)
(*                                                                           *)
(* Time is counted in retry periods by one clock: clock drift is left out,   *)
(* and so is a process that is not scheduled for longer than StopWithin.     *)
EXTENDS Integers

CONSTANTS
  Processes,     \* the containers that may run a controller
  Launch,        \* Launch[p]: flags and configuration p is started with
  Rollouts,      \* the sets of pods a rolling update may be replacing
  Nobody,        \* holder of a lease that was released, or never taken
  Departed,      \* holder of a lease whose process is gone (ElectionIdentity
                 \* is unique, so no later process is taken for it)
  LeaseDuration, \* a lease nobody has renewed for so long can be taken
  RenewDeadline, \* a leader that fails to renew for so long gives up
  RetryPeriod,   \* between renewals
  StopWithin     \* how long Run takes to return once its context is cancelled

VARIABLES
  main,       \* where run, serve and lead are
  elector,    \* the election goroutine
  acquired,   \* OnStartedLeading: not called, running, context in the channel
  ctx,        \* is the leading context live?
  leading,    \* what readiness and kss_leader go by
  reconciled, \* has a reconcile completed?
  asked,      \* has the process been told to stop (SIGTERM)?
  renewAge,   \* since the leader's last renewal it knows of
  seen,       \* has the elector seen the lease record that stands?
  obsAge,     \* since it first saw it
  lease,      \* the holder on the server
  reach,      \* the processes the API server answers
  outdated    \* the processes a rolling update is to replace

procVars == <<main, acquired, leading, reconciled, asked>>
electVars == <<elector, ctx, renewAge, obsAge>>
vars == <<procVars, electVars, seen, lease, reach, outdated>>

\* The longest a leader stays in renew after its last renewal: it sleeps for a
\* retry period and then tries until the deadline.
GiveUpAt == RetryPeriod + RenewDeadline

\* release() gives its update a timeout of its own, the renewal deadline, and the
\* lease client's configuration sets no shorter one.
ReleaseWithin == RenewDeadline

\* The longest a loop goes on after the last renewal.
Longest == GiveUpAt + ReleaseWithin + StopWithin

ASSUME LaunchAssumption ==
  /\ Launch \in [Processes -> [once : BOOLEAN, dryRun : BOOLEAN, election : BOOLEAN]]
  /\ Nobody \notin Processes /\ Departed \notin Processes /\ Nobody # Departed

\* The proportions of lease.go's defaults, 15, 10 and 2 seconds: a leader that
\* cannot renew gives up before its lease can be taken.
ASSUME TimingAssumption ==
  /\ LeaseDuration \in Nat /\ RenewDeadline \in Nat /\ RetryPeriod \in Nat \ {0}
  /\ StopWithin \in Nat
  /\ GiveUpAt < LeaseDuration

----------------------------------------------------------------------------
(* What a process is built with.                                           *)

\* forceReadOnlyForOnce
DryRun(p) == Launch[p].dryRun \/ Launch[p].once

\* buildActuator: the client that can write is built or does not exist.
CanWrite(p) == ~DryRun(p)

\* buildLeadership, which serve does not get to with -once.
UsesLease(p) == CanWrite(p) /\ Launch[p].election /\ ~Launch[p].once

\* The controller's Deployment.
Pods == {p \in Processes : UsesLease(p)}

\* A rolling update leaves new pods behind, if there are any pods.
ASSUME RolloutAssumption ==
  \A old \in Rollouts : old \subseteq Pods /\ (old = Pods => Pods = {})

\* "leader election is disabled: run exactly one replica of this controller"
ASSUME SoleAssumption ==
  \A p \in Processes :
    CanWrite(p) /\ ~Launch[p].election => \A q \in Processes : CanWrite(q) => q = p

----------------------------------------------------------------------------
TypeOK ==
  /\ main \in [Processes -> {"down", "starting", "campaigning", "looping", "releasing"}]
  /\ elector \in [Processes -> {"off", "acquiring", "renewing", "releasing", "done"}]
  /\ acquired \in [Processes -> {"no", "calling", "sent"}]
  /\ ctx \in [Processes -> BOOLEAN]
  /\ leading \in [Processes -> BOOLEAN]
  /\ reconciled \in [Processes -> BOOLEAN]
  /\ asked \in [Processes -> BOOLEAN]
  /\ renewAge \in [Processes -> Nat]
  /\ seen \in [Processes -> BOOLEAN]
  /\ obsAge \in [Processes -> Nat]
  /\ lease \in Processes \cup {Nobody, Departed}
  /\ reach \subseteq Processes
  /\ outdated \subseteq Processes

\* The record changed: every elector has to look again.
Unseen == [q \in Processes |-> FALSE]

\* Mutant: the election's context is the one the signal cancels, so that the
\* lease is released while the loop is still winding up.
CancelledBySignal(p) == main[p] = "releasing" \/ asked[p]

\* release(), in lead: the elector's own context, on nothing else's say.
Cancelled(p) == main[p] = "releasing"

\* The process is gone, and its goroutines with it.  A pod that a rolling
\* update told to stop is not started again; any other is.
Gone(p) ==
  /\ main' = [main EXCEPT ![p] = "down"]
  /\ elector' = [elector EXCEPT ![p] = "off"]
  /\ acquired' = [acquired EXCEPT ![p] = "no"]
  /\ ctx' = [ctx EXCEPT ![p] = FALSE]
  /\ leading' = [leading EXCEPT ![p] = FALSE]
  /\ reconciled' = [reconciled EXCEPT ![p] = FALSE]
  /\ asked' = [asked EXCEPT ![p] = @ /\ p \in outdated]
  /\ renewAge' = [renewAge EXCEPT ![p] = 0]
  /\ obsAge' = [obsAge EXCEPT ![p] = 0]
  /\ seen' = [seen EXCEPT ![p] = FALSE]
  /\ lease' = IF lease = p THEN Departed ELSE lease
  /\ UNCHANGED <<reach, outdated>>

----------------------------------------------------------------------------
(* run and serve.                                                          *)

Start(p) ==
  /\ main[p] = "down" /\ ~asked[p]
  /\ main' = [main EXCEPT ![p] = "starting"]
  /\ UNCHANGED <<acquired, leading, reconciled, asked, electVars, seen, lease, reach, outdated>>

\* The caches did not sync in time, VerifyTarget refused the target, or the
\* signal came first.
StartFails(p) == main[p] = "starting" /\ Gone(p)

\* The caches have synced and the target is verified: a process that cannot
\* write, or has no election, reconciles; any other campaigns.
Serve(p) ==
  /\ main[p] = "starting"
  /\ IF UsesLease(p)
     THEN /\ main' = [main EXCEPT ![p] = "campaigning"]
          /\ elector' = [elector EXCEPT ![p] = "acquiring"]
     ELSE main' = [main EXCEPT ![p] = "looping"] /\ UNCHANGED elector
  /\ UNCHANGED <<acquired, leading, reconciled, asked, ctx, renewAge, obsAge,
                 seen, lease, reach, outdated>>

\* lead's select: the signal, an elector that ended, or the leading context;
\* when several are ready, any of them.
StandDown(p) ==
  /\ main[p] = "campaigning" /\ asked[p]
  /\ main' = [main EXCEPT ![p] = "releasing"]
  /\ UNCHANGED <<acquired, leading, reconciled, asked, electVars, seen, lease, reach, outdated>>

ElectionEnded(p) == main[p] = "campaigning" /\ elector[p] = "done" /\ Gone(p)

\* A loop whose context is dead already returns before its first reconcile.
Lead(p) ==
  /\ main[p] = "campaigning" /\ acquired[p] = "sent"
  /\ main' = [main EXCEPT ![p] = IF ctx[p] THEN "looping" ELSE "releasing"]
  /\ UNCHANGED <<acquired, leading, reconciled, asked, electVars, seen, lease, reach, outdated>>

\* The context Run is given: cancelled by the signal and, in lead, with the
\* leading context.
LoopMayGoOn(p) == ~asked[p] /\ (UsesLease(p) => ctx[p])

Reconcile(p) ==
  /\ main[p] = "looping" /\ LoopMayGoOn(p)
  /\ reconciled' = [reconciled EXCEPT ![p] = TRUE]
  /\ UNCHANGED <<main, acquired, leading, asked, electVars, seen, lease, reach, outdated>>

\* Run returns at a cancelled context, and lead then cancels the election and
\* waits for it.
LoopReturns(p) ==
  /\ main[p] = "looping" /\ UsesLease(p) /\ ~LoopMayGoOn(p)
  /\ main' = [main EXCEPT ![p] = "releasing"]
  /\ UNCHANGED <<acquired, leading, reconciled, asked, electVars, seen, lease, reach, outdated>>

\* The end of run: after lead, with errLostLeadership's exit code or without;
\* of a process that does not campaign; of -once when its reconcile is done.
Exit(p) ==
  /\ \/ main[p] = "releasing" /\ elector[p] = "done"
     \/ main[p] = "looping" /\ ~UsesLease(p) /\ ~LoopMayGoOn(p)
     \/ main[p] = "looping" /\ Launch[p].once /\ reconciled[p]
  /\ Gone(p)

----------------------------------------------------------------------------
(* client-go's elector, with ReleaseOnCancel (external).                   *)

\* The record is not the one seen last and names another holder: wait.
Look(p) ==
  /\ elector[p] = "acquiring" /\ ~Cancelled(p) /\ p \in reach
  /\ ~seen[p] /\ lease \notin {Nobody, p}
  /\ seen' = [seen EXCEPT ![p] = TRUE]
  /\ obsAge' = [obsAge EXCEPT ![p] = 0]
  /\ UNCHANGED <<procVars, elector, ctx, renewAge, lease, reach, outdated>>

CanTake(p) ==
  /\ elector[p] = "acquiring" /\ ~Cancelled(p) /\ p \in reach
  /\ lease \in {Nobody, p} \/ (seen[p] /\ obsAge[p] >= LeaseDuration)

\* The record is created or updated, on the version it was read at; Run calls
\* OnStartedLeading in a goroutine of its own and starts to renew.
Take(p) ==
  /\ CanTake(p)
  /\ lease' = p /\ seen' = Unseen
  /\ renewAge' = [renewAge EXCEPT ![p] = 0]
  /\ elector' = [elector EXCEPT ![p] = "renewing"]
  /\ ctx' = [ctx EXCEPT ![p] = TRUE]
  /\ acquired' = [acquired EXCEPT ![p] = "calling"]
  /\ UNCHANGED <<main, leading, reconciled, asked, obsAge, reach, outdated>>

\* The update is applied and its reply is lost.
TakeUnheard(p) ==
  /\ CanTake(p)
  /\ lease' = p /\ seen' = Unseen
  /\ UNCHANGED <<procVars, electVars, reach, outdated>>

\* OnStartedLeading, whenever the scheduler lets it run.
StartedLeading(p) ==
  /\ acquired[p] = "calling"
  /\ acquired' = [acquired EXCEPT ![p] = "sent"]
  /\ leading' = [leading EXCEPT ![p] = TRUE]
  /\ UNCHANGED <<main, reconciled, asked, electVars, seen, lease, reach, outdated>>

Renew(p) ==
  /\ elector[p] = "renewing" /\ ~Cancelled(p) /\ p \in reach /\ lease = p
  /\ renewAge' = [renewAge EXCEPT ![p] = 0]
  /\ seen' = Unseen
  /\ UNCHANGED <<procVars, elector, ctx, obsAge, lease, reach, outdated>>

RenewUnheard(p) ==
  /\ elector[p] = "renewing" /\ lease = p
  /\ seen' = Unseen
  /\ UNCHANGED <<procVars, electVars, lease, reach, outdated>>

\* renew ends: its context is cancelled, or every attempt failed until the
\* deadline.  Either way the elector tries to release the lease.
StopRenewing(p) ==
  /\ elector[p] = "renewing"
  /\ Cancelled(p) \/ (p \notin reach /\ renewAge[p] >= RenewDeadline)
  /\ elector' = [elector EXCEPT ![p] = "releasing"]
  /\ UNCHANGED <<procVars, ctx, renewAge, obsAge, seen, lease, reach, outdated>>

Release(p) ==
  /\ elector[p] = "releasing" /\ p \in reach /\ lease = p
  /\ lease' = Nobody /\ seen' = Unseen
  /\ UNCHANGED <<procVars, electVars, reach, outdated>>

\* Run returns: the leading context is cancelled and OnStoppedLeading called.
\* A campaign that is cancelled has nothing to release.
RunReturns(p) ==
  /\ \/ elector[p] = "acquiring" /\ Cancelled(p)
     \/ elector[p] = "releasing" /\ ~(p \in reach /\ lease = p)
  /\ elector' = [elector EXCEPT ![p] = "done"]
  /\ ctx' = [ctx EXCEPT ![p] = FALSE]
  /\ leading' = [leading EXCEPT ![p] = FALSE]
  /\ UNCHANGED <<main, acquired, reconciled, asked, renewAge, obsAge, seen, lease, reach, outdated>>

----------------------------------------------------------------------------
(* The kubelet, the rolling update, the network and time.                  *)

\* Mutant: a standby is not ready.
ReadyOnlyLeading(p) == main[p] = "looping" /\ reconciled[p]

\* /readyz: standbyReady for a process that campaigns, else Controller.Ready,
\* which wants a completed reconcile.
Ready(p) ==
  \/ main[p] = "looping" /\ reconciled[p]
  \/ main[p] \in {"campaigning", "looping", "releasing"} /\ UsesLease(p) /\ ~leading[p]

Signalled(p) ==
  /\ main[p] # "down" /\ ~asked[p]
  /\ asked' = [asked EXCEPT ![p] = TRUE]
  /\ UNCHANGED <<main, acquired, leading, reconciled, electVars, seen, lease, reach, outdated>>

\* The rolling update stops an old pod once a new one is ready.
Roll(p) ==
  /\ p \in outdated
  /\ \E q \in Pods \ outdated : Ready(q)
  /\ Signalled(p)

\* A drained node, an operator's kubectl delete pod: the pod is replaced.
Terminate(p) == p \in Pods \ outdated /\ Signalled(p)

\* A crash, an OOM kill, the kill at the end of the grace period.
Crash(p) == main[p] # "down" /\ Gone(p)

Partition(p) ==
  /\ p \in reach /\ UsesLease(p)
  /\ reach' = reach \ {p}
  /\ UNCHANGED <<procVars, electVars, seen, lease, outdated>>

Heal(p) ==
  /\ p \notin reach
  /\ reach' = reach \cup {p}
  /\ UNCHANGED <<procVars, electVars, seen, lease, outdated>>

\* No deadline passes unnoticed: those of renew and of the release call, and
\* the time a loop needs to return once its lease has run out.
InTime(p) ==
  /\ elector[p] = "renewing" =>
       renewAge[p] < IF p \in reach THEN RetryPeriod ELSE GiveUpAt
  /\ elector[p] = "releasing" => renewAge[p] < GiveUpAt + ReleaseWithin
  /\ main[p] = "looping" /\ UsesLease(p) =>
       renewAge[p] < Longest

\* Bounds on the counters: nothing is told apart beyond them.
Capped(n, most) == IF n < most THEN n ELSE most
Oldest == IF Longest < LeaseDuration THEN LeaseDuration ELSE Longest

Tick ==
  /\ \A p \in Processes : InTime(p)
  /\ renewAge' = [p \in Processes |->
                    IF elector[p] \in {"off", "acquiring"} THEN 0
                    ELSE Capped(renewAge[p] + 1, Oldest)]
  /\ obsAge' = [p \in Processes |-> IF seen[p] THEN Capped(obsAge[p] + 1, LeaseDuration)
                                        ELSE 0]
  /\ UNCHANGED <<procVars, elector, ctx, seen, lease, reach, outdated>>

----------------------------------------------------------------------------
\* One process runs, or none, and a rolling update may have begun; a process
\* whose predecessor went without releasing finds the lease Departed's.
Init ==
  /\ main = [p \in Processes |-> "down"]
  /\ elector = [p \in Processes |-> "off"]
  /\ acquired = [p \in Processes |-> "no"]
  /\ ctx = [p \in Processes |-> FALSE]
  /\ leading = [p \in Processes |-> FALSE]
  /\ reconciled = [p \in Processes |-> FALSE]
  /\ asked = [p \in Processes |-> FALSE]
  /\ renewAge = [p \in Processes |-> 0]
  /\ seen = Unseen
  /\ obsAge = [p \in Processes |-> 0]
  /\ lease \in {Nobody, Departed}
  /\ reach = Processes
  /\ outdated \in Rollouts

MainStep(p) ==
  \/ Start(p) \/ Serve(p) \/ StandDown(p) \/ ElectionEnded(p)
  \/ Lead(p) \/ Reconcile(p) \/ LoopReturns(p) \/ Exit(p)

ElectorStep(p) ==
  \/ Look(p) \/ Take(p) \/ StartedLeading(p) \/ Renew(p)
  \/ StopRenewing(p) \/ Release(p) \/ RunReturns(p)

\* What happens when nothing goes wrong.
Calm ==
  \/ \E p \in Processes : MainStep(p) \/ ElectorStep(p) \/ Roll(p)
  \/ Tick

Fault(p) ==
  \/ StartFails(p) \/ TakeUnheard(p) \/ RenewUnheard(p)
  \/ Terminate(p) \/ Crash(p) \/ Partition(p) \/ Heal(p)

Next == Calm \/ \E p \in Processes : Fault(p)

Spec == Init /\ [][Next]_vars

\* The kubelet starts what should run, goroutines are scheduled, a ready pod
\* lets the rolling update go on, and time passes.
Fairness ==
  /\ \A p \in Processes :
       /\ WF_vars(Start(p)) /\ WF_vars(Serve(p)) /\ WF_vars(Reconcile(p))
       /\ WF_vars(StandDown(p) \/ ElectionEnded(p) \/ Lead(p))
       /\ WF_vars(LoopReturns(p) \/ Exit(p))
       /\ WF_vars(Look(p) \/ Take(p))
       /\ WF_vars(StartedLeading(p)) /\ WF_vars(Renew(p))
       /\ WF_vars(StopRenewing(p) \/ Release(p) \/ RunReturns(p))
       /\ WF_vars(Roll(p))
  /\ WF_vars(Tick)

FairSpec == Spec /\ Fairness

----------------------------------------------------------------------------
(* Properties.                                                             *)

\* A reconcile that can write may be under way.
Acts(p) == main[p] = "looping" /\ CanWrite(p)

\* The elector failed to renew until its deadline and ended by itself; the loop
\* is told only when the release call that follows has returned.
GaveUp(p) ==
  UsesLease(p) /\ elector[p] \in {"releasing", "done"} /\ renewAge[p] >= RenewDeadline

\* Of the processes that have not given up at most one acts, through every
\* shutdown, rolling update, crash, partition, lost reply, expiry and early
\* release, with a -once beside them (FR-26; the order of lead's two stops).
OneLeader ==
  \A p, q \in Processes :
    Acts(p) /\ ~GaveUp(p) /\ Acts(q) /\ ~GaveUp(q) => p = q

\* Not so, and no run's property: what lease.go:35-38 says of the timing, that by
\* the time a successor can acquire, LeaseDuration after the last renewal, the old
\* leader has stopped leading.  Its release call may outlast the lease.
TakenOnlyWhenStopped ==
  [][\A p, q \in Processes :
       p # q /\ lease = p /\ lease' = q => ~Acts(p)]_vars

\* Not so, and no run's property: what leader.go:124-126 says of the release, that
\* the lease is only given up by a process that has stopped acting under it.  An
\* elector that gave up releases before it cancels the leading context.
ReleasedOnlyWhenStopped ==
  [][\A p \in Processes : lease = p /\ lease' = Nobody => ~Acts(p)]_vars

\* Once nothing fails any more, some process that the rolling update does not
\* replace leads, and goes on leading: nobody stands by for ever, waits for a
\* readiness that needs the lease, or keeps the lease without acting.
LeaderReturns ==
  /\ <>[][Calm]_vars
  /\ <>[](reach = Processes)
  => <>[](\E p \in Pods \ outdated : Acts(p))
============================================================================
