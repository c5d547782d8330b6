----------------------------- MODULE Controller -----------------------------
(***************************************************************************)
(* The reconcile loop (internal/controller) acting on one Deployment       *)
(* through the scale subresource, together with the parts of the cluster   *)
(* it races with: the API server that holds spec.replicas, the informer    *)
(* cache that lags it, other writers of the replica count, requests whose  *)
(* reply is lost, and the death of the process.                            *)
(*                                                                         *)
(* The steps of one Reconcile that other actors can interleave with are    *)
(* actions of their own: Observe (the reads from the caches, Decide and    *)
(* applyDecisionState, which share no state with anyone else), the live    *)
(* read and the conditional update of each actuation attempt, and the      *)
(* folding of its outcome.                                                 *)
(*                                                                         *)
(* resourceVersions are represented by whether the version a request       *)
(* carries is still the object's: any write to the Deployment ends that    *)
(* for every request in flight.                                            *)
(***************************************************************************)
EXTENDS ScalingEngine, Sequences

CONSTANTS
  InitialCounts,      \* spec.replicas when the model starts
  ForeignCounts,      \* what other writers set spec.replicas to
  PodHealths,         \* [unready, pending, pendingAge, unmat, unhealthyAge]
  Conditions,         \* [rollout, hpa, fit]
  BacklogSignals,     \* members of Signal
  CpuSignals,         \* members of Signal
  Views,              \* how far observe gets: "none", "target", "full"
  Faults,             \* {"timeout", "refused", "crash"}: what may go wrong
  MaxLag,             \* bound: changes the watch has not yet delivered
  MaxActuation        \* bound: intervals one actuation may take

ASSUME CountAssumption ==
  InitialCounts \subseteq Nat /\ ForeignCounts \subseteq Nat
ASSUME EnvironmentAssumption ==
  /\ PodHealths \subseteq [unready : Int, pending : Nat, pendingAge : Nat,
                           unmat : Nat, unhealthyAge : Nat]
  /\ Conditions \subseteq [rollout : BOOLEAN, hpa : BOOLEAN, fit : Nat]
  /\ BacklogSignals \subseteq Signal /\ CpuSignals \subseteq Signal
  /\ Views \subseteq {"none", "target", "full"}
  /\ Faults \subseteq {"timeout", "refused", "crash"}
  /\ MaxLag \in Nat /\ MaxActuation \in Nat

None == -1

VARIABLES
  state,     \* the controller's `state` struct
  pc,        \* "idle", "read" (before GetScale), "await" (UpdateScale sent)
  due,       \* the interval ticker has fired and Run has not consumed it
  elapsed,   \* intervals since the current Reconcile read its clock
  decision,  \* the decision being actuated
  put,       \* the awaited UpdateScale: "none", "sent", or its outcome
  putFresh,  \* its resourceVersion is still the Deployment's
  orphans,   \* updates whose sender gave up or died, still applicable
  live,      \* spec.replicas at the API server
  feed,      \* changes of it the watch has not delivered: [replicas, own]
  cached,    \* spec.replicas in the informer cache
  foreign,   \* history: since observe, a change was delivered that no update
             \* awaited by this process had made
  uptime,    \* history: intervals since this process started, saturating
  floor,     \* history: the count before our last applied scale-up
  author     \* history: who wrote live last

ctlVars == <<state, pc, due, elapsed, decision>>
apiVars == <<live, feed, cached, foreign, floor, author>>
vars == <<ctlVars, put, putFresh, orphans, apiVars, uptime>>

----------------------------------------------------------------------------
(* Types.                                                                  *)

ControllerState ==
  [sinceUp : Age, sinceDown : Age, history : SUBSET Sample,
   backoff : BackoffState, lastGood : Nat,
   observed : Nat, hasBaseline : BOOLEAN, drifts : SUBSET Age,
   lastWritten : Nat \cup {None},
   unmatAge : Age \cup {None}, remediated : BOOLEAN, fatal : BOOLEAN]

Update == [from : Nat, to : Nat]

\* state is well typed between any two steps, whatever other actors did.
TypeOK ==
  /\ state \in ControllerState
  /\ pc \in {"idle", "read", "await"}
  /\ due \in BOOLEAN
  /\ elapsed \in Age
  /\ decision \in Decision
  /\ put \in {"none", "sent", "applied", "conflict", "refused"}
  /\ putFresh \in BOOLEAN
  /\ orphans \subseteq Update
  /\ live \in Nat
  /\ feed \in Seq([replicas : Nat, own : BOOLEAN])
  /\ cached \in Nat
  /\ foreign \in BOOLEAN
  /\ uptime \in Age
  /\ floor \in Nat
  /\ author \in {"controller", "other"}

----------------------------------------------------------------------------
(* The controller's memory.                                                *)

\* New(): the zero value of every field but a cleared backoff.
FreshState ==
  [sinceUp |-> Horizon, sinceDown |-> Horizon, history |-> {},
   backoff |-> ClearBackoff, lastGood |-> 0,
   observed |-> 0, hasBaseline |-> FALSE, drifts |-> {},
   lastWritten |-> None, unmatAge |-> None,
   remediated |-> FALSE, fatal |-> FALSE]

\* trackUnmaterialised
TrackUnmaterialised(st, unmat) ==
  [st EXCEPT !.unmatAge = IF unmat = 0 THEN None
                          ELSE IF @ = None THEN 0 ELSE @]

\* Mutant: external changes are never forgotten.
EveryDrift(ages) == ages

InDriftWindow(ages) == {a \in ages : a <= Window}

\* Mutant: our own write coming back is taken for somebody else's.
IsAnyChange(st, count) == st.hasBaseline /\ count # st.observed

\* trackExternalDrift
IsDrift(st, count) ==
  st.hasBaseline /\ count # st.observed /\ count # st.lastWritten

TrackExternalDrift(st, count) ==
  IF ~st.hasBaseline
  THEN [st EXCEPT !.hasBaseline = TRUE, !.observed = count, !.lastGood = count]
  ELSE IF IsDrift(st, count)
  THEN [st EXCEPT !.observed = count, !.lastGood = count, !.history = {},
                  !.drifts = InDriftWindow(@ \cup {0})]
  ELSE [st EXCEPT !.observed = count, !.drifts = InDriftWindow(@)]

\* applyDecisionState, with pruneHistory's retention of two windows
ApplyDecisionState(st, d) ==
  [st EXCEPT
     !.history = IF d.demandComputed
                 THEN {x \in @ \cup {[age |-> 0, desired |-> d.desired]} :
                         x.age <= 2 * Window}
                 ELSE @,
     !.backoff = d.backoff]

\* applyWriteState; the reconcile read its clock `age` intervals ago
ApplyWriteState(st, d, age) ==
  IF d.reason \in {"ScaleUp", "ScaleUpPartial"}
  THEN [st EXCEPT !.lastWritten = d.target, !.sinceUp = age, !.lastGood = d.from]
  ELSE [st EXCEPT !.lastWritten = d.target, !.sinceDown = age]

\* recordRemediation: a revert counts once it has been applied
RecordRemediation(st, d, applied) ==
  [st EXCEPT !.remediated =
     d.timedOut /\ (@ \/ d.reason # "RevertPendingPods" \/ applied)]

----------------------------------------------------------------------------
(* observe.                                                                *)

NoPods ==
  [unready |-> 0, pending |-> 0, pendingAge |-> 0, unmat |-> 0, unhealthyAge |-> 0]

\* The snapshot copies the controller's memory before the trackers run.
SnapshotOf(st, tracked, view, health, condition, backlog, cpu) ==
  LET seen == view # "none"
      pods == IF seen THEN health ELSE NoPods
  IN
  [valid |-> view = "full",
   current |-> IF seen THEN cached ELSE 0,
   ready |-> IF seen THEN cached - pods.unready ELSE 0,
   backlog |-> backlog, cpu |-> cpu, fit |-> condition.fit,
   rollout |-> condition.rollout, hpa |-> condition.hpa,
   drifts |-> Cardinality(tracked.drifts),
   sinceUp |-> st.sinceUp, sinceDown |-> st.sinceDown,
   history |-> st.history, backoff |-> st.backoff, lastGood |-> st.lastGood,
   pending |-> pods.pending, pendingAge |-> pods.pendingAge,
   unhealthyAge |-> pods.unhealthyAge, unmat |-> pods.unmat,
   unmatAge |-> IF pods.unmat = 0 THEN 0 ELSE tracked.unmatAge]

\* The trackers run once the Deployment has been read.
Tracked(view, health) ==
  IF view = "none" THEN state
  ELSE TrackExternalDrift(TrackUnmaterialised(state, health.unmat), cached)

\* `unready` and `unmat` are differences with the count, which the pods may
\* exceed while a scale-down is being carried out: `unready` is negative then.
Plausible(health) == health.unready <= cached /\ health.unmat <= cached

\* ScaleActuator.validate
Valid(d) == d.target \in MinReplicas..MaxReplicas /\ d.target # d.from

\* What `decision` holds between reconciles: nothing anyone reads.
IdleDecision ==
  [reason |-> "ErrorAPIFailure", from |-> 0, target |-> 0,
   backoff |-> ClearBackoff, demandComputed |-> FALSE, desired |-> 0,
   timedOut |-> FALSE]

\* Reconcile up to the first call of the actuator.  A hold, and a decision the
\* actuator refuses, end the reconcile here.
Observe(view, health, condition, backlog, cpu) ==
  LET tracked == Tracked(view, health)
      d       == Decide(SnapshotOf(state, tracked, view, health, condition, backlog, cpu))
      decided == ApplyDecisionState(tracked, d)
      acts    == IsWrite(d) /\ Valid(d)
  IN
  /\ pc = "idle" /\ due
  /\ Plausible(health)
  /\ due' = FALSE
  /\ elapsed' = 0
  /\ foreign' = (foreign /\ view = "none")
  /\ IF acts
     THEN pc' = "read" /\ decision' = d /\ state' = decided
     ELSE /\ UNCHANGED <<pc, decision>>
          /\ state' = RecordRemediation(decided, d, ~IsWrite(d))
  /\ UNCHANGED <<put, putFresh, orphans, live, feed, cached, uptime, floor, author>>

----------------------------------------------------------------------------
(* The actuator: attempts of read, check, conditional write.               *)

\* The end of Apply and of Reconcile.
Finish(st) ==
  /\ state' = st
  /\ pc' = "idle"
  /\ decision' = IdleDecision
  /\ elapsed' = 0
  /\ put' = "none" /\ putFresh' = FALSE

FinishFailed(fatal) ==
  Finish([RecordRemediation(state, decision, FALSE) EXCEPT !.fatal = @ \/ fatal])

\* Mutant: the live count is not compared with the one decided from.
ReadLiveUnchecked ==
  /\ pc = "read"
  /\ pc' = "await" /\ put' = "sent" /\ putFresh' = TRUE
  /\ UNCHANGED <<state, due, elapsed, decision, orphans, apiVars, uptime>>

\* GetScale answers with the count that was decided from: UpdateScale is sent
\* with the version just read.
ReadLive ==
  /\ pc = "read"
  /\ live = decision.from
  /\ pc' = "await" /\ put' = "sent" /\ putFresh' = TRUE
  /\ UNCHANGED <<state, due, elapsed, decision, orphans, apiVars, uptime>>

\* GetScale answers with another count: ErrScaleStale.
ReadStale ==
  /\ pc = "read"
  /\ live # decision.from
  /\ FinishFailed(FALSE)
  /\ UNCHANGED <<due, orphans, apiVars, uptime>>

\* GetScale fails for good (forbidden, not found), or until the budget is
\* spent.  (A read that fails and is retried changes nothing.)
ReadFails(fatal) ==
  /\ pc = "read"
  /\ (IF fatal THEN "refused" ELSE "timeout") \in Faults
  /\ FinishFailed(fatal)
  /\ UNCHANGED <<due, orphans, apiVars, uptime>>

\* UpdateScale's reply says it was applied.
ReplyApplied ==
  /\ pc = "await" /\ put = "applied"
  /\ Finish(RecordRemediation(ApplyWriteState(state, decision, elapsed), decision, TRUE))
  /\ UNCHANGED <<due, orphans, apiVars, uptime>>

\* ErrScaleConflict and ErrScaleFatal end the reconcile; neither is retried.
ReplyRefused ==
  /\ pc = "await" /\ put \in {"conflict", "refused"}
  /\ FinishFailed(put = "refused")
  /\ UNCHANGED <<due, orphans, apiVars, uptime>>

\* What becomes of an awaited update nobody waits for any longer: lost, or,
\* if the server has not answered it and its version holds, still applicable.
Abandon ==
  \/ orphans' = orphans
  \/ /\ put = "sent" /\ putFresh
     /\ orphans' = orphans \cup {[from |-> decision.from, to |-> decision.target]}

\* No reply, or a 5xx: retried from the read, or given up when the retry
\* budget is spent.  The server may have applied the update all the same.
ReplyLost(retry) ==
  /\ pc = "await" /\ "timeout" \in Faults
  /\ Abandon
  /\ IF retry
     THEN /\ pc' = "read" /\ put' = "none" /\ putFresh' = FALSE
          /\ UNCHANGED <<state, decision, elapsed>>
     ELSE FinishFailed(FALSE)
  /\ UNCHANGED <<due, apiVars, uptime>>

----------------------------------------------------------------------------
(* The API server and its watch.                                           *)

\* A write of spec.replicas: every version handed out before is stale.
\* `by` is the update this process awaits, one whose sender gave up or died
\* ("orphan"), or another writer ("other").
SetReplicas(count, by) ==
  /\ Len(feed) < MaxLag
  /\ live' = count
  /\ feed' = Append(feed, [replicas |-> count, own |-> by = "awaited"])
  /\ putFresh' = FALSE
  /\ orphans' = {}
  /\ floor' = IF by # "other" /\ count > live THEN live ELSE floor
  /\ author' = IF by # "other" THEN "controller" ELSE "other"

\* Mutant: the update carries no resourceVersion, so nothing stops it.
ServerAppliesBlindly ==
  /\ put = "sent"
  /\ SetReplicas(decision.target, "awaited")
  /\ put' = "applied"
  /\ UNCHANGED <<ctlVars, cached, foreign, uptime>>

ServerApplies ==
  /\ put = "sent" /\ putFresh
  /\ SetReplicas(decision.target, "awaited")
  /\ put' = "applied"
  /\ UNCHANGED <<ctlVars, cached, foreign, uptime>>

ServerConflicts ==
  /\ put = "sent" /\ ~putFresh
  /\ put' = "conflict"
  /\ UNCHANGED <<ctlVars, putFresh, orphans, apiVars, uptime>>

ServerRefuses ==
  /\ put = "sent" /\ "refused" \in Faults
  /\ put' = "refused"
  /\ UNCHANGED <<ctlVars, putFresh, orphans, apiVars, uptime>>

\* An update reaches the server after its sender stopped waiting for it.
OrphanApplies(o) ==
  /\ o \in orphans
  /\ SetReplicas(o.to, "orphan")
  /\ UNCHANGED <<ctlVars, put, cached, foreign, uptime>>

\* kubectl scale, a GitOps controller, another autoscaler.
ForeignWrite(count) ==
  /\ count # live
  /\ SetReplicas(count, "other")
  /\ UNCHANGED <<ctlVars, put, cached, foreign, uptime>>

\* A write to the Deployment that leaves spec.replicas alone, such as a status
\* update: it moves the resourceVersion all the same.
OtherUpdate ==
  /\ put = "sent" /\ putFresh
  /\ putFresh' = FALSE /\ orphans' = {}
  /\ UNCHANGED <<ctlVars, put, apiVars, uptime>>

\* The watch delivers the oldest changes; a relist skips the ones in between.
Deliver(n) ==
  /\ n \in 1..Len(feed)
  /\ cached' = feed[n].replicas
  /\ feed' = SubSeq(feed, n + 1, Len(feed))
  /\ foreign' = (foreign \/ \E i \in 1..n : ~feed[i].own)
  /\ UNCHANGED <<ctlVars, put, putFresh, orphans, live, uptime, floor, author>>

----------------------------------------------------------------------------
(* Time, and the death of the process.                                     *)

Older(age) == Smaller(age + 1, Horizon)

AgeState(st) ==
  [st EXCEPT
     !.sinceUp = Older(@), !.sinceDown = Older(@),
     !.history = {[age |-> Older(x.age), desired |-> x.desired] : x \in @},
     !.backoff.wait = Larger(@ - 1, 0),
     !.drifts = {Older(a) : a \in @},
     !.unmatAge = IF @ = None THEN None ELSE Older(@)]

\* One interval passes and the ticker fires.
Tick ==
  /\ pc # "idle" => elapsed < MaxActuation
  /\ state' = AgeState(state)
  /\ due' = TRUE
  /\ elapsed' = IF pc = "idle" THEN 0 ELSE Older(elapsed)
  /\ uptime' = Older(uptime)
  /\ UNCHANGED <<pc, decision, put, putFresh, orphans, apiVars>>

\* The process dies (crash, lost lease, rollout of the controller) and another
\* starts with nothing; Run reconciles at once.  Its caches start from the
\* live object.
Restart ==
  /\ "crash" \in Faults
  /\ Abandon
  /\ Finish(FreshState)
  /\ due' = TRUE
  /\ cached' = live /\ feed' = <<>> /\ foreign' = FALSE
  /\ uptime' = 0
  /\ UNCHANGED <<live, floor, author>>

----------------------------------------------------------------------------
Init ==
  /\ state = FreshState
  /\ pc = "idle" /\ due = TRUE /\ elapsed = 0
  /\ decision = IdleDecision
  /\ put = "none" /\ putFresh = FALSE /\ orphans = {}
  /\ live \in InitialCounts /\ cached = live /\ feed = <<>>
  /\ foreign = FALSE /\ uptime = 0 /\ floor = live /\ author = "other"

Reconciling ==
  \E view \in Views, health \in PodHealths, condition \in Conditions,
     backlog \in BacklogSignals, cpu \in CpuSignals :
     Observe(view, health, condition, backlog, cpu)

Actuating ==
  \/ ReadLive
  \/ ReadStale
  \/ \E fatal \in BOOLEAN : ReadFails(fatal)
  \/ ReplyApplied
  \/ ReplyRefused
  \/ \E retry \in BOOLEAN : ReplyLost(retry)

Serving ==
  \/ ServerApplies
  \/ ServerConflicts
  \/ ServerRefuses
  \/ \E o \in orphans : OrphanApplies(o)
  \/ \E n \in 1..Len(feed) : Deliver(n)

Next ==
  \/ Reconciling
  \/ Actuating
  \/ Serving
  \/ \E count \in ForeignCounts : ForeignWrite(count)
  \/ OtherUpdate
  \/ Tick
  \/ Restart

Spec == Init /\ [][Next]_vars

\* The ticker fires; Run reconciles on every tick it finds; an actuation goes
\* on to its end, which its retry budget guarantees; the server answers and
\* the watch delivers.  An abandoned update need never be applied, and nobody
\* else need ever write.
Fairness ==
  /\ WF_vars(Tick)
  /\ WF_vars(Reconciling)
  /\ WF_vars(Actuating)
  /\ WF_vars(ServerApplies \/ ServerConflicts)
  /\ WF_vars(\E n \in 1..Len(feed) : Deliver(n))

FairSpec == Spec /\ Fairness

----------------------------------------------------------------------------
(* Properties.                                                             *)

Acting(reason) == pc # "idle" /\ decision.reason = reason

\* A process that has just started has seen no quiet window, however quiet the
\* first samples are: no demand-driven scale-down is under way until it has
\* itself run for a whole stabilization window (WindowCovered; E2E-11).
RestartIsDamped == Acting("ScaleDown") => uptime >= Window

\* Every update that can still take effect, the one being awaited or one whose
\* sender is gone, was decided from the count that stands and asks for another
\* one in the policy's range (validate, the staleness check of attempt, and the
\* resourceVersion precondition of ScaleWriter.Write).
UpdatesAreCurrent ==
  /\ pc # "idle" => Valid(decision)
  /\ put # "none" => pc = "await"
  /\ put = "sent" /\ putFresh => live = decision.from
  /\ \A o \in orphans :
       o.from = live /\ o.to \in MinReplicas..MaxReplicas /\ o.to # o.from

\* A revert the server applies takes back at most what our own last applied
\* scale-up added, although the process that sent that scale-up may have died
\* since, its update may have been applied after its death, and the count the
\* revert was decided from may be stale.  A process that has written nothing
\* yet is excepted (RevertRespectsLastGood), and so are lost replies, after
\* which the controller does not know its own last scale-up (DriftIsForeign).
RevertStopsAtFloor ==
  [][Acting("RevertPendingPods") /\ state.lastWritten # None
       /\ put = "sent" /\ put' = "applied"
       => live' >= Clamp(floor)]_vars

\* A change trackExternalDrift counts as external was made by someone else
\* (the code's reason for lastWrittenReplicas).
DriftIsForeign ==
  [][0 \in state'.drifts => 0 \in state.drifts \/ foreign]_vars

\* A step that observes the target, not merely starts a new process.
Observes == due /\ ~due'

\* Not so, and no run's property: every revert being actuated respects the floor
\* the controller holds by then, the count it adopted when it started, or when
\* somebody else changed it.  The snapshot's floor was read before that observe
\* set it (trackExternalDrift).
RevertRespectsLastGood ==
  Acting("RevertPendingPods") => decision.target >= Clamp(state.lastGood)

\* An observe that finds somebody else's count where our last write should be
\* counts an external change, so that a GitOps loop which undoes every write
\* exhausts the tolerance (FR-31, IT-13).
OverrideIsDrift ==
  [][(/\ Observes
      /\ author = "other" /\ cached = live
      /\ state.lastWritten \notin {None, state.observed, cached})
       => 0 \in state'.drifts]_vars

\* The proposals of the abstract register: the decision being actuated, and
\* the updates left behind by attempts and processes that are gone.
Proposals ==
  orphans \cup
  (IF pc = "idle" THEN {} ELSE {[from |-> decision.from, to |-> decision.target]})

Register == INSTANCE ReplicaRegister
  WITH MinCount <- MinReplicas, MaxCount <- MaxReplicas,
       replicas <- live, proposals <- Proposals

\* Every change the controller makes to spec.replicas is a compare-and-set from
\* the count its decision was computed for, into the policy's range: through
\* retries, lost replies, updates applied after their process died, and any
\* interleaving with other writers (ScaleActuator.attempt's staleness check
\* with ScaleWriter.Write's resourceVersion precondition, FR-05).
ImplementsRegister == Register!RegisterSpec
============================================================================
