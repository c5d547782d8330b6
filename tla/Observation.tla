----------------------------- MODULE Observation -----------------------------
(***************************************************************************)
(* What the controller makes of its target (kubernetes/target.go): whether *)
(* a rollout is in progress, which ReplicaSet the target converges on, and *)
(* how many replicas never became pods (FS-10), all inferred from the      *)
(* informer caches of Deployments, ReplicaSets and pods, which lag the     *)
(* cluster independently of each other.                                    *)
(*                                                                         *)
(* The cluster itself, the Deployment and ReplicaSet controllers, the      *)
(* kubelet, a ResourceQuota and the people who change the Deployment, is   *)
(* external.  A generation is represented by whether the Deployment        *)
(* controller has observed it.                                             *)
(***************************************************************************)
EXTENDS Integers, FiniteSets, FiniteSetsExt

CONSTANTS
  Templates,     \* pod templates the Deployment may have
  MaxReplicas,   \* bound: the largest spec.replicas
  MaxChanges,    \* bound: writes of the spec, of the quota, and evictions
  PendingTimeout \* pendingPodTimeout, in reconciles

ASSUME ObservationAssumption ==
  /\ IsFiniteSet(Templates) /\ Templates # {} /\ MaxReplicas \in Nat \ {0}
  /\ MaxChanges \in Nat
  /\ PendingTimeout \in Nat

VARIABLES
  dep,      \* the Deployment: replicas, template, recreate (its strategy, else
            \* a rolling update), paused, observed, updated, and sized: the
            \* replicas its sets were last sized for (their annotation)
  sets,     \* its ReplicaSets by template: revision (0: none), created, want, have
  pods,     \* their pods by template and state: how many there are
  blocked,  \* a ResourceQuota refuses new pods
  changes,
  seenSets, \* the informer cache of ReplicaSets
  report,   \* of the last TargetState: rollout, current, unmat
  stuckFor  \* reconciles since unmaterialisedSince, saturating, or NotStuck

cluster == <<dep, sets, pods, blocked, changes>>
vars    == <<cluster, seenSets, report, stuckFor>>

NotStuck == -1
NoSet == "none"

\* Unscheduled; scheduled and not ready; ready; evicted; being deleted.
States == {"pending", "starting", "ready", "failed", "leaving"}
Active == {"pending", "starting", "ready"}

-----------------------------------------------------------------------------
(* ObserveTarget, of a Deployment d, ReplicaSets s and pods p.             *)

SumOf(p, t, phases) == MapThenSumSet(LAMBDA x : p[t][x], phases)

Exists(s) == {t \in Templates : s[t].revision > 0}

(* The set created last, which is not always the newest.                   *)
LastCreated(s) ==
  IF Exists(s) = {} THEN NoSet
  ELSE CHOOSE t \in Exists(s) : \A u \in Exists(s) : s[t].created >= s[u].created

(* currentReplicaSet: the highest revision.                                *)
CurrentSet(s) ==
  IF Exists(s) = {} THEN NoSet
  ELSE CHOOSE t \in Exists(s) : \A u \in Exists(s) : s[t].revision >= s[u].revision

(* scaleAheadOfPods: no other set holds or wants replicas.                 *)
ScaleAheadOfPods(d, s, current) ==
  /\ d.observed
  /\ d.updated < d.replicas
  /\ \A t \in Exists(s) \ {current} : s[t].have = 0 /\ s[t].want = 0

(* A plausible mistake: any shortfall of updated replicas is a rollout.    *)
RolloutByStatus(d, s) == ~d.observed \/ d.updated # d.replicas

(* A plausible mistake: the status is trusted before it is of this spec.   *)
RolloutByCount(d, s) ==
  /\ d.updated # d.replicas
  /\ ~ScaleAheadOfPods([d EXCEPT !.observed = TRUE], s, CurrentSet(s))

RolloutInProgress(d, s) ==
  /\ ~d.observed \/ d.updated # d.replicas
  /\ ~(CurrentSet(s) # NoSet /\ ScaleAheadOfPods(d, s, CurrentSet(s)))

(* The shortfall of the current set; a pod that failed is no active pod.   *)
TargetState(d, s, p) ==
  LET current == CurrentSet(s)
      rollout == RolloutInProgress(d, s)
      active  == IF current = NoSet THEN 0 ELSE SumOf(p, current, Active)
  IN  [rollout   |-> rollout,
       current   |-> current,
       unmat     |-> IF current # NoSet /\ ~rollout /\ d.replicas > active
                     THEN d.replicas - active ELSE 0]

(* trackUnmaterialised: the clock runs while there is any shortfall.       *)
TrackUnmaterialised(unmat) ==
  IF unmat = 0 THEN NotStuck
  ELSE IF stuckFor = PendingTimeout THEN PendingTimeout ELSE stuckFor + 1

(* The target's part of one reconcile.                                     *)
Observe ==
  /\ report' = TargetState(dep, seenSets, pods)
  /\ stuckFor' = TrackUnmaterialised(report'.unmat)
  /\ UNCHANGED <<cluster, seenSets>>

-----------------------------------------------------------------------------
(* The watch of ReplicaSets, which may be behind those of the others.      *)

SyncReplicaSets ==
  /\ seenSets' = sets
  /\ UNCHANGED <<cluster, report, stuckFor>>

-----------------------------------------------------------------------------
(* The people who change the target, and the quota.                        *)

Change == changes < MaxChanges /\ changes' = changes + 1 /\ UNCHANGED <<sets, seenSets, report, stuckFor>>

\* One write of the spec: the controller's own of the count, a deployment of a
\* new template or of an old one again, a pause or its end, or several at once.
Write(n, t, paused) ==
  /\ Change /\ <<n, t, paused>> # <<dep.replicas, dep.template, dep.paused>>
  /\ dep' = [dep EXCEPT !.replicas = n, !.template = t, !.paused = paused, !.observed = FALSE]
  /\ UNCHANGED <<blocked, pods>>

Quota == Change /\ blocked' = ~blocked /\ UNCHANGED <<dep, pods>>

-----------------------------------------------------------------------------
(* The Deployment controller, with maxSurge 1 and maxUnavailable 0.        *)

Unseen == UNCHANGED <<blocked, changes, seenSets, report, stuckFor>>

MaxRevision == Max({sets[t].revision : t \in Templates})
Newest == dep.template
IsCurrent == sets[Newest].revision > 0 /\ sets[Newest].revision = MaxRevision
Others == Templates \ {Newest}
Held(t) == SumOf(pods, t, Active)
TotalWanted == MapThenSumSet(LAMBDA t : sets[t].want, Templates)

\* syncDeployment's two ways: to scale what there is, when a set that wants pods
\* was sized for another count or while the Deployment is paused, or to roll out.
Wanting == {t \in Templates : sets[t].want > 0}
RollsOut == ~dep.paused /\ (dep.sized = dep.replicas \/ Wanting = {})

\* The set of the template is created, or an old one becomes it again, which
\* every sync sees to.  It is created by a rollout only, and with Recreate only
\* once no pod of another is left.
AdoptTemplate ==
  /\ ~IsCurrent
  /\ sets[Newest].revision = 0 =>
       /\ RollsOut
       /\ dep.recreate => \A t \in Others : SumOf(pods, t, Active \cup {"leaving"}) = 0
  /\ sets' = [sets EXCEPT ![Newest].revision = MaxRevision + 1,
                          ![Newest].created = IF @ = 0 THEN MaxRevision + 1 ELSE @]
  /\ Unseen /\ UNCHANGED <<dep, pods>>

ResizeNew ==
  /\ RollsOut /\ IsCurrent
  /\ dep.recreate => \A t \in Others : SumOf(pods, t, Active \cup {"leaving"}) = 0
  /\ sets[Newest].want # dep.replicas
  /\ IF sets[Newest].want > dep.replicas \/ \A t \in Others : sets[t].want = 0
     THEN sets' = [sets EXCEPT ![Newest].want = dep.replicas]
     ELSE TotalWanted < dep.replicas + 1 /\ sets' = [sets EXCEPT ![Newest].want = @ + 1]
  /\ dep' = [dep EXCEPT !.sized = dep.replicas]
  /\ Unseen /\ UNCHANGED pods

ShrinkOld(t) ==
  /\ RollsOut /\ t \in Others /\ sets[t].want > 0
  /\ \/ dep.recreate
     \/ /\ IsCurrent
        /\ \/ MapThenSumSet(LAMBDA u : pods[u].ready, Templates) > dep.replicas
           \/ pods[t].ready < sets[t].want
  /\ sets' = [sets EXCEPT ![t].want = IF dep.recreate THEN 0 ELSE @ - 1]
  /\ Unseen /\ UNCHANGED <<dep, pods>>

\* The status a sync ends with: of this spec, whether its set exists or not.
Status(d) == [d EXCEPT !.observed = TRUE, !.updated = sets[Newest].have]

\* A rolling update writes the status only after the set exists.
WriteStatus ==
  /\ RollsOut
  /\ IsCurrent \/ (dep.recreate /\ sets[Newest].revision = 0 /\ \A t \in Others : sets[t].want = 0)
  /\ dep' = Status(dep)
  /\ dep' # dep
  /\ Unseen /\ UNCHANGED <<sets, pods>>

\* The new set is at its size and all its pods are available.
Saturated ==
  /\ sets[Newest].want = dep.replicas /\ dep.sized = dep.replicas
  /\ pods[Newest].ready = dep.replicas

\* The sizes scale gives the sets: to the only one that wants pods, or if none
\* does to the present or the latest, all replicas; to several the replicas and
\* the surge, in proportions that are left open.
Scaled(size) ==
  LET only == IF Wanting # {} THEN CHOOSE t \in Wanting : TRUE
              ELSE IF sets[Newest].revision > 0 THEN Newest ELSE LastCreated(sets)
  IN  \/ /\ Cardinality(Wanting) <= 1
         /\ \A t \in Exists(sets) : size[t] = IF t = only THEN dep.replicas ELSE 0
      \/ /\ Cardinality(Wanting) > 1 /\ Saturated
         /\ \A t \in Exists(sets) : size[t] = IF t = Newest THEN dep.replicas ELSE 0
      \/ /\ Cardinality(Wanting) > 1 /\ ~Saturated
         /\ IF dep.recreate THEN \A t \in Exists(sets) : size[t] = sets[t].want
            ELSE /\ \A t \in Exists(sets) \ Wanting : size[t] = 0
                 /\ MapThenSumSet(LAMBDA t : size[t], Exists(sets)) = dep.replicas + 1
                 /\ \/ \A t \in Wanting : size[t] >= sets[t].want
                    \/ \A t \in Wanting : size[t] <= sets[t].want

\* sync: an old set's revision is seen to, a missing one is not created, and the
\* status follows, unless its write fails.  An only set that has its size already
\* keeps its annotation.
SyncWithoutRollout ==
  /\ ~RollsOut
  /\ IsCurrent \/ sets[Newest].revision = 0
  /\ \E size \in [Exists(sets) -> 0..(MaxReplicas + 1)] :
       /\ Scaled(size)
       /\ sets' = [t \in Templates |->
                     IF t \in Exists(sets) THEN [sets[t] EXCEPT !.want = size[t]] ELSE sets[t]]
  /\ LET annotated == Cardinality(Wanting) > 1 \/ sets' # sets
         d == [dep EXCEPT !.sized = IF annotated THEN dep.replicas ELSE @]
     IN  dep' \in {d, Status(d)}
  /\ <<dep, sets>>' # <<dep, sets>>
  /\ Unseen /\ UNCHANGED pods

-----------------------------------------------------------------------------
(* The ReplicaSet controller and the kubelet.                              *)

Move(t, from, to) ==
  /\ pods[t][from] > 0
  /\ pods' = [pods EXCEPT ![t][from] = @ - 1, ![t][to] = @ + 1]

CreatePod(t) ==
  /\ Held(t) < sets[t].want /\ ~blocked
  /\ pods' = [pods EXCEPT ![t].pending = @ + 1]
  /\ Unseen /\ UNCHANGED <<dep, sets>>

DeletePod(t) ==
  /\ Held(t) > sets[t].want
  /\ \/ Move(t, "pending", "leaving")
     \/ pods[t].pending = 0 /\ Move(t, "starting", "leaving")
     \/ pods[t].pending + pods[t].starting = 0 /\ Move(t, "ready", "leaving")
  /\ Unseen /\ UNCHANGED <<dep, sets>>

CountPods(t) ==
  /\ sets[t].revision > 0 /\ sets[t].have # Held(t)
  /\ sets' = [sets EXCEPT ![t].have = Held(t)]
  /\ Unseen /\ UNCHANGED <<dep, pods>>

Schedule(t) == Move(t, "pending", "starting") /\ Unseen /\ UNCHANGED <<dep, sets>>
BecomeReady(t) == Move(t, "starting", "ready") /\ Unseen /\ UNCHANGED <<dep, sets>>

Gone(t) ==
  /\ pods[t].leaving > 0
  /\ pods' = [pods EXCEPT ![t].leaving = @ - 1]
  /\ Unseen /\ UNCHANGED <<dep, sets>>

\* The kubelet evicts a pod; nobody removes what is left of it.
Evict(t) ==
  /\ Change
  /\ \E from \in {"starting", "ready"} : Move(t, from, "failed")
  /\ UNCHANGED <<dep, blocked>>

-----------------------------------------------------------------------------
NoPods == [x \in States |-> 0]

\* A target at rest, of its first template t or of a second one after `old`.
AtRest(t, n, recreate, paused, old) ==
  /\ dep = [replicas |-> n, template |-> t, recreate |-> recreate, paused |-> paused,
            observed |-> TRUE, updated |-> n, sized |-> n]
  /\ sets = [u \in Templates |->
        LET revision == IF u = t THEN Cardinality(old) + 1
                        ELSE IF u \in old THEN 1 ELSE 0
            count    == IF u = t THEN n ELSE 0
        IN  [revision |-> revision, created |-> revision, want |-> count, have |-> count]]
  /\ pods = [u \in Templates |-> IF u = t THEN [NoPods EXCEPT !.ready = n] ELSE NoPods]

Init ==
  /\ \E t \in Templates, n \in 1..MaxReplicas, recreate, paused \in BOOLEAN :
       \E old \in {{}} \cup {{u} : u \in Templates \ {t}} : AtRest(t, n, recreate, paused, old)
  /\ blocked \in BOOLEAN /\ changes = 0
  /\ seenSets = sets
  /\ report = TargetState(dep, sets, pods)
  /\ stuckFor = NotStuck

Controllers ==
  \/ AdoptTemplate \/ ResizeNew \/ WriteStatus \/ SyncWithoutRollout
  \/ \E t \in Templates :
       ShrinkOld(t) \/ CreatePod(t) \/ DeletePod(t) \/ CountPods(t)
         \/ Schedule(t) \/ BecomeReady(t) \/ Gone(t)

Next ==
  \/ Observe \/ SyncReplicaSets \/ Controllers
  \/ \E n \in 1..MaxReplicas, t \in Templates, paused \in BOOLEAN : Write(n, t, paused)
  \/ Quota
  \/ \E t \in Templates : Evict(t)

Spec == Init /\ [][Next]_vars

\* The ticker, the watches and the cluster's controllers go on working.
FairSpec ==
  /\ Spec
  /\ WF_vars(Observe) /\ WF_vars(Controllers) /\ WF_vars(SyncReplicaSets)

-----------------------------------------------------------------------------
(* Properties.                                                             *)

(* Whenever no rollout is reported from caches that are up to date, the    *)
(* pods that were counted are those of the template the Deployment has     *)
(* now, or it has no set yet and there are no pods but those counted       *)
(* (TargetState.CurrentReplicaSet, target.go:35-43): no other generation    *)
(* holds pods that are left out.                                           *)
ConvergingGeneration ==
  [][Observe /\ seenSets = sets /\ ~report'.rollout =>
       \/ report'.current = dep.template
       \/ /\ sets[dep.template].revision = 0
          /\ \A t \in Templates \ {report'.current} : sets[t].have = 0 /\ sets[t].want = 0]_vars

(* Not so, and no run's property: what target.go:110-117 takes for granted, *)
(* that a rollout always has an older set with replicas beside the current *)
(* one, or a spec that is not yet observed, so that it is reported.  The   *)
(* Deployment controller observes a spec that changes the count with the   *)
(* template, or that Recreate has to wait with, before it creates the set. *)
RolloutIsSeen ==
  [][Observe /\ seenSets = sets /\ ~dep.paused /\ ~IsCurrent => report'.rollout]_vars

(* What happens to the target without anybody changing it.                 *)
Rolling == \E t \in Others : sets[t].want > 0 \/ Held(t) > 0
Missing == dep.replicas - Held(Newest)

(* A quota that goes on refusing pods is seen as replicas that never       *)
(* became pods, and not as a rollout, until the watchdog's timeout has     *)
(* passed (target.go:108-117, trackUnmaterialised; FS-10).                 *)
StuckIsSeen ==
  <>[](~Rolling /\ Missing > 0) =>
    <>[](report.unmat = Missing /\ ~report.rollout /\ stuckFor = PendingTimeout)

(* When the target has settled, nothing is reported missing and no rollout *)
(* is left: neither an undone rollout nor a scale leaves an alarm behind   *)
(* (currentReplicaSet, target.go:198-220).                                 *)
SettledIsSeen ==
  <>[](~Rolling /\ Missing = 0) => <>[](report.unmat = 0 /\ ~report.rollout)
=============================================================================
