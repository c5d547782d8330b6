------------------------- MODULE ObservationProofs -------------------------
(***************************************************************************)
(* What a target that is reported settled converges on: for any number of  *)
(* templates and replicas, any course of the cluster and any lag of the    *)
(* watches, the pods counted are those of the Deployment's own template, or *)
(* that has no set yet and no other set holds pods.                        *)
(***************************************************************************)
EXTENDS Observation, FiniteSetTheorems, TLAPS

(* The fields that the argument reads are there. *)
Shaped ==
  /\ DOMAIN dep = {"replicas", "template", "recreate", "paused",
                   "observed", "updated", "sized"}
  /\ dep.template \in Templates /\ dep.replicas \in 1..MaxReplicas
  /\ DOMAIN sets = Templates
  /\ \A t \in Templates :
       /\ DOMAIN sets[t] = {"revision", "created", "want", "have"}
       /\ sets[t].revision \in Nat

(* A set that does not exist has no pods. *)
Bare ==
  \A t \in Templates : sets[t].revision = 0 => sets[t].want = 0 /\ sets[t].have = 0

(* Every set that was current has a revision of its own. *)
Distinct ==
  \A t, u \in Templates :
    sets[t].revision = sets[u].revision => t = u \/ sets[t].revision = 0

Top(t) ==
  /\ sets[t].revision > 0
  /\ \A u \in Templates : sets[t].revision >= sets[u].revision

(* There is a set the target converges on, of this template or an older one. *)
HasTop == \E t \in Templates : Top(t)

(* A status is written when the template's set is the newest, or does not   *)
(* exist and none of its pods can be counted; and nothing is newer until   *)
(* the template changes.                                                   *)
Settles(d) ==
  d.observed => Top(d.template) \/ (sets[d.template].revision = 0 /\ d.updated = 0)

Inv == Shaped /\ Bare /\ Distinct /\ HasTop /\ Settles(dep)

(* What the argument reads of the Deployment. *)
SameDeployment ==
  /\ DOMAIN dep' = DOMAIN dep
  /\ UNCHANGED <<dep.template, dep.replicas, dep.observed, dep.updated>>

(* The highest revision is that of the top set. *)
LEMMA MaxRevisionIs ==
  ASSUME Shaped, HasTop
  PROVE  /\ MaxRevision \in Nat \ {0}
         /\ \A u \in Templates : MaxRevision >= sets[u].revision
         /\ \A t \in Templates : Top(t) <=> sets[t].revision > 0 /\ sets[t].revision = MaxRevision
<1> DEFINE S == {sets[t].revision : t \in Templates}
<1>1. PICK t \in Templates : Top(t)
  BY DEF HasTop
<1>2. sets[t].revision \in S /\ \A y \in S : sets[t].revision >= y
  BY <1>1 DEF Top
<1>3. MaxRevision \in S /\ \A y \in S : MaxRevision >= y
  BY <1>2 DEF MaxRevision, Max
<1>4. \A u \in Templates : sets[u].revision \in Nat /\ MaxRevision >= sets[u].revision
  BY <1>3 DEF Shaped
<1>5. MaxRevision \in Nat
  BY <1>3 DEF Shaped
<1> HIDE DEF S
<1>6. MaxRevision = sets[t].revision
  BY <1>1, <1>2, <1>3, <1>4, <1>5 DEF Shaped
<1> QED
  BY <1>1, <1>4, <1>5, <1>6 DEF Top

LEMMA CurrentIsTop ==
  ASSUME Shaped, HasTop
  PROVE  IsCurrent <=> Top(dep.template)
BY MaxRevisionIs DEF IsCurrent, Newest, Shaped

(* A change of sizes, of sets that exist. *)
SizesOnly ==
  /\ DOMAIN sets' = Templates
  /\ \A t \in Templates :
       /\ DOMAIN sets'[t] = DOMAIN sets[t]
       /\ sets'[t].revision = sets[t].revision
       /\ sets[t].revision = 0 => sets'[t] = sets[t]

LEMMA SizesKeep ==
  ASSUME Inv, SizesOnly
  PROVE  /\ Bare' /\ Distinct' /\ HasTop'
         /\ DOMAIN sets' = Templates
         /\ \A t \in Templates : /\ DOMAIN sets'[t] = {"revision", "created", "want", "have"}
                                 /\ sets'[t].revision \in Nat
         /\ \A t \in Templates : Top(t) <=> Top(t)'
<1>1. \A t \in Templates : Top(t) <=> Top(t)'
  BY DEF Top, SizesOnly
<1>2. Bare' /\ Distinct'
  BY DEF Inv, Bare, Distinct, SizesOnly
<1>3. HasTop'
  BY <1>1 DEF Inv, HasTop
<1> QED
  BY <1>1, <1>2, <1>3 DEF Inv, Shaped, SizesOnly

LEMMA RevisionsKept ==
  ASSUME Inv, SameDeployment, SizesOnly
  PROVE  Inv'
<1>1. dep.template \in Templates
  BY DEF Inv, Shaped
<1>2. Shaped'
  BY SizesKeep DEF Inv, Shaped, SameDeployment
<1>3. Settles(dep)'
  BY <1>1, SizesKeep DEF Inv, Settles, SameDeployment, SizesOnly
<1> QED
  BY <1>2, <1>3, SizesKeep DEF Inv

LEMMA InvInit == Init => Inv
<1> SUFFICES ASSUME Init PROVE Inv
  OBVIOUS
<1>0. PICK t \in Templates, n \in 1..MaxReplicas, recreate, paused \in BOOLEAN :
        \E old \in {{}} \cup {{u} : u \in Templates \ {t}} :
          AtRest(t, n, recreate, paused, old)
  BY DEF Init
<1> PICK old \in {{}} \cup {{u} : u \in Templates \ {t}} : AtRest(t, n, recreate, paused, old)
  BY <1>0
<1>1. /\ dep = [replicas |-> n, template |-> t, recreate |-> recreate, paused |-> paused,
                observed |-> TRUE, updated |-> n, sized |-> n]
      /\ sets = [u \in Templates |->
            LET revision == IF u = t THEN Cardinality(old) + 1
                            ELSE IF u \in old THEN 1 ELSE 0
                count    == IF u = t THEN n ELSE 0
            IN  [revision |-> revision, created |-> revision, want |-> count, have |-> count]]
  BY DEF AtRest
<1>2. PICK first \in {0, 1} :
        /\ Cardinality(old) = first
        /\ \A u, v \in old : u = v
        /\ first = 0 => old = {}
  <2>1. CASE old = {}
    BY <2>1, FS_EmptySet
  <2>2. CASE \E u \in Templates : old = {u}
    BY <2>2, FS_Singleton
  <2> QED
    BY <2>1, <2>2
<1>3. /\ sets[t].revision = first + 1
      /\ \A u \in Templates \ {t} : sets[u].revision = IF u \in old THEN 1 ELSE 0
  BY <1>1, <1>2
<1>4. Shaped
  <2>1. \A u \in Templates :
          /\ DOMAIN sets[u] = {"revision", "created", "want", "have"}
    BY <1>1
  <2> QED
    BY <1>1, <1>3, <2>1 DEF Shaped
<1>5. Top(t) /\ dep.template = t
  BY <1>1, <1>2, <1>3 DEF Top
<1>6. Distinct
  BY <1>2, <1>3 DEF Distinct
<1>7. Bare
  BY <1>1, <1>3 DEF Bare
<1> QED
  BY <1>4, <1>5, <1>6, <1>7 DEF Inv, HasTop, Settles

(* The template's set becomes the newest, whether it is new or comes back. *)
LEMMA InvAdoptTemplate == Inv /\ AdoptTemplate => Inv'
<1> SUFFICES ASSUME Inv, AdoptTemplate PROVE Inv'
  OBVIOUS
<1>0. Shaped /\ Bare /\ Distinct /\ HasTop /\ Newest \in Templates
  BY DEF Inv, Shaped, Newest
<1>1. MaxRevision \in Nat \ {0} /\ \A u \in Templates : MaxRevision >= sets[u].revision
  BY <1>0, MaxRevisionIs
<1>2. UNCHANGED dep
  BY DEF AdoptTemplate
<1>3. sets' = [sets EXCEPT ![Newest].revision = MaxRevision + 1,
                           ![Newest].created = IF @ = 0 THEN MaxRevision + 1 ELSE @]
  BY DEF AdoptTemplate
<1> HIDE DEF MaxRevision
<1>4. /\ DOMAIN sets' = Templates
      /\ \A t \in Templates : DOMAIN sets'[t] = {"revision", "created", "want", "have"}
      /\ sets'[Newest].revision = MaxRevision + 1
      /\ \A t \in Templates \ {Newest} : sets'[t] = sets[t]
  BY <1>0, <1>3 DEF Shaped
<1>5. Shaped'
  BY <1>0, <1>1, <1>2, <1>4 DEF Shaped
<1>6. Distinct'
  BY <1>0, <1>1, <1>4 DEF Distinct, Shaped
<1>7. Top(Newest)'
  <2>1. sets'[Newest].revision > 0
        /\ \A u \in Templates : sets'[Newest].revision >= sets'[u].revision
    BY <1>0, <1>1, <1>4 DEF Shaped
  <2> QED
    BY <1>2, <2>1 DEF Top, Newest
<1>8. Bare'
  BY <1>0, <1>1, <1>4 DEF Bare
<1> QED
  BY <1>0, <1>2, <1>5, <1>6, <1>7, <1>8 DEF Inv, HasTop, Settles, Newest

(* A write of the spec is not observed yet. *)
LEMMA InvWrite ==
  ASSUME Inv, NEW n \in 1..MaxReplicas, NEW t \in Templates, NEW paused \in BOOLEAN,
         Write(n, t, paused)
  PROVE  Inv'
<1>1. /\ dep' = [dep EXCEPT !.replicas = n, !.template = t, !.paused = paused,
                            !.observed = FALSE]
      /\ UNCHANGED sets
  BY DEF Write, Change
<1>2. Shaped' /\ dep'.observed = FALSE
  BY <1>1 DEF Inv, Shaped
<1>3. Bare' /\ Distinct' /\ HasTop'
  BY <1>1 DEF Inv, Bare, Distinct, HasTop, Top
<1> QED
  BY <1>2, <1>3 DEF Inv, Settles

(* A status that is written without the template's set counts no pods. *)
LEMMA StatusSettles ==
  ASSUME Inv, SizesOnly, NEW d, DOMAIN d = DOMAIN dep,
         d.template = dep.template, d.replicas = dep.replicas,
         dep' = Status(d), IsCurrent \/ sets[Newest].revision = 0
  PROVE  Inv'
<1>1. /\ DOMAIN dep' = DOMAIN dep
      /\ dep'.template = dep.template /\ dep'.replicas = dep.replicas
      /\ dep'.observed = TRUE /\ dep'.updated = sets[dep.template].have
  BY DEF Status, Newest, Inv, Shaped
<1>2. dep.template \in Templates
  BY DEF Inv, Shaped
<1>3. Top(dep.template) \/ sets[dep.template].revision = 0
  BY CurrentIsTop DEF Inv, Newest
<1>4. Settles(dep)'
  BY <1>1, <1>2, <1>3, SizesKeep DEF Settles, Inv, Bare, SizesOnly
<1>5. Shaped'
  BY <1>1, SizesKeep DEF Inv, Shaped
<1> QED
  BY <1>4, <1>5, SizesKeep DEF Inv

LEMMA InvWriteStatus == Inv /\ WriteStatus => Inv'
<1> SUFFICES ASSUME Inv, WriteStatus PROVE Inv'
  OBVIOUS
<1>1. SizesOnly
  BY DEF WriteStatus, SizesOnly, Inv, Shaped
<1>2. IsCurrent \/ sets[Newest].revision = 0
  BY DEF WriteStatus
<1>3. dep' = Status(dep)
  BY DEF WriteStatus
<1> QED
  BY <1>1, <1>2, <1>3, StatusSettles

(* sync changes the sizes of sets that exist, and the status or not. *)
LEMMA InvSync == Inv /\ SyncWithoutRollout => Inv'
<1> SUFFICES ASSUME Inv, SyncWithoutRollout PROVE Inv'
  OBVIOUS
<1>1. PICK size :
        sets' = [t \in Templates |->
                  IF t \in Exists(sets) THEN [sets[t] EXCEPT !.want = size[t]] ELSE sets[t]]
  BY DEF SyncWithoutRollout
<1>2. \A t \in Templates : sets[t].revision = 0 => t \notin Exists(sets)
  BY DEF Exists
<1>3. SizesOnly
  BY <1>1, <1>2 DEF SizesOnly, Inv, Shaped
<1>4. PICK m : LET d == [dep EXCEPT !.sized = m] IN dep' = d \/ dep' = Status(d)
  BY DEF SyncWithoutRollout
<1> DEFINE d == [dep EXCEPT !.sized = m]
<1>5. /\ DOMAIN d = DOMAIN dep
      /\ d.template = dep.template /\ d.replicas = dep.replicas
      /\ d.observed = dep.observed /\ d.updated = dep.updated
  BY DEF Inv, Shaped
<1>6. CASE dep' = d
  BY <1>3, <1>5, <1>6, RevisionsKept DEF SameDeployment
<1>7. CASE dep' = Status(d)
  <2>1. IsCurrent \/ sets[Newest].revision = 0
    BY DEF SyncWithoutRollout
  <2> HIDE DEF d
  <2> QED
    BY <1>3, <1>5, <1>7, <2>1, StatusSettles
<1> QED
  BY <1>4, <1>6, <1>7

(* The other steps change how many replicas a set wants or has. *)
LEMMA InvSizes ==
  ASSUME Inv, NEW t \in Templates, NEW v, SameDeployment,
         \/ /\ sets[t].revision > 0
            /\ \/ sets' = [sets EXCEPT ![t].want = v]
               \/ sets' = [sets EXCEPT ![t].have = v]
         \/ UNCHANGED sets
  PROVE  Inv'
<1>1. SizesOnly
  BY DEF Inv, Shaped, SizesOnly
<1> QED
  BY <1>1, RevisionsKept

LEMMA InvNext == Inv /\ [Next]_vars => Inv'
<1> SUFFICES ASSUME Inv, [Next]_vars PROVE Inv'
  OBVIOUS
<1>0. Newest \in Templates
  BY DEF Inv, Shaped, Newest
<1>1. UNCHANGED dep => SameDeployment
  BY DEF SameDeployment
<1>2. CASE UNCHANGED <<dep, sets>>
  BY <1>0, <1>1, <1>2, InvSizes
<1>3. CASE AdoptTemplate
  BY <1>3, InvAdoptTemplate
<1>4. CASE WriteStatus
  BY <1>4, InvWriteStatus
<1>5. CASE SyncWithoutRollout
  BY <1>5, InvSync
<1>6. CASE ResizeNew
  <2>1. \E v : sets' = [sets EXCEPT ![Newest].want = v]
    BY <1>6 DEF ResizeNew
  <2>2. sets[Newest].revision > 0
    BY <1>6 DEF ResizeNew, IsCurrent
  <2>3. SameDeployment
    BY <1>6 DEF ResizeNew, SameDeployment, Inv, Shaped
  <2> QED
    BY <1>0, <2>1, <2>2, <2>3, InvSizes
<1>7. ASSUME NEW n \in 1..MaxReplicas, NEW t \in Templates, NEW paused \in BOOLEAN,
             Write(n, t, paused)
      PROVE  Inv'
  BY <1>7, InvWrite
<1>8. ASSUME NEW t \in Templates, ShrinkOld(t) PROVE Inv'
  <2>1. UNCHANGED dep /\ sets' = [sets EXCEPT ![t].want = IF dep.recreate THEN 0 ELSE @ - 1]
    BY <1>8 DEF ShrinkOld
  <2>2. \E v : sets' = [sets EXCEPT ![t].want = v]
    BY <2>1
  <2>3. sets[t].revision > 0
    <3>1. sets[t].want # 0
      BY <1>8 DEF ShrinkOld
    <3> QED
      BY <3>1 DEF Inv, Bare, Shaped
  <2> QED
    BY <1>1, <2>1, <2>2, <2>3, InvSizes
<1>9. ASSUME NEW t \in Templates, CountPods(t) PROVE Inv'
  BY <1>1, <1>9, InvSizes DEF CountPods
<1>10. ASSUME NEW t \in Templates,
              CreatePod(t) \/ DeletePod(t) \/ Schedule(t) \/ BecomeReady(t) \/ Gone(t) \/ Evict(t)
       PROVE  UNCHANGED <<dep, sets>>
  BY <1>10 DEF CreatePod, DeletePod, Schedule, BecomeReady, Gone, Evict, Change
<1>11. CASE Observe \/ SyncReplicaSets \/ Quota \/ UNCHANGED vars
  BY <1>2, <1>11 DEF Observe, SyncReplicaSets, Quota, Change, vars, cluster
<1> QED
  BY <1>2, <1>3, <1>4, <1>5, <1>6, <1>7, <1>8, <1>9, <1>10, <1>11 DEF Next, Controllers

(* The set of the highest revision is unique. *)
LEMMA CurrentSetIsTop ==
  ASSUME Inv, Top(dep.template)
  PROVE  CurrentSet(sets) = dep.template
<1> DEFINE E == Exists(sets)
           c == CHOOSE t \in E : \A u \in E : sets[t].revision >= sets[u].revision
<1>1. E \subseteq Templates /\ \A u \in E : sets[u].revision \in Nat /\ sets[u].revision > 0
  BY DEF Exists, Inv, Shaped
<1>2. dep.template \in E /\ \A u \in E : sets[dep.template].revision >= sets[u].revision
  BY DEF Exists, Inv, Shaped, Top
<1> HIDE DEF E
<1>3. c \in E /\ \A u \in E : sets[c].revision >= sets[u].revision
  BY <1>2
<1> HIDE DEF c
<1>4. sets[c].revision = sets[dep.template].revision
  BY <1>1, <1>2, <1>3
<1>5. c = dep.template
  BY <1>1, <1>2, <1>3, <1>4 DEF Inv, Distinct
<1> QED
  BY <1>2, <1>5 DEF CurrentSet, E, c

(* For any number of templates, whatever the cluster does: no rollout is   *)
(* reported from up-to-date caches but the pods counted are those of the   *)
(* Deployment's template, or it has no set yet and no other set has pods.  *)
THEOREM CountsOwnTemplate == Spec => ConvergingGeneration
<1> DEFINE Right ==
      Observe /\ seenSets = sets /\ ~report'.rollout =>
        \/ report'.current = dep.template
        \/ /\ sets[dep.template].revision = 0
           /\ \A t \in Templates \ {report'.current} : sets[t].have = 0 /\ sets[t].want = 0
<1>1. ASSUME Inv PROVE Right
  <2> SUFFICES ASSUME Observe, seenSets = sets, ~report'.rollout
               PROVE  \/ report'.current = dep.template
                      \/ /\ sets[dep.template].revision = 0
                         /\ \A t \in Templates \ {report'.current} :
                              sets[t].have = 0 /\ sets[t].want = 0
    OBVIOUS
  <2>1. /\ report'.current = CurrentSet(sets)
        /\ report'.rollout = RolloutInProgress(dep, sets)
    BY DEF Observe, TargetState
  <2>2. dep.observed
    BY <2>1 DEF RolloutInProgress, ScaleAheadOfPods
  <2>3. CASE Top(dep.template)
    BY <2>1, <2>3, <1>1, CurrentSetIsTop
  <2>4. CASE sets[dep.template].revision = 0 /\ dep.updated = 0
    <3>1. dep.updated # dep.replicas
      BY <2>4, <1>1, ObservationAssumption DEF Inv, Shaped
    <3>2. ScaleAheadOfPods(dep, sets, CurrentSet(sets))
      BY <2>1, <3>1 DEF RolloutInProgress
    <3>3. \A t \in Exists(sets) \ {CurrentSet(sets)} : sets[t].have = 0 /\ sets[t].want = 0
      BY <3>2 DEF ScaleAheadOfPods
    <3>4. \A t \in Templates \ Exists(sets) : sets[t].have = 0 /\ sets[t].want = 0
      BY <1>1 DEF Exists, Inv, Shaped, Bare
    <3> QED
      BY <2>1, <2>4, <3>3, <3>4
  <2> QED
    BY <1>1, <2>2, <2>3, <2>4 DEF Inv, Settles
<1>2. Inv => [Right]_vars
  BY <1>1
<1>3. Spec => []Inv
  BY InvInit, InvNext, PTL DEF Spec
<1> QED
  BY <1>2, <1>3, PTL DEF ConvergingGeneration
=============================================================================
