-------------------------- MODULE ControllerProofs --------------------------
(***************************************************************************)
(* Theorems about the engine and the reconcile loop around it, for every   *)
(* configuration and every environment.                                    *)
(*                                                                         *)
(* First the engine: what Decide guarantees for every snapshot, that a     *)
(* configuration which is accepted satisfies the assumptions this and the  *)
(* other modules rest on, and what the policy promises of an answer and of *)
(* those to neighbouring snapshots (Deciding).  Then the controller: its   *)
(* state is well typed whatever other actors do, its writes implement the  *)
(* compare-and-set register, and its memory tells its own writes from      *)
(* those of others.                                                        *)
(***************************************************************************)
EXTENDS Controller, Deciding, FiniteSetTheorems, SequenceTheorems, TLAPS

Cfg == INSTANCE Configuration

----------------------------------------------------------------------------
(* Helpers.                                                                *)

\* clampInt32 returns a count of the policy's range.
LEMMA ClampInRange ==
  ASSUME NEW v \in Int
  PROVE  Clamp(v) \in MinReplicas..MaxReplicas /\ Clamp(v) \in Nat
  BY ReplicaAssumption DEF Clamp, Smaller, Larger

\* ceilDiv and the int32 conversion return integers.
LEMMA CeilDivInt ==
  ASSUME NEW a \in Int, NEW b \in Nat \ {0}
  PROVE  CeilDiv(a, b) \in Int
  BY DEF CeilDiv

LEMMA CeilDivNat ==
  ASSUME NEW a \in Nat, NEW b \in Nat \ {0}
  PROVE  CeilDiv(a, b) \in Nat
<1>1. CASE a = 0
  BY <1>1 DEF CeilDiv
<1>2. CASE a > 0
  <2>1. a + b - 1 \in Nat
    OBVIOUS
  <2>2. (a + b - 1) \div b \in Nat
    BY <2>1
  <2> QED
    BY <1>2, <2>2 DEF CeilDiv
<1> QED
  BY <1>1, <1>2

LEMMA ToInt32Int ==
  ASSUME NEW x \in Int
  PROVE  ToInt32(x) \in Int
<1>1. 2 * IntLimit \in Nat \ {0} /\ x + IntLimit \in Int
  BY DemandAssumption
<1>2. (x + IntLimit) % (2 * IntLimit) \in Int
  BY <1>1
<1> QED
  BY <1>2, DemandAssumption DEF ToInt32

\* The demand of a snapshot is an integer, whatever the signals hold.
LEMMA DemandInt ==
  ASSUME NEW s \in Snapshot
  PROVE  DesiredRaw(s) \in Int
<1>1. DesiredBacklog(s) \in Int
  BY CeilDivInt, ToInt32Int, DemandAssumption DEF DesiredBacklog, Snapshot, Signal
<1>2. DesiredUtilization(s) \in Int
  <2>1. s.ready * s.cpu.value \in Int /\ TargetCpu * 1000 \in Nat \ {0}
    BY DemandAssumption DEF Snapshot, Signal
  <2> QED
    BY <2>1, CeilDivInt, ToInt32Int DEF DesiredUtilization
<1> QED
  BY <1>1, <1>2 DEF DesiredRaw, Larger

\* Every operator on the backoff returns a backoff.
LEMMA ClearBackoffType == ClearBackoff \in BackoffState
  BY PolicyAssumption DEF ClearBackoff, BackoffState

LEMMA ArmBackoffType ==
  ASSUME NEW b \in BackoffState, NEW fit \in Nat
  PROVE  ArmBackoff(b, fit) \in BackoffState
<1>1. b.interval * BackoffFactorNum \in Nat
  BY PolicyAssumption DEF BackoffState
<1>2. Smaller(Grown(b.interval), BackoffMax) \in 0..BackoffMax
  <2>1. Grown(b.interval) \in Nat
    BY <1>1, CeilDivNat, PolicyAssumption DEF Grown
  <2> QED
    BY <2>1, PolicyAssumption DEF Smaller
<1>3. BackoffInitial \in 0..BackoffMax
  BY PolicyAssumption
<1> QED
  BY <1>2, <1>3 DEF ArmBackoff, BackoffState

LEMMA CarryBackoffType ==
  ASSUME NEW b \in BackoffState
  PROVE  CarryBackoff(b) \in BackoffState
  BY PolicyAssumption DEF CarryBackoff, BackoffState

LEMMA BackoffAfterType ==
  ASSUME NEW s \in Snapshot
  PROVE  /\ s.backoff \in BackoffState
         /\ BackoffAfterPlacement(s) \in BackoffState
         /\ BackoffAfterDemand(s) \in BackoffState
  BY ClearBackoffType DEF BackoffAfterPlacement, BackoffAfterDemand, Snapshot

----------------------------------------------------------------------------
(* Decisions.                                                              *)

UpReasons == {"ScaleUp", "ScaleUpPartial"}
DownReasons == {"ScaleDown", "RevertPendingPods"}

\* What every decision d on a snapshot s satisfies.
Sound(s, d) ==
  /\ d \in Decision
  /\ d.from = s.current
  /\ d.reason \in HoldReasons => d.target = s.current
  /\ d.reason \in UpReasons => /\ s.current < d.target
                               /\ d.target <= s.current + s.fit
                               /\ d.target <= s.current + MaxScaleUpStep
                               /\ d.target <= MaxReplicas
  /\ d.reason \in DownReasons => /\ d.target <= s.current
                                 /\ d.target \in MinReplicas..MaxReplicas

\* The fields of a decision that has computed demand.
LEMMA DecidedFields ==
  ASSUME NEW s \in Snapshot, NEW reason \in WriteReasons \cup HoldReasons,
         NEW target \in Nat, NEW backoff \in BackoffState
  PROVE  /\ Decided(s, reason, target, backoff) \in Decision
         /\ Decided(s, reason, target, backoff).from = s.current
         /\ Decided(s, reason, target, backoff).reason = reason
         /\ Decided(s, reason, target, backoff).target = target
<1>1. s.current \in Nat /\ DesiredRaw(s) \in Int
  BY DemandInt DEF Snapshot
<1>2. PendingTimedOut(s) \in BOOLEAN
  BY DEF PendingTimedOut
<1> QED
  BY <1>1, <1>2 DEF Decided, Decision

\* A hold leaves the count alone.
LEMMA HoldSound ==
  ASSUME NEW s \in Snapshot, NEW reason \in HoldReasons
  PROVE  Sound(s, Hold(s, reason))
<1>1. s.current \in Nat /\ reason \notin UpReasons /\ reason \notin DownReasons
  BY DEF Snapshot, HoldReasons, UpReasons, DownReasons
<1> QED
  BY <1>1, DecidedFields, BackoffAfterType DEF Hold, Sound

LEMMA HoldBlindSound ==
  ASSUME NEW s \in Snapshot, NEW reason \in HoldReasons, NEW backoff \in BackoffState
  PROVE  Sound(s, HoldBlind(s, reason, backoff))
<1> DEFINE d == HoldBlind(s, reason, backoff)
<1>1. s.current \in Nat /\ reason \notin UpReasons /\ reason \notin DownReasons
  BY DEF Snapshot, HoldReasons, UpReasons, DownReasons
<1>2. d.timedOut \in BOOLEAN
  BY DEF HoldBlind
<1>3. d \in Decision
  BY <1>1, <1>2 DEF HoldBlind, Decision
<1> QED
  BY <1>1, <1>3 DEF HoldBlind, Sound

\* The feasibility gate never asks for more than fits, or than the step allows.
LEMMA ScaleByFitSound ==
  ASSUME NEW s \in Snapshot, Clamp(DesiredRaw(s)) > s.current
  PROVE  Sound(s, ScaleByFit(s))
<1> DEFINE b == BackoffAfterDemand(s)
           delta == StepUp(s) - s.current
<1>1. /\ b \in BackoffState
      /\ s.current \in Nat /\ s.fit \in Nat
      /\ Clamp(DesiredRaw(s)) \in MinReplicas..MaxReplicas
  BY BackoffAfterType, DemandInt, ClampInRange DEF Snapshot
<1>2. /\ StepUp(s) \in Nat /\ s.current < StepUp(s)
      /\ StepUp(s) <= s.current + MaxScaleUpStep /\ StepUp(s) <= MaxReplicas
  BY <1>1, ReplicaAssumption DEF StepUp, Smaller
<1>3. CASE s.fit >= delta
  <2> DEFINE c == IF Armed(b) THEN CarryBackoff(b) ELSE ClearBackoff
  <2>1. c \in BackoffState
    BY <1>1, CarryBackoffType, ClearBackoffType
  <2>2. ScaleByFit(s) = Decided(s, "ScaleUp", StepUp(s), c)
    BY <1>3 DEF ScaleByFit
  <2>3. StepUp(s) <= s.current + s.fit
    BY <1>1, <1>2, <1>3
  <2> HIDE DEF c
  <2> QED
    BY <1>2, <2>1, <2>2, <2>3, DecidedFields
    DEF Sound, WriteReasons, HoldReasons, UpReasons, DownReasons
<1>4. CASE ~(s.fit >= delta) /\ s.fit > 0 /\ AllowPartialScaleUp
  <2> DEFINE c == ArmBackoff(b, s.fit)
  <2>1. c \in BackoffState
    BY <1>1, ArmBackoffType
  <2>2. ScaleByFit(s) = Decided(s, "ScaleUpPartial", s.current + s.fit, c)
    BY <1>4 DEF ScaleByFit
  <2>3. /\ s.current + s.fit \in Nat /\ s.current < s.current + s.fit
        /\ s.current + s.fit < StepUp(s)
    BY <1>1, <1>2, <1>4
  <2>4. /\ s.current + s.fit <= s.current + MaxScaleUpStep
        /\ s.current + s.fit <= MaxReplicas
    BY <1>1, <1>2, <2>3, ReplicaAssumption
  <2> HIDE DEF c
  <2> QED
    BY <1>1, <2>1, <2>2, <2>3, <2>4, DecidedFields
    DEF Sound, WriteReasons, HoldReasons, UpReasons, DownReasons
<1>5. CASE ~(s.fit >= delta) /\ ~(s.fit > 0 /\ AllowPartialScaleUp)
  <2> DEFINE c == ArmBackoff(b, s.fit)
  <2>1. c \in BackoffState
    BY <1>1, ArmBackoffType
  <2>2. ScaleByFit(s) = Decided(s, "HoldInsufficientResources", s.current, c)
    BY <1>5 DEF ScaleByFit
  <2> HIDE DEF c
  <2> QED
    BY <1>1, <2>1, <2>2, DecidedFields
    DEF Sound, WriteReasons, HoldReasons, UpReasons, DownReasons
<1> QED
  BY <1>3, <1>4, <1>5

LEMMA ScaleUpPathSound ==
  ASSUME NEW s \in Snapshot, Clamp(DesiredRaw(s)) > s.current
  PROVE  Sound(s, ScaleUpPath(s))
<1>1. {"HoldPendingPods", "HoldUnhealthyPods", "HoldBackoff", "HoldCooldown"} \subseteq HoldReasons
  BY DEF HoldReasons
<1> QED
  BY <1>1, HoldSound, ScaleByFitSound DEF ScaleUpPath

\* A scale-down stays in the range and never raises the count.
LEMMA ScaleDownPathSound ==
  ASSUME NEW s \in Snapshot, Clamp(DesiredRaw(s)) <= s.current
  PROVE  Sound(s, ScaleDownPath(s))
<1> DEFINE c == BackoffAfterDemand(s)
<1>1. /\ c \in BackoffState
      /\ s.current \in Nat
      /\ Clamp(DesiredRaw(s)) \in MinReplicas..MaxReplicas
  BY BackoffAfterType, DemandInt, ClampInRange DEF Snapshot
<1>2. /\ StepDown(s) \in Nat
      /\ StepDown(s) \in MinReplicas..MaxReplicas
      /\ StepDown(s) <= s.current
  <2>1. Larger(Clamp(DesiredRaw(s)), s.current - MaxScaleDownStep) \in MinReplicas..s.current
    BY <1>1, ReplicaAssumption DEF Larger
  <2> HIDE DEF c
  <2>2. Larger(Clamp(DesiredRaw(s)), s.current - MaxScaleDownStep) \in Int
    BY <1>1, <2>1, ReplicaAssumption
  <2>3. ASSUME NEW v \in MinReplicas..s.current
        PROVE  Clamp(v) \in MinReplicas..MaxReplicas /\ Clamp(v) <= s.current
    BY <1>1, ReplicaAssumption DEF Clamp, Smaller, Larger
  <2> QED
    BY <1>1, <2>1, <2>3, ReplicaAssumption DEF StepDown
<1>3. Sound(s, Decided(s, "ScaleDown", StepDown(s), c))
  <2> HIDE DEF c
  <2> QED
    BY <1>1, <1>2, DecidedFields DEF Sound, WriteReasons, HoldReasons, UpReasons, DownReasons
<1>4. {"HoldReplicasSettling", "HoldCooldown", "HoldStabilizationWindow"} \subseteq HoldReasons
  BY DEF HoldReasons
<1> QED
  BY <1>3, <1>4, HoldSound DEF ScaleDownPath

LEMMA DecideOnDemandSound ==
  ASSUME NEW s \in Snapshot
  PROVE  Sound(s, DecideOnDemand(s))
<1>1. {"HoldStaleMetrics", "HoldAtMaxReplicas", "HoldAtMinReplicas",
       "NoChangeWithinTolerance"} \subseteq HoldReasons
  BY DEF HoldReasons
<1>2. s.current \in Nat /\ Clamp(DesiredRaw(s)) \in Nat
  BY DemandInt, ClampInRange DEF Snapshot
<1>3. CASE Clamp(DesiredRaw(s)) > s.current
  BY <1>1, <1>3, HoldSound, HoldBlindSound, BackoffAfterType, ScaleUpPathSound
  DEF DecideOnDemand
<1>4. CASE Clamp(DesiredRaw(s)) <= s.current
  <2>1. ~(Clamp(DesiredRaw(s)) > s.current)
    BY <1>2, <1>4
  <2> QED
    BY <1>1, <1>4, <2>1, HoldSound, HoldBlindSound, BackoffAfterType, ScaleDownPathSound
    DEF DecideOnDemand
<1> QED
  BY <1>2, <1>3, <1>4

\* A revert lowers the count and stays in the range.
LEMMA RevertSound ==
  ASSUME NEW s \in Snapshot, Reverts(s)
  PROVE  Sound(s, RevertPending(s))
<1>1. /\ s.current \in Nat /\ s.lastGood \in Nat /\ s.pending \in Nat
      /\ s.unmat \in Nat /\ s.fit \in Nat /\ s.backoff \in BackoffState
  BY DEF Snapshot
<1>2. Larger(s.lastGood, s.current - (s.pending + s.unmat)) \in Int
  BY <1>1 DEF Larger
<1>3. RevertTarget(s) \in MinReplicas..MaxReplicas /\ RevertTarget(s) \in Nat
  BY <1>2, ClampInRange DEF RevertTarget
<1>4. RevertTarget(s) < s.current
  BY DEF Reverts
<1>5. ArmBackoff(s.backoff, s.fit) \in BackoffState
  BY <1>1, ArmBackoffType
<1>6. RevertPending(s) \in Decision
  BY <1>1, <1>3, <1>5 DEF RevertPending, Decision, WriteReasons
<1> QED
  BY <1>1, <1>3, <1>4, <1>6
  DEF RevertPending, Sound, HoldReasons, UpReasons, DownReasons

\* Decide, whatever it is given: a hold changes nothing; a scale-up is never by
\* more than fits, than the step allows, or to more than the maximum; a
\* scale-down or revert never raises the count and lands in the policy's range
\* (FR-02, I-4, "a hold never changes the replica count").
THEOREM DecideSound ==
  ASSUME NEW s \in Snapshot
  PROVE  Sound(s, Decide(s))
<1>1. {"ErrorAPIFailure", "HoldScalingConflict", "HoldExternalChange",
       "HoldRolloutInProgress"} \subseteq HoldReasons
  BY DEF HoldReasons
<1> QED
  BY <1>1, HoldBlindSound, BackoffAfterType, RevertSound, DecideOnDemandSound DEF Decide

----------------------------------------------------------------------------
(* Damping.                                                                *)

\* A scale-down has a demand sample at least a window old behind it (G11).
THEOREM ScaleDownIsCovered ==
  ASSUME NEW s \in Snapshot, Decide(s).reason = "ScaleDown"
  PROVE  \E x \in s.history : x.age >= Window
<1>1. \A r, b : HoldBlind(s, r, b).reason = r
  BY DEF HoldBlind
<1>2. \A r, t, b : Decided(s, r, t, b).reason = r
  BY DEF Decided
<1>3. \A r : Hold(s, r).reason = r
  BY <1>2 DEF Hold
<1>4. RevertPending(s).reason = "RevertPendingPods"
  BY DEF RevertPending
<1>5. ScaleByFit(s).reason # "ScaleDown"
  BY <1>2 DEF ScaleByFit
<1>6. ScaleUpPath(s).reason # "ScaleDown"
  BY <1>3, <1>5 DEF ScaleUpPath
<1>7. Decide(s) = DecideOnDemand(s)
  BY <1>1, <1>4 DEF Decide
<1>8. DecideOnDemand(s) = ScaleDownPath(s)
  BY <1>1, <1>3, <1>6, <1>7 DEF DecideOnDemand
<1>9. WindowCovered(s.history)
  BY <1>3, <1>7, <1>8 DEF ScaleDownPath
<1> QED
  BY <1>9 DEF WindowCovered

----------------------------------------------------------------------------
(* Reverting.                                                              *)

\* clampInt32 preserves the order of counts.
LEMMA ClampMonotone ==
  ASSUME NEW v \in Int, NEW w \in Int, v <= w
  PROVE  Clamp(v) <= Clamp(w)
  BY ReplicaAssumption DEF Clamp, Smaller, Larger

\* A decision is a revert only by the watchdog.
LEMMA RevertIsPending ==
  ASSUME NEW s \in Snapshot, Decide(s).reason = "RevertPendingPods"
  PROVE  Decide(s) = RevertPending(s) /\ Reverts(s)
<1>1. \A r, b : HoldBlind(s, r, b).reason = r
  BY DEF HoldBlind
<1>2. \A r, t, b : Decided(s, r, t, b).reason = r
  BY DEF Decided
<1>3. \A r : Hold(s, r).reason = r
  BY <1>2 DEF Hold
<1>4. ScaleByFit(s).reason # "RevertPendingPods"
  BY <1>2 DEF ScaleByFit
<1>5. ScaleUpPath(s).reason # "RevertPendingPods"
  BY <1>3, <1>4 DEF ScaleUpPath
<1>6. ScaleDownPath(s).reason # "RevertPendingPods"
  BY <1>2, <1>3 DEF ScaleDownPath
<1>7. DecideOnDemand(s).reason # "RevertPendingPods"
  BY <1>1, <1>3, <1>5, <1>6 DEF DecideOnDemand
<1> QED
  BY <1>1, <1>7 DEF Decide

\* A revert takes back no more than the last scale-up, as the snapshot knows it.
LEMMA RevertAboveLastGood ==
  ASSUME NEW s \in Snapshot, Decide(s).reason = "RevertPendingPods"
  PROVE  Decide(s).target >= Clamp(s.lastGood)
<1>1. Decide(s).target = Clamp(Larger(s.lastGood, s.current - (s.pending + s.unmat)))
  BY RevertIsPending DEF RevertPending, RevertTarget
<1>2. /\ s.lastGood \in Int
      /\ Larger(s.lastGood, s.current - (s.pending + s.unmat)) \in Int
      /\ s.lastGood <= Larger(s.lastGood, s.current - (s.pending + s.unmat))
  BY DEF Snapshot, Larger
<1>3. /\ Clamp(s.lastGood) \in Int
      /\ Clamp(Larger(s.lastGood, s.current - (s.pending + s.unmat))) \in Int
  BY <1>2, ClampInRange
<1> QED
  BY <1>1, <1>2, <1>3, ClampMonotone

-----------------------------------------------------------------------------
(* What is accepted.                                                       *)

(* ReplicaAssumption of ScalingEngine.                                     *)
ReplicasFit(c) ==
  /\ c.minReplicas \in Nat \ {0} /\ c.maxReplicas \in Nat
  /\ c.minReplicas <= c.maxReplicas
  /\ c.maxScaleUpStep \in Nat \ {0} /\ c.maxScaleDownStep \in Nat \ {0}

(* The fraction num / den stands for the factor x.  Of an infinity or NaN  *)
(* any does: what becomes of the product as a duration is the platform's.  *)
IsFactor(num, den, x) ==
  x.kind = "number" => num * Cfg!One = den * x.value

(* PolicyAssumption.                                                       *)
PolicyFits(c) ==
  /\ c.backoffInitial \in Nat \ {0} /\ c.backoffMax \in Nat
  /\ c.backoffInitial <= c.backoffMax
  /\ \E num \in Nat, den \in Nat \ {0} :
       den <= num /\ IsFactor(num, den, c.backoffFactor)
  /\ c.externalChangeTolerance \in Nat /\ c.allowPartialScaleUp \in BOOLEAN
  /\ c.onPendingTimeout \in {"revert", "freeze", "none"}

(* DemandAssumption, with IntLimit 2^31.                                   *)
DemandFits(c) ==
  /\ c.itemsPerReplica \in Nat \ {0} /\ c.targetCPU \in Nat \ {0}
  /\ c.tolerancePercent \in 0..100
  /\ c.maxReplicas <= Cfg!MaxInt32

(* int64(coverage * 1000); of NaN it is 0, or on amd64 an integer that no  *)
(* count is below, like 0.                                                 *)
CoverageThousandths(c) ==
  IF c.coverage.kind = "number" THEN c.coverage.value \div Cfg!Milli ELSE 0

(* TimeAssumption, whose unit is one interval: each of the three times the *)
(* engine compares with ages of what it saw is at least one.               *)
TimesFit(c) ==
  /\ c.interval \in Nat \ {0}
  /\ c.scaleUpCooldown \in Nat /\ c.scaleDownCooldown \in Nat
  /\ c.window \div c.interval \in Nat \ {0} /\ CoverageThousandths(c) \in 0..1000
  /\ c.pendingPodTimeout \div c.interval \in Nat \ {0}
  /\ c.metricsStaleAfter \div c.interval \in Nat \ {0}
  /\ c.podStartupTimeout \in Nat \ {0} /\ c.signalTimeout \in Nat

(* AlphaAssumption of Demand.                                              *)
AlphaFits(c) ==
  c.smoothing = "ewma" => c.alpha.kind = "number" /\ c.alpha.value \in 1..Cfg!One

LEMMA AtLeastOne ==
  ASSUME NEW n \in Int, NEW i \in Int, i > 0, n >= i
  PROVE  n \div i \in Nat \ {0}
OBVIOUS

LEMMA Thousandths ==
  ASSUME NEW v \in Int, NEW m \in Int, m > 0, v > 0, v <= 1000 * m
  PROVE  v \div m \in 0..1000
OBVIOUS

LEMMA OneIsInt ==
  Cfg!One \in Int /\ Cfg!Milli \in Int /\ Cfg!Milli > 0 /\ Cfg!One = 1000 * Cfg!Milli
<1>1. Cfg!Milli \in Int /\ Cfg!Milli > 0
  BY DEF Cfg!Milli
<1>2. Cfg!One = 1000 * Cfg!Milli
  BY DEF Cfg!One
<1> QED
  BY <1>1, <1>2, SMT

(* Only a NaN escapes the two comparisons.                                 *)
LEMMA UnitInterval ==
  ASSUME NEW x \in Cfg!Float, x.kind # "nan",
         ~Cfg!FloatAtMost(x, 0), ~Cfg!FloatAbove(x, Cfg!One)
  PROVE  x.kind = "number" /\ x.value \in 1..Cfg!One
<1>1. x.value \in Int /\ x.kind \in {"number", "inf", "-inf", "nan"}
  BY DEF Cfg!Float
<1>2. x.kind = "number"
  BY <1>1 DEF Cfg!FloatAtMost, Cfg!FloatAbove
<1>3. ~(x.value <= 0) /\ ~(x.value > Cfg!One)
  BY <1>2 DEF Cfg!FloatAtMost, Cfg!FloatAbove
<1> QED
  BY <1>1, <1>2, <1>3, OneIsInt, SMT

(* A factor above 1 is a fraction above 1; to the others any will do.      *)
LEMMA FactorFits ==
  ASSUME NEW x \in Cfg!Float, ~Cfg!FloatAtMost(x, Cfg!One)
  PROVE  \E num \in Nat, den \in Nat \ {0} : den <= num /\ IsFactor(num, den, x)
<1>1. CASE x.kind = "number"
  <2>1. x.value \in Int
    BY DEF Cfg!Float
  <2>2. ~(x.value <= Cfg!One)
    BY <1>1 DEF Cfg!FloatAtMost
  <2>3. x.value \in Nat /\ Cfg!One \in Nat \ {0} /\ Cfg!One <= x.value
    BY <2>1, <2>2, OneIsInt, SMT
  <2>4. x.value * Cfg!One = Cfg!One * x.value
    BY <2>3
  <2> QED
    BY <2>3, <2>4 DEF IsFactor
<1>2. CASE x.kind # "number"
  <2>1. 1 \in Nat /\ 1 \in Nat \ {0} /\ 1 <= 1 /\ IsFactor(1, 1, x)
    BY <1>2 DEF IsFactor
  <2> QED
    BY <2>1
<1> QED
  BY <1>1, <1>2

LEMMA LoadedIsValid ==
  ASSUME NEW file, NEW env, NEW readable \in BOOLEAN,
         Cfg!Accepts(file, env, readable)
  PROVE  LET c == Cfg!Resolved(file, env) IN c \in Cfg!Config /\ Cfg!Valid(c)
BY DEF Cfg!Accepts

LEMMA ValidReplicasFit ==
  ASSUME NEW c \in Cfg!Config, Cfg!Valid(c)
  PROVE  ReplicasFit(c) /\ c.maxReplicas <= Cfg!MaxInt32
<1>1. /\ c.minReplicas \in Cfg!Int32 /\ c.maxReplicas \in Cfg!Int32
      /\ c.maxScaleUpStep \in Cfg!Int32 /\ c.maxScaleDownStep \in Cfg!Int32
  BY DEF Cfg!Config
<1>2. Cfg!MaxInt32 \in Int
  BY DEF Cfg!MaxInt32
<1>3. Cfg!ValidTarget(c) /\ Cfg!ValidScaling(c)
  BY DEF Cfg!Valid
<1>4. /\ c.minReplicas >= 1 /\ c.maxReplicas >= 1 /\ c.minReplicas <= c.maxReplicas
      /\ c.maxScaleUpStep >= 1 /\ c.maxScaleDownStep >= 1
  BY <1>3 DEF Cfg!ValidTarget, Cfg!ValidScaling
<1> QED
  BY <1>1, <1>2, <1>4, SMT DEF Cfg!Int32, ReplicasFit

LEMMA ValidPolicyFits ==
  ASSUME NEW c \in Cfg!Config, Cfg!Valid(c)
  PROVE  PolicyFits(c)
<1>1. /\ c.backoffInitial \in Int /\ c.backoffMax \in Int
      /\ c.externalChangeTolerance \in Int /\ c.allowPartialScaleUp \in BOOLEAN
  BY DEF Cfg!Config
<1>2. Cfg!ValidScaling(c) /\ Cfg!ValidPending(c)
  BY DEF Cfg!Valid
<1>3. /\ c.backoffInitial > 0 /\ c.backoffMax >= c.backoffInitial
      /\ c.externalChangeTolerance >= 0
  BY <1>2 DEF Cfg!ValidScaling
<1>4. c.onPendingTimeout \in {"revert", "freeze", "none"}
  BY <1>2 DEF Cfg!ValidPending
<1>5. \E num \in Nat, den \in Nat \ {0} :
        den <= num /\ IsFactor(num, den, c.backoffFactor)
  <2>1. c.backoffFactor \in Cfg!Float
    BY DEF Cfg!Config
  <2>2. ~Cfg!FloatAtMost(c.backoffFactor, Cfg!One)
    BY <1>2 DEF Cfg!ValidScaling
  <2> QED
    BY <2>1, <2>2, FactorFits
<1>6. c.backoffInitial \in Nat \ {0} /\ c.backoffMax \in Nat /\ c.externalChangeTolerance \in Nat
  BY <1>1, <1>3
<1> QED
  BY <1>1, <1>3, <1>4, <1>5, <1>6 DEF PolicyFits

LEMMA ValidDemandFits ==
  ASSUME NEW c \in Cfg!Config, Cfg!Valid(c)
  PROVE  DemandFits(c)
<1>1. c.itemsPerReplica \in Int
  BY DEF Cfg!Config
<1>2. Cfg!ValidWorkload(c) /\ Cfg!ValidScaling(c)
  BY DEF Cfg!Valid
<1>3. c.itemsPerReplica > 0 /\ c.targetCPU \in 1..100
  BY <1>2 DEF Cfg!ValidWorkload
<1>4. c.tolerancePercent \in 0..100
  BY <1>2 DEF Cfg!ValidScaling
<1> QED
  BY <1>1, <1>3, <1>4, ValidReplicasFit, SMT DEF DemandFits

LEMMA ValidCoverageFits ==
  ASSUME NEW c \in Cfg!Config, Cfg!Valid(c)
  PROVE  CoverageThousandths(c) \in 0..1000
<1>1. CASE c.coverage.kind = "number"
  <2>1. c.coverage \in Cfg!Float
    BY DEF Cfg!Config
  <2>2. Cfg!ValidScaling(c)
    BY DEF Cfg!Valid
  <2>3. c.coverage.value \in 1..Cfg!One
    BY <1>1, <2>1, <2>2, UnitInterval DEF Cfg!ValidScaling
  <2> DEFINE v == c.coverage.value
  <2>4. v \in Int /\ v > 0 /\ v <= 1000 * Cfg!Milli
    BY <2>3, OneIsInt
  <2> HIDE DEF v
  <2>5. v \div Cfg!Milli \in 0..1000
    BY <2>4, OneIsInt, Thousandths
  <2> QED
    BY <1>1, <2>5 DEF v, CoverageThousandths
<1>2. CASE c.coverage.kind # "number"
  BY <1>2 DEF CoverageThousandths
<1> QED
  BY <1>1, <1>2

LEMMA ValidTimesFit ==
  ASSUME NEW c \in Cfg!Config, Cfg!Valid(c)
  PROVE  TimesFit(c)
<1>1. /\ c.interval \in Int /\ c.window \in Int /\ c.pendingPodTimeout \in Int
      /\ c.metricsStaleAfter \in Int /\ c.scaleUpCooldown \in Int
      /\ c.scaleDownCooldown \in Int /\ c.podStartupTimeout \in Int
      /\ c.signalTimeout \in Int
  BY DEF Cfg!Config
<1>2. /\ Cfg!ValidController(c) /\ Cfg!ValidRatios(c) /\ Cfg!ValidScaling(c) /\ Cfg!ValidPending(c)
      /\ Cfg!ValidWorkload(c)
  BY DEF Cfg!Valid
<1>3. c.interval > 0
  <2>1. Cfg!MinInterval \in Int /\ Cfg!MinInterval > 0
    BY DEF Cfg!MinInterval, Cfg!Second
  <2> QED
    BY <1>1, <1>2, <2>1 DEF Cfg!ValidController
<1>4. /\ c.metricsStaleAfter >= c.interval /\ c.window >= c.interval
      /\ c.pendingPodTimeout >= c.interval
  BY <1>2 DEF Cfg!ValidRatios
<1>5. c.scaleUpCooldown >= 0 /\ c.scaleDownCooldown >= 0
  BY <1>2 DEF Cfg!ValidScaling
<1>6. c.podStartupTimeout > 0
  BY <1>2 DEF Cfg!ValidPending
<1>7. c.signalTimeout > 0
  BY <1>2 DEF Cfg!ValidWorkload, Cfg!ValidSignal
<1>8. /\ c.window \div c.interval \in Nat \ {0}
      /\ c.pendingPodTimeout \div c.interval \in Nat \ {0}
      /\ c.metricsStaleAfter \div c.interval \in Nat \ {0}
  BY <1>1, <1>3, <1>4, AtLeastOne
<1>9. /\ c.interval \in Nat \ {0} /\ c.scaleUpCooldown \in Nat /\ c.scaleDownCooldown \in Nat
      /\ c.podStartupTimeout \in Nat \ {0} /\ c.signalTimeout \in Nat
  BY <1>1, <1>3, <1>5, <1>6, <1>7
<1> QED
  BY <1>8, <1>9, ValidCoverageFits DEF TimesFit

(* Whatever the file and the environment say, a configuration that is      *)
(* accepted meets everything the engine assumes of its replicas, policy,   *)
(* demand and times, with any factor above 1, an infinite one and NaN      *)
(* (Load, Validate).                                                       *)
THEOREM AcceptedFits ==
  ASSUME NEW file, NEW env, NEW readable \in BOOLEAN,
         Cfg!Accepts(file, env, readable)
  PROVE  LET c == Cfg!Resolved(file, env)
         IN  ReplicasFit(c) /\ PolicyFits(c) /\ DemandFits(c) /\ TimesFit(c)
BY LoadedIsValid, ValidReplicasFit, ValidPolicyFits, ValidDemandFits, ValidTimesFit

(* So does alpha meet what the average assumes, as long as it is not NaN,  *)
(* which the decoder and ParseFloat let through and no comparison stops    *)
(* (validate.go:190).                                                      *)
THEOREM AcceptedAlphaFits ==
  ASSUME NEW file, NEW env, NEW readable \in BOOLEAN,
         Cfg!Accepts(file, env, readable),
         Cfg!Resolved(file, env).alpha.kind # "nan"
  PROVE  AlphaFits(Cfg!Resolved(file, env))
<1> DEFINE c == Cfg!Resolved(file, env)
<1>1. c \in Cfg!Config /\ Cfg!Valid(c)
  BY LoadedIsValid
<1> HIDE DEF c
<1>2. c.alpha \in Cfg!Float
  BY <1>1 DEF Cfg!Config
<1>3. Cfg!ValidWorkload(c)
  BY <1>1 DEF Cfg!Valid
<1>4. c.alpha.kind # "nan"
  BY DEF c
<1>5. AlphaFits(c)
  BY <1>2, <1>3, <1>4, UnitInterval DEF Cfg!ValidWorkload, AlphaFits
<1> QED
  BY <1>5 DEF c

-----------------------------------------------------------------------------
(* Arithmetic of demand.                                                   *)

LEMMA DivMonotone ==
  ASSUME NEW a \in Int, NEW c \in Int, NEW b \in Nat \ {0}, a <= c
  PROVE  a \div b <= c \div b
OBVIOUS

\* A larger backlog never needs fewer replicas.
LEMMA CeilDivMonotone ==
  ASSUME NEW a \in Int, NEW c \in Int, NEW b \in Nat \ {0}, a <= c
  PROVE  CeilDiv(a, b) <= CeilDiv(c, b) /\ 0 <= CeilDiv(a, b)
<1>1. ASSUME NEW x \in Int, x > 0
      PROVE  0 <= (x + b - 1) \div b
  <2>1. 0 \div b <= (x + b - 1) \div b
    BY <1>1, DivMonotone
  <2>2. 0 \div b = 0
    OBVIOUS
  <2> QED
    BY <2>1, <2>2
<1>2. (a + b - 1) \div b <= (c + b - 1) \div b
  BY DivMonotone
<1> QED
  BY <1>1, <1>2 DEF CeilDiv

\* int32 keeps what fits.
LEMMA ToInt32Small ==
  ASSUME NEW x \in Nat, x < IntLimit
  PROVE  ToInt32(x) = x
<1>1. /\ x + IntLimit \in Nat /\ 2 * IntLimit \in Nat \ {0}
      /\ x + IntLimit < 2 * IntLimit
  BY DemandAssumption
<1>2. ASSUME NEW y \in Nat, NEW m \in Nat \ {0}, y < m
      PROVE  y % m = y
  BY <1>2
<1>3. (x + IntLimit) % (2 * IntLimit) = x + IntLimit
  BY <1>1, <1>2
<1> QED
  BY <1>3, DemandAssumption DEF ToInt32

-----------------------------------------------------------------------------
(* The target of each path.                                                *)

UpBlocked(s) ==
  \/ Stuck(s) \/ s.unhealthyAge > PodStartupTimeout
  \/ BackoffActive(s) \/ s.sinceUp < ScaleUpCooldown

FitTarget(s) ==
  IF s.fit >= StepUp(s) - s.current THEN StepUp(s)
  ELSE IF s.fit > 0 /\ AllowPartialScaleUp THEN s.current + s.fit
  ELSE s.current

DownBlocked(s) ==
  \/ s.ready # s.current \/ s.sinceDown < ScaleDownCooldown
  \/ ~WindowCovered(s.history) \/ ~QuietInWindow(s)

AtLimit(s) ==
  \/ DesiredRaw(s) > MaxReplicas /\ s.current = MaxReplicas
  \/ DesiredRaw(s) < MinReplicas /\ s.current = MinReplicas

Near(s) == WithinTolerance(Clamp(DesiredRaw(s)), s.current)

LEMMA Targets ==
  ASSUME NEW s
  PROVE  /\ \A r, t, b : Decided(s, r, t, b).target = t
         /\ \A r, t, b : Decided(s, r, t, b).reason = r
         /\ \A r : Hold(s, r).target = s.current /\ Hold(s, r).reason = r
         /\ \A r, b : HoldBlind(s, r, b).target = s.current /\ HoldBlind(s, r, b).reason = r
<1>1. /\ \A r, t, b : Decided(s, r, t, b).target = t
      /\ \A r, t, b : Decided(s, r, t, b).reason = r
  BY DEF Decided
<1>2. \A r, b : HoldBlind(s, r, b).target = s.current /\ HoldBlind(s, r, b).reason = r
  BY DEF HoldBlind
<1> QED
  BY <1>1, <1>2 DEF Hold

LEMMA UpTarget ==
  ASSUME NEW s \in Snapshot, Fresh(s.backlog), Clamp(DesiredRaw(s)) > s.current
  PROVE  DecideOnDemand(s).target =
           IF Near(s) \/ UpBlocked(s) THEN s.current ELSE FitTarget(s)
<1>1. ~AtLimit(s)
  <2>1. DesiredRaw(s) \in Int /\ s.current \in Nat
    BY DemandInt DEF Snapshot
  <2> QED
    BY <2>1, ReplicaAssumption DEF AtLimit, Clamp, Smaller, Larger
<1>2. DecideOnDemand(s) = IF Near(s) THEN Hold(s, "NoChangeWithinTolerance")
                          ELSE ScaleUpPath(s)
  BY <1>1 DEF DecideOnDemand, AtLimit, Near
<1>3. ScaleUpPath(s).target = IF UpBlocked(s) THEN s.current ELSE ScaleByFit(s).target
  BY Targets DEF ScaleUpPath, UpBlocked
<1>4. ScaleByFit(s).target = FitTarget(s)
  BY Targets DEF ScaleByFit, FitTarget
<1> QED
  BY <1>2, <1>3, <1>4, Targets

LEMMA DownTarget ==
  ASSUME NEW s \in Snapshot, Fresh(s.backlog), Clamp(DesiredRaw(s)) <= s.current
  PROVE  DecideOnDemand(s).target =
           IF AtLimit(s) \/ Near(s) \/ DownBlocked(s) THEN s.current ELSE StepDown(s)
<1>1. ~(Clamp(DesiredRaw(s)) > s.current)
  BY DemandInt, ClampInRange DEF Snapshot
<1>2. DecideOnDemand(s).target = IF AtLimit(s) \/ Near(s) THEN s.current
                                 ELSE ScaleDownPath(s).target
  BY <1>1, Targets DEF DecideOnDemand, AtLimit, Near
<1>3. ScaleDownPath(s).target = IF DownBlocked(s) THEN s.current ELSE StepDown(s)
  BY Targets DEF ScaleDownPath, DownBlocked
<1> QED
  BY <1>2, <1>3

\* Going up never lowers the count, and by how much it goes grows with what is
\* wanted and with the room there is.
LEMMA FitTargetBounds ==
  ASSUME NEW s \in Snapshot, Clamp(DesiredRaw(s)) > s.current
  PROVE  FitTarget(s) \in Nat /\ FitTarget(s) >= s.current
<1>1. /\ s.current \in Nat /\ s.fit \in Nat /\ Clamp(DesiredRaw(s)) \in Nat
      /\ MaxScaleUpStep \in Nat
  BY DemandInt, ClampInRange, ReplicaAssumption DEF Snapshot
<1>2. StepUp(s) \in Nat /\ StepUp(s) >= s.current
  BY <1>1 DEF StepUp, Smaller
<1> QED
  BY <1>1, <1>2 DEF FitTarget

\* Going down never raises the count.
LEMMA StepDownBounds ==
  ASSUME NEW s \in Snapshot, Clamp(DesiredRaw(s)) <= s.current
  PROVE  /\ StepDown(s) \in MinReplicas..MaxReplicas /\ StepDown(s) <= s.current
         /\ StepDown(s) >= Clamp(DesiredRaw(s))
         /\ Clamp(DesiredRaw(s)) < s.current => StepDown(s) < s.current
<1>1. /\ s.current \in Nat /\ Clamp(DesiredRaw(s)) \in MinReplicas..MaxReplicas
      /\ Clamp(DesiredRaw(s)) \in Nat
  BY DemandInt, ClampInRange DEF Snapshot
<1>2. ASSUME NEW d \in MinReplicas..MaxReplicas, d <= s.current
      PROVE  LET t == Clamp(Larger(d, s.current - MaxScaleDownStep)) IN
             /\ t \in MinReplicas..MaxReplicas /\ t <= s.current /\ t >= d
             /\ d < s.current => t < s.current
  BY <1>1, <1>2, ReplicaAssumption DEF Clamp, Smaller, Larger
<1> QED
  BY <1>1, <1>2 DEF StepDown

-----------------------------------------------------------------------------
(* More demand.                                                            *)

\* The demand of a backlog that int32 can hold.
BacklogFits(n) == CeilDiv(n, ItemsPerReplica) < IntLimit

\* Everything of t but its backlog and its room is as in s.
SameTarget(s, t) ==
  /\ t.valid = s.valid /\ t.hpa = s.hpa /\ t.drifts = s.drifts /\ t.rollout = s.rollout
  /\ t.current = s.current /\ t.ready = s.ready /\ t.cpu = s.cpu
  /\ t.sinceUp = s.sinceUp /\ t.sinceDown = s.sinceDown /\ t.history = s.history
  /\ t.backoff = s.backoff /\ t.lastGood = s.lastGood
  /\ t.pending = s.pending /\ t.pendingAge = s.pendingAge
  /\ t.unmat = s.unmat /\ t.unmatAge = s.unmatAge /\ t.unhealthyAge = s.unhealthyAge
  /\ Fresh(t.backlog) = Fresh(s.backlog)

\* Where demand is not asked for, neither backlog nor room changes the target.
LEMMA BlindTarget ==
  ASSUME NEW s \in Snapshot, NEW t \in Snapshot, SameTarget(s, t)
  PROVE  \/ Decide(t).target = Decide(s).target
         \/ /\ Decide(s) = DecideOnDemand(s) /\ Decide(t) = DecideOnDemand(t)
            /\ Fresh(s.backlog) /\ Fresh(t.backlog)
<1>1. (Reverts(t) <=> Reverts(s)) /\ RevertTarget(t) = RevertTarget(s)
  BY DEF SameTarget, Reverts, RevertTarget, PendingTimedOut
<1>2. t.current = s.current
  BY DEF SameTarget
<1>3. CASE Reverts(s)
  BY <1>1, <1>2, <1>3, Targets DEF Decide, RevertPending, SameTarget
<1>4. CASE ~Reverts(s) /\ ~Fresh(s.backlog)
  <2>1. DecideOnDemand(s).target = s.current /\ DecideOnDemand(t).target = t.current
    BY <1>4, Targets DEF DecideOnDemand, SameTarget
  <2> QED
    BY <1>1, <1>2, <1>4, <2>1, Targets DEF Decide, SameTarget
<1>5. CASE ~Reverts(s) /\ Fresh(s.backlog)
  BY <1>1, <1>2, <1>5, Targets DEF Decide, SameTarget
<1> QED
  BY <1>3, <1>4, <1>5

LEMMA ClampNearer ==
  ASSUME NEW v \in Int, NEW w \in Int, NEW c \in Nat, WithinTolerance(w, c),
         (c <= v /\ v <= w) \/ (w <= v /\ v <= c)
  PROVE  WithinTolerance(v, c)
<1>1. TolerancePercent * c \in Int
  BY DemandAssumption
<1> DEFINE bound == TolerancePercent * c
<1>2. Larger(w - c, c - w) * 100 < bound /\ c > 0
  BY DEF WithinTolerance
<1>3. bound \in Int
  BY <1>1
<1> HIDE DEF bound
<1>4. Larger(v - c, c - v) * 100 < bound
  BY <1>2, <1>3 DEF Larger
<1> QED
  BY <1>2, <1>4 DEF WithinTolerance, bound

LEMMA FitTargetMonotone ==
  ASSUME NEW s \in Snapshot, NEW t \in Snapshot, t.current = s.current,
         Clamp(DesiredRaw(s)) > s.current,
         \/ DesiredRaw(t) >= DesiredRaw(s) /\ t.fit = s.fit /\ AllowPartialScaleUp
         \/ DesiredRaw(t) = DesiredRaw(s) /\ t.fit >= s.fit
  PROVE  FitTarget(t) >= FitTarget(s)
<1>1. /\ s.current \in Nat /\ s.fit \in Nat /\ t.fit \in Nat
      /\ Clamp(DesiredRaw(s)) \in Nat /\ Clamp(DesiredRaw(t)) \in Nat
      /\ MaxScaleUpStep \in Nat
      /\ DesiredRaw(s) \in Int /\ DesiredRaw(t) \in Int
  BY DemandInt, ClampInRange, ReplicaAssumption DEF Snapshot
<1>2. Clamp(DesiredRaw(s)) <= Clamp(DesiredRaw(t))
  BY <1>1, ClampMonotone
<1>3. /\ StepUp(s) \in Nat /\ StepUp(t) \in Nat
      /\ StepUp(s) > s.current /\ StepUp(s) <= StepUp(t)
      /\ DesiredRaw(t) = DesiredRaw(s) => StepUp(t) = StepUp(s)
  BY <1>1, <1>2, ReplicaAssumption DEF StepUp, Smaller
<1> QED
  BY <1>1, <1>3 DEF FitTarget

\* What demand calls for is monotone, as long as a partial scale-up is allowed.
LEMMA MoreDemandMoreTarget ==
  ASSUME NEW s \in Snapshot, NEW t \in Snapshot, SameTarget(s, t), t.fit = s.fit,
         Fresh(s.backlog), DesiredRaw(t) >= DesiredRaw(s), AllowPartialScaleUp
  PROVE  DecideOnDemand(t).target >= DecideOnDemand(s).target
<1> DEFINE c == s.current
           v == Clamp(DesiredRaw(s))
           w == Clamp(DesiredRaw(t))
<1>1. /\ c \in Nat /\ v \in Nat /\ w \in Nat /\ t.current = c
      /\ DesiredRaw(s) \in Int /\ DesiredRaw(t) \in Int
      /\ v \in MinReplicas..MaxReplicas /\ w \in MinReplicas..MaxReplicas
  BY DemandInt, ClampInRange DEF Snapshot, SameTarget
<1>2. v <= w
  BY <1>1, ClampMonotone
<1>3. Fresh(t.backlog) /\ (UpBlocked(t) <=> UpBlocked(s)) /\ (DownBlocked(t) <=> DownBlocked(s))
  BY DEF SameTarget, UpBlocked, DownBlocked, Stuck, BackoffActive, QuietInWindow
<1>4. CASE v > c
  <2>1. w > c /\ (Near(t) => Near(s))
    BY <1>1, <1>2, <1>4, ClampNearer DEF Near
  <2>2. FitTarget(t) >= FitTarget(s) /\ FitTarget(t) >= c
    BY <1>1, <1>4, <2>1, FitTargetMonotone, FitTargetBounds
  <2>3. /\ DecideOnDemand(s).target = IF Near(s) \/ UpBlocked(s) THEN c ELSE FitTarget(s)
        /\ DecideOnDemand(t).target = IF Near(t) \/ UpBlocked(t) THEN c ELSE FitTarget(t)
    BY <1>1, <1>3, <1>4, <2>1, UpTarget
  <2> HIDE DEF c, v, w
  <2> QED
    BY <1>1, <1>3, <2>1, <2>2, <2>3
<1>5. CASE ~(v > c)
  <2>1. /\ v <= c
        /\ StepDown(s) \in MinReplicas..MaxReplicas /\ StepDown(s) <= c
        /\ DecideOnDemand(s).target = IF AtLimit(s) \/ Near(s) \/ DownBlocked(s) THEN c
                                      ELSE StepDown(s)
    BY <1>1, <1>5, DownTarget, StepDownBounds
  <2>2. StepDown(s) \in Nat /\ DecideOnDemand(s).target <= c
    <3> HIDE DEF c, v, w
    <3> QED
      BY <1>1, <2>1, ReplicaAssumption
  <2>3. CASE w > c
    <3>1. DecideOnDemand(t).target = IF Near(t) \/ UpBlocked(t) THEN c ELSE FitTarget(t)
      BY <1>1, <1>3, <2>3, UpTarget
    <3>2. FitTarget(t) \in Nat /\ FitTarget(t) >= c
      BY <1>1, <2>3, FitTargetBounds
    <3>3. DecideOnDemand(t).target \in Nat /\ DecideOnDemand(t).target >= c
      <4> HIDE DEF c, v, w
      <4> QED
        BY <1>1, <3>1, <3>2
    <3> HIDE DEF c, v, w
    <3> QED
      BY <1>1, <2>1, <2>2, <3>3
  <2>4. CASE ~(w > c)
    <3>1. /\ DecideOnDemand(t).target = IF AtLimit(t) \/ Near(t) \/ DownBlocked(t) THEN c
                                        ELSE StepDown(t)
          /\ StepDown(t) \in MinReplicas..MaxReplicas
      BY <1>1, <1>3, <2>4, DownTarget, StepDownBounds
    <3>2. Near(s) => Near(t)
      BY <1>1, <1>2, <2>4, ClampNearer DEF Near
    <3>3. AtLimit(s) => AtLimit(t) \/ c = MinReplicas
      BY <1>1, ReplicaAssumption DEF AtLimit
    <3>4. StepDown(s) <= StepDown(t)
      <4>1. MaxScaleDownStep \in Nat
        BY ReplicaAssumption
      <4>2. /\ Larger(v, c - MaxScaleDownStep) \in Int /\ Larger(w, c - MaxScaleDownStep) \in Int
            /\ Larger(v, c - MaxScaleDownStep) <= Larger(w, c - MaxScaleDownStep)
        <5> HIDE DEF c, v, w
        <5> QED
          BY <1>1, <1>2, <4>1 DEF Larger
      <4> QED
        BY <1>1, <4>2, ClampMonotone DEF StepDown
    <3> HIDE DEF c, v, w
    <3> QED
      BY <1>1, <1>3, <2>1, <2>2, <3>1, <3>2, <3>3, <3>4, ReplicaAssumption
  <2> QED
    BY <2>3, <2>4
<1> QED
  BY <1>4, <1>5

\* A larger backlog is a larger demand, as long as int32 holds it.
LEMMA DemandMonotone ==
  ASSUME NEW s \in Snapshot, NEW t \in Snapshot,
         t.cpu = s.cpu, t.ready = s.ready, t.backlog.value >= s.backlog.value,
         BacklogFits(t.backlog.value)
  PROVE  DesiredRaw(t) >= DesiredRaw(s)
<1> DEFINE v == CeilDiv(s.backlog.value, ItemsPerReplica)
           w == CeilDiv(t.backlog.value, ItemsPerReplica)
<1>1. s.backlog.value \in Int /\ t.backlog.value \in Int
  BY DEF Snapshot, Signal
<1>2. v \in Int /\ w \in Int /\ 0 <= v /\ v <= w /\ w < IntLimit
  BY <1>1, CeilDivInt, CeilDivMonotone, DemandAssumption DEF BacklogFits
<1>3. DesiredBacklog(s) = v /\ DesiredBacklog(t) = w
  <2> HIDE DEF v, w
  <2>1. v \in Nat /\ w \in Nat /\ v < IntLimit
    BY <1>2, DemandAssumption
  <2>2. ToInt32(v) = v /\ ToInt32(w) = w
    BY <1>2, <2>1, ToInt32Small
  <2> QED
    BY <2>2 DEF DesiredBacklog, v, w
<1>4. DesiredUtilization(t) = DesiredUtilization(s)
  BY DEF DesiredUtilization
<1>5. DesiredUtilization(s) \in Int
  <2>1. s.ready * s.cpu.value \in Int /\ TargetCpu * 1000 \in Nat \ {0}
    BY DemandAssumption DEF Snapshot, Signal
  <2> QED
    BY <2>1, CeilDivInt, ToInt32Int DEF DesiredUtilization
<1> HIDE DEF v, w
<1> QED
  BY <1>2, <1>3, <1>4, <1>5 DEF DesiredRaw, Larger

\* More room: only the backoff and the feasibility gate look at it.
LEMMA MoreRoomMoreTarget ==
  ASSUME NEW s \in Snapshot, NEW t \in Snapshot, SameTarget(s, t), t.fit >= s.fit,
         Fresh(s.backlog), t.backlog = s.backlog
  PROVE  DecideOnDemand(t).target >= DecideOnDemand(s).target
<1> DEFINE c == s.current
           v == Clamp(DesiredRaw(s))
<1>1. /\ c \in Nat /\ v \in Nat /\ t.current = c /\ DesiredRaw(s) \in Int
      /\ DesiredRaw(t) = DesiredRaw(s) /\ Fresh(t.backlog)
  BY DemandInt, ClampInRange
  DEF Snapshot, SameTarget, DesiredRaw, DesiredBacklog, DesiredUtilization
<1>2. (Near(t) <=> Near(s)) /\ (AtLimit(t) <=> AtLimit(s)) /\ (DownBlocked(t) <=> DownBlocked(s))
  BY <1>1 DEF SameTarget, Near, AtLimit, DownBlocked, QuietInWindow
<1>3. UpBlocked(t) => UpBlocked(s)
  <2>1. s.backoff.fitAtArm \in Int /\ s.fit \in Nat /\ t.fit \in Nat
    BY DEF Snapshot, BackoffState
  <2> QED
    BY <2>1 DEF SameTarget, UpBlocked, Stuck, BackoffActive
<1>4. CASE v > c
  <2>1. FitTarget(t) >= FitTarget(s) /\ FitTarget(t) >= c
    BY <1>1, <1>4, FitTargetMonotone, FitTargetBounds
  <2>2. /\ DecideOnDemand(s).target = IF Near(s) \/ UpBlocked(s) THEN c ELSE FitTarget(s)
        /\ DecideOnDemand(t).target = IF Near(t) \/ UpBlocked(t) THEN c ELSE FitTarget(t)
    BY <1>1, <1>4, UpTarget
  <2> HIDE DEF c, v
  <2> QED
    BY <1>1, <1>2, <1>3, <2>1, <2>2
<1>5. CASE ~(v > c)
  <2>1. v <= c /\ StepDown(t) = StepDown(s)
    BY <1>1, <1>5 DEF StepDown
  <2>2. /\ DecideOnDemand(s).target = IF AtLimit(s) \/ Near(s) \/ DownBlocked(s) THEN c
                                      ELSE StepDown(s)
        /\ DecideOnDemand(t).target = IF AtLimit(t) \/ Near(t) \/ DownBlocked(t) THEN c
                                      ELSE StepDown(t)
        /\ StepDown(s) \in MinReplicas..MaxReplicas
    BY <1>1, <2>1, DownTarget, StepDownBounds
  <2> HIDE DEF c, v
  <2> QED
    BY <1>1, <1>2, <2>1, <2>2, ReplicaAssumption
<1> QED
  BY <1>4, <1>5

\* What a lowering rests on.
LEMMA LoweringRests ==
  ASSUME NEW s \in Snapshot, Decide(s).target < s.current
  PROVE  \/ /\ Decide(s).reason = "RevertPendingPods"
            /\ Decide(s).target >= Clamp(s.current - (s.pending + s.unmat))
         \/ /\ Fresh(s.backlog)
            /\ Decide(s).target >= Clamp(DesiredBacklog(s))
            /\ Decide(s).target >= Clamp(DesiredUtilization(s))
            /\ QuietInWindow(s)
<1>1. s.current \in Nat /\ DesiredRaw(s) \in Int
  BY DemandInt DEF Snapshot
<1>2. CASE Decide(s) = RevertPending(s)
  <2>1. /\ s.lastGood \in Int /\ s.current - (s.pending + s.unmat) \in Int
    BY DEF Snapshot
  <2>2. Clamp(s.current - (s.pending + s.unmat))
          <= Clamp(Larger(s.lastGood, s.current - (s.pending + s.unmat)))
    BY <2>1, ClampMonotone DEF Larger
  <2>3. /\ Clamp(s.current - (s.pending + s.unmat)) \in Int
        /\ Clamp(Larger(s.lastGood, s.current - (s.pending + s.unmat))) \in Int
    BY <2>1, ClampInRange DEF Larger
  <2>4. /\ Decide(s).reason = "RevertPendingPods"
        /\ Decide(s).target = Clamp(Larger(s.lastGood, s.current - (s.pending + s.unmat)))
    BY <1>2 DEF RevertPending, RevertTarget
  <2> QED
    BY <2>2, <2>3, <2>4
<1>3. CASE Decide(s) # RevertPending(s)
  <2>1. Decide(s) = DecideOnDemand(s)
    BY <1>1, <1>3, Targets DEF Decide
  <2>2. Fresh(s.backlog)
    BY <1>1, <2>1, Targets DEF DecideOnDemand
  <2>3. ~(Clamp(DesiredRaw(s)) > s.current)
    <3> SUFFICES ASSUME Clamp(DesiredRaw(s)) > s.current PROVE FALSE
      OBVIOUS
    <3>1. DecideOnDemand(s).target = IF Near(s) \/ UpBlocked(s) THEN s.current ELSE FitTarget(s)
      BY <2>2, UpTarget
    <3> QED
      BY <1>1, <2>1, <3>1, FitTargetBounds
  <2>4. /\ Clamp(DesiredRaw(s)) <= s.current
        /\ DecideOnDemand(s).target =
             IF AtLimit(s) \/ Near(s) \/ DownBlocked(s) THEN s.current ELSE StepDown(s)
    BY <1>1, <2>2, <2>3, ClampInRange, DownTarget
  <2>5. Decide(s).target = StepDown(s) /\ ~DownBlocked(s)
    BY <1>1, <2>1, <2>4
  <2>6. StepDown(s) >= Clamp(DesiredRaw(s)) /\ StepDown(s) \in Int
    BY <2>4, StepDownBounds, ReplicaAssumption
  <2>7. DesiredBacklog(s) \in Int /\ DesiredUtilization(s) \in Int
    <3>1. DesiredBacklog(s) \in Int
      BY CeilDivInt, ToInt32Int, DemandAssumption DEF DesiredBacklog, Snapshot, Signal
    <3>2. s.ready * s.cpu.value \in Int /\ TargetCpu * 1000 \in Nat \ {0}
      BY DemandAssumption DEF Snapshot, Signal
    <3> QED
      BY <3>1, <3>2, CeilDivInt, ToInt32Int DEF DesiredUtilization
  <2>8. /\ DesiredBacklog(s) <= DesiredRaw(s) /\ DesiredUtilization(s) <= DesiredRaw(s)
    BY <2>7 DEF DesiredRaw, Larger
  <2>9. /\ Clamp(DesiredBacklog(s)) <= Clamp(DesiredRaw(s))
        /\ Clamp(DesiredUtilization(s)) <= Clamp(DesiredRaw(s))
        /\ Clamp(DesiredBacklog(s)) \in Int /\ Clamp(DesiredUtilization(s)) \in Int
        /\ Clamp(DesiredRaw(s)) \in Int
    BY <1>1, <2>7, <2>8, ClampMonotone, ClampInRange
  <2> QED
    BY <2>2, <2>5, <2>6, <2>9 DEF DownBlocked
<1> QED
  BY <1>2, <1>3

\* A demand-driven scale-down is one by the down path, not within tolerance.
LEMMA ScaleDownTarget ==
  ASSUME NEW s \in Snapshot, Decide(s).reason = "ScaleDown"
  PROVE  /\ Decide(s).target = StepDown(s) /\ ~Near(s)
         /\ Clamp(DesiredRaw(s)) <= s.current
<1>1. RevertPending(s).reason = "RevertPendingPods"
  BY DEF RevertPending
<1>2. ScaleByFit(s).reason # "ScaleDown"
  BY Targets DEF ScaleByFit
<1>3. ScaleUpPath(s).reason # "ScaleDown"
  BY <1>2, Targets DEF ScaleUpPath
<1>4. Decide(s) = DecideOnDemand(s)
  BY <1>1, Targets DEF Decide
<1>5. ~Near(s) /\ ~(Clamp(DesiredRaw(s)) > s.current) /\ DecideOnDemand(s) = ScaleDownPath(s)
  BY <1>3, <1>4, Targets DEF DecideOnDemand, Near
<1>6. ScaleDownPath(s).target = StepDown(s)
  BY <1>4, <1>5, Targets DEF ScaleDownPath
<1>7. Clamp(DesiredRaw(s)) \in Nat /\ s.current \in Nat
  BY DemandInt, ClampInRange DEF Snapshot
<1> QED
  BY <1>4, <1>5, <1>6, <1>7

LEMMA WriteAccepted ==
  ASSUME NEW s \in Snapshot, s.current >= MinReplicas - 1, TolerancePercent > 0,
         IsWrite(Decide(s))
  PROVE  Decide(s).target \in MinReplicas..MaxReplicas /\ Decide(s).target # s.current
<1> DEFINE d == Decide(s)
<1>1. Sound(s, d) /\ d.reason \in UpReasons \cup {"ScaleDown", "RevertPendingPods"}
  BY DecideSound DEF IsWrite, WriteReasons, UpReasons
<1>2. s.current \in Nat /\ d.target \in Nat
  BY <1>1 DEF Snapshot, Sound, Decision
<1>3. CASE d.reason \in UpReasons
  <2>1. s.current < d.target /\ d.target <= MaxReplicas
    BY <1>1, <1>3 DEF Sound
  <2> HIDE DEF d
  <2>2. d.target \in MinReplicas..MaxReplicas /\ d.target # s.current
    BY <1>2, <2>1, ReplicaAssumption
  <2> QED
    BY <2>2 DEF d
<1>4. CASE d.reason = "RevertPendingPods"
  <2>1. d = RevertPending(s) /\ RevertTarget(s) < s.current
    BY <1>4, RevertIsPending DEF Reverts
  <2>2. d.target = RevertTarget(s)
    BY <2>1 DEF RevertPending
  <2>3. d.target \in MinReplicas..MaxReplicas
    BY <1>1, <1>4 DEF Sound, DownReasons
  <2> HIDE DEF d
  <2>4. d.target # s.current
    BY <1>2, <2>1, <2>2
  <2> QED
    BY <2>3, <2>4 DEF d
<1>5. CASE d.reason = "ScaleDown"
  <2>1. d.target = StepDown(s) /\ ~Near(s) /\ Clamp(DesiredRaw(s)) <= s.current
    BY <1>5, ScaleDownTarget
  <2>2. Clamp(DesiredRaw(s)) # s.current
    <3> SUFFICES ASSUME Clamp(DesiredRaw(s)) = s.current PROVE FALSE
      OBVIOUS
    <3>1. s.current > 0
      BY <1>2, DemandInt, ClampInRange, ReplicaAssumption
    <3>2. TolerancePercent * s.current \in Nat \ {0}
      BY <1>2, <3>1, DemandAssumption
    <3>3. Larger(s.current - s.current, s.current - s.current) = 0
      BY <1>2 DEF Larger
    <3> QED
      BY <2>1, <3>1, <3>2, <3>3 DEF Near, WithinTolerance
  <2>3. StepDown(s) < s.current /\ StepDown(s) \in MinReplicas..MaxReplicas
    <3>1. Clamp(DesiredRaw(s)) < s.current
      BY <1>2, <2>1, <2>2, DemandInt, ClampInRange
    <3> QED
      BY <2>1, <3>1, StepDownBounds
  <2> QED
    BY <1>2, <2>1, <2>3
<1> QED
  BY <1>1, <1>3, <1>4, <1>5

-----------------------------------------------------------------------------
(* The engine asked.                                                       *)

AnswerInv ==
  /\ asked \in Snapshot
  /\ \E pods \in Pods : asked.current = pods.current
  /\ Answered => answer = Decide(asked)

LEMMA InitAnswer == Questions => AnswerInv
<1> SUFFICES ASSUME Questions PROVE AnswerInv
  OBVIOUS
<1>1. PICK gate \in Gates, pods \in Pods, backlog \in Backlogs, cpu \in Cpus,
           fit \in Rooms, memory \in Memories :
       asked =
         [valid |-> gate.valid, current |-> pods.current, ready |-> pods.ready,
          backlog |-> backlog, cpu |-> cpu, fit |-> fit,
          rollout |-> gate.rollout, hpa |-> gate.hpa, drifts |-> gate.drifts,
          sinceUp |-> memory.sinceUp, sinceDown |-> memory.sinceDown,
          history |-> memory.history, backoff |-> memory.backoff,
          lastGood |-> memory.lastGood,
          pending |-> pods.pending, pendingAge |-> pods.pendingAge,
          unhealthyAge |-> pods.unhealthyAge,
          unmat |-> pods.unmat, unmatAge |-> pods.unmatAge]
  BY DEF Questions
<1>2. /\ gate.valid \in BOOLEAN /\ gate.hpa \in BOOLEAN /\ gate.drifts \in Nat
      /\ gate.rollout \in BOOLEAN
  BY QuestionAssumption
<1>3. /\ pods.current \in Nat /\ pods.ready \in Nat /\ pods.pending \in Nat
      /\ pods.pendingAge \in Nat /\ pods.unmat \in Nat /\ pods.unmatAge \in Nat
      /\ pods.unhealthyAge \in Nat
  BY QuestionAssumption
<1>4. backlog \in Signal /\ cpu \in Signal /\ fit \in Nat
  BY QuestionAssumption
<1>5. /\ memory.sinceUp \in Age /\ memory.sinceDown \in Age
      /\ memory.history \in SUBSET Sample /\ memory.backoff \in BackoffState
      /\ memory.lastGood \in Nat
  BY QuestionAssumption
<1>6. asked \in Snapshot /\ asked.current = pods.current
  BY <1>1, <1>2, <1>3, <1>4, <1>5 DEF Snapshot
<1> QED
  BY <1>6 DEF Questions, AnswerInv, Answered

LEMMA NextAnswer == AnswerInv /\ [Answer]_exchange => AnswerInv'
  BY DEF AnswerInv, Answer, exchange, Answered

LEMMA SpecAnswer == Exchange => []AnswerInv
  BY InitAnswer, NextAnswer, PTL DEF Exchange

\* A larger backlog never makes Decide ask for fewer replicas, whatever it is asked
\* under whatever policy that allows partial scale-ups, as long as the wanted count
\* fits int32 (Decide's G2 .. G12).
THEOREM DemandOnlyRaises ==
  ASSUME AllowPartialScaleUp, \A n \in BacklogValues : BacklogFits(n)
  PROVE  Exchange => []MonotoneInDemand
<1>1. AnswerInv => MonotoneInDemand
  <2> SUFFICES ASSUME AnswerInv, Answered, Fresh(asked.backlog),
                      NEW n \in BacklogValues, n >= asked.backlog.value
               PROVE  Decide([asked EXCEPT !.backlog.value = n]).target >= answer.target
    BY DEF MonotoneInDemand
  <2> DEFINE t == [asked EXCEPT !.backlog.value = n]
  <2>1. /\ asked \in Snapshot /\ answer = Decide(asked) /\ n \in Int /\ BacklogFits(n)
    BY QuestionAssumption DEF AnswerInv
  <2>2. /\ t \in Snapshot /\ t.backlog.value = n /\ t.fit = asked.fit
        /\ SameTarget(asked, t)
    BY <2>1 DEF Snapshot, Signal, SameTarget, Fresh
  <2> HIDE DEF t
  <2>3. DesiredRaw(t) >= DesiredRaw(asked)
    BY <2>1, <2>2, DemandMonotone DEF SameTarget
  <2>4. DecideOnDemand(t).target >= DecideOnDemand(asked).target
    BY <2>1, <2>2, <2>3, MoreDemandMoreTarget
  <2>5. Decide(asked).target \in Nat
    BY <2>1, DecideSound DEF Sound, Decision
  <2>6. Decide(t).target >= Decide(asked).target
    BY <2>1, <2>2, <2>4, <2>5, BlindTarget
  <2> QED
    BY <2>1, <2>6 DEF t
<1> QED
  BY <1>1, SpecAnswer, PTL

\* Nor does more room in the cluster (the backoff and the feasibility gate).
THEOREM RoomOnlyRaises == Exchange => []MonotoneInRoom
<1>1. AnswerInv => MonotoneInRoom
  <2> SUFFICES ASSUME AnswerInv, Answered, NEW room \in Rooms, room >= asked.fit
               PROVE  Decide([asked EXCEPT !.fit = room]).target >= answer.target
    BY DEF MonotoneInRoom
  <2> DEFINE t == [asked EXCEPT !.fit = room]
  <2>1. asked \in Snapshot /\ answer = Decide(asked) /\ room \in Nat
    BY QuestionAssumption DEF AnswerInv
  <2>2. /\ t \in Snapshot /\ t.fit >= asked.fit /\ t.backlog = asked.backlog
        /\ SameTarget(asked, t)
    BY <2>1 DEF Snapshot, SameTarget
  <2> HIDE DEF t
  <2>3. Fresh(asked.backlog) => DecideOnDemand(t).target >= DecideOnDemand(asked).target
    BY <2>1, <2>2, MoreRoomMoreTarget
  <2>4. Decide(asked).target \in Nat
    BY <2>1, DecideSound DEF Sound, Decision
  <2>5. Decide(t).target >= Decide(asked).target
    BY <2>1, <2>2, <2>3, <2>4, BlindTarget
  <2> QED
    BY <2>1, <2>5 DEF t
<1> QED
  BY <1>1, SpecAnswer, PTL

\* No lowering without both signals low and a quiet window, except of replicas
\* that are stuck, or beyond the maximum (I-7, I-8).
THEOREM LoweringNeedsBoth == Exchange => []LowersOnlyWhenBothLow
<1>1. AnswerInv => LowersOnlyWhenBothLow
  BY LoweringRests DEF AnswerInv, LowersOnlyWhenBothLow, QuietInWindow
<1> QED
  BY <1>1, SpecAnswer, PTL

\* The actuator accepts every write, as long as some distance counts as within
\* tolerance and no count is more than one below the range (scaleUpPath does not
\* clamp its target, decide.go:187).
THEOREM EveryWriteAccepted ==
  ASSUME TolerancePercent > 0, \A pods \in Pods : pods.current >= MinReplicas - 1
  PROVE  Exchange => []WritesAreAccepted
<1>1. AnswerInv => WritesAreAccepted
  BY WriteAccepted DEF AnswerInv, WritesAreAccepted
<1> QED
  BY <1>1, SpecAnswer, PTL

----------------------------------------------------------------------------
(* The operators on the controller's memory return well-typed memory.      *)

LEMMA AgeFacts ==
  /\ 0 \in Age /\ Horizon \in Age /\ Age \subseteq Nat
  /\ IsFiniteSet(Age)
<1>1. IsFiniteSet(0..Horizon)
  BY FS_Interval, TimeAssumption
<1> QED
  BY <1>1, TimeAssumption DEF Age

LEMMA OlderType ==
  ASSUME NEW a \in Age
  PROVE  Older(a) \in Age
  BY TimeAssumption DEF Older, Smaller, Age

LEMMA FreshStateType == FreshState \in ControllerState
<1>1. {} \in SUBSET Sample /\ {} \in SUBSET Age /\ None \in Nat \cup {None}
  OBVIOUS
<1> QED
  BY <1>1, AgeFacts, ClearBackoffType DEF FreshState, ControllerState

LEMMA IdleDecisionType == IdleDecision \in Decision
  BY ClearBackoffType DEF IdleDecision, Decision, HoldReasons

LEMMA TrackUnmaterialisedType ==
  ASSUME NEW st \in ControllerState, NEW unmat \in Nat
  PROVE  /\ TrackUnmaterialised(st, unmat) \in ControllerState
         /\ unmat # 0 => TrackUnmaterialised(st, unmat).unmatAge \in Age
  BY AgeFacts DEF TrackUnmaterialised, ControllerState

LEMMA TrackExternalDriftType ==
  ASSUME NEW st \in ControllerState, NEW count \in Nat
  PROVE  /\ TrackExternalDrift(st, count) \in ControllerState
         /\ TrackExternalDrift(st, count).unmatAge = st.unmatAge
<1>1. /\ InDriftWindow(st.drifts \cup {0}) \in SUBSET Age
      /\ InDriftWindow(st.drifts) \in SUBSET Age
  BY AgeFacts DEF InDriftWindow, ControllerState
<1>2. {} \in SUBSET Sample
  OBVIOUS
<1> QED
  BY <1>1, <1>2 DEF TrackExternalDrift, ControllerState

LEMMA ApplyDecisionStateType ==
  ASSUME NEW st \in ControllerState, NEW d \in Decision
  PROVE  ApplyDecisionState(st, d) \in ControllerState
<1> DEFINE longer == {x \in st.history \cup {[age |-> 0, desired |-> d.desired]} :
                        x.age <= 2 * Window}
<1>1. [age |-> 0, desired |-> d.desired] \in Sample
  BY AgeFacts DEF Sample, Decision
<1>2. longer \in SUBSET Sample /\ st.history \in SUBSET Sample
  BY <1>1 DEF ControllerState
<1>3. d.backoff \in BackoffState
  BY DEF Decision
<1>4. ApplyDecisionState(st, d) =
        [st EXCEPT !.history = IF d.demandComputed THEN longer ELSE st.history,
                   !.backoff = d.backoff]
  BY DEF ApplyDecisionState, ControllerState
<1> HIDE DEF longer
<1> QED
  BY <1>2, <1>3, <1>4 DEF ControllerState

LEMMA ApplyWriteStateType ==
  ASSUME NEW st \in ControllerState, NEW d \in Decision, NEW age \in Age
  PROVE  ApplyWriteState(st, d, age) \in ControllerState
  BY DEF ApplyWriteState, ControllerState, Decision

LEMMA RecordRemediationType ==
  ASSUME NEW st \in ControllerState, NEW d \in Decision, NEW applied \in BOOLEAN
  PROVE  RecordRemediation(st, d, applied) \in ControllerState
<1>1. (d.timedOut /\ (st.remediated \/ d.reason # "RevertPendingPods" \/ applied)) \in BOOLEAN
  OBVIOUS
<1> QED
  BY <1>1 DEF RecordRemediation, ControllerState

LEMMA AgeStateType ==
  ASSUME NEW st \in ControllerState
  PROVE  AgeState(st) \in ControllerState
<1> DEFINE history == {[age |-> Older(x.age), desired |-> x.desired] : x \in st.history}
           backoff == [st.backoff EXCEPT !.wait = Larger(st.backoff.wait - 1, 0)]
           drifts == {Older(a) : a \in st.drifts}
           unmatAge == IF st.unmatAge = None THEN None ELSE Older(st.unmatAge)
<1>1. history \in SUBSET Sample
  BY OlderType DEF ControllerState, Sample
<1>2. backoff \in BackoffState
  <2>1. st.backoff \in BackoffState
    BY DEF ControllerState
  <2>2. Larger(st.backoff.wait - 1, 0) \in 0..BackoffMax
    BY <2>1, PolicyAssumption DEF BackoffState, Larger
  <2> QED
    BY <2>1, <2>2 DEF BackoffState
<1>3. drifts \in SUBSET Age
  BY OlderType DEF ControllerState
<1>4. unmatAge \in Age \cup {None}
  BY OlderType DEF ControllerState
<1>5. Older(st.sinceUp) \in Age /\ Older(st.sinceDown) \in Age
  BY OlderType DEF ControllerState
<1>6. AgeState(st) =
        [st EXCEPT !.sinceUp = Older(st.sinceUp), !.sinceDown = Older(st.sinceDown),
                   !.history = history, !.backoff = backoff, !.drifts = drifts,
                   !.unmatAge = unmatAge]
  BY DEF AgeState, ControllerState
<1> HIDE DEF history, backoff, drifts, unmatAge
<1> QED
  BY <1>1, <1>2, <1>3, <1>4, <1>5, <1>6 DEF ControllerState

----------------------------------------------------------------------------
(* observe produces a snapshot Decide accepts.                             *)

PodHealth ==
  [unready : Int, pending : Nat, pendingAge : Nat, unmat : Nat, unhealthyAge : Nat]

LEMMA TrackedType ==
  ASSUME state \in ControllerState, cached \in Nat, NEW view, NEW health \in PodHealth
  PROVE  /\ Tracked(view, health) \in ControllerState
         /\ view # "none" /\ health.unmat # 0 => Tracked(view, health).unmatAge \in Age
<1>1. health.unmat \in Nat
  BY DEF PodHealth
<1> QED
  BY <1>1, TrackUnmaterialisedType, TrackExternalDriftType DEF Tracked

LEMMA DriftsCount ==
  ASSUME NEW st \in ControllerState
  PROVE  Cardinality(st.drifts) \in Nat
<1>1. st.drifts \subseteq Age
  BY DEF ControllerState
<1> QED
  BY <1>1, AgeFacts, FS_Subset, FS_CardinalityType

LEMMA SnapshotType ==
  ASSUME state \in ControllerState, cached \in Nat,
         NEW view \in Views, NEW health \in PodHealths, NEW condition \in Conditions,
         NEW backlog \in BacklogSignals, NEW cpu \in CpuSignals, Plausible(health)
  PROVE  SnapshotOf(state, Tracked(view, health), view, health, condition, backlog, cpu)
           \in Snapshot
<1> DEFINE pods == IF view # "none" THEN health ELSE NoPods
           tracked == Tracked(view, health)
           s == SnapshotOf(state, tracked, view, health, condition, backlog, cpu)
<1>1. /\ health \in PodHealth /\ backlog \in Signal /\ cpu \in Signal
      /\ condition.fit \in Nat /\ condition.rollout \in BOOLEAN /\ condition.hpa \in BOOLEAN
  BY EnvironmentAssumption DEF PodHealth
<1>2. /\ pods.pending \in Nat /\ pods.pendingAge \in Nat /\ pods.unmat \in Nat
      /\ pods.unhealthyAge \in Nat /\ pods.unready \in Int
  BY <1>1 DEF PodHealth, NoPods
<1>3. (IF pods.unmat = 0 THEN 0 ELSE tracked.unmatAge) \in Nat
  <2>1. view # "none" /\ health.unmat # 0 => tracked.unmatAge \in Age
    BY <1>1, TrackedType
  <2> QED
    BY <2>1, AgeFacts DEF NoPods
<1>4. Cardinality(tracked.drifts) \in Nat
  BY <1>1, TrackedType, DriftsCount
<1>5. (IF view # "none" THEN cached - pods.unready ELSE 0) \in Nat
  BY <1>1, <1>2 DEF Plausible, PodHealth
<1>6. (IF view # "none" THEN cached ELSE 0) \in Nat /\ (view = "full") \in BOOLEAN
  OBVIOUS
<1>7. /\ state.sinceUp \in Age /\ state.sinceDown \in Age
      /\ state.history \in SUBSET Sample /\ state.backoff \in BackoffState
      /\ state.lastGood \in Nat
  BY DEF ControllerState
<1>8. s = [valid |-> view = "full",
           current |-> IF view # "none" THEN cached ELSE 0,
           ready |-> IF view # "none" THEN cached - pods.unready ELSE 0,
           backlog |-> backlog, cpu |-> cpu, fit |-> condition.fit,
           rollout |-> condition.rollout, hpa |-> condition.hpa,
           drifts |-> Cardinality(tracked.drifts),
           sinceUp |-> state.sinceUp, sinceDown |-> state.sinceDown,
           history |-> state.history, backoff |-> state.backoff,
           lastGood |-> state.lastGood,
           pending |-> pods.pending, pendingAge |-> pods.pendingAge,
           unhealthyAge |-> pods.unhealthyAge, unmat |-> pods.unmat,
           unmatAge |-> IF pods.unmat = 0 THEN 0 ELSE tracked.unmatAge]
  BY DEF SnapshotOf
<1> HIDE DEF pods, tracked, s
<1> QED
  BY <1>1, <1>2, <1>3, <1>4, <1>5, <1>6, <1>7, <1>8 DEF Snapshot, s, tracked

----------------------------------------------------------------------------
(* Type correctness: one lemma per family of actions.                      *)

\* What Deliver takes from the feed, and what it leaves there.
LEMMA FeedFacts ==
  ASSUME NEW S, NEW q \in Seq(S), NEW n \in 1..Len(q)
  PROVE  q[n] \in S /\ SubSeq(q, n + 1, Len(q)) \in Seq(S)
<1>1. Len(q) \in Nat /\ \A i \in 1..Len(q) : q[i] \in S
  OBVIOUS
<1>2. /\ n + 1 \in Int /\ Len(q) \in Int
      /\ \A i \in n + 1..Len(q) : q[i] \in S
  BY <1>1
<1> QED
  BY <1>1, <1>2, SubSeqProperties

\* The end of a reconcile, with whatever well-typed memory it leaves.
LEMMA FinishType ==
  ASSUME NEW st \in ControllerState, Finish(st)
  PROVE  /\ state' \in ControllerState
         /\ pc' = "idle" /\ elapsed' \in Age /\ decision' \in Decision
         /\ put' = "none" /\ putFresh' = FALSE
  BY IdleDecisionType, AgeFacts DEF Finish

LEMMA FinishFailedType ==
  ASSUME TypeOK, NEW fatal \in BOOLEAN, FinishFailed(fatal)
  PROVE  /\ state' \in ControllerState
         /\ pc' = "idle" /\ elapsed' \in Age /\ decision' \in Decision
         /\ put' = "none" /\ putFresh' = FALSE
<1> DEFINE st == RecordRemediation(state, decision, FALSE)
           ended == [st EXCEPT !.fatal = st.fatal \/ fatal]
<1>1. st \in ControllerState
  BY RecordRemediationType DEF TypeOK
<1>2. (st.fatal \/ fatal) \in BOOLEAN
  OBVIOUS
<1>3. ended \in ControllerState
  <2> HIDE DEF st
  <2> QED
    BY <1>1, <1>2 DEF ControllerState
<1>4. Finish(ended)
  BY DEF FinishFailed
<1> HIDE DEF ended
<1> QED
  BY <1>3, <1>4, FinishType

LEMMA AbandonType ==
  ASSUME TypeOK, Abandon
  PROVE  orphans' \subseteq Update
<1>1. [from |-> decision.from, to |-> decision.target] \in Update
  BY DEF TypeOK, Decision, Update
<1> QED
  BY <1>1 DEF Abandon, TypeOK

\* The decision an Observe leaves to be actuated, and the memory it leaves.
LEMMA ObserveType ==
  ASSUME TypeOK, NEW view \in Views, NEW health \in PodHealths,
         NEW condition \in Conditions, NEW backlog \in BacklogSignals,
         NEW cpu \in CpuSignals, Observe(view, health, condition, backlog, cpu)
  PROVE  TypeOK' /\ (pc' # "idle" => Valid(decision'))
<1> DEFINE tracked == Tracked(view, health)
           s == SnapshotOf(state, tracked, view, health, condition, backlog, cpu)
           d == Decide(s)
           decided == ApplyDecisionState(tracked, d)
<1>1. state \in ControllerState /\ cached \in Nat /\ Plausible(health)
  BY DEF TypeOK, Observe
<1>2. tracked \in ControllerState
  BY <1>1, TrackedType, EnvironmentAssumption DEF PodHealth
<1>3. d \in Decision
  <2>1. s \in Snapshot
    BY <1>1, SnapshotType
  <2> HIDE DEF s
  <2> QED
    BY <2>1, DecideSound DEF Sound
<1>4. decided \in ControllerState
  <2> HIDE DEF tracked, d
  <2> QED
    BY <1>2, <1>3, ApplyDecisionStateType
<1>5. RecordRemediation(decided, d, ~IsWrite(d)) \in ControllerState
  <2>1. (~IsWrite(d)) \in BOOLEAN
    BY DEF IsWrite
  <2> HIDE DEF decided, d
  <2> QED
    BY <1>3, <1>4, <2>1, RecordRemediationType
<1>6. /\ pc = "idle" /\ due' = FALSE /\ elapsed' = 0 /\ foreign' \in BOOLEAN
      /\ UNCHANGED <<put, putFresh, orphans, live, feed, cached, uptime, floor, author>>
  BY DEF Observe, TypeOK
<1>7. \/ pc' = "read" /\ decision' = d /\ state' = decided /\ Valid(d)
      \/ /\ UNCHANGED <<pc, decision>>
         /\ state' = RecordRemediation(decided, d, ~IsWrite(d))
  BY DEF Observe
<1> HIDE DEF decided, d
<1>8. state' \in ControllerState /\ decision' \in Decision /\ pc' \in {"idle", "read"}
  BY <1>3, <1>4, <1>5, <1>6, <1>7 DEF TypeOK
<1>9. pc' # "idle" => Valid(decision')
  BY <1>6, <1>7
<1> QED
  BY <1>6, <1>8, <1>9, AgeFacts DEF TypeOK

\* A write of spec.replicas by anyone.
LEMMA SetReplicasType ==
  ASSUME TypeOK, NEW count \in Nat, NEW by, SetReplicas(count, by)
  PROVE  /\ live' \in Nat /\ feed' \in Seq([replicas : Nat, own : BOOLEAN])
         /\ putFresh' \in BOOLEAN /\ orphans' \subseteq Update
         /\ floor' \in Nat /\ author' \in {"controller", "other"}
<1>1. [replicas |-> count, own |-> by = "awaited"] \in [replicas : Nat, own : BOOLEAN]
  OBVIOUS
<1>2. feed' \in Seq([replicas : Nat, own : BOOLEAN])
  <2> DEFINE Change == [replicas : Nat, own : BOOLEAN]
             change == [replicas |-> count, own |-> by = "awaited"]
  <2>1. feed \in Seq(Change) /\ feed' = Append(feed, change) /\ change \in Change
    BY <1>1 DEF SetReplicas, TypeOK
  <2> HIDE DEF Change, change
  <2>2. feed' \in Seq(Change)
    BY <2>1
  <2> QED
    BY <2>2 DEF Change
<1>3. orphans' \subseteq Update /\ putFresh' \in BOOLEAN
  BY DEF SetReplicas
<1>4. live' \in Nat /\ floor' \in Nat /\ author' \in {"controller", "other"}
  BY DEF SetReplicas, TypeOK
<1> QED
  BY <1>2, <1>3, <1>4

LEMMA ActuatingType ==
  ASSUME TypeOK, Actuating
  PROVE  TypeOK'
<1>1. CASE ReadLive
  BY <1>1 DEF ReadLive, apiVars, TypeOK
<1>2. CASE ReadStale
  BY <1>2, FinishFailedType DEF ReadStale, apiVars, TypeOK
<1>3. ASSUME NEW fatal \in BOOLEAN, ReadFails(fatal)
      PROVE  TypeOK'
  BY <1>3, FinishFailedType DEF ReadFails, apiVars, TypeOK
<1>4. CASE ReplyApplied
  <2> DEFINE st == RecordRemediation(ApplyWriteState(state, decision, elapsed), decision, TRUE)
  <2>1. st \in ControllerState
    BY ApplyWriteStateType, RecordRemediationType DEF TypeOK
  <2>2. Finish(st) /\ UNCHANGED <<due, orphans, apiVars, uptime>>
    BY <1>4 DEF ReplyApplied
  <2> HIDE DEF st
  <2> QED
    BY <2>1, <2>2, FinishType DEF apiVars, TypeOK
<1>5. CASE ReplyRefused
  <2>1. FinishFailed(put = "refused") /\ (put = "refused") \in BOOLEAN
    BY <1>5 DEF ReplyRefused
  <2> QED
    BY <1>5, <2>1, FinishFailedType DEF ReplyRefused, apiVars, TypeOK
<1>6. ASSUME NEW retry \in BOOLEAN, ReplyLost(retry)
      PROVE  TypeOK'
  <2>1. orphans' \subseteq Update
    BY <1>6, AbandonType DEF ReplyLost
  <2>2. CASE retry
    BY <1>6, <2>1, <2>2 DEF ReplyLost, apiVars, TypeOK
  <2>3. CASE ~retry
    BY <1>6, <2>1, <2>3, FinishFailedType DEF ReplyLost, apiVars, TypeOK
  <2> QED
    BY <2>2, <2>3
<1> QED
  BY <1>1, <1>2, <1>3, <1>4, <1>5, <1>6 DEF Actuating

LEMMA ServingType ==
  ASSUME TypeOK, Serving
  PROVE  TypeOK'
<1>1. CASE ServerApplies
  <2>1. decision.target \in Nat
    BY DEF TypeOK, Decision
  <2> QED
    BY <1>1, <2>1, SetReplicasType DEF ServerApplies, ctlVars, TypeOK
<1>2. CASE ServerConflicts
  BY <1>2 DEF ServerConflicts, ctlVars, apiVars, TypeOK
<1>3. CASE ServerRefuses
  BY <1>3 DEF ServerRefuses, ctlVars, apiVars, TypeOK
<1>4. ASSUME NEW o \in orphans, OrphanApplies(o)
      PROVE  TypeOK'
  <2>1. o.to \in Nat
    BY DEF TypeOK, Update
  <2> QED
    BY <1>4, <2>1, SetReplicasType DEF OrphanApplies, ctlVars, TypeOK
<1>5. ASSUME NEW n \in 1..Len(feed), Deliver(n)
      PROVE  TypeOK'
  <2> DEFINE Change == [replicas : Nat, own : BOOLEAN]
  <2>1. feed \in Seq(Change)
    BY DEF TypeOK
  <2>2. feed[n] \in Change /\ SubSeq(feed, n + 1, Len(feed)) \in Seq(Change)
    <3> HIDE DEF Change
    <3> QED
      BY <2>1, FeedFacts
  <2>3. feed' \in Seq(Change) /\ cached' \in Nat
    BY <1>5, <2>2 DEF Deliver
  <2>4. foreign' \in BOOLEAN
    BY <1>5 DEF Deliver
  <2> QED
    BY <1>5, <2>3, <2>4 DEF Deliver, ctlVars, TypeOK
<1> QED
  BY <1>1, <1>2, <1>3, <1>4, <1>5 DEF Serving

LEMMA RestartType ==
  ASSUME TypeOK, Restart
  PROVE  TypeOK'
<1>1. orphans' \subseteq Update
  BY AbandonType DEF Restart
<1>2. Finish(FreshState)
  BY DEF Restart
<1>3. <<>> \in Seq([replicas : Nat, own : BOOLEAN])
  OBVIOUS
<1> QED
  BY <1>1, <1>2, <1>3, FinishType, FreshStateType, AgeFacts DEF Restart, TypeOK

LEMMA TickType ==
  ASSUME TypeOK, Tick
  PROVE  TypeOK'
<1>1. state' \in ControllerState
  BY AgeStateType DEF Tick, TypeOK
<1>2. elapsed' \in Age /\ uptime' \in Age
  BY OlderType, AgeFacts DEF Tick, TypeOK
<1> QED
  BY <1>1, <1>2 DEF Tick, apiVars, TypeOK

LEMMA InitType == Init => TypeOK
<1>1. <<>> \in Seq([replicas : Nat, own : BOOLEAN])
  OBVIOUS
<1> QED
  BY <1>1, FreshStateType, IdleDecisionType, AgeFacts, CountAssumption DEF Init, TypeOK

\* TypeOK is inductive.
LEMMA NextType == TypeOK /\ [Next]_vars => TypeOK'
<1> SUFFICES ASSUME TypeOK, [Next]_vars PROVE TypeOK'
  OBVIOUS
<1>1. CASE Reconciling
  BY <1>1, ObserveType DEF Reconciling
<1>2. CASE Actuating
  BY <1>2, ActuatingType
<1>3. CASE Serving
  BY <1>3, ServingType
<1>4. ASSUME NEW count \in ForeignCounts, ForeignWrite(count)
      PROVE  TypeOK'
  <2>1. count \in Nat /\ FALSE \in BOOLEAN
    BY CountAssumption
  <2> QED
    BY <1>4, <2>1, SetReplicasType DEF ForeignWrite, ctlVars, TypeOK
<1>5. CASE OtherUpdate
  BY <1>5 DEF OtherUpdate, ctlVars, apiVars, TypeOK
<1>6. CASE Tick
  BY <1>6, TickType
<1>7. CASE Restart
  BY <1>7, RestartType
<1>8. CASE UNCHANGED vars
  BY <1>8 DEF vars, ctlVars, apiVars, TypeOK
<1> QED
  BY <1>1, <1>2, <1>3, <1>4, <1>5, <1>6, <1>7, <1>8 DEF Next

\* The controller's memory, the update in flight and what the watch has yet to
\* deliver stay well typed through any interleaving of reconciles, retries,
\* other writers, lost replies and restarts, whatever the configuration.
THEOREM TypeCorrect == Spec => []TypeOK
  BY InitType, NextType, PTL DEF Spec

----------------------------------------------------------------------------
(* Updates that may still take effect: inductive together with TypeOK.     *)

\* The end of a reconcile leaves no update awaited.
LEMMA FinishFailedIdle ==
  ASSUME NEW fatal, FinishFailed(fatal)
  PROVE  pc' = "idle" /\ put' = "none"
  BY DEF FinishFailed, Finish

\* What is abandoned was current when it was sent and is so still.
LEMMA AbandonCurrent ==
  ASSUME UpdatesAreCurrent, pc # "idle" \/ put = "none", Abandon
  PROVE  \A o \in orphans' :
           o.from = live /\ o.to \in MinReplicas..MaxReplicas /\ o.to # o.from
  BY DEF Abandon, UpdatesAreCurrent, Valid

LEMMA ActuatingCurrent ==
  ASSUME UpdatesAreCurrent, Actuating
  PROVE  UpdatesAreCurrent'
<1>1. CASE ReadLive
  BY <1>1 DEF ReadLive, apiVars, UpdatesAreCurrent, Valid
<1>2. CASE ReadStale
  BY <1>2, FinishFailedIdle DEF ReadStale, apiVars, UpdatesAreCurrent
<1>3. ASSUME NEW fatal \in BOOLEAN, ReadFails(fatal)
      PROVE  UpdatesAreCurrent'
  BY <1>3, FinishFailedIdle DEF ReadFails, apiVars, UpdatesAreCurrent
<1>4. CASE ReplyApplied
  BY <1>4 DEF ReplyApplied, Finish, apiVars, UpdatesAreCurrent
<1>5. CASE ReplyRefused
  BY <1>5, FinishFailedIdle DEF ReplyRefused, apiVars, UpdatesAreCurrent
<1>6. ASSUME NEW retry \in BOOLEAN, ReplyLost(retry)
      PROVE  UpdatesAreCurrent'
  <2>1. \A o \in orphans' :
          o.from = live' /\ o.to \in MinReplicas..MaxReplicas /\ o.to # o.from
    BY <1>6, AbandonCurrent DEF ReplyLost, apiVars
  <2>2. CASE retry
    BY <1>6, <2>1, <2>2 DEF ReplyLost, UpdatesAreCurrent, Valid
  <2>3. CASE ~retry
    BY <1>6, <2>1, <2>3, FinishFailedIdle DEF ReplyLost, UpdatesAreCurrent
  <2> QED
    BY <2>2, <2>3
<1> QED
  BY <1>1, <1>2, <1>3, <1>4, <1>5, <1>6 DEF Actuating

LEMMA ServingCurrent ==
  ASSUME UpdatesAreCurrent, Serving
  PROVE  UpdatesAreCurrent'
<1>1. CASE ServerApplies
  BY <1>1 DEF ServerApplies, SetReplicas, ctlVars, UpdatesAreCurrent, Valid
<1>2. CASE ServerConflicts
  BY <1>2 DEF ServerConflicts, ctlVars, apiVars, UpdatesAreCurrent, Valid
<1>3. CASE ServerRefuses
  BY <1>3 DEF ServerRefuses, ctlVars, apiVars, UpdatesAreCurrent, Valid
<1>4. ASSUME NEW o \in orphans, OrphanApplies(o)
      PROVE  UpdatesAreCurrent'
  BY <1>4 DEF OrphanApplies, SetReplicas, ctlVars, UpdatesAreCurrent, Valid
<1>5. ASSUME NEW n \in 1..Len(feed), Deliver(n)
      PROVE  UpdatesAreCurrent'
  BY <1>5 DEF Deliver, ctlVars, UpdatesAreCurrent, Valid
<1> QED
  BY <1>1, <1>2, <1>3, <1>4, <1>5 DEF Serving

LEMMA NextCurrent ==
  TypeOK /\ UpdatesAreCurrent /\ [Next]_vars => UpdatesAreCurrent'
<1> SUFFICES ASSUME TypeOK, UpdatesAreCurrent, [Next]_vars PROVE UpdatesAreCurrent'
  OBVIOUS
<1>1. ASSUME NEW view \in Views, NEW health \in PodHealths, NEW condition \in Conditions,
             NEW backlog \in BacklogSignals, NEW cpu \in CpuSignals,
             Observe(view, health, condition, backlog, cpu)
      PROVE  UpdatesAreCurrent'
  <2>1. health \in PodHealth
    BY EnvironmentAssumption DEF PodHealth
  <2>2. pc' # "idle" => Valid(decision')
    BY <1>1, <2>1, ObserveType
  <2>3. pc = "idle" /\ UNCHANGED <<put, putFresh, orphans, live>>
    BY <1>1 DEF Observe
  <2> QED
    BY <2>2, <2>3 DEF UpdatesAreCurrent, Valid
<1>2. CASE Actuating
  BY <1>2, ActuatingCurrent
<1>3. CASE Serving
  BY <1>3, ServingCurrent
<1>4. ASSUME NEW count \in ForeignCounts, ForeignWrite(count)
      PROVE  UpdatesAreCurrent'
  BY <1>4 DEF ForeignWrite, SetReplicas, ctlVars, UpdatesAreCurrent, Valid
<1>5. CASE OtherUpdate
  BY <1>5 DEF OtherUpdate, ctlVars, apiVars, UpdatesAreCurrent, Valid
<1>6. CASE Tick
  BY <1>6 DEF Tick, apiVars, UpdatesAreCurrent, Valid
<1>7. CASE Restart
  <2>1. \A o \in orphans' :
          o.from = live /\ o.to \in MinReplicas..MaxReplicas /\ o.to # o.from
    BY <1>7, AbandonCurrent DEF Restart, UpdatesAreCurrent
  <2> QED
    BY <1>7, <2>1 DEF Restart, Finish, UpdatesAreCurrent
<1>8. CASE UNCHANGED vars
  BY <1>8 DEF vars, ctlVars, apiVars, UpdatesAreCurrent, Valid
<1> QED
  BY <1>1, <1>2, <1>3, <1>4, <1>5, <1>6, <1>7, <1>8 DEF Next, Reconciling

LEMMA InitCurrent == Init => UpdatesAreCurrent
  BY DEF Init, UpdatesAreCurrent

\* No update that can still take effect was decided from a count that no longer
\* stands, or asks for a count outside the policy, whoever wrote meanwhile and
\* whatever became of the process that sent it.
THEOREM UpdatesStayCurrent == Spec => []UpdatesAreCurrent
<1>1. Init => TypeOK /\ UpdatesAreCurrent
  BY InitType, InitCurrent
<1>2. TypeOK /\ UpdatesAreCurrent /\ [Next]_vars => (TypeOK /\ UpdatesAreCurrent)'
  BY NextType, NextCurrent
<1> QED
  BY <1>1, <1>2, PTL DEF Spec

----------------------------------------------------------------------------
(* Refinement: every step is a step of the compare-and-set register.       *)

\* A step that writes nothing and proposes nothing new.
LEMMA WithdrawStep ==
  ASSUME live' = live, author' = author, Proposals' \subseteq Proposals
  PROVE  Register!RegisterNext
  BY DEF Register!RegisterNext, Register!Withdraw

LEMMA AbandonProposals ==
  ASSUME UpdatesAreCurrent, Abandon, pc' = "idle"
  PROVE  Proposals' \subseteq Proposals
  BY DEF Abandon, Proposals, UpdatesAreCurrent

LEMMA ObserveRefines ==
  ASSUME UpdatesAreCurrent', pc = "idle",
         UNCHANGED <<orphans, live, author>>,
         pc' \in {"idle", "read"}
  PROVE  Register!RegisterNext
<1>1. CASE pc' = "idle"
  BY <1>1, WithdrawStep DEF Proposals
<1>2. CASE pc' = "read"
  <2> DEFINE p == [from |-> decision'.from, to |-> decision'.target]
  <2>1. Register!Admissible(p)
    BY <1>2 DEF Register!Admissible, UpdatesAreCurrent, Valid
  <2>2. Proposals' = Proposals \cup {p} /\ p \in Proposals'
    BY <1>2 DEF Proposals
  <2> HIDE DEF p
  <2> QED
    BY <2>1, <2>2 DEF Register!RegisterNext, Register!Propose
<1> QED
  BY <1>1, <1>2

LEMMA ActuatingRefines ==
  ASSUME UpdatesAreCurrent, Actuating
  PROVE  Register!RegisterNext
<1>1. CASE ReadLive
  BY <1>1, WithdrawStep DEF ReadLive, apiVars, Proposals
<1>2. CASE ReadStale
  BY <1>2, WithdrawStep, FinishFailedIdle DEF ReadStale, apiVars, Proposals
<1>3. ASSUME NEW fatal \in BOOLEAN, ReadFails(fatal)
      PROVE  Register!RegisterNext
  BY <1>3, WithdrawStep, FinishFailedIdle DEF ReadFails, apiVars, Proposals
<1>4. CASE ReplyApplied
  BY <1>4, WithdrawStep DEF ReplyApplied, Finish, apiVars, Proposals
<1>5. CASE ReplyRefused
  BY <1>5, WithdrawStep, FinishFailedIdle DEF ReplyRefused, apiVars, Proposals
<1>6. ASSUME NEW retry \in BOOLEAN, ReplyLost(retry)
      PROVE  Register!RegisterNext
  <2>1. live' = live /\ author' = author
    BY <1>6 DEF ReplyLost, apiVars
  <2>2. CASE retry
    BY <1>6, <2>1, <2>2, WithdrawStep DEF ReplyLost, Abandon, Proposals
  <2>3. CASE ~retry
    BY <1>6, <2>1, <2>3, WithdrawStep, FinishFailedIdle, AbandonProposals DEF ReplyLost
  <2> QED
    BY <2>2, <2>3
<1> QED
  BY <1>1, <1>2, <1>3, <1>4, <1>5, <1>6 DEF Actuating

LEMMA ServingRefines ==
  ASSUME UpdatesAreCurrent, Serving
  PROVE  Register!RegisterNext
<1>1. CASE ServerApplies
  <2> DEFINE p == [from |-> decision.from, to |-> decision.target]
  <2>1. p \in Proposals /\ live = p.from /\ live' = p.to
    BY <1>1 DEF ServerApplies, SetReplicas, Proposals, UpdatesAreCurrent
  <2>2. author' = "controller" /\ Proposals' \subseteq Proposals
    BY <1>1 DEF ServerApplies, SetReplicas, ctlVars, Proposals
  <2> QED
    BY <2>1, <2>2 DEF Register!RegisterNext, Register!Commit
<1>2. CASE ServerConflicts
  BY <1>2, WithdrawStep DEF ServerConflicts, ctlVars, apiVars, Proposals
<1>3. CASE ServerRefuses
  BY <1>3, WithdrawStep DEF ServerRefuses, ctlVars, apiVars, Proposals
<1>4. ASSUME NEW o \in orphans, OrphanApplies(o)
      PROVE  Register!RegisterNext
  <2>1. o \in Proposals /\ live = o.from /\ live' = o.to
    BY <1>4 DEF OrphanApplies, SetReplicas, Proposals, UpdatesAreCurrent
  <2>2. author' = "controller" /\ Proposals' \subseteq Proposals
    BY <1>4 DEF OrphanApplies, SetReplicas, ctlVars, Proposals
  <2> QED
    BY <2>1, <2>2 DEF Register!RegisterNext, Register!Commit
<1>5. ASSUME NEW n \in 1..Len(feed), Deliver(n)
      PROVE  Register!RegisterNext
  BY <1>5, WithdrawStep DEF Deliver, ctlVars, Proposals
<1> QED
  BY <1>1, <1>2, <1>3, <1>4, <1>5 DEF Serving

LEMMA StepRefines ==
  ASSUME UpdatesAreCurrent, UpdatesAreCurrent', [Next]_vars
  PROVE  [Register!RegisterNext]_(Register!registerVars)
<1>1. CASE Reconciling
  <2>1. /\ pc = "idle" /\ pc' \in {"idle", "read"}
        /\ UNCHANGED <<orphans, live, author>>
    BY <1>1 DEF Reconciling, Observe
  <2> QED
    BY <2>1, ObserveRefines
<1>2. CASE Actuating
  BY <1>2, ActuatingRefines
<1>3. CASE Serving
  BY <1>3, ServingRefines
<1>4. ASSUME NEW count \in ForeignCounts, ForeignWrite(count)
      PROVE  Register!RegisterNext
  <2>1. live' \in Nat /\ author' = "other" /\ Proposals' \subseteq Proposals
    BY <1>4, CountAssumption DEF ForeignWrite, SetReplicas, ctlVars, Proposals
  <2> QED
    BY <2>1 DEF Register!RegisterNext, Register!ForeignChange
<1>5. CASE OtherUpdate
  BY <1>5, WithdrawStep DEF OtherUpdate, ctlVars, apiVars, Proposals
<1>6. CASE Tick
  BY <1>6, WithdrawStep DEF Tick, apiVars, Proposals
<1>7. CASE Restart
  BY <1>7, WithdrawStep, AbandonProposals DEF Restart, Finish
<1>8. CASE UNCHANGED vars
  BY <1>8 DEF vars, ctlVars, apiVars, Proposals, Register!registerVars
<1> QED
  BY <1>1, <1>2, <1>3, <1>4, <1>5, <1>6, <1>7, <1>8 DEF Next

LEMMA InitRefines == Init => Register!RegisterInit
  BY CountAssumption DEF Init, Register!RegisterInit, Proposals

\* The controller only ever changes spec.replicas by a compare-and-set into the
\* policy's range, through retries, lost replies, restarts and other writers.
THEOREM Refinement == Spec => ImplementsRegister
<1>1. Init => TypeOK /\ UpdatesAreCurrent /\ Register!RegisterInit
  BY InitType, InitCurrent, InitRefines
<1>2. UpdatesAreCurrent /\ UpdatesAreCurrent' /\ [Next]_vars
        => [Register!RegisterNext]_(Register!registerVars)
  BY StepRefines
<1> QED
  BY <1>1, <1>2, UpdatesStayCurrent, PTL DEF Spec, ImplementsRegister, Register!RegisterSpec

----------------------------------------------------------------------------
(* Damping after a restart.  The strengthening: every sample of the demand *)
(* history was taken by the process that holds it.                         *)

HistoryIsOwn == \A x \in state.history : x.age <= uptime

DampingInv == HistoryIsOwn /\ RestartIsDamped

LEMMA OlderMonotone ==
  ASSUME NEW a \in Age, NEW b \in Age, a <= b
  PROVE  Older(a) <= Older(b)
  BY TimeAssumption DEF Older, Smaller, Age

LEMMA OlderGrows ==
  ASSUME NEW a \in Age
  PROVE  a <= Older(a)
  BY TimeAssumption DEF Older, Smaller, Age

\* The trackers only ever drop samples, and a decision adds one of age 0.
LEMMA HistoryOfMemory ==
  ASSUME NEW st \in ControllerState, NEW d \in Decision, NEW applied, NEW age, NEW unmat,
         NEW count
  PROVE  /\ TrackUnmaterialised(st, unmat).history = st.history
         /\ TrackExternalDrift(st, count).history \subseteq st.history
         /\ ApplyDecisionState(st, d).history
              \subseteq st.history \cup {[age |-> 0, desired |-> d.desired]}
         /\ RecordRemediation(st, d, applied).history = st.history
         /\ ApplyWriteState(st, d, age).history = st.history
  BY DEF TrackUnmaterialised, TrackExternalDrift, ApplyDecisionState,
         RecordRemediation, ApplyWriteState, ControllerState

LEMMA ObserveDamped ==
  ASSUME TypeOK, DampingInv, NEW view \in Views, NEW health \in PodHealths,
         NEW condition \in Conditions, NEW backlog \in BacklogSignals,
         NEW cpu \in CpuSignals, Observe(view, health, condition, backlog, cpu)
  PROVE  DampingInv'
<1> DEFINE tracked == Tracked(view, health)
           s == SnapshotOf(state, tracked, view, health, condition, backlog, cpu)
           d == Decide(s)
           decided == ApplyDecisionState(tracked, d)
<1>1. /\ state \in ControllerState /\ cached \in Nat /\ Plausible(health) /\ uptime \in Age
      /\ health \in PodHealth
  BY EnvironmentAssumption DEF TypeOK, Observe, PodHealth
<1>2. s \in Snapshot /\ s.history = state.history
  <2>1. s \in Snapshot
    BY <1>1, SnapshotType
  <2>2. s.history = state.history
    BY DEF SnapshotOf
  <2> QED
    BY <2>1, <2>2
<1>3. d \in Decision
  <2> HIDE DEF s
  <2> QED
    BY <1>2, DecideSound DEF Sound
<1>4. d.reason = "ScaleDown" => uptime >= Window
  <2> SUFFICES ASSUME d.reason = "ScaleDown" PROVE uptime >= Window
    OBVIOUS
  <2> HIDE DEF s
  <2>1. PICK x \in state.history : x.age >= Window
    BY <1>2, ScaleDownIsCovered
  <2>2. x.age \in Nat /\ x.age <= uptime
    BY <1>1, <2>1, AgeFacts DEF DampingInv, HistoryIsOwn, ControllerState, Sample
  <2> QED
    BY <1>1, <2>1, <2>2, AgeFacts, TimeAssumption
<1>5. tracked \in ControllerState /\ tracked.history \subseteq state.history
  <2>1. tracked \in ControllerState
    BY <1>1, TrackedType
  <2>2. TrackUnmaterialised(state, health.unmat) \in ControllerState
    BY <1>1, TrackUnmaterialisedType DEF PodHealth
  <2>3. tracked.history \subseteq state.history
    BY <1>1, <1>3, <2>2, HistoryOfMemory DEF Tracked
  <2> QED
    BY <2>1, <2>3
<1>6. decided \in ControllerState
      /\ decided.history \subseteq state.history \cup {[age |-> 0, desired |-> d.desired]}
  <2> HIDE DEF tracked, d
  <2> QED
    BY <1>3, <1>5, ApplyDecisionStateType, HistoryOfMemory
<1>7. state'.history \subseteq state.history \cup {[age |-> 0, desired |-> d.desired]}
  <2>1. state' = decided \/ state' = RecordRemediation(decided, d, ~IsWrite(d))
    BY DEF Observe
  <2> HIDE DEF decided, d
  <2> QED
    BY <1>3, <1>6, <2>1, HistoryOfMemory
<1>8. uptime' = uptime /\ pc = "idle"
  BY DEF Observe
<1>9. pc' # "idle" => decision' = d
  BY <1>8 DEF Observe
<1>10. HistoryIsOwn'
  <2> HIDE DEF d
  <2>1. 0 <= uptime
    BY <1>1, AgeFacts
  <2> QED
    BY <1>7, <1>8, <2>1 DEF DampingInv, HistoryIsOwn
<1>11. RestartIsDamped'
  <2> HIDE DEF d
  <2> QED
    BY <1>4, <1>8, <1>9 DEF RestartIsDamped, Acting
<1> QED
  BY <1>10, <1>11 DEF DampingInv

\* A reconcile that ends keeps its history.
LEMMA FinishFailedHistory ==
  ASSUME TypeOK, NEW fatal, FinishFailed(fatal)
  PROVE  state'.history = state.history /\ pc' = "idle"
<1> DEFINE st == RecordRemediation(state, decision, FALSE)
<1>1. st \in ControllerState /\ st.history = state.history
  BY RecordRemediationType, HistoryOfMemory DEF TypeOK
<1>2. state' = [st EXCEPT !.fatal = st.fatal \/ fatal] /\ pc' = "idle"
  BY DEF FinishFailed, Finish
<1> HIDE DEF st
<1> QED
  BY <1>1, <1>2 DEF ControllerState

LEMMA ActuatingDamped ==
  ASSUME TypeOK, DampingInv, Actuating
  PROVE  DampingInv'
<1>1. uptime' = uptime
  BY DEF Actuating, ReadLive, ReadStale, ReadFails, ReplyApplied, ReplyRefused, ReplyLost
<1>2. /\ state'.history = state.history
      /\ pc' = "idle" \/ (pc # "idle" /\ decision' = decision)
  <2>1. CASE ReadLive
    BY <2>1 DEF ReadLive
  <2>2. CASE ReadStale
    BY <2>2, FinishFailedHistory DEF ReadStale
  <2>3. ASSUME NEW fatal \in BOOLEAN, ReadFails(fatal)
        PROVE  state'.history = state.history /\ pc' = "idle"
    BY <2>3, FinishFailedHistory DEF ReadFails
  <2>4. CASE ReplyApplied
    <3> DEFINE written == ApplyWriteState(state, decision, elapsed)
    <3>1. /\ state \in ControllerState /\ decision \in Decision /\ elapsed \in Age
      BY DEF TypeOK
    <3>2. written \in ControllerState /\ written.history = state.history
      <4>1. written \in ControllerState
        BY <3>1, ApplyWriteStateType
      <4>2. written.history = state.history
        BY <3>1 DEF ApplyWriteState, ControllerState
      <4> QED
        BY <4>1, <4>2
    <3>3. state' = RecordRemediation(written, decision, TRUE) /\ pc' = "idle"
      BY <2>4 DEF ReplyApplied, Finish
    <3>4. RecordRemediation(written, decision, TRUE).history = written.history
      <4> HIDE DEF written
      <4> QED
        BY <3>1, <3>2, HistoryOfMemory
    <3> QED
      BY <3>2, <3>3, <3>4
  <2>5. CASE ReplyRefused
    BY <2>5, FinishFailedHistory DEF ReplyRefused
  <2>6. ASSUME NEW retry \in BOOLEAN, ReplyLost(retry)
        PROVE  /\ state'.history = state.history
               /\ pc' = "idle" \/ (pc # "idle" /\ decision' = decision)
    <3>1. CASE retry
      BY <2>6, <3>1 DEF ReplyLost
    <3>2. CASE ~retry
      BY <2>6, <3>2, FinishFailedHistory DEF ReplyLost
    <3> QED
      BY <3>1, <3>2
  <2> QED
    BY <2>1, <2>2, <2>3, <2>4, <2>5, <2>6 DEF Actuating
<1> QED
  BY <1>1, <1>2 DEF DampingInv, HistoryIsOwn, RestartIsDamped, Acting

LEMMA TickDamped ==
  ASSUME TypeOK, DampingInv, Tick
  PROVE  DampingInv'
<1>1. /\ state \in ControllerState /\ uptime \in Age /\ uptime' = Older(uptime)
      /\ UNCHANGED <<pc, decision>> /\ state' = AgeState(state)
  BY DEF TypeOK, Tick
<1>2. state'.history = {[age |-> Older(x.age), desired |-> x.desired] : x \in state.history}
  BY <1>1 DEF AgeState, ControllerState
<1>3. HistoryIsOwn'
  <2> SUFFICES ASSUME NEW y \in state'.history PROVE y.age <= uptime'
    BY DEF HistoryIsOwn
  <2>1. PICK x \in state.history : y = [age |-> Older(x.age), desired |-> x.desired]
    BY <1>2
  <2>2. x.age \in Age /\ x.age <= uptime
    BY <1>1, <2>1 DEF DampingInv, HistoryIsOwn, ControllerState, Sample
  <2> QED
    BY <1>1, <2>1, <2>2, OlderMonotone
<1>4. RestartIsDamped'
  <2>1. uptime <= uptime' /\ uptime \in Nat /\ uptime' \in Nat
    BY <1>1, OlderGrows, OlderType, AgeFacts
  <2> QED
    BY <1>1, <2>1, TimeAssumption DEF DampingInv, RestartIsDamped, Acting
<1> QED
  BY <1>3, <1>4 DEF DampingInv

LEMMA NextDamped ==
  TypeOK /\ DampingInv /\ [Next]_vars => DampingInv'
<1> SUFFICES ASSUME TypeOK, DampingInv, [Next]_vars PROVE DampingInv'
  OBVIOUS
<1>1. CASE Reconciling
  BY <1>1, ObserveDamped DEF Reconciling
<1>2. CASE Actuating
  BY <1>2, ActuatingDamped
<1>3. CASE Tick
  BY <1>3, TickDamped
<1>4. CASE Restart
  <2>1. state' = FreshState /\ pc' = "idle"
    BY <1>4 DEF Restart, Finish
  <2> QED
    BY <2>1 DEF FreshState, DampingInv, HistoryIsOwn, RestartIsDamped, Acting
<1>5. ASSUME UNCHANGED <<state, pc, decision, uptime>>
      PROVE  DampingInv'
  BY <1>5 DEF DampingInv, HistoryIsOwn, RestartIsDamped, Acting
<1>6. CASE Serving
  BY <1>5, <1>6 DEF Serving, ServerApplies, ServerConflicts, ServerRefuses,
                    OrphanApplies, Deliver, ctlVars
<1>7. ASSUME NEW count \in ForeignCounts, ForeignWrite(count)
      PROVE  DampingInv'
  BY <1>5, <1>7 DEF ForeignWrite, ctlVars
<1>8. CASE OtherUpdate
  BY <1>5, <1>8 DEF OtherUpdate, ctlVars
<1>9. CASE UNCHANGED vars
  BY <1>5, <1>9 DEF vars, ctlVars
<1> QED
  BY <1>1, <1>2, <1>3, <1>4, <1>6, <1>7, <1>8, <1>9 DEF Next

\* No process scales down on demand before it has itself run for a whole
\* stabilization window, however often the controller restarts (E2E-11).
THEOREM RestartDamping == Spec => []RestartIsDamped
<1>1. Init => TypeOK /\ DampingInv
  BY InitType DEF Init, FreshState, DampingInv, HistoryIsOwn, RestartIsDamped, Acting
<1>2. TypeOK /\ DampingInv /\ [Next]_vars => (TypeOK /\ DampingInv)'
  BY NextType, NextDamped
<1>3. DampingInv => RestartIsDamped
  BY DEF DampingInv
<1> QED
  BY <1>1, <1>2, <1>3, PTL DEF Spec

----------------------------------------------------------------------------
(* What the controller takes for somebody else's change, and how far it    *)
(* reverts.  Both rest on what the cache may still hide: at most one       *)
(* change, the last, which is the controller's last write unless somebody  *)
(* else, or a process before it, made it.                                  *)

\* Every UpdateScale is answered: none is lost once the server has it.
RepliesArrive == "timeout" \notin Faults

\* Nobody else sets spec.replicas.
SoleWriter == ForeignCounts = {}

\* The cache hides no more than one change while others write.
CacheKeepsUp == SoleWriter \/ MaxLag <= 1

\* No update of ours has been applied whose reply is still on its way.
Settled == put # "applied"

\* Our last applied write: what the controller remembers, once it knows.
LastOwn == IF Settled THEN state.lastWritten ELSE decision.target

DecisionFits ==
  pc # "idle" =>
    /\ state.hasBaseline /\ state.observed = decision.from
    /\ IF decision.reason \in UpReasons THEN decision.from < decision.target
       ELSE decision.reason \in DownReasons /\ decision.target < decision.from

FeedIsLast ==
  IF feed = <<>> THEN cached = live
  ELSE Len(feed) = 1 /\ feed[1].replicas = live /\ cached # live

OwnIsLast == feed # <<>> /\ feed[1].own => feed[1].replicas = LastOwn

SeenOrOwn == state.hasBaseline => cached \in {state.observed, LastOwn} \/ foreign

\* An update left behind belongs to a process before this one, which has not
\* yet written; and what is being actuated was decided from the cached count.
LeftBehind ==
  /\ orphans # {} => feed = <<>> /\ state.lastWritten = None /\ Settled
  /\ pc # "idle" /\ Settled /\ (feed # <<>> \/ orphans # {}) => decision.from = cached

DriftInv ==
  /\ DecisionFits
  /\ put # "none" => pc = "await"
  /\ FeedIsLast
  /\ OwnIsLast
  /\ SeenOrOwn
  /\ SoleWriter => LeftBehind

----------------------------------------------------------------------------
(* What each operation does to the counts the controller remembers.        *)

SameCounts(st, before) ==
  /\ st.lastWritten = before.lastWritten /\ st.hasBaseline = before.hasBaseline
  /\ st.observed = before.observed /\ st.lastGood = before.lastGood

\* Only trackExternalDrift and applyWriteState change them.
LEMMA CountsOfMemory ==
  ASSUME NEW st \in ControllerState, NEW d \in Decision, NEW applied, NEW unmat
  PROVE  /\ SameCounts(TrackUnmaterialised(st, unmat), st)
         /\ SameCounts(ApplyDecisionState(st, d), st)
         /\ SameCounts(RecordRemediation(st, d, applied), st)
         /\ TrackUnmaterialised(st, unmat).drifts = st.drifts
         /\ ApplyDecisionState(st, d).drifts = st.drifts
         /\ RecordRemediation(st, d, applied).drifts = st.drifts
  BY DEF SameCounts, TrackUnmaterialised, ApplyDecisionState, RecordRemediation,
         ControllerState

\* Time ages the external changes and leaves none of age 0.
LEMMA TickCounts ==
  ASSUME TypeOK, Tick
  PROVE  SameCounts(state', state) /\ 0 \notin state'.drifts
<1>1. state \in ControllerState /\ state' = AgeState(state)
  BY DEF TypeOK, Tick
<1>2. SameCounts(AgeState(state), state)
  BY <1>1 DEF SameCounts, AgeState, ControllerState
<1>3. AgeState(state).drifts = {Older(a) : a \in state.drifts}
  BY <1>1 DEF AgeState, ControllerState
<1>4. \A a \in state.drifts : Older(a) # 0
  BY <1>1, AgeFacts, TimeAssumption DEF Older, Smaller, ControllerState
<1> QED
  BY <1>1, <1>2, <1>3, <1>4

LEMMA FinishFailedCounts ==
  ASSUME TypeOK, NEW fatal, FinishFailed(fatal)
  PROVE  /\ SameCounts(state', state) /\ state'.drifts = state.drifts
         /\ pc' = "idle" /\ put' = "none"
<1> DEFINE st == RecordRemediation(state, decision, FALSE)
<1>1. st \in ControllerState /\ SameCounts(st, state) /\ st.drifts = state.drifts
  BY RecordRemediationType, CountsOfMemory DEF TypeOK
<1>2. state' = [st EXCEPT !.fatal = st.fatal \/ fatal] /\ pc' = "idle" /\ put' = "none"
  BY DEF FinishFailed, Finish
<1> HIDE DEF st
<1> QED
  BY <1>1, <1>2 DEF ControllerState, SameCounts

LEMMA ReplyAppliedCounts ==
  ASSUME TypeOK, ReplyApplied
  PROVE  /\ state'.lastWritten = decision.target
         /\ state'.hasBaseline = state.hasBaseline
         /\ state'.observed = state.observed
         /\ state'.lastGood = IF decision.reason \in UpReasons THEN decision.from
                              ELSE state.lastGood
         /\ state'.drifts = state.drifts
<1> DEFINE written == ApplyWriteState(state, decision, elapsed)
<1>1. /\ state \in ControllerState /\ decision \in Decision /\ elapsed \in Age
  BY DEF TypeOK
<1>2. written \in ControllerState
  BY <1>1, ApplyWriteStateType
<1>3. /\ written.lastWritten = decision.target
      /\ written.hasBaseline = state.hasBaseline
      /\ written.observed = state.observed
      /\ written.lastGood = IF decision.reason \in UpReasons THEN decision.from
                            ELSE state.lastGood
      /\ written.drifts = state.drifts
  BY <1>1 DEF ApplyWriteState, ControllerState, UpReasons
<1>4. state' = RecordRemediation(written, decision, TRUE)
  BY DEF ReplyApplied, Finish
<1> HIDE DEF written
<1> QED
  BY <1>1, <1>2, <1>3, <1>4, CountsOfMemory DEF SameCounts

\* What trackExternalDrift leaves.
LEMMA TrackExternalDriftCounts ==
  ASSUME NEW st \in ControllerState, NEW count \in Nat
  PROVE  LET tracked == TrackExternalDrift(st, count) IN
         /\ tracked.lastWritten = st.lastWritten
         /\ tracked.hasBaseline /\ tracked.observed = count
         /\ tracked.lastGood = IF ~st.hasBaseline \/ IsDrift(st, count) THEN count
                               ELSE st.lastGood
         /\ 0 \in tracked.drifts => 0 \in st.drifts \/ IsDrift(st, count)
<1>1. CASE ~st.hasBaseline
  BY <1>1 DEF TrackExternalDrift, ControllerState, IsDrift
<1>2. CASE st.hasBaseline /\ IsDrift(st, count)
  BY <1>2 DEF TrackExternalDrift, ControllerState
<1>3. CASE st.hasBaseline /\ ~IsDrift(st, count)
  BY <1>3 DEF TrackExternalDrift, ControllerState, InDriftWindow
<1> QED
  BY <1>1, <1>2, <1>3

\* The counts an Observe leaves, from the cached one.
LEMMA ObserveCounts ==
  ASSUME TypeOK, NEW view \in Views, NEW health \in PodHealths,
         NEW condition \in Conditions, NEW backlog \in BacklogSignals,
         NEW cpu \in CpuSignals, Observe(view, health, condition, backlog, cpu)
  PROVE  /\ state'.lastWritten = state.lastWritten
         /\ view = "none" =>
              SameCounts(state', state) /\ state'.drifts = state.drifts /\ pc' = "idle"
         /\ view # "none" =>
              /\ state'.hasBaseline /\ state'.observed = cached
              /\ state'.lastGood = IF ~state.hasBaseline \/ IsDrift(state, cached)
                                   THEN cached ELSE state.lastGood
              /\ 0 \in state'.drifts => 0 \in state.drifts \/ IsDrift(state, cached)
         /\ pc' # "idle" =>
              /\ decision'.from = cached
              /\ IF decision'.reason \in UpReasons
                 THEN decision'.from < decision'.target
                 ELSE decision'.reason \in DownReasons /\ decision'.target < decision'.from
              /\ decision'.reason = "RevertPendingPods"
                   => decision'.target >= Clamp(state.lastGood)
<1> DEFINE tracked == Tracked(view, health)
           s == SnapshotOf(state, tracked, view, health, condition, backlog, cpu)
           d == Decide(s)
           decided == ApplyDecisionState(tracked, d)
<1>1. /\ state \in ControllerState /\ cached \in Nat /\ Plausible(health)
      /\ health \in PodHealth /\ pc = "idle" /\ decision \in Decision
  BY EnvironmentAssumption DEF TypeOK, Observe, PodHealth
<1>2. /\ s \in Snapshot /\ s.lastGood = state.lastGood /\ s.valid = (view = "full")
      /\ view # "none" => s.current = cached
  <2>1. s \in Snapshot
    BY <1>1, SnapshotType
  <2>2. /\ s.lastGood = state.lastGood /\ s.valid = (view = "full")
        /\ view # "none" => s.current = cached
    BY DEF SnapshotOf
  <2> QED
    BY <2>1, <2>2
<1>3. Sound(s, d)
  <2> HIDE DEF s
  <2> QED
    BY <1>2, DecideSound
<1>4. d \in Decision
  BY <1>3 DEF Sound
<1>5. tracked \in ControllerState
  BY <1>1, TrackedType
<1>6. SameCounts(state', tracked) /\ state'.drifts = tracked.drifts
  <2>1. decided \in ControllerState /\ SameCounts(decided, tracked)
          /\ decided.drifts = tracked.drifts
    <3> HIDE DEF tracked, d
    <3> QED
      BY <1>4, <1>5, ApplyDecisionStateType, CountsOfMemory
  <2>2. state' = decided \/ state' = RecordRemediation(decided, d, ~IsWrite(d))
    BY DEF Observe
  <2> HIDE DEF decided, d, tracked
  <2> QED
    BY <1>4, <2>1, <2>2, CountsOfMemory DEF SameCounts
<1>7. view = "none" => tracked = state
  BY DEF Tracked
<1>8. view # "none" =>
        /\ tracked.lastWritten = state.lastWritten
        /\ tracked.hasBaseline /\ tracked.observed = cached
        /\ tracked.lastGood = IF ~state.hasBaseline \/ IsDrift(state, cached)
                              THEN cached ELSE state.lastGood
        /\ 0 \in tracked.drifts => 0 \in state.drifts \/ IsDrift(state, cached)
  <2> DEFINE st == TrackUnmaterialised(state, health.unmat)
  <2>1. st \in ControllerState
    BY <1>1, TrackUnmaterialisedType DEF PodHealth
  <2>2. SameCounts(st, state) /\ st.drifts = state.drifts
    BY <1>1, <1>4, CountsOfMemory
  <2>3. IsDrift(st, cached) = IsDrift(state, cached)
    BY <2>2 DEF IsDrift, SameCounts
  <2>4. view # "none" => tracked = TrackExternalDrift(st, cached)
    BY DEF Tracked
  <2> HIDE DEF st, tracked
  <2> QED
    BY <1>1, <2>1, <2>2, <2>3, <2>4, TrackExternalDriftCounts DEF SameCounts
<1>9. pc' # "idle" => decision' = d /\ IsWrite(d) /\ Valid(d)
  BY <1>1 DEF Observe
<1>10. IsWrite(d) => view = "full"
  <2>1. ~s.valid => d.reason = "ErrorAPIFailure"
    BY DEF Decide, HoldBlind
  <2> HIDE DEF d, s
  <2> QED
    BY <1>2, <2>1 DEF IsWrite, WriteReasons
<1>11. d.reason = "RevertPendingPods" => d.target >= Clamp(state.lastGood)
  <2> HIDE DEF s
  <2> QED
    BY <1>2, RevertAboveLastGood
<1>12. ASSUME pc' # "idle"
       PROVE  /\ decision'.from = cached
              /\ IF decision'.reason \in UpReasons
                 THEN decision'.from < decision'.target
                 ELSE decision'.reason \in DownReasons /\ decision'.target < decision'.from
  <2>1. d.from = cached /\ d.reason \in UpReasons \cup DownReasons
    BY <1>2, <1>3, <1>9, <1>10, <1>12
    DEF Sound, IsWrite, WriteReasons, UpReasons, DownReasons
  <2>2. d.target # d.from /\ d.target \in Nat /\ d.from \in Nat
    BY <1>4, <1>9, <1>12 DEF Valid, Decision
  <2>3. IF d.reason \in UpReasons THEN d.from < d.target
        ELSE d.reason \in DownReasons /\ d.target < d.from
    <3> HIDE DEF d, s
    <3> QED
      BY <1>2, <1>3, <2>1, <2>2 DEF Sound
  <2> HIDE DEF d
  <2> QED
    BY <1>9, <1>12, <2>1, <2>3
<1> HIDE DEF d, s, tracked, decided
<1> QED
  BY <1>6, <1>7, <1>8, <1>9, <1>10, <1>11, <1>12 DEF SameCounts

----------------------------------------------------------------------------
(* DriftInv is inductive, together with TypeOK and UpdatesAreCurrent.      *)

\* A change of the count while the cache is level leaves one change to deliver.
LEMMA SetReplicasFeed ==
  ASSUME TypeOK, NEW count \in Nat, NEW by, SetReplicas(count, by),
         feed = <<>>, cached = live, cached' = cached, count # live
  PROVE  /\ feed' # <<>> /\ Len(feed') = 1
         /\ feed'[1] = [replicas |-> count, own |-> by = "awaited"]
         /\ live' = count /\ FeedIsLast'
<1> DEFINE change == [replicas |-> count, own |-> by = "awaited"]
<1>1. feed' = Append(<<>>, change) /\ live' = count
  BY DEF SetReplicas
<1>2. feed' = <<change>>
  <2> HIDE DEF change
  <2> QED
    BY <1>1
<1>3. feed' # <<>> /\ Len(feed') = 1 /\ feed'[1] = change
  <2> HIDE DEF change
  <2> QED
    BY <1>2
<1> QED
  BY <1>1, <1>3 DEF FeedIsLast

\* Every change is made while the cache is level.
LEMMA WritesFollowDelivery ==
  ASSUME TypeOK, UpdatesAreCurrent, DriftInv, CacheKeepsUp
  PROVE  /\ ServerApplies => feed = <<>> /\ cached = live /\ live = decision.from
         /\ \A o \in orphans : OrphanApplies(o) => feed = <<>> /\ cached = live
         /\ \A count \in ForeignCounts : ForeignWrite(count) => feed = <<>> /\ cached = live
<1>1. feed = <<>> => cached = live
  BY DEF DriftInv, FeedIsLast
<1>2. MaxLag <= 1 /\ Len(feed) < MaxLag => feed = <<>>
  <2>1. Len(feed) \in Nat /\ MaxLag \in Nat
    BY EnvironmentAssumption DEF TypeOK
  <2>2. Len(feed) = 0 => feed = <<>>
    BY EmptySeq DEF TypeOK
  <2> QED
    BY <2>1, <2>2
<1>3. ASSUME ServerApplies
      PROVE  feed = <<>> /\ live = decision.from
  <2>1. put = "sent" /\ putFresh /\ pc # "idle" /\ live = decision.from
    BY <1>3 DEF ServerApplies, UpdatesAreCurrent
  <2>2. CASE SoleWriter
    BY <2>1, <2>2 DEF DriftInv, LeftBehind, Settled, FeedIsLast
  <2>3. CASE MaxLag <= 1
    BY <1>2, <1>3, <2>1, <2>3 DEF ServerApplies, SetReplicas
  <2> QED
    BY <2>2, <2>3 DEF CacheKeepsUp
<1>4. ASSUME NEW o \in orphans, OrphanApplies(o)
      PROVE  feed = <<>>
  <2>1. CASE SoleWriter
    BY <2>1 DEF DriftInv, LeftBehind
  <2>2. CASE MaxLag <= 1
    BY <1>2, <1>4, <2>2 DEF OrphanApplies, SetReplicas
  <2> QED
    BY <2>1, <2>2 DEF CacheKeepsUp
<1>5. ASSUME NEW count \in ForeignCounts, ForeignWrite(count)
      PROVE  feed = <<>>
  BY <1>2, <1>5 DEF CacheKeepsUp, SoleWriter, ForeignWrite, SetReplicas
<1> QED
  BY <1>1, <1>3, <1>4, <1>5

\* The watch delivers the one change there is.
LEMMA DeliverLast ==
  ASSUME TypeOK, DriftInv, NEW n \in 1..Len(feed), Deliver(n)
  PROVE  /\ n = 1 /\ feed # <<>> /\ feed' = <<>>
         /\ cached' = live /\ cached' = feed[1].replicas
         /\ foreign' = (foreign \/ ~feed[1].own)
<1> DEFINE Change == [replicas : Nat, own : BOOLEAN]
<1>1. feed \in Seq(Change)
  BY DEF TypeOK
<1>2. feed # <<>> /\ Len(feed) = 1 /\ feed[1].replicas = live
  <2>1. feed # <<>>
    <3> SUFFICES ASSUME feed = <<>> PROVE FALSE
      OBVIOUS
    <3>1. Len(feed) = 0
      OBVIOUS
    <3> QED
      BY <3>1
  <2> QED
    BY <2>1 DEF DriftInv, FeedIsLast
<1>3. n = 1
  BY <1>2
<1>4. SubSeq(feed, 2, 1) = <<>>
  <2>1. \A i \in 2..1 : feed[i] \in Change
    OBVIOUS
  <2> HIDE DEF Change
  <2>2. SubSeq(feed, 2, 1) \in Seq(Change) /\ Len(SubSeq(feed, 2, 1)) = 0
    BY <1>1, <2>1, SubSeqProperties
  <2> QED
    BY <2>2, EmptySeq
<1> QED
  BY <1>2, <1>3, <1>4 DEF Deliver

LEMMA ObserveDrift ==
  ASSUME TypeOK, UpdatesAreCurrent, DriftInv,
         NEW view \in Views, NEW health \in PodHealths,
         NEW condition \in Conditions, NEW backlog \in BacklogSignals,
         NEW cpu \in CpuSignals, Observe(view, health, condition, backlog, cpu)
  PROVE  DriftInv'
<1>1. /\ pc = "idle" /\ put = "none"
      /\ UNCHANGED <<put, putFresh, orphans, live, feed, cached>>
      /\ foreign' = (foreign /\ view = "none")
  BY DEF Observe, DriftInv
<1>2. Settled /\ Settled' /\ LastOwn = state.lastWritten /\ LastOwn' = state'.lastWritten
  BY <1>1 DEF Settled, LastOwn
<1>3. state'.lastWritten = state.lastWritten
  BY ObserveCounts
<1>4. DecisionFits'
  <2> SUFFICES ASSUME pc' # "idle" PROVE DecisionFits'
    BY DEF DecisionFits
  <2>1. view # "none"
    BY ObserveCounts
  <2> QED
    BY <2>1, ObserveCounts DEF DecisionFits
<1>5. SeenOrOwn'
  <2>1. CASE view = "none"
    BY <1>1, <1>2, <2>1, ObserveCounts DEF DriftInv, SeenOrOwn, SameCounts
  <2>2. CASE view # "none"
    BY <1>1, <2>2, ObserveCounts DEF SeenOrOwn
  <2> QED
    BY <2>1, <2>2
<1>6. SoleWriter => LeftBehind'
  <2>1. pc' # "idle" => decision'.from = cached
    BY ObserveCounts
  <2> QED
    BY <1>1, <1>2, <1>3, <2>1 DEF DriftInv, LeftBehind
<1>7. FeedIsLast' /\ OwnIsLast'
  BY <1>1, <1>2, <1>3 DEF DriftInv, FeedIsLast, OwnIsLast
<1> QED
  BY <1>1, <1>4, <1>5, <1>6, <1>7 DEF DriftInv

\* The end of an actuation that wrote nothing.
LEMMA FailedDrift ==
  ASSUME TypeOK, DriftInv, Settled, NEW fatal, FinishFailed(fatal),
         UNCHANGED <<orphans, live, feed, cached, foreign>>
  PROVE  DriftInv'
<1>1. SameCounts(state', state) /\ pc' = "idle" /\ put' = "none"
  BY FinishFailedCounts
<1>2. Settled' /\ LastOwn' = LastOwn
  BY <1>1 DEF Settled, LastOwn, SameCounts
<1> QED
  BY <1>1, <1>2
  DEF DriftInv, DecisionFits, FeedIsLast, OwnIsLast, SeenOrOwn, LeftBehind, SameCounts

LEMMA ActuatingDrift ==
  ASSUME TypeOK, UpdatesAreCurrent, DriftInv, RepliesArrive, Actuating
  PROVE  DriftInv'
<1>1. CASE ReadLive
  <2>1. /\ UNCHANGED <<state, decision, orphans, live, feed, cached, foreign>>
        /\ pc = "read" /\ pc' = "await" /\ Settled /\ Settled'
    BY <1>1 DEF ReadLive, apiVars, DriftInv, Settled
  <2> QED
    BY <2>1 DEF DriftInv, DecisionFits, FeedIsLast, OwnIsLast, SeenOrOwn, LeftBehind, LastOwn
<1>2. CASE ReadStale
  <2>1. Settled
    BY <1>2 DEF ReadStale, DriftInv, Settled
  <2> QED
    BY <1>2, <2>1, FailedDrift DEF ReadStale, apiVars
<1>3. ASSUME NEW fatal \in BOOLEAN, ReadFails(fatal)
      PROVE  DriftInv'
  <2>1. Settled
    BY <1>3 DEF ReadFails, DriftInv, Settled
  <2> QED
    BY <1>3, <2>1, FailedDrift DEF ReadFails, apiVars
<1>4. CASE ReplyApplied
  <2>1. /\ UNCHANGED <<orphans, live, feed, cached, foreign>>
        /\ pc' = "idle" /\ put' = "none" /\ ~Settled /\ Settled'
    BY <1>4 DEF ReplyApplied, Finish, apiVars, Settled
  <2>2. LastOwn' = LastOwn
    BY <1>4, <2>1, ReplyAppliedCounts DEF LastOwn
  <2>3. state'.hasBaseline = state.hasBaseline /\ state'.observed = state.observed
    BY <1>4, ReplyAppliedCounts
  <2> QED
    BY <2>1, <2>2, <2>3
    DEF DriftInv, DecisionFits, FeedIsLast, OwnIsLast, SeenOrOwn, LeftBehind
<1>5. CASE ReplyRefused
  <2>1. Settled
    BY <1>5 DEF ReplyRefused, Settled
  <2> QED
    BY <1>5, <2>1, FailedDrift DEF ReplyRefused, apiVars
<1>6. ASSUME NEW retry \in BOOLEAN, ReplyLost(retry)
      PROVE  DriftInv'
  BY <1>6 DEF ReplyLost, RepliesArrive
<1> QED
  BY <1>1, <1>2, <1>3, <1>4, <1>5, <1>6 DEF Actuating

\* The server's answers that leave the count alone, and the passing of time.
LEMMA SettledDrift ==
  ASSUME DriftInv, SameCounts(state', state), Settled' = Settled,
         put' # "none" => pc' = "await",
         UNCHANGED <<pc, decision, live, feed, cached, foreign>>,
         orphans' \subseteq orphans
  PROVE  DriftInv'
<1>1. LastOwn' = LastOwn
  BY DEF LastOwn, SameCounts
<1> QED
  BY <1>1
  DEF DriftInv, DecisionFits, FeedIsLast, OwnIsLast, SeenOrOwn, LeftBehind, SameCounts

LEMMA ServerAppliesDrift ==
  ASSUME TypeOK, UpdatesAreCurrent, DriftInv, CacheKeepsUp, ServerApplies
  PROVE  DriftInv'
<1>1. /\ UNCHANGED <<state, pc, decision, cached, foreign>>
      /\ put = "sent" /\ put' = "applied" /\ pc = "await" /\ orphans' = {}
      /\ SetReplicas(decision.target, "awaited")
  BY DEF ServerApplies, SetReplicas, ctlVars, DriftInv
<1>2. feed = <<>> /\ cached = live /\ live = decision.from
  BY WritesFollowDelivery
<1>3. decision.target \in Nat /\ decision.target # live
  BY <1>1, <1>2 DEF UpdatesAreCurrent, Valid, TypeOK, Decision
<1>4. FeedIsLast' /\ feed'[1].replicas = decision.target
  <2>1. /\ FeedIsLast'
        /\ feed'[1] = [replicas |-> decision.target, own |-> "awaited" = "awaited"]
    BY <1>1, <1>2, <1>3, SetReplicasFeed
  <2> QED
    BY <2>1
<1>5. ~Settled' /\ LastOwn' = decision.target
  BY <1>1 DEF Settled, LastOwn
<1>6. DecisionFits' /\ state.observed = decision.from
  BY <1>1 DEF DriftInv, DecisionFits
<1> QED
  BY <1>1, <1>2, <1>4, <1>5, <1>6 DEF DriftInv, OwnIsLast, SeenOrOwn, LeftBehind

\* A change made by anyone else: an update left behind, or another writer.
LEMMA OthersChangeDrift ==
  ASSUME TypeOK, DriftInv, NEW count \in Nat, NEW by \in {"orphan", "other"},
         SetReplicas(count, by), feed = <<>>, cached = live, count # live,
         SoleWriter => orphans # {},
         UNCHANGED <<state, pc, decision, put, cached, foreign>>
  PROVE  DriftInv'
<1>1. FeedIsLast' /\ ~feed'[1].own /\ orphans' = {}
  <2>1. FeedIsLast' /\ feed'[1] = [replicas |-> count, own |-> by = "awaited"]
    BY SetReplicasFeed
  <2>2. feed'[1].own = (by = "awaited") /\ by # "awaited"
    BY <2>1
  <2> QED
    BY <2>1, <2>2 DEF SetReplicas
<1>2. Settled' = Settled /\ LastOwn' = LastOwn
  BY DEF Settled, LastOwn
<1> QED
  BY <1>1, <1>2 DEF DriftInv, DecisionFits, OwnIsLast, SeenOrOwn, LeftBehind

LEMMA ServingDrift ==
  ASSUME TypeOK, UpdatesAreCurrent, DriftInv, CacheKeepsUp, Serving
  PROVE  DriftInv'
<1>1. CASE ServerApplies
  BY <1>1, ServerAppliesDrift
<1>2. CASE ServerConflicts
  BY <1>2, SettledDrift DEF ServerConflicts, ctlVars, apiVars, SameCounts, Settled, DriftInv
<1>3. CASE ServerRefuses
  BY <1>3, SettledDrift DEF ServerRefuses, ctlVars, apiVars, SameCounts, Settled, DriftInv
<1>4. ASSUME NEW o \in orphans, OrphanApplies(o)
      PROVE  DriftInv'
  <2>1. feed = <<>> /\ cached = live /\ o.to \in Nat /\ o.to # live
    BY <1>4, WritesFollowDelivery DEF TypeOK, Update, UpdatesAreCurrent
  <2>2. /\ SetReplicas(o.to, "orphan") /\ orphans # {}
        /\ UNCHANGED <<state, pc, decision, put, cached, foreign>>
    BY <1>4 DEF OrphanApplies, ctlVars
  <2> QED
    BY <2>1, <2>2, OthersChangeDrift
<1>5. ASSUME NEW n \in 1..Len(feed), Deliver(n)
      PROVE  DriftInv'
  <2>1. /\ feed # <<>> /\ feed' = <<>>
        /\ cached' = live /\ cached' = feed[1].replicas
        /\ foreign' = (foreign \/ ~feed[1].own)
    BY <1>5, DeliverLast
  <2>2. UNCHANGED <<state, pc, decision, put, orphans, live>>
    BY <1>5 DEF Deliver, ctlVars
  <2>3. Settled' = Settled /\ LastOwn' = LastOwn
    BY <2>2 DEF Settled, LastOwn
  <2>4. SeenOrOwn'
    BY <2>1, <2>2, <2>3 DEF DriftInv, SeenOrOwn, OwnIsLast
  <2> QED
    BY <2>1, <2>2, <2>3, <2>4 DEF DriftInv, DecisionFits, FeedIsLast, OwnIsLast, LeftBehind
<1> QED
  BY <1>1, <1>2, <1>3, <1>4, <1>5 DEF Serving

LEMMA NextDrift ==
  ASSUME RepliesArrive, CacheKeepsUp
  PROVE  TypeOK /\ UpdatesAreCurrent /\ DriftInv /\ [Next]_vars => DriftInv'
<1> SUFFICES ASSUME TypeOK, UpdatesAreCurrent, DriftInv, [Next]_vars PROVE DriftInv'
  OBVIOUS
<1>1. CASE Reconciling
  BY <1>1, ObserveDrift DEF Reconciling
<1>2. CASE Actuating
  BY <1>2, ActuatingDrift
<1>3. CASE Serving
  BY <1>3, ServingDrift
<1>4. ASSUME NEW count \in ForeignCounts, ForeignWrite(count)
      PROVE  DriftInv'
  <2>1. /\ feed = <<>> /\ cached = live /\ count \in Nat /\ count # live
        /\ SetReplicas(count, "other") /\ ~SoleWriter
        /\ UNCHANGED <<state, pc, decision, put, cached, foreign>>
    BY <1>4, WritesFollowDelivery, CountAssumption DEF ForeignWrite, ctlVars, SoleWriter
  <2> QED
    BY <2>1, OthersChangeDrift
<1>5. CASE OtherUpdate
  BY <1>5, SettledDrift
  DEF OtherUpdate, ctlVars, apiVars, SameCounts, Settled, DriftInv
<1>6. CASE Tick
  BY <1>6, SettledDrift, TickCounts DEF Tick, apiVars, Settled, DriftInv
<1>7. CASE Restart
  <2>1. /\ feed' = <<>> /\ cached' = live' /\ pc' = "idle" /\ put' = "none"
        /\ state'.lastWritten = None /\ state'.hasBaseline = FALSE
    BY <1>7 DEF Restart, Finish, FreshState
  <2> QED
    BY <2>1
    DEF DriftInv, DecisionFits, FeedIsLast, OwnIsLast, SeenOrOwn, LeftBehind, Settled
<1>8. CASE UNCHANGED vars
  BY <1>8, SettledDrift DEF vars, ctlVars, apiVars, SameCounts, Settled, DriftInv
<1> QED
  BY <1>1, <1>2, <1>3, <1>4, <1>5, <1>6, <1>7, <1>8 DEF Next

LEMMA InitDrift == Init => DriftInv
  BY DEF Init, FreshState, DriftInv, DecisionFits, FeedIsLast, OwnIsLast, SeenOrOwn,
         LeftBehind, Settled

\* The only step that counts an external change is an Observe of a foreign count.
LEMMA DriftStep ==
  ASSUME TypeOK, DriftInv, [Next]_vars, 0 \in state'.drifts
  PROVE  0 \in state.drifts \/ foreign
<1>1. CASE Reconciling
  <2>1. PICK view \in Views, health \in PodHealths, condition \in Conditions,
             backlog \in BacklogSignals, cpu \in CpuSignals :
             Observe(view, health, condition, backlog, cpu)
    BY <1>1 DEF Reconciling
  <2>2. 0 \in state.drifts \/ IsDrift(state, cached)
    BY <2>1, ObserveCounts
  <2>3. LastOwn = state.lastWritten
    BY <2>1 DEF Observe, DriftInv, LastOwn, Settled
  <2> QED
    BY <2>2, <2>3 DEF IsDrift, DriftInv, SeenOrOwn
<1>2. CASE Actuating
  BY <1>2, FinishFailedCounts, ReplyAppliedCounts
  DEF Actuating, ReadLive, ReadStale, ReadFails, ReplyRefused, ReplyLost
<1>3. CASE Tick
  BY <1>3, TickCounts
<1>4. CASE Restart
  BY <1>4 DEF Restart, Finish, FreshState
<1>5. CASE state' = state
  BY <1>5
<1>6. CASE Serving
  BY <1>5, <1>6 DEF Serving, ServerApplies, ServerConflicts, ServerRefuses,
                    OrphanApplies, Deliver, ctlVars
<1>7. ASSUME NEW count \in ForeignCounts, ForeignWrite(count)
      PROVE  0 \in state.drifts
  BY <1>7 DEF ForeignWrite, ctlVars
<1>8. CASE OtherUpdate
  BY <1>8 DEF OtherUpdate, ctlVars
<1>9. CASE UNCHANGED vars
  BY <1>9 DEF vars, ctlVars
<1> QED
  BY <1>1, <1>2, <1>3, <1>4, <1>6, <1>7, <1>8, <1>9 DEF Next

\* Our own writes coming back through the cache are never counted as external
\* changes, through refusals, restarts and updates applied after their process
\* died, as long as replies arrive and, while others write, the cache hides one
\* change at most (trackExternalDrift with lastWrittenReplicas).
THEOREM DriftIsAlwaysForeign ==
  ASSUME RepliesArrive, CacheKeepsUp
  PROVE  Spec => DriftIsForeign
<1>1. Init => TypeOK /\ UpdatesAreCurrent /\ DriftInv
  BY InitType, InitCurrent, InitDrift
<1>2. TypeOK /\ UpdatesAreCurrent /\ DriftInv /\ [Next]_vars
        => (TypeOK /\ UpdatesAreCurrent /\ DriftInv)'
  BY NextType, NextCurrent, NextDrift
<1>3. TypeOK /\ DriftInv /\ [Next]_vars
        => [0 \in state'.drifts => 0 \in state.drifts \/ foreign]_vars
  BY DriftStep
<1> QED
  BY <1>1, <1>2, <1>3, PTL DEF Spec, DriftIsForeign

----------------------------------------------------------------------------
(* How far a revert goes.  The strengthening relates the floor, the count  *)
(* before our last applied scale-up, to lastGoodReplicas: either the       *)
(* controller remembers at least that count, or the count is already as    *)
(* low as what it remembers.                                               *)

Wrote == state.lastWritten # None \/ ~Settled

OwnOnly ==
  /\ ~Settled => live = decision.target
  /\ Wrote => /\ state.hasBaseline
              /\ feed # <<>> => feed[1].own
              /\ cached \in {state.observed, LastOwn}

AdoptedCount ==
  state.hasBaseline /\ state.lastWritten = None => state.lastGood = state.observed

FloorKept ==
  /\ Settled /\ state.lastWritten # None =>
       floor <= state.lastGood \/ live <= state.lastGood
  /\ ~Settled =>
       IF decision.reason \in UpReasons THEN floor = decision.from
       ELSE floor <= state.lastGood \/ decision.from <= state.lastGood

RevertKept ==
  Acting("RevertPendingPods") /\ state.lastWritten # None =>
    decision.target >= Clamp(state.lastGood)

FloorInv == OwnOnly /\ AdoptedCount /\ FloorKept /\ RevertKept

LEMMA ObserveFloor ==
  ASSUME TypeOK, DriftInv, FloorInv,
         NEW view \in Views, NEW health \in PodHealths,
         NEW condition \in Conditions, NEW backlog \in BacklogSignals,
         NEW cpu \in CpuSignals, Observe(view, health, condition, backlog, cpu)
  PROVE  FloorInv'
<1>1. /\ pc = "idle" /\ put = "none" /\ cached \in Nat
      /\ UNCHANGED <<put, live, feed, cached, floor>>
  BY DEF Observe, DriftInv, TypeOK
<1>2. Settled /\ Settled' /\ LastOwn = state.lastWritten /\ LastOwn' = state'.lastWritten
  BY <1>1 DEF Settled, LastOwn
<1>3. state'.lastWritten = state.lastWritten
  BY ObserveCounts
<1>4. CASE view = "none"
  <2>1. SameCounts(state', state) /\ pc' = "idle"
    BY <1>4, ObserveCounts
  <2> QED
    BY <1>1, <1>2, <2>1
    DEF FloorInv, OwnOnly, Wrote, AdoptedCount, FloorKept, RevertKept, Acting, SameCounts
<1>5. CASE view # "none"
  <2>1. /\ state'.hasBaseline /\ state'.observed = cached
        /\ state'.lastGood = IF ~state.hasBaseline \/ IsDrift(state, cached)
                             THEN cached ELSE state.lastGood
        /\ pc' # "idle" /\ decision'.reason = "RevertPendingPods"
             => decision'.target >= Clamp(state.lastGood)
    BY <1>5, ObserveCounts
  <2>2. CASE state.lastWritten # None
    <3>1. state'.lastGood = state.lastGood
      BY <1>2, <2>1, <2>2 DEF FloorInv, OwnOnly, Wrote, IsDrift
    <3> QED
      BY <1>1, <1>2, <1>3, <2>1, <2>2, <3>1
      DEF FloorInv, OwnOnly, Wrote, AdoptedCount, FloorKept, RevertKept, Acting
  <2>3. CASE state.lastWritten = None
    <3>1. cached # None
      BY <1>1 DEF None
    <3>2. state'.lastGood = cached
      BY <2>1, <2>3, <3>1 DEF FloorInv, AdoptedCount, IsDrift
    <3> QED
      BY <1>2, <1>3, <2>1, <2>3, <3>2
      DEF FloorInv, OwnOnly, Wrote, AdoptedCount, FloorKept, RevertKept
  <2> QED
    BY <2>2, <2>3
<1> QED
  BY <1>4, <1>5

\* The end of an actuation that wrote nothing, and the steps that touch none of it.
LEMMA SettledFloor ==
  ASSUME FloorInv, SameCounts(state', state), Settled' = Settled,
         pc' = "idle" \/ (pc # "idle" /\ pc' # "idle"),
         pc' = "idle" => Settled,
         pc' # "idle" \/ pc = "idle" => decision' = decision,
         UNCHANGED <<live, feed, cached, floor>>
  PROVE  FloorInv'
<1>1. CASE Settled
  BY <1>1 DEF FloorInv, OwnOnly, Wrote, LastOwn, AdoptedCount, FloorKept, RevertKept,
              Acting, SameCounts
<1>2. CASE ~Settled
  BY <1>2 DEF FloorInv, OwnOnly, Wrote, LastOwn, AdoptedCount, FloorKept, RevertKept,
              Acting, SameCounts
<1> QED
  BY <1>1, <1>2

LEMMA ReplyAppliedFloor ==
  ASSUME TypeOK, DriftInv, FloorInv, ReplyApplied
  PROVE  FloorInv'
<1>1. /\ UNCHANGED <<live, feed, cached, floor>> /\ pc # "idle"
      /\ pc' = "idle" /\ put' = "none" /\ ~Settled /\ Settled'
  BY DEF ReplyApplied, Finish, apiVars, Settled
<1>2. /\ state'.lastWritten = decision.target
      /\ state'.hasBaseline = state.hasBaseline
      /\ state'.observed = state.observed
      /\ state'.lastGood = IF decision.reason \in UpReasons THEN decision.from
                           ELSE state.lastGood
  BY ReplyAppliedCounts
<1>3. state'.lastWritten # None
  BY <1>2 DEF TypeOK, Decision, None
<1>4. LastOwn' = LastOwn
  BY <1>1, <1>2 DEF LastOwn
<1>5. floor' <= state'.lastGood \/ live' <= state'.lastGood
  <2>1. /\ live = decision.target /\ floor \in Nat /\ state.lastGood \in Nat
        /\ decision.from \in Nat /\ decision.target \in Nat
    BY <1>1 DEF FloorInv, OwnOnly, TypeOK, ControllerState, Decision
  <2>2. CASE decision.reason \in UpReasons
    BY <1>1, <1>2, <2>1, <2>2 DEF FloorInv, FloorKept
  <2>3. CASE decision.reason \notin UpReasons
    <3>1. decision.target < decision.from
      BY <1>1, <2>3 DEF DriftInv, DecisionFits
    <3>2. floor <= state.lastGood \/ decision.from <= state.lastGood
      BY <1>1, <2>3 DEF FloorInv, FloorKept
    <3> QED
      BY <1>1, <1>2, <2>1, <2>3, <3>1, <3>2
  <2> QED
    BY <2>2, <2>3
<1> QED
  BY <1>1, <1>2, <1>3, <1>4, <1>5
  DEF FloorInv, OwnOnly, Wrote, AdoptedCount, FloorKept, RevertKept, Acting

LEMMA ServerAppliesFloor ==
  ASSUME TypeOK, UpdatesAreCurrent, DriftInv, FloorInv, SoleWriter, ServerApplies
  PROVE  FloorInv'
<1>1. /\ UNCHANGED <<state, pc, decision, cached>>
      /\ put = "sent" /\ put' = "applied" /\ pc # "idle"
      /\ SetReplicas(decision.target, "awaited")
  BY DEF ServerApplies, ctlVars, UpdatesAreCurrent
<1>2. feed = <<>> /\ cached = live /\ live = decision.from
  BY WritesFollowDelivery DEF CacheKeepsUp
<1>3. decision.target \in Nat /\ decision.target # live
  BY <1>1, <1>2 DEF UpdatesAreCurrent, Valid, TypeOK, Decision
<1>4. feed'[1].own
  <2>1. feed'[1] = [replicas |-> decision.target, own |-> "awaited" = "awaited"]
    BY <1>1, <1>2, <1>3, SetReplicasFeed
  <2>2. feed'[1].own = ("awaited" = "awaited")
    BY <2>1
  <2> QED
    BY <2>2
<1>5. /\ live' = decision.target
      /\ floor' = IF decision.target > live THEN live ELSE floor
  BY <1>1 DEF SetReplicas
<1>6. Settled /\ ~Settled' /\ LastOwn' = decision.target
  BY <1>1 DEF Settled, LastOwn
<1>7. /\ state.hasBaseline /\ state.observed = decision.from
      /\ IF decision.reason \in UpReasons THEN decision.from < decision.target
         ELSE decision.target < decision.from
  BY <1>1 DEF DriftInv, DecisionFits
<1>8. OwnOnly'
  BY <1>1, <1>2, <1>4, <1>5, <1>6, <1>7 DEF OwnOnly
<1>9. FloorKept'
  <2>1. /\ live \in Nat /\ decision.from \in Nat /\ decision.target \in Nat
        /\ floor \in Nat /\ state.lastGood \in Nat
    BY DEF TypeOK, Decision, ControllerState
  <2>2. CASE decision.reason \in UpReasons
    BY <1>1, <1>2, <1>5, <1>6, <1>7, <2>1, <2>2 DEF FloorKept
  <2>3. CASE decision.reason \notin UpReasons
    <3>1. floor' = floor
      BY <1>2, <1>5, <1>7, <2>1, <2>3
    <3>2. floor <= state.lastGood \/ decision.from <= state.lastGood
      <4>1. CASE state.lastWritten = None
        BY <1>7, <2>1, <4>1 DEF FloorInv, AdoptedCount
      <4>2. CASE state.lastWritten # None
        BY <1>2, <1>6, <4>2 DEF FloorInv, FloorKept
      <4> QED
        BY <4>1, <4>2
    <3> QED
      BY <1>1, <1>6, <2>3, <3>1, <3>2 DEF FloorKept
  <2> QED
    BY <2>2, <2>3
<1> QED
  BY <1>1, <1>8, <1>9 DEF FloorInv, AdoptedCount, RevertKept, Acting

LEMMA ActuatingFloor ==
  ASSUME TypeOK, UpdatesAreCurrent, DriftInv, FloorInv, RepliesArrive, Actuating
  PROVE  FloorInv'
<1>1. CASE ReadLive
  <2>1. /\ UNCHANGED <<state, decision, live, feed, cached, floor>>
        /\ pc = "read" /\ pc' = "await" /\ Settled /\ Settled'
    BY <1>1 DEF ReadLive, apiVars, DriftInv, Settled
  <2> QED
    BY <2>1, SettledFloor DEF SameCounts
<1>2. ASSUME NEW fatal, FinishFailed(fatal), pc # "idle", Settled,
             UNCHANGED <<live, feed, cached, floor>>
      PROVE  FloorInv'
  <2>1. SameCounts(state', state) /\ pc' = "idle" /\ Settled'
    BY <1>2, FinishFailedCounts DEF Settled
  <2> QED
    BY <1>2, <2>1, SettledFloor
<1>3. CASE ReadStale
  BY <1>2, <1>3 DEF ReadStale, apiVars, DriftInv, Settled
<1>4. ASSUME NEW fatal \in BOOLEAN, ReadFails(fatal)
      PROVE  FloorInv'
  BY <1>2, <1>4 DEF ReadFails, apiVars, DriftInv, Settled
<1>5. CASE ReplyApplied
  BY <1>5, ReplyAppliedFloor
<1>6. CASE ReplyRefused
  BY <1>2, <1>6 DEF ReplyRefused, apiVars, Settled
<1>7. ASSUME NEW retry \in BOOLEAN, ReplyLost(retry)
      PROVE  FloorInv'
  BY <1>7 DEF ReplyLost, RepliesArrive
<1> QED
  BY <1>1, <1>3, <1>4, <1>5, <1>6, <1>7 DEF Actuating

LEMMA ServingFloor ==
  ASSUME TypeOK, UpdatesAreCurrent, DriftInv, FloorInv, SoleWriter, Serving
  PROVE  FloorInv'
<1>1. CASE ServerApplies
  BY <1>1, ServerAppliesFloor
<1>2. CASE ServerConflicts
  BY <1>2, SettledFloor
  DEF ServerConflicts, ctlVars, apiVars, SameCounts, Settled, DriftInv
<1>3. CASE ServerRefuses
  BY <1>3, SettledFloor
  DEF ServerRefuses, ctlVars, apiVars, SameCounts, Settled, DriftInv
<1>4. ASSUME NEW o \in orphans, OrphanApplies(o)
      PROVE  FloorInv'
  <2>1. state.lastWritten = None /\ Settled
    BY DEF DriftInv, LeftBehind
  <2>2. UNCHANGED <<state, pc, decision, put>>
    BY <1>4 DEF OrphanApplies, ctlVars
  <2> QED
    BY <2>1, <2>2
    DEF FloorInv, OwnOnly, Wrote, AdoptedCount, FloorKept, RevertKept, Acting, Settled
<1>5. ASSUME NEW n \in 1..Len(feed), Deliver(n)
      PROVE  FloorInv'
  <2>1. feed # <<>> /\ feed' = <<>> /\ cached' = feed[1].replicas
    BY <1>5, DeliverLast
  <2>2. UNCHANGED <<state, pc, decision, put, live, floor>>
    BY <1>5 DEF Deliver, ctlVars
  <2>3. Settled' = Settled /\ LastOwn' = LastOwn /\ Wrote' = Wrote
    BY <2>2 DEF Settled, LastOwn, Wrote
  <2>4. OwnOnly'
    BY <2>1, <2>2, <2>3 DEF FloorInv, OwnOnly, DriftInv, OwnIsLast
  <2> QED
    BY <2>2, <2>3, <2>4 DEF FloorInv, AdoptedCount, FloorKept, RevertKept, Acting
<1> QED
  BY <1>1, <1>2, <1>3, <1>4, <1>5 DEF Serving

LEMMA NextFloor ==
  ASSUME RepliesArrive, SoleWriter
  PROVE  TypeOK /\ UpdatesAreCurrent /\ DriftInv /\ FloorInv /\ [Next]_vars => FloorInv'
<1> SUFFICES ASSUME TypeOK, UpdatesAreCurrent, DriftInv, FloorInv, [Next]_vars
             PROVE  FloorInv'
  OBVIOUS
<1>1. CASE Reconciling
  BY <1>1, ObserveFloor DEF Reconciling
<1>2. CASE Actuating
  BY <1>2, ActuatingFloor
<1>3. CASE Serving
  BY <1>3, ServingFloor
<1>4. ASSUME NEW count \in ForeignCounts
      PROVE  FALSE
  BY <1>4 DEF SoleWriter
<1>5. CASE OtherUpdate
  BY <1>5, SettledFloor DEF OtherUpdate, ctlVars, apiVars, SameCounts, Settled, DriftInv
<1>6. CASE Tick
  BY <1>6, SettledFloor, TickCounts DEF Tick, apiVars, Settled, DriftInv
<1>7. CASE Restart
  <2>1. /\ pc' = "idle" /\ put' = "none"
        /\ state'.lastWritten = None /\ state'.hasBaseline = FALSE
    BY <1>7 DEF Restart, Finish, FreshState
  <2> QED
    BY <2>1
    DEF FloorInv, OwnOnly, Wrote, AdoptedCount, FloorKept, RevertKept, Acting, Settled
<1>8. CASE UNCHANGED vars
  BY <1>8, SettledFloor DEF vars, ctlVars, apiVars, SameCounts, Settled, DriftInv
<1> QED
  BY <1>1, <1>2, <1>3, <1>4, <1>5, <1>6, <1>7, <1>8 DEF Next

LEMMA InitFloor == Init => FloorInv
  BY DEF Init, FreshState, FloorInv, OwnOnly, Wrote, AdoptedCount, FloorKept, RevertKept,
         Acting, Settled

\* The step in which the server applies a revert.
LEMMA RevertStep ==
  ASSUME TypeOK, UpdatesAreCurrent, DriftInv, FloorInv, [Next]_vars,
         Acting("RevertPendingPods"), state.lastWritten # None,
         put = "sent", put' = "applied"
  PROVE  live' >= Clamp(floor)
<1>1. ServerApplies
  BY DEF Next, Reconciling, Observe, Actuating, ReadLive, ReadStale, ReadFails, ReplyApplied,
         ReplyRefused, ReplyLost, FinishFailed, Finish, Serving, ServerConflicts,
         ServerRefuses, OrphanApplies, Deliver, ForeignWrite, OtherUpdate, Tick, Restart,
         vars
<1>2. /\ live' = decision.target /\ live = decision.from /\ Settled
      /\ decision.target < decision.from
  <2>1. putFresh /\ live' = decision.target
    BY <1>1 DEF ServerApplies, SetReplicas
  <2>2. decision.reason \notin UpReasons /\ pc # "idle"
    BY DEF Acting, UpReasons
  <2> QED
    BY <2>1, <2>2 DEF UpdatesAreCurrent, Settled, DriftInv, DecisionFits
<1>3. decision.target >= Clamp(state.lastGood)
  BY DEF FloorInv, RevertKept
<1>4. floor <= state.lastGood \/ decision.from <= state.lastGood
  BY <1>2 DEF FloorInv, FloorKept
<1>5. /\ floor \in Nat /\ state.lastGood \in Nat
      /\ decision.from \in Nat /\ decision.target \in Nat
  BY DEF TypeOK, Decision, ControllerState
<1>6. /\ Clamp(floor) \in MinReplicas..MaxReplicas
      /\ Clamp(state.lastGood) \in MinReplicas..MaxReplicas
  BY <1>5, ClampInRange
<1>7. CASE floor <= state.lastGood
  <2>1. Clamp(floor) <= Clamp(state.lastGood)
    BY <1>5, <1>7, ClampMonotone
  <2> QED
    BY <1>2, <1>3, <1>5, <1>6, <2>1, ReplicaAssumption
<1>8. CASE decision.from <= state.lastGood
  \* The target is below lastGood and not below its clamp: it is the maximum.
  <2>1. decision.target >= MaxReplicas
    BY <1>2, <1>3, <1>5, <1>8, ReplicaAssumption DEF Clamp, Smaller, Larger
  <2> QED
    BY <1>2, <1>5, <1>6, <2>1, ReplicaAssumption
<1> QED
  BY <1>4, <1>7, <1>8

\* A revert takes back at most what our own last applied scale-up added, though
\* the process that sent it may have died and its update been applied after its
\* death, as long as replies arrive and nobody else writes (RevertTarget with
\* lastGoodReplicas, applyWriteState).
THEOREM RevertRespectsFloor ==
  ASSUME RepliesArrive, SoleWriter
  PROVE  Spec => RevertStopsAtFloor
<1>1. Init => TypeOK /\ UpdatesAreCurrent /\ DriftInv /\ FloorInv
  BY InitType, InitCurrent, InitDrift, InitFloor
<1>2. TypeOK /\ UpdatesAreCurrent /\ DriftInv /\ FloorInv /\ [Next]_vars
        => (TypeOK /\ UpdatesAreCurrent /\ DriftInv /\ FloorInv)'
  BY NextType, NextCurrent, NextDrift, NextFloor DEF CacheKeepsUp
<1>3. TypeOK /\ UpdatesAreCurrent /\ DriftInv /\ FloorInv /\ [Next]_vars
        => [Acting("RevertPendingPods") /\ state.lastWritten # None
              /\ put = "sent" /\ put' = "applied"
              => live' >= Clamp(floor)]_vars
  BY RevertStep
<1> QED
  BY <1>1, <1>2, <1>3, PTL DEF Spec, RevertStopsAtFloor
============================================================================
