--------------------------- MODULE ScalingEngine ---------------------------
(***************************************************************************)
(* The pure decision engine (internal/scaling): Decide maps a snapshot and *)
(* the configuration to one decision.  Guards are evaluated in the fixed   *)
(* documented order and the first match wins.                              *)
(*                                                                         *)
(* Time.  One unit is one controller.interval.  Every instant the code     *)
(* subtracts from `now` is kept as an AGE, and ages saturate at Horizon,   *)
(* which exceeds every threshold they are compared with; Go's zero time is *)
(* the age Horizon.  BackoffState.NextEligible, the one instant in the     *)
(* future, is kept as the time left, `wait`.                               *)
(*                                                                         *)
(* BackoffState.Attempts is represented by the interval those attempts     *)
(* produce (0 when not armed): armBackoff's loop computes                  *)
(* min(max, initial * factor^(attempts-1)), so arming again multiplies     *)
(* that interval by the factor and caps it, and nothing else reads         *)
(* Attempts but Armed().  It is rounded up to whole reconciles: a wait     *)
(* that ends between two of them is over at the second.                    *)
(***************************************************************************)
EXTENDS Integers, FiniteSets

CONSTANTS
  MinReplicas, MaxReplicas,      \* target.minReplicas, target.maxReplicas
  ItemsPerReplica,               \* workload.itemsPerReplica
  TargetCpu,                     \* workload.targetCPUUtilizationPercent
  TolerancePercent,              \* scaling.tolerancePercent
  MaxScaleUpStep, MaxScaleDownStep,
  AllowPartialScaleUp,
  ScaleUpCooldown, ScaleDownCooldown,
  Window,                        \* scaling.scaleDownStabilizationWindow
  CoverageMilli,                 \* scaling.scaleDownWindowCoverage, in thousandths
  DriftTolerance,                \* scaling.externalChangeTolerance
  BackoffInitial, BackoffMax,
  BackoffFactorNum,              \* scaling.holdBackoff.factor is BackoffFactorNum /
  BackoffFactorDen,              \* BackoffFactorDen, and 1 if it makes nothing longer
  PendingPodTimeout, PodStartupTimeout,
  OnPendingTimeout,              \* "revert", "freeze" or "none"
  MetricsStaleAfter,
  IntLimit,                      \* 2^31: int32 holds -IntLimit .. IntLimit-1
  Horizon                        \* where ages saturate

\* What internal/config's validation guarantees of the configuration
\* (validate.go), and what the representation of time needs of Horizon.
ASSUME ReplicaAssumption ==
  /\ MinReplicas \in Nat \ {0} /\ MaxReplicas \in Nat
  /\ MinReplicas <= MaxReplicas
  /\ MaxScaleUpStep \in Nat \ {0} /\ MaxScaleDownStep \in Nat \ {0}
ASSUME DemandAssumption ==
  /\ ItemsPerReplica \in Nat \ {0} /\ TargetCpu \in Nat \ {0}
  /\ TolerancePercent \in 0..100
  /\ IntLimit \in Nat \ {0} /\ MaxReplicas < IntLimit
ASSUME TimeAssumption ==
  /\ ScaleUpCooldown \in Nat /\ ScaleDownCooldown \in Nat
  /\ Window \in Nat \ {0} /\ CoverageMilli \in 0..1000
  /\ PendingPodTimeout \in Nat \ {0} /\ PodStartupTimeout \in Nat \ {0}
  /\ MetricsStaleAfter \in Nat \ {0}
  /\ Horizon \in Nat /\ Horizon > 2 * Window
  /\ Horizon > ScaleUpCooldown /\ Horizon > ScaleDownCooldown
  /\ Horizon > PendingPodTimeout
ASSUME PolicyAssumption ==
  /\ BackoffInitial \in Nat \ {0} /\ BackoffMax \in Nat
  /\ BackoffInitial <= BackoffMax
  /\ BackoffFactorDen \in Nat \ {0} /\ BackoffFactorNum \in Nat
  /\ BackoffFactorDen <= BackoffFactorNum
  /\ DriftTolerance \in Nat
  /\ AllowPartialScaleUp \in BOOLEAN
  /\ OnPendingTimeout \in {"revert", "freeze", "none"}

----------------------------------------------------------------------------
(* Types.                                                                  *)

Age == 0..Horizon

WriteReasons == {"ScaleUp", "ScaleUpPartial", "ScaleDown", "RevertPendingPods"}

HoldReasons ==
  {"ErrorAPIFailure", "HoldScalingConflict", "HoldExternalChange",
   "HoldRolloutInProgress", "HoldStaleMetrics", "HoldAtMaxReplicas",
   "HoldAtMinReplicas", "NoChangeWithinTolerance", "HoldPendingPods",
   "HoldUnhealthyPods", "HoldBackoff", "HoldCooldown",
   "HoldInsufficientResources", "HoldReplicasSettling",
   "HoldStabilizationWindow"}

BackoffState ==
  [interval : 0..BackoffMax, wait : 0..BackoffMax,
   fitAtArm : Nat \cup {-1}, awaiting : BOOLEAN]

Sample == [age : Age, desired : Int]

Signal == [available : BOOLEAN, age : Nat, value : Int]

Snapshot ==
  [valid : BOOLEAN, current : Nat, ready : Nat,
   backlog : Signal, cpu : Signal, fit : Nat,
   rollout : BOOLEAN, hpa : BOOLEAN, drifts : Nat,
   sinceUp : Age, sinceDown : Age, history : SUBSET Sample,
   backoff : BackoffState, lastGood : Nat,
   pending : Nat, pendingAge : Nat, unhealthyAge : Nat,
   unmat : Nat, unmatAge : Nat]

Decision ==
  [reason : WriteReasons \cup HoldReasons, from : Nat, target : Nat,
   backoff : BackoffState, demandComputed : BOOLEAN, desired : Int,
   timedOut : BOOLEAN]

----------------------------------------------------------------------------
(* Arithmetic helpers.                                                     *)

Smaller(a, b) == IF a < b THEN a ELSE b
Larger(a, b) == IF a > b THEN a ELSE b

CeilDiv(a, b) == IF a <= 0 THEN 0 ELSE (a + b - 1) \div b

\* The conversion int32(x) of an int64 keeps the low 32 bits.
ToInt32(x) == ((x + IntLimit) % (2 * IntLimit)) - IntLimit

Clamp(v) == Smaller(Larger(v, MinReplicas), MaxReplicas)

WithinTolerance(desired, current) ==
  /\ current > 0
  /\ Larger(desired - current, current - desired) * 100 < TolerancePercent * current

----------------------------------------------------------------------------
(* Snapshot methods.                                                       *)

Fresh(signal) == signal.available /\ signal.age <= MetricsStaleAfter

ClearBackoff == [interval |-> 0, wait |-> 0, fitAtArm |-> -1, awaiting |-> FALSE]

Armed(b) == b.interval > 0

\* armBackoff goes on with the interval when the factor makes it no longer: NaN
\* does not, nor one too close to 1, nor on amd64 an infinite one.
Grown(interval) == CeilDiv(interval * BackoffFactorNum, BackoffFactorDen)

\* Mutant: the cap of holdBackoff.max is forgotten.
UncappedArmBackoff(b, fit) ==
  LET interval == IF Armed(b) THEN Grown(b.interval) ELSE BackoffInitial
  IN  [interval |-> interval, wait |-> interval, fitAtArm |-> fit, awaiting |-> FALSE]

ArmBackoff(b, fit) ==
  LET interval == IF Armed(b) THEN Smaller(Grown(b.interval), BackoffMax)
                              ELSE BackoffInitial
  IN  [interval |-> interval, wait |-> interval, fitAtArm |-> fit, awaiting |-> FALSE]

\* A complete scale-up of an armed backoff keeps its attempts, and holds nothing.
CarryBackoff(b) ==
  [interval |-> b.interval, wait |-> 0, fitAtArm |-> -1, awaiting |-> TRUE]

InWindow(history) == {x \in history : x.age <= Window}

\* scaleDownPath's use of MaxDesiredInWindow: some sample, and all below current.
QuietInWindow(s) ==
  /\ InWindow(s.history) # {}
  /\ \A x \in InWindow(s.history) : x.desired < s.current

\* Mutant: any sample covers the window.
WindowSampled(history) == InWindow(history) # {}

\* One sample per interval is expected, so Window of them.
WindowCovered(history) ==
  /\ Cardinality(InWindow(history)) * 1000 >= CoverageMilli * Window
  /\ \E x \in history : x.age >= Window

----------------------------------------------------------------------------
(* Demand.                                                                 *)

DesiredBacklog(s) == ToInt32(CeilDiv(s.backlog.value, ItemsPerReplica))

DesiredUtilization(s) ==
  IF Fresh(s.cpu) /\ s.ready > 0
  THEN ToInt32(CeilDiv(s.ready * s.cpu.value, TargetCpu * 1000))
  ELSE 0

\* Mutant: the two signals are combined the wrong way round.
LowestDesired(s) == Smaller(DesiredBacklog(s), DesiredUtilization(s))

DesiredRaw(s) == Larger(DesiredBacklog(s), DesiredUtilization(s))

----------------------------------------------------------------------------
(* The watchdog: replicas stuck past the timeout, and what to take back.   *)

PendingTimedOut(s) ==
  \/ s.pending > 0 /\ s.pendingAge > PendingPodTimeout
  \/ s.unmat > 0 /\ s.unmatAge > PendingPodTimeout

\* Mutant: a revert takes back every stuck replica, ours or not.
FloorlessRevertTarget(s) == Clamp(s.current - (s.pending + s.unmat))

\* Mutant: a revert is not clamped.
UnclampedRevertTarget(s) == Larger(s.lastGood, s.current - (s.pending + s.unmat))

RevertTarget(s) == Clamp(Larger(s.lastGood, s.current - (s.pending + s.unmat)))

Reverts(s) ==
  /\ PendingTimedOut(s)
  /\ OnPendingTimeout = "revert"
  /\ RevertTarget(s) < s.current

Stuck(s) == s.pending > 0 \/ s.unmat > 0

----------------------------------------------------------------------------
(* The backoff as the guards below G2 see it.                              *)

BackoffAfterPlacement(s) ==
  IF s.backoff.awaiting /\ ~Stuck(s) THEN ClearBackoff ELSE s.backoff

BackoffAfterDemand(s) ==
  IF Armed(s.backoff) /\ DesiredRaw(s) <= s.current
  THEN ClearBackoff ELSE BackoffAfterPlacement(s)

\* Mutant: the backoff holds when there is more room than when it was armed.
InvertedBackoffActive(s) == s.backoff.wait > 0 /\ s.fit > s.backoff.fitAtArm

BackoffActive(s) == s.backoff.wait > 0 /\ s.fit <= s.backoff.fitAtArm

----------------------------------------------------------------------------
(* Decisions.                                                              *)

\* A guard that returns before demand is known.
HoldBlind(s, reason, backoff) ==
  [reason |-> reason, from |-> s.current, target |-> s.current,
   backoff |-> backoff, demandComputed |-> FALSE, desired |-> 0,
   timedOut |-> s.valid /\ ~s.hpa /\ s.drifts <= DriftTolerance /\ ~s.rollout
                /\ PendingTimedOut(s)]

\* A decision that has computed demand.
Decided(s, reason, target, backoff) ==
  [reason |-> reason, from |-> s.current, target |-> target,
   backoff |-> backoff, demandComputed |-> TRUE, desired |-> DesiredRaw(s),
   timedOut |-> PendingTimedOut(s)]

Hold(s, reason) == Decided(s, reason, s.current, BackoffAfterDemand(s))

StepUp(s) == Smaller(Clamp(DesiredRaw(s)), s.current + MaxScaleUpStep)

StepDown(s) == Clamp(Larger(Clamp(DesiredRaw(s)), s.current - MaxScaleDownStep))

\* Mutant: all or nothing, partial scale-ups are left out.
ScaleAllOrNothing(s) ==
  LET b == BackoffAfterDemand(s)
  IN  IF s.fit >= StepUp(s) - s.current
      THEN Decided(s, "ScaleUp", StepUp(s),
                   IF Armed(b) THEN CarryBackoff(b) ELSE ClearBackoff)
      ELSE Decided(s, "HoldInsufficientResources", s.current, ArmBackoff(b, s.fit))

\* G8, the feasibility gate.
ScaleByFit(s) ==
  LET b     == BackoffAfterDemand(s)
      delta == StepUp(s) - s.current
  IN  IF s.fit >= delta
      THEN Decided(s, "ScaleUp", StepUp(s),
                   IF Armed(b) THEN CarryBackoff(b) ELSE ClearBackoff)
      ELSE IF s.fit > 0 /\ AllowPartialScaleUp
      THEN Decided(s, "ScaleUpPartial", s.current + s.fit, ArmBackoff(b, s.fit))
      ELSE Decided(s, "HoldInsufficientResources", s.current, ArmBackoff(b, s.fit))

\* G5 .. G8.
ScaleUpPath(s) ==
  IF Stuck(s) THEN Hold(s, "HoldPendingPods")
  ELSE IF s.unhealthyAge > PodStartupTimeout THEN Hold(s, "HoldUnhealthyPods")
  ELSE IF BackoffActive(s) THEN Hold(s, "HoldBackoff")
  ELSE IF s.sinceUp < ScaleUpCooldown THEN Hold(s, "HoldCooldown")
  ELSE ScaleByFit(s)

\* G9 .. G12.
ScaleDownPath(s) ==
  IF s.ready # s.current THEN Hold(s, "HoldReplicasSettling")
  ELSE IF s.sinceDown < ScaleDownCooldown THEN Hold(s, "HoldCooldown")
  ELSE IF ~WindowCovered(s.history) \/ ~QuietInWindow(s)
       THEN Hold(s, "HoldStabilizationWindow")
  ELSE Decided(s, "ScaleDown", StepDown(s), BackoffAfterDemand(s))

\* G2 .. G4 and the split by direction.
DecideOnDemand(s) ==
  LET raw == DesiredRaw(s) IN
  IF ~Fresh(s.backlog)
       THEN HoldBlind(s, "HoldStaleMetrics", BackoffAfterPlacement(s))
  ELSE IF raw > MaxReplicas /\ s.current = MaxReplicas
       THEN Hold(s, "HoldAtMaxReplicas")
  ELSE IF raw < MinReplicas /\ s.current = MinReplicas
       THEN Hold(s, "HoldAtMinReplicas")
  ELSE IF WithinTolerance(Clamp(raw), s.current)
       THEN Hold(s, "NoChangeWithinTolerance")
  ELSE IF Clamp(raw) > s.current THEN ScaleUpPath(s)
  ELSE ScaleDownPath(s)

\* The watchdog's revert: needs no demand data, and arms the backoff.
RevertPending(s) ==
  [reason |-> "RevertPendingPods", from |-> s.current, target |-> RevertTarget(s),
   backoff |-> ArmBackoff(s.backoff, s.fit), demandComputed |-> FALSE,
   desired |-> 0, timedOut |-> TRUE]

\* G0, G1 and G1', in order, then the watchdog, then demand.
Decide(s) ==
  IF ~s.valid THEN HoldBlind(s, "ErrorAPIFailure", s.backoff)
  ELSE IF s.hpa THEN HoldBlind(s, "HoldScalingConflict", s.backoff)
  ELSE IF s.drifts > DriftTolerance THEN HoldBlind(s, "HoldExternalChange", s.backoff)
  ELSE IF s.rollout THEN HoldBlind(s, "HoldRolloutInProgress", s.backoff)
  ELSE IF Reverts(s) THEN RevertPending(s)
  ELSE DecideOnDemand(s)

\* Reason.Action(): the decision changes the replica count.
IsWrite(d) == d.reason \in WriteReasons
============================================================================
