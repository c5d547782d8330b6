------------------------------- MODULE Demand -------------------------------
(***************************************************************************)
(* What the controller makes of the demand signals before the engine sees  *)
(* them: the integer moving average over the scraped sum (smoothing.go,    *)
(* controller.go collectPressure) and the average utilization of the pods  *)
(* that are ready and warm (utilization.go, collectUtilization).           *)
(***************************************************************************)
EXTENDS Integers, FiniteSets, Functions

CONSTANTS
  MaxItems,      \* bound: the largest sum a scrape reports
  AlphaUnit,     \* a configured alpha is Alpha / AlphaUnit
  Alpha,         \* workload.backlogSmoothing.alpha
  MilliScale,    \* fixed point of the average: 1000 in the code
  Pods,
  Request,       \* CPU request of a pod
  MaxUsage       \* bound: the largest usage of a pod

ASSUME AlphaAssumption ==
  /\ AlphaUnit \in Nat \ {0} /\ Alpha \in 1..AlphaUnit
  /\ MilliScale \in Nat \ {0} /\ MaxItems \in Nat
ASSUME RequestAssumption ==
  Request \in Nat \ {0} /\ MaxUsage \in Nat /\ IsFiniteSet(Pods)

VARIABLES
  items,      \* the sum a scrape would report now
  average,    \* Smoother: primed, stateMilli
  smoothed,   \* the sample's PressureItems, or NoAnswer
  extremes,   \* history: least and most sum averaged since the last reset
  utilization,\* AvgCPUMilliPercent, or NoAnswer
  spread      \* history: least and most usage of a warm pod that reported

vars == <<items, average, smoothed, extremes, utilization, spread>>

NoAnswer == -1
Unprimed == [primed |-> FALSE, milli |-> 0]

Smaller(a, b) == IF a < b THEN a ELSE b
Larger(a, b)  == IF a > b THEN a ELSE b

-----------------------------------------------------------------------------
(* The moving average. *)

(* NewSmoother truncates alpha to thousandths. *)
AlphaMilli == (Alpha * MilliScale) \div AlphaUnit

Blend(milli, raw) ==
  (AlphaMilli * (raw * MilliScale) + (MilliScale - AlphaMilli) * milli) \div MilliScale

(* A plausible mistake: the first reading is blended with zero. *)
AppliedFromZero(avg, raw) == Blend(avg.milli, raw)

(* Smoother.Apply: the first reading primes the average. *)
Applied(avg, raw) == IF avg.primed THEN Blend(avg.milli, raw) ELSE raw * MilliScale

(* A plausible mistake: the average is cut down to whole items. *)
RoundedDown(milli) == milli \div MilliScale

(* The nearest item count, halves up. *)
Rounded(milli) == (milli + MilliScale \div 2) \div MilliScale

-----------------------------------------------------------------------------
(* The utilization.  `usage` holds what metrics.k8s.io lists: a pod may be *)
(* missing from it, and pods that are starting or warming up are in it.    *)

Total(f) == FoldFunction(LAMBDA a, b : a + b, 0, f)

(* A plausible mistake: the sum is divided by the pods that should report. *)
AverageOverEligible(warm, usage) ==
  IF warm \cap DOMAIN usage = {} THEN NoAnswer
  ELSE (Total([p \in warm \cap DOMAIN usage |-> usage[p]]) * 100000)
       \div (Cardinality(warm) * Request)

(* In thousandths of a percent of the request, over the warm pods listed.  *)
AverageOf(warm, usage) ==
  IF warm \cap DOMAIN usage = {} THEN NoAnswer
  ELSE (Total([p \in warm \cap DOMAIN usage |-> usage[p]]) * 100000)
       \div (Cardinality(warm \cap DOMAIN usage) * Request)

Least(S) == CHOOSE x \in S : \A y \in S : x <= y
Most(S)  == CHOOSE x \in S : \A y \in S : x >= y

-----------------------------------------------------------------------------
(* The demand half of one observe. *)

(* collectUtilization, with the pods `warm` (Running, Ready for at least   *)
(* podWarmupPeriod, not being deleted) and what is listed for which pods.  *)
CollectUtilization(warm, usage) ==
  /\ utilization' = AverageOf(warm, usage)
  /\ LET counted == {usage[p] : p \in warm \cap DOMAIN usage}
     IN  spread' = IF counted = {} THEN [least |-> 0, most |-> 0]
                   ELSE [least |-> Least(counted), most |-> Most(counted)]

(* An available sample is averaged, whether or not it will turn out stale. *)
Collect ==
  /\ average' = [primed |-> TRUE, milli |-> Applied(average, items)]
  /\ smoothed' = Rounded(average'.milli)
  /\ extremes' = IF average.primed
                 THEN [least |-> Smaller(extremes.least, items), most |-> Larger(extremes.most, items)]
                 ELSE [least |-> items, most |-> items]
  /\ UNCHANGED <<items, utilization, spread>>

(* A failed scrape leaves the average as it was. *)
CollectNothing ==
  /\ smoothed' = NoAnswer
  /\ UNCHANGED <<items, average, extremes, utilization, spread>>

(* trackExternalDrift adopts a count somebody else set, before the scrape. *)
Reset ==
  /\ average.primed
  /\ average' = Unprimed /\ smoothed' = NoAnswer
  /\ UNCHANGED <<items, extremes, utilization, spread>>

Init ==
  /\ items = 0 /\ average = Unprimed /\ smoothed = NoAnswer
  /\ extremes = [least |-> 0, most |-> 0]
  /\ utilization = NoAnswer /\ spread = [least |-> 0, most |-> 0]

(* The workers' pending work changes between two scrapes. *)
WorkChanges ==
  /\ items' \in 0..MaxItems
  /\ UNCHANGED <<average, smoothed, extremes, utilization, spread>>

Next ==
  \/ Collect \/ CollectNothing \/ Reset \/ WorkChanges
  \/ \E warm \in SUBSET Pods, listed \in SUBSET Pods :
       /\ \E usage \in [listed -> 0..MaxUsage] : CollectUtilization(warm, usage)
       /\ UNCHANGED <<items, average, smoothed, extremes>>

Spec == Init /\ [][Next]_vars

(* The ticker makes the controller observe again. *)
FairSpec == Spec /\ WF_vars(Collect)

-----------------------------------------------------------------------------
(* Properties. *)

TypeOK ==
  /\ items \in 0..MaxItems
  /\ average \in [primed : BOOLEAN, milli : Nat]
  /\ smoothed \in Int
  /\ extremes \in [least : 0..MaxItems, most : 0..MaxItems]

(* The value the engine sees is never outside what was measured since the  *)
(* last reset: neither the first reading, nor a reset, nor the integer     *)
(* arithmetic makes up demand or loses it (smoothing.go:45-79).            *)
AverageIsMeasured ==
  smoothed # NoAnswer => smoothed \in extremes.least..extremes.most

(* Pods that start, warm up or are not listed do not dilute the average:   *)
(* it lies between the least and the most used pod that counts             *)
(* (utilization.go:62-147).                                                *)
UtilizationIsOfWarmPods ==
  utilization # NoAnswer =>
    utilization \in ((spread.least * 100000) \div Request)..((spread.most * 100000) \div Request)

(* The sum does not change and is scraped again and again. *)
Calm == items' = items /\ (smoothed # NoAnswer => smoothed' # NoAnswer)

(* Once the sum stays the same the average arrives at it, and does not     *)
(* stop one item short of it (smoothing.go:66-70).                         *)
AverageArrives == <>[][Calm]_vars => <>[](smoothed = items)
=============================================================================
