---------------------------- MODULE Configuration ----------------------------
(***************************************************************************)
(* How a configuration comes about and which ones are accepted             *)
(* (internal/config): the defaults, the YAML file over them, the KSS_*     *)
(* environment over both, then Validate.  It is where the constants of the *)
(* other modules come from, and what their assumptions rest on.            *)
(*                                                                         *)
(* Durations are in milliseconds, a float64 setting is a number of         *)
(* millionths, an infinity or NaN, and a string that is only ever checked  *)
(* for its form is NotSet (the empty string), "good" or "bad".             *)
(***************************************************************************)
EXTENDS Integers

Second   == 1000                    \* in milliseconds
Milli    == 1000                    \* the float64 0.001
One      == 1000 * Milli            \* the float64 1.0
Float    == [kind : {"number", "inf", "-inf", "nan"}, value : Int]
Number(n) == [kind |-> "number", value |-> n]
MaxInt32 == 32767 * 65536 + 65535
Int32    == -MaxInt32 - 1..MaxInt32
NotSet   == "unset"
Text     == {NotSet, "good", "bad"}
MinInterval == 5 * Second

(* A comparison with NaN is false. *)
FloatAtMost(x, y) == x.kind = "-inf" \/ (x.kind = "number" /\ x.value <= y)
FloatAbove(x, y)  == x.kind = "inf" \/ (x.kind = "number" /\ x.value > y)

-----------------------------------------------------------------------------
(* The schema.  A value of another type, or out of its type's range, is    *)
(* refused by the YAML decoder and by assign.                              *)

Config ==
  [interval : Int, leaderElection : BOOLEAN, dryRun : BOOLEAN,
   metricsAddr : Text, healthAddr : Text,
   sameAddr : BOOLEAN,              \* both addresses are the same, if not empty
   logLevel : STRING, logFormat : STRING,
   namespace : Text, deployment : Text, minReplicas : Int32, maxReplicas : Int32,
   itemsPerReplica : Int, targetCPU : Int, metricsStaleAfter : Int,
   podWarmupPeriod : Int, smoothing : STRING, alpha : Float,
   source : STRING, endpoint : Text, signalTimeout : Int, syntheticPath : Text,
   reserveCPU : Int, reserveMemory : Int, fitMargin : Int, nodeLabelSelector : Text,
   respectNodeSelector : BOOLEAN, respectNodeAffinity : BOOLEAN, respectTaints : BOOLEAN,
   scaleUpCooldown : Int, scaleDownCooldown : Int, window : Int,
   coverage : Float, tolerancePercent : Int, maxScaleUpStep : Int32,
   maxScaleDownStep : Int32, allowPartialScaleUp : BOOLEAN, externalChangeTolerance : Int,
   backoffInitial : Int, backoffMax : Int, backoffFactor : Float,
   pendingPodTimeout : Int, onPendingTimeout : STRING, podStartupTimeout : Int]

(* Default; the target has none. *)
Default ==
  [interval |-> 15 * Second, leaderElection |-> TRUE, dryRun |-> TRUE,
   metricsAddr |-> "good", healthAddr |-> "good",
   sameAddr |-> FALSE,
   logLevel |-> "info", logFormat |-> "json",
   namespace |-> NotSet, deployment |-> NotSet, minReplicas |-> 1, maxReplicas |-> 12,
   itemsPerReplica |-> 50, targetCPU |-> 70, metricsStaleAfter |-> 60 * Second,
   podWarmupPeriod |-> 60 * Second, smoothing |-> "ewma", alpha |-> Number(400 * Milli),
   source |-> "synthetic", endpoint |-> NotSet, signalTimeout |-> 3 * Second,
   syntheticPath |-> "good",
   reserveCPU |-> 200, reserveMemory |-> 256, fitMargin |-> 1, nodeLabelSelector |-> NotSet,
   respectNodeSelector |-> TRUE, respectNodeAffinity |-> TRUE, respectTaints |-> TRUE,
   scaleUpCooldown |-> 60 * Second, scaleDownCooldown |-> 300 * Second, window |-> 300 * Second,
   coverage |-> Number(800 * Milli), tolerancePercent |-> 10, maxScaleUpStep |-> 4,
   maxScaleDownStep |-> 1, allowPartialScaleUp |-> TRUE, externalChangeTolerance |-> 3,
   backoffInitial |-> 30 * Second, backoffMax |-> 900 * Second, backoffFactor |-> Number(2 * One),
   pendingPodTimeout |-> 120 * Second, onPendingTimeout |-> "revert", podStartupTimeout |-> 300 * Second]

-----------------------------------------------------------------------------
(* Validate, section by section.                                           *)

ValidController(c) ==
  /\ c.interval >= MinInterval
  /\ c.metricsAddr # "bad" /\ c.healthAddr # "bad"
  /\ ~(c.metricsAddr # NotSet /\ c.sameAddr)
  /\ c.logLevel \in {"debug", "info", "warn", "error"}
  /\ c.logFormat \in {"json", "text"}

ValidTarget(c) ==
  /\ c.namespace # NotSet /\ c.deployment # NotSet
  /\ c.minReplicas >= 1 /\ c.maxReplicas >= 1 /\ c.minReplicas <= c.maxReplicas

ValidSignal(c) ==
  /\ c.source \in {"synthetic", "http", "none"}
  /\ c.signalTimeout > 0
  /\ c.source = "http" => c.endpoint = "good"
  /\ c.source = "synthetic" => c.syntheticPath # NotSet
  /\ c.source # "http" => c.endpoint = NotSet

ValidWorkload(c) ==
  /\ c.itemsPerReplica > 0 /\ c.targetCPU \in 1..100
  /\ c.metricsStaleAfter > 0 /\ c.podWarmupPeriod >= 0
  /\ c.smoothing \in {"none", "ewma"}
  /\ c.smoothing = "ewma" => ~FloatAtMost(c.alpha, 0) /\ ~FloatAbove(c.alpha, One)
  /\ ValidSignal(c)

ValidResources(c) ==
  /\ c.reserveCPU >= 0 /\ c.reserveMemory >= 0 /\ c.fitMargin >= 0
  /\ c.nodeLabelSelector # "bad"

ValidScaling(c) ==
  /\ c.scaleUpCooldown >= 0 /\ c.scaleDownCooldown >= 0 /\ c.window > 0
  /\ ~FloatAtMost(c.coverage, 0) /\ ~FloatAbove(c.coverage, One)
  /\ c.tolerancePercent \in 0..100
  /\ c.maxScaleUpStep >= 1 /\ c.maxScaleDownStep >= 1
  /\ c.externalChangeTolerance >= 0
  /\ c.backoffInitial > 0 /\ c.backoffMax >= c.backoffInitial
  /\ ~FloatAtMost(c.backoffFactor, One)

ValidPending(c) ==
  /\ c.pendingPodTimeout > 0 /\ c.podStartupTimeout > 0
  /\ c.onPendingTimeout \in {"revert", "freeze", "none"}

(* validateCrossField; podStartupTimeout and the backoff may be shorter    *)
(* than an interval.                                                       *)
ValidRatios(c) ==
  /\ c.metricsStaleAfter >= c.interval
  /\ c.window >= c.interval
  /\ c.pendingPodTimeout >= c.interval

Valid(c) ==
  /\ ValidController(c) /\ ValidTarget(c) /\ ValidWorkload(c) /\ ValidResources(c)
  /\ ValidScaling(c) /\ ValidPending(c) /\ ValidRatios(c)

-----------------------------------------------------------------------------
(* Load.                                                                   *)

(* Every key that is set replaces the value beneath it. *)
Over(base, layer) == [k \in DOMAIN base |-> IF k \in DOMAIN layer THEN layer[k] ELSE base[k]]

(* The file is a function from the keys it sets, empty for an empty file   *)
(* or none; env, from the keys whose KSS_* variable is set and not empty.  *)
Resolved(file, env) == Over(Over(Default, file), env)

(* Load returns Resolved(file, env), or an error.  A key that is not of    *)
(* the schema is refused, in the file as in the environment; `readable` is *)
(* what opening the synthetic series says.                                 *)
Accepts(file, env, readable) ==
  LET c == Resolved(file, env)
  IN  /\ DOMAIN file \subseteq DOMAIN Default
      /\ DOMAIN env \subseteq DOMAIN Default
      /\ c \in Config /\ Valid(c)
      /\ c.source = "synthetic" => readable
=============================================================================
