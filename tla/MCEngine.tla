------------------------------ MODULE MCEngine ------------------------------
(* Deciding on a bounded set of snapshots, under a policy that is accepted.  *)
EXTENDS Deciding

CONSTANT Counts  \* spec.replicas

Cfg == INSTANCE Configuration

\* The policy of a run, as a configuration file whose interval is 15 s.
PolicyFile ==
  LET times(n) == n * 15 * Cfg!Second IN
  [namespace |-> "good", deployment |-> "good",
   minReplicas |-> MinReplicas, maxReplicas |-> MaxReplicas,
   itemsPerReplica |-> ItemsPerReplica, targetCPU |-> TargetCpu,
   tolerancePercent |-> TolerancePercent,
   maxScaleUpStep |-> MaxScaleUpStep, maxScaleDownStep |-> MaxScaleDownStep,
   allowPartialScaleUp |-> AllowPartialScaleUp,
   scaleUpCooldown |-> times(ScaleUpCooldown), scaleDownCooldown |-> times(ScaleDownCooldown),
   window |-> times(Window), coverage |-> Cfg!Number(CoverageMilli * Cfg!Milli),
   externalChangeTolerance |-> DriftTolerance,
   backoffInitial |-> times(BackoffInitial), backoffMax |-> times(BackoffMax),
   backoffFactor |-> Cfg!Number((BackoffFactorNum * Cfg!One) \div BackoffFactorDen),
   pendingPodTimeout |-> times(PendingPodTimeout),
   podStartupTimeout |-> times(PodStartupTimeout), onPendingTimeout |-> OnPendingTimeout,
   metricsStaleAfter |-> times(MetricsStaleAfter)]

\* The policy is one an operator can set.
ASSUME PolicyIsAccepted == Cfg!Accepts(PolicyFile, <<>>, TRUE)

\* The defaults complete a file that names the target, and only such a file (CR-1);
\* the environment is above the file and held to the same rules.
ASSUME LoadAssumption ==
  LET named == [namespace |-> "good", deployment |-> "good"] IN
  /\ Cfg!Accepts(named, <<>>, TRUE)
  /\ ~Cfg!Accepts(<<>>, <<>>, TRUE)
  /\ ~Cfg!Accepts(named, <<>>, FALSE)
  /\ Cfg!Accepts(named, [source |-> "none"], FALSE)
  /\ ~Cfg!Accepts(named, [minReplicas |-> 13], TRUE)
  /\ ~Cfg!Accepts(named, [password |-> "good"], TRUE)
  /\ Cfg!Accepts(named, [respectTaints |-> FALSE], TRUE)
  /\ \A kind \in {"inf", "-inf", "nan"} :
       LET float == [kind |-> kind, value |-> 0] IN
       /\ Cfg!Accepts(named, [backoffFactor |-> float], TRUE) <=> kind # "-inf"
       /\ Cfg!Accepts(named, [coverage |-> float], TRUE) <=> kind = "nan"

Reading(n) == [available |-> TRUE, age |-> 0, value |-> n]
Missing == [available |-> FALSE, age |-> 0, value |-> 0]
Stale == [available |-> TRUE, age |-> MetricsStaleAfter + 1, value |-> 0]

SomeBacklogs == {Reading(n) : n \in BacklogValues} \cup {Missing, Stale}
\* Thousandths of a percent of the requested CPU.
SomeCpus == {Missing, Reading(1000 * TargetCpu), Reading(1500 * TargetCpu)}

\* Snapshots that pass G0 .. G1', and one that each of these guards stops.
EveryGate ==
  {[valid |-> TRUE, hpa |-> FALSE, drifts |-> DriftTolerance, rollout |-> FALSE],
   [valid |-> FALSE, hpa |-> FALSE, drifts |-> 0, rollout |-> FALSE],
   [valid |-> TRUE, hpa |-> TRUE, drifts |-> 0, rollout |-> FALSE],
   [valid |-> TRUE, hpa |-> FALSE, drifts |-> DriftTolerance + 1, rollout |-> FALSE],
   [valid |-> TRUE, hpa |-> FALSE, drifts |-> 0, rollout |-> TRUE]}

\* Pods pending or never created, for longer than the timeout or not.
Stuckness ==
  {[pending |-> 0, pendingAge |-> 0, unmat |-> 0, unmatAge |-> 0],
   [pending |-> 1, pendingAge |-> PendingPodTimeout + 1, unmat |-> 0, unmatAge |-> 0],
   [pending |-> 0, pendingAge |-> 0, unmat |-> 1, unmatAge |-> PendingPodTimeout],
   [pending |-> 1, pendingAge |-> 1, unmat |-> 1, unmatAge |-> PendingPodTimeout + 1]}

EveryPods ==
  {[current |-> current, ready |-> current - unready,
    pending |-> stuck.pending, pendingAge |-> stuck.pendingAge,
    unmat |-> stuck.unmat, unmatAge |-> stuck.unmatAge, unhealthyAge |-> unhealthy] :
      current \in Counts, unready \in 0..1, stuck \in Stuckness,
      unhealthy \in {0, PodStartupTimeout + 1}}

\* Those a count of pods can have.
PlausiblePods == {p \in EveryPods : p.ready >= 0 /\ p.pending + p.unmat <= p.current}

\* Windows no sample covers, covered by low demand, and with one old peak.
Histories ==
  {{}, {[age |-> a, desired |-> 1] : a \in 1..Window + 1},
   {[age |-> a, desired |-> IF a = Window THEN 3 ELSE 1] : a \in 1..Window + 1}}

Backoffs ==
  {ClearBackoff,
   [interval |-> BackoffInitial, wait |-> 1, fitAtArm |-> 1, awaiting |-> FALSE],
   [interval |-> BackoffMax, wait |-> 0, fitAtArm |-> -1, awaiting |-> TRUE]}

SomeMemories ==
  {[sinceUp |-> since, sinceDown |-> since, history |-> history,
    backoff |-> backoff, lastGood |-> lastGood] :
      since \in {0, Horizon}, history \in Histories, backoff \in Backoffs,
      lastGood \in {0, 2}}
=============================================================================
