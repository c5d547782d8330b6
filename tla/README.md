# KubeScaleSense: TLA+ models and proofs

KubeScaleSense is a Kubernetes controller that scales one Deployment on the
pressure of its workload, and only as far as the cluster can place the pods.
The repository holds two programs: the controller (`cmd/kubescalesense`) and the
workload it is demonstrated with, the Normalizer (`cmd/normalizer`). This
directory holds TLA+ modules translated from the code of both, the TLC
configurations that check them, and proofs that TLAPS checks.

`PROJECT.json` is the index: the parts of the system, the runs, the lines of code
each definition stands for, the mutants that show each property can fail, the
disagreements found, the hazards, and the theorems.

## The system

| Part | Code | State | Operations |
|---|---|---|---|
| Decision engine | `internal/scaling` | none (pure) | `Decide`: guards G0..G12, watchdog, backoff, window |
| Reconcile loop | `internal/controller/controller.go` | `state`: cooldowns, demand history, backoff, last good count, drift baseline, last write | `Run`, `Reconcile`, `observe`, the trackers, `applyDecisionState`, `applyWriteState` |
| Scale actuator | `internal/controller/scale.go`, `internal/kubernetes/scale.go` | one decision being applied | read the scale, compare, conditional update, retries |
| Feasibility estimate | `internal/resources` | none (pure) | `EffectivePodRequest`, `evaluateCandidate`, `Calculate` |
| Target observation | `internal/kubernetes/target.go` | none (pure, over caches) | rollout, pending, unhealthy and unmaterialised replicas |
| Informer caches | `internal/kubernetes/reader.go` | copies of nodes, pods, ReplicaSets, the Deployment, HPAs | `Start`, list |
| Signals | `internal/metrics` | EWMA state, previous totals | scrape and sum, smooth, average utilization |
| Process and leader election | `cmd/kubescalesense`, `internal/kubernetes/lease.go` | the lease, the leading context, readiness | `run`, `serve`, `lead`; acquire, renew, give up, release |
| Announcements | `internal/controller/events.go` | cadence of each hold reason, the parked external change | `announce`, `due` |
| Deletion cost | `internal/controller/deletioncost.go` | an annotation on each pod | refresh before a scale-down |
| Normalizer server | `internal/normalizer/server.go`, `cmd/normalizer/main.go` | slots, waiting count, gauges, draining flag | `handleNormalize`, `acquire`, `release`, `Drain`, `shutdown` |
| Record normalization | `internal/normalizer/normalize.go` | none (pure) | parse, checksum |
| Configuration | `internal/config` | none (read once) | defaults, file, environment, `Validate` |
| Observability | `internal/observability` | output only | expose |

How they interact. `Run` reconciles once at start and then on every tick. A
reconcile reads the informer caches and the signals, updates its memory
(`trackUnmaterialised`, `trackExternalDrift`), builds a `Snapshot`, calls
`Decide`, folds the decision into its memory, and, for a write, hands it to the
actuator, which reads the live scale, refuses when the count is not the one
decided from, and sends an update that carries the resourceVersion it read. The
outcome is folded into the memory again. Everything the controller knows of its
own writes comes back to it through the informer cache, later. The Normalizer
pods meet the controller only through their two gauges and through being
created, drained and removed. Before a scale-down the controller writes each
pod's work into its deletion cost; after every decision it announces it. All of
it runs only in the process that holds the lease, or in one that cannot write.

What makes it hard:

- *Interleaving*: other writers of `spec.replicas` (kubectl, GitOps), a lagging
  and skipping watch, updates whose reply is lost, updates of a process that is
  gone; two replicas, a signal, an elector and a loop that stop in some order; in
  the Normalizer, goroutines on a channel, an atomic and two gauges.
- *Memory*: all the controller's guards are memories of the past, kept in the
  process and lost with it. Each must be forgotten in time, and none too early.
- *Inference*: a rollout, a stuck replica and a settled target are told apart by
  counts in caches that lag the cluster and one another.
- *Estimates*: a promise made from a snapshot and kept by a scheduler that
  chooses freely among nodes that change.
- *Edges*: int32 conversions, ceilings, tolerance at zero, limits below the
  policy's range.

What makes each part correct is stated as the properties below; the hazards they
answer are listed, line by line, in `PROJECT.json`.

## The modules

| Module | Models | Role |
|---|---|---|
| `ScalingEngine` | decision engine | operators over snapshots; the configuration as constants, what `validate.go` guarantees as assumptions |
| `Controller` | reconcile loop, actuator, scale subresource, cache of the Deployment | state machine; EXTENDS `ScalingEngine` |
| `ReplicaRegister` | what the actuator promises | abstract specification that `Controller` implements |
| `Deciding` | one question to the engine and its answer | state machine of one step; EXTENDS `ScalingEngine` |
| `FitCapacity` | feasibility estimate | operators over nodes and pods |
| `Placement` | gate G8 against the kube-scheduler | state machine; EXTENDS `FitCapacity` |
| `Normalizer` | one Normalizer pod | state machine |
| `Observation` | target observation, against the Deployment and ReplicaSet controllers | state machine |
| `Pressure` | the scrape of the workload, its sum and age | state machine |
| `Demand` | moving average, utilization of warm pods | state machine |
| `Leadership` | process, election, rolling update of the controller itself | state machine |
| `Announcements` | events and their cadence | state machine |
| `DeletionCost` | the costs written before a scale-down | state machine |
| `Configuration` | what is loaded and what is refused | operators over settings |
| `MCEngine`, `MCController`, `MCPlacement`, `MCLeadership` | | instances for TLC: environments, bounded inputs; `MCEngine` also evaluates `Configuration` |
| `ControllerProofs`, `LeadershipProofs`, `AnnouncementsProofs`, `SignalProofs`, `NormalizerProofs`, `DeletionCostProofs`, `PlacementProofs`, `ObservationProofs` | | theorems; `ControllerProofs` is also about the engine: `ScalingEngine`, `Deciding` and `Configuration`; `SignalProofs` is about `Demand` and, as the instance `Signal`, `Pressure` |

### ScalingEngine

One operator per guard or path of `decide.go`, with the source's order: G0
(invalid snapshot), G1 (HPA), drift tolerance, G1' (rollout), the watchdog's
revert, then demand, G2..G4 (freshness, range, tolerance), G5..G8 going up,
G9..G12 going down. A decision keeps the fields someone acts on: reason, `from`
and `target` counts, the new backoff, the demand sample, and whether the pending
timeout had passed. The fields that only explain a decision are left out.

Time is measured in controller intervals, and every instant the code subtracts
from `now` is an age that saturates at `Horizon`, which the assumptions make
larger than every threshold it is compared with. `BackoffState.Attempts` is
represented by the interval those attempts produce, which is all that is read of
it. `ToInt32` keeps the width of the code's conversion. The backoff factor is a
fraction, as validation accepts any number above 1; a grown interval that is no
whole number of controller intervals is rounded up, since what the code compares it
with are ticks (`Grown`); it is rounded at each step, so later intervals may be
somewhat longer than the code's, up to the same maximum. A factor so close to 1 that a nanosecond is not added, or
NaN, is one that does not grow the interval at all.

### Controller

| Action | Code |
|---|---|
| `Observe` | `Reconcile` up to the first call of the actuator: `observe` (with its three ways of ending early or late: nothing read, the target read, everything read), the trackers, `Decide`, `applyDecisionState`, and the end of a reconcile that holds |
| `ReadLive`, `ReadStale`, `ReadFails` | `attempt`: GetScale, the staleness check, a fatal or an exhausted read |
| `ReplyApplied`, `ReplyRefused`, `ReplyLost` | the outcomes of `UpdateScale` in `Apply`, with `applyWriteState` and `recordRemediation` |
| `ServerApplies`, `ServerConflicts`, `ServerRefuses`, `OrphanApplies` | the API server: optimistic concurrency on resourceVersion; an update may take effect after its sender stopped waiting or died |
| `ForeignWrite`, `OtherUpdate` | another writer of `spec.replicas`; a write that only moves the resourceVersion |
| `Deliver` | the watch, which lags and, on a relist, skips |
| `Tick` | one interval passes, the ticker fires; ages grow |
| `Restart` | the process dies or loses its lease, another starts with `New()`'s state, caches filled from the live object |

`Observe` is one action because everything in it touches only the process' own
memory and immutable cache entries; the places where other actors can get
between two steps are the action boundaries. In particular the snapshot takes
`lastGoodReplicas` and `desiredHistory` *before* the trackers of the same
observe run (controller.go:370-372 and 541), and the model keeps that order.

`foreign`, `uptime`, `floor` and `author` are history variables: no action reads
them to decide what to do.

### FitCapacity and Placement

`PodRequest`, `Candidate`, `FitOnNode` and `Feasible` are `podRequest`,
`evaluateCandidate`, `fitOnNode` and `Calculate`. `Placement` lets the gate admit
replicas, which become pods without a node, and lets an external scheduler bind
them one by one to any node that admits them, while other pods arrive, finish and
are deleted and nodes fail. The scheduler's own filtering does not use
`FitCapacity`'s node predicates: each template of an instance states which nodes
the scheduler accepts it on. That these nodes are the ones that pass
`PassesFilters` (`evaluateCandidate`'s checks of taints, labels, affinity and the
operator's selector) is `FiltersAgree`, which the instance's `NodesAreNamed`
evaluates together with `RequestsKnown`; where the two disagree (the
estimate ignores an affinity's conditions on fields, for one) nothing is claimed.

### Normalizer

Each record is a goroutine; each operation on the channel `slots`, on the atomic
`waiting` and on a gauge is a step. A gauge update is two, the read of the count
(`LoadCount`) and `Set` (`SetGauge`), as in the code. A receive on a full
channel with blocked senders hands the place to the one that has waited longest,
as Go's runtime does.

### Observation

`Observe` is the target's part of one `observe`: `RolloutInProgress`,
`CurrentSet` and the shortfall of `ObserveTarget`, then `trackUnmaterialised`.
Around it an external cluster takes one step at a time: the Deployment
controller (revisions, rolling updates with maxSurge 1, rollbacks that revive an
old ReplicaSet, the Recreate strategy, pauses, the status it writes late), the
ReplicaSet controller, a ResourceQuota that begins or stops refusing pods, the kubelet, and
evictions. The cache of ReplicaSets may be behind the other two, which is how the
current set and the spec come from different moments. The Deployment controller has
two ways to sync. `RollsOut` chooses between them: a rollout creates the template's
set before it writes the status (`AdoptTemplate`, `WriteStatus`); while the
Deployment is paused, or when a set was sized for another count (a scaling event), it
only scales the sets there are and writes the status, whether the template has a set
or not (`SyncWithoutRollout`).

### Pressure and Demand

`Pressure` scrapes one address after the other (`Resolve`, `Scrape`,
`Collected`), while pods go on working; a frozen pod serves an old page under its
old Date, and a pod's clock may be ahead by `Skew`. `Collected` dates the sum by
its oldest page and asks `Fresh`, with the time the reconcile *began*, as the
code does. A reply without a Date header counts as of its arrival (http.go:337-343):
of a live page that is what an exact clock would say, and `Scrape` covers it; a
frozen page without a Date, which would look fresh for ever, is left out.
`Demand` continues with the sum: `Collect` is the fixed-point average
of `Smoother.Apply`, `Reset` what an adopted external change does to it, and
`CollectUtilization` the average over the pods that are warm *and* listed.

### Leadership

Each process has a main goroutine (`run`, `serve`, `lead`), an elector, and the
callback between them, `OnStartedLeading`, which may run late:

| Action | Code |
|---|---|
| `Start`, `StartFails`, `Serve` | `run` and `serve`: caches, `VerifyTarget`, and whether a lease is used at all (`-once` and dry-run build no client that can write) |
| `StandDown`, `ElectionEnded`, `Lead` | the `select` of `lead`, any ready case |
| `Reconcile`, `LoopReturns`, `Exit` | the loop under its context, and the order of the two stops |
| `Look`, `Take`, `Renew`, `StopRenewing`, `Release`, `RunReturns` | client-go's elector with `ReleaseOnCancel`; external |
| `TakeUnheard`, `RenewUnheard`, `Partition`, `Heal`, `Crash`, `Terminate` | lost replies, the network, kills, evictions |
| `Roll` | the rolling update that replaces the controller's own pods, which goes by `Ready` |

Time passes only as far as no timer is overdue (`InTime`): a leader that cannot
renew gives up between `RenewDeadline` and `RetryPeriod + RenewDeadline` after its
last renewal, its release call, which comes before the leading context is cancelled,
ends within `RenewDeadline` more (`ReleaseWithin`), and a cancelled loop returns
within `StopWithin`. The server may be reachable again at any moment (`Heal`).

### Announcements, DeletionCost, Configuration

`Announcements` splits a reconcile into `Observe` (a decision is made, a foreign
change may be parked) and `Announce`, with any amount of time between; `Sighted`
and `Due` are the two halves of `due`. `DeletionCost` has the decision, the look
at the cache, one PATCH after another, and the removal the costs are meant for.
`Configuration` states the defaults, the two layers over them and every check of
`Validate`; `Accepts` is what `Load` returns without an error.

## What makes it correct, and the runs that check it

Eleven runs pass and one ends in a violation; the counts are TLC's distinct
states.

**Actuator and loop** (`Controller`)

| Run | Properties | What it shows |
|---|---|---|
| `watchdog` (1.3M) | `TypeOK`, `RestartIsDamped`, `RevertStopsAtFloor`, `DriftIsForeign` | Stuck pods, replicas a quota refuses, an `observe` that gets no further than the target, a lagging cache, refusals, and crashes that leave updates behind. A new process scales down on demand only after a whole window of its own; a revert that the server applies takes back at most our own last scale-up; the controller's own writes are never taken for somebody else's. |
| `progress` (70k) | `UpdatesAreCurrent`, `ImplementsRegister`, `SettlesOnDemand` | Another writer, conflicts, lost replies, crashes, orphaned updates and an `observe` that fails: every change the controller makes is a compare-and-set from the count it decided from, into the policy's range. Once the disturbances stop the count reaches what demand calls for and stays: no drift hold, backoff, cooldown or half-finished actuation survives. Started from both sides of the demand; with tolerance 0 one external change holds the controller until it is forgotten. |

**Decision engine** (`MCEngine`): `engine` (1.7M) asks `Decide` (`Deciding`) about every
snapshot of a bounded space and compares its answers with one another.
`MonotoneInDemand` and `MonotoneInRoom` say that more work or more room never
makes it ask for fewer replicas, across all guards; `LowersOnlyWhenBothLow` that
a count is lowered only on evidence from both signals over the window, or by a
revert; `WritesAreAccepted` that it never decides a write its actuator refuses.

**Feasibility and placement** (`MCPlacement`): `placement` (564k, under symmetry of
the pods' names). `PromiseKept`: whichever node a scheduler picks for each
admitted replica, and while others' pods displace no more than the margin, some
node admits every replica still waiting. `PlacementCostsOne`: binding a promised
pod is charged once, at once. `EstimateIsExact`: the estimate is the largest
placement less the margin, against a definition that searches for it.
`RequestIsPeak`: a pod is charged the most its containers hold at any moment of
its life.

**Target observation** (`Observation`): `observation` (653k).
`ConvergingGeneration`: whenever up-to-date caches show no rollout, the pods
counted are those of the template the Deployment has now, or that template has no
set yet and no other set than the one counted holds or wants pods. `StuckIsSeen`: a quota
that goes on refusing pods is reported as exactly the missing replicas, not as a
rollout, until the watchdog's timeout has passed. `SettledIsSeen`: neither a
rollback nor a scale leaves an alarm behind.

**Signals**: `pressure` (807k), `TrustedSumIsRecent`: a sum the engine trusts has
every pod DNS named, and each term is work that pod really had within
`StaleAfter + Skew + Timeout`. `demand` (559k), `AverageIsMeasured`: the average
neither makes up nor loses demand, at priming, at a reset and in its rounding;
`AverageArrives`: it reaches a steady sum and does not stop an item short;
`UtilizationIsOfWarmPods`: pods that do not count do not dilute it.

**Leader election** (`MCLeadership`): `leadership` (438k). Two replicas, one of
which is being replaced. `OneLeader`: of the processes that have not given up, never
two act. One that has given up (`GaveUp`: its elector failed to renew until the
deadline) is left out because its loop may go on through the release call, beside a
successor (*The gap* and *Release* below). `LeaderReturns`: when the faults have
stopped some process leads for good; nobody waits for a readiness that needs the
lease it is waiting for. A third process, `-once` or dry-run, cannot write and takes
no lease; it is left to the theorem, which holds for any `Launch`.

**Announcements** (`Announcements`): `announcements` (2.5M). `HoldIsKnown`: after
every hold its reason is among the events of the last `holdBackoff.max`;
`NoStream`: no flapping announces a reason more often in that time than a hold
that never stops; `EveryChangeToldOnce`: a foreign change is announced once, by
the reconcile that adopted it, whatever it decided.

**Deletion cost** (`DeletionCost`): `deletion` (397k). `LeastBusyIsRemoved`: if every
cost was set from an up-to-date cache, the pod that goes is one of the least busy
at the scrape; a scrape that missed a Ready pod writes nothing.

**Normalizer** (`Normalizer`): `normalizer` (148k). `AdmissionBound`: slots and
queue never overflow, and no slot leaks when a record gives up at the moment it is
granted one. `IdleAccepts`: however many records were shed, an idle pod accepts.
`EveryRecordAnswered`: the line moves; nobody waits for ever, even with no timeout.

**Configuration** has no states of its own. `MCEngine` evaluates it on every run
of `engine` (`PolicyIsAccepted`, `LoadAssumption`): the policy the engine is
checked under is one `Load` accepts, the defaults are accepted as soon as the
target is named, and a series that cannot be read, an unknown key, a minimum above
the maximum are refused.

### Bounds, and why they suffice

- *Counts.* The policy is 1..4 with steps of 2 up and 1 down in `engine` and
  `progress`: enough for full, partial and clamped scale-ups; `engine`
  also starts from 5 and 7, above the maximum by less and by more than is stuck. In `watchdog` it is
  1..3 with steps of 1, started at 1: two successive scale-ups, and then a revert
  of two pods that must stop at the floor between them.
- *Time.* Windows and timeouts are one or two intervals and `Horizon` lies beyond
  every one of them, so each guard is met open, at its edge and closed.
  `watchdog` uses a window of two, where a history can be covered or not with the
  same samples.
- *Signals.* A backlog below and one above the count (`LowOrHigh`) trigger both
  directions; the run `engine` takes the full range of backlogs, missing and stale
  signals, CPU, room and histories.
- `MaxLag` = 2 undelivered changes where there is another writer (an old count, a
  new one and one in between, which a relist skips). Alone, the controller never
  gets more than one change ahead of its own cache, since it refuses to write from
  a count that is not the live one; `watchdog` has `MaxLag` = 1. `MaxActuation` = 1 interval that passes during an
  actuation, so that a tick can be found waiting when it ends.
- `Observation`: two templates are the fewest with a rollout; `MaxReplicas` = 2
  lets a rolling update stop half-way and a shortfall be partial. One change
  (`MaxChanges`: a write of the count, the template or both, a pause or its
  end alone or with either, the quota, or an eviction) from a target at rest on its
  first or its second revision, paused or not, with the quota already refusing or
  not, gives every scale, rollout and rollback, alone and under a quota. Two changes that overlap, such as a second rollout during the
  first, are beyond the bound for the liveness properties; `CountsOwnTemplate` proves
  `ConvergingGeneration` for any number of templates and changes.
- `Pressure`: two pods, one fresh and one frozen, and ages of one unit more than
  every bound. `Demand`: alpha 0.4, the default, where rounding down would stop
  short; sums to 3; two pods.
- `Leadership`: a lease of 4 retry periods, a deadline of 2 and a loop that returns
  within 1 is the smallest timing with the order of the defaults: a leader gives up
  (by 3) before its lease can be taken (at 4), and its release call may end after
  that (by 5). Two candidates are enough for a hand-over, and the theorem is for any
  number.
- `engine` has a backoff factor of 3/2, so that an interval is rounded, the other
  runs of the controller 2.
- `Announcements`: initial 2, factor 3/2, maximum 9: the cycle grows by rounded
  steps and is cut at the maximum, and a pause can be shorter than a cycle, longer
  than it, or longer than the maximum. `Repeats` is where counting stops changing
  anything, which `RepeatsAssumption` states and TLC checks.
- `DeletionCost`: `MaxCost` = 1 is below `MaxWork` = 2, so the cap is met.
- Three records, one slot and one place in the queue: the fewest with one
  served, one queued and one shed.
- Two nodes (one tainted, with different labels), four pods, three templates: one
  confined to each node and one that fits both, with init containers and sidecars.

`CHECK_DEADLOCK FALSE` is set where the system really stops: the question-and-answer
module `Deciding` (`engine`), and the Normalizer, whose process exits after its
drain (`normalizer`).

### Fairness

`Controller!Fairness`: the ticker fires; `Run` reconciles on a tick it finds; an
actuation goes on to its end, since every call has a timeout and the retries a
budget; the server answers an update that is awaited; the watch delivers. An
abandoned update need never be applied, an error need never happen, and nobody
else need ever write. `SettlesOnDemand` is conditional on the disturbances
ending, as the code can promise nothing while GitOps reverts every write.

`Leadership!Fairness`: goroutines are scheduled, the kubelet starts what should
run, the rolling update goes on when a new pod is ready, time passes. A fault need
never happen or end; `LeaderReturns` is conditional on the faults' ending.

`Observation!FairSpec`: the ticker, the watch and the cluster's controllers go on;
nobody need ever change anything. One condition covers all the controllers, which
come to rest together when there is nothing left to do.

`Demand!FairSpec`: the ticker makes the controller collect again.
`AverageArrives` is conditional on a steady sum and scrapes that stop failing.

`Normalizer!FairSpec`: each record's goroutine goes on, and processing ends. No
timer has to fire and no client to leave: `EveryRecordAnswered` does not lean on
the queue timeout.

## Disagreements between the code and what is said of it

One run ends in a violation on purpose; `PROJECT.json` quotes the lines on both
sides. `undone_writes` (`OverrideIsDrift`): a GitOps loop that puts the count back
before the next observe is not seen at all, since `trackExternalDrift` compares
with the previous observation; FR-31 and ADR-17 are about exactly this loop.

Others met while modelling. Where a definition states what does not hold, it is in
the module with that remark, and no run claims it.

- *Lost reply* (`DriftIsForeign` with a timeout among the `Faults`): when the reply
  of an applied update is lost, `lastWrittenReplicas` is never set
  (controller.go:730), and the controller counts its own write as an external
  change: it discards the demand history and comes closer to `HoldExternalChange`.
- *First revert* (`RevertRespectsLastGood` in `Controller`): the snapshot copies
  `lastGoodReplicas` before `trackExternalDrift` adopts the count
  (controller.go:372, 541), so the first reconcile of a process can revert below
  the count it has just adopted. The same order lets a revert go below the floor
  after a lost reply or another writer's change; `watchdog` therefore has neither.
  It also lets the observe that adopts an external count decide with the history
  that it is about to discard.
- *Below the range* (`WritesAreAccepted`, with counts more than one step below
  `minReplicas`): `scaleUpPath` does not clamp its target (decide.go:187). It
  decides a write that the actuator refuses, on every reconcile, and the count
  never recovers by itself.
- *Gauge* (`IdleReadsZero` in `Normalizer`): a gauge is set from a count read
  earlier (server.go:231), so two goroutines can leave an outdated value behind; an
  idle pod then reports work, and the controller sums it with a fresh timestamp on
  every scrape.
- *The gap* (`TakenOnlyWhenStopped` in `Leadership`): lease.go:35-38 and
  docs/architecture.md:455-456 say that a leader that cannot renew has stopped before
  a successor can acquire. An elector sleeps for its retry period before it tries
  until the deadline, and `ReleaseOnCancel` then makes one more call, with a timeout
  of RenewDeadline, *before* the leading context is cancelled. With 15/10/2 s and a
  server that swallows requests the leader gives up by 12 s and its loop is told by
  22 s, while the lease can be taken at 15 s. TLC finds it in the instance of
  `leadership`: a partition, the end of the renewals, a release call that does not
  return, and the other's `Take`.
- *Release* (`ReleasedOnlyWhenStopped` in `Leadership`): leader.go:124-126 and
  docs/architecture.md:453-454 say that the lease is only given up by a process that
  has stopped acting. That is so at a shutdown. An elector that gave up releases
  too; if the server has come back by then, a standby may take the lease at once
  while the loop is still running. In this case as in the last, what protects
  `spec.replicas` is the conditional update (`ImplementsRegister`).
- *Unseen rollout* (`RolloutIsSeen` in `Observation`): target.go:113-114 says that a
  rollout always has an older ReplicaSet with replicas beside the current one, or a
  spec not yet observed. A write of count and template at once is a scaling event to
  the Deployment controller, which observes the spec before it creates the new set:
  the old set is then the current one, and a shortfall of updated replicas is
  reported as a scale that waits, with the old template's pods counted. With the
  Recreate strategy the same lasts while the old pods go.
- *Evicted pods*: a pod that failed keeps its scheduled condition and is not ready,
  and `summarisePodHealth` (target.go:173) counts it as unhealthy for as long as it
  is listed, although its ReplicaSet has replaced it; only `Succeeded` is excluded.
- *NaN* passes every comparison of validate.go (190, 270, 300), so alpha, coverage
  or factor may be NaN, from the file as from the environment. A factor of +Inf
  passes too: what its conversion to a Duration gives depends on the machine, an
  interval that never grows or the maximum from the second attempt on.
- *Small fractions*: an alpha below 0.001 is truncated to 0 (smoothing.go:38) and
  the average never moves again (below 0.002 it may stop an item short of a rising
  sum); a coverage below 0.001 becomes 0 in
  `WindowCovered` (snapshot.go:229).
- *Tolerance 0*: a desired count equal to the current one is not within tolerance
  (decide.go:432), and is decided as a scale-down to the same count, which the
  actuator refuses.
- *Wrap*: a desired count above 2^31 is narrowed to int32 (decide.go:133), and a
  huge backlog reads as none.

## What is proved

TLAPS checks the proofs for every value of the constants that satisfies the
assumptions named below. The environment of `Controller!Observe` is arbitrary
within `EnvironmentAssumption`: any pod health, signal, rollout or room.

| Theorem | States |
|---|---|
| `ControllerProofs!DecideSound` | Whatever snapshot `Decide` is given: a hold changes nothing; a scale-up is by no more than fits, than the step, and to no more than the maximum; a lowering lands in the range and never raises. |
| `ControllerProofs!ScaleDownIsCovered` | A scale-down rests on a demand sample at least one window old. |
| `ControllerProofs!TypeCorrect` | `Spec => []TypeOK` |
| `ControllerProofs!UpdatesStayCurrent` | `Spec => []UpdatesAreCurrent` |
| `ControllerProofs!Refinement` | `Spec => ImplementsRegister`: `Controller` implements `ReplicaRegister` |
| `ControllerProofs!RestartDamping` | `Spec => []RestartIsDamped` |
| `ControllerProofs!DriftIsAlwaysForeign` | `RepliesArrive` and `CacheKeepsUp` imply `Spec => DriftIsForeign` |
| `ControllerProofs!RevertRespectsFloor` | `RepliesArrive` and `SoleWriter` imply `Spec => RevertStopsAtFloor` |
| `ControllerProofs!DemandOnlyRaises` | With `AllowPartialScaleUp` and no backlog that overflows, `Exchange => []MonotoneInDemand` |
| `ControllerProofs!RoomOnlyRaises` | `Exchange => []MonotoneInRoom` |
| `ControllerProofs!LoweringNeedsBoth` | `Exchange => []LowersOnlyWhenBothLow` |
| `ControllerProofs!EveryWriteAccepted` | With a tolerance above 0 and counts of at least `minReplicas - 1`, `Exchange => []WritesAreAccepted` |
| `LeadershipProofs!TypeCorrect` | `Spec => []TypeOK` |
| `LeadershipProofs!AtMostOneLeader` | `Spec => []OneLeader` |
| `AnnouncementsProofs!ChangesAreToldOnce` | `Spec => []EveryChangeToldOnce` |
| `AnnouncementsProofs!HoldsAreKnown` | `Spec => HoldIsKnown` |
| `AnnouncementsProofs!NeverAStream` | `Spec => []NoStream` |
| `SignalProofs!AverageBounded` | `Spec => []AverageIsMeasured` |
| `SignalProofs!UtilizationBounded` | `Spec => []UtilizationIsOfWarmPods` |
| `SignalProofs!TrustedSum` | `SignalBounds` implies `Signal!Spec => Signal!TrustedSumIsRecent`, where `Signal` is `Pressure` |
| `ControllerProofs!AcceptedFits` | What `Load` accepts satisfies the assumptions of the engine and the announcements, with any coverage and any factor. |
| `ControllerProofs!AcceptedAlphaFits` | An alpha that `Load` accepts and that is not NaN satisfies the assumption of the moving average. |
| `NormalizerProofs!AdmissionIsBounded` | `Spec => []AdmissionBound` |
| `NormalizerProofs!IdlePodAccepts` | `Spec => []IdleAccepts` |
| `DeletionCostProofs!LeastBusyGoes` | `Spec => LeastBusyIsRemoved` |
| `ObservationProofs!CountsOwnTemplate` | `Spec => ConvergingGeneration` |
| `PlacementProofs!PromiseIsKept` | `FiltersAgree` implies `Spec => []PromiseKept` |
| `PlacementProofs!EstimateExact` | `FiltersAgree` and `RequestsKnown` imply `Spec => []EstimateIsExact` |
| `PlacementProofs!BindingCostsOne` | `Spec => PlacementCostsOne` |
| `PlacementProofs!RequestPeak` | `Spec => []RequestIsPeak` |

The arguments.

- `Controller!TypeOK` is inductive by itself: one lemma for each operator on the
  memory says that it returns well-typed memory, `SnapshotType` that `observe` then
  produces a snapshot, and `DecideSound` that the decision is one. `DecideSound` is
  also where the reconcile's `Valid` check gets its types.
- `UpdatesAreCurrent` is inductive together with `TypeOK`. It says of the update
  being awaited *and* of those left behind that their resourceVersion is current
  only while the count they were decided from stands; it is what remains true after
  the process that made the comparison has died.
- `Refinement` maps a proposal to the decision being actuated or to an orphaned
  update. Every step of `Controller` is then a proposal, a withdrawal, a commit,
  somebody else's change, or a stutter; the commit needs `UpdatesAreCurrent`.
- `RestartIsDamped` is not inductive: nothing in it speaks of the memory a later
  decision is made from. The strengthening is `HistoryIsOwn`, that no sample is
  older than the process; a scale-down has a sample at least a window old
  (`ScaleDownIsCovered`), so the process is at least as old.
- `DriftIsForeign` needs to know what the cache may still hide. The strengthening
  `DriftInv` says that it hides at most one change, the last; that if the hidden
  change is the controller's own, `lastWrittenReplicas` names its count (or will,
  when the reply arrives); and that the cache otherwise shows what was last
  observed, what was last written, or a foreign change. An update can only be
  applied from the count that stands, which is why a lagging cache stops the
  controller's next write and a second change cannot hide behind the first. `CacheKeepsUp` (nobody
  else writes, or the watch is at most one version behind) is what this rests on,
  and it is needed: with another writer and a watch two versions behind, TLC finds
  the controller's write A, the other's write back, the controller's write B, and
  the late delivery of A. Only B is remembered (controller.go:556), so A counts as
  an external change although it is the controller's own.
- `RevertStopsAtFloor` rests on `FloorInv`: once the process has written, the floor
  or the live count is at most `lastGoodReplicas`, also while a write is on its way,
  and a revert being actuated stays at or above `lastGoodReplicas`
  (`RevertTarget`). Before its first write a process counts no change as its own to
  undo. `SoleWriter` and
  `RepliesArrive` are the hypotheses that the *First revert* disagreement calls for.
- The engine's theorems follow `Decide` path by path, once for a snapshot and once
  for its neighbour: the guards before the demand read neither backlog nor room, so
  both take the same one; after it, each path's target is monotone and lies on its
  side of the current count. `DemandOnlyRaises` has two hypotheses without which
  it is false: with `allowPartialScaleUp` off a larger backlog asks for more than
  fits and gets nothing, and above 2^31 items per replica the count wraps.
  `EveryWriteAccepted` has the two of *Below the range* and *Tolerance 0*.
  `LowersOnlyWhenBothLow` allows a revert more than decide_test.go:1512 says ("a
  revert removes only stuck replicas"): a count above the maximum by more than
  what is stuck is brought back to the maximum by the same write.
- `OneLeader` says nothing of time, and is not inductive. The strengthening has
  three parts: where the main goroutine is tells where the elector can be
  (`InStep`); an elector that `lead` has not cancelled stops renewing only at its
  deadline (`LateEnd`), so a loop whose elector does not renew is one that gave up;
  and an elector that renews is the holder of the record, renewed it less than a
  lease ago, and every elector that knows the record saw it no earlier than that
  (`LeaseKept`), so that nobody can take it (`NoneCanTake`). Two that act without
  having given up would then both hold one record. It rests on
  `GiveUpAt < LeaseDuration` alone, 12 s against 15 s, and on nothing the server or
  the network does. No claim is made of a loop whose elector gave up.
- The announcements' invariant ties the history to the cadence: while a reason
  counts as seen, the last announcement is among those told, and it is as old as
  `emitted` says. A repeat that is not due was therefore announced within a cycle,
  which is no longer than the maximum.
- `NoStream` counts announcements, and is not inductive: a count says nothing of when
  the next is due. The strengthening `Cadenced` says that any two announcements of a
  reason still within `Max` are as far apart as those of a hold that never paused,
  with as many between them (`Spaced`); that the cadence knows the last of them and
  counts at least as many as are left (`Counted`); and that a reason is not announced
  without being sighted (`Seen`), so that a new occurrence starts only when the
  announcements of the old one are out of sight. `CycleStops` is why counting only up
  to `Repeats` shortens no wait.
- `UtilizationIsOfWarmPods` is inductive, since each collection computes the average
  afresh. What has to be shown is arithmetic: the fold over the pods lies between as
  many times the least and the most usage as there are pods, and the truncated
  division keeps that.
- `AverageIsMeasured` is about the rounded value, its invariant about the
  thousandths: a weighted mean truncated at thousandths stays between the bounds'
  thousandths, and rounding keeps it there since the bounds are whole items.
- `TrustedSumIsRecent` is a step's property. Its invariant `ScrapeInv` ties every page
  to the history: a page a pod may still serve, frozen or not, is of work the pod had
  at most as long ago as its age says (`FrozenIsDated`), one the scrape has got at
  most that long ago plus the skew (`ScrapedIsDated`), and what was got is what DNS
  named less what is left to ask (`ScrapedSoFar`). Time makes both sides older alike
  (`OlderKeeps`). A scrape that ends fresh has its *oldest* page within `StaleAfter`
  of the reconcile's start, so all of them, and the start is at most `Timeout` back.
  The sum is then compared term by term (`TotalGrows`).
- `AcceptedFits` lets the file and the environment be anything: `Accepts` puts the
  resolved settings in `Config`, and each group of checks gives one assumption of the
  engine. What a coverage or a factor that is no number comes to in the code is part
  of how a setting is taken to constants (`CoverageThousandths`, `IsFactor`).
  `LoadAssumption`, which TLC evaluates, shows that there is something to accept.
- The Normalizer's bounds need the two counters tied to the goroutines: `slots` is
  the number of records granted a slot or at work, `waiting` the number between
  the increment in `acquire` and the decrement that undoes it, those being shed
  included (`SlotsAreHeld`, `WaitingIsCounted`). That a receive hands its slot to
  exactly one record needs `LineIsParked`: whoever is in line is parked, and is in
  it once, also after a timeout took somebody out of its middle. `IdleAccepts`
  follows because an idle pod has none of either kind.
- `LeastBusyIsRemoved` is a step's property. Its invariant `CostsAreSet` says that
  while `sure` stands, every Ready pod was scraped and has its cost or is still to
  be given it; when the count is lowered none is left, so the lowest cost is the
  least work.

- `ConvergingGeneration` is a step's property. Its invariant says that every ReplicaSet
  that was ever current has a revision of its own (`Distinct`), that there is a
  highest one (`HasTop`), that a set that does not exist holds and wants nothing
  (`Bare`), and that a spec is observed only when the template's set is that one, or
  does not exist, with no replica updated (`Settles`). A later write of the spec is
  unobserved again. In the second case no rollout is reported only if no set beside
  the current one holds or wants pods (`scaleAheadOfPods`), which is what the
  property's second disjunct says.
- The placement theorems rest on one characterisation: `NodeFit` is the largest `k` such
  that the node `Holds` `k` pods of the template (`NodeFitIs`). Binding one pod takes
  one from the `k` a node holds, and leaves the other terms of the sum alone
  (`BindCosts`); another pod's arrival takes at most what it displaces (`ArriveCosts`);
  everything else takes nothing. The inductive invariants are `Sound` (the types, names
  that are unique, nodes that keep their labels and taints, pods of ours that are
  charged what the template requests) and `Promise`: while no node got worse, the
  estimate before the margin covers the pods that wait, and the margin less what
  others displaced. A sum above zero has a node that holds a pod, and with
  `FiltersAgree` the scheduler admits it there. TLC checks `Sound` and `Promise` on the
  placement instance as well. `EstimateExact` compares node by node, through
  `Holds` again. `RequestPeak` runs the two folds of `PodRequest` from the left
  (`TotalRuns`, `InitRuns`): before the i-th init container, the sidecars add up to
  those declared so far, and the peak is the most that any moment up to there holds.
- Folds and recursive functions are opened without the library's induction theorems,
  which take an operator. `LeastNat` and `LeastSubset`, from the well-founded minimum,
  give a least counterexample; the function that a fold chooses is constructed in
  stages (`FoldExists`, `SumsExist`, `RecursionExists`) and unique, so it is the one
  the definition names (`SumIs`, `TotalIs`, `IntervalIs`, `OffsetIs`).

The assumptions are those of the constants, all evaluated by TLC in the runs:
`ReplicaAssumption`, `DemandAssumption`, `TimeAssumption` and `PolicyAssumption`
(what `internal/config/validate.go` enforces, which is what `AcceptedFits` links
them to, and that `Horizon` exceeds the thresholds), `CountAssumption` and
`EnvironmentAssumption` (the types of what the environment offers), `QuestionAssumption`
(the same for the snapshots of `Deciding`);
`LaunchAssumption`, `TimingAssumption` (the order of lease.go's defaults: a leader
gives up before its lease can be taken), `RolloutAssumption` and `SoleAssumption`
(that without leader election there is one writer, as its warning demands);
`BackoffAssumption`, `RepeatsAssumption`; `AlphaAssumption`, `RequestAssumption`;
`SignalAssumption`, which is `SignalBounds`; `LimitAssumption` (at least one slot,
finitely many records at a time), `CostAssumption`; `EstimateAssumption` and
`PlacementAssumption` (the types of nodes, templates and requests, finitely many
nodes and pod names); `ObservationAssumption`.

Every safety property a passing run checks is stated by a theorem. Only
model-checked: liveness (`SettlesOnDemand`, `LeaderReturns`, `StuckIsSeen`,
`SettledIsSeen`, `AverageArrives`, `EveryRecordAnswered`), which is out of the proof
system's reach, as ENABLED is. Operators declared RECURSIVE and induction theorems
that take an operator are out of its reach too; no module proved about needs them.

## Not modelled

- The parsing and checksum of a record (pure), metrics and logs (output only),
  flags, YAML's syntax and error texts, the dry-run actuator (writes nothing), the
  HTTP servers' shutdown, the wording and transport of events, the demonstration
  material.
- The synthetic source (a replay), the rates computed from the Normalizer's
  counters (read by no decision), memory utilization (the CPU's formula again).
- The ages of pending and unhealthy pods and the presence of an HPA, which are read
  off one object each.
- Clock drift between replicas and a process that is not scheduled for longer than
  `StopWithin`; lease.go names the first as the limit of what it promises.

Simplified. The target observation, the pressure signal and the lists of nodes and
pods enter `Controller` as arbitrary values of the right kind, so what is shown of
it does not depend on how they are derived; `Observation`, `Pressure` and `Demand`
show how good those values are. A change of leader is, in `Controller`, a process
that dies with its update in flight, which is the worst `Leadership` can do to it.
`Placement` treats the gate alone, without the rest of `Decide`, so it admits at
least whatever the controller would. In `Observation` only the cache of ReplicaSets
lags; in `progress` an observe gets nothing or everything, in `watchdog` the target
or everything. `Pressure` hands the engine no smoothed sum; the average continues
from any sum in `Demand`.
