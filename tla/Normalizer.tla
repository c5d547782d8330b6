----------------------------- MODULE Normalizer -----------------------------
(***************************************************************************)
(* One pod of the scaled workload (internal/normalizer, cmd/normalizer):   *)
(* the slots and the bounded queue in front of them, the two gauges that   *)
(* are the controller's pressure signal, and the drain on SIGTERM.         *)
(*                                                                         *)
(* Every request is a goroutine; what it does to the channel `slots`, to   *)
(* the atomic `waiting` or to a gauge is one step.  A gauge is updated in  *)
(* two: the count is read, then the gauge is set to it.  A sender blocked  *)
(* on a Go channel waits in line, and a receive hands its place over.      *)
(***************************************************************************)
EXTENDS Integers, Sequences, FiniteSets, SequencesExt

CONSTANTS
  Requests,        \* bound: records under way or on their way at a time
  MaxConcurrent,   \* slots
  QueueLimit       \* records allowed to wait for one

ASSUME LimitAssumption ==
  MaxConcurrent \in Nat \ {0} /\ QueueLimit \in Nat /\ IsFiniteSet(Requests)

VARIABLES
  pc,        \* where each request's goroutine is
  todo,      \* the gauge update it has begun
  slots,     \* len(s.slots)
  line,      \* the goroutines blocked on the channel, in order
  waiting,   \* s.waiting
  gauge,     \* the exposition: [queued, inFlight]
  phase      \* "serving", "draining", "closing" or "stopped"

vars == <<pc, todo, slots, line, waiting, gauge, phase>>

NoUpdate == [stage |-> "none", gauge |-> "queued", value |-> 0]
Update(g) == [stage |-> "load", gauge |-> g, value |-> 0]

\* The next step of r is at label `from`, and no gauge update is under way.
At(r, from) == phase # "stopped" /\ pc[r] = from /\ todo[r].stage = "none"

GoTo(r, to) == pc' = [pc EXCEPT ![r] = to]

\* r goes on at `to` once it has updated gauge g.
GoToUpdating(r, to, g) == GoTo(r, to) /\ todo' = [todo EXCEPT ![r] = Update(g)]

----------------------------------------------------------------------------
(* handleNormalize and acquire.                                            *)

\* A record reaches the handler; a malformed one is answered with no slot taken.
Arrive(r) ==
  /\ At(r, "away") /\ phase \in {"serving", "draining"}
  /\ \E to \in {"arrived", "away"} : GoTo(r, to)
  /\ UNCHANGED <<todo, slots, line, waiting, gauge, phase>>

TakeFreeSlot(r) ==
  /\ At(r, "arrived") /\ slots < MaxConcurrent
  /\ slots' = slots + 1
  /\ GoToUpdating(r, "working", "inFlight")
  /\ UNCHANGED <<line, waiting, gauge, phase>>

FindSlotsFull(r) ==
  /\ At(r, "arrived") /\ slots = MaxConcurrent
  /\ GoTo(r, "full")
  /\ UNCHANGED <<todo, slots, line, waiting, gauge, phase>>

\* Mutant: one more record than the limit may wait.
OverAdmit(r) ==
  /\ At(r, "full")
  /\ waiting' = waiting + 1
  /\ IF waiting > QueueLimit
     THEN GoTo(r, "shed") /\ UNCHANGED todo
     ELSE GoToUpdating(r, "counted", "queued")
  /\ UNCHANGED <<slots, line, gauge, phase>>

\* Admission before queueing: counted, and compared with the limit at once.
CountIn(r) ==
  /\ At(r, "full")
  /\ waiting' = waiting + 1
  /\ IF waiting + 1 > QueueLimit
     THEN GoTo(r, "shed") /\ UNCHANGED todo
     ELSE GoToUpdating(r, "counted", "queued")
  /\ UNCHANGED <<slots, line, gauge, phase>>

\* Mutant: a shed record stays counted.
ShedCounted(r) ==
  /\ At(r, "shed")
  /\ GoTo(r, "away")
  /\ UNCHANGED <<todo, slots, line, waiting, gauge, phase>>

Shed(r) ==
  /\ At(r, "shed")
  /\ waiting' = waiting - 1
  /\ GoTo(r, "away")
  /\ UNCHANGED <<todo, slots, line, gauge, phase>>

\* The select finds a free slot, or the goroutine joins the line.
Queue(r) ==
  /\ At(r, "counted")
  /\ IF slots < MaxConcurrent
     THEN slots' = slots + 1 /\ GoToUpdating(r, "granted", "inFlight") /\ UNCHANGED line
     ELSE line' = Append(line, r) /\ GoTo(r, "parked") /\ UNCHANGED <<slots, todo>>
  /\ UNCHANGED <<waiting, gauge, phase>>

\* The queue timeout passes or the client cancels, before or after joining.
GiveUp(r) ==
  /\ \/ At(r, "counted") /\ UNCHANGED line
     \/ At(r, "parked") /\ \E i \in DOMAIN line : line[i] = r /\ line' = RemoveAt(line, i)
  /\ GoTo(r, "leaving")
  /\ UNCHANGED <<todo, slots, waiting, gauge, phase>>

\* acquire's deferred function.
Uncount(r) ==
  /\ At(r, "granted") \/ At(r, "leaving")
  /\ waiting' = waiting - 1
  /\ GoToUpdating(r, IF pc[r] = "granted" THEN "working" ELSE "away", "queued")
  /\ UNCHANGED <<slots, line, gauge, phase>>

\* Mutant: a receive leaves the line as it is.
ReleaseToNobody(r) ==
  /\ At(r, "working")
  /\ slots' = slots - 1
  /\ GoToUpdating(r, "away", "inFlight")
  /\ UNCHANGED <<line, waiting, gauge, phase>>

\* The response is written and the slot given back: to the head of the line.
Release(r) ==
  /\ At(r, "working")
  /\ IF line = <<>>
     THEN /\ slots' = slots - 1
          /\ GoToUpdating(r, "away", "inFlight")
          /\ UNCHANGED line
     ELSE /\ pc' = [pc EXCEPT ![r] = "away", ![Head(line)] = "granted"]
          /\ todo' = [todo EXCEPT ![r] = Update("inFlight"),
                                  ![Head(line)] = Update("inFlight")]
          /\ line' = Tail(line)
          /\ UNCHANGED slots
  /\ UNCHANGED <<waiting, gauge, phase>>

----------------------------------------------------------------------------
(* The gauges.                                                             *)

\* len(s.slots) or s.waiting.Load() ...
LoadCount(r) ==
  /\ phase # "stopped" /\ todo[r].stage = "load"
  /\ todo' = [todo EXCEPT ![r].stage = "set",
                          ![r].value = IF todo[r].gauge = "queued" THEN waiting ELSE slots]
  /\ UNCHANGED <<pc, slots, line, waiting, gauge, phase>>

\* ... and Set of what was read.
SetGauge(r) ==
  /\ phase # "stopped" /\ todo[r].stage = "set"
  /\ gauge' = [gauge EXCEPT ![todo[r].gauge] = todo[r].value]
  /\ todo' = [todo EXCEPT ![r] = NoUpdate]
  /\ UNCHANGED <<pc, slots, line, waiting, phase>>

----------------------------------------------------------------------------
(* Shutdown.                                                               *)

Idle(r) == pc[r] = "away" /\ todo[r].stage = "none"

\* SIGTERM: readiness fails, and records keep coming until the Service reacts.
Drain ==
  /\ phase = "serving" /\ phase' = "draining"
  /\ UNCHANGED <<pc, todo, slots, line, waiting, gauge>>

\* After the drain delay data.Shutdown closes the listener.
CloseListener ==
  /\ phase = "draining" /\ phase' = "closing"
  /\ UNCHANGED <<pc, todo, slots, line, waiting, gauge>>

\* Shutdown returns when every record under way has been answered, or when the
\* budget is spent, which cuts the others off.
Stop ==
  /\ phase = "closing" /\ phase' = "stopped"
  /\ UNCHANGED <<pc, todo, slots, line, waiting, gauge>>

----------------------------------------------------------------------------
Init ==
  /\ pc = [r \in Requests |-> "away"]
  /\ todo = [r \in Requests |-> NoUpdate]
  /\ slots = 0 /\ line = <<>> /\ waiting = 0
  /\ gauge = [queued |-> 0, inFlight |-> 0]
  /\ phase = "serving"

\* What r's goroutine does by itself once it has been called.
Proceed(r) ==
  \/ TakeFreeSlot(r) \/ FindSlotsFull(r) \/ CountIn(r) \/ Shed(r)
  \/ Queue(r) \/ Uncount(r) \/ Release(r)
  \/ LoadCount(r) \/ SetGauge(r)

Next ==
  \/ \E r \in Requests : Arrive(r) \/ Proceed(r) \/ GiveUp(r)
  \/ Drain \/ CloseListener \/ Stop

Spec == Init /\ [][Next]_vars

\* Goroutines run and processing ends; no timer has to fire and no client to leave.
FairSpec == Spec /\ \A r \in Requests : WF_vars(Proceed(r))

----------------------------------------------------------------------------
(* Properties.                                                             *)

Working == {r \in Requests : pc[r] \in {"granted", "working"}}
Waiting == {r \in Requests : pc[r] \in {"counted", "parked"}}

\* The pod never works on more records than it has slots, never lets more wait
\* than the limit, and a slot belongs to exactly one record: none leaks when a
\* record gives up at the moment it is granted one (acquire, release).
AdmissionBound ==
  /\ Cardinality(Working) = slots /\ slots <= MaxConcurrent
  /\ Cardinality(Waiting) <= QueueLimit
  /\ line # <<>> => slots = MaxConcurrent

\* A record is only shed while others are being served or queued: however many
\* were shed before, an idle pod accepts (the transient increment of `waiting`
\* by a record being shed is always taken back).
IdleAccepts ==
  (\A r \in Requests : pc[r] \in {"away", "arrived"}) => slots = 0 /\ waiting = 0

\* Every record that reached the handler is answered, unless the drain's budget
\* cuts it off: the line moves, and nobody waits for ever, even without a timeout
\* (a slot given back goes to the record that has waited longest).
EveryRecordAnswered ==
  \A r \in Requests : pc[r] = "arrived" ~> Idle(r) \/ phase = "stopped"

\* Not so, and no run's property: while no record is being handled, the
\* exposition says so.  Two goroutines may read a count and set its gauge in
\* opposite orders (release, acquire), and the older count stays.
IdleReadsZero ==
  (\A r \in Requests : Idle(r)) => gauge = [queued |-> 0, inFlight |-> 0]
============================================================================
