--------------------------- MODULE Announcements ---------------------------
(***************************************************************************)
(* The events a reconcile leaves on the target Deployment                  *)
(* (internal/controller/events.go): which decisions are announced, the     *)
(* cadence that keeps a repeating hold from becoming a stream of events,   *)
(* and the external change that trackExternalDrift parks for the reconcile *)
(* that saw it.  One unit of time is a fraction of the reconcile interval, *)
(* so any number of reconciles may fall into one unit and any number of    *)
(* units between two reconciles.                                           *)
(***************************************************************************)
EXTENDS Integers, FiniteSets

CONSTANTS
  Holds,        \* the hold reasons that are announced
  Initial,      \* scaling.holdBackoff.initial
  FactorNum,    \* scaling.holdBackoff.factor is FactorNum / FactorDen
  FactorDen,
  Max,          \* scaling.holdBackoff.max
  Repeats       \* bound: repeats are counted up to here

(* Validation wants positive intervals, max >= initial and a factor above 1; *)
(* the factor 1 stands for one that makes nothing longer, as NaN.            *)
ASSUME BackoffAssumption ==
  /\ Initial \in Nat \ {0} /\ Max \in Nat /\ Initial <= Max
  /\ FactorDen \in Nat \ {0} /\ FactorNum \in Nat /\ FactorDen <= FactorNum
  /\ Repeats \in Nat \ {0}

TimedOut == "PodPendingTimeout"      \* eventPodPendingTimeout
Keys == Holds \cup {TimedOut}

(* A decision, as far as an announcement depends on it: a hold with its    *)
(* reason, one that is not news (NoChangeWithinTolerance, ErrorAPIFailure) *)
(* or a write; and whether the watchdog found its timeout passed.          *)
Decisions == [reason : Holds \cup {"quiet", "write"}, timedOut : BOOLEAN]

Quiet == [reason |-> "quiet", timedOut |-> FALSE]

VARIABLES
  recorder,   \* c.events # nil: FALSE in dry-run
  pc,         \* "idle", or "announce" between observe and announce
  decision,   \* the decision being announced
  change,     \* pendingExternalChange # nil
  cadence,    \* holdEvents: ages of lastSeen and lastEmitted, and emitted
  told,       \* history: ages below Max of the announcements of each hold
  untold      \* history: changes adopted while recording, less those announced

vars == <<recorder, pc, decision, change, cadence, told, untold>>

-----------------------------------------------------------------------------
(* The limiter. *)

(* The wait after n announcements, before cycle cuts it to Max: it grows   *)
(* while it is below Max and the factor makes it longer.                   *)
Interval[n \in Nat] ==
  IF n <= 1 THEN Initial
  ELSE LET grown == (Interval[n-1] * FactorNum) \div FactorDen
       IN  IF Interval[n-1] < Max /\ grown > Interval[n-1] THEN grown ELSE Interval[n-1]

Cycle(n) == IF Interval[n] < Max THEN Interval[n] ELSE Max

Unseen == [seen |-> Max + 1, emitted |-> Max, count |-> 0]

(* A plausible mistake: a pause of one cycle is taken for a new occurrence. *)
NewAfterPause(c) == c.seen >= Initial

(* A hold not seen for longer than Max is a new occurrence. *)
NewOccurrence(c) == c.seen > Max

(* Otherwise a repeat is due after the interval, and after Max at the latest. *)
Due(c) == NewOccurrence(c) \/ c.emitted >= Interval[c.count] \/ c.emitted >= Max

(* A plausible mistake: the sighting stamps lastEmitted. *)
SightedAsEmitted(c) ==
  [seen |-> 0, emitted |-> 0, count |-> IF NewOccurrence(c) THEN 1 ELSE c.count]

(* What due leaves in the map for the key it was asked about. *)
Sighted(c) ==
  CASE NewOccurrence(c) -> [seen |-> 0, emitted |-> 0, count |-> 1]
    [] ~NewOccurrence(c) /\ Due(c) ->
         [seen |-> 0, emitted |-> 0, count |-> IF c.count < Repeats THEN c.count + 1 ELSE Repeats]
    [] OTHER -> [c EXCEPT !.seen = 0]

(* Counting stops where the cycle has stopped growing. *)
ASSUME RepeatsAssumption == Cycle(Repeats + 1) = Cycle(Repeats)

(* describeDecision: the watchdog's timeout first, whatever the reason. *)
Describes(d) == d.timedOut \/ d.reason # "quiet"
KeyOf(d)     == IF d.timedOut THEN TimedOut ELSE d.reason

-----------------------------------------------------------------------------
(* The loop. *)

Init ==
  /\ recorder \in BOOLEAN
  /\ pc = "idle"
  /\ decision = Quiet
  /\ change = FALSE
  /\ cadence = [k \in Keys |-> Unseen]
  /\ told = [k \in Keys |-> {}]
  /\ untold = 0

(* Reconcile up to Apply: observe may adopt a change, Decide decides. *)
Observe(d, drift) ==
  /\ pc = "idle"
  /\ pc' = "announce"
  /\ decision' = d
  /\ change' = (change \/ drift)
  /\ untold' = IF drift /\ recorder THEN untold + 1 ELSE untold
  /\ UNCHANGED <<recorder, cadence, told>>

(* A plausible mistake: the parked change waits while a hold is announced. *)
LeftWhenHolding == change /\ decision.reason \in Holds

(* What announce leaves of the parked change. *)
ChangeLeft == FALSE

(* announce, with or without a write that happened.  A Record that fails   *)
(* is logged and changes nothing: the cadence has already moved on.        *)
Announce ==
  /\ pc = "announce"
  /\ pc' = "idle"
  /\ change' = ChangeLeft
  /\ untold' = IF change /\ recorder THEN untold - 1 ELSE untold
  /\ IF recorder /\ Describes(decision) /\ decision.reason # "write"
     THEN LET k == KeyOf(decision)
          IN  /\ cadence' = [cadence EXCEPT ![k] = Sighted(cadence[k])]
              /\ told' = IF Due(cadence[k])
                         THEN [told EXCEPT ![k] = @ \cup {0}] ELSE told
     ELSE UNCHANGED <<cadence, told>>
  /\ decision' = Quiet
  /\ UNCHANGED recorder

Older(age, cap) == IF age < cap THEN age + 1 ELSE cap

(* Time passes; ages are kept up to where due stops telling them apart. *)
Tick ==
  /\ cadence' = [k \in Keys |->
       [seen    |-> Older(cadence[k].seen, Max + 1),
        emitted |-> Older(cadence[k].emitted, Max),
        count   |-> cadence[k].count]]
  /\ told' = [k \in Keys |-> {a + 1 : a \in {b \in told[k] : b + 1 < Max}}]
  /\ UNCHANGED <<recorder, pc, decision, change, untold>>

Next ==
  \/ \E d \in Decisions, drift \in BOOLEAN : Observe(d, drift)
  \/ Announce
  \/ Tick

Spec == Init /\ [][Next]_vars

-----------------------------------------------------------------------------
(* Properties. *)

(* announce: every value stays in its type; the parked change does not     *)
(* outlive the reconcile that saw it (events.go:58-61).                    *)
TypeOK ==
  /\ recorder \in BOOLEAN /\ change \in BOOLEAN /\ untold \in Int
  /\ pc \in {"idle", "announce"}
  /\ decision \in Decisions
  /\ cadence \in [Keys -> [seen : 0..Max+1, emitted : 0..Max, count : 0..Repeats]]
  /\ told \in [Keys -> SUBSET (0..Max-1)]

(* Every replica change another actor made is announced exactly once, by   *)
(* the reconcile that adopted it, whatever that reconcile decided          *)
(* (events.go:67-75, controller.go:587).                                   *)
EveryChangeToldOnce == recorder /\ pc = "idle" => untold = 0

(* When a reconcile that holds has ended, the reason it holds for was      *)
(* announced less than one whole maximum backoff ago: an operator who      *)
(* looks at the events of the last Max finds it (events.go:251-275).       *)
HoldIsKnown ==
  [][pc = "announce" /\ pc' = "idle" /\ recorder
     /\ Describes(decision) /\ decision.reason # "write"
       => told'[KeyOf(decision)] # {}]_vars

(* Announcements in the first Max of an occurrence that never pauses. *)
Offset[n \in Nat] == IF n = 0 THEN 0 ELSE Offset[n-1] + Cycle(n)
Allowed == Cardinality({n \in 0..Max : Offset[n] < Max})

(* However holds alternate, pause and come back, no reason is announced    *)
(* more often within Max than one that never stopped: flapping does not    *)
(* become a stream of events (events.go:256-258).                          *)
NoStream == \A k \in Keys : Cardinality(told[k]) <= Allowed

=============================================================================
