-------------------------- MODULE NormalizerProofs --------------------------
(***************************************************************************)
(* The admission of one Normalizer pod, for any number of records, slots   *)
(* and places in the queue.                                                *)
(*                                                                         *)
(* The argument: `slots` counts the records that hold a slot and `waiting` *)
(* those between CountIn and Uncount or Shed.  The line is exactly as long *)
(* as it should be because whoever is in it is parked, and is in it once.  *)
(***************************************************************************)
EXTENDS Normalizer, FiniteSetTheorems, SequenceTheorems, TLAPS

Labels == {"away", "arrived", "full", "shed", "counted", "parked", "granted",
           "leaving", "working"}

Updatings ==
  [stage : {"none", "load", "set"}, gauge : {"queued", "inFlight"}, value : Int]

TypeOK ==
  /\ pc \in [Requests -> Labels]
  /\ todo \in [Requests -> Updatings]
  /\ slots \in Int /\ waiting \in Int
  /\ line \in Seq(Requests)

\* The records `waiting` counts.
Counted == {r \in Requests : pc[r] \in {"counted", "parked", "granted", "leaving", "shed"}}

LineIsParked ==
  /\ \A i \in DOMAIN line : pc[line[i]] = "parked"
  /\ \A i, j \in DOMAIN line : line[i] = line[j] => i = j

SlotsAreHeld ==
  /\ Cardinality(Working) = slots /\ slots <= MaxConcurrent
  /\ line # <<>> => slots = MaxConcurrent

WaitingIsCounted ==
  Cardinality(Counted) = waiting /\ Cardinality(Waiting) <= QueueLimit

Inv == TypeOK /\ LineIsParked /\ SlotsAreHeld /\ WaitingIsCounted

-----------------------------------------------------------------------------
(* Sets of records.                                                        *)

LEMMA Finite ==
  ASSUME NEW S \in SUBSET Requests
  PROVE  IsFiniteSet(S) /\ Cardinality(S) \in Nat
BY LimitAssumption, FS_Subset, FS_CardinalityType

LEMMA Joined ==
  ASSUME NEW S \in SUBSET Requests, NEW r \in Requests, r \notin S
  PROVE  Cardinality(S \cup {r}) = Cardinality(S) + 1
BY Finite, FS_AddElement

LEMMA Left ==
  ASSUME NEW S \in SUBSET Requests, NEW r \in S
  PROVE  Cardinality(S \ {r}) = Cardinality(S) - 1
BY Finite, FS_RemoveElement

LEMMA Smaller ==
  ASSUME NEW S \in SUBSET Requests, NEW T \in SUBSET S
  PROVE  Cardinality(T) <= Cardinality(S)
BY Finite, FS_Subset

LEMMA Subsets ==
  /\ Working \in SUBSET Requests /\ Waiting \in SUBSET Requests
  /\ Counted \in SUBSET Requests /\ Waiting \subseteq Counted
BY DEF Working, Waiting, Counted

-----------------------------------------------------------------------------
(* Types.                                                                  *)

LEMMA Updates ==
  ASSUME NEW g \in {"queued", "inFlight"}
  PROVE  Update(g) \in Updatings /\ NoUpdate \in Updatings
BY DEF Update, NoUpdate, Updatings

LEMMA LineWithout ==
  ASSUME NEW s \in Seq(Requests), NEW i \in DOMAIN s
  PROVE  /\ RemoveAt(s, i) \in Seq(Requests)
         /\ Len(RemoveAt(s, i)) = Len(s) - 1
         /\ \A j \in DOMAIN RemoveAt(s, i) :
              RemoveAt(s, i)[j] = IF j < i THEN s[j] ELSE s[j + 1]
<1> DEFINE a == SubSeq(s, 1, i - 1)
           b == SubSeq(s, i + 1, Len(s))
<1>1. i \in 1..Len(s) /\ Len(s) \in Nat /\ DOMAIN s = 1..Len(s)
  BY LenProperties
<1>2. a \in Seq(Requests) /\ Len(a) = i - 1 /\ \A j \in 1..(i - 1) : a[j] = s[j]
  BY <1>1, SubSeqProperties
<1>3. b \in Seq(Requests) /\ Len(b) = Len(s) - i /\ \A j \in 1..(Len(s) - i) : b[j] = s[j + i]
  BY <1>1, SubSeqProperties
<1>4. RemoveAt(s, i) = a \o b
  BY DEF RemoveAt
<1> HIDE DEF a, b
<1>5. /\ a \o b \in Seq(Requests) /\ Len(a \o b) = Len(a) + Len(b)
      /\ \A j \in 1..(Len(a) + Len(b)) :
           (a \o b)[j] = IF j <= Len(a) THEN a[j] ELSE b[j - Len(a)]
  BY <1>2, <1>3, ConcatProperties
<1>6. DOMAIN (a \o b) = 1..(Len(s) - 1) /\ Len(a \o b) = Len(s) - 1
  <2>1. DOMAIN (a \o b) = 1..Len(a \o b)
    BY <1>5, LenProperties
  <2> QED
    BY <1>1, <1>2, <1>3, <1>5, <2>1
<1>7. ASSUME NEW j \in 1..(Len(s) - 1)
      PROVE  (a \o b)[j] = IF j < i THEN s[j] ELSE s[j + 1]
  <2>1. CASE j < i
    BY <1>1, <1>2, <1>3, <1>5, <2>1
  <2>2. CASE ~(j < i)
    <3>1. (a \o b)[j] = b[j - (i - 1)]
      BY <1>1, <1>2, <1>3, <1>5, <2>2
    <3>2. j - (i - 1) \in 1..(Len(s) - i) /\ (j - (i - 1)) + i = j + 1 /\ ~(j < i)
      BY <1>1, <2>2
    <3>3. b[j - (i - 1)] = s[(j - (i - 1)) + i]
      BY <1>3, <3>2
    <3> QED
      BY <3>1, <3>2, <3>3
  <2> QED
    BY <2>1, <2>2
<1> QED
  BY <1>4, <1>5, <1>6, <1>7

LEMMA InitInv == Init => Inv
<1> SUFFICES ASSUME Init PROVE Inv
  OBVIOUS
<1>1. TypeOK
  BY Updates DEF Init, TypeOK, Labels
<1>2. Working = {} /\ Waiting = {} /\ Counted = {}
  BY DEF Init, Working, Waiting, Counted
<1>3. Cardinality({}) = 0
  BY FS_EmptySet
<1> QED
  BY <1>1, <1>2, <1>3, LimitAssumption
  DEF Init, Inv, LineIsParked, SlotsAreHeld, WaitingIsCounted

LEMMA StepTyped == TypeOK /\ [Next]_vars => TypeOK'
<1> SUFFICES ASSUME TypeOK, [Next]_vars PROVE TypeOK'
  OBVIOUS
<1> USE DEF TypeOK, GoTo, GoToUpdating, At
<1>0. ASSUME NEW r \in Requests, NEW l \in Labels PROVE [pc EXCEPT ![r] = l] \in [Requests -> Labels]
  OBVIOUS
<1>9. ASSUME NEW r \in Requests, NEW u \in Updatings PROVE [todo EXCEPT ![r] = u] \in [Requests -> Updatings]
  OBVIOUS
<1>1. ASSUME NEW r \in Requests, Arrive(r) \/ FindSlotsFull(r) \/ Shed(r)
      PROVE  TypeOK'
  BY <1>1 DEF Arrive, FindSlotsFull, Shed, Labels
<1>10. ASSUME NEW r \in Requests, TakeFreeSlot(r) PROVE TypeOK'
  BY <1>0, <1>9, <1>10, Updates DEF TakeFreeSlot, Labels
<1>11. ASSUME NEW r \in Requests, CountIn(r) PROVE TypeOK'
  BY <1>0, <1>9, <1>11, Updates DEF CountIn, Labels
<1>2. ASSUME NEW r \in Requests, Queue(r) PROVE TypeOK'
  <2>1. line' \in Seq(Requests)
    BY <1>2, AppendProperties DEF Queue
  <2> QED
    BY <1>0, <1>2, <1>9, <2>1, Updates DEF Queue, Labels
<1>3. ASSUME NEW r \in Requests, GiveUp(r) PROVE TypeOK'
  <2>1. line' \in Seq(Requests)
    BY <1>3, LineWithout DEF GiveUp
  <2> QED
    BY <1>0, <1>3, <2>1 DEF GiveUp, Labels
<1>4. ASSUME NEW r \in Requests, Uncount(r) PROVE TypeOK'
  BY <1>0, <1>4, <1>9, Updates DEF Uncount, Labels
<1>5. ASSUME NEW r \in Requests, Release(r) PROVE TypeOK'
  <2>1. CASE line = <<>>
    BY <1>0, <1>5, <1>9, <2>1, Updates DEF Release, Labels
  <2>2. CASE line # <<>>
    <3>1. line' \in Seq(Requests) /\ Head(line) \in Requests
      BY <1>5, <2>2, HeadTailProperties DEF Release
    <3>2. pc' \in [Requests -> Labels] /\ todo' \in [Requests -> Updatings]
      BY <1>5, <2>2, <3>1, Updates DEF Release, Labels
    <3> QED
      BY <1>5, <2>2, <3>1, <3>2 DEF Release
  <2> QED
    BY <2>1, <2>2
<1>6. ASSUME NEW r \in Requests, LoadCount(r) PROVE TypeOK'
  BY <1>6 DEF LoadCount, Updatings
<1>7. ASSUME NEW r \in Requests, SetGauge(r) PROVE TypeOK'
  BY <1>7, Updates DEF SetGauge
<1>8. CASE Drain \/ CloseListener \/ Stop \/ UNCHANGED vars
  BY <1>8 DEF Drain, CloseListener, Stop, vars
<1> QED
  BY <1>1, <1>10, <1>11, <1>2, <1>3, <1>4, <1>5, <1>6, <1>7, <1>8 DEF Next, Proceed

-----------------------------------------------------------------------------
(* The line: what is in it is parked, once.                                *)

LEMMA LineKept ==
  ASSUME TypeOK, LineIsParked, [Next]_vars
  PROVE  LineIsParked'
<1> USE DEF TypeOK, LineIsParked, GoTo, GoToUpdating, At
<1>0. line \in Seq(Requests) /\ DOMAIN line = 1..Len(line) /\ Len(line) \in Nat
      /\ \A i \in DOMAIN line : line[i] \in Requests
  BY LenProperties, ElementOfSeq
<1>1. ASSUME NEW r \in Requests, UNCHANGED line,
             pc[r] # "parked", \E l \in Labels : pc' = [pc EXCEPT ![r] = l]
      PROVE  LineIsParked'
  BY <1>0, <1>1
<1>2. ASSUME UNCHANGED <<line, pc>> PROVE LineIsParked'
  BY <1>2
<1>3. ASSUME NEW r \in Requests, Arrive(r) \/ TakeFreeSlot(r) \/ FindSlotsFull(r) PROVE LineIsParked'
  BY <1>1, <1>3 DEF Arrive, TakeFreeSlot, FindSlotsFull, Labels
<1>4. ASSUME NEW r \in Requests, CountIn(r) \/ Shed(r) \/ Uncount(r) PROVE LineIsParked'
  BY <1>1, <1>4 DEF CountIn, Shed, Uncount, Labels
<1>5. ASSUME NEW r \in Requests, Queue(r) PROVE LineIsParked'
  <2>1. CASE slots < MaxConcurrent
    BY <1>1, <1>5, <2>1 DEF Queue, Labels
  <2>2. CASE ~(slots < MaxConcurrent)
    <3>1. line' = Append(line, r) /\ pc' = [pc EXCEPT ![r] = "parked"] /\ pc[r] = "counted"
      BY <1>5, <2>2 DEF Queue
    <3>2. /\ line' \in Seq(Requests) /\ Len(line') = Len(line) + 1
          /\ line'[Len(line) + 1] = r /\ \A i \in 1..Len(line) : line'[i] = line[i]
      BY <1>0, <3>1, AppendProperties
    <3>3. DOMAIN line' = 1..(Len(line) + 1)
      BY <3>2, LenProperties
    <3>4. \A i \in 1..Len(line) : line[i] # r
      BY <1>0, <3>1
    <3>5. \A i \in DOMAIN line' : pc'[line'[i]] = "parked"
      BY <1>0, <3>1, <3>2, <3>3, <3>4
    <3>6. \A i, j \in DOMAIN line' : line'[i] = line'[j] => i = j
      BY <1>0, <3>2, <3>3, <3>4
    <3> QED
      BY <3>5, <3>6
  <2> QED
    BY <2>1, <2>2
<1>6. ASSUME NEW r \in Requests, GiveUp(r) PROVE LineIsParked'
  <2>1. CASE pc[r] = "counted"
    BY <1>1, <1>6, <2>1 DEF GiveUp, Labels
  <2>2. CASE pc[r] = "parked"
    <3>1. PICK k \in DOMAIN line : line[k] = r /\ line' = RemoveAt(line, k)
      BY <1>6, <2>2 DEF GiveUp
    <3>2. pc' = [pc EXCEPT ![r] = "leaving"]
      BY <1>6 DEF GiveUp
    <3>a. /\ RemoveAt(line, k) \in Seq(Requests) /\ Len(RemoveAt(line, k)) = Len(line) - 1
          /\ \A i \in DOMAIN RemoveAt(line, k) :
               RemoveAt(line, k)[i] = IF i < k THEN line[i] ELSE line[i + 1]
      BY <1>0, LineWithout
    <3>b. line' = RemoveAt(line, k)
      BY <3>1
    <3>3. /\ line' \in Seq(Requests) /\ Len(line') = Len(line) - 1
          /\ \A i \in DOMAIN line' : line'[i] = IF i < k THEN line[i] ELSE line[i + 1]
      BY ONLY <3>a, <3>b, Zenon
    <3>4. DOMAIN line' = 1..(Len(line) - 1) /\ k \in 1..Len(line)
      BY <1>0, <3>3, LenProperties
    <3>5. \A i \in DOMAIN line' : line'[i] # r /\ line'[i] \in Requests /\ pc[line'[i]] = "parked"
      BY <1>0, <3>1, <3>3, <3>4
    <3>6. \A i \in DOMAIN line' : pc'[line'[i]] = "parked"
      BY <3>2, <3>5
    <3>7. \A i, j \in DOMAIN line' : line'[i] = line'[j] => i = j
      BY <1>0, <3>3, <3>4
    <3> QED
      BY <3>6, <3>7
  <2> QED
    BY <1>6, <2>1, <2>2 DEF GiveUp
<1>7. ASSUME NEW r \in Requests, Release(r) PROVE LineIsParked'
  <2>1. CASE line = <<>>
    BY <1>1, <1>7, <2>1 DEF Release, Labels
  <2>2. CASE line # <<>>
    <3> DEFINE h == Head(line)
    <3>1. line' = Tail(line) /\ pc' = [pc EXCEPT ![r] = "away", ![h] = "granted"] /\ pc[r] = "working"
      BY <1>7, <2>2 DEF Release
    <3>2. /\ h = line[1] /\ 1 \in DOMAIN line
          /\ line' \in Seq(Requests) /\ Len(line') = Len(line) - 1
          /\ \A i \in 1..Len(line') : line'[i] = line[i + 1]
      BY <1>0, <2>2, <3>1, HeadTailProperties, EmptySeq
    <3>3. DOMAIN line' = 1..(Len(line) - 1)
      BY <3>2, LenProperties
    <3> HIDE DEF h
    <3>4. \A i \in DOMAIN line' : /\ i + 1 \in DOMAIN line /\ line'[i] = line[i + 1]
                                 /\ line'[i] # h /\ line'[i] # r
      BY <1>0, <3>1, <3>2, <3>3
    <3>5. \A i \in DOMAIN line' : pc'[line'[i]] = "parked"
      BY <1>0, <3>1, <3>4
    <3>6. \A i, j \in DOMAIN line' : line'[i] = line'[j] => i = j
      BY <1>0, <3>3, <3>4
    <3> QED
      BY <3>5, <3>6
  <2> QED
    BY <2>1, <2>2
<1>8. ASSUME NEW r \in Requests, LoadCount(r) \/ SetGauge(r) PROVE LineIsParked'
  BY <1>2, <1>8 DEF LoadCount, SetGauge
<1>9. CASE Drain \/ CloseListener \/ Stop \/ UNCHANGED vars
  BY <1>2, <1>9 DEF Drain, CloseListener, Stop, vars
<1> QED
  BY <1>3, <1>4, <1>5, <1>6, <1>7, <1>8, <1>9 DEF Next, Proceed

-----------------------------------------------------------------------------
(* Slots and places.                                                       *)

(* A slot is counted once for each record that holds one.                  *)
LEMMA SlotsKept ==
  ASSUME TypeOK, LineIsParked, SlotsAreHeld, [Next]_vars
  PROVE  SlotsAreHeld'
<1> USE DEF TypeOK, SlotsAreHeld, GoTo, GoToUpdating, At
<1>0. /\ line # <<>> => Head(line) \in Requests /\ pc[Head(line)] = "parked"
      /\ MaxConcurrent \in Nat /\ Cardinality(Working) \in Nat
  BY LimitAssumption, HeadTailProperties, LenProperties, EmptySeq, Subsets, Finite DEF LineIsParked
<1>1. ASSUME Working' = Working, UNCHANGED slots, line' # <<>> => line # <<>>
      PROVE  SlotsAreHeld'
  BY <1>1
<1>2. ASSUME NEW r \in Requests, r \notin Working, Working' = Working \cup {r},
             slots < MaxConcurrent, slots' = slots + 1, UNCHANGED line
      PROVE  SlotsAreHeld'
  BY <1>0, <1>2, Subsets, Joined
<1>3. ASSUME NEW r \in Requests, Arrive(r) \/ FindSlotsFull(r) \/ CountIn(r) \/ Shed(r) \/ Uncount(r)
      PROVE  SlotsAreHeld'
  <2>1. Working' = Working
    BY <1>3 DEF Working, Arrive, FindSlotsFull, CountIn, Shed, Uncount, Labels
  <2> QED
    BY <1>1, <1>3, <2>1 DEF Arrive, FindSlotsFull, CountIn, Shed, Uncount
<1>4. ASSUME NEW r \in Requests, TakeFreeSlot(r) PROVE SlotsAreHeld'
  <2>1. r \notin Working /\ Working' = Working \cup {r}
    BY <1>4 DEF Working, TakeFreeSlot, Labels
  <2> QED
    BY <1>2, <1>4, <2>1 DEF TakeFreeSlot
<1>5. ASSUME NEW r \in Requests, Queue(r) PROVE SlotsAreHeld'
  <2>1. CASE slots < MaxConcurrent
    <3>1. r \notin Working /\ Working' = Working \cup {r}
      BY <1>5, <2>1 DEF Working, Queue, Labels
    <3> QED
      BY <1>2, <1>5, <2>1, <3>1 DEF Queue
  <2>2. CASE ~(slots < MaxConcurrent)
    <3>1. Working' = Working
      BY <1>5, <2>2 DEF Working, Queue, Labels
    <3> QED
      BY <1>0, <1>5, <2>2, <3>1 DEF Queue
  <2> QED
    BY <2>1, <2>2
<1>6. ASSUME NEW r \in Requests, GiveUp(r) PROVE SlotsAreHeld'
  <2>1. Working' = Working
    BY <1>6 DEF Working, GiveUp, Labels
  <2>2. line' # <<>> => line # <<>>
    <3>1. CASE UNCHANGED line
      BY <3>1
    <3>2. ASSUME NEW k \in DOMAIN line PROVE line # <<>>
      BY <3>2, LenProperties, EmptySeq
    <3> QED
      BY <1>6, <3>1, <3>2 DEF GiveUp
  <2> QED
    BY <1>1, <1>6, <2>1, <2>2 DEF GiveUp
<1>7. ASSUME NEW r \in Requests, Release(r) PROVE SlotsAreHeld'
  <2>1. r \in Working
    BY <1>7 DEF Working, Release
  <2>2. CASE line = <<>>
    <3>1. Working' = Working \ {r}
      BY <1>7, <2>2 DEF Working, Release, Labels
    <3> QED
      BY <1>0, <1>7, <2>1, <2>2, <3>1, Subsets, Left DEF Release
  <2>3. CASE line # <<>>
    <3> DEFINE h == Head(line)
    <3>1. h \in Requests /\ h \notin Working /\ h # r /\ pc' = [pc EXCEPT ![r] = "away", ![h] = "granted"]
      BY <1>0, <1>7, <2>3 DEF Release, Working
    <3>2. UNCHANGED slots
      BY <1>7, <2>3 DEF Release
    <3> HIDE DEF h
    <3>3. Working' = (Working \ {r}) \cup {h} /\ h \notin Working \ {r} /\ Working \ {r} \in SUBSET Requests
      BY <2>1, <3>1, Subsets DEF Working, Labels
    <3>4. Cardinality(Working') = Cardinality(Working)
      <4>1. Cardinality(Working \ {r}) = Cardinality(Working) - 1
        BY <2>1, Subsets, Left
      <4>2. Cardinality((Working \ {r}) \cup {h}) = Cardinality(Working \ {r}) + 1
        BY <3>1, <3>3, Joined
      <4>3. Cardinality(Working) \in Nat
        BY Subsets, Finite
      <4> QED
        BY <3>3, <4>1, <4>2, <4>3
    <3> QED
      BY <2>3, <3>2, <3>4
  <2> QED
    BY <2>2, <2>3
<1>8. ASSUME NEW r \in Requests, LoadCount(r) \/ SetGauge(r) PROVE SlotsAreHeld'
  BY <1>1, <1>8 DEF LoadCount, SetGauge, Working
<1>9. CASE Drain \/ CloseListener \/ Stop \/ UNCHANGED vars
  BY <1>1, <1>9 DEF Drain, CloseListener, Stop, vars, Working
<1> QED
  BY <1>3, <1>4, <1>5, <1>6, <1>7, <1>8, <1>9 DEF Next, Proceed

(* `waiting` counts the records between CountIn and Uncount or Shed, and   *)
(* only one that CountIn let pass may wait.                                *)
LEMMA WaitingKept ==
  ASSUME TypeOK, LineIsParked, WaitingIsCounted, [Next]_vars
  PROVE  WaitingIsCounted'
<1> USE DEF TypeOK, WaitingIsCounted, GoTo, GoToUpdating, At
<1>0. /\ line # <<>> => Head(line) \in Requests /\ pc[Head(line)] = "parked"
      /\ QueueLimit \in Nat
      /\ Cardinality(Counted) \in Nat /\ Cardinality(Waiting) \in Nat
  BY LimitAssumption, HeadTailProperties, LenProperties, EmptySeq, Subsets, Finite DEF LineIsParked
<1>1. ASSUME Counted' = Counted, Waiting' \subseteq Waiting, UNCHANGED waiting
      PROVE  WaitingIsCounted'
  <2>1. Cardinality(Waiting') <= Cardinality(Waiting) /\ Cardinality(Waiting') \in Nat
    BY <1>1, Subsets, Smaller, Finite
  <2> QED
    BY <1>0, <1>1, <2>1
<1>2. ASSUME NEW r \in Counted, Counted' = Counted \ {r}, Waiting' \subseteq Waiting,
             waiting' = waiting - 1
      PROVE  WaitingIsCounted'
  <2>1. Cardinality(Waiting') <= Cardinality(Waiting) /\ Cardinality(Waiting') \in Nat
    BY <1>2, Subsets, Smaller, Finite
  <2>2. Cardinality(Counted') = Cardinality(Counted) - 1
    BY <1>2, Subsets, Left
  <2> QED
    BY <1>0, <1>2, <2>1, <2>2
<1>3. ASSUME NEW r \in Requests,
             Arrive(r) \/ TakeFreeSlot(r) \/ FindSlotsFull(r) \/ Queue(r) \/ GiveUp(r)
      PROVE  WaitingIsCounted'
  <2>1. Counted' = Counted /\ Waiting' \subseteq Waiting
    BY <1>3 DEF Counted, Waiting, Arrive, TakeFreeSlot, FindSlotsFull, Queue, GiveUp, Labels
  <2> QED
    BY <1>1, <1>3, <2>1 DEF Arrive, TakeFreeSlot, FindSlotsFull, Queue, GiveUp
<1>4. ASSUME NEW r \in Requests, CountIn(r) PROVE WaitingIsCounted'
  <2>1. r \notin Counted /\ Counted' = Counted \cup {r} /\ waiting' = waiting + 1
    BY <1>4 DEF Counted, CountIn, Labels
  <2>2. Cardinality(Counted') = waiting'
    BY <1>0, <2>1, Subsets, Joined
  <2>3. CASE waiting + 1 > QueueLimit
    <3>1. Waiting' = Waiting
      BY <1>4, <2>3 DEF Waiting, CountIn, Labels
    <3> QED
      BY <2>2, <3>1
  <2>4. CASE ~(waiting + 1 > QueueLimit)
    <3>1. Waiting' \subseteq Counted' /\ Counted' \in SUBSET Requests
      BY <2>1, Subsets DEF Waiting, Counted
    <3>2. Cardinality(Waiting') <= Cardinality(Counted')
      BY <3>1, Smaller
    <3>3. Cardinality(Waiting') \in Nat
      BY <3>1, Finite
    <3> QED
      BY <1>0, <2>1, <2>2, <2>4, <3>2, <3>3
  <2> QED
    BY <2>3, <2>4
<1>5. ASSUME NEW r \in Requests, Shed(r) \/ Uncount(r) PROVE WaitingIsCounted'
  <2>1. /\ r \in Counted /\ Counted' = Counted \ {r} /\ Waiting' \subseteq Waiting
        /\ waiting' = waiting - 1
    BY <1>5 DEF Counted, Waiting, Shed, Uncount, Labels
  <2> QED
    BY <1>2, <2>1
<1>6. ASSUME NEW r \in Requests, Release(r) PROVE WaitingIsCounted'
  <2>1. Counted' = Counted /\ Waiting' \subseteq Waiting
    <3>1. CASE line = <<>>
      BY <1>6, <3>1 DEF Counted, Waiting, Release, Labels
    <3>2. CASE line # <<>>
      BY <1>0, <1>6, <3>2 DEF Counted, Waiting, Release, Labels
    <3> QED
      BY <3>1, <3>2
  <2> QED
    BY <1>1, <1>6, <2>1 DEF Release
<1>7. ASSUME UNCHANGED <<pc, waiting>> PROVE WaitingIsCounted'
  BY <1>7 DEF Counted, Waiting
<1>8. ASSUME NEW r \in Requests, LoadCount(r) \/ SetGauge(r) PROVE WaitingIsCounted'
  BY <1>7, <1>8 DEF LoadCount, SetGauge
<1>9. CASE Drain \/ CloseListener \/ Stop \/ UNCHANGED vars
  BY <1>7, <1>9 DEF Drain, CloseListener, Stop, vars
<1> QED
  BY <1>3, <1>4, <1>5, <1>6, <1>8, <1>9 DEF Next, Proceed

LEMMA Invariance == Spec => []Inv
<1>1. Inv /\ [Next]_vars => Inv'
  BY StepTyped, LineKept, SlotsKept, WaitingKept DEF Inv
<1> QED
  BY <1>1, InitInv, PTL DEF Spec

-----------------------------------------------------------------------------
(* However records arrive, give up, are shed and finish, slots and queue   *)
(* stay within their limits and no slot is lost (acquire, release).        *)
THEOREM AdmissionIsBounded == Spec => []AdmissionBound
<1>1. Inv => AdmissionBound
  BY DEF Inv, SlotsAreHeld, WaitingIsCounted, AdmissionBound
<1> QED
  BY <1>1, Invariance, PTL

(* A pod that handles no record has every slot and every place free,       *)
(* however many records it has shed (acquire).                             *)
THEOREM IdlePodAccepts == Spec => []IdleAccepts
<1>1. Inv => IdleAccepts
  <2> SUFFICES ASSUME Inv, \A r \in Requests : pc[r] \in {"away", "arrived"}
               PROVE  slots = 0 /\ waiting = 0
    BY DEF IdleAccepts
  <2>1. Working = {} /\ Counted = {}
    BY DEF Working, Counted
  <2>2. Cardinality({}) = 0
    BY FS_EmptySet
  <2> QED
    BY <2>1, <2>2 DEF Inv, SlotsAreHeld, WaitingIsCounted
<1> QED
  BY <1>1, Invariance, PTL
=============================================================================
