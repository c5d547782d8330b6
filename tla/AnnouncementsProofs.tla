------------------------ MODULE AnnouncementsProofs ------------------------
(***************************************************************************)
(* What the announcements promise for every backoff configuration.         *)
(***************************************************************************)
EXTENDS Announcements, FiniteSetTheorems, WellFoundedInduction, TLAPS

(* An external change is parked only between observe and announce, and the *)
(* history counts it from one to the other.                                *)
Parked ==
  /\ pc = "idle" => ~change
  /\ recorder => untold = IF change THEN 1 ELSE 0

(* The limiter's lastEmitted is the age of a real announcement, as long as *)
(* the occurrence goes on.                                                 *)
Emitted ==
  \A k \in Keys :
    cadence[k].seen <= Max /\ cadence[k].emitted < Max => cadence[k].emitted \in told[k]

Inv == TypeOK /\ Parked /\ Emitted

LEMMA KeyOfType ==
  ASSUME NEW d \in Decisions, Describes(d), d.reason # "write"
  PROVE  KeyOf(d) \in Keys
BY DEF Decisions, Describes, KeyOf, Keys

(* The initial states satisfy the invariant: nothing is parked or seen. *)
LEMMA InvInit == Init => Inv
<1> SUFFICES ASSUME Init PROVE Inv
  OBVIOUS
<1>1. TypeOK
  <2>1. Quiet \in Decisions
    BY DEF Quiet, Decisions
  <2>2. Unseen \in [seen : 0..Max+1, emitted : 0..Max, count : 0..Repeats]
    BY BackoffAssumption DEF Unseen
  <2>3. recorder \in BOOLEAN /\ change \in BOOLEAN
    BY DEF Init
  <2>4. cadence \in [Keys -> [seen : 0..Max+1, emitted : 0..Max, count : 0..Repeats]]
    BY <2>2 DEF Init
  <2>5. pc \in {"idle", "announce"} /\ untold \in Int /\ told \in [Keys -> SUBSET (0..Max-1)]
    BY DEF Init
  <2> QED
    BY <2>1, <2>3, <2>4, <2>5 DEF Init, TypeOK
<1>2. Parked
  BY DEF Init, Parked
<1>3. Emitted
  BY BackoffAssumption DEF Init, Emitted, Unseen
<1> QED
  BY <1>1, <1>2, <1>3 DEF Inv

LEMMA InvObserve ==
  ASSUME Inv, NEW d \in Decisions, NEW drift \in BOOLEAN, Observe(d, drift)
  PROVE  Inv'
<1>1. TypeOK'
  BY DEF Inv, TypeOK, Observe
<1>2. Parked'
  BY DEF Inv, TypeOK, Parked, Observe
<1>3. Emitted'
  BY DEF Inv, Emitted, Observe
<1> QED
  BY <1>1, <1>2, <1>3 DEF Inv

(* What due leaves for a key is a cadence seen just now. *)
LEMMA SightedType ==
  ASSUME NEW c \in [seen : 0..Max+1, emitted : 0..Max, count : 0..Repeats]
  PROVE  /\ Sighted(c) \in [seen : 0..Max+1, emitted : 0..Max, count : 0..Repeats]
         /\ Due(c) => Sighted(c).emitted = 0
         /\ ~Due(c) => Sighted(c).emitted = c.emitted
BY BackoffAssumption DEF Sighted, Due, NewOccurrence

LEMMA InvAnnounce == Inv /\ Announce => Inv'
<1> SUFFICES ASSUME Inv, Announce PROVE Inv'
  OBVIOUS
<1> DEFINE k == KeyOf(decision)
           Held == recorder /\ Describes(decision) /\ decision.reason # "write"
<1>0. TypeOK /\ Parked /\ Emitted
  BY DEF Inv
<1>1. Held => k \in Keys
  BY <1>0, KeyOfType DEF TypeOK
<1>2. /\ Held => /\ cadence' = [cadence EXCEPT ![k] = Sighted(cadence[k])]
                 /\ told' = IF Due(cadence[k]) THEN [told EXCEPT ![k] = @ \cup {0}] ELSE told
      /\ ~Held => UNCHANGED <<cadence, told>>
  BY DEF Announce
<1>3. cadence' \in [Keys -> [seen : 0..Max+1, emitted : 0..Max, count : 0..Repeats]]
  BY <1>0, <1>1, <1>2, SightedType DEF TypeOK
<1>4. told' \in [Keys -> SUBSET (0..Max-1)]
  BY <1>0, <1>1, <1>2, BackoffAssumption DEF TypeOK
<1>5. TypeOK'
  <2>1. Quiet \in Decisions
    BY DEF Quiet, Decisions
  <2>2. recorder' \in BOOLEAN /\ change' \in BOOLEAN
    BY <1>0 DEF TypeOK, Announce, ChangeLeft
  <2>3. pc' \in {"idle", "announce"} /\ decision' = Quiet
    BY DEF Announce
  <2>4. untold' \in Int
    <3>1. untold \in Int /\ (untold' = untold - 1 \/ untold' = untold)
      BY <1>0 DEF TypeOK, Announce
    <3> QED
      BY <3>1
  <2> QED
    BY <1>3, <1>4, <2>1, <2>2, <2>3, <2>4 DEF TypeOK
<1>6. Parked'
  <2>1. ~change' /\ recorder' = recorder
    BY DEF Announce, ChangeLeft
  <2>2. recorder => untold' = 0
    <3>1. CASE recorder /\ change
      BY <3>1, <1>0 DEF Parked, Announce
    <3>2. CASE recorder /\ ~change
      BY <3>2, <1>0 DEF Parked, Announce
    <3> QED
      BY <3>1, <3>2
  <2> QED
    BY <2>1, <2>2 DEF Parked
<1>7. Emitted'
  <2> SUFFICES ASSUME NEW j \in Keys, cadence'[j].seen <= Max, cadence'[j].emitted < Max
               PROVE  cadence'[j].emitted \in told'[j]
    BY DEF Emitted
  <2>1. CASE ~Held
    BY <2>1, <1>0, <1>2 DEF Emitted
  <2>2. CASE Held /\ j # k
    BY <2>2, <1>0, <1>1, <1>2 DEF Emitted, TypeOK
  <2>3. CASE Held /\ j = k /\ Due(cadence[k])
    <3>1. cadence'[j].emitted = 0
      BY <2>3, <1>0, <1>1, <1>2, SightedType DEF TypeOK
    <3>2. told'[j] = told[j] \cup {0}
      BY <2>3, <1>0, <1>1, <1>2 DEF TypeOK
    <3> QED
      BY <3>1, <3>2
  <2>4. CASE Held /\ j = k /\ ~Due(cadence[k])
    <3>1. cadence'[j].emitted = cadence[j].emitted /\ told'[j] = told[j]
      BY <2>4, <1>0, <1>1, <1>2, SightedType DEF TypeOK
    <3>2. cadence[j].seen <= Max
      BY <2>4, <1>0, BackoffAssumption DEF Due, NewOccurrence, TypeOK
    <3> QED
      BY <3>1, <3>2, <1>0 DEF Emitted
  <2> QED
    BY <2>1, <2>2, <2>3, <2>4
<1> QED
  BY <1>5, <1>6, <1>7 DEF Inv

LEMMA InvTick == Inv /\ Tick => Inv'
<1> SUFFICES ASSUME Inv, Tick PROVE Inv'
  OBVIOUS
<1>0. TypeOK /\ Parked /\ Emitted
  BY DEF Inv
<1>1. \A k \in Keys :
        /\ cadence'[k] = [seen    |-> Older(cadence[k].seen, Max + 1),
                          emitted |-> Older(cadence[k].emitted, Max),
                          count   |-> cadence[k].count]
        /\ told'[k] = {a + 1 : a \in {b \in told[k] : b + 1 < Max}}
  BY DEF Tick
<1>2. cadence' \in [Keys -> [seen : 0..Max+1, emitted : 0..Max, count : 0..Repeats]]
  BY <1>0, BackoffAssumption DEF Tick, TypeOK, Older
<1>3. told' \in [Keys -> SUBSET (0..Max-1)]
  <2>1. \A k \in Keys : {a + 1 : a \in {b \in told[k] : b + 1 < Max}} \in SUBSET (0..Max-1)
    BY <1>0, BackoffAssumption DEF TypeOK
  <2> QED
    BY <2>1 DEF Tick
<1>4. TypeOK'
  BY <1>0, <1>2, <1>3 DEF TypeOK, Tick
<1>5. Parked'
  BY <1>0 DEF Parked, Tick
<1>6. Emitted'
  <2> SUFFICES ASSUME NEW k \in Keys, cadence'[k].seen <= Max, cadence'[k].emitted < Max
               PROVE  cadence'[k].emitted \in told'[k]
    BY DEF Emitted
  <2>1. cadence[k] \in [seen : 0..Max+1, emitted : 0..Max, count : 0..Repeats]
    BY <1>0 DEF TypeOK
  <2>2. /\ cadence[k].seen <= Max
        /\ cadence[k].emitted < Max
        /\ cadence'[k].emitted = cadence[k].emitted + 1
    <3>1. /\ cadence'[k].seen = Older(cadence[k].seen, Max + 1)
          /\ cadence'[k].emitted = Older(cadence[k].emitted, Max)
      <4>1. cadence'[k] = [seen    |-> Older(cadence[k].seen, Max + 1),
                           emitted |-> Older(cadence[k].emitted, Max),
                           count   |-> cadence[k].count]
        BY <1>1
      <4> QED
        BY <4>1
    <3>2. cadence[k].seen \in 0..Max+1 /\ cadence[k].emitted \in 0..Max
      BY <2>1
    <3> QED
      BY <3>1, <3>2, BackoffAssumption DEF Older
  <2>3. cadence[k].emitted \in {b \in told[k] : b + 1 < Max}
    BY <2>1, <2>2, <1>0, BackoffAssumption DEF Emitted
  <2> QED
    BY <1>1, <2>2, <2>3
<1> QED
  BY <1>4, <1>5, <1>6 DEF Inv

LEMMA InvNext == Inv /\ [Next]_vars => Inv'
<1> SUFFICES ASSUME Inv, [Next]_vars PROVE Inv'
  OBVIOUS
<1>1. ASSUME NEW d \in Decisions, NEW drift \in BOOLEAN, Observe(d, drift) PROVE Inv'
  BY <1>1, InvObserve
<1>2. CASE Announce
  BY <1>2, InvAnnounce
<1>3. CASE Tick
  BY <1>3, InvTick
<1>4. CASE UNCHANGED vars
  BY <1>4 DEF vars, Inv, TypeOK, Parked, Emitted
<1> QED
  BY <1>1, <1>2, <1>3, <1>4 DEF Next

LEMMA Invariance == Spec => []Inv
BY InvInit, InvNext, PTL DEF Spec

(* Every external change is announced exactly once, by the reconcile that  *)
(* adopted it.                                                             *)
THEOREM ChangesAreToldOnce == Spec => []EveryChangeToldOnce
<1>1. Inv => EveryChangeToldOnce
  BY DEF Inv, Parked, EveryChangeToldOnce
<1> QED
  BY <1>1, Invariance, PTL

(* Whatever the backoff, a reconcile that holds leaves its reason among    *)
(* the announcements of the last Max.                                      *)
THEOREM HoldsAreKnown == Spec => HoldIsKnown
<1> DEFINE Heard == pc = "announce" /\ pc' = "idle" /\ recorder
                    /\ Describes(decision) /\ decision.reason # "write"
                      => told'[KeyOf(decision)] # {}
<1>1. ASSUME Inv, [Next]_vars PROVE [Heard]_vars
  <2> SUFFICES ASSUME pc = "announce", pc' = "idle", recorder,
                      Describes(decision), decision.reason # "write"
               PROVE  told'[KeyOf(decision)] # {}
    OBVIOUS
  <2> DEFINE k == KeyOf(decision)
  <2>1. Announce
    BY <1>1 DEF Next, Observe, Tick, vars
  <2>2. k \in Keys /\ TypeOK /\ Emitted
    BY <1>1, KeyOfType DEF Inv, TypeOK
  <2>3. told' = IF Due(cadence[k]) THEN [told EXCEPT ![k] = @ \cup {0}] ELSE told
    BY <2>1 DEF Announce
  <2>4. CASE Due(cadence[k])
    <3>1. 0 \in told'[k]
      BY <2>2, <2>3, <2>4 DEF TypeOK
    <3> QED
      BY <3>1
  <2>5. CASE ~Due(cadence[k])
    <3>1. cadence[k].seen <= Max /\ cadence[k].emitted < Max
      BY <2>2, <2>5, BackoffAssumption DEF Due, NewOccurrence, TypeOK
    <3>2. cadence[k].emitted \in told[k]
      BY <2>2, <3>1 DEF Emitted
    <3> QED
      BY <2>3, <2>5, <3>2
  <2> QED
    BY <2>4, <2>5
<1>2. Inv /\ [Next]_vars => [Heard]_vars
  BY <1>1
<1> QED
  BY <1>2, Invariance, PTL DEF Spec, HoldIsKnown

-----------------------------------------------------------------------------
(* Functions defined by recursion on the naturals, by a least              *)
(* counterexample.                                                         *)

\* A set of naturals has a least member.
LEMMA LeastNat ==
  ASSUME NEW B \in SUBSET Nat, B # {}
  PROVE  \E n \in B : \A m \in B : n <= m
<1> DEFINE R == OpToRel(<, Nat)
<1>1. IsWellFoundedOn(R, Nat)
  BY NatLessThanWellFounded
<1>2. \A m, k \in Nat : m < k => <<m, k>> \in R
  BY DEF OpToRel
<1> HIDE DEF R
<1>3. PICK n \in B : \A m \in B : ~ (<<m, n>> \in R)
  BY <1>1, WFMin
<1>4. ASSUME NEW m \in B PROVE n <= m
  <2>1. m \in Nat /\ n \in Nat
    OBVIOUS
  <2>2. ~(m < n)
    BY <1>2, <1>3, <2>1
  <2> QED
    BY <2>1, <2>2
<1> QED
  BY <1>4

\* h does what a recursive definition says, up to n.
UpTo(h, n, V, base, g) ==
  /\ h \in [0..n -> V]
  /\ \A m \in 0..n : h[m] = IF m = 0 THEN base ELSE g[m][h[m-1]]

LEMMA UpToExists ==
  ASSUME NEW V, NEW base \in V, NEW g \in [Nat -> [V -> V]], NEW n \in Nat
  PROVE  \E h : UpTo(h, n, V, base, g)
<1> DEFINE B == {m \in Nat : ~ \E h : UpTo(h, m, V, base, g)}
<1>1. SUFFICES ASSUME B # {} PROVE FALSE
  OBVIOUS
<1>2. PICK l \in B : \A m \in B : l <= m
  BY <1>1, LeastNat
<1>3. l # 0
  <2>1. UpTo([m \in 0..0 |-> base], 0, V, base, g)
    BY DEF UpTo
  <2> QED
    BY <2>1
<1>4. PICK h : UpTo(h, l - 1, V, base, g)
  <2>1. l - 1 \in Nat /\ l - 1 \notin B
    BY <1>2, <1>3
  <2> QED
    BY <2>1
<1> DEFINE k == [m \in 0..l |-> IF m = 0 THEN base ELSE g[m][h[m-1]]]
<1>5. \A m \in 0..l : m # 0 => m - 1 \in 0..(l-1) /\ h[m-1] \in V /\ g[m][h[m-1]] \in V
  <2> SUFFICES ASSUME NEW m \in 0..l, m # 0
               PROVE  m - 1 \in 0..(l-1) /\ h[m-1] \in V /\ g[m][h[m-1]] \in V
    OBVIOUS
  <2>1. m - 1 \in 0..(l-1) /\ m \in Nat
    OBVIOUS
  <2>2. h[m-1] \in V
    BY <1>4, <2>1 DEF UpTo
  <2> QED
    BY <2>1, <2>2
<1>6. \A m \in 0..(l-1) : m \in 0..l /\ k[m] = h[m]
  BY <1>4 DEF UpTo
<1>7. k \in [0..l -> V]
  BY <1>5
<1>8. \A m \in 0..l : k[m] = IF m = 0 THEN base ELSE g[m][k[m-1]]
  BY <1>5, <1>6
<1>9. UpTo(k, l, V, base, g)
  <2> HIDE DEF k
  <2> QED
    BY <1>7, <1>8 DEF UpTo
<1> QED
  BY <1>2, <1>9

LEMMA UpToAgree ==
  ASSUME NEW V, NEW base, NEW g, NEW n \in Nat, NEW h, NEW k,
         UpTo(h, n, V, base, g), UpTo(k, n + 1, V, base, g)
  PROVE  h[n] = k[n]
<1> DEFINE B == {m \in 0..n : h[m] # k[m]}
<1>1. SUFFICES ASSUME B # {} PROVE FALSE
  BY Z3
<1>2. PICK l \in B : \A m \in B : l <= m
  <2>1. B \in SUBSET Nat
    OBVIOUS
  <2> HIDE DEF B
  <2> QED
    BY <1>1, <2>1, LeastNat
<1>3. l \in 0..n /\ l \in 0..(n+1)
  BY <1>2
<1>4. l # 0
  BY <1>2, <1>3 DEF UpTo
<1>5. h[l-1] = k[l-1]
  BY <1>2, <1>3, <1>4
<1> QED
  BY <1>2, <1>3, <1>4, <1>5 DEF UpTo

Solves(f, V, base, g) ==
  /\ f \in [Nat -> V]
  /\ \A n \in Nat : f[n] = IF n = 0 THEN base ELSE g[n][f[n-1]]

\* A recursive definition on the naturals has a solution.
LEMMA RecursionExists ==
  ASSUME NEW V, NEW base \in V, NEW g \in [Nat -> [V -> V]]
  PROVE  \E f : Solves(f, V, base, g)
<1> DEFINE H == [n \in Nat |-> CHOOSE h : UpTo(h, n, V, base, g)]
           f == [n \in Nat |-> H[n][n]]
<1>1. \A n \in Nat : UpTo(H[n], n, V, base, g)
  BY UpToExists
<1> HIDE DEF H
<1>2. ASSUME NEW n \in Nat, n # 0 PROVE H[n-1][n-1] = H[n][n-1]
  <2>1. PICK m \in Nat : m = n - 1 /\ m + 1 = n
    BY <1>2
  <2>2. UpTo(H[m], m, V, base, g) /\ UpTo(H[m+1], m + 1, V, base, g)
    BY <1>1, <2>1
  <2>3. H[m][m] = H[m+1][m]
    BY <2>2, UpToAgree
  <2> QED
    BY <2>1, <2>3
<1>3. ASSUME NEW n \in Nat PROVE f[n] \in V /\ f[n] = IF n = 0 THEN base ELSE g[n][f[n-1]]
  <2>1. n \in 0..n /\ f[n] = H[n][n] /\ (n # 0 => n - 1 \in Nat /\ f[n-1] = H[n-1][n-1])
    OBVIOUS
  <2>2. H[n][n] \in V /\ H[n][n] = IF n = 0 THEN base ELSE g[n][H[n][n-1]]
    BY <1>1, <2>1 DEF UpTo
  <2> HIDE DEF f
  <2> QED
    BY <1>2, <2>1, <2>2
<1>4. f \in [Nat -> V]
  BY <1>3
<1> HIDE DEF f
<1>5. Solves(f, V, base, g)
  BY <1>3, <1>4 DEF Solves
<1> QED
  BY <1>5

-----------------------------------------------------------------------------
(* The limiter's intervals. *)

\* The interval after one of v.
Grown(v) ==
  LET grown == (v * FactorNum) \div FactorDen
  IN  IF v < Max /\ grown > v THEN grown ELSE v

LEMMA GrownType ==
  ASSUME NEW v \in Nat
  PROVE  Grown(v) \in Nat /\ v <= Grown(v)
<1>1. v * FactorNum \in Nat
  BY BackoffAssumption
<1>2. (v * FactorNum) \div FactorDen \in Nat
  BY <1>1, BackoffAssumption
<1> QED
  BY <1>2 DEF Grown

\* Interval is what its definition says.
LEMMA IntervalIs ==
  \A n \in Nat : Interval[n] = IF n <= 1 THEN Initial ELSE Grown(Interval[n-1])
<1> DEFINE g == [n \in Nat |-> [v \in Nat |-> IF n = 1 THEN Initial ELSE Grown(v)]]
           Fits(j) == j = [n \in Nat |-> IF n <= 1 THEN Initial ELSE Grown(j[n-1])]
<1>1. g \in [Nat -> [Nat -> Nat]] /\ Initial \in Nat
  BY GrownType, BackoffAssumption
<1>2. \A n, v \in Nat : g[n][v] = IF n = 1 THEN Initial ELSE Grown(v)
  OBVIOUS
<1> HIDE DEF g
<1>0. PICK f : Solves(f, Nat, Initial, g)
  BY <1>1, RecursionExists
<1>3. f \in [Nat -> Nat] /\ \A n \in Nat : f[n] = IF n = 0 THEN Initial ELSE g[n][f[n-1]]
  BY <1>0 DEF Solves
<1>4. Fits(f)
  <2>1. ASSUME NEW n \in Nat PROVE f[n] = IF n <= 1 THEN Initial ELSE Grown(f[n-1])
    <3>1. CASE n = 0
      <4>1. f[0] = Initial
        BY <1>3
      <4> HIDE DEF Fits
      <4> QED
        BY <3>1, <4>1
    <3>2. CASE n # 0
      <4>1. n - 1 \in Nat /\ f[n-1] \in Nat
        BY <1>3, <3>2
      <4>2. f[n] = IF n = 1 THEN Initial ELSE Grown(f[n-1])
        BY <1>2, <1>3, <3>2, <4>1
      <4>3. n <= 1 <=> n = 1
        BY <3>2
      <4> QED
        BY <4>2, <4>3
    <3> QED
      BY <3>1, <3>2
  <2> QED
    BY <1>3, <2>1
<1>5. Interval = CHOOSE j : Fits(j)
  BY DEF Interval, Grown
<1>6. Fits(Interval)
  <2> HIDE DEF Fits
  <2> QED
    BY <1>4, <1>5
<1> QED
  BY <1>6

\* Intervals are at least the initial one.
LEMMA IntervalType == \A n \in Nat : Interval[n] \in Nat /\ Initial <= Interval[n]
<1> DEFINE B == {n \in Nat : ~(Interval[n] \in Nat /\ Initial <= Interval[n])}
<1>1. SUFFICES ASSUME B # {} PROVE FALSE
  OBVIOUS
<1>2. PICK l \in B : \A m \in B : l <= m
  BY <1>1, LeastNat
<1>3. l > 1
  BY <1>2, IntervalIs, BackoffAssumption
<1>4. l - 1 \in Nat /\ Interval[l-1] \in Nat /\ Initial <= Interval[l-1]
  BY <1>2, <1>3
<1>5. Interval[l] = Grown(Interval[l-1])
  BY <1>2, <1>3, IntervalIs
<1>6. Grown(Interval[l-1]) \in Nat /\ Interval[l-1] <= Grown(Interval[l-1])
  BY <1>4, GrownType
<1> QED
  BY <1>2, <1>4, <1>5, <1>6, BackoffAssumption

\* They never get shorter.
LEMMA IntervalGrows ==
  ASSUME NEW m \in Nat, NEW n \in Nat, m <= n
  PROVE  Interval[m] <= Interval[n]
<1> DEFINE B == {l \in Nat : m <= l /\ ~(Interval[m] <= Interval[l])}
<1>1. SUFFICES ASSUME B # {} PROVE FALSE
  OBVIOUS
<1>2. PICK l \in B : \A k \in B : l <= k
  BY <1>1, LeastNat
<1>3. l # m
  BY <1>2, IntervalType
<1>4. l - 1 \in Nat /\ m <= l - 1
  BY <1>2, <1>3
<1>5. Interval[m] <= Interval[l-1]
  BY <1>2, <1>4
<1>6. Interval[l-1] <= Interval[l]
  <2>1. CASE l <= 1
    BY <1>4, <2>1, IntervalIs, BackoffAssumption
  <2>2. CASE l > 1
    <3>1. Interval[l] = Grown(Interval[l-1])
      BY <1>2, <2>2, IntervalIs
    <3> QED
      BY <1>4, <3>1, GrownType, IntervalType
  <2> QED
    BY <1>2, <2>1, <2>2
<1>7. Interval[m] \in Nat /\ Interval[l-1] \in Nat /\ Interval[l] \in Nat
  BY <1>2, <1>4, IntervalType
<1> QED
  BY <1>2, <1>5, <1>6, <1>7

LEMMA CycleType == \A n \in Nat : Cycle(n) \in 1..Max
BY IntervalType, BackoffAssumption DEF Cycle

LEMMA CycleGrows ==
  ASSUME NEW m \in Nat, NEW n \in Nat, m <= n
  PROVE  Cycle(m) <= Cycle(n)
BY IntervalType, IntervalGrows, BackoffAssumption DEF Cycle

\* Where counting stops, the cycle has stopped growing.
LEMMA CycleStops ==
  ASSUME NEW n \in Nat, Repeats <= n
  PROVE  Cycle(n) = Cycle(Repeats)
<1>0. Repeats \in Nat \ {0} /\ Max \in Nat /\ \A i \in Nat : Interval[i] \in Nat
  BY BackoffAssumption, IntervalType
<1>1. CASE Interval[Repeats] >= Max
  <2>1. Interval[n] >= Max
    BY <1>0, <1>1, IntervalGrows
  <2> QED
    BY <1>0, <1>1, <2>1 DEF Cycle
<1>2. CASE Interval[Repeats] < Max
  <2>1. Repeats + 1 \in Nat /\ ~(Repeats + 1 <= 1) /\ (Repeats + 1) - 1 = Repeats
    BY <1>0
  <2>2. Interval[Repeats + 1] = Interval[Repeats]
    BY <1>0, <1>2, <2>1, RepeatsAssumption DEF Cycle
  <2>3. Grown(Interval[Repeats]) = Interval[Repeats]
    BY <2>1, <2>2, IntervalIs
  <2> DEFINE B == {l \in Nat : Repeats <= l /\ Interval[l] # Interval[Repeats]}
  <2>4. B = {}
    <3> SUFFICES ASSUME B # {} PROVE FALSE
      OBVIOUS
    <3>1. PICK l \in B : \A k \in B : l <= k
      BY LeastNat
    <3>2. l # Repeats
      BY <3>1
    <3>3. l - 1 \in Nat /\ Repeats <= l - 1 /\ ~(l <= 1)
      BY <1>0, <3>1, <3>2
    <3>4. Interval[l-1] = Interval[Repeats]
      BY <3>1, <3>3
    <3>5. Interval[l] = Grown(Interval[l-1])
      BY <3>1, <3>3, IntervalIs
    <3> QED
      BY <2>3, <3>1, <3>4, <3>5
  <2>5. Interval[n] = Interval[Repeats]
    BY <2>4
  <2> QED
    BY <2>5 DEF Cycle
<1> QED
  BY <1>0, <1>1, <1>2

\* A repeat that was counted up to Repeats at most waits as long as one counted on.
LEMMA CycleCounted ==
  ASSUME NEW n \in Nat, NEW count \in 0..Repeats, n <= count \/ count = Repeats
  PROVE  Cycle(n) <= Cycle(count)
<1>1. Repeats \in Nat /\ count \in Nat
  BY BackoffAssumption
<1>2. CASE n <= count
  BY <1>1, <1>2, CycleGrows
<1>3. CASE count = Repeats /\ ~(n <= count)
  <2>1. Cycle(n) = Cycle(Repeats)
    BY <1>1, <1>3, CycleStops
  <2> QED
    BY <1>1, <1>3, <2>1, CycleType
<1> QED
  BY <1>2, <1>3

LEMMA OffsetIs ==
  \A n \in Nat : Offset[n] = IF n = 0 THEN 0 ELSE Offset[n-1] + Cycle(n)
<1> DEFINE g == [n \in Nat |-> [v \in Int |-> v + Cycle(n)]]
           Fits(j) == j = [n \in Nat |-> IF n = 0 THEN 0 ELSE j[n-1] + Cycle(n)]
<1>1. g \in [Nat -> [Int -> Int]] /\ 0 \in Int
  BY CycleType, BackoffAssumption
<1>2. \A n \in Nat, v \in Int : g[n][v] = v + Cycle(n)
  OBVIOUS
<1> HIDE DEF g
<1>0. PICK f : Solves(f, Int, 0, g)
  BY <1>1, RecursionExists
<1>3. f \in [Nat -> Int] /\ \A n \in Nat : f[n] = IF n = 0 THEN 0 ELSE g[n][f[n-1]]
  BY <1>0 DEF Solves
<1>4. Fits(f)
  <2>1. ASSUME NEW n \in Nat PROVE f[n] = IF n = 0 THEN 0 ELSE f[n-1] + Cycle(n)
    BY <1>2, <1>3
  <2> QED
    BY <1>3, <2>1
<1>5. Offset = CHOOSE j : Fits(j)
  BY DEF Offset
<1>6. Fits(Offset)
  <2> HIDE DEF Fits
  <2> QED
    BY <1>4, <1>5
<1> QED
  BY <1>6

LEMMA OffsetType == \A n \in Nat : Offset[n] \in Nat /\ n <= Offset[n]
<1> DEFINE B == {n \in Nat : ~(Offset[n] \in Nat /\ n <= Offset[n])}
<1>1. SUFFICES ASSUME B # {} PROVE FALSE
  OBVIOUS
<1>2. PICK l \in B : \A m \in B : l <= m
  BY <1>1, LeastNat
<1>3. l # 0
  BY <1>2, OffsetIs
<1>4. l - 1 \in Nat /\ Offset[l-1] \in Nat /\ l - 1 <= Offset[l-1]
  BY <1>2, <1>3
<1>5. Offset[l] = Offset[l-1] + Cycle(l) /\ Cycle(l) \in Nat /\ Cycle(l) >= 1
  BY <1>2, <1>3, OffsetIs, CycleType, BackoffAssumption
<1> QED
  BY <1>2, <1>4, <1>5

LEMMA OffsetGrows ==
  ASSUME NEW m \in Nat, NEW n \in Nat, m <= n
  PROVE  Offset[m] <= Offset[n]
<1> DEFINE B == {l \in Nat : m <= l /\ ~(Offset[m] <= Offset[l])}
<1>1. SUFFICES ASSUME B # {} PROVE FALSE
  OBVIOUS
<1>2. PICK l \in B : \A k \in B : l <= k
  BY <1>1, LeastNat
<1>3. l # m
  BY <1>2, OffsetType
<1>4. l - 1 \in Nat /\ m <= l - 1 /\ l # 0
  BY <1>2, <1>3
<1>5. Offset[m] <= Offset[l-1]
  BY <1>2, <1>4
<1>6. Offset[l] = Offset[l-1] + Cycle(l) /\ Cycle(l) \in Nat
  BY <1>2, <1>4, OffsetIs, CycleType, BackoffAssumption
<1> QED
  BY <1>2, <1>4, <1>5, <1>6, OffsetType

-----------------------------------------------------------------------------
(* The spacing of announcements. *)

Between(T, a, b) == {x \in T : a < x /\ x <= b}

\* Any two announcements are as far apart as those of a hold that never paused,
\* with as many between them.
Spaced(T) ==
  \A a, b \in T : a <= b => Offset[Cardinality(Between(T, a, b))] <= b - a

\* The cadence knows the last announcement, and counts at least those still told.
Counted(c, T) ==
  T # {} =>
    /\ c.emitted \in T /\ \A x \in T : c.emitted <= x
    /\ 1 <= c.count
    /\ Cardinality(T) <= c.count \/ c.count = Repeats

\* A reason was not announced without being sighted.
Seen(c) == c.seen <= c.emitted \/ c.emitted = Max

Cadenced ==
  \A k \in Keys :
    Seen(cadence[k]) /\ Counted(cadence[k], told[k]) /\ Spaced(told[k])

Ages == SUBSET (0..Max-1)
Cadence == [seen : 0..Max+1, emitted : 0..Max, count : 0..Repeats]

LEMMA AgesFinite ==
  ASSUME NEW T \in Ages
  PROVE  /\ IsFiniteSet(T) /\ Cardinality(T) \in Nat
         /\ \A a, b : IsFiniteSet(Between(T, a, b)) /\ Cardinality(Between(T, a, b)) \in Nat
<1>1. IsFiniteSet(0..Max-1)
  BY FS_Interval, BackoffAssumption
<1>2. IsFiniteSet(T)
  BY <1>1, FS_Subset DEF Ages
<1>3. \A a, b : Between(T, a, b) \in SUBSET T
  BY DEF Between
<1> QED
  BY <1>2, <1>3, FS_Subset, FS_CardinalityType

\* A hold announced now, as long after the last as the cadence demands.
LEMMA SpacedAdd ==
  ASSUME NEW T \in Ages, Spaced(T), NEW e \in T, \A x \in T : e <= x,
         Cycle(Cardinality(T)) <= e
  PROVE  Spaced(T \cup {0})
<1> DEFINE U == T \cup {0}
<1>1. IsFiniteSet(T) /\ Cardinality(T) \in Nat /\ Max \in Nat
  BY AgesFinite, BackoffAssumption
<1>2. \A x \in T : x \in Nat /\ e <= x
  BY DEF Ages
<1>3. e >= 1
  BY <1>1, <1>2, CycleType
<1> SUFFICES ASSUME NEW a \in U, NEW b \in U, a <= b
             PROVE  Offset[Cardinality(Between(U, a, b))] <= b - a
  BY DEF Spaced
<1>4. CASE b = 0
  <2>1. a = 0
    BY <1>2, <1>3, <1>4
  <2>2. \A x \in U : x \in Nat
    BY <1>2
  <2>3. Between(U, a, b) = {}
    <3>1. ASSUME NEW x \in U PROVE ~(a < x /\ x <= b)
      BY <1>4, <2>1, <2>2
    <3> QED
      BY <3>1 DEF Between
  <2> QED
    BY <1>4, <2>1, <2>3, FS_EmptySet, OffsetIs
<1>5. CASE b # 0 /\ a # 0
  <2>1. a \in T /\ b \in T
    BY <1>5
  <2>2. Between(U, a, b) = Between(T, a, b)
    BY <1>2, <1>5, <2>1 DEF Between
  <2> QED
    BY <2>1, <2>2 DEF Spaced
<1>6. CASE b # 0 /\ a = 0
  <2> DEFINE P == Between(T, e, b)
  <2>1. b \in T /\ b \in Nat /\ e \in Nat
    BY <1>2, <1>6
  <2>2. Between(U, a, b) = P \cup {e} /\ e \notin P
    <3>1. \A x \in T : e < x \/ x = e
      BY <1>2, <2>1
    <3>2. \A x \in T : a < x /\ x <= b <=> (e < x /\ x <= b) \/ x = e
      BY <1>2, <1>3, <1>6, <2>1, <3>1
    <3>3. ~(a < 0) /\ ~(e < e)
      BY <1>6, <2>1
    <3>4. ASSUME NEW x \in U
          PROVE  x \in Between(U, a, b) <=> x \in P \cup {e}
      <4>1. CASE x \in T
        BY <3>2, <4>1 DEF Between
      <4>2. CASE x \notin T
        BY <3>3, <4>2 DEF Between
      <4> QED
        BY <4>1, <4>2
    <3>5. Between(U, a, b) \in SUBSET U /\ P \cup {e} \in SUBSET U
      BY DEF Between
    <3> QED
      BY <3>3, <3>4, <3>5 DEF Between
  <2>3. IsFiniteSet(P) /\ Cardinality(P) \in Nat
    BY AgesFinite
  <2>4. Cardinality(P \cup {e}) = Cardinality(P) + 1
    BY <2>2, <2>3, FS_AddElement
  <2>5. Cardinality(P) + 1 <= Cardinality(T)
    <3>1. P \cup {e} \in SUBSET T
      BY DEF Between
    <3>2. Cardinality(P \cup {e}) <= Cardinality(T)
      BY <1>1, <3>1, FS_Subset
    <3> QED
      BY <2>4, <3>2
  <2>6. Offset[Cardinality(P)] <= b - e
    BY <1>2, <2>1 DEF Spaced
  <2> HIDE DEF P
  <2>7. Offset[Cardinality(P) + 1] = Offset[Cardinality(P)] + Cycle(Cardinality(P) + 1)
    <3>1. Cardinality(P) + 1 \in Nat /\ Cardinality(P) + 1 # 0
          /\ (Cardinality(P) + 1) - 1 = Cardinality(P)
      BY <2>3
    <3> QED
      BY <3>1, OffsetIs
  <2>8. Cycle(Cardinality(P) + 1) <= Cycle(Cardinality(T))
    BY <1>1, <2>3, <2>5, CycleGrows
  <2>9. /\ Offset[Cardinality(P)] \in Nat
        /\ Cycle(Cardinality(P) + 1) \in Nat /\ Cycle(Cardinality(T)) \in Nat
    <3>1. Cardinality(P) + 1 \in Nat
      BY <2>3
    <3> QED
      BY <1>1, <2>3, <3>1, OffsetType, CycleType
  <2>10. Offset[Cardinality(P) + 1] <= b
    BY <2>1, <2>6, <2>7, <2>8, <2>9
  <2> QED
    BY <1>6, <2>1, <2>2, <2>4, <2>10
<1> QED
  BY <1>4, <1>5, <1>6

Aged(T) == {a + 1 : a \in {b \in T : b + 1 < Max}}

\* What ages is no more than it was, and as far apart.
LEMMA AgedIs ==
  ASSUME NEW T \in Ages
  PROVE  Aged(T) \in Ages /\ \A x \in Aged(T) : x \in Nat /\ x - 1 \in T
<1>1. \A a \in T : a \in Nat
  BY BackoffAssumption DEF Ages
<1> QED
  BY <1>1, BackoffAssumption DEF Aged, Ages

LEMMA AgedFewer ==
  ASSUME NEW T \in Ages, NEW P \in SUBSET Aged(T), NEW Q \in SUBSET T,
         \A x \in P : x - 1 \in Q
  PROVE  Cardinality(P) <= Cardinality(Q)
<1> DEFINE f == [x \in P |-> x - 1]
<1>1. \A x \in P : x \in Nat
  BY AgedIs
<1>2. f \in Injection(P, Q)
  BY <1>1 DEF Injection, IsInjective
<1>3. IsFiniteSet(Q)
  BY AgesFinite, FS_Subset
<1> QED
  BY <1>2, <1>3, FS_Injection

LEMMA SpacedAged ==
  ASSUME NEW T \in Ages, Spaced(T)
  PROVE  Spaced(Aged(T))
<1> SUFFICES ASSUME NEW a \in Aged(T), NEW b \in Aged(T), a <= b
             PROVE  Offset[Cardinality(Between(Aged(T), a, b))] <= b - a
  BY DEF Spaced
<1> DEFINE P == Between(Aged(T), a, b)
           Q == Between(T, a - 1, b - 1)
<1>1. \A x \in Aged(T) : x \in Nat /\ x - 1 \in T
  BY AgedIs
<1>2. P \in SUBSET Aged(T) /\ Q \in SUBSET T /\ \A x \in P : x - 1 \in Q
  BY <1>1 DEF Between
<1>3. Cardinality(P) \in Nat /\ Cardinality(Q) \in Nat
  BY AgedIs, AgesFinite
<1>4. Offset[Cardinality(Q)] <= (b - 1) - (a - 1)
  <2>1. a - 1 \in T /\ b - 1 \in T /\ a - 1 <= b - 1
    BY <1>1
  <2> QED
    BY <2>1 DEF Spaced
<1> HIDE DEF P, Q
<1>5. Cardinality(P) <= Cardinality(Q)
  BY <1>2, AgedFewer
<1>6. Offset[Cardinality(P)] <= Offset[Cardinality(Q)]
  BY <1>3, <1>5, OffsetGrows
<1>7. Offset[Cardinality(P)] \in Nat /\ Offset[Cardinality(Q)] \in Nat /\ a \in Nat /\ b \in Nat
  BY <1>1, <1>3, OffsetType
<1>8. Offset[Cardinality(P)] <= b - a
  BY <1>4, <1>6, <1>7
<1> QED
  BY <1>8 DEF P

\* What announce leaves for the reason it was asked about.
LEMMA CadencedSighted ==
  ASSUME NEW c \in Cadence, NEW T \in Ages, Seen(c), Counted(c, T), Spaced(T),
         NEW U, U = IF Due(c) THEN T \cup {0} ELSE T
  PROVE  Seen(Sighted(c)) /\ Counted(Sighted(c), U) /\ Spaced(U)
<1> DEFINE s == Sighted(c)
<1>0. /\ Initial \in Nat \ {0} /\ Max \in Nat /\ Repeats \in Nat \ {0}
      /\ c.seen \in 0..Max+1 /\ c.emitted \in 0..Max /\ c.count \in 0..Repeats
      /\ IsFiniteSet(T) /\ Cardinality(T) \in Nat
      /\ \A x \in T : x \in 0..Max-1
  BY AgesFinite, BackoffAssumption DEF Cadence, Ages
<1>1. CASE ~Due(c)
  <2>1. s = [c EXCEPT !.seen = 0] /\ U = T
    BY <1>1 DEF Sighted, Due, NewOccurrence
  <2>2. s.seen = 0 /\ s.emitted = c.emitted /\ s.count = c.count
    BY <2>1 DEF Cadence
  <2>3. Seen(s) /\ Counted(s, T)
    BY <1>0, <2>2 DEF Seen, Counted
  <2> QED
    BY <2>1, <2>3
<1>2. CASE Due(c)
  <2>1. U = T \cup {0} /\ s.seen = 0 /\ s.emitted = 0
    BY <1>2 DEF Sighted
  <2>2. Seen(s)
    BY <2>1 DEF Seen
  <2>3. \A x \in U : 0 <= x
    BY <1>0, <2>1
  <2>4. CASE T = {}
    <3>1. 1 <= s.count
      BY <1>0, <1>2 DEF Sighted
    <3>2. U = {0} /\ Cardinality(U) = 1
      BY <2>1, <2>4, FS_Singleton
    <3>3. Counted(s, U)
      BY <2>1, <2>3, <3>1, <3>2 DEF Counted
    <3>4. Spaced(U)
      <4>1. \A a, b \in U : Between(U, a, b) = {} /\ b - a = 0
        BY <3>2 DEF Between
      <4>2. Offset[Cardinality({})] = 0
        BY FS_EmptySet, OffsetIs
      <4>3. ASSUME NEW a \in U, NEW b \in U
            PROVE  Offset[Cardinality(Between(U, a, b))] = b - a /\ b - a = 0
        BY <4>1, <4>2
      <4>4. ASSUME NEW a \in U, NEW b \in U
            PROVE  Offset[Cardinality(Between(U, a, b))] <= b - a
        BY <4>3
      <4> QED
        BY <4>4 DEF Spaced
    <3> QED
      BY <2>2, <3>3, <3>4
  <2>5. CASE T # {}
    <3>1. /\ c.emitted \in T /\ \A x \in T : c.emitted <= x
          /\ 1 <= c.count /\ (Cardinality(T) <= c.count \/ c.count = Repeats)
      BY <2>5 DEF Counted
    <3>2. c.emitted < Max /\ c.seen <= c.emitted
      BY <1>0, <3>1 DEF Seen
    <3>3. ~NewOccurrence(c)
      BY <1>0, <3>2 DEF NewOccurrence
    <3>4. c.emitted >= Interval[c.count]
      BY <1>0, <1>2, <3>2, <3>3 DEF Due
    <3>5. Cycle(c.count) <= c.emitted
      BY <1>0, <3>2, <3>4, IntervalType DEF Cycle
    <3>6. Cycle(Cardinality(T)) <= c.emitted
      <4>1. Cycle(Cardinality(T)) <= Cycle(c.count)
        BY <1>0, <3>1, CycleCounted
      <4> QED
        BY <1>0, <3>5, <4>1, CycleType
    <3>7. Spaced(U)
      BY <2>1, <3>1, <3>6, SpacedAdd
    <3>8. s.count = IF c.count < Repeats THEN c.count + 1 ELSE Repeats
      BY <1>2, <3>3 DEF Sighted
    <3>9. Cardinality(U) <= Cardinality(T) + 1 /\ Cardinality(U) \in Nat
      <4>1. Cardinality(T \cup {0}) = IF 0 \in T THEN Cardinality(T) ELSE Cardinality(T) + 1
        BY <1>0, FS_AddElement
      <4>2. Cardinality(U) = Cardinality(T) \/ Cardinality(U) = Cardinality(T) + 1
        BY <2>1, <4>1
      <4>3. Cardinality(T) \in Nat
        BY AgesFinite
      <4> QED
        BY <4>2, <4>3
    <3>10. Counted(s, U)
      BY <1>0, <2>1, <2>3, <3>1, <3>8, <3>9 DEF Counted
    <3> QED
      BY <2>2, <3>7, <3>10
  <2> QED
    BY <2>4, <2>5
<1> QED
  BY <1>1, <1>2

\* What time leaves of a reason's cadence.
LEMMA CadencedOlder ==
  ASSUME NEW c \in Cadence, NEW T \in Ages, Seen(c), Counted(c, T), Spaced(T), NEW d,
         d = [seen |-> Older(c.seen, Max + 1), emitted |-> Older(c.emitted, Max),
              count |-> c.count]
  PROVE  Seen(d) /\ Counted(d, Aged(T)) /\ Spaced(Aged(T))
<1>0. /\ Max \in Nat /\ Repeats \in Nat
      /\ c.seen \in 0..Max+1 /\ c.emitted \in 0..Max /\ c.count \in 0..Repeats
      /\ d.seen = Older(c.seen, Max + 1) /\ d.emitted = Older(c.emitted, Max)
      /\ d.count = c.count
  BY BackoffAssumption DEF Cadence
<1>1. Seen(d)
  BY <1>0 DEF Seen, Older
<1>2. Counted(d, Aged(T))
  <2> SUFFICES ASSUME Aged(T) # {}
               PROVE  /\ d.emitted \in Aged(T) /\ \A x \in Aged(T) : d.emitted <= x
                      /\ 1 <= d.count
                      /\ Cardinality(Aged(T)) <= d.count \/ d.count = Repeats
    BY DEF Counted
  <2>1. \A x \in T : x \in 0..Max-1
    BY DEF Ages
  <2>2. PICK a \in T : a + 1 < Max
    BY DEF Aged
  <2>3. /\ c.emitted \in T /\ \A x \in T : c.emitted <= x
        /\ 1 <= c.count /\ (Cardinality(T) <= c.count \/ c.count = Repeats)
    BY <2>2 DEF Counted
  <2>4. c.emitted + 1 < Max
    BY <1>0, <2>1, <2>2, <2>3
  <2>5. d.emitted = c.emitted + 1
    BY <1>0, <2>4 DEF Older
  <2>6. d.emitted \in Aged(T)
    BY <2>3, <2>4, <2>5 DEF Aged
  <2>7. \A x \in Aged(T) : d.emitted <= x
    BY <1>0, <2>1, <2>3, <2>5 DEF Aged
  <2>8. Cardinality(Aged(T)) <= Cardinality(T)
    BY AgedIs, AgedFewer
  <2>9. Cardinality(Aged(T)) \in Nat /\ Cardinality(T) \in Nat
    BY AgedIs, AgesFinite
  <2> QED
    BY <1>0, <2>3, <2>6, <2>7, <2>8, <2>9
<1>3. Spaced(Aged(T))
  BY SpacedAged
<1> QED
  BY <1>1, <1>2, <1>3

LEMMA CadencedInit == Init => Cadenced
<1> SUFFICES ASSUME Init, NEW k \in Keys
             PROVE  Seen(cadence[k]) /\ Counted(cadence[k], told[k]) /\ Spaced(told[k])
  BY DEF Cadenced
<1>1. cadence[k] = Unseen /\ told[k] = {}
  BY DEF Init
<1> QED
  BY <1>1 DEF Unseen, Seen, Counted, Spaced

LEMMA CadencedNext == Inv /\ Cadenced /\ [Next]_vars => Cadenced'
<1> SUFFICES ASSUME Inv, Cadenced, [Next]_vars, NEW j \in Keys
             PROVE  Seen(cadence[j])' /\ Counted(cadence[j], told[j])' /\ Spaced(told[j])'
  BY DEF Cadenced
<1>0. /\ cadence[j] \in Cadence /\ told[j] \in Ages /\ TypeOK
      /\ Seen(cadence[j]) /\ Counted(cadence[j], told[j]) /\ Spaced(told[j])
  BY DEF Inv, TypeOK, Cadenced, Cadence, Ages
<1>1. CASE UNCHANGED <<cadence, told>>
  BY <1>0, <1>1 DEF Seen, Counted, Spaced
<1>2. CASE Announce
  <2> DEFINE k == KeyOf(decision)
  <2>1. CASE ~(recorder /\ Describes(decision) /\ decision.reason # "write")
    BY <1>1, <1>2, <2>1 DEF Announce
  <2>2. CASE recorder /\ Describes(decision) /\ decision.reason # "write"
    <3>1. k \in Keys
      BY <1>0, <2>2, KeyOfType DEF TypeOK
    <3>2. /\ cadence' = [cadence EXCEPT ![k] = Sighted(cadence[k])]
          /\ told' = IF Due(cadence[k]) THEN [told EXCEPT ![k] = @ \cup {0}] ELSE told
      BY <1>2, <2>2 DEF Announce
    <3>3. CASE j = k
      <4>1. cadence'[j] = Sighted(cadence[j])
        BY <1>0, <3>1, <3>2, <3>3 DEF TypeOK
      <4>2. told'[j] = IF Due(cadence[j]) THEN told[j] \cup {0} ELSE told[j]
        BY <1>0, <3>1, <3>2, <3>3 DEF TypeOK
      <4>3. Seen(Sighted(cadence[j])) /\ Counted(Sighted(cadence[j]), told'[j]) /\ Spaced(told'[j])
        BY <1>0, <4>2, CadencedSighted
      <4> QED
        BY <4>1, <4>3 DEF Seen, Counted, Spaced
    <3>4. CASE j # k
      <4>1. cadence'[j] = cadence[j] /\ told'[j] = told[j]
        BY <1>0, <3>1, <3>2, <3>4 DEF TypeOK
      <4> QED
        BY <1>0, <4>1 DEF Seen, Counted, Spaced
    <3> QED
      BY <3>3, <3>4
  <2> QED
    BY <2>1, <2>2
<1>3. CASE Tick
  <2>1. /\ cadence'[j] = [seen    |-> Older(cadence[j].seen, Max + 1),
                          emitted |-> Older(cadence[j].emitted, Max),
                          count   |-> cadence[j].count]
        /\ told'[j] = Aged(told[j])
    BY <1>3 DEF Tick, Aged
  <2>2. Seen(cadence'[j]) /\ Counted(cadence'[j], Aged(told[j])) /\ Spaced(Aged(told[j]))
    BY <1>0, <2>1, CadencedOlder
  <2> QED
    BY <2>1, <2>2 DEF Seen, Counted, Spaced
<1> QED
  BY <1>1, <1>2, <1>3 DEF Next, Observe, vars

\* Spaced announcements are no more than those of a hold that never paused.
LEMMA SpacedFew ==
  ASSUME NEW T \in Ages, Spaced(T)
  PROVE  Cardinality(T) <= Allowed
<1> DEFINE A == {n \in 0..Max : Offset[n] < Max}
           t == Cardinality(T)
<1>0. Max \in Nat /\ t \in Nat /\ IsFiniteSet(T) /\ \A x \in T : x \in 0..Max-1
  BY BackoffAssumption, AgesFinite DEF Ages
<1>1. IsFiniteSet(A) /\ Cardinality(A) \in Nat /\ Allowed = Cardinality(A)
  <2>1. IsFiniteSet(0..Max)
    BY <1>0, FS_Interval
  <2>2. IsFiniteSet(A)
    BY <2>1, FS_Subset
  <2> QED
    BY <2>2, FS_CardinalityType DEF Allowed
<1>2. CASE T = {}
  <2>1. t = 0
    BY <1>2, FS_EmptySet
  <2> QED
    BY <1>1, <2>1
<1>3. CASE T # {}
  <2>1. PICK a \in T : \A x \in T : a <= x
    <3>1. T \in SUBSET Nat
      BY <1>0
    <3> QED
      BY <1>3, <3>1, LeastNat
  <2>2. PICK b \in T : \A x \in T : x <= b
    <3> DEFINE C == {Max - x : x \in T}
    <3>1. C \in SUBSET Nat /\ C # {}
      BY <1>0, <1>3
    <3>2. PICK c \in C : \A y \in C : c <= y
      <4> HIDE DEF C
      <4> QED
        BY <3>1, LeastNat
    <3>3. PICK b \in T : c = Max - b
      OBVIOUS
    <3>4. \A x \in T : Max - b <= Max - x
      BY <3>2, <3>3
    <3> QED
      BY <1>0, <3>4
  <2>3. Between(T, a, b) = T \ {a}
    BY <1>0, <2>1, <2>2 DEF Between
  <2>4. Cardinality(T \ {a}) = t - 1
    BY <1>0, FS_RemoveElement
  <2>5. t - 1 \in Nat
    BY <1>0, <2>4, FS_RemoveElement, FS_CardinalityType
  <2>6. Offset[t - 1] < Max
    <3>1. Offset[t - 1] <= b - a
      BY <2>1, <2>2, <2>3, <2>4 DEF Spaced
    <3>2. Offset[t - 1] \in Nat
      BY <2>5, OffsetType
    <3> QED
      BY <1>0, <3>1, <3>2
  <2>7. 0..(t - 1) \in SUBSET A
    <3> SUFFICES ASSUME NEW n \in 0..(t - 1) PROVE n \in A
      OBVIOUS
    <3>1. n \in Nat /\ n <= t - 1
      BY <2>5
    <3>2. Offset[n] <= Offset[t - 1]
      BY <2>5, <3>1, OffsetGrows
    <3>3. Offset[n] \in Nat /\ Offset[t - 1] \in Nat /\ n <= Offset[n]
      BY <2>5, <3>1, OffsetType
    <3> QED
      BY <1>0, <2>6, <3>1, <3>2, <3>3
  <2>8. Cardinality(0..(t - 1)) = t
    BY <1>0, <2>5, FS_Interval
  <2> HIDE DEF A
  <2>9. Cardinality(0..(t - 1)) <= Cardinality(A)
    BY <1>1, <2>7, FS_Subset
  <2> QED
    BY <1>1, <2>8, <2>9
<1> QED
  BY <1>2, <1>3

(* However holds alternate, pause and come back, no reason is announced    *)
(* more often within Max than one that never stopped, for every backoff    *)
(* that validation accepts and every set of reasons.                       *)
THEOREM NeverAStream == Spec => []NoStream
<1>1. Inv /\ Cadenced => NoStream
  <2> SUFFICES ASSUME Inv, Cadenced, NEW k \in Keys
               PROVE  Cardinality(told[k]) <= Allowed
    BY DEF NoStream
  <2>1. told[k] \in Ages /\ Spaced(told[k])
    BY DEF Inv, TypeOK, Cadenced, Ages
  <2> QED
    BY <2>1, SpacedFew
<1>2. Spec => []Cadenced
  BY CadencedInit, CadencedNext, Invariance, PTL DEF Spec
<1> QED
  BY <1>1, <1>2, Invariance, PTL
=============================================================================
