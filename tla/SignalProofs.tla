---------------------------- MODULE SignalProofs ----------------------------
(***************************************************************************)
(* The signals.  The moving average stays between the smallest and the     *)
(* largest sum it was given, for every alpha and every fixed-point scale;  *)
(* the average utilization stays between the least and the most used pod   *)
(* that counts, for any number of pods; and a scraped sum the engine       *)
(* trusts is made of recent work, for any pods, bounds and clock skew.     *)
(***************************************************************************)
EXTENDS Demand, FiniteSetTheorems, WellFoundedInduction, TLAPS

(* The scrape, beside the average that is made of its sums. *)
CONSTANTS MaxWork, StaleAfter, Timeout, Skew
VARIABLES work, frozen, pc, elapsed, named, left, scraped, sample, recent

Signal == INSTANCE Pressure

-----------------------------------------------------------------------------
(* The moving average. *)

LEMMA AlphaMilliType == AlphaMilli \in 0..MilliScale
<1>1. Alpha * MilliScale \in 0..AlphaUnit * MilliScale
  <2>1. Alpha \in Nat /\ AlphaUnit - Alpha \in Nat /\ MilliScale \in Nat
    BY AlphaAssumption
  <2>2. Alpha * MilliScale \in Nat /\ (AlphaUnit - Alpha) * MilliScale \in Nat
    BY <2>1
  <2>3. (AlphaUnit - Alpha) * MilliScale = AlphaUnit * MilliScale - Alpha * MilliScale
    BY AlphaAssumption
  <2> QED
    BY <2>2, <2>3, AlphaAssumption
<1> QED
  BY <1>1, AlphaAssumption DEF AlphaMilli

(* A blend lies between any bounds of the two values it is made of. *)
LEMMA BlendBetween ==
  ASSUME NEW milli \in Nat, NEW raw \in Nat, NEW lo \in Nat, NEW hi \in Nat,
         lo <= milli, milli <= hi, lo <= raw * MilliScale, raw * MilliScale <= hi
  PROVE  Blend(milli, raw) \in Nat /\ lo <= Blend(milli, raw) /\ Blend(milli, raw) <= hi
<1> DEFINE a == AlphaMilli
           b == MilliScale - AlphaMilli
           x == raw * MilliScale
<1>1. a \in Nat /\ b \in Nat /\ a + b = MilliScale /\ MilliScale \in Nat \ {0} /\ x \in Nat
  BY AlphaMilliType, AlphaAssumption
<1>2. ASSUME NEW p \in Nat, NEW q \in Nat, NEW r \in Nat, p <= q PROVE r * p <= r * q
  BY <1>2
<1> HIDE DEF a, b, x
<1>3. a * lo <= a * x /\ a * x <= a * hi
  BY <1>1, <1>2 DEF x
<1>4. b * lo <= b * milli /\ b * milli <= b * hi
  BY <1>1, <1>2
<1>5. a * lo + b * lo = MilliScale * lo /\ a * hi + b * hi = MilliScale * hi
  BY <1>1
<1> DEFINE t == a * x + b * milli
<1>6. t \in Nat /\ MilliScale * lo <= t /\ t <= MilliScale * hi
  BY <1>1, <1>3, <1>4, <1>5
<1> HIDE DEF t
<1>7. t \div MilliScale \in Nat /\ lo <= t \div MilliScale /\ t \div MilliScale <= hi
  BY <1>1, <1>6
<1> QED
  BY <1>7 DEF Blend, a, b, x, t

(* Rounding halves up keeps whole bounds. *)
LEMMA RoundedBetween ==
  ASSUME NEW milli \in Nat, NEW lo \in Nat, NEW hi \in Nat,
         lo * MilliScale <= milli, milli <= hi * MilliScale
  PROVE  Rounded(milli) \in lo..hi
<1> DEFINE h == MilliScale \div 2
<1>1. h \in Nat /\ h < MilliScale /\ MilliScale \in Nat \ {0}
  BY AlphaAssumption
<1> HIDE DEF h
<1>2. lo * MilliScale <= milli + h /\ milli + h < hi * MilliScale + MilliScale
  BY <1>1
<1>3. lo * MilliScale \in Nat /\ hi * MilliScale + MilliScale = (hi + 1) * MilliScale
  BY <1>1
<1>4. (milli + h) \div MilliScale \in lo..hi
  BY <1>1, <1>2, <1>3
<1> QED
  BY <1>4 DEF Rounded, h

(* The stored average lies between the extremes, in milli-items. *)
Between ==
  average.primed =>
    /\ extremes.least * MilliScale <= average.milli
    /\ average.milli <= extremes.most * MilliScale

Inv ==
  /\ TypeOK /\ Between
  /\ smoothed # NoAnswer => average.primed /\ smoothed = Rounded(average.milli)

LEMMA InvInit == Init => Inv
BY AlphaAssumption DEF Init, Inv, TypeOK, Between, Unprimed, NoAnswer

LEMMA InvCollect ==
  ASSUME Inv, Collect
  PROVE  Inv'
<1> DEFINE lo == IF average.primed THEN Smaller(extremes.least, items) ELSE items
           hi == IF average.primed THEN Larger(extremes.most, items) ELSE items
           milli == Applied(average, items)
<1>1. lo \in 0..MaxItems /\ hi \in 0..MaxItems /\ lo <= items /\ items <= hi
  BY AlphaAssumption DEF Inv, TypeOK, Smaller, Larger
<1>2. extremes' = [least |-> lo, most |-> hi]
  BY DEF Collect
<1>3. milli \in Nat /\ lo * MilliScale <= milli /\ milli <= hi * MilliScale
  <2>0. MilliScale \in Nat /\ items \in Nat /\ items * MilliScale \in Nat
    BY AlphaAssumption DEF Inv, TypeOK
  <2>1. ASSUME NEW p \in Nat, NEW q \in Nat, p <= q PROVE p * MilliScale <= q * MilliScale
    BY <2>1, <2>0
  <2>2. lo * MilliScale <= items * MilliScale /\ items * MilliScale <= hi * MilliScale
    BY <1>1, <2>0, <2>1, AlphaAssumption
  <2>3. CASE ~average.primed
    BY <2>0, <2>2, <2>3 DEF Applied
  <2>4. CASE average.primed
    <3>1. /\ average.milli \in Nat
          /\ lo <= extremes.least /\ extremes.most <= hi
          /\ extremes.least \in Nat /\ extremes.most \in Nat
      BY <2>4, AlphaAssumption DEF Inv, TypeOK, Smaller, Larger
    <3>2. lo * MilliScale <= extremes.least * MilliScale
          /\ extremes.most * MilliScale <= hi * MilliScale
      BY <1>1, <2>1, <3>1
    <3>3. /\ lo * MilliScale \in Nat /\ hi * MilliScale \in Nat
          /\ extremes.least * MilliScale \in Nat /\ extremes.most * MilliScale \in Nat
      BY <1>1, <2>0, <3>1
    <3>4. lo * MilliScale <= average.milli /\ average.milli <= hi * MilliScale
      BY <2>4, <3>1, <3>2, <3>3 DEF Inv, Between
    <3>5. milli = Blend(average.milli, items)
      BY <2>4 DEF Applied
    <3> HIDE DEF lo, hi, milli
    <3> QED
      BY <2>0, <2>2, <3>1, <3>3, <3>4, <3>5, BlendBetween
  <2> QED
    BY <2>3, <2>4
<1>4. average' = [primed |-> TRUE, milli |-> milli] /\ items' = items /\ smoothed' = Rounded(average'.milli)
  BY DEF Collect
<1> HIDE DEF lo, hi, milli
<1>5. Rounded(milli) \in lo..hi
  BY <1>1, <1>3, RoundedBetween
<1> QED
  BY <1>1, <1>2, <1>3, <1>4, <1>5 DEF Inv, TypeOK, Between

LEMMA InvNext == Inv /\ [Next]_vars => Inv'
<1> SUFFICES ASSUME Inv, [Next]_vars PROVE Inv'
  OBVIOUS
<1>1. CASE Collect
  BY <1>1, InvCollect
<1>2. CASE CollectNothing
  BY <1>2 DEF CollectNothing, Inv, TypeOK, Between, NoAnswer
<1>3. CASE Reset
  BY <1>3 DEF Reset, Inv, TypeOK, Between, Unprimed, NoAnswer
<1>4. CASE UNCHANGED <<items, average, smoothed, extremes>>
  BY <1>4 DEF Inv, TypeOK, Between
<1>5. CASE WorkChanges
  BY <1>5 DEF WorkChanges, Inv, TypeOK, Between
<1> QED
  BY <1>1, <1>2, <1>3, <1>4, <1>5 DEF Next, vars

(* Whatever alpha, the value the engine sees lies between the least and    *)
(* the most that was measured since the last reset.                        *)
THEOREM AverageBounded == Spec => []AverageIsMeasured
<1>1. Inv => AverageIsMeasured
  <2> SUFFICES ASSUME Inv, smoothed # NoAnswer
               PROVE  smoothed \in extremes.least..extremes.most
    BY DEF AverageIsMeasured
  <2>1. /\ average.milli \in Nat /\ extremes.least \in Nat /\ extremes.most \in Nat
        /\ extremes.least * MilliScale <= average.milli
        /\ average.milli <= extremes.most * MilliScale
        /\ smoothed = Rounded(average.milli)
    BY AlphaAssumption DEF Inv, TypeOK, Between
  <2> QED
    BY <2>1, RoundedBetween
<1> QED
  BY <1>1, InvInit, InvNext, PTL DEF Spec

-----------------------------------------------------------------------------
(* Sums over finite sets, by a least counterexample. *)

\* A set of naturals has a least member.
LEMMA LeastNat ==
  ASSUME NEW B \in SUBSET Nat, B # {}
  PROVE  \E n \in B : \A m \in B : n <= m
<1> DEFINE R == OpToRel(<, Nat)
<1>1. IsWellFoundedOn(R, Nat)
  BY NatLessThanWellFounded
<1>2. \A m, k \in Nat : m < k => <<m, k>> \in R
  BY DEF OpToRel
<1> HIDE DEF R
<1>3. PICK n \in B : \A m \in B : ~ (<<m, n>> \in R)
  BY <1>1, WFMin
<1>4. ASSUME NEW m \in B PROVE n <= m
  <2>1. m \in Nat /\ n \in Nat
    OBVIOUS
  <2>2. ~(m < n)
    BY <1>2, <1>3, <2>1
  <2> QED
    BY <2>1, <2>2
<1> QED
  BY <1>4

\* A set of subsets of a finite set has one that is minimal in it.
LEMMA LeastSubset ==
  ASSUME NEW S, IsFiniteSet(S), NEW B \in SUBSET (SUBSET S), B # {}
  PROVE  \E s \in B : \A x \in s : s \ {x} \notin B
<1>1. \A s \in SUBSET S : Cardinality(s) \in Nat /\ \A x \in s : Cardinality(s \ {x}) = Cardinality(s) - 1
  BY FS_Subset, FS_RemoveElement, FS_CardinalityType
<1>2. PICK n \in {Cardinality(s) : s \in B} : \A m \in {Cardinality(s) : s \in B} : n <= m
  <2>1. {Cardinality(s) : s \in B} \in SUBSET Nat /\ {Cardinality(s) : s \in B} # {}
    BY <1>1
  <2> QED
    BY <2>1, LeastNat
<1>3. PICK s \in B : n = Cardinality(s)
  OBVIOUS
<1>4. \A t \in B : Cardinality(s) <= Cardinality(t)
  BY <1>2, <1>3
<1>5. \A x \in s : s \ {x} \notin B
  BY <1>1, <1>3, <1>4
<1> QED
  BY <1>5

\* The term a fold takes next.
First(S) == [s \in SUBSET S |-> CHOOSE x \in s : TRUE]

\* it[s] is the sum of f over s, for every part s of S with at most n members.
Small(S, n) == {s \in SUBSET S : Cardinality(s) <= n}

SumsUpTo(it, n, f, S) ==
  /\ it \in [Small(S, n) -> Int]
  /\ \A s \in Small(S, n) :
       it[s] = IF s = {} THEN 0
               ELSE f[First(S)[s]] + it[s \ {First(S)[s]}]

\* it[s] is the sum of f over s, for every part s of S: what the fold of Total
\* chooses, once its parameters are known.
Sums(it, f, S) ==
  it = [s \in SUBSET S |->
          IF s = {} THEN 0
          ELSE f[CHOOSE x \in s : TRUE] + it[s \ {CHOOSE x \in s : TRUE}]]

LEMMA SumsExist ==
  ASSUME NEW S, IsFiniteSet(S), NEW f, \A x \in S : f[x] \in Int
  PROVE  \E it \in [SUBSET S -> Int] : Sums(it, f, S)
<1> DEFINE B == {n \in Nat : ~ \E it : SumsUpTo(it, n, f, S)}
           c == First(S)
<1>0. \A s \in SUBSET S : s # {} => c[s] \in s /\ c[s] = CHOOSE x \in s : TRUE
  BY DEF First
<1>1. \A s \in SUBSET S : Cardinality(s) \in Nat /\ (s = {} <=> Cardinality(s) = 0)
                          /\ \A x \in s : Cardinality(s \ {x}) = Cardinality(s) - 1
  BY FS_Subset, FS_RemoveElement, FS_CardinalityType, FS_EmptySet
<1>2. B = {}
  <2> SUFFICES ASSUME B # {} PROVE FALSE
    OBVIOUS
  <2>1. PICK n \in B : \A m \in B : n <= m
    BY LeastNat
  <2>2. n # 0
    <3>1. SumsUpTo([s \in Small(S, 0) |-> 0], 0, f, S)
      BY <1>1 DEF SumsUpTo, Small
    <3> QED
      BY <3>1
  <2>3. PICK h : SumsUpTo(h, n - 1, f, S)
    <3>1. n - 1 \in Nat /\ n - 1 \notin B
      BY <2>1, <2>2
    <3> QED
      BY <3>1
  <2> DEFINE k == [s \in Small(S, n) |-> IF s = {} THEN 0 ELSE f[c[s]] + h[s \ {c[s]}]]
  <2>4. \A s \in Small(S, n) : s # {} => s \ {c[s]} \in Small(S, n - 1) /\ c[s] \in S
    BY <1>0, <1>1, <2>1 DEF Small
  <2>5. \A s \in Small(S, n - 1) : s \in Small(S, n) /\ k[s] = h[s]
    BY <1>1, <2>1, <2>3 DEF Small, SumsUpTo
  <2>6. k \in [Small(S, n) -> Int]
    BY <2>3, <2>4 DEF SumsUpTo
  <2>7. \A s \in Small(S, n) : k[s] = IF s = {} THEN 0 ELSE f[c[s]] + k[s \ {c[s]}]
    BY <2>4, <2>5
  <2>8. SumsUpTo(k, n, f, S)
    BY <2>6, <2>7 DEF SumsUpTo
  <2> QED
    BY <2>1, <2>8
<1>3. Cardinality(S) \in Nat /\ Small(S, Cardinality(S)) = SUBSET S
  BY <1>1, FS_Subset, FS_CardinalityType DEF Small
<1>4. PICK it : SumsUpTo(it, Cardinality(S), f, S)
  BY <1>2, <1>3
<1>5. it \in [SUBSET S -> Int] /\ Sums(it, f, S)
  <2>1. it \in [SUBSET S -> Int] /\ it = [s \in SUBSET S |-> it[s]]
    BY <1>3, <1>4 DEF SumsUpTo
  <2>2. \A s \in SUBSET S : it[s] = IF s = {} THEN 0 ELSE f[c[s]] + it[s \ {c[s]}]
    BY <1>3, <1>4 DEF SumsUpTo
  <2> HIDE DEF c
  <2> QED
    BY <1>0, <2>1, <2>2 DEF Sums
<1> QED
  BY <1>5

LEMMA SumsUnique ==
  ASSUME NEW S, IsFiniteSet(S), NEW f, NEW h, NEW k, Sums(h, f, S), Sums(k, f, S)
  PROVE  h = k
<1> DEFINE B == {s \in SUBSET S : h[s] # k[s]}
<1>1. B = {}
  <2> SUFFICES ASSUME B # {} PROVE FALSE
    OBVIOUS
  <2>1. PICK s \in B : \A x \in s : s \ {x} \notin B
    BY LeastSubset
  <2> DEFINE x == CHOOSE x \in s : TRUE
  <2>2. s # {}
    BY DEF Sums
  <2>3. x \in s
    BY <2>2
  <2> HIDE DEF x
  <2>4. h[s \ {x}] = k[s \ {x}]
    BY <2>1, <2>3
  <2>5. h[s] = f[x] + h[s \ {x}] /\ k[s] = f[x] + k[s \ {x}]
    BY <2>2 DEF Sums, x
  <2> QED
    BY <2>4, <2>5
<1> QED
  BY <1>1 DEF Sums

\* A sum lies between as many times its least and its most term as it has terms.
LEMMA SumsBetween ==
  ASSUME NEW S, IsFiniteSet(S), NEW f, NEW lo \in Nat, NEW hi \in Nat,
         \A x \in S : f[x] \in lo..hi,
         NEW it \in [SUBSET S -> Int], Sums(it, f, S)
  PROVE  it[S] \in (lo * Cardinality(S))..(hi * Cardinality(S))
<1> DEFINE Fits(s) == it[s] \in (lo * Cardinality(s))..(hi * Cardinality(s))
           B == {s \in SUBSET S : ~ Fits(s)}
<1>1. SUFFICES B = {}
  OBVIOUS
<1>2. SUFFICES ASSUME B # {} PROVE FALSE
  OBVIOUS
<1>3. PICK s \in B : \A x \in s : s \ {x} \notin B
  BY <1>2, LeastSubset
<1>4. s # {}
  <2>1. it[{}] = 0 /\ Cardinality({}) = 0
    BY FS_EmptySet DEF Sums
  <2>2. Fits({})
    BY <2>1
  <2> QED
    BY <1>3, <2>2
<1> DEFINE x == CHOOSE y \in s : TRUE
<1>5. x \in s /\ it[s] = f[x] + it[s \ {x}]
  BY <1>4 DEF Sums
<1> HIDE DEF x
<1> DEFINE n == Cardinality(s \ {x})
<1>6. n \in Nat /\ Cardinality(s) = n + 1
  <2>1. Cardinality(s) \in Nat /\ n = Cardinality(s) - 1 /\ n \in Nat
    BY <1>5, FS_Subset, FS_RemoveElement, FS_CardinalityType
  <2> QED
    BY <2>1
<1>7. it[s \ {x}] \in (lo * n)..(hi * n) /\ f[x] \in lo..hi
  BY <1>3, <1>5
<1> HIDE DEF n
<1>8. /\ lo * n \in Int /\ hi * n \in Int
      /\ lo * (n + 1) = lo * n + lo /\ hi * (n + 1) = hi * n + hi
  BY <1>6
<1>9. it[s] \in (lo * (n + 1))..(hi * (n + 1))
  BY <1>5, <1>7, <1>8
<1> QED
  BY <1>3, <1>6, <1>9

-----------------------------------------------------------------------------
(* The utilization of warm pods. *)

\* Total adds up the values of a function.
LEMMA TotalIs ==
  ASSUME NEW S, IsFiniteSet(S), NEW f, DOMAIN f = S, NEW it, Sums(it, f, S)
  PROVE  Total(f) = it[S]
<1> DEFINE j == CHOOSE j : Sums(j, f, S)
<1>1. Total(f) = j[S]
  BY DEF Total, FoldFunction, FoldFunctionOnSet, MapThenFoldSet, Sums
<1>2. Sums(j, f, S)
  OBVIOUS
<1> HIDE DEF j
<1>3. j = it
  BY <1>2, SumsUnique
<1> QED
  BY <1>1, <1>3

LEMMA TotalBetween ==
  ASSUME NEW S, IsFiniteSet(S), NEW lo \in Nat, NEW hi \in Nat, NEW f \in [S -> lo..hi]
  PROVE  Total(f) \in (lo * Cardinality(S))..(hi * Cardinality(S))
<1>1. DOMAIN f = S /\ \A x \in S : f[x] \in Int /\ f[x] \in lo..hi
  OBVIOUS
<1>2. PICK it \in [SUBSET S -> Int] : Sums(it, f, S)
  BY <1>1, SumsExist
<1>3. Total(f) = it[S]
  BY <1>2, TotalIs
<1> QED
  <2>1. it[S] \in (lo * Cardinality(S))..(hi * Cardinality(S))
    BY <1>1, <1>2, SumsBetween
  <2> QED
    BY <1>3, <2>1

LEMMA LeastIs ==
  ASSUME NEW B \in SUBSET Nat, B # {}
  PROVE  Least(B) \in B /\ \A x \in B : Least(B) <= x
BY LeastNat DEF Least

LEMMA MostIs ==
  ASSUME NEW m \in Nat, NEW B \in SUBSET (0..m), B # {}
  PROVE  Most(B) \in B /\ \A x \in B : Most(B) >= x
<1> DEFINE C == {m - x : x \in B}
<1>1. C \in SUBSET Nat /\ C # {}
  <2>1. \A x \in B : x \in 0..m /\ m - x \in Nat
    OBVIOUS
  <2> QED
    BY <2>1
<1>2. PICK c \in C : \A y \in C : c <= y
  <2> HIDE DEF C
  <2> QED
    BY <1>1, LeastNat
<1>3. PICK b \in B : c = m - b
  OBVIOUS
<1>4. \A x \in B : b >= x
  BY <1>2, <1>3
<1> QED
  BY <1>4 DEF Most

\* What is left of an inequality when a common factor is.
LEMMA Cancel ==
  ASSUME NEW a \in Int, NEW b \in Int, NEW r \in Nat \ {0}, a * r < b * r
  PROVE  a < b
<1>1. SUFFICES ASSUME b <= a PROVE FALSE
  OBVIOUS
<1>2. (a - b) * r \in Nat
  BY <1>1
<1>3. (a - b) * r = a * r - b * r
  OBVIOUS
<1> QED
  BY <1>2, <1>3

LEMMA Scales ==
  ASSUME NEW a \in Int, NEW b \in Int, NEW r \in Nat, a <= b
  PROVE  a * r <= b * r /\ a * r \in Int /\ b * r \in Int
<1>1. (b - a) * r \in Nat
  OBVIOUS
<1>2. (b - a) * r = b * r - a * r
  OBVIOUS
<1> QED
  BY <1>1, <1>2

\* Whole division of a mean lies between that of its bounds.
LEMMA MeanBetween ==
  ASSUME NEW lo \in Nat, NEW hi \in Nat, NEW c \in Nat \ {0}, NEW t \in (lo * c)..(hi * c)
  PROVE  (t * 100000) \div (c * Request) \in
           ((lo * 100000) \div Request)..((hi * 100000) \div Request)
<1> DEFINE R == Request
           l == (lo * 100000) \div R
           h == (hi * 100000) \div R
           q == (t * 100000) \div (c * R)
<1>1. R \in Nat \ {0} /\ c * R \in Nat \ {0}
  <2>1. R \in Nat \ {0}
    BY RequestAssumption
  <2> HIDE DEF R
  <2>2. c * R >= R
    BY <2>1
  <2> QED
    BY <2>1, <2>2
<1> HIDE DEF R
<1>0. t \in Nat /\ lo * c \in Nat /\ hi * c \in Nat /\ lo * c <= t /\ t <= hi * c
  OBVIOUS
<1>2. /\ l \in Nat /\ l * R <= lo * 100000
      /\ h \in Nat /\ hi * 100000 < (h + 1) * R
  <2>1. lo * 100000 \in Nat /\ hi * 100000 \in Nat
    OBVIOUS
  <2>2. ASSUME NEW v \in Nat
        PROVE  v \div R \in Nat /\ (v \div R) * R <= v /\ v < (v \div R + 1) * R
    BY <1>1
  <2> QED
    BY <2>1, <2>2
<1>3. q \in Nat /\ q * (c * R) <= t * 100000 /\ t * 100000 < (q + 1) * (c * R)
  <2>1. t * 100000 \in Nat
    BY <1>0
  <2>2. ASSUME NEW v \in Nat, NEW w \in Nat \ {0}
        PROVE  v \div w \in Nat /\ (v \div w) * w <= v /\ v < (v \div w + 1) * w
    BY <2>2
  <2> DEFINE v == t * 100000
             w == c * R
  <2>3. v \in Nat /\ w \in Nat \ {0}
    BY <1>1, <2>1
  <2> HIDE DEF v, w
  <2>4. v \div w \in Nat /\ (v \div w) * w <= v /\ v < (v \div w + 1) * w
    BY <2>2, <2>3
  <2> QED
    BY <2>4 DEF v, w
<1> HIDE DEF l, h, q
<1>4. l < q + 1
  <2>1. (l * R) * c <= (lo * 100000) * c
    BY <1>1, <1>2, Scales
  <2>2. (lo * 100000) * c = (lo * c) * 100000
    OBVIOUS
  <2>3. (lo * c) * 100000 <= t * 100000
    BY <1>0
  <2>4. (l * R) * c = l * (c * R)
    BY <1>1, <1>2
  <2>5. l * (c * R) \in Int /\ (q + 1) * (c * R) \in Int
    BY <1>1, <1>2, <1>3
  <2>6. l * (c * R) < (q + 1) * (c * R)
    BY <1>0, <1>3, <2>1, <2>2, <2>3, <2>4, <2>5
  <2> QED
    BY <1>1, <1>2, <1>3, <2>6, Cancel
<1>5. q < h + 1
  <2>1. (hi * 100000) * c < ((h + 1) * R) * c
    <3>1. (hi * 100000 + 1) * c <= ((h + 1) * R) * c
      <4>1. hi * 100000 + 1 <= (h + 1) * R /\ (h + 1) * R \in Int /\ hi * 100000 + 1 \in Int
        BY <1>1, <1>2
      <4> QED
        BY <4>1, Scales
    <3>2. (hi * 100000 + 1) * c = (hi * 100000) * c + c
      OBVIOUS
    <3>3. (hi * 100000) * c \in Int /\ ((h + 1) * R) * c \in Int
      BY <1>1, <1>2
    <3> QED
      BY <3>1, <3>2, <3>3
  <2>2. (hi * 100000) * c = (hi * c) * 100000
    OBVIOUS
  <2>3. t * 100000 <= (hi * c) * 100000
    BY <1>0
  <2>4. ((h + 1) * R) * c = (h + 1) * (c * R)
    BY <1>1, <1>2
  <2>5. q * (c * R) \in Int /\ (h + 1) * (c * R) \in Int
    BY <1>1, <1>2, <1>3
  <2>6. q * (c * R) < (h + 1) * (c * R)
    BY <1>0, <1>3, <2>1, <2>2, <2>3, <2>4, <2>5
  <2> QED
    BY <1>1, <1>2, <1>3, <2>6, Cancel
<1>6. q \in l..h
  BY <1>2, <1>3, <1>4, <1>5
<1> QED
  BY <1>6 DEF l, h, q, R

LEMMA UtilizationCollected ==
  ASSUME NEW warm \in SUBSET Pods, NEW listed \in SUBSET Pods,
         NEW usage \in [listed -> 0..MaxUsage], CollectUtilization(warm, usage)
  PROVE  UtilizationIsOfWarmPods'
<1> DEFINE S == warm \cap DOMAIN usage
           counted == {usage[p] : p \in S}
           f == [p \in S |-> usage[p]]
<1>1. SUFFICES ASSUME S # {}
               PROVE  UtilizationIsOfWarmPods'
  BY DEF CollectUtilization, AverageOf, UtilizationIsOfWarmPods
<1>2. counted \in SUBSET (0..MaxUsage) /\ counted # {} /\ MaxUsage \in Nat
  BY <1>1, RequestAssumption
<1> DEFINE lo == Least(counted)
           hi == Most(counted)
<1>3. /\ lo \in Nat /\ hi \in Nat /\ \A x \in counted : lo <= x /\ x <= hi
      /\ \A x \in counted : x \in Nat
  <2> HIDE DEF counted
  <2>1. \A x \in counted : x \in Nat
    BY <1>2
  <2>2. lo \in counted /\ \A x \in counted : lo <= x
    BY <1>2, <2>1, LeastIs
  <2>3. hi \in counted /\ \A x \in counted : hi >= x
    BY <1>2, MostIs
  <2> HIDE DEF lo, hi
  <2> QED
    BY <2>1, <2>2, <2>3
<1>4. spread' = [least |-> lo, most |-> hi]
  BY <1>2 DEF CollectUtilization
<1>5. utilization' = (Total(f) * 100000) \div (Cardinality(S) * Request)
  BY <1>1 DEF CollectUtilization, AverageOf
<1> HIDE DEF lo, hi
<1>6. f \in [S -> lo..hi]
  BY <1>3
<1>7. IsFiniteSet(S) /\ Cardinality(S) \in Nat \ {0}
  BY <1>1, RequestAssumption, FS_Subset, FS_CardinalityType, FS_EmptySet
<1> HIDE DEF f, S, counted
<1>8. Total(f) \in (lo * Cardinality(S))..(hi * Cardinality(S))
  BY <1>3, <1>6, <1>7, TotalBetween
<1> QED
  BY <1>3, <1>4, <1>5, <1>7, <1>8, MeanBetween DEF UtilizationIsOfWarmPods

(* Pods that are starting, warming up or not listed do not dilute the      *)
(* average: whatever the pods, their requests and their usage, it lies     *)
(* between the least and the most used pod that counts.                    *)
THEOREM UtilizationBounded == Spec => []UtilizationIsOfWarmPods
<1>1. Init => UtilizationIsOfWarmPods
  BY DEF Init, UtilizationIsOfWarmPods
<1>2. UtilizationIsOfWarmPods /\ [Next]_vars => UtilizationIsOfWarmPods'
  <2> SUFFICES ASSUME UtilizationIsOfWarmPods, [Next]_vars
               PROVE  UtilizationIsOfWarmPods'
    OBVIOUS
  <2>1. CASE UNCHANGED <<utilization, spread>>
    BY <2>1 DEF UtilizationIsOfWarmPods
  <2>2. CASE \E warm \in SUBSET Pods, listed \in SUBSET Pods :
               \E usage \in [listed -> 0..MaxUsage] : CollectUtilization(warm, usage)
    BY <2>2, UtilizationCollected
  <2> QED
    BY <2>1, <2>2 DEF Next, Collect, CollectNothing, Reset, WorkChanges, vars
<1> QED
  BY <1>1, <1>2, PTL DEF Spec

-----------------------------------------------------------------------------
(* The scrape.  A page says how old it is, give or take the clocks' skew:  *)
(* each amount of work in a page was the pod's no longer ago than that.    *)

Span == StaleAfter + Skew + Timeout

Pages == [items : 0..MaxWork, age : (-Skew)..(Span + 1)]

\* The pages a pod may still serve, and those the scrape has got, are of work the
\* pod really had, at most as long ago as their ages say.
FrozenIsDated ==
  /\ DOMAIN frozen \subseteq Pods
  /\ \A p \in DOMAIN frozen :
       frozen[p] \in Pages /\ recent[p][frozen[p].items] <= frozen[p].age

ScrapedIsDated ==
  /\ scraped \in [DOMAIN scraped -> Pages]
  /\ \A p \in DOMAIN scraped : recent[p][scraped[p].items] <= scraped[p].age + Skew

\* The pods that answered are those DNS named, less those still to ask.
ScrapedSoFar ==
  /\ named \subseteq Pods /\ left \subseteq named /\ DOMAIN scraped = named \ left
  /\ pc \in {"idle", "scraping"} /\ elapsed \in 0..Timeout
  /\ pc = "idle" => named = {} /\ elapsed = 0

History ==
  /\ work \in [Pods -> 0..MaxWork]
  /\ recent \in [Pods -> [0..MaxWork -> 0..(Span + 1)]]
  /\ \A p \in Pods : recent[p][work[p]] = 0

ScrapeInv == History /\ FrozenIsDated /\ ScrapedIsDated /\ ScrapedSoFar

LEMMA SpanType ==
  ASSUME Signal!SignalBounds
  PROVE  /\ Span \in Nat /\ Signal!Span = Span
         /\ MaxWork \in Nat /\ StaleAfter \in Nat /\ Timeout \in Nat /\ Skew \in Nat
         /\ IsFiniteSet(Pods)
BY DEF Signal!SignalBounds, Signal!Span, Span, Signal!IsFiniteSet, IsFiniteSet

LEMMA ScrapeInit ==
  ASSUME Signal!SignalBounds, Signal!Init
  PROVE  ScrapeInv
<1>1. DOMAIN Signal!NoScrape = {}
  BY DEF Signal!NoScrape
<1>2. History
  BY SpanType DEF Signal!Init, History
<1> QED
  BY <1>1, <1>2, SpanType
  DEF Signal!Init, ScrapeInv, FrozenIsDated, ScrapedIsDated, ScrapedSoFar

\* Getting older keeps an age below another, whatever the skew between the two.
LEMMA OlderKeeps ==
  ASSUME Signal!SignalBounds, NEW a \in Int, NEW b \in Int, NEW k \in Nat, a <= b + k
  PROVE  Signal!Older(a) <= Signal!Older(b) + k
BY SpanType DEF Signal!Older

LEMMA OlderType ==
  ASSUME Signal!SignalBounds, NEW lo \in Int, NEW a \in lo..(Span + 1)
  PROVE  Signal!Older(a) \in lo..(Span + 1)
BY SpanType DEF Signal!Older

\* The page a pod serves is dated.
LEMMA PageIsDated ==
  ASSUME Signal!SignalBounds, ScrapeInv, NEW p \in Pods
  PROVE  /\ Signal!Page(p) \in [items : 0..MaxWork, age : 0..(Span + 1)]
         /\ recent[p][Signal!Page(p).items] <= Signal!Page(p).age
<1>1. CASE p \in DOMAIN frozen
  <2>1. frozen[p] \in Pages /\ recent[p][frozen[p].items] <= frozen[p].age
    BY <1>1 DEF ScrapeInv, FrozenIsDated
  <2>2. recent[p][frozen[p].items] \in Nat /\ frozen[p].age \in (-Skew)..(Span + 1)
    BY <2>1, SpanType DEF ScrapeInv, History, Pages
  <2>3. frozen[p].age \in 0..(Span + 1)
    BY <2>1, <2>2, SpanType
  <2>4. frozen[p] \in [items : 0..MaxWork, age : 0..(Span + 1)]
    BY <2>1, <2>3 DEF Pages
  <2> QED
    BY <1>1, <2>1, <2>4 DEF Signal!Page
<1>2. CASE p \notin DOMAIN frozen
  <2>1. Signal!Page(p) = [items |-> work[p], age |-> 0]
    BY <1>2 DEF Signal!Page
  <2>2. work[p] \in 0..MaxWork /\ recent[p][work[p]] = 0
    BY DEF ScrapeInv, History
  <2> QED
    BY <2>1, <2>2, SpanType
<1> QED
  BY <1>1, <1>2

LEMMA AnswerKeeps ==
  ASSUME Signal!SignalBounds, ScrapeInv, NEW p \in Pods, NEW ahead \in 0..Skew,
         Signal!Scrape(p, ahead)
  PROVE  ScrapeInv'
<1> DEFINE page == [Signal!Page(p) EXCEPT !.age = @ - ahead]
<1>1. scraped' = [q \in DOMAIN scraped \cup {p} |-> IF q = p THEN page ELSE scraped[q]]
  BY DEF Signal!Scrape, Signal!With
<1>2. page \in Pages /\ recent[p][page.items] <= page.age + Skew
  <2> DEFINE old == Signal!Page(p)
  <2>1. old \in [items : 0..MaxWork, age : 0..(Span + 1)] /\ recent[p][old.items] <= old.age
    BY PageIsDated
  <2>2. page = [items |-> old.items, age |-> old.age - ahead]
    BY <2>1
  <2>3. recent[p][old.items] \in Nat
    BY <2>1, SpanType DEF ScrapeInv, History
  <2> HIDE DEF old, page
  <2>4. old.age - ahead \in (-Skew)..(Span + 1) /\ recent[p][old.items] <= (old.age - ahead) + Skew
    BY <2>1, <2>3, SpanType
  <2> QED
    BY <2>1, <2>2, <2>4 DEF Pages
<1> HIDE DEF page
<1>3. ScrapedIsDated'
  BY <1>1, <1>2 DEF ScrapeInv, ScrapedIsDated, Signal!Scrape
<1>4. ScrapedSoFar'
  BY <1>1 DEF ScrapeInv, ScrapedSoFar, Signal!Scrape
<1>5. History' /\ FrozenIsDated'
  BY DEF ScrapeInv, History, FrozenIsDated, Signal!Scrape
<1> QED
  BY <1>3, <1>4, <1>5 DEF ScrapeInv

LEMMA FreezeKeeps ==
  ASSUME Signal!SignalBounds, ScrapeInv, NEW p \in Pods,
         Signal!Freeze(p) \/ Signal!Thaw(p)
  PROVE  ScrapeInv'
<1>1. FrozenIsDated'
  <2>1. CASE Signal!Freeze(p)
    <3>1. frozen' = [q \in DOMAIN frozen \cup {p} |-> IF q = p THEN Signal!Page(p) ELSE frozen[q]]
      BY <2>1 DEF Signal!Freeze, Signal!With
    <3>2. Signal!Page(p) \in Pages /\ recent[p][Signal!Page(p).items] <= Signal!Page(p).age
      BY PageIsDated, SpanType DEF Pages
    <3> QED
      BY <2>1, <3>1, <3>2 DEF ScrapeInv, FrozenIsDated, Signal!Freeze
  <2>2. CASE Signal!Thaw(p)
    <3>1. frozen' = [q \in DOMAIN frozen \ {p} |-> frozen[q]]
      BY <2>2 DEF Signal!Thaw, Signal!Restrict
    <3> QED
      BY <2>2, <3>1 DEF ScrapeInv, FrozenIsDated, Signal!Thaw
  <2> QED
    BY <2>1, <2>2
<1>2. History' /\ ScrapedIsDated' /\ ScrapedSoFar'
  BY DEF ScrapeInv, History, ScrapedIsDated, ScrapedSoFar, Signal!Freeze, Signal!Thaw
<1> QED
  BY <1>1, <1>2 DEF ScrapeInv

\* What a page counts does not become older by a change of the work.
LEMMA WorkKeeps ==
  ASSUME Signal!SignalBounds, ScrapeInv, NEW p \in Pods, NEW n \in 0..MaxWork,
         Signal!WorkChanges(p, n)
  PROVE  ScrapeInv'
<1>1. History'
  BY SpanType DEF ScrapeInv, History, Signal!WorkChanges
<1>2. \A q \in Pods, m \in 0..MaxWork : recent'[q][m] <= recent[q][m] /\ recent[q][m] \in Int
                                         /\ recent'[q][m] \in Int
  BY SpanType DEF ScrapeInv, History, Signal!WorkChanges
<1>3. FrozenIsDated'
  <2> SUFFICES ASSUME NEW q \in DOMAIN frozen
               PROVE  frozen[q] \in Pages /\ recent'[q][frozen[q].items] <= frozen[q].age
    BY DEF ScrapeInv, FrozenIsDated, Signal!WorkChanges
  <2>1. q \in Pods /\ frozen[q] \in Pages /\ recent[q][frozen[q].items] <= frozen[q].age
    BY DEF ScrapeInv, FrozenIsDated
  <2> QED
    BY <1>2, <2>1, SpanType DEF Pages
<1>4. ScrapedIsDated'
  <2> SUFFICES ASSUME NEW q \in DOMAIN scraped
               PROVE  recent'[q][scraped[q].items] <= scraped[q].age + Skew
    BY DEF ScrapeInv, ScrapedIsDated, Signal!WorkChanges
  <2>1. q \in Pods /\ scraped[q] \in Pages /\ recent[q][scraped[q].items] <= scraped[q].age + Skew
    BY DEF ScrapeInv, ScrapedIsDated, ScrapedSoFar
  <2> QED
    BY <1>2, <2>1, SpanType DEF Pages
<1>5. ScrapedSoFar'
  BY DEF ScrapeInv, ScrapedSoFar, Signal!WorkChanges
<1> QED
  BY <1>1, <1>3, <1>4, <1>5 DEF ScrapeInv

\* Time makes pages and history older alike.
LEMMA TickKeeps ==
  ASSUME Signal!SignalBounds, ScrapeInv, Signal!Tick
  PROVE  ScrapeInv'
<1> DEFINE Aged(page) == [page EXCEPT !.age = Signal!Older(@)]
<1>1. History'
  <2>1. \A a \in 0..(Span + 1) : Signal!Older(a) \in 0..(Span + 1)
    BY OlderType
  <2> QED
    BY <2>1, SpanType DEF ScrapeInv, History, Signal!Tick
<1>2. ASSUME NEW page \in Pages
      PROVE  /\ Aged(page) \in Pages /\ Aged(page).items = page.items
             /\ Aged(page).age = Signal!Older(page.age)
  <2>1. page.age \in (-Skew)..(Span + 1) /\ -Skew \in Int
    BY SpanType DEF Pages
  <2>2. Signal!Older(page.age) \in (-Skew)..(Span + 1)
    BY <2>1, OlderType
  <2> QED
    BY <2>2 DEF Pages
<1>3. ASSUME NEW p \in Pods, NEW page \in Pages, NEW k \in Nat,
             recent[p][page.items] <= page.age + k
      PROVE  recent'[p][page.items] <= Aged(page).age + k
  <2>1. /\ page.items \in 0..MaxWork /\ recent[p][page.items] \in Int /\ page.age \in Int
        /\ recent[p][page.items] \in 0..(Span + 1)
    BY SpanType DEF ScrapeInv, History, Pages
  <2>2. Signal!Older(recent[p][page.items]) <= Signal!Older(page.age) + k
    BY <1>3, <2>1, OlderKeeps
  <2>3. recent'[p][page.items] = IF page.items = work[p] THEN 0
                                 ELSE Signal!Older(recent[p][page.items])
    BY <2>1 DEF Signal!Tick
  <2>4. Signal!Older(recent[p][page.items]) \in 0..(Span + 1)
    BY <2>1, OlderType
  <2>5. Signal!Older(page.age) \in Int
    BY <2>1, SpanType DEF Signal!Older
  <2> QED
    BY <1>2, <2>2, <2>3, <2>4, <2>5, SpanType
<1>4. FrozenIsDated'
  <2>1. frozen' = [p \in DOMAIN frozen |-> Aged(frozen[p])]
    BY DEF Signal!Tick
  <2> SUFFICES ASSUME NEW p \in DOMAIN frozen
               PROVE  Aged(frozen[p]) \in Pages
                      /\ recent'[p][Aged(frozen[p]).items] <= Aged(frozen[p]).age
    <3> HIDE DEF Aged
    <3> QED
      BY <2>1 DEF ScrapeInv, FrozenIsDated
  <2>2. p \in Pods /\ frozen[p] \in Pages /\ recent[p][frozen[p].items] <= frozen[p].age
    BY DEF ScrapeInv, FrozenIsDated
  <2> HIDE DEF Aged
  <2>3. recent[p][frozen[p].items] <= frozen[p].age + 0 /\ Aged(frozen[p]).age \in Int
    <3>1. frozen[p].age \in Int /\ Aged(frozen[p]) \in Pages
      BY <1>2, <2>2, SpanType DEF Pages
    <3>2. Aged(frozen[p]).age \in Int
      BY <3>1, SpanType DEF Pages
    <3> QED
      BY <2>2, <3>1, <3>2
  <2>4. recent'[p][frozen[p].items] <= Aged(frozen[p]).age + 0
    BY <1>3, <2>2, <2>3
  <2>5. recent'[p][frozen[p].items] <= Aged(frozen[p]).age
    BY <2>3, <2>4
  <2>6. Aged(frozen[p]) \in Pages /\ Aged(frozen[p]).items = frozen[p].items
    BY <1>2, <2>2
  <2> QED
    BY <2>5, <2>6
<1>5. ScrapedIsDated'
  <2>1. scraped' = [p \in DOMAIN scraped |-> Aged(scraped[p])]
    BY DEF Signal!Tick
  <2> SUFFICES ASSUME NEW p \in DOMAIN scraped
               PROVE  Aged(scraped[p]) \in Pages
                      /\ recent'[p][Aged(scraped[p]).items] <= Aged(scraped[p]).age + Skew
    <3> HIDE DEF Aged
    <3> QED
      BY <2>1 DEF ScrapedIsDated
  <2>2. p \in Pods /\ scraped[p] \in Pages /\ recent[p][scraped[p].items] <= scraped[p].age + Skew
    BY DEF ScrapeInv, ScrapedIsDated, ScrapedSoFar
  <2> HIDE DEF Aged
  <2> QED
    BY <1>2, <1>3, <2>2, SpanType
<1>6. ScrapedSoFar'
  BY SpanType DEF ScrapeInv, ScrapedSoFar, Signal!Tick
<1> QED
  BY <1>1, <1>4, <1>5, <1>6 DEF ScrapeInv

\* A scrape that begins knows nothing yet, and one that ends forgets what it got.
LEMMA EndKeeps ==
  ASSUME Signal!SignalBounds, ScrapeInv,
         Signal!ScrapeFails \/ Signal!Collected \/ Signal!Resolves
  PROVE  ScrapeInv'
<1>1. DOMAIN Signal!NoScrape = {}
  BY DEF Signal!NoScrape
<1>2. History' /\ FrozenIsDated'
  BY DEF ScrapeInv, History, FrozenIsDated,
         Signal!ScrapeFails, Signal!Collected, Signal!Resolves, Signal!Resolve
<1>3. CASE Signal!ScrapeFails \/ Signal!Collected
  <2>1. /\ scraped' = Signal!NoScrape /\ named' = {} /\ left' = {} /\ pc' = "idle" /\ elapsed' = 0
    BY <1>3 DEF Signal!ScrapeFails, Signal!Collected
  <2> QED
    BY <1>1, <1>2, <2>1, SpanType DEF ScrapeInv, ScrapedIsDated, ScrapedSoFar
<1>4. CASE Signal!Resolves
  <2>1. PICK S \in SUBSET Pods : Signal!Resolve(S)
    BY <1>4 DEF Signal!Resolves
  <2>2. DOMAIN scraped = {} /\ scraped' = scraped
    BY <2>1 DEF Signal!Resolve, ScrapeInv, ScrapedSoFar
  <2>3. ScrapedIsDated'
    BY <2>2 DEF ScrapedIsDated
  <2>4. ScrapedSoFar'
    <3>1. named' = S /\ left' = S /\ elapsed' = 0 /\ pc' \in {"idle", "scraping"}
          /\ (pc' = "idle" => S = {})
      BY <2>1 DEF Signal!Resolve
    <3> QED
      BY <2>2, <3>1, SpanType DEF ScrapedSoFar
  <2> QED
    BY <1>2, <2>3, <2>4 DEF ScrapeInv
<1> QED
  BY <1>3, <1>4

LEMMA ScrapeNext ==
  ASSUME Signal!SignalBounds, ScrapeInv, [Signal!Next]_Signal!vars
  PROVE  ScrapeInv'
<1>1. CASE UNCHANGED Signal!vars
  BY <1>1 DEF Signal!vars, ScrapeInv, History, FrozenIsDated, ScrapedIsDated, ScrapedSoFar
<1>2. CASE Signal!Next
  BY <1>2, EndKeeps, AnswerKeeps, FreezeKeeps, WorkKeeps, TickKeeps
  DEF Signal!Next, Signal!Answers
<1> QED
  BY <1>1, <1>2

-----------------------------------------------------------------------------
(* The sum of a finished scrape. *)

LEMMA SignalSum == ASSUME NEW f PROVE Signal!Sum(f) = Total(f)
BY DEF Signal!Sum, Total, Signal!FoldFunction, FoldFunction, Signal!FoldFunctionOnSet,
       FoldFunctionOnSet, Signal!MapThenFoldSet, MapThenFoldSet

\* A sum grows with its terms.
LEMMA SumsGrow ==
  ASSUME NEW S, IsFiniteSet(S), NEW f, NEW g,
         \A x \in S : f[x] \in Int /\ g[x] \in Int /\ f[x] <= g[x],
         NEW h \in [SUBSET S -> Int], Sums(h, f, S),
         NEW k \in [SUBSET S -> Int], Sums(k, g, S)
  PROVE  h[S] <= k[S]
<1> DEFINE B == {s \in SUBSET S : ~ (h[s] <= k[s])}
<1>1. SUFFICES ASSUME B # {} PROVE FALSE
  OBVIOUS
<1>2. PICK s \in B : \A x \in s : s \ {x} \notin B
  BY <1>1, LeastSubset
<1>3. s # {}
  BY DEF Sums
<1> DEFINE x == CHOOSE y \in s : TRUE
<1>4. x \in s /\ h[s] = f[x] + h[s \ {x}] /\ k[s] = g[x] + k[s \ {x}]
  BY <1>3 DEF Sums
<1> HIDE DEF x
<1>5. h[s \ {x}] <= k[s \ {x}] /\ h[s \ {x}] \in Int /\ k[s \ {x}] \in Int
  BY <1>2, <1>4
<1>6. f[x] \in Int /\ g[x] \in Int /\ f[x] <= g[x]
  BY <1>4
<1> QED
  BY <1>4, <1>5, <1>6

LEMMA TotalGrows ==
  ASSUME NEW S, IsFiniteSet(S), NEW f \in [S -> Int], NEW g \in [S -> Int],
         \A x \in S : f[x] <= g[x]
  PROVE  Total(f) <= Total(g)
<1>1. PICK h \in [SUBSET S -> Int] : Sums(h, f, S)
  BY SumsExist
<1>2. PICK k \in [SUBSET S -> Int] : Sums(k, g, S)
  BY SumsExist
<1>3. Total(f) = h[S] /\ Total(g) = k[S]
  BY <1>1, <1>2, TotalIs
<1>4. h[S] <= k[S]
  BY <1>1, <1>2, SumsGrow
<1> QED
  BY <1>3, <1>4

LEMMA TotalType ==
  ASSUME NEW S, IsFiniteSet(S), NEW f \in [S -> Int]
  PROVE  Total(f) \in Int
<1>1. PICK h \in [SUBSET S -> Int] : Sums(h, f, S)
  BY SumsExist
<1>2. Total(f) = h[S]
  BY <1>1, TotalIs
<1> QED
  BY <1>2

\* The stalest of several pages is one of them, whatever the clocks say.
LEMMA OldestIs ==
  ASSUME Signal!SignalBounds, NEW D, NEW pages \in [D -> Pages], D # {}
  PROVE  /\ Signal!OldestAge(pages) \in Int
         /\ \A p \in D : pages[p].age <= Signal!OldestAge(pages)
<1> DEFINE A == {pages[p].age : p \in D}
           C == {Span + 1 - a : a \in A}
<1>1. /\ \A a \in A : a \in Int /\ Span + 1 - a \in Nat
      /\ A # {} /\ \A p \in D : pages[p].age \in A
  BY SpanType DEF Pages
<1>2. Signal!OldestAge(pages) = CHOOSE a \in A : \A b \in A : a >= b
  BY DEF Signal!OldestAge, Signal!Most
<1> HIDE DEF A
<1>3. C \in SUBSET Nat /\ C # {}
  BY <1>1
<1>4. PICK c \in C : \A d \in C : c <= d
  <2> HIDE DEF C
  <2> QED
    BY <1>3, LeastNat
<1>5. PICK a \in A : c = Span + 1 - a
  OBVIOUS
<1>6. ASSUME NEW b \in A PROVE a >= b
  <2>1. Span + 1 - a <= Span + 1 - b
    BY <1>4, <1>5
  <2>2. a \in Int /\ b \in Int /\ Span \in Int
    BY <1>1, SpanType
  <2> QED
    BY <2>1, <2>2
<1>7. Signal!OldestAge(pages) \in A /\ \A b \in A : Signal!OldestAge(pages) >= b
  BY <1>2, <1>6
<1> QED
  BY <1>1, <1>7

\* Every term of a fresh sum is work its pod had within the span.
LEMMA TermsAreRecent ==
  ASSUME Signal!SignalBounds, ScrapeInv, NEW p \in DOMAIN scraped,
         Signal!Fresh(Signal!OldestAge(scraped))
  PROVE  p \in Pods /\ scraped[p].items \in Signal!Lately(p)
<1> DEFINE D == DOMAIN scraped
           page == scraped[p]
           oldest == Signal!OldestAge(scraped)
<1>1. scraped \in [D -> Pages]
  BY DEF ScrapeInv, ScrapedIsDated
<1>2. oldest \in Int /\ page.age <= oldest
  BY <1>1, OldestIs
<1>3. oldest - elapsed <= StaleAfter /\ elapsed \in 0..Timeout
  BY DEF Signal!Fresh, ScrapeInv, ScrapedSoFar
<1>4. page \in Pages /\ recent[p][page.items] <= page.age + Skew /\ p \in Pods
  BY DEF ScrapeInv, ScrapedIsDated, ScrapedSoFar
<1>5. page.age \in Int /\ page.items \in 0..MaxWork /\ recent[p][page.items] \in Int
  BY <1>4, SpanType DEF ScrapeInv, History, Pages
<1> HIDE DEF page, oldest
<1>6. recent[p][page.items] <= Span
  BY <1>2, <1>3, <1>4, <1>5, SpanType DEF Span
<1>7. page.items \in Signal!Lately(p)
  BY <1>5, <1>6, SpanType DEF Signal!Lately
<1> QED
  BY <1>4, <1>7 DEF page

\* A number that is among some lies between the least and the most of them.
LEMMA AmongThem ==
  ASSUME Signal!SignalBounds, NEW B \in SUBSET (0..MaxWork), NEW n \in B
  PROVE  /\ Signal!Least(B) \in Int /\ Signal!Least(B) <= n
         /\ Signal!Most(B) \in Int /\ n <= Signal!Most(B)
<1>1. Signal!Least(B) = Least(B) /\ Signal!Most(B) = Most(B)
  BY DEF Signal!Least, Least, Signal!Most, Most
<1>2. B \in SUBSET Nat /\ B # {} /\ MaxWork \in Nat
  BY SpanType
<1>3. Least(B) \in B /\ Least(B) <= n
  BY <1>2, LeastIs
<1>4. Most(B) \in B /\ Most(B) >= n
  BY <1>2, MostIs
<1>5. \A x \in B : x \in 0..MaxWork
  OBVIOUS
<1>6. Least(B) \in Int /\ Most(B) \in Int /\ n \in Int
  <2>1. Least(B) \in 0..MaxWork /\ Most(B) \in 0..MaxWork /\ n \in 0..MaxWork
    BY <1>3, <1>4, <1>5
  <2> QED
    BY <2>1
<1> HIDE DEF Least, Most
<1> QED
  BY <1>1, <1>3, <1>4, <1>6

\* What a finished scrape that is fresh enough hands to the engine.
LEMMA CollectedIsRecent ==
  ASSUME Signal!SignalBounds, ScrapeInv, Signal!Collected, sample'.fresh
  PROVE  /\ sample'.of = named
         /\ sample'.raw >= Signal!Sum([p \in sample'.of |-> Signal!Least(Signal!Lately(p))])
         /\ sample'.raw <= Signal!Sum([p \in sample'.of |-> Signal!Most(Signal!Lately(p))])
<1> DEFINE D == DOMAIN scraped
           least == [p \in D |-> Signal!Least(Signal!Lately(p))]
           terms == [p \in D |-> scraped[p].items]
           most == [p \in D |-> Signal!Most(Signal!Lately(p))]
<1>1. /\ sample'.of = D /\ sample'.raw = Signal!Sum(terms)
      /\ Signal!Fresh(Signal!OldestAge(scraped)) /\ D = named
  BY DEF Signal!Collected, ScrapeInv, ScrapedSoFar
<1>2. IsFiniteSet(D)
  BY SpanType, FS_Subset DEF ScrapeInv, ScrapedSoFar
<1>3. ASSUME NEW p \in D
      PROVE  /\ least[p] \in Int /\ terms[p] \in Int /\ most[p] \in Int
             /\ least[p] <= terms[p] /\ terms[p] <= most[p]
  <2> DEFINE B == Signal!Lately(p)
  <2>1. scraped[p].items \in B
    BY <1>1, TermsAreRecent
  <2>2. B \in SUBSET (0..MaxWork)
    BY DEF Signal!Lately
  <2> HIDE DEF B
  <2>3. scraped[p].items \in Int
    <3>1. scraped[p].items \in 0..MaxWork
      BY <2>1, <2>2
    <3> QED
      BY <3>1
  <2>4. /\ Signal!Least(B) \in Int /\ Signal!Least(B) <= scraped[p].items
        /\ Signal!Most(B) \in Int /\ scraped[p].items <= Signal!Most(B)
    BY <2>1, <2>2, AmongThem
  <2> QED
    BY <2>3, <2>4 DEF B
<1>4. least \in [D -> Int] /\ terms \in [D -> Int] /\ most \in [D -> Int]
  BY <1>3
<1>5. \A f : Signal!Sum(f) = Total(f)
  BY SignalSum
<1> HIDE DEF least, terms, most
<1>6. Total(least) <= Total(terms) /\ Total(terms) <= Total(most)
  BY <1>2, <1>3, <1>4, TotalGrows
<1>7. Total(least) \in Int /\ Total(terms) \in Int /\ Total(most) \in Int
  BY <1>2, <1>4, TotalType
<1>8. sample'.raw >= Signal!Sum(least) /\ sample'.raw <= Signal!Sum(most)
  BY <1>1, <1>5, <1>6, <1>7
<1> QED
  BY <1>1, <1>8 DEF least, most

\* A sum the engine trusts has a term of every pod DNS named, and each term is work
\* that pod really had within the span: whatever the pods, their work, the bounds, the
\* skew of the clocks and the moment of each GET (HTTPSignal.Collect, Signal.Fresh).
THEOREM TrustedSum ==
  ASSUME Signal!SignalBounds
  PROVE  Signal!Spec => Signal!TrustedSumIsRecent
<1>1. Signal!Init => ScrapeInv
  BY ScrapeInit
<1>2. ScrapeInv /\ [Signal!Next]_Signal!vars => ScrapeInv'
  BY ScrapeNext
<1> DEFINE Ends == pc = "scraping" /\ pc' = "idle" /\ sample'.fresh =>
              /\ sample'.of = named
              /\ sample'.raw >= Signal!Sum([p \in sample'.of |-> Signal!Least(Signal!Lately(p))])
              /\ sample'.raw <= Signal!Sum([p \in sample'.of |-> Signal!Most(Signal!Lately(p))])
<1>3. ScrapeInv /\ [Signal!Next]_Signal!vars => [Ends]_Signal!vars
  <2> SUFFICES ASSUME ScrapeInv, Signal!Next, pc = "scraping", pc' = "idle", sample'.fresh
               PROVE  Ends
    OBVIOUS
  <2>1. Signal!Collected
    <3>1. ~Signal!ScrapeFails
      BY DEF Signal!ScrapeFails, Signal!Unavailable
    <3> QED
      BY <3>1 DEF Signal!Next, Signal!Answers, Signal!Resolves, Signal!Resolve, Signal!Scrape,
                  Signal!Freeze, Signal!Thaw, Signal!WorkChanges, Signal!Tick
  <2> QED
    BY <2>1, CollectedIsRecent
<1> QED
  BY <1>1, <1>2, <1>3, PTL DEF Signal!Spec, Signal!TrustedSumIsRecent

=============================================================================
