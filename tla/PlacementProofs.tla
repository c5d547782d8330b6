--------------------------- MODULE PlacementProofs ---------------------------
(***************************************************************************)
(* The estimate and the promise of the gate, for every cluster, template   *)
(* and course of the scheduler.                                            *)
(*                                                                         *)
(* The argument: NodeFit is the largest number k of pods a node Holds, and *)
(* a node that Holds k + 1 before a pod of the template is bound to it     *)
(* Holds k afterwards.  One event changes one node, so the sum over the    *)
(* nodes changes by what that term does; and it covers the pods that still *)
(* wait, and the margin less what others' pods have taken.                 *)
(***************************************************************************)
EXTENDS Placement, FiniteSetTheorems, WellFoundedInduction, TLAPS

----------------------------------------------------------------------------
(* Induction on naturals and on finite sets, by a least counterexample.    *)

\* A set of naturals has a least member.
LEMMA LeastNat ==
  ASSUME NEW B \in SUBSET Nat, B # {}
  PROVE  \E n \in B : \A m \in B : n <= m
<1> DEFINE R == OpToRel(<, Nat)
<1>1. IsWellFoundedOn(R, Nat)
  BY NatLessThanWellFounded
<1>2. \A m, k \in Nat : m < k => <<m, k>> \in R
  BY DEF OpToRel
<1> HIDE DEF R
<1>3. PICK n \in B : \A m \in B : ~ (<<m, n>> \in R)
  BY <1>1, WFMin
<1>4. ASSUME NEW m \in B PROVE n <= m
  <2>1. m \in Nat /\ n \in Nat
    OBVIOUS
  <2>2. ~(m < n)
    BY <1>2, <1>3, <2>1
  <2> QED
    BY <2>1, <2>2
<1> QED
  BY <1>4

\* A set of subsets of a finite set has one that is minimal in it.
LEMMA LeastSubset ==
  ASSUME NEW S, IsFiniteSet(S), NEW B \in SUBSET (SUBSET S), B # {}
  PROVE  \E s \in B : \A x \in s : s \ {x} \notin B
<1>1. \A s \in SUBSET S : Cardinality(s) \in Nat /\ \A x \in s : Cardinality(s \ {x}) = Cardinality(s) - 1
  BY FS_Subset, FS_RemoveElement, FS_CardinalityType
<1>2. PICK n \in {Cardinality(s) : s \in B} : \A m \in {Cardinality(s) : s \in B} : n <= m
  <2>1. {Cardinality(s) : s \in B} \in SUBSET Nat /\ {Cardinality(s) : s \in B} # {}
    BY <1>1
  <2> QED
    BY <2>1, LeastNat
<1>3. PICK s \in B : n = Cardinality(s)
  OBVIOUS
<1>4. \A t \in B : Cardinality(s) <= Cardinality(t)
  BY <1>2, <1>3
<1>5. \A x \in s : s \ {x} \notin B
  BY <1>1, <1>3, <1>4
<1> QED
  BY <1>5

----------------------------------------------------------------------------
(* Folds.  c tells which element of a set comes first, g what it adds to   *)
(* the fold of the others; that is what the community modules' folds are,  *)
(* once their parameters are known.                                        *)

Small(S, n) == {s \in SUBSET S : Cardinality(s) <= n}

IsStage(it, n, S, V, c, g, base) ==
  /\ it \in [Small(S, n) -> V]
  /\ \A s \in Small(S, n) :
       it[s] = IF s = {} THEN base ELSE g[<<c[s], it[s \ {c[s]}]>>]

IsFold(it, S, c, g, base) ==
  it = [s \in SUBSET S |-> IF s = {} THEN base ELSE g[<<c[s], it[s \ {c[s]}]>>]]

\* There is such a function.
LEMMA FoldExists ==
  ASSUME NEW S, IsFiniteSet(S), NEW V, NEW base \in V, NEW c, NEW g \in [S \X V -> V],
         \A s \in SUBSET S : s # {} => c[s] \in s
  PROVE  \E it \in [SUBSET S -> V] : IsFold(it, S, c, g, base)
<1> DEFINE Stage(n, it) == IsStage(it, n, S, V, c, g, base)
           B == {n \in Nat : ~ \E it : Stage(n, it)}
<1>1. \A s \in SUBSET S : Cardinality(s) \in Nat /\ (s = {} <=> Cardinality(s) = 0)
                          /\ \A x \in s : Cardinality(s \ {x}) = Cardinality(s) - 1
  BY FS_Subset, FS_RemoveElement, FS_CardinalityType, FS_EmptySet
<1>2. B = {}
  <2> SUFFICES ASSUME B # {} PROVE FALSE
    OBVIOUS
  <2>1. PICK n \in B : \A m \in B : n <= m
    BY LeastNat
  <2>2. n # 0
    <3>1. Stage(0, [s \in Small(S, 0) |-> base])
      BY <1>1 DEF IsStage, Small
    <3> QED
      BY <3>1
  <2>3. PICK h : Stage(n - 1, h)
    <3>1. n - 1 \in Nat /\ n - 1 \notin B
      BY <2>1, <2>2
    <3> HIDE DEF Stage
    <3> QED
      BY <3>1
  <2> DEFINE k == [s \in Small(S, n) |-> IF s = {} THEN base ELSE g[<<c[s], h[s \ {c[s]}]>>]]
  <2>4. \A s \in Small(S, n) : s # {} => s \ {c[s]} \in Small(S, n - 1) /\ c[s] \in S
    BY <1>1, <2>1 DEF Small
  <2>5. \A s \in Small(S, n - 1) : s \in Small(S, n) /\ k[s] = h[s]
    BY <1>1, <2>1, <2>3 DEF Small, IsStage
  <2>6. k \in [Small(S, n) -> V]
    BY <2>3, <2>4 DEF IsStage
  <2>7. \A s \in Small(S, n) : k[s] = IF s = {} THEN base ELSE g[<<c[s], k[s \ {c[s]}]>>]
    BY <2>4, <2>5
  <2>8. Stage(n, k)
    BY <2>6, <2>7 DEF IsStage
  <2> QED
    BY <2>1, <2>8
<1>3. Cardinality(S) \in Nat /\ Small(S, Cardinality(S)) = SUBSET S
  BY <1>1, FS_Subset, FS_CardinalityType DEF Small
<1>4. PICK it : Stage(Cardinality(S), it)
  <2> HIDE DEF Stage
  <2> QED
    BY <1>2, <1>3
<1>5. it \in [SUBSET S -> V] /\ IsFold(it, S, c, g, base)
  BY <1>3, <1>4 DEF IsFold, IsStage
<1> QED
  BY <1>5
----------------------------------------------------------------------------
(* Sums.                                                                   *)

\* f has integers on S.
IntOn(f, S) == \A x \in S : f[x] \in Int

First(S) == [s \in SUBSET S |-> CHOOSE x \in s : TRUE]
Adding(f, S) == [xv \in S \X Int |-> f[xv[1]] + xv[2]]

\* it[s] is the sum of f over s, for every part s of S.
Sums(it, f, S) ==
  it = [s \in SUBSET S |->
          IF s = {} THEN 0
          ELSE f[CHOOSE x \in s : TRUE] + it[s \ {CHOOSE x \in s : TRUE}]]

LEMMA FirstIn ==
  ASSUME NEW S, NEW s \in SUBSET S, s # {}
  PROVE  First(S)[s] \in s /\ First(S)[s] = CHOOSE x \in s : TRUE
BY DEF First

LEMMA SumsExist ==
  ASSUME NEW S, IsFiniteSet(S), NEW f, IntOn(f, S)
  PROVE  \E it \in [SUBSET S -> Int] : Sums(it, f, S)
<1> DEFINE c == First(S)
           g == Adding(f, S)
<1>1. g \in [S \X Int -> Int]
  BY DEF Adding, IntOn
<1>2. \A s \in SUBSET S : s # {} => c[s] \in s
  BY FirstIn
<1>3. 0 \in Int
  OBVIOUS
<1>4. PICK it \in [SUBSET S -> Int] : IsFold(it, S, c, g, 0)
  <2> HIDE DEF c, g
  <2> QED
    BY <1>1, <1>2, <1>3, FoldExists
<1>5. \A s \in SUBSET S : s # {} => c[s] \in S /\ it[s \ {c[s]}] \in Int
  BY <1>2
<1>6. \A s \in SUBSET S :
        s # {} => g[<<c[s], it[s \ {c[s]}]>>] = f[c[s]] + it[s \ {c[s]}]
  BY <1>5 DEF Adding
<1>7. \A s \in SUBSET S : s # {} => c[s] = CHOOSE x \in s : TRUE
  BY FirstIn
<1>8. Sums(it, f, S)
  <2> HIDE DEF c, g
  <2> QED
    BY <1>4, <1>6, <1>7 DEF IsFold, Sums
<1> QED
  BY <1>8

LEMMA SumsUnique ==
  ASSUME NEW S, IsFiniteSet(S), NEW f, NEW h, NEW k, Sums(h, f, S), Sums(k, f, S)
  PROVE  h = k
<1> DEFINE B == {s \in SUBSET S : h[s] # k[s]}
<1>1. B = {}
  <2> SUFFICES ASSUME B # {} PROVE FALSE
    OBVIOUS
  <2>1. PICK s \in B : \A x \in s : s \ {x} \notin B
    BY LeastSubset
  <2> DEFINE x == CHOOSE x \in s : TRUE
  <2>2. s # {}
    BY DEF Sums
  <2>3. x \in s
    BY <2>2
  <2> HIDE DEF x
  <2>4. h[s \ {x}] = k[s \ {x}]
    BY <2>1, <2>3
  <2>5. h[s] = f[x] + h[s \ {x}] /\ k[s] = f[x] + k[s \ {x}]
    BY <2>2 DEF Sums, x
  <2> QED
    BY <2>4, <2>5
<1> QED
  BY <1>1 DEF Sums

LEMMA SumIs ==
  ASSUME NEW S, IsFiniteSet(S), NEW f, NEW it, Sums(it, f, S)
  PROVE  SumFunctionOnSet(f, S) = it[S]
<1> DEFINE j == CHOOSE j : Sums(j, f, S)
<1>1. SumFunctionOnSet(f, S) = j[S]
  BY DEF SumFunctionOnSet, FoldFunctionOnSet, MapThenFoldSet, Sums
<1>2. Sums(j, f, S)
  OBVIOUS
<1> HIDE DEF j
<1>3. j = it
  BY <1>2, SumsUnique
<1> QED
  BY <1>1, <1>3


Part(it, T) == [s \in SUBSET T |-> it[s]]

LEMMA SumOfPart ==
  ASSUME NEW S, NEW T \in SUBSET S, NEW f, NEW it, Sums(it, f, S)
  PROVE  Sums(Part(it, T), f, T)
<1>1. \A s \in SUBSET T : s # {} => s \ {CHOOSE x \in s : TRUE} \in SUBSET T
  OBVIOUS
<1> QED
  BY <1>1 DEF Sums, Part

\* Nothing sums up to nothing.
LEMMA SumEmpty ==
  ASSUME NEW f
  PROVE  SumFunctionOnSet(f, {}) = 0
<1>1. PICK it : Sums(it, f, {})
  BY SumsExist, FS_EmptySet DEF IntOn
<1>2. it[{}] = 0
  BY <1>1 DEF Sums
<1> QED
  BY <1>1, <1>2, SumIs, FS_EmptySet

Takes(it, f, S) == \A s \in SUBSET S : \A x \in s : it[s] = f[x] + it[s \ {x}]

\* The order of summation does not matter.
LEMMA SumTakes ==
  ASSUME NEW S, IsFiniteSet(S), NEW f, IntOn(f, S),
         NEW it \in [SUBSET S -> Int], Sums(it, f, S)
  PROVE  Takes(it, f, S)
<1> DEFINE B == {s \in SUBSET S : \E x \in s : it[s] # f[x] + it[s \ {x}]}
<1>1. SUFFICES ASSUME B # {} PROVE FALSE
  BY DEF Takes
<1>2. PICK s \in B : \A x \in s : s \ {x} \notin B
  BY <1>1, LeastSubset
<1>3. PICK x \in s : it[s] # f[x] + it[s \ {x}]
  OBVIOUS
<1> DEFINE c == CHOOSE y \in s : TRUE
<1>4. c \in s
  BY <1>3
<1>5. it[s] = f[c] + it[s \ {c}]
  BY <1>3 DEF Sums
<1> HIDE DEF c
<1>6. c # x
  BY <1>3, <1>5
<1>7. it[s \ {c}] = f[x] + it[(s \ {c}) \ {x}]
  BY <1>2, <1>4, <1>6
<1>8. it[s \ {x}] = f[c] + it[(s \ {x}) \ {c}]
  BY <1>2, <1>4, <1>6
<1>9. (s \ {c}) \ {x} = (s \ {x}) \ {c}
  OBVIOUS
<1> DEFINE r == it[(s \ {x}) \ {c}]
<1>10. it[s \ {c}] = f[x] + r /\ it[s \ {x}] = f[c] + r
  BY <1>7, <1>8, <1>9
<1>11. f[x] \in Int /\ f[c] \in Int /\ r \in Int
  BY <1>4 DEF IntOn
<1> HIDE DEF r
<1>12. it[s] = f[x] + it[s \ {x}]
  BY <1>5, <1>10, <1>11
<1> QED
  BY <1>3, <1>12

\* One term of a sum can be put first.
LEMMA SumRemove ==
  ASSUME NEW S, IsFiniteSet(S), NEW f, IntOn(f, S), NEW x \in S
  PROVE  SumFunctionOnSet(f, S) = f[x] + SumFunctionOnSet(f, S \ {x})
<1>1. PICK it \in [SUBSET S -> Int] : Sums(it, f, S)
  BY SumsExist
<1>2. SumFunctionOnSet(f, S) = it[S]
  BY <1>1, SumIs
<1>3. Part(it, S \ {x})[S \ {x}] = it[S \ {x}]
  BY DEF Part
<1>4. Sums(Part(it, S \ {x}), f, S \ {x})
  BY <1>1, SumOfPart
<1>5. SumFunctionOnSet(f, S \ {x}) = it[S \ {x}]
  BY <1>3, <1>4, SumIs, FS_RemoveElement
<1>6. Takes(it, f, S)
  BY <1>1, SumTakes
<1> QED
  BY <1>2, <1>5, <1>6 DEF Takes

LEMMA SumType ==
  ASSUME NEW S, IsFiniteSet(S), NEW f, IntOn(f, S)
  PROVE  SumFunctionOnSet(f, S) \in Int
<1>1. PICK it \in [SUBSET S -> Int] : Sums(it, f, S)
  BY SumsExist
<1> QED
  BY <1>1, SumIs

\* A sum depends on its terms only.
LEMMA SumSame ==
  ASSUME NEW S, IsFiniteSet(S), NEW f, IntOn(f, S), NEW g, \A x \in S : f[x] = g[x]
  PROVE  SumFunctionOnSet(f, S) = SumFunctionOnSet(g, S)
<1>1. PICK it \in [SUBSET S -> Int] : Sums(it, f, S)
  BY SumsExist
<1>2. \A s \in SUBSET S : s # {} => (CHOOSE x \in s : TRUE) \in S
  OBVIOUS
<1>3. Sums(it, g, S)
  BY <1>1, <1>2 DEF Sums
<1> QED
  BY <1>1, <1>3, SumIs

\* A sum above zero has a term above zero.
LEMMA SumPositive ==
  ASSUME NEW S, IsFiniteSet(S), NEW f, IntOn(f, S), SumFunctionOnSet(f, S) > 0
  PROVE  \E x \in S : f[x] > 0
<1> DEFINE B == {s \in SUBSET S : SumFunctionOnSet(f, s) > 0}
<1>1. B # {}
  OBVIOUS
<1>2. PICK s \in B : \A x \in s : s \ {x} \notin B
  BY <1>1, LeastSubset
<1>3. IsFiniteSet(s) /\ IntOn(f, s)
  BY FS_Subset DEF IntOn
<1>4. PICK x \in s : TRUE
  BY <1>2, SumEmpty
<1>5. SumFunctionOnSet(f, s) = f[x] + SumFunctionOnSet(f, s \ {x})
  BY <1>3, SumRemove
<1>6. SumFunctionOnSet(f, s \ {x}) \in Int /\ f[x] \in Int
  <2>1. IsFiniteSet(s \ {x}) /\ IntOn(f, s \ {x})
    BY <1>3, FS_RemoveElement DEF IntOn
  <2> QED
    BY <1>3, <2>1, SumType DEF IntOn
<1>7. ~(SumFunctionOnSet(f, s \ {x}) > 0) /\ SumFunctionOnSet(f, s) > 0
  BY <1>2
<1> QED
  BY <1>5, <1>6, <1>7

\* A sum of naturals is a natural.
LEMMA SumNat ==
  ASSUME NEW S, IsFiniteSet(S), NEW f, \A x \in S : f[x] \in Nat
  PROVE  SumFunctionOnSet(f, S) \in Nat
<1> DEFINE B == {s \in SUBSET S : SumFunctionOnSet(f, s) \notin Nat}
<1>1. SUFFICES ASSUME B # {} PROVE FALSE
  OBVIOUS
<1>2. PICK s \in B : \A x \in s : s \ {x} \notin B
  BY <1>1, LeastSubset
<1>3. IsFiniteSet(s) /\ IntOn(f, s)
  BY FS_Subset DEF IntOn
<1>4. PICK x \in s : TRUE
  BY <1>2, SumEmpty
<1>5. SumFunctionOnSet(f, s) = f[x] + SumFunctionOnSet(f, s \ {x})
  BY <1>3, SumRemove
<1>6. SumFunctionOnSet(f, s \ {x}) \in Nat /\ f[x] \in Nat
  BY <1>2
<1> QED
  BY <1>2, <1>5, <1>6

\* Two sums that differ in one term differ by what it differs.
LEMMA SumChange ==
  ASSUME NEW S, IsFiniteSet(S), NEW f, IntOn(f, S), NEW g, IntOn(g, S),
         NEW x \in S, \A y \in S : y # x => f[y] = g[y]
  PROVE  SumFunctionOnSet(g, S) = SumFunctionOnSet(f, S) - f[x] + g[x]
<1>1. IsFiniteSet(S \ {x}) /\ IntOn(f, S \ {x})
  BY FS_RemoveElement DEF IntOn
<1>2. SumFunctionOnSet(f, S \ {x}) = SumFunctionOnSet(g, S \ {x})
  BY <1>1, SumSame
<1>3. SumFunctionOnSet(f, S \ {x}) \in Int
  BY <1>1, SumType
<1>4. /\ SumFunctionOnSet(f, S) = f[x] + SumFunctionOnSet(f, S \ {x})
      /\ SumFunctionOnSet(g, S) = g[x] + SumFunctionOnSet(g, S \ {x})
  BY SumRemove
<1>5. f[x] \in Int /\ g[x] \in Int
  BY DEF IntOn
<1> DEFINE r == SumFunctionOnSet(f, S \ {x})
           a == SumFunctionOnSet(f, S)
           b == SumFunctionOnSet(g, S)
<1>6. r \in Int /\ a = f[x] + r /\ b = g[x] + r
  BY <1>2, <1>3, <1>4
<1> HIDE DEF r, a, b
<1>7. b = a - f[x] + g[x]
  BY <1>5, <1>6
<1> QED
  BY <1>7 DEF a, b

\* A sum grows with its terms.
LEMMA SumGrows ==
  ASSUME NEW S, IsFiniteSet(S), NEW f, IntOn(f, S), NEW g, IntOn(g, S),
         \A x \in S : f[x] <= g[x]
  PROVE  SumFunctionOnSet(f, S) <= SumFunctionOnSet(g, S)
<1> DEFINE B == {s \in SUBSET S : ~(SumFunctionOnSet(f, s) <= SumFunctionOnSet(g, s))}
<1>1. SUFFICES ASSUME B # {} PROVE FALSE
  OBVIOUS
<1>2. PICK s \in B : \A x \in s : s \ {x} \notin B
  BY <1>1, LeastSubset
<1>3. IsFiniteSet(s) /\ IntOn(f, s) /\ IntOn(g, s)
  BY FS_Subset DEF IntOn
<1>4. PICK x \in s : TRUE
  BY <1>2, SumEmpty
<1>5. /\ SumFunctionOnSet(f, s) = f[x] + SumFunctionOnSet(f, s \ {x})
      /\ SumFunctionOnSet(g, s) = g[x] + SumFunctionOnSet(g, s \ {x})
  BY <1>3, SumRemove
<1>6. /\ SumFunctionOnSet(f, s \ {x}) \in Int /\ f[x] \in Int
      /\ SumFunctionOnSet(g, s \ {x}) \in Int /\ g[x] \in Int
  <2>1. IsFiniteSet(s \ {x}) /\ IntOn(f, s \ {x}) /\ IntOn(g, s \ {x})
    BY <1>3, FS_RemoveElement DEF IntOn
  <2> QED
    BY <1>3, <2>1, SumType DEF IntOn
<1>7. SumFunctionOnSet(f, s \ {x}) <= SumFunctionOnSet(g, s \ {x}) /\ f[x] <= g[x]
  BY <1>2
<1>8. ~(SumFunctionOnSet(f, s) <= SumFunctionOnSet(g, s))
  BY <1>2
<1> QED
  BY <1>5, <1>6, <1>7, <1>8

----------------------------------------------------------------------------
(* Sums over pods and over nodes.                                          *)

\* The community module's sum of an operator is the sum of a function with its values.
LEMMA SumOfRequests ==
  ASSUME NEW P, NEW d
  PROVE  MapThenSumSet(LAMBDA p : p.request[d], P)
           = SumFunctionOnSet([p \in P |-> p.request[d]], P)
<1> DEFINE f == [p \in P |-> p.request[d]]
           G(it) == [s \in SUBSET P |->
                       IF s = {} THEN 0
                       ELSE (CHOOSE x \in s : TRUE).request[d] + it[s \ {CHOOSE x \in s : TRUE}]]
           F(it) == [s \in SUBSET P |->
                       IF s = {} THEN 0
                       ELSE f[CHOOSE x \in s : TRUE] + it[s \ {CHOOSE x \in s : TRUE}]]
<1>1. MapThenSumSet(LAMBDA p : p.request[d], P) = (CHOOSE it : it = G(it))[P]
  BY DEF MapThenSumSet, MapThenFoldSet
<1>2. SumFunctionOnSet(f, P) = (CHOOSE it : it = F(it))[P]
  <2> HIDE DEF f
  <2> QED
    BY DEF SumFunctionOnSet, FoldFunctionOnSet, MapThenFoldSet
<1>3. ASSUME NEW it PROVE F(it) = G(it)
  <2>1. \A s \in SUBSET P : s # {} => (CHOOSE x \in s : TRUE) \in P
    OBVIOUS
  <2> QED
    BY <2>1
<1>4. (CHOOSE it : it = G(it)) = (CHOOSE it : it = F(it))
  <2> HIDE DEF F, G
  <2> QED
    BY <1>3
<1> QED
  BY <1>1, <1>2, <1>4

Fits(N, P, sp) == [n \in DOMAIN N |-> NodeFit(N[n], n, P, sp)]

LEMMA SumOfFits ==
  ASSUME NEW N, NEW P, NEW sp
  PROVE  RawFitSum(N, P, sp) = SumFunctionOnSet(Fits(N, P, sp), DOMAIN N)
<1> DEFINE S == DOMAIN N
           f == Fits(N, P, sp)
           h(n) == NodeFit(N[n], n, P, sp)
           G(it) == [s \in SUBSET S |->
                       IF s = {} THEN 0
                       ELSE h(CHOOSE x \in s : TRUE) + it[s \ {CHOOSE x \in s : TRUE}]]
           F(it) == [s \in SUBSET S |->
                       IF s = {} THEN 0
                       ELSE f[CHOOSE x \in s : TRUE] + it[s \ {CHOOSE x \in s : TRUE}]]
<1>1. RawFitSum(N, P, sp) = (CHOOSE it : it = G(it))[S]
  BY DEF RawFitSum, MapThenSumSet, MapThenFoldSet
<1>2. SumFunctionOnSet(f, S) = (CHOOSE it : it = F(it))[S]
  <2> HIDE DEF f
  <2> QED
    BY DEF SumFunctionOnSet, FoldFunctionOnSet, MapThenFoldSet
<1>3. ASSUME NEW it PROVE F(it) = G(it)
  <2>1. \A s \in SUBSET S : s # {} => (CHOOSE x \in s : TRUE) \in S
    OBVIOUS
  <2>2. \A x \in S : f[x] = h(x)
    BY DEF Fits
  <2> HIDE DEF f, h, S
  <2> QED
    BY <2>1, <2>2
<1>4. (CHOOSE it : it = G(it)) = (CHOOSE it : it = F(it))
  <2> HIDE DEF F, G
  <2> QED
    BY <1>3
<1> QED
  BY <1>1, <1>2, <1>4

----------------------------------------------------------------------------
(* What a pod requests.                                                    *)

LEMMA MaxIs ==
  ASSUME NEW Q \in SUBSET Nat, NEW m \in Q, \A y \in Q : m >= y
  PROVE  Max(Q) = m
<1> DEFINE x == Max(Q)
<1>1. x \in Q /\ \A y \in Q : x >= y
  BY DEF Max
<1> HIDE DEF x
<1>2. x >= m /\ m >= x /\ x \in Nat /\ m \in Nat
  BY <1>1
<1> QED
  BY <1>2 DEF x

LEMMA MaxIn ==
  ASSUME NEW n \in Nat, NEW s \in SUBSET (0..n), s # {}
  PROVE  Max(s) \in s /\ \A y \in s : Max(s) >= y
<1> DEFINE B == {m \in Nat : \A y \in s : y <= m}
<1>1. B # {}
  BY DEF B
<1>2. PICK m \in B : \A k \in B : m <= k
  BY <1>1, LeastNat
<1>3. m \in s
  <2> SUFFICES ASSUME m \notin s PROVE FALSE
    OBVIOUS
  <2>1. \A y \in s : y <= m - 1
    BY <1>2
  <2>2. m - 1 \in Nat
    <3>1. PICK y \in s : TRUE
      OBVIOUS
    <3>2. y \in Nat /\ y <= m - 1 /\ m \in Nat
      BY <2>1
    <3> QED
      BY <3>2
  <2> QED
    BY <1>2, <2>1, <2>2
<1>4. \A y \in s : m >= y
  BY <1>2
<1> QED
  BY <1>3, <1>4, MaxIs

MaxFirst(S) == [s \in SUBSET S |-> Max(s)]

LEMMA MaxFirstIn ==
  ASSUME NEW n \in Nat
  PROVE  /\ \A s \in SUBSET (1..n) : s # {} => MaxFirst(1..n)[s] \in s
         /\ \A i \in 1..n : MaxFirst(1..n)[1..i] = i
<1>1. \A s \in SUBSET (1..n) : s \in SUBSET (0..n) /\ MaxFirst(1..n)[s] = Max(s)
  BY DEF MaxFirst
<1>2. ASSUME NEW i \in 1..n PROVE Max(1..i) = i
  <2>1. 1..i \in SUBSET (0..n) /\ i \in 1..i
    OBVIOUS
  <2>2. Max(1..i) \in 1..i /\ Max(1..i) >= i
    BY <2>1, MaxIn
  <2> QED
    BY <2>2
<1>3. \A i \in 1..n : 1..i \in SUBSET (1..n)
  OBVIOUS
<1> QED
  BY <1>1, <1>2, <1>3, MaxIn

\* FoldLeft takes the largest index of a set first: the recursion it is defined by
\* has a solution with values in V,
LEMMA LeftFoldExists ==
  ASSUME NEW n \in Nat, NEW V, NEW base \in V, NEW g \in [(1..n) \X V -> V]
  PROVE  \E it \in [SUBSET (1..n) -> V] :
           IsFold(it, 1..n, MaxFirst(1..n), g, base)
<1>1. \A s \in SUBSET (1..n) : s # {} => MaxFirst(1..n)[s] \in s
  BY MaxFirstIn
<1>2. IsFiniteSet(1..n)
  BY FS_Interval
<1> QED
  BY <1>1, <1>2, FoldExists

\* and a solution goes over the sequence from the left.
Solves(it, n, V, g, base) ==
  /\ it[{}] = base
  /\ \A s \in SUBSET (1..n) :
       s # {} /\ it[s \ {Max(s)}] \in V => it[s] = g[<<Max(s), it[s \ {Max(s)}]>>]

Goes(t, n, V, g, base, end) ==
  /\ t \in [0..n -> V]
  /\ t[0] = base /\ t[n] = end /\ \A i \in 1..n : t[i] = g[<<i, t[i - 1]>>]

LEMMA FromTheLeft ==
  ASSUME NEW n \in Nat, NEW V, NEW base \in V, NEW g \in [(1..n) \X V -> V],
         NEW it, Solves(it, n, V, g, base)
  PROVE  \E t : Goes(t, n, V, g, base, it[1..n])
<1> DEFINE B == {s \in SUBSET (1..n) : it[s] \notin V}
           t == [i \in 0..n |-> it[1..i]]
<1>1. IsFiniteSet(1..n) /\ \A s \in SUBSET (1..n) : s # {} => Max(s) \in s
  <2>1. IsFiniteSet(1..n)
    BY FS_Interval
  <2> QED
    BY <2>1, MaxFirstIn DEF MaxFirst
<1>2. B = {}
  <2> SUFFICES ASSUME B # {} PROVE FALSE
    OBVIOUS
  <2>1. PICK s \in B : \A x \in s : s \ {x} \notin B
    BY <1>1, LeastSubset
  <2>2. s # {}
    BY DEF Solves
  <2>3. it[s \ {Max(s)}] \in V /\ Max(s) \in 1..n
    <3>1. Max(s) \in s /\ s \in SUBSET (1..n)
      BY <1>1, <2>2
    <3>2. s \ {Max(s)} \in SUBSET (1..n) /\ s \ {Max(s)} \notin B
      BY <2>1, <3>1
    <3> QED
      BY <3>1, <3>2
  <2>4. it[s] = g[<<Max(s), it[s \ {Max(s)}]>>]
    BY <2>2, <2>3 DEF Solves
  <2> QED
    BY <2>3, <2>4
<1>3. \A i \in 0..n : 1..i \in SUBSET (1..n)
  OBVIOUS
<1>4. t \in [0..n -> V]
  BY <1>2, <1>3
<1>5. t[0] = base
  <2>1. t[0] = it[1..0] /\ 1..0 = {} /\ it[{}] = base
    BY DEF Solves
  <2> QED
    BY <2>1, Zenon
<1>6. ASSUME NEW i \in 1..n PROVE t[i] = g[<<i, t[i - 1]>>]
  <2>1. 1..i \in SUBSET (1..n) /\ 1..i # {} /\ (1..i) \ {i} = 1..(i - 1)
    OBVIOUS
  <2>2. Max(1..i) = i
    BY <2>1, MaxFirstIn DEF MaxFirst
  <2>3. it[1..(i - 1)] \in V
    BY <1>2, <1>3
  <2>4. it[1..i] = g[<<i, it[1..(i - 1)]>>]
    BY <2>1, <2>2, <2>3 DEF Solves
  <2>5. t[i] = it[1..i] /\ t[i - 1] = it[1..(i - 1)]
    OBVIOUS
  <2> QED
    BY <2>4, <2>5
<1>7. t[n] = it[1..n]
  OBVIOUS
<1> HIDE DEF t
<1> QED
  BY <1>4, <1>5, <1>6, <1>7 DEF Goes

LEMMA ContainerType ==
  ASSUME NEW cs \in Containers
  PROVE  /\ Len(cs) \in Nat /\ DOMAIN cs = 1..Len(cs)
         /\ \A i \in 1..Len(cs) :
              cs[i].restartable \in BOOLEAN /\ \A d \in Dims : cs[i].request[d] \in Nat
<1> DEFINE R == [request : Amounts, restartable : BOOLEAN]
<1>1. cs \in Seq(R)
  BY DEF Containers
<1>2. Len(cs) \in Nat /\ DOMAIN cs = 1..Len(cs) /\ \A i \in 1..Len(cs) : cs[i] \in R
  <2> HIDE DEF R
  <2> QED
    BY <1>1
<1> QED
  BY <1>2 DEF Amounts

\* Total adds the containers up, in order.
TotalTo(t, cs, d) ==
  /\ t \in [0..Len(cs) -> Nat]
  /\ t[0] = 0
  /\ \A i \in 1..Len(cs) : t[i] = t[i - 1] + cs[i].request[d]

LEMMA TotalRuns ==
  ASSUME NEW cs \in Containers, NEW d \in Dims
  PROVE  \E t : TotalTo(t, cs, d) /\ Total(cs, d) = t[Len(cs)]
<1> DEFINE n == Len(cs)
           g == [iv \in (1..n) \X Nat |-> iv[2] + cs[iv[1]].request[d]]
           F(it) == [s \in SUBSET (1..n) |->
                       IF s = {} THEN 0 ELSE it[s \ {Max(s)}] + cs[Max(s)].request[d]]
<1>1. n \in Nat /\ \A i \in 1..n : cs[i].request[d] \in Nat
  BY ContainerType
<1>2. Total(cs, d) = (CHOOSE it : it = F(it))[1..n]
  <2>1. DOMAIN cs = 1..n
    BY ContainerType
  <2> HIDE DEF n
  <2> QED
    BY <2>1 DEF Total, FoldLeft, MapThenFoldSet
<1>3. g \in [(1..n) \X Nat -> Nat] /\ \A i \in 1..n, v \in Nat : g[<<i, v>>] = v + cs[i].request[d]
  BY <1>1
<1> HIDE DEF n, g
<1>4. \A s \in SUBSET (1..n) : s # {} => Max(s) \in 1..n /\ MaxFirst(1..n)[s] = Max(s)
  BY <1>1, MaxFirstIn DEF MaxFirst
<1>5. PICK it \in [SUBSET (1..n) -> Nat] : IsFold(it, 1..n, MaxFirst(1..n), g, 0)
  BY <1>1, <1>3, LeftFoldExists
<1>6. it = F(it)
  <2>1. \A s \in SUBSET (1..n) : s # {} =>
          g[<<MaxFirst(1..n)[s], it[s \ {MaxFirst(1..n)[s]}]>>]
            = it[s \ {Max(s)}] + cs[Max(s)].request[d]
    BY <1>3, <1>4
  <2> QED
    BY <1>5, <2>1 DEF IsFold
<1> DEFINE j == CHOOSE j : j = F(j)
<1>7. j = F(j) /\ Total(cs, d) = j[1..n]
  <2> HIDE DEF F
  <2> QED
    BY <1>2, <1>6
<1> HIDE DEF j
<1>8. Solves(j, n, Nat, g, 0)
  BY <1>3, <1>4, <1>7 DEF Solves
<1>9. PICK t : Goes(t, n, Nat, g, 0, j[1..n])
  <2>1. n \in Nat /\ 0 \in Nat /\ g \in [(1..n) \X Nat -> Nat]
    BY <1>1, <1>3
  <2> HIDE DEF F
  <2> QED
    BY <1>8, <2>1, FromTheLeft
<1>10. \A i \in 1..n : t[i] = t[i - 1] + cs[i].request[d]
  <2>1. \A i \in 1..n : t[i - 1] \in Nat
    BY <1>1, <1>9 DEF Goes
  <2> QED
    BY <1>3, <1>9, <2>1 DEF Goes
<1>11. TotalTo(t, cs, d)
  BY <1>9, <1>10 DEF Goes, TotalTo, n
<1>12. Total(cs, d) = t[Len(cs)]
  BY <1>7, <1>9 DEF Goes, n
<1> QED
  BY <1>11, <1>12

Account == [sidecars : Nat, peak : Nat]
NoAccount == [sidecars |-> 0, peak |-> 0]

\* InitTotals takes the init containers in order.
InitTo(t, cs, d) ==
  /\ t \in [0..Len(cs) -> Account]
  /\ t[0] = NoAccount
  /\ \A i \in 1..Len(cs) : t[i] = InitStep(t[i - 1], cs[i], d)

LEMMA InitStepType ==
  ASSUME NEW acc \in Account, NEW cs \in Containers, NEW i \in 1..Len(cs), NEW d \in Dims
  PROVE  InitStep(acc, cs[i], d) \in Account
<1>1. cs[i].restartable \in BOOLEAN /\ cs[i].request[d] \in Nat
  BY ContainerType
<1> QED
  BY <1>1 DEF InitStep, Account, Greater

LEMMA InitRuns ==
  ASSUME NEW sp, sp.inits \in Containers, NEW d \in Dims
  PROVE  \E t : InitTo(t, sp.inits, d) /\ InitTotals(sp, d) = t[Len(sp.inits)]
<1> DEFINE cs == sp.inits
           n == Len(cs)
           step(i, v) == InitStep(v, cs[i], d)
           g == [iv \in (1..n) \X Account |-> InitStep(iv[2], cs[iv[1]], d)]
           F(it) == [s \in SUBSET (1..n) |->
                       IF s = {} THEN NoAccount ELSE step(Max(s), it[s \ {Max(s)}])]
<1>1. n \in Nat /\ NoAccount \in Account
  BY ContainerType DEF NoAccount, Account
<1>2. InitTotals(sp, d) = (CHOOSE it : it = F(it))[1..n]
  <2>1. DOMAIN cs = 1..n
    BY ContainerType
  <2> HIDE DEF n
  <2> QED
    BY <2>1 DEF InitTotals, FoldLeft, MapThenFoldSet, NoAccount
<1>3. g \in [(1..n) \X Account -> Account]
      /\ \A i \in 1..n, v \in Account : g[<<i, v>>] = step(i, v)
  <2>1. \A i \in 1..n, v \in Account : step(i, v) \in Account
    BY InitStepType
  <2> HIDE DEF n
  <2> QED
    BY <2>1
<1> HIDE DEF n, g, step
<1>4. \A s \in SUBSET (1..n) : s # {} => Max(s) \in 1..n /\ MaxFirst(1..n)[s] = Max(s)
  BY <1>1, MaxFirstIn DEF MaxFirst
<1>5. PICK it \in [SUBSET (1..n) -> Account] :
        IsFold(it, 1..n, MaxFirst(1..n), g, NoAccount)
  BY <1>1, <1>3, LeftFoldExists
<1>6. it = F(it)
  <2>1. \A s \in SUBSET (1..n) : s # {} =>
          g[<<MaxFirst(1..n)[s], it[s \ {MaxFirst(1..n)[s]}]>>]
            = step(Max(s), it[s \ {Max(s)}])
    BY <1>3, <1>4
  <2> QED
    BY <1>5, <2>1 DEF IsFold
<1> DEFINE j == CHOOSE j : j = F(j)
<1>7. j = F(j) /\ InitTotals(sp, d) = j[1..n]
  <2> HIDE DEF F
  <2> QED
    BY <1>2, <1>6
<1> HIDE DEF j
<1>8. Solves(j, n, Account, g, NoAccount)
  BY <1>3, <1>4, <1>7 DEF Solves
<1>9. PICK t : Goes(t, n, Account, g, NoAccount, j[1..n])
  <2>1. n \in Nat /\ NoAccount \in Account /\ g \in [(1..n) \X Account -> Account]
    BY <1>1, <1>3
  <2> HIDE DEF F
  <2> QED
    BY <1>8, <2>1, FromTheLeft
<1>10. \A i \in 1..n : t[i] = InitStep(t[i - 1], cs[i], d)
  <2>1. \A i \in 1..n : t[i - 1] \in Account
    BY <1>1, <1>9 DEF Goes
  <2> QED
    BY <1>3, <1>9, <2>1 DEF Goes, step
<1>11. InitTo(t, cs, d)
  BY <1>9, <1>10 DEF Goes, InitTo, n
<1>12. InitTotals(sp, d) = t[Len(cs)]
  BY <1>7, <1>9 DEF Goes, n
<1> QED
  BY <1>11, <1>12

\* A pod's request is an amount.
LEMMA PodRequestType ==
  ASSUME NEW sp, sp.containers \in Containers, sp.inits \in Containers,
         sp.overhead \in Amounts
  PROVE  PodRequest(sp) \in Amounts
<1>1. ASSUME NEW d \in Dims
      PROVE  /\ Total(sp.containers, d) \in Nat /\ InitTotals(sp, d) \in Account
             /\ sp.overhead[d] \in Nat
  <2>1. PICK t : TotalTo(t, sp.containers, d) /\ Total(sp.containers, d) = t[Len(sp.containers)]
    BY TotalRuns
  <2>2. PICK u : InitTo(u, sp.inits, d) /\ InitTotals(sp, d) = u[Len(sp.inits)]
    BY InitRuns
  <2>3. Len(sp.containers) \in Nat /\ Len(sp.inits) \in Nat
    BY ContainerType
  <2>4. Total(sp.containers, d) \in Nat
    BY <2>1, <2>3 DEF TotalTo
  <2>5. InitTotals(sp, d) \in Account
    BY <2>2, <2>3 DEF InitTo
  <2> QED
    BY <2>4, <2>5 DEF Amounts
<1>2. ASSUME NEW d \in Dims
      PROVE  Greater(Total(sp.containers, d) + InitTotals(sp, d).sidecars,
                     InitTotals(sp, d).peak) + sp.overhead[d] \in Nat
  BY <1>1 DEF Greater, Account
<1> QED
  BY <1>2 DEF PodRequest, Amounts

----------------------------------------------------------------------------
(* How many fit on a node.                                                 *)

\* Division rounds down:
LEMMA Quotient ==
  ASSUME NEW a \in Nat, NEW b \in Nat, b > 0
  PROVE  a \div b \in Nat /\ \A k \in Nat : k <= a \div b <=> k * b <= a
<1> DEFINE q == a \div b
           r == a % b
<1>1. q \in Int /\ r \in Int /\ a = b * q + r /\ 0 <= r /\ r < b
  OBVIOUS
<1> HIDE DEF q, r
<1>2. q >= 0
  <2> SUFFICES ASSUME q <= 0 - 1 PROVE FALSE
    BY <1>1
  <2>1. b * q <= b * (0 - 1)
    BY <1>1
  <2> QED
    BY <1>1, <2>1
<1>3. ASSUME NEW k \in Nat, k <= q PROVE k * b <= a
  <2>1. k * b <= q * b
    BY <1>1, <1>3
  <2> QED
    BY <1>1, <2>1
<1>4. ASSUME NEW k \in Nat, k >= q + 1 PROVE k * b > a
  <2>1. k * b >= (q + 1) * b
    BY <1>1, <1>4
  <2> QED
    BY <1>1, <2>1
<1> QED
  BY <1>1, <1>2, <1>3, <1>4 DEF q

\* the same with one less than the divisor added rounds up.
LEMMA RoundedUp ==
  ASSUME NEW r \in Nat, NEW b \in Nat, b > 0
  PROVE  (r + b - 1) \div b \in Nat /\ r <= ((r + b - 1) \div b) * b
<1> DEFINE a == r + b - 1
           D == a \div b
           p == D * b
<1>1. a \in Nat
  OBVIOUS
<1>2. D \in Nat /\ (D + 1 <= D <=> (D + 1) * b <= a)
  <2> HIDE DEF a
  <2>1. D \in Nat
    BY <1>1, Quotient
  <2> QED
    BY <1>1, <2>1, Quotient
<1>3. (D + 1) * b = D * b + b
  BY <1>2
<1>4. ~ (p + b <= a) /\ p \in Int
  BY <1>2, <1>3
<1> HIDE DEF D, p
<1>5. r <= p
  BY <1>4
<1> QED
  BY <1>2, <1>5 DEF D, p

LEMMA MinNat ==
  ASSUME NEW Q \in SUBSET Nat, Q # {}
  PROVE  Min(Q) \in Q /\ \A y \in Q : Min(Q) <= y
BY LeastNat DEF Min

\* FitOnNode is the most copies of the request that the slots and the free amounts hold.
LEMMA FitOnNodeIs ==
  ASSUME NEW free \in Amounts, NEW slots \in Nat, NEW request \in Amounts,
         \A d \in Dims : request[d] > 0
  PROVE  /\ FitOnNode(free, slots, request) \in Nat
         /\ \A k \in Nat : k <= FitOnNode(free, slots, request)
                             <=> k <= slots /\ \A d \in Dims : k * request[d] <= free[d]
<1> DEFINE Q == {slots} \cup {free[d] \div request[d] : d \in Dims}
           m == Min(Q)
<1>1. \A d \in Dims :
        /\ free[d] \div request[d] \in Nat
        /\ \A k \in Nat : k <= free[d] \div request[d] <=> k * request[d] <= free[d]
  BY Quotient DEF Amounts
<1>2. Q \in SUBSET Nat /\ Q # {}
  BY <1>1
<1>3. m \in Q /\ \A y \in Q : m <= y
  <2> HIDE DEF Q
  <2> QED
    BY <1>2, MinNat
<1>4. m \in Nat /\ FitOnNode(free, slots, request) = m
  BY <1>2, <1>3 DEF FitOnNode
<1>5. ASSUME NEW k \in Nat, k <= m
      PROVE  k <= slots /\ \A d \in Dims : k <= free[d] \div request[d]
  <2>1. \A y \in Q : y \in Nat /\ m <= y
    BY <1>2, <1>3
  <2>2. \A y \in Q : k <= y
    <3> HIDE DEF Q
    <3> QED
      BY <1>4, <1>5, <2>1
  <2> QED
    BY <2>2
<1>6. ASSUME NEW k \in Nat, k <= slots, \A d \in Dims : k <= free[d] \div request[d]
      PROVE  k <= m
  BY <1>3, <1>6
<1> HIDE DEF Q, m
<1> QED
  BY <1>1, <1>4, <1>5, <1>6

----------------------------------------------------------------------------
(* What a node is charged.                                                 *)

Pods == [name : PodNames, ours : BOOLEAN, node : Nodes \cup {None},
         phase : {"Pending", "Running", "Succeeded", "Failed"}, request : Amounts]

PodSet(P) == P \subseteq Pods /\ IsFiniteSet(P)

Requests(P, n, d) == [p \in ChargedTo(P, n) |-> p.request[d]]

LEMMA ChargeIs ==
  ASSUME NEW P, PodSet(P), NEW n
  PROVE  /\ IsFiniteSet(ChargedTo(P, n)) /\ Cardinality(ChargedTo(P, n)) \in Nat
         /\ Requested(P, n) \in Amounts
         /\ \A d \in Dims :
              /\ Requested(P, n)[d] = SumFunctionOnSet(Requests(P, n, d), ChargedTo(P, n))
              /\ \A p \in ChargedTo(P, n) : Requests(P, n, d)[p] \in Nat
<1> DEFINE C == ChargedTo(P, n)
<1>1. C \subseteq P
  BY DEF ChargedTo
<1>2. IsFiniteSet(C) /\ Cardinality(C) \in Nat
  BY <1>1, FS_Subset, FS_CardinalityType DEF PodSet
<1>3. ASSUME NEW d \in Dims
      PROVE  /\ Requested(P, n)[d] = SumFunctionOnSet(Requests(P, n, d), C)
             /\ \A p \in C : Requests(P, n, d)[p] \in Nat
             /\ Requested(P, n)[d] \in Nat
  <2>1. Requested(P, n)[d] = MapThenSumSet(LAMBDA p : p.request[d], C)
    BY DEF Requested
  <2>2. MapThenSumSet(LAMBDA p : p.request[d], C) = SumFunctionOnSet(Requests(P, n, d), C)
    BY SumOfRequests DEF Requests
  <2>3. \A p \in C : Requests(P, n, d)[p] \in Nat
    BY <1>1 DEF Requests, PodSet, Pods, Amounts
  <2>4. SumFunctionOnSet(Requests(P, n, d), C) \in Nat
    <3> HIDE DEF C
    <3> QED
      BY <1>2, <2>3, SumNat
  <2> QED
    BY <2>1, <2>2, <2>3, <2>4
<1>4. Requested(P, n) \in Amounts
  BY <1>3 DEF Requested, Amounts
<1> QED
  BY <1>2, <1>3, <1>4

\* R charges q to node n, and P does not.
Charges(R, P, n, q) ==
  q \notin ChargedTo(P, n) /\ ChargedTo(R, n) = ChargedTo(P, n) \cup {q}

\* One more pod on a node is charged to it once.
LEMMA ChargeMore ==
  ASSUME NEW P, PodSet(P), NEW R, PodSet(R), NEW n, NEW q, Charges(R, P, n, q)
  PROVE  /\ Cardinality(ChargedTo(R, n)) = Cardinality(ChargedTo(P, n)) + 1
         /\ \A d \in Dims : Requested(R, n)[d] = Requested(P, n)[d] + q.request[d]
<1> DEFINE C == ChargedTo(P, n)
           D == ChargedTo(R, n)
<1>1. /\ IsFiniteSet(C) /\ IsFiniteSet(D)
      /\ q \in D /\ q \notin C /\ D = C \cup {q} /\ D \ {q} = C
  BY ChargeIs DEF Charges
<1>2. Cardinality(D) = Cardinality(C) + 1
  BY <1>1, FS_AddElement
<1>3. ASSUME NEW d \in Dims PROVE Requested(R, n)[d] = Requested(P, n)[d] + q.request[d]
  <2> DEFINE f == Requests(P, n, d)
             g == Requests(R, n, d)
  <2>1. /\ \A p \in C : f[p] \in Nat /\ f[p] = g[p]
        /\ \A p \in D : g[p] \in Nat
        /\ g[q] = q.request[d]
        /\ Requested(P, n)[d] = SumFunctionOnSet(f, C)
        /\ Requested(R, n)[d] = SumFunctionOnSet(g, D)
    <3>1. \A p \in C : f[p] = p.request[d]
      BY DEF Requests
    <3>2. \A p \in D : g[p] = p.request[d]
      BY DEF Requests
    <3>3. C \subseteq D
      BY <1>1
    <3> QED
      BY <1>1, <3>1, <3>2, <3>3, ChargeIs
  <2>2. IntOn(f, C) /\ IntOn(g, D)
    BY <2>1 DEF IntOn
  <2> HIDE DEF C, D, f, g
  <2>3. SumFunctionOnSet(g, D) = g[q] + SumFunctionOnSet(g, C)
    BY <1>1, <2>2, SumRemove
  <2>4. SumFunctionOnSet(f, C) = SumFunctionOnSet(g, C)
    BY <1>1, <2>1, <2>2, SumSame
  <2>5. SumFunctionOnSet(f, C) \in Int /\ g[q] \in Int
    BY <1>1, <2>1, <2>2, SumType
  <2> QED
    BY <2>1, <2>3, <2>4, <2>5
<1> QED
  BY <1>2, <1>3

\* Node record `node`, named n and charged with P, holds k more pods of request r.
Holds(node, n, P, sp, k) ==
  /\ node.ready /\ ~node.stale /\ ~node.cordoned
  /\ PassesFilters(node, n, sp)
  /\ Cardinality(ChargedTo(P, n)) + k <= node.slots
  /\ \A d \in Dims :
       Requested(P, n)[d] + k * PodRequest(sp)[d] + Reserve[d] <= node.allocatable[d]

Sized(sp) == PodRequest(sp) \in Amounts /\ \A d \in Dims : PodRequest(sp)[d] > 0

\* NodeFit is the largest k that the node holds.
LEMMA NodeFitIs ==
  ASSUME NEW node \in NodeRecords, NEW n, NEW P, PodSet(P), NEW sp, Sized(sp)
  PROVE  /\ NodeFit(node, n, P, sp) \in Nat
         /\ \A k \in Nat : k > 0 => (k <= NodeFit(node, n, P, sp) <=> Holds(node, n, P, sp, k))
<1> DEFINE c == Cardinality(ChargedTo(P, n))
           a == node.allocatable
           q == Requested(P, n)
           r == PodRequest(sp)
           free == NodeFree(node, n, P)
           slots == FreeSlots(node, n, P)
<1>1. c \in Nat /\ q \in Amounts
  BY ChargeIs
<1>2. a \in Amounts /\ node.slots \in Nat
  BY DEF NodeRecords
<1>3. r \in Amounts /\ \A d \in Dims : r[d] > 0
  BY DEF Sized
<1>4. slots \in Nat /\ \A k \in Nat : k > 0 => (k <= slots <=> c + k <= node.slots)
  BY <1>1, <1>2 DEF FreeSlots, FloorZero
<1>5. \A d \in Dims :
        /\ q[d] \in Nat /\ a[d] \in Nat /\ r[d] \in Nat /\ r[d] > 0 /\ Reserve[d] \in Nat
        /\ free[d] = FloorZero(a[d] - q[d] - Reserve[d])
  BY <1>1, <1>2, <1>3, EstimateAssumption DEF NodeFree, Amounts
<1>6. free \in Amounts
  <2>1. free = [d \in Dims |-> free[d]]
    BY DEF NodeFree
  <2>2. \A d \in Dims : free[d] \in Nat
    BY <1>5 DEF FloorZero
  <2> QED
    BY <2>1, <2>2 DEF Amounts
<1>7. ASSUME NEW k \in Nat, k > 0, NEW d \in Dims
      PROVE  k * r[d] <= free[d] <=> q[d] + k * r[d] + Reserve[d] <= a[d]
  <2> DEFINE m == k * r[d]
  <2>1. m \in Nat /\ m > 0
    BY <1>5, <1>7
  <2> HIDE DEF m, q, r, a, free
  <2>2. m <= free[d] <=> q[d] + m + Reserve[d] <= a[d]
    BY <1>5, <2>1 DEF FloorZero
  <2> QED
    BY <2>2 DEF m
<1> HIDE DEF free, slots, q, r, a, c
<1>8. /\ FitOnNode(free, slots, r) \in Nat
      /\ \A k \in Nat : k <= FitOnNode(free, slots, r)
                          <=> k <= slots /\ \A d \in Dims : k * r[d] <= free[d]
  BY <1>3, <1>4, <1>6, FitOnNodeIs
<1>9. NodeFit(node, n, P, sp)
        = IF Candidate(node, n, P, sp) THEN FitOnNode(free, slots, r) ELSE 0
  BY DEF NodeFit, free, slots, r
<1>10. NodeFit(node, n, P, sp) \in Nat
  BY <1>8, <1>9
<1>11. ASSUME NEW k \in Nat, k > 0
       PROVE  k <= NodeFit(node, n, P, sp) <=> Holds(node, n, P, sp, k)
  <2>1. Candidate(node, n, P, sp)
          <=> /\ node.ready /\ ~node.stale /\ ~node.cordoned
              /\ PassesFilters(node, n, sp) /\ slots > 0
    BY DEF Candidate, slots
  <2>2. Holds(node, n, P, sp, k)
          <=> /\ node.ready /\ ~node.stale /\ ~node.cordoned
              /\ PassesFilters(node, n, sp) /\ c + k <= node.slots
              /\ \A d \in Dims : q[d] + k * r[d] + Reserve[d] <= a[d]
    BY DEF Holds, c, q, r, a
  <2>3. (c + k <= node.slots <=> k <= slots) /\ (k <= slots => slots > 0)
    BY <1>4, <1>11
  <2>4. (\A d \in Dims : k * r[d] <= free[d])
          <=> \A d \in Dims : q[d] + k * r[d] + Reserve[d] <= a[d]
    BY <1>7, <1>11
  <2>5. CASE Candidate(node, n, P, sp)
    BY <1>8, <1>9, <2>1, <2>2, <2>3, <2>4, <2>5
  <2>6. CASE ~Candidate(node, n, P, sp)
    BY <1>9, <1>11, <2>1, <2>2, <2>3, <2>6
  <2> QED
    BY <2>5, <2>6
<1> QED
  BY <1>10, <1>11

\* The estimate adds up naturals, one for each node.
LEMMA FitsAre ==
  ASSUME NEW N \in [Nodes -> NodeRecords], NEW P, PodSet(P), NEW sp, Sized(sp)
  PROVE  /\ DOMAIN N = Nodes /\ IntOn(Fits(N, P, sp), Nodes)
         /\ \A n \in Nodes : /\ Fits(N, P, sp)[n] = NodeFit(N[n], n, P, sp)
                             /\ Fits(N, P, sp)[n] \in Nat
         /\ RawFitSum(N, P, sp) = SumFunctionOnSet(Fits(N, P, sp), Nodes)
         /\ RawFitSum(N, P, sp) \in Nat
<1>1. DOMAIN N = Nodes
  OBVIOUS
<1>2. \A n \in Nodes : Fits(N, P, sp)[n] = NodeFit(N[n], n, P, sp)
  BY DEF Fits
<1>3. \A n \in Nodes : NodeFit(N[n], n, P, sp) \in Nat
  BY NodeFitIs
<1>4. RawFitSum(N, P, sp) = SumFunctionOnSet(Fits(N, P, sp), Nodes)
  BY <1>1, SumOfFits
<1>5. IntOn(Fits(N, P, sp), Nodes)
  BY <1>2, <1>3 DEF IntOn
<1>6. SumFunctionOnSet(Fits(N, P, sp), Nodes) \in Nat
  BY <1>2, <1>3, SumNat, PlacementAssumption
<1> QED
  BY <1>1, <1>2, <1>3, <1>4, <1>5, <1>6

----------------------------------------------------------------------------
(* What one event changes.                                                 *)

OnNode(p, n) == p.node = n /\ Chargeable(p)

SameCharge(R, P, n) ==
  /\ Cardinality(ChargedTo(R, n)) = Cardinality(ChargedTo(P, n))
  /\ Requested(R, n) = Requested(P, n)

\* R charges node n one pod of this request more than P.
OneMore(R, P, n, request) ==
  /\ Cardinality(ChargedTo(R, n)) = Cardinality(ChargedTo(P, n)) + 1
  /\ \A d \in Dims : Requested(R, n)[d] = Requested(P, n)[d] + request[d]

LEMMA ChargeAdd ==
  ASSUME NEW P, PodSet(P), NEW q \in Pods, q \notin P, NEW n
  PROVE  /\ PodSet(P \cup {q})
         /\ OnNode(q, n) => OneMore(P \cup {q}, P, n, q.request)
         /\ ~OnNode(q, n) => SameCharge(P \cup {q}, P, n)
<1> DEFINE R == P \cup {q}
<1>1. PodSet(R)
  <2>1. IsFiniteSet(R)
    BY FS_AddElement DEF PodSet
  <2> QED
    BY <2>1 DEF PodSet
<1>2. ASSUME OnNode(q, n) PROVE OneMore(R, P, n, q.request)
  <2>1. Charges(R, P, n, q)
    BY <1>2 DEF Charges, ChargedTo, OnNode
  <2> HIDE DEF R
  <2>2. /\ Cardinality(ChargedTo(R, n)) = Cardinality(ChargedTo(P, n)) + 1
        /\ \A d \in Dims : Requested(R, n)[d] = Requested(P, n)[d] + q.request[d]
    BY <1>1, <2>1, ChargeMore
  <2> QED
    BY <2>2 DEF OneMore
<1>3. ASSUME ~OnNode(q, n) PROVE SameCharge(R, P, n)
  <2>1. ChargedTo(R, n) = ChargedTo(P, n)
    BY <1>3 DEF ChargedTo, OnNode
  <2> QED
    BY <2>1 DEF SameCharge, Requested
<1> QED
  BY <1>1, <1>2, <1>3

UniqueNames(P) == \A p, q \in P : p.name = q.name => p = q

\* A pod is replaced by another version of itself.
Replaced(P, p, q) == (P \ {p}) \cup {q}

LEMMA ReplaceType ==
  ASSUME NEW P, PodSet(P), UniqueNames(P), NEW p \in P, NEW q \in Pods, q.name = p.name
  PROVE  /\ PodSet(P \ {p}) /\ PodSet(Replaced(P, p, q)) /\ UniqueNames(Replaced(P, p, q))
         /\ q \notin P \ {p} /\ (P \ {p}) \cup {p} = P
<1>1. PodSet(P \ {p})
  <2>1. IsFiniteSet(P \ {p})
    BY FS_RemoveElement DEF PodSet
  <2> QED
    BY <2>1 DEF PodSet
<1>2. q \notin P \ {p}
  BY DEF UniqueNames
<1>3. PodSet(Replaced(P, p, q))
  BY <1>1, <1>2, ChargeAdd DEF Replaced
<1>4. UniqueNames(Replaced(P, p, q))
  BY DEF UniqueNames, Replaced
<1> QED
  BY <1>1, <1>2, <1>3, <1>4

LEMMA ReplaceCharge ==
  ASSUME NEW P, PodSet(P), UniqueNames(P), NEW p \in P, NEW q \in Pods,
         q.name = p.name, q.request = p.request, NEW n
  PROVE  /\ (OnNode(p, n) <=> OnNode(q, n)) => SameCharge(Replaced(P, p, q), P, n)
         /\ ~OnNode(p, n) /\ OnNode(q, n) => OneMore(Replaced(P, p, q), P, n, p.request)
         /\ OnNode(p, n) /\ ~OnNode(q, n) => OneMore(P, Replaced(P, p, q), n, p.request)
<1> DEFINE Q == P \ {p}
           R == Replaced(P, p, q)
<1>1. /\ PodSet(Q) /\ PodSet(R) /\ q \notin Q /\ p \notin Q /\ p \in Pods
      /\ P = Q \cup {p} /\ R = Q \cup {q}
  BY ReplaceType DEF Replaced, PodSet
<1>2. /\ OnNode(p, n) => OneMore(P, Q, n, p.request)
      /\ ~OnNode(p, n) => SameCharge(P, Q, n)
  <2> HIDE DEF Q
  <2>1. /\ OnNode(p, n) => OneMore(Q \cup {p}, Q, n, p.request)
        /\ ~OnNode(p, n) => SameCharge(Q \cup {p}, Q, n)
    BY <1>1, ChargeAdd
  <2> QED
    BY <1>1, <2>1
<1>3. /\ OnNode(q, n) => OneMore(R, Q, n, p.request)
      /\ ~OnNode(q, n) => SameCharge(R, Q, n)
  <2> HIDE DEF Q
  <2>1. /\ OnNode(q, n) => OneMore(Q \cup {q}, Q, n, q.request)
        /\ ~OnNode(q, n) => SameCharge(Q \cup {q}, Q, n)
    BY <1>1, ChargeAdd
  <2> QED
    BY <1>1, <2>1
<1>4. /\ Requested(P, n) \in Amounts /\ Requested(Q, n) \in Amounts
      /\ Requested(R, n) \in Amounts
      /\ Cardinality(ChargedTo(P, n)) \in Nat /\ Cardinality(ChargedTo(Q, n)) \in Nat
      /\ Cardinality(ChargedTo(R, n)) \in Nat
  <2> HIDE DEF Q, R
  <2> QED
    BY <1>1, ChargeIs
<1>5. p.request \in Amounts
  BY <1>1 DEF Pods
<1> DEFINE cP == Cardinality(ChargedTo(P, n))
           cQ == Cardinality(ChargedTo(Q, n))
           cR == Cardinality(ChargedTo(R, n))
           rP == Requested(P, n)
           rQ == Requested(Q, n)
           rR == Requested(R, n)
<1>6. CASE OnNode(p, n) /\ OnNode(q, n)
  <2>1. cR = cP /\ \A d \in Dims : rR[d] = rP[d]
    BY <1>2, <1>3, <1>6 DEF OneMore
  <2>2. rR = rP
    <3>1. rR \in Amounts /\ rP \in Amounts
      BY <1>4
    <3> HIDE DEF rR, rP
    <3> QED
      BY <2>1, <3>1 DEF Amounts
  <2> QED
    BY <1>6, <2>1, <2>2 DEF SameCharge
<1>7. CASE ~OnNode(p, n) /\ ~OnNode(q, n)
  BY <1>2, <1>3, <1>7 DEF SameCharge
<1>8. CASE ~OnNode(p, n) /\ OnNode(q, n)
  BY <1>2, <1>3, <1>8 DEF SameCharge, OneMore
<1>9. CASE OnNode(p, n) /\ ~OnNode(q, n)
  BY <1>2, <1>3, <1>9 DEF SameCharge, OneMore
<1> QED
  BY <1>6, <1>7, <1>8, <1>9

\* A node's term stays as it is when its charge does.
LEMMA FitSame ==
  ASSUME NEW node \in NodeRecords, NEW n, NEW P, PodSet(P), NEW R, PodSet(R),
         NEW sp, Sized(sp), SameCharge(R, P, n)
  PROVE  NodeFit(node, n, R, sp) = NodeFit(node, n, P, sp)
<1> DEFINE a == NodeFit(node, n, P, sp)
           b == NodeFit(node, n, R, sp)
<1>1. \A k \in Nat : Holds(node, n, R, sp, k) <=> Holds(node, n, P, sp, k)
  BY DEF Holds, SameCharge
<1>2. a \in Nat /\ b \in Nat /\ \A k \in Nat : k > 0 => (k <= a <=> k <= b)
  BY <1>1, NodeFitIs
<1> HIDE DEF a, b
<1>3. a = b
  BY <1>2
<1> QED
  BY <1>3 DEF a, b

\* It grows when a pod leaves,
LEMMA FitOfLeft ==
  ASSUME NEW node \in NodeRecords, NEW n, NEW P, PodSet(P), NEW R, PodSet(R),
         NEW sp, Sized(sp), NEW request \in Amounts, OneMore(P, R, n, request)
  PROVE  NodeFit(node, n, P, sp) <= NodeFit(node, n, R, sp)
<1> DEFINE a == NodeFit(node, n, P, sp)
           b == NodeFit(node, n, R, sp)
<1>1. ASSUME NEW k \in Nat, Holds(node, n, P, sp, k) PROVE Holds(node, n, R, sp, k)
  <2>1. /\ Cardinality(ChargedTo(P, n)) \in Nat /\ Cardinality(ChargedTo(R, n)) \in Nat
        /\ Requested(P, n) \in Amounts /\ Requested(R, n) \in Amounts
    BY ChargeIs
  <2>2. /\ node.slots \in Nat /\ Cardinality(ChargedTo(P, n)) + k <= node.slots
        /\ Cardinality(ChargedTo(P, n)) = Cardinality(ChargedTo(R, n)) + 1
    BY <1>1 DEF NodeRecords, Holds, OneMore
  <2>3. ASSUME NEW d \in Dims
        PROVE  Requested(R, n)[d] + k * PodRequest(sp)[d] + Reserve[d] <= node.allocatable[d]
    <3> DEFINE x == Requested(R, n)[d]
               y == request[d]
               m == k * PodRequest(sp)[d]
               s == Reserve[d]
               z == node.allocatable[d]
    <3>1. x \in Nat /\ y \in Nat /\ m \in Nat /\ s \in Nat /\ z \in Nat
      BY <2>1, EstimateAssumption DEF Sized, Amounts, NodeRecords
    <3>2. (x + y) + m + s <= z
      BY <1>1 DEF OneMore, Holds
    <3> HIDE DEF x, y, m, s, z
    <3>3. x + m + s <= z
      BY <3>1, <3>2
    <3> QED
      BY <3>3 DEF x, m, s, z
  <2> QED
    BY <1>1, <2>1, <2>2, <2>3 DEF Holds
<1>2. a \in Nat /\ b \in Nat /\ \A k \in Nat : k > 0 => (k <= a => k <= b)
  BY <1>1, NodeFitIs
<1> HIDE DEF a, b
<1>3. a <= b
  BY <1>2
<1> QED
  BY <1>3 DEF a, b

\* shrinks by what a pod of another size displaces,
LEMMA FitOfArrived ==
  ASSUME NEW node \in NodeRecords, NEW n, NEW P, PodSet(P), NEW R, PodSet(R),
         NEW sp, Sized(sp), NEW request \in Amounts, OneMore(R, P, n, request),
         NEW D \in Nat, D >= 1, \A d \in Dims : request[d] <= D * PodRequest(sp)[d]
  PROVE  NodeFit(node, n, P, sp) <= NodeFit(node, n, R, sp) + D
<1> DEFINE a == NodeFit(node, n, P, sp)
           b == NodeFit(node, n, R, sp)
<1>1. ASSUME NEW k \in Nat, Holds(node, n, P, sp, k + D) PROVE Holds(node, n, R, sp, k)
  <2>1. /\ Cardinality(ChargedTo(P, n)) \in Nat /\ Cardinality(ChargedTo(R, n)) \in Nat
        /\ Requested(P, n) \in Amounts /\ Requested(R, n) \in Amounts
    BY ChargeIs
  <2>2. /\ node.slots \in Nat /\ Cardinality(ChargedTo(P, n)) + (k + D) <= node.slots
        /\ Cardinality(ChargedTo(R, n)) = Cardinality(ChargedTo(P, n)) + 1
    BY <1>1 DEF NodeRecords, Holds, OneMore
  <2>3. ASSUME NEW d \in Dims
        PROVE  Requested(R, n)[d] + k * PodRequest(sp)[d] + Reserve[d] <= node.allocatable[d]
    <3> DEFINE x == Requested(P, n)[d]
               y == request[d]
               r == PodRequest(sp)[d]
               m == k * r
               l == D * r
               s == Reserve[d]
               z == node.allocatable[d]
    <3>1. /\ x \in Nat /\ y \in Nat /\ r \in Nat /\ s \in Nat /\ z \in Nat
          /\ m \in Nat /\ l \in Nat
      BY <2>1, EstimateAssumption DEF Sized, Amounts, NodeRecords
    <3>2. (k + D) * r = m + l
      BY <3>1
    <3>3. x + (k + D) * r + s <= z
      BY <1>1 DEF Holds
    <3>4. y <= l /\ Requested(R, n)[d] = x + y
      BY DEF OneMore
    <3> HIDE DEF x, y, m, l, s, z, r
    <3>5. x + (m + l) + s <= z
      BY <3>2, <3>3
    <3>6. (x + y) + m + s <= z
      BY <3>1, <3>4, <3>5
    <3> QED
      BY <3>4, <3>6 DEF m, s, z, r
  <2> QED
    BY <1>1, <2>1, <2>2, <2>3 DEF Holds
<1>2. a \in Nat /\ b \in Nat
  BY NodeFitIs
<1>3. \A k \in Nat : k > 0 => (k + D <= a => k <= b)
  <2> SUFFICES ASSUME NEW k \in Nat, k > 0, k + D <= a PROVE k <= b
    OBVIOUS
  <2>1. Holds(node, n, P, sp, k + D)
    <3>1. k + D \in Nat /\ k + D > 0
      OBVIOUS
    <3> QED
      BY <3>1, NodeFitIs
  <2> QED
    BY <1>1, <2>1, NodeFitIs
<1> HIDE DEF a, b
<1>4. a <= b + D
  <2> SUFFICES ASSUME a - D > b PROVE FALSE
    BY <1>2
  <2>1. a - D \in Nat /\ a - D > 0 /\ (a - D) + D <= a
    BY <1>2
  <2> QED
    BY <1>2, <1>3, <2>1
<1> QED
  BY <1>4 DEF a, b

\* and loses one, unless there was none, when a pod of the template is bound.
LEMMA FitOfBound ==
  ASSUME NEW node \in NodeRecords, NEW n, NEW P, PodSet(P), NEW R, PodSet(R),
         NEW sp, Sized(sp), OneMore(R, P, n, PodRequest(sp))
  PROVE  NodeFit(node, n, R, sp)
           = NodeFit(node, n, P, sp) - (IF NodeFit(node, n, P, sp) > 0 THEN 1 ELSE 0)
<1> DEFINE a == NodeFit(node, n, P, sp)
           b == NodeFit(node, n, R, sp)
<1>1. a \in Nat /\ b \in Nat
  BY NodeFitIs
<1>2. a <= b + 1
  <2>1. /\ PodRequest(sp) \in Amounts
        /\ \A d \in Dims : PodRequest(sp)[d] <= 1 * PodRequest(sp)[d]
    BY DEF Sized, Amounts
  <2> QED
    BY <2>1, FitOfArrived
<1>3. ASSUME NEW k \in Nat, k > 0, Holds(node, n, R, sp, k)
      PROVE  Holds(node, n, P, sp, k + 1)
  <2>1. /\ Cardinality(ChargedTo(P, n)) \in Nat /\ Cardinality(ChargedTo(R, n)) \in Nat
        /\ Requested(P, n) \in Amounts /\ Requested(R, n) \in Amounts
    BY ChargeIs
  <2>2. /\ node.slots \in Nat /\ Cardinality(ChargedTo(R, n)) + k <= node.slots
        /\ Cardinality(ChargedTo(R, n)) = Cardinality(ChargedTo(P, n)) + 1
    BY <1>3 DEF NodeRecords, Holds, OneMore
  <2>3. ASSUME NEW d \in Dims
        PROVE  Requested(P, n)[d] + (k + 1) * PodRequest(sp)[d] + Reserve[d]
                 <= node.allocatable[d]
    <3> DEFINE x == Requested(P, n)[d]
               r == PodRequest(sp)[d]
               m == k * r
               s == Reserve[d]
               z == node.allocatable[d]
    <3>1. /\ x \in Nat /\ r \in Nat /\ s \in Nat /\ z \in Nat /\ m \in Nat
      BY <2>1, EstimateAssumption DEF Sized, Amounts, NodeRecords
    <3>2. (k + 1) * r = m + r
      BY <3>1
    <3>3. Requested(R, n)[d] + m + s <= z /\ Requested(R, n)[d] = x + r
      BY <1>3 DEF Holds, OneMore
    <3> HIDE DEF x, m, s, z, r
    <3>4. x + (k + 1) * r + s <= z
      BY <3>1, <3>2, <3>3
    <3> QED
      BY <3>4 DEF x, s, z, r
  <2> QED
    BY <1>3, <2>1, <2>2, <2>3 DEF Holds
<1>4. \A k \in Nat : k > 0 => (k <= b => k + 1 <= a)
  <2> SUFFICES ASSUME NEW k \in Nat, k > 0, k <= b PROVE k + 1 <= a
    OBVIOUS
  <2>1. Holds(node, n, P, sp, k + 1)
    BY <1>3, NodeFitIs
  <2>2. k + 1 \in Nat /\ k + 1 > 0
    OBVIOUS
  <2> QED
    BY <2>1, <2>2, NodeFitIs
<1> HIDE DEF a, b
<1>5. b = a - (IF a > 0 THEN 1 ELSE 0)
  <2>1. CASE b = 0
    BY <1>1, <1>2, <2>1
  <2>2. CASE b > 0
    <3>1. b + 1 <= a
      BY <1>1, <1>4, <2>2
    <3> QED
      BY <1>1, <1>2, <3>1
  <2> QED
    BY <1>1, <2>1, <2>2
<1> QED
  BY <1>5 DEF a, b

----------------------------------------------------------------------------
(* What always holds of the pods and the nodes.                            *)

\* Taints and labels are those the nodes began with.
Kept(N) ==
  \E ns \in InitialNodes : \A n \in Nodes :
    N[n].taints = ns[n].taints /\ N[n].labels = ns[n].labels

Sound ==
  /\ template \in Templates
  /\ nodes \in [Nodes -> NodeRecords] /\ Kept(nodes)
  /\ PodSet(pods) /\ UniqueNames(pods)
  /\ \A p \in pods : p.node = None => p.phase = "Pending"
  /\ \A p \in pods : p.ours => p.request = PodRequest(spec)
  /\ Unbound # {} => Sized(spec) /\ displaced \in Nat

LEMMA RequestType ==
  ASSUME template \in Templates
  PROVE  PodRequest(spec) \in Amounts
BY PodRequestType, PlacementAssumption DEF spec

Replica(i) ==
  [name |-> i, ours |-> TRUE, node |-> None, phase |-> "Pending", request |-> PodRequest(spec)]

\* The replicas a reconcile adds are pods like any others, and no node's charge.
LEMMA AdmitAdds ==
  ASSUME Sound, NEW k \in 1..MaxStep, Admit(k)
  PROVE  /\ PodSet(pods') /\ UniqueNames(pods')
         /\ \A p \in pods' \ pods : p = Replica(p.name)
         /\ \A n \in Nodes : SameCharge(pods', pods, n)
         /\ IsFiniteSet(Unbound') /\ Cardinality(Unbound') <= k
<1>1. PICK names \in kSubset(k, FreeNames) : pods' = pods \cup {Replica(i) : i \in names}
  BY DEF Admit, Replica
<1> DEFINE new == {Replica(i) : i \in names}
<1>2. names \subseteq PodNames /\ IsFiniteSet(names) /\ Cardinality(names) = k
      /\ \A p \in pods : p.name \notin names
  <2>1. names \subseteq FreeNames /\ Cardinality(names) = k
    BY DEF kSubset
  <2>2. names \subseteq PodNames
    BY <2>1 DEF FreeNames
  <2> QED
    BY <2>1, <2>2, FS_Subset, PlacementAssumption DEF FreeNames
<1>3. IsFiniteSet(new) /\ Cardinality(new) <= k
  <2> DEFINE f == [i \in names |-> Replica(i)]
  <2>1. f \in Surjection(names, new)
    BY DEF Surjection
  <2> HIDE DEF f, new
  <2> QED
    BY <1>2, <2>1, FS_Surjection
<1>4. new \subseteq Pods
  <2>1. PodRequest(spec) \in Amounts
    BY RequestType DEF Sound
  <2>2. \A i \in names : Replica(i) \in Pods
    BY <1>2, <2>1 DEF Replica, Pods
  <2> QED
    BY <2>2
<1>5. PodSet(pods')
  BY <1>1, <1>3, <1>4, FS_Union DEF PodSet, Sound
<1>6. UniqueNames(pods')
  <2>1. \A i \in names : Replica(i).name = i
    BY DEF Replica
  <2>2. \A p, q \in new : p.name = q.name => p = q
    BY <2>1
  <2>3. \A p \in new : p.name \in names
    BY <2>1
  <2>4. \A p, q \in pods : p.name = q.name => p = q
    BY DEF UniqueNames, Sound
  <2> HIDE DEF new
  <2> QED
    BY <1>1, <1>2, <2>2, <2>3, <2>4 DEF UniqueNames, new
<1>7. \A n \in Nodes : ChargedTo(pods', n) = ChargedTo(pods, n)
  BY <1>1, PlacementAssumption DEF ChargedTo, Replica
<1>8. \A n \in Nodes : SameCharge(pods', pods, n)
  BY <1>7 DEF SameCharge, Requested
<1>9. Unbound' \subseteq new
  BY <1>1 DEF Admit, Unbound
<1>10. IsFiniteSet(Unbound') /\ Cardinality(Unbound') <= k
  <2>1. /\ IsFiniteSet(Unbound') /\ Cardinality(Unbound') <= Cardinality(new)
        /\ Cardinality(Unbound') \in Nat /\ Cardinality(new) \in Nat
    BY <1>3, <1>9, FS_Subset, FS_CardinalityType
  <2> QED
    BY <1>3, <2>1
<1>11. \A p \in pods' \ pods : p = Replica(p.name)
  BY <1>1 DEF Replica
<1> QED
  BY <1>5, <1>6, <1>8, <1>10, <1>11

\* One pod is replaced by a later version of itself.
Becomes(p, q) ==
  p \in pods /\ q \in Pods /\ pods' = Replaced(pods, p, q)
  /\ q.name = p.name /\ q.ours = p.ours /\ q.request = p.request

Bound(p, n) == [p EXCEPT !.node = n]
InPhase(p, phase) == [p EXCEPT !.phase = phase]

LEMMA BecomesWhat ==
  ASSUME Sound
  PROVE  /\ \A p \in pods, n \in Nodes : Bind(p, n) =>
              /\ Becomes(p, Bound(p, n)) /\ p.node = None /\ p.ours
              /\ Bound(p, n).node = n /\ Bound(p, n).phase = "Pending"
         /\ \A p \in pods : Start(p) =>
              /\ Becomes(p, InPhase(p, "Running")) /\ p.phase = "Pending"
              /\ InPhase(p, "Running").node = p.node /\ p.node # None
              /\ InPhase(p, "Running").phase = "Running"
         /\ \A p \in pods, phase \in {"Succeeded", "Failed"} : Complete(p, phase) =>
              /\ Becomes(p, InPhase(p, phase)) /\ p.phase = "Running"
              /\ InPhase(p, phase).node = p.node /\ p.node # None
              /\ InPhase(p, phase).phase = phase
<1>1. \A p \in pods : p \in Pods
  BY DEF Sound, PodSet
<1>2. \A p \in pods, n \in Nodes :
        /\ Bound(p, n) \in Pods /\ Bound(p, n).node = n /\ Bound(p, n).name = p.name
        /\ Bound(p, n).ours = p.ours /\ Bound(p, n).request = p.request
        /\ Bound(p, n).phase = p.phase
  BY <1>1 DEF Bound, Pods
<1>3. \A p \in pods, phase \in {"Running", "Succeeded", "Failed"} :
        /\ InPhase(p, phase) \in Pods /\ InPhase(p, phase).node = p.node
        /\ InPhase(p, phase).name = p.name /\ InPhase(p, phase).ours = p.ours
        /\ InPhase(p, phase).request = p.request /\ InPhase(p, phase).phase = phase
  BY <1>1 DEF InPhase, Pods
<1>4. \A p \in pods : p.node = None => p.phase = "Pending"
  BY DEF Sound
<1>5. ASSUME NEW p \in pods, NEW n \in Nodes, Bind(p, n)
      PROVE  Becomes(p, Bound(p, n)) /\ p.node = None /\ p.ours /\ p.phase = "Pending"
  <2>1. p.node = None /\ p.ours /\ pods' = Replaced(pods, p, Bound(p, n))
    BY <1>5 DEF Bind, Unbound, Replaced, Bound
  <2> QED
    BY <1>2, <1>4, <2>1 DEF Becomes
<1>6. ASSUME NEW p \in pods, Start(p)
      PROVE  Becomes(p, InPhase(p, "Running")) /\ p.phase = "Pending" /\ p.node # None
  <2>1. p.node # None /\ p.phase = "Pending" /\ pods' = Replaced(pods, p, InPhase(p, "Running"))
    BY <1>6 DEF Start, BecomePhase, Replaced, InPhase
  <2> QED
    BY <1>3, <2>1 DEF Becomes
<1>7. ASSUME NEW p \in pods, NEW phase \in {"Succeeded", "Failed"}, Complete(p, phase)
      PROVE  Becomes(p, InPhase(p, phase)) /\ p.phase = "Running" /\ p.node # None
  <2>1. p.phase = "Running" /\ pods' = Replaced(pods, p, InPhase(p, phase))
    BY <1>7 DEF Complete, BecomePhase, Replaced, InPhase
  <2>2. p.node # None
    BY <1>4, <2>1
  <2> QED
    BY <1>3, <2>1, <2>2 DEF Becomes
<1> QED
  BY <1>2, <1>3, <1>5, <1>6, <1>7

Stranger(i, n, request) ==
  [name |-> i, ours |-> FALSE, node |-> n, phase |-> "Pending", request |-> request]

LEMMA ArriveWhat ==
  ASSUME Sound, NEW n \in Nodes, NEW request \in StrangerRequests, Arrive(n, request)
  PROVE  \E q \in Pods :
           /\ pods' = pods \cup {q} /\ q \notin pods /\ ~q.ours /\ q.node = n
           /\ q.request = request /\ q.phase = "Pending"
           /\ PodSet(pods') /\ UniqueNames(pods')
           /\ OneMore(pods', pods, n, request)
           /\ \A m \in Nodes : m # n => SameCharge(pods', pods, m)
<1>1. PICK i \in FreeNames : pods' = pods \cup {Stranger(i, n, request)}
  BY DEF Arrive, Stranger
<1> DEFINE q == Stranger(i, n, request)
<1>2. i \in PodNames /\ \A p \in pods : p.name # i
  BY DEF FreeNames
<1>3. q \in Pods
  BY <1>2, PlacementAssumption DEF Stranger, Pods
<1>4. q.name = i /\ ~q.ours /\ q.node = n /\ q.request = request /\ q.phase = "Pending"
  BY DEF Stranger
<1> HIDE DEF q
<1>5. q \notin pods /\ pods' = pods \cup {q}
  BY <1>1, <1>2, <1>4 DEF q
<1>6. PodSet(pods)
  BY DEF Sound
<1>7. OnNode(q, n) /\ \A m \in Nodes : m # n => ~OnNode(q, m)
  BY <1>4 DEF OnNode, Chargeable
<1>8. /\ PodSet(pods') /\ OneMore(pods', pods, n, request)
      /\ \A m \in Nodes : m # n => SameCharge(pods', pods, m)
  BY <1>3, <1>4, <1>5, <1>6, <1>7, ChargeAdd
<1>9. UniqueNames(pods')
  BY <1>2, <1>4, <1>5 DEF UniqueNames, Sound
<1> QED
  BY <1>3, <1>4, <1>5, <1>8, <1>9

\* A pod of another size displaces at least what it requests.
LEMMA DisplacesIs ==
  ASSUME NEW request \in Amounts, Sized(spec)
  PROVE  /\ Displaces(request) \in Nat /\ Displaces(request) >= 1
         /\ \A d \in Dims : request[d] <= Displaces(request) * PodRequest(spec)[d]
<1> DEFINE r == PodRequest(spec)
           w(d) == (request[d] + r[d] - 1) \div r[d]
           Q == {1} \cup {w(d) : d \in Dims}
           m == Max(Q)
<1>1. \A d \in Dims : /\ r[d] \in Nat /\ request[d] \in Nat
                      /\ w(d) \in Nat /\ request[d] <= w(d) * r[d]
  BY RoundedUp DEF Sized, Amounts
<1>2. m = Displaces(request)
  BY DEF Displaces
<1> HIDE DEF w, r
<1>3. Q = {1, w("cpu"), w("memory")} /\ w("cpu") \in Nat /\ w("memory") \in Nat
  BY <1>1 DEF Dims
<1>4. Q \in SUBSET (0..(1 + w("cpu") + w("memory"))) /\ Q # {}
  BY <1>3
<1>5. m \in Q /\ \A y \in Q : m >= y
  <2> HIDE DEF Q
  <2> QED
    BY <1>3, <1>4, MaxIn
<1>6. m \in Nat /\ m >= 1 /\ \A d \in Dims : m >= w(d)
  BY <1>1, <1>5
<1> HIDE DEF Q, m
<1>7. ASSUME NEW d \in Dims PROVE request[d] <= m * r[d]
  <2> DEFINE a == w(d)
             b == r[d]
             c == request[d]
  <2>1. a \in Nat /\ b \in Nat /\ c \in Nat /\ c <= a * b /\ m >= a
    BY <1>1, <1>6
  <2> HIDE DEF a, b, c
  <2>2. a * b <= m * b
    BY <1>6, <2>1
  <2>3. c <= m * b
    BY <1>6, <2>1, <2>2
  <2> QED
    BY <2>3 DEF b, c
<1> QED
  BY <1>2, <1>6, <1>7 DEF r

LEMMA SoundInit ==
  ASSUME Init
  PROVE  Sound
<1>1. Kept(nodes) /\ nodes \in [Nodes -> NodeRecords]
  BY PlacementAssumption DEF Init, Kept
<1>2. PodSet(pods) /\ UniqueNames(pods) /\ Unbound = {}
  BY FS_EmptySet DEF Init, PodSet, UniqueNames, Unbound
<1> QED
  BY <1>1, <1>2 DEF Init, Sound

\* The part of Sound that is about pods, when one is replaced.
LEMMA SoundBecomes ==
  ASSUME Sound, NEW p, NEW q, Becomes(p, q), q.node = None => q.phase = "Pending",
         p.node = None \/ q.node # None,
         UNCHANGED <<template, nodes, displaced>>
  PROVE  Sound'
<1>1. PodSet(pods') /\ UniqueNames(pods')
  BY ReplaceType DEF Becomes, Sound
<1>2. \A x \in pods' : x \in pods \/ x = q
  BY DEF Becomes, Replaced
<1>3. p \in pods
  BY DEF Becomes
<1>4. \A x \in pods' : x.node = None => x.phase = "Pending"
  BY <1>2 DEF Sound
<1>5. \A x \in pods' : x.ours => x.request = PodRequest(spec)
  BY <1>2, <1>3 DEF Sound, Becomes
<1>6. Unbound' # {} => Unbound # {}
  <2> SUFFICES ASSUME NEW x \in Unbound' PROVE Unbound # {}
    OBVIOUS
  <2>1. x \in pods' /\ x.ours /\ x.node = None
    BY DEF Unbound
  <2>2. CASE x \in pods
    BY <2>1, <2>2 DEF Unbound
  <2>3. CASE x = q
    BY <1>3, <2>1, <2>3 DEF Unbound, Becomes
  <2> QED
    BY <1>2, <2>1, <2>2, <2>3
<1>7. PodRequest(spec)' = PodRequest(spec) /\ Sized(spec)' = Sized(spec)
  BY DEF spec
<1> QED
  BY <1>1, <1>4, <1>5, <1>6, <1>7 DEF Sound, Kept

\* A node's conditions change, and nothing else of it.
LEMMA ConditionType ==
  ASSUME NEW r \in NodeRecords, NEW b \in BOOLEAN, NEW s,
         \/ s = [r EXCEPT !.ready = b]
         \/ s = [r EXCEPT !.cordoned = b]
         \/ s = [r EXCEPT !.stale = b]
  PROVE  /\ s \in NodeRecords /\ s.taints = r.taints /\ s.labels = r.labels
         /\ s.allocatable = r.allocatable /\ s.slots = r.slots
<1> DEFINE T == {ns[n].taints : ns \in InitialNodes, n \in Nodes}
           L == {ns[n].labels : ns \in InitialNodes, n \in Nodes}
<1>1. NodeRecords = [ready : BOOLEAN, stale : BOOLEAN, cordoned : BOOLEAN,
                     allocatable : Amounts, slots : Nat, taints : T, labels : L]
  BY DEF NodeRecords
<1> HIDE DEF T, L
<1> QED
  BY <1>1

LEMMA FlawType ==
  ASSUME nodes \in [Nodes -> NodeRecords], NEW n \in Nodes,
         \/ Degrade(n)
         \/ Recover(n)
  PROVE  /\ nodes' \in [Nodes -> NodeRecords]
         /\ \A m \in Nodes : /\ nodes'[m].taints = nodes[m].taints
                             /\ nodes'[m].labels = nodes[m].labels
                             /\ nodes'[m].allocatable = nodes[m].allocatable
                             /\ nodes'[m].slots = nodes[m].slots
         /\ \A m \in Nodes : m # n => nodes'[m] = nodes[m]
         /\ Recover(n) => ~nodes'[n].cordoned /\ ~nodes'[n].stale /\ nodes'[n].ready
<1> DEFINE r == nodes[n]
<1>1. r \in NodeRecords
  OBVIOUS
<1>2. ASSUME NEW s \in NodeRecords, nodes' = [nodes EXCEPT ![n] = s],
             s.taints = r.taints, s.labels = r.labels,
             s.allocatable = r.allocatable, s.slots = r.slots
      PROVE  /\ nodes' \in [Nodes -> NodeRecords]
             /\ \A m \in Nodes : /\ nodes'[m].taints = nodes[m].taints
                                 /\ nodes'[m].labels = nodes[m].labels
                                 /\ nodes'[m].allocatable = nodes[m].allocatable
                                 /\ nodes'[m].slots = nodes[m].slots
             /\ \A m \in Nodes : m # n => nodes'[m] = nodes[m]
             /\ nodes'[n] = s
  BY <1>2
<1>3. CASE Recover(n)
  <2> DEFINE u == [r EXCEPT !.ready = TRUE]
             v == [u EXCEPT !.cordoned = FALSE]
             w == [v EXCEPT !.stale = FALSE]
             s == [r EXCEPT !.ready = TRUE, !.cordoned = FALSE, !.stale = FALSE]
  <2>1. /\ s \in NodeRecords /\ s.taints = r.taints /\ s.labels = r.labels
        /\ s.allocatable = r.allocatable /\ s.slots = r.slots
        /\ s.ready /\ ~s.cordoned /\ ~s.stale
    <3>1. /\ u \in NodeRecords /\ u.taints = r.taints /\ u.labels = r.labels
          /\ u.allocatable = r.allocatable /\ u.slots = r.slots
      BY <1>1, ConditionType
    <3>2. /\ v \in NodeRecords /\ v.taints = r.taints /\ v.labels = r.labels
          /\ v.allocatable = r.allocatable /\ v.slots = r.slots
      BY <3>1, ConditionType
    <3>3. /\ w \in NodeRecords /\ w.taints = r.taints /\ w.labels = r.labels
          /\ w.allocatable = r.allocatable /\ w.slots = r.slots
      BY <3>2, ConditionType
    <3>4. w = s
      OBVIOUS
    <3>5. s.ready /\ ~s.cordoned /\ ~s.stale
      BY <1>1 DEF NodeRecords
    <3> QED
      BY <3>3, <3>4, <3>5
  <2>2. nodes' = [nodes EXCEPT ![n] = s]
    BY <1>3 DEF Recover
  <2> HIDE DEF s, r
  <2> QED
    BY <1>2, <2>1, <2>2
<1>4. CASE Degrade(n)
  <2>1. PICK flaw \in {"ready", "cordoned", "stale"} :
          nodes' = [nodes EXCEPT ![n][flaw] = ~@]
    BY <1>4 DEF Degrade
  <2> DEFINE s == [r EXCEPT ![flaw] = ~@]
  <2>2. /\ s \in NodeRecords /\ s.taints = r.taints /\ s.labels = r.labels
        /\ s.allocatable = r.allocatable /\ s.slots = r.slots
    <3>1. CASE flaw = "ready"
      <4>1. s = [r EXCEPT !.ready = ~r.ready]
        BY <3>1
      <4>2. (~r.ready) \in BOOLEAN
        OBVIOUS
      <4> HIDE DEF s, r
      <4> QED
        BY <1>1, <4>1, <4>2, ConditionType
    <3>2. CASE flaw = "cordoned"
      <4>1. s = [r EXCEPT !.cordoned = ~r.cordoned]
        BY <3>2
      <4>2. (~r.cordoned) \in BOOLEAN
        OBVIOUS
      <4> HIDE DEF s, r
      <4> QED
        BY <1>1, <4>1, <4>2, ConditionType
    <3>3. CASE flaw = "stale"
      <4>1. s = [r EXCEPT !.stale = ~r.stale]
        BY <3>3
      <4>2. (~r.stale) \in BOOLEAN
        OBVIOUS
      <4> HIDE DEF s, r
      <4> QED
        BY <1>1, <4>1, <4>2, ConditionType
    <3> QED
      BY <3>1, <3>2, <3>3
  <2>3. nodes' = [nodes EXCEPT ![n] = s]
    BY <2>1
  <2>4. ~Recover(n)
    BY <1>4 DEF Degrade, Recover
  <2> HIDE DEF s, r
  <2> QED
    BY <1>2, <2>2, <2>3, <2>4
<1> QED
  BY <1>3, <1>4

LEMMA SoundStep ==
  ASSUME Sound, [Next]_vars
  PROVE  Sound'
<1>1. ASSUME NEW k \in 1..MaxStep, Admit(k) PROVE Sound'
  <2>1. /\ PodSet(pods') /\ UniqueNames(pods')
        /\ \A p \in pods' : p \in pods \/ p = Replica(p.name)
    BY <1>1, AdmitAdds
  <2>2. \A p \in pods' :
          /\ p.node = None => p.phase = "Pending"
          /\ p.ours => p.request = PodRequest(spec)
    BY <2>1 DEF Sound, Replica
  <2>3. UNCHANGED <<template, nodes>> /\ displaced' = 0 /\ RequestKnown(spec)
    BY <1>1 DEF Admit
  <2>4. Sized(spec)
    BY <2>3, RequestType DEF Sized, RequestKnown, Sound
  <2>5. PodRequest(spec)' = PodRequest(spec) /\ Sized(spec)' = Sized(spec)
    BY <2>3 DEF spec
  <2> QED
    BY <2>1, <2>2, <2>3, <2>4, <2>5 DEF Sound, Kept
<1>2. ASSUME NEW p \in pods, NEW n \in Nodes, Bind(p, n) PROVE Sound'
  <2>1. UNCHANGED <<template, nodes, displaced>>
    BY <1>2 DEF Bind
  <2>2. Becomes(p, Bound(p, n)) /\ p.node = None /\ Bound(p, n).phase = "Pending"
    BY <1>2, BecomesWhat
  <2> QED
    BY <2>1, <2>2, SoundBecomes
<1>3. ASSUME NEW p \in pods, Start(p) PROVE Sound'
  <2>1. UNCHANGED <<template, nodes, displaced>>
    BY <1>3 DEF Start, BecomePhase
  <2>2. Becomes(p, InPhase(p, "Running")) /\ InPhase(p, "Running").node # None
    BY <1>3, BecomesWhat
  <2> QED
    BY <2>1, <2>2, SoundBecomes
<1>4. ASSUME NEW p \in pods, NEW phase \in {"Succeeded", "Failed"}, Complete(p, phase)
      PROVE  Sound'
  <2>1. UNCHANGED <<template, nodes, displaced>>
    BY <1>4 DEF Complete, BecomePhase
  <2>2. Becomes(p, InPhase(p, phase)) /\ InPhase(p, phase).node # None
    BY <1>4, BecomesWhat
  <2> QED
    BY <2>1, <2>2, SoundBecomes
<1>5. ASSUME NEW p \in pods, Delete(p) PROVE Sound'
  <2>1. pods' = pods \ {p} /\ UNCHANGED <<template, nodes, displaced>>
    BY <1>5 DEF Delete
  <2>2. PodSet(pods')
    BY <2>1, FS_RemoveElement DEF PodSet, Sound
  <2>3. UniqueNames(pods') /\ Unbound' \subseteq Unbound
    BY <2>1 DEF UniqueNames, Sound, Unbound
  <2>4. PodRequest(spec)' = PodRequest(spec) /\ Sized(spec)' = Sized(spec)
    BY <2>1 DEF spec
  <2> QED
    BY <2>1, <2>2, <2>3, <2>4 DEF Sound, Kept
<1>6. ASSUME NEW n \in Nodes, NEW request \in StrangerRequests, Arrive(n, request)
      PROVE  Sound'
  <2>1. PICK q \in Pods :
          /\ pods' = pods \cup {q} /\ ~q.ours /\ q.node = n
          /\ PodSet(pods') /\ UniqueNames(pods')
    BY <1>6, ArriveWhat
  <2>2. UNCHANGED <<template, nodes>>
        /\ displaced' = Min({displaced + Displaces(request), Margin + 1})
    BY <1>6 DEF Arrive
  <2>3. q.node # None
    BY <2>1, PlacementAssumption
  <2>4. Unbound' = Unbound
    BY <2>1 DEF Unbound
  <2>5. PodRequest(spec)' = PodRequest(spec) /\ Sized(spec)' = Sized(spec)
    BY <2>2 DEF spec
  <2>6. ASSUME Unbound # {} PROVE displaced' \in Nat
    <3>1. request \in Amounts /\ Sized(spec)
      BY <2>6, PlacementAssumption DEF Sound
    <3>2. Displaces(request) \in Nat
      BY <3>1, DisplacesIs
    <3>3. {displaced + Displaces(request), Margin + 1} \in SUBSET Nat
      BY <2>6, <3>2, EstimateAssumption DEF Sound
    <3> QED
      BY <2>2, <3>3, MinNat
  <2>7. \A p \in pods' : p.node = None => p.phase = "Pending"
    BY <2>1, <2>3 DEF Sound
  <2>8. \A p \in pods' : p.ours => p.request = PodRequest(spec)
    BY <2>1 DEF Sound
  <2>9. Unbound' # {} => Sized(spec)' /\ displaced' \in Nat
    BY <2>4, <2>5, <2>6 DEF Sound
  <2> QED
    BY <2>1, <2>2, <2>5, <2>7, <2>8, <2>9 DEF Sound, Kept
<1>7. ASSUME NEW n \in Nodes, Degrade(n) \/ Recover(n) PROVE Sound'
  <2>1. UNCHANGED <<template, pods, displaced>>
    BY <1>7 DEF Degrade, Recover
  <2>2. nodes' \in [Nodes -> NodeRecords]
        /\ \A m \in Nodes : nodes'[m].taints = nodes[m].taints
                            /\ nodes'[m].labels = nodes[m].labels
    BY <1>7, FlawType DEF Sound
  <2>3. Kept(nodes')
    BY <2>2 DEF Sound, Kept
  <2>4. /\ Unbound' = Unbound /\ PodRequest(spec)' = PodRequest(spec)
        /\ Sized(spec)' = Sized(spec)
    BY <2>1 DEF spec, Unbound
  <2> QED
    BY <2>1, <2>2, <2>3, <2>4 DEF Sound
<1>8. ASSUME UNCHANGED vars PROVE Sound'
  <2>1. UNCHANGED <<template, nodes, pods, displaced>>
    BY <1>8 DEF vars
  <2>2. /\ Unbound' = Unbound /\ PodRequest(spec)' = PodRequest(spec)
        /\ Sized(spec)' = Sized(spec)
    BY <2>1 DEF spec, Unbound
  <2> QED
    BY <2>1, <2>2 DEF Sound
<1> QED
  BY <1>1, <1>2, <1>3, <1>4, <1>5, <1>6, <1>7, <1>8 DEF Next

----------------------------------------------------------------------------
(* What one event does to the estimate.                                    *)

\* Nothing, when no node's charge changes,
LEMMA EstimateSame ==
  ASSUME NEW N \in [Nodes -> NodeRecords], NEW P, PodSet(P), NEW R, PodSet(R),
         NEW sp, Sized(sp), \A n \in Nodes : SameCharge(R, P, n)
  PROVE  RawFitSum(N, R, sp) = RawFitSum(N, P, sp)
<1> DEFINE f == Fits(N, P, sp)
           g == Fits(N, R, sp)
<1>1. \A n \in Nodes : NodeFit(N[n], n, R, sp) = NodeFit(N[n], n, P, sp)
  BY FitSame
<1>2. /\ \A n \in Nodes : f[n] = g[n]
      /\ IntOn(f, Nodes)
      /\ RawFitSum(N, P, sp) = SumFunctionOnSet(f, Nodes)
      /\ RawFitSum(N, R, sp) = SumFunctionOnSet(g, Nodes)
  BY <1>1, FitsAre
<1> HIDE DEF f, g
<1>3. SumFunctionOnSet(f, Nodes) = SumFunctionOnSet(g, Nodes)
  BY <1>2, SumSame, PlacementAssumption
<1> QED
  BY <1>2, <1>3

\* what it does to one node's term, when only that node's changes,
LEMMA EstimateChange ==
  ASSUME NEW N \in [Nodes -> NodeRecords], NEW P, PodSet(P), NEW R, PodSet(R),
         NEW sp, Sized(sp), NEW n \in Nodes,
         \A m \in Nodes : m # n => SameCharge(R, P, m)
  PROVE  RawFitSum(N, R, sp)
           = RawFitSum(N, P, sp) - NodeFit(N[n], n, P, sp) + NodeFit(N[n], n, R, sp)
<1> DEFINE f == Fits(N, P, sp)
           g == Fits(N, R, sp)
<1>1. \A m \in Nodes : m # n => NodeFit(N[m], m, R, sp) = NodeFit(N[m], m, P, sp)
  BY FitSame
<1>2. /\ \A m \in Nodes : m # n => f[m] = g[m]
      /\ IntOn(f, Nodes) /\ IntOn(g, Nodes)
      /\ f[n] = NodeFit(N[n], n, P, sp) /\ g[n] = NodeFit(N[n], n, R, sp)
      /\ RawFitSum(N, P, sp) = SumFunctionOnSet(f, Nodes)
      /\ RawFitSum(N, R, sp) = SumFunctionOnSet(g, Nodes)
  BY <1>1, FitsAre
<1> HIDE DEF f, g
<1>3. SumFunctionOnSet(g, Nodes) = SumFunctionOnSet(f, Nodes) - f[n] + g[n]
  BY <1>2, SumChange, PlacementAssumption
<1> QED
  BY <1>2, <1>3

\* and it grows when every node's does.
LEMMA EstimateGrows ==
  ASSUME NEW N \in [Nodes -> NodeRecords], NEW M \in [Nodes -> NodeRecords],
         NEW P, PodSet(P), NEW R, PodSet(R), NEW sp, Sized(sp),
         \A n \in Nodes : NodeFit(N[n], n, P, sp) <= NodeFit(M[n], n, R, sp)
  PROVE  RawFitSum(N, P, sp) <= RawFitSum(M, R, sp)
<1> DEFINE f == Fits(N, P, sp)
           g == Fits(M, R, sp)
<1>1. /\ \A n \in Nodes : f[n] <= g[n]
      /\ IntOn(f, Nodes) /\ IntOn(g, Nodes)
      /\ RawFitSum(N, P, sp) = SumFunctionOnSet(f, Nodes)
      /\ RawFitSum(M, R, sp) = SumFunctionOnSet(g, Nodes)
  BY FitsAre
<1> HIDE DEF f, g
<1>2. SumFunctionOnSet(f, Nodes) <= SumFunctionOnSet(g, Nodes)
  BY <1>1, SumGrows, PlacementAssumption
<1> QED
  BY <1>1, <1>2

LEMMA BindCosts ==
  ASSUME Sound, NEW p \in Unbound, NEW n \in Nodes, Bind(p, n)
  PROVE  RawFitSum(nodes', pods', spec)
           = RawFitSum(nodes, pods, spec)
               - (IF NodeFit(nodes[n], n, pods, spec) > 0 THEN 1 ELSE 0)
<1> DEFINE q == Bound(p, n)
           a == NodeFit(nodes[n], n, pods, spec)
           b == NodeFit(nodes[n], n, pods', spec)
<1>1. p \in pods /\ p.ours /\ p.node = None /\ Sized(spec)
  BY DEF Unbound, Sound
<1>2. Becomes(p, q) /\ q.node = n /\ q.phase = "Pending"
  BY <1>1, BecomesWhat
<1>3. /\ q \in Pods /\ pods' = Replaced(pods, p, q) /\ q.name = p.name
      /\ q.request = p.request /\ p.request = PodRequest(spec)
      /\ PodSet(pods) /\ UniqueNames(pods) /\ nodes' = nodes
      /\ nodes \in [Nodes -> NodeRecords]
  BY <1>1, <1>2 DEF Becomes, Bind, Sound
<1>4. PodSet(pods')
  BY <1>1, <1>3, ReplaceType
<1>5. /\ OnNode(q, n) /\ \A m \in Nodes : ~OnNode(p, m)
      /\ \A m \in Nodes : m # n => ~OnNode(q, m)
  BY <1>1, <1>2, PlacementAssumption DEF OnNode, Chargeable
<1> HIDE DEF q
<1>6. OneMore(pods', pods, n, PodRequest(spec))
  BY <1>1, <1>3, <1>5, ReplaceCharge
<1>7. \A m \in Nodes : m # n => SameCharge(pods', pods, m)
  BY <1>1, <1>3, <1>5, ReplaceCharge
<1>8. a \in Nat /\ b \in Nat /\ b = a - (IF a > 0 THEN 1 ELSE 0)
  BY <1>1, <1>3, <1>4, <1>6, FitOfBound, NodeFitIs
<1>9. RawFitSum(nodes, pods', spec) = RawFitSum(nodes, pods, spec) - a + b
  BY <1>1, <1>3, <1>4, <1>7, EstimateChange
<1>10. RawFitSum(nodes, pods, spec) \in Nat
  BY <1>1, <1>3, FitsAre
<1> HIDE DEF a, b
<1>11. RawFitSum(nodes, pods', spec) = RawFitSum(nodes, pods, spec) - (IF a > 0 THEN 1 ELSE 0)
  BY <1>8, <1>9, <1>10
<1> QED
  BY <1>3, <1>11 DEF a

LEMMA ArriveCosts ==
  ASSUME Sound, Sized(spec), NEW n \in Nodes, NEW request \in StrangerRequests,
         Arrive(n, request)
  PROVE  RawFitSum(nodes', pods', spec)
           >= RawFitSum(nodes, pods, spec) - Displaces(request)
<1> DEFINE a == NodeFit(nodes[n], n, pods, spec)
           b == NodeFit(nodes[n], n, pods', spec)
           D == Displaces(request)
           E == RawFitSum(nodes, pods, spec)
<1>1. /\ PodSet(pods) /\ nodes' = nodes /\ nodes \in [Nodes -> NodeRecords]
      /\ request \in Amounts
  BY PlacementAssumption DEF Sound, Arrive
<1>2. /\ PodSet(pods') /\ OneMore(pods', pods, n, request)
      /\ \A m \in Nodes : m # n => SameCharge(pods', pods, m)
  BY ArriveWhat
<1>3. D \in Nat /\ D >= 1 /\ \A d \in Dims : request[d] <= D * PodRequest(spec)[d]
  BY <1>1, DisplacesIs
<1> HIDE DEF D
<1>4. a \in Nat /\ b \in Nat /\ a <= b + D
  <2>1. a \in Nat /\ b \in Nat
    BY <1>1, <1>2, NodeFitIs
  <2> QED
    BY <1>1, <1>2, <1>3, <2>1, FitOfArrived
<1>5. RawFitSum(nodes, pods', spec) = E - a + b
  BY <1>1, <1>2, EstimateChange
<1>6. E \in Nat
  BY <1>1, FitsAre
<1> HIDE DEF a, b, E
<1>7. RawFitSum(nodes, pods', spec) >= E - D
  BY <1>3, <1>4, <1>5, <1>6
<1> QED
  BY <1>1, <1>7 DEF E, D

\* A pod that leaves its node, or starts, takes nothing from the estimate,
LEMMA BecomesCosts ==
  ASSUME Sound, Sized(spec), NEW p, NEW q, Becomes(p, q), q.node = p.node,
         Chargeable(q) => Chargeable(p), nodes' = nodes
  PROVE  RawFitSum(nodes', pods', spec) >= RawFitSum(nodes, pods, spec)
<1>1. /\ p \in pods /\ q \in Pods /\ pods' = Replaced(pods, p, q) /\ q.name = p.name
      /\ q.request = p.request /\ p.request \in Amounts
      /\ PodSet(pods) /\ UniqueNames(pods) /\ nodes \in [Nodes -> NodeRecords]
  BY DEF Becomes, Sound, PodSet, Pods
<1>2. PodSet(pods')
  BY <1>1, ReplaceType
<1>3. ASSUME NEW n \in Nodes
      PROVE  NodeFit(nodes[n], n, pods, spec) <= NodeFit(nodes[n], n, pods', spec)
  <2>1. OnNode(q, n) => OnNode(p, n)
    BY DEF OnNode
  <2>2. NodeFit(nodes[n], n, pods, spec) \in Nat
    BY <1>1, NodeFitIs
  <2>3. CASE OnNode(p, n) /\ ~OnNode(q, n)
    <3>1. OneMore(pods, pods', n, p.request)
      BY <1>1, <2>3, ReplaceCharge
    <3> QED
      BY <1>1, <1>2, <3>1, FitOfLeft
  <2>4. CASE OnNode(p, n) <=> OnNode(q, n)
    <3>1. SameCharge(pods', pods, n)
      BY <1>1, <2>4, ReplaceCharge
    <3>2. NodeFit(nodes[n], n, pods', spec) = NodeFit(nodes[n], n, pods, spec)
      BY <1>1, <1>2, <3>1, FitSame
    <3> QED
      BY <2>2, <3>2
  <2> QED
    BY <2>1, <2>3, <2>4
<1>4. RawFitSum(nodes, pods, spec) <= RawFitSum(nodes, pods', spec)
  BY <1>1, <1>2, <1>3, EstimateGrows
<1>5. RawFitSum(nodes, pods, spec) \in Nat /\ RawFitSum(nodes, pods', spec) \in Nat
  BY <1>1, <1>2, FitsAre
<1> QED
  BY <1>4, <1>5

\* nor does one that is gone,
LEMMA DeleteCosts ==
  ASSUME Sound, Sized(spec), NEW p \in pods, Delete(p)
  PROVE  RawFitSum(nodes', pods', spec) >= RawFitSum(nodes, pods, spec)
<1>1. /\ pods' = pods \ {p} /\ nodes' = nodes /\ nodes \in [Nodes -> NodeRecords]
      /\ PodSet(pods) /\ UniqueNames(pods) /\ p \in Pods /\ p.request \in Amounts
  BY DEF Delete, Sound, PodSet, Pods
<1>2. PodSet(pods') /\ p \notin pods' /\ pods = pods' \cup {p}
  <2>1. PodSet(pods \ {p})
    BY <1>1, ReplaceType
  <2> QED
    BY <1>1, <2>1
<1>3. ASSUME NEW n \in Nodes
      PROVE  NodeFit(nodes[n], n, pods, spec) <= NodeFit(nodes[n], n, pods', spec)
  <2> DEFINE Q == pods'
  <2>1. /\ OnNode(p, n) => OneMore(Q \cup {p}, Q, n, p.request)
        /\ ~OnNode(p, n) => SameCharge(Q \cup {p}, Q, n)
    <3>1. PodSet(Q) /\ p \notin Q
      BY <1>2
    <3> HIDE DEF Q
    <3> QED
      BY <1>1, <3>1, ChargeAdd
  <2>2. NodeFit(nodes[n], n, pods', spec) \in Nat
    BY <1>1, <1>2, NodeFitIs
  <2>3. CASE OnNode(p, n)
    BY <1>1, <1>2, <2>1, <2>3, FitOfLeft
  <2>4. CASE ~OnNode(p, n)
    <3>1. NodeFit(nodes[n], n, pods, spec) = NodeFit(nodes[n], n, pods', spec)
      BY <1>1, <1>2, <2>1, <2>4, FitSame
    <3> QED
      BY <2>2, <3>1
  <2> QED
    BY <2>3, <2>4
<1>4. RawFitSum(nodes, pods, spec) <= RawFitSum(nodes, pods', spec)
  BY <1>1, <1>2, <1>3, EstimateGrows
<1>5. RawFitSum(nodes, pods, spec) \in Nat /\ RawFitSum(nodes, pods', spec) \in Nat
  BY <1>1, <1>2, FitsAre
<1> QED
  BY <1>1, <1>4, <1>5

\* nor a node that recovers.
LEMMA RecoverCosts ==
  ASSUME Sound, Sized(spec), NEW n \in Nodes, Recover(n)
  PROVE  RawFitSum(nodes', pods', spec) >= RawFitSum(nodes, pods, spec)
<1>1. /\ pods' = pods /\ PodSet(pods) /\ nodes \in [Nodes -> NodeRecords]
      /\ nodes' \in [Nodes -> NodeRecords]
  BY FlawType DEF Recover, Sound
<1>2. \A m \in Nodes : /\ nodes'[m].taints = nodes[m].taints
                       /\ nodes'[m].labels = nodes[m].labels
                       /\ nodes'[m].allocatable = nodes[m].allocatable
                       /\ nodes'[m].slots = nodes[m].slots
  BY FlawType DEF Sound
<1>3. /\ \A m \in Nodes : m # n => nodes'[m] = nodes[m]
      /\ nodes'[n].ready /\ ~nodes'[n].cordoned /\ ~nodes'[n].stale
  BY FlawType DEF Sound
<1>4. ASSUME NEW m \in Nodes
      PROVE  NodeFit(nodes[m], m, pods, spec) <= NodeFit(nodes'[m], m, pods, spec)
  <2> DEFINE a == NodeFit(nodes[m], m, pods, spec)
             b == NodeFit(nodes'[m], m, pods, spec)
  <2>1. \A k \in Nat : Holds(nodes[m], m, pods, spec, k) => Holds(nodes'[m], m, pods, spec, k)
    BY <1>2, <1>3 DEF Holds, PassesFilters
  <2>2. a \in Nat /\ b \in Nat /\ \A k \in Nat : k > 0 => (k <= a => k <= b)
    BY <1>1, <2>1, NodeFitIs
  <2> HIDE DEF a, b
  <2>3. a <= b
    BY <2>2
  <2> QED
    BY <2>3 DEF a, b
<1>5. RawFitSum(nodes, pods, spec) <= RawFitSum(nodes', pods, spec)
  BY <1>1, <1>4, EstimateGrows
<1>6. RawFitSum(nodes, pods, spec) \in Nat /\ RawFitSum(nodes', pods, spec) \in Nat
  BY <1>1, FitsAre
<1> QED
  BY <1>1, <1>5, <1>6

----------------------------------------------------------------------------
(* The estimate against its definition.                                    *)

LEMMA NodeType ==
  ASSUME Sound, NEW n \in Nodes
  PROVE  /\ nodes[n] \in NodeRecords /\ PodSet(pods)
         /\ nodes[n].slots \in Nat /\ nodes[n].allocatable \in Amounts
<1>1. nodes[n] \in NodeRecords /\ PodSet(pods)
  BY DEF Sound
<1> QED
  BY <1>1 DEF NodeRecords

\* The filters of the estimate pass the nodes the scheduler uses.
LEMMA FiltersOfNode ==
  ASSUME Sound, FiltersAgree, NEW n \in Nodes
  PROVE  PassesFilters(nodes[n], n, spec) <=> n \in template.nodes \cap OperatorNodes
<1>1. PICK ns \in InitialNodes :
        nodes[n].taints = ns[n].taints /\ nodes[n].labels = ns[n].labels
  BY DEF Sound, Kept
<1>2. PassesFilters(nodes[n], n, spec) <=> PassesFilters(ns[n], n, spec)
  BY <1>1 DEF PassesFilters
<1> QED
  BY <1>2 DEF FiltersAgree, spec, Sound

\* What the scheduler has left of a node is what the estimate does not charge.
LEMMA LeftIs ==
  ASSUME Sound, NEW n \in Nodes
  PROVE  /\ SlotsLeft(n) = nodes[n].slots - Cardinality(ChargedTo(pods, n))
         /\ \A d \in Dims : Left(n, d) = nodes[n].allocatable[d] - Requested(pods, n)[d]
<1>1. ChargedTo(pods, n) = {p \in pods : p.node = n /\ p.phase \in {"Pending", "Running"}}
  BY DEF ChargedTo, Chargeable, Sound, PodSet, Pods
<1> QED
  BY <1>1 DEF SlotsLeft, Left, Requested

LEMMA RoomIs ==
  ASSUME Sound, Sized(spec), FiltersAgree, NEW n \in Nodes, NEW k \in Nat
  PROVE  Holds(nodes[n], n, pods, spec, k)
           <=> /\ Usable(n) /\ n \in template.nodes \cap OperatorNodes
               /\ Room(n, k, PodRequest(spec), Reserve)
<1> DEFINE c == Cardinality(ChargedTo(pods, n))
           t == nodes[n].slots
<1>1. c \in Nat /\ t \in Nat /\ Requested(pods, n) \in Amounts
  BY NodeType, ChargeIs
<1>2. ASSUME NEW d \in Dims
      PROVE  Left(n, d) >= k * PodRequest(spec)[d] + Reserve[d]
               <=> Requested(pods, n)[d] + k * PodRequest(spec)[d] + Reserve[d]
                     <= nodes[n].allocatable[d]
  <2> DEFINE x == Requested(pods, n)[d]
             m == k * PodRequest(spec)[d]
             s == Reserve[d]
             z == nodes[n].allocatable[d]
  <2>1. x \in Nat /\ m \in Nat /\ s \in Nat /\ z \in Nat
    BY <1>1, NodeType, EstimateAssumption DEF Sized, Amounts
  <2>2. Left(n, d) = z - x
    BY LeftIs
  <2> HIDE DEF x, m, s, z
  <2>3. z - x >= m + s <=> x + m + s <= z
    BY <2>1
  <2> QED
    BY <2>2, <2>3 DEF x, m, s, z
<1>3. SlotsLeft(n) = t - c
  BY LeftIs
<1>4. SlotsLeft(n) >= k <=> c + k <= t
  <2> HIDE DEF c, t
  <2> QED
    BY <1>1, <1>3
<1>5. Room(n, k, PodRequest(spec), Reserve)
        <=> /\ c + k <= t
            /\ \A d \in Dims :
                 Requested(pods, n)[d] + k * PodRequest(spec)[d] + Reserve[d]
                   <= nodes[n].allocatable[d]
  BY <1>2, <1>4 DEF Room
<1>6. Usable(n) <=> nodes[n].ready /\ ~nodes[n].stale /\ ~nodes[n].cordoned
  BY DEF Usable, Open
<1>7. PassesFilters(nodes[n], n, spec) <=> n \in template.nodes \cap OperatorNodes
  BY FiltersOfNode
<1> QED
  BY <1>5, <1>6, <1>7 DEF Holds

LEMMA ExactEstimate ==
  ASSUME Sound, Sized(spec), FiltersAgree
  PROVE  MostPlaceable = RawFitSum(nodes, pods, spec)
<1> DEFINE takes(n, k) ==
             \/ k = 0
             \/ /\ Usable(n) /\ n \in template.nodes \cap OperatorNodes
                /\ Room(n, k, PodRequest(spec), Reserve)
           most(n) == Max({k \in 0..nodes[n].slots : takes(n, k)})
           f == Fits(nodes, pods, spec)
           G(it) == [s \in SUBSET Nodes |->
                       IF s = {} THEN 0
                       ELSE most(CHOOSE x \in s : TRUE) + it[s \ {CHOOSE x \in s : TRUE}]]
           F(it) == [s \in SUBSET Nodes |->
                       IF s = {} THEN 0
                       ELSE f[CHOOSE x \in s : TRUE] + it[s \ {CHOOSE x \in s : TRUE}]]
<1>1. MostPlaceable = (CHOOSE it : it = G(it))[Nodes]
  BY DEF MostPlaceable, MapThenSumSet, MapThenFoldSet
<1>2. SumFunctionOnSet(f, Nodes) = (CHOOSE it : it = F(it))[Nodes]
  <2> HIDE DEF f
  <2> QED
    BY DEF SumFunctionOnSet, FoldFunctionOnSet, MapThenFoldSet
<1>3. /\ RawFitSum(nodes, pods, spec) = SumFunctionOnSet(f, Nodes)
      /\ \A n \in Nodes : f[n] = NodeFit(nodes[n], n, pods, spec) /\ f[n] \in Nat
  BY FitsAre DEF Sound
<1>4. ASSUME NEW n \in Nodes PROVE most(n) = f[n]
  <2> DEFINE a == NodeFit(nodes[n], n, pods, spec)
             t == nodes[n].slots
             Q == {k \in 0..t : takes(n, k)}
  <2>1. nodes[n] \in NodeRecords /\ PodSet(pods) /\ t \in Nat
    BY NodeType
  <2>2. a \in Nat /\ \A k \in Nat : k > 0 => (k <= a <=> Holds(nodes[n], n, pods, spec, k))
    BY <2>1, NodeFitIs
  <2>3. \A k \in Nat : takes(n, k) <=> k = 0 \/ Holds(nodes[n], n, pods, spec, k)
    BY RoomIs
  <2>4. a <= t
    <3>1. CASE a = 0
      BY <2>1, <3>1
    <3>2. CASE a > 0
      <4>1. Holds(nodes[n], n, pods, spec, a)
        BY <2>2, <3>2
      <4>2. Cardinality(ChargedTo(pods, n)) \in Nat
        BY <2>1, ChargeIs
      <4>3. Cardinality(ChargedTo(pods, n)) + a <= t
        BY <4>1 DEF Holds
      <4> HIDE DEF a, t
      <4> QED
        BY <2>1, <2>2, <4>2, <4>3
    <3> QED
      BY <2>2, <3>1, <3>2
  <2> HIDE DEF takes, a, t
  <2>5. a \in Q /\ \A k \in Q : k <= a
    BY <2>1, <2>2, <2>3, <2>4
  <2>6. Q \in SUBSET Nat /\ \A k \in Q : a >= k
    BY <2>1, <2>2, <2>5
  <2>7. Max(Q) = a
    <3> HIDE DEF Q
    <3> QED
      BY <2>5, <2>6, MaxIs
  <2> QED
    BY <1>3, <2>7 DEF a, t
<1> HIDE DEF most, f
<1>5. ASSUME NEW it PROVE F(it) = G(it)
  <2>1. \A s \in SUBSET Nodes : s # {} => (CHOOSE x \in s : TRUE) \in Nodes
    OBVIOUS
  <2> QED
    BY <1>4, <2>1
<1>6. (CHOOSE it : it = G(it)) = (CHOOSE it : it = F(it))
  <2> HIDE DEF F, G
  <2> QED
    BY <1>5
<1> QED
  BY <1>1, <1>2, <1>3, <1>6

----------------------------------------------------------------------------
(* The promise.                                                            *)

\* The inductive invariant: the estimate covers every pod that still waits, and the
\* margin less what others' pods have displaced.
Promise ==
  Unbound # {} /\ ~degraded /\ displaced <= Margin =>
    RawFitSum(nodes, pods, spec) >= Cardinality(Unbound) + Margin - displaced

\* After a step that costs the estimate nothing and adds no pod that waits.
LEMMA PromiseStays ==
  ASSUME Sound, Promise, Sound', Unbound' \subseteq Unbound,
         UNCHANGED <<template, displaced, degraded>>,
         Sized(spec) => RawFitSum(nodes', pods', spec) >= RawFitSum(nodes, pods, spec)
  PROVE  Promise'
<1> SUFFICES ASSUME Unbound' # {}, ~degraded, displaced <= Margin
             PROVE  RawFitSum(nodes', pods', spec) >= Cardinality(Unbound') + Margin - displaced
  BY DEF Promise, spec
<1>1. Unbound # {} /\ Sized(spec) /\ displaced \in Nat
  BY DEF Sound
<1>2. IsFiniteSet(Unbound)
  BY FS_Subset DEF Sound, PodSet, Unbound
<1>3. /\ Cardinality(Unbound) \in Nat /\ Cardinality(Unbound') \in Nat
      /\ Cardinality(Unbound') <= Cardinality(Unbound)
  BY <1>2, FS_Subset, FS_CardinalityType
<1>4. RawFitSum(nodes, pods, spec) \in Nat
  BY <1>1, FitsAre DEF Sound
<1>5. spec' = spec /\ RawFitSum(nodes', pods', spec) \in Nat
  <2>1. spec' = spec
    BY DEF spec
  <2>2. nodes' \in [Nodes -> NodeRecords] /\ PodSet(pods')
    BY DEF Sound
  <2> QED
    BY <1>1, <2>1, <2>2, FitsAre
<1>6. /\ RawFitSum(nodes, pods, spec) >= Cardinality(Unbound) + Margin - displaced
      /\ RawFitSum(nodes', pods', spec) >= RawFitSum(nodes, pods, spec)
  BY <1>1 DEF Promise
<1> QED
  BY <1>1, <1>3, <1>4, <1>5, <1>6, EstimateAssumption

LEMMA PromiseStep ==
  ASSUME Sound, Promise, [Next]_vars
  PROVE  Promise'
<1>1. Sound'
  BY SoundStep
<1>2. ASSUME NEW k \in 1..MaxStep, Admit(k) PROVE Promise'
  <2>1. /\ k <= Feasible(nodes, pods, spec) /\ nodes' = nodes /\ displaced' = 0
        /\ template' = template /\ RequestKnown(spec)
    BY <1>2 DEF Admit
  <2>2. Sized(spec)
    BY <2>1, RequestType DEF Sized, RequestKnown, Sound
  <2>3. /\ PodSet(pods') /\ \A n \in Nodes : SameCharge(pods', pods, n)
        /\ IsFiniteSet(Unbound') /\ Cardinality(Unbound') <= k
    BY <1>2, AdmitAdds
  <2>4. PodSet(pods) /\ nodes \in [Nodes -> NodeRecords]
    BY DEF Sound
  <2>5. RawFitSum(nodes', pods', spec) = RawFitSum(nodes, pods, spec)
    BY <2>1, <2>2, <2>3, <2>4, EstimateSame
  <2>6. RawFitSum(nodes, pods, spec) \in Nat
    BY <2>2, <2>4, FitsAre
  <2>7. RawFitSum(nodes, pods, spec) - Margin >= k
    BY <2>1, <2>6, EstimateAssumption DEF Feasible, FloorZero
  <2>8. Cardinality(Unbound') \in Nat
    BY <2>3, FS_CardinalityType
  <2>9. RawFitSum(nodes', pods', spec) >= Cardinality(Unbound') + Margin - displaced'
    BY <2>1, <2>3, <2>5, <2>6, <2>7, <2>8, EstimateAssumption
  <2>10. spec' = spec
    BY <2>1 DEF spec
  <2> QED
    BY <2>9, <2>10 DEF Promise
<1>3. ASSUME NEW p \in pods, NEW n \in Nodes, Bind(p, n) PROVE Promise'
  <2>1. UNCHANGED <<template, displaced, degraded>> /\ p \in Unbound
    BY <1>3 DEF Bind
  <2> SUFFICES ASSUME Unbound' # {}, ~degraded, displaced <= Margin
               PROVE  RawFitSum(nodes', pods', spec)
                        >= Cardinality(Unbound') + Margin - displaced
    BY <2>1 DEF Promise, spec
  <2>2. Sized(spec) /\ displaced \in Nat
    BY <2>1 DEF Sound
  <2>3. RawFitSum(nodes, pods, spec) >= Cardinality(Unbound) + Margin - displaced
    BY <2>1 DEF Promise
  <2>4. Unbound' = Unbound \ {p}
    <3>1. Becomes(p, Bound(p, n)) /\ Bound(p, n).node = n
      BY <1>3, BecomesWhat
    <3>2. Bound(p, n).node # None /\ pods' = Replaced(pods, p, Bound(p, n))
      BY <3>1, PlacementAssumption DEF Becomes
    <3> QED
      BY <3>2 DEF Unbound, Replaced
  <2>5. IsFiniteSet(Unbound)
    BY FS_Subset DEF Sound, PodSet, Unbound
  <2>6. Cardinality(Unbound) \in Nat /\ Cardinality(Unbound') = Cardinality(Unbound) - 1
    BY <2>1, <2>4, <2>5, FS_RemoveElement, FS_CardinalityType
  <2>7. RawFitSum(nodes, pods, spec) \in Nat
    BY <2>2, FitsAre DEF Sound
  <2>8. RawFitSum(nodes', pods', spec) >= RawFitSum(nodes, pods, spec) - 1
    <3>1. RawFitSum(nodes', pods', spec)
            = RawFitSum(nodes, pods, spec)
                - (IF NodeFit(nodes[n], n, pods, spec) > 0 THEN 1 ELSE 0)
      BY <1>3, <2>1, BindCosts
    <3> QED
      BY <2>7, <3>1
  <2>9. RawFitSum(nodes', pods', spec) \in Int
    <3>1. nodes' \in [Nodes -> NodeRecords] /\ PodSet(pods')
      BY <1>1 DEF Sound
    <3> QED
      BY <2>2, <3>1, FitsAre
  <2> QED
    BY <2>2, <2>3, <2>6, <2>7, <2>8, <2>9, EstimateAssumption
<1>4. ASSUME NEW p \in pods, Start(p) PROVE Promise'
  <2>1. UNCHANGED <<template, nodes, displaced, degraded>>
    BY <1>4 DEF Start, BecomePhase
  <2> DEFINE q == InPhase(p, "Running")
  <2>2. Becomes(p, q) /\ q.node = p.node /\ p.node # None /\ p.phase = "Pending"
    BY <1>4, BecomesWhat
  <2>3. Unbound' \subseteq Unbound
    BY <2>2 DEF Becomes, Replaced, Unbound
  <2>4. Chargeable(p)
    BY <2>2 DEF Chargeable
  <2> HIDE DEF q
  <2>5. Sized(spec) => RawFitSum(nodes', pods', spec) >= RawFitSum(nodes, pods, spec)
    BY <2>1, <2>2, <2>4, BecomesCosts
  <2> QED
    BY <1>1, <2>1, <2>3, <2>5, PromiseStays
<1>5. ASSUME NEW p \in pods, NEW phase \in {"Succeeded", "Failed"}, Complete(p, phase)
      PROVE  Promise'
  <2>1. UNCHANGED <<template, nodes, displaced, degraded>>
    BY <1>5 DEF Complete, BecomePhase
  <2> DEFINE q == InPhase(p, phase)
  <2>2. Becomes(p, q) /\ q.node = p.node /\ p.node # None /\ p.phase = "Running"
    BY <1>5, BecomesWhat
  <2>3. Unbound' \subseteq Unbound
    BY <2>2 DEF Becomes, Replaced, Unbound
  <2>4. Chargeable(p)
    BY <2>2 DEF Chargeable
  <2> HIDE DEF q
  <2>5. Sized(spec) => RawFitSum(nodes', pods', spec) >= RawFitSum(nodes, pods, spec)
    BY <2>1, <2>2, <2>4, BecomesCosts
  <2> QED
    BY <1>1, <2>1, <2>3, <2>5, PromiseStays
<1>6. ASSUME NEW p \in pods, Delete(p) PROVE Promise'
  <2>1. pods' = pods \ {p} /\ UNCHANGED <<template, displaced, degraded>>
    BY <1>6 DEF Delete
  <2>2. Unbound' \subseteq Unbound
    BY <2>1 DEF Unbound
  <2>3. Sized(spec) => RawFitSum(nodes', pods', spec) >= RawFitSum(nodes, pods, spec)
    BY <1>6, DeleteCosts
  <2> QED
    BY <1>1, <2>1, <2>2, <2>3, PromiseStays
<1>7. ASSUME NEW n \in Nodes, NEW request \in StrangerRequests, Arrive(n, request)
      PROVE  Promise'
  <2>1. /\ UNCHANGED <<template, nodes, degraded>>
        /\ displaced' = Min({displaced + Displaces(request), Margin + 1})
    BY <1>7 DEF Arrive
  <2>2. Unbound' = Unbound
    BY <1>7, ArriveWhat DEF Unbound
  <2> SUFFICES ASSUME Unbound # {}, ~degraded, displaced' <= Margin
               PROVE  RawFitSum(nodes', pods', spec)
                        >= Cardinality(Unbound) + Margin - displaced'
    BY <2>1, <2>2 DEF Promise, spec
  <2>3. Sized(spec) /\ displaced \in Nat /\ request \in Amounts
    BY PlacementAssumption DEF Sound
  <2> DEFINE D == Displaces(request)
  <2>4. D \in Nat /\ RawFitSum(nodes', pods', spec) >= RawFitSum(nodes, pods, spec) - D
    BY <1>7, <2>3, DisplacesIs, ArriveCosts
  <2> HIDE DEF D
  <2>5. displaced' = displaced + D
    <3>1. {displaced + D, Margin + 1} \in SUBSET Nat
      BY <2>3, <2>4, EstimateAssumption
    <3>2. displaced' \in {displaced + D, Margin + 1}
      BY <2>1, <3>1, MinNat DEF D
    <3> QED
      BY <3>2, EstimateAssumption
  <2>6. RawFitSum(nodes, pods, spec) >= Cardinality(Unbound) + Margin - displaced
    BY <2>3, <2>4, <2>5, EstimateAssumption DEF Promise
  <2>7. IsFiniteSet(Unbound)
    BY FS_Subset DEF Sound, PodSet, Unbound
  <2>8. Cardinality(Unbound) \in Nat
    BY <2>7, FS_CardinalityType
  <2>9. RawFitSum(nodes, pods, spec) \in Nat /\ RawFitSum(nodes', pods', spec) \in Int
    <3>1. nodes' \in [Nodes -> NodeRecords] /\ PodSet(pods')
      BY <1>1 DEF Sound
    <3> QED
      BY <2>3, <3>1, FitsAre DEF Sound
  <2> QED
    BY <2>3, <2>4, <2>5, <2>6, <2>8, <2>9, EstimateAssumption
<1>8. ASSUME NEW n \in Nodes, Degrade(n) PROVE Promise'
  BY <1>8 DEF Degrade, Promise
<1>9. ASSUME NEW n \in Nodes, Recover(n) PROVE Promise'
  <2>1. UNCHANGED <<template, pods, displaced, degraded>>
    BY <1>9 DEF Recover
  <2>2. Unbound' \subseteq Unbound
    BY <2>1 DEF Unbound
  <2>3. Sized(spec) => RawFitSum(nodes', pods', spec) >= RawFitSum(nodes, pods, spec)
    BY <1>9, RecoverCosts
  <2> QED
    BY <1>1, <2>1, <2>2, <2>3, PromiseStays
<1>10. ASSUME UNCHANGED vars PROVE Promise'
  <2>1. UNCHANGED <<template, nodes, pods, displaced, degraded>>
    BY <1>10 DEF vars
  <2>2. Unbound' = Unbound /\ spec' = spec
    BY <2>1 DEF Unbound, spec
  <2> QED
    BY <2>1, <2>2 DEF Promise
<1> QED
  BY <1>2, <1>3, <1>4, <1>5, <1>6, <1>7, <1>8, <1>9, <1>10 DEF Next

\* A node that holds one more pod, reserve and all, admits one.
LEMMA HoldsAdmits ==
  ASSUME Sound, FiltersAgree, Sized(spec), NEW n \in Nodes,
         Holds(nodes[n], n, pods, spec, 1)
  PROVE  Admits(n)
<1>1. /\ Usable(n) /\ n \in template.nodes
      /\ Room(n, 1, PodRequest(spec), Reserve)
  BY RoomIs
<1>2. ASSUME NEW d \in Dims
      PROVE  Left(n, d) >= 1 * PodRequest(spec)[d] + NoSpare[d]
  <2> DEFINE l == Left(n, d)
             m == 1 * PodRequest(spec)[d]
             s == Reserve[d]
  <2>1. m \in Nat /\ s \in Nat /\ l >= m + s /\ NoSpare[d] = 0
    BY <1>1, EstimateAssumption DEF Room, NoSpare, Sized, Amounts
  <2>2. l \in Int
    <3>1. Requested(pods, n) \in Amounts
      BY NodeType, ChargeIs
    <3> QED
      BY <3>1, NodeType, LeftIs DEF Amounts
  <2> HIDE DEF l, m, s
  <2>3. l >= m + 0
    BY <2>1, <2>2
  <2> QED
    BY <2>1, <2>3 DEF l, m
<1> QED
  BY <1>1, <1>2 DEF Admits, Room, Usable

LEMMA PromiseInit ==
  ASSUME Init
  PROVE  Promise
BY DEF Init, Promise, Unbound

LEMMA PromisePays ==
  ASSUME Sound, Promise, FiltersAgree
  PROVE  PromiseKept
<1> SUFFICES ASSUME Unbound # {}, ~degraded, displaced <= Margin
             PROVE  \E n \in Nodes : Admits(n)
  BY DEF PromiseKept
<1>1. Sized(spec) /\ displaced \in Nat
  BY DEF Sound
<1>2. IsFiniteSet(Unbound)
  BY FS_Subset DEF Sound, PodSet, Unbound
<1>3. Cardinality(Unbound) \in Nat /\ Cardinality(Unbound) > 0
  BY <1>2, FS_EmptySet, FS_CardinalityType
<1>4. RawFitSum(nodes, pods, spec) >= Cardinality(Unbound) + Margin - displaced
  BY DEF Promise
<1> DEFINE f == Fits(nodes, pods, spec)
<1>5. /\ RawFitSum(nodes, pods, spec) \in Nat
      /\ RawFitSum(nodes, pods, spec) = SumFunctionOnSet(f, Nodes)
      /\ IntOn(f, Nodes) /\ \A n \in Nodes : f[n] = NodeFit(nodes[n], n, pods, spec)
  BY <1>1, FitsAre DEF Sound
<1> HIDE DEF f
<1>6. SumFunctionOnSet(f, Nodes) > 0
  BY <1>1, <1>3, <1>4, <1>5, EstimateAssumption
<1>7. PICK n \in Nodes : f[n] > 0
  BY <1>5, <1>6, SumPositive, PlacementAssumption
<1>8. Holds(nodes[n], n, pods, spec, 1)
  <2>1. nodes[n] \in NodeRecords /\ PodSet(pods)
    BY DEF Sound
  <2>2. NodeFit(nodes[n], n, pods, spec) \in Nat /\ NodeFit(nodes[n], n, pods, spec) > 0
    BY <1>1, <1>5, <1>7, <2>1, NodeFitIs
  <2>3. 1 <= NodeFit(nodes[n], n, pods, spec) /\ 1 \in Nat /\ 1 > 0
    BY <2>2
  <2> QED
    BY <1>1, <2>1, <2>3, NodeFitIs
<1> QED
  BY <1>1, <1>8, HoldsAdmits

----------------------------------------------------------------------------
(* What a pod requests against its definition.                             *)

RequestsOf(cs, d) == [j \in 1..Len(cs) |-> cs[j].request[d]]

LEMMA SumOfContainers ==
  ASSUME NEW cs \in Containers, NEW d \in Dims, NEW A \in SUBSET (1..Len(cs))
  PROVE  MapThenSumSet(LAMBDA j : cs[j].request[d], A) = SumFunctionOnSet(RequestsOf(cs, d), A)
<1> DEFINE f == RequestsOf(cs, d)
           G(it) == [s \in SUBSET A |->
                       IF s = {} THEN 0
                       ELSE cs[CHOOSE x \in s : TRUE].request[d]
                              + it[s \ {CHOOSE x \in s : TRUE}]]
           F(it) == [s \in SUBSET A |->
                       IF s = {} THEN 0
                       ELSE f[CHOOSE x \in s : TRUE] + it[s \ {CHOOSE x \in s : TRUE}]]
<1>1. MapThenSumSet(LAMBDA j : cs[j].request[d], A) = (CHOOSE it : it = G(it))[A]
  BY DEF MapThenSumSet, MapThenFoldSet
<1>2. SumFunctionOnSet(f, A) = (CHOOSE it : it = F(it))[A]
  <2> HIDE DEF f
  <2> QED
    BY DEF SumFunctionOnSet, FoldFunctionOnSet, MapThenFoldSet
<1>3. ASSUME NEW it PROVE F(it) = G(it)
  <2>1. \A s \in SUBSET A : s # {} => (CHOOSE x \in s : TRUE) \in 1..Len(cs)
    OBVIOUS
  <2>2. \A x \in 1..Len(cs) : f[x] = cs[x].request[d]
    BY DEF RequestsOf
  <2> HIDE DEF f
  <2> QED
    BY <2>1, <2>2
<1>4. (CHOOSE it : it = G(it)) = (CHOOSE it : it = F(it))
  <2> HIDE DEF F, G
  <2> QED
    BY <1>3
<1> QED
  BY <1>1, <1>2, <1>4

LEMMA RequestsType ==
  ASSUME NEW cs \in Containers, NEW d \in Dims
  PROVE  /\ IsFiniteSet(1..Len(cs))
         /\ \A j \in 1..Len(cs) : /\ RequestsOf(cs, d)[j] = cs[j].request[d]
                                  /\ RequestsOf(cs, d)[j] \in Nat
         /\ \A A \in SUBSET (1..Len(cs)) :
              IsFiniteSet(A) /\ SumFunctionOnSet(RequestsOf(cs, d), A) \in Nat
<1> DEFINE f == RequestsOf(cs, d)
<1>1. \A j \in 1..Len(cs) : f[j] = cs[j].request[d] /\ f[j] \in Nat
  BY ContainerType DEF RequestsOf
<1> HIDE DEF f
<1>2. IsFiniteSet(1..Len(cs))
  <2>1. Len(cs) \in Nat
    BY ContainerType
  <2> QED
    BY <2>1, FS_Interval
<1>3. ASSUME NEW A \in SUBSET (1..Len(cs))
      PROVE  IsFiniteSet(A) /\ SumFunctionOnSet(f, A) \in Nat
  <2>1. IsFiniteSet(A)
    BY <1>2, FS_Subset
  <2>2. \A j \in A : f[j] \in Nat
    BY <1>1
  <2> QED
    BY <2>1, <2>2, SumNat
<1> QED
  BY <1>1, <1>2, <1>3 DEF f

\* A sum over the indices to i takes the last one first.
LEMMA SumLast ==
  ASSUME NEW cs \in Containers, NEW d \in Dims, NEW i \in 1..Len(cs),
         NEW A \in SUBSET (1..(i - 1))
  PROVE  /\ A \in SUBSET (1..Len(cs)) /\ A \cup {i} \in SUBSET (1..Len(cs))
         /\ SumFunctionOnSet(RequestsOf(cs, d), A \cup {i})
              = cs[i].request[d] + SumFunctionOnSet(RequestsOf(cs, d), A)
<1> DEFINE f == RequestsOf(cs, d)
           B == A \cup {i}
<1>1. /\ A \in SUBSET (1..Len(cs)) /\ B \in SUBSET (1..Len(cs)) /\ i \in B
      /\ B \ {i} = A
  BY ContainerType
<1>2. f[i] = cs[i].request[d] /\ \A j \in 1..Len(cs) : f[j] \in Nat
  BY RequestsType
<1>3. IsFiniteSet(B)
  BY <1>1, RequestsType
<1> HIDE DEF B, f
<1>4. IntOn(f, B)
  BY <1>1, <1>2 DEF IntOn
<1>5. SumFunctionOnSet(f, B) = f[i] + SumFunctionOnSet(f, A)
  BY <1>1, <1>3, <1>4, SumRemove
<1> QED
  BY <1>1, <1>2, <1>5 DEF B, f

\* Total is the sum over all containers.
LEMMA TotalIsSum ==
  ASSUME NEW cs \in Containers, NEW d \in Dims
  PROVE  Total(cs, d) = SumFunctionOnSet(RequestsOf(cs, d), 1..Len(cs))
<1> DEFINE n == Len(cs)
           S(i) == SumFunctionOnSet(RequestsOf(cs, d), 1..i)
<1>1. PICK t : TotalTo(t, cs, d) /\ Total(cs, d) = t[n]
  BY TotalRuns
<1> DEFINE B == {i \in 0..n : t[i] # S(i)}
<1>2. n \in Nat
  BY ContainerType
<1>3. ASSUME NEW i \in 1..n PROVE S(i) = cs[i].request[d] + S(i - 1)
  <2>1. 1..(i - 1) \in SUBSET (1..(i - 1)) /\ (1..(i - 1)) \cup {i} = 1..i
    BY <1>2
  <2> QED
    BY <2>1, SumLast
<1>4. S(0) = 0
  <2>1. 1..0 = {}
    OBVIOUS
  <2>2. SumFunctionOnSet(RequestsOf(cs, d), {}) = 0
    BY SumEmpty
  <2> QED
    BY <2>1, <2>2, Zenon
<1> HIDE DEF S
<1>5. B = {}
  <2> SUFFICES ASSUME B # {} PROVE FALSE
    OBVIOUS
  <2>1. B \in SUBSET Nat
    BY <1>2
  <2>2. PICK i \in B : \A j \in B : i <= j
    <3> HIDE DEF B
    <3> QED
      BY <2>1, LeastNat
  <2>3. i # 0
    BY <1>1, <1>4 DEF TotalTo
  <2>4. i \in 1..n /\ i - 1 \in 0..n /\ i - 1 \notin B
    BY <1>2, <2>2, <2>3
  <2>5. t[i - 1] = S(i - 1) /\ t[i - 1] \in Nat
    BY <1>1, <2>4 DEF TotalTo
  <2>6. t[i] = t[i - 1] + cs[i].request[d] /\ cs[i].request[d] \in Nat
    BY <1>1, <2>4, ContainerType DEF TotalTo
  <2>7. t[i] = S(i)
    BY <1>3, <2>4, <2>5, <2>6
  <2> QED
    BY <2>7
<1>6. t[n] = S(n)
  BY <1>2, <1>5
<1> QED
  BY <1>1, <1>6 DEF S

Sidecars(cs, i) == {j \in 1..i : cs[j].restartable}

SidecarSum(cs, d, i) == SumFunctionOnSet(RequestsOf(cs, d), Sidecars(cs, i))

\* What runs while init container j does
StepSum(cs, d, j) == cs[j].request[d] + SidecarSum(cs, d, j)

\* InitTotals after i init containers: the sidecars started so far, and the most that
\* has run with an init container that is none.
InitSums(acc, cs, d, i) ==
  /\ acc.sidecars = SidecarSum(cs, d, i)
  /\ \A j \in 1..i : ~cs[j].restartable => acc.peak >= StepSum(cs, d, j)
  /\ acc.peak = 0 \/ \E j \in 1..i : ~cs[j].restartable /\ acc.peak = StepSum(cs, d, j)

LEMMA SidecarStep ==
  ASSUME NEW cs \in Containers, NEW d \in Dims, NEW i \in 1..Len(cs)
  PROVE  /\ SidecarSum(cs, d, i) \in Nat /\ SidecarSum(cs, d, i - 1) \in Nat
         /\ SidecarSum(cs, d, i) = IF cs[i].restartable
                                   THEN cs[i].request[d] + SidecarSum(cs, d, i - 1)
                                   ELSE SidecarSum(cs, d, i - 1)
<1>1. Len(cs) \in Nat
  BY ContainerType
<1>2. /\ Sidecars(cs, i) \in SUBSET (1..Len(cs))
      /\ Sidecars(cs, i - 1) \in SUBSET (1..Len(cs))
      /\ Sidecars(cs, i - 1) \in SUBSET (1..(i - 1))
  BY <1>1 DEF Sidecars
<1>3. SidecarSum(cs, d, i) \in Nat /\ SidecarSum(cs, d, i - 1) \in Nat
  BY <1>2, RequestsType DEF SidecarSum
<1>4. CASE cs[i].restartable
  <2>1. Sidecars(cs, i) = Sidecars(cs, i - 1) \cup {i}
    BY <1>1, <1>4 DEF Sidecars
  <2> QED
    BY <1>2, <1>3, <1>4, <2>1, SumLast DEF SidecarSum
<1>5. CASE ~cs[i].restartable
  <2>1. Sidecars(cs, i) = Sidecars(cs, i - 1)
    BY <1>1, <1>5 DEF Sidecars
  <2> QED
    BY <1>3, <1>5, <2>1 DEF SidecarSum
<1> QED
  BY <1>3, <1>4, <1>5

LEMMA InitSumsStep ==
  ASSUME NEW cs \in Containers, NEW d \in Dims, NEW i \in 1..Len(cs),
         NEW acc \in Account, InitSums(acc, cs, d, i - 1)
  PROVE  InitSums(InitStep(acc, cs[i], d), cs, d, i)
<1> DEFINE new == InitStep(acc, cs[i], d)
           x == cs[i].request[d]
           s == SidecarSum(cs, d, i - 1)
<1>1. i \in Nat /\ x \in Nat /\ s \in Nat /\ acc.sidecars \in Nat /\ acc.peak \in Nat
      /\ cs[i].restartable \in BOOLEAN /\ acc.sidecars = s
  BY ContainerType, SidecarStep DEF Account, InitSums
<1>2. CASE cs[i].restartable
  <2>1. new.sidecars = s + x /\ new.peak = acc.peak
    BY <1>1, <1>2 DEF InitStep, Account
  <2>2. new.sidecars = SidecarSum(cs, d, i)
    BY <1>1, <1>2, <2>1, SidecarStep
  <2>3. \A j \in 1..i : ~cs[j].restartable => j \in 1..(i - 1)
    BY <1>1, <1>2
  <2>4. \A j \in 1..i : ~cs[j].restartable => new.peak >= StepSum(cs, d, j)
    BY <2>1, <2>3 DEF InitSums
  <2>5. new.peak = 0 \/ \E j \in 1..i : ~cs[j].restartable /\ new.peak = StepSum(cs, d, j)
    <3>1. \A j \in 1..(i - 1) : j \in 1..i
      BY <1>1
    <3> QED
      BY <2>1, <3>1 DEF InitSums
  <2> QED
    BY <2>2, <2>4, <2>5 DEF InitSums
<1>3. CASE ~cs[i].restartable
  <2>1. new.sidecars = s /\ new.peak = Greater(acc.peak, x + s)
    BY <1>1, <1>3 DEF InitStep, Account
  <2>2. SidecarSum(cs, d, i) = s /\ StepSum(cs, d, i) = x + s
    BY <1>3, SidecarStep DEF StepSum
  <2>3. ASSUME NEW j \in 1..i, ~cs[j].restartable PROVE new.peak >= StepSum(cs, d, j)
    <3>1. CASE j = i
      BY <1>1, <2>1, <2>2, <3>1 DEF Greater
    <3>2. CASE j # i
      <4>1. j \in 1..(i - 1)
        BY <1>1, <3>2
      <4>2. acc.peak >= StepSum(cs, d, j)
        BY <2>3, <4>1 DEF InitSums
      <4>3. StepSum(cs, d, j) \in Nat
        <5>1. j \in 1..Len(cs)
          BY <4>1, ContainerType
        <5> QED
          BY <5>1, ContainerType, SidecarStep DEF StepSum
      <4> HIDE DEF new
      <4> QED
        BY <1>1, <2>1, <4>2, <4>3 DEF Greater
    <3> QED
      BY <3>1, <3>2
  <2>4. new.peak = 0 \/ \E j \in 1..i : ~cs[j].restartable /\ new.peak = StepSum(cs, d, j)
    <3>1. CASE acc.peak > x + s
      <4>1. new.peak = acc.peak /\ \A j \in 1..(i - 1) : j \in 1..i
        BY <1>1, <2>1, <3>1 DEF Greater
      <4> QED
        BY <4>1 DEF InitSums
    <3>2. CASE ~(acc.peak > x + s)
      <4>1. new.peak = StepSum(cs, d, i) /\ i \in 1..i
        BY <1>1, <2>1, <2>2, <3>2 DEF Greater
      <4> QED
        BY <1>3, <4>1
    <3> QED
      BY <3>1, <3>2
  <2> QED
    BY <2>1, <2>2, <2>3, <2>4 DEF InitSums
<1> QED
  BY <1>1, <1>2, <1>3

LEMMA InitTotalsAre ==
  ASSUME NEW sp, sp.inits \in Containers, NEW d \in Dims
  PROVE  InitTotals(sp, d) \in Account /\ InitSums(InitTotals(sp, d), sp.inits, d, Len(sp.inits))
<1> DEFINE cs == sp.inits
           n == Len(cs)
<1>1. PICK t : InitTo(t, cs, d) /\ InitTotals(sp, d) = t[n]
  BY InitRuns
<1> DEFINE B == {i \in 0..n : ~InitSums(t[i], cs, d, i)}
<1>2. n \in Nat
  BY ContainerType
<1>3. InitSums(NoAccount, cs, d, 0)
  <2>1. Sidecars(cs, 0) = {} /\ 1..0 = {}
    BY DEF Sidecars
  <2>2. SumFunctionOnSet(RequestsOf(cs, d), {}) = 0
    BY SumEmpty
  <2>3. SidecarSum(cs, d, 0) = 0
    BY <2>1, <2>2, Zenon DEF SidecarSum
  <2> QED
    BY <2>1, <2>3 DEF InitSums, NoAccount
<1>4. B = {}
  <2> SUFFICES ASSUME B # {} PROVE FALSE
    OBVIOUS
  <2>1. B \in SUBSET Nat
    BY <1>2
  <2>2. PICK i \in B : \A j \in B : i <= j
    <3> HIDE DEF B
    <3> QED
      BY <2>1, LeastNat
  <2>3. i # 0
    BY <1>1, <1>3 DEF InitTo
  <2>4. i \in 1..n /\ i - 1 \in 0..n /\ i - 1 \notin B
    BY <1>2, <2>2, <2>3
  <2>5. t[i - 1] \in Account /\ InitSums(t[i - 1], cs, d, i - 1)
    BY <1>1, <2>4 DEF InitTo
  <2>6. t[i] = InitStep(t[i - 1], cs[i], d)
    BY <1>1, <2>4 DEF InitTo
  <2>7. InitSums(t[i], cs, d, i)
    BY <2>4, <2>5, <2>6, InitSumsStep
  <2> QED
    BY <2>7
<1>5. t[n] \in Account /\ InitSums(t[n], cs, d, n)
  BY <1>1, <1>2, <1>4 DEF InitTo
<1> QED
  BY <1>1, <1>5

LEMMA PeakIs ==
  ASSUME template \in Templates
  PROVE  RequestIsPeak
<1> DEFINE cs == spec.inits
           bs == spec.containers
           n == Len(cs)
<1>1. /\ cs \in Containers /\ bs \in Containers /\ spec.overhead \in Amounts
      /\ n \in Nat /\ DOMAIN cs = 1..n
  <2>1. cs \in Containers /\ bs \in Containers /\ spec.overhead \in Amounts
    BY PlacementAssumption DEF spec
  <2> QED
    BY <2>1, ContainerType
<1> SUFFICES ASSUME NEW d \in Dims
             PROVE  PodRequest(spec)[d] = Max({AtOnce(phase, d) : phase \in Phases})
  BY DEF RequestIsPeak
<1> DEFINE o == spec.overhead[d]
           w == Total(bs, d)
           acc == InitTotals(spec, d)
           Q == {AtOnce(phase, d) : phase \in Phases}
           Step(i) == [sidecars |-> Sidecars(cs, i), init |-> i]
           Main == [sidecars |-> Sidecars(cs, n), init |-> 0]
           m == PodRequest(spec)[d]
<1>2. o \in Nat /\ w \in Nat
  <2>1. PICK t : TotalTo(t, bs, d) /\ w = t[Len(bs)]
    BY <1>1, TotalRuns
  <2> QED
    BY <1>1, <2>1, ContainerType DEF TotalTo, Amounts
<1>3. acc \in Account /\ InitSums(acc, cs, d, n)
  BY <1>1, InitTotalsAre
<1>4. Phases = {Step(i) : i \in {j \in 1..n : ~cs[j].restartable}} \cup {Main}
  BY <1>1 DEF Phases, Sidecars
<1>5. \A A \in SUBSET (1..n) :
        MapThenSumSet(LAMBDA j : spec.inits[j].request[d], A)
          = SumFunctionOnSet(RequestsOf(cs, d), A)
  BY <1>1, SumOfContainers
<1>6. MapThenSumSet(LAMBDA j : spec.containers[j].request[d], DOMAIN spec.containers) = w
  <2>1. DOMAIN bs = 1..Len(bs) /\ 1..Len(bs) \in SUBSET (1..Len(bs))
    BY <1>1, ContainerType
  <2>2. MapThenSumSet(LAMBDA j : bs[j].request[d], 1..Len(bs))
          = SumFunctionOnSet(RequestsOf(bs, d), 1..Len(bs))
    BY <1>1, <2>1, SumOfContainers
  <2> QED
    BY <1>1, <2>1, <2>2, TotalIsSum
<1>7. AtOnce(Main, d) = acc.sidecars + w + o
  <2>1. Sidecars(cs, n) \in SUBSET (1..n)
    BY DEF Sidecars
  <2>2. AtOnce(Main, d)
          = MapThenSumSet(LAMBDA j : spec.inits[j].request[d], Sidecars(cs, n)) + w + o
    BY <1>6 DEF AtOnce
  <2> QED
    BY <1>3, <1>5, <2>1, <2>2 DEF InitSums, SidecarSum
<1>8. ASSUME NEW i \in 1..n PROVE AtOnce(Step(i), d) = StepSum(cs, d, i) + o
                                  /\ StepSum(cs, d, i) \in Nat
  <2>1. Sidecars(cs, i) \in SUBSET (1..n) /\ i # 0
    BY <1>1 DEF Sidecars
  <2>2. AtOnce(Step(i), d)
          = MapThenSumSet(LAMBDA j : spec.inits[j].request[d], Sidecars(cs, i))
              + cs[i].request[d] + o
    BY <2>1 DEF AtOnce
  <2>3. SidecarSum(cs, d, i) \in Nat /\ cs[i].request[d] \in Nat
    BY <1>1, SidecarStep, ContainerType
  <2>4. AtOnce(Step(i), d) = SidecarSum(cs, d, i) + cs[i].request[d] + o
    BY <1>5, <2>1, <2>2 DEF SidecarSum
  <2> QED
    BY <1>2, <2>3, <2>4 DEF StepSum
<1>9. m = Greater(w + acc.sidecars, acc.peak) + o
  BY DEF PodRequest
<1>10. acc.sidecars \in Nat /\ acc.peak \in Nat
  BY <1>3 DEF Account
<1>11. /\ \A j \in 1..n : ~cs[j].restartable => acc.peak >= StepSum(cs, d, j)
       /\ acc.peak = 0 \/ \E j \in 1..n : ~cs[j].restartable /\ acc.peak = StepSum(cs, d, j)
  BY <1>3 DEF InitSums
<1> HIDE DEF o, w, acc, m, Step, Main, cs, n
<1>12. m \in Nat
  BY <1>2, <1>9, <1>10 DEF Greater
<1>13. ASSUME NEW y \in Q PROVE y \in Nat /\ m >= y
  <2>1. PICK phase \in Phases : y = AtOnce(phase, d)
    OBVIOUS
  <2>2. CASE phase = Main
    BY <1>2, <1>7, <1>9, <1>10, <2>1, <2>2 DEF Greater
  <2>3. CASE phase # Main
    <3>1. PICK i \in 1..n : ~cs[i].restartable /\ phase = Step(i)
      BY <1>4, <2>3
    <3>2. y = StepSum(cs, d, i) + o /\ StepSum(cs, d, i) \in Nat /\ acc.peak >= StepSum(cs, d, i)
      BY <1>8, <1>11, <2>1, <3>1
    <3> QED
      BY <1>2, <1>9, <1>10, <3>2 DEF Greater
  <2> QED
    BY <2>2, <2>3
<1>14. m \in Q
  <2>1. CASE acc.peak > w + acc.sidecars
    <3>1. acc.peak # 0 /\ m = acc.peak + o
      BY <1>2, <1>9, <1>10, <2>1 DEF Greater
    <3>2. PICK j \in 1..n : ~cs[j].restartable /\ acc.peak = StepSum(cs, d, j)
      BY <1>11, <3>1
    <3>3. m = AtOnce(Step(j), d) /\ Step(j) \in Phases
      BY <1>4, <1>8, <3>1, <3>2
    <3> QED
      BY <3>3
  <2>2. CASE ~(acc.peak > w + acc.sidecars)
    <3>1. m = w + acc.sidecars + o
      BY <1>2, <1>9, <1>10, <2>2 DEF Greater
    <3>2. m = AtOnce(Main, d) /\ Main \in Phases
      BY <1>2, <1>4, <1>7, <1>10, <3>1
    <3> QED
      BY <3>2
  <2> QED
    BY <2>1, <2>2
<1> HIDE DEF Q
<1>15. Max(Q) = m
  BY <1>13, <1>14, MaxIs
<1> QED
  BY <1>15 DEF Q, m

----------------------------------------------------------------------------
(* The theorems.                                                           *)

LEMMA AlwaysSound == Spec => []Sound
<1>1. Init => Sound
  BY SoundInit
<1>2. Sound /\ [Next]_vars => Sound'
  BY SoundStep
<1> QED
  BY <1>1, <1>2, PTL DEF Spec

\* Whichever nodes the scheduler chooses, a replica the gate admitted finds one, until
\* a node gets worse or others' pods take more than the margin (I-4 of the design):
\* where the filters of evaluateCandidate and those of the scheduler agree.
THEOREM PromiseIsKept ==
  ASSUME FiltersAgree
  PROVE  Spec => []PromiseKept
<1>1. Init => Promise
  BY PromiseInit
<1>2. Sound /\ Promise /\ [Next]_vars => Promise'
  BY PromiseStep
<1>3. Sound /\ Promise => PromiseKept
  BY PromisePays
<1> QED
  BY <1>1, <1>2, <1>3, AlwaysSound, PTL DEF Spec

\* Binding a promised pod takes exactly one from the estimate, or nothing where the
\* estimate had counted nothing (byNode charges pods from their assignment on).
THEOREM BindingCostsOne == Spec => PlacementCostsOne
<1>1. Sound /\ [Next]_vars =>
        [\A p \in Unbound, n \in Nodes :
           Bind(p, n) =>
             RawFitSum(nodes', pods', spec) =
               RawFitSum(nodes, pods, spec)
                 - (IF NodeFit(nodes[n], n, pods, spec) > 0 THEN 1 ELSE 0)]_vars
  BY BindCosts
<1> QED
  BY <1>1, AlwaysSound, PTL DEF Spec, PlacementCostsOne

\* The estimate is what is left of the best placement after the margin, no more and no
\* less, in every state: where the filters agree and every template requests something.
THEOREM EstimateExact ==
  ASSUME FiltersAgree, RequestsKnown
  PROVE  Spec => []EstimateIsExact
<1>1. Sound => EstimateIsExact
  <2> SUFFICES ASSUME Sound PROVE EstimateIsExact
    OBVIOUS
  <2>1. Sized(spec)
    BY RequestType DEF Sized, RequestKnown, RequestsKnown, spec, Sound
  <2>2. MostPlaceable = RawFitSum(nodes, pods, spec)
    BY <2>1, ExactEstimate
  <2> QED
    BY <2>2 DEF EstimateIsExact, Feasible
<1> QED
  BY <1>1, AlwaysSound, PTL

\* What a pod is charged is the most its containers hold at the same time
\* (EffectivePodRequest with native sidecars among the init containers).
THEOREM RequestPeak == Spec => []RequestIsPeak
<1>1. Sound => RequestIsPeak
  BY PeakIs DEF Sound
<1> QED
  BY <1>1, AlwaysSound, PTL
==============================================================================
