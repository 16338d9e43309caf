--------------------------- MODULE ArithmeticProofs ---------------------------
(***************************************************************************)
(* What the proofs about the arithmetic modules rest on: induction,        *)
(* quotients and remainders, congruences and units, what a fold over an    *)
(* interval computes, and sums of a root's powers.                         *)
(*                                                                         *)
(* The induction theorems of the library take the property as an operator. *)
(* Here a property is the set of numbers that have it: the provers can     *)
(* instantiate a set.                                                      *)
(***************************************************************************)
EXTENDS FiniteSetTheorems, SequencesExt, TLAPS

\* A set of naturals that is not empty has a least element.
LEMMA LeastNat ==
    ASSUME NEW T \in SUBSET Nat, T # {}
    PROVE  \E n \in T : \A m \in T : n <= m
<1>1. PICK n \in T : \A m \in T : ~ (<<m, n>> \in OpToRel(<, Nat))
  BY NatLessThanWellFounded, WFMin, Zenon
<1>2. \A m \in T : ~(m < n)
  BY <1>1 DEF OpToRel
<1> QED
  BY <1>2

\* Induction, for a property given by the set of numbers that have it.
LEMMA InductionSet ==
    ASSUME NEW G, 0 \in G, \A n \in Nat : n \in G => n + 1 \in G
    PROVE  Nat \subseteq G
<1> SUFFICES ASSUME Nat \ G # {} PROVE FALSE
  OBVIOUS
<1>1. PICK n \in Nat \ G : \A m \in Nat \ G : n <= m
  BY LeastNat
<1>2. n # 0 /\ n - 1 \in Nat
  BY <1>1
<1>3. n - 1 \in G
  BY <1>1, <1>2
<1> QED
  BY <1>1, <1>2, <1>3

-----------------------------------------------------------------------------
(* Quotients, remainders and congruences.                                  *)

\* d divides a.
Divides(d, a) == \E k \in Int : a = k * d

\* a and b leave the same remainder modulo q.
Cong(a, b, q) == \E k \in Int : a = b + k * q

\* Quotient and remainder of an integer.
LEMMA Quotient ==
    ASSUME NEW n \in Int, NEW d \in Nat, d > 0
    PROVE  /\ n \div d \in Int /\ n % d \in 0..(d - 1)
           /\ n = (n \div d) * d + (n % d)
OBVIOUS

\* The quotient of a natural is a natural.
LEMMA QuotientNat ==
    ASSUME NEW n \in Int, n >= 0, NEW d \in Nat, d > 0
    PROVE  n \div d \in Nat
<1>1. n \div d \in Int /\ n % d \in 0..(d - 1) /\ n = (n \div d) * d + (n % d)
  BY Quotient
<1> DEFINE k == n \div d  r == n % d
<1>2. k \in Int /\ r \in 0..(d - 1) /\ n = k * d + r
  BY <1>1
<1> HIDE DEF k, r
<1>3. SUFFICES ASSUME k <= -1 PROVE FALSE
  BY <1>2 DEF k
<1>4. k * d <= (-1) * d
  BY <1>2, <1>3
<1> QED
  BY <1>2, <1>4

\* They are the only pair with their defining property.
LEMMA QuotientUnique ==
    ASSUME NEW k \in Int, NEW d \in Nat, NEW s \in 0..(d - 1)
    PROVE  (k * d + s) \div d = k /\ (k * d + s) % d = s
<1>1. k * d + s \in Int /\ d > 0
  OBVIOUS
<1> QED
  BY <1>1, Z3

\* A number is congruent to its remainder.
LEMMA CongOfMod ==
    ASSUME NEW a \in Int, NEW q \in Nat, q > 0
    PROVE  a % q \in 0..(q - 1) /\ Cong(a, a % q, q) /\ Cong(a % q, a, q)
<1>1. /\ a \div q \in Int /\ a % q \in 0..(q - 1)
      /\ a = (a \div q) * q + (a % q)
  BY Quotient
<1> DEFINE k == a \div q  r == a % q
<1> HIDE DEF k, r
<1>2. k \in Int /\ r \in Int /\ a = k * q + r
  BY <1>1 DEF k, r
<1>3. Cong(a, r, q)
  BY <1>2 DEF Cong
<1>4. r = a + (-k) * q
  BY <1>2
<1>5. Cong(r, a, q)
  BY <1>4, <1>2 DEF Cong
<1> QED
  BY <1>1, <1>3, <1>5 DEF r

\* Congruence is an equivalence ...
LEMMA CongRefl == \A a \in Int, q \in Int : Cong(a, a, q)
<1> SUFFICES ASSUME NEW a \in Int, NEW q \in Int PROVE \E k \in Int : a = a + k * q
  BY DEF Cong
<1> a = a + 0 * q
  OBVIOUS
<1> QED
  OBVIOUS

\* ... symmetric ...
LEMMA CongSym ==
    ASSUME NEW a \in Int, NEW b \in Int, NEW q \in Int, Cong(a, b, q)
    PROVE  Cong(b, a, q)
<1>1. PICK k \in Int : a = b + k * q
  BY DEF Cong
<1>2. b = a + (-k) * q /\ -k \in Int
  BY <1>1
<1> QED
  BY <1>2 DEF Cong

\* ... and transitive, ...
LEMMA CongTrans ==
    ASSUME NEW a \in Int, NEW b \in Int, NEW c \in Int, NEW q \in Int,
           Cong(a, b, q), Cong(b, c, q)
    PROVE  Cong(a, c, q)
<1>1. PICK k \in Int : a = b + k * q
  BY DEF Cong
<1>2. PICK l \in Int : b = c + l * q
  BY DEF Cong
<1>3. a = c + (k + l) * q /\ k + l \in Int
  BY <1>1, <1>2
<1> QED
  BY <1>3 DEF Cong

\* ... which sums, differences and products respect.
LEMMA CongAdd ==
    ASSUME NEW a \in Int, NEW b \in Int, NEW c \in Int, NEW d \in Int, NEW q \in Int,
           Cong(a, b, q), Cong(c, d, q)
    PROVE  Cong(a + c, b + d, q) /\ Cong(a - c, b - d, q) /\ Cong(a * c, b * d, q)
<1>1. PICK k \in Int : a = b + k * q
  BY DEF Cong
<1>2. PICK l \in Int : c = d + l * q
  BY DEF Cong
<1>3. a + c = (b + d) + (k + l) * q /\ k + l \in Int
  BY <1>1, <1>2
<1>4. a - c = (b - d) + (k - l) * q /\ k - l \in Int
  BY <1>1, <1>2
<1>5. a * c = (b * d) + (k * d + b * l + (k * q) * l) * q /\ k * d + b * l + (k * q) * l \in Int
  <2>1. a * c = b * d + b * (l * q) + (k * q) * d + (k * q) * (l * q)
    BY <1>1, <1>2
  <2> QED
    BY <2>1
<1> QED
  BY <1>3, <1>4, <1>5 DEF Cong

\* Two remainders that are congruent are equal.
LEMMA CongUnique ==
    ASSUME NEW q \in Nat, NEW r \in 0..(q - 1), NEW s \in 0..(q - 1), Cong(r, s, q)
    PROVE  r = s
<1>1. PICK k \in Int : r = s + k * q
  BY DEF Cong
<1>2. CASE k >= 1
  <2>1. k * q >= q
    BY <1>2
  <2> QED
    BY <2>1, <1>1
<1>3. CASE k <= -1
  <2>1. k * q <= -q
    BY <1>3
  <2> QED
    BY <2>1, <1>1
<1>4. CASE k = 0
  BY <1>1, <1>4
<1> QED
  BY <1>2, <1>3, <1>4

\* Congruent numbers are those with equal remainders.
LEMMA CongIff ==
    ASSUME NEW a \in Int, NEW b \in Int, NEW q \in Nat, q > 0
    PROVE  Cong(a, b, q) <=> a % q = b % q
<1>1. a % q \in 0..(q - 1) /\ b % q \in 0..(q - 1) /\ a % q \in Int /\ b % q \in Int
  BY CongOfMod
<1>2. ASSUME Cong(a, b, q) PROVE a % q = b % q
  <2>1. Cong(a % q, a, q) /\ Cong(b, b % q, q)
    BY CongOfMod
  <2>2. Cong(a % q, b, q)
    BY <1>1, <1>2, <2>1, CongTrans
  <2>3. Cong(a % q, b % q, q)
    BY <1>1, <2>1, <2>2, CongTrans
  <2> QED
    BY <1>1, <2>3, CongUnique
<1>3. ASSUME a % q = b % q PROVE Cong(a, b, q)
  <2>1. Cong(a, a % q, q) /\ Cong(b % q, b, q)
    BY CongOfMod
  <2> QED
    BY <1>1, <1>3, <2>1, CongTrans
<1> QED
  BY <1>2, <1>3

\* a has an inverse modulo q.
IsUnit(a, q) == \E b \in Int : Cong(a * b, 1, q)

\* The multiples of q are the numbers congruent to 0.
LEMMA DividesCong ==
    ASSUME NEW a \in Int, NEW q \in Int
    PROVE  Divides(q, a) <=> Cong(a, 0, q)
BY DEF Divides, Cong

\* A congruence holds modulo every divisor of its modulus.
LEMMA CongDivisor ==
    ASSUME NEW a \in Int, NEW b \in Int, NEW q \in Int, NEW p \in Int,
           Cong(a, b, q), Divides(p, q)
    PROVE  Cong(a, b, p)
<1>1. PICK k \in Int : a = b + k * q
  BY DEF Cong
<1>2. PICK l \in Int : q = l * p
  BY DEF Divides
<1>3. a = b + (k * l) * p /\ k * l \in Int
  BY <1>1, <1>2
<1> QED
  BY <1>3 DEF Cong

\* Products of units are units: Euclid's lemma.
LEMMA UnitProduct ==
    ASSUME NEW a \in Int, NEW b \in Int, NEW q \in Int, IsUnit(a, q), IsUnit(b, q)
    PROVE  IsUnit(a * b, q)
<1>1. PICK c \in Int : Cong(a * c, 1, q)
  BY DEF IsUnit
<1>2. PICK d \in Int : Cong(b * d, 1, q)
  BY DEF IsUnit
<1>3. Cong((a * c) * (b * d), 1 * 1, q)
  BY <1>1, <1>2, CongAdd
<1>4. (a * c) * (b * d) = (a * b) * (c * d) /\ c * d \in Int
  OBVIOUS
<1>5. Cong((a * b) * (c * d), 1, q)
  BY <1>3, <1>4
<1> QED
  BY <1>4, <1>5 DEF IsUnit

\* The factors of a unit are units.
LEMMA UnitFactor ==
    ASSUME NEW u \in Int, NEW v \in Int, NEW q \in Int, IsUnit(u * v, q)
    PROVE  IsUnit(v, q)
<1>1. PICK c \in Int : Cong((u * v) * c, 1, q)
  BY DEF IsUnit
<1>2. (u * v) * c = v * (u * c) /\ u * c \in Int
  OBVIOUS
<1>3. Cong(v * (u * c), 1, q)
  BY <1>1, <1>2
<1> QED
  BY <1>2, <1>3 DEF IsUnit

\* The remainder of a unit is a unit.
LEMMA UnitOfRemainder ==
    ASSUME NEW a \in Int, NEW q \in Nat, q > 0, IsUnit(a, q)
    PROVE  IsUnit(a % q, q)
<1>1. PICK b \in Int : Cong(a * b, 1, q)
  BY DEF IsUnit
<1> DEFINE r == a % q
<1>2. r \in Int /\ q \in Int
  BY Quotient
<1>3. Cong(r, a, q)
  BY <1>2, CongOfMod, CongSym
<1> HIDE DEF r
<1>4. Cong(r * b, a * b, q)
  BY <1>2, <1>3, CongRefl, CongAdd
<1>5. r * b \in Int /\ a * b \in Int
  BY <1>2
<1>6. Cong(r * b, 1, q)
  BY <1>1, <1>2, <1>4, <1>5, CongTrans
<1>7. IsUnit(r, q)
  BY <1>6 DEF IsUnit
<1> QED
  BY <1>7 DEF r

\* Units cancel.
LEMMA UnitCancel ==
    ASSUME NEW a \in Int, NEW x \in Int, NEW y \in Int, NEW q \in Int,
           IsUnit(a, q), Cong(a * x, a * y, q)
    PROVE  Cong(x, y, q)
<1>1. PICK c \in Int : Cong(a * c, 1, q)
  BY DEF IsUnit
<1>2. PICK k \in Int : a * c = 1 + k * q
  BY <1>1 DEF Cong
<1>3. PICK l \in Int : a * x = a * y + l * q
  BY DEF Cong
<1>4. x - y = (c * l - k * (x - y)) * q
  <2>1. (a * c) * (x - y) = c * (a * x) - c * (a * y)
    OBVIOUS
  <2>2. (a * c) * (x - y) = c * (l * q)
    BY <2>1, <1>3
  <2>3. (a * c) * (x - y) = (x - y) + (k * q) * (x - y)
    BY <1>2
  <2> QED
    BY <2>2, <2>3
<1>5. x = y + (c * l - k * (x - y)) * q /\ c * l - k * (x - y) \in Int
  BY <1>4
<1> QED
  BY <1>5 DEF Cong

\* A unit is not a multiple of its modulus.
LEMMA UnitNonzero ==
    ASSUME NEW q \in Nat, q > 1, NEW a \in Int, IsUnit(a, q)
    PROVE  a % q # 0
<1>0. q > 0
  OBVIOUS
<1> SUFFICES ASSUME a % q = 0 PROVE FALSE
  OBVIOUS
<1>1. PICK c \in Int : Cong(a * c, 1, q)
  BY DEF IsUnit
<1>2. 0 % q = 0 /\ 1 % q = 1 /\ 0 * c = 0
  OBVIOUS
<1>3. Cong(a, 0, q) /\ Cong(c, c, q)
  BY <1>0, <1>2, CongIff, CongRefl
<1>4. Cong(a * c, 0 * c, q)
  BY <1>3, CongAdd
<1>5. a * c \in Int /\ Cong(a * c, 0, q)
  BY <1>2, <1>4
<1>6. (a * c) % q = 0 /\ (a * c) % q = 1
  BY <1>0, <1>1, <1>2, <1>5, CongIff
<1> QED
  BY <1>6

\* Two coprime divisors of a number: their product divides it.
LEMMA CoprimeDivides ==
    ASSUME NEW p \in Int, NEW q \in Int, NEW y \in Int,
           IsUnit(p, q), Divides(p, y), Divides(q, y)
    PROVE  Divides(p * q, y)
<1>1. PICK m \in Int : y = m * p
  BY DEF Divides
<1>2. Cong(p * m, p * 0, q)
  BY <1>1, DividesCong
<1>3. Cong(m, 0, q)
  BY <1>2, UnitCancel
<1>4. PICK k \in Int : m = k * q
  BY <1>3 DEF Cong
<1>5. y = k * (p * q)
  BY <1>1, <1>4
<1> QED
  BY <1>5 DEF Divides

\* A divisor of a factor divides the product.
LEMMA DividesProduct ==
    ASSUME NEW d \in Int, NEW a \in Int, NEW b \in Int, Divides(d, a)
    PROVE  Divides(d, a * b) /\ Divides(d, b * a)
<1>1. PICK k \in Int : a = k * d
  BY DEF Divides
<1>2. a * b = (k * b) * d /\ b * a = (k * b) * d /\ k * b \in Int
  BY <1>1
<1> QED
  BY <1>2 DEF Divides

-----------------------------------------------------------------------------
(* Folds.  The library's folds are defined by recursion over the subsets of *)
(* a set: a choice c takes an element from each, and step[e][v] is what     *)
(* element e makes of the result v for the rest.                            *)

\* c takes an element from every subset of S that is not empty.
Chooses(c, S) == \A T \in SUBSET S : T # {} => c[T] \in T

\* Steps with the elements of S stay in V.
Steps(step, S, V) == \A e \in S, v \in V : step[e][v] \in V

\* The recursion at T, and a function that obeys it on S.
FoldAt(g, T, base, step, c) == IF T = {} THEN base ELSE step[c[T]][g[T \ {c[T]}]]

\* A table g of the folds of the subsets of S.
IsFold(g, S, base, step, c) == \A T \in SUBSET S : g[T] = FoldAt(g, T, base, step, c)

\* The element taken leaves a smaller subset.
LEMMA SmallerSubset ==
    ASSUME NEW S, IsFiniteSet(S), NEW c, Chooses(c, S)
    PROVE  \A T \in SUBSET S :
              /\ Cardinality(T) \in 0..Cardinality(S)
              /\ Cardinality(T) = 0 <=> T = {}
              /\ T # {} => /\ T \ {c[T]} \in SUBSET S
                           /\ Cardinality(T \ {c[T]}) = Cardinality(T) - 1
<1> TAKE T \in SUBSET S
<1>1. IsFiniteSet(T) /\ Cardinality(T) <= Cardinality(S)
  BY FS_Subset
<1>2. Cardinality(T) \in Nat /\ Cardinality(S) \in Nat
  BY <1>1, FS_CardinalityType
<1>3. Cardinality(T) = 0 <=> T = {}
  BY <1>1, FS_EmptySet
<1>4. ASSUME T # {}
      PROVE  T \ {c[T]} \in SUBSET S /\ Cardinality(T \ {c[T]}) = Cardinality(T) - 1
  <2>1. c[T] \in T
    BY <1>4 DEF Chooses
  <2> QED
    BY <2>1, <1>1, FS_RemoveElement
<1> QED
  BY <1>1, <1>2, <1>3, <1>4

\* A fold over a finite set exists.
LEMMA FoldExists ==
    ASSUME NEW S, IsFiniteSet(S), NEW V, NEW base \in V, NEW step, NEW c,
           Chooses(c, S), Steps(step, S, V)
    PROVE  \E g \in [SUBSET S -> V] : IsFold(g, S, base, step, c)
<1> DEFINE Value(g, T) == FoldAt(g, T, base, step, c)
           N == {n \in Nat : \E g \in [SUBSET S -> V] : \A T \in SUBSET S :
                                Cardinality(T) <= n => g[T] = Value(g, T)}
<1>t. \A g \in [SUBSET S -> V], T \in SUBSET S : Value(g, T) \in V
  BY SmallerSubset DEF FoldAt, Chooses, Steps
<1>e. \A g : Value(g, {}) = base
  BY DEF FoldAt
<1>1. 0 \in N
  <2> DEFINE g == [T \in SUBSET S |-> base]
  <2>1. g \in [SUBSET S -> V]
    OBVIOUS
  <2>2. ASSUME NEW T \in SUBSET S, Cardinality(T) <= 0 PROVE g[T] = Value(g, T)
    <3>1. Cardinality(T) \in 0..Cardinality(S) /\ (Cardinality(T) = 0 <=> T = {})
      BY SmallerSubset
    <3>2. Cardinality(S) \in Nat
      BY FS_CardinalityType
    <3>3. T = {}
      BY <2>2, <3>1, <3>2
    <3> HIDE DEF Value
    <3> QED
      BY <3>3, <1>e
  <2> HIDE DEF g, Value
  <2> QED
    BY <2>1, <2>2
<1>2. ASSUME NEW n \in Nat, n \in N PROVE n + 1 \in N
  <2>1. PICK g \in [SUBSET S -> V] :
            \A T \in SUBSET S : Cardinality(T) <= n => g[T] = Value(g, T)
    BY <1>2
  <2> DEFINE h == [T \in SUBSET S |-> IF Cardinality(T) <= n THEN g[T] ELSE Value(g, T)]
  <2>2. h \in [SUBSET S -> V]
    <3> HIDE DEF Value
    <3> QED
      BY <2>1, <1>t
  <2>3. ASSUME NEW T \in SUBSET S, Cardinality(T) <= n + 1
        PROVE  h[T] = Value(h, T)
    <3>1. CASE T = {}
      <4> HIDE DEF Value
      <4> QED
        BY <3>1, <1>e, <2>1
    <3>2. CASE T # {}
      <4>1. T \ {c[T]} \in SUBSET S /\ Cardinality(T \ {c[T]}) <= n
        BY <3>2, SmallerSubset, <2>3
      <4>2. h[T \ {c[T]}] = g[T \ {c[T]}]
        BY <4>1
      <4>3. h[T] = Value(g, T)
        BY <2>1
      <4> QED
        BY <4>2, <4>3, <3>2 DEF FoldAt
    <3> QED
      BY <3>1, <3>2
  <2> HIDE DEF h, Value
  <2> QED
    BY <2>2, <2>3
<1> HIDE DEF N
<1>3. Nat \subseteq N
  BY <1>1, <1>2, InductionSet
<1>4. Cardinality(S) \in N /\ Cardinality(S) \in Nat
  BY <1>3, FS_CardinalityType
<1>5. PICK g \in [SUBSET S -> V] :
          \A T \in SUBSET S : Cardinality(T) <= Cardinality(S) => g[T] = Value(g, T)
  BY <1>4 DEF N
<1>6. \A T \in SUBSET S : Cardinality(T) <= Cardinality(S)
  BY FS_Subset
<1> QED
  BY <1>5, <1>6 DEF IsFold

\* Two folds agree wherever both are defined.
LEMMA FoldUnique ==
    ASSUME NEW S, IsFiniteSet(S), NEW base, NEW step, NEW c, Chooses(c, S),
           NEW g, IsFold(g, S, base, step, c),
           NEW W \in SUBSET S, NEW h, IsFold(h, W, base, step, c)
    PROVE  \A T \in SUBSET W : h[T] = g[T]
<1> DEFINE N == {n \in Nat : \A T \in SUBSET W : Cardinality(T) = n => h[T] = g[T]}
<1>s. \A T \in SUBSET W :
         /\ Cardinality(T) \in Nat /\ (Cardinality(T) = 0 <=> T = {})
         /\ T # {} => T \ {c[T]} \in SUBSET W /\ Cardinality(T \ {c[T]}) = Cardinality(T) - 1
  BY SmallerSubset
<1>v. \A T \in SUBSET W : /\ h[T] = FoldAt(h, T, base, step, c)
                          /\ g[T] = FoldAt(g, T, base, step, c)
  BY DEF IsFold
<1>1. 0 \in N
  BY <1>s, <1>v DEF FoldAt
<1>2. ASSUME NEW n \in Nat, n \in N PROVE n + 1 \in N
  <2> SUFFICES ASSUME NEW T \in SUBSET W, Cardinality(T) = n + 1 PROVE h[T] = g[T]
    OBVIOUS
  <2>1. T # {}
    BY <1>s
  <2>2. T \ {c[T]} \in SUBSET W /\ Cardinality(T \ {c[T]}) = n
    BY <2>1, <1>s
  <2>3. h[T \ {c[T]}] = g[T \ {c[T]}]
    BY <2>2, <1>2
  <2> QED
    BY <2>1, <2>3, <1>v DEF FoldAt
<1> HIDE DEF N
<1>3. Nat \subseteq N
  BY <1>1, <1>2, InductionSet
<1> QED
  BY <1>3, <1>s DEF N

\* Max takes the last element of an interval.
LEMMA MaxOfInterval ==
    ASSUME NEW n \in Nat
    PROVE  /\ \A T \in SUBSET (1..n) : T # {} => Max(T) \in T
           /\ \A k \in 1..n : Max(1..k) = k
<1>1. ASSUME NEW T \in SUBSET (1..n), T # {} PROVE \E x \in T : \A y \in T : x >= y
  <2> DEFINE D == {n - x : x \in T}
  <2>0. \A x \in T : x \in 1..n
    OBVIOUS
  <2>1. D \in SUBSET Nat /\ D # {}
    <3>1. \A x \in T : n - x \in Nat
      BY <2>0
    <3> QED
      BY <1>1, <3>1
  <2>2. PICK d \in D : \A e \in D : d <= e
    BY <2>1, LeastNat
  <2>3. PICK x \in T : d = n - x
    BY <2>2
  <2>4. \A y \in T : n - x <= n - y
    BY <2>2, <2>3
  <2> QED
    BY <2>3, <2>4, <2>0
<1>2. \A T \in SUBSET (1..n) : T # {} => Max(T) \in T
  BY <1>1 DEF Max
<1>3. ASSUME NEW k \in 1..n PROVE Max(1..k) = k
  <2>1. \A x \in 1..k : (\A y \in 1..k : x >= y) <=> x = k
    OBVIOUS
  <2> QED
    BY <2>1 DEF Max
<1> QED
  BY <1>2, <1>3

\* The partial results of a fold over 1..n.
IsChain(p, n, base, step) == p[0] = base /\ \A k \in 1..n : p[k] = step[k][p[k - 1]]
\* The choice of FoldLeft.
MaxOf(n) == [T \in SUBSET (1..n) |-> Max(T)]

\* Steps over the indices of a sequence.
SeqSteps(step, n, V) == \A k \in 1..n, v \in V : step[k][v] \in V
\* The fold exists, and is the end of a chain.
HasFold(n, V, base, step) ==
    \E g \in [SUBSET (1..n) -> V] : IsFold(g, 1..n, base, step, MaxOf(n))

\* n steps taken one after the other have a result.
HasChain(n, V, base, step) ==
    \E p \in [0..n -> V] :
        /\ IsChain(p, n, base, step)
        /\ \A h : IsFold(h, 1..n, base, step, MaxOf(n)) => h[1..n] = p[n]

\* A fold over 1..n that takes the last element first is the last of a chain
\* of values, each made from the one before: FoldLeft, one element at a time.
LEMMA FoldLeftChain ==
    ASSUME NEW n \in Nat, NEW V, NEW base \in V, NEW step, SeqSteps(step, n, V)
    PROVE  HasFold(n, V, base, step) /\ HasChain(n, V, base, step)
<1> DEFINE S == 1..n
           c == MaxOf(n)
<1>1. IsFiniteSet(S)
  BY FS_Interval
<1>2. \A T \in SUBSET S : c[T] = Max(T)
  BY DEF MaxOf
<1>3. Chooses(c, S)
  BY <1>2, MaxOfInterval DEF Chooses
<1>4. Steps(step, S, V)
  BY DEF SeqSteps, Steps
<1> HIDE DEF c
<1>5. PICK g \in [SUBSET S -> V] : IsFold(g, S, base, step, c)
  <2> HIDE DEF S
  <2> QED
    BY <1>1, <1>3, <1>4, FoldExists
<1>6. \A h : IsFold(h, S, base, step, c) => h[S] = g[S]
  <2> HIDE DEF S
  <2>1. S \in SUBSET S
    OBVIOUS
  <2> QED
    BY <1>1, <1>3, <1>5, <2>1, FoldUnique
<1> DEFINE p == [k \in 0..n |-> g[1..k]]
<1>7. p \in [0..n -> V]
  <2>1. \A k \in 0..n : 1..k \in SUBSET S
    OBVIOUS
  <2> QED
    BY <2>1, <1>5
<1>8. IsChain(p, n, base, step)
  <2>1. p[0] = base
    <3>1. {} \in SUBSET S /\ 1..0 = {}
      OBVIOUS
    <3>2. g[{}] = base
      BY <1>5, <3>1 DEF IsFold, FoldAt
    <3> QED
      BY <3>1, <3>2
  <2>2. ASSUME NEW k \in 1..n PROVE p[k] = step[k][p[k - 1]]
    <3>1. 1..k \in SUBSET S /\ 1..k # {} /\ (1..k) \ {k} = 1..(k - 1)
      OBVIOUS
    <3>2. c[1..k] = k
      BY <3>1, <1>2, MaxOfInterval
    <3>3. g[1..k] = step[k][g[1..(k - 1)]]
      BY <3>1, <3>2, <1>5 DEF IsFold, FoldAt
    <3> QED
      BY <3>3
  <2> QED
    BY <2>1, <2>2 DEF IsChain
<1>9. \A h : IsFold(h, S, base, step, c) => h[S] = p[n]
  BY <1>6
<1> HIDE DEF p
<1> QED
  BY <1>5, <1>7, <1>8, <1>9 DEF c, HasFold, HasChain

\* What holds of the empty set and of every subset with one element more holds
\* of every subset of a finite set.
LEMMA SubsetInduction ==
    ASSUME NEW S, IsFiniteSet(S), NEW G, {} \in G,
           \A W \in SUBSET S, e \in S : e \notin W /\ W \in G => W \cup {e} \in G
    PROVE  SUBSET S \subseteq G
<1> DEFINE N == {n \in Nat : \A W \in SUBSET S : Cardinality(W) = n => W \in G}
<1>1. 0 \in N
  BY FS_EmptySet, FS_Subset
<1>2. ASSUME NEW n \in Nat, n \in N PROVE n + 1 \in N
  <2> SUFFICES ASSUME NEW W \in SUBSET S, Cardinality(W) = n + 1 PROVE W \in G
    OBVIOUS
  <2>1. IsFiniteSet(W)
    BY FS_Subset
  <2>2. PICK e \in W : TRUE
    BY <2>1, FS_EmptySet
  <2>3. Cardinality(W \ {e}) = n
    <3>1. Cardinality(W \ {e}) = Cardinality(W) - 1
      BY <2>1, <2>2, FS_RemoveElement
    <3> QED
      BY <3>1
  <2>4. W \ {e} \in G
    BY <2>3, <1>2
  <2>5. W = (W \ {e}) \cup {e}
    BY <2>2
  <2> QED
    BY <2>2, <2>4, <2>5
<1> HIDE DEF N
<1>3. Nat \subseteq N
  BY <1>1, <1>2, InductionSet
<1> QED
  BY <1>3, FS_Subset, FS_CardinalityType DEF N

\* The steps of a fold commute: any order of the elements gives the same.
Commute(step, S, V) ==
    \A a, b \in S, v \in V : step[a][step[b][v]] = step[b][step[a][v]]

\* Any element may be taken last.
AnyOrder(g, S, step) == \A W \in SUBSET S : \A e \in W : g[W] = step[e][g[W \ {e}]]

\* A fold whose steps commute may take any element last.
LEMMA FoldAnyOrder ==
    ASSUME NEW S, IsFiniteSet(S), NEW V, NEW base \in V, NEW step, NEW c,
           Chooses(c, S), Steps(step, S, V),
           Commute(step, S, V),
           NEW g \in [SUBSET S -> V], IsFold(g, S, base, step, c)
    PROVE  AnyOrder(g, S, step)
<1> DEFINE N == {n \in Nat : \A W \in SUBSET S : Cardinality(W) = n =>
                                \A e \in W : g[W] = step[e][g[W \ {e}]]}
<1>1. \A W \in SUBSET S :
         /\ Cardinality(W) \in Nat /\ (Cardinality(W) = 0 <=> W = {})
         /\ \A e \in W : Cardinality(W \ {e}) = Cardinality(W) - 1
  BY FS_Subset, FS_CardinalityType, FS_EmptySet, FS_RemoveElement
<1>2. \A W \in SUBSET S : W # {} => c[W] \in W /\ g[W] = step[c[W]][g[W \ {c[W]}]]
  BY DEF IsFold, FoldAt, Chooses
<1>3. 0 \in N
  BY <1>1
<1>4. ASSUME NEW n \in Nat, n \in N PROVE n + 1 \in N
  <2> SUFFICES ASSUME NEW W \in SUBSET S, Cardinality(W) = n + 1, NEW e \in W
               PROVE  g[W] = step[e][g[W \ {e}]]
    OBVIOUS
  <2> DEFINE d == c[W]
             A == W \ {d}
             B == W \ {e}
             R == A \ {e}
  <2>1. d \in W /\ g[W] = step[d][g[A]]
    BY <1>2
  <2>2. CASE d = e
    BY <2>1, <2>2
  <2>3. CASE d # e
    <3>1. /\ A \in SUBSET S /\ B \in SUBSET S /\ R \in SUBSET S /\ e \in A /\ d \in B
          /\ R = B \ {d} /\ Cardinality(A) = n /\ Cardinality(B) = n
          /\ d \in S /\ e \in S
      BY <1>1, <2>1, <2>3
    <3> HIDE DEF d, A, B
    <3>2. g[A] = step[e][g[R]] /\ g[B] = step[d][g[B \ {d}]]
      BY <1>4, <3>1
    <3>3. g[R] \in V
      BY <3>1
    <3> HIDE DEF R
    <3>4. step[d][step[e][g[R]]] = step[e][step[d][g[R]]]
      BY <3>1, <3>3 DEF Commute
    <3> QED
      BY <2>1, <3>1, <3>2, <3>4 DEF B
  <2> QED
    BY <2>2, <2>3
<1> HIDE DEF N
<1>5. Nat \subseteq N
  BY <1>3, <1>4, InductionSet
<1> QED
  BY <1>1, <1>5 DEF N, AnyOrder

\* The choice the folds over sets make.
AnyOf(S) == [W \in SUBSET S |-> CHOOSE e \in W : TRUE]

\* A fold over a set, any of whose elements may come last.
IsSetFold(g, S, V, base, step) ==
    /\ g \in [SUBSET S -> V] /\ IsFold(g, S, base, step, AnyOf(S))
    /\ g[{}] = base /\ AnyOrder(g, S, step)

\* The fold of a commuting step over a finite set exists.
LEMMA SetFold ==
    ASSUME NEW S, IsFiniteSet(S), NEW V, NEW base \in V, NEW step,
           Steps(step, S, V), Commute(step, S, V)
    PROVE  \E g : IsSetFold(g, S, V, base, step)
<1> DEFINE c == AnyOf(S)
<1>1. Chooses(c, S)
  BY DEF Chooses, AnyOf
<1> HIDE DEF c
<1>2. PICK g \in [SUBSET S -> V] : IsFold(g, S, base, step, c)
  BY <1>1, FoldExists
<1>3. AnyOrder(g, S, step)
  BY <1>1, <1>2, FoldAnyOrder
<1>4. g[{}] = base
  BY <1>2 DEF IsFold, FoldAt
<1>5. IsSetFold(g, S, V, base, step)
  BY <1>2, <1>3, <1>4 DEF IsSetFold, c
<1> QED
  BY <1>5

\* Every nonempty set of naturals from 1 on has a least member.
LEMMA MinOfInterval ==
    ASSUME NEW n \in Nat
    PROVE  /\ \A T \in SUBSET (1..n) : T # {} => Min(T) \in T
           /\ \A k \in 1..n : Min(k..n) = k
<1>1. ASSUME NEW T \in SUBSET (1..n), T # {} PROVE Min(T) \in T
  <2>1. PICK m \in T : \A e \in T : m <= e
    <3>1. T \in SUBSET Nat
      OBVIOUS
    <3> QED
      BY <1>1, <3>1, LeastNat
  <2> QED
    BY <2>1 DEF Min
<1>2. ASSUME NEW k \in 1..n PROVE Min(k..n) = k
  <2>1. \A e \in k..n : (\A y \in k..n : e <= y) <=> e = k
    OBVIOUS
  <2> QED
    BY <2>1 DEF Min
<1> QED
  BY <1>1, <1>2

\* The choice of FoldRight.
MinOf(n) == [T \in SUBSET (1..n) |-> Min(T)]

\* The partial results of a fold from the right end: p[k] folds k..n.
IsRightChain(p, n, base, step) ==
    p[n + 1] = base /\ \A k \in 1..n : p[k] = step[k][p[k + 1]]

\* The same two, from the right.
HasRightFold(n, V, base, step) ==
    \E g \in [SUBSET (1..n) -> V] : IsFold(g, 1..n, base, step, MinOf(n))

\* The chain of the folds from the right has its values.
HasRightChain(n, V, base, step) ==
    \E p \in [1..(n + 1) -> V] :
        /\ IsRightChain(p, n, base, step)
        /\ \A h : IsFold(h, 1..n, base, step, MinOf(n)) => h[1..n] = p[1]

\* A fold over 1..n that takes the first element last is the first of a chain
\* of values that starts at the end: FoldRight, one element at a time.
LEMMA FoldRightChain ==
    ASSUME NEW n \in Nat, NEW V, NEW base \in V, NEW step, SeqSteps(step, n, V)
    PROVE  HasRightFold(n, V, base, step) /\ HasRightChain(n, V, base, step)
<1> DEFINE S == 1..n
           c == MinOf(n)
<1>1. IsFiniteSet(S)
  BY FS_Interval
<1>2. \A T \in SUBSET S : c[T] = Min(T)
  BY DEF MinOf
<1>3. Chooses(c, S)
  BY <1>2, MinOfInterval DEF Chooses
<1>4. Steps(step, S, V)
  BY DEF SeqSteps, Steps
<1> HIDE DEF c
<1>5. PICK g \in [SUBSET S -> V] : IsFold(g, S, base, step, c)
  <2> HIDE DEF S
  <2> QED
    BY <1>1, <1>3, <1>4, FoldExists
<1>6. \A h : IsFold(h, S, base, step, c) => h[S] = g[S]
  <2> HIDE DEF S
  <2>1. S \in SUBSET S
    OBVIOUS
  <2> QED
    BY <1>1, <1>3, <1>5, <2>1, FoldUnique
<1> DEFINE p == [k \in 1..(n + 1) |-> g[k..n]]
<1>7. p \in [1..(n + 1) -> V]
  <2>1. \A k \in 1..(n + 1) : k..n \in SUBSET S
    OBVIOUS
  <2> QED
    BY <2>1, <1>5
<1>8. IsRightChain(p, n, base, step)
  <2>1. p[n + 1] = base
    <3>1. {} \in SUBSET S /\ (n + 1)..n = {} /\ n + 1 \in 1..(n + 1)
      OBVIOUS
    <3>2. g[{}] = base
      BY <1>5, <3>1 DEF IsFold, FoldAt
    <3> QED
      BY <3>1, <3>2
  <2>2. ASSUME NEW k \in 1..n PROVE p[k] = step[k][p[k + 1]]
    <3>1. k..n \in SUBSET S /\ k..n # {} /\ (k..n) \ {k} = (k + 1)..n
      OBVIOUS
    <3>2. c[k..n] = k
      BY <3>1, <1>2, MinOfInterval
    <3>3. g[k..n] = step[k][g[(k + 1)..n]]
      BY <3>1, <3>2, <1>5 DEF IsFold, FoldAt
    <3>4. k \in 1..(n + 1) /\ k + 1 \in 1..(n + 1)
      OBVIOUS
    <3> QED
      BY <3>3, <3>4
  <2> QED
    BY <2>1, <2>2 DEF IsRightChain
<1>9. p[1] = g[S]
  BY <1>7
<1>10. \A h : IsFold(h, S, base, step, c) => h[S] = p[1]
  BY <1>6, <1>9
<1> HIDE DEF p
<1> QED
  BY <1>5, <1>7, <1>8, <1>10 DEF c, HasRightFold, HasRightChain

-----------------------------------------------------------------------------
(* Sums over finite sets.                                                  *)

IntOn(f, S) == \A e \in S : f[e] \in Int

\* The sum of the empty set is 0, and any element may be added last.
IsSum(f, S) ==
    /\ SumFunctionOnSet(f, {}) = 0
    /\ \A W \in SUBSET S : SumFunctionOnSet(f, W) \in Int
    /\ \A W \in SUBSET S : \A e \in W :
          SumFunctionOnSet(f, W) = f[e] + SumFunctionOnSet(f, W \ {e})

\* SumFunctionOnSet is the sum.
LEMMA SumIsSum ==
    ASSUME NEW S, IsFiniteSet(S), NEW f, IntOn(f, S)
    PROVE  IsSum(f, S)
<1> DEFINE Iterates(h, W) == h = [s \in SUBSET W |->
               IF s = {} THEN 0
               ELSE f[CHOOSE e \in s : TRUE] + h[s \ {CHOOSE e \in s : TRUE}]]
           iter == [W \in SUBSET S |-> CHOOSE h : Iterates(h, W)]
           V == Int \cup UNION {{iter[W][s] : s \in SUBSET W} : W \in SUBSET S}
           step == [e \in S |-> [v \in V |-> f[e] + v]]
           c == AnyOf(S)
<1>1. \A W \in SUBSET S : SumFunctionOnSet(f, W) = iter[W][W]
  BY DEF SumFunctionOnSet, FoldFunctionOnSet, MapThenFoldSet
<1>2. \A W \in SUBSET S : iter[W] = CHOOSE h : Iterates(h, W)
  OBVIOUS
<1> HIDE DEF iter
<1>3. Int \subseteq V /\ \A W \in SUBSET S : \A s \in SUBSET W : iter[W][s] \in V
  OBVIOUS
<1> HIDE DEF V
<1>4. \A e \in S, v \in V : step[e][v] = f[e] + v
  OBVIOUS
<1> HIDE DEF step
<1>5. PICK g : IsSetFold(g, S, Int, 0, step)
  <2>1. Steps(step, S, Int)
    BY <1>3, <1>4 DEF Steps, IntOn
  <2>2. Commute(step, S, Int)
    <3> SUFFICES ASSUME NEW a \in S, NEW b \in S, NEW v \in Int
                 PROVE  step[a][step[b][v]] = step[b][step[a][v]]
      BY DEF Commute
    <3>1. f[a] \in Int /\ f[b] \in Int
      BY DEF IntOn
    <3>2. /\ step[a][v] = f[a] + v /\ step[b][v] = f[b] + v
          /\ f[a] + v \in V /\ f[b] + v \in V
      BY <1>3, <1>4, <3>1
    <3>3. step[a][f[b] + v] = f[a] + (f[b] + v) /\ step[b][f[a] + v] = f[b] + (f[a] + v)
      BY <1>4, <3>2
    <3> QED
      BY <3>1, <3>2, <3>3
  <2> QED
    BY <2>1, <2>2, SetFold
<1>6. g \in [SUBSET S -> Int] /\ IsFold(g, S, 0, step, c) /\ g[{}] = 0 /\ AnyOrder(g, S, step)
  BY <1>5 DEF IsSetFold
<1>7. Chooses(c, S) /\ \A s \in SUBSET S : c[s] = CHOOSE e \in s : TRUE
  BY DEF Chooses, AnyOf
<1> HIDE DEF c
<1>8. ASSUME NEW W \in SUBSET S PROVE SumFunctionOnSet(f, W) = g[W]
  <2> DEFINE r == [s \in SUBSET W |-> g[s]]
  <2>1. \A s \in SUBSET W : s # {} =>
           /\ c[s] \in s /\ c[s] = (CHOOSE e \in s : TRUE)
           /\ s \in SUBSET S /\ s \ {c[s]} \in SUBSET W /\ c[s] \in S
    BY <1>7 DEF Chooses
  <2>2. ASSUME NEW s \in SUBSET W, s # {} PROVE g[s] = f[c[s]] + g[s \ {c[s]}]
    <3>1. g[s] = step[c[s]][g[s \ {c[s]}]]
      BY <1>6, <2>1, <2>2 DEF IsFold, FoldAt
    <3>2. g[s \ {c[s]}] \in V /\ c[s] \in S
      BY <1>3, <1>6, <2>1, <2>2
    <3> QED
      BY <1>4, <3>1, <3>2
  <2>3. Iterates(r, W)
    <3>1. \A s \in SUBSET W :
             g[s] = IF s = {} THEN 0
                    ELSE f[CHOOSE e \in s : TRUE] + r[s \ {CHOOSE e \in s : TRUE}]
      BY <1>6, <2>1, <2>2
    <3> QED
      BY <3>1
  <2>4. Iterates(iter[W], W)
    <3> HIDE DEF Iterates, r
    <3> QED
      BY <1>2, <2>3
  <2>5. IsFold(iter[W], W, 0, step, c)
    <3> SUFFICES ASSUME NEW s \in SUBSET W PROVE iter[W][s] = FoldAt(iter[W], s, 0, step, c)
      BY DEF IsFold
    <3>1. CASE s = {}
      BY <2>4, <3>1 DEF FoldAt
    <3>2. CASE s # {}
      <4>1. iter[W][s] = f[c[s]] + iter[W][s \ {c[s]}]
        BY <2>1, <2>4, <3>2
      <4>2. iter[W][s \ {c[s]}] \in V /\ c[s] \in S
        BY <1>3, <2>1, <3>2
      <4>3. step[c[s]][iter[W][s \ {c[s]}]] = f[c[s]] + iter[W][s \ {c[s]}]
        BY <1>4, <4>2
      <4> QED
        BY <3>2, <4>1, <4>3 DEF FoldAt
    <3> QED
      BY <3>1, <3>2
  <2>6. iter[W][W] = g[W]
    <3> DEFINE h == iter[W]
    <3> HIDE DEF h, r, Iterates
    <3>1. IsFold(h, W, 0, step, c) /\ IsFold(g, S, 0, step, c) /\ Chooses(c, S)
      BY <1>6, <1>7, <2>5 DEF h
    <3>2. W \in SUBSET W
      OBVIOUS
    <3>3. h[W] = g[W]
      BY <3>1, <3>2, FoldUnique
    <3> QED
      BY <3>3 DEF h
  <2> QED
    BY <1>1, <2>6
<1>9. ASSUME NEW W \in SUBSET S, NEW e \in W
      PROVE  SumFunctionOnSet(f, W) = f[e] + SumFunctionOnSet(f, W \ {e})
  <2>1. W \ {e} \in SUBSET S /\ e \in S
    BY <1>9
  <2>2. g[W] = step[e][g[W \ {e}]] /\ g[W \ {e}] \in V
    BY <1>3, <1>6, <2>1 DEF AnyOrder
  <2> QED
    BY <1>4, <1>8, <2>1, <2>2
<1> QED
  BY <1>6, <1>8, <1>9 DEF IsSum

\* A sum depends only on the terms it adds.
LEMMA SumAgrees ==
    ASSUME NEW S, IsFiniteSet(S), NEW f, NEW g, IntOn(f, S), \A e \in S : f[e] = g[e]
    PROVE  SumFunctionOnSet(f, S) = SumFunctionOnSet(g, S)
<1> DEFINE G == {W \in SUBSET S : SumFunctionOnSet(f, W) = SumFunctionOnSet(g, W)}
<1>1. IntOn(g, S)
  BY DEF IntOn
<1>2. IsSum(f, S) /\ IsSum(g, S)
  BY <1>1, SumIsSum
<1>3. {} \in G
  BY <1>2 DEF IsSum
<1>4. ASSUME NEW W \in SUBSET S, NEW e \in S, e \notin W, W \in G PROVE W \cup {e} \in G
  <2> DEFINE X == W \cup {e}
  <2>1. X \in SUBSET S /\ e \in X /\ X \ {e} = W
    BY <1>4
  <2> HIDE DEF X
  <2>2. /\ SumFunctionOnSet(f, X) = f[e] + SumFunctionOnSet(f, W)
        /\ SumFunctionOnSet(g, X) = g[e] + SumFunctionOnSet(g, W)
    BY <1>2, <2>1 DEF IsSum
  <2>3. SumFunctionOnSet(f, X) = SumFunctionOnSet(g, X)
    BY <1>4, <2>2
  <2> QED
    BY <2>1, <2>3 DEF X
<1> HIDE DEF G
<1>5. SUBSET S \subseteq G
  BY <1>3, <1>4, SubsetInduction
<1> QED
  BY <1>5 DEF G

\* Sums follow their terms: linearly, and modulo any q (equality for q = 0).
LEMMA SumLinear ==
    ASSUME NEW S, IsFiniteSet(S), NEW q \in Int, NEW a \in Int, NEW b \in Int,
           NEW f, NEW g, NEW h, IntOn(f, S), IntOn(g, S), IntOn(h, S),
           \A e \in S : Cong(h[e], a * f[e] + b * g[e], q)
    PROVE  /\ SumFunctionOnSet(f, S) \in Int /\ SumFunctionOnSet(g, S) \in Int
           /\ SumFunctionOnSet(h, S) \in Int
           /\ Cong(SumFunctionOnSet(h, S),
                   a * SumFunctionOnSet(f, S) + b * SumFunctionOnSet(g, S), q)
<1> DEFINE sf(W) == SumFunctionOnSet(f, W)
           sg(W) == SumFunctionOnSet(g, W)
           sh(W) == SumFunctionOnSet(h, W)
           G == {W \in SUBSET S : Cong(sh(W), a * sf(W) + b * sg(W), q)}
<1>1. IsSum(f, S) /\ IsSum(g, S) /\ IsSum(h, S)
  BY SumIsSum
<1>2. \A W \in SUBSET S : sf(W) \in Int /\ sg(W) \in Int /\ sh(W) \in Int
  BY <1>1 DEF IsSum
<1>3. {} \in G
  <2>1. sf({}) = 0 /\ sg({}) = 0 /\ sh({}) = 0
    BY <1>1 DEF IsSum
  <2> HIDE DEF sf, sg, sh
  <2>2. a * 0 + b * 0 = 0 /\ Cong(0, 0, q)
    BY CongRefl
  <2> QED
    BY <2>1, <2>2
<1>4. ASSUME NEW W \in SUBSET S, NEW e \in S, e \notin W, W \in G PROVE W \cup {e} \in G
  <2> DEFINE X == W \cup {e}
  <2>1. X \in SUBSET S /\ e \in X /\ X \ {e} = W
    BY <1>4
  <2> HIDE DEF X
  <2>2. sf(X) = f[e] + sf(W) /\ sg(X) = g[e] + sg(W) /\ sh(X) = h[e] + sh(W)
    BY <1>1, <2>1 DEF IsSum
  <2> HIDE DEF sf, sg, sh
  <2>3. Cong(sh(W), a * sf(W) + b * sg(W), q)
    BY <1>4
  <2> HIDE DEF G
  <2>4. Cong(h[e], a * f[e] + b * g[e], q)
    OBVIOUS
  <2> DEFINE fe == f[e]  ge == g[e]  he == h[e]  fw == sf(W)  gw == sg(W)  hw == sh(W)
  <2>5. fe \in Int /\ ge \in Int /\ he \in Int /\ fw \in Int /\ gw \in Int /\ hw \in Int
    BY <1>2 DEF IntOn
  <2>6. Cong(hw, a * fw + b * gw, q) /\ Cong(he, a * fe + b * ge, q)
    BY <2>3, <2>4
  <2>7. sf(X) = fe + fw /\ sg(X) = ge + gw /\ sh(X) = he + hw
    BY <2>2
  <2> HIDE DEF fe, ge, he, fw, gw, hw
  <2>8. a * fw + b * gw \in Int /\ a * fe + b * ge \in Int
    BY <2>5
  <2>9. Cong(he + hw, (a * fe + b * ge) + (a * fw + b * gw), q)
    BY <2>5, <2>6, <2>8, CongAdd
  <2>10. (a * fe + b * ge) + (a * fw + b * gw) = a * (fe + fw) + b * (ge + gw)
    BY <2>5
  <2>11. Cong(sh(X), a * sf(X) + b * sg(X), q)
    BY <2>7, <2>9, <2>10
  <2> QED
    BY <2>1, <2>11 DEF X, G
<1> HIDE DEF G
<1>5. SUBSET S \subseteq G
  BY <1>3, <1>4, SubsetInduction
<1>6. S \in G
  BY <1>5
<1> QED
  BY <1>2, <1>6 DEF G

\* A sum of n terms between -B and B lies between -n*B and n*B.
LEMMA SumBound ==
    ASSUME NEW S, IsFiniteSet(S), NEW B \in Nat, NEW f,
           \A e \in S : f[e] \in Int /\ -B <= f[e] /\ f[e] <= B
    PROVE  /\ SumFunctionOnSet(f, S) \in Int
           /\ -(Cardinality(S) * B) <= SumFunctionOnSet(f, S)
           /\ SumFunctionOnSet(f, S) <= Cardinality(S) * B
<1> DEFINE s(W) == SumFunctionOnSet(f, W)
           n(W) == Cardinality(W)
           G == {W \in SUBSET S : -(n(W) * B) <= s(W) /\ s(W) <= n(W) * B}
<1>1. IsSum(f, S)
  BY SumIsSum DEF IntOn
<1>2. \A W \in SUBSET S : s(W) \in Int /\ n(W) \in Nat
  BY <1>1, FS_Subset, FS_CardinalityType DEF IsSum
<1>3. {} \in G
  <2>1. s({}) = 0 /\ n({}) = 0
    BY <1>1, FS_EmptySet DEF IsSum
  <2> HIDE DEF s, n
  <2> QED
    BY <2>1
<1>4. ASSUME NEW W \in SUBSET S, NEW e \in S, e \notin W, W \in G PROVE W \cup {e} \in G
  <2> DEFINE X == W \cup {e}
  <2>1. X \in SUBSET S /\ e \in X /\ X \ {e} = W
    BY <1>4
  <2>2. n(X) = n(W) + 1
    <3>1. IsFiniteSet(W)
      BY FS_Subset
    <3> QED
      BY <1>4, <3>1, FS_AddElement
  <2> HIDE DEF X
  <2>3. s(X) = f[e] + s(W)
    BY <1>1, <2>1 DEF IsSum
  <2> HIDE DEF s, n
  <2>4. -(n(W) * B) <= s(W) /\ s(W) <= n(W) * B
    BY <1>4
  <2>5. f[e] \in Int /\ -B <= f[e] /\ f[e] <= B
    OBVIOUS
  <2> DEFINE nb == n(W) * B  fe == f[e]  sw == s(W)
  <2>6. n(X) * B = nb + B /\ nb \in Int /\ sw \in Int
    BY <1>2, <2>2
  <2>7. -nb <= sw /\ sw <= nb /\ fe \in Int /\ -B <= fe /\ fe <= B /\ s(X) = fe + sw
    BY <2>3, <2>4, <2>5
  <2> HIDE DEF nb, fe, sw
  <2>8. -(nb + B) <= fe + sw /\ fe + sw <= nb + B
    BY <2>6, <2>7
  <2>9. -(n(X) * B) <= s(X) /\ s(X) <= n(X) * B
    BY <2>6, <2>7, <2>8
  <2> QED
    BY <2>1, <2>9 DEF X
<1> HIDE DEF G
<1>5. S \in G
  <2>1. SUBSET S \subseteq G
    BY <1>3, <1>4, SubsetInduction
  <2> QED
    BY <2>1
<1> QED
  BY <1>2, <1>5 DEF G

-----------------------------------------------------------------------------
(* Primes.                                                                 *)

IsPrime(p) == p \in Nat /\ p > 1 /\ \A d \in 2..(p - 1) : p % d # 0

\* What a prime does not divide has an inverse modulo it.
LEMMA PrimeUnit ==
    ASSUME NEW p, IsPrime(p), NEW a \in Int, a % p # 0
    PROVE  IsUnit(a, p)
<1> DEFINE Mix(z) == \E u \in Int, v \in Int : z = u * a + v * p
           D == {z \in Nat : z > 0 /\ Mix(z)}
<1>1. p \in Nat /\ p > 1 /\ \A d \in 2..(p - 1) : p % d # 0
  BY DEF IsPrime
<1>m. Mix(p) /\ Mix(a)
  <2> HIDE DEF D
  <2>1. p = 0 * a + 1 * p /\ a = 1 * a + 0 * p /\ 0 \in Int /\ 1 \in Int
    BY <1>1
  <2> QED
    BY <2>1, Zenon
<1>2. p \in D
  <2> HIDE DEF Mix
  <2> QED
    BY <1>1, <1>m
<1>3. PICK d \in D : \A e \in D : d <= e
  <2>1. D \in SUBSET Nat /\ D # {}
    BY <1>2
  <2> HIDE DEF D
  <2> QED
    BY <2>1, LeastNat
<1>4. d \in Nat /\ d > 0 /\ Mix(d)
  OBVIOUS
<1>5. PICK u \in Int, v \in Int : d = u * a + v * p
  BY <1>4
<1>6. ASSUME NEW z \in Int, Mix(z) PROVE z % d = 0
  <2>0. PICK s \in Int, t \in Int : z = s * a + t * p
    BY <1>6
  <2> DEFINE k == z \div d
             r == z % d
  <2>1. k \in Int /\ r \in 0..(d - 1) /\ z = k * d + r
    BY <1>4, Quotient
  <2> HIDE DEF k, r
  <2>2. r = (s - k * u) * a + (t - k * v) * p
    <3>1. k * (u * a + v * p) = (k * u) * a + (k * v) * p
      BY <1>1, <1>5, <2>1
    <3>2. r = (s * a + t * p) - ((k * u) * a + (k * v) * p)
      BY <1>4, <1>5, <2>0, <2>1, <3>1
    <3>3. k * u \in Int /\ k * v \in Int
      BY <2>1
    <3> DEFINE ku == k * u  kv == k * v
    <3>4. ku \in Int /\ kv \in Int /\ r = (s * a + t * p) - (ku * a + kv * p)
      BY <3>2, <3>3
    <3> HIDE DEF ku, kv
    <3>5. r = (s - ku) * a + (t - kv) * p
      BY <1>1, <3>4
    <3> QED
      BY <3>5 DEF ku, kv
  <2>3. s - k * u \in Int /\ t - k * v \in Int
    BY <2>1
  <2>4. Mix(r)
    BY <2>2, <2>3
  <2> HIDE DEF Mix
  <2>5. r > 0 => r \in D
    BY <2>1, <2>4
  <2> HIDE DEF D
  <2>6. ~(r > 0)
    BY <1>3, <1>4, <2>1, <2>5
  <2> QED
    BY <2>1, <2>6 DEF r
<1>7. p % d = 0
  <2> HIDE DEF Mix
  <2> QED
    BY <1>1, <1>6, <1>m
<1>8. a % d = 0
  <2> HIDE DEF Mix
  <2> QED
    BY <1>6, <1>m
<1>9. d <= p
  BY <1>2, <1>3
<1>10. d = 1
  <2>1. d # p
    BY <1>8
  <2>2. ~(d \in 2..(p - 1))
    BY <1>1, <1>7
  <2> QED
    BY <1>1, <1>4, <1>9, <2>1, <2>2
<1>11. a * u = 1 + (0 - v) * p
  BY <1>1, <1>5, <1>10
<1>12. Cong(a * u, 1, p)
  BY <1>11 DEF Cong
<1> QED
  BY <1>12 DEF IsUnit

-----------------------------------------------------------------------------
(* Powers, products and Fermat's little theorem.                           *)

\* f is the sequence of values that starts with base and goes on by the steps.
IsIteration(f, V, base, step) ==
    f \in [Nat -> V] /\ f[0] = base /\ \A n \in Nat : f[n + 1] = step[n + 1][f[n]]

\* Recursion over the natural numbers.
LEMMA Iteration ==
    ASSUME NEW V, NEW base \in V, NEW step, \A n \in Nat, v \in V : step[n + 1][v] \in V
    PROVE  \E f : IsIteration(f, V, base, step)
<1> DEFINE Part(p, n) == p \in [0..n -> V] /\ IsChain(p, n, base, step)
           part == [n \in Nat |-> CHOOSE p : Part(p, n)]
           f == [n \in Nat |-> part[n][n]]
<1>1. \A n \in Nat : \E p : Part(p, n)
  <2> TAKE n \in Nat
  <2>1. \A k \in 1..n : k - 1 \in Nat /\ (k - 1) + 1 = k
    OBVIOUS
  <2>2. SeqSteps(step, n, V)
    BY <2>1 DEF SeqSteps
  <2> QED
    BY <2>2, FoldLeftChain DEF HasChain
<1>2. \A n \in Nat : Part(part[n], n)
  <2> TAKE n \in Nat
  <2>1. part[n] = CHOOSE p : Part(p, n)
    OBVIOUS
  <2> HIDE DEF Part, part
  <2> QED
    BY <1>1, <2>1
<1> HIDE DEF part
<1>3. ASSUME NEW n \in Nat PROVE \A k \in 0..n : part[n + 1][k] = part[n][k]
  <2> DEFINE p == part[n + 1]  r == part[n]
             G == {k \in Nat : k <= n => p[k] = r[k]}
  <2>1. Part(p, n + 1) /\ Part(r, n)
    BY <1>2
  <2> HIDE DEF p, r
  <2>2. 0 \in G
    BY <2>1 DEF IsChain
  <2>3. ASSUME NEW k \in Nat, k \in G PROVE k + 1 \in G
    <3>1. SUFFICES ASSUME k + 1 <= n PROVE p[k + 1] = r[k + 1]
      OBVIOUS
    <3>2. k + 1 \in 1..n /\ k + 1 \in 1..(n + 1) /\ (k + 1) - 1 = k /\ p[k] = r[k]
      BY <2>3, <3>1
    <3>3. p[k + 1] = step[k + 1][p[k]]
      BY <2>1, <3>2 DEF IsChain
    <3>4. r[k + 1] = step[k + 1][r[k]]
      BY <2>1, <3>2 DEF IsChain
    <3> QED
      BY <3>2, <3>3, <3>4
  <2> HIDE DEF G
  <2>4. Nat \subseteq G
    BY <2>2, <2>3, InductionSet
  <2> QED
    BY <2>4 DEF G, p, r
<1>4. f \in [Nat -> V]
  BY <1>2
<1>5. f[0] = base
  BY <1>2 DEF IsChain
<1>6. ASSUME NEW n \in Nat PROVE f[n + 1] = step[n + 1][f[n]]
  <2>1. n + 1 \in Nat /\ n + 1 \in 1..(n + 1) /\ (n + 1) - 1 = n /\ n \in 0..n
    OBVIOUS
  <2>2. part[n + 1][n + 1] = step[n + 1][part[n + 1][n]]
    BY <1>2, <2>1 DEF IsChain
  <2>3. part[n + 1][n] = part[n][n]
    BY <1>3, <2>1
  <2> QED
    BY <2>1, <2>2, <2>3
<1> HIDE DEF f
<1>7. IsIteration(f, V, base, step)
  BY <1>4, <1>5, <1>6 DEF IsIteration
<1> QED
  BY <1>7

\* The powers of b modulo q.
IsPowersMod(pw, b, q) ==
    /\ pw \in [Nat -> 0..(q - 1)] /\ pw[0] = 1
    /\ \A n \in Nat : pw[n + 1] = (pw[n] * b) % q

\* Powers modulo q exist.
LEMMA PowersModExist ==
    ASSUME NEW q \in Nat, q > 1, NEW b \in Int
    PROVE  \E pw : IsPowersMod(pw, b, q)
<1> DEFINE V == 0..(q - 1)
           step == [n \in Nat |-> [v \in V |-> (v * b) % q]]
<1>1. \A n \in Nat, v \in V : step[n + 1][v] = (v * b) % q /\ (v * b) % q \in V
  <2> TAKE n \in Nat, v \in V
  <2>1. v * b \in Int /\ q > 0
    OBVIOUS
  <2>2. (v * b) % q \in V
    BY <2>1, Quotient
  <2> QED
    BY <2>2
<1>2. 1 \in V
  OBVIOUS
<1> HIDE DEF step
<1>3. PICK f : IsIteration(f, V, 1, step)
  <2> HIDE DEF V
  <2> QED
    BY <1>1, <1>2, Iteration
<1>4. IsPowersMod(f, b, q)
  BY <1>1, <1>3 DEF IsPowersMod, IsIteration
<1> QED
  BY <1>4

\* A remainder may be taken of an operand first.
LEMMA ModAbsorb ==
    ASSUME NEW a \in Int, NEW b \in Int, NEW q \in Nat, q > 0
    PROVE  /\ a % q \in 0..(q - 1)
           /\ ((a % q) * b) % q = (a * b) % q /\ (a * (b % q)) % q = (a * b) % q
           /\ ((a % q) + b) % q = (a + b) % q /\ (a + (b % q)) % q = (a + b) % q
           /\ ((a % q) - b) % q = (a - b) % q /\ (a - (b % q)) % q = (a - b) % q
<1> DEFINE ra == a % q  rb == b % q
<1>1. ra \in 0..(q - 1) /\ rb \in 0..(q - 1) /\ Cong(ra, a, q) /\ Cong(rb, b, q)
  BY CongOfMod
<1> HIDE DEF ra, rb
<1>2. ra \in Int /\ rb \in Int /\ q \in Int /\ Cong(a, a, q) /\ Cong(b, b, q)
  BY <1>1, CongRefl
<1>3. Cong(ra + b, a + b, q) /\ Cong(ra - b, a - b, q) /\ Cong(ra * b, a * b, q)
  BY <1>1, <1>2, CongAdd
<1>4. Cong(a + rb, a + b, q) /\ Cong(a - rb, a - b, q) /\ Cong(a * rb, a * b, q)
  BY <1>1, <1>2, CongAdd
<1> DEFINE pa == ra * b  pb == a * rb  pab == a * b
<1>5. pa \in Int /\ pb \in Int /\ pab \in Int
  BY <1>2
<1>6. Cong(pa, pab, q) /\ Cong(pb, pab, q)
  BY <1>3, <1>4
<1> HIDE DEF pa, pb, pab
<1>7. pa % q = pab % q /\ pb % q = pab % q
  BY <1>5, <1>6, CongIff
<1>8. (ra + b) % q = (a + b) % q /\ (a + rb) % q = (a + b) % q
  BY <1>2, <1>3, <1>4, CongIff
<1>9. (ra - b) % q = (a - b) % q /\ (a - rb) % q = (a - b) % q
  BY <1>2, <1>3, <1>4, CongIff
<1> QED
  BY <1>1, <1>7, <1>8, <1>9 DEF ra, rb, pa, pb, pab

\* A power is a power of the square, times the base when the exponent is odd.
LEMMA PowerHalves ==
    ASSUME NEW q \in Nat, q > 1, NEW b \in Int,
           NEW pw, IsPowersMod(pw, b, q),
           NEW sq, IsPowersMod(sq, (b * b) % q, q), NEW n \in Nat
    PROVE  pw[n] = ((IF n % 2 = 1 THEN b ELSE 1) * sq[n \div 2]) % q
<1> DEFINE c == (b * b) % q
           bb == b * b
           G == {k \in Nat : pw[2 * k] = sq[k]}
<1>0. q > 0 /\ c \in Int /\ bb \in Int /\ c = bb % q
  <2>1. q > 0 /\ bb \in Int /\ c = bb % q
    OBVIOUS
  <2> HIDE DEF bb, c
  <2>2. c \in 0..(q - 1)
    BY <2>1, ModAbsorb
  <2> QED
    BY <2>1, <2>2
<1>1. /\ pw[0] = 1 /\ sq[0] = 1
      /\ \A k \in Nat : pw[k] \in 0..(q - 1) /\ pw[k + 1] = (pw[k] * b) % q
      /\ \A k \in Nat : sq[k] \in 0..(q - 1) /\ sq[k + 1] = (sq[k] * c) % q
  BY DEF IsPowersMod
<1> HIDE DEF c
<1>2. 0 \in G
  BY <1>1
<1>3. ASSUME NEW k \in Nat, k \in G PROVE k + 1 \in G
  <2>1. 2 * k \in Nat /\ 2 * k + 1 \in Nat /\ 2 * (k + 1) = (2 * k + 1) + 1
    OBVIOUS
  <2> DEFINE m == 2 * k  u == pw[m]  ub == u * b
  <2>2. pw[m + 1] = ub % q /\ pw[(m + 1) + 1] = (pw[m + 1] * b) % q
    BY <1>1, <2>1
  <2>3. u \in Int /\ ub \in Int
    BY <1>1, <2>1
  <2>31. u = sq[k]
    BY <1>3
  <2> HIDE DEF m, u
  <2>4. ub * b = u * bb
    BY <2>3
  <2> HIDE DEF ub, bb
  <2>5. sq[k + 1] = (sq[k] * c) % q
    BY <1>1
  <2>6. ((ub % q) * b) % q = (ub * b) % q
    BY <1>0, <2>3, ModAbsorb
  <2>7. (u * (bb % q)) % q = (u * bb) % q
    <3>1. u \in Int /\ bb \in Int /\ q \in Nat /\ q > 0
      BY <1>0, <2>3
    <3> QED
      BY <3>1, ModAbsorb
  <2>8. pw[(m + 1) + 1] = sq[k + 1]
    BY <2>2, <2>31, <2>4, <2>5, <2>6, <2>7, <1>0
  <2> QED
    BY <2>1, <2>8 DEF m
<1> HIDE DEF G
<1>4. Nat \subseteq G
  BY <1>2, <1>3, InductionSet
<1> DEFINE h == n \div 2
<1>5. h \in Nat /\ (n % 2 = 0 \/ n % 2 = 1) /\ n = 2 * h + (n % 2)
  OBVIOUS
<1> HIDE DEF h
<1>6. pw[2 * h] = sq[h] /\ sq[h] \in 0..(q - 1)
  BY <1>4, <1>5, <1>1 DEF G
<1>7. CASE n % 2 = 0
  <2>1. n = 2 * h /\ 1 * sq[h] = sq[h]
    BY <1>5, <1>6, <1>7
  <2>2. sq[h] % q = sq[h]
    BY <1>0, <1>6
  <2> QED
    BY <2>1, <2>2, <1>6, <1>7 DEF h
<1>8. CASE n % 2 = 1
  <2>1. n = 2 * h + 1 /\ 2 * h \in Nat
    BY <1>5, <1>8
  <2>2. pw[n] = (pw[2 * h] * b) % q
    BY <1>1, <2>1
  <2>3. sq[h] * b = b * sq[h]
    BY <1>6
  <2> QED
    BY <1>6, <2>2, <2>3, <1>8 DEF h
<1> QED
  BY <1>5, <1>7, <1>8

\* The product of the factors f[e] modulo q, for every subset of S.
IsProductMod(g, S, f, q) ==
    /\ g \in [SUBSET S -> 0..(q - 1)] /\ g[{}] = 1
    /\ \A W \in SUBSET S : \A e \in W : g[W] = (g[W \ {e}] * f[e]) % q

\* Products modulo q over a finite set exist.
LEMMA ProductModExists ==
    ASSUME NEW q \in Nat, q > 1, NEW S, IsFiniteSet(S), NEW f, IntOn(f, S)
    PROVE  \E g : IsProductMod(g, S, f, q)
<1> DEFINE V == 0..(q - 1)
           step == [e \in S |-> [v \in V |-> (v * f[e]) % q]]
<1>1. \A e \in S : f[e] \in Int
  BY DEF IntOn
<1>2. \A e \in S, v \in V : step[e][v] = (v * f[e]) % q /\ (v * f[e]) % q \in V
  <2> TAKE e \in S, v \in V
  <2>1. v * f[e] \in Int /\ q > 0
    BY <1>1
  <2>2. (v * f[e]) % q \in V
    BY <2>1, Quotient
  <2> QED
    BY <2>2
<1> HIDE DEF step
<1>3. Steps(step, S, V)
  BY <1>2 DEF Steps
<1>4. Commute(step, S, V)
  <2> SUFFICES ASSUME NEW a \in S, NEW b \in S, NEW v \in V
               PROVE  step[a][step[b][v]] = step[b][step[a][v]]
    BY DEF Commute
  <2> DEFINE fa == f[a]  fb == f[b]  va == v * fa  vb == v * fb
  <2>1. q > 0 /\ v \in Int /\ fa \in Int /\ fb \in Int
    BY <1>1
  <2>2. va \in Int /\ vb \in Int /\ vb * fa = va * fb
    BY <2>1
  <2>3. step[a][v] = va % q /\ step[b][v] = vb % q /\ va % q \in V /\ vb % q \in V
    BY <1>2
  <2>4. step[a][step[b][v]] = ((vb % q) * fa) % q /\ step[b][step[a][v]] = ((va % q) * fb) % q
    BY <1>2, <2>3
  <2> HIDE DEF fa, fb, va, vb
  <2>5. ((vb % q) * fa) % q = (vb * fa) % q /\ ((va % q) * fb) % q = (va * fb) % q
    BY <2>1, <2>2, ModAbsorb
  <2> QED
    BY <2>2, <2>4, <2>5
<1>5. 1 \in V
  OBVIOUS
<1>6. PICK g : IsSetFold(g, S, V, 1, step)
  <2> HIDE DEF V
  <2> QED
    BY <1>3, <1>4, <1>5, SetFold
<1>7. \A W \in SUBSET S : \A e \in W : g[W] = (g[W \ {e}] * f[e]) % q
  <2> TAKE W \in SUBSET S
  <2> TAKE e \in W
  <2>1. W \ {e} \in SUBSET S /\ e \in S
    OBVIOUS
  <2>2. g[W \ {e}] \in V
    BY <1>6, <2>1 DEF IsSetFold
  <2>3. g[W] = step[e][g[W \ {e}]]
    BY <1>6 DEF IsSetFold, AnyOrder
  <2> QED
    BY <1>2, <2>1, <2>2, <2>3
<1>8. IsProductMod(g, S, f, q)
  BY <1>6, <1>7 DEF IsProductMod, IsSetFold
<1> QED
  BY <1>8

\* One factor more.
LEMMA ProductModAdds ==
    ASSUME NEW q \in Nat, NEW S, NEW f, NEW g, IsProductMod(g, S, f, q)
    PROVE  \A W \in SUBSET S :
               /\ g[W] \in 0..(q - 1) /\ g[W] \in Int
               /\ \A e \in S : e \notin W => g[W \cup {e}] = (g[W] * f[e]) % q
<1> SUFFICES ASSUME NEW W \in SUBSET S
             PROVE  /\ g[W] \in 0..(q - 1) /\ g[W] \in Int
                    /\ \A e \in S : e \notin W => g[W \cup {e}] = (g[W] * f[e]) % q
  OBVIOUS
<1>0. g[W] \in 0..(q - 1) /\ g[W] \in Int
  BY DEF IsProductMod
<1> SUFFICES ASSUME NEW e \in S, e \notin W PROVE g[W \cup {e}] = (g[W] * f[e]) % q
  BY <1>0
<1> DEFINE X == W \cup {e}
<1>1. X \in SUBSET S /\ e \in X /\ X \ {e} = W
  OBVIOUS
<1> HIDE DEF X
<1>2. g[X] = (g[X \ {e}] * f[e]) % q
  BY <1>1 DEF IsProductMod
<1> QED
  BY <1>1, <1>2 DEF X, IsProductMod

\* A product of units is a unit.
LEMMA ProductModUnit ==
    ASSUME NEW q \in Nat, q > 1, NEW S, IsFiniteSet(S), NEW f, IntOn(f, S),
           \A e \in S : IsUnit(f[e], q),
           NEW g, IsProductMod(g, S, f, q)
    PROVE  \A W \in SUBSET S : IsUnit(g[W], q)
<1> DEFINE G == {W \in SUBSET S : IsUnit(g[W], q)}
<1>0. \A W \in SUBSET S :
         /\ g[W] \in Int
         /\ \A e \in S : e \notin W => g[W \cup {e}] = (g[W] * f[e]) % q
  BY ProductModAdds
<1>1. {} \in G
  <2>1. 1 \in Int /\ 1 * 1 = 1 /\ Cong(1, 1, q)
    BY CongRefl
  <2>2. IsUnit(1, q)
    BY <2>1 DEF IsUnit
  <2> QED
    BY <2>2 DEF IsProductMod
<1>2. ASSUME NEW W \in SUBSET S, NEW e \in S, e \notin W, W \in G PROVE W \cup {e} \in G
  <2> DEFINE u == g[W]  v == f[e]  X == W \cup {e}
  <2>1. u \in Int /\ v \in Int /\ IsUnit(u, q) /\ IsUnit(v, q) /\ X \in SUBSET S
    BY <1>0, <1>2 DEF IntOn
  <2>2. g[X] = (u * v) % q
    BY <1>0, <1>2
  <2> HIDE DEF u, v, X
  <2>3. IsUnit(u * v, q)
    BY <2>1, UnitProduct
  <2> DEFINE uv == u * v
  <2>4. uv \in Int /\ q > 0 /\ IsUnit(uv, q) /\ g[X] = uv % q
    BY <2>1, <2>2, <2>3
  <2> HIDE DEF uv
  <2>5. IsUnit(g[X], q)
    BY <2>4, UnitOfRemainder
  <2> QED
    BY <2>1, <2>5 DEF X
<1> HIDE DEF G
<1>3. SUBSET S \subseteq G
  BY <1>1, <1>2, SubsetInduction
<1> QED
  BY <1>3 DEF G

\* The product over the image of an injection is the product of its values.
LEMMA ProductModReindex ==
    ASSUME NEW q \in Nat, q > 1, NEW S, IsFiniteSet(S),
           NEW h \in [S -> S], \A k, l \in S : h[k] = h[l] => k = l,
           NEW f, IntOn(f, S), NEW fh, \A k \in S : fh[k] = f[h[k]],
           NEW g, IsProductMod(g, S, f, q),
           NEW gh, IsProductMod(gh, S, fh, q)
    PROVE  gh[S] = g[{h[k] : k \in S}]
<1> DEFINE G == {W \in SUBSET S : gh[W] = g[{h[k] : k \in W}]}
<1>0. \A W \in SUBSET S : \A e \in S : e \notin W =>
         /\ g[W \cup {e}] = (g[W] * f[e]) % q
         /\ gh[W \cup {e}] = (gh[W] * fh[e]) % q
  <2> HIDE DEF G
  <2>1. \A W \in SUBSET S : \A e \in S : e \notin W => g[W \cup {e}] = (g[W] * f[e]) % q
    BY ProductModAdds
  <2>2. \A W \in SUBSET S : \A e \in S : e \notin W => gh[W \cup {e}] = (gh[W] * fh[e]) % q
    BY ProductModAdds
  <2> QED
    BY <2>1, <2>2
<1>1. {} \in G
  <2>1. gh[{}] = 1 /\ g[{}] = 1
    BY DEF IsProductMod
  <2>2. {h[k] : k \in {}} = {}
    OBVIOUS
  <2>3. {} \in SUBSET S
    OBVIOUS
  <2> QED
    BY <2>1, <2>2, <2>3
<1>2. ASSUME NEW W \in SUBSET S, NEW e \in S, e \notin W, W \in G PROVE W \cup {e} \in G
  <2> DEFINE X == W \cup {e}
             I == {h[k] : k \in W}
  <2>1. X \in SUBSET S /\ I \in SUBSET S /\ h[e] \in S /\ h[e] \notin I
        /\ {h[k] : k \in X} = I \cup {h[e]} /\ gh[W] = g[I]
    BY <1>2
  <2> HIDE DEF I
  <2>2. gh[X] = (gh[W] * fh[e]) % q
    BY <1>0, <1>2
  <2> HIDE DEF X
  <2>3. g[I \cup {h[e]}] = (g[I] * f[h[e]]) % q
    BY <1>0, <2>1
  <2>4. gh[X] = g[{h[k] : k \in X}]
    BY <2>1, <2>2, <2>3
  <2> QED
    BY <2>1, <2>4 DEF X
<1> HIDE DEF G
<1>3. SUBSET S \subseteq G
  BY <1>1, <1>2, SubsetInduction
<1> QED
  BY <1>3 DEF G

\* A common factor of every factor comes out as a power.
LEMMA ProductModScales ==
    ASSUME NEW q \in Nat, q > 1, NEW S, IsFiniteSet(S), NEW a \in Int,
           NEW f, IntOn(f, S), NEW fh, \A k \in S : fh[k] = (a * f[k]) % q,
           NEW pw, IsPowersMod(pw, a, q),
           NEW g, IsProductMod(g, S, f, q),
           NEW gh, IsProductMod(gh, S, fh, q)
    PROVE  gh[S] = (pw[Cardinality(S)] * g[S]) % q
<1> DEFINE G == {W \in SUBSET S : gh[W] = (pw[Cardinality(W)] * g[W]) % q}
<1>0. q > 0 /\ q \in Int
  OBVIOUS
<1>a. \A W \in SUBSET S :
         /\ g[W] \in Int /\ gh[W] \in Int
         /\ \A e \in S : e \notin W =>
               /\ g[W \cup {e}] = (g[W] * f[e]) % q
               /\ gh[W \cup {e}] = (gh[W] * fh[e]) % q
  <2> HIDE DEF G
  <2>1. \A W \in SUBSET S :
           g[W] \in Int /\ \A e \in S : e \notin W => g[W \cup {e}] = (g[W] * f[e]) % q
    BY ProductModAdds
  <2>2. \A W \in SUBSET S :
           gh[W] \in Int /\ \A e \in S : e \notin W => gh[W \cup {e}] = (gh[W] * fh[e]) % q
    BY ProductModAdds
  <2> QED
    BY <2>1, <2>2
<1>1. {} \in G
  <2>1. (1 * 1) % q = 1
    OBVIOUS
  <2> QED
    BY <2>1, FS_EmptySet DEF IsProductMod, IsPowersMod
<1>2. ASSUME NEW W \in SUBSET S, NEW e \in S, e \notin W, W \in G PROVE W \cup {e} \in G
  <2> DEFINE X == W \cup {e}  n == Cardinality(W)
             P == pw[n]  u == g[W]  v == f[e]
             Pu == P * u  av == a * v  Pa == P * a  uv == u * v
  <2>1. X \in SUBSET S /\ IsFiniteSet(W) /\ n \in Nat /\ Cardinality(X) = n + 1
    BY <1>2, FS_Subset, FS_CardinalityType, FS_AddElement
  <2>2. gh[W] = Pu % q
    BY <1>2
  <2>3. gh[X] = (gh[W] * (av % q)) % q
    BY <1>a, <1>2
  <2>4. g[X] = uv % q /\ u \in Int
    BY <1>a, <1>2
  <2>5. v \in Int
    BY DEF IntOn
  <2> HIDE DEF X, n
  <2>6. pw[n + 1] = Pa % q /\ P \in Int
    BY <2>1 DEF IsPowersMod
  <2> HIDE DEF P, u, v
  <2>7. Pu \in Int /\ av \in Int /\ Pa \in Int /\ uv \in Int
    BY <2>4, <2>5, <2>6
  <2>8. Pu * av = Pa * uv
    BY <2>4, <2>5, <2>6
  <2> HIDE DEF Pu, av, Pa, uv
  <2>9. (Pu % q) \in Int /\ (Pa % q) \in Int
    BY <1>0, <2>7, ModAbsorb
  <2>10. ((Pu % q) * (av % q)) % q = (Pu * av) % q
    <3>1. ((Pu % q) * (av % q)) % q = ((Pu % q) * av) % q
      BY <1>0, <2>7, <2>9, ModAbsorb
    <3>2. ((Pu % q) * av) % q = (Pu * av) % q
      BY <1>0, <2>7, ModAbsorb
    <3> QED
      BY <3>1, <3>2
  <2>11. ((Pa % q) * (uv % q)) % q = (Pa * uv) % q
    <3>1. ((Pa % q) * (uv % q)) % q = ((Pa % q) * uv) % q
      BY <1>0, <2>7, <2>9, ModAbsorb
    <3>2. ((Pa % q) * uv) % q = (Pa * uv) % q
      BY <1>0, <2>7, ModAbsorb
    <3> QED
      BY <3>1, <3>2
  <2>12. gh[X] = (pw[Cardinality(X)] * g[X]) % q
    BY <2>1, <2>2, <2>3, <2>4, <2>6, <2>8, <2>10, <2>11
  <2> QED
    BY <2>1, <2>12 DEF X
<1> HIDE DEF G
<1>3. SUBSET S \subseteq G
  BY <1>1, <1>2, SubsetInduction
<1> QED
  BY <1>3 DEF G

\* Fermat's little theorem: the power p - 1 of what the prime p does not
\* divide is 1.
LEMMA Fermat ==
    ASSUME NEW p, IsPrime(p), NEW a \in Int, a % p # 0,
           NEW pw, IsPowersMod(pw, a, p)
    PROVE  pw[p - 1] = 1
<1> DEFINE S == 1..(p - 1)
           f == [k \in S |-> k]
           h == [k \in S |-> (a * k) % p]
<1>1. p \in Nat /\ p > 1 /\ p > 0 /\ p \in Int /\ p - 1 \in Nat
  BY DEF IsPrime
<1>2. IsFiniteSet(S) /\ Cardinality(S) = p - 1
  <2>1. 1 \in Int /\ p - 1 \in Int /\ ~(1 > p - 1) /\ (p - 1) - 1 + 1 = p - 1
    BY <1>1
  <2> QED
    BY <2>1, FS_Interval
<1>3. IntOn(f, S) /\ IntOn(h, S)
  <2>1. \A k \in S : h[k] \in Int
    <3> TAKE k \in S
    <3>1. a * k \in Int
      BY <1>1
    <3>2. (a * k) % p \in 0..(p - 1)
      BY <1>1, <3>1, Quotient
    <3> QED
      BY <3>2
  <2> QED
    BY <2>1 DEF IntOn
<1>4. IsUnit(a, p)
  BY PrimeUnit
<1>5. \A k \in S : IsUnit(k, p)
  <2> TAKE k \in S
  <2>1. k \in Int /\ k % p = k /\ k # 0
    BY <1>1
  <2> QED
    BY <2>1, PrimeUnit
<1>6. h \in [S -> S]
  <2> SUFFICES ASSUME NEW k \in S PROVE (a * k) % p \in S
    OBVIOUS
  <2> DEFINE ak == a * k
  <2>1. k \in Int /\ ak \in Int
    BY <1>1
  <2>2. IsUnit(ak, p)
    BY <1>4, <1>5, <1>1, <2>1, UnitProduct
  <2> HIDE DEF ak
  <2>3. ak % p # 0
    BY <1>1, <2>1, <2>2, UnitNonzero
  <2>4. ak % p \in 0..(p - 1)
    BY <1>1, <2>1, Quotient
  <2>5. ak % p \in S
    BY <1>1, <2>3, <2>4
  <2> QED
    BY <2>5 DEF ak
<1>7. \A k, l \in S : h[k] = h[l] => k = l
  <2> SUFFICES ASSUME NEW k \in S, NEW l \in S, (a * k) % p = (a * l) % p PROVE k = l
    OBVIOUS
  <2> DEFINE ak == a * k  al == a * l
  <2>1. k \in Int /\ l \in Int /\ ak \in Int /\ al \in Int /\ ak % p = al % p
    BY <1>1
  <2> HIDE DEF ak, al
  <2>2. Cong(ak, al, p)
    BY <1>1, <2>1, CongIff
  <2>3. Cong(k, l, p)
    BY <1>1, <1>4, <2>1, <2>2, UnitCancel DEF ak, al
  <2>4. k \in 0..(p - 1) /\ l \in 0..(p - 1)
    BY <1>1
  <2> QED
    BY <1>1, <2>3, <2>4, CongUnique
<1>8. {h[k] : k \in S} = S
  <2> HIDE DEF h, S
  <2>1. h \in Injection(S, S)
    BY <1>6, <1>7 DEF Injection, IsInjective
  <2>2. h \in Surjection(S, S)
    BY <2>1, <1>2, FS_Injection
  <2> QED
    BY <2>2, <1>6 DEF Surjection
<1>9. PICK g : IsProductMod(g, S, f, p)
  BY <1>1, <1>2, <1>3, ProductModExists
<1>10. PICK gh : IsProductMod(gh, S, h, p)
  BY <1>1, <1>2, <1>3, ProductModExists
<1>11. \A k \in S : f[k] = k
  OBVIOUS
<1>12. \A k \in S : h[k] = f[h[k]] /\ h[k] = (a * f[k]) % p
  BY <1>6
<1> DEFINE u == g[S]  A == pw[p - 1]
<1>13. u \in Int /\ u \in 0..(p - 1) /\ A \in Int /\ A \in 0..(p - 1)
  <2>1. u \in 0..(p - 1)
    BY <1>9 DEF IsProductMod
  <2>2. A \in 0..(p - 1)
    BY <1>1 DEF IsPowersMod
  <2> HIDE DEF u, A
  <2> QED
    BY <2>1, <2>2
<1>14. IsUnit(u, p)
  <2>1. \A e \in S : IsUnit(f[e], p)
    BY <1>5, <1>11
  <2> HIDE DEF f, S
  <2> QED
    BY <1>1, <1>2, <1>3, <1>9, <2>1, ProductModUnit
<1> HIDE DEF f, h, S
<1>15. gh[S] = u
  BY <1>1, <1>2, <1>3, <1>6, <1>7, <1>8, <1>9, <1>10, <1>12, ProductModReindex
<1>16. gh[S] = (A * u) % p
  BY <1>1, <1>2, <1>3, <1>9, <1>10, <1>12, ProductModScales
<1> HIDE DEF u, A
<1>17. u % p = u /\ A * u = u * A /\ u * 1 = u
  BY <1>1, <1>13
<1> DEFINE uA == u * A
<1>18. uA \in Int /\ uA % p = u % p
  BY <1>13, <1>15, <1>16, <1>17
<1> HIDE DEF uA
<1>19. Cong(uA, u, p)
  BY <1>1, <1>13, <1>18, CongIff
<1>20. Cong(u * A, u * 1, p)
  BY <1>17, <1>19 DEF uA
<1>21. Cong(A, 1, p)
  BY <1>1, <1>13, <1>14, <1>20, UnitCancel
<1>22. 1 \in 0..(p - 1)
  BY <1>1
<1>23. A = 1
  BY <1>1, <1>13, <1>21, <1>22, CongUnique
<1> QED
  BY <1>23 DEF A

\* A linear combination, term by term, is one of the sums.
LEMMA SumCombines ==
    ASSUME NEW S, IsFiniteSet(S), NEW a \in Int, NEW b \in Int,
           NEW f, NEW g, NEW h, IntOn(f, S), IntOn(g, S),
           \A e \in S : h[e] = a * f[e] + b * g[e]
    PROVE  /\ SumFunctionOnSet(f, S) \in Int /\ SumFunctionOnSet(g, S) \in Int
           /\ SumFunctionOnSet(h, S) = a * SumFunctionOnSet(f, S) + b * SumFunctionOnSet(g, S)
<1>1. IntOn(h, S)
  BY DEF IntOn
<1>2. ASSUME NEW e \in S PROVE Cong(h[e], a * f[e] + b * g[e], 0)
  <2>1. h[e] \in Int /\ h[e] = a * f[e] + b * g[e]
    BY <1>1 DEF IntOn
  <2>2. Cong(h[e], h[e], 0)
    BY <2>1, CongRefl
  <2> QED
    BY <2>1, <2>2
<1> DEFINE sf == SumFunctionOnSet(f, S)  sg == SumFunctionOnSet(g, S)
           sh == SumFunctionOnSet(h, S)
<1>3. sf \in Int /\ sg \in Int /\ sh \in Int /\ Cong(sh, a * sf + b * sg, 0)
  BY <1>1, <1>2, SumLinear
<1> HIDE DEF sf, sg, sh
<1>4. PICK k \in Int : sh = (a * sf + b * sg) + k * 0
  BY <1>3 DEF Cong
<1>5. sh = a * sf + b * sg
  BY <1>3, <1>4
<1> QED
  BY <1>3, <1>5 DEF sf, sg, sh

\* The sum over a permutation of the terms.
LEMMA SumReindex ==
    ASSUME NEW S, IsFiniteSet(S),
           NEW h \in [S -> S], \A k, l \in S : h[k] = h[l] => k = l,
           NEW f, IntOn(f, S), NEW fh, \A k \in S : fh[k] = f[h[k]]
    PROVE  SumFunctionOnSet(fh, S) = SumFunctionOnSet(f, S)
<1> DEFINE s(W) == SumFunctionOnSet(f, W)
           sh(W) == SumFunctionOnSet(fh, W)
           G == {W \in SUBSET S : sh(W) = s({h[k] : k \in W})}
<1>1. IsSum(f, S) /\ IsSum(fh, S)
  <2>1. IntOn(fh, S)
    BY DEF IntOn
  <2> QED
    BY <2>1, SumIsSum
<1>2. {} \in G
  <2>1. sh({}) = 0 /\ s({}) = 0
    BY <1>1 DEF IsSum
  <2>2. {h[k] : k \in {}} = {} /\ {} \in SUBSET S
    OBVIOUS
  <2> HIDE DEF s, sh
  <2> QED
    BY <2>1, <2>2
<1>3. ASSUME NEW W \in SUBSET S, NEW e \in S, e \notin W, W \in G PROVE W \cup {e} \in G
  <2> DEFINE X == W \cup {e}
             I == {h[k] : k \in W}
             J == I \cup {h[e]}
  <2>1. /\ X \in SUBSET S /\ e \in X /\ X \ {e} = W
        /\ I \in SUBSET S /\ J \in SUBSET S /\ h[e] \in J /\ J \ {h[e]} = I
        /\ {h[k] : k \in X} = J /\ sh(W) = s(I)
    BY <1>3
  <2> HIDE DEF I, X, J
  <2>2. sh(X) = fh[e] + sh(W)
    BY <1>1, <2>1 DEF IsSum
  <2>3. s(J) = f[h[e]] + s(I)
    BY <1>1, <2>1 DEF IsSum
  <2>4. fh[e] = f[h[e]]
    OBVIOUS
  <2> HIDE DEF s, sh
  <2>5. sh(X) = s({h[k] : k \in X})
    BY <2>1, <2>2, <2>3, <2>4
  <2> QED
    BY <2>1, <2>5 DEF X
<1> HIDE DEF G
<1>4. SUBSET S \subseteq G
  BY <1>2, <1>3, SubsetInduction
<1>5. {h[k] : k \in S} = S
  <2>1. h \in Injection(S, S)
    BY DEF Injection, IsInjective
  <2>2. h \in Surjection(S, S)
    BY <2>1, FS_Injection
  <2> QED
    BY <2>2 DEF Surjection
<1>6. S \in G
  BY <1>4
<1> QED
  BY <1>5, <1>6 DEF G

\* Rows first or columns first.
LEMMA SumSwap ==
    ASSUME NEW S, IsFiniteSet(S), NEW R, IsFiniteSet(R),
           NEW F, \A e \in S, r \in R : F[e][r] \in Int
    PROVE  /\ IntOn([e \in S |-> SumFunctionOnSet(F[e], R)], S)
           /\ IntOn([r \in R |-> SumFunctionOnSet([e \in S |-> F[e][r]], S)], R)
           /\ SumFunctionOnSet([e \in S |-> SumFunctionOnSet(F[e], R)], S)
                  = SumFunctionOnSet([r \in R |-> SumFunctionOnSet([e \in S |-> F[e][r]], S)], R)
<1> DEFINE row == [e \in S |-> SumFunctionOnSet(F[e], R)]
           col == [r \in R |-> [e \in S |-> F[e][r]]]
           part(W) == [r \in R |-> SumFunctionOnSet(col[r], W)]
           G == {W \in SUBSET S : SumFunctionOnSet(row, W) = SumFunctionOnSet(part(W), R)}
<1>1. \A e \in S : row[e] = SumFunctionOnSet(F[e], R) /\ IntOn(F[e], R) /\ row[e] \in Int
  <2> TAKE e \in S
  <2>1. IntOn(F[e], R)
    BY DEF IntOn
  <2>2. IsSum(F[e], R)
    BY <2>1, SumIsSum
  <2> QED
    BY <2>1, <2>2 DEF IsSum
<1>2. \A r \in R : IsSum(col[r], S) /\ \A e \in S : col[r][e] = F[e][r]
  <2> TAKE r \in R
  <2>1. \A e \in S : col[r][e] = F[e][r]
    OBVIOUS
  <2>2. IntOn(col[r], S)
    BY DEF IntOn
  <2> QED
    BY <2>1, <2>2, SumIsSum
<1> HIDE DEF col
<1>3. \A W \in SUBSET S : IntOn(part(W), R) /\ \A r \in R : part(W)[r] = SumFunctionOnSet(col[r], W)
  BY <1>2 DEF IsSum, IntOn
<1>4. IsSum(row, S)
  <2>1. IntOn(row, S)
    BY <1>1 DEF IntOn
  <2> QED
    BY <2>1, SumIsSum
<1> HIDE DEF row
<1>5. {} \in G
  <2> DEFINE p == part({})
  <2>1. \A r \in R : p[r] = 0
    BY <1>2 DEF IsSum
  <2>2. IntOn(p, R)
    BY <2>1 DEF IntOn
  <2>3. \A r \in R : p[r] = 0 * p[r] + 0 * p[r]
    BY <2>1
  <2> HIDE DEF p
  <2>4. SumFunctionOnSet(p, R) = 0 * SumFunctionOnSet(p, R) + 0 * SumFunctionOnSet(p, R)
        /\ SumFunctionOnSet(p, R) \in Int
    <3>1. 0 \in Int
      OBVIOUS
    <3> QED
      BY <2>2, <2>3, <3>1, SumCombines
  <2>5. SumFunctionOnSet(p, R) = 0
    BY <2>4
  <2>6. SumFunctionOnSet(row, {}) = 0
    BY <1>4 DEF IsSum
  <2> QED
    BY <2>5, <2>6 DEF p
<1>6. ASSUME NEW W \in SUBSET S, NEW e \in S, e \notin W, W \in G PROVE W \cup {e} \in G
  <2> DEFINE X == W \cup {e}
             pW == part(W)
             pX == part(X)
  <2>1. X \in SUBSET S /\ e \in X /\ X \ {e} = W
    BY <1>6
  <2>2. IntOn(pW, R) /\ IntOn(pX, R)
    BY <1>3, <2>1
  <2>3. \A r \in R : pX[r] = 1 * F[e][r] + 1 * pW[r]
    <3> TAKE r \in R
    <3> HIDE DEF X
    <3>1. SumFunctionOnSet(col[r], X) = col[r][e] + SumFunctionOnSet(col[r], W)
      BY <1>2, <2>1 DEF IsSum
    <3>2. pX[r] = F[e][r] + pW[r] /\ pW[r] \in Int /\ F[e][r] \in Int
      BY <1>2, <2>2, <3>1 DEF IntOn
    <3> HIDE DEF pX, pW
    <3> QED
      BY <3>2
  <2>4. SumFunctionOnSet(row, W) = SumFunctionOnSet(pW, R)
    BY <1>6
  <2>5. SumFunctionOnSet(row, X) = row[e] + SumFunctionOnSet(row, W)
    <3> HIDE DEF X
    <3> QED
      BY <1>4, <2>1 DEF IsSum
  <2> HIDE DEF pX, pW, X
  <2>6. /\ SumFunctionOnSet(F[e], R) \in Int /\ SumFunctionOnSet(pW, R) \in Int
        /\ SumFunctionOnSet(pX, R) = 1 * SumFunctionOnSet(F[e], R) + 1 * SumFunctionOnSet(pW, R)
    <3>1. 1 \in Int /\ IntOn(F[e], R)
      BY <1>1
    <3> QED
      BY <2>2, <2>3, <3>1, SumCombines
  <2>7. row[e] = SumFunctionOnSet(F[e], R)
    BY <1>1
  <2>8. SumFunctionOnSet(row, X) = SumFunctionOnSet(pX, R)
    BY <2>4, <2>5, <2>6, <2>7
  <2> QED
    BY <2>1, <2>8 DEF X, pX
<1> HIDE DEF G
<1>7. SUBSET S \subseteq G
  BY <1>5, <1>6, SubsetInduction
<1>8. SumFunctionOnSet(row, S) = SumFunctionOnSet(part(S), R)
  <2>1. S \in G
    BY <1>7
  <2> QED
    BY <2>1 DEF G
<1>9. part(S) = [r \in R |-> SumFunctionOnSet([e \in S |-> F[e][r]], S)]
  BY DEF col
<1> QED
  BY <1>3, <1>4, <1>8, <1>9, <1>1 DEF row, IntOn

\* A factor goes through a sum.
LEMMA SumScales ==
    ASSUME NEW S, IsFiniteSet(S), NEW a \in Int,
           NEW f, NEW h, IntOn(f, S), \A e \in S : h[e] = a * f[e]
    PROVE  /\ SumFunctionOnSet(f, S) \in Int
           /\ SumFunctionOnSet(h, S) = a * SumFunctionOnSet(f, S)
<1>1. IntOn(h, S)
  BY DEF IntOn
<1> DEFINE s(W) == SumFunctionOnSet(f, W)
           sh(W) == SumFunctionOnSet(h, W)
           G == {W \in SUBSET S : sh(W) = a * s(W)}
<1>2. IsSum(f, S) /\ IsSum(h, S)
  BY <1>1, SumIsSum
<1>3. {} \in G
  <2>1. s({}) = 0 /\ sh({}) = 0
    BY <1>2 DEF IsSum
  <2> HIDE DEF s, sh
  <2> QED
    BY <2>1
<1>4. ASSUME NEW W \in SUBSET S, NEW e \in S, e \notin W, W \in G PROVE W \cup {e} \in G
  <2> DEFINE X == W \cup {e}
             u == s(W)  v == f[e]  su == s(X)  sv == sh(X)
  <2>1. X \in SUBSET S /\ e \in X /\ X \ {e} = W /\ sh(W) = a * u
    BY <1>4
  <2> HIDE DEF X
  <2>2. su = v + u /\ sv = h[e] + sh(W) /\ h[e] = a * v /\ u \in Int /\ v \in Int
    BY <1>2, <2>1 DEF IsSum, IntOn
  <2> HIDE DEF u, v, su, sv
  <2>3. sv = a * v + a * u
    BY <2>1, <2>2
  <2>4. a * (v + u) = a * v + a * u
    BY <2>2
  <2>5. sv = a * su
    BY <2>2, <2>3, <2>4
  <2> QED
    BY <2>1, <2>5 DEF X, su, sv
<1> HIDE DEF G
<1>5. SUBSET S \subseteq G
  BY <1>3, <1>4, SubsetInduction
<1>6. S \in G
  BY <1>5
<1> QED
  BY <1>2, <1>6 DEF G, IsSum

\* The sum of two sums, term by term.
LEMMA SumAdds ==
    ASSUME NEW S, IsFiniteSet(S), NEW f, NEW g, NEW h, IntOn(f, S), IntOn(g, S),
           \A e \in S : h[e] = f[e] + g[e]
    PROVE  /\ SumFunctionOnSet(f, S) \in Int /\ SumFunctionOnSet(g, S) \in Int
           /\ SumFunctionOnSet(h, S) = SumFunctionOnSet(f, S) + SumFunctionOnSet(g, S)
<1>1. IntOn(h, S)
  BY DEF IntOn
<1> DEFINE s(W) == SumFunctionOnSet(f, W)
           t(W) == SumFunctionOnSet(g, W)
           sh(W) == SumFunctionOnSet(h, W)
           G == {W \in SUBSET S : sh(W) = s(W) + t(W)}
<1>2. IsSum(f, S) /\ IsSum(g, S) /\ IsSum(h, S)
  BY <1>1, SumIsSum
<1>3. {} \in G
  <2>1. s({}) = 0 /\ t({}) = 0 /\ sh({}) = 0
    BY <1>2 DEF IsSum
  <2> HIDE DEF s, t, sh
  <2> QED
    BY <2>1
<1>4. ASSUME NEW W \in SUBSET S, NEW e \in S, e \notin W, W \in G PROVE W \cup {e} \in G
  <2> DEFINE X == W \cup {e}
  <2>1. X \in SUBSET S /\ e \in X /\ X \ {e} = W /\ sh(W) = s(W) + t(W)
    BY <1>4
  <2> HIDE DEF X
  <2>2. /\ s(X) = f[e] + s(W) /\ t(X) = g[e] + t(W) /\ sh(X) = h[e] + sh(W)
        /\ s(W) \in Int /\ t(W) \in Int /\ f[e] \in Int /\ g[e] \in Int
        /\ h[e] = f[e] + g[e]
    BY <1>2, <2>1 DEF IsSum, IntOn
  <2> HIDE DEF s, t, sh
  <2>5. sh(X) = s(X) + t(X)
    BY <2>1, <2>2
  <2> QED
    BY <2>1, <2>5 DEF X
<1> HIDE DEF G
<1>5. SUBSET S \subseteq G
  BY <1>3, <1>4, SubsetInduction
<1>6. S \in G
  BY <1>5
<1> QED
  BY <1>2, <1>6 DEF G, IsSum

\* The sum of the empty set, and one more term.
LEMMA SumEmpty == \A f : SumFunctionOnSet(f, {}) = 0
<1> TAKE f
<1>1. IsFiniteSet({}) /\ IntOn(f, {})
  BY FS_EmptySet DEF IntOn
<1> QED
  BY <1>1, SumIsSum DEF IsSum

\* A sum with one more term.
LEMMA SumStep ==
    ASSUME NEW S, IsFiniteSet(S), NEW e, e \notin S, NEW f, IntOn(f, S \cup {e})
    PROVE  /\ SumFunctionOnSet(f, S) \in Int
           /\ SumFunctionOnSet(f, S \cup {e}) = f[e] + SumFunctionOnSet(f, S)
<1> DEFINE X == S \cup {e}
<1>1. IsFiniteSet(X) /\ IntOn(f, X)
  BY FS_AddElement
<1>2. IsSum(f, X)
  BY <1>1, SumIsSum
<1>3. S \in SUBSET X /\ X \in SUBSET X /\ e \in X /\ X \ {e} = S
  OBVIOUS
<1> HIDE DEF X
<1>4. SumFunctionOnSet(f, X) = f[e] + SumFunctionOnSet(f, X \ {e})
  BY <1>2, <1>3 DEF IsSum
<1> QED
  BY <1>2, <1>3, <1>4 DEF IsSum, X

\* 2^n is a number, as many as n bits have subsets.
LEMMA PowerOfTwo ==
    ASSUME NEW n \in Nat, n > 0
    PROVE  2^n \in Nat /\ 2^n > 1
<1> DEFINE bits == 1..n
<1>1. IsFiniteSet(bits) /\ Cardinality(bits) = n
  BY FS_Interval
<1>2. IsFiniteSet(SUBSET bits) /\ Cardinality(SUBSET bits) = 2^n
  BY <1>1, FS_SUBSET
<1>3. Cardinality(SUBSET bits) \in Nat
  BY <1>2, FS_CardinalityType
<1>4. {{}, bits} \subseteq SUBSET bits /\ {} # bits
  OBVIOUS
<1>5. IsFiniteSet({{}, bits}) /\ Cardinality({{}, bits}) = 2
  <2>1. IsFiniteSet({bits}) /\ Cardinality({bits}) = 1
    BY FS_Singleton
  <2>2. {{}, bits} = {bits} \cup {{}} /\ {} \notin {bits}
    BY <1>4
  <2>3. IsFiniteSet({bits} \cup {{}}) /\ Cardinality({bits} \cup {{}}) = 1 + 1
    BY <2>1, <2>2, FS_AddElement
  <2> HIDE DEF bits
  <2>4. IsFiniteSet({bits} \cup {{}}) /\ Cardinality({bits} \cup {{}}) = 2
    BY <2>3
  <2> QED
    BY <2>2, <2>4, Zenon
<1>6. Cardinality({{}, bits}) <= Cardinality(SUBSET bits)
  BY <1>2, <1>4, FS_Subset
<1> QED
  BY <1>2, <1>3, <1>5, <1>6

-----------------------------------------------------------------------------
(* Powers of two.                                                           *)

\* 2^n doubles with every further bit.
LEMMA PowerDoubles ==
    /\ 2^0 = 1
    /\ \A n \in Nat : 2^n \in Nat /\ 2^n > 0 /\ 2^(n + 1) = 2 * 2^n
<1>1. 2^0 = 1
  <2>1. IsFiniteSet({}) /\ Cardinality({}) = 0
    BY FS_EmptySet
  <2>2. Cardinality(SUBSET {}) = 2^Cardinality({})
    BY <2>1, FS_SUBSET
  <2>3. SUBSET {} = {{}}
    OBVIOUS
  <2>4. Cardinality({{}}) = 1
    BY FS_Singleton
  <2> QED
    BY <2>1, <2>2, <2>3, <2>4
<1>2. ASSUME NEW n \in Nat PROVE 2^n \in Nat /\ 2^n > 0 /\ 2^(n + 1) = 2 * 2^n
  <2> DEFINE A == SUBSET (1..n)  B == SUBSET (1..(n + 1))
             C == {W \cup {n + 1} : W \in A}
             f == [W \in A |-> W \cup {n + 1}]
  <2>1. IsFiniteSet(A) /\ Cardinality(A) = 2^n
    <3>1. IsFiniteSet(1..n) /\ Cardinality(1..n) = n
      BY FS_Interval
    <3> QED
      BY <3>1, FS_SUBSET
  <2>2. IsFiniteSet(B) /\ Cardinality(B) = 2^(n + 1)
    <3>1. IsFiniteSet(1..(n + 1)) /\ Cardinality(1..(n + 1)) = n + 1
      BY FS_Interval
    <3> QED
      BY <3>1, FS_SUBSET
  <2>3. ExistsBijection(A, C)
    <3>1. \A W \in A : n + 1 \notin W
      OBVIOUS
    <3>2. f \in Bijection(A, C)
      <4>1. f \in [A -> C]
        OBVIOUS
      <4>2. \A W, U \in A : f[W] = f[U] => W = U
        BY <3>1
      <4>3. \A c \in C : \E W \in A : f[W] = c
        OBVIOUS
      <4> HIDE DEF f, A, C
      <4> QED
        BY <4>1, <4>2, <4>3 DEF Bijection, Injection, Surjection, IsInjective
    <3> HIDE DEF f, A, C
    <3> QED
      BY <3>2 DEF ExistsBijection
  <2>4. IsFiniteSet(C) /\ Cardinality(C) = Cardinality(A)
    <3> HIDE DEF A, C
    <3> QED
      BY <2>1, <2>3, FS_Bijection
  <2>5. B = A \cup C
    <3>1. ASSUME NEW W \in B PROVE W \in A \cup C
      <4>1. CASE n + 1 \in W
        <5>1. W \ {n + 1} \in A /\ W = (W \ {n + 1}) \cup {n + 1}
          BY <3>1, <4>1
        <5> QED
          BY <5>1
      <4>2. CASE n + 1 \notin W
        BY <3>1, <4>2
      <4> QED
        BY <4>1, <4>2
    <3>2. ASSUME NEW W \in A \cup C PROVE W \in B
      OBVIOUS
    <3> HIDE DEF A, B, C
    <3> QED
      BY <3>1, <3>2
  <2>6. A \cap C = {}
    OBVIOUS
  <2> HIDE DEF A, B, C
  <2>7. Cardinality(A \cup C) = Cardinality(A) + Cardinality(C) - Cardinality(A \cap C)
    BY <2>1, <2>4, FS_Union
  <2>8. Cardinality(A \cap C) = 0
    BY <2>6, FS_EmptySet
  <2>9. Cardinality(A) \in Nat
    BY <2>1, FS_CardinalityType
  <2>10. 2^(n + 1) = 2 * 2^n
    BY <2>1, <2>2, <2>4, <2>5, <2>7, <2>8, <2>9
  <2>11. 2^n > 0
    <3>1. CASE n = 0
      BY <3>1, <1>1
    <3>2. CASE n > 0
      BY <3>2, PowerOfTwo
    <3> QED
      BY <3>1, <3>2
  <2> QED
    BY <2>1, <2>9, <2>10, <2>11
<1> QED
  BY <1>1, <1>2

\* Powers of two multiply by adding their exponents.
LEMMA PowerAdds ==
    ASSUME NEW a \in Nat, NEW b \in Nat
    PROVE  2^(a + b) = 2^a * 2^b
<1> DEFINE G == {n \in Nat : 2^(a + n) = 2^a * 2^n}
<1>1. 0 \in G
  BY PowerDoubles
<1>2. ASSUME NEW n \in Nat, n \in G PROVE n + 1 \in G
  <2>1. 2^(a + n) = 2^a * 2^n /\ a + n \in Nat /\ a + (n + 1) = (a + n) + 1
    BY <1>2
  <2> DEFINE p == 2^a  r == 2^n  s == 2^(a + n)
  <2>2. p \in Nat /\ r \in Nat /\ s \in Nat /\ s = p * r
    BY <2>1, PowerDoubles
  <2>3. 2^((a + n) + 1) = 2 * s /\ 2^(n + 1) = 2 * r
    BY <2>1, PowerDoubles
  <2> HIDE DEF p, r, s
  <2>4. 2 * s = p * (2 * r)
    BY <2>2
  <2> QED
    BY <2>1, <2>3, <2>4 DEF p
<1> HIDE DEF G
<1>3. Nat \subseteq G
  BY <1>1, <1>2, InductionSet
<1> QED
  BY <1>3 DEF G

\* A number is below its power of two.
LEMMA PowerAbove == \A n \in Nat : n < 2^n
<1> DEFINE G == {n \in Nat : n < 2^n}
<1>1. 0 \in G
  BY PowerDoubles
<1>2. ASSUME NEW n \in Nat, n \in G PROVE n + 1 \in G
  <2>1. n < 2^n /\ 2^n \in Nat /\ 2^(n + 1) = 2 * 2^n
    BY <1>2, PowerDoubles
  <2> DEFINE p == 2^n  r == 2^(n + 1)
  <2>2. n < p /\ p \in Nat /\ r = 2 * p
    BY <2>1
  <2> HIDE DEF p, r
  <2>3. n + 1 < r
    BY <2>2
  <2> QED
    BY <2>3 DEF r
<1> HIDE DEF G
<1>3. Nat \subseteq G
  BY <1>1, <1>2, InductionSet
<1> QED
  BY <1>3 DEF G

\* Halving, rounded up.
LEMMA HalfUp ==
    ASSUME NEW b \in Nat, b > 1
    PROVE  LET h == (b + 1) \div 2 IN h \in 1..(b - 1) /\ b <= 2 * h /\ 2 * h <= b + 1
OBVIOUS

\* f follows the recursion of a loop that doubles its precision.
IsDoubling(f, V, zero, base, step) ==
    /\ f \in [Nat -> V] /\ f[0] = zero /\ f[1] = base
    /\ \A b \in Nat : b > 1 => f[b] = step[f[(b + 1) \div 2]]

\* Recursion that halves, rounding up, has a value everywhere.
LEMMA Doubling ==
    ASSUME NEW V, NEW zero \in V, NEW base \in V, NEW step, \A v \in V : step[v] \in V
    PROVE  \E f : IsDoubling(f, V, zero, base, step)
<1> DEFINE Depths(b) == {k \in Nat : b <= 2^k}
           depth == [b \in Nat |-> CHOOSE k \in Depths(b) : \A j \in Depths(b) : k <= j]
<1>1. ASSUME NEW b \in Nat
      PROVE  depth[b] \in Nat /\ b <= 2^depth[b] /\ \A j \in Nat : b <= 2^j => depth[b] <= j
  <2>1. b < 2^b /\ 2^b \in Nat
    BY PowerAbove, PowerDoubles
  <2> DEFINE p == 2^b
  <2>2. b <= p
    <3> HIDE DEF p
    <3>1. b < p /\ p \in Nat
      BY <2>1 DEF p
    <3> QED
      BY <3>1
  <2>3. Depths(b) \in SUBSET Nat /\ b \in Depths(b)
    BY <2>2
  <2> DEFINE D == Depths(b)
  <2>4. \E k \in D : \A j \in D : k <= j
    <3>1. D \in SUBSET Nat /\ D # {}
      BY <2>3
    <3> HIDE DEF D
    <3> QED
      BY <3>1, LeastNat
  <2>5. depth[b] = CHOOSE k \in D : \A j \in D : k <= j
    OBVIOUS
  <2>6. depth[b] \in D /\ \A j \in D : depth[b] <= j
    <3> HIDE DEF D, depth
    <3> QED
      BY <2>4, <2>5
  <2> HIDE DEF depth
  <2> QED
    BY <2>6
<1> HIDE DEF depth
<1>2. depth[1] = 0
  <2>1. depth[1] <= 0 /\ depth[1] \in Nat
    BY <1>1, PowerDoubles
  <2> QED
    BY <2>1
<1>3. ASSUME NEW b \in Nat, b > 1
      PROVE  (b + 1) \div 2 \in Nat /\ (b + 1) \div 2 > 0 /\ depth[b] = depth[(b + 1) \div 2] + 1
  <2> DEFINE h == (b + 1) \div 2
  <2>1. h \in Nat /\ h > 0 /\ b <= 2 * h /\ 2 * h <= b + 1
    BY <1>3, HalfUp
  <2> HIDE DEF h
  <2> DEFINE k == depth[b]  l == depth[h]
  <2>2. k \in Nat /\ l \in Nat /\ b <= 2^k /\ h <= 2^l
    BY <1>1, <2>1
  <2>3. k <= l + 1
    <3> DEFINE p == 2^l  r == 2^(l + 1)
    <3>1. p \in Nat /\ r = 2 * p /\ h <= p /\ r \in Nat
      <4>1. 2^(l + 1) = 2 * 2^l /\ 2^l \in Nat
        BY <2>2, PowerDoubles
      <4> QED
        BY <4>1, <2>2
    <3> HIDE DEF p, r
    <3>2. b <= r
      BY <2>1, <3>1
    <3> QED
      BY <1>1, <2>2, <3>2 DEF r
  <2>4. k # 0
    <3>1. ~(b <= 1)
      BY <1>3
    <3> QED
      BY <2>2, <3>1, PowerDoubles
  <2>5. l <= k - 1
    <3> DEFINE j == k - 1
    <3>1. j \in Nat /\ j + 1 = k
      BY <2>2, <2>4
    <3> HIDE DEF j, k
    <3> DEFINE p == 2^j  r == 2^k
    <3>2. p \in Nat /\ r = 2 * p /\ b <= r
      BY <3>1, <2>2, PowerDoubles
    <3> HIDE DEF p, r
    <3>3. h <= p
      BY <2>1, <3>2
    <3>4. depth[h] <= j
      BY <1>1, <2>1, <3>1, <3>3 DEF p
    <3> QED
      BY <3>4 DEF j, l
  <2>6. k = l + 1
    <3> HIDE DEF k, l
    <3> QED
      BY <2>2, <2>3, <2>5
  <2> QED
    BY <2>1, <2>6 DEF h
<1> DEFINE turn == [n \in Nat |-> step]
<1>4. PICK g : IsIteration(g, V, base, turn)
  <2>1. \A n \in Nat, v \in V : turn[n + 1][v] \in V
    OBVIOUS
  <2> HIDE DEF turn
  <2> QED
    BY <2>1, Iteration
<1>5. g \in [Nat -> V] /\ g[0] = base /\ \A n \in Nat : g[n + 1] = step[g[n]]
  BY <1>4 DEF IsIteration
<1> HIDE DEF turn
<1> DEFINE f == [b \in Nat |-> IF b = 0 THEN zero ELSE g[depth[b]]]
<1>6. f \in [Nat -> V] /\ f[0] = zero /\ f[1] = base
  BY <1>1, <1>2, <1>5
<1>7. ASSUME NEW b \in Nat, b > 1 PROVE f[b] = step[f[(b + 1) \div 2]]
  <2> DEFINE h == (b + 1) \div 2
  <2>1. h \in Nat /\ h # 0 /\ depth[b] = depth[h] + 1 /\ depth[h] \in Nat /\ b # 0
    BY <1>1, <1>3, <1>7
  <2> HIDE DEF h
  <2>2. f[b] = g[depth[h] + 1] /\ f[h] = g[depth[h]]
    BY <2>1
  <2> HIDE DEF f
  <2> QED
    BY <2>1, <2>2, <1>5 DEF h
<1> HIDE DEF f
<1> QED
  BY <1>6, <1>7 DEF IsDoubling

-----------------------------------------------------------------------------
(* Sums of sets of numbers.                                                 *)

\* A set of numbers.
AreInts(S) == \A e \in S : e \in Int

\* The sum of no numbers is 0, and any number may be added last.
AddsUp(S) ==
    /\ SumSet({}) = 0 /\ \A W \in SUBSET S : SumSet(W) \in Int
    /\ \A W \in SUBSET S : \A e \in W : SumSet(W) = e + SumSet(W \ {e})

\* SumSet adds a finite set of numbers up.
LEMMA SumSetAdds ==
    ASSUME NEW S, IsFiniteSet(S), AreInts(S)
    PROVE  AddsUp(S)
<1> DEFINE Iterates(h, W) == h = [s \in SUBSET W |->
               IF s = {} THEN 0
               ELSE (CHOOSE e \in s : TRUE) + h[s \ {CHOOSE e \in s : TRUE}]]
           iter == [W \in SUBSET S |-> CHOOSE h : Iterates(h, W)]
           V == Int \cup UNION {{iter[W][s] : s \in SUBSET W} : W \in SUBSET S}
           step == [e \in S |-> [v \in V |-> e + v]]
           c == AnyOf(S)
<1>1. \A W \in SUBSET S : SumSet(W) = iter[W][W]
  BY DEF SumSet, FoldSet, MapThenFoldSet
<1>2. \A W \in SUBSET S : iter[W] = CHOOSE h : Iterates(h, W)
  OBVIOUS
<1> HIDE DEF iter
<1>3. Int \subseteq V /\ \A W \in SUBSET S : \A s \in SUBSET W : iter[W][s] \in V
  OBVIOUS
<1> HIDE DEF V
<1>4. \A e \in S, v \in V : step[e][v] = e + v
  OBVIOUS
<1> HIDE DEF step
<1>5. PICK g : IsSetFold(g, S, Int, 0, step)
  <2>1. Steps(step, S, Int)
    <3> SUFFICES ASSUME NEW e \in S, NEW v \in Int PROVE step[e][v] \in Int
      BY DEF Steps
    <3>1. step[e][v] = e + v
      BY <1>3, <1>4
    <3>2. e \in Int
      BY DEF AreInts
    <3> QED
      BY <3>1, <3>2
  <2>2. Commute(step, S, Int)
    <3> SUFFICES ASSUME NEW a \in S, NEW b \in S, NEW v \in Int
                 PROVE  step[a][step[b][v]] = step[b][step[a][v]]
      BY DEF Commute
    <3>1. a \in Int /\ b \in Int
      BY DEF AreInts
    <3>2. /\ step[a][v] = a + v /\ step[b][v] = b + v
          /\ a + v \in V /\ b + v \in V
      BY <1>3, <1>4, <3>1
    <3>3. step[a][b + v] = a + (b + v) /\ step[b][a + v] = b + (a + v)
      BY <1>4, <3>2
    <3> QED
      BY <3>1, <3>2, <3>3
  <2> QED
    BY <2>1, <2>2, SetFold
<1>6. g \in [SUBSET S -> Int] /\ IsFold(g, S, 0, step, c) /\ g[{}] = 0 /\ AnyOrder(g, S, step)
  BY <1>5 DEF IsSetFold
<1>7. Chooses(c, S) /\ \A s \in SUBSET S : c[s] = CHOOSE e \in s : TRUE
  BY DEF Chooses, AnyOf
<1> HIDE DEF c
<1>8. ASSUME NEW W \in SUBSET S PROVE SumSet(W) = g[W]
  <2> DEFINE r == [s \in SUBSET W |-> g[s]]
  <2>1. \A s \in SUBSET W : s # {} =>
           /\ c[s] \in s /\ c[s] = (CHOOSE e \in s : TRUE)
           /\ s \in SUBSET S /\ s \ {c[s]} \in SUBSET W /\ c[s] \in S
    BY <1>7 DEF Chooses
  <2>2. ASSUME NEW s \in SUBSET W, s # {} PROVE g[s] = c[s] + g[s \ {c[s]}]
    <3>1. g[s] = step[c[s]][g[s \ {c[s]}]]
      BY <1>6, <2>1, <2>2 DEF IsFold, FoldAt
    <3>2. g[s \ {c[s]}] \in V /\ c[s] \in S
      BY <1>3, <1>6, <2>1, <2>2
    <3> QED
      BY <1>4, <3>1, <3>2
  <2>3. Iterates(r, W)
    <3>1. \A s \in SUBSET W :
             g[s] = IF s = {} THEN 0
                    ELSE (CHOOSE e \in s : TRUE) + r[s \ {CHOOSE e \in s : TRUE}]
      BY <1>6, <2>1, <2>2
    <3> QED
      BY <3>1
  <2>4. Iterates(iter[W], W)
    <3> HIDE DEF Iterates, r
    <3> QED
      BY <1>2, <2>3
  <2>5. IsFold(iter[W], W, 0, step, c)
    <3> SUFFICES ASSUME NEW s \in SUBSET W PROVE iter[W][s] = FoldAt(iter[W], s, 0, step, c)
      BY DEF IsFold
    <3>1. CASE s = {}
      BY <2>4, <3>1 DEF FoldAt
    <3>2. CASE s # {}
      <4>1. iter[W][s] = c[s] + iter[W][s \ {c[s]}]
        BY <2>1, <2>4, <3>2
      <4>2. iter[W][s \ {c[s]}] \in V /\ c[s] \in S
        BY <1>3, <2>1, <3>2
      <4>3. step[c[s]][iter[W][s \ {c[s]}]] = c[s] + iter[W][s \ {c[s]}]
        BY <1>4, <4>2
      <4> QED
        BY <3>2, <4>1, <4>3 DEF FoldAt
    <3> QED
      BY <3>1, <3>2
  <2>6. iter[W][W] = g[W]
    <3> DEFINE h == iter[W]
    <3> HIDE DEF h, r, Iterates
    <3>1. IsFold(h, W, 0, step, c) /\ IsFold(g, S, 0, step, c) /\ Chooses(c, S)
      BY <1>6, <1>7, <2>5 DEF h
    <3>2. W \in SUBSET W
      OBVIOUS
    <3>3. h[W] = g[W]
      BY <3>1, <3>2, FoldUnique
    <3> QED
      BY <3>3 DEF h
  <2> QED
    BY <1>1, <2>6
<1>9. ASSUME NEW W \in SUBSET S, NEW e \in W
      PROVE  SumSet(W) = e + SumSet(W \ {e})
  <2>1. W \ {e} \in SUBSET S /\ e \in S
    BY <1>9
  <2>2. g[W] = step[e][g[W \ {e}]] /\ g[W \ {e}] \in V
    BY <1>3, <1>6, <2>1 DEF AnyOrder
  <2> QED
    BY <1>4, <1>8, <2>1, <2>2
<1> QED
  BY <1>6, <1>8, <1>9 DEF AddsUp

-----------------------------------------------------------------------------
(* The bits of a number.                                                    *)

\* Powers of two grow.
LEMMA PowerGrows ==
    ASSUME NEW a \in Nat, NEW b \in Nat, a < b
    PROVE  2^a < 2^b /\ 2 * 2^a <= 2^b
<1> DEFINE c == b - (a + 1)
<1>1. c \in Nat /\ a + 1 \in Nat /\ (a + 1) + c = b
  OBVIOUS
<1> HIDE DEF c
<1>2. 2^b = 2^(a + 1) * 2^c /\ 2^(a + 1) = 2 * 2^a
  BY <1>1, PowerAdds, PowerDoubles
<1>3. 2^a \in Nat /\ 2^a > 0 /\ 2^c \in Nat /\ 2^c > 0
  BY <1>1, PowerDoubles
<1> DEFINE x == 2^a  y == 2^c  z == 2^b
<1>4. x \in Nat /\ x > 0 /\ y \in Nat /\ y > 0 /\ z = (2 * x) * y
  BY <1>2, <1>3
<1> HIDE DEF x, y, z
<1>5. (2 * x) * y >= (2 * x) * 1
  BY <1>4
<1>6. x < z /\ 2 * x <= z
  BY <1>4, <1>5
<1> QED
  BY <1>6 DEF x, z

\* The values of the lowest m bits of a word.
BitValues(m) == {2^s : s \in 0..(m - 1)}

\* Adding bits: they stay below the next one, and each counts once.
BitsAdd(S, m) ==
    /\ SumSet(S) \in 0..(2^m - 1)
    /\ \A e \in BitValues(m) : e \notin S => SumSet(S \cup {e}) = SumSet(S) + e

\* Bit values are finitely many numbers.
LEMMA BitValuesFinite ==
    ASSUME NEW m \in Nat
    PROVE  AddsUp(BitValues(m)) /\ AreInts(BitValues(m))
<1>1. AreInts(BitValues(m))
  <2>1. \A s \in 0..(m - 1) : 2^s \in Int
    BY PowerDoubles
  <2> QED
    BY <2>1 DEF AreInts, BitValues
<1>2. IsFiniteSet(BitValues(m))
  <2> DEFINE D == 0..(m - 1)
  <2>1. IsFiniteSet(D)
    BY FS_Interval
  <2> DEFINE f == [s \in D |-> 2^s]
  <2>2. f \in Surjection(D, BitValues(m))
    BY DEF Surjection, BitValues
  <2> HIDE DEF D, f
  <2> QED
    BY <2>1, <2>2, FS_Surjection
<1> QED
  BY <1>1, <1>2, SumSetAdds

\* So do all of them.
LEMMA BitsAddUp ==
    ASSUME NEW m \in Nat, NEW S \in SUBSET BitValues(m)
    PROVE  BitsAdd(S, m)
<1> DEFINE G == {n \in Nat : \A T \in SUBSET BitValues(n) : SumSet(T) \in 0..(2^n - 1)}
<1>1. 0 \in G
  <2>1. BitValues(0) = {} /\ 2^0 = 1 /\ 0 \in Nat
    BY PowerDoubles DEF BitValues
  <2>2. SumSet({}) = 0
    BY <2>1, BitValuesFinite DEF AddsUp
  <2>3. \A T \in SUBSET BitValues(0) : SumSet(T) \in 0..(2^0 - 1)
    BY <2>1, <2>2
  <2> QED
    BY <2>3
<1>2. ASSUME NEW n \in Nat, n \in G PROVE n + 1 \in G
  <2> SUFFICES ASSUME NEW T \in SUBSET BitValues(n + 1)
               PROVE  SumSet(T) \in 0..(2^(n + 1) - 1)
    OBVIOUS
  <2> DEFINE e == 2^n  U == T \ {e}  p == 2^(n + 1)
  <2>1. e \in Nat /\ e > 0 /\ p = 2 * e
    BY PowerDoubles
  <2>2. U \in SUBSET BitValues(n)
    <3> SUFFICES ASSUME NEW x \in T, x # e PROVE x \in BitValues(n)
      OBVIOUS
    <3>1. PICK s \in 0..((n + 1) - 1) : x = 2^s
      BY DEF BitValues
    <3>2. s \in 0..(n - 1)
      BY <3>1
    <3> QED
      BY <3>1, <3>2 DEF BitValues
  <2>3. SumSet(U) \in 0..(e - 1)
    <3> HIDE DEF U
    <3> QED
      BY <1>2, <2>2
  <2>4. CASE e \in T
    <3>1. SumSet(T) = e + SumSet(U)
      <4>1. n + 1 \in Nat
        OBVIOUS
      <4>2. AddsUp(BitValues(n + 1))
        BY <4>1, BitValuesFinite
      <4> HIDE DEF e
      <4> QED
        BY <4>2, <2>4 DEF AddsUp
    <3> HIDE DEF e, U, p
    <3> QED
      BY <2>1, <2>3, <3>1 DEF p
  <2>5. CASE e \notin T
    <3>1. U = T
      BY <2>5
    <3> HIDE DEF e, U, p
    <3> QED
      BY <2>1, <2>3, <3>1 DEF p
  <2> QED
    BY <2>4, <2>5
<1> HIDE DEF G
<1>3. Nat \subseteq G
  BY <1>1, <1>2, InductionSet
<1>4. SumSet(S) \in 0..(2^m - 1)
  BY <1>3 DEF G
<1>5. ASSUME NEW e \in BitValues(m), e \notin S
      PROVE  SumSet(S \cup {e}) = SumSet(S) + e
  <2> DEFINE W == S \cup {e}
  <2>1. W \in SUBSET BitValues(m) /\ e \in W /\ W \ {e} = S
    BY <1>5
  <2> HIDE DEF W
  <2>2. SumSet(W) = e + SumSet(S) /\ SumSet(S) \in Int
    BY <2>1, BitValuesFinite DEF AddsUp
  <2>3. e \in Int
    BY BitValuesFinite DEF AreInts
  <2> QED
    BY <2>2, <2>3 DEF W
<1> QED
  BY <1>4, <1>5 DEF BitsAdd

-----------------------------------------------------------------------------
(* Sums over an interval.                                                   *)

\* The sum of f[0] to f[n - 1].
Total(f, n) == SumFunctionOnSet(f, 0..(n - 1))

\* The integers from 0 to n - 1 are a finite set.
LEMMA UptoFinite ==
    ASSUME NEW n \in Nat
    PROVE  IsFiniteSet(0..(n - 1))
<1>1. 0 \in Int /\ n - 1 \in Int
  OBVIOUS
<1> QED
  BY <1>1, FS_Interval

\* Sums are made one term at a time.
LEMMA TotalStep ==
    ASSUME NEW f, NEW n \in Nat, \A i \in 0..n : f[i] \in Int
    PROVE  /\ Total(f, 0) = 0 /\ Total(f, n) \in Int
           /\ Total(f, n + 1) = Total(f, n) + f[n]
<1>1. IsFiniteSet(0..(n - 1)) /\ 0..(0 - 1) = {} /\ n \notin 0..(n - 1)
      /\ 0..((n + 1) - 1) = (0..(n - 1)) \cup {n}
  BY UptoFinite
<1>2. IntOn(f, (0..(n - 1)) \cup {n}) /\ f[n] \in Int
  BY DEF IntOn
<1>3. Total(f, 0) = 0
  BY <1>1, SumEmpty DEF Total
<1> DEFINE S == 0..(n - 1)
<1> HIDE DEF S
<1>4. IsFiniteSet(S) /\ n \notin S /\ IntOn(f, S \cup {n})
  BY <1>1, <1>2 DEF S
<1>5. SumFunctionOnSet(f, S) \in Int /\ SumFunctionOnSet(f, S \cup {n}) = f[n] + SumFunctionOnSet(f, S)
  BY <1>4, SumStep
<1>6. Total(f, n) = SumFunctionOnSet(f, S) /\ Total(f, n + 1) = SumFunctionOnSet(f, S \cup {n})
  BY <1>1 DEF Total, S
<1> QED
  BY <1>2, <1>3, <1>5, <1>6

\* The sum is an integer.
LEMMA TotalType ==
    ASSUME NEW f, NEW n \in Nat, \A i \in 0..(n - 1) : f[i] \in Int
    PROVE  Total(f, n) \in Int
<1>1. CASE n = 0
  <2>1. \A i \in {} : f[i] \in Int
    OBVIOUS
  <2>2. 0..(0 - 1) = {}
    OBVIOUS
  <2> QED
    BY <1>1, <2>2, SumEmpty DEF Total
<1>2. CASE n > 0
  <2>1. n - 1 \in Nat /\ (n - 1) + 1 = n /\ f[n - 1] \in Int
    BY <1>2
  <2> DEFINE m == n - 1
  <2>2. m \in Nat /\ m + 1 = n /\ \A i \in 0..m : f[i] \in Int
    BY <2>1
  <2> HIDE DEF m
  <2>3. Total(f, m) \in Int /\ Total(f, m + 1) = Total(f, m) + f[m] /\ f[m] \in Int
    BY <2>2, TotalStep
  <2> QED
    BY <2>2, <2>3
<1> QED
  BY <1>1, <1>2

\* Sums whose terms agree modulo q, up to factors, agree.
LEMMA TotalLinear ==
    ASSUME NEW n \in Nat, NEW q \in Int, NEW a \in Int, NEW b \in Int,
           NEW f, NEW g, NEW h,
           \A i \in 0..(n - 1) : /\ f[i] \in Int /\ g[i] \in Int /\ h[i] \in Int
                                 /\ Cong(h[i], a * f[i] + b * g[i], q)
    PROVE  /\ Total(f, n) \in Int /\ Total(g, n) \in Int /\ Total(h, n) \in Int
           /\ Cong(Total(h, n), a * Total(f, n) + b * Total(g, n), q)
<1> DEFINE S == 0..(n - 1)
<1>1. IsFiniteSet(S) /\ IntOn(f, S) /\ IntOn(g, S) /\ IntOn(h, S)
      /\ \A i \in S : Cong(h[i], a * f[i] + b * g[i], q)
  BY UptoFinite DEF IntOn
<1>2. Total(f, n) = SumFunctionOnSet(f, S) /\ Total(g, n) = SumFunctionOnSet(g, S)
      /\ Total(h, n) = SumFunctionOnSet(h, S)
  BY DEF Total
<1> HIDE DEF S
<1>3. /\ SumFunctionOnSet(f, S) \in Int /\ SumFunctionOnSet(g, S) \in Int
      /\ SumFunctionOnSet(h, S) \in Int
      /\ Cong(SumFunctionOnSet(h, S), a * SumFunctionOnSet(f, S) + b * SumFunctionOnSet(g, S), q)
  BY <1>1, SumLinear
<1> QED
  BY <1>2, <1>3

\* A common factor.
LEMMA TotalScales ==
    ASSUME NEW n \in Nat, NEW q \in Int, NEW a \in Int, NEW f, NEW h,
           \A i \in 0..(n - 1) : /\ f[i] \in Int /\ h[i] \in Int
                                 /\ Cong(h[i], a * f[i], q)
    PROVE  /\ Total(f, n) \in Int /\ Total(h, n) \in Int
           /\ Cong(Total(h, n), a * Total(f, n), q)
<1>1. \A i \in 0..(n - 1) : /\ f[i] \in Int /\ f[i] \in Int /\ h[i] \in Int
                            /\ Cong(h[i], a * f[i] + 0 * f[i], q)
  <2> TAKE i \in 0..(n - 1)
  <2>1. f[i] \in Int /\ h[i] \in Int /\ Cong(h[i], a * f[i], q)
    OBVIOUS
  <2> DEFINE e == f[i]  ae == a * e
  <2>2. ae \in Int /\ 0 * e = 0 /\ ae + 0 = ae
    BY <2>1
  <2> QED
    BY <2>1, <2>2
<1> DEFINE b == 0
<1>2. b \in Int
  OBVIOUS
<1>3. \A i \in 0..(n - 1) : /\ f[i] \in Int /\ f[i] \in Int /\ h[i] \in Int
                            /\ Cong(h[i], a * f[i] + b * f[i], q)
  BY <1>1
<1> HIDE DEF b
<1>4. /\ Total(f, n) \in Int /\ Total(h, n) \in Int
      /\ Cong(Total(h, n), a * Total(f, n) + b * Total(f, n), q)
  BY <1>2, <1>3, TotalLinear
<1> DEFINE s == Total(f, n)  as == a * s
<1>5. s \in Int /\ as \in Int /\ Total(h, n) \in Int /\ Cong(Total(h, n), as + b * s, q)
  BY <1>4
<1> HIDE DEF s
<1>6. b * s = 0 /\ as + 0 = as
  BY <1>5 DEF b
<1> HIDE DEF as
<1>7. Cong(Total(h, n), as, q)
  BY <1>5, <1>6
<1> QED
  BY <1>5, <1>7 DEF s, as

\* Sums whose terms agree modulo q agree modulo q.
LEMMA TotalCong ==
    ASSUME NEW n \in Nat, NEW q \in Int, NEW f, NEW h,
           \A i \in 0..(n - 1) : f[i] \in Int /\ h[i] \in Int /\ Cong(h[i], f[i], q)
    PROVE  /\ Total(f, n) \in Int /\ Total(h, n) \in Int
           /\ Cong(Total(h, n), Total(f, n), q)
<1> DEFINE a == 1
<1>1. a \in Int /\ \A i \in 0..(n - 1) : /\ f[i] \in Int /\ h[i] \in Int
                                         /\ Cong(h[i], a * f[i], q)
  OBVIOUS
<1> HIDE DEF a
<1>2. /\ Total(f, n) \in Int /\ Total(h, n) \in Int
      /\ Cong(Total(h, n), a * Total(f, n), q)
  BY <1>1, TotalScales
<1>3. a * Total(f, n) = Total(f, n)
  BY <1>2 DEF a
<1> QED
  BY <1>2, <1>3

\* Equal terms, equal sums.
LEMMA TotalAgrees ==
    ASSUME NEW n \in Nat, NEW f, NEW h,
           \A i \in 0..(n - 1) : f[i] \in Int /\ h[i] = f[i]
    PROVE  Total(h, n) = Total(f, n)
<1> DEFINE S == 0..(n - 1)
<1>1. IsFiniteSet(S) /\ IntOn(f, S) /\ IntOn(h, S) /\ \A i \in S : h[i] = f[i]
  BY UptoFinite DEF IntOn
<1>2. Total(f, n) = SumFunctionOnSet(f, S) /\ Total(h, n) = SumFunctionOnSet(h, S)
  BY DEF Total
<1> HIDE DEF S
<1> QED
  BY <1>1, <1>2, SumAgrees

\* The order of summation does not matter.
LEMMA TotalSwap ==
    ASSUME NEW n \in Nat, NEW m \in Nat, NEW F,
           \A i \in 0..(n - 1), j \in 0..(m - 1) : F[i][j] \in Int
    PROVE  Total([i \in 0..(n - 1) |-> Total(F[i], m)], n)
             = Total([j \in 0..(m - 1) |-> Total([i \in 0..(n - 1) |-> F[i][j]], n)], m)
<1> DEFINE S == 0..(n - 1)  R == 0..(m - 1)
<1>1. IsFiniteSet(S) /\ IsFiniteSet(R) /\ \A i \in S, j \in R : F[i][j] \in Int
  BY UptoFinite
<1> HIDE DEF S, R
<1>2. SumFunctionOnSet([e \in S |-> SumFunctionOnSet(F[e], R)], S)
        = SumFunctionOnSet([r \in R |-> SumFunctionOnSet([e \in S |-> F[e][r]], S)], R)
  BY <1>1, SumSwap
<1> QED
  BY <1>2 DEF Total, S, R

-----------------------------------------------------------------------------
(* The powers of a root modulo a number.                                    *)

\* What IsPowersMod says of each power.
LEMMA PowersFacts ==
    ASSUME NEW q \in Nat, q > 1, NEW b \in Int, NEW w, IsPowersMod(w, b, q)
    PROVE  /\ w[0] = 1
           /\ \A n \in Nat : /\ w[n] \in 0..(q - 1) /\ w[n] \in Int
                             /\ w[n + 1] = (w[n] * b) % q /\ Cong(w[n + 1], w[n] * b, q)
<1>1. /\ w[0] = 1 /\ \A n \in Nat : w[n] \in 0..(q - 1) /\ w[n + 1] = (w[n] * b) % q
  BY DEF IsPowersMod
<1>2. ASSUME NEW n \in Nat PROVE Cong(w[n + 1], w[n] * b, q)
  <2> DEFINE p == w[n] * b
  <2>1. p \in Int /\ w[n + 1] = p % q
    BY <1>1
  <2> HIDE DEF p
  <2>2. Cong(p % q, p, q)
    BY <2>1, CongOfMod
  <2> QED
    BY <2>1, <2>2 DEF p
<1> QED
  BY <1>1, <1>2

\* Powers multiply by adding exponents.
LEMMA PowersAdd ==
    ASSUME NEW q \in Nat, q > 1, NEW b \in Int, NEW w, IsPowersMod(w, b, q),
           NEW i \in Nat, NEW j \in Nat
    PROVE  w[i + j] = (w[i] * w[j]) % q /\ Cong(w[i + j], w[i] * w[j], q)
<1> DEFINE G == {k \in Nat : Cong(w[i + k], w[i] * w[k], q)}
<1>1. /\ w[0] = 1
      /\ \A n \in Nat : w[n] \in 0..(q - 1) /\ w[n] \in Int /\ Cong(w[n + 1], w[n] * b, q)
  BY PowersFacts
<1>2. 0 \in G
  <2>1. i + 0 = i /\ w[i] * 1 = w[i]
    BY <1>1
  <2> QED
    BY <1>1, <2>1, CongRefl
<1>3. ASSUME NEW k \in Nat, k \in G PROVE k + 1 \in G
  <2> DEFINE u == w[i]  v == w[k]  s == w[i + k]
  <2>1. u \in Int /\ v \in Int /\ s \in Int /\ i + k \in Nat /\ i + (k + 1) = (i + k) + 1
    BY <1>1
  <2>2. Cong(w[(i + k) + 1], s * b, q) /\ Cong(w[k + 1], v * b, q) /\ Cong(s, u * v, q)
        /\ w[(i + k) + 1] \in Int /\ w[k + 1] \in Int
    BY <1>1, <1>3, <2>1
  <2> HIDE DEF u, v, s
  <2> DEFINE sb == s * b  vb == v * b  uv == u * v  uvb == uv * b  y == w[k + 1]  uy == u * y
  <2>3. /\ sb \in Int /\ vb \in Int /\ uv \in Int /\ uvb \in Int /\ y \in Int /\ uy \in Int
        /\ q \in Int /\ u * vb = uvb
    BY <2>1, <2>2
  <2>4. Cong(s, uv, q) /\ Cong(b, b, q) /\ Cong(u, u, q) /\ Cong(y, vb, q)
    BY <2>1, <2>2, CongRefl
  <2> HIDE DEF vb, uv
  <2>5. Cong(sb, uvb, q)
    BY <2>1, <2>3, <2>4, CongAdd
  <2> HIDE DEF y
  <2>6. Cong(uy, uvb, q)
    BY <2>1, <2>3, <2>4, CongAdd
  <2> HIDE DEF sb, uvb, uy
  <2>7. Cong(uvb, uy, q)
    BY <2>3, <2>6, CongSym
  <2>8. Cong(w[(i + k) + 1], sb, q)
    BY <2>2 DEF sb
  <2>9. Cong(sb, uy, q)
    BY <2>3, <2>5, <2>7, CongTrans
  <2> DEFINE z == w[(i + k) + 1]
  <2>10. z \in Int /\ Cong(z, sb, q)
    BY <2>2, <2>8
  <2> HIDE DEF z
  <2>11. Cong(z, uy, q)
    BY <2>3, <2>9, <2>10, CongTrans
  <2> QED
    BY <2>1, <2>11 DEF z, uy, y, u
<1> HIDE DEF G
<1>4. Nat \subseteq G
  BY <1>2, <1>3, InductionSet
<1>5. Cong(w[i + j], w[i] * w[j], q) /\ w[i + j] \in 0..(q - 1) /\ w[i] * w[j] \in Int
  BY <1>1, <1>4 DEF G
<1> DEFINE s == w[i + j]  p == w[i] * w[j]
<1>6. s \in 0..(q - 1) /\ s \in Int /\ p \in Int /\ Cong(s, p, q) /\ q > 0
  BY <1>5
<1> HIDE DEF s, p
<1>7. s % q = p % q /\ s % q = s
  BY <1>6, CongIff
<1> QED
  BY <1>6, <1>7 DEF s, p

\* The powers of a power.
LEMMA PowersOfPower ==
    ASSUME NEW q \in Nat, q > 1, NEW b \in Int, NEW w, IsPowersMod(w, b, q),
           NEW e \in Nat, NEW c \in Int, Cong(c, w[e], q),
           NEW v, IsPowersMod(v, c, q), NEW i \in Nat
    PROVE  v[i] = w[e * i]
<1> DEFINE G == {k \in Nat : v[k] = w[e * k]}
<1>1. /\ w[0] = 1 /\ \A n \in Nat : w[n] \in 0..(q - 1) /\ w[n] \in Int
  BY PowersFacts
<1>2. /\ v[0] = 1
      /\ \A n \in Nat : v[n] \in 0..(q - 1) /\ v[n] \in Int /\ v[n + 1] = (v[n] * c) % q
  BY PowersFacts
<1>3. 0 \in G
  <2>1. e * 0 = 0
    OBVIOUS
  <2> QED
    BY <1>1, <1>2, <2>1
<1>4. ASSUME NEW k \in Nat, k \in G PROVE k + 1 \in G
  <2> DEFINE ek == e * k  u == w[ek]  p == w[e]
  <2>1. ek \in Nat /\ e * (k + 1) = ek + e
    OBVIOUS
  <2>2. u \in Int /\ p \in Int /\ v[k] = u /\ v[k + 1] = (u * c) % q
    BY <1>1, <1>2, <1>4, <2>1
  <2>3. w[ek + e] = (u * p) % q
    <3> HIDE DEF ek
    <3> QED
      BY <2>1, PowersAdd
  <2> HIDE DEF ek, u, p
  <2>4. Cong(c, p, q)
    BY DEF p
  <2> DEFINE uc == u * c  up == u * p
  <2>5. uc \in Int /\ up \in Int /\ q \in Int /\ Cong(u, u, q) /\ q > 0
    BY <2>2, CongRefl
  <2>6. Cong(uc, up, q)
    BY <2>2, <2>4, <2>5, CongAdd
  <2> HIDE DEF uc, up
  <2>7. uc % q = up % q
    BY <2>5, <2>6, CongIff
  <2> QED
    BY <2>1, <2>2, <2>3, <2>7 DEF uc, up
<1> HIDE DEF G
<1> QED
  BY <1>3, <1>4, InductionSet DEF G

\* A power that is 1 does not change others, however often.
LEMMA PowersPeriod ==
    ASSUME NEW q \in Nat, q > 1, NEW b \in Int, NEW w, IsPowersMod(w, b, q),
           NEW p \in Nat, w[p] = 1, NEW i \in Nat, NEW e \in Nat
    PROVE  w[p * e] = 1 /\ w[i + p * e] = w[i]
<1> DEFINE G == {k \in Nat : w[p * k] = 1}
<1>1. /\ w[0] = 1 /\ \A n \in Nat : w[n] \in 0..(q - 1) /\ w[n] \in Int
  BY PowersFacts
<1>0. \A k \in Nat, l \in Nat : w[k + l] = (w[k] * w[l]) % q
  BY PowersAdd
<1>2. 0 \in G
  BY <1>1
<1>3. ASSUME NEW k \in Nat, k \in G PROVE k + 1 \in G
  <2> DEFINE pk == p * k
  <2>1. pk \in Nat /\ p * (k + 1) = pk + p /\ w[pk] = 1
    BY <1>3
  <2> HIDE DEF pk
  <2>2. w[pk + p] = (w[pk] * w[p]) % q
    BY <2>1, <1>0
  <2>3. (1 * 1) % q = 1
    OBVIOUS
  <2> QED
    BY <2>1, <2>2, <2>3
<1> HIDE DEF G
<1>4. Nat \subseteq G
  BY <1>2, <1>3, InductionSet
<1> DEFINE pe == p * e
<1>5. pe \in Nat /\ w[pe] = 1
  BY <1>4 DEF G
<1> HIDE DEF pe
<1>6. w[i + pe] = (w[i] * w[pe]) % q
  BY <1>5, <1>0
<1> DEFINE u == w[i]
<1>7. u \in 0..(q - 1)
  BY <1>1
<1> HIDE DEF u
<1>8. (u * 1) % q = u
  BY <1>7
<1> QED
  BY <1>5, <1>6, <1>8 DEF pe, u

\* The powers w, of period 2^s, are at -1 half way.
Halves(w, s, q) == w[2^s] = 1 /\ (s > 0 => w[2^(s - 1)] = q - 1)

\* The first power that is 1 is then the one at 2^s.
LEMMA OrderIsExact ==
    ASSUME NEW q \in Nat, q > 2, NEW b \in Int, NEW w, IsPowersMod(w, b, q),
           NEW s \in Nat, Halves(w, s, q), NEW d \in 1..(2^s - 1)
    PROVE  w[d] # 1
<1> DEFINE Right(k) == \A c \in Int : \A v : IsPowersMod(v, c, q) /\ Halves(v, k, q)
                                    => \A e \in 1..(2^k - 1) : v[e] # 1
           G == {k \in Nat : Right(k)}
<1>0. q > 1 /\ 2^0 = 1 /\ \A k \in Nat : 2^k \in Nat /\ 2^(k + 1) = 2 * 2^k
  BY PowerDoubles, PowerOfTwo
<1>1. 0 \in G
  BY <1>0
<1>2. ASSUME NEW k \in Nat, k \in G PROVE k + 1 \in G
  <2>1. SUFFICES ASSUME NEW c \in Int, NEW v, IsPowersMod(v, c, q), Halves(v, k + 1, q),
                        NEW e \in 1..(2^(k + 1) - 1), v[e] = 1
                 PROVE  FALSE
    OBVIOUS
  <2> DEFINE h == 2^k  f == e \div 2
  <2>2. h \in Nat /\ 2^(k + 1) = 2 * h /\ (k + 1) - 1 = k /\ k + 1 > 0
    BY <1>0
  <2>3. v[2 * h] = 1 /\ v[h] = q - 1
    BY <2>1, <2>2 DEF Halves
  <2>4. e \in 1..(2 * h - 1)
    BY <2>1, <2>2
  <2>5. Right(k)
    BY <1>2
  <2> HIDE DEF h
  <2>6. f \in Nat /\ e \in Nat /\ (e = 2 * f \/ e = 2 * f + 1)
    BY <2>2, <2>4
  <2> HIDE DEF f
  <2>7. /\ v[0] = 1 /\ \A n \in Nat : v[n] \in 0..(q - 1) /\ v[n] \in Int
    BY <1>0, <2>1, PowersFacts
  <2>8. CASE e = 2 * f
    <3>1. f \in 1..(h - 1) /\ v[2] \in Int
      BY <2>2, <2>4, <2>6, <2>7, <2>8
    <3>2. PICK u : IsPowersMod(u, v[2], q)
      BY <1>0, <3>1, PowersModExist
    <3> DEFINE two == 2
    <3>3. two \in Nat /\ v[two] \in Int /\ IsPowersMod(u, v[two], q) /\ Cong(v[two], v[two], q)
      BY <3>1, <3>2, CongRefl
    <3> HIDE DEF two
    <3>4. \A n \in Nat : u[n] = v[two * n]
      BY <1>0, <2>1, <3>3, PowersOfPower
    <3>5. u[f] = 1
      BY <2>1, <2>6, <2>8, <3>4 DEF two
    <3>6. u[h] = 1
      BY <2>2, <2>3, <3>4 DEF two
    <3>7. k > 0 => u[2^(k - 1)] = q - 1
      <4>1. SUFFICES ASSUME k > 0 PROVE u[2^(k - 1)] = q - 1
        OBVIOUS
      <4>2. k - 1 \in Nat /\ (k - 1) + 1 = k
        BY <4>1
      <4> DEFINE g == 2^(k - 1)
      <4>3. g \in Nat /\ h = 2 * g
        BY <1>0, <4>2 DEF h
      <4> HIDE DEF g
      <4> QED
        BY <2>3, <3>4, <4>3 DEF g, two
    <3>8. Halves(u, k, q)
      BY <3>6, <3>7 DEF Halves, h
    <3>9. f \in 1..(2^k - 1)
      BY <3>1 DEF h
    <3> QED
      BY <2>5, <3>2, <3>1, <3>5, <3>8, <3>9
  <2>9. CASE e = 2 * f + 1
    <3> DEFINE p == 2 * h  eh == e * h
    <3>1. p \in Nat /\ eh \in Nat /\ v[p] = 1 /\ eh = h + p * f
      BY <2>2, <2>3, <2>6, <2>9
    <3> HIDE DEF p, eh
    <3>2. v[eh] = v[h]
      BY <1>0, <2>1, <2>2, <2>6, <3>1, PowersPeriod
    <3>3. v[e * h] = 1
      <4> DEFINE i == 0
      <4>1. i \in Nat
        OBVIOUS
      <4> HIDE DEF i
      <4> QED
        BY <1>0, <2>1, <2>2, <2>6, <4>1, PowersPeriod
    <3> QED
      BY <2>3, <3>2, <3>3 DEF eh
  <2> QED
    BY <2>6, <2>8, <2>9
<1> HIDE DEF G
<1>3. s \in G
  BY <1>1, <1>2, InductionSet
<1> QED
  BY <1>3 DEF G

\* A geometric sum over a period vanishes.
LEMMA GeometricSum ==
    ASSUME NEW q, IsPrime(q), NEW b \in Int, NEW w, IsPowersMod(w, b, q),
           NEW n \in Nat, NEW d \in Nat, w[d] # 1, w[d * n] = 1
    PROVE  Cong(Total([t \in Nat |-> w[d * t]], n), 0, q)
<1> DEFINE f == [t \in Nat |-> w[d * t]]
           r == w[d]
           G == {k \in Nat : Cong((r - 1) * Total(f, k), w[d * k] - 1, q)}
<1>0. q \in Nat /\ q > 1 /\ q \in Int /\ q > 0
  BY DEF IsPrime
<1>1. /\ w[0] = 1 /\ \A k \in Nat : w[k] \in 0..(q - 1) /\ w[k] \in Int
  BY <1>0, PowersFacts
<1>2. r \in 0..(q - 1) /\ r \in Int /\ \A k \in Nat : d * k \in Nat /\ f[k] = w[d * k] /\ f[k] \in Int
  BY <1>1
<1>3. \A k, l \in Nat : Cong(w[k + l], w[k] * w[l], q)
  BY <1>0, PowersAdd
<1>20. \A k \in Nat : Total(f, 0) = 0 /\ Total(f, k) \in Int /\ Total(f, k + 1) = Total(f, k) + f[k]
  <2> TAKE k \in Nat
  <2>1. \A i \in 0..k : f[i] \in Int
    BY <1>2
  <2> HIDE DEF f
  <2> QED
    BY <2>1, TotalStep
<1> HIDE DEF f, r
<1>4. 0 \in G
  <2>1. d * 0 = 0 /\ (r - 1) * 0 = 0 /\ 1 - 1 = 0 /\ 0 \in Int /\ 0 \in Nat
    BY <1>2
  <2>2. Cong(0, 0, q)
    BY <1>0, <2>1, CongRefl
  <2> QED
    BY <1>1, <1>20, <2>1, <2>2
<1>5. ASSUME NEW k \in Nat, k \in G PROVE k + 1 \in G
  <2> DEFINE dk == d * k  s == Total(f, k)  u == w[dk]  v == w[dk + d]
  <2>1. dk \in Nat /\ d * (k + 1) = dk + d /\ s \in Int /\ u \in Int /\ v \in Int
        /\ Total(f, k + 1) = s + u
    <3>1. dk \in Nat /\ d * (k + 1) = dk + d
      OBVIOUS
    <3>2. u \in Int /\ f[k] = u
      BY <1>2
    <3>3. v \in Int
      <4> HIDE DEF dk
      <4> QED
        BY <1>1, <3>1
    <3>4. s \in Int /\ Total(f, k + 1) = s + f[k]
      BY <1>20
    <3> QED
      BY <3>1, <3>2, <3>3, <3>4
  <2>2. Cong((r - 1) * s, u - 1, q)
    BY <1>5
  <2>3. Cong(v, u * r, q)
    <3> HIDE DEF dk
    <3> QED
      BY <1>3, <2>1 DEF r
  <2> HIDE DEF dk, s, u, v
  <2> DEFINE rs == (r - 1) * s  ur == u * r
  <2>4. rs \in Int /\ ur \in Int /\ (r - 1) * (s + u) = rs + (ur - u)
    BY <1>2, <2>1
  <2>5. Cong(rs, u - 1, q) /\ Cong(v, ur, q)
    BY <2>2, <2>3
  <2> HIDE DEF rs, ur
  <2>6. Cong(ur - u, ur - u, q) /\ ur - u \in Int /\ u - 1 \in Int
    BY <1>0, <2>1, <2>4, CongRefl
  <2>7. Cong(rs + (ur - u), (u - 1) + (ur - u), q)
    BY <1>0, <2>4, <2>5, <2>6, CongAdd
  <2>8. (u - 1) + (ur - u) = ur - 1
    BY <2>1, <2>4
  <2>9. Cong(1, 1, q) /\ Cong(ur, v, q) /\ 1 \in Int
    BY <1>0, <2>1, <2>4, <2>5, CongRefl, CongSym
  <2>10. Cong(ur - 1, v - 1, q)
    BY <1>0, <2>1, <2>4, <2>9, CongAdd
  <2> DEFINE y == rs + (ur - u)  z == ur - 1  m == v - 1
  <2>11. y \in Int /\ z \in Int /\ m \in Int /\ Cong(y, z, q) /\ Cong(z, m, q)
    BY <2>1, <2>4, <2>7, <2>8, <2>10
  <2> HIDE DEF y, z, m
  <2>12. Cong(y, m, q)
    BY <1>0, <2>11, CongTrans
  <2> QED
    BY <2>1, <2>4, <2>12 DEF y, m, v
<1> HIDE DEF G
<1>6. n \in G
  BY <1>4, <1>5, InductionSet
<1> DEFINE s == Total(f, n)  a == r - 1
<1>7. s \in Int /\ a \in Int /\ Cong(a * s, 0, q)
  <2>1. w[d * n] - 1 = 0
    OBVIOUS
  <2>2. Cong((r - 1) * Total(f, n), w[d * n] - 1, q)
    BY <1>6 DEF G
  <2> QED
    BY <1>2, <1>20, <2>1, <2>2
<1>8. a % q # 0
  <2>1. r # 1
    BY DEF r
  <2>2. CASE r = 0
    <3>1. a = -1 * q + (q - 1) /\ q - 1 \in 0..(q - 1) /\ -1 \in Int
      BY <2>2, <1>0
    <3>2. (-1 * q + (q - 1)) % q = q - 1
      BY <1>0, <3>1, QuotientUnique
    <3> QED
      BY <1>0, <3>1, <3>2
  <2>3. CASE r > 0
    <3>1. a \in 0..(q - 1) /\ a # 0
      BY <1>0, <1>2, <2>1, <2>3
    <3> HIDE DEF a
    <3>2. a % q = a
      BY <1>0, <3>1
    <3> QED
      BY <3>1, <3>2
  <2> QED
    BY <1>2, <2>2, <2>3
<1> HIDE DEF s, a
<1>9. IsUnit(a, q)
  BY <1>7, <1>8, PrimeUnit
<1> DEFINE o == 0
<1>10. o \in Int /\ Cong(a * s, a * o, q)
  BY <1>7
<1> HIDE DEF o
<1>11. Cong(s, o, q)
  BY <1>0, <1>7, <1>9, <1>10, UnitCancel
<1> QED
  BY <1>11 DEF s, o, f

\* Ones add up to their number.
LEMMA OnesSum ==
    ASSUME NEW f, NEW n \in Nat, \A i \in Nat : f[i] = 1
    PROVE  Total(f, n) = n
<1> DEFINE G == {k \in Nat : Total(f, k) = k}
<1>1. \A k \in Nat : Total(f, 0) = 0 /\ Total(f, k + 1) = Total(f, k) + f[k]
  <2> TAKE k \in Nat
  <2>1. \A i \in 0..k : f[i] \in Int
    OBVIOUS
  <2> QED
    BY <2>1, TotalStep
<1>2. 0 \in G /\ \A k \in Nat : k \in G => k + 1 \in G
  BY <1>1
<1> HIDE DEF G
<1>3. n \in G
  BY <1>2, InductionSet
<1> QED
  BY <1>3 DEF G

-----------------------------------------------------------------------------
(* The transform of a power of two of places, halved and halved again.      *)

\* The sum over the places c, c + k, c + 2 k, ... of a, m in all, at the power
\* e of the root whose powers are w.
Part(a, k, c, m, w, e) == Total([t \in Nat |-> a[c + t * k] * w[e * t]], m)

\* Places to transform, and the powers of the root to do it with.
Transforms(a, w, b, q) ==
    q \in Nat /\ q > 1 /\ b \in Int /\ IsPowersMod(w, b, q) /\ a \in [Nat -> Int]

\* Part is a sum of m terms.
PartSums(a, k, c, w, e) ==
    /\ Part(a, k, c, 0, w, e) = 0
    /\ \A m \in Nat :
          /\ Part(a, k, c, m, w, e) \in Int /\ a[c + m * k] * w[e * m] \in Int
          /\ Part(a, k, c, m + 1, w, e) = Part(a, k, c, m, w, e) + a[c + m * k] * w[e * m]

\* It is.
LEMMA PartFacts ==
    ASSUME NEW q, NEW b, NEW w, NEW a, Transforms(a, w, b, q),
           NEW k \in Nat, NEW c \in Nat, NEW e \in Nat
    PROVE  PartSums(a, k, c, w, e)
<1> DEFINE f == [t \in Nat |-> a[c + t * k] * w[e * t]]
<1>0. q \in Nat /\ q > 1 /\ b \in Int /\ IsPowersMod(w, b, q) /\ a \in [Nat -> Int]
  BY DEF Transforms
<1>1. \A t \in Nat : f[t] \in Int /\ f[t] = a[c + t * k] * w[e * t]
  <2> TAKE t \in Nat
  <2> DEFINE i == c + t * k  j == e * t
  <2>1. i \in Nat /\ j \in Nat /\ f[t] = a[i] * w[j]
    OBVIOUS
  <2> HIDE DEF i, j
  <2>2. a[i] \in Int /\ w[j] \in Int
    BY <2>1, <1>0, PowersFacts
  <2> HIDE DEF f
  <2>3. f[t] \in Int
    BY <2>1, <2>2
  <2> QED
    BY <2>1, <2>3 DEF i, j
<1> HIDE DEF f
<1>3. \A m \in Nat : Total(f, 0) = 0 /\ Total(f, m) \in Int /\ Total(f, m + 1) = Total(f, m) + f[m]
  <2> TAKE m \in Nat
  <2>1. \A i \in 0..m : f[i] \in Int
    BY <1>1
  <2> QED
    BY <2>1, TotalStep
<1>4. \A m \in Nat : Total(f, m) = Part(a, k, c, m, w, e)
  BY DEF Part, f
<1>5. 0 \in Nat
  OBVIOUS
<1>6. Part(a, k, c, 0, w, e) = 0
  BY <1>3, <1>4, <1>5
<1>7. ASSUME NEW m \in Nat
      PROVE  /\ Part(a, k, c, m, w, e) \in Int /\ a[c + m * k] * w[e * m] \in Int
             /\ Part(a, k, c, m + 1, w, e) = Part(a, k, c, m, w, e) + a[c + m * k] * w[e * m]
  <2>1. m + 1 \in Nat
    OBVIOUS
  <2>2. Total(f, m) = Part(a, k, c, m, w, e) /\ Total(f, m + 1) = Part(a, k, c, m + 1, w, e)
    BY <1>4, <2>1
  <2> DEFINE p == a[c + m * k] * w[e * m]
  <2>3. f[m] \in Int /\ f[m] = p
    BY <1>1
  <2> HIDE DEF p
  <2>4. Total(f, m) \in Int /\ Total(f, m + 1) = Total(f, m) + f[m]
    BY <1>3
  <2> QED
    BY <2>2, <2>3, <2>4 DEF p
<1> QED
  BY <1>6, <1>7 DEF PartSums

\* Every other place, and the places between.
LEMMA PartHalves ==
    ASSUME NEW q, NEW b, NEW w, NEW a, Transforms(a, w, b, q), NEW k \in Nat, NEW c \in Nat, NEW e \in Nat, NEW h \in Nat
    PROVE  /\ Part(a, k, c, 2 * h, w, e) \in Int
           /\ Part(a, 2 * k, c, h, w, 2 * e) \in Int
           /\ Part(a, 2 * k, c + k, h, w, 2 * e) \in Int
           /\ Cong(Part(a, k, c, 2 * h, w, e),
                   Part(a, 2 * k, c, h, w, 2 * e)
                     + w[e] * Part(a, 2 * k, c + k, h, w, 2 * e), q)
<1> DEFINE P(m) == Part(a, k, c, m, w, e)
           A(m) == Part(a, 2 * k, c, m, w, 2 * e)
           B(m) == Part(a, 2 * k, c + k, m, w, 2 * e)
           r == w[e]
           G == {m \in Nat : Cong(P(2 * m), A(m) + r * B(m), q)}
<1>00. q \in Nat /\ q > 1 /\ b \in Int /\ IsPowersMod(w, b, q)
  BY DEF Transforms
<1>0. q \in Int /\ q > 0 /\ 2 * k \in Nat /\ c + k \in Nat /\ 2 * e \in Nat
  BY <1>00
<1>1. /\ P(0) = 0
      /\ \A m \in Nat : /\ P(m) \in Int /\ a[c + m * k] * w[e * m] \in Int
                         /\ P(m + 1) = P(m) + a[c + m * k] * w[e * m]
  <2>1. PartSums(a, k, c, w, e)
    BY PartFacts
  <2> QED
    BY <2>1 DEF PartSums
<1>2. /\ A(0) = 0
      /\ \A m \in Nat : /\ A(m) \in Int /\ a[c + m * (2 * k)] * w[(2 * e) * m] \in Int
                         /\ A(m + 1) = A(m) + a[c + m * (2 * k)] * w[(2 * e) * m]
  <2>1. PartSums(a, 2 * k, c, w, 2 * e)
    BY <1>0, PartFacts
  <2> QED
    BY <2>1 DEF PartSums
<1>3. /\ B(0) = 0
      /\ \A m \in Nat : /\ B(m) \in Int /\ a[(c + k) + m * (2 * k)] * w[(2 * e) * m] \in Int
                         /\ B(m + 1) = B(m) + a[(c + k) + m * (2 * k)] * w[(2 * e) * m]
  <2>1. PartSums(a, 2 * k, c + k, w, 2 * e)
    BY <1>0, PartFacts
  <2> QED
    BY <2>1 DEF PartSums
<1>4. \A i \in Nat : w[i] \in Int
  BY <1>00, PowersFacts
<1>5. \A i, j \in Nat : Cong(w[i + j], w[i] * w[j], q)
  BY <1>00, PowersAdd
<1> HIDE DEF P, A, B
<1>6. 0 \in G
  <2>1. r \in Int /\ 2 * 0 = 0 /\ r * 0 = 0 /\ 0 + 0 = 0 /\ 0 \in Nat /\ 0 \in Int
    BY <1>4
  <2>2. Cong(0, 0, q)
    BY <1>0, <2>1, CongRefl
  <2> QED
    BY <1>1, <1>2, <1>3, <2>1, <2>2
<1>7. ASSUME NEW m \in Nat, m \in G PROVE m + 1 \in G
  <2> DEFINE mm == 2 * m  i == (2 * e) * m  u == a[c + m * (2 * k)]  v == a[(c + k) + m * (2 * k)]
             x == w[i]  y == w[e + i]
  <2>1. /\ mm \in Nat /\ i \in Nat /\ e + i \in Nat /\ 2 * (m + 1) = (mm + 1) + 1
        /\ c + m * (2 * k) \in Nat /\ (c + k) + m * (2 * k) \in Nat
    OBVIOUS
  <2>2. /\ c + mm * k = c + m * (2 * k) /\ e * mm = i
        /\ c + (mm + 1) * k = (c + k) + m * (2 * k) /\ e * (mm + 1) = e + i
    OBVIOUS
  <2>3. u \in Int /\ v \in Int /\ x \in Int /\ y \in Int /\ r \in Int
    <3> DEFINE ia == c + m * (2 * k)  ib == (c + k) + m * (2 * k)
    <3>1. ia \in Nat /\ ib \in Nat /\ a \in [Nat -> Int]
      BY <2>1 DEF Transforms
    <3> HIDE DEF ia, ib, i
    <3>2. a[ia] \in Int /\ a[ib] \in Int /\ w[i] \in Int /\ w[e + i] \in Int /\ w[e] \in Int
      BY <1>4, <2>1, <3>1
    <3> QED
      BY <3>2 DEF ia, ib
  <2>4. P(mm) \in Int /\ P(mm + 1) = P(mm) + u * x /\ P(2 * (m + 1)) = (P(mm) + u * x) + v * y
    <3>1. P(mm + 1) = P(mm) + a[c + mm * k] * w[e * mm] /\ P(mm) \in Int
      BY <1>1, <2>1
    <3>2. P((mm + 1) + 1) = P(mm + 1) + a[c + (mm + 1) * k] * w[e * (mm + 1)]
      <4> DEFINE l == mm + 1
      <4>1. l \in Nat
        BY <2>1
      <4> HIDE DEF l
      <4>2. P(l + 1) = P(l) + a[c + l * k] * w[e * l]
        BY <1>1, <4>1
      <4> QED
        BY <4>2 DEF l
    <3> QED
      BY <2>1, <2>2, <3>1, <3>2
  <2>5. /\ A(m) \in Int /\ A(m + 1) = A(m) + u * x
        /\ B(m) \in Int /\ B(m + 1) = B(m) + v * x
    BY <1>2, <1>3
  <2>6. Cong(y, r * x, q)
    <3> HIDE DEF i
    <3> QED
      BY <1>5, <2>1
  <2>7. Cong(P(mm), A(m) + r * B(m), q)
    BY <1>7
  <2> DEFINE p == P(mm)  s == A(m)  o == B(m)
  <2>8. p \in Int /\ s \in Int /\ o \in Int /\ Cong(p, s + r * o, q)
    BY <2>4, <2>5, <2>7
  <2> HIDE DEF p, s, o, u, v, x, y, r
  <2> DEFINE rx == r * x  ux == u * x  vy == v * y  vrx == v * rx  ro == r * o
  <2>9. /\ rx \in Int /\ ux \in Int /\ vy \in Int /\ vrx \in Int /\ ro \in Int
        /\ Cong(v, v, q) /\ Cong(ux, ux, q) /\ Cong(y, rx, q)
    BY <1>0, <2>3, <2>6, <2>8, CongRefl
  <2>10. (s + ux) + r * (o + v * x) = ((s + ro) + ux) + vrx
    <3>1. r * (o + v * x) = ro + r * (v * x) /\ r * (v * x) = vrx
      BY <2>3, <2>8
    <3> DEFINE z == r * (o + v * x)
    <3> HIDE DEF ro, vrx, ux, z
    <3>2. z = ro + vrx
      BY <3>1 DEF z
    <3> QED
      BY <2>8, <2>9, <3>2 DEF z
  <2> HIDE DEF rx
  <2>11. Cong(vy, vrx, q)
    BY <1>0, <2>3, <2>9, CongAdd
  <2> HIDE DEF vy, vrx, ux, ro
  <2>12. Cong(p, s + ro, q)
    BY <2>8 DEF ro
  <2> DEFINE l1 == s + ro  l2 == p + ux  l3 == l1 + ux
  <2>13. l1 \in Int /\ l2 \in Int /\ l3 \in Int /\ Cong(p, l1, q)
    BY <2>8, <2>9, <2>12
  <2> HIDE DEF l1
  <2>14. Cong(l2, l3, q)
    BY <1>0, <2>8, <2>9, <2>13, CongAdd
  <2> HIDE DEF l2, l3
  <2>15. Cong(l2 + vy, l3 + vrx, q)
    BY <1>0, <2>9, <2>11, <2>13, <2>14, CongAdd
  <2>16. P(2 * (m + 1)) = l2 + vy /\ A(m + 1) + r * B(m + 1) = l3 + vrx
    BY <2>4, <2>5, <2>10 DEF l1, l2, l3, vy, ux, p, s, o, ro
  <2> QED
    BY <2>15, <2>16
<1> HIDE DEF G
<1>8. h \in G
  BY <1>6, <1>7, InductionSet
<1>9. P(2 * h) \in Int /\ A(h) \in Int /\ B(h) \in Int /\ Cong(P(2 * h), A(h) + r * B(h), q)
  <2>1. 2 * h \in Nat
    OBVIOUS
  <2> DEFINE hh == 2 * h
  <2>2. hh \in Nat /\ Cong(P(hh), A(h) + r * B(h), q)
    BY <1>8, <2>1 DEF G
  <2> HIDE DEF hh
  <2>3. P(hh) \in Int /\ A(h) \in Int /\ B(h) \in Int
    BY <1>1, <1>2, <1>3, <2>2
  <2> QED
    BY <2>2, <2>3 DEF hh
<1> QED
  BY <1>9 DEF P, A, B, r

\* Powers that differ by a period make no difference.
LEMMA PartPeriod ==
    ASSUME NEW q, NEW b, NEW w, NEW a, Transforms(a, w, b, q), NEW k \in Nat, NEW c \in Nat, NEW e \in Nat, NEW m \in Nat,
           NEW p \in Nat, w[p] = 1
    PROVE  Part(a, k, c, m, w, e + p) = Part(a, k, c, m, w, e)
<1>1. ASSUME NEW t \in Nat PROVE w[(e + p) * t] = w[e * t]
  <2> DEFINE i == e * t
  <2>1. i \in Nat /\ (e + p) * t = i + p * t
    OBVIOUS
  <2> HIDE DEF i
  <2>2. w[i + p * t] = w[i]
    BY <2>1, PowersPeriod DEF Transforms
  <2> QED
    BY <2>1, <2>2 DEF i
<1>2. [t \in Nat |-> a[c + t * k] * w[(e + p) * t]] = [t \in Nat |-> a[c + t * k] * w[e * t]]
  BY <1>1
<1> QED
  BY <1>2 DEF Part

\* h takes the places below n to each other, one to one.
Reorders(h, n) ==
    h \in [0..(n - 1) -> 0..(n - 1)] /\ \A k, l \in 0..(n - 1) : h[k] = h[l] => k = l

\* The terms may be taken in any order.
LEMMA TotalReindex ==
    ASSUME NEW n \in Nat, NEW h, Reorders(h, n),
           NEW f, NEW g, \A k \in 0..(n - 1) : f[k] \in Int /\ g[k] = f[h[k]]
    PROVE  Total(g, n) = Total(f, n)
<1> DEFINE S == 0..(n - 1)
<1>1. /\ IsFiniteSet(S) /\ IntOn(f, S) /\ h \in [S -> S]
      /\ \A k, l \in S : h[k] = h[l] => k = l
      /\ \A k \in S : g[k] = f[h[k]]
  BY UptoFinite DEF IntOn, Reorders
<1>2. Total(f, n) = SumFunctionOnSet(f, S) /\ Total(g, n) = SumFunctionOnSet(g, S)
  BY DEF Total
<1> HIDE DEF S
<1>3. SumFunctionOnSet(g, S) = SumFunctionOnSet(f, S)
  BY <1>1, SumReindex
<1> QED
  BY <1>2, <1>3

\* One term that does not vanish.
LEMMA TotalSingle ==
    ASSUME NEW n \in Nat, NEW q \in Int, NEW i \in 0..(n - 1), NEW f,
           \A k \in 0..(n - 1) : f[k] \in Int /\ (k # i => Cong(f[k], 0, q))
    PROVE  Total(f, n) \in Int /\ Cong(Total(f, n), f[i], q)
<1> DEFINE e(m) == IF i < m THEN f[i] ELSE 0
           G == {m \in Nat : m <= n => Cong(Total(f, m), e(m), q)}
<1>0. f[i] \in Int /\ \A m \in Nat : e(m) \in Int
  OBVIOUS
<1>1. \A m \in Nat : m <= n => Total(f, m) \in Int
  <2> TAKE m \in Nat
  <2> HAVE m <= n
  <2>1. \A k \in 0..(m - 1) : f[k] \in Int
    OBVIOUS
  <2> QED
    BY <2>1, TotalType
<1>2. 0 \in G
  <2>1. Total(f, 0) = 0 /\ e(0) = 0
    <3>1. 0..(0 - 1) = {}
      OBVIOUS
    <3> QED
      BY <3>1, SumEmpty DEF Total
  <2>2. 0 \in Int /\ 0 \in Nat
    OBVIOUS
  <2> HIDE DEF e
  <2> QED
    BY <2>1, <2>2, CongRefl
<1>3. ASSUME NEW m \in Nat, m \in G PROVE m + 1 \in G
  <2>1. SUFFICES ASSUME m + 1 <= n PROVE Cong(Total(f, m + 1), e(m + 1), q)
    OBVIOUS
  <2>2. m \in 0..(n - 1) /\ m <= n /\ \A k \in 0..m : f[k] \in Int
    BY <2>1
  <2>3. Total(f, m) \in Int /\ Total(f, m + 1) = Total(f, m) + f[m] /\ f[m] \in Int
    BY <2>2, TotalStep
  <2>4. Cong(Total(f, m), e(m), q)
    BY <1>3, <2>2
  <2> DEFINE s == Total(f, m)  u == f[m]  y == e(m)
  <2>5. s \in Int /\ u \in Int /\ y \in Int /\ Cong(s, y, q)
    BY <1>0, <2>3, <2>4
  <2>6. CASE m = i
    <3>1. y = 0 /\ e(m + 1) = u
      BY <2>6
    <3> HIDE DEF s, u, y, e
    <3>2. Cong(u, u, q)
      BY <2>5, CongRefl
    <3>3. Cong(s + u, y + u, q)
      BY <2>5, <3>2, CongAdd
    <3>4. y + u = u
      BY <2>5, <3>1
    <3> QED
      BY <2>3, <3>1, <3>3, <3>4 DEF s, u
  <2>7. CASE m # i
    <3> DEFINE o == 0
    <3>1. Cong(u, o, q) /\ e(m + 1) = y /\ o \in Int /\ y + o = y
      BY <2>2, <2>5, <2>7
    <3> HIDE DEF s, u, y, e, o
    <3>2. Cong(s + u, y + o, q)
      BY <2>5, <3>1, CongAdd
    <3> QED
      BY <2>3, <3>1, <3>2 DEF s, u
  <2> QED
    BY <2>6, <2>7
<1> HIDE DEF G
<1>4. n \in G
  BY <1>2, <1>3, InductionSet
<1>5. Cong(Total(f, n), e(n), q) /\ e(n) = f[i] /\ n <= n
  BY <1>4 DEF G
<1> QED
  BY <1>1, <1>5

\* Coefficient k of the product of f and g, where X^n is -1.
Wrapped(f, g, n, k) ==
    Total([a \in 0..(n - 1) |-> IF a <= k THEN f[a] * g[k - a] ELSE -(f[a] * g[k - a + n])], n)

\* The value of f at the point whose powers are v.
ValueAt(f, v, n) == Total([k \in 0..(n - 1) |-> f[k] * v[k]], n)

\* Coefficients, and a point that X^n = -1 holds of.
Evaluates(f, v, n, b, q) ==
    /\ n \in Nat /\ q \in Nat /\ q > 1 /\ b \in Int /\ IsPowersMod(v, b, q) /\ v[n] = q - 1
    /\ \A k \in 0..(n - 1) : f[k] \in Int

\* Values are integers.
LEMMA ValueAtType ==
    ASSUME NEW f, NEW v, NEW n, NEW b, NEW q, Evaluates(f, v, n, b, q)
    PROVE  ValueAt(f, v, n) \in Int
<1> DEFINE h == [k \in 0..(n - 1) |-> f[k] * v[k]]
<1>1. n \in Nat /\ \A k \in 0..(n - 1) : k \in Nat /\ f[k] \in Int
  BY DEF Evaluates
<1>2. \A k \in Nat : v[k] \in Int
  BY PowersFacts DEF Evaluates
<1>3. \A k \in 0..(n - 1) : h[k] \in Int
  <2> TAKE k \in 0..(n - 1)
  <2>1. f[k] \in Int /\ v[k] \in Int /\ h[k] = f[k] * v[k]
    BY <1>1, <1>2
  <2> HIDE DEF h
  <2> QED
    BY <2>1
<1> HIDE DEF h
<1>4. Total(h, n) \in Int
  BY <1>1, <1>3, TotalType
<1> QED
  BY <1>4 DEF ValueAt, h

\* Where the product's term of f[a] comes from, and what becomes of it.
LEMMA WrappedTerm ==
    ASSUME NEW f, NEW g, NEW v, NEW n, NEW b, NEW q,
           Evaluates(f, v, n, b, q), Evaluates(g, v, n, b, q),
           NEW a \in 0..(n - 1), NEW k \in 0..(n - 1)
    PROVE  LET term == IF a <= k THEN f[a] * g[k - a] ELSE -(f[a] * g[k - a + n])
               j == IF a <= k THEN k - a ELSE k - a + n
           IN  /\ term \in Int /\ term * v[k] \in Int /\ f[a] * v[a] \in Int
               /\ j \in 0..(n - 1) /\ g[j] * v[j] \in Int
               /\ Cong(term * v[k], (f[a] * v[a]) * (g[j] * v[j]), q)
<1> DEFINE term == IF a <= k THEN f[a] * g[k - a] ELSE -(f[a] * g[k - a + n])
           j == IF a <= k THEN k - a ELSE k - a + n
<1>1. /\ n \in Nat /\ q \in Nat /\ q > 1 /\ q \in Int /\ b \in Int /\ IsPowersMod(v, b, q)
      /\ v[n] = q - 1 /\ a \in Nat /\ k \in Nat
      /\ \A i \in 0..(n - 1) : i \in Nat /\ f[i] \in Int /\ g[i] \in Int
  BY DEF Evaluates
<1>2. \A i \in Nat : v[i] \in Int /\ v[i] \in 0..(q - 1)
  BY <1>1, PowersFacts
<1>3. \A i, l \in Nat : Cong(v[i + l], v[i] * v[l], q)
  BY <1>1, PowersAdd
<1>4. j \in 0..(n - 1) /\ j \in Nat
  BY <1>1
<1>5. /\ a <= k => a + j = k
      /\ ~(a <= k) => a + j = k + n
  BY <1>1
<1>50. term = IF a <= k THEN f[a] * g[j] ELSE -(f[a] * g[j])
  OBVIOUS
<1> HIDE DEF j, term
<1> DEFINE fa == f[a]  gj == g[j]  va == v[a]  vj == v[j]  vk == v[k]  aj == a + j
           p == fa * gj  vv == va * vj  y == v[aj]
<1>6. /\ fa \in Int /\ gj \in Int /\ va \in Int /\ vj \in Int /\ vk \in Int
      /\ aj \in Nat
  BY <1>1, <1>2, <1>4
<1>7. y \in Int /\ Cong(y, vv, q)
  <2>1. Cong(v[a + j], v[a] * v[j], q)
    BY <1>1, <1>3, <1>4
  <2> HIDE DEF aj
  <2>2. v[aj] \in Int
    BY <1>2, <1>6
  <2> QED
    BY <2>1, <2>2 DEF aj
<1>8. term = IF a <= k THEN p ELSE -p
  BY <1>50
<1>9. p \in Int /\ vv \in Int
  BY <1>6
<1>10. (fa * va) * (gj * vj) = p * vv
  BY <1>6
<1>11. a <= k => y = vk
  BY <1>5
<1>12. ~(a <= k) => Cong(y, -vk, q)
  <2>1. SUFFICES ASSUME ~(a <= k) PROVE Cong(y, -vk, q)
    OBVIOUS
  <2>2. y = v[k + n]
    BY <1>5, <2>1
  <2>3. Cong(v[k + n], v[k] * v[n], q)
    BY <1>1, <1>3
  <2>4. v[k] * v[n] = vk * (q - 1)
    BY <1>1
  <2> HIDE DEF vk, y
  <2>5. vk * (q - 1) = -vk + vk * q
    BY <1>1, <1>6
  <2> DEFINE z == vk * (q - 1)  m == -vk
  <2>6. z \in Int /\ m \in Int /\ Cong(z, m, q) /\ Cong(y, z, q)
    BY <1>1, <1>6, <2>2, <2>3, <2>4, <2>5 DEF Cong
  <2> HIDE DEF z, m
  <2>7. Cong(y, m, q)
    BY <1>1, <1>7, <2>6, CongTrans
  <2> QED
    BY <2>7 DEF m
<1> HIDE DEF fa, gj, va, vj, vk, aj, y
<1>13. fa * va \in Int /\ gj * vj \in Int
  BY <1>6
<1> HIDE DEF p, vv
<1> DEFINE py == p * y  pv == p * vv
<1>14. py \in Int /\ pv \in Int /\ Cong(p, p, q)
  BY <1>1, <1>7, <1>9, CongRefl
<1>15. Cong(py, pv, q)
  BY <1>1, <1>7, <1>9, <1>14, CongAdd
<1>16. term \in Int /\ term * vk \in Int /\ Cong(term * vk, py, q)
  <2>1. CASE a <= k
    <3>1. term * vk = py
      BY <1>8, <1>11, <2>1
    <3> QED
      BY <1>1, <1>8, <1>9, <1>14, <2>1, <3>1, CongRefl
  <2>2. CASE ~(a <= k)
    <3>1. term * vk = p * (-vk) /\ term \in Int
      BY <1>6, <1>8, <1>9, <2>2
    <3> DEFINE m == -vk  pm == p * m
    <3>2. m \in Int /\ pm \in Int /\ Cong(y, m, q)
      BY <1>6, <1>9, <1>12, <2>2
    <3> HIDE DEF m
    <3>3. Cong(py, pm, q)
      BY <1>1, <1>7, <1>9, <1>14, <3>2, CongAdd
    <3> HIDE DEF pm, py
    <3>4. Cong(pm, py, q)
      BY <1>1, <1>14, <3>2, <3>3, CongSym
    <3> QED
      BY <3>1, <3>2, <3>4 DEF pm, m
  <2> QED
    BY <2>1, <2>2
<1> DEFINE z == term * vk
<1>17. z \in Int /\ Cong(z, py, q)
  BY <1>16
<1> HIDE DEF z, py, pv
<1>18. Cong(z, pv, q)
  BY <1>1, <1>14, <1>15, <1>17, CongTrans
<1>19. Cong(term * vk, (fa * va) * (gj * vj), q)
  BY <1>10, <1>18 DEF z, pv
<1> QED
  BY <1>4, <1>13, <1>16, <1>19 DEF term, j, fa, va, gj, vj, vk

\* The value of the product is the product of the values.
LEMMA WrappedMultiplies ==
    ASSUME NEW f, NEW g, NEW v, NEW n, NEW b, NEW q,
           Evaluates(f, v, n, b, q), Evaluates(g, v, n, b, q),
           NEW c, \A k \in 0..(n - 1) : c[k] \in Int /\ Cong(c[k], Wrapped(f, g, n, k), q)
    PROVE  Cong(ValueAt(c, v, n), ValueAt(f, v, n) * ValueAt(g, v, n), q)
<1> DEFINE I == 0..(n - 1)
           term(a, k) == IF a <= k THEN f[a] * g[k - a] ELSE -(f[a] * g[k - a + n])
           j(a, k) == IF a <= k THEN k - a ELSE k - a + n
           cv == [k \in I |-> c[k] * v[k]]
           fv == [k \in I |-> f[k] * v[k]]
           gv == [k \in I |-> g[k] * v[k]]
           T == [k \in I |-> [a \in I |-> term(a, k)]]
           F == [k \in I |-> [a \in I |-> term(a, k) * v[k]]]
           sF == [k \in I |-> Total(F[k], n)]
           C == [a \in I |-> [k \in I |-> F[k][a]]]
           sC == [a \in I |-> Total(C[a], n)]
           vg == ValueAt(g, v, n)
<1>1. n \in Nat /\ q \in Nat /\ q > 1 /\ q \in Int /\ \A k \in I : k \in Nat
  BY DEF Evaluates
<1>2. \A a, k \in I : /\ term(a, k) \in Int /\ term(a, k) * v[k] \in Int
                      /\ j(a, k) \in I /\ g[j(a, k)] * v[j(a, k)] \in Int
                      /\ f[a] * v[a] \in Int
                      /\ Cong(term(a, k) * v[k], (f[a] * v[a]) * (g[j(a, k)] * v[j(a, k)]), q)
  BY WrappedTerm
<1>3. vg \in Int /\ ValueAt(f, v, n) \in Int
  BY ValueAtType
<1>4. \A k \in I : v[k] \in Int
  <2> TAKE k \in I
  <2>1. k \in Nat /\ b \in Int /\ IsPowersMod(v, b, q)
    BY <1>1 DEF Evaluates
  <2> QED
    BY <1>1, <2>1, PowersFacts
<1> HIDE DEF term, j
<1>5. \A k \in I : cv[k] \in Int /\ sF[k] \in Int /\ Cong(cv[k], sF[k], q)
  <2> TAKE k \in I
  <2> DEFINE vk == v[k]  ck == c[k]  s == Total(T[k], n)
  <2>1. \A a \in I : T[k][a] \in Int /\ F[k][a] \in Int /\ F[k][a] = vk * T[k][a]
    <3> TAKE a \in I
    <3>1. T[k][a] = term(a, k) /\ F[k][a] = term(a, k) * v[k]
      OBVIOUS
    <3>2. term(a, k) \in Int /\ v[k] \in Int
      BY <1>2, <1>4
    <3> HIDE DEF T, F
    <3> QED
      BY <3>1, <3>2
  <2>2. T[k] = [a \in I |-> IF a <= k THEN f[a] * g[k - a] ELSE -(f[a] * g[k - a + n])]
    BY DEF term
  <2>3. s = Wrapped(f, g, n, k)
    BY <2>2 DEF Wrapped
  <2>4. ck \in Int /\ vk \in Int /\ Cong(ck, s, q) /\ cv[k] = ck * vk /\ sF[k] = Total(F[k], n)
    BY <1>4, <2>3
  <2> HIDE DEF T, F, cv, sF, ck, vk
  <2>5. \A a \in I : T[k][a] \in Int /\ F[k][a] \in Int /\ Cong(F[k][a], vk * T[k][a], q)
    <3> TAKE a \in I
    <3>1. F[k][a] \in Int /\ F[k][a] = vk * T[k][a] /\ T[k][a] \in Int
      BY <2>1
    <3> QED
      BY <1>1, <3>1, CongRefl
  <2> DEFINE Tk == T[k]  Fk == F[k]
  <2>6. \A a \in 0..(n - 1) : Tk[a] \in Int /\ Fk[a] \in Int /\ Cong(Fk[a], vk * Tk[a], q)
    BY <2>5
  <2> HIDE DEF Tk, Fk
  <2>7. Total(Tk, n) \in Int /\ Total(Fk, n) \in Int /\ Cong(Total(Fk, n), vk * Total(Tk, n), q)
    BY <1>1, <2>4, <2>6, TotalScales
  <2> DEFINE t == Total(Fk, n)
  <2>8. s \in Int /\ t \in Int /\ Cong(t, vk * s, q) /\ sF[k] = t
    BY <2>4, <2>7 DEF Tk, Fk
  <2> HIDE DEF s, t
  <2> DEFINE cvk == ck * vk  sv == vk * s
  <2>9. Cong(vk, vk, q) /\ cvk \in Int /\ sv \in Int /\ s * vk = sv
    BY <1>1, <2>4, <2>8, CongRefl
  <2>10. Cong(cvk, s * vk, q)
    BY <1>1, <2>4, <2>8, <2>9, CongAdd
  <2> HIDE DEF cvk, sv
  <2>11. Cong(sv, t, q)
    <3>1. Cong(t, sv, q)
      BY <2>8 DEF sv
    <3> QED
      BY <1>1, <2>8, <2>9, <3>1, CongSym
  <2>12. Cong(cvk, t, q)
    BY <1>1, <2>8, <2>9, <2>10, <2>11, CongTrans
  <2> QED
    BY <2>4, <2>8, <2>9, <2>12 DEF cvk
<1>6. \A k, a \in I : F[k][a] \in Int /\ C[a][k] = F[k][a]
                      /\ F[k][a] = term(a, k) * v[k]
  BY <1>2
<1>7. Total(sF, n) = Total(sC, n)
  <2> HIDE DEF F
  <2>1. \A k \in 0..(n - 1), a \in 0..(n - 1) : F[k][a] \in Int
    BY <1>6
  <2>2. Total([i \in 0..(n - 1) |-> Total(F[i], n)], n)
          = Total([a \in 0..(n - 1) |-> Total([i \in 0..(n - 1) |-> F[i][a]], n)], n)
    BY <1>1, <2>1, TotalSwap
  <2>3. sC = [a \in I |-> Total([i \in 0..(n - 1) |-> F[i][a]], n)]
    OBVIOUS
  <2> QED
    BY <2>2, <2>3
<1>8. \A a \in I : fv[a] \in Int /\ sC[a] \in Int /\ Cong(sC[a], vg * fv[a], q)
  <2> TAKE a \in I
  <2> DEFINE h == [k \in I |-> j(a, k)]  gh == [k \in I |-> gv[h[k]]]  fa == f[a] * v[a]
             Ca == C[a]
  <2>1. fa \in Int /\ fv[a] = fa /\ sC[a] = Total(Ca, n)
    BY <1>2
  <2>2. /\ h \in [I -> I] /\ \A k, l \in I : h[k] = h[l] => k = l
    BY <1>1, <1>2 DEF j
  <2>3. \A k \in I : gv[k] \in Int
    <3> TAKE k \in I
    <3>1. g[k] \in Int /\ v[k] \in Int /\ gv[k] = g[k] * v[k]
      BY <1>4 DEF Evaluates
    <3> HIDE DEF gv
    <3> QED
      BY <3>1
  <2>4. \A k \in I : h[k] = j(a, k) /\ h[k] \in I /\ gh[k] = gv[h[k]] /\ gv[h[k]] = g[h[k]] * v[h[k]]
    BY <1>2
  <2> HIDE DEF h, gh, gv, fa, Ca
  <2>5. Total(gh, n) = Total(gv, n)
    <3>1. Reorders(h, n)
      BY <2>2 DEF Reorders
    <3>2. \A k \in 0..(n - 1) : gv[k] \in Int /\ gh[k] = gv[h[k]]
      BY <2>3, <2>4
    <3> QED
      BY <1>1, <3>1, <3>2, TotalReindex
  <2>6. \A k \in 0..(n - 1) : gh[k] \in Int /\ Ca[k] \in Int /\ Cong(Ca[k], fa * gh[k], q)
    <3> TAKE k \in 0..(n - 1)
    <3>1. Ca[k] = term(a, k) * v[k] /\ gh[k] = g[j(a, k)] * v[j(a, k)]
      BY <1>6, <2>4 DEF Ca
    <3> QED
      BY <1>2, <3>1 DEF fa
  <2>7. Total(gh, n) \in Int /\ Total(Ca, n) \in Int /\ Cong(Total(Ca, n), fa * Total(gh, n), q)
    BY <1>1, <2>1, <2>6, TotalScales
  <2>8. Total(gh, n) = vg
    BY <2>5 DEF gv, ValueAt
  <2>9. fa * vg = vg * fa
    BY <1>3, <2>1
  <2> QED
    BY <2>1, <2>7, <2>8, <2>9
<1> HIDE DEF cv, fv, gv, T, F, sF, C, sC, vg
<1>9. Total(cv, n) \in Int /\ Total(sF, n) \in Int /\ Cong(Total(cv, n), Total(sF, n), q)
  <2>1. \A k \in 0..(n - 1) : sF[k] \in Int /\ cv[k] \in Int /\ Cong(cv[k], sF[k], q)
    BY <1>5
  <2> QED
    BY <1>1, <2>1, TotalCong
<1>10. Total(fv, n) \in Int /\ Total(sC, n) \in Int /\ Cong(Total(sC, n), vg * Total(fv, n), q)
  <2>1. \A k \in 0..(n - 1) : fv[k] \in Int /\ sC[k] \in Int /\ Cong(sC[k], vg * fv[k], q)
    BY <1>8
  <2> QED
    BY <1>1, <1>3, <2>1, TotalScales
<1> DEFINE x == Total(cv, n)  y == Total(sF, n)  vf == Total(fv, n)  z == vg * vf
<1>11. x \in Int /\ y \in Int /\ vf \in Int /\ Cong(x, y, q) /\ Cong(y, z, q)
  BY <1>7, <1>9, <1>10
<1> HIDE DEF x, y, vf
<1>12. z \in Int /\ z = vf * vg
  BY <1>3, <1>11
<1> HIDE DEF z
<1>13. Cong(x, z, q)
  BY <1>1, <1>11, <1>12, CongTrans
<1>14. x = ValueAt(c, v, n) /\ vf = ValueAt(f, v, n)
  BY DEF x, vf, cv, fv, ValueAt
<1> QED
  BY <1>12, <1>13, <1>14 DEF vg

-----------------------------------------------------------------------------
(* Roots and their inverses.                                                *)

\* Powers of a root of order n = 2^s modulo a prime, and those of its inverse.
Inverses(o, u, n, s, q) ==
    /\ IsPrime(q) /\ q > 2 /\ s \in Nat /\ n = 2^s
    /\ \E b \in Int : IsPowersMod(o, b, q)
    /\ \E b \in Int : IsPowersMod(u, b, q)
    /\ Halves(o, s, q) /\ Halves(u, s, q)
    /\ \A t \in Nat : Cong(o[t] * u[t], 1, q)

\* What that says about single powers.
LEMMA InversesFacts ==
    ASSUME NEW o, NEW u, NEW n, NEW s, NEW q, Inverses(o, u, n, s, q)
    PROVE  /\ q \in Nat /\ q > 2 /\ q > 1 /\ q > 0 /\ q \in Int /\ n \in Nat /\ n > 0
           /\ \A i \in Nat : o[i] \in Int /\ u[i] \in Int
           /\ \A i, j \in Nat : Cong(o[i + j], o[i] * o[j], q) /\ Cong(u[i + j], u[i] * u[j], q)
<1>1. q \in Nat /\ q > 2 /\ q > 1 /\ q > 0 /\ q \in Int
  BY DEF Inverses, IsPrime
<1>2. n \in Nat /\ n > 0
  <2>1. 2^0 = 1 /\ s \in Nat /\ n = 2^s
    BY PowerDoubles DEF Inverses
  <2>2. CASE s = 0
    BY <2>1, <2>2
  <2>3. CASE s > 0
    BY <2>1, <2>3, PowerOfTwo
  <2> QED
    BY <2>1, <2>2, <2>3
<1>3. PICK b \in Int : IsPowersMod(o, b, q)
  BY DEF Inverses
<1>4. PICK c \in Int : IsPowersMod(u, c, q)
  BY DEF Inverses
<1>5. \A i \in Nat : o[i] \in Int /\ u[i] \in Int
  BY <1>1, <1>3, <1>4, PowersFacts
<1>6. \A i, j \in Nat : Cong(o[i + j], o[i] * o[j], q)
  BY <1>1, <1>3, PowersAdd
<1>7. \A i, j \in Nat : Cong(u[i + j], u[i] * u[j], q)
  BY <1>1, <1>4, PowersAdd
<1> QED
  BY <1>1, <1>2, <1>5, <1>6, <1>7

\* Powers of a root at a multiple of its order's divisors add up to nothing.
LEMMA RootSum ==
    ASSUME NEW q, IsPrime(q), q > 2, NEW b \in Int, NEW w, IsPowersMod(w, b, q),
           NEW s \in Nat, Halves(w, s, q), NEW n, n = 2^s, NEW d \in 1..(n - 1)
    PROVE  Cong(Total([t \in Nat |-> w[d * t]], n), 0, q)
<1>1. q \in Nat /\ q > 1 /\ n \in Nat /\ d \in Nat
  <2>1. 2^0 = 1 /\ (s > 0 => 2^s \in Nat)
    BY PowerDoubles, PowerOfTwo
  <2> QED
    BY <2>1 DEF IsPrime
<1>2. w[d] # 1
  BY <1>1, OrderIsExact
<1>3. w[n] = 1
  BY DEF Halves
<1>4. w[d * n] = 1
  <2> DEFINE i == 0
  <2>1. i \in Nat /\ d * n = n * d
    BY <1>1
  <2> HIDE DEF i
  <2>2. q \in Nat /\ q > 1 /\ n \in Nat /\ d \in Nat /\ w[n] = 1
    BY <1>1, <1>3
  <2> DEFINE p == n
  <2>20. p \in Nat /\ w[p] = 1
    BY <2>2
  <2> HIDE DEF p
  <2>3. w[p * d] = 1
    BY <2>1, <2>2, <2>20, PowersPeriod
  <2> QED
    BY <2>1, <2>2, <2>3 DEF p
<1> QED
  BY <1>1, <1>2, <1>4, GeometricSum

\* A product of a power and an inverse power, when the power is the larger.
LEMMA CrossTerm ==
    ASSUME NEW a \in Int, NEW p \in Int, NEW u \in Int, NEW d \in Int, NEW q \in Int,
           Cong(a, d * p, q), Cong(p * u, 1, q)
    PROVE  Cong(a * u, d, q)
<1> DEFINE dp == d * p  pu == p * u  au == a * u  dpu == d * pu
<1>1. /\ dp \in Int /\ pu \in Int /\ au \in Int /\ dpu \in Int /\ dp * u = dpu /\ 1 \in Int
      /\ Cong(u, u, q) /\ Cong(d, d, q) /\ d * 1 = d
  BY CongRefl
<1>2. Cong(a, dp, q) /\ Cong(pu, 1, q)
  OBVIOUS
<1> HIDE DEF dp, pu
<1>3. Cong(au, dp * u, q)
  BY <1>1, <1>2, CongAdd
<1>4. Cong(dpu, d * 1, q)
  BY <1>1, <1>2, CongAdd
<1> HIDE DEF au, dpu
<1>5. Cong(au, dpu, q) /\ Cong(dpu, d, q)
  BY <1>1, <1>3, <1>4
<1>6. Cong(au, d, q)
  BY <1>1, <1>5, CongTrans
<1> QED
  BY <1>6 DEF au

\* The sums over a root's powers times its inverse's: n on the diagonal.
LEMMA CrossSums ==
    ASSUME NEW o, NEW u, NEW n, NEW s, NEW q, Inverses(o, u, n, s, q),
           NEW i \in 0..(n - 1), NEW j \in 0..(n - 1)
    PROVE  LET f == [t \in Nat |-> o[t * j] * u[i * t]]
           IN  /\ \A t \in Nat : f[t] \in Int
               /\ Cong(Total(f, n), IF j = i THEN n ELSE 0, q)
<1> DEFINE f == [t \in Nat |-> o[t * j] * u[i * t]]
           P(d) == [t \in Nat |-> o[d * t]]
           M(d) == [t \in Nat |-> u[d * t]]
<1>1. /\ q \in Nat /\ q > 2 /\ q > 1 /\ q > 0 /\ q \in Int /\ n \in Nat /\ n > 0
      /\ \A k \in Nat : o[k] \in Int /\ u[k] \in Int
      /\ \A k, l \in Nat : Cong(o[k + l], o[k] * o[l], q) /\ Cong(u[k + l], u[k] * u[l], q)
  BY InversesFacts
<1>2. i \in Nat /\ j \in Nat /\ \A t \in Nat : t * j \in Nat /\ i * t \in Nat
  OBVIOUS
<1>3. \A t \in Nat : f[t] = o[t * j] * u[i * t] /\ o[t * j] \in Int /\ u[i * t] \in Int /\ f[t] \in Int
  <2> TAKE t \in Nat
  <2>1. f[t] = o[t * j] * u[i * t]
    OBVIOUS
  <2>2. o[t * j] \in Int /\ u[i * t] \in Int
    BY <1>1, <1>2
  <2> HIDE DEF f
  <2> QED
    BY <2>1, <2>2
<1>4. \A t \in Nat : Cong(o[t] * u[t], 1, q)
  BY DEF Inverses
<1>5. ASSUME NEW d \in Nat, NEW t \in Nat
      PROVE P(d)[t] = o[d * t] /\ M(d)[t] = u[d * t] /\ P(d)[t] \in Int /\ M(d)[t] \in Int
  <2>1. d * t \in Nat
    OBVIOUS
  <2>2. o[d * t] \in Int /\ u[d * t] \in Int
    BY <1>1, <2>1
  <2> QED
    BY <2>2
<1> HIDE DEF f, P, M
<1>6. CASE i <= j
  <2> DEFINE d == j - i
  <2>1. d \in Nat /\ d \in 0..(n - 1)
    BY <1>1, <1>2, <1>6
  <2>2. \A t \in 0..(n - 1) : P(d)[t] \in Int /\ f[t] \in Int /\ Cong(f[t], P(d)[t], q)
    <3> TAKE t \in 0..(n - 1)
    <3> DEFINE dt == d * t  it == i * t  tj == t * j
    <3>1. t \in Nat /\ dt \in Nat /\ it \in Nat /\ tj \in Nat
      BY <2>1
    <3>2. tj = dt + it
      BY <3>1, <1>2
    <3>3. P(d)[t] = o[dt] /\ f[t] = o[tj] * u[it] /\ f[t] \in Int /\ P(d)[t] \in Int
      BY <1>3, <1>5, <2>1, <3>1
    <3> HIDE DEF dt, it, tj, d
    <3>4. o[tj] \in Int /\ o[it] \in Int /\ u[it] \in Int /\ o[dt] \in Int
          /\ Cong(o[tj], o[dt] * o[it], q) /\ Cong(o[it] * u[it], 1, q)
      BY <1>1, <1>4, <3>1, <3>2
    <3>5. Cong(o[tj] * u[it], o[dt], q)
      BY <1>1, <3>4, CrossTerm
    <3> QED
      BY <3>3, <3>5
  <2>3. Total(P(d), n) \in Int /\ Total(f, n) \in Int /\ Cong(Total(f, n), Total(P(d), n), q)
    <3> DEFINE p == P(d)
    <3>1. \A t \in 0..(n - 1) : p[t] \in Int /\ f[t] \in Int /\ Cong(f[t], p[t], q)
      BY <2>2
    <3> HIDE DEF p
    <3>2. Total(p, n) \in Int /\ Total(f, n) \in Int /\ Cong(Total(f, n), Total(p, n), q)
      BY <1>1, <3>1, TotalCong
    <3> QED
      BY <3>2 DEF p
  <2>4. CASE j = i
    <3>1. d = 0
      BY <2>4, <1>2
    <3>2. PICK b \in Int : IsPowersMod(o, b, q)
      BY DEF Inverses
    <3>3. o[0] = 1
      BY <1>1, <3>2, PowersFacts
    <3>4. \A t \in Nat : P(d)[t] = 1
      <4> TAKE t \in Nat
      <4>1. d * t = 0
        BY <3>1
      <4>2. P(d)[t] = o[d * t]
        BY <1>5, <2>1
      <4> QED
        BY <4>1, <4>2, <3>3
    <3>5. Total(P(d), n) = n
      <4> DEFINE p == P(d)
      <4>1. \A t \in Nat : p[t] = 1
        BY <3>4
      <4> HIDE DEF p
      <4>2. Total(p, n) = n
        BY <1>1, <4>1, OnesSum
      <4> QED
        BY <4>2 DEF p
    <3> QED
      BY <1>3, <2>3, <2>4, <3>5 DEF f
  <2>5. CASE j # i
    <3>1. d \in 1..(n - 1)
      BY <2>1, <2>5, <1>2
    <3>2. PICK b \in Int : IsPowersMod(o, b, q)
      BY DEF Inverses
    <3>3. IsPrime(q) /\ Halves(o, s, q) /\ s \in Nat /\ n = 2^s
      BY DEF Inverses
    <3> HIDE DEF d
    <3>4. Cong(Total([t \in Nat |-> o[d * t]], n), 0, q)
      BY <1>1, <3>1, <3>2, <3>3, RootSum
    <3> DEFINE a == Total(f, n)  c == Total(P(d), n)  z == 0
    <3>5. a \in Int /\ c \in Int /\ z \in Int /\ Cong(a, c, q) /\ Cong(c, z, q)
      BY <2>3, <3>4 DEF P
    <3> HIDE DEF a, c, z
    <3>6. Cong(a, z, q)
      BY <1>1, <3>5, CongTrans
    <3> QED
      BY <1>3, <2>5, <3>6 DEF f, a, z
  <2> QED
    BY <2>4, <2>5
<1>7. CASE ~(i <= j)
  <2> DEFINE d == i - j
  <2>1. d \in Nat /\ d \in 1..(n - 1) /\ j # i
    BY <1>1, <1>2, <1>7
  <2>2. \A t \in 0..(n - 1) : M(d)[t] \in Int /\ f[t] \in Int /\ Cong(f[t], M(d)[t], q)
    <3> TAKE t \in 0..(n - 1)
    <3> DEFINE dt == d * t  it == i * t  tj == t * j
    <3>1. t \in Nat /\ dt \in Nat /\ it \in Nat /\ tj \in Nat
      BY <2>1
    <3>2. it = dt + tj
      BY <3>1, <1>2
    <3>3. M(d)[t] = u[dt] /\ f[t] = o[tj] * u[it] /\ f[t] \in Int /\ M(d)[t] \in Int
      BY <1>3, <1>5, <2>1, <3>1
    <3> HIDE DEF dt, it, tj, d
    <3>4. o[tj] \in Int /\ u[tj] \in Int /\ u[it] \in Int /\ u[dt] \in Int
          /\ Cong(u[it], u[dt] * u[tj], q) /\ Cong(o[tj] * u[tj], 1, q)
      BY <1>1, <1>4, <3>1, <3>2
    <3> DEFINE x == o[tj]  y == u[tj]  z == u[it]
    <3>5. x \in Int /\ y \in Int /\ z \in Int /\ x * y = y * x /\ x * z = z * x
      BY <3>4
    <3>6. Cong(y * x, 1, q)
      BY <3>4, <3>5
    <3>7. Cong(z * x, u[dt], q)
      <4> HIDE DEF x, y, z
      <4>1. Cong(z, u[dt] * y, q) /\ u[dt] \in Int
        BY <3>4 DEF y, z
      <4> QED
        BY <1>1, <3>5, <3>6, <4>1, CrossTerm
    <3> QED
      BY <3>3, <3>5, <3>7
  <2>3. Total(M(d), n) \in Int /\ Total(f, n) \in Int /\ Cong(Total(f, n), Total(M(d), n), q)
    <3> DEFINE p == M(d)
    <3>1. \A t \in 0..(n - 1) : p[t] \in Int /\ f[t] \in Int /\ Cong(f[t], p[t], q)
      BY <2>2
    <3> HIDE DEF p
    <3>2. Total(p, n) \in Int /\ Total(f, n) \in Int /\ Cong(Total(f, n), Total(p, n), q)
      BY <1>1, <3>1, TotalCong
    <3> QED
      BY <3>2 DEF p
  <2>4. PICK b \in Int : IsPowersMod(u, b, q)
    BY DEF Inverses
  <2>5. IsPrime(q) /\ Halves(u, s, q) /\ s \in Nat /\ n = 2^s
    BY DEF Inverses
  <2> HIDE DEF d
  <2>6. Cong(Total([t \in Nat |-> u[d * t]], n), 0, q)
    BY <1>1, <2>1, <2>4, <2>5, RootSum
  <2> DEFINE a == Total(f, n)  c == Total(M(d), n)  z == 0
  <2>7. a \in Int /\ c \in Int /\ z \in Int /\ Cong(a, c, q) /\ Cong(c, z, q)
    BY <2>3, <2>6 DEF M
  <2> HIDE DEF a, c, z
  <2>8. Cong(a, z, q)
    BY <1>1, <2>7, CongTrans
  <2> QED
    BY <1>3, <2>1, <2>8 DEF f, a, z
<1> QED
  BY <1>2, <1>6, <1>7

\* Transforming back gives n times what was transformed.
LEMMA InverseSums ==
    ASSUME NEW o, NEW u, NEW n, NEW s, NEW q, Inverses(o, u, n, s, q),
           NEW A, \A j \in 0..(n - 1) : A[j] \in Int,
           NEW F, \A t \in 0..(n - 1) :
                      F[t] \in Int /\ Cong(F[t], Total([j \in Nat |-> A[j] * o[t * j]], n), q),
           NEW i \in 0..(n - 1)
    PROVE  /\ Total([t \in Nat |-> F[t] * u[i * t]], n) \in Int
           /\ Cong(Total([t \in Nat |-> F[t] * u[i * t]], n), n * A[i], q)
<1> DEFINE I == 0..(n - 1)
           row(t) == [j \in Nat |-> A[j] * o[t * j]]
           E == [t \in I |-> [j \in I |-> (A[j] * o[t * j]) * u[i * t]]]
           sE == [t \in I |-> Total(E[t], n)]
           C == [j \in I |-> [t \in I |-> E[t][j]]]
           sC == [j \in I |-> Total(C[j], n)]
           f(j) == [t \in Nat |-> o[t * j] * u[i * t]]
           g == [t \in Nat |-> F[t] * u[i * t]]
<1>1. /\ q \in Nat /\ q > 1 /\ q > 0 /\ q \in Int /\ n \in Nat /\ n > 0
      /\ \A k \in Nat : o[k] \in Int /\ u[k] \in Int
  BY InversesFacts
<1>2. \A t \in I : t \in Nat /\ \A j \in I : j \in Nat /\ t * j \in Nat /\ i * t \in Nat
  BY <1>1
<1>3. \A t, j \in I : /\ o[t * j] \in Int /\ u[i * t] \in Int /\ A[j] \in Int
                      /\ row(t)[j] = A[j] * o[t * j] /\ row(t)[j] \in Int
                      /\ E[t][j] = (A[j] * o[t * j]) * u[i * t]
                      /\ E[t][j] \in Int
  <2> TAKE t, j \in I
  <2> DEFINE oo == o[t * j]  uu == u[i * t]  a == A[j]
  <2>1. oo \in Int /\ uu \in Int /\ a \in Int
    BY <1>1, <1>2
  <2>2. row(t)[j] = a * oo /\ E[t][j] = (a * oo) * uu
    BY <1>2
  <2> HIDE DEF oo, uu, a, row, E
  <2>3. a * oo \in Int /\ (a * oo) * uu \in Int
    BY <2>1
  <2> QED
    BY <2>1, <2>2, <2>3 DEF oo, uu, a
<1>4. \A t \in I : g[t] \in Int /\ sE[t] \in Int /\ Cong(g[t], sE[t], q)
  <2> TAKE t \in I
  <2> DEFINE r == row(t)  Et == E[t]  ut == u[i * t]  Ft == F[t]  S == Total(r, n)
  <2>1. ut \in Int /\ Ft \in Int /\ Cong(Ft, S, q) /\ g[t] = Ft * ut /\ sE[t] = Total(Et, n)
    BY <1>2, <1>3
  <2>2. \A j \in 0..(n - 1) : r[j] \in Int /\ Et[j] \in Int /\ Et[j] = r[j] * ut
    BY <1>3
  <2> HIDE DEF r, Et, ut, Ft, g, sE
  <2>3. \A j \in 0..(n - 1) : r[j] \in Int /\ Et[j] \in Int /\ Cong(Et[j], ut * r[j], q)
    <3> TAKE j \in 0..(n - 1)
    <3>1. r[j] \in Int /\ Et[j] \in Int /\ Et[j] = ut * r[j]
      BY <2>1, <2>2
    <3> QED
      BY <1>1, <3>1, CongRefl
  <2>4. S \in Int /\ Total(Et, n) \in Int /\ Cong(Total(Et, n), ut * S, q)
    BY <1>1, <2>1, <2>3, TotalScales
  <2> DEFINE T == Total(Et, n)  fu == Ft * ut  su == ut * S
  <2> HIDE DEF S
  <2>5. /\ T \in Int /\ fu \in Int /\ su \in Int /\ S * ut = su /\ Cong(ut, ut, q)
        /\ Cong(T, su, q)
    BY <1>1, <2>1, <2>4, CongRefl
  <2>6. Cong(fu, S * ut, q)
    BY <1>1, <2>1, <2>4, <2>5, CongAdd
  <2> HIDE DEF T, fu, su
  <2>7. Cong(su, T, q) /\ Cong(fu, su, q)
    BY <1>1, <2>5, <2>6, CongSym
  <2>8. Cong(fu, T, q)
    BY <1>1, <2>5, <2>7, CongTrans
  <2> QED
    BY <2>1, <2>5, <2>8 DEF fu, T
<1>5. Total(sE, n) = Total(sC, n)
  <2>1. sE = [t \in 0..(n - 1) |-> Total(E[t], n)]
        /\ sC = [j \in 0..(n - 1) |-> Total([t \in 0..(n - 1) |-> E[t][j]], n)]
    OBVIOUS
  <2> HIDE DEF E
  <2>2. \A t \in 0..(n - 1), j \in 0..(n - 1) : E[t][j] \in Int
    BY <1>3
  <2>3. Total([t \in 0..(n - 1) |-> Total(E[t], n)], n)
          = Total([j \in 0..(n - 1) |-> Total([t \in 0..(n - 1) |-> E[t][j]], n)], n)
    BY <1>1, <2>2, TotalSwap
  <2> QED
    BY <2>1, <2>3
<1>6. \A j \in I : sC[j] \in Int /\ Cong(sC[j], A[j] * (IF j = i THEN n ELSE 0), q)
  <2> TAKE j \in I
  <2> DEFINE fj == f(j)  Cj == C[j]  a == A[j]  z == IF j = i THEN n ELSE 0  S == Total(fj, n)
  <2>1. /\ \A t \in Nat : fj[t] \in Int
        /\ Cong(S, z, q)
    BY CrossSums
  <2>2. \A t \in I : Cj[t] = E[t][j] /\ fj[t] = o[t * j] * u[i * t]
    BY <1>2
  <2>3. a \in Int /\ z \in Int /\ sC[j] = Total(Cj, n)
    BY <1>1
  <2> HIDE DEF fj, Cj, E, z, sC
  <2>4. \A t \in 0..(n - 1) : fj[t] \in Int /\ Cj[t] \in Int /\ Cong(Cj[t], a * fj[t], q)
    <3> TAKE t \in 0..(n - 1)
    <3> DEFINE oo == o[t * j]  uu == u[i * t]
    <3>1. oo \in Int /\ uu \in Int /\ Cj[t] = (a * oo) * uu /\ fj[t] = oo * uu /\ Cj[t] \in Int
      BY <1>3, <2>2
    <3> HIDE DEF oo, uu, a
    <3>2. Cj[t] = a * fj[t] /\ fj[t] \in Int
      BY <2>3, <3>1
    <3> QED
      BY <1>1, <3>1, <3>2, CongRefl
  <2> HIDE DEF a
  <2>5. S \in Int /\ Total(Cj, n) \in Int /\ Cong(Total(Cj, n), a * S, q)
    BY <1>1, <2>3, <2>4, TotalScales
  <2> HIDE DEF S
  <2> DEFINE T == Total(Cj, n)  aS == a * S  az == a * z
  <2>6. T \in Int /\ aS \in Int /\ az \in Int /\ Cong(a, a, q) /\ Cong(T, aS, q)
    BY <1>1, <2>3, <2>5, CongRefl
  <2>7. Cong(aS, az, q)
    BY <1>1, <2>1, <2>3, <2>5, <2>6, CongAdd
  <2> HIDE DEF T, aS, az
  <2>8. Cong(T, az, q)
    BY <1>1, <2>6, <2>7, CongTrans
  <2> QED
    BY <2>3, <2>6, <2>8 DEF T, az, a, z
<1> DEFINE D == [j \in I |-> A[j] * (IF j = i THEN n ELSE 0)]
<1>7. \A j \in I : D[j] \in Int /\ (j # i => D[j] = 0) /\ D[j] = A[j] * (IF j = i THEN n ELSE 0)
  <2> TAKE j \in I
  <2>1. A[j] \in Int /\ D[j] = A[j] * (IF j = i THEN n ELSE 0)
    OBVIOUS
  <2> DEFINE a == A[j]
  <2>2. a \in Int /\ a * n \in Int /\ a * 0 = 0
    BY <1>1, <2>1
  <2> HIDE DEF D
  <2> QED
    BY <1>1, <2>1, <2>2
<1>8. D[i] = n * A[i] /\ n * A[i] \in Int
  <2> DEFINE a == A[i]
  <2>1. a \in Int /\ D[i] = a * n
    BY <1>7
  <2> HIDE DEF a, D
  <2> QED
    BY <1>1, <2>1 DEF a
<1> HIDE DEF g, sE, sC, D, C, E
<1>9. Total(sC, n) \in Int /\ Total(D, n) \in Int /\ Cong(Total(sC, n), Total(D, n), q)
  <2>1. \A j \in 0..(n - 1) : D[j] \in Int /\ sC[j] \in Int /\ Cong(sC[j], D[j], q)
    BY <1>6, <1>7
  <2> QED
    BY <1>1, <2>1, TotalCong
<1>10. Total(g, n) \in Int /\ Total(sE, n) \in Int /\ Cong(Total(g, n), Total(sE, n), q)
  <2>1. \A j \in 0..(n - 1) : sE[j] \in Int /\ g[j] \in Int /\ Cong(g[j], sE[j], q)
    BY <1>4
  <2> QED
    BY <1>1, <2>1, TotalCong
<1>11. Cong(Total(D, n), D[i], q)
  <2>1. \A j \in 0..(n - 1) : D[j] \in Int /\ (j # i => Cong(D[j], 0, q))
    <3> TAKE j \in 0..(n - 1)
    <3>1. 0 \in Int
      OBVIOUS
    <3> QED
      BY <1>1, <1>7, <3>1, CongRefl
  <2> QED
    BY <1>1, <2>1, TotalSingle
<1> DEFINE x == Total(g, n)  y == Total(sC, n)  z == Total(D, n)  v == n * A[i]
<1>12. x \in Int /\ y \in Int /\ z \in Int /\ v \in Int /\ Cong(x, y, q) /\ Cong(y, z, q) /\ Cong(z, v, q)
  BY <1>5, <1>8, <1>9, <1>10, <1>11
<1> HIDE DEF x, y, z, v
<1>13. Cong(x, z, q)
  BY <1>1, <1>12, CongTrans
<1>14. Cong(x, v, q)
  BY <1>1, <1>12, <1>13, CongTrans
<1> QED
  BY <1>12, <1>14 DEF x, v, g

-----------------------------------------------------------------------------
(* Differences, and the least exponent of a prime.                          *)

\* D[k] is the k-th difference of f.
IsDifferences(D, f) ==
    /\ D \in [Nat -> [Nat -> Int]] /\ D[0] = f
    /\ \A k, i \in Nat : D[k + 1][i] = D[k][i + 1] - D[k][i]

\* Differences exist.
LEMMA DifferencesExist ==
    ASSUME NEW f \in [Nat -> Int]
    PROVE  \E D : IsDifferences(D, f)
<1> DEFINE V == [Nat -> Int]
           step == [n \in Nat |-> [v \in V |-> [i \in Nat |-> v[i + 1] - v[i]]]]
<1>1. \A n \in Nat, v \in V : step[n + 1][v] = [i \in Nat |-> v[i + 1] - v[i]] /\ step[n + 1][v] \in V
  <2> TAKE n \in Nat, v \in V
  <2>1. step[n + 1][v] = [i \in Nat |-> v[i + 1] - v[i]]
    OBVIOUS
  <2>2. \A i \in Nat : v[i + 1] - v[i] \in Int
    <3> TAKE i \in Nat
    <3>1. v[i] \in Int /\ v[i + 1] \in Int
      OBVIOUS
    <3> QED
      BY <3>1
  <2> HIDE DEF step
  <2> QED
    BY <2>1, <2>2
<1>2. f \in V
  OBVIOUS
<1> HIDE DEF step
<1>3. PICK D : IsIteration(D, V, f, step)
  <2> HIDE DEF V
  <2> QED
    BY <1>1, <1>2, Iteration
<1> HIDE DEF V
<1>4. D \in [Nat -> V] /\ D[0] = f /\ \A k \in Nat : D[k + 1] = step[k + 1][D[k]]
  BY <1>3 DEF IsIteration
<1>5. ASSUME NEW k \in Nat, NEW i \in Nat PROVE D[k + 1][i] = D[k][i + 1] - D[k][i]
  <2>1. D[k] \in V
    BY <1>4
  <2>2. D[k + 1] = [l \in Nat |-> D[k][l + 1] - D[k][l]]
    BY <1>1, <1>4, <2>1
  <2> QED
    BY <2>2
<1>6. IsDifferences(D, f)
  BY <1>4, <1>5 DEF IsDifferences, V
<1> QED
  BY <1>6

\* The differences of x * f[x].
LEMMA DifferencesOfProduct ==
    ASSUME NEW f, NEW D, IsDifferences(D, f), NEW g, NEW E, IsDifferences(E, g),
           \A i \in Nat : g[i] = i * f[i]
    PROVE  \A k \in Nat : \A i \in Nat : E[k + 1][i] = i * D[k + 1][i] + (k + 1) * D[k][i + 1]
<1> DEFINE G == {k \in Nat : \A i \in Nat : E[k + 1][i] = i * D[k + 1][i] + (k + 1) * D[k][i + 1]}
<1>1. \A k, i \in Nat : D[k][i] \in Int /\ D[k + 1][i] = D[k][i + 1] - D[k][i]
  BY DEF IsDifferences
<1>2. \A k, i \in Nat : E[k][i] \in Int /\ E[k + 1][i] = E[k][i + 1] - E[k][i]
  BY DEF IsDifferences
<1>3. \A i \in Nat : E[0][i] = i * D[0][i]
  BY DEF IsDifferences
<1>4. 0 \in G
  <2>1. ASSUME NEW i \in Nat PROVE E[0 + 1][i] = i * D[0 + 1][i] + (0 + 1) * D[0][i + 1]
    <3> DEFINE a == D[0][i + 1]  b == D[0][i]
    <3>1. i + 1 \in Nat /\ 0 \in Nat
      OBVIOUS
    <3>2. a \in Int /\ b \in Int /\ D[0 + 1][i] = a - b
      BY <1>1, <3>1
    <3>3. E[0 + 1][i] = (i + 1) * a - i * b
      BY <1>2, <1>3, <3>1
    <3> HIDE DEF a, b
    <3>4. (i + 1) * a - i * b = i * (a - b) + (0 + 1) * a
      BY <3>2
    <3> QED
      BY <3>2, <3>3, <3>4 DEF a
  <2> QED
    BY <2>1
<1>5. ASSUME NEW k \in Nat, k \in G PROVE k + 1 \in G
  <2>1. ASSUME NEW i \in Nat
        PROVE  E[(k + 1) + 1][i] = i * D[(k + 1) + 1][i] + ((k + 1) + 1) * D[k + 1][i + 1]
    <3> DEFINE l == k + 1  j == i + 1
               a == D[l][j]  b == D[l][i]  c == D[k][j + 1]  d == D[k][j]
    <3>1. l \in Nat /\ j \in Nat /\ k \in Nat /\ i \in Nat /\ j + 1 \in Nat
      OBVIOUS
    <3>2. \A m \in Nat : E[l][m] = m * D[l][m] + l * D[k][m + 1]
      BY <1>5
    <3> HIDE DEF l, j
    <3>3. a \in Int /\ b \in Int /\ c \in Int /\ d \in Int
      BY <1>1, <3>1
    <3>4. E[l + 1][i] = E[l][i + 1] - E[l][i] /\ D[l + 1][i] = D[l][i + 1] - D[l][i]
      BY <1>1, <1>2, <3>1
    <3>5. E[l][j] = j * a + l * c /\ E[l][i] = i * b + l * d
      BY <3>1, <3>2 DEF j
    <3>6. D[k + 1][j] = D[k][j + 1] - D[k][j]
      BY <1>1, <3>1
    <3>7. a = c - d
      BY <3>6 DEF l
    <3>8. E[l + 1][i] = (j * a + l * c) - (i * b + l * d) /\ D[l + 1][i] = a - b
      BY <3>4, <3>5 DEF j
    <3> HIDE DEF a, b, c, d
    <3>9. (j * a + l * c) - (i * b + l * d) = i * (a - b) + (l + 1) * a
      <4>1. l * c - l * d = l * a
        BY <3>1, <3>3, <3>7
      <4>2. j * a = i * a + a
        BY <3>1, <3>3 DEF j
      <4>3. i * (a - b) = i * a - i * b /\ (l + 1) * a = l * a + a
        BY <3>1, <3>3
      <4> DEFINE x1 == l * c  x2 == l * d  x3 == l * a  x4 == j * a  x5 == i * a  x6 == i * b
                 x7 == i * (a - b)  x8 == (l + 1) * a
      <4>4. /\ x1 \in Int /\ x2 \in Int /\ x3 \in Int /\ x4 \in Int /\ x5 \in Int /\ x6 \in Int
            /\ x7 \in Int /\ x8 \in Int
        BY <3>1, <3>3
      <4>5. x1 - x2 = x3 /\ x4 = x5 + a /\ x7 = x5 - x6 /\ x8 = x3 + a
        BY <4>1, <4>2, <4>3
      <4> HIDE DEF x1, x2, x3, x4, x5, x6, x7, x8
      <4>6. (x4 + x1) - (x6 + x2) = x7 + x8
        BY <3>3, <4>4, <4>5
      <4> QED
        BY <4>6 DEF x1, x2, x3, x4, x5, x6, x7, x8
    <3> QED
      BY <3>8, <3>9 DEF l, a, j
  <2> QED
    BY <2>1
<1> HIDE DEF G
<1>6. Nat \subseteq G
  BY <1>4, <1>5, InductionSet
<1> QED
  BY <1>6 DEF G

\* P[j][i] is the j-th power of i.
IsPowerTable(P) ==
    /\ P \in [Nat -> [Nat -> Int]] /\ \A i \in Nat : P[0][i] = 1
    /\ \A j, i \in Nat : P[j + 1][i] = i * P[j][i]

\* The table exists.
LEMMA PowerTableExists == \E P : IsPowerTable(P)
<1> DEFINE V == [Nat -> Int]  base == [i \in Nat |-> 1]
           step == [n \in Nat |-> [v \in V |-> [i \in Nat |-> i * v[i]]]]
<1>1. \A n \in Nat, v \in V : step[n + 1][v] = [i \in Nat |-> i * v[i]] /\ step[n + 1][v] \in V
  <2> TAKE n \in Nat, v \in V
  <2>1. step[n + 1][v] = [i \in Nat |-> i * v[i]]
    OBVIOUS
  <2>2. \A i \in Nat : i * v[i] \in Int
    <3> TAKE i \in Nat
    <3>1. v[i] \in Int
      OBVIOUS
    <3> QED
      BY <3>1
  <2> HIDE DEF step
  <2> QED
    BY <2>1, <2>2
<1>2. base \in V
  OBVIOUS
<1> HIDE DEF step
<1>3. PICK P : IsIteration(P, V, base, step)
  <2> HIDE DEF V, base
  <2> QED
    BY <1>1, <1>2, Iteration
<1> HIDE DEF V
<1>4. P \in [Nat -> V] /\ P[0] = base /\ \A k \in Nat : P[k + 1] = step[k + 1][P[k]]
  BY <1>3 DEF IsIteration
<1>5. ASSUME NEW k \in Nat, NEW i \in Nat PROVE P[k + 1][i] = i * P[k][i]
  <2>1. P[k] \in V
    BY <1>4
  <2>2. P[k + 1] = [l \in Nat |-> l * P[k][l]]
    BY <1>1, <1>4, <2>1
  <2> QED
    BY <2>2
<1>6. IsPowerTable(P)
  BY <1>4, <1>5 DEF IsPowerTable, V
<1> QED
  BY <1>6

\* The j-th differences of the j-th powers are all the same number, further
\* ones vanish.  A prime above j does not divide that number.
LEMMA DifferencesOfPowers ==
    ASSUME NEW q, IsPrime(q), NEW P, IsPowerTable(P)
    PROVE  \A j \in Nat : j < q =>
              \A D : IsDifferences(D, P[j]) =>
                 /\ \E c \in Int : IsUnit(c, q) /\ \A i \in Nat : D[j][i] = c
                 /\ \A k, i \in Nat : k > j => D[k][i] = 0
<1> DEFINE Level(j, D) == /\ \E c \in Int : IsUnit(c, q) /\ \A i \in Nat : D[j][i] = c
                          /\ \A k, i \in Nat : k > j => D[k][i] = 0
           G == {j \in Nat : j < q => \A D : IsDifferences(D, P[j]) => Level(j, D)}
<1>0. q \in Nat /\ q > 1 /\ q > 0 /\ q \in Int
  BY DEF IsPrime
<1>1. /\ \A j \in Nat : P[j] \in [Nat -> Int]
      /\ \A i \in Nat : P[0][i] = 1
      /\ \A j, i \in Nat : P[j + 1][i] = i * P[j][i]
  BY DEF IsPowerTable
<1>2. 0 \in G
  <2>1. SUFFICES ASSUME NEW D, IsDifferences(D, P[0]) PROVE Level(0, D)
    OBVIOUS
  <2>2. \A k, i \in Nat : D[k][i] \in Int /\ D[k + 1][i] = D[k][i + 1] - D[k][i]
    BY <2>1 DEF IsDifferences
  <2>3. \A i \in Nat : D[0][i] = 1
    BY <1>1, <2>1 DEF IsDifferences
  <2>4. IsUnit(1, q) /\ 1 \in Int
    <3>1. Cong(1 * 1, 1, q)
      BY <1>0, CongRefl
    <3> QED
      BY <3>1 DEF IsUnit
  <2> DEFINE H == {k \in Nat : \A i \in Nat : D[k + 1][i] = 0}
  <2>5. 0 \in H
    <3>1. ASSUME NEW i \in Nat PROVE D[0 + 1][i] = 0
      <4>1. i + 1 \in Nat /\ 0 \in Nat
        OBVIOUS
      <4>2. D[0 + 1][i] = D[0][i + 1] - D[0][i]
        BY <2>2, <4>1
      <4> QED
        BY <2>3, <4>1, <4>2
    <3> QED
      BY <3>1
  <2>6. ASSUME NEW k \in Nat, k \in H PROVE k + 1 \in H
    <3>1. ASSUME NEW i \in Nat PROVE D[(k + 1) + 1][i] = 0
      <4>1. i + 1 \in Nat /\ k + 1 \in Nat
        OBVIOUS
      <4>2. D[(k + 1) + 1][i] = D[k + 1][i + 1] - D[k + 1][i]
        BY <2>2, <4>1
      <4> QED
        BY <2>6, <4>1, <4>2
    <3> QED
      BY <3>1
  <2> HIDE DEF H
  <2>7. Nat \subseteq H
    BY <2>5, <2>6, InductionSet
  <2>8. \A k, i \in Nat : k > 0 => D[k][i] = 0
    <3> TAKE k, i \in Nat
    <3> HAVE k > 0
    <3>1. k - 1 \in Nat /\ (k - 1) + 1 = k
      OBVIOUS
    <3>2. D[(k - 1) + 1][i] = 0
      BY <2>7, <3>1 DEF H
    <3> QED
      BY <3>1, <3>2
  <2> QED
    BY <2>3, <2>4, <2>8
<1>3. ASSUME NEW j \in Nat, j \in G PROVE j + 1 \in G
  <2>1. SUFFICES ASSUME j + 1 < q, NEW E, IsDifferences(E, P[j + 1]) PROVE Level(j + 1, E)
    OBVIOUS
  <2>2. PICK D : IsDifferences(D, P[j])
    BY <1>1, DifferencesExist
  <2>3. Level(j, D)
    BY <1>0, <1>3, <2>1, <2>2
  <2>4. PICK c \in Int : IsUnit(c, q) /\ \A i \in Nat : D[j][i] = c
    BY <2>3
  <2>5. \A k, i \in Nat : k > j => D[k][i] = 0
    BY <2>3
  <2>6. \A k \in Nat : \A i \in Nat : E[k + 1][i] = i * D[k + 1][i] + (k + 1) * D[k][i + 1]
    <3>1. \A i \in Nat : P[j + 1][i] = i * P[j][i]
      BY <1>1
    <3> DEFINE f == P[j]  g == P[j + 1]
    <3>2. IsDifferences(D, f) /\ IsDifferences(E, g) /\ \A i \in Nat : g[i] = i * f[i]
      BY <2>1, <2>2, <3>1
    <3> HIDE DEF f, g
    <3> QED
      BY <3>2, DifferencesOfProduct
  <2> DEFINE l == j + 1  lc == l * c
  <2>7. l \in Nat /\ l \in Int /\ lc \in Int /\ l > j
    OBVIOUS
  <2>8. \A i \in Nat : E[l][i] = lc
    <3> TAKE i \in Nat
    <3>1. i + 1 \in Nat /\ D[j][i + 1] = c /\ D[j + 1][i] = 0
      BY <2>4, <2>5
    <3>2. E[j + 1][i] = i * D[j + 1][i] + (j + 1) * D[j][i + 1]
      BY <2>6
    <3>3. i * 0 = 0 /\ 0 + lc = lc
      BY <2>7
    <3> QED
      BY <3>1, <3>2, <3>3
  <2>9. IsUnit(lc, q)
    <3>1. l \in 1..(q - 1)
      BY <1>0, <2>1
    <3> HIDE DEF l, lc
    <3>2. l % q = l /\ l # 0
      BY <1>0, <3>1
    <3>3. IsUnit(l, q)
      BY <2>7, <3>2, PrimeUnit
    <3> QED
      BY <1>0, <2>4, <2>7, <3>3, UnitProduct DEF lc
  <2>10. \A k, i \in Nat : k > l => E[k][i] = 0
    <3> TAKE k, i \in Nat
    <3> HAVE k > l
    <3> DEFINE m == k - 1
    <3>1. m \in Nat /\ m + 1 = k /\ m > j /\ m + 1 > j /\ i + 1 \in Nat
      OBVIOUS
    <3> HIDE DEF m
    <3>2. E[m + 1][i] = i * D[m + 1][i] + (m + 1) * D[m][i + 1]
      BY <2>6, <3>1
    <3>3. D[m + 1][i] = 0 /\ D[m][i + 1] = 0
      BY <2>5, <3>1
    <3>4. i * 0 = 0 /\ (m + 1) * 0 = 0
      BY <3>1
    <3> QED
      BY <3>1, <3>2, <3>3, <3>4
  <2> QED
    BY <2>7, <2>8, <2>9, <2>10
<1> HIDE DEF G
<1>4. Nat \subseteq G
  BY <1>2, <1>3, InductionSet
<1> QED
  BY <1>4 DEF G

\* The powers of the table, modulo q.
LEMMA TableMod ==
    ASSUME NEW q \in Nat, q > 1, NEW P, IsPowerTable(P), NEW i \in Nat,
           NEW w, IsPowersMod(w, i, q), NEW j \in Nat
    PROVE  P[j][i] \in Int /\ Cong(P[j][i], w[j], q)
<1> DEFINE G == {k \in Nat : Cong(P[k][i], w[k], q)}
<1>0. q \in Int /\ i \in Int
  OBVIOUS
<1>1. \A k \in Nat : P[k][i] \in Int /\ P[0][i] = 1 /\ P[k + 1][i] = i * P[k][i]
  BY DEF IsPowerTable
<1>2. w[0] = 1 /\ \A k \in Nat : w[k] \in Int /\ Cong(w[k + 1], w[k] * i, q)
  BY <1>0, PowersFacts
<1>3. 0 \in G
  <2>1. 1 \in Int /\ 0 \in Nat
    OBVIOUS
  <2> QED
    BY <1>0, <1>1, <1>2, <2>1, CongRefl
<1>4. ASSUME NEW k \in Nat, k \in G PROVE k + 1 \in G
  <2> DEFINE p == P[k][i]  u == w[k]  v == w[k + 1]  pi == p * i  ui == u * i
  <2>1. p \in Int /\ u \in Int /\ v \in Int /\ P[k + 1][i] = i * p /\ Cong(v, ui, q) /\ Cong(p, u, q)
    BY <1>1, <1>2, <1>4
  <2> HIDE DEF p, u, v
  <2>2. pi \in Int /\ ui \in Int /\ i * p = pi /\ Cong(i, i, q)
    BY <1>0, <2>1, CongRefl
  <2>3. Cong(pi, ui, q)
    BY <1>0, <2>1, <2>2, CongAdd
  <2>4. Cong(v, ui, q)
    BY <2>1
  <2> HIDE DEF pi, ui
  <2>5. Cong(ui, v, q)
    BY <1>0, <2>1, <2>2, <2>4, CongSym
  <2>6. Cong(pi, v, q)
    BY <1>0, <2>1, <2>2, <2>3, <2>5, CongTrans
  <2> QED
    BY <2>1, <2>2, <2>6 DEF v
<1> HIDE DEF G
<1>5. j \in G
  BY <1>3, <1>4, InductionSet
<1> QED
  BY <1>1, <1>5 DEF G

\* An exponent below q - 1 does not take all numbers to 1.
LEMMA NoSmallerExponent ==
    ASSUME NEW q, IsPrime(q), NEW d \in Nat, d > 0, d < q - 1
    PROVE  \E g \in 1..(q - 1) : \A w : IsPowersMod(w, g, q) => w[d] # 1
<1>0. q \in Nat /\ q > 1 /\ q \in Int /\ q > 0
  BY DEF IsPrime
<1>1. SUFFICES ASSUME \A g \in 1..(q - 1) : \E w : IsPowersMod(w, g, q) /\ w[d] = 1
               PROVE  FALSE
  OBVIOUS
<1>2. PICK P : IsPowerTable(P)
  BY PowerTableExists
<1>3. P[d] \in [Nat -> Int]
  BY <1>2 DEF IsPowerTable
<1>4. PICK D : IsDifferences(D, P[d])
  BY <1>3, DifferencesExist
<1>5. \A k, i \in Nat : D[k][i] \in Int /\ D[k + 1][i] = D[k][i + 1] - D[k][i]
  BY <1>4 DEF IsDifferences
<1>6. \A i \in 1..(q - 1) : Cong(D[0][i], 1, q)
  <2> TAKE i \in 1..(q - 1)
  <2>1. PICK w : IsPowersMod(w, i, q) /\ w[d] = 1
    BY <1>1
  <2>2. i \in Nat
    BY <1>0
  <2>3. Cong(P[d][i], w[d], q)
    BY <1>0, <1>2, <2>1, <2>2, TableMod
  <2>4. D[0][i] = P[d][i]
    BY <1>4 DEF IsDifferences
  <2> QED
    BY <2>1, <2>3, <2>4
<1> DEFINE H == {k \in Nat : \A i \in 1..(q - 1) : i + (k + 1) <= q - 1 => Cong(D[k + 1][i], 0, q)}
<1>7. 0 \in H
  <2>1. ASSUME NEW i \in 1..(q - 1), i + (0 + 1) <= q - 1 PROVE Cong(D[0 + 1][i], 0, q)
    <3>1. i \in Nat /\ i + 1 \in Nat /\ i + 1 \in 1..(q - 1) /\ 0 \in Nat
      BY <1>0, <2>1
    <3> DEFINE a == D[0][i + 1]  b == D[0][i]
    <3>2. a \in Int /\ b \in Int /\ D[0 + 1][i] = a - b
      BY <1>5, <3>1
    <3>3. Cong(a, 1, q) /\ Cong(b, 1, q) /\ 1 \in Int /\ 1 - 1 = 0
      BY <1>6, <3>1
    <3> HIDE DEF a, b
    <3>4. Cong(a - b, 1 - 1, q)
      BY <1>0, <3>2, <3>3, CongAdd
    <3> QED
      BY <3>2, <3>3, <3>4
  <2> QED
    BY <2>1
<1>8. ASSUME NEW k \in Nat, k \in H PROVE k + 1 \in H
  <2>1. ASSUME NEW i \in 1..(q - 1), i + ((k + 1) + 1) <= q - 1 PROVE Cong(D[(k + 1) + 1][i], 0, q)
    <3>1. /\ i \in Nat /\ i + 1 \in Nat /\ i + 1 \in 1..(q - 1) /\ k + 1 \in Nat
          /\ i + (k + 1) <= q - 1 /\ (i + 1) + (k + 1) <= q - 1
      BY <1>0, <2>1
    <3> DEFINE a == D[k + 1][i + 1]  b == D[k + 1][i]
    <3>2. a \in Int /\ b \in Int /\ D[(k + 1) + 1][i] = a - b
      BY <1>5, <3>1
    <3>3. Cong(a, 0, q) /\ Cong(b, 0, q) /\ 0 \in Int /\ 0 - 0 = 0
      BY <1>8, <3>1
    <3> HIDE DEF a, b
    <3>4. Cong(a - b, 0 - 0, q)
      BY <1>0, <3>2, <3>3, CongAdd
    <3> QED
      BY <3>2, <3>3, <3>4
  <2> QED
    BY <2>1
<1> HIDE DEF H
<1>9. Nat \subseteq H
  BY <1>7, <1>8, InductionSet
<1>10. Cong(D[d][1], 0, q)
  <2>1. d - 1 \in Nat /\ (d - 1) + 1 = d /\ 1 \in 1..(q - 1) /\ 1 + ((d - 1) + 1) <= q - 1
    BY <1>0
  <2> DEFINE m == d - 1
  <2>2. m \in Nat /\ m + 1 = d /\ 1 \in 1..(q - 1) /\ 1 + (m + 1) <= q - 1
    BY <2>1
  <2> HIDE DEF m
  <2>3. Cong(D[m + 1][1], 0, q)
    BY <1>9, <2>2 DEF H
  <2> QED
    BY <2>2, <2>3
<1>11. PICK c \in Int : IsUnit(c, q) /\ \A i \in Nat : D[d][i] = c
  <2>1. d < q
    BY <1>0
  <2> QED
    BY <1>2, <1>4, <2>1, DifferencesOfPowers
<1>12. Cong(c, 0, q)
  <2>1. 1 \in Nat
    OBVIOUS
  <2> QED
    BY <1>10, <1>11, <2>1
<1>13. c % q # 0
  BY <1>0, <1>11, UnitNonzero
<1>14. 0 \in Int /\ 0 % q = 0
  BY <1>0
<1> QED
  BY <1>0, <1>12, <1>13, <1>14, CongIff
=============================================================================
