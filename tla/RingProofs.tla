----------------------------- MODULE RingProofs ------------------------------
(***************************************************************************)
(* The ring Z[X]/(X^N + 1) of the integer polynomials under the residues   *)
(* that the code computes with, for every degree that is a power of two:   *)
(* what NegacyclicCoeff, automorphism, from_integers and the gadget digits *)
(* are in that ring, and the phase of a ciphertext, whose decryption is a  *)
(* residue of it.                                                          *)
(***************************************************************************)
EXTENDS Rlwe, RnsProofs

-----------------------------------------------------------------------------
(* Integer polynomials, and their product                                   *)

\* Integer polynomials of degree below N, and their arithmetic modulo X^N +
\* 1.
ZPoly == [Coeffs -> Int]

\* The coefficient of X^k for every integer k: X^N is -1.
Ext(f) == [k \in Int |-> IF (k \div Degree) % 2 = 0 THEN f[k % Degree] ELSE -f[k % Degree]]

ZAdd(f, g) == [i \in Coeffs |-> f[i] + g[i]]
ZSub(f, g) == [i \in Coeffs |-> f[i] - g[i]]
ZNeg(f) == [i \in Coeffs |-> -f[i]]
ZScale(f, c) == [i \in Coeffs |-> c * f[i]]
ZMul(f, g) == [k \in Coeffs |-> NegacyclicCoeff(f, g, k)]

\* The indices of the coefficients are the residues modulo N.
LEMMA CoeffsFacts ==
    /\ Degree \in Nat /\ Degree > 0 /\ Degree \in Int
    /\ IsFiniteSet(Coeffs) /\ Cardinality(Coeffs) = Degree
    /\ \A k : k \in Coeffs <=> k \in Int /\ 0 <= k /\ k < Degree
    /\ \A k \in Int : k % Degree \in Coeffs
<1>1. Degree \in Nat /\ Degree > 0 /\ Degree \in Int
  BY DegreeAssumption
<1>2. \A k : k \in Coeffs <=> k \in Int /\ 0 <= k /\ k < Degree
  BY <1>1 DEF Coeffs
<1>3. IsFiniteSet(Coeffs) /\ Cardinality(Coeffs) = Degree
  <2>1. 0 \in Int /\ Degree - 1 \in Int /\ ~(0 > Degree - 1) /\ (Degree - 1) - 0 + 1 = Degree
    BY <1>1
  <2> QED
    BY <2>1, FS_Interval DEF Coeffs
<1>4. \A k \in Int : k % Degree \in Coeffs
  BY <1>1, Quotient DEF Coeffs
<1> QED
  BY <1>1, <1>2, <1>3, <1>4

\* Ext at an index written as a coefficient and a multiple of N.
LEMMA ExtAt ==
    ASSUME NEW f \in ZPoly, NEW r \in Coeffs, NEW s \in Int
    PROVE  Ext(f)[r + s * Degree] = IF s % 2 = 0 THEN f[r] ELSE -f[r]
<1> DEFINE N == Degree
           k == s * N + r
<1>1. N \in Nat /\ N > 0 /\ r \in 0..(N - 1) /\ r \in Int
  BY CoeffsFacts DEF Coeffs
<1>2. k \div N = s /\ k % N = r
  BY <1>1, QuotientUnique
<1>3. k \in Int /\ k = r + s * N
  BY <1>1
<1> HIDE DEF k
<1>4. Ext(f)[k] = IF (k \div N) % 2 = 0 THEN f[k % N] ELSE -f[k % N]
  BY <1>3 DEF Ext
<1> QED
  BY <1>2, <1>3, <1>4

\* Every index is a coefficient and a multiple of N.
LEMMA SplitIndex ==
    ASSUME NEW k \in Int
    PROVE  \E r \in Coeffs, s \in Int : k = r + s * Degree
<1>1. Degree \in Nat /\ Degree > 0
  BY CoeffsFacts
<1>2. k = (k \div Degree) * Degree + (k % Degree) /\ k % Degree \in 0..(Degree - 1)
      /\ k \div Degree \in Int
  BY <1>1, Quotient
<1>3. k % Degree \in Coeffs
  BY <1>2 DEF Coeffs
<1> DEFINE r == k % Degree  s == k \div Degree
<1>4. r \in Coeffs /\ s \in Int /\ r \in Int /\ k = s * Degree + r
  BY <1>2, <1>3, CoeffsFacts
<1> HIDE DEF r, s
<1>5. k = r + s * Degree
  BY <1>1, <1>4
<1> QED
  BY <1>4, <1>5

\* Ext repeats every N indices, with the sign turned.
LEMMA ExtFacts ==
    ASSUME NEW f \in ZPoly
    PROVE  /\ \A k \in Int : Ext(f)[k] \in Int
           /\ \A k \in Coeffs : Ext(f)[k] = f[k]
           /\ \A k \in Int, t \in Int :
                 Ext(f)[k + t * Degree] = IF t % 2 = 0 THEN Ext(f)[k] ELSE -Ext(f)[k]
<1>1. \A r \in Coeffs : f[r] \in Int
  BY DEF ZPoly
<1>2. ASSUME NEW k \in Int
      PROVE  /\ Ext(f)[k] \in Int
             /\ \A t \in Int :
                   Ext(f)[k + t * Degree] = IF t % 2 = 0 THEN Ext(f)[k] ELSE -Ext(f)[k]
  <2>1. PICK r \in Coeffs, s \in Int : k = r + s * Degree
    BY SplitIndex
  <2>2. Ext(f)[k] = IF s % 2 = 0 THEN f[r] ELSE -f[r]
    BY <2>1, ExtAt
  <2>3. f[r] \in Int
    BY <1>1
  <2>4. Ext(f)[k] \in Int
    BY <2>2, <2>3
  <2>5. ASSUME NEW t \in Int
        PROVE  Ext(f)[k + t * Degree] = IF t % 2 = 0 THEN Ext(f)[k] ELSE -Ext(f)[k]
    <3>1. k + t * Degree = r + (s + t) * Degree /\ s + t \in Int
      <4>1. r \in Int /\ Degree \in Int
        BY CoeffsFacts
      <4> QED
        BY <2>1, <4>1
    <3>2. Ext(f)[k + t * Degree] = IF (s + t) % 2 = 0 THEN f[r] ELSE -f[r]
      BY <3>1, ExtAt
    <3>3. (s + t) % 2 = 0 <=> (s % 2 = 0 <=> t % 2 = 0)
      OBVIOUS
    <3> QED
      BY <2>2, <2>3, <3>2, <3>3
  <2> QED
    BY <2>4, <2>5
<1>3. ASSUME NEW k \in Coeffs PROVE Ext(f)[k] = f[k]
  <2>1. k = k + 0 * Degree /\ 0 \in Int /\ 0 % 2 = 0
    BY CoeffsFacts
  <2> QED
    BY <2>1, ExtAt
<1> QED
  BY <1>2, <1>3

\* A sum over one period, in any order.
LEMMA PeriodSum ==
    ASSUME NEW H \in [Int -> Int], \A r \in Coeffs, s \in Int : H[r + s * Degree] = H[r],
           NEW p \in [Coeffs -> Int],
           \A a, b \in Coeffs : Cong(p[a], p[b], Degree) => a = b
    PROVE  SumFunctionOnSet([a \in Coeffs |-> H[p[a]]], Coeffs)
               = SumFunctionOnSet([a \in Coeffs |-> H[a]], Coeffs)
<1> DEFINE h == [a \in Coeffs |-> p[a] % Degree]
           f == [a \in Coeffs |-> H[a]]
           fh == [a \in Coeffs |-> H[p[a]]]
<1>1. h \in [Coeffs -> Coeffs]
  BY CoeffsFacts
<1>2. \A a, b \in Coeffs : h[a] = h[b] => a = b
  <2> SUFFICES ASSUME NEW a \in Coeffs, NEW b \in Coeffs, p[a] % Degree = p[b] % Degree
               PROVE  a = b
    OBVIOUS
  <2>1. p[a] \in Int /\ p[b] \in Int
    OBVIOUS
  <2>2. Cong(p[a], p[b], Degree)
    BY <2>1, CoeffsFacts, CongIff
  <2> QED
    BY <2>2
<1>3. IntOn(f, Coeffs)
  BY CoeffsFacts DEF IntOn
<1>4. \A a \in Coeffs : fh[a] = f[h[a]]
  <2> TAKE a \in Coeffs
  <2>1. PICK r \in Coeffs, s \in Int : p[a] = r + s * Degree
    BY SplitIndex
  <2>2. p[a] % Degree = r
    <3>1. r \in 0..(Degree - 1) /\ Degree \in Nat /\ Degree > 0 /\ r \in Int
      BY CoeffsFacts DEF Coeffs
    <3>2. p[a] = s * Degree + r
      BY <2>1, <3>1
    <3>3. (s * Degree + r) % Degree = r
      BY <3>1, QuotientUnique
    <3> QED
      BY <3>2, <3>3
  <2>3. H[p[a]] = H[r]
    BY <2>1
  <2> QED
    BY <2>2, <2>3
<1> HIDE DEF h, f, fh
<1>5. SumFunctionOnSet(fh, Coeffs) = SumFunctionOnSet(f, Coeffs)
  BY <1>1, <1>2, <1>3, <1>4, CoeffsFacts, SumReindex
<1> QED
  BY <1>5 DEF f, fh

\* A coefficient of a product, for every integer index.
Conv(f, g, k) == SumFunctionOnSet([a \in Coeffs |-> Ext(f)[a] * Ext(g)[k - a]], Coeffs)

\* NegacyclicCoeff is a convolution of extended coefficients.
LEMMA ConvIsCoeff ==
    ASSUME NEW f \in ZPoly, NEW g \in ZPoly, NEW k \in Coeffs
    PROVE  NegacyclicCoeff(f, g, k) = Conv(f, g, k) /\ Conv(f, g, k) \in Int
<1> DEFINE u == [a \in Coeffs |-> IF a <= k THEN f[a] * g[k - a]
                                            ELSE -(f[a] * g[k - a + Degree])]
           v == [a \in Coeffs |-> Ext(f)[a] * Ext(g)[k - a]]
<1>1. ASSUME NEW a \in Coeffs PROVE v[a] \in Int /\ v[a] = u[a]
  <2>1. a \in Int /\ k \in Int /\ Ext(f)[a] = f[a] /\ f[a] \in Int /\ k - a \in Int
    BY CoeffsFacts, ExtFacts DEF ZPoly
  <2>2. Ext(g)[k - a] \in Int
    BY <2>1, ExtFacts
  <2>3. CASE a <= k
    <3>1. k - a \in Coeffs
      BY <2>1, <2>3, CoeffsFacts
    <3>2. Ext(g)[k - a] = g[k - a]
      BY <3>1, ExtFacts
    <3> QED
      BY <2>1, <2>2, <2>3, <3>2
  <2>4. CASE ~(a <= k)
    <3> DEFINE r == k - a + Degree
    <3>1. r \in Coeffs /\ k - a = r + (-1) * Degree /\ -1 \in Int /\ (-1) % 2 # 0
      BY <2>1, <2>4, CoeffsFacts
    <3> HIDE DEF r
    <3>2. Ext(g)[k - a] = -Ext(g)[r] /\ Ext(g)[r] = g[r] /\ g[r] \in Int
      <4>1. r \in Int
        BY <3>1, CoeffsFacts
      <4>2. Ext(g)[r + (-1) * Degree] = -Ext(g)[r]
        BY <3>1, <4>1, ExtFacts
      <4>3. Ext(g)[r] = g[r] /\ g[r] \in Int
        BY <3>1, ExtFacts DEF ZPoly
      <4> QED
        BY <3>1, <4>2, <4>3
    <3>3. f[a] * (-g[r]) = -(f[a] * g[r])
      BY <2>1, <3>2
    <3>4. v[a] = f[a] * Ext(g)[k - a]
      BY <2>1
    <3>5. v[a] = -(f[a] * g[r]) /\ v[a] \in Int
      BY <2>1, <3>2, <3>3, <3>4
    <3> QED
      BY <2>4, <3>5 DEF r
  <2> QED
    BY <2>3, <2>4
<1>2. IntOn(v, Coeffs) /\ \A a \in Coeffs : v[a] = u[a]
  BY <1>1 DEF IntOn
<1> HIDE DEF u, v
<1>3. SumFunctionOnSet(v, Coeffs) = SumFunctionOnSet(u, Coeffs)
  BY <1>2, CoeffsFacts, SumAgrees
<1>4. SumFunctionOnSet(v, Coeffs) \in Int
  BY <1>2, CoeffsFacts, SumIsSum DEF IsSum
<1> QED
  BY <1>3, <1>4 DEF NegacyclicCoeff, Conv, u, v

\* A product is a polynomial, whose coefficients are the convolutions.
LEMMA MulType ==
    ASSUME NEW f \in ZPoly, NEW g \in ZPoly
    PROVE  ZMul(f, g) \in ZPoly /\ \A k \in Coeffs : ZMul(f, g)[k] = Conv(f, g, k)
BY ConvIsCoeff DEF ZPoly, ZMul

\* The convolution is the extension of the product at every index.
LEMMA ExtOfMul ==
    ASSUME NEW f \in ZPoly, NEW g \in ZPoly, NEW k \in Int
    PROVE  Ext(ZMul(f, g))[k] = Conv(f, g, k)
<1>1. PICK r \in Coeffs, s \in Int : k = r + s * Degree
  BY SplitIndex
<1> DEFINE u == [a \in Coeffs |-> Ext(f)[a] * Ext(g)[r - a]]
           v == [a \in Coeffs |-> Ext(f)[a] * Ext(g)[k - a]]
           sign == IF s % 2 = 0 THEN 1 ELSE -1
<1>2. sign \in Int
  OBVIOUS
<1>3. ASSUME NEW a \in Coeffs PROVE u[a] \in Int /\ v[a] = sign * u[a]
  <2>1. a \in Int /\ r \in Int /\ r - a \in Int /\ Ext(f)[a] \in Int
    BY CoeffsFacts, ExtFacts
  <2>2. k - a = (r - a) + s * Degree
    BY <1>1, <2>1, CoeffsFacts
  <2>3. Ext(g)[r - a] \in Int
        /\ Ext(g)[k - a] = IF s % 2 = 0 THEN Ext(g)[r - a] ELSE -Ext(g)[r - a]
    BY <2>1, <2>2, ExtFacts
  <2> DEFINE x == Ext(f)[a]  y == Ext(g)[r - a]  z == Ext(g)[k - a]
  <2>4. x \in Int /\ y \in Int /\ z = (IF s % 2 = 0 THEN y ELSE -y) /\ u[a] = x * y /\ v[a] = x * z
    BY <2>1, <2>3
  <2> HIDE DEF x, y, z, u, v
  <2>5. z = sign * y
    BY <2>4
  <2>6. x * (sign * y) = sign * (x * y)
    BY <1>2, <2>4
  <2>8. x * y \in Int
    BY <2>4
  <2> QED
    BY <2>4, <2>5, <2>6, <2>8
<1>4. IntOn(u, Coeffs) /\ \A a \in Coeffs : v[a] = sign * u[a]
  BY <1>3 DEF IntOn
<1> DEFINE su == SumFunctionOnSet(u, Coeffs)  sv == SumFunctionOnSet(v, Coeffs)
<1>5. su \in Int /\ sv = sign * su
  <2> HIDE DEF u, v, sign
  <2>1. IsFiniteSet(Coeffs)
    BY CoeffsFacts
  <2> QED
    BY <1>2, <1>4, <2>1, SumScales
<1>6. su = Conv(f, g, r) /\ sv = Conv(f, g, k)
  BY DEF Conv
<1> HIDE DEF su, sv, u, v
<1>7. ZMul(f, g) \in ZPoly /\ ZMul(f, g)[r] = su
  BY <1>6, MulType
<1>8. Ext(ZMul(f, g))[k] = IF s % 2 = 0 THEN su ELSE -su
  BY <1>1, <1>7, ExtAt
<1> QED
  BY <1>5, <1>6, <1>8

\* Polynomials commute.
LEMMA MulCommutes ==
    ASSUME NEW f \in ZPoly, NEW g \in ZPoly
    PROVE  ZMul(f, g) = ZMul(g, f)
<1>1. ASSUME NEW k \in Coeffs PROVE Conv(f, g, k) = Conv(g, f, k)
  <2> DEFINE H == [a \in Int |-> Ext(f)[a] * Ext(g)[k - a]]
             p == [a \in Coeffs |-> k - a]
  <2>1. k \in Int /\ \A a \in Coeffs : a \in Int
    BY CoeffsFacts
  <2>2. H \in [Int -> Int]
    <3> SUFFICES ASSUME NEW a \in Int PROVE Ext(f)[a] * Ext(g)[k - a] \in Int
      OBVIOUS
    <3>1. k - a \in Int
      BY <2>1
    <3>2. Ext(f)[a] \in Int /\ Ext(g)[k - a] \in Int
      BY <3>1, ExtFacts
    <3> QED
      BY <3>2
  <2>3. ASSUME NEW r \in Coeffs, NEW s \in Int PROVE H[r + s * Degree] = H[r]
    <3>1. /\ r \in Int /\ k - r \in Int /\ -s \in Int /\ r + s * Degree \in Int
          /\ k - (r + s * Degree) = (k - r) + (-s) * Degree
          /\ ((-s) % 2 = 0 <=> s % 2 = 0)
      BY <2>1, CoeffsFacts
    <3>2. /\ Ext(f)[r + s * Degree] = IF s % 2 = 0 THEN Ext(f)[r] ELSE -Ext(f)[r]
          /\ Ext(f)[r] \in Int
      BY <3>1, ExtFacts
    <3>3. /\ Ext(g)[(k - r) + (-s) * Degree]
                = IF (-s) % 2 = 0 THEN Ext(g)[k - r] ELSE -Ext(g)[k - r]
          /\ Ext(g)[k - r] \in Int
      BY <3>1, ExtFacts
    <3> DEFINE x == Ext(f)[r]  y == Ext(g)[k - r]
    <3>4. /\ x \in Int /\ y \in Int /\ H[r] = x * y
          /\ H[r + s * Degree] = IF s % 2 = 0 THEN x * y ELSE (-x) * (-y)
      BY <3>1, <3>2, <3>3
    <3> HIDE DEF x, y, H
    <3>5. (-x) * (-y) = x * y
      BY <3>4
    <3> QED
      BY <3>4, <3>5
  <2>4. p \in [Coeffs -> Int]
    BY <2>1
  <2>5. ASSUME NEW a \in Coeffs, NEW b \in Coeffs, Cong(p[a], p[b], Degree) PROVE a = b
    <3>1. PICK m \in Int : k - a = (k - b) + m * Degree
      BY <2>5 DEF Cong
    <3>2. b = a + m * Degree
      BY <2>1, <3>1, CoeffsFacts
    <3>3. Cong(b, a, Degree)
      BY <3>2 DEF Cong
    <3>4. a \in 0..(Degree - 1) /\ b \in 0..(Degree - 1)
      BY DEF Coeffs
    <3> QED
      BY <3>3, <3>4, CoeffsFacts, CongUnique
  <2>6. SumFunctionOnSet([a \in Coeffs |-> H[p[a]]], Coeffs)
            = SumFunctionOnSet([a \in Coeffs |-> H[a]], Coeffs)
    <3> HIDE DEF H, p
    <3> QED
      BY <2>2, <2>3, <2>4, <2>5, PeriodSum
  <2> DEFINE u == [a \in Coeffs |-> Ext(f)[a] * Ext(g)[k - a]]
             v == [a \in Coeffs |-> Ext(g)[a] * Ext(f)[k - a]]
  <2>7. [a \in Coeffs |-> H[a]] = u
    BY <2>1
  <2>8. [a \in Coeffs |-> H[p[a]]] = v
    <3> SUFFICES ASSUME NEW a \in Coeffs PROVE H[p[a]] = v[a]
      OBVIOUS
    <3>1. k - a \in Int /\ k - (k - a) = a /\ a \in Int
      BY <2>1
    <3>2. Ext(f)[k - a] \in Int /\ Ext(g)[a] \in Int
      BY <3>1, ExtFacts
    <3>3. H[p[a]] = Ext(f)[k - a] * Ext(g)[a]
      BY <3>1
    <3> QED
      BY <3>2, <3>3
  <2> HIDE DEF u, v, H, p
  <2>9. SumFunctionOnSet(v, Coeffs) = SumFunctionOnSet(u, Coeffs)
    BY <2>6, <2>7, <2>8
  <2> QED
    BY <2>9 DEF u, v, Conv
<1> QED
  BY <1>1, ConvIsCoeff DEF ZMul

\* A product summed the other way around.
LEMMA ShiftedConv ==
    ASSUME NEW f \in ZPoly, NEW g \in ZPoly, NEW k \in Int, NEW c \in Int
    PROVE  SumFunctionOnSet([a \in Coeffs |-> Ext(f)[a - c] * Ext(g)[k - a]], Coeffs)
               = Conv(f, g, k - c)
<1> DEFINE H == [a \in Int |-> Ext(f)[a] * Ext(g)[(k - c) - a]]
           p == [a \in Coeffs |-> a - c]
<1>1. \A a \in Coeffs : a \in Int
  BY CoeffsFacts
<1>2. H \in [Int -> Int]
  <2> SUFFICES ASSUME NEW a \in Int PROVE Ext(f)[a] * Ext(g)[(k - c) - a] \in Int
    OBVIOUS
  <2>1. (k - c) - a \in Int
    OBVIOUS
  <2>2. Ext(f)[a] \in Int /\ Ext(g)[(k - c) - a] \in Int
    BY <2>1, ExtFacts
  <2> QED
    BY <2>2
<1>3. ASSUME NEW r \in Coeffs, NEW s \in Int PROVE H[r + s * Degree] = H[r]
  <2> DEFINE w == k - c
  <2>1. /\ r \in Int /\ w - r \in Int /\ -s \in Int /\ r + s * Degree \in Int
        /\ w - (r + s * Degree) = (w - r) + (-s) * Degree
        /\ ((-s) % 2 = 0 <=> s % 2 = 0)
    BY CoeffsFacts
  <2>2. H[r + s * Degree] = Ext(f)[r + s * Degree] * Ext(g)[w - (r + s * Degree)]
        /\ H[r] = Ext(f)[r] * Ext(g)[w - r]
    BY <2>1
  <2> HIDE DEF w, H
  <2>3. /\ Ext(f)[r + s * Degree] = IF s % 2 = 0 THEN Ext(f)[r] ELSE -Ext(f)[r]
        /\ Ext(f)[r] \in Int
    BY <2>1, ExtFacts
  <2>4. /\ Ext(g)[(w - r) + (-s) * Degree]
              = IF (-s) % 2 = 0 THEN Ext(g)[w - r] ELSE -Ext(g)[w - r]
        /\ Ext(g)[w - r] \in Int
    BY <2>1, ExtFacts
  <2> DEFINE u == Ext(f)[r]  v == Ext(g)[w - r]
  <2>5. /\ u \in Int /\ v \in Int /\ H[r] = u * v
        /\ H[r + s * Degree] = IF s % 2 = 0 THEN u * v ELSE (-u) * (-v)
    BY <2>1, <2>2, <2>3, <2>4
  <2> HIDE DEF u, v
  <2>6. (-u) * (-v) = u * v
    BY <2>5
  <2> QED
    BY <2>5, <2>6
<1>4. p \in [Coeffs -> Int]
  BY <1>1
<1>5. ASSUME NEW a \in Coeffs, NEW b \in Coeffs, Cong(p[a], p[b], Degree) PROVE a = b
  <2>1. PICK m \in Int : a - c = (b - c) + m * Degree
    BY <1>5 DEF Cong
  <2>2. a = b + m * Degree
    BY <1>1, <2>1, CoeffsFacts
  <2>3. Cong(a, b, Degree)
    BY <2>2 DEF Cong
  <2>4. a \in 0..(Degree - 1) /\ b \in 0..(Degree - 1)
    BY DEF Coeffs
  <2> QED
    BY <2>3, <2>4, CoeffsFacts, CongUnique
<1>6. SumFunctionOnSet([a \in Coeffs |-> H[p[a]]], Coeffs)
          = SumFunctionOnSet([a \in Coeffs |-> H[a]], Coeffs)
  <2> HIDE DEF H, p
  <2> QED
    BY <1>2, <1>3, <1>4, <1>5, PeriodSum
<1> DEFINE u == [a \in Coeffs |-> Ext(f)[a] * Ext(g)[(k - c) - a]]
           v == [a \in Coeffs |-> Ext(f)[a - c] * Ext(g)[k - a]]
<1>7. [a \in Coeffs |-> H[a]] = u
  BY <1>1
<1>8. [a \in Coeffs |-> H[p[a]]] = v
  <2> SUFFICES ASSUME NEW a \in Coeffs PROVE H[p[a]] = v[a]
    OBVIOUS
  <2>1. a - c \in Int /\ (k - c) - (a - c) = k - a /\ a \in Int
    BY <1>1
  <2> QED
    BY <2>1
<1> HIDE DEF u, v, H, p
<1>9. SumFunctionOnSet(v, Coeffs) = SumFunctionOnSet(u, Coeffs)
  BY <1>6, <1>7, <1>8
<1> QED
  BY <1>9 DEF u, v, Conv

\* The product that mul_real computes coefficient by coefficient is
\* associative: any number of ciphertext components, key rows and powers of
\* the secret may be multiplied in any grouping.
THEOREM MulAssociates ==
    ASSUME NEW f \in ZPoly, NEW g \in ZPoly, NEW h \in ZPoly
    PROVE  ZMul(ZMul(f, g), h) = ZMul(f, ZMul(g, h))
<1> DEFINE fg == ZMul(f, g)  gh == ZMul(g, h)
<1>1. fg \in ZPoly /\ gh \in ZPoly
  BY MulType
<1>2. \A k \in Int : Ext(fg)[k] = Conv(f, g, k) /\ Ext(gh)[k] = Conv(g, h, k)
  BY ExtOfMul
<1> HIDE DEF fg, gh
<1>3. ASSUME NEW k \in Coeffs PROVE Conv(fg, h, k) = Conv(f, gh, k)
  <2>1. k \in Int /\ (\A a \in Coeffs : a \in Int) /\ IsFiniteSet(Coeffs)
    BY CoeffsFacts
  <2>2. \A a \in Int : Ext(f)[a] \in Int /\ Ext(g)[a] \in Int /\ Ext(h)[a] \in Int
    BY ExtFacts
  <2> DEFINE left(a) == [c \in Coeffs |-> Ext(f)[c] * Ext(g)[a - c]]
             right(c) == [a \in Coeffs |-> Ext(g)[a - c] * Ext(h)[k - a]]
             M == [a \in Coeffs |-> [c \in Coeffs |-> (Ext(f)[c] * Ext(g)[a - c]) * Ext(h)[k - a]]]
             col(c) == [a \in Coeffs |-> M[a][c]]
  <2>3. ASSUME NEW a \in Coeffs
        PROVE  /\ IntOn(left(a), Coeffs)
               /\ SumFunctionOnSet(M[a], Coeffs) = Ext(h)[k - a] * Conv(f, g, a)
    <3>1. a \in Int /\ k - a \in Int /\ Ext(h)[k - a] \in Int
      BY <2>1, <2>2
    <3>2. ASSUME NEW c \in Coeffs
          PROVE  left(a)[c] \in Int /\ M[a][c] = Ext(h)[k - a] * left(a)[c]
      <4>1. c \in Int /\ a - c \in Int
        BY <2>1, <3>1
      <4> DEFINE u == Ext(f)[c]  v == Ext(g)[a - c]  w == Ext(h)[k - a]
      <4>2. u \in Int /\ v \in Int /\ w \in Int /\ left(a)[c] = u * v /\ M[a][c] = (u * v) * w
        BY <2>2, <3>1, <4>1
      <4> HIDE DEF u, v, M, left
      <4>3. u * v \in Int /\ (u * v) * w = w * (u * v)
        BY <4>2
      <4>4. M[a][c] = w * left(a)[c]
        BY <4>2, <4>3
      <4> QED
        BY <4>2, <4>3, <4>4 DEF w
    <3> DEFINE la == left(a)  ma == M[a]  e == Ext(h)[k - a]
    <3>3. IntOn(la, Coeffs) /\ e \in Int /\ \A c \in Coeffs : ma[c] = e * la[c]
      BY <3>1, <3>2 DEF IntOn
    <3>5. SumFunctionOnSet(la, Coeffs) = Conv(f, g, a)
      BY DEF Conv
    <3> HIDE DEF la, ma, e
    <3>4. SumFunctionOnSet(ma, Coeffs) = e * SumFunctionOnSet(la, Coeffs)
      BY <2>1, <3>3, SumScales
    <3> QED
      BY <3>3, <3>4, <3>5 DEF la, ma, e
  <2>4. ASSUME NEW c \in Coeffs
        PROVE  SumFunctionOnSet(col(c), Coeffs) = Ext(f)[c] * Ext(gh)[k - c]
    <3>1. c \in Int /\ k - c \in Int /\ Ext(f)[c] \in Int
      BY <2>1, <2>2
    <3>2. ASSUME NEW a \in Coeffs
          PROVE  right(c)[a] \in Int /\ col(c)[a] = Ext(f)[c] * right(c)[a]
      <4>1. a \in Int /\ a - c \in Int /\ k - a \in Int
        BY <2>1, <3>1
      <4> DEFINE u == Ext(f)[c]  v == Ext(g)[a - c]  w == Ext(h)[k - a]
      <4>2. u \in Int /\ v \in Int /\ w \in Int /\ right(c)[a] = v * w /\ col(c)[a] = (u * v) * w
        BY <2>2, <3>1, <4>1
      <4> HIDE DEF u, v, w, col, right
      <4>3. v * w \in Int /\ (u * v) * w = u * (v * w)
        BY <4>2
      <4>4. col(c)[a] = u * right(c)[a]
        BY <4>2, <4>3
      <4> QED
        BY <4>2, <4>3, <4>4 DEF u
    <3> DEFINE rc == right(c)  cc == col(c)  e == Ext(f)[c]
    <3>3. IntOn(rc, Coeffs) /\ e \in Int /\ \A a \in Coeffs : cc[a] = e * rc[a]
      BY <3>1, <3>2 DEF IntOn
    <3>5. SumFunctionOnSet(rc, Coeffs) = Conv(g, h, k - c)
      <4>1. k \in Int
        BY <2>1
      <4>2. rc = [a \in Coeffs |-> Ext(g)[a - c] * Ext(h)[k - a]]
        OBVIOUS
      <4>4. c \in Int
        BY <3>1
      <4> HIDE DEF rc, cc, e
      <4>3. SumFunctionOnSet([a \in Coeffs |-> Ext(g)[a - c] * Ext(h)[k - a]], Coeffs)
               = Conv(g, h, k - c)
        BY <4>1, <4>4, ShiftedConv
      <4> QED
        BY <4>2, <4>3
    <3>6. Conv(g, h, k - c) = Ext(gh)[k - c]
      BY <1>2, <3>1
    <3> HIDE DEF rc, cc, e
    <3>4. SumFunctionOnSet(cc, Coeffs) = e * SumFunctionOnSet(rc, Coeffs)
      BY <2>1, <3>3, SumScales
    <3> QED
      BY <3>4, <3>5, <3>6 DEF rc, cc, e
  <2>5. \A a \in Coeffs, c \in Coeffs : M[a][c] \in Int
    <3> TAKE a \in Coeffs, c \in Coeffs
    <3>1. a - c \in Int /\ k - a \in Int /\ c \in Int
      BY <2>1
    <3>2. Ext(f)[c] \in Int /\ Ext(g)[a - c] \in Int /\ Ext(h)[k - a] \in Int
      BY <3>1, <2>2
    <3> DEFINE u == Ext(f)[c]  v == Ext(g)[a - c]  w == Ext(h)[k - a]
    <3>3. M[a][c] = (u * v) * w /\ u \in Int /\ v \in Int /\ w \in Int
      BY <3>2
    <3> HIDE DEF u, v, w, M
    <3> QED
      BY <3>3
  <2> DEFINE rows == [a \in Coeffs |-> SumFunctionOnSet(M[a], Coeffs)]
             cols == [c \in Coeffs |-> SumFunctionOnSet([a \in Coeffs |-> M[a][c]], Coeffs)]
             l == [a \in Coeffs |-> Ext(fg)[a] * Ext(h)[k - a]]
             r == [c \in Coeffs |-> Ext(f)[c] * Ext(gh)[k - c]]
  <2>6. rows = l
    <3> SUFFICES ASSUME NEW a \in Coeffs PROVE SumFunctionOnSet(M[a], Coeffs) = Ext(fg)[a] * Ext(h)[k - a]
      OBVIOUS
    <3>1. a \in Int /\ k - a \in Int
      BY <2>1
    <3>2. Ext(fg)[a] = Conv(f, g, a) /\ Ext(fg)[a] \in Int /\ Ext(h)[k - a] \in Int
      BY <1>1, <1>2, <2>2, <3>1, ExtFacts
    <3>3. SumFunctionOnSet(M[a], Coeffs) = Ext(h)[k - a] * Ext(fg)[a]
      BY <2>3, <3>2
    <3> QED
      BY <3>2, <3>3
  <2>7. cols = r
    BY <2>4
  <2>8. SumFunctionOnSet(rows, Coeffs) = SumFunctionOnSet(cols, Coeffs)
    <3> HIDE DEF M
    <3> QED
      BY <2>1, <2>5, SumSwap
  <2> HIDE DEF rows, cols, l, r
  <2>9. SumFunctionOnSet(l, Coeffs) = SumFunctionOnSet(r, Coeffs)
    BY <2>6, <2>7, <2>8
  <2> QED
    BY <2>9 DEF l, r, Conv
<1>4. /\ ZMul(fg, h) = [k \in Coeffs |-> Conv(fg, h, k)]
      /\ ZMul(f, gh) = [k \in Coeffs |-> Conv(f, gh, k)]
  BY <1>1, ConvIsCoeff DEF ZMul
<1>5. ZMul(fg, h) = ZMul(f, gh)
  BY <1>3, <1>4
<1> QED
  BY <1>5 DEF fg, gh

-----------------------------------------------------------------------------
(* The laws of the ring, and bounds on coefficients                         *)

\* The polynomial 0 and the polynomial 1.
ZZero == [i \in Coeffs |-> 0]
ZOne == [i \in Coeffs |-> IF i = 0 THEN 1 ELSE 0]

\* |f[i]| <= B.
Within(f, B) == \A i \in Coeffs : -B <= f[i] /\ f[i] <= B

\* The operations of the ring return polynomials.
LEMMA PolyTypes ==
    /\ \A f, g \in ZPoly : ZAdd(f, g) \in ZPoly /\ ZSub(f, g) \in ZPoly
    /\ \A f \in ZPoly, c \in Int : ZScale(f, c) \in ZPoly
    /\ \A f \in ZPoly : ZNeg(f) \in ZPoly
    /\ ZZero \in ZPoly /\ ZOne \in ZPoly
    /\ \A f \in ZPoly : \A i \in Coeffs : f[i] \in Int
BY DEF ZPoly, ZAdd, ZSub, ZScale, ZNeg, ZZero, ZOne

\* Equality of polynomials, coefficient by coefficient.
LEMMA SamePoly ==
    ASSUME NEW f \in ZPoly, NEW g \in ZPoly, \A i \in Coeffs : f[i] = g[i]
    PROVE  f = g
BY DEF ZPoly

\* One of the factors is a sum.
LEMMA MulAdds ==
    ASSUME NEW f \in ZPoly, NEW g \in ZPoly, NEW h \in ZPoly
    PROVE  ZMul(ZAdd(f, g), h) = ZAdd(ZMul(f, h), ZMul(g, h))
<1> DEFINE u == ZAdd(f, g)
<1>1. u \in ZPoly /\ \A i \in Coeffs : u[i] = f[i] + g[i] /\ f[i] \in Int /\ g[i] \in Int
  BY PolyTypes DEF ZAdd
<1> HIDE DEF u
<1>2. ASSUME NEW k \in Coeffs PROVE Conv(u, h, k) = Conv(f, h, k) + Conv(g, h, k)
  <2> DEFINE tu == [a \in Coeffs |-> Ext(u)[a] * Ext(h)[k - a]]
             tf == [a \in Coeffs |-> Ext(f)[a] * Ext(h)[k - a]]
             tg == [a \in Coeffs |-> Ext(g)[a] * Ext(h)[k - a]]
  <2>1. ASSUME NEW a \in Coeffs
        PROVE  tf[a] \in Int /\ tg[a] \in Int /\ tu[a] = tf[a] + tg[a]
    <3>1. Ext(u)[a] = u[a] /\ Ext(f)[a] = f[a] /\ Ext(g)[a] = g[a] /\ k - a \in Int
      BY <1>1, CoeffsFacts, ExtFacts
    <3>2. Ext(h)[k - a] \in Int
      BY <3>1, ExtFacts
    <3> DEFINE v == f[a]  w == g[a]  e == Ext(h)[k - a]
    <3>3. /\ v \in Int /\ w \in Int /\ e \in Int
          /\ tf[a] = v * e /\ tg[a] = w * e /\ tu[a] = (v + w) * e
      BY <1>1, <3>1, <3>2
    <3> HIDE DEF v, w, e, tf, tg, tu
    <3>4. (v + w) * e = v * e + w * e /\ v * e \in Int /\ w * e \in Int
      BY <3>3
    <3> QED
      BY <3>3, <3>4
  <2>2. IntOn(tf, Coeffs) /\ IntOn(tg, Coeffs) /\ \A a \in Coeffs : tu[a] = tf[a] + tg[a]
    BY <2>1 DEF IntOn
  <2> HIDE DEF tf, tg, tu
  <2>3. SumFunctionOnSet(tu, Coeffs) = SumFunctionOnSet(tf, Coeffs) + SumFunctionOnSet(tg, Coeffs)
    BY <2>2, CoeffsFacts, SumAdds
  <2> QED
    BY <2>3 DEF Conv, tf, tg, tu
<1>3. ZMul(u, h) = ZAdd(ZMul(f, h), ZMul(g, h))
  <2>1. \A k \in Coeffs : /\ ZMul(u, h)[k] = Conv(u, h, k) /\ ZMul(f, h)[k] = Conv(f, h, k)
                          /\ ZMul(g, h)[k] = Conv(g, h, k)
    BY <1>1, MulType
  <2>2. ZMul(u, h) \in ZPoly /\ ZMul(f, h) \in ZPoly /\ ZMul(g, h) \in ZPoly
    BY <1>1, MulType
  <2>3. ZAdd(ZMul(f, h), ZMul(g, h)) \in ZPoly
    BY <2>2, PolyTypes
  <2>4. \A k \in Coeffs : ZAdd(ZMul(f, h), ZMul(g, h))[k] = Conv(f, h, k) + Conv(g, h, k)
    BY <2>1 DEF ZAdd
  <2> QED
    BY <1>2, <2>1, <2>2, <2>3, <2>4, SamePoly
<1> QED
  BY <1>3 DEF u

\* One of the factors is a multiple.
LEMMA MulScales ==
    ASSUME NEW f \in ZPoly, NEW h \in ZPoly, NEW c \in Int
    PROVE  ZMul(ZScale(f, c), h) = ZScale(ZMul(f, h), c)
<1> DEFINE u == ZScale(f, c)
<1>1. u \in ZPoly /\ \A i \in Coeffs : u[i] = c * f[i] /\ f[i] \in Int
  BY PolyTypes DEF ZScale
<1> HIDE DEF u
<1>2. ASSUME NEW k \in Coeffs PROVE Conv(u, h, k) = c * Conv(f, h, k)
  <2> DEFINE tu == [a \in Coeffs |-> Ext(u)[a] * Ext(h)[k - a]]
             tf == [a \in Coeffs |-> Ext(f)[a] * Ext(h)[k - a]]
  <2>1. ASSUME NEW a \in Coeffs
        PROVE  tf[a] \in Int /\ tu[a] = c * tf[a]
    <3>1. Ext(u)[a] = u[a] /\ Ext(f)[a] = f[a] /\ k - a \in Int
      BY <1>1, CoeffsFacts, ExtFacts
    <3>2. Ext(h)[k - a] \in Int
      BY <3>1, ExtFacts
    <3> DEFINE v == f[a]  e == Ext(h)[k - a]
    <3>3. v \in Int /\ e \in Int /\ tf[a] = v * e /\ tu[a] = (c * v) * e
      BY <1>1, <3>1, <3>2
    <3> HIDE DEF v, e, tf, tu
    <3>4. (c * v) * e = c * (v * e) /\ v * e \in Int
      BY <3>3
    <3> QED
      BY <3>3, <3>4
  <2>2. IntOn(tf, Coeffs) /\ \A a \in Coeffs : tu[a] = c * tf[a]
    BY <2>1 DEF IntOn
  <2> HIDE DEF tf, tu
  <2>3. SumFunctionOnSet(tu, Coeffs) = c * SumFunctionOnSet(tf, Coeffs)
    BY <2>2, CoeffsFacts, SumScales
  <2> QED
    BY <2>3 DEF Conv, tf, tu
<1>3. ZMul(u, h) = ZScale(ZMul(f, h), c)
  <2>1. \A k \in Coeffs : ZMul(u, h)[k] = Conv(u, h, k) /\ ZMul(f, h)[k] = Conv(f, h, k)
    BY <1>1, MulType
  <2>2. ZMul(u, h) \in ZPoly /\ ZMul(f, h) \in ZPoly
    BY <1>1, MulType
  <2>3. ZScale(ZMul(f, h), c) \in ZPoly
    BY <2>2, PolyTypes
  <2>4. \A k \in Coeffs : ZScale(ZMul(f, h), c)[k] = c * Conv(f, h, k)
    BY <2>1 DEF ZScale
  <2> QED
    BY <1>2, <2>1, <2>2, <2>3, <2>4, SamePoly
<1> QED
  BY <1>3 DEF u

\* One of the factors is a difference.
LEMMA MulSubtracts ==
    ASSUME NEW f \in ZPoly, NEW g \in ZPoly, NEW h \in ZPoly
    PROVE  ZMul(ZSub(f, g), h) = ZSub(ZMul(f, h), ZMul(g, h))
<1> DEFINE d == ZSub(f, g)
<1>1. d \in ZPoly
  BY PolyTypes
<1>2. f = ZAdd(d, g)
  <2>1. ZAdd(d, g) \in ZPoly
    BY <1>1, PolyTypes
  <2>2. \A i \in Coeffs : f[i] = ZAdd(d, g)[i]
    <3> TAKE i \in Coeffs
    <3>1. f[i] \in Int /\ g[i] \in Int
      BY PolyTypes
    <3> QED
      BY <3>1 DEF ZAdd, ZSub
  <2> HIDE DEF d
  <2> QED
    BY <2>1, <2>2, SamePoly
<1> HIDE DEF d
<1>3. ZMul(f, h) = ZAdd(ZMul(d, h), ZMul(g, h))
  BY <1>1, <1>2, MulAdds
<1> DEFINE u == ZMul(f, h)  v == ZMul(d, h)  w == ZMul(g, h)
<1>4. u \in ZPoly /\ v \in ZPoly /\ w \in ZPoly /\ u = ZAdd(v, w)
  BY <1>1, <1>3, MulType
<1> HIDE DEF u, v, w
<1>5. v = ZSub(u, w)
  <2>1. ZSub(u, w) \in ZPoly /\ \A i \in Coeffs : v[i] \in Int /\ w[i] \in Int
    BY <1>4, PolyTypes
  <2>2. \A i \in Coeffs : v[i] = ZSub(u, w)[i]
    BY <1>4, <2>1 DEF ZAdd, ZSub
  <2> QED
    BY <1>4, <2>1, <2>2, SamePoly
<1> QED
  BY <1>5 DEF u, v, w, d

\* Multiplying by 1.
LEMMA MulOne ==
    ASSUME NEW f \in ZPoly
    PROVE  ZMul(ZOne, f) = f
<1>1. ZOne \in ZPoly
  BY DEF ZPoly, ZOne
<1>2. ASSUME NEW k \in Coeffs PROVE Conv(ZOne, f, k) = f[k]
  <2> DEFINE t == [a \in Coeffs |-> Ext(ZOne)[a] * Ext(f)[k - a]]
  <2>1. 0 \in Coeffs /\ k \in Int /\ Ext(f)[k] = f[k] /\ f[k] \in Int
    BY CoeffsFacts, ExtFacts DEF ZPoly
  <2>2. \A a \in Coeffs : t[a] = IF a = 0 THEN f[k] ELSE 0
    <3> TAKE a \in Coeffs
    <3>1. a \in Int /\ k - a \in Int /\ k - 0 = k
      BY <2>1, CoeffsFacts
    <3>2. Ext(ZOne)[a] = (IF a = 0 THEN 1 ELSE 0) /\ Ext(f)[k - a] \in Int
      BY <1>1, <3>1, ExtFacts DEF ZOne
    <3> QED
      BY <2>1, <3>1, <3>2
  <2>3. IntOn(t, Coeffs)
    BY <2>1, <2>2 DEF IntOn
  <2> HIDE DEF t
  <2>4. IsSum(t, Coeffs)
    BY <2>3, CoeffsFacts, SumIsSum
  <2> DEFINE R == Coeffs \ {0}
  <2>5. SumFunctionOnSet(t, Coeffs) = t[0] + SumFunctionOnSet(t, R)
    BY <2>1, <2>4 DEF IsSum
  <2>6. IsFiniteSet(R) /\ \A e \in R : t[e] = 0
    BY <2>2, CoeffsFacts, FS_Subset
  <2>7. SumFunctionOnSet(t, R) = 0
    <3> DEFINE B == 0
    <3>1. \A e \in R : t[e] \in Int /\ -B <= t[e] /\ t[e] <= B
      BY <2>6
    <3>2. B \in Nat /\ Cardinality(R) \in Nat
      BY <2>6, FS_CardinalityType
    <3> HIDE DEF R, B
    <3>3. /\ SumFunctionOnSet(t, R) \in Int
          /\ -(Cardinality(R) * B) <= SumFunctionOnSet(t, R)
          /\ SumFunctionOnSet(t, R) <= Cardinality(R) * B
      BY <2>6, <3>1, <3>2, SumBound
    <3> QED
      BY <3>2, <3>3 DEF B
  <2>8. SumFunctionOnSet(t, Coeffs) = f[k]
    BY <2>1, <2>2, <2>5, <2>7
  <2> QED
    BY <2>8 DEF Conv, t
<1>3. ZMul(ZOne, f) \in ZPoly /\ \A k \in Coeffs : ZMul(ZOne, f)[k] = f[k]
  BY <1>1, <1>2, MulType
<1> QED
  BY <1>3, SamePoly

\* The bound of RingProductBound.
LEMMA MulBound ==
    ASSUME NEW f \in ZPoly, NEW g \in ZPoly, NEW A \in Nat, NEW B \in Nat,
           Within(f, A), Within(g, B)
    PROVE  Within(ZMul(f, g), Degree * A * B) /\ Degree * A * B \in Nat
<1>1. A * B \in Nat /\ Degree * A * B \in Nat /\ Degree * (A * B) = Degree * A * B
  BY CoeffsFacts
<1>2. ASSUME NEW k \in Coeffs
      PROVE  -(Degree * A * B) <= Conv(f, g, k) /\ Conv(f, g, k) <= Degree * A * B
  <2> DEFINE t == [a \in Coeffs |-> Ext(f)[a] * Ext(g)[k - a]]
             M == A * B
  <2>1. ASSUME NEW a \in Coeffs PROVE t[a] \in Int /\ -M <= t[a] /\ t[a] <= M
    <3>1. Ext(f)[a] = f[a] /\ f[a] \in Int /\ -A <= f[a] /\ f[a] <= A /\ k - a \in Int
      BY CoeffsFacts, ExtFacts DEF ZPoly, Within
    <3>2. PICK r \in Coeffs, s \in Int : k - a = r + s * Degree
      BY <3>1, SplitIndex
    <3>3. Ext(g)[k - a] = IF s % 2 = 0 THEN g[r] ELSE -g[r]
      BY <3>2, ExtAt
    <3>4. g[r] \in Int /\ -B <= g[r] /\ g[r] <= B
      BY DEF ZPoly, Within
    <3> DEFINE u == f[a]  v == Ext(g)[k - a]
    <3>5. u \in Int /\ v \in Int /\ -A <= u /\ u <= A /\ -B <= v /\ v <= B /\ t[a] = u * v
      BY <3>1, <3>3, <3>4
    <3> HIDE DEF u, v, t
    <3>6. -(A * B) <= u * v /\ u * v <= A * B /\ u * v \in Int
      <4>1. CASE u >= 0 /\ v >= 0
        <5>1. u * v <= A * v /\ A * v <= A * B /\ u * v >= 0
          BY <3>5, <4>1
        <5> QED
          BY <3>5, <5>1
      <4>2. CASE u >= 0 /\ v < 0
        <5>1. u * (-v) <= A * (-v) /\ A * (-v) <= A * B /\ u * (-v) >= 0
          BY <3>5, <4>2
        <5> QED
          BY <3>5, <5>1
      <4>3. CASE u < 0 /\ v >= 0
        <5>1. (-u) * v <= A * v /\ A * v <= A * B /\ (-u) * v >= 0
          BY <3>5, <4>3
        <5> QED
          BY <3>5, <5>1
      <4>4. CASE u < 0 /\ v < 0
        <5>1. (-u) * (-v) <= A * (-v) /\ A * (-v) <= A * B /\ (-u) * (-v) >= 0
          BY <3>5, <4>4
        <5> QED
          BY <3>5, <5>1
      <4> QED
        BY <3>5, <4>1, <4>2, <4>3, <4>4
    <3> QED
      BY <3>5, <3>6
  <2>2. M \in Nat /\ \A a \in Coeffs : t[a] \in Int /\ -M <= t[a] /\ t[a] <= M
    BY <1>1, <2>1
  <2> HIDE DEF t, M
  <2>3. /\ -(Cardinality(Coeffs) * M) <= SumFunctionOnSet(t, Coeffs)
        /\ SumFunctionOnSet(t, Coeffs) <= Cardinality(Coeffs) * M
    BY <2>2, CoeffsFacts, SumBound
  <2>4. Cardinality(Coeffs) * M = Degree * A * B
    BY <1>1, CoeffsFacts DEF M
  <2> QED
    BY <2>3, <2>4 DEF Conv, t
<1> QED
  BY <1>1, <1>2, MulType DEF Within

-----------------------------------------------------------------------------
(* Sums of polynomials                                                      *)

\* n polynomials, and their sum.
Polys(F, n) == \A r \in 1..n : F[r] \in ZPoly
ZSum(F, n) == [i \in Coeffs |-> SumFunctionOnSet([r \in 1..n |-> F[r][i]], 1..n)]

\* A sum of polynomials, one at a time.
LEMMA ZSumStep ==
    ASSUME NEW F
    PROVE  /\ ZSum(F, 0) = ZZero
           /\ \A n \in Nat : Polys(F, n) => ZSum(F, n) \in ZPoly
           /\ \A n \in Nat \ {0} :
                 Polys(F, n) => ZSum(F, n) = ZAdd(ZSum(F, n - 1), F[n])
<1>1. ZSum(F, 0) = ZZero
  <2>1. 1..0 = {}
    OBVIOUS
  <2> DEFINE t(i) == [r \in 1..0 |-> F[r][i]]
  <2>2. \A i \in Coeffs : SumFunctionOnSet(t(i), {}) = 0
    BY SumEmpty
  <2>3. ZSum(F, 0) = [i \in Coeffs |-> SumFunctionOnSet(t(i), {})]
    BY <2>1 DEF ZSum
  <2> HIDE DEF t
  <2> QED
    BY <2>2, <2>3 DEF ZZero
<1>2. ASSUME NEW n \in Nat, Polys(F, n), NEW i \in Coeffs
      PROVE  LET t == [r \in 1..n |-> F[r][i]] IN IsSum(t, 1..n) /\ IsFiniteSet(1..n)
  <2> DEFINE t == [r \in 1..n |-> F[r][i]]
  <2>1. IntOn(t, 1..n)
    BY <1>2 DEF IntOn, Polys, ZPoly
  <2>2. IsFiniteSet(1..n)
    BY FS_Interval
  <2> HIDE DEF t
  <2>3. IsSum(t, 1..n)
    BY <2>1, <2>2, SumIsSum
  <2> QED
    BY <2>2, <2>3 DEF t
<1>3. ASSUME NEW n \in Nat, Polys(F, n) PROVE ZSum(F, n) \in ZPoly
  <2>1. ASSUME NEW i \in Coeffs PROVE ZSum(F, n)[i] \in Int
    BY <1>2, <1>3 DEF ZSum, IsSum
  <2> QED
    BY <2>1 DEF ZSum, ZPoly
<1>4. ASSUME NEW n \in Nat \ {0}, Polys(F, n)
      PROVE  ZSum(F, n) = ZAdd(ZSum(F, n - 1), F[n])
  <2>1. n - 1 \in Nat /\ n \in 1..n /\ (1..n) \ {n} = 1..(n - 1)
        /\ 1..(n - 1) \in SUBSET (1..n) /\ IsFiniteSet(1..(n - 1))
    BY FS_Interval
  <2>2. Polys(F, n - 1)
    BY <1>4, <2>1 DEF Polys
  <2>3. ASSUME NEW i \in Coeffs
        PROVE  ZSum(F, n)[i] = ZSum(F, n - 1)[i] + F[n][i]
    <3> DEFINE t == [r \in 1..n |-> F[r][i]]
               u == [r \in 1..(n - 1) |-> F[r][i]]
    <3>1. IsSum(t, 1..n)
      BY <1>2, <1>4
    <3>2. t[n] = F[n][i] /\ F[n][i] \in Int
      BY <1>4, <2>1 DEF Polys, ZPoly
    <3>3. IntOn(u, 1..(n - 1)) /\ \A r \in 1..(n - 1) : u[r] = t[r]
      BY <2>1, <2>2 DEF IntOn, Polys, ZPoly
    <3>4. ZSum(F, n)[i] = SumFunctionOnSet(t, 1..n)
          /\ ZSum(F, n - 1)[i] = SumFunctionOnSet(u, 1..(n - 1))
      BY DEF ZSum
    <3> HIDE DEF t, u
    <3>5. SumFunctionOnSet(t, 1..n) = t[n] + SumFunctionOnSet(t, 1..(n - 1))
          /\ SumFunctionOnSet(t, 1..(n - 1)) \in Int
      <4> DEFINE A == 1..n  B == 1..(n - 1)
      <4>1. n \in A /\ A \ {n} = B /\ B \in SUBSET A /\ IsSum(t, A)
        BY <2>1, <3>1
      <4> HIDE DEF A, B
      <4>2. SumFunctionOnSet(t, A) = t[n] + SumFunctionOnSet(t, B)
            /\ SumFunctionOnSet(t, B) \in Int
        BY <4>1 DEF IsSum
      <4> QED
        BY <4>2 DEF A, B
    <3>6. SumFunctionOnSet(u, 1..(n - 1)) = SumFunctionOnSet(t, 1..(n - 1))
      BY <2>1, <3>3, SumAgrees
    <3> QED
      BY <3>2, <3>4, <3>5, <3>6
  <2>4. ZSum(F, n) \in ZPoly /\ ZSum(F, n - 1) \in ZPoly /\ F[n] \in ZPoly
    BY <1>3, <1>4, <2>1, <2>2 DEF Polys
  <2>5. ZAdd(ZSum(F, n - 1), F[n]) \in ZPoly
    BY <2>4, PolyTypes
  <2>6. \A i \in Coeffs : ZSum(F, n)[i] = ZAdd(ZSum(F, n - 1), F[n])[i]
    BY <2>3 DEF ZAdd
  <2> QED
    BY <2>4, <2>5, <2>6, SamePoly
<1> QED
  BY <1>1, <1>3, <1>4

\* The polynomials p[0..n], each the one before and a term more.
PolyChain(p, F, n) == p[0] = ZZero /\ \A k \in 1..n : p[k] = ZAdd(p[k - 1], F[k])

\* The sum is what any such chain ends with.
LEMMA ZSumChain ==
    ASSUME NEW F, NEW n \in Nat, Polys(F, n), NEW p, PolyChain(p, F, n)
    PROVE  p[n] = ZSum(F, n)
<1> DEFINE G == {k \in Nat : k <= n => p[k] = ZSum(F, k)}
<1>1. 0 \in G
  BY ZSumStep DEF PolyChain
<1>2. ASSUME NEW k \in Nat, k \in G PROVE k + 1 \in G
  <2>1. SUFFICES ASSUME k + 1 <= n PROVE p[k + 1] = ZSum(F, k + 1)
    OBVIOUS
  <2>2. k + 1 \in 1..n /\ (k + 1) - 1 = k /\ k + 1 \in Nat \ {0} /\ p[k] = ZSum(F, k)
    BY <1>2, <2>1
  <2>3. Polys(F, k + 1)
    BY <2>2 DEF Polys
  <2>4. ZSum(F, k + 1) = ZAdd(ZSum(F, k), F[k + 1])
    BY <2>2, <2>3, ZSumStep
  <2> QED
    BY <2>2, <2>4 DEF PolyChain
<1> HIDE DEF G
<1>3. n \in G
  BY <1>1, <1>2, InductionSet
<1> QED
  BY <1>3 DEF G

\* The sums of the first k polynomials are such a chain.
LEMMA ZSumIsChain ==
    ASSUME NEW F, NEW n \in Nat, Polys(F, n)
    PROVE  /\ \A k \in 0..n : ZSum(F, k) \in ZPoly
           /\ ZSum(F, 0) = ZZero
           /\ \A k \in 1..n : ZSum(F, k) = ZAdd(ZSum(F, k - 1), F[k])
<1>1. \A k \in 0..n : Polys(F, k)
  BY DEF Polys
<1>2. \A k \in 0..n : k \in Nat
  OBVIOUS
<1>3. \A k \in 1..n : k \in Nat \ {0} /\ k \in 0..n
  OBVIOUS
<1> QED
  BY <1>1, <1>2, <1>3, ZSumStep

\* Equal terms have equal sums.
LEMMA ZSumSame ==
    ASSUME NEW n \in Nat, NEW F, NEW G, Polys(F, n), \A r \in 1..n : G[r] = F[r]
    PROVE  ZSum(G, n) = ZSum(F, n)
<1> DEFINE p == [k \in 0..n |-> ZSum(G, k)]
<1>1. Polys(G, n)
  BY DEF Polys
<1>2. /\ ZSum(G, 0) = ZZero
      /\ \A k \in 1..n : ZSum(G, k) = ZAdd(ZSum(G, k - 1), G[k])
  BY <1>1, ZSumIsChain
<1>3. PolyChain(p, F, n)
  <2>1. \A k \in 1..n : k \in 0..n /\ k - 1 \in 0..n
    OBVIOUS
  <2>2. 0 \in 0..n
    OBVIOUS
  <2> QED
    BY <1>2, <2>1, <2>2 DEF PolyChain
<1>4. p[n] = ZSum(F, n)
  <2> HIDE DEF p
  <2> QED
    BY <1>3, ZSumChain
<1>5. n \in 0..n
  OBVIOUS
<1> QED
  BY <1>4, <1>5

\* The sum of two sums, term by term.
LEMMA ZSumAdds ==
    ASSUME NEW n \in Nat, NEW F, NEW G, NEW H, Polys(F, n), Polys(G, n),
           \A r \in 1..n : H[r] = ZAdd(F[r], G[r])
    PROVE  ZSum(H, n) = ZAdd(ZSum(F, n), ZSum(G, n)) /\ Polys(H, n)
<1> DEFINE p == [k \in 0..n |-> ZAdd(ZSum(F, k), ZSum(G, k))]
<1>1. Polys(H, n)
  BY PolyTypes DEF Polys
<1>2. /\ \A k \in 0..n : ZSum(F, k) \in ZPoly /\ ZSum(G, k) \in ZPoly
      /\ ZSum(F, 0) = ZZero /\ ZSum(G, 0) = ZZero
      /\ \A k \in 1..n : /\ ZSum(F, k) = ZAdd(ZSum(F, k - 1), F[k])
                         /\ ZSum(G, k) = ZAdd(ZSum(G, k - 1), G[k])
  BY ZSumIsChain
<1>3. PolyChain(p, H, n)
  <2>1. p[0] = ZZero
    <3>1. p[0] = ZAdd(ZZero, ZZero)
      BY <1>2
    <3>2. ZAdd(ZZero, ZZero) = ZZero
      BY DEF ZAdd, ZZero
    <3> QED
      BY <3>1, <3>2
  <2>2. ASSUME NEW k \in 1..n PROVE p[k] = ZAdd(p[k - 1], H[k])
    <3> DEFINE a == ZSum(F, k - 1)  b == ZSum(G, k - 1)
    <3>1. /\ p[k] = ZAdd(ZAdd(a, F[k]), ZAdd(b, G[k])) /\ p[k - 1] = ZAdd(a, b)
          /\ H[k] = ZAdd(F[k], G[k])
          /\ a \in ZPoly /\ b \in ZPoly /\ F[k] \in ZPoly /\ G[k] \in ZPoly
      BY <1>2 DEF Polys
    <3> HIDE DEF a, b, p
    <3>2. \A i \in Coeffs : a[i] \in Int /\ b[i] \in Int /\ F[k][i] \in Int /\ G[k][i] \in Int
      BY <3>1, PolyTypes
    <3>3. ZAdd(ZAdd(a, F[k]), ZAdd(b, G[k])) = ZAdd(ZAdd(a, b), ZAdd(F[k], G[k]))
      BY <3>2 DEF ZAdd
    <3> QED
      BY <3>1, <3>3
  <2> QED
    BY <2>1, <2>2 DEF PolyChain
<1>4. p[n] = ZSum(H, n)
  <2> HIDE DEF p
  <2> QED
    BY <1>1, <1>3, ZSumChain
<1>5. n \in 0..n
  OBVIOUS
<1> QED
  BY <1>1, <1>4, <1>5

\* The difference of two sums, term by term.
LEMMA ZSumSubtracts ==
    ASSUME NEW n \in Nat, NEW F, NEW G, NEW H, Polys(F, n), Polys(G, n),
           \A r \in 1..n : H[r] = ZSub(F[r], G[r])
    PROVE  ZSum(H, n) = ZSub(ZSum(F, n), ZSum(G, n)) /\ Polys(H, n)
<1>1. Polys(H, n)
  BY PolyTypes DEF Polys
<1>2. \A r \in 1..n : F[r] = ZAdd(H[r], G[r])
  <2> TAKE r \in 1..n
  <2>1. F[r] \in ZPoly /\ G[r] \in ZPoly /\ H[r] = ZSub(F[r], G[r]) /\ H[r] \in ZPoly
    BY <1>1 DEF Polys
  <2>2. ZAdd(H[r], G[r]) \in ZPoly /\ \A i \in Coeffs : F[r][i] \in Int /\ G[r][i] \in Int
    BY <2>1, PolyTypes
  <2>3. \A i \in Coeffs : F[r][i] = ZAdd(H[r], G[r])[i]
    BY <2>1, <2>2 DEF ZAdd, ZSub
  <2> QED
    BY <2>1, <2>2, <2>3, SamePoly
<1> DEFINE u == ZSum(F, n)  v == ZSum(G, n)  w == ZSum(H, n)
<1>3. u = ZAdd(w, v) /\ u \in ZPoly /\ v \in ZPoly /\ w \in ZPoly
  BY <1>1, <1>2, ZSumAdds, ZSumStep
<1> HIDE DEF u, v, w
<1>4. w = ZSub(u, v)
  <2>1. ZSub(u, v) \in ZPoly /\ \A i \in Coeffs : v[i] \in Int /\ w[i] \in Int
    BY <1>3, PolyTypes
  <2>2. \A i \in Coeffs : w[i] = ZSub(u, v)[i]
    BY <1>3, <2>1 DEF ZAdd, ZSub
  <2> QED
    BY <1>3, <2>1, <2>2, SamePoly
<1> QED
  BY <1>1, <1>4 DEF u, v, w

\* A common factor goes through a sum.
LEMMA ZSumMul ==
    ASSUME NEW n \in Nat, NEW F, NEW H, NEW h \in ZPoly, Polys(F, n),
           \A r \in 1..n : H[r] = ZMul(F[r], h)
    PROVE  ZSum(H, n) = ZMul(ZSum(F, n), h) /\ Polys(H, n)
<1> DEFINE p == [k \in 0..n |-> ZMul(ZSum(F, k), h)]
<1>1. Polys(H, n)
  BY MulType DEF Polys
<1>2. /\ \A k \in 0..n : ZSum(F, k) \in ZPoly
      /\ ZSum(F, 0) = ZZero
      /\ \A k \in 1..n : ZSum(F, k) = ZAdd(ZSum(F, k - 1), F[k])
  BY ZSumIsChain
<1>3. PolyChain(p, H, n)
  <2>1. p[0] = ZZero
    <3>1. p[0] = ZMul(ZZero, h)
      BY <1>2
    <3> DEFINE z == ZMul(ZZero, h)
    <3>2. z \in ZPoly /\ ZZero \in ZPoly
      BY MulType, PolyTypes
    <3>3. ZAdd(ZZero, ZZero) = ZZero
      BY DEF ZAdd, ZZero
    <3>4. z = ZAdd(z, z)
      BY <3>2, <3>3, MulAdds
    <3> HIDE DEF z
    <3>5. \A i \in Coeffs : z[i] = ZZero[i]
      <4> TAKE i \in Coeffs
      <4> DEFINE v == z[i]
      <4>1. z[i] \in Int
        BY <3>2, PolyTypes
      <4>2. v \in Int /\ v = v + v
        BY <3>4, <4>1 DEF ZAdd
      <4>3. ZZero[i] = 0
        BY DEF ZZero
      <4> HIDE DEF v
      <4>4. v = 0
        BY <4>2
      <4> QED
        BY <4>3, <4>4 DEF v
    <3>6. z = ZZero
      BY <3>2, <3>5, SamePoly
    <3> QED
      BY <3>1, <3>6 DEF z
  <2>2. ASSUME NEW k \in 1..n PROVE p[k] = ZAdd(p[k - 1], H[k])
    <3> DEFINE a == ZSum(F, k - 1)
    <3>1. /\ p[k] = ZMul(ZAdd(a, F[k]), h) /\ p[k - 1] = ZMul(a, h)
          /\ H[k] = ZMul(F[k], h)
          /\ a \in ZPoly /\ F[k] \in ZPoly
      BY <1>2 DEF Polys
    <3> HIDE DEF a, p
    <3> QED
      BY <3>1, MulAdds
  <2> QED
    BY <2>1, <2>2 DEF PolyChain
<1>4. p[n] = ZSum(H, n)
  <2> HIDE DEF p
  <2> QED
    BY <1>1, <1>3, ZSumChain
<1>5. n \in 0..n
  OBVIOUS
<1> QED
  BY <1>1, <1>4, <1>5

\* A common integer factor goes through a sum.
LEMMA ZSumScales ==
    ASSUME NEW n \in Nat, NEW F, NEW H, NEW c \in Int, Polys(F, n),
           \A r \in 1..n : H[r] = ZScale(F[r], c)
    PROVE  ZSum(H, n) = ZScale(ZSum(F, n), c) /\ Polys(H, n)
<1> DEFINE p == [k \in 0..n |-> ZScale(ZSum(F, k), c)]
<1>1. Polys(H, n)
  BY PolyTypes DEF Polys
<1>2. /\ \A k \in 0..n : ZSum(F, k) \in ZPoly
      /\ ZSum(F, 0) = ZZero
      /\ \A k \in 1..n : ZSum(F, k) = ZAdd(ZSum(F, k - 1), F[k])
  BY ZSumIsChain
<1>3. PolyChain(p, H, n)
  <2>1. p[0] = ZZero
    <3>1. p[0] = ZScale(ZZero, c)
      BY <1>2
    <3>2. ZScale(ZZero, c) = ZZero
      BY DEF ZScale, ZZero
    <3> QED
      BY <3>1, <3>2
  <2>2. ASSUME NEW k \in 1..n PROVE p[k] = ZAdd(p[k - 1], H[k])
    <3> DEFINE a == ZSum(F, k - 1)
    <3>1. /\ p[k] = ZScale(ZAdd(a, F[k]), c) /\ p[k - 1] = ZScale(a, c)
          /\ H[k] = ZScale(F[k], c)
          /\ a \in ZPoly /\ F[k] \in ZPoly
      BY <1>2 DEF Polys
    <3> HIDE DEF a, p
    <3> DEFINE f == F[k]
    <3>2. f \in ZPoly /\ \A i \in Coeffs : a[i] \in Int /\ f[i] \in Int
      BY <3>1, PolyTypes
    <3>3. ZScale(ZAdd(a, f), c) = ZAdd(ZScale(a, c), ZScale(f, c))
      <4> HIDE DEF f
      <4>1. ASSUME NEW i \in Coeffs PROVE c * (a[i] + f[i]) = c * a[i] + c * f[i]
        <5> DEFINE m == a[i]  w == f[i]
        <5>1. m \in Int /\ w \in Int
          BY <3>2
        <5> HIDE DEF m, w
        <5>2. c * (m + w) = c * m + c * w
          BY <5>1
        <5> QED
          BY <5>2 DEF m, w
      <4> QED
        BY <4>1 DEF ZScale, ZAdd
    <3> QED
      BY <3>1, <3>3 DEF f
  <2> QED
    BY <2>1, <2>2 DEF PolyChain
<1>4. p[n] = ZSum(H, n)
  <2> HIDE DEF p
  <2> QED
    BY <1>1, <1>3, ZSumChain
<1>5. n \in 0..n
  OBVIOUS
<1> QED
  BY <1>1, <1>4, <1>5

\* n polynomials within B add up to one within n B.
LEMMA ZSumBound ==
    ASSUME NEW n \in Nat, NEW F, NEW B \in Nat, Polys(F, n), \A r \in 1..n : Within(F[r], B)
    PROVE  Within(ZSum(F, n), n * B) /\ n * B \in Nat
<1>1. ASSUME NEW i \in Coeffs PROVE -(n * B) <= ZSum(F, n)[i] /\ ZSum(F, n)[i] <= n * B
  <2> DEFINE t == [r \in 1..n |-> F[r][i]]
             S == 1..n
  <2>1. \A r \in S : t[r] \in Int /\ -B <= t[r] /\ t[r] <= B
    BY DEF Polys, ZPoly, Within
  <2>2. IsFiniteSet(S) /\ Cardinality(S) = n
    <3>1. ~(1 > n) \/ n = 0
      OBVIOUS
    <3> QED
      BY <3>1, FS_Interval
  <2>3. ZSum(F, n)[i] = SumFunctionOnSet(t, S)
    BY DEF ZSum
  <2> HIDE DEF t, S
  <2>4. /\ -(Cardinality(S) * B) <= SumFunctionOnSet(t, S)
        /\ SumFunctionOnSet(t, S) <= Cardinality(S) * B
    BY <2>1, <2>2, SumBound
  <2> QED
    BY <2>2, <2>3, <2>4
<1> QED
  BY <1>1 DEF Within

-----------------------------------------------------------------------------
(* Residue polynomials of integer polynomials                               *)

(* Residue polynomials of integer polynomials. *)

\* A basis of positive moduli.
Positive(b) == b \in Seq(Nat) /\ \A j \in 1..Len(b) : b[j] \in Nat /\ b[j] > 0

\* The indices of such a basis, and its moduli.
LEMMA PositiveDomain ==
    ASSUME NEW b, Positive(b)
    PROVE  DOMAIN b = 1..Len(b) /\ Len(b) \in Nat /\ \A j \in DOMAIN b : b[j] \in Nat /\ b[j] > 0
BY DEF Positive

\* from_integers reduces every coefficient modulo every modulus.
LEMMA FIValue ==
    ASSUME NEW b, Positive(b), NEW f \in ZPoly
    PROVE  \A i \in Coeffs : \A j \in DOMAIN b :
              /\ FromIntegers(f, b)[i][j] = f[i] % b[j]
              /\ FromIntegers(f, b)[i][j] \in 0..(b[j] - 1)
              /\ Cong(FromIntegers(f, b)[i][j], f[i], b[j])
<1> TAKE i \in Coeffs
<1> TAKE j \in DOMAIN b
<1>1. FromIntegers(f, b)[i][j] = f[i] % b[j]
  BY DEF FromIntegers, Decompose
<1>2. f[i] \in Int /\ b[j] \in Nat /\ b[j] > 0
  BY PositiveDomain DEF ZPoly
<1>3. f[i] % b[j] \in 0..(b[j] - 1) /\ Cong(f[i] % b[j], f[i], b[j])
  BY <1>2, CongOfMod
<1> QED
  BY <1>1, <1>3

\* Any table of residues congruent to f is the residue polynomial of f.
LEMMA FITable ==
    ASSUME NEW b, Positive(b), NEW f \in ZPoly, NEW t,
           \A i \in Coeffs : \A j \in DOMAIN b :
              t[i][j] \in 0..(b[j] - 1) /\ Cong(t[i][j], f[i], b[j])
    PROVE  [i \in Coeffs |-> [j \in DOMAIN b |-> t[i][j]]] = FromIntegers(f, b)
<1>1. ASSUME NEW i \in Coeffs, NEW j \in DOMAIN b PROVE t[i][j] = f[i] % b[j]
  <2>1. f[i] \in Int /\ b[j] \in Nat /\ b[j] > 0
    BY PositiveDomain DEF ZPoly
  <2> DEFINE u == t[i][j]  v == f[i]  q == b[j]
  <2>2. u \in 0..(q - 1) /\ Cong(u, v, q) /\ v \in Int /\ q \in Nat /\ q > 0
    BY <2>1
  <2> HIDE DEF u, v, q
  <2>3. v % q \in 0..(q - 1) /\ Cong(v, v % q, q) /\ u \in Int
    BY <2>2, CongOfMod
  <2>4. Cong(u, v % q, q)
    BY <2>2, <2>3, CongTrans
  <2>5. u = v % q
    BY <2>2, <2>3, <2>4, CongUnique
  <2> QED
    BY <2>5 DEF u, v, q
<1> QED
  BY <1>1 DEF FromIntegers, Decompose

\* Integer polynomials that agree modulo every modulus.
LEMMA FISame ==
    ASSUME NEW b, Positive(b), NEW f \in ZPoly, NEW g \in ZPoly
    PROVE  FromIntegers(f, b) = FromIntegers(g, b)
               <=> \A i \in Coeffs : \A j \in DOMAIN b : Cong(f[i], g[i], b[j])
<1>1. ASSUME NEW i \in Coeffs, NEW j \in DOMAIN b
      PROVE  f[i] % b[j] = g[i] % b[j] <=> Cong(f[i], g[i], b[j])
  <2>1. f[i] \in Int /\ g[i] \in Int /\ b[j] \in Nat /\ b[j] > 0
    BY PositiveDomain DEF ZPoly
  <2> QED
    BY <2>1, CongIff
<1>2. ASSUME FromIntegers(f, b) = FromIntegers(g, b), NEW i \in Coeffs, NEW j \in DOMAIN b
      PROVE  Cong(f[i], g[i], b[j])
  BY <1>1, <1>2, FIValue
<1>3. ASSUME \A i \in Coeffs : \A j \in DOMAIN b : Cong(f[i], g[i], b[j])
      PROVE  FromIntegers(f, b) = FromIntegers(g, b)
  BY <1>1, <1>3 DEF FromIntegers, Decompose
<1> QED
  BY <1>2, <1>3

\* Poly::add of residues is the residues of the sum.
LEMMA FIAdd ==
    ASSUME NEW b, Positive(b), NEW f \in ZPoly, NEW g \in ZPoly
    PROVE  PolyAdd(FromIntegers(f, b), FromIntegers(g, b), b) = FromIntegers(ZAdd(f, g), b)
<1> DEFINE F == FromIntegers(f, b)  G == FromIntegers(g, b)
           t == [i \in Coeffs |-> [j \in DOMAIN b |-> AddMod(F[i][j], G[i][j], b[j])]]
<1>1. ZAdd(f, g) \in ZPoly
  BY PolyTypes
<1>2. ASSUME NEW i \in Coeffs, NEW j \in DOMAIN b
      PROVE  t[i][j] \in 0..(b[j] - 1) /\ Cong(t[i][j], ZAdd(f, g)[i], b[j])
  <2>1. /\ f[i] \in Int /\ g[i] \in Int /\ b[j] \in Nat /\ b[j] > 0
        /\ F[i][j] = f[i] % b[j] /\ G[i][j] = g[i] % b[j]
        /\ ZAdd(f, g)[i] = f[i] + g[i]
    BY PositiveDomain, FIValue DEF ZPoly, ZAdd
  <2> DEFINE u == f[i]  v == g[i]  q == b[j]  ur == u % q  vr == v % q
             r == AddMod(ur, vr, q)
  <2>2. u \in Int /\ v \in Int /\ q \in Nat /\ q > 0 /\ t[i][j] = r
    BY <2>1
  <2> HIDE DEF u, v, q, t
  <2>3. ur \in 0..(q - 1) /\ vr \in 0..(q - 1) /\ Cong(ur, u, q) /\ Cong(vr, v, q)
    BY <2>2, CongOfMod
  <2> HIDE DEF ur, vr
  <2>4. Cong(ur + vr, u + v, q) /\ ur + vr \in Int /\ u + v \in Int
    BY <2>2, <2>3, CongAdd
  <2> DEFINE w == ur + vr
  <2>5. r \in 0..(q - 1) /\ Cong(r, ur + vr, q) /\ r \in Int
    <3>1. w \in Int /\ r = w % q
      BY <2>4 DEF AddMod
    <3> HIDE DEF w, r
    <3>2. w % q \in 0..(q - 1) /\ Cong(w % q, w, q)
      BY <2>2, <3>1, CongOfMod
    <3> QED
      BY <2>2, <3>1, <3>2 DEF w
  <2> HIDE DEF r
  <2>7. Cong(r, u + v, q)
    BY <2>2, <2>4, <2>5, CongTrans
  <2> QED
    BY <2>1, <2>2, <2>5, <2>7 DEF u, v, q
<1> HIDE DEF t
<1>3. [i \in Coeffs |-> [j \in DOMAIN b |-> t[i][j]]] = FromIntegers(ZAdd(f, g), b)
  BY <1>1, <1>2, FITable
<1>4. [i \in Coeffs |-> [j \in DOMAIN b |-> t[i][j]]] = t
  BY DEF t
<1> QED
  BY <1>3, <1>4 DEF PolyAdd, t

\* Poly::sub of residues is the residues of the difference.
LEMMA FISub ==
    ASSUME NEW b, Positive(b), NEW f \in ZPoly, NEW g \in ZPoly
    PROVE  PolySub(FromIntegers(f, b), FromIntegers(g, b), b) = FromIntegers(ZSub(f, g), b)
<1> DEFINE F == FromIntegers(f, b)  G == FromIntegers(g, b)
           t == [i \in Coeffs |-> [j \in DOMAIN b |-> SubMod(F[i][j], G[i][j], b[j])]]
<1>1. ZSub(f, g) \in ZPoly
  BY PolyTypes
<1>2. ASSUME NEW i \in Coeffs, NEW j \in DOMAIN b
      PROVE  t[i][j] \in 0..(b[j] - 1) /\ Cong(t[i][j], ZSub(f, g)[i], b[j])
  <2>1. /\ f[i] \in Int /\ g[i] \in Int /\ b[j] \in Nat /\ b[j] > 0
        /\ F[i][j] = f[i] % b[j] /\ G[i][j] = g[i] % b[j]
        /\ ZSub(f, g)[i] = f[i] - g[i]
    BY PositiveDomain, FIValue DEF ZPoly, ZSub
  <2> DEFINE u == f[i]  v == g[i]  q == b[j]  ur == u % q  vr == v % q
             r == SubMod(ur, vr, q)
  <2>2. u \in Int /\ v \in Int /\ q \in Nat /\ q > 0 /\ t[i][j] = r
    BY <2>1
  <2> HIDE DEF u, v, q, t
  <2>3. ur \in 0..(q - 1) /\ vr \in 0..(q - 1) /\ Cong(ur, u, q) /\ Cong(vr, v, q)
    BY <2>2, CongOfMod
  <2> HIDE DEF ur, vr
  <2>4. Cong(ur - vr, u - v, q) /\ ur - vr \in Int /\ u - v \in Int
    BY <2>2, <2>3, CongAdd
  <2>5. r \in 0..(q - 1) /\ Cong(r, ur - vr, q) /\ r \in Int
    BY <2>2, <2>3, SubModCong
  <2> HIDE DEF r
  <2>7. Cong(r, u - v, q)
    BY <2>2, <2>4, <2>5, CongTrans
  <2> QED
    BY <2>1, <2>2, <2>5, <2>7 DEF u, v, q
<1> HIDE DEF t
<1>3. [i \in Coeffs |-> [j \in DOMAIN b |-> t[i][j]]] = FromIntegers(ZSub(f, g), b)
  BY <1>1, <1>2, FITable
<1>4. [i \in Coeffs |-> [j \in DOMAIN b |-> t[i][j]]] = t
  BY DEF t
<1> QED
  BY <1>3, <1>4 DEF PolySub, t

\* Poly::neg of residues is the residues of the opposite.
LEMMA FINeg ==
    ASSUME NEW b, Positive(b), NEW f \in ZPoly
    PROVE  PolyNeg(FromIntegers(f, b), b) = FromIntegers(ZNeg(f), b)
<1> DEFINE F == FromIntegers(f, b)
           t == [i \in Coeffs |-> [j \in DOMAIN b |-> NegMod(F[i][j], b[j])]]
<1>1. ZNeg(f) \in ZPoly
  BY PolyTypes
<1>2. ASSUME NEW i \in Coeffs, NEW j \in DOMAIN b
      PROVE  t[i][j] \in 0..(b[j] - 1) /\ Cong(t[i][j], ZNeg(f)[i], b[j])
  <2>1. /\ f[i] \in Int /\ b[j] \in Nat /\ b[j] > 0
        /\ F[i][j] = f[i] % b[j] /\ ZNeg(f)[i] = -f[i]
    BY PositiveDomain, FIValue DEF ZPoly, ZNeg
  <2> DEFINE u == f[i]  q == b[j]  ur == u % q  r == NegMod(ur, q)
  <2>2. u \in Int /\ q \in Nat /\ q > 0 /\ t[i][j] = r
    BY <2>1
  <2> HIDE DEF u, q, t
  <2>3. ur \in 0..(q - 1) /\ Cong(ur, u, q)
    BY <2>2, CongOfMod
  <2> HIDE DEF ur
  <2>4. Cong(0 - ur, 0 - u, q) /\ 0 - ur \in Int /\ 0 - u \in Int
    <3>1. 0 \in Int /\ Cong(0, 0, q) /\ ur \in Int
      BY <2>2, <2>3, CongRefl
    <3> QED
      BY <2>2, <2>3, <3>1, CongAdd
  <2>5. r \in 0..(q - 1) /\ Cong(r, 0 - ur, q) /\ r \in Int
    BY <2>2, <2>3, NegModCong
  <2> HIDE DEF r
  <2>7. Cong(r, 0 - u, q)
    BY <2>2, <2>4, <2>5, CongTrans
  <2>8. 0 - u = -u
    BY <2>2
  <2> QED
    BY <2>1, <2>2, <2>5, <2>7, <2>8 DEF u, q
<1> HIDE DEF t
<1>3. [i \in Coeffs |-> [j \in DOMAIN b |-> t[i][j]]] = FromIntegers(ZNeg(f), b)
  BY <1>1, <1>2, FITable
<1>4. [i \in Coeffs |-> [j \in DOMAIN b |-> t[i][j]]] = t
  BY DEF t
<1> QED
  BY <1>3, <1>4 DEF PolyNeg, t

\* scalar_mul of residues is the residues of the multiple.
LEMMA FIScale ==
    ASSUME NEW b, Positive(b), NEW f \in ZPoly, NEW c \in Int
    PROVE  PolyScale(FromIntegers(f, b), c, b) = FromIntegers(ZScale(f, c), b)
<1> DEFINE F == FromIntegers(f, b)
           t == [i \in Coeffs |-> [j \in DOMAIN b |-> MulMod(F[i][j], c % b[j], b[j])]]
<1>1. ZScale(f, c) \in ZPoly
  BY PolyTypes
<1>2. ASSUME NEW i \in Coeffs, NEW j \in DOMAIN b
      PROVE  t[i][j] \in 0..(b[j] - 1) /\ Cong(t[i][j], ZScale(f, c)[i], b[j])
  <2>1. /\ f[i] \in Int /\ b[j] \in Nat /\ b[j] > 0
        /\ F[i][j] = f[i] % b[j] /\ ZScale(f, c)[i] = c * f[i]
    BY PositiveDomain, FIValue DEF ZPoly, ZScale
  <2> DEFINE u == f[i]  q == b[j]  ur == u % q  cr == c % q  w == ur * cr  r == w % q
  <2>2. u \in Int /\ q \in Nat /\ q > 0 /\ t[i][j] = r
    BY <2>1 DEF MulMod
  <2> HIDE DEF u, q, t
  <2>3. ur \in Int /\ cr \in Int /\ Cong(ur, u, q) /\ Cong(cr, c, q)
    BY <2>2, CongOfMod
  <2> HIDE DEF ur, cr
  <2>4. Cong(w, u * c, q) /\ w \in Int /\ u * c \in Int
    BY <2>2, <2>3, CongAdd
  <2> HIDE DEF w
  <2>5. r \in 0..(q - 1) /\ Cong(r, w, q) /\ r \in Int
    BY <2>2, <2>4, CongOfMod
  <2> HIDE DEF r
  <2>7. Cong(r, u * c, q)
    BY <2>2, <2>4, <2>5, CongTrans
  <2>8. u * c = c * u
    BY <2>2
  <2> QED
    BY <2>1, <2>2, <2>5, <2>7, <2>8 DEF u, q
<1> HIDE DEF t
<1>3. [i \in Coeffs |-> [j \in DOMAIN b |-> t[i][j]]] = FromIntegers(ZScale(f, c), b)
  BY <1>1, <1>2, FITable
<1>4. [i \in Coeffs |-> [j \in DOMAIN b |-> t[i][j]]] = t
  BY DEF t
<1> QED
  BY <1>3, <1>4 DEF PolyScale, t

\* f2 is f and q times something.
LEMMA CongLift ==
    ASSUME NEW q \in Int, NEW f \in ZPoly, NEW g \in ZPoly,
           \A i \in Coeffs : Cong(g[i], f[i], q)
    PROVE  \E u \in ZPoly : g = ZAdd(f, ZScale(u, q))
<1> DEFINE u == [i \in Coeffs |-> CHOOSE k \in Int : g[i] = f[i] + k * q]
<1>1. \A i \in Coeffs : u[i] \in Int /\ g[i] = f[i] + u[i] * q
  BY DEF Cong
<1>2. u \in ZPoly
  BY <1>1 DEF ZPoly
<1> HIDE DEF u
<1>3. ZScale(u, q) \in ZPoly
  BY <1>2, PolyTypes
<1>4. ZAdd(f, ZScale(u, q)) \in ZPoly
  BY <1>3, PolyTypes
<1>5. ASSUME NEW i \in Coeffs PROVE g[i] = ZAdd(f, ZScale(u, q))[i]
  <2> DEFINE v == u[i]
  <2>1. v \in Int /\ g[i] = f[i] + v * q /\ ZAdd(f, ZScale(u, q))[i] = f[i] + q * v
    BY <1>1 DEF ZAdd, ZScale
  <2> HIDE DEF v
  <2>2. v * q = q * v
    BY <2>1
  <2> QED
    BY <2>1, <2>2
<1>6. g = ZAdd(f, ZScale(u, q))
  BY <1>4, <1>5, SamePoly
<1> QED
  BY <1>2, <1>6

\* Congruent factors.
LEMMA MulCong ==
    ASSUME NEW q \in Int, NEW f \in ZPoly, NEW f2 \in ZPoly, NEW g \in ZPoly, NEW g2 \in ZPoly,
           \A i \in Coeffs : Cong(f2[i], f[i], q), \A i \in Coeffs : Cong(g2[i], g[i], q)
    PROVE  \A k \in Coeffs : Cong(ZMul(f2, g2)[k], ZMul(f, g)[k], q)
<1>1. PICK u \in ZPoly : f2 = ZAdd(f, ZScale(u, q))
  BY CongLift
<1>2. PICK v \in ZPoly : g2 = ZAdd(g, ZScale(v, q))
  BY CongLift
<1>3. ZScale(u, q) \in ZPoly /\ ZScale(v, q) \in ZPoly
  BY PolyTypes
<1> DEFINE a == ZMul(f, g)  c == ZMul(u, g2)  d == ZMul(v, f)
<1>4. a \in ZPoly /\ c \in ZPoly /\ d \in ZPoly
  BY MulType
<1>5. ZMul(f2, g2) = ZAdd(ZMul(f, g2), ZScale(c, q))
  BY <1>1, <1>3, MulAdds, MulScales
<1>6. ZMul(g2, f) = ZAdd(ZMul(g, f), ZScale(d, q))
  BY <1>2, <1>3, MulAdds, MulScales
<1>7. ZMul(f, g2) = ZAdd(a, ZScale(d, q))
  BY <1>6, MulCommutes
<1>8. ASSUME NEW k \in Coeffs PROVE Cong(ZMul(f2, g2)[k], a[k], q)
  <2>1. ZMul(f2, g2)[k] = (a[k] + q * d[k]) + q * c[k]
    BY <1>5, <1>7 DEF ZAdd, ZScale
  <2>2. a[k] \in Int /\ c[k] \in Int /\ d[k] \in Int
    BY <1>4, PolyTypes
  <2> DEFINE aa == a[k]  cc == c[k]  dd == d[k]
  <2> HIDE DEF a, c, d
  <2>3. aa \in Int /\ cc \in Int /\ dd \in Int /\ ZMul(f2, g2)[k] = (aa + q * dd) + q * cc
    BY <2>1, <2>2
  <2> HIDE DEF aa, cc, dd
  <2>4. (aa + q * dd) + q * cc = aa + (dd + cc) * q
    BY <2>3
  <2>5. dd + cc \in Int
    BY <2>3
  <2>6. Cong(ZMul(f2, g2)[k], aa, q)
    BY <2>3, <2>4, <2>5 DEF Cong
  <2> QED
    BY <2>6 DEF aa
<1> QED
  BY <1>8

\* Poly::mul of residues is the residues of the negacyclic product.
LEMMA FIMul ==
    ASSUME NEW b, Positive(b), NEW f \in ZPoly, NEW g \in ZPoly
    PROVE  PolyMul(FromIntegers(f, b), FromIntegers(g, b), b) = FromIntegers(ZMul(f, g), b)
<1> DEFINE F == FromIntegers(f, b)  G == FromIntegers(g, b)
           t == [k \in Coeffs |-> [j \in DOMAIN b |->
                    NegacyclicCoeff(Component(F, j), Component(G, j), k) % b[j]]]
<1>1. ZMul(f, g) \in ZPoly
  BY MulType
<1>2. ASSUME NEW k \in Coeffs, NEW j \in DOMAIN b
      PROVE  t[k][j] \in 0..(b[j] - 1) /\ Cong(t[k][j], ZMul(f, g)[k], b[j])
  <2> DEFINE fr == Component(F, j)  gr == Component(G, j)  q == b[j]
             w == ZMul(fr, gr)[k]  z == ZMul(f, g)[k]
  <2>1. q \in Nat /\ q > 0 /\ q \in Int
    BY PositiveDomain
  <2>2. fr \in ZPoly /\ gr \in ZPoly /\ \A i \in Coeffs : Cong(fr[i], f[i], q) /\ Cong(gr[i], g[i], q)
    BY <2>1, FIValue DEF Component, ZPoly
  <2>3. t[k][j] = w % q
    BY DEF ZMul
  <2> HIDE DEF fr, gr, q, t
  <2>4. Cong(w, z, q)
    BY <2>1, <2>2, MulCong
  <2>5. w \in Int /\ z \in Int
    <3>1. ZMul(fr, gr) \in ZPoly
      BY <2>2, MulType
    <3> QED
      BY <1>1, <3>1, PolyTypes
  <2> HIDE DEF w, z
  <2>6. w % q \in 0..(q - 1) /\ Cong(w % q, w, q) /\ w % q \in Int
    BY <2>1, <2>5, CongOfMod
  <2>7. Cong(w % q, z, q)
    BY <2>1, <2>4, <2>5, <2>6, CongTrans
  <2> QED
    BY <2>3, <2>6, <2>7 DEF z, q
<1> HIDE DEF t
<1>3. [i \in Coeffs |-> [j \in DOMAIN b |-> t[i][j]]] = FromIntegers(ZMul(f, g), b)
  BY <1>1, <1>2, FITable
<1>4. [i \in Coeffs |-> [j \in DOMAIN b |-> t[i][j]]] = t
  BY DEF t
<1> QED
  BY <1>3, <1>4 DEF PolyMul, t

\* PolySum, of residue polynomials.
LEMMA FISum ==
    ASSUME NEW b, Positive(b), NEW n \in Nat, NEW F, Polys(F, n),
           NEW s, DOMAIN s = 1..n, \A k \in 1..n : s[k] = FromIntegers(F[k], b)
    PROVE  PolySum(s, b) = FromIntegers(ZSum(F, n), b)
<1> DEFINE V0 == {FromIntegers(f, b) : f \in ZPoly}
           base == PolyZero(b)
           Iterates(h) == h = [W \in SUBSET (1..n) |->
               IF W = {} THEN base ELSE PolyAdd(h[W \ {Max(W)}], s[Max(W)], b)]
           iter == CHOOSE h : Iterates(h)
           V == V0 \cup {iter[W] : W \in SUBSET (1..n)}
           step == [k \in 1..n |-> [v \in V |-> PolyAdd(v, s[k], b)]]
<1>1. base = FromIntegers(ZZero, b) /\ base \in V0
  BY PolyTypes DEF PolyZero, ZZero
<1>1a. \A v \in V0, k \in 1..n : PolyAdd(v, s[k], b) \in V0
  <2> TAKE v \in V0, k \in 1..n
  <2>1. PICK f \in ZPoly : v = FromIntegers(f, b)
    OBVIOUS
  <2>2. F[k] \in ZPoly
    BY DEF Polys
  <2>3. PolyAdd(v, s[k], b) = FromIntegers(ZAdd(f, F[k]), b) /\ ZAdd(f, F[k]) \in ZPoly
    BY <2>1, <2>2, FIAdd, PolyTypes
  <2> QED
    BY <2>3
<1>2. PolySum(s, b) = iter[1..n]
  BY DEF PolySum, FoldLeft, MapThenFoldSet
<1> HIDE DEF iter, base
<1>3. V0 \subseteq V /\ \A W \in SUBSET (1..n) : iter[W] \in V
  OBVIOUS
<1> HIDE DEF V
<1>4. \A k \in 1..n, v \in V : step[k][v] = PolyAdd(v, s[k], b)
  OBVIOUS
<1> HIDE DEF step
<1>5. HasFold(n, V0, base, step) /\ HasChain(n, V0, base, step)
  <2>1. SeqSteps(step, n, V0)
    BY <1>1a, <1>3, <1>4 DEF SeqSteps
  <2> HIDE DEF V0
  <2> QED
    BY <1>1, <2>1, FoldLeftChain
<1>6. \A W \in SUBSET (1..n) :
         /\ W \ {Max(W)} \in SUBSET (1..n) /\ MaxOf(n)[W] = Max(W)
         /\ W # {} => Max(W) \in 1..n
  BY MaxOfInterval DEF MaxOf
<1>7. Iterates(iter)
  <2>1. PICK g \in [SUBSET (1..n) -> V0] : IsFold(g, 1..n, base, step, MaxOf(n))
    BY <1>5 DEF HasFold
  <2>2. ASSUME NEW W \in SUBSET (1..n)
        PROVE  g[W] = IF W = {} THEN base ELSE PolyAdd(g[W \ {Max(W)}], s[Max(W)], b)
    <3>1. g[W] = FoldAt(g, W, base, step, MaxOf(n)) /\ g[W \ {Max(W)}] \in V
      BY <2>1, <1>3, <1>6 DEF IsFold
    <3> QED
      BY <3>1, <1>4, <1>6 DEF FoldAt
  <2>3. Iterates(g)
    BY <2>1, <2>2
  <2> QED
    BY <2>3 DEF iter
<1>8. IsFold(iter, 1..n, base, step, MaxOf(n))
  <2> SUFFICES ASSUME NEW W \in SUBSET (1..n)
               PROVE  iter[W] = FoldAt(iter, W, base, step, MaxOf(n))
    BY DEF IsFold
  <2>1. iter[W] = IF W = {} THEN base ELSE PolyAdd(iter[W \ {Max(W)}], s[Max(W)], b)
    BY <1>7
  <2>2. iter[W \ {Max(W)}] \in V
    BY <1>3, <1>6
  <2> QED
    BY <2>1, <2>2, <1>4, <1>6 DEF FoldAt
<1>9. PICK p \in [0..n -> V0] : IsChain(p, n, base, step) /\ iter[1..n] = p[n]
  BY <1>5, <1>8 DEF HasChain
<1>10. ASSUME NEW k \in 1..n PROVE p[k] = PolyAdd(p[k - 1], s[k], b)
  <2>1. k - 1 \in 0..n /\ p[k - 1] \in V
    BY <1>3, <1>9
  <2> QED
    BY <2>1, <1>9, <1>4 DEF IsChain
<1> DEFINE G == {k \in Nat : k <= n => p[k] = FromIntegers(ZSum(F, k), b)}
<1>11. 0 \in G
  <2>1. p[0] = base
    BY <1>9 DEF IsChain
  <2> QED
    BY <1>1, <2>1, ZSumStep
<1>12. ASSUME NEW k \in Nat, k \in G PROVE k + 1 \in G
  <2> SUFFICES ASSUME k + 1 <= n PROVE p[k + 1] = FromIntegers(ZSum(F, k + 1), b)
    OBVIOUS
  <2>1. k + 1 \in 1..n /\ (k + 1) - 1 = k /\ k <= n /\ k \in 0..n
    OBVIOUS
  <2>2. p[k + 1] = PolyAdd(p[k], s[k + 1], b) /\ p[k] = FromIntegers(ZSum(F, k), b)
    BY <1>10, <1>12, <2>1
  <2>3. /\ ZSum(F, k) \in ZPoly /\ F[k + 1] \in ZPoly
        /\ ZSum(F, k + 1) = ZAdd(ZSum(F, k), F[k + 1])
    BY <2>1, ZSumIsChain DEF Polys
  <2> QED
    BY <2>1, <2>2, <2>3, FIAdd
<1> HIDE DEF G
<1>13. n \in G
  BY <1>11, <1>12, InductionSet
<1> QED
  BY <1>2, <1>9, <1>13 DEF G

-----------------------------------------------------------------------------
(* The automorphisms X -> X^g                                               *)

\* The automorphism X -> X^g on integer polynomials: the coefficient of X^i
\* goes to X^(i g), with the sign that X^N = -1 gives.
ZAut(f, g) ==
    [m \in Coeffs |->
        LET i == CHOOSE c \in Coeffs : (c * g) % Degree = m
        IN  IF (i * g) % (2 * Degree) = m THEN f[i] ELSE -f[i]]

\* The terms of a convolution at every integer index.
Terms(f, g, k) == [a \in Int |-> Ext(f)[a] * Ext(g)[k - a]]

\* The terms of a product repeat every N indices.
LEMMA PeriodicTerms ==
    ASSUME NEW f \in ZPoly, NEW g \in ZPoly, NEW k \in Int
    PROVE  /\ Terms(f, g, k) \in [Int -> Int]
           /\ \A r \in Coeffs, s \in Int : Terms(f, g, k)[r + s * Degree] = Terms(f, g, k)[r]
<1> DEFINE H == Terms(f, g, k)
<1> USE DEF Terms
<1>2. H \in [Int -> Int]
  <2> SUFFICES ASSUME NEW a \in Int PROVE Ext(f)[a] * Ext(g)[k - a] \in Int
    OBVIOUS
  <2>1. k - a \in Int
    OBVIOUS
  <2>2. Ext(f)[a] \in Int /\ Ext(g)[k - a] \in Int
    BY <2>1, ExtFacts
  <2> QED
    BY <2>2
<1>3. ASSUME NEW r \in Coeffs, NEW s \in Int PROVE H[r + s * Degree] = H[r]
  <2>1. /\ r \in Int /\ k - r \in Int /\ -s \in Int /\ r + s * Degree \in Int
        /\ k - (r + s * Degree) = (k - r) + (-s) * Degree
        /\ ((-s) % 2 = 0 <=> s % 2 = 0)
    BY CoeffsFacts
  <2>2. H[r + s * Degree] = Ext(f)[r + s * Degree] * Ext(g)[k - (r + s * Degree)]
        /\ H[r] = Ext(f)[r] * Ext(g)[k - r]
    BY <2>1
  <2> HIDE DEF H
  <2>3. /\ Ext(f)[r + s * Degree] = IF s % 2 = 0 THEN Ext(f)[r] ELSE -Ext(f)[r]
        /\ Ext(f)[r] \in Int
    BY <2>1, ExtFacts
  <2>4. /\ Ext(g)[(k - r) + (-s) * Degree]
              = IF (-s) % 2 = 0 THEN Ext(g)[k - r] ELSE -Ext(g)[k - r]
        /\ Ext(g)[k - r] \in Int
    BY <2>1, ExtFacts
  <2> DEFINE u == Ext(f)[r]  v == Ext(g)[k - r]
  <2>5. /\ u \in Int /\ v \in Int /\ H[r] = u * v
        /\ H[r + s * Degree] = IF s % 2 = 0 THEN u * v ELSE (-u) * (-v)
    BY <2>1, <2>2, <2>3, <2>4
  <2> HIDE DEF u, v
  <2>6. (-u) * (-v) = u * v
    BY <2>5
  <2> QED
    BY <2>5, <2>6
<1> QED
  BY <1>2, <1>3

\* A number with inverses modulo q and r has one modulo q r.
LEMMA UnitModulus ==
    ASSUME NEW a \in Int, NEW q \in Int, NEW r \in Int, IsUnit(a, q), IsUnit(a, r)
    PROVE  IsUnit(a, q * r)
<1>1. PICK u \in Int : Cong(a * u, 1, q)
  BY DEF IsUnit
<1>2. PICK v \in Int : Cong(a * v, 1, r)
  BY DEF IsUnit
<1>3. PICK k \in Int : a * u = 1 + k * q
  BY <1>1 DEF Cong
<1>4. PICK l \in Int : a * v = 1 + l * r
  BY <1>2 DEF Cong
<1> DEFINE au == a * u  av == a * v  w == u + v - au * v
<1>5. au \in Int /\ av \in Int /\ w \in Int
  OBVIOUS
<1>6. a * w = (au + av) - au * av
  <2>1. a * (au * v) = au * (a * v)
    BY <1>5
  <2>2. a * (u + v - au * v) = a * u + a * v - a * (au * v)
    BY <1>5
  <2> QED
    BY <2>1, <2>2
<1>7. (au - 1) * (av - 1) = (k * l) * (q * r)
  <2>1. au - 1 = k * q /\ av - 1 = l * r
    BY <1>3, <1>4, <1>5
  <2>2. (k * q) * (l * r) = (k * l) * (q * r)
    OBVIOUS
  <2> QED
    BY <2>1, <2>2
<1> HIDE DEF au, av, w
<1>8. (au - 1) * (av - 1) = au * av - au - av + 1
  BY <1>5
<1> DEFINE kl == k * l  qr == q * r  e == au * av
<1>9. kl \in Int /\ qr \in Int /\ e \in Int
  BY <1>5
<1> HIDE DEF kl, qr, e
<1>10. a * w = 1 + (-kl) * qr
  <2>1. e - au - av + 1 = kl * qr
    BY <1>7, <1>8 DEF kl, qr, e
  <2>2. a * w = (au + av) - e
    BY <1>6 DEF e
  <2>3. (-kl) * qr = -(kl * qr)
    BY <1>9
  <2> QED
    BY <1>5, <1>9, <2>1, <2>2, <2>3
<1>11. -kl \in Int
  BY <1>9
<1>12. Cong(a * w, 1, qr)
  BY <1>10, <1>11 DEF Cong
<1> QED
  BY <1>5, <1>12 DEF IsUnit, qr

\* An odd number is a unit modulo N.
LEMMA OddUnit ==
    ASSUME NEW g \in Int, g % 2 = 1
    PROVE  IsUnit(g, Degree)
<1>1. PICK n \in 0..Degree : Degree = Power(2, n)
  BY DegreeAssumption
<1>2. n \in Nat
  BY <1>1, CoeffsFacts
<1> DEFINE s == [i \in 1..n |-> 2]
<1>3. s \in Seq(Int) /\ Len(s) = n /\ \A k \in 1..n : s[k] = 2
  BY <1>2
<1>4. Degree = BasisProduct(s)
  BY <1>1 DEF Power
<1> HIDE DEF s
<1>5. PICK p \in [0..n -> Int] :
         p[0] = 1 /\ (\A k \in 1..n : p[k] = p[k - 1] * s[k]) /\ Degree = p[n]
  BY <1>3, <1>4, ProductSteps
<1> DEFINE G == {k \in Nat : k <= n => IsUnit(g, p[k])}
<1>6. 0 \in G
  <2>1. g * 0 = 1 + (-1) * 1 /\ -1 \in Int /\ 0 \in Int
    OBVIOUS
  <2>2. Cong(g * 0, 1, 1)
    BY <2>1 DEF Cong
  <2> QED
    BY <1>5, <2>1, <2>2 DEF IsUnit
<1>7. ASSUME NEW k \in Nat, k \in G PROVE k + 1 \in G
  <2> SUFFICES ASSUME k + 1 <= n PROVE IsUnit(g, p[k + 1])
    OBVIOUS
  <2>1. k + 1 \in 1..n /\ (k + 1) - 1 = k /\ k <= n /\ k \in 0..n
    BY <1>2
  <2>2. p[k + 1] = p[k] * 2 /\ p[k] \in Int /\ IsUnit(g, p[k])
    BY <1>3, <1>5, <1>7, <2>1
  <2>3. IsUnit(g, 2)
    <3>1. g = (g \div 2) * 2 + 1 /\ g \div 2 \in Int
      OBVIOUS
    <3>2. g * 1 = 1 + (g \div 2) * 2 /\ 1 \in Int
      BY <3>1
    <3>3. Cong(g * 1, 1, 2)
      BY <3>1, <3>2 DEF Cong
    <3> QED
      BY <3>2, <3>3 DEF IsUnit
  <2>4. 2 \in Int
    OBVIOUS
  <2> QED
    BY <2>2, <2>3, <2>4, UnitModulus
<1> HIDE DEF G
<1>8. n \in G
  BY <1>2, <1>6, <1>7, InductionSet
<1> QED
  BY <1>2, <1>5, <1>8 DEF G

\* Odd multiples of the indices are the indices in another order.
LEMMA OddIndex ==
    ASSUME NEW g \in Int, g % 2 = 1
    PROVE  /\ \A a, c \in Coeffs : Cong(a * g, c * g, Degree) => a = c
           /\ \A r, m \in Coeffs :
                 (r * g) % Degree = m => (CHOOSE c \in Coeffs : (c * g) % Degree = m) = r
           /\ \A m \in Coeffs : \E r \in Coeffs : (r * g) % Degree = m
<1>1. IsUnit(g, Degree) /\ Degree \in Nat /\ Degree > 0 /\ Degree \in Int
  BY OddUnit, CoeffsFacts
<1>2. ASSUME NEW a \in Coeffs, NEW c \in Coeffs, Cong(a * g, c * g, Degree) PROVE a = c
  <2>1. a \in Int /\ c \in Int /\ a * g = g * a /\ c * g = g * c
    BY CoeffsFacts
  <2>2. Cong(a, c, Degree)
    BY <1>1, <1>2, <2>1, UnitCancel
  <2>3. a \in 0..(Degree - 1) /\ c \in 0..(Degree - 1)
    BY DEF Coeffs
  <2> QED
    BY <1>1, <2>2, <2>3, CongUnique
<1>3. ASSUME NEW r \in Coeffs, NEW m \in Coeffs, (r * g) % Degree = m
      PROVE  (CHOOSE c \in Coeffs : (c * g) % Degree = m) = r
  <2>1. ASSUME NEW c \in Coeffs, (c * g) % Degree = m PROVE c = r
    <3>1. c * g \in Int /\ r * g \in Int
      BY CoeffsFacts
    <3>2. Cong(c * g, r * g, Degree)
      BY <1>1, <1>3, <2>1, <3>1, CongIff
    <3> QED
      BY <1>2, <3>2
  <2> QED
    BY <1>3, <2>1
<1>4. ASSUME NEW m \in Coeffs PROVE \E r \in Coeffs : (r * g) % Degree = m
  <2>1. PICK v \in Int : Cong(g * v, 1, Degree)
    BY <1>1 DEF IsUnit
  <2> DEFINE mv == m * v  r == mv % Degree
  <2>2. m \in Int /\ mv \in Int /\ m \in 0..(Degree - 1)
    BY CoeffsFacts DEF Coeffs
  <2> HIDE DEF mv
  <2>3. r \in 0..(Degree - 1) /\ Cong(r, mv, Degree) /\ r \in Int /\ r \in Coeffs
    BY <1>1, <2>2, CongOfMod, CoeffsFacts
  <2> HIDE DEF r
  <2>4. Cong(r * g, mv * g, Degree)
    BY <1>1, <2>2, <2>3, CongRefl, CongAdd
  <2>5. Cong((g * v) * m, 1 * m, Degree)
    BY <1>1, <2>1, <2>2, CongRefl, CongAdd
  <2>6. mv * g = (g * v) * m /\ 1 * m = m /\ mv * g \in Int /\ r * g \in Int
    BY <2>2, <2>3 DEF mv
  <2>7. Cong(r * g, m, Degree)
    BY <1>1, <2>2, <2>4, <2>5, <2>6, CongTrans
  <2>8. (r * g) % Degree = m % Degree /\ m % Degree = m
    <3>1. (r * g) % Degree = m % Degree
      BY <1>1, <2>2, <2>6, <2>7, CongIff
    <3> QED
      BY <1>1, <2>2, <3>1
  <2> QED
    BY <2>3, <2>8
<1> QED
  BY <1>2, <1>3, <1>4

\* The coefficient that an automorphism moves, and its sign.
LEMMA AutAt ==
    ASSUME NEW g \in Int, g % 2 = 1, NEW r \in Coeffs, NEW m \in Coeffs, NEW s \in Int,
           r * g = m + s * Degree
    PROVE  \A f : ZAut(f, g)[m] = IF s % 2 = 0 THEN f[r] ELSE -f[r]
<1>1. Degree \in Nat /\ Degree > 0 /\ Degree \in Int /\ r \in Int /\ m \in Int
      /\ 0 <= m /\ m < Degree
  BY CoeffsFacts
<1>2. (r * g) % Degree = m
  <2>1. (s * Degree + m) % Degree = m
    <3>1. m \in 0..(Degree - 1)
      BY DEF Coeffs
    <3> QED
      BY <1>1, <3>1, QuotientUnique
  <2>2. r * g = s * Degree + m
    BY <1>1
  <2> QED
    BY <2>1, <2>2
<1>3. (CHOOSE c \in Coeffs : (c * g) % Degree = m) = r
  BY <1>2, OddIndex
<1>4. (r * g) % (2 * Degree) = m <=> s % 2 = 0
  <2> DEFINE D == 2 * Degree  h == s \div 2
  <2>1. D \in Nat /\ D > 0 /\ h \in Int /\ (s % 2 = 0 => s = 2 * h) /\ (s % 2 # 0 => s = 2 * h + 1)
    BY <1>1
  <2>2. CASE s % 2 = 0
    <3>1. r * g = h * D + m /\ m \in 0..(D - 1)
      <4>1. s * Degree = h * D
        BY <1>1, <2>1, <2>2
      <4> QED
        BY <1>1, <2>1, <4>1
    <3> HIDE DEF D, h
    <3>2. (h * D + m) % D = m
      BY <2>1, <3>1, QuotientUnique
    <3> QED
      BY <2>2, <3>1, <3>2 DEF D
  <2>3. CASE s % 2 # 0
    <3> DEFINE e == m + Degree
    <3>1. r * g = h * D + e /\ e \in 0..(D - 1) /\ e # m
      <4>1. s * Degree = h * D + Degree
        BY <1>1, <2>1, <2>3
      <4> QED
        BY <1>1, <2>1, <4>1
    <3> HIDE DEF D, h, e
    <3>2. (h * D + e) % D = e
      BY <2>1, <3>1, QuotientUnique
    <3> QED
      BY <2>3, <3>1, <3>2 DEF D
  <2> QED
    BY <2>2, <2>3
<1> SUFFICES ASSUME NEW f PROVE ZAut(f, g)[m] = IF s % 2 = 0 THEN f[r] ELSE -f[r]
  OBVIOUS
<1> DEFINE i == CHOOSE c \in Coeffs : (c * g) % Degree = m
<1>5. ZAut(f, g)[m] = IF (i * g) % (2 * Degree) = m THEN f[i] ELSE -f[i]
  BY DEF ZAut
<1>6. i = r
  BY <1>3
<1> HIDE DEF i
<1> QED
  BY <1>4, <1>5, <1>6

\* What an automorphism does to an index: X^i goes to X^(i g).
LEMMA AutExt ==
    ASSUME NEW g \in Int, g % 2 = 1, NEW f \in ZPoly
    PROVE  /\ ZAut(f, g) \in ZPoly
           /\ \A i \in Int : Ext(ZAut(f, g))[i * g] = Ext(f)[i]
           /\ \A B \in Nat : Within(f, B) => Within(ZAut(f, g), B)
<1> DEFINE h == ZAut(f, g)
<1>1. ASSUME NEW m \in Coeffs
      PROVE  \E r \in Coeffs, s \in Int :
                r * g = m + s * Degree /\ h[m] = IF s % 2 = 0 THEN f[r] ELSE -f[r]
  <2>1. PICK r \in Coeffs : (r * g) % Degree = m
    BY OddIndex
  <2> DEFINE k == r * g  s == k \div Degree
  <2>2. k \in Int /\ Degree \in Nat /\ Degree > 0 /\ m \in Int
    BY CoeffsFacts
  <2> HIDE DEF k
  <2>3. k = s * Degree + (k % Degree) /\ s \in Int
    BY <2>2, Quotient
  <2>4. k % Degree = m
    BY <2>1 DEF k
  <2> HIDE DEF s
  <2>5. r * g = m + s * Degree
    BY <2>2, <2>3, <2>4 DEF k
  <2>6. h[m] = IF s % 2 = 0 THEN f[r] ELSE -f[r]
    BY <2>3, <2>5, AutAt
  <2> QED
    BY <2>3, <2>5, <2>6
<1>2. h \in ZPoly
  <2>1. ASSUME NEW m \in Coeffs PROVE h[m] \in Int
    <3> HIDE DEF h
    <3>1. PICK r \in Coeffs, s \in Int : h[m] = IF s % 2 = 0 THEN f[r] ELSE -f[r]
      BY <1>1
    <3>2. f[r] \in Int
      BY PolyTypes
    <3> QED
      BY <3>1, <3>2
  <2> QED
    BY <2>1 DEF ZPoly, ZAut
<1>3. ASSUME NEW B \in Nat, Within(f, B) PROVE Within(h, B)
  <2> HIDE DEF h
  <2> SUFFICES ASSUME NEW m \in Coeffs PROVE -B <= h[m] /\ h[m] <= B
    BY DEF Within
  <2>1. PICK r \in Coeffs, s \in Int : h[m] = IF s % 2 = 0 THEN f[r] ELSE -f[r]
    BY <1>1
  <2>2. f[r] \in Int /\ -B <= f[r] /\ f[r] <= B
    BY <1>3, PolyTypes DEF Within
  <2> QED
    BY <2>1, <2>2
<1>4. ASSUME NEW i \in Int PROVE Ext(h)[i * g] = Ext(f)[i]
  <2>1. PICK r \in Coeffs, s \in Int : i = r + s * Degree
    BY SplitIndex
  <2>2. r * g \in Int
    BY CoeffsFacts
  <2>3. PICK m \in Coeffs, t \in Int : r * g = m + t * Degree
    BY <2>2, SplitIndex
  <2>4. h[m] = IF t % 2 = 0 THEN f[r] ELSE -f[r]
    BY <2>3, AutAt
  <2> DEFINE u == t + s * g
  <2>5. i * g = m + u * Degree /\ u \in Int
    <3>1. r \in Int /\ m \in Int /\ Degree \in Int
      BY CoeffsFacts
    <3>2. (r + s * Degree) * g = r * g + (s * g) * Degree
      BY <3>1
    <3>3. (t + s * g) * Degree = t * Degree + (s * g) * Degree
      BY <3>1
    <3> QED
      BY <2>1, <2>3, <3>1, <3>2, <3>3
  <2>6. u % 2 = 0 <=> (t % 2 = 0 <=> s % 2 = 0)
    <3> DEFINE w == g \div 2
    <3>1. g = 2 * w + 1 /\ w \in Int
      OBVIOUS
    <3> HIDE DEF w
    <3>2. s * g = s + 2 * (w * s) /\ w * s \in Int
      BY <3>1
    <3> DEFINE ws == w * s
    <3>3. u = t + s + 2 * ws /\ ws \in Int
      BY <3>2
    <3> HIDE DEF u, ws
    <3> QED
      BY <3>3
  <2> HIDE DEF u
  <2>7. Ext(h)[i * g] = IF u % 2 = 0 THEN h[m] ELSE -h[m]
    <3> HIDE DEF h
    <3>1. Ext(h)[m + u * Degree] = IF u % 2 = 0 THEN h[m] ELSE -h[m]
      BY <1>2, <2>5, ExtAt
    <3> QED
      BY <2>5, <3>1
  <2>8. Ext(f)[i] = IF s % 2 = 0 THEN f[r] ELSE -f[r]
    BY <2>1, ExtAt
  <2>9. f[r] \in Int
    BY PolyTypes
  <2> HIDE DEF h
  <2> QED
    BY <2>4, <2>6, <2>7, <2>8, <2>9
<1> QED
  BY <1>2, <1>3, <1>4

\* The automorphism of an odd element is multiplicative: a rotated ciphertext
\* decrypts under the rotated secret, which is what the Galois keys switch
\* back from.
THEOREM AutMul ==
    ASSUME NEW g \in Int, g % 2 = 1, NEW f \in ZPoly, NEW h \in ZPoly
    PROVE  ZMul(ZAut(f, g), ZAut(h, g)) = ZAut(ZMul(f, h), g)
<1> DEFINE fg == ZAut(f, g)  hg == ZAut(h, g)  fh == ZMul(f, h)
           L == ZMul(fg, hg)  R == ZAut(fh, g)
<1>1. fg \in ZPoly /\ hg \in ZPoly /\ \A i \in Int : Ext(fg)[i * g] = Ext(f)[i] /\ Ext(hg)[i * g] = Ext(h)[i]
  BY AutExt
<1>2. fh \in ZPoly /\ \A i \in Int : Ext(fh)[i] = Conv(f, h, i)
  BY MulType, ExtOfMul
<1> HIDE DEF fg, hg, fh
<1>3. L \in ZPoly /\ \A i \in Int : Ext(L)[i] = Conv(fg, hg, i)
  BY <1>1, MulType, ExtOfMul
<1>4. R \in ZPoly /\ \A i \in Int : Ext(R)[i * g] = Ext(fh)[i]
  BY <1>2, AutExt
<1> HIDE DEF L, R
<1>5. ASSUME NEW i \in Int PROVE Conv(fg, hg, i * g) = Conv(f, h, i)
  <2> DEFINE k == i * g
             H == Terms(fg, hg, k)
             p == [c \in Coeffs |-> c * g]
             u == [a \in Coeffs |-> Ext(fg)[a] * Ext(hg)[k - a]]
             v == [c \in Coeffs |-> Ext(f)[c] * Ext(h)[i - c]]
  <2>1. k \in Int /\ \A c \in Coeffs : c \in Int /\ c * g \in Int /\ i - c \in Int
    <3>1. k \in Int
      OBVIOUS
    <3>2. ASSUME NEW c \in Coeffs PROVE c \in Int /\ c * g \in Int /\ i - c \in Int
      <4>1. c \in Int
        BY CoeffsFacts
      <4> QED
        BY <4>1
    <3> HIDE DEF k
    <3> QED
      BY <3>1, <3>2
  <2>2. p \in [Coeffs -> Int]
    BY <2>1
  <2>3. \A a, c \in Coeffs : Cong(p[a], p[c], Degree) => a = c
    BY OddIndex
  <2>4. H \in [Int -> Int] /\ \A r \in Coeffs, s \in Int : H[r + s * Degree] = H[r]
    <3> HIDE DEF k
    <3> QED
      BY <1>1, <2>1, PeriodicTerms
  <2>5. [a \in Coeffs |-> H[a]] = u
    BY <2>1 DEF Terms
  <2>6. [c \in Coeffs |-> H[p[c]]] = v
    <3> SUFFICES ASSUME NEW c \in Coeffs PROVE H[p[c]] = v[c]
      OBVIOUS
    <3>1. H[p[c]] = Ext(fg)[c * g] * Ext(hg)[k - c * g]
      BY <2>1 DEF Terms
    <3>2. k - c * g = (i - c) * g
      BY <2>1
    <3>3. Ext(fg)[c * g] = Ext(f)[c] /\ Ext(hg)[(i - c) * g] = Ext(h)[i - c]
      BY <1>1, <2>1
    <3> QED
      BY <3>1, <3>2, <3>3
  <2> HIDE DEF H, p, k
  <2>7. SumFunctionOnSet([c \in Coeffs |-> H[p[c]]], Coeffs)
            = SumFunctionOnSet([a \in Coeffs |-> H[a]], Coeffs)
    BY <2>2, <2>3, <2>4, PeriodSum
  <2> HIDE DEF u, v
  <2>8. SumFunctionOnSet(u, Coeffs) = SumFunctionOnSet(v, Coeffs)
    BY <2>5, <2>6, <2>7
  <2> QED
    BY <2>8 DEF Conv, u, v, k
<1>6. ASSUME NEW m \in Coeffs PROVE L[m] = R[m]
  <2>1. PICK r \in Coeffs : (r * g) % Degree = m
    BY OddIndex
  <2>2. r \in Int /\ r * g \in Int
    BY CoeffsFacts
  <2>3. Ext(L)[r * g] = Ext(R)[r * g]
    BY <1>2, <1>3, <1>4, <1>5, <2>2
  <2>4. PICK m2 \in Coeffs, s \in Int : r * g = m2 + s * Degree
    BY <2>2, SplitIndex
  <2>5. m2 = m
    <3>1. Degree \in Nat /\ Degree > 0 /\ m2 \in 0..(Degree - 1) /\ m2 \in Int
      BY CoeffsFacts DEF Coeffs
    <3>2. r * g = s * Degree + m2
      BY <2>4, <3>1
    <3>3. (s * Degree + m2) % Degree = m2
      BY <3>1, QuotientUnique
    <3> QED
      BY <2>1, <3>2, <3>3
  <2>6. /\ Ext(L)[m + s * Degree] = IF s % 2 = 0 THEN L[m] ELSE -L[m]
        /\ Ext(R)[m + s * Degree] = IF s % 2 = 0 THEN R[m] ELSE -R[m]
    BY <1>3, <1>4, ExtAt
  <2>7. L[m] \in Int /\ R[m] \in Int
    BY <1>3, <1>4, PolyTypes
  <2> QED
    BY <2>3, <2>4, <2>5, <2>6, <2>7
<1>7. L = R
  BY <1>3, <1>4, <1>6, SamePoly
<1> QED
  BY <1>7 DEF L, R, fg, hg, fh

\* The automorphism is additive.
LEMMA AutAdds ==
    ASSUME NEW g \in Int, NEW f \in ZPoly, NEW h \in ZPoly, g % 2 = 1
    PROVE  /\ ZAut(ZAdd(f, h), g) = ZAdd(ZAut(f, g), ZAut(h, g))
           /\ \A c \in Int : ZAut(ZScale(f, c), g) = ZScale(ZAut(f, g), c)
<1>1. \A i \in Coeffs : f[i] \in Int /\ h[i] \in Int
  BY PolyTypes
<1> DEFINE at(m) == CHOOSE c \in Coeffs : (c * g) % Degree = m
<1>2. \A m \in Coeffs : at(m) \in Coeffs
  BY OddIndex
<1>3. ASSUME NEW m \in Coeffs, NEW c \in Int
      PROVE  /\ ZAut(ZAdd(f, h), g)[m] = ZAut(f, g)[m] + ZAut(h, g)[m]
             /\ ZAut(ZScale(f, c), g)[m] = c * ZAut(f, g)[m]
  <2> DEFINE i == at(m)  u == f[i]  v == h[i]
  <2>1. i \in Coeffs /\ u \in Int /\ v \in Int
    BY <1>1, <1>2
  <2>2. /\ ZAdd(f, h)[i] = u + v /\ ZScale(f, c)[i] = c * u
    BY <2>1 DEF ZAdd, ZScale
  <2> DEFINE even == (i * g) % (2 * Degree) = m
  <2>3. /\ ZAut(ZAdd(f, h), g)[m] = IF even THEN u + v ELSE -(u + v)
        /\ ZAut(ZScale(f, c), g)[m] = IF even THEN c * u ELSE -(c * u)
        /\ ZAut(f, g)[m] = IF even THEN u ELSE -u
        /\ ZAut(h, g)[m] = IF even THEN v ELSE -v
    BY <2>2 DEF ZAut
  <2> HIDE DEF i, u, v, even
  <2>4. c * (-u) = -(c * u)
    BY <2>1
  <2> QED
    BY <2>1, <2>3, <2>4
<1>4. ZAut(ZAdd(f, h), g) = ZAdd(ZAut(f, g), ZAut(h, g))
  <2> DEFINE u == ZAut(ZAdd(f, h), g)  v == ZAut(f, g)  w == ZAut(h, g)
  <2>1. u = [m \in Coeffs |-> u[m]]
    BY DEF ZAut
  <2>2. \A m \in Coeffs : u[m] = v[m] + w[m]
    BY <1>3
  <2> HIDE DEF u, v, w
  <2>3. u = ZAdd(v, w)
    BY <2>1, <2>2 DEF ZAdd
  <2> QED
    BY <2>3 DEF u, v, w
<1>5. ASSUME NEW c \in Int PROVE ZAut(ZScale(f, c), g) = ZScale(ZAut(f, g), c)
  <2> DEFINE u == ZAut(ZScale(f, c), g)  v == ZAut(f, g)
  <2>1. u = [m \in Coeffs |-> u[m]]
    BY DEF ZAut
  <2>2. \A m \in Coeffs : u[m] = c * v[m]
    BY <1>3
  <2> HIDE DEF u, v
  <2>3. u = ZScale(v, c)
    BY <2>1, <2>2 DEF ZScale
  <2> QED
    BY <2>3 DEF u, v
<1> QED
  BY <1>4, <1>5

\* Poly::automorphism of residues is the residues of the rotated polynomial.
LEMMA FIAut ==
    ASSUME NEW b, Positive(b), NEW g \in Int, g % 2 = 1, NEW f \in ZPoly
    PROVE  Automorphism(FromIntegers(f, b), g, b) = FromIntegers(ZAut(f, g), b)
<1> DEFINE F == FromIntegers(f, b)  N == FromIntegers(ZNeg(f), b)
           at(m) == CHOOSE c \in Coeffs : (c * g) % Degree = m
           even(m) == (at(m) * g) % (2 * Degree) = m
<1>1. \A m \in Coeffs : at(m) \in Coeffs
  BY OddIndex
<1>2. N = [i \in Coeffs |-> [j \in DOMAIN b |-> NegMod(F[i][j], b[j])]]
  <2>1. N = PolyNeg(F, b)
    BY FINeg
  <2> QED
    BY <2>1 DEF PolyNeg
<1>3. Automorphism(F, g, b)
        = [m \in Coeffs |-> IF even(m) THEN F[at(m)]
                            ELSE [j \in DOMAIN b |-> NegMod(F[at(m)][j], b[j])]]
  BY DEF Automorphism
<1> DEFINE A == FromIntegers(ZAut(f, g), b)
<1>4. ASSUME NEW m \in Coeffs
      PROVE  A[m] = IF even(m) THEN F[at(m)] ELSE N[at(m)]
  <2> DEFINE i == at(m)
  <2>1. i \in Coeffs
    BY <1>1
  <2>2. ZAut(f, g)[m] = IF even(m) THEN f[i] ELSE ZNeg(f)[i]
    BY <2>1 DEF ZAut, ZNeg
  <2> HIDE DEF i, even
  <2>3. /\ A[m] = Decompose(ZAut(f, g)[m], b) /\ F[i] = Decompose(f[i], b)
        /\ N[i] = Decompose(ZNeg(f)[i], b)
    BY <2>1 DEF FromIntegers
  <2> QED
    BY <2>2, <2>3 DEF i
<1>5. A = [m \in Coeffs |-> A[m]]
  BY DEF FromIntegers
<1> HIDE DEF A, even
<1>6. ASSUME NEW m \in Coeffs
      PROVE  A[m] = IF even(m) THEN F[at(m)] ELSE [j \in DOMAIN b |-> NegMod(F[at(m)][j], b[j])]
  <2> DEFINE i == at(m)
  <2>1. i \in Coeffs /\ A[m] = IF even(m) THEN F[i] ELSE N[i]
    BY <1>1, <1>4
  <2> HIDE DEF i, F, N
  <2>2. N[i] = [j \in DOMAIN b |-> NegMod(F[i][j], b[j])]
    BY <1>2, <2>1
  <2> QED
    BY <2>1, <2>2 DEF i
<1> HIDE DEF F, at
<1> QED
  BY <1>3, <1>5, <1>6 DEF A, F

-----------------------------------------------------------------------------
(* Gadget decomposition                                                     *)

\* Powers of a positive number are positive.
LEMMA PowerPositive ==
    ASSUME NEW c \in Nat, c > 0
    PROVE  \A n \in Nat : Power(c, n) \in Nat /\ Power(c, n) > 0
<1> DEFINE G == {n \in Nat : Power(c, n) \in Nat /\ Power(c, n) > 0}
<1>1. c \in Int
  OBVIOUS
<1>2. 0 \in G
  BY <1>1, PowerStep
<1>3. ASSUME NEW n \in Nat, n \in G PROVE n + 1 \in G
  <2> DEFINE p == Power(c, n)
  <2>1. p \in Nat /\ p > 0 /\ Power(c, n + 1) = p * c
    BY <1>1, <1>3, PowerStep
  <2> HIDE DEF p
  <2>2. p * c \in Nat /\ p * c > 0
    BY <2>1
  <2> QED
    BY <2>1, <2>2
<1> HIDE DEF G
<1>4. Nat \subseteq G
  BY <1>2, <1>3, InductionSet
<1> QED
  BY <1>4 DEF G

\* The weights of the gadget levels are the powers of the base.
LEMMA WeightFacts ==
    /\ Base \in Nat /\ Base > 0 /\ Weight(0) = 1
    /\ \A l \in Nat : Weight(l) \in Nat /\ Weight(l) > 0 /\ Weight(l + 1) = Weight(l) * Base
<1>1. Base \in Nat /\ Base > 0
  <2>1. BaseLog \in Nat /\ 2 \in Nat /\ 2 > 0
    BY GadgetAssumption
  <2> QED
    BY <2>1, PowerPositive DEF Base
<1> QED
  BY <1>1, PowerStep, PowerPositive DEF Weight

\* One digit more.
LEMMA DigitStep ==
    ASSUME NEW v \in Int, NEW w \in Nat, w > 0, NEW B \in Nat, B > 0
    PROVE  v % (w * B) = (v % w) + w * ((v \div w) % B)
<1> DEFINE h == v \div w  r == v % w  k == h \div B  d == h % B
<1>1. h \in Int /\ r \in 0..(w - 1) /\ v = h * w + r
  BY Quotient
<1> HIDE DEF h, r
<1>2. k \in Int /\ d \in 0..(B - 1) /\ h = k * B + d
  BY <1>1, Quotient
<1> HIDE DEF k, d
<1> DEFINE s == w * d + r  m == w * B
<1>3. v = k * m + s
  <2>1. (k * B + d) * w = k * (w * B) + w * d
    BY <1>2
  <2> QED
    BY <1>1, <1>2, <2>1
<1>4. s \in 0..(m - 1) /\ m \in Nat
  <2>1. w * d >= 0 /\ w * d <= w * (B - 1) /\ w * (B - 1) = w * B - w /\ w * B \in Nat
    BY <1>2
  <2>2. w * d \in Int
    BY <1>2
  <2> QED
    BY <1>1, <2>1, <2>2
<1>5. s \in 0..(m - 1) /\ k \in Int /\ m \in Nat /\ v = k * m + s
  BY <1>2, <1>3, <1>4
<1> HIDE DEF s, m
<1>6. v % m = s
  BY <1>5, QuotientUnique
<1> QED
  BY <1>1, <1>2, <1>6 DEF s, m, r, d, h

\* What the rows of modulus m add up to, and the weight of a row.
Lift(b, m) == Hat(b, m) * HatInverse(b, m)

\* What a row of the gadget stands for: its level's weight on its modulus.
RowWeight(b, row) == Weight(RowLevel(row)) * Lift(b, RowModulus(row))

\* A basis of distinct primes has positive moduli.
LEMMA BasisPositive ==
    ASSUME NEW b, IsBasis(b)
    PROVE  Positive(b) /\ DOMAIN b = 1..Len(b) /\ Len(b) \in Nat
BY DEF IsBasis, Positive

\* The lift constant of a modulus is 1 modulo it and 0 modulo the others.
LEMMA LiftFacts ==
    ASSUME NEW b, IsBasis(b), NEW m \in 1..Len(b)
    PROVE  /\ Lift(b, m) \in Int
           /\ Cong(Lift(b, m), 1, b[m])
           /\ \A j \in 1..Len(b) :
                 /\ j # m => Divides(b[j], Lift(b, m))
                 /\ CrtLiftConstant(b, m, b)[j] \in Int
                 /\ Cong(CrtLiftConstant(b, m, b)[j], Lift(b, m), b[j])
<1> DEFINE h == Hat(b, m)  v == HatInverse(b, m)
<1>1. h \in Int /\ v \in Int /\ Cong(h * v, 1, b[m]) /\ h * v \in Int /\ Lift(b, m) = h * v
  BY HatFacts, HatInverseFacts DEF Lift
<1>2. ASSUME NEW j \in 1..Len(b)
      PROVE  /\ j # m => Divides(b[j], Lift(b, m))
             /\ CrtLiftConstant(b, m, b)[j] \in Int
             /\ Cong(CrtLiftConstant(b, m, b)[j], Lift(b, m), b[j])
  <2> DEFINE q == b[j]  hr == h % q  e == hr * v
  <2>1. q \in Nat /\ q > 0 /\ q \in Int /\ DOMAIN b = 1..Len(b)
    BY BasisPositive DEF IsBasis
  <2>2. j # m => Divides(q, h)
    BY HatFacts
  <2>3. CrtLiftConstant(b, m, b)[j] = e % q
    BY <2>1 DEF CrtLiftConstant, MulMod
  <2> HIDE DEF q, h, v
  <2>4. j # m => Divides(q, Lift(b, m))
    BY <1>1, <2>1, <2>2, DividesProduct
  <2>0. h \in Int /\ v \in Int /\ h * v \in Int
    BY <1>1 DEF h, v
  <2>5. hr \in Int /\ Cong(hr, h, q)
    BY <2>0, <2>1, CongOfMod
  <2>5a. Cong(v, v, q)
    BY <2>0, <2>1, CongRefl
  <2> HIDE DEF hr
  <2>6. e \in Int /\ Cong(e, h * v, q)
    BY <2>0, <2>1, <2>5, <2>5a, CongAdd
  <2> HIDE DEF e
  <2>7. e % q \in Int /\ Cong(e % q, e, q)
    BY <2>1, <2>6, CongOfMod
  <2>8. Cong(e % q, h * v, q)
    BY <2>0, <2>1, <2>6, <2>7, CongTrans
  <2> QED
    <3>1. Lift(b, m) = h * v
      BY <1>1 DEF h, v
    <3> QED
      BY <2>3, <2>4, <2>7, <2>8, <3>1 DEF q
<1> QED
  BY <1>1, <1>2

\* A row is one level of one modulus.
LEMMA RowFacts ==
    ASSUME NEW b, IsBasis(b), NEW row \in Rows(b)
    PROVE  /\ RowModulus(row) \in 1..Len(b) /\ RowLevel(row) \in 0..(Levels - 1)
           /\ RowLevel(row) \in Nat /\ row \in Nat
           /\ row = (RowModulus(row) - 1) * Levels + RowLevel(row) + 1
           /\ RowWeight(b, row) \in Int
<1>1. Levels \in Nat /\ Levels > 0 /\ Len(b) \in Nat
  BY GadgetAssumption, BasisPositive
<1> DEFINE n == Len(b)  k == row - 1  m == k \div Levels  l == k % Levels
           all == n * Levels
<1>2. all \in Nat /\ row \in 1..all
  BY <1>1 DEF Rows, RowCount
<1>3. k \in Int /\ 0 <= k /\ k < all /\ row = k + 1
  <2> HIDE DEF all
  <2> QED
    BY <1>2
<1> HIDE DEF k
<1>4. m \in Int /\ l \in 0..(Levels - 1) /\ k = m * Levels + l
  BY <1>1, <1>3, Quotient
<1>5. RowModulus(row) = m + 1 /\ RowLevel(row) = l
  BY <1>3 DEF RowModulus, RowLevel, k
<1> HIDE DEF m, l
<1>6. 0 <= m
  <2>1. CASE m < 0
    <3>1. m * Levels <= -Levels
      BY <1>1, <1>4, <2>1
    <3> QED
      BY <1>1, <1>3, <1>4, <3>1
  <2> QED
    BY <1>4, <2>1
<1>7. m < n
  <2>1. CASE m >= n
    <3>1. m * Levels >= n * Levels
      BY <1>1, <1>4, <2>1
    <3>2. m * Levels \in Int
      BY <1>1, <1>4
    <3> QED
      BY <1>1, <1>2, <1>3, <1>4, <3>1, <3>2
  <2> QED
    BY <1>1, <1>4, <2>1
<1>8. RowModulus(row) \in 1..n /\ RowLevel(row) \in 0..(Levels - 1) /\ RowLevel(row) \in Nat
      /\ row \in Nat /\ row = (RowModulus(row) - 1) * Levels + RowLevel(row) + 1
  <2> HIDE DEF all
  <2>1. row \in Nat /\ l \in Nat /\ row = m * Levels + l + 1
    <3>1. m * Levels \in Int
      BY <1>1, <1>4
    <3> QED
      BY <1>1, <1>2, <1>3, <1>4, <3>1
  <2>2. m + 1 \in 1..n /\ (m + 1) - 1 = m
    BY <1>1, <1>4, <1>6, <1>7
  <2> HIDE DEF n
  <2> QED
    BY <1>4, <1>5, <2>1, <2>2
<1>9. RowWeight(b, row) \in Int
  <2>1. Weight(RowLevel(row)) \in Int
    BY <1>8, WeightFacts
  <2>2. Lift(b, RowModulus(row)) \in Int
    <3> DEFINE j == RowModulus(row)
    <3>1. j \in 1..Len(b)
      BY <1>8
    <3> HIDE DEF j
    <3>2. Lift(b, j) \in Int
      BY <3>1, LiftFacts
    <3> QED
      BY <3>2 DEF j
  <2> QED
    BY <2>1, <2>2 DEF RowWeight
<1> QED
  BY <1>8, <1>9

\* scale_by_base_power_and_lift.
LEMMA FIScaleForRow ==
    ASSUME NEW b, IsBasis(b), NEW row \in Rows(b), NEW f \in ZPoly
    PROVE  ScaleForRow(FromIntegers(f, b), row, b)
               = FromIntegers(ZScale(f, RowWeight(b, row)), b)
<1> DEFINE F == FromIntegers(f, b)
           m == RowModulus(row)
           lift == CrtLiftConstant(b, m, b)
           W == Weight(RowLevel(row))
           z == ZScale(f, RowWeight(b, row))
           t == [i \in Coeffs |-> [j \in DOMAIN b |->
                    MulMod(F[i][j], MulMod(W % b[j], lift[j], b[j]), b[j])]]
<1>1. /\ Positive(b) /\ z \in ZPoly /\ W \in Int /\ m \in 1..Len(b) /\ RowWeight(b, row) \in Int
      /\ DOMAIN b = 1..Len(b)
  <2>1. RowWeight(b, row) \in Int /\ m \in 1..Len(b) /\ RowLevel(row) \in Nat
    BY RowFacts
  <2>2. z \in ZPoly
    BY <2>1, PolyTypes
  <2>3. W \in Int
    BY <2>1, WeightFacts
  <2> QED
    BY <2>1, <2>2, <2>3, BasisPositive
<1>2. ASSUME NEW i \in Coeffs, NEW j \in DOMAIN b
      PROVE  t[i][j] \in 0..(b[j] - 1) /\ Cong(t[i][j], z[i], b[j])
  <2> DEFINE q == b[j]  u == f[i]  ur == u % q  wr == W % q  l == lift[j]  L == Lift(b, m)
             wl == wr * l  c == wl % q  uc == ur * c  r == uc % q
  <2>1. q \in Nat /\ q > 0 /\ q \in Int /\ u \in Int /\ F[i][j] = ur
    BY <1>1, PositiveDomain, FIValue DEF ZPoly
  <2>2. l \in Int /\ L \in Int /\ Cong(l, L, q)
    BY <1>1, LiftFacts
  <2>3. t[i][j] = r
    BY <2>1 DEF MulMod
  <2>4. z[i] = (W * L) * u
    BY DEF ZScale, RowWeight
  <2> HIDE DEF q, u, l, L, W, z, t
  <2>5. wr \in Int /\ Cong(wr, W, q) /\ ur \in Int /\ Cong(ur, u, q)
    <3>1. W \in Int
      BY <1>1 DEF W
    <3>2. W % q \in Int /\ Cong(W % q, W, q)
      BY <2>1, <3>1, CongOfMod
    <3>3. u % q \in Int /\ Cong(u % q, u, q)
      BY <2>1, CongOfMod
    <3> QED
      BY <3>2, <3>3
  <2> HIDE DEF wr, ur
  <2>6. wl \in Int /\ Cong(wl, W * L, q) /\ W * L \in Int
    BY <1>1, <2>1, <2>2, <2>5, CongAdd
  <2> HIDE DEF wl
  <2> DEFINE WL == W * L
  <2>6a. WL \in Int /\ Cong(wl, WL, q)
    BY <2>6
  <2> HIDE DEF WL
  <2>7. c \in Int /\ Cong(c, wl, q)
    BY <2>1, <2>6, CongOfMod
  <2> HIDE DEF c
  <2>8. Cong(c, WL, q)
    BY <2>1, <2>6, <2>6a, <2>7, CongTrans
  <2>9. uc \in Int /\ Cong(uc, u * WL, q) /\ u * WL \in Int
    BY <2>1, <2>5, <2>6a, <2>7, <2>8, CongAdd
  <2> HIDE DEF uc
  <2>10. r \in 0..(q - 1) /\ r \in Int /\ Cong(r, uc, q)
    BY <2>1, <2>9, CongOfMod
  <2> HIDE DEF r
  <2>11. Cong(r, u * WL, q)
    BY <2>1, <2>9, <2>10, CongTrans
  <2>12. u * WL = z[i]
    BY <2>1, <2>4, <2>6a DEF WL
  <2> QED
    BY <2>3, <2>10, <2>11, <2>12 DEF q
<1> HIDE DEF t
<1>3. [i \in Coeffs |-> [j \in DOMAIN b |-> t[i][j]]] = FromIntegers(z, b)
  <2> HIDE DEF z
  <2> QED
    BY <1>1, <1>2, FITable
<1>4. [i \in Coeffs |-> [j \in DOMAIN b |-> t[i][j]]] = t
  BY DEF t
<1> QED
  BY <1>3, <1>4 DEF ScaleForRow, t

\* The digit polynomial of a row, and what it stands for.
Digit(b, f, row) ==
    [i \in Coeffs |-> ((f[i] % b[RowModulus(row)]) \div Weight(RowLevel(row))) % Base]

\* The digits times what their rows stand for.
DigitTerms(b, f) == [row \in Rows(b) |-> ZScale(Digit(b, f, row), RowWeight(b, row))]

\* The digits that decompose extracts: residues of small polynomials.
LEMMA DigitFacts ==
    ASSUME NEW b, IsBasis(b), NEW f \in ZPoly
    PROVE  /\ RowCount(b) \in Nat /\ Rows(b) = 1..RowCount(b)
           /\ \A row \in Rows(b) :
                 /\ Digit(b, f, row) \in ZPoly /\ Within(Digit(b, f, row), Base - 1)
                 /\ Digits(FromIntegers(f, b), b)[row] = FromIntegers(Digit(b, f, row), b)
           /\ Polys(DigitTerms(b, f), RowCount(b))
           /\ Base - 1 \in Nat
<1>1. RowCount(b) \in Nat /\ Rows(b) = 1..RowCount(b)
  <2>1. Len(b) \in Nat /\ Levels \in Nat
    BY GadgetAssumption, BasisPositive
  <2> QED
    BY <2>1 DEF Rows, RowCount
<1>2. Base \in Nat /\ Base > 0 /\ Base - 1 \in Nat
  BY WeightFacts
<1>3. ASSUME NEW row \in Rows(b)
      PROVE  /\ Digit(b, f, row) \in ZPoly /\ Within(Digit(b, f, row), Base - 1)
             /\ Digits(FromIntegers(f, b), b)[row] = FromIntegers(Digit(b, f, row), b)
             /\ DigitTerms(b, f)[row] \in ZPoly
  <2> DEFINE m == RowModulus(row)  W == Weight(RowLevel(row))  D == Digit(b, f, row)
  <2>1. m \in 1..Len(b) /\ W \in Nat /\ W > 0 /\ RowWeight(b, row) \in Int
    BY RowFacts, WeightFacts
  <2>2. Positive(b) /\ m \in DOMAIN b /\ b[m] \in Nat /\ b[m] > 0
    BY <2>1, BasisPositive, PositiveDomain
  <2>3. ASSUME NEW i \in Coeffs
        PROVE  D[i] \in 0..(Base - 1) /\ FromIntegers(f, b)[i][m] = f[i] % b[m]
    <3> DEFINE u == f[i]  q == b[m]  r == u % q  h == r \div W
    <3>1. u \in Int /\ q \in Nat /\ q > 0
      BY <2>2 DEF ZPoly
    <3>2. D[i] = h % Base
      BY DEF Digit
    <3> HIDE DEF u, q, W
    <3>3. r \in Int
      BY <3>1, CongOfMod
    <3> HIDE DEF r
    <3>4. h \in Int
      BY <2>1, <3>3, Quotient
    <3> HIDE DEF h
    <3>5. h % Base \in 0..(Base - 1)
      BY <1>2, <3>4, Quotient
    <3>6. FromIntegers(f, b)[i][m] = f[i] % b[m]
      BY <2>2, FIValue
    <3> QED
      BY <3>2, <3>5, <3>6
  <2>4. D \in ZPoly /\ Within(D, Base - 1)
    <3>1. D \in ZPoly
      BY <2>3 DEF ZPoly, Digit
    <3>2. \A i \in Coeffs : -(Base - 1) <= D[i] /\ D[i] <= Base - 1
      BY <1>2, <2>3
    <3> QED
      BY <3>1, <3>2 DEF Within
  <2>5. Digits(FromIntegers(f, b), b)[row] = FromIntegers(D, b)
    <3>1. \A i \in Coeffs : (FromIntegers(f, b)[i][m] \div W) % Base = D[i]
      BY <2>3 DEF Digit
    <3>2. [i \in Coeffs |-> (FromIntegers(f, b)[i][m] \div W) % Base] = D
      BY <3>1 DEF Digit
    <3> QED
      BY <3>2 DEF Digits
  <2>6. DigitTerms(b, f)[row] \in ZPoly
    <3>1. DigitTerms(b, f)[row] = ZScale(D, RowWeight(b, row))
      BY DEF DigitTerms
    <3> QED
      BY <2>1, <2>4, <3>1, PolyTypes
  <2> QED
    BY <2>4, <2>5, <2>6
<1>4. Polys(DigitTerms(b, f), RowCount(b))
  BY <1>1, <1>3 DEF Polys
<1> QED
  BY <1>1, <1>2, <1>3, <1>4

\* A row index is its modulus and its level.
LEMMA IndexSplit ==
    ASSUME NEW n, NEW k \in Int, NEW d \in Nat, NEW s \in 0..(d - 1), n = k * d + s
    PROVE  n \div d = k /\ n % d = s
<1>1. (k * d + s) \div d = k /\ (k * d + s) % d = s
  BY QuotientUnique
<1> QED
  BY <1>1

\* What the rows of each modulus add up to, and the sum of the first k rows.
LiftTerms(b, f) == [m \in 1..Len(b) |-> [i \in Coeffs |-> Lift(b, m) * (f[i] % b[m])]]

\* The sum of the first k digit terms: whole moduli, and the low digits of
\* the next.
PartialSum(b, f, k) ==
    [i \in Coeffs |->
        ZSum(LiftTerms(b, f), k \div Levels)[i]
            + IF k % Levels = 0 THEN 0
              ELSE Lift(b, k \div Levels + 1)
                      * ((f[i] % b[k \div Levels + 1]) % Weight(k % Levels))]

\* The terms of the lift are polynomials.
LEMMA LiftTermFacts ==
    ASSUME NEW b, IsBasis(b), NEW f \in ZPoly
    PROVE  /\ Polys(LiftTerms(b, f), Len(b)) /\ Len(b) \in Nat
           /\ \A m \in 1..Len(b) : \A i \in Coeffs :
                 /\ LiftTerms(b, f)[m][i] = Lift(b, m) * (f[i] % b[m])
                 /\ Lift(b, m) \in Int /\ f[i] % b[m] \in 0..(b[m] - 1)
                 /\ b[m] \in Nat /\ b[m] > 0 /\ f[i] \in Int
           /\ \A n \in 0..Len(b) : ZSum(LiftTerms(b, f), n) \in ZPoly
<1>1. Len(b) \in Nat
  BY BasisPositive
<1>2. ASSUME NEW m \in 1..Len(b), NEW i \in Coeffs
      PROVE  /\ LiftTerms(b, f)[m][i] = Lift(b, m) * (f[i] % b[m])
             /\ Lift(b, m) \in Int /\ f[i] % b[m] \in 0..(b[m] - 1)
             /\ LiftTerms(b, f)[m][i] \in Int /\ b[m] \in Nat /\ b[m] > 0 /\ f[i] \in Int
  <2>1. b[m] \in Nat /\ b[m] > 0 /\ f[i] \in Int
    BY BasisPositive, PositiveDomain DEF ZPoly
  <2>2. LiftTerms(b, f)[m][i] = Lift(b, m) * (f[i] % b[m])
    BY DEF LiftTerms
  <2>3. Lift(b, m) \in Int
    BY LiftFacts
  <2>4. f[i] % b[m] \in 0..(b[m] - 1)
    BY <2>1, CongOfMod
  <2> DEFINE L == Lift(b, m)  r == f[i] % b[m]
  <2>5. L \in Int /\ r \in Int
    BY <2>1, <2>3, <2>4
  <2> HIDE DEF L, r
  <2>6. L * r \in Int
    BY <2>5
  <2> QED
    BY <2>1, <2>2, <2>3, <2>4, <2>6 DEF L, r
<1>3. Polys(LiftTerms(b, f), Len(b))
  <2> SUFFICES ASSUME NEW m \in 1..Len(b) PROVE LiftTerms(b, f)[m] \in ZPoly
    BY DEF Polys
  <2>1. LiftTerms(b, f)[m] = [i \in Coeffs |-> Lift(b, m) * (f[i] % b[m])]
    BY DEF LiftTerms
  <2>2. \A i \in Coeffs : Lift(b, m) * (f[i] % b[m]) \in Int
    BY <1>2
  <2> QED
    BY <2>1, <2>2 DEF ZPoly
<1>4. \A n \in 0..Len(b) : ZSum(LiftTerms(b, f), n) \in ZPoly
  BY <1>1, <1>3, ZSumIsChain
<1> QED
  BY <1>1, <1>2, <1>3, <1>4

\* With digits enough for every modulus, the digit terms add up to the lift.
LEMMA GadgetSum ==
    ASSUME NEW b, IsBasis(b), \A m \in 1..Len(b) : b[m] <= Weight(Levels), NEW f \in ZPoly
    PROVE  ZSum(DigitTerms(b, f), RowCount(b)) = ZSum(LiftTerms(b, f), Len(b))
<1> DEFINE n == Len(b)  all == RowCount(b)  G == LiftTerms(b, f)  F == DigitTerms(b, f)
           p == [k \in 0..all |-> PartialSum(b, f, k)]
<1>1. /\ Levels \in Nat /\ Levels > 0 /\ n \in Nat /\ all \in Nat /\ all = n * Levels
      /\ Rows(b) = 1..all
  BY GadgetAssumption, BasisPositive, DigitFacts DEF RowCount
<1>2. \A k \in 0..n : ZSum(G, k) \in ZPoly
  BY LiftTermFacts
<1>3. ZSum(G, 0) = ZZero /\ \A m \in 1..n : ZSum(G, m) = ZAdd(ZSum(G, m - 1), G[m])
  BY <1>1, LiftTermFacts, ZSumIsChain
<1>4. p[0] = ZZero
  <2>1. 0 \div Levels = 0 /\ 0 % Levels = 0
    <3>1. 0 = 0 * Levels + 0 /\ 0 \in 0..(Levels - 1)
      BY <1>1
    <3> QED
      BY <1>1, <3>1, IndexSplit
  <2>2. p[0] = PartialSum(b, f, 0)
    BY <1>1
  <2>3. \A i \in Coeffs : ZZero[i] = 0
    BY DEF ZZero
  <2> QED
    BY <1>3, <2>1, <2>2, <2>3 DEF PartialSum, ZZero
<1>5. p[all] = ZSum(G, n)
  <2>1. all \div Levels = n /\ all % Levels = 0
    <3>1. all = n * Levels + 0 /\ 0 \in 0..(Levels - 1) /\ n \in Int /\ Levels \in Nat
      <4>1. n * Levels \in Int
        BY <1>1
      <4> QED
        BY <1>1, <4>1
    <3> HIDE DEF n, all
    <3> QED
      BY <1>1, <3>1, IndexSplit
  <2>2. p[all] = PartialSum(b, f, all)
    BY <1>1
  <2>3. ZSum(G, n) \in ZPoly
    BY <1>1, <1>2
  <2> HIDE DEF G, p, all, n
  <2>4. p[all] = [i \in Coeffs |-> ZSum(G, n)[i] + 0]
    BY <2>1, <2>2 DEF PartialSum, G
  <2>5. \A i \in Coeffs : ZSum(G, n)[i] + 0 = ZSum(G, n)[i]
    BY <2>3, PolyTypes
  <2> QED
    BY <2>3, <2>4, <2>5 DEF ZPoly
<1>6. ASSUME NEW k \in 1..all
      PROVE  p[k] = ZAdd(p[k - 1], F[k])
  <2> DEFINE m == RowModulus(k)  l == RowLevel(k)
  <2>1. /\ m \in 1..n /\ l \in 0..(Levels - 1) /\ l \in Nat /\ k \in Nat
        /\ k = (m - 1) * Levels + l + 1
    BY <1>1, RowFacts
  <2>1a. /\ (k - 1) \div Levels = m - 1 /\ (k - 1) % Levels = l
         /\ l + 1 = Levels => k \div Levels = m /\ k % Levels = 0
         /\ l + 1 # Levels => k \div Levels = m - 1 /\ k % Levels = l + 1
    <3>1. m \in Int /\ l \in 0..(Levels - 1) /\ k = (m - 1) * Levels + l + 1 /\ m - 1 \in Int
      BY <2>1
    <3> HIDE DEF m, l
    <3>2. (m - 1) * Levels = m * Levels - Levels /\ m * Levels \in Int /\ (m - 1) * Levels \in Int
      BY <1>1, <3>1
    <3>3. (k - 1) \div Levels = m - 1 /\ (k - 1) % Levels = l
      <4>1. k - 1 = (m - 1) * Levels + l
        BY <1>1, <3>1, <3>2
      <4> QED
        BY <1>1, <3>1, <4>1, IndexSplit
    <3>4. ASSUME l + 1 = Levels PROVE k \div Levels = m /\ k % Levels = 0
      <4>1. k = m * Levels + 0 /\ 0 \in 0..(Levels - 1)
        BY <1>1, <3>1, <3>2, <3>4
      <4> QED
        BY <1>1, <3>1, <4>1, IndexSplit
    <3>5. ASSUME l + 1 # Levels PROVE k \div Levels = m - 1 /\ k % Levels = l + 1
      <4>1. k = (m - 1) * Levels + (l + 1) /\ l + 1 \in 0..(Levels - 1)
        BY <1>1, <3>1, <3>2, <3>5
      <4> QED
        BY <1>1, <3>1, <4>1, IndexSplit
    <3> QED
      BY <3>3, <3>4, <3>5
  <2>2. F[k] = ZScale(Digit(b, f, k), RowWeight(b, k))
    BY <1>1 DEF DigitTerms
  <2>3. p[k] = PartialSum(b, f, k) /\ p[k - 1] = PartialSum(b, f, k - 1)
    BY <1>1
  <2> HIDE DEF p, F, all
  <2>4. ASSUME NEW i \in Coeffs
        PROVE  PartialSum(b, f, k)[i] = PartialSum(b, f, k - 1)[i] + RowWeight(b, k) * Digit(b, f, k)[i]
    <3> DEFINE L == Lift(b, m)  q == b[m]  r == f[i] % q  W == Weight(l)  S == ZSum(G, m - 1)[i]
               d == (r \div W) % Base  low == r % W
    <3>1. L \in Int /\ q \in Nat /\ q > 0 /\ r \in 0..(q - 1) /\ q <= Weight(Levels)
          /\ ZSum(G, m)[i] = S + L * r
      <4>1. ZSum(G, m) = ZAdd(ZSum(G, m - 1), G[m])
        BY <1>3, <2>1
      <4>2. G[m][i] = L * r
        BY <2>1, LiftTermFacts
      <4>3. ZSum(G, m)[i] = S + G[m][i]
        BY <4>1 DEF ZAdd
      <4> QED
        BY <2>1, <4>2, <4>3, LiftTermFacts
    <3>2. S \in Int
      <4>1. m - 1 \in 0..n
        BY <1>1, <2>1
      <4>2. ZSum(G, m - 1) \in ZPoly
        BY <1>2, <4>1
      <4> QED
        BY <4>2, PolyTypes
    <3>3. W \in Nat /\ W > 0 /\ Weight(l + 1) = W * Base /\ Base \in Nat /\ Base > 0 /\ Weight(0) = 1
      BY <2>1, WeightFacts
    <3>4. RowWeight(b, k) * Digit(b, f, k)[i] = (W * L) * d
      BY DEF RowWeight, Digit
    <3>5. PartialSum(b, f, k - 1)[i] = S + L * low
      <4>1. (k - 1) \div Levels = m - 1 /\ (k - 1) % Levels = l
        BY <2>1a
      <4>2. PartialSum(b, f, k - 1)[i] = S + IF l = 0 THEN 0 ELSE Lift(b, m - 1 + 1)
                      * ((f[i] % b[m - 1 + 1]) % Weight(l))
        BY <4>1 DEF PartialSum
      <4>3. m - 1 + 1 = m
        BY <2>1
      <4>4. CASE l = 0
        <5>1. W = 1
          BY <3>3, <4>4
        <5> HIDE DEF r
        <5>2. low = 0
          BY <3>1, <5>1
        <5> HIDE DEF low, L
        <5>3. L * low = 0
          BY <3>1, <5>2
        <5> QED
          BY <4>2, <4>4, <5>3
      <4>5. CASE l # 0
        BY <4>2, <4>3, <4>5
      <4> QED
        BY <4>4, <4>5
    <3>6. PartialSum(b, f, k)[i] = S + L * (r % (W * Base))
      <4>1. CASE l + 1 = Levels
        <5>1. k \div Levels = m /\ k % Levels = 0
          BY <2>1a, <4>1
        <5>2. PartialSum(b, f, k)[i] = ZSum(G, m)[i] + 0
          BY <5>1 DEF PartialSum
        <5>3. W * Base = Weight(Levels) /\ W * Base \in Nat
          BY <3>3, <4>1
        <5> HIDE DEF r, L, S, q, G
        <5>4. r % (W * Base) = r
          <6> DEFINE M == W * Base
          <6>1. M \in Nat /\ r \in 0..(M - 1)
            BY <3>1, <5>3
          <6> HIDE DEF M
          <6>2. r % M = r
            BY <6>1
          <6> QED
            BY <6>2 DEF M
        <5>5. L * r \in Int
          BY <3>1
        <5> QED
          BY <3>1, <3>2, <5>2, <5>4, <5>5
      <4>2. CASE l + 1 # Levels
        <5>1. k \div Levels = m - 1 /\ k % Levels = l + 1
          BY <2>1a, <4>2
        <5>2. l + 1 # 0 /\ m - 1 + 1 = m
          BY <2>1
        <5>3. PartialSum(b, f, k)[i] = S + L * (r % Weight(l + 1))
          BY <5>1, <5>2 DEF PartialSum
        <5> QED
          BY <3>3, <5>3
      <4> QED
        BY <4>1, <4>2
    <3> HIDE DEF L, r, W, S, q, m, l, G
    <3>7. r % (W * Base) = low + W * d
      <4>1. r \in Int
        BY <3>1
      <4> QED
        BY <3>3, <4>1, DigitStep
    <3>8. low \in Int /\ d \in Int
      <4>1. r \in Int /\ r % W \in Int /\ r \div W \in Int
        BY <3>1, <3>3, Quotient
      <4> QED
        BY <3>3, <4>1, Quotient
    <3> HIDE DEF low, d
    <3>9. S + L * (low + W * d) = (S + L * low) + (W * L) * d
      BY <3>1, <3>2, <3>3, <3>8
    <3> QED
      BY <3>4, <3>5, <3>6, <3>7, <3>9
  <2>5. ASSUME NEW i \in Coeffs PROVE p[k][i] = ZAdd(p[k - 1], F[k])[i]
    <3>1. F[k][i] = RowWeight(b, k) * Digit(b, f, k)[i]
      BY <2>2 DEF ZScale
    <3>2. ZAdd(p[k - 1], F[k])[i] = p[k - 1][i] + F[k][i]
      BY DEF ZAdd
    <3> QED
      BY <2>3, <2>4, <3>1, <3>2
  <2>6. p[k] = [i \in Coeffs |-> p[k][i]]
    BY <2>3 DEF PartialSum
  <2>7. ZAdd(p[k - 1], F[k]) = [i \in Coeffs |-> ZAdd(p[k - 1], F[k])[i]]
    BY DEF ZAdd
  <2> QED
    BY <2>5, <2>6, <2>7
<1>7. Polys(F, all)
  BY DigitFacts
<1> HIDE DEF p
<1>8. PolyChain(p, F, all)
  BY <1>4, <1>6 DEF PolyChain
<1>9. p[all] = ZSum(F, all)
  BY <1>1, <1>7, <1>8, ZSumChain
<1> QED
  BY <1>5, <1>9

\* The weighted digits add up to the polynomial, modulo every modulus.
LEMMA DigitsSum ==
    ASSUME NEW b, IsBasis(b), \A m \in 1..Len(b) : b[m] <= Weight(Levels), NEW f \in ZPoly
    PROVE  /\ ZSum(DigitTerms(b, f), RowCount(b)) \in ZPoly
           /\ FromIntegers(ZSum(DigitTerms(b, f), RowCount(b)), b) = FromIntegers(f, b)
<1> DEFINE n == Len(b)  G == LiftTerms(b, f)  Z == ZSum(G, n)
<1>1. Z = ZSum(DigitTerms(b, f), RowCount(b)) /\ Z \in ZPoly /\ n \in Nat
  BY GadgetSum, LiftTermFacts
<1>2. ASSUME NEW i \in Coeffs, NEW j \in 1..n PROVE Cong(Z[i], f[i], b[j])
  <2> DEFINE q == b[j]  h == [m \in 1..n |-> G[m][i]]  rest == (1..n) \ {j}
             k == [m \in 1..n |-> CHOOSE c \in Int : h[m] = c * q]  L == Lift(b, j)
             u == f[i]  r == u % q
  <2>1. Z[i] = SumFunctionOnSet(h, 1..n)
    BY DEF ZSum
  <2>2. /\ \A m \in 1..n : h[m] \in Int
        /\ h[j] = L * r /\ L \in Int /\ q \in Nat /\ q > 0 /\ u \in Int
    <3>1. \A m \in 1..n : G[m] \in ZPoly
      BY LiftTermFacts DEF Polys
    <3>2. \A m \in 1..n : h[m] \in Int
      BY <3>1, PolyTypes
    <3> QED
      BY <3>2, LiftTermFacts
  <2>3. \A m \in rest : k[m] \in Int /\ h[m] = k[m] * q
    <3> SUFFICES ASSUME NEW m \in rest PROVE \E c \in Int : h[m] = c * q
      OBVIOUS
    <3> DEFINE M == Lift(b, m)  s == f[i] % b[m]
    <3>1. h[m] = M * s /\ M \in Int /\ s \in Int /\ Divides(q, M)
      <4>1. h[m] = M * s /\ M \in Int /\ s \in 0..(b[m] - 1) /\ b[m] \in Nat
        BY LiftTermFacts
      <4>2. Divides(q, M)
        BY LiftFacts
      <4> QED
        BY <4>1, <4>2
    <3>1a. q \in Int
      BY <2>2
    <3> HIDE DEF M, s, h, q
    <3>2. Divides(q, M * s)
      BY <3>1, <3>1a, DividesProduct
    <3> QED
      BY <3>1, <3>2 DEF Divides
  <2> HIDE DEF h, k, G, q, L, u
  <2>4. IsFiniteSet(1..n) /\ IsFiniteSet(rest)
    <3>1. IsFiniteSet(1..n)
      BY <1>1, FS_Interval
    <3>2. rest \subseteq 1..n
      OBVIOUS
    <3> HIDE DEF rest, n
    <3> QED
      BY <3>1, <3>2, FS_Subset
  <2>5. SumFunctionOnSet(h, 1..n) = h[j] + SumFunctionOnSet(h, rest)
    <3>1. IntOn(h, 1..n)
      BY <2>2 DEF IntOn
    <3>2. IsSum(h, 1..n)
      BY <2>4, <3>1, SumIsSum
    <3> QED
      BY <3>2 DEF IsSum
  <2>6. SumFunctionOnSet(k, rest) \in Int
        /\ SumFunctionOnSet(h, rest) = q * SumFunctionOnSet(k, rest)
    <3>1. IntOn(k, rest)
      BY <2>3 DEF IntOn
    <3>2. \A e \in rest : h[e] = q * k[e]
      <4> TAKE e \in rest
      <4> DEFINE c == k[e]
      <4>1. c \in Int /\ h[e] = c * q
        BY <2>3
      <4> HIDE DEF c
      <4>2. c * q = q * c
        BY <2>2, <4>1
      <4> QED
        BY <4>1, <4>2 DEF c
    <3>3. q \in Int
      BY <2>2
    <3> HIDE DEF rest
    <3> QED
      BY <2>4, <3>1, <3>2, <3>3, SumScales
  <2> DEFINE R == SumFunctionOnSet(k, rest)
  <2> HIDE DEF R
  <2>7. Z[i] = L * r + q * R /\ R \in Int
    BY <2>1, <2>2, <2>5, <2>6 DEF R
  <2>8. Cong(L, 1, q)
    BY LiftFacts DEF L, q
  <2>9. r \in Int /\ Cong(r, u, q) /\ q \in Int
    BY <2>2, CongOfMod
  <2> HIDE DEF r
  <2>10. Cong(L * r, 1 * u, q) /\ L * r \in Int
    BY <2>2, <2>8, <2>9, CongAdd
  <2>11. Cong(L * r + q * R, L * r, q) /\ L * r + q * R \in Int
    <3> DEFINE lr == L * r
    <3>1. lr \in Int
      BY <2>10
    <3> HIDE DEF lr
    <3>2. lr + q * R = lr + R * q /\ lr + q * R \in Int
      BY <2>7, <2>9, <3>1
    <3> QED
      BY <2>7, <3>2 DEF Cong, lr
  <2>12. 1 * u = u
    BY <2>2
  <2>13. Cong(Z[i], u, q)
    <3> DEFINE lr == L * r  z == L * r + q * R
    <3>1. lr \in Int /\ z \in Int /\ Cong(z, lr, q) /\ Cong(lr, u, q) /\ Z[i] = z
      BY <2>7, <2>10, <2>11, <2>12
    <3> HIDE DEF lr, z
    <3>2. Cong(z, u, q)
      BY <2>2, <2>9, <3>1, CongTrans
    <3> QED
      BY <3>1, <3>2
  <2> QED
    BY <2>13 DEF u, q
<1> HIDE DEF Z
<1>3. Positive(b) /\ DOMAIN b = 1..n
  BY BasisPositive
<1>4. FromIntegers(Z, b) = FromIntegers(f, b)
  BY <1>1, <1>2, <1>3, FISame
<1> QED
  BY <1>1, <1>4

\* recompose undoes decompose.
THEOREM RecomposeDigits ==
    ASSUME NEW b, IsBasis(b), \A m \in 1..Len(b) : b[m] <= Weight(Levels), NEW f \in ZPoly
    PROVE  Recompose(Digits(FromIntegers(f, b), b), b) = FromIntegers(f, b)
<1> DEFINE D == Digits(FromIntegers(f, b), b)  n == RowCount(b)
           s == [row \in Rows(b) |-> ScaleForRow(D[row], row, b)]
<1>1. n \in Nat /\ Rows(b) = 1..n /\ Polys(DigitTerms(b, f), n) /\ Positive(b)
  BY DigitFacts, BasisPositive
<1>2. ASSUME NEW row \in 1..n PROVE s[row] = FromIntegers(DigitTerms(b, f)[row], b)
  <2>1. row \in Rows(b) /\ D[row] = FromIntegers(Digit(b, f, row), b) /\ Digit(b, f, row) \in ZPoly
    BY <1>1, DigitFacts
  <2>2. s[row] = ScaleForRow(D[row], row, b)
    BY <2>1
  <2>3. ScaleForRow(D[row], row, b) = FromIntegers(ZScale(Digit(b, f, row), RowWeight(b, row)), b)
    BY <2>1, FIScaleForRow
  <2>4. DigitTerms(b, f)[row] = ZScale(Digit(b, f, row), RowWeight(b, row))
    BY <2>1 DEF DigitTerms
  <2> QED
    BY <2>2, <2>3, <2>4
<1>3. DOMAIN s = 1..n
  BY <1>1
<1> HIDE DEF s
<1>4. PolySum(s, b) = FromIntegers(ZSum(DigitTerms(b, f), n), b)
  BY <1>1, <1>2, <1>3, FISum
<1> QED
  BY <1>4, DigitsSum DEF Recompose, s

-----------------------------------------------------------------------------
(* Powers of the secret, and the value of a ciphertext at it                *)

LEMMA MulZero ==
    ASSUME NEW h \in ZPoly
    PROVE  ZMul(ZZero, h) = ZZero /\ ZMul(h, ZZero) = ZZero /\ ZZero \in ZPoly
<1> DEFINE a == ZMul(h, h)
<1>1. a \in ZPoly /\ ZZero \in ZPoly
  BY MulType, PolyTypes
<1>2. \A f \in ZPoly : ZSub(f, f) = ZZero
  <2> TAKE f \in ZPoly
  <2>1. \A i \in Coeffs : f[i] - f[i] = 0
    BY PolyTypes
  <2> QED
    BY <2>1 DEF ZSub, ZZero
<1>3. ZMul(ZSub(h, h), h) = ZSub(a, a)
  BY MulSubtracts
<1> HIDE DEF a
<1>4. ZMul(ZZero, h) = ZZero
  BY <1>1, <1>2, <1>3
<1>5. ZMul(h, ZZero) = ZMul(ZZero, h)
  BY <1>1, MulCommutes
<1> QED
  BY <1>1, <1>4, <1>5

\* The laws of the second factor.
LEMMA MulRight ==
    ASSUME NEW f \in ZPoly, NEW g \in ZPoly, NEW h \in ZPoly
    PROVE  /\ ZMul(h, ZAdd(f, g)) = ZAdd(ZMul(h, f), ZMul(h, g))
           /\ ZMul(h, ZSub(f, g)) = ZSub(ZMul(h, f), ZMul(h, g))
           /\ \A c \in Int : ZMul(h, ZScale(f, c)) = ZScale(ZMul(h, f), c)
           /\ ZMul(h, f) \in ZPoly
<1>1. ZAdd(f, g) \in ZPoly /\ ZSub(f, g) \in ZPoly /\ \A c \in Int : ZScale(f, c) \in ZPoly
  BY PolyTypes
<1>2. ZMul(h, f) = ZMul(f, h) /\ ZMul(h, g) = ZMul(g, h) /\ ZMul(h, f) \in ZPoly
  BY MulCommutes, MulType
<1>3. ZMul(h, ZAdd(f, g)) = ZMul(ZAdd(f, g), h) /\ ZMul(h, ZSub(f, g)) = ZMul(ZSub(f, g), h)
  BY <1>1, MulCommutes
<1>4. ASSUME NEW c \in Int PROVE ZMul(h, ZScale(f, c)) = ZScale(ZMul(h, f), c)
  <2>1. ZMul(h, ZScale(f, c)) = ZMul(ZScale(f, c), h)
    BY <1>1, MulCommutes
  <2> QED
    BY <1>2, <2>1, MulScales
<1> QED
  BY <1>2, <1>3, <1>4, MulAdds, MulSubtracts

\* Two products of two factors, regrouped.
LEMMA MulExchange ==
    ASSUME NEW a \in ZPoly, NEW p \in ZPoly, NEW c \in ZPoly, NEW q \in ZPoly
    PROVE  ZMul(ZMul(a, p), ZMul(c, q)) = ZMul(ZMul(a, c), ZMul(p, q))
<1>1. /\ ZMul(c, q) \in ZPoly /\ ZMul(p, q) \in ZPoly /\ ZMul(p, c) \in ZPoly
      /\ ZMul(c, p) \in ZPoly
  BY MulType
<1>2. ZMul(ZMul(a, p), ZMul(c, q)) = ZMul(a, ZMul(p, ZMul(c, q)))
  BY <1>1, MulAssociates
<1>3. ZMul(p, ZMul(c, q)) = ZMul(ZMul(p, c), q) /\ ZMul(p, c) = ZMul(c, p)
  BY MulAssociates, MulCommutes
<1>4. ZMul(ZMul(c, p), q) = ZMul(c, ZMul(p, q))
  BY MulAssociates
<1>5. ZMul(a, ZMul(c, ZMul(p, q))) = ZMul(ZMul(a, c), ZMul(p, q))
  BY <1>1, MulAssociates
<1> QED
  BY <1>2, <1>3, <1>4, <1>5

\* The powers of S, one factor at a time.
IsPowers(P, S) ==
    /\ P \in [Nat -> ZPoly] /\ P[0] = ZOne
    /\ \A n \in Nat : P[n + 1] = ZMul(P[n], S)

\* The powers of S.
ZPowers(S) == CHOOSE P : IsPowers(P, S)

\* Powers exist.
LEMMA ZPowersAre ==
    ASSUME NEW S \in ZPoly
    PROVE  IsPowers(ZPowers(S), S)
<1> DEFINE step == [n \in Nat |-> [v \in ZPoly |-> ZMul(v, S)]]
<1>1. \A n \in Nat, v \in ZPoly : step[n + 1][v] = ZMul(v, S) /\ step[n + 1][v] \in ZPoly
  BY MulType
<1> HIDE DEF step
<1>2. PICK P : IsIteration(P, ZPoly, ZOne, step)
  BY <1>1, PolyTypes, Iteration
<1>3. IsPowers(P, S)
  BY <1>1, <1>2 DEF IsIteration, IsPowers
<1> QED
  BY <1>3 DEF ZPowers

\* A power of a sum of exponents.
LEMMA ZPowersAdd ==
    ASSUME NEW S \in ZPoly, NEW a \in Nat, NEW k \in Nat
    PROVE  ZPowers(S)[a + k] = ZMul(ZPowers(S)[a], ZPowers(S)[k])
<1> DEFINE P == ZPowers(S)
           G == {n \in Nat : P[a + n] = ZMul(P[a], P[n])}
<1>1. P \in [Nat -> ZPoly] /\ P[0] = ZOne /\ \A n \in Nat : P[n + 1] = ZMul(P[n], S)
  BY ZPowersAre DEF IsPowers
<1> HIDE DEF P
<1>2. 0 \in G
  <2>1. P[a] \in ZPoly /\ a + 0 = a
    BY <1>1
  <2>2. ZMul(P[a], ZOne) = ZMul(ZOne, P[a]) /\ ZMul(ZOne, P[a]) = P[a]
    BY <2>1, PolyTypes, MulCommutes, MulOne
  <2> QED
    BY <1>1, <2>1, <2>2
<1>3. ASSUME NEW n \in Nat, n \in G PROVE n + 1 \in G
  <2>1. P[a] \in ZPoly /\ P[n] \in ZPoly /\ a + n \in Nat /\ a + (n + 1) = (a + n) + 1
    BY <1>1
  <2>2. P[a + (n + 1)] = ZMul(P[a + n], S) /\ P[n + 1] = ZMul(P[n], S)
    BY <1>1, <2>1
  <2>3. ZMul(ZMul(P[a], P[n]), S) = ZMul(P[a], ZMul(P[n], S))
    BY <2>1, MulAssociates
  <2> QED
    BY <1>3, <2>2, <2>3
<1> HIDE DEF G
<1>4. k \in G
  BY <1>2, <1>3, InductionSet
<1> QED
  BY <1>4 DEF G, P

\* How large a polynomial times a power of a small one can be.
LEMMA ZPowersBound ==
    ASSUME NEW S \in ZPoly, NEW B \in Nat, Within(S, B), NEW d \in ZPoly, NEW A \in Nat,
           Within(d, A)
    PROVE  \A k \in Nat :
              /\ Power(Degree * B, k) \in Nat /\ A * Power(Degree * B, k) \in Nat
              /\ Within(ZMul(d, ZPowers(S)[k]), A * Power(Degree * B, k))
<1> DEFINE P == ZPowers(S)  c == Degree * B
           G == {k \in Nat : /\ Power(c, k) \in Nat
                             /\ Within(ZMul(d, P[k]), A * Power(c, k))}
<1>1. P \in [Nat -> ZPoly] /\ P[0] = ZOne /\ \A n \in Nat : P[n + 1] = ZMul(P[n], S)
  BY ZPowersAre DEF IsPowers
<1>2. c \in Nat /\ Degree \in Nat
  BY CoeffsFacts
<1> HIDE DEF P, c
<1>3. 0 \in G
  <2>1. ZMul(d, ZOne) = ZMul(ZOne, d) /\ ZMul(ZOne, d) = d
    BY PolyTypes, MulCommutes, MulOne
  <2>2. Power(c, 0) = 1
    BY <1>2, PowerStep
  <2>3. A * 1 = A
    OBVIOUS
  <2> QED
    BY <1>1, <2>1, <2>2, <2>3
<1>4. ASSUME NEW k \in Nat, k \in G PROVE k + 1 \in G
  <2> DEFINE w == Power(c, k)  M == A * w  e == ZMul(d, P[k])
  <2>1. w \in Nat /\ M \in Nat /\ Within(e, M) /\ e \in ZPoly /\ P[k] \in ZPoly
    <3>1. w \in Nat /\ Within(e, M)
      BY <1>4
    <3>2. e \in ZPoly /\ P[k] \in ZPoly
      BY <1>1, MulType
    <3> HIDE DEF w
    <3> QED
      BY <3>1, <3>2
  <2>2. Power(c, k + 1) = w * c
    BY <1>2, PowerStep
  <2>3. ZMul(d, P[k + 1]) = ZMul(e, S)
    BY <1>1, <2>1, MulAssociates
  <2> HIDE DEF e, w
  <2>4. Within(ZMul(e, S), Degree * M * B)
    BY <2>1, MulBound
  <2>5. Degree * M * B = A * (w * c) /\ w * c \in Nat
    <3>1. Degree * (A * w) * B = A * (w * (Degree * B))
      BY <1>2, <2>1
    <3>2. w * (Degree * B) \in Nat
      BY <1>2, <2>1
    <3> QED
      BY <3>1, <3>2 DEF c
  <2> QED
    BY <2>2, <2>3, <2>4, <2>5
<1> HIDE DEF G
<1>5. Nat \subseteq G
  BY <1>3, <1>4, InductionSet
<1>6. ASSUME NEW k \in Nat
      PROVE  Power(c, k) \in Nat /\ A * Power(c, k) \in Nat /\ Within(ZMul(d, P[k]), A * Power(c, k))
  <2> DEFINE w == Power(c, k)
  <2>1. w \in Nat /\ Within(ZMul(d, P[k]), A * w)
    BY <1>5 DEF G
  <2> HIDE DEF w
  <2>2. A * w \in Nat
    BY <2>1
  <2> QED
    BY <2>1, <2>2 DEF w
<1> QED
  BY <1>6 DEF c, P

\* The components times the powers of the secret, and their sum: the phase.
PhaseTerms(C, n, S) == [c \in 1..n |-> ZMul(C[c], ZPowers(S)[c - 1])]
ZPhase(C, n, S) == ZSum(PhaseTerms(C, n, S), n)

\* The phase, one component at a time.
LEMMA ZPhaseFacts ==
    ASSUME NEW S \in ZPoly, NEW n \in Nat, NEW C, Polys(C, n)
    PROVE  /\ Polys(PhaseTerms(C, n, S), n) /\ ZPhase(C, n, S) \in ZPoly
           /\ \A k \in 0..n : /\ ZPhase(C, k, S) \in ZPoly
                              /\ ZSum(PhaseTerms(C, n, S), k) = ZPhase(C, k, S)
           /\ ZPhase(C, 0, S) = ZZero
           /\ \A k \in 1..n :
                 ZPhase(C, k, S) = ZAdd(ZPhase(C, k - 1, S), ZMul(C[k], ZPowers(S)[k - 1]))
<1> DEFINE P == ZPowers(S)  F == PhaseTerms(C, n, S)
<1>1. P \in [Nat -> ZPoly]
  BY ZPowersAre DEF IsPowers
<1>2. \A k \in 1..n : ZMul(C[k], P[k - 1]) \in ZPoly
  <2> TAKE k \in 1..n
  <2>1. C[k] \in ZPoly /\ P[k - 1] \in ZPoly
    BY <1>1 DEF Polys
  <2> QED
    BY <2>1, MulType
<1>3. Polys(F, n)
  BY <1>2 DEF Polys, PhaseTerms
<1>4. ASSUME NEW k \in 0..n PROVE ZSum(F, k) = ZPhase(C, k, S) /\ ZPhase(C, k, S) \in ZPoly
  <2> DEFINE H == PhaseTerms(C, k, S)
  <2>1. \A r \in 1..k : F[r] = H[r] /\ F[r] \in ZPoly
    BY <1>2 DEF PhaseTerms
  <2>2. Polys(H, k) /\ k \in Nat
    BY <2>1 DEF Polys
  <2> HIDE DEF F, H
  <2>3. ZSum(F, k) = ZSum(H, k)
    BY <2>1, <2>2, ZSumSame
  <2>4. ZSum(H, k) \in ZPoly
    BY <2>2, ZSumStep
  <2> QED
    BY <2>3, <2>4 DEF ZPhase, H
<1>5. ZSum(F, 0) = ZZero /\ \A k \in 1..n : ZSum(F, k) = ZAdd(ZSum(F, k - 1), F[k])
  BY <1>3, ZSumIsChain
<1>6. ASSUME NEW k \in 1..n
      PROVE  ZPhase(C, k, S) = ZAdd(ZPhase(C, k - 1, S), ZMul(C[k], P[k - 1]))
  <2>1. F[k] = ZMul(C[k], P[k - 1])
    BY DEF PhaseTerms
  <2>2. k \in 0..n /\ k - 1 \in 0..n
    OBVIOUS
  <2>3. ZSum(F, k) = ZPhase(C, k, S) /\ ZSum(F, k - 1) = ZPhase(C, k - 1, S)
    BY <1>4, <2>2
  <2> QED
    BY <1>5, <2>1, <2>3
<1>7. ZPhase(C, n, S) \in ZPoly /\ ZPhase(C, 0, S) = ZZero
  <2>1. n \in 0..n /\ 0 \in 0..n
    OBVIOUS
  <2> QED
    BY <1>4, <1>5, <2>1
<1> QED
  BY <1>3, <1>4, <1>6, <1>7

\* Any chain of partial sums ends with the phase.
LEMMA ZPhaseChain ==
    ASSUME NEW S \in ZPoly, NEW n \in Nat, NEW C, Polys(C, n), NEW p, p[0] = ZZero,
           \A k \in 1..n : p[k] = ZAdd(p[k - 1], ZMul(C[k], ZPowers(S)[k - 1]))
    PROVE  p[n] = ZPhase(C, n, S)
<1>1. Polys(PhaseTerms(C, n, S), n)
  BY ZPhaseFacts
<1>2. PolyChain(p, PhaseTerms(C, n, S), n)
  BY DEF PolyChain, PhaseTerms
<1> QED
  BY <1>1, <1>2, ZSumChain DEF ZPhase

\* One and two components.
LEMMA ZPhaseShort ==
    ASSUME NEW S \in ZPoly, NEW n \in Nat, NEW C, Polys(C, n)
    PROVE  /\ n >= 1 => ZPhase(C, 1, S) = C[1]
           /\ n >= 2 => ZPhase(C, 2, S) = ZAdd(C[1], ZMul(C[2], S))
           /\ n >= 1 => C[1] \in ZPoly
           /\ n >= 2 => C[2] \in ZPoly
<1> DEFINE P == ZPowers(S)
<1>1. P[0] = ZOne /\ P[1] = S
  <2>1. P[0] = ZOne /\ P[0 + 1] = ZMul(P[0], S)
    BY ZPowersAre DEF IsPowers
  <2>2. ZMul(ZOne, S) = S /\ 0 + 1 = 1
    BY MulOne
  <2> QED
    BY <2>1, <2>2
<1>2. ASSUME n >= 1 PROVE ZPhase(C, 1, S) = C[1] /\ C[1] \in ZPoly
  <2>1. 1 \in 1..n /\ C[1] \in ZPoly /\ 1 - 1 = 0
    BY <1>2 DEF Polys
  <2>2. ZPhase(C, 1, S) = ZAdd(ZZero, ZMul(C[1], ZOne))
    BY <1>1, <2>1, ZPhaseFacts
  <2>3. ZMul(C[1], ZOne) = C[1]
    <3>1. ZMul(C[1], ZOne) = ZMul(ZOne, C[1]) /\ ZMul(ZOne, C[1]) = C[1]
      BY <2>1, PolyTypes, MulCommutes, MulOne
    <3> QED
      BY <3>1
  <2>4. ZAdd(ZZero, C[1]) = C[1]
    <3>1. \A i \in Coeffs : ZAdd(ZZero, C[1])[i] = C[1][i]
      <4> TAKE i \in Coeffs
      <4>1. C[1][i] \in Int /\ ZAdd(ZZero, C[1])[i] = 0 + C[1][i]
        BY <2>1, PolyTypes DEF ZAdd, ZZero
      <4> QED
        BY <4>1
    <3>2. ZAdd(ZZero, C[1]) \in ZPoly
      BY <2>1, PolyTypes
    <3> QED
      BY <2>1, <3>1, <3>2, SamePoly
  <2> QED
    BY <2>1, <2>2, <2>3, <2>4
<1>3. ASSUME n >= 2 PROVE ZPhase(C, 2, S) = ZAdd(C[1], ZMul(C[2], S)) /\ C[2] \in ZPoly
  <2>1. 2 \in 1..n /\ C[2] \in ZPoly /\ 2 - 1 = 1 /\ n >= 1
    BY <1>3 DEF Polys
  <2>2. ZPhase(C, 2, S) = ZAdd(ZPhase(C, 1, S), ZMul(C[2], P[1]))
    BY <2>1, ZPhaseFacts
  <2> QED
    BY <1>1, <1>2, <2>1, <2>2
<1> QED
  BY <1>2, <1>3

\* Sequences added and subtracted component by component.
EachAdd(H, F, G, n) == \A c \in 1..n : H[c] = ZAdd(F[c], G[c])
EachSub(H, F, G, n) == \A c \in 1..n : H[c] = ZSub(F[c], G[c])

\* The phase of a sum is the sum of the phases.
LEMMA ZPhaseLinear ==
    ASSUME NEW S \in ZPoly, NEW n \in Nat, NEW F, NEW G, NEW H, Polys(F, n), Polys(G, n)
    PROVE  /\ EachAdd(H, F, G, n)
                 => Polys(H, n) /\ ZPhase(H, n, S) = ZAdd(ZPhase(F, n, S), ZPhase(G, n, S))
           /\ EachSub(H, F, G, n)
                 => Polys(H, n) /\ ZPhase(H, n, S) = ZSub(ZPhase(F, n, S), ZPhase(G, n, S))
<1> DEFINE P == ZPowers(S)  f == PhaseTerms(F, n, S)  g == PhaseTerms(G, n, S)
           h == PhaseTerms(H, n, S)
<1>1. P \in [Nat -> ZPoly]
  BY ZPowersAre DEF IsPowers
<1>2. Polys(f, n) /\ Polys(g, n)
  BY ZPhaseFacts
<1>3. \A c \in 1..n : /\ F[c] \in ZPoly /\ G[c] \in ZPoly /\ P[c - 1] \in ZPoly
                      /\ ZAdd(F[c], G[c]) \in ZPoly /\ ZSub(F[c], G[c]) \in ZPoly
                      /\ f[c] = ZMul(F[c], P[c - 1]) /\ g[c] = ZMul(G[c], P[c - 1])
                      /\ h[c] = ZMul(H[c], P[c - 1])
  BY <1>1, PolyTypes DEF Polys, PhaseTerms
<1> HIDE DEF f, g, h
<1>4. ASSUME \A c \in 1..n : H[c] = ZAdd(F[c], G[c])
      PROVE  Polys(H, n) /\ ZPhase(H, n, S) = ZAdd(ZPhase(F, n, S), ZPhase(G, n, S))
  <2>1. \A c \in 1..n : h[c] = ZAdd(f[c], g[c])
    BY <1>3, <1>4, MulAdds
  <2>2. ZSum(h, n) = ZAdd(ZSum(f, n), ZSum(g, n))
    BY <1>2, <2>1, ZSumAdds
  <2> QED
    BY <1>3, <1>4, <2>2 DEF Polys, ZPhase, f, g, h
<1>5. ASSUME \A c \in 1..n : H[c] = ZSub(F[c], G[c])
      PROVE  Polys(H, n) /\ ZPhase(H, n, S) = ZSub(ZPhase(F, n, S), ZPhase(G, n, S))
  <2>1. \A c \in 1..n : h[c] = ZSub(f[c], g[c])
    BY <1>3, <1>5, MulSubtracts
  <2>2. ZSum(h, n) = ZSub(ZSum(f, n), ZSum(g, n))
    BY <1>2, <2>1, ZSumSubtracts
  <2> QED
    BY <1>3, <1>5, <2>2 DEF Polys, ZPhase, f, g, h
<1> QED
  BY <1>4, <1>5 DEF EachAdd, EachSub

\* The phase of a multiple is the multiple of the phase.
LEMMA ZPhaseScales ==
    ASSUME NEW S \in ZPoly, NEW n \in Nat, NEW F, NEW H, Polys(F, n), NEW k \in Int,
           \A c \in 1..n : H[c] = ZScale(F[c], k)
    PROVE  Polys(H, n) /\ ZPhase(H, n, S) = ZScale(ZPhase(F, n, S), k)
<1> DEFINE P == ZPowers(S)  f == PhaseTerms(F, n, S)  h == PhaseTerms(H, n, S)
<1>1. P \in [Nat -> ZPoly]
  BY ZPowersAre DEF IsPowers
<1>2. Polys(f, n)
  BY ZPhaseFacts
<1>3. \A c \in 1..n : /\ F[c] \in ZPoly /\ P[c - 1] \in ZPoly /\ ZScale(F[c], k) \in ZPoly
                      /\ f[c] = ZMul(F[c], P[c - 1]) /\ h[c] = ZMul(H[c], P[c - 1])
  BY <1>1, PolyTypes DEF Polys, PhaseTerms
<1> HIDE DEF f, h
<1>4. \A c \in 1..n : h[c] = ZScale(f[c], k)
  BY <1>3, MulScales
<1>5. ZSum(h, n) = ZScale(ZSum(f, n), k)
  BY <1>2, <1>4, ZSumScales
<1> QED
  BY <1>3, <1>5 DEF Polys, ZPhase, f, h

\* Sums of three polynomials, in another order.
LEMMA AddShuffle ==
    ASSUME NEW f \in ZPoly, NEW g \in ZPoly, NEW u \in ZPoly
    PROVE  /\ ZAdd(ZAdd(f, g), u) = ZAdd(ZAdd(f, u), g)
           /\ ZAdd(ZZero, f) = f /\ ZAdd(f, ZZero) = f
           /\ ZAdd(f, ZSub(g, f)) = g
<1>1. /\ ZAdd(ZAdd(f, g), u) \in ZPoly /\ ZAdd(ZAdd(f, u), g) \in ZPoly
      /\ ZAdd(ZZero, f) \in ZPoly /\ ZAdd(f, ZZero) \in ZPoly /\ ZAdd(f, ZSub(g, f)) \in ZPoly
  BY PolyTypes
<1>2. ASSUME NEW i \in Coeffs
      PROVE  /\ ZAdd(ZAdd(f, g), u)[i] = ZAdd(ZAdd(f, u), g)[i]
             /\ ZAdd(ZZero, f)[i] = f[i] /\ ZAdd(f, ZZero)[i] = f[i]
             /\ ZAdd(f, ZSub(g, f))[i] = g[i]
  <2> DEFINE a == f[i]  c == g[i]  d == u[i]
  <2>1. a \in Int /\ c \in Int /\ d \in Int
    BY PolyTypes
  <2>2. /\ ZAdd(ZAdd(f, g), u)[i] = (a + c) + d /\ ZAdd(ZAdd(f, u), g)[i] = (a + d) + c
        /\ ZAdd(ZZero, f)[i] = 0 + a /\ ZAdd(f, ZZero)[i] = a + 0
        /\ ZAdd(f, ZSub(g, f))[i] = a + (c - a)
    BY DEF ZAdd, ZZero, ZSub
  <2> HIDE DEF a, c, d
  <2>3. (a + c) + d = (a + d) + c /\ 0 + a = a /\ a + 0 = a /\ a + (c - a) = c
    BY <2>1
  <2> QED
    BY <2>2, <2>3 DEF a, c
<1> QED
  BY <1>1, <1>2, SamePoly

\* A change of the first component is a change of the phase.
LEMMA ZPhaseShift ==
    ASSUME NEW S \in ZPoly, NEW n \in Nat, n >= 1, NEW F, NEW H, Polys(F, n), NEW u \in ZPoly,
           H[1] = ZAdd(F[1], u), \A c \in 2..n : H[c] = F[c]
    PROVE  Polys(H, n) /\ ZPhase(H, n, S) = ZAdd(ZPhase(F, n, S), u)
<1> DEFINE P == ZPowers(S)
           p == [k \in 0..n |-> IF k = 0 THEN ZZero ELSE ZAdd(ZPhase(F, k, S), u)]
<1>1. P \in [Nat -> ZPoly] /\ P[0] = ZOne
  BY ZPowersAre DEF IsPowers
<1>2. \A c \in 1..n : F[c] \in ZPoly /\ P[c - 1] \in ZPoly /\ ZMul(F[c], P[c - 1]) \in ZPoly
  <2> TAKE c \in 1..n
  <2>1. F[c] \in ZPoly /\ P[c - 1] \in ZPoly
    BY <1>1 DEF Polys
  <2> QED
    BY <2>1, MulType
<1>3. Polys(H, n)
  <2>1. 1 \in 1..n /\ ZAdd(F[1], u) \in ZPoly
    BY <1>2, PolyTypes
  <2>2. \A c \in 1..n : c = 1 \/ c \in 2..n
    OBVIOUS
  <2> QED
    BY <1>2, <2>1, <2>2 DEF Polys
<1>4. \A k \in 0..n : ZPhase(F, k, S) \in ZPoly
  BY ZPhaseFacts
<1>5. \A k \in 1..n : ZPhase(F, k, S) = ZAdd(ZPhase(F, k - 1, S), ZMul(F[k], P[k - 1]))
  BY ZPhaseFacts
<1>6. ASSUME NEW k \in 1..n PROVE p[k] = ZAdd(p[k - 1], ZMul(H[k], P[k - 1]))
  <2>1. CASE k = 1
    <3>1. p[1] = ZAdd(ZPhase(F, 1, S), u) /\ p[0] = ZZero /\ 1 - 1 = 0
      OBVIOUS
    <3>2. ZPhase(F, 1, S) = F[1] /\ F[1] \in ZPoly
      BY ZPhaseShort
    <3>3. ZMul(H[1], ZOne) = H[1] /\ H[1] \in ZPoly
      <4>1. H[1] \in ZPoly
        BY <3>2, PolyTypes
      <4>2. ZMul(H[1], ZOne) = ZMul(ZOne, H[1]) /\ ZMul(ZOne, H[1]) = H[1]
        BY <4>1, PolyTypes, MulCommutes, MulOne
      <4> QED
        BY <4>1, <4>2
    <3>4. ZAdd(ZZero, H[1]) = H[1]
      BY <3>3, AddShuffle
    <3> QED
      BY <1>1, <2>1, <3>1, <3>2, <3>3, <3>4
  <2>2. CASE k # 1
    <3>1. k \in 2..n /\ k - 1 \in 0..n /\ k - 1 # 0
      BY <2>2
    <3>2. p[k] = ZAdd(ZPhase(F, k, S), u) /\ p[k - 1] = ZAdd(ZPhase(F, k - 1, S), u)
      BY <3>1
    <3>3. ZPhase(F, k - 1, S) \in ZPoly /\ ZMul(F[k], P[k - 1]) \in ZPoly /\ H[k] = F[k]
      BY <1>2, <1>4, <3>1
    <3> HIDE DEF P, p
    <3>4. ZAdd(ZAdd(ZPhase(F, k - 1, S), ZMul(F[k], P[k - 1])), u)
            = ZAdd(ZAdd(ZPhase(F, k - 1, S), u), ZMul(F[k], P[k - 1]))
      BY <3>3, AddShuffle
    <3> QED
      BY <1>5, <3>2, <3>3, <3>4
  <2> QED
    BY <2>1, <2>2
<1>7. p[0] = ZZero /\ p[n] = ZAdd(ZPhase(F, n, S), u)
  OBVIOUS
<1> HIDE DEF p
<1>8. p[n] = ZPhase(H, n, S)
  BY <1>3, <1>6, <1>7, ZPhaseChain
<1> QED
  BY <1>3, <1>7, <1>8

\* A column of a table of polynomials.
Column(R, n, c) == [i \in 1..n |-> R[i][c]]

\* C and D are the row sums and the column sums of R.
TableSums(R, C, D, n, m) ==
    /\ \A i \in 1..n : Polys(R[i], m)
    /\ \A i \in 1..n : C[i] = ZSum(R[i], m)
    /\ \A c \in 1..m : D[c] = ZSum(Column(R, n, c), n)

\* A table adds up to the same by rows and by columns.
LEMMA ZSumSwap ==
    ASSUME NEW n \in Nat, NEW m \in Nat, NEW R, NEW C, NEW D, TableSums(R, C, D, n, m)
    PROVE  ZSum(C, n) = ZSum(D, m)
<1> USE DEF TableSums
<1>1. ASSUME NEW k \in Coeffs PROVE ZSum(C, n)[k] = ZSum(D, m)[k]
  <2> DEFINE F == [i \in 1..n |-> [c \in 1..m |-> R[i][c][k]]]
             f == [i \in 1..n |-> C[i][k]]  d == [c \in 1..m |-> D[c][k]]
             f2 == [i \in 1..n |-> SumFunctionOnSet(F[i], 1..m)]
             d2 == [c \in 1..m |-> SumFunctionOnSet([i \in 1..n |-> F[i][c]], 1..n)]
  <2>1. \A i \in 1..n, c \in 1..m : F[i][c] \in Int
    <3> TAKE i \in 1..n, c \in 1..m
    <3>1. R[i][c] \in ZPoly
      BY DEF Polys
    <3> QED
      BY <3>1, PolyTypes
  <2>2. IsFiniteSet(1..n) /\ IsFiniteSet(1..m)
    BY FS_Interval
  <2>3. SumFunctionOnSet(f2, 1..n) = SumFunctionOnSet(d2, 1..m)
    <3> DEFINE A == 1..n  B == 1..m
    <3>1. IsFiniteSet(A) /\ IsFiniteSet(B) /\ \A i \in A, c \in B : F[i][c] \in Int
      BY <2>1, <2>2
    <3> HIDE DEF F, A, B
    <3>2. SumFunctionOnSet([i \in A |-> SumFunctionOnSet(F[i], B)], A)
             = SumFunctionOnSet([c \in B |-> SumFunctionOnSet([i \in A |-> F[i][c]], A)], B)
      BY <3>1, SumSwap
    <3> QED
      BY <3>2 DEF A, B
  <2>4. f = f2
    <3> SUFFICES ASSUME NEW i \in 1..n PROVE C[i][k] = SumFunctionOnSet(F[i], 1..m)
      OBVIOUS
    <3>1. C[i][k] = SumFunctionOnSet([c \in 1..m |-> R[i][c][k]], 1..m)
      BY DEF ZSum
    <3> QED
      BY <3>1
  <2>5. d = d2
    <3> SUFFICES ASSUME NEW c \in 1..m
                 PROVE  D[c][k] = SumFunctionOnSet([i \in 1..n |-> F[i][c]], 1..n)
      OBVIOUS
    <3> DEFINE G == [i \in 1..n |-> R[i][c]]
    <3>1. D[c][k] = SumFunctionOnSet([i \in 1..n |-> G[i][k]], 1..n)
      BY DEF ZSum, Column
    <3>2. [i \in 1..n |-> G[i][k]] = [i \in 1..n |-> F[i][c]]
      OBVIOUS
    <3> QED
      BY <3>1, <3>2
  <2>6. ZSum(C, n)[k] = SumFunctionOnSet(f, 1..n) /\ ZSum(D, m)[k] = SumFunctionOnSet(d, 1..m)
    BY DEF ZSum
  <2> QED
    BY <2>3, <2>4, <2>5, <2>6
<1> QED
  BY <1>1 DEF ZSum

-----------------------------------------------------------------------------
(* The tensor product                                                       *)

ProductTerm(C, D, m, c, i) ==
    IF c - i + 1 \in 1..m THEN ZMul(C[i], D[c - i + 1]) ELSE ZZero

\* The components of the tensor product.
ZProduct(C, n, D, m) ==
    [c \in 1..(n + m - 1) |-> ZSum([i \in 1..n |-> ProductTerm(C, D, m, c, i)], n)]

\* The terms and the components of the tensor product are polynomials.
LEMMA ProductTermType ==
    ASSUME NEW n \in Nat, NEW m \in Nat, NEW C, Polys(C, n), NEW D, Polys(D, m)
    PROVE  /\ \A i \in 1..n : \A c \in Int : ProductTerm(C, D, m, c, i) \in ZPoly
           /\ n + m >= 1 => Polys(ZProduct(C, n, D, m), n + m - 1)
<1>1. ASSUME NEW i \in 1..n, NEW c \in Int PROVE ProductTerm(C, D, m, c, i) \in ZPoly
  <2>1. C[i] \in ZPoly /\ ZZero \in ZPoly
    BY PolyTypes DEF Polys
  <2>2. CASE c - i + 1 \in 1..m
    <3>1. D[c - i + 1] \in ZPoly
      BY <2>2 DEF Polys
    <3>2. ZMul(C[i], D[c - i + 1]) \in ZPoly
      BY <2>1, <3>1, MulType
    <3> QED
      BY <2>2, <3>2 DEF ProductTerm
  <2>3. CASE c - i + 1 \notin 1..m
    BY <2>1, <2>3 DEF ProductTerm
  <2> QED
    BY <2>2, <2>3
<1>2. ASSUME NEW c \in 1..(n + m - 1) PROVE ZProduct(C, n, D, m)[c] \in ZPoly
  <2> DEFINE F == [i \in 1..n |-> ProductTerm(C, D, m, c, i)]
  <2>1. c \in Int
    OBVIOUS
  <2>2. \A i \in 1..n : F[i] \in ZPoly
    BY <1>1, <2>1
  <2>3. Polys(F, n)
    BY <2>2 DEF Polys
  <2>4. ZSum(F, n) \in ZPoly
    <3> HIDE DEF F
    <3> QED
      BY <2>3, ZSumStep
  <2> QED
    BY <2>4 DEF ZProduct
<1> QED
  BY <1>1, <1>2 DEF Polys

\* The phase of a product is the product of the phases.
THEOREM ZPhaseProduct ==
    ASSUME NEW S \in ZPoly, NEW n \in Nat, NEW m \in Nat, n >= 1, m >= 1,
           NEW C, Polys(C, n), NEW D, Polys(D, m)
    PROVE  /\ Polys(ZProduct(C, n, D, m), n + m - 1)
           /\ ZPhase(ZProduct(C, n, D, m), n + m - 1, S) = ZMul(ZPhase(C, n, S), ZPhase(D, m, S))
<1> DEFINE P == ZPowers(S)  N == n + m - 1  Z == ZProduct(C, n, D, m)
           t == PhaseTerms(C, n, S)  W == ZPhase(D, m, S)
           R == [i \in 1..n |-> [c \in 1..N |-> ZMul(ProductTerm(C, D, m, c, i), P[c - 1])]]
           rows == [i \in 1..n |-> ZSum(R[i], N)]
           cols == PhaseTerms(Z, N, S)
<1>1. N \in Nat /\ Polys(Z, N) /\ P \in [Nat -> ZPoly]
  BY ProductTermType, ZPowersAre DEF IsPowers
<1>2. \A i \in 1..n : \A c \in 1..N : ProductTerm(C, D, m, c, i) \in ZPoly /\ P[c - 1] \in ZPoly
  <2> TAKE i \in 1..n
  <2> TAKE c \in 1..N
  <2>1. c \in Int /\ c - 1 \in Nat
    BY <1>1
  <2> QED
    BY <1>1, <2>1, ProductTermType
<1>3. \A i \in 1..n : Polys(R[i], N)
  BY <1>2, MulType DEF Polys
<1>4. ASSUME NEW c \in 1..N PROVE cols[c] = ZSum(Column(R, n, c), n)
  <2> DEFINE F == [i \in 1..n |-> ProductTerm(C, D, m, c, i)]  H == [i \in 1..n |-> R[i][c]]
  <2>1. cols[c] = ZMul(Z[c], P[c - 1]) /\ Z[c] = ZSum(F, n)
    BY DEF PhaseTerms, ZProduct
  <2>2. Polys(F, n)
    BY <1>2 DEF Polys
  <2>3. \A i \in 1..n : H[i] = ZMul(F[i], P[c - 1])
    OBVIOUS
  <2>4. P[c - 1] \in ZPoly
    <3>1. c - 1 \in Nat
      BY <1>1
    <3> QED
      BY <1>1, <3>1
  <2> HIDE DEF F, H, P
  <2>5. ZSum(H, n) = ZMul(ZSum(F, n), P[c - 1])
    BY <2>2, <2>3, <2>4, ZSumMul
  <2> QED
    BY <2>1, <2>5 DEF H, Column
<1>5. ZSum(rows, n) = ZSum(cols, N)
  <2>1. \A i \in 1..n : rows[i] = ZSum(R[i], N)
    OBVIOUS
  <2> HIDE DEF R, rows, cols, N
  <2> QED
    <3>1. TableSums(R, rows, cols, n, N) /\ N \in Nat
      BY <1>1, <1>3, <1>4, <2>1 DEF TableSums
    <3> QED
      BY <3>1, ZSumSwap
<1>6. Polys(t, n) /\ W \in ZPoly
  BY ZPhaseFacts
<1>7. ASSUME NEW i \in 1..n PROVE rows[i] = ZMul(t[i], W)
  <2> DEFINE u == PhaseTerms(D, m, S)
             clip(k) == IF k < i THEN 0 ELSE k - i + 1
             p == [k \in 0..N |-> IF clip(k) <= m THEN ZMul(t[i], ZSum(u, clip(k)))
                                                 ELSE ZMul(t[i], ZSum(u, m))]
  <2>1. Polys(u, m) /\ t[i] \in ZPoly /\ t[i] = ZMul(C[i], P[i - 1]) /\ C[i] \in ZPoly
    BY <1>6, ZPhaseFacts DEF Polys, PhaseTerms
  <2>2. /\ \A k \in 0..m : ZSum(u, k) \in ZPoly
        /\ ZSum(u, 0) = ZZero
        /\ \A k \in 1..m : ZSum(u, k) = ZAdd(ZSum(u, k - 1), u[k])
    BY <2>1, ZSumIsChain
  <2>3. p[0] = ZZero
    <3>1. clip(0) = 0 /\ 0 \in 0..N /\ 0 <= m
      BY <1>1
    <3>2. p[0] = ZMul(t[i], ZZero)
      BY <2>2, <3>1
    <3> QED
      BY <2>1, <3>2, MulZero
  <2>4. p[N] = ZMul(t[i], W)
    <3>1. N \in 0..N /\ clip(N) >= m /\ clip(N) \in Nat
      BY <1>1
    <3>2. p[N] = ZMul(t[i], ZSum(u, m))
      BY <3>1
    <3> QED
      BY <3>2 DEF ZPhase
  <2>5. ASSUME NEW k \in 1..N PROVE p[k] = ZAdd(p[k - 1], R[i][k])
    <3> DEFINE j == k - i + 1
    <3>1. j \in Int /\ k \in 0..N /\ k - 1 \in 0..N /\ k \in Int /\ k - 1 \in Nat
      BY <1>1
    <3>2. R[i][k] = ZMul(ProductTerm(C, D, m, k, i), P[k - 1]) /\ P[k - 1] \in ZPoly
      BY <1>1, <3>1
    <3>3. CASE j \in 1..m
      <4>1. clip(k) = j /\ clip(k - 1) = j - 1 /\ j <= m /\ j - 1 <= m /\ j - 1 \in 0..m
            /\ j - 1 \in Nat /\ i - 1 \in Nat /\ k - 1 = (i - 1) + (j - 1)
        BY <3>1, <3>3
      <4>2. p[k] = ZMul(t[i], ZSum(u, j)) /\ p[k - 1] = ZMul(t[i], ZSum(u, j - 1))
        BY <3>1, <4>1
      <4>3. ZSum(u, j) = ZAdd(ZSum(u, j - 1), u[j]) /\ u[j] \in ZPoly /\ ZSum(u, j - 1) \in ZPoly
            /\ u[j] = ZMul(D[j], P[j - 1]) /\ D[j] \in ZPoly
        BY <2>1, <2>2, <3>3, <4>1 DEF Polys, PhaseTerms
      <4>4. p[k] = ZAdd(p[k - 1], ZMul(t[i], u[j]))
        BY <2>1, <4>2, <4>3, MulRight
      <4>5. ZMul(t[i], u[j]) = ZMul(ZMul(C[i], D[j]), ZMul(P[i - 1], P[j - 1]))
        <5>1. P[i - 1] \in ZPoly /\ P[j - 1] \in ZPoly
          BY <1>1, <4>1
        <5> DEFINE c == C[i]  d == D[j]  e == P[i - 1]  h == P[j - 1]
        <5>2. c \in ZPoly /\ d \in ZPoly /\ e \in ZPoly /\ h \in ZPoly
          BY <2>1, <4>3, <5>1
        <5>3. ZMul(t[i], u[j]) = ZMul(ZMul(c, e), ZMul(d, h))
          BY <2>1, <4>3
        <5> HIDE DEF c, d, e, h
        <5>4. ZMul(ZMul(c, e), ZMul(d, h)) = ZMul(ZMul(c, d), ZMul(e, h))
          BY <5>2, MulExchange
        <5> QED
          BY <5>3, <5>4 DEF c, d, e, h
      <4>6. ZMul(P[i - 1], P[j - 1]) = P[k - 1]
        BY <4>1, ZPowersAdd
      <4>7. ProductTerm(C, D, m, k, i) = ZMul(C[i], D[j])
        BY <3>3 DEF ProductTerm
      <4> QED
        BY <3>2, <4>4, <4>5, <4>6, <4>7
    <3>4. CASE j \notin 1..m
      <4>1. R[i][k] = ZZero
        <5>1. ProductTerm(C, D, m, k, i) = ZZero
          BY <3>4 DEF ProductTerm
        <5> QED
          BY <3>2, <5>1, MulZero
      <4>2. p[k] = p[k - 1] /\ p[k] \in ZPoly
        <5>1. CASE j < 1
          <6>1. clip(k) = 0 /\ clip(k - 1) = 0 /\ 0 <= m /\ 0 \in 0..m
            BY <3>1, <5>1
          <6>2. p[k] = ZMul(t[i], ZSum(u, 0)) /\ p[k - 1] = ZMul(t[i], ZSum(u, 0))
            BY <3>1, <6>1
          <6> QED
            BY <2>1, <2>2, <6>1, <6>2, MulType
        <5>2. CASE j > m
          <6>1. m \in 0..m /\ (clip(k) <= m => clip(k) = m) /\ (clip(k - 1) <= m => clip(k - 1) = m)
            BY <3>1, <5>2
          <6>2. p[k] = ZMul(t[i], ZSum(u, m)) /\ p[k - 1] = ZMul(t[i], ZSum(u, m))
            BY <3>1, <6>1
          <6> QED
            BY <2>1, <2>2, <6>1, <6>2, MulType
        <5> QED
          BY <3>1, <3>4, <5>1, <5>2
      <4> QED
        BY <4>1, <4>2, AddShuffle
    <3> QED
      BY <3>3, <3>4
  <2> HIDE DEF p
  <2>6. PolyChain(p, R[i], N)
    BY <2>3, <2>5 DEF PolyChain
  <2>7. p[N] = ZSum(R[i], N)
    <3> HIDE DEF R, N
    <3> QED
      BY <1>1, <1>3, <2>6, ZSumChain
  <2> QED
    BY <2>4, <2>7
<1> HIDE DEF rows, cols, t, W, Z, N
<1>8. ZSum(rows, n) = ZMul(ZSum(t, n), W)
  BY <1>6, <1>7, ZSumMul
<1> QED
  BY <1>1, <1>5, <1>8 DEF ZPhase, t, W, Z, N, cols

\* Evaluator::mul on residue polynomials.
Components(C, p, b) ==
    /\ Len(p) \in Nat /\ DOMAIN p = 1..Len(p) /\ Polys(C, Len(p))
    /\ \A c \in 1..Len(p) : p[c] = FromIntegers(C[c], b)

\* The first n components, as residues of integer polynomials.
Tabulated(p, C, n, b) == p = [c \in 1..n |-> FromIntegers(C[c], b)]

\* ct_mul of residues is the residues of the tensor product.
LEMMA FICtMul ==
    ASSUME NEW b, Positive(b), NEW C, NEW D, NEW p, NEW r, Components(C, p, b),
           Components(D, r, b), Len(p) >= 1, Len(r) >= 1
    PROVE  Tabulated(CtMul(p, r, b), ZProduct(C, Len(p), D, Len(r)), Len(p) + Len(r) - 1, b)
<1> DEFINE n == Len(p)  m == Len(r)  Z == ZProduct(C, n, D, m)
<1>0. /\ n \in Nat /\ DOMAIN p = 1..n /\ Polys(C, n) /\ \A c \in 1..n : p[c] = FromIntegers(C[c], b)
      /\ m \in Nat /\ DOMAIN r = 1..m /\ Polys(D, m) /\ \A c \in 1..m : r[c] = FromIntegers(D[c], b)
  BY DEF Components
<1> USE <1>0
<1>1. ASSUME NEW c \in 1..(n + m - 1)
      PROVE  PolySum([i \in 1..n |->
                    IF c - i + 1 \in DOMAIN r THEN PolyMul(p[i], r[c - i + 1], b)
                                              ELSE PolyZero(b)], b) = FromIntegers(Z[c], b)
  <2> DEFINE F == [i \in 1..n |-> ProductTerm(C, D, m, c, i)]
             s == [i \in 1..n |-> IF c - i + 1 \in DOMAIN r THEN PolyMul(p[i], r[c - i + 1], b)
                                                            ELSE PolyZero(b)]
  <2>1. c \in Int
    OBVIOUS
  <2>2. Polys(F, n)
    BY <2>1, ProductTermType DEF Polys
  <2>3. ASSUME NEW i \in 1..n PROVE s[i] = FromIntegers(F[i], b)
    <3>1. CASE c - i + 1 \in 1..m
      <4>1. /\ p[i] = FromIntegers(C[i], b) /\ C[i] \in ZPoly
            /\ r[c - i + 1] = FromIntegers(D[c - i + 1], b) /\ D[c - i + 1] \in ZPoly
        BY <3>1 DEF Polys
      <4>2. s[i] = PolyMul(p[i], r[c - i + 1], b)
        BY <3>1
      <4>3. F[i] = ZMul(C[i], D[c - i + 1])
        BY <3>1 DEF ProductTerm
      <4> QED
        BY <4>1, <4>2, <4>3, FIMul
    <3>2. CASE c - i + 1 \notin 1..m
      <4>1. s[i] = PolyZero(b) /\ F[i] = ZZero
        BY <3>2 DEF ProductTerm
      <4> QED
        BY <4>1 DEF PolyZero, ZZero
    <3> QED
      BY <3>1, <3>2
  <2>4. DOMAIN s = 1..n
    OBVIOUS
  <2>5. Z[c] = ZSum(F, n)
    BY DEF ZProduct
  <2>6. PolySum(s, b) = FromIntegers(ZSum(F, n), b)
    <3> HIDE DEF s, F
    <3> QED
      BY <2>2, <2>3, <2>4, FISum
  <2> QED
    BY <2>5, <2>6
<1> QED
  BY <1>1 DEF CtMul, Tabulated

-----------------------------------------------------------------------------
(* The phase that decrypt computes                                          *)

\* Components p of a ciphertext and integer polynomials they are residues of.
Lifts(C, p, b) ==
    /\ Len(p) \in Nat /\ Len(p) >= 1 /\ p \in Seq(Range(p))
    /\ Polys(C, Len(p))
    /\ \A c \in 1..Len(p) : p[c] = FromIntegers(C[c], b)

\* One turn of the loop of Decryptor::decrypt.
PhaseTurn(v, e, s, b) ==
    [sum |-> PolyAdd(v.sum, PolyMul(e, v.power, b), b), power |-> PolyMul(v.power, s, b)]

\* One turn, on residues of integer polynomials.
LEMMA PhaseTurnFI ==
    ASSUME NEW b, Positive(b), NEW S \in ZPoly, NEW f \in ZPoly, NEW g \in ZPoly, NEW c \in ZPoly
    PROVE  /\ PhaseTurn([sum |-> FromIntegers(f, b), power |-> FromIntegers(g, b)],
                        FromIntegers(c, b), FromIntegers(S, b), b)
                  = [sum |-> FromIntegers(ZAdd(f, ZMul(c, g)), b),
                     power |-> FromIntegers(ZMul(g, S), b)]
           /\ ZAdd(f, ZMul(c, g)) \in ZPoly /\ ZMul(g, S) \in ZPoly
<1>2. PolyMul(FromIntegers(c, b), FromIntegers(g, b), b) = FromIntegers(ZMul(c, g), b)
      /\ ZMul(c, g) \in ZPoly
  BY FIMul, MulType
<1>3. PolyMul(FromIntegers(g, b), FromIntegers(S, b), b) = FromIntegers(ZMul(g, S), b)
      /\ ZMul(g, S) \in ZPoly
  BY FIMul, MulType
<1>4. PolyAdd(FromIntegers(f, b), FromIntegers(ZMul(c, g), b), b)
        = FromIntegers(ZAdd(f, ZMul(c, g)), b)
      /\ ZAdd(f, ZMul(c, g)) \in ZPoly
  BY <1>2, FIAdd, PolyTypes
<1> QED
  BY <1>2, <1>3, <1>4 DEF PhaseTurn

\* The turns of the loop add up the terms of the phase.
LEMMA PhaseChain ==
    ASSUME NEW b, Positive(b), NEW S \in ZPoly, NEW N \in Nat, N >= 1, NEW C, Polys(C, N),
           NEW p, p[0] = [sum |-> FromIntegers(C[1], b), power |-> FromIntegers(S, b)],
           \A k \in 1..(N - 1) :
              p[k] = PhaseTurn(p[k - 1], FromIntegers(C[k + 1], b), FromIntegers(S, b), b)
    PROVE  p[N - 1].sum = FromIntegers(ZPhase(C, N, S), b)
<1> DEFINE P == ZPowers(S)
           Stage(k) == [sum |-> FromIntegers(ZPhase(C, k + 1, S), b),
                        power |-> FromIntegers(P[k + 1], b)]
           G == {k \in Nat : k <= N - 1 => p[k] = Stage(k)}
<1>1. P \in [Nat -> ZPoly] /\ P[0] = ZOne /\ \A k \in Nat : P[k + 1] = ZMul(P[k], S)
  BY ZPowersAre DEF IsPowers
<1>2. P[0 + 1] = S
  BY <1>1, MulOne
<1>3. ZPhase(C, 0 + 1, S) = C[1]
  BY ZPhaseShort
<1> HIDE DEF P
<1>4. 0 \in G
  BY <1>2, <1>3
<1>5. ASSUME NEW k \in Nat, k \in G PROVE k + 1 \in G
  <2> SUFFICES ASSUME k + 1 <= N - 1 PROVE p[k + 1] = Stage(k + 1)
    OBVIOUS
  <2> DEFINE m == k + 1
             f == ZPhase(C, m, S)  g == P[m]  c == C[m + 1]
  <2>1. m \in 1..(N - 1) /\ m - 1 = k /\ k <= N - 1 /\ m + 1 \in 1..N /\ m \in 0..N /\ m \in Nat
        /\ (m + 1) - 1 = m
    OBVIOUS
  <2>2. p[k] = Stage(k)
    BY <1>5, <2>1
  <2>2a. p[k] = [sum |-> FromIntegers(f, b), power |-> FromIntegers(g, b)]
    BY <2>2
  <2>3. p[m] = PhaseTurn(p[k], FromIntegers(c, b), FromIntegers(S, b), b)
    <3> HIDE DEF m
    <3>1. p[m] = PhaseTurn(p[m - 1], FromIntegers(C[m + 1], b), FromIntegers(S, b), b)
      BY <2>1
    <3> QED
      BY <2>1, <3>1
  <2>4. f \in ZPoly /\ g \in ZPoly /\ c \in ZPoly
    <3> HIDE DEF m
    <3>1. ZPhase(C, m, S) \in ZPoly
      BY <2>1, ZPhaseFacts
    <3>2. C[m + 1] \in ZPoly
      BY <2>1 DEF Polys
    <3> QED
      BY <1>1, <2>1, <3>1, <3>2
  <2>5. ZPhase(C, m + 1, S) = ZAdd(f, ZMul(c, g))
    <3> HIDE DEF m
    <3>1. ZPhase(C, m + 1, S) = ZAdd(ZPhase(C, (m + 1) - 1, S), ZMul(C[m + 1], P[(m + 1) - 1]))
      BY <2>1, ZPhaseFacts DEF P
    <3> QED
      BY <2>1, <3>1
  <2>6. P[m + 1] = ZMul(g, S)
    <3> HIDE DEF m
    <3> QED
      BY <1>1, <2>1
  <2>7. Stage(k + 1) = [sum |-> FromIntegers(ZAdd(f, ZMul(c, g)), b),
                        power |-> FromIntegers(ZMul(g, S), b)]
    BY <2>5, <2>6
  <2>8. p[m] = PhaseTurn([sum |-> FromIntegers(f, b), power |-> FromIntegers(g, b)],
                         FromIntegers(c, b), FromIntegers(S, b), b)
    BY <2>2a, <2>3
  <2>9. p[m] = [sum |-> FromIntegers(ZAdd(f, ZMul(c, g)), b),
                power |-> FromIntegers(ZMul(g, S), b)]
    <3> HIDE DEF f, g, c, m
    <3> QED
      BY <2>4, <2>8, PhaseTurnFI
  <2> QED
    BY <2>7, <2>9
<1>6. N - 1 \in G
  <2>1. N - 1 \in Nat
    OBVIOUS
  <2> HIDE DEF G
  <2> QED
    BY <2>1, <1>4, <1>5, InductionSet
<1>7. p[N - 1] = Stage(N - 1) /\ (N - 1) + 1 = N
  BY <1>6
<1> QED
  BY <1>7

\* Decryptor::decrypt on residue polynomials.
THEOREM FIPhase ==
    ASSUME NEW b, Positive(b), NEW S \in ZPoly, NEW x, NEW C, Lifts(C, x, b)
    PROVE  Phase(x, FromIntegers(S, b), b) = FromIntegers(ZPhase(C, Len(x), S), b)
<1> DEFINE s == FromIntegers(S, b)  n == Len(x) - 1
           V0 == {[sum |-> FromIntegers(r.f, b), power |-> FromIntegers(r.g, b)] : r \in [f : ZPoly, g : ZPoly]}
           base == [sum |-> x[1], power |-> s]
           Iterates(h) == h = [W \in SUBSET (1..n) |->
               IF W = {} THEN base ELSE PhaseTurn(h[W \ {Max(W)}], Tail(x)[Max(W)], s, b)]
           iter == CHOOSE h : Iterates(h)
           V == V0 \cup {iter[W] : W \in SUBSET (1..n)}
           step == [k \in 1..n |-> [v \in V |-> PhaseTurn(v, Tail(x)[k], s, b)]]
<1>0. /\ n \in Nat /\ DOMAIN Tail(x) = 1..n /\ \A k \in 1..n : Tail(x)[k] = x[k + 1]
      /\ Polys(C, n + 1) /\ \A c \in 1..(n + 1) : x[c] = FromIntegers(C[c], b) /\ C[c] \in ZPoly
  BY DEF Lifts, Polys
<1>1. base \in V0
  <2>1. x[1] = FromIntegers(C[1], b) /\ C[1] \in ZPoly
    BY <1>0
  <2> DEFINE r == [f |-> C[1], g |-> S]
  <2>2. r \in [f : ZPoly, g : ZPoly] /\ r.f = C[1] /\ r.g = S
    BY <2>1
  <2>3. base = [sum |-> FromIntegers(r.f, b), power |-> FromIntegers(r.g, b)]
    BY <2>1, <2>2
  <2> HIDE DEF r, base
  <2> QED
    BY <2>2, <2>3
<1>1b. \A v \in V0, k \in 1..n : PhaseTurn(v, Tail(x)[k], s, b) \in V0
  <2> TAKE v \in V0, k \in 1..n
  <2>1. PICK f \in ZPoly, g \in ZPoly :
           v = [sum |-> FromIntegers(f, b), power |-> FromIntegers(g, b)]
    <3>1. PICK r \in [f : ZPoly, g : ZPoly] :
             v = [sum |-> FromIntegers(r.f, b), power |-> FromIntegers(r.g, b)]
      OBVIOUS
    <3> QED
      BY <3>1
  <2> DEFINE F == ZAdd(f, ZMul(C[k + 1], g))  G == ZMul(g, S)
  <2>1a. k + 1 \in 1..(n + 1)
    BY <1>0
  <2>1b. Tail(x)[k] = FromIntegers(C[k + 1], b) /\ C[k + 1] \in ZPoly
    BY <1>0, <2>1a
  <2>2. PhaseTurn(v, Tail(x)[k], s, b) = [sum |-> FromIntegers(F, b), power |-> FromIntegers(G, b)]
        /\ F \in ZPoly /\ G \in ZPoly
    BY <2>1, <2>1b, PhaseTurnFI
  <2> HIDE DEF F, G
  <2>3. [f |-> F, g |-> G] \in [f : ZPoly, g : ZPoly]
    BY <2>2
  <2> QED
    BY <2>2, <2>3
<1> HIDE DEF V0
<1>2. Phase(x, s, b) = iter[1..n].sum
  BY <1>0 DEF Phase, FoldLeft, MapThenFoldSet, PhaseTurn
<1> HIDE DEF iter, base, s
<1>3. V0 \subseteq V /\ \A W \in SUBSET (1..n) : iter[W] \in V
  OBVIOUS
<1> HIDE DEF V
<1>4. \A k \in 1..n, v \in V : step[k][v] = PhaseTurn(v, Tail(x)[k], s, b)
  OBVIOUS
<1> HIDE DEF step
<1>5. HasFold(n, V0, base, step) /\ HasChain(n, V0, base, step)
  <2>1. SeqSteps(step, n, V0)
    BY <1>1b, <1>3, <1>4 DEF SeqSteps
  <2> HIDE DEF n
  <2> QED
    BY <1>0, <1>1, <2>1, FoldLeftChain
<1> HIDE DEF n
<1>6. \A W \in SUBSET (1..n) :
         /\ W \ {Max(W)} \in SUBSET (1..n) /\ MaxOf(n)[W] = Max(W)
         /\ W # {} => Max(W) \in 1..n
  BY <1>0, MaxOfInterval DEF MaxOf
<1>7. Iterates(iter)
  <2>1. PICK g \in [SUBSET (1..n) -> V0] : IsFold(g, 1..n, base, step, MaxOf(n))
    BY <1>5 DEF HasFold
  <2>2. ASSUME NEW W \in SUBSET (1..n)
        PROVE  g[W] = IF W = {} THEN base ELSE PhaseTurn(g[W \ {Max(W)}], Tail(x)[Max(W)], s, b)
    <3>1. g[W] = FoldAt(g, W, base, step, MaxOf(n)) /\ g[W \ {Max(W)}] \in V
      BY <2>1, <1>3, <1>6 DEF IsFold
    <3> QED
      BY <3>1, <1>4, <1>6 DEF FoldAt
  <2>3. Iterates(g)
    BY <2>1, <2>2
  <2> QED
    BY ONLY <2>3 DEF iter
<1>8. IsFold(iter, 1..n, base, step, MaxOf(n))
  <2> SUFFICES ASSUME NEW W \in SUBSET (1..n)
               PROVE  iter[W] = FoldAt(iter, W, base, step, MaxOf(n))
    BY DEF IsFold
  <2>1. iter[W] = IF W = {} THEN base ELSE PhaseTurn(iter[W \ {Max(W)}], Tail(x)[Max(W)], s, b)
    BY <1>7
  <2>2. iter[W \ {Max(W)}] \in V
    BY <1>3, <1>6
  <2> QED
    BY <2>1, <2>2, <1>4, <1>6 DEF FoldAt
<1>9. PICK p \in [0..n -> V0] : IsChain(p, n, base, step) /\ iter[1..n] = p[n]
  <2>1. PICK p \in [0..n -> V0] : IsChain(p, n, base, step)
            /\ \A h : IsFold(h, 1..n, base, step, MaxOf(n)) => h[1..n] = p[n]
    BY <1>5 DEF HasChain
  <2>2. iter[1..n] = p[n]
    BY <2>1, <1>8
  <2> QED
    BY <2>1, <2>2
<1>10. ASSUME NEW k \in 1..n
       PROVE  p[k] = PhaseTurn(p[k - 1], FromIntegers(C[k + 1], b), s, b)
  <2>1. k - 1 \in 0..n /\ p[k - 1] \in V /\ k + 1 \in 1..(n + 1)
    BY <1>0, <1>3, <1>9
  <2>2. p[k] = step[k][p[k - 1]]
    BY <1>9 DEF IsChain
  <2>3. Tail(x)[k] = FromIntegers(C[k + 1], b)
    BY <1>0, <2>1
  <2> QED
    BY <2>1, <2>2, <2>3, <1>4
<1>11. p[0] = [sum |-> FromIntegers(C[1], b), power |-> FromIntegers(S, b)]
  <2>1. p[0] = base
    BY <1>9 DEF IsChain
  <2>2. x[1] = FromIntegers(C[1], b)
    BY <1>0
  <2> QED
    BY <2>1, <2>2 DEF base, s
<1> DEFINE N == Len(x)
<1>12. N \in Nat /\ N >= 1 /\ Polys(C, N) /\ N - 1 = n
  BY DEF Lifts, n
<1>13. p[N - 1].sum = FromIntegers(ZPhase(C, N, S), b)
  <2>1. \A k \in 1..(N - 1) :
           p[k] = PhaseTurn(p[k - 1], FromIntegers(C[k + 1], b), FromIntegers(S, b), b)
    BY <1>10, <1>12 DEF s
  <2> HIDE DEF N
  <2> QED
    BY <1>11, <1>12, <2>1, PhaseChain
<1> QED
  BY <1>2, <1>9, <1>12, <1>13 DEF s

=============================================================================
