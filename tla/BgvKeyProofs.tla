---------------------------- MODULE BgvKeyProofs -----------------------------
(***************************************************************************)
(* The keys of the BGV scheme, those of one holder and those that several  *)
(* generate together, for every chain of primes, plaintext prime, set of   *)
(* holders and sample: every key row encrypts what it should under the sum *)
(* of the secrets.                                                         *)
(***************************************************************************)
EXTENDS Schemes, RingProofs

-----------------------------------------------------------------------------
(* Samples and secrets                                                      *)

\* Samples are integer polynomials within their bound.
LEMMA SmallIs ==
    ASSUME NEW B \in Nat, NEW f \in SmallPolys(B)
    PROVE  f \in ZPoly /\ Within(f, B)
BY DEF SmallPolys, ZPoly, Within

\* A sample taken in turn is one of the samples.
LEMMA CyclicIn ==
    ASSUME NEW X, NEW s \in Seq(X), Len(s) > 0, NEW n \in Int
    PROVE  Cyclic(s, n) \in X
<1>1. Len(s) \in Nat /\ DOMAIN s = 1..Len(s) /\ \A i \in 1..Len(s) : s[i] \in X
  OBVIOUS
<1> DEFINE L == Len(s)
<1>2. n % L \in 0..(L - 1)
  <2>1. L \in Nat /\ L > 0
    BY <1>1
  <2> HIDE DEF L
  <2> QED
    BY <2>1, Quotient
<1>3. (n % L) + 1 \in 1..L
  <2>1. L \in Nat
    BY <1>1
  <2> HIDE DEF L
  <2> QED
    BY <1>2, <2>1
<1> QED
  BY <1>1, <1>3 DEF Cyclic

\* A bound may be replaced by a larger one.
LEMMA WithinScale ==
    ASSUME NEW f \in ZPoly, NEW A \in Nat, NEW B \in Nat, Within(f, A), A <= B
    PROVE  Within(f, B)
<1> SUFFICES ASSUME NEW i \in Coeffs PROVE -B <= f[i] /\ f[i] <= B
  BY DEF Within
<1>1. f[i] \in Int /\ -A <= f[i] /\ f[i] <= A
  BY PolyTypes DEF Within
<1> QED
  BY <1>1

\* Bounds add up.
LEMMA WithinAdd ==
    ASSUME NEW f \in ZPoly, NEW g \in ZPoly, NEW A \in Nat, NEW B \in Nat,
           Within(f, A), Within(g, B)
    PROVE  Within(ZAdd(f, g), A + B) /\ Within(ZSub(f, g), A + B) /\ Within(ZNeg(f), A)
<1>1. ASSUME NEW i \in Coeffs
      PROVE  /\ f[i] \in Int /\ -A <= f[i] /\ f[i] <= A
             /\ g[i] \in Int /\ -B <= g[i] /\ g[i] <= B
  BY PolyTypes DEF Within
<1>2. ASSUME NEW i \in Coeffs
      PROVE  /\ -(A + B) <= f[i] + g[i] /\ f[i] + g[i] <= A + B
             /\ -(A + B) <= f[i] - g[i] /\ f[i] - g[i] <= A + B
             /\ -A <= -f[i] /\ -f[i] <= A
  BY <1>1
<1> QED
  BY <1>2 DEF Within, ZAdd, ZSub, ZNeg

\* The samples of the model.
LEMMA Samples ==
    /\ T \in Nat /\ T > 2 /\ ErrorBound \in Nat /\ SmudgeBound \in Nat
    /\ Element \in Int /\ Element % 2 = 1
    /\ \A n \in Int : /\ Cyclic(RowMasks, n) \in ZPoly
                      /\ Cyclic(RowErrors, n) \in ZPoly /\ Within(Cyclic(RowErrors, n), ErrorBound)
                      /\ Cyclic(RowTernaries, n) \in ZPoly /\ Within(Cyclic(RowTernaries, n), 1)
                      /\ Cyclic(Smudging, n) \in ZPoly /\ Within(Cyclic(Smudging, n), SmudgeBound)
<1>1. /\ T \in Nat /\ T > 2 /\ ErrorBound \in Nat /\ SmudgeBound \in Nat
      /\ Element \in Int /\ Element % 2 = 1
  BY SampleAssumption
<1>2. ASSUME NEW n \in Int
      PROVE  /\ Cyclic(RowMasks, n) \in ZPoly
             /\ Cyclic(RowErrors, n) \in SmallPolys(ErrorBound)
             /\ Cyclic(RowTernaries, n) \in SmallPolys(1)
             /\ Cyclic(Smudging, n) \in SmallPolys(SmudgeBound)
  BY SampleAssumption, CyclicIn DEF ZPoly
<1>3. 1 \in Nat
  OBVIOUS
<1> QED
  BY <1>1, <1>2, <1>3, SmallIs

-----------------------------------------------------------------------------
\* The holders of a key, and the integer polynomial their secrets add up to.

IsHolders(h) == h \in Seq(SmallPolys(1)) /\ Len(h) > 0

\* The secret of a set of holders: the sum of theirs.
KeyPoly(h) == ZSum(h, Len(h))

\* Holders have small secrets, whose sum is within their number.
LEMMA HolderFacts ==
    ASSUME NEW h, IsHolders(h)
    PROVE  /\ Len(h) \in Nat /\ Len(h) > 0 /\ DOMAIN h = 1..Len(h) /\ Polys(h, Len(h))
           /\ \A p \in 1..Len(h) : h[p] \in ZPoly /\ Within(h[p], 1)
           /\ KeyPoly(h) \in ZPoly /\ Within(KeyPoly(h), Len(h))
<1>1. Len(h) \in Nat /\ Len(h) > 0 /\ DOMAIN h = 1..Len(h)
      /\ \A p \in 1..Len(h) : h[p] \in SmallPolys(1)
  BY DEF IsHolders
<1>2. \A p \in 1..Len(h) : h[p] \in ZPoly /\ Within(h[p], 1)
  <2>1. 1 \in Nat
    OBVIOUS
  <2> QED
    BY <1>1, <2>1, SmallIs
<1>3. Polys(h, Len(h))
  BY <1>2 DEF Polys
<1> DEFINE n == Len(h)
<1>4. ZSum(h, n) \in ZPoly /\ Within(ZSum(h, n), n * 1)
  <2>1. n \in Nat /\ Polys(h, n) /\ \A p \in 1..n : Within(h[p], 1)
    BY <1>1, <1>2, <1>3
  <2> HIDE DEF n
  <2>2. 1 \in Nat
    OBVIOUS
  <2>3. Within(ZSum(h, n), n * 1)
    BY <2>1, <2>2, ZSumBound
  <2> QED
    BY <2>1, <2>3, ZSumStep
<1>5. n * 1 = n
  <2>1. n \in Nat
    BY <1>1
  <2> HIDE DEF n
  <2> QED
    BY <2>1
<1> QED
  BY <1>1, <1>2, <1>3, <1>4, <1>5 DEF KeyPoly

\* SecretOf is the residues of the sum.
LEMMA SecretIs ==
    ASSUME NEW b, Positive(b), NEW h, IsHolders(h)
    PROVE  SecretOf(h, b) = FromIntegers(KeyPoly(h), b)
<1> DEFINE s == [p \in DOMAIN h |-> FromIntegers(h[p], b)]
<1>1. DOMAIN s = 1..Len(h) /\ \A k \in 1..Len(h) : s[k] = FromIntegers(h[k], b)
  BY HolderFacts
<1>2. SecretOf(h, b) = PolySum(s, b)
  BY DEF SecretOf
<1> DEFINE n == Len(h)
<1>3. n \in Nat /\ Polys(h, n)
  BY HolderFacts
<1> HIDE DEF s
<1>4. PolySum(s, b) = FromIntegers(ZSum(h, n), b)
  <2>1. DOMAIN s = 1..n /\ \A k \in 1..n : s[k] = FromIntegers(h[k], b)
    BY <1>1
  <2> HIDE DEF n
  <2> QED
    BY <1>3, <2>1, FISum
<1> QED
  BY <1>2, <1>4 DEF KeyPoly

-----------------------------------------------------------------------------
(* Keys                                                                     *)

\* A pair (k, a) of residue polynomials with k + a S = K + T E for an E within
\* B: an encryption of K under the key S.
RowOf(pair, K, S, B, b) ==
    \E k, a, E \in ZPoly :
        /\ pair = <<FromIntegers(k, b), FromIntegers(a, b)>>
        /\ ZAdd(k, ZMul(a, S)) = ZAdd(K, ZScale(E, T))
        /\ Within(E, B)

\* The key material of holders h.
RelinNoise(n) ==
    IF n = 1 THEN ErrorBound
    ELSE RingProductBound(n, RingProductBound(n, n * ErrorBound) + n * ErrorBound
                                 + RingProductBound(n * ErrorBound, n))
         + (RingProductBound(n, n * ErrorBound) + n * ErrorBound
                + RingProductBound(n * ErrorBound, n))

\* The keys that an owner of the secrets h works with encrypt what they
\* should: 0, the square of the secret and the rotated secret, row by row.
GoodKeys(own, h, b) ==
    /\ RowOf(own.public, ZZero, KeyPoly(h), Len(h) * ErrorBound, b)
    /\ \A row \in Rows(b) :
          /\ RowOf(own.relin[row], ZScale(ZMul(KeyPoly(h), KeyPoly(h)), RowWeight(b, row)),
                   KeyPoly(h), RelinNoise(Len(h)), b)
          /\ RowOf(own.galois[row], ZScale(ZAut(KeyPoly(h), Element), RowWeight(b, row)),
                   KeyPoly(h), Len(h) * ErrorBound, b)

\* Identities of sums of polynomials.
LEMMA SubThenAdd ==
    ASSUME NEW f \in ZPoly, NEW g \in ZPoly
    PROVE  ZAdd(ZSub(f, g), g) = f /\ ZAdd(ZZero, f) = f /\ ZSub(ZAdd(f, g), g) = f
<1>1. ZAdd(ZSub(f, g), g) \in ZPoly /\ ZAdd(ZZero, f) \in ZPoly /\ ZSub(ZAdd(f, g), g) \in ZPoly
  BY PolyTypes
<1>2. ASSUME NEW i \in Coeffs
      PROVE ZAdd(ZSub(f, g), g)[i] = f[i] /\ ZAdd(ZZero, f)[i] = f[i] /\ ZSub(ZAdd(f, g), g)[i] = f[i]
  <2>1. f[i] \in Int /\ g[i] \in Int
    BY PolyTypes
  <2> QED
    BY <2>1 DEF ZAdd, ZSub, ZZero
<1> QED
  BY <1>1, <1>2, SamePoly

\* Sums of three and four.
LEMMA AddAssoc ==
    ASSUME NEW f \in ZPoly, NEW g \in ZPoly, NEW h \in ZPoly
    PROVE  /\ ZAdd(ZAdd(f, g), h) = ZAdd(f, ZAdd(g, h))
           /\ ZAdd(f, g) = ZAdd(g, f)
           /\ ZAdd(f, g) \in ZPoly
<1>1. /\ ZAdd(ZAdd(f, g), h) \in ZPoly /\ ZAdd(f, ZAdd(g, h)) \in ZPoly
      /\ ZAdd(f, g) \in ZPoly /\ ZAdd(g, f) \in ZPoly
  BY PolyTypes
<1>2. ASSUME NEW i \in Coeffs
      PROVE  ZAdd(ZAdd(f, g), h)[i] = ZAdd(f, ZAdd(g, h))[i] /\ ZAdd(f, g)[i] = ZAdd(g, f)[i]
  <2>1. f[i] \in Int /\ g[i] \in Int /\ h[i] \in Int
    BY PolyTypes
  <2> QED
    BY <2>1 DEF ZAdd
<1> QED
  BY <1>1, <1>2, SamePoly

\* (b, a) with b = T e - a s.
LEMMA ZeroRowParts ==
    ASSUME NEW b, Positive(b), NEW S \in ZPoly, NEW a \in ZPoly, NEW e \in ZPoly
    PROVE  /\ ZeroRow(FromIntegers(S, b), FromIntegers(a, b), e, b)
                 = <<FromIntegers(ZSub(ZScale(e, T), ZMul(a, S)), b), FromIntegers(a, b)>>
           /\ ZScale(e, T) \in ZPoly /\ ZMul(a, S) \in ZPoly
           /\ ZSub(ZScale(e, T), ZMul(a, S)) \in ZPoly
           /\ ZAdd(ZSub(ZScale(e, T), ZMul(a, S)), ZMul(a, S)) = ZScale(e, T)
<1>1. T \in Int
  BY Samples
<1>2. Scaled(e, T, b) = FromIntegers(ZScale(e, T), b) /\ ZScale(e, T) \in ZPoly
  BY <1>1, FIScale, PolyTypes DEF Scaled
<1>3. PolyMul(FromIntegers(a, b), FromIntegers(S, b), b) = FromIntegers(ZMul(a, S), b)
      /\ ZMul(a, S) \in ZPoly
  BY FIMul, MulType
<1> DEFINE f == ZScale(e, T)  g == ZMul(a, S)
<1>4. PolySub(FromIntegers(f, b), FromIntegers(g, b), b) = FromIntegers(ZSub(f, g), b)
      /\ ZSub(f, g) \in ZPoly /\ ZAdd(ZSub(f, g), g) = f
  <2>1. f \in ZPoly /\ g \in ZPoly
    BY <1>2, <1>3
  <2> HIDE DEF f, g
  <2> QED
    BY <2>1, FISub, PolyTypes, SubThenAdd
<1> QED
  BY <1>2, <1>3, <1>4 DEF ZeroRow

\* ZeroRow is an encryption of 0.
LEMMA ZeroRowGood ==
    ASSUME NEW b, Positive(b), NEW S \in ZPoly, NEW a \in ZPoly, NEW e \in ZPoly,
           NEW B \in Nat, Within(e, B)
    PROVE  RowOf(ZeroRow(FromIntegers(S, b), FromIntegers(a, b), e, b), ZZero, S, B, b)
<1> DEFINE f == ZScale(e, T)  k == ZSub(f, ZMul(a, S))
<1>1. /\ ZeroRow(FromIntegers(S, b), FromIntegers(a, b), e, b)
            = <<FromIntegers(k, b), FromIntegers(a, b)>>
      /\ f \in ZPoly /\ k \in ZPoly /\ ZAdd(k, ZMul(a, S)) = f
  BY ZeroRowParts
<1>2. ZAdd(ZZero, f) = f
  BY <1>1, SubThenAdd
<1> HIDE DEF k
<1>3. ZAdd(k, ZMul(a, S)) = ZAdd(ZZero, ZScale(e, T))
  BY <1>1, <1>2
<1> HIDE DEF f
<1> QED
  BY <1>1, <1>3 DEF RowOf

\* A row of an evaluation key: a scaled secret on top of that.
LEMMA GadgetRowGood ==
    ASSUME NEW b, IsBasis(b), NEW S \in ZPoly, NEW o \in ZPoly, NEW a \in ZPoly, NEW e \in ZPoly,
           NEW B \in Nat, Within(e, B), NEW row \in Rows(b), NEW r,
           r = [ZeroRow(FromIntegers(S, b), FromIntegers(a, b), e, b) EXCEPT
                   ![1] = PolyAdd(ScaleForRow(FromIntegers(o, b), row, b), @, b)]
    PROVE  RowOf(r, ZScale(o, RowWeight(b, row)), S, B, b)
<1> DEFINE f == ZScale(e, T)  g == ZMul(a, S)  k == ZSub(f, g)
           K == ZScale(o, RowWeight(b, row))
<1>0. Positive(b)
  BY BasisPositive
<1>1. /\ ZeroRow(FromIntegers(S, b), FromIntegers(a, b), e, b)
            = <<FromIntegers(k, b), FromIntegers(a, b)>>
      /\ f \in ZPoly /\ k \in ZPoly /\ g \in ZPoly /\ ZAdd(k, g) = f
  BY <1>0, ZeroRowParts
<1>2. ScaleForRow(FromIntegers(o, b), row, b) = FromIntegers(K, b) /\ K \in ZPoly
  BY FIScaleForRow, RowFacts, PolyTypes
<1> HIDE DEF k, g, K
<1>3. PolyAdd(FromIntegers(K, b), FromIntegers(k, b), b) = FromIntegers(ZAdd(K, k), b)
      /\ ZAdd(K, k) \in ZPoly
  BY <1>0, <1>1, <1>2, FIAdd, PolyTypes
<1>4. r = <<FromIntegers(ZAdd(K, k), b), FromIntegers(a, b)>>
  BY <1>1, <1>2, <1>3
<1>5. ZAdd(ZAdd(K, k), g) = ZAdd(K, f)
  BY <1>1, <1>2, AddAssoc
<1>6. ZAdd(ZAdd(K, k), ZMul(a, S)) = ZAdd(K, ZScale(e, T))
  BY <1>5 DEF g
<1>7. RowOf(r, K, S, B, b)
  <2> HIDE DEF f
  <2> QED
    BY <1>3, <1>4, <1>6 DEF RowOf
<1> QED
  BY <1>7 DEF K

\* generate_keypair_real, BgvRelinearizationKey::generate and the rotation key.
LEMMA GeneratedKeysGood ==
    ASSUME NEW b, IsBasis(b), NEW h, IsHolders(h), Len(h) = 1
    PROVE  GoodKeys(GeneratedKeys(h, b), h, b)
<1> DEFINE S == KeyPoly(h)  s == SecretOf(h, b)
<1>0. Positive(b)
  BY BasisPositive
<1>1. S \in ZPoly /\ s = FromIntegers(S, b)
  BY <1>0, HolderFacts, SecretIs
<1>2. Len(h) * ErrorBound = ErrorBound /\ RelinNoise(Len(h)) = ErrorBound /\ ErrorBound \in Nat
  <2>1. ErrorBound \in Nat
    BY Samples
  <2> QED
    BY <2>1 DEF RelinNoise
<1> HIDE DEF S
<1>3. RowOf(PublicKey(s, b), ZZero, S, ErrorBound, b)
  <2> DEFINE a == Cyclic(RowMasks, 1)  e == Cyclic(RowErrors, 3 * 0 + 0)
  <2>1. a \in ZPoly /\ e \in ZPoly /\ Within(e, ErrorBound)
    BY Samples
  <2>2. PublicKey(s, b) = ZeroRow(FromIntegers(S, b), FromIntegers(a, b), e, b)
    BY <1>1 DEF PublicKey, CommonElement, HolderError
  <2> HIDE DEF a, e
  <2> QED
    BY <1>0, <1>1, <1>2, <2>1, <2>2, ZeroRowGood
<1>4. ASSUME NEW o \in ZPoly, NEW row \in Rows(b)
      PROVE  RowOf(GadgetKey(FromIntegers(o, b), s, b)[row], ZScale(o, RowWeight(b, row)),
                   S, ErrorBound, b)
  <2> DEFINE a == Cyclic(RowMasks, row)  e == Cyclic(RowErrors, row)
             r == GadgetKey(FromIntegers(o, b), s, b)[row]
  <2>0. row \in Int
    BY RowFacts
  <2>1. a \in ZPoly /\ e \in ZPoly /\ Within(e, ErrorBound)
    BY <2>0, Samples
  <2>2. r = [ZeroRow(FromIntegers(S, b), FromIntegers(a, b), e, b) EXCEPT
                ![1] = PolyAdd(ScaleForRow(FromIntegers(o, b), row, b), @, b)]
    BY <1>1 DEF GadgetKey, CommonElement
  <2> HIDE DEF a, e, r
  <2>3. RowOf(r, ZScale(o, RowWeight(b, row)), S, ErrorBound, b)
    BY <1>1, <1>2, <2>1, <2>2, GadgetRowGood
  <2> QED
    BY <2>3 DEF r
<1>5. ASSUME NEW row \in Rows(b)
      PROVE  RowOf(RelinearizationKey(s, b)[row], ZScale(ZMul(S, S), RowWeight(b, row)),
                   S, ErrorBound, b)
  <2> DEFINE o == ZMul(S, S)
  <2>1. o \in ZPoly /\ PolyMul(s, s, b) = FromIntegers(o, b)
    BY <1>0, <1>1, FIMul, MulType
  <2> HIDE DEF o
  <2>2. RowOf(GadgetKey(FromIntegers(o, b), s, b)[row], ZScale(o, RowWeight(b, row)),
              S, ErrorBound, b)
    BY <1>4, <2>1
  <2> QED
    BY <2>1, <2>2 DEF RelinearizationKey, o
<1>6. ASSUME NEW row \in Rows(b)
      PROVE  RowOf(RotationKey(s, b)[row], ZScale(ZAut(S, Element), RowWeight(b, row)),
                   S, ErrorBound, b)
  <2> DEFINE o == ZAut(S, Element)
  <2>1. o \in ZPoly /\ Automorphism(s, Element, b) = FromIntegers(o, b)
    BY <1>0, <1>1, Samples, FIAut, AutExt
  <2> HIDE DEF o
  <2>2. RowOf(GadgetKey(FromIntegers(o, b), s, b)[row], ZScale(o, RowWeight(b, row)),
              S, ErrorBound, b)
    BY <1>4, <2>1
  <2> QED
    BY <2>1, <2>2 DEF RotationKey, o
<1>7. /\ GeneratedKeys(h, b).public = PublicKey(s, b)
      /\ GeneratedKeys(h, b).relin = RelinearizationKey(s, b)
      /\ GeneratedKeys(h, b).galois = RotationKey(s, b)
  BY DEF GeneratedKeys
<1> HIDE DEF s
<1> QED
  BY <1>2, <1>3, <1>5, <1>6, <1>7 DEF GoodKeys, S

-----------------------------------------------------------------------------
(* Sums over the holders                                                    *)

\* F holds n polynomials, and they add up to f.
Totals(F, n, f) == n \in Nat /\ Polys(F, n) /\ f \in ZPoly /\ ZSum(F, n) = f

\* Totals add up.
LEMMA TotalAdd ==
    ASSUME NEW n, NEW F, NEW G, NEW f, NEW g, Totals(F, n, f), Totals(G, n, g),
           NEW H, \A r \in 1..n : H[r] = ZAdd(F[r], G[r])
    PROVE  Totals(H, n, ZAdd(f, g))
<1>1. ZSum(H, n) = ZAdd(ZSum(F, n), ZSum(G, n)) /\ Polys(H, n)
  BY ZSumAdds DEF Totals
<1> QED
  BY <1>1, PolyTypes DEF Totals

\* Totals subtract.
LEMMA TotalSub ==
    ASSUME NEW n, NEW F, NEW G, NEW f, NEW g, Totals(F, n, f), Totals(G, n, g),
           NEW H, \A r \in 1..n : H[r] = ZSub(F[r], G[r])
    PROVE  Totals(H, n, ZSub(f, g))
<1>1. ZSum(H, n) = ZSub(ZSum(F, n), ZSum(G, n)) /\ Polys(H, n)
  BY ZSumSubtracts DEF Totals
<1> QED
  BY <1>1, PolyTypes DEF Totals

\* A common factor of a total, on either side.
LEMMA TotalMul ==
    ASSUME NEW n, NEW F, NEW f, Totals(F, n, f), NEW a \in ZPoly, NEW H
    PROVE  /\ (\A r \in 1..n : H[r] = ZMul(F[r], a)) => Totals(H, n, ZMul(f, a))
           /\ (\A r \in 1..n : H[r] = ZMul(a, F[r])) => Totals(H, n, ZMul(a, f))
<1>0. n \in Nat /\ Polys(F, n) /\ f \in ZPoly /\ \A r \in 1..n : F[r] \in ZPoly
  BY DEF Totals, Polys
<1>1. ASSUME \A r \in 1..n : H[r] = ZMul(F[r], a) PROVE Totals(H, n, ZMul(f, a))
  <2>1. ZSum(H, n) = ZMul(ZSum(F, n), a) /\ Polys(H, n)
    BY <1>0, <1>1, ZSumMul
  <2> QED
    BY <2>1, <1>0, MulType DEF Totals
<1>2. ASSUME \A r \in 1..n : H[r] = ZMul(a, F[r]) PROVE Totals(H, n, ZMul(a, f))
  <2>1. \A r \in 1..n : H[r] = ZMul(F[r], a)
    BY <1>0, <1>2, MulCommutes
  <2>2. ZMul(f, a) = ZMul(a, f)
    BY <1>0, MulCommutes
  <2> QED
    BY <2>1, <2>2, <1>1
<1> QED
  BY <1>1, <1>2

\* A common integer factor of a total.
LEMMA TotalScale ==
    ASSUME NEW n, NEW F, NEW f, Totals(F, n, f), NEW c \in Int,
           NEW H, \A r \in 1..n : H[r] = ZScale(F[r], c)
    PROVE  Totals(H, n, ZScale(f, c))
<1>1. ZSum(H, n) = ZScale(ZSum(F, n), c) /\ Polys(H, n)
  BY ZSumScales DEF Totals
<1> QED
  BY <1>1, PolyTypes DEF Totals

\* The total of the rotated polynomials is the rotated total.
LEMMA TotalAut ==
    ASSUME NEW n, NEW F, NEW f, Totals(F, n, f), NEW g \in Int, g % 2 = 1,
           NEW H, \A r \in 1..n : H[r] = ZAut(F[r], g)
    PROVE  Totals(H, n, ZAut(f, g))
<1>0. n \in Nat /\ Polys(F, n) /\ f \in ZPoly /\ ZSum(F, n) = f
  BY DEF Totals
<1>1. \A k \in 0..n : ZSum(F, k) \in ZPoly
  BY <1>0, ZSumIsChain
<1>2. Polys(H, n)
  BY <1>0, AutExt DEF Polys
<1> DEFINE p == [k \in 0..n |-> ZAut(ZSum(F, k), g)]
<1>3. p[0] = ZZero
  <2>1. ZSum(F, 0) = ZZero
    BY <1>0, ZSumIsChain
  <2>2. ZScale(ZZero, 0) = ZZero /\ ZZero \in ZPoly
    <3>1. ZScale(ZZero, 0) \in ZPoly /\ ZZero \in ZPoly
      BY PolyTypes
    <3>2. \A i \in Coeffs : ZScale(ZZero, 0)[i] = ZZero[i]
      BY DEF ZScale, ZZero
    <3> QED
      BY <3>1, <3>2, SamePoly
  <2> DEFINE u == ZAut(ZZero, g)
  <2>3. u \in ZPoly /\ ZAut(ZScale(ZZero, 0), g) = ZScale(u, 0)
    <3>1. \A c \in Int : ZAut(ZScale(ZZero, c), g) = ZScale(u, c)
      BY <2>2, AutAdds
    <3> QED
      BY <2>2, <3>1, AutExt
  <2>4. ZScale(u, 0) = ZZero
    <3> HIDE DEF u
    <3>1. ZScale(u, 0) \in ZPoly
      BY <2>3, PolyTypes
    <3>2. \A i \in Coeffs : ZScale(u, 0)[i] = ZZero[i]
      BY <2>3, PolyTypes DEF ZScale, ZZero
    <3> QED
      BY <2>2, <3>1, <3>2, SamePoly
  <2>5. u = ZZero
    BY <2>2, <2>3, <2>4
  <2>6. 0 \in 0..n
    BY <1>0
  <2> QED
    BY <2>1, <2>5, <2>6
<1>4. ASSUME NEW k \in 1..n PROVE p[k] = ZAdd(p[k - 1], H[k])
  <2>1. k - 1 \in 0..n /\ k \in 0..n
    BY <1>0
  <2>2. ZSum(F, k) = ZAdd(ZSum(F, k - 1), F[k])
    BY <1>0, ZSumIsChain
  <2>3. ZSum(F, k - 1) \in ZPoly /\ F[k] \in ZPoly
    BY <1>0, <1>1, <2>1 DEF Polys
  <2>4. ZAut(ZAdd(ZSum(F, k - 1), F[k]), g) = ZAdd(ZAut(ZSum(F, k - 1), g), ZAut(F[k], g))
    BY <2>3, AutAdds
  <2> QED
    BY <2>1, <2>2, <2>4
<1>5. PolyChain(p, H, n)
  BY <1>3, <1>4 DEF PolyChain
<1>6. p[n] = ZAut(f, g) /\ ZAut(f, g) \in ZPoly
  BY <1>0, AutExt
<1> HIDE DEF p
<1>7. p[n] = ZSum(H, n)
  BY <1>0, <1>2, <1>5, ZSumChain
<1> QED
  BY <1>0, <1>2, <1>6, <1>7 DEF Totals

\* s holds the residues of the n polynomials of F.
ResiduesOf(s, F, n, b) ==
    DOMAIN s = 1..n /\ \A p \in 1..n : s[p] = FromIntegers(F[p], b)

\* Residues of polynomials add up to the residues of their sum.
LEMMA FITotal ==
    ASSUME NEW b, Positive(b), NEW n, NEW F, NEW f, Totals(F, n, f),
           NEW s, ResiduesOf(s, F, n, b)
    PROVE  PolySum(s, b) = FromIntegers(f, b)
BY FISum DEF Totals, ResiduesOf

\* Sums of the holders' samples.
HolderErrors(n, c) == [p \in 1..n |-> HolderError(p, c)]
HolderTernaries(n, c) == [p \in 1..n |-> HolderTernary(p, c)]
HolderSmudges(n, c) == [p \in 1..n |-> HolderSmudge(p, c)]

\* What the holders sample adds up within their number times the bound.
LEMMA SampleTotals ==
    ASSUME NEW n \in Nat, NEW c \in Int
    PROVE  /\ Totals(HolderErrors(n, c), n, ZSum(HolderErrors(n, c), n))
           /\ Within(ZSum(HolderErrors(n, c), n), n * ErrorBound) /\ n * ErrorBound \in Nat
           /\ Totals(HolderTernaries(n, c), n, ZSum(HolderTernaries(n, c), n))
           /\ Within(ZSum(HolderTernaries(n, c), n), n)
           /\ Totals(HolderSmudges(n, c), n, ZSum(HolderSmudges(n, c), n))
           /\ Within(ZSum(HolderSmudges(n, c), n), n * SmudgeBound) /\ n * SmudgeBound \in Nat
           /\ \A p \in 1..n : /\ HolderErrors(n, c)[p] = HolderError(p, c)
                              /\ HolderTernaries(n, c)[p] = HolderTernary(p, c)
                              /\ HolderSmudges(n, c)[p] = HolderSmudge(p, c)
<1> DEFINE E == HolderErrors(n, c)  U == HolderTernaries(n, c)  M == HolderSmudges(n, c)
<1>1. ASSUME NEW p \in 1..n
      PROVE  /\ E[p] = HolderError(p, c) /\ U[p] = HolderTernary(p, c) /\ M[p] = HolderSmudge(p, c)
             /\ E[p] \in ZPoly /\ Within(E[p], ErrorBound)
             /\ U[p] \in ZPoly /\ Within(U[p], 1)
             /\ M[p] \in ZPoly /\ Within(M[p], SmudgeBound)
  <2>1. 3 * p + c \in Int /\ p + c \in Int
    OBVIOUS
  <2>2. E[p] = HolderError(p, c) /\ U[p] = HolderTernary(p, c) /\ M[p] = HolderSmudge(p, c)
    BY DEF HolderErrors, HolderTernaries, HolderSmudges
  <2> QED
    BY <2>1, <2>2, Samples DEF HolderError, HolderTernary, HolderSmudge
<1>2. Polys(E, n) /\ Polys(U, n) /\ Polys(M, n)
  BY <1>1 DEF Polys
<1>3. ErrorBound \in Nat /\ SmudgeBound \in Nat /\ 1 \in Nat
  BY Samples
<1> HIDE DEF E, U, M
<1>4. Within(ZSum(E, n), n * ErrorBound) /\ n * ErrorBound \in Nat /\ ZSum(E, n) \in ZPoly
  BY <1>1, <1>2, <1>3, ZSumBound, ZSumStep
<1>5. Within(ZSum(U, n), n * 1) /\ ZSum(U, n) \in ZPoly /\ n * 1 = n
  <2>1. Within(ZSum(U, n), n * 1)
    BY <1>1, <1>2, <1>3, ZSumBound
  <2> QED
    BY <2>1, <1>2, ZSumStep
<1>6. Within(ZSum(M, n), n * SmudgeBound) /\ n * SmudgeBound \in Nat /\ ZSum(M, n) \in ZPoly
  BY <1>1, <1>2, <1>3, ZSumBound, ZSumStep
<1>7. Totals(E, n, ZSum(E, n)) /\ Totals(U, n, ZSum(U, n)) /\ Totals(M, n, ZSum(M, n))
  BY <1>2, <1>4, <1>5, <1>6 DEF Totals
<1>8. Within(ZSum(U, n), n)
  BY <1>5
<1> QED
  BY <1>1, <1>4, <1>6, <1>7, <1>8 DEF E, U, M

\* The secrets of the holders add up to the secret.
LEMMA HolderTotal ==
    ASSUME NEW h, IsHolders(h)
    PROVE  Totals(h, Len(h), KeyPoly(h))
BY HolderFacts DEF Totals, KeyPoly

-----------------------------------------------------------------------------
(* Public keys and Galois keys of several holders                           *)

\* A sample times T.
LEMMA ScaledIs ==
    ASSUME NEW b, Positive(b), NEW e \in ZPoly
    PROVE  Scaled(e, T, b) = FromIntegers(ZScale(e, T), b) /\ ZScale(e, T) \in ZPoly
<1>1. T \in Int
  BY Samples
<1> QED
  BY <1>1, FIScale, PolyTypes DEF Scaled

\* Noise of a public key (k, a) with k + a S = T E0 times U, with errors on top.
MaskNoise(E0, U, E1, E2, S) == ZAdd(ZAdd(ZMul(U, E0), E1), ZMul(E2, S))

\* A pair that encrypts zero with the error E0.
ZeroPair(k, a, S, E0) ==
    /\ k \in ZPoly /\ a \in ZPoly /\ S \in ZPoly /\ E0 \in ZPoly
    /\ ZAdd(k, ZMul(a, S)) = ZScale(E0, T)

\* An encryption of 0 times U, with two more errors, is an encryption of 0.
LEMMA MaskedPair ==
    ASSUME NEW k, NEW a, NEW S, NEW E0, ZeroPair(k, a, S, E0),
           NEW U \in ZPoly, NEW E1 \in ZPoly, NEW E2 \in ZPoly
    PROVE  /\ ZAdd(ZAdd(ZMul(k, U), ZScale(E1, T)), ZMul(ZAdd(ZMul(a, U), ZScale(E2, T)), S))
                  = ZScale(MaskNoise(E0, U, E1, E2, S), T)
           /\ MaskNoise(E0, U, E1, E2, S) \in ZPoly
           /\ ZAdd(ZMul(k, U), ZScale(E1, T)) \in ZPoly
           /\ ZAdd(ZMul(a, U), ZScale(E2, T)) \in ZPoly
<1> DEFINE p == ZMul(k, U)  c == ZMul(a, S)  q == ZMul(c, U)  r == ZMul(U, E0)  v == ZMul(E2, S)
           d == ZMul(a, U)
<1>0. T \in Int /\ T \in Nat
  BY Samples
<1>a. /\ k \in ZPoly /\ a \in ZPoly /\ S \in ZPoly /\ E0 \in ZPoly
      /\ ZAdd(k, ZMul(a, S)) = ZScale(E0, T)
  BY DEF ZeroPair
<1> USE <1>a
<1>1. p \in ZPoly /\ c \in ZPoly /\ q \in ZPoly /\ r \in ZPoly /\ v \in ZPoly /\ d \in ZPoly
  BY MulType
<1>2. ZScale(E0, T) \in ZPoly /\ ZScale(E1, T) \in ZPoly /\ ZScale(E2, T) \in ZPoly
  BY <1>0, PolyTypes
<1>3. ZMul(d, S) = q
  <2>1. ZMul(ZMul(a, U), S) = ZMul(a, ZMul(U, S)) /\ ZMul(ZMul(a, S), U) = ZMul(a, ZMul(S, U))
    BY MulAssociates
  <2>2. ZMul(U, S) = ZMul(S, U)
    BY MulCommutes
  <2> QED
    BY <2>1, <2>2
<1>4. ZMul(ZScale(E2, T), S) = ZScale(v, T)
  BY <1>0, MulScales
<1>5. ZMul(ZAdd(d, ZScale(E2, T)), S) = ZAdd(q, ZScale(v, T))
  BY <1>1, <1>2, <1>3, <1>4, MulAdds
<1>6. ZAdd(p, q) = ZScale(r, T)
  <2>1. ZMul(ZAdd(k, c), U) = ZAdd(p, q)
    BY <1>1, MulAdds
  <2>2. ZMul(ZScale(E0, T), U) = ZScale(ZMul(E0, U), T)
    BY <1>0, MulScales
  <2>3. ZMul(E0, U) = r
    BY MulCommutes
  <2> QED
    BY <2>1, <2>2, <2>3
<1> HIDE DEF p, c, q, r, v, d
<1>7. ZAdd(ZAdd(p, ZScale(E1, T)), ZAdd(q, ZScale(v, T))) = ZScale(ZAdd(ZAdd(r, E1), v), T)
  <2>1. /\ ZAdd(ZAdd(p, ZScale(E1, T)), ZAdd(q, ZScale(v, T))) \in ZPoly
        /\ ZScale(ZAdd(ZAdd(r, E1), v), T) \in ZPoly
    BY <1>0, <1>1, <1>2, PolyTypes
  <2>2. ASSUME NEW i \in Coeffs
        PROVE  ZAdd(ZAdd(p, ZScale(E1, T)), ZAdd(q, ZScale(v, T)))[i]
                 = ZScale(ZAdd(ZAdd(r, E1), v), T)[i]
    <3> DEFINE pi == p[i]  qi == q[i]  ri == r[i]  vi == v[i]  ei == E1[i]
    <3>1. pi \in Int /\ qi \in Int /\ ri \in Int /\ vi \in Int /\ ei \in Int
      BY <1>1, PolyTypes
    <3>2. pi + qi = T * ri
      <4>1. ZAdd(p, q)[i] = ZScale(r, T)[i]
        BY <1>6
      <4> QED
        BY <4>1 DEF ZAdd, ZScale
    <3>3. ZAdd(ZAdd(p, ZScale(E1, T)), ZAdd(q, ZScale(v, T)))[i] = (pi + T * ei) + (qi + T * vi)
      BY DEF ZAdd, ZScale
    <3>4. ZScale(ZAdd(ZAdd(r, E1), v), T)[i] = T * ((ri + ei) + vi)
      BY DEF ZAdd, ZScale
    <3> HIDE DEF pi, qi, ri, vi, ei
    <3>5. (pi + T * ei) + (qi + T * vi) = T * ((ri + ei) + vi)
      BY <1>0, <3>1, <3>2
    <3> QED
      BY <3>3, <3>4, <3>5
  <2> QED
    BY <2>1, <2>2, SamePoly
<1>8. ZAdd(ZAdd(r, E1), v) \in ZPoly /\ ZAdd(r, E1) \in ZPoly /\ ZAdd(p, ZScale(E1, T)) \in ZPoly
      /\ ZAdd(d, ZScale(E2, T)) \in ZPoly
  BY <1>1, <1>2, PolyTypes
<1> QED
  BY <1>5, <1>7, <1>8 DEF MaskNoise, p, d, r, v

\* Parts of a masked pair's noise with bounds on them.
MaskBounds(E0, U, E1, E2, S, A, u, e1, e2, s) ==
    /\ E0 \in ZPoly /\ U \in ZPoly /\ E1 \in ZPoly /\ E2 \in ZPoly /\ S \in ZPoly
    /\ A \in Nat /\ u \in Nat /\ e1 \in Nat /\ e2 \in Nat /\ s \in Nat
    /\ Within(E0, A) /\ Within(U, u) /\ Within(E1, e1) /\ Within(E2, e2) /\ Within(S, s)

\* The bound on a masked pair's noise that the code's formulas add up.
LEMMA MaskNoiseBound ==
    ASSUME NEW E0, NEW U, NEW E1, NEW E2, NEW S, NEW A, NEW u, NEW e1, NEW e2, NEW s,
           MaskBounds(E0, U, E1, E2, S, A, u, e1, e2, s)
    PROVE  /\ Within(MaskNoise(E0, U, E1, E2, S),
                     RingProductBound(u, A) + e1 + RingProductBound(e2, s))
           /\ RingProductBound(u, A) + e1 + RingProductBound(e2, s) \in Nat
<1> DEFINE r == ZMul(U, E0)  v == ZMul(E2, S)
           f == RingProductBound(u, A)  g == RingProductBound(e2, s)
<1>0. /\ E0 \in ZPoly /\ U \in ZPoly /\ E1 \in ZPoly /\ E2 \in ZPoly /\ S \in ZPoly
      /\ A \in Nat /\ u \in Nat /\ e1 \in Nat /\ e2 \in Nat /\ s \in Nat
      /\ Within(E0, A) /\ Within(U, u) /\ Within(E1, e1) /\ Within(E2, e2) /\ Within(S, s)
  BY DEF MaskBounds
<1>1. r \in ZPoly /\ v \in ZPoly
  BY <1>0, MulType
<1>2. Within(r, f) /\ f \in Nat
  BY <1>0, MulBound DEF RingProductBound
<1>3. Within(v, g) /\ g \in Nat
  BY <1>0, MulBound DEF RingProductBound
<1> HIDE DEF f, g, r, v
<1>4. ZAdd(r, E1) \in ZPoly
  BY <1>0, <1>1, PolyTypes
<1>5. Within(ZAdd(r, E1), f + e1) /\ f + e1 \in Nat
  BY <1>0, <1>1, <1>2, WithinAdd
<1>6. Within(ZAdd(ZAdd(r, E1), v), (f + e1) + g) /\ (f + e1) + g \in Nat
  BY <1>0, <1>1, <1>3, <1>4, <1>5, WithinAdd
<1> QED
  BY <1>6 DEF f, g, r, v, MaskNoise

\* A masked pair on top of an encryption of K.
LEMMA RowFromParts ==
    ASSUME NEW b, NEW k \in ZPoly, NEW a \in ZPoly, NEW S \in ZPoly, NEW K \in ZPoly,
           NEW E \in ZPoly, NEW B, Within(E, B), ZAdd(k, ZMul(a, S)) = ZAdd(K, ZScale(E, T)),
           NEW pair, pair = <<FromIntegers(k, b), FromIntegers(a, b)>>
    PROVE  RowOf(pair, K, S, B, b)
BY DEF RowOf

-----------------------------------------------------------------------------
\* The keys several holders generate together.

CommonPoly(n) == Cyclic(RowMasks, n)

\* The sums of what the holders sample.
ErrorSum(n, c) == ZSum(HolderErrors(n, c), n)
TernarySum(n, c) == ZSum(HolderTernaries(n, c), n)
SmudgeSum(n, c) == ZSum(HolderSmudges(n, c), n)

\* A holder's secret.
LEMMA HolderSecretIs ==
    ASSUME NEW b, IsHolders(holders), NEW p \in Holders
    PROVE  HolderSecret(p, b) = FromIntegers(holders[p], b) /\ holders[p] \in ZPoly
           /\ Holders = 1..Len(holders) /\ p \in Int
BY HolderFacts DEF Holders, HolderSecret

\* aggregate_qp_public_key
LEMMA AggregatePublicParts ==
    ASSUME NEW b, Positive(b), IsHolders(holders)
    PROVE  LET n == Len(holders)
               S == KeyPoly(holders)
               k == ZSub(ZScale(ErrorSum(n, 0), T), ZMul(CommonPoly(0), S))
           IN  /\ AggregatePublicKey(T, b)
                     = <<FromIntegers(k, b), FromIntegers(CommonPoly(0), b)>>
               /\ k \in ZPoly /\ CommonPoly(0) \in ZPoly /\ ErrorSum(n, 0) \in ZPoly
               /\ ZAdd(k, ZMul(CommonPoly(0), S)) = ZScale(ErrorSum(n, 0), T)
               /\ Within(ErrorSum(n, 0), n * ErrorBound)
<1> DEFINE n == Len(holders)  S == KeyPoly(holders)  a == CommonPoly(0)  E == HolderErrors(n, 0)
           f == [p \in 1..n |-> ZScale(E[p], T)]  g == [p \in 1..n |-> ZMul(a, holders[p])]
           F == [p \in 1..n |-> ZSub(f[p], g[p])]
           e == ZScale(ErrorSum(n, 0), T)  m == ZMul(a, S)
<1>0. T \in Int /\ 0 \in Int
  BY Samples
<1>1. n \in Nat /\ Holders = 1..n /\ S \in ZPoly /\ Totals(holders, n, S)
      /\ \A p \in 1..n : holders[p] \in ZPoly /\ p \in Int
  BY HolderFacts, HolderTotal DEF Holders
<1>2. a \in ZPoly
  BY <1>0, Samples DEF CommonPoly
<1> HIDE DEF n, S, a
<1>3. /\ Totals(E, n, ErrorSum(n, 0)) /\ Within(ErrorSum(n, 0), n * ErrorBound)
      /\ \A p \in 1..n : E[p] = HolderError(p, 0)
  BY <1>0, <1>1, SampleTotals DEF ErrorSum
<1>4. \A p \in 1..n : E[p] \in ZPoly
  BY <1>3 DEF Totals, Polys
<1>5. ErrorSum(n, 0) \in ZPoly
  BY <1>3 DEF Totals
<1> HIDE DEF E
<1>6. Totals(f, n, e)
  <2>1. \A p \in 1..n : f[p] = ZScale(E[p], T)
    OBVIOUS
  <2> HIDE DEF f
  <2> QED
    BY <1>0, <1>3, <2>1, TotalScale
<1>7. Totals(g, n, m)
  <2>1. \A p \in 1..n : g[p] = ZMul(a, holders[p])
    OBVIOUS
  <2> HIDE DEF g
  <2> QED
    BY <1>1, <1>2, <2>1, TotalMul
<1>8. Totals(F, n, ZSub(e, m))
  <2>1. \A p \in 1..n : F[p] = ZSub(f[p], g[p])
    OBVIOUS
  <2> HIDE DEF F, f, g, e, m
  <2> QED
    BY <1>6, <1>7, <2>1, TotalSub
<1>9. ASSUME NEW p \in 1..n PROVE KeyContribution(p, T, b) = FromIntegers(F[p], b)
  <2>1. Scaled(HolderError(p, 0), T, b) = FromIntegers(ZScale(E[p], T), b) /\ ZScale(E[p], T) \in ZPoly
    BY <1>3, <1>4, ScaledIs
  <2>2. PolyMul(CommonElement(0, b), HolderSecret(p, b), b) = FromIntegers(ZMul(a, holders[p]), b)
        /\ ZMul(a, holders[p]) \in ZPoly
    BY <1>1, <1>2, FIMul, MulType DEF CommonElement, HolderSecret, a, CommonPoly
  <2> DEFINE u == ZScale(E[p], T)  w == ZMul(a, holders[p])
  <2>3. PolySub(FromIntegers(u, b), FromIntegers(w, b), b) = FromIntegers(ZSub(u, w), b)
    <3>1. u \in ZPoly /\ w \in ZPoly
      BY <2>1, <2>2
    <3> HIDE DEF u, w
    <3> QED
      BY <3>1, FISub
  <2>4. F[p] = ZSub(u, w)
    OBVIOUS
  <2> QED
    BY <2>1, <2>2, <2>3, <2>4 DEF KeyContribution
<1>10. SumOverHolders(LAMBDA p : KeyContribution(p, T, b), b) = FromIntegers(ZSub(e, m), b)
  <2> DEFINE s == [p \in Holders |-> KeyContribution(p, T, b)]
  <2>1. ResiduesOf(s, F, n, b)
    BY <1>1, <1>9 DEF ResiduesOf
  <2>2. PolySum(s, b) = FromIntegers(ZSub(e, m), b)
    <3> HIDE DEF s, F
    <3> QED
      BY <1>8, <2>1, FITotal
  <2> QED
    BY <2>2 DEF SumOverHolders
<1>11. AggregatePublicKey(T, b) = <<FromIntegers(ZSub(e, m), b), FromIntegers(a, b)>>
  BY <1>10 DEF AggregatePublicKey, CommonElement, a, CommonPoly
<1>12. e \in ZPoly /\ m \in ZPoly
  BY <1>6, <1>7 DEF Totals
<1>13. ZSub(e, m) \in ZPoly /\ ZAdd(ZSub(e, m), m) = e
  <2> HIDE DEF e, m
  <2> QED
    BY <1>12, PolyTypes, SubThenAdd
<1> QED
  BY <1>2, <1>3, <1>5, <1>11, <1>13 DEF n, S, a

\* The sum of masked shares.
LEMMA MaskTotal ==
    ASSUME NEW n, NEW k \in ZPoly, NEW U, NEW u, Totals(U, n, u), NEW E, NEW e, Totals(E, n, e),
           NEW F, \A p \in 1..n : F[p] = ZAdd(ZMul(k, U[p]), ZScale(E[p], T))
    PROVE  Totals(F, n, ZAdd(ZMul(k, u), ZScale(e, T)))
<1> DEFINE f == [p \in 1..n |-> ZMul(k, U[p])]  g == [p \in 1..n |-> ZScale(E[p], T)]
<1>0. T \in Int
  BY Samples
<1>1. Totals(f, n, ZMul(k, u))
  <2>1. \A p \in 1..n : f[p] = ZMul(k, U[p])
    OBVIOUS
  <2> HIDE DEF f
  <2> QED
    BY <2>1, TotalMul
<1>2. Totals(g, n, ZScale(e, T))
  <2>1. \A p \in 1..n : g[p] = ZScale(E[p], T)
    OBVIOUS
  <2> HIDE DEF g
  <2> QED
    BY <1>0, <2>1, TotalScale
<1>3. \A p \in 1..n : F[p] = ZAdd(f[p], g[p])
  OBVIOUS
<1> HIDE DEF f, g
<1> QED
  BY <1>1, <1>2, <1>3, TotalAdd

\* A masked key component: a product with the ternary and a scaled error.
LEMMA MaskIs ==
    ASSUME NEW b, Positive(b), NEW k \in ZPoly, NEW u \in ZPoly, NEW e \in ZPoly
    PROVE  /\ PolyAdd(PolyMul(FromIntegers(k, b), FromIntegers(u, b), b), Scaled(e, T, b), b)
                 = FromIntegers(ZAdd(ZMul(k, u), ZScale(e, T)), b)
           /\ PolyAdd(PolyMul(FromIntegers(u, b), FromIntegers(k, b), b), Scaled(e, T, b), b)
                 = FromIntegers(ZAdd(ZMul(k, u), ZScale(e, T)), b)
           /\ ZAdd(ZMul(k, u), ZScale(e, T)) \in ZPoly
<1> DEFINE f == ZMul(k, u)  g == ZScale(e, T)
<1>1. PolyMul(FromIntegers(k, b), FromIntegers(u, b), b) = FromIntegers(f, b) /\ f \in ZPoly
  BY FIMul, MulType
<1>2. Scaled(e, T, b) = FromIntegers(g, b) /\ g \in ZPoly
  BY ScaledIs
<1>3. PolyMul(FromIntegers(u, b), FromIntegers(k, b), b) = FromIntegers(f, b)
  BY FIMul, MulCommutes
<1> HIDE DEF f, g
<1>4. PolyAdd(FromIntegers(f, b), FromIntegers(g, b), b) = FromIntegers(ZAdd(f, g), b)
      /\ ZAdd(f, g) \in ZPoly
  BY <1>1, <1>2, FIAdd, PolyTypes
<1> QED
  BY <1>1, <1>2, <1>3, <1>4 DEF f, g

\* gkg_row_contributions, aggregated.
LEMMA CollectiveGaloisGood ==
    ASSUME NEW b, Positive(b), IsHolders(holders), NEW scaled, NEW row \in DOMAIN scaled, row \in Int,
           NEW K, NEW k, Totals(K, Len(holders), k),
           \A p \in Holders : scaled[row][p] = FromIntegers(K[p], b)
    PROVE  RowOf(CollectiveGaloisKey(scaled, T, b)[row], k, KeyPoly(holders),
                 Len(holders) * ErrorBound, b)
<1> DEFINE n == Len(holders)  S == KeyPoly(holders)  a == CommonPoly(row)
           E == HolderErrors(n, row)  Es == ErrorSum(n, row)
           f == [p \in 1..n |-> ZScale(E[p], T)]
           h == [p \in 1..n |-> ZAdd(K[p], f[p])]
           g == [p \in 1..n |-> ZMul(a, holders[p])]
           F == [p \in 1..n |-> ZSub(h[p], g[p])]
           e == ZScale(Es, T)  m == ZMul(a, S)  ke == ZAdd(k, e)
<1>0. T \in Int
  BY Samples
<1>1. n \in Nat /\ Holders = 1..n /\ S \in ZPoly /\ Totals(holders, n, S)
      /\ Totals(K, n, k) /\ \A p \in 1..n : scaled[row][p] = FromIntegers(K[p], b)
  BY HolderFacts, HolderTotal DEF Holders
<1>1a. \A p \in 1..n : holders[p] \in ZPoly /\ K[p] \in ZPoly
  BY <1>1 DEF Totals, Polys
<1>2. a \in ZPoly
  BY <1>0, Samples DEF CommonPoly
<1> HIDE DEF n, S, a
<1>3. /\ Totals(E, n, Es) /\ Within(Es, n * ErrorBound)
      /\ \A p \in 1..n : E[p] = HolderError(p, row)
  BY <1>0, <1>1, SampleTotals DEF ErrorSum
<1>4. \A p \in 1..n : E[p] \in ZPoly
  BY <1>3 DEF Totals, Polys
<1>5. Es \in ZPoly /\ k \in ZPoly
  BY <1>1, <1>3 DEF Totals
<1> HIDE DEF E, Es
<1>6. Totals(f, n, e)
  <2>1. \A p \in 1..n : f[p] = ZScale(E[p], T)
    OBVIOUS
  <2> HIDE DEF f
  <2> QED
    BY <1>0, <1>3, <2>1, TotalScale
<1>6a. Totals(h, n, ke)
  <2>1. \A p \in 1..n : h[p] = ZAdd(K[p], f[p])
    OBVIOUS
  <2> HIDE DEF h, f, e
  <2> QED
    BY <1>1, <1>6, <2>1, TotalAdd
<1>7. Totals(g, n, m)
  <2>1. \A p \in 1..n : g[p] = ZMul(a, holders[p])
    OBVIOUS
  <2> HIDE DEF g
  <2> QED
    BY <1>1, <1>2, <2>1, TotalMul
<1>8. Totals(F, n, ZSub(ke, m))
  <2>1. \A p \in 1..n : F[p] = ZSub(h[p], g[p])
    OBVIOUS
  <2> HIDE DEF F, h, g, ke, m
  <2> QED
    BY <1>6a, <1>7, <2>1, TotalSub
<1>9. ASSUME NEW p \in 1..n
      PROVE  GaloisContribution(p, row, scaled[row][p], T, b) = FromIntegers(F[p], b)
  <2> DEFINE u == ZScale(E[p], T)  w == ZMul(a, holders[p])  v == ZAdd(K[p], u)
  <2>1. Scaled(HolderError(p, row), T, b) = FromIntegers(u, b) /\ u \in ZPoly
    BY <1>3, <1>4, ScaledIs
  <2>2. PolyMul(CommonElement(row, b), HolderSecret(p, b), b) = FromIntegers(w, b)
        /\ w \in ZPoly
    BY <1>1a, <1>2, FIMul, MulType DEF CommonElement, HolderSecret, a, CommonPoly
  <2>3. F[p] = ZSub(v, w)
    OBVIOUS
  <2> HIDE DEF u, w
  <2>4. PolyAdd(scaled[row][p], FromIntegers(u, b), b) = FromIntegers(v, b) /\ v \in ZPoly
    <3> DEFINE kp == K[p]
    <3>1. kp \in ZPoly /\ scaled[row][p] = FromIntegers(kp, b) /\ v = ZAdd(kp, u)
      BY <1>1, <1>1a
    <3> HIDE DEF kp, v
    <3>2. PolyAdd(FromIntegers(kp, b), FromIntegers(u, b), b) = FromIntegers(ZAdd(kp, u), b)
      BY <2>1, <3>1, FIAdd
    <3>3. ZAdd(kp, u) \in ZPoly
      BY <2>1, <3>1, PolyTypes
    <3> QED
      BY <3>1, <3>2, <3>3
  <2> HIDE DEF v
  <2>5. PolySub(FromIntegers(v, b), FromIntegers(w, b), b) = FromIntegers(ZSub(v, w), b)
    BY <2>2, <2>4, FISub
  <2> QED
    BY <2>1, <2>2, <2>3, <2>4, <2>5 DEF GaloisContribution
<1>10. SumOverHolders(LAMBDA p : GaloisContribution(p, row, scaled[row][p], T, b), b)
          = FromIntegers(ZSub(ke, m), b)
  <2> DEFINE s == [p \in Holders |-> GaloisContribution(p, row, scaled[row][p], T, b)]
  <2>1. ResiduesOf(s, F, n, b)
    BY <1>1, <1>9 DEF ResiduesOf
  <2>2. PolySum(s, b) = FromIntegers(ZSub(ke, m), b)
    <3> HIDE DEF s, F, ke, m
    <3> QED
      BY <1>8, <2>1, FITotal
  <2> QED
    BY <2>2 DEF SumOverHolders
<1>11. CollectiveGaloisKey(scaled, T, b)[row]
          = <<FromIntegers(ZSub(ke, m), b), FromIntegers(a, b)>>
  BY <1>10 DEF CollectiveGaloisKey, CommonElement, a, CommonPoly
<1>12. e \in ZPoly /\ m \in ZPoly /\ ke \in ZPoly
  BY <1>6, <1>6a, <1>7 DEF Totals
<1>13. ZSub(ke, m) \in ZPoly /\ ZAdd(ZSub(ke, m), m) = ke
  <2> HIDE DEF ke, m
  <2> QED
    BY <1>12, PolyTypes, SubThenAdd
<1> DEFINE kk == ZSub(ke, m)
<1>14. kk \in ZPoly /\ ZAdd(kk, ZMul(a, S)) = ZAdd(k, ZScale(Es, T))
  BY <1>13
<1>15. CollectiveGaloisKey(scaled, T, b)[row] = <<FromIntegers(kk, b), FromIntegers(a, b)>>
  BY <1>11
<1> HIDE DEF kk
<1> QED
  BY <1>1, <1>2, <1>3, <1>5, <1>14, <1>15, RowFromParts DEF n, S

-----------------------------------------------------------------------------
(* Relinearization keys of several holders                                  *)

\* The shares of the two rounds, as sequences over the holders.
Round1Shares(s1, s2, row, scaled, pk, b) ==
    /\ DOMAIN s1 = Holders /\ DOMAIN s2 = Holders
    /\ \A p \in Holders :
          /\ s1[p] = Round1Contribution(p, row, scaled[row][p], pk, T, b)[1]
          /\ s2[p] = Round1Contribution(p, row, scaled[row][p], pk, T, b)[2]

\* The shares of the second round.
Round2Shares(s1, s2, row, h, pk, b) ==
    /\ DOMAIN s1 = Holders /\ DOMAIN s2 = Holders
    /\ \A p \in Holders :
          /\ s1[p] = Round2Contribution(p, row, h, pk, T, b)[1]
          /\ s2[p] = Round2Contribution(p, row, h, pk, T, b)[2]

\* The sum of the masks.
Masked(k, n, u, e) == ZAdd(ZMul(k, TernarySum(n, u)), ZScale(ErrorSum(n, e), T))

\* The sums of rkg_round1_row_contributions.
LEMMA Round1Sums ==
    ASSUME NEW b, Positive(b), IsHolders(holders), NEW k \in ZPoly, NEW a \in ZPoly,
           NEW pk, pk = <<FromIntegers(k, b), FromIntegers(a, b)>>, NEW row \in Int, NEW scaled,
           NEW K, NEW kw, Totals(K, Len(holders), kw),
           ResiduesOf(scaled[row], K, Len(holders), b),
           NEW s1, NEW s2, Round1Shares(s1, s2, row, scaled, pk, b)
    PROVE  /\ PolySum(s1, b) = FromIntegers(ZAdd(Masked(k, Len(holders), row, row), kw), b)
           /\ PolySum(s2, b) = FromIntegers(Masked(a, Len(holders), row, row + 1), b)
           /\ ZAdd(Masked(k, Len(holders), row, row), kw) \in ZPoly
           /\ Masked(a, Len(holders), row, row + 1) \in ZPoly
           /\ Masked(k, Len(holders), row, row) \in ZPoly
<1> DEFINE n == Len(holders)
           U == HolderTernaries(n, row)  E == HolderErrors(n, row)  D == HolderErrors(n, row + 1)
           f == [p \in 1..n |-> ZAdd(ZMul(k, U[p]), ZScale(E[p], T))]
           F == [p \in 1..n |-> ZAdd(f[p], K[p])]
           G == [p \in 1..n |-> ZAdd(ZMul(a, U[p]), ZScale(D[p], T))]
           m == Masked(k, n, row, row)
<1>0. row + 1 \in Int
  OBVIOUS
<1>1. n \in Nat /\ Holders = 1..n /\ Totals(K, n, kw)
      /\ \A p \in 1..n : scaled[row][p] = FromIntegers(K[p], b)
  BY HolderFacts DEF Holders, ResiduesOf
<1> HIDE DEF n
<1>2. /\ Totals(U, n, TernarySum(n, row)) /\ Totals(E, n, ErrorSum(n, row))
      /\ Totals(D, n, ErrorSum(n, row + 1))
      /\ \A p \in 1..n : /\ U[p] = HolderTernary(p, row) /\ E[p] = HolderError(p, row)
                         /\ D[p] = HolderError(p, row + 1)
  BY <1>0, <1>1, SampleTotals DEF ErrorSum, TernarySum
<1>3. \A p \in 1..n : U[p] \in ZPoly /\ E[p] \in ZPoly /\ D[p] \in ZPoly /\ K[p] \in ZPoly
  BY <1>1, <1>2 DEF Totals, Polys
<1> HIDE DEF U, E, D
<1>4. Totals(f, n, m)
  <2>1. \A p \in 1..n : f[p] = ZAdd(ZMul(k, U[p]), ZScale(E[p], T))
    OBVIOUS
  <2> HIDE DEF f
  <2> QED
    BY <1>2, <2>1, MaskTotal DEF Masked
<1>5. Totals(F, n, ZAdd(m, kw))
  <2>1. \A p \in 1..n : F[p] = ZAdd(f[p], K[p])
    OBVIOUS
  <2> HIDE DEF f, F, m
  <2> QED
    BY <1>1, <1>4, <2>1, TotalAdd
<1>6. Totals(G, n, Masked(a, n, row, row + 1))
  <2>1. \A p \in 1..n : G[p] = ZAdd(ZMul(a, U[p]), ZScale(D[p], T))
    OBVIOUS
  <2> HIDE DEF G
  <2> QED
    BY <1>2, <2>1, MaskTotal DEF Masked
<1>7. ASSUME NEW p \in 1..n
      PROVE  s1[p] = FromIntegers(F[p], b) /\ s2[p] = FromIntegers(G[p], b)
  <2> DEFINE u == FromIntegers(U[p], b)  v == f[p]
  <2> DEFINE U1 == U[p]  E1 == E[p]  D1 == D[p]
  <2>0. U1 \in ZPoly /\ E1 \in ZPoly /\ D1 \in ZPoly /\ v = ZAdd(ZMul(k, U1), ZScale(E1, T))
        /\ G[p] = ZAdd(ZMul(a, U1), ZScale(D1, T))
    BY <1>3
  <2>1. /\ PolyAdd(PolyMul(FromIntegers(k, b), u, b), Scaled(E[p], T, b), b) = FromIntegers(v, b)
        /\ v \in ZPoly
    <3> HIDE DEF v, U1, E1, D1
    <3>1. /\ PolyAdd(PolyMul(FromIntegers(k, b), FromIntegers(U1, b), b), Scaled(E1, T, b), b)
                 = FromIntegers(v, b)
          /\ v \in ZPoly
      BY <2>0, MaskIs
    <3> QED
      BY <3>1 DEF U1, E1
  <2>2. PolyAdd(PolyMul(FromIntegers(a, b), u, b), Scaled(D[p], T, b), b) = FromIntegers(G[p], b)
    <3> DEFINE w == G[p]
    <3> HIDE DEF U1, E1, D1, w
    <3>1. PolyAdd(PolyMul(FromIntegers(a, b), FromIntegers(U1, b), b), Scaled(D1, T, b), b)
             = FromIntegers(w, b)
      BY <2>0, MaskIs DEF w
    <3> QED
      BY <3>1 DEF U1, D1, w
  <2>3. F[p] = ZAdd(v, K[p])
    OBVIOUS
  <2>4. PolyAdd(FromIntegers(v, b), scaled[row][p], b) = FromIntegers(F[p], b)
    <3> HIDE DEF v, F
    <3> QED
      BY <1>1, <1>3, <2>1, <2>3, FIAdd
  <2>5. /\ s1[p] = PolyAdd(PolyAdd(PolyMul(FromIntegers(k, b), u, b), Scaled(E[p], T, b), b),
                           scaled[row][p], b)
        /\ s2[p] = PolyAdd(PolyMul(FromIntegers(a, b), u, b), Scaled(D[p], T, b), b)
    BY <1>1, <1>2 DEF Round1Shares, Round1Contribution
  <2> HIDE DEF u, v, F, G
  <2> QED
    BY <2>1, <2>2, <2>4, <2>5
<1>8. ResiduesOf(s1, F, n, b) /\ ResiduesOf(s2, G, n, b)
  BY <1>1, <1>7 DEF ResiduesOf, Round1Shares
<1> HIDE DEF F, G, m
<1>9. PolySum(s1, b) = FromIntegers(ZAdd(m, kw), b)
      /\ PolySum(s2, b) = FromIntegers(Masked(a, n, row, row + 1), b)
  BY <1>5, <1>6, <1>8, FITotal
<1>10. m \in ZPoly /\ ZAdd(m, kw) \in ZPoly /\ Masked(a, n, row, row + 1) \in ZPoly
  BY <1>4, <1>5, <1>6 DEF Totals
<1> QED
  BY <1>9, <1>10 DEF n, m

\* The sums of rkg_round2_row_contributions.
LEMMA Round2Sums ==
    ASSUME NEW b, Positive(b), IsHolders(holders), NEW k \in ZPoly, NEW a \in ZPoly,
           NEW pk, pk = <<FromIntegers(k, b), FromIntegers(a, b)>>, NEW row \in Int,
           NEW f1 \in ZPoly, NEW f2 \in ZPoly,
           NEW h, h = <<FromIntegers(f1, b), FromIntegers(f2, b)>>,
           NEW s1, NEW s2, Round2Shares(s1, s2, row, h, pk, b)
    PROVE  LET n == Len(holders)
               S == KeyPoly(holders)
           IN  /\ PolySum(s1, b) = FromIntegers(ZAdd(ZMul(S, f1), Masked(k, n, row + 1, row)), b)
               /\ PolySum(s2, b)
                     = FromIntegers(ZAdd(ZMul(S, f2), Masked(a, n, row + 1, row + 2)), b)
<1> DEFINE n == Len(holders)  S == KeyPoly(holders)
<1>0. row + 1 \in Int /\ row + 2 \in Int
  OBVIOUS
<1>1. n \in Nat /\ Holders = 1..n /\ Totals(holders, n, S)
      /\ \A p \in 1..n : holders[p] \in ZPoly
  BY HolderFacts, HolderTotal DEF Holders
<1> HIDE DEF n, S
<1>2. ASSUME NEW c \in ZPoly, NEW g \in ZPoly, NEW e \in Int, NEW s, DOMAIN s = 1..n,
             \A p \in 1..n :
                s[p] = PolyAdd(PolyMul(HolderSecret(p, b), FromIntegers(g, b), b),
                               PolyAdd(PolyMul(FromIntegers(c, b),
                                               FromIntegers(HolderTernary(p, row + 1), b), b),
                                       Scaled(HolderError(p, e), T, b), b), b)
      PROVE  PolySum(s, b) = FromIntegers(ZAdd(ZMul(S, g), Masked(c, n, row + 1, e)), b)
  <2> DEFINE U == HolderTernaries(n, row + 1)  E == HolderErrors(n, e)
             f == [p \in 1..n |-> ZAdd(ZMul(c, U[p]), ZScale(E[p], T))]
             d == [p \in 1..n |-> ZMul(holders[p], g)]
             F == [p \in 1..n |-> ZAdd(d[p], f[p])]
             m == Masked(c, n, row + 1, e)  t == ZMul(S, g)
  <2>1. /\ Totals(U, n, TernarySum(n, row + 1)) /\ Totals(E, n, ErrorSum(n, e))
        /\ \A p \in 1..n : U[p] = HolderTernary(p, row + 1) /\ E[p] = HolderError(p, e)
    BY <1>0, <1>1, SampleTotals DEF ErrorSum, TernarySum
  <2>2. \A p \in 1..n : U[p] \in ZPoly /\ E[p] \in ZPoly
    BY <2>1 DEF Totals, Polys
  <2> HIDE DEF U, E
  <2>3. Totals(f, n, m)
    <3>1. \A p \in 1..n : f[p] = ZAdd(ZMul(c, U[p]), ZScale(E[p], T))
      OBVIOUS
    <3> HIDE DEF f
    <3> QED
      BY <2>1, <3>1, MaskTotal DEF Masked
  <2>4. Totals(d, n, t)
    <3>1. \A p \in 1..n : d[p] = ZMul(holders[p], g)
      OBVIOUS
    <3> HIDE DEF d
    <3> QED
      BY <1>1, <3>1, TotalMul
  <2>5. Totals(F, n, ZAdd(t, m))
    <3>1. \A p \in 1..n : F[p] = ZAdd(d[p], f[p])
      OBVIOUS
    <3> HIDE DEF F, d, f, t, m
    <3> QED
      BY <2>3, <2>4, <3>1, TotalAdd
  <2>6. ASSUME NEW p \in 1..n PROVE s[p] = FromIntegers(F[p], b)
    <3> DEFINE v == ZAdd(ZMul(c, U[p]), ZScale(E[p], T))  w == ZMul(holders[p], g)
    <3>0. U[p] \in ZPoly /\ E[p] \in ZPoly
      BY <2>2
    <3>1. /\ PolyAdd(PolyMul(FromIntegers(c, b), FromIntegers(U[p], b), b), Scaled(E[p], T, b), b)
                = FromIntegers(v, b)
          /\ v \in ZPoly
      <4> DEFINE u == U[p]  e0 == E[p]
      <4>1. u \in ZPoly /\ e0 \in ZPoly
        BY <3>0
      <4>2. v = ZAdd(ZMul(c, u), ZScale(e0, T))
        OBVIOUS
      <4> HIDE DEF u, e0, v
      <4>3. /\ PolyAdd(PolyMul(FromIntegers(c, b), FromIntegers(u, b), b), Scaled(e0, T, b), b)
                  = FromIntegers(v, b)
            /\ v \in ZPoly
        BY <4>1, <4>2, MaskIs
      <4> QED
        BY <4>3 DEF u, e0
    <3>2. PolyMul(HolderSecret(p, b), FromIntegers(g, b), b) = FromIntegers(w, b) /\ w \in ZPoly
      BY <1>1, FIMul, MulType DEF HolderSecret
    <3>3. F[p] = ZAdd(w, v)
      OBVIOUS
    <3> HIDE DEF v, w, F
    <3>4. PolyAdd(FromIntegers(w, b), FromIntegers(v, b), b) = FromIntegers(F[p], b)
      BY <3>1, <3>2, <3>3, FIAdd
    <3>5. s[p] = PolyAdd(PolyMul(HolderSecret(p, b), FromIntegers(g, b), b),
                         PolyAdd(PolyMul(FromIntegers(c, b), FromIntegers(U[p], b), b),
                                 Scaled(E[p], T, b), b), b)
      BY <1>2, <2>1
    <3> QED
      BY <3>1, <3>2, <3>4, <3>5
  <2>7. ResiduesOf(s, F, n, b)
    BY <1>2, <2>6 DEF ResiduesOf
  <2>8. PolySum(s, b) = FromIntegers(ZAdd(t, m), b)
    <3> HIDE DEF F, t, m
    <3> QED
      BY <2>5, <2>7, FITotal
  <2> QED
    BY <2>8
<1>3. /\ DOMAIN s1 = 1..n /\ DOMAIN s2 = 1..n
      /\ \A p \in 1..n :
            s1[p] = PolyAdd(PolyMul(HolderSecret(p, b), FromIntegers(f1, b), b),
                            PolyAdd(PolyMul(FromIntegers(k, b),
                                            FromIntegers(HolderTernary(p, row + 1), b), b),
                                    Scaled(HolderError(p, row), T, b), b), b)
      /\ \A p \in 1..n :
            s2[p] = PolyAdd(PolyMul(HolderSecret(p, b), FromIntegers(f2, b), b),
                            PolyAdd(PolyMul(FromIntegers(a, b),
                                            FromIntegers(HolderTernary(p, row + 1), b), b),
                                    Scaled(HolderError(p, row + 2), T, b), b), b)
  BY <1>1 DEF Round2Shares, Round2Contribution
<1>4. PolySum(s1, b) = FromIntegers(ZAdd(ZMul(S, f1), Masked(k, n, row + 1, row)), b)
  BY <1>2, <1>3
<1>5. PolySum(s2, b) = FromIntegers(ZAdd(ZMul(S, f2), Masked(a, n, row + 1, row + 2)), b)
  BY <1>0, <1>2, <1>3
<1> QED
  BY <1>4, <1>5 DEF n, S

\* The phases of what the two rounds of a relinearization key add up to.
RoundPhases(S, h1, h2, m1, m2, kw, X1, X2) ==
    /\ S \in ZPoly /\ h1 \in ZPoly /\ h2 \in ZPoly /\ m1 \in ZPoly /\ m2 \in ZPoly
    /\ kw \in ZPoly /\ X1 \in ZPoly /\ X2 \in ZPoly
    /\ ZAdd(h1, ZMul(h2, S)) = ZAdd(kw, ZScale(X1, T))
    /\ ZAdd(m1, ZMul(m2, S)) = ZScale(X2, T)

\* The second round folds the secret into the first round's sum: the phase of
\* the result.
LEMMA FoldedPhase ==
    ASSUME NEW S, NEW h1, NEW h2, NEW m1, NEW m2, NEW kw, NEW X1, NEW X2,
           RoundPhases(S, h1, h2, m1, m2, kw, X1, X2)
    PROVE  /\ ZAdd(ZAdd(ZMul(S, h1), m1), ZMul(ZAdd(ZMul(S, h2), m2), S))
                  = ZAdd(ZMul(S, kw), ZScale(ZAdd(ZMul(S, X1), X2), T))
           /\ ZAdd(ZMul(S, h1), m1) \in ZPoly /\ ZAdd(ZMul(S, h2), m2) \in ZPoly
           /\ ZMul(S, kw) \in ZPoly /\ ZAdd(ZMul(S, X1), X2) \in ZPoly
<1>p. /\ S \in ZPoly /\ h1 \in ZPoly /\ h2 \in ZPoly /\ m1 \in ZPoly /\ m2 \in ZPoly
      /\ kw \in ZPoly /\ X1 \in ZPoly /\ X2 \in ZPoly
      /\ ZAdd(h1, ZMul(h2, S)) = ZAdd(kw, ZScale(X1, T))
      /\ ZAdd(m1, ZMul(m2, S)) = ZScale(X2, T)
  BY DEF RoundPhases
<1> USE <1>p
<1> DEFINE A == ZMul(S, h1)  B == ZMul(S, ZMul(h2, S))  C == ZMul(S, kw)  D == ZMul(S, X1)
           M == ZMul(m2, S)  H == ZMul(S, h2)
<1>0. T \in Int
  BY Samples
<1>1. /\ A \in ZPoly /\ B \in ZPoly /\ C \in ZPoly /\ D \in ZPoly /\ M \in ZPoly /\ H \in ZPoly
      /\ ZMul(h2, S) \in ZPoly /\ ZScale(X1, T) \in ZPoly
  BY <1>0, MulType, PolyTypes
<1>2. ZMul(ZAdd(H, m2), S) = ZAdd(B, M)
  <2>1. ZMul(ZAdd(H, m2), S) = ZAdd(ZMul(H, S), M)
    BY <1>1, MulAdds
  <2>2. ZMul(H, S) = B
    BY MulAssociates
  <2> QED
    BY <2>1, <2>2
<1>3. ZAdd(A, B) = ZAdd(C, ZScale(D, T))
  <2>1. ZMul(S, ZAdd(h1, ZMul(h2, S))) = ZAdd(A, B)
    BY <1>1, MulRight
  <2>2. ZMul(S, ZAdd(kw, ZScale(X1, T))) = ZAdd(C, ZMul(S, ZScale(X1, T)))
    BY <1>1, MulRight
  <2>3. ZMul(S, ZScale(X1, T)) = ZScale(D, T)
    BY <1>0, MulRight
  <2> QED
    BY <2>1, <2>2, <2>3
<1>4. ZAdd(A, m1) \in ZPoly /\ ZAdd(H, m2) \in ZPoly /\ ZAdd(D, X2) \in ZPoly
      /\ ZAdd(B, M) \in ZPoly
  BY <1>1, PolyTypes
<1> HIDE DEF A, B, C, D, M, H
<1>5. ZAdd(ZAdd(A, m1), ZAdd(B, M)) = ZAdd(C, ZScale(ZAdd(D, X2), T))
  <2> DEFINE L == ZAdd(ZAdd(A, m1), ZAdd(B, M))  R == ZAdd(C, ZScale(ZAdd(D, X2), T))
  <2>1. L \in ZPoly /\ R \in ZPoly
    BY <1>0, <1>1, <1>4, PolyTypes
  <2>2. ASSUME NEW i \in Coeffs PROVE L[i] = R[i]
    <3>1. A[i] + B[i] = C[i] + T * D[i]
      <4>1. ZAdd(A, B)[i] = ZAdd(C, ZScale(D, T))[i]
        BY <1>3
      <4> QED
        BY <4>1 DEF ZAdd, ZScale
    <3>2. m1[i] + M[i] = T * X2[i]
      <4>1. ZAdd(m1, M)[i] = ZScale(X2, T)[i]
        BY DEF M
      <4> QED
        BY <4>1 DEF ZAdd, ZScale
    <3>3. /\ A[i] \in Int /\ B[i] \in Int /\ C[i] \in Int /\ D[i] \in Int /\ M[i] \in Int
          /\ m1[i] \in Int /\ X2[i] \in Int
      BY <1>1 DEF ZPoly
    <3>4. L[i] = (A[i] + m1[i]) + (B[i] + M[i]) /\ R[i] = C[i] + T * (D[i] + X2[i])
      BY DEF ZAdd, ZScale
    <3>5. T * (D[i] + X2[i]) = T * D[i] + T * X2[i]
      BY <1>0, <3>3
    <3> HIDE DEF L, R
    <3>6. T * D[i] \in Int /\ T * X2[i] \in Int
      BY <1>0, <3>3
    <3> QED
      BY <3>1, <3>2, <3>3, <3>4, <3>5, <3>6
  <2> HIDE DEF L, R
  <2>3. L = R
    BY <2>1, <2>2, SamePoly
  <2> QED
    BY <2>3 DEF L, R
<1> QED
  BY <1>1, <1>2, <1>4, <1>5 DEF A, B, C, D, M, H

\* What the sums of a masked row encrypt.
LEMMA MaskedRow ==
    ASSUME NEW n \in Nat, NEW S \in ZPoly, Within(S, n), NEW k \in ZPoly, NEW a \in ZPoly,
           ZAdd(k, ZMul(a, S)) = ZScale(ErrorSum(n, 0), T),
           NEW u \in Int, NEW c \in Int, NEW d \in Int
    PROVE  LET X == MaskNoise(ErrorSum(n, 0), TernarySum(n, u), ErrorSum(n, c), ErrorSum(n, d), S)
               eb == n * ErrorBound
               B == RingProductBound(n, eb) + eb + RingProductBound(eb, n)
           IN  /\ ZAdd(Masked(k, n, u, c), ZMul(Masked(a, n, u, d), S)) = ZScale(X, T)
               /\ Masked(k, n, u, c) \in ZPoly /\ Masked(a, n, u, d) \in ZPoly
               /\ X \in ZPoly /\ Within(X, B) /\ B \in Nat
<1> DEFINE E0 == ErrorSum(n, 0)  U == TernarySum(n, u)  E1 == ErrorSum(n, c)  E2 == ErrorSum(n, d)
           eb == n * ErrorBound
<1>0. 0 \in Int
  OBVIOUS
<1>1. /\ E0 \in ZPoly /\ Within(E0, eb) /\ E1 \in ZPoly /\ Within(E1, eb)
      /\ E2 \in ZPoly /\ Within(E2, eb) /\ U \in ZPoly /\ Within(U, n) /\ eb \in Nat
  BY <1>0, SampleTotals DEF ErrorSum, TernarySum, Totals
<1>2. /\ Masked(k, n, u, c) = ZAdd(ZMul(k, U), ZScale(E1, T))
      /\ Masked(a, n, u, d) = ZAdd(ZMul(a, U), ZScale(E2, T))
  BY DEF Masked
<1>3. ZAdd(k, ZMul(a, S)) = ZScale(E0, T)
  OBVIOUS
<1> HIDE DEF E0, U, E1, E2, eb
<1>4. /\ ZAdd(ZAdd(ZMul(k, U), ZScale(E1, T)), ZMul(ZAdd(ZMul(a, U), ZScale(E2, T)), S))
             = ZScale(MaskNoise(E0, U, E1, E2, S), T)
      /\ MaskNoise(E0, U, E1, E2, S) \in ZPoly
      /\ ZAdd(ZMul(k, U), ZScale(E1, T)) \in ZPoly
      /\ ZAdd(ZMul(a, U), ZScale(E2, T)) \in ZPoly
  <2>1. ZeroPair(k, a, S, E0)
    BY <1>1, <1>3 DEF ZeroPair
  <2> QED
    BY <1>1, <2>1, MaskedPair
<1>5. /\ Within(MaskNoise(E0, U, E1, E2, S),
                 RingProductBound(n, eb) + eb + RingProductBound(eb, n))
      /\ RingProductBound(n, eb) + eb + RingProductBound(eb, n) \in Nat
  <2>1. MaskBounds(E0, U, E1, E2, S, eb, n, eb, eb, n)
    BY <1>1 DEF MaskBounds
  <2> QED
    BY <2>1, MaskNoiseBound
<1> QED
  BY <1>2, <1>4, <1>5 DEF E0, U, E1, E2, eb

\* The row of a collective relinearization key that the two rounds add up to.
LEMMA RelinRowGood ==
    ASSUME NEW b, Positive(b), IsHolders(holders), Len(holders) # 1,
           NEW k \in ZPoly, NEW a \in ZPoly,
           ZAdd(k, ZMul(a, KeyPoly(holders))) = ZScale(ErrorSum(Len(holders), 0), T),
           NEW row \in Int, NEW kw \in ZPoly,
           NEW pair,
           LET n == Len(holders)
               S == KeyPoly(holders)
               h1 == ZAdd(Masked(k, n, row, row), kw)
               h2 == Masked(a, n, row, row + 1)
           IN  pair = <<FromIntegers(ZAdd(ZMul(S, h1), Masked(k, n, row + 1, row)), b),
                        FromIntegers(ZAdd(ZMul(S, h2), Masked(a, n, row + 1, row + 2)), b)>>
    PROVE  RowOf(pair, ZMul(KeyPoly(holders), kw), KeyPoly(holders), RelinNoise(Len(holders)), b)
<1> DEFINE n == Len(holders)  S == KeyPoly(holders)
           m1 == Masked(k, n, row, row)  h2 == Masked(a, n, row, row + 1)
           h1 == ZAdd(m1, kw)
           g1 == Masked(k, n, row + 1, row)  g2 == Masked(a, n, row + 1, row + 2)
           E0 == ErrorSum(n, 0)
           X1 == MaskNoise(E0, TernarySum(n, row), ErrorSum(n, row), ErrorSum(n, row + 1), S)
           X2 == MaskNoise(E0, TernarySum(n, row + 1), ErrorSum(n, row), ErrorSum(n, row + 2), S)
           eb == n * ErrorBound
           B == RingProductBound(n, eb) + eb + RingProductBound(eb, n)
<1>1. n \in Nat /\ n # 1 /\ S \in ZPoly /\ Within(S, n)
  BY HolderFacts
<1>2. row + 1 \in Int /\ row + 2 \in Int /\ 0 \in Int /\ T \in Int
  BY Samples
<1>3. pair = <<FromIntegers(ZAdd(ZMul(S, h1), g1), b), FromIntegers(ZAdd(ZMul(S, h2), g2), b)>>
  OBVIOUS
<1>4. ZAdd(k, ZMul(a, S)) = ZScale(E0, T)
  OBVIOUS
<1> HIDE DEF n, S
<1>6. /\ ZAdd(m1, ZMul(h2, S)) = ZScale(X1, T)
      /\ X1 \in ZPoly /\ m1 \in ZPoly /\ h2 \in ZPoly /\ Within(X1, B) /\ B \in Nat
  BY <1>1, <1>2, <1>4, MaskedRow DEF eb
<1>7. /\ ZAdd(g1, ZMul(g2, S)) = ZScale(X2, T)
      /\ X2 \in ZPoly /\ g1 \in ZPoly /\ g2 \in ZPoly /\ Within(X2, B)
  BY <1>1, <1>2, <1>4, MaskedRow DEF eb
<1> HIDE DEF m1, h2, g1, g2, X1, X2, E0, B
<1>8. h1 \in ZPoly /\ ZAdd(h1, ZMul(h2, S)) = ZAdd(kw, ZScale(X1, T))
  <2>1. h1 \in ZPoly /\ ZMul(h2, S) \in ZPoly /\ ZScale(X1, T) \in ZPoly
    BY <1>1, <1>2, <1>6, MulType, PolyTypes
  <2>2. ZAdd(h1, ZMul(h2, S)) = ZAdd(ZAdd(m1, ZMul(h2, S)), kw)
    BY <1>6, <2>1, AddShuffle
  <2>3. ZAdd(ZScale(X1, T), kw) = ZAdd(kw, ZScale(X1, T))
    BY <2>1, AddAssoc
  <2> QED
    BY <1>6, <2>1, <2>2, <2>3
<1> HIDE DEF h1
<1> DEFINE X == ZAdd(ZMul(S, X1), X2)
<1>9. /\ ZAdd(ZAdd(ZMul(S, h1), g1), ZMul(ZAdd(ZMul(S, h2), g2), S))
             = ZAdd(ZMul(S, kw), ZScale(X, T))
      /\ ZAdd(ZMul(S, h1), g1) \in ZPoly /\ ZAdd(ZMul(S, h2), g2) \in ZPoly
      /\ ZMul(S, kw) \in ZPoly /\ X \in ZPoly
  <2>1. RoundPhases(S, h1, h2, g1, g2, kw, X1, X2)
    BY <1>1, <1>6, <1>7, <1>8 DEF RoundPhases
  <2> QED
    BY <2>1, FoldedPhase
<1>10. Within(X, RelinNoise(n))
  <2>1. ZMul(S, X1) \in ZPoly /\ Within(ZMul(S, X1), Degree * n * B) /\ Degree * n * B \in Nat
    BY <1>1, <1>6, MulBound, MulType
  <2>2. Within(X, Degree * n * B + B)
    BY <1>6, <1>7, <2>1, WithinAdd
  <2>3. RelinNoise(n) = Degree * n * B + B
    BY <1>1 DEF RelinNoise, RingProductBound, B, eb
  <2> QED
    BY <2>2, <2>3
<1> HIDE DEF X
<1> QED
  BY <1>1, <1>3, <1>9, <1>10, RowFromParts DEF n, S

\* What CollectiveKeyGen, GaloisKeyGen and RelinKeyGen hand out encrypts what
\* generate_keypair_real and the generate functions would, under the sum of the
\* holders' secrets.
LEMMA CollectiveRelinGood ==
    ASSUME NEW b, Positive(b), IsHolders(holders), Len(holders) # 1,
           NEW scaled, NEW row \in DOMAIN scaled, row \in Int,
           NEW K, NEW kw, Totals(K, Len(holders), kw),
           ResiduesOf(scaled[row], K, Len(holders), b)
    PROVE  RowOf(CollectiveRelinKey(scaled, AggregatePublicKey(T, b), T, b)[row],
                 ZMul(KeyPoly(holders), kw), KeyPoly(holders), RelinNoise(Len(holders)), b)
<1> DEFINE n == Len(holders)  S == KeyPoly(holders)  a == CommonPoly(0)
           k == ZSub(ZScale(ErrorSum(n, 0), T), ZMul(a, S))
           pk == AggregatePublicKey(T, b)
           s1 == [p \in Holders |-> Round1Contribution(p, row, scaled[row][p], pk, T, b)[1]]
           s2 == [p \in Holders |-> Round1Contribution(p, row, scaled[row][p], pk, T, b)[2]]
           h == SumOfPairs(LAMBDA p : Round1Contribution(p, row, scaled[row][p], pk, T, b), b)
           r1 == [p \in Holders |-> Round2Contribution(p, row, h, pk, T, b)[1]]
           r2 == [p \in Holders |-> Round2Contribution(p, row, h, pk, T, b)[2]]
           f1 == ZAdd(Masked(k, n, row, row), kw)
           f2 == Masked(a, n, row, row + 1)
           g1 == ZAdd(ZMul(S, f1), Masked(k, n, row + 1, row))
           g2 == ZAdd(ZMul(S, f2), Masked(a, n, row + 1, row + 2))
<1>1. /\ pk = <<FromIntegers(k, b), FromIntegers(a, b)>> /\ k \in ZPoly /\ a \in ZPoly
      /\ ZAdd(k, ZMul(a, S)) = ZScale(ErrorSum(n, 0), T)
  BY AggregatePublicParts
<1>2. Totals(K, n, kw) /\ ResiduesOf(scaled[row], K, n, b) /\ kw \in ZPoly
  BY DEF Totals
<1>3. h = <<PolySum(s1, b), PolySum(s2, b)>>
  BY DEF SumOfPairs, SumOverHolders
<1>4. Round1Shares(s1, s2, row, scaled, pk, b)
  BY DEF Round1Shares
<1>5. /\ PolySum(s1, b) = FromIntegers(f1, b) /\ PolySum(s2, b) = FromIntegers(f2, b)
      /\ f1 \in ZPoly /\ f2 \in ZPoly
  <2> HIDE DEF s1, s2, k, a, pk
  <2> QED
    BY <1>1, <1>2, <1>4, Round1Sums
<1>6. h = <<FromIntegers(f1, b), FromIntegers(f2, b)>>
  <2> HIDE DEF h, s1, s2, f1, f2
  <2> QED
    BY <1>3, <1>5
<1>7. CollectiveRelinKey(scaled, pk, T, b)[row] = <<PolySum(r1, b), PolySum(r2, b)>>
  BY DEF CollectiveRelinKey, SumOfPairs, SumOverHolders
<1>8. Round2Shares(r1, r2, row, h, pk, b)
  <2> HIDE DEF h, pk
  <2> QED
    BY DEF Round2Shares
<1>9. PolySum(r1, b) = FromIntegers(g1, b) /\ PolySum(r2, b) = FromIntegers(g2, b)
  <2> HIDE DEF h, pk, r1, r2, f1, f2, k, a
  <2> QED
    BY <1>1, <1>5, <1>6, <1>8, Round2Sums
<1>10. CollectiveRelinKey(scaled, pk, T, b)[row] = <<FromIntegers(g1, b), FromIntegers(g2, b)>>
  <2> HIDE DEF h, pk, r1, r2, g1, g2
  <2> QED
    BY <1>7, <1>9
<1> DEFINE pair == CollectiveRelinKey(scaled, pk, T, b)[row]
<1>11. RowOf(pair, ZMul(KeyPoly(holders), kw), KeyPoly(holders), RelinNoise(Len(holders)), b)
  <2>1. pair = <<FromIntegers(g1, b), FromIntegers(g2, b)>>
    BY <1>10
  <2> HIDE DEF pair, k, a
  <2> QED
    BY <1>1, <1>2, <2>1, RelinRowGood
<1> QED
  BY <1>11

\* The keys that several holders generate together are good.
LEMMA CollectiveKeysGood ==
    ASSUME NEW b, IsBasis(b), IsHolders(holders), Len(holders) # 1
    PROVE  GoodKeys(CollectiveKeys(b), holders, b)
<1> DEFINE n == Len(holders)  S == KeyPoly(holders)
           rot == [row \in Rows(b) |-> [p \in Holders |->
                      ScaleForRow(Automorphism(HolderSecret(p, b), Element, b), row, b)]]
           own == [row \in Rows(b) |-> [p \in Holders |-> ScaleForRow(HolderSecret(p, b), row, b)]]
<1>1. /\ Positive(b) /\ n \in Nat /\ S \in ZPoly /\ Holders = 1..n /\ Totals(holders, n, S)
      /\ \A p \in 1..n : holders[p] \in ZPoly
  BY HolderFacts, HolderTotal, BasisPositive DEF Holders
<1>2. T \in Int /\ Element \in Int /\ Element % 2 = 1
  BY Samples
<1>3. /\ CollectiveKeys(b).public = AggregatePublicKey(T, b)
      /\ CollectiveKeys(b).relin = CollectiveRelinKey(own, AggregatePublicKey(T, b), T, b)
      /\ CollectiveKeys(b).galois = CollectiveGaloisKey(rot, T, b)
  BY DEF CollectiveKeys, CollectivePublicKey, CollectiveRelinearizationKey, CollectiveRotationKey
<1>4. RowOf(AggregatePublicKey(T, b), ZZero, S, n * ErrorBound, b)
  <2> DEFINE a == CommonPoly(0)  E == ErrorSum(n, 0)  k == ZSub(ZScale(E, T), ZMul(a, S))
  <2>1. /\ AggregatePublicKey(T, b) = <<FromIntegers(k, b), FromIntegers(a, b)>>
        /\ k \in ZPoly /\ a \in ZPoly /\ E \in ZPoly
        /\ ZAdd(k, ZMul(a, S)) = ZScale(E, T) /\ Within(E, n * ErrorBound)
    BY <1>1, AggregatePublicParts
  <2> HIDE DEF a, E, k
  <2>2. ZZero \in ZPoly /\ ZScale(E, T) \in ZPoly
    BY <1>2, <2>1, PolyTypes
  <2>3. ZAdd(ZZero, ZScale(E, T)) = ZScale(E, T)
    BY <2>1, <2>2, SubThenAdd
  <2> QED
    BY <1>1, <2>1, <2>2, <2>3, RowFromParts
<1>5. ASSUME NEW row \in Rows(b)
      PROVE  /\ RowOf(CollectiveRelinKey(own, AggregatePublicKey(T, b), T, b)[row],
                      ZScale(ZMul(S, S), RowWeight(b, row)), S, RelinNoise(n), b)
             /\ RowOf(CollectiveGaloisKey(rot, T, b)[row],
                      ZScale(ZAut(S, Element), RowWeight(b, row)), S, n * ErrorBound, b)
  <2> DEFINE W == RowWeight(b, row)
             K == [p \in 1..n |-> ZScale(holders[p], W)]
             A == [p \in 1..n |-> ZAut(holders[p], Element)]
             R == [p \in 1..n |-> ZScale(A[p], W)]
             kw == ZScale(S, W)  rw == ZScale(ZAut(S, Element), W)
  <2>1. W \in Int /\ row \in Int /\ row \in DOMAIN own /\ row \in DOMAIN rot
    BY RowFacts
  <2>2. Totals(K, n, kw)
    <3>1. \A p \in 1..n : K[p] = ZScale(holders[p], W)
      OBVIOUS
    <3> HIDE DEF K, W
    <3> QED
      BY <1>1, <2>1, <3>1, TotalScale
  <2>3. Totals(A, n, ZAut(S, Element))
    <3>1. \A p \in 1..n : A[p] = ZAut(holders[p], Element)
      OBVIOUS
    <3> HIDE DEF A
    <3> QED
      BY <1>1, <1>2, <3>1, TotalAut
  <2>4. Totals(R, n, rw)
    <3>1. \A p \in 1..n : R[p] = ZScale(A[p], W)
      OBVIOUS
    <3> HIDE DEF R, A, W
    <3> QED
      BY <2>1, <2>3, <3>1, TotalScale
  <2>5. ASSUME NEW p \in 1..n
        PROVE  own[row][p] = FromIntegers(K[p], b) /\ rot[row][p] = FromIntegers(R[p], b)
    <3> DEFINE s == holders[p]  z == ZAut(s, Element)
    <3>1. HolderSecret(p, b) = FromIntegers(s, b) /\ s \in ZPoly
      BY <1>1 DEF HolderSecret
    <3>2. own[row][p] = ScaleForRow(FromIntegers(s, b), row, b)
      BY <1>1, <3>1
    <3>3. rot[row][p] = ScaleForRow(Automorphism(FromIntegers(s, b), Element, b), row, b)
      BY <1>1, <3>1
    <3>4. K[p] = ZScale(s, W) /\ R[p] = ZScale(z, W)
      OBVIOUS
    <3> HIDE DEF s, K, R, own, rot
    <3>5. Automorphism(FromIntegers(s, b), Element, b) = FromIntegers(z, b) /\ z \in ZPoly
      BY <1>1, <1>2, <3>1, FIAut, AutExt
    <3> HIDE DEF z
    <3> QED
      BY <3>1, <3>2, <3>3, <3>4, <3>5, FIScaleForRow
  <2>6. ResiduesOf(own[row], K, n, b) /\ DOMAIN rot[row] = 1..n
    <3>1. DOMAIN own[row] = 1..n /\ DOMAIN rot[row] = 1..n
      BY <1>1
    <3> HIDE DEF own, K
    <3> QED
      BY <2>5, <3>1 DEF ResiduesOf
  <2>7. RowOf(CollectiveRelinKey(own, AggregatePublicKey(T, b), T, b)[row],
              ZMul(S, kw), S, RelinNoise(n), b)
    <3> HIDE DEF own, K, kw
    <3> QED
      BY <1>1, <2>1, <2>2, <2>6, CollectiveRelinGood
  <2>8. ZMul(S, kw) = ZScale(ZMul(S, S), W)
    <3> HIDE DEF W, S
    <3> QED
      BY <1>1, <2>1, MulRight
  <2>9. RowOf(CollectiveGaloisKey(rot, T, b)[row], rw, S, n * ErrorBound, b)
    <3>1. \A p \in Holders : rot[row][p] = FromIntegers(R[p], b)
      BY <1>1, <2>5
    <3> HIDE DEF rot, R, rw
    <3> QED
      BY <1>1, <2>1, <2>4, <3>1, CollectiveGaloisGood
  <2> QED
    BY <2>7, <2>8, <2>9
<1> HIDE DEF own, rot
<1> QED
  BY <1>3, <1>4, <1>5 DEF GoodKeys

=============================================================================
