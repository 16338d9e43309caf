------------------------------ MODULE BgvProofs ------------------------------
(***************************************************************************)
(* What the BGV scheme and its collective protocols keep, for every chain  *)
(* of primes, plaintext prime, set of holders and sample: every ciphertext *)
(* decrypts to its message plus T times a noise within the bound it        *)
(* carries.                                                                *)
(***************************************************************************)
EXTENDS BgvKeyProofs

-----------------------------------------------------------------------------
(* Ciphertexts that encrypt their message                                   *)

\* What the moduli after the first have to be for a switch to keep the message.
Aligned == \A i \in 2..Len(Moduli) : Moduli[i] % T = 1

\* Integer polynomials under the components of a ciphertext, and the e of
\* c0 + c1 s + ... = m + T e.
Encrypts(C, e, ct, S, b) ==
    /\ Lifts(C, ct.parts, b) /\ Len(ct.parts) >= 2 /\ e \in ZPoly
    /\ ct.valid /\ Aligned =>
          /\ ZPhase(C, Len(ct.parts), S) = ZAdd(ct.plain, ZScale(e, T))
          /\ Within(e, ct.noise)

\* What the ghosts of a ciphertext say of it: it holds the residues of
\* integer polynomials whose phase is the message plus T times an e within
\* the noise it carries, as long as no operation has overrun the budget.
GoodCt(ct, S, b) ==
    /\ ct.plain \in [Coeffs -> 0..(T - 1)] /\ ct.noise \in Nat /\ ct.valid \in BOOLEAN
    /\ \E C, e : Encrypts(C, e, ct, S, b)

\* Ciphertexts of two components.
LEMMA PairLifts ==
    ASSUME NEW b, NEW f \in ZPoly, NEW g \in ZPoly, NEW S \in ZPoly,
           NEW p, p = <<FromIntegers(f, b), FromIntegers(g, b)>>
    PROVE  /\ Lifts(<<f, g>>, p, b) /\ Len(p) = 2
           /\ ZPhase(<<f, g>>, 2, S) = ZAdd(f, ZMul(g, S))
<1> DEFINE C == <<f, g>>
<1>1. Len(p) = 2 /\ p \in Seq(Range(p)) /\ C[1] = f /\ C[2] = g
  BY DEF Range
<1>2. Polys(C, 2) /\ 2 \in Nat
  <2>1. \A r \in 1..2 : r = 1 \/ r = 2
    OBVIOUS
  <2> QED
    BY <1>1, <2>1 DEF Polys
<1>3. p[1] = FromIntegers(C[1], b) /\ p[2] = FromIntegers(C[2], b)
  OBVIOUS
<1> HIDE DEF C
<1>4. Lifts(C, p, b)
  <2>1. \A c \in 1..2 : c = 1 \/ c = 2
    OBVIOUS
  <2> QED
    BY <1>1, <1>2, <1>3, <2>1 DEF Lifts
<1>5. ZPhase(C, 2, S) = ZAdd(C[1], ZMul(C[2], S))
  BY <1>2, ZPhaseShort
<1> QED
  BY <1>1, <1>4, <1>5 DEF C

\* Integers under a ciphertext can be chosen to have a phase that is known
\* modulo the basis.
LEMMA Adjust ==
    ASSUME NEW b, Positive(b), NEW S \in ZPoly, NEW C, NEW p, Lifts(C, p, b),
           NEW R \in ZPoly, FromIntegers(ZPhase(C, Len(p), S), b) = FromIntegers(R, b)
    PROVE  \E D : Lifts(D, p, b) /\ ZPhase(D, Len(p), S) = R
<1> DEFINE n == Len(p)  Z == ZPhase(C, n, S)  u == ZSub(R, Z)
           D == [c \in 1..n |-> IF c = 1 THEN ZAdd(C[1], u) ELSE C[c]]
<1>1. n \in Nat /\ n >= 1 /\ Polys(C, n) /\ p \in Seq(Range(p)) /\ C[1] \in ZPoly
      /\ \A c \in 1..n : p[c] = FromIntegers(C[c], b) /\ C[c] \in ZPoly
  BY DEF Lifts, Polys
<1> HIDE DEF n
<1>2. Z \in ZPoly
  BY <1>1, ZPhaseFacts
<1>2a. FromIntegers(Z, b) = FromIntegers(R, b)
  BY DEF n
<1> HIDE DEF Z
<1>3. u \in ZPoly
  BY <1>2, PolyTypes
<1>4. D[1] = ZAdd(C[1], u) /\ \A c \in 2..n : D[c] = C[c]
  BY <1>1
<1>5. FromIntegers(ZAdd(C[1], u), b) = FromIntegers(C[1], b)
  <2>1. \A i \in Coeffs : \A j \in DOMAIN b : Cong(Z[i], R[i], b[j])
    BY <1>2, <1>2a, FISame
  <2>2. ASSUME NEW i \in Coeffs, NEW j \in DOMAIN b PROVE Cong(ZAdd(C[1], u)[i], C[1][i], b[j])
    <3>1. Cong(R[i], Z[i], b[j]) /\ b[j] \in Int /\ R[i] \in Int /\ Z[i] \in Int
          /\ C[1][i] \in Int
      BY <1>1, <1>2, <2>1, CongSym, PositiveDomain DEF ZPoly
    <3>2. ZAdd(C[1], u)[i] = C[1][i] + (R[i] - Z[i])
      BY DEF ZAdd, ZSub
    <3>3. PICK k \in Int : R[i] = Z[i] + k * b[j]
      BY <3>1 DEF Cong
    <3>4. ZAdd(C[1], u)[i] = C[1][i] + k * b[j]
      BY <3>1, <3>2, <3>3
    <3> QED
      BY <3>4 DEF Cong
  <2> HIDE DEF u
  <2>3. ZAdd(C[1], u) \in ZPoly
    BY <1>1, <1>3, PolyTypes
  <2> QED
    BY <1>1, <2>2, <2>3, FISame
<1> HIDE DEF u, D
<1>6. Polys(D, n) /\ ZPhase(D, n, S) = ZAdd(Z, u)
  BY <1>1, <1>3, <1>4, ZPhaseShift DEF Z
<1>7. ZAdd(Z, u) = R
  BY <1>2, AddShuffle DEF u
<1>8. Lifts(D, p, b)
  <2>1. ASSUME NEW c \in 1..n PROVE p[c] = FromIntegers(D[c], b)
    <3>1. CASE c = 1
      BY <1>1, <1>4, <1>5, <3>1
    <3>2. CASE c # 1
      <4>1. c \in 2..n
        BY <1>1, <3>2
      <4> QED
        BY <1>1, <1>4, <4>1
    <3> QED
      BY <3>1, <3>2
  <2> QED
    BY <1>1, <1>6, <2>1 DEF Lifts, n
<1> QED
  BY <1>6, <1>7, <1>8 DEF n

\* What a coefficient carries over when a plaintext is reduced modulo T again.
ZMod(f) == [i \in Coeffs |-> f[i] % T]

\* The quotients by T.
ZDiv(f) == [i \in Coeffs |-> f[i] \div T]

\* A polynomial is its residues modulo T plus T times its quotients.
LEMMA Carry ==
    ASSUME NEW f \in ZPoly
    PROVE  /\ ZMod(f) \in [Coeffs -> 0..(T - 1)] /\ ZMod(f) \in ZPoly /\ ZDiv(f) \in ZPoly
           /\ f = ZAdd(ZMod(f), ZScale(ZDiv(f), T))
           /\ \A K \in Nat : (\A i \in Coeffs : -(T * K) <= f[i] /\ f[i] < T * (K + 1))
                                => Within(ZDiv(f), K)
<1>0. T \in Nat /\ T > 0 /\ T \in Int
  BY Samples
<1>1. \A i \in Coeffs : /\ f[i] \in Int /\ f[i] % T \in 0..(T - 1) /\ f[i] \div T \in Int
                        /\ f[i] = (f[i] \div T) * T + (f[i] % T)
  BY <1>0, Quotient DEF ZPoly
<1>2. ZMod(f) \in [Coeffs -> 0..(T - 1)] /\ ZMod(f) \in ZPoly /\ ZDiv(f) \in ZPoly
  BY <1>0, <1>1 DEF ZMod, ZDiv, ZPoly
<1>3. f = ZAdd(ZMod(f), ZScale(ZDiv(f), T))
  <2>1. ZAdd(ZMod(f), ZScale(ZDiv(f), T)) \in ZPoly
    BY <1>0, <1>2, PolyTypes
  <2>2. ASSUME NEW i \in Coeffs PROVE f[i] = ZAdd(ZMod(f), ZScale(ZDiv(f), T))[i]
    <3>1. ZAdd(ZMod(f), ZScale(ZDiv(f), T))[i] = (f[i] % T) + T * (f[i] \div T)
      BY DEF ZAdd, ZScale, ZMod, ZDiv
    <3> DEFINE d == f[i] \div T  r == f[i] % T
    <3>2. d \in Int /\ r \in Int /\ f[i] = d * T + r
      BY <1>0, <1>1
    <3> HIDE DEF d, r
    <3>3. f[i] = r + T * d
      BY <1>0, <3>2
    <3> QED
      BY <3>1, <3>3 DEF d, r
  <2> QED
    BY <2>1, <2>2, SamePoly
<1>4. ASSUME NEW K \in Nat, \A i \in Coeffs : -(T * K) <= f[i] /\ f[i] < T * (K + 1)
      PROVE  Within(ZDiv(f), K)
  <2>1. ASSUME NEW i \in Coeffs PROVE -K <= f[i] \div T /\ f[i] \div T <= K
    <3> DEFINE d == f[i] \div T  r == f[i] % T
    <3>1. d \in Int /\ r \in 0..(T - 1) /\ f[i] = d * T + r
      BY <1>0, <1>1
    <3>2. -(T * K) <= d * T + r /\ d * T + r < T * (K + 1)
      BY <1>4, <3>1
    <3> HIDE DEF d, r
    <3>3. d <= K
      <4>1. CASE d > K
        <5>1. (d - (K + 1)) * T >= 0
          BY <1>0, <3>1, <4>1
        <5> QED
          BY <1>0, <3>1, <3>2, <5>1
      <4> QED
        BY <3>1, <4>1
    <3>4. -K <= d
      <4>1. CASE d < -K
        <5>1. (-K - 1 - d) * T >= 0
          BY <1>0, <3>1, <4>1
        <5> QED
          BY <1>0, <3>1, <3>2, <5>1
      <4> QED
        BY <3>1, <4>1
    <3> QED
      BY <3>3, <3>4 DEF d
  <2> QED
    BY <2>1 DEF Within, ZDiv
<1> QED
  BY <1>2, <1>3, <1>4

-----------------------------------------------------------------------------
(* Encryption                                                               *)

\* A message is a polynomial of residues modulo T.
LEMMA MessagePoly ==
    ASSUME NEW m \in [Coeffs -> 0..(T - 1)]
    PROVE  m \in ZPoly /\ \A i \in Coeffs : m[i] \in Int /\ 0 <= m[i] /\ m[i] <= T - 1 /\ m[i] % T = m[i]
<1>1. T \in Nat /\ T > 0
  BY Samples
<1>2. \A i \in Coeffs : m[i] \in 0..(T - 1)
  OBVIOUS
<1>3. \A i \in Coeffs : m[i] \in Int /\ 0 <= m[i] /\ m[i] <= T - 1
  BY <1>1, <1>2
<1>4. ASSUME NEW i \in Coeffs PROVE m[i] % T = m[i]
  <2> DEFINE v == m[i]
  <2>1. v \in 0..(T - 1)
    BY <1>2
  <2> HIDE DEF v
  <2>2. v % T = v
    BY <1>1, <2>1
  <2> QED
    BY <2>2 DEF v
<1>5. m \in ZPoly
  BY <1>3 DEF ZPoly
<1> QED
  BY <1>4, <1>5

\* encode_u64
LEMMA EncodeIs ==
    ASSUME NEW m \in [Coeffs -> 0..(T - 1)]
    PROVE  Encode(m) = FromIntegers(m, basis)
<1>1. [i \in Coeffs |-> m[i] % T] = m
  BY MessagePoly
<1> QED
  BY <1>1 DEF Encode, Poly

\* A message on top of an encryption of zero.
LEMMA PlainOnPair ==
    ASSUME NEW b, Positive(b), NEW S \in ZPoly, NEW f \in ZPoly, NEW g \in ZPoly, NEW E \in ZPoly,
           ZAdd(f, ZMul(g, S)) = ZScale(E, T),
           NEW N \in Nat, Within(E, N), NEW m \in [Coeffs -> 0..(T - 1)],
           NEW ct, ct.plain = m, ct.noise = N, ct.valid \in BOOLEAN,
           ct.parts = CtAddPlain(<<FromIntegers(f, b), FromIntegers(g, b)>>, FromIntegers(m, b), b)
    PROVE  GoodCt(ct, S, b)
<1> DEFINE h == ZAdd(f, m)  C == <<h, g>>
<1>1. m \in ZPoly /\ h \in ZPoly /\ ZMul(g, S) \in ZPoly
  BY MessagePoly, PolyTypes, MulType
<1>2. ct.parts = <<FromIntegers(h, b), FromIntegers(g, b)>>
  <2>1. PolyAdd(FromIntegers(f, b), FromIntegers(m, b), b) = FromIntegers(h, b)
    BY <1>1, FIAdd
  <2> HIDE DEF h
  <2> QED
    BY <2>1 DEF CtAddPlain
<1>4. ZAdd(h, ZMul(g, S)) = ZAdd(m, ZScale(E, T))
  <2> DEFINE v == ZMul(g, S)
  <2>1. ZAdd(ZAdd(f, m), v) = ZAdd(ZAdd(f, v), m)
    BY <1>1, AddShuffle
  <2>2. ZAdd(ZScale(E, T), m) = ZAdd(m, ZScale(E, T))
    <3>1. ZScale(E, T) \in ZPoly
      BY Samples, PolyTypes
    <3> QED
      BY <1>1, <3>1, AddAssoc
  <2> QED
    BY <2>1, <2>2
<1> HIDE DEF h
<1> DEFINE p == ct.parts
<1>5. /\ Lifts(C, p, b) /\ Len(p) = 2
      /\ ZPhase(C, 2, S) = ZAdd(h, ZMul(g, S))
  BY <1>1, <1>2, PairLifts
<1> HIDE DEF C, p
<1>6. Encrypts(C, E, ct, S, b)
  <2>1. ZPhase(C, Len(p), S) = ZAdd(ct.plain, ZScale(E, T)) /\ Within(E, ct.noise)
    BY <1>4, <1>5
  <2>2. Lifts(C, p, b) /\ Len(p) >= 2
    BY <1>5
  <2> QED
    BY <2>1, <2>2 DEF Encrypts, p
<1> QED
  BY <1>6 DEF GoodCt

\* Encryptor::encrypt with a secret key.
LEMMA EncryptSecretGood ==
    ASSUME NEW b, Positive(b), NEW S \in ZPoly, NEW a \in ZPoly, NEW e \in ZPoly,
           Within(e, ErrorBound), NEW m \in [Coeffs -> 0..(T - 1)],
           NEW ct, ct.plain = m, ct.noise = ErrorBound, ct.valid \in BOOLEAN,
           ct.parts = CtAddPlain(ZeroRow(FromIntegers(S, b), FromIntegers(a, b), e, b),
                                 FromIntegers(m, b), b)
    PROVE  GoodCt(ct, S, b)
<1> DEFINE f == ZSub(ZScale(e, T), ZMul(a, S))
<1>1. /\ ZeroRow(FromIntegers(S, b), FromIntegers(a, b), e, b)
            = <<FromIntegers(f, b), FromIntegers(a, b)>>
      /\ f \in ZPoly /\ ZAdd(f, ZMul(a, S)) = ZScale(e, T)
  BY ZeroRowParts
<1>2. ErrorBound \in Nat
  BY Samples
<1> HIDE DEF f
<1> QED
  BY <1>1, <1>2, PlainOnPair

\* Encryptor::encrypt with a public key, of one holder or of several.
LEMMA EncryptPublicGood ==
    ASSUME NEW b, Positive(b), NEW S \in ZPoly, NEW n \in Nat, Within(S, n),
           NEW pair, RowOf(pair, ZZero, S, n * ErrorBound, b),
           NEW u \in ZPoly, Within(u, 1),
           NEW e0 \in ZPoly, Within(e0, ErrorBound), NEW e1 \in ZPoly, Within(e1, ErrorBound),
           NEW m \in [Coeffs -> 0..(T - 1)],
           NEW ct, ct.plain = m, ct.valid \in BOOLEAN,
           ct.noise = RingProductBound(1, n * ErrorBound) + RingProductBound(n, ErrorBound)
                        + ErrorBound,
           ct.parts = CtAddPlain(
                    <<PolyAdd(PolyMul(pair[1], FromIntegers(u, b), b), Scaled(e0, T, b), b),
                      PolyAdd(PolyMul(pair[2], FromIntegers(u, b), b), Scaled(e1, T, b), b)>>,
                    FromIntegers(m, b), b)
    PROVE  GoodCt(ct, S, b)
<1> DEFINE eb == n * ErrorBound
<1>1. PICK k \in ZPoly, a \in ZPoly, E \in ZPoly :
        /\ pair = <<FromIntegers(k, b), FromIntegers(a, b)>>
        /\ ZAdd(k, ZMul(a, S)) = ZAdd(ZZero, ZScale(E, T))
        /\ Within(E, n * ErrorBound)
  BY DEF RowOf
<1>2. ErrorBound \in Nat /\ eb \in Nat /\ T \in Int /\ 1 \in Nat
  BY Samples
<1>3. ZeroPair(k, a, S, E)
  <2>1. ZScale(E, T) \in ZPoly
    BY <1>2, PolyTypes
  <2> QED
    BY <1>1, <2>1, SubThenAdd DEF ZeroPair
<1> DEFINE X == MaskNoise(E, u, e0, e1, S)  f == ZAdd(ZMul(k, u), ZScale(e0, T))
           g == ZAdd(ZMul(a, u), ZScale(e1, T))
           N == RingProductBound(1, eb) + ErrorBound + RingProductBound(ErrorBound, n)
<1>4. f \in ZPoly /\ g \in ZPoly /\ X \in ZPoly /\ ZAdd(f, ZMul(g, S)) = ZScale(X, T)
  BY <1>3, MaskedPair
<1>5. Within(X, N) /\ N \in Nat
  <2> HIDE DEF eb
  <2>1. MaskBounds(E, u, e0, e1, S, eb, 1, ErrorBound, ErrorBound, n)
    BY <1>1, <1>2 DEF MaskBounds, eb
  <2> QED
    BY <2>1, MaskNoiseBound
<1>6. /\ PolyAdd(PolyMul(pair[1], FromIntegers(u, b), b), Scaled(e0, T, b), b) = FromIntegers(f, b)
      /\ PolyAdd(PolyMul(pair[2], FromIntegers(u, b), b), Scaled(e1, T, b), b) = FromIntegers(g, b)
  BY <1>1, MaskIs
<1>7. N = RingProductBound(1, n * ErrorBound) + RingProductBound(n, ErrorBound) + ErrorBound
  <2>1. RingProductBound(ErrorBound, n) = RingProductBound(n, ErrorBound)
    BY <1>2, CoeffsFacts DEF RingProductBound
  <2>2. RingProductBound(1, eb) \in Nat /\ RingProductBound(n, ErrorBound) \in Nat
    BY <1>2, CoeffsFacts DEF RingProductBound
  <2> QED
    BY <1>2, <2>1, <2>2
<1> HIDE DEF X, f, g, N
<1>8. /\ ct.parts = CtAddPlain(<<FromIntegers(f, b), FromIntegers(g, b)>>, FromIntegers(m, b), b)
      /\ ct.noise = N
  BY <1>6, <1>7
<1> QED
  BY <1>4, <1>5, <1>8, PlainOnPair

-----------------------------------------------------------------------------
(* Sums and negation                                                        *)

\* Sequences of polynomials, component by component.
LEMMA LiftsMade ==
    ASSUME NEW b, NEW n \in Nat, n >= 1, NEW H, Polys(H, n),
           NEW p, p = [c \in 1..n |-> p[c]], \A c \in 1..n : p[c] = FromIntegers(H[c], b)
    PROVE  Lifts(H, p, b) /\ Len(p) = n
<1>1. \A c \in 1..n : p[c] \in Range(p)
  BY DEF Range
<1>2. p \in Seq(Range(p)) /\ Len(p) = n
  BY <1>1
<1> QED
  BY <1>2 DEF Lifts

\* The components and the polynomials under them.
LEMMA LiftsFacts ==
    ASSUME NEW C, NEW p, NEW b, Lifts(C, p, b)
    PROVE  /\ Len(p) \in Nat /\ Len(p) >= 1 /\ DOMAIN p = 1..Len(p) /\ Polys(C, Len(p))
           /\ \A c \in 1..Len(p) : p[c] = FromIntegers(C[c], b) /\ C[c] \in ZPoly
<1>1. Len(p) \in Nat /\ Len(p) >= 1 /\ p \in Seq(Range(p)) /\ Polys(C, Len(p))
      /\ \A c \in 1..Len(p) : p[c] = FromIntegers(C[c], b)
  BY DEF Lifts
<1> QED
  BY <1>1 DEF Polys

\* A plaintext reduced modulo T again: what it carries goes to the noise.
CarryBound(P, K) == \A i \in Coeffs : -(T * K) <= P[i] /\ P[i] < T * (K + 1)

\* A phase P + T e shows the message P modulo T, with the quotients carried
\* into the noise.
LEMMA GoodCarried ==
    ASSUME NEW b, NEW S \in ZPoly, NEW ct, NEW H, Lifts(H, ct.parts, b), Len(ct.parts) >= 2,
           NEW P \in ZPoly, NEW K \in Nat, CarryBound(P, K),
           NEW e \in ZPoly, NEW N \in Nat,
           ct.plain = ZMod(P), ct.noise = N + K, ct.valid \in BOOLEAN,
           ct.valid /\ Aligned =>
              ZPhase(H, Len(ct.parts), S) = ZAdd(P, ZScale(e, T)) /\ Within(e, N)
    PROVE  GoodCt(ct, S, b)
<1> DEFINE m == ZMod(P)  d == ZDiv(P)  f == ZAdd(e, d)
<1>0. T \in Int
  BY Samples
<1>1. /\ m \in [Coeffs -> 0..(T - 1)] /\ m \in ZPoly /\ d \in ZPoly
      /\ P = ZAdd(m, ZScale(d, T)) /\ Within(d, K)
  BY Carry DEF CarryBound
<1>2. f \in ZPoly
  BY <1>1, PolyTypes
<1>3. ZAdd(P, ZScale(e, T)) = ZAdd(m, ZScale(f, T))
  <2> HIDE DEF m, d
  <2>1. ZAdd(P, ZScale(e, T)) \in ZPoly /\ ZAdd(m, ZScale(f, T)) \in ZPoly
    BY <1>0, <1>1, <1>2, PolyTypes
  <2>2. ASSUME NEW i \in Coeffs PROVE ZAdd(P, ZScale(e, T))[i] = ZAdd(m, ZScale(f, T))[i]
    <3>1. P[i] = m[i] + T * d[i]
      <4>1. P[i] = ZAdd(m, ZScale(d, T))[i]
        BY <1>1
      <4> QED
        BY <4>1 DEF ZAdd, ZScale
    <3>2. /\ ZAdd(P, ZScale(e, T))[i] = P[i] + T * e[i]
          /\ ZAdd(m, ZScale(f, T))[i] = m[i] + T * (e[i] + d[i])
      BY DEF ZAdd, ZScale
    <3> DEFINE mi == m[i]  di == d[i]  ei == e[i]
    <3>3. mi \in Int /\ di \in Int /\ ei \in Int
      BY <1>1, PolyTypes
    <3> HIDE DEF mi, di, ei
    <3>4. (mi + T * di) + T * ei = mi + T * (ei + di)
      BY <1>0, <3>3
    <3> QED
      BY <3>1, <3>2, <3>4 DEF mi, di, ei
  <2> QED
    BY <2>1, <2>2, SamePoly
<1> HIDE DEF m, d
<1>4. Within(e, N) => Within(f, N + K)
  BY <1>1, WithinAdd
<1> HIDE DEF f
<1>5. ct.valid /\ Aligned =>
         /\ ZPhase(H, Len(ct.parts), S) = ZAdd(ct.plain, ZScale(f, T))
         /\ Within(f, ct.noise)
  BY <1>3, <1>4 DEF m
<1>6. Encrypts(H, f, ct, S, b)
  BY <1>2, <1>5 DEF Encrypts
<1>7. ct.plain \in [Coeffs -> 0..(T - 1)] /\ ct.noise \in Nat
  BY <1>1 DEF m
<1> QED
  BY <1>6, <1>7 DEF GoodCt

\* Sums and differences of messages carry at most one T.
LEMMA SumCarries ==
    ASSUME NEW m \in [Coeffs -> 0..(T - 1)], NEW r \in [Coeffs -> 0..(T - 1)]
    PROVE  /\ CarryBound(ZAdd(m, r), 1) /\ CarryBound(ZSub(m, r), 1)
           /\ ZAdd(m, r) \in ZPoly /\ ZSub(m, r) \in ZPoly
<1>1. T \in Nat /\ T > 0
  BY Samples
<1>2. \A i \in Coeffs : /\ m[i] \in Int /\ 0 <= m[i] /\ m[i] <= T - 1
                        /\ r[i] \in Int /\ 0 <= r[i] /\ r[i] <= T - 1
  BY MessagePoly
<1>3. ASSUME NEW i \in Coeffs
      PROVE  /\ -(T * 1) <= m[i] + r[i] /\ m[i] + r[i] < T * (1 + 1)
             /\ -(T * 1) <= m[i] - r[i] /\ m[i] - r[i] < T * (1 + 1)
  BY <1>1, <1>2
<1>4. m \in ZPoly /\ r \in ZPoly
  BY MessagePoly
<1> QED
  BY <1>3, <1>4, PolyTypes DEF CarryBound, ZAdd, ZSub

\* Two pieces of arithmetic on m + T e.
LEMMA SumOfTwo ==
    ASSUME NEW m \in ZPoly, NEW r \in ZPoly, NEW e \in ZPoly, NEW d \in ZPoly
    PROVE  /\ ZAdd(ZAdd(m, ZScale(e, T)), ZAdd(r, ZScale(d, T)))
                  = ZAdd(ZAdd(m, r), ZScale(ZAdd(e, d), T))
           /\ ZSub(ZAdd(m, ZScale(e, T)), ZAdd(r, ZScale(d, T)))
                  = ZAdd(ZSub(m, r), ZScale(ZSub(e, d), T))
<1>0. T \in Int
  BY Samples
<1> DEFINE L == ZAdd(ZAdd(m, ZScale(e, T)), ZAdd(r, ZScale(d, T)))
           R == ZAdd(ZAdd(m, r), ZScale(ZAdd(e, d), T))
           U == ZSub(ZAdd(m, ZScale(e, T)), ZAdd(r, ZScale(d, T)))
           V == ZAdd(ZSub(m, r), ZScale(ZSub(e, d), T))
<1>1. L \in ZPoly /\ R \in ZPoly /\ U \in ZPoly /\ V \in ZPoly
  BY <1>0, PolyTypes
<1>2. ASSUME NEW i \in Coeffs PROVE L[i] = R[i] /\ U[i] = V[i]
  <2> DEFINE mi == m[i]  ri == r[i]  ei == e[i]  di == d[i]
  <2>1. mi \in Int /\ ri \in Int /\ ei \in Int /\ di \in Int
    BY PolyTypes
  <2>2. /\ L[i] = (mi + T * ei) + (ri + T * di) /\ R[i] = (mi + ri) + T * (ei + di)
        /\ U[i] = (mi + T * ei) - (ri + T * di) /\ V[i] = (mi - ri) + T * (ei - di)
    BY DEF ZAdd, ZSub, ZScale
  <2> HIDE DEF mi, ri, ei, di, L, R, U, V
  <2>3. (mi + T * ei) + (ri + T * di) = (mi + ri) + T * (ei + di)
    BY <1>0, <2>1
  <2>4. (mi + T * ei) - (ri + T * di) = (mi - ri) + T * (ei - di)
    BY <1>0, <2>1
  <2> QED
    BY <2>2, <2>3, <2>4
<1> HIDE DEF L, R, U, V
<1>3. L = R /\ U = V
  BY <1>1, <1>2, SamePoly
<1> QED
  BY <1>3 DEF L, R, U, V

\* Evaluator::add and sub, for two ciphertexts of one length.
LEMMA AddSubGood ==
    ASSUME NEW b, Positive(b), NEW S \in ZPoly, NEW u, NEW v, GoodCt(u, S, b), GoodCt(v, S, b),
           Len(u.parts) = Len(v.parts), NEW ct,
           \/ /\ ct.parts = CtAdd(u.parts, v.parts, b) /\ ct.plain = PlainAdd(u.plain, v.plain)
           \/ /\ ct.parts = CtSub(u.parts, v.parts, b) /\ ct.plain = PlainSub(u.plain, v.plain),
           ct.noise = u.noise + v.noise + SumCarry, ct.valid = (u.valid /\ v.valid)
    PROVE  GoodCt(ct, S, b)
<1> DEFINE p == u.parts  q == v.parts  n == Len(p)  m == u.plain  r == v.plain
           A == u.noise  B == v.noise
<1>1. PICK C, e : Encrypts(C, e, u, S, b)
  BY DEF GoodCt
<1>2. PICK D, d : Encrypts(D, d, v, S, b)
  BY DEF GoodCt
<1>3. /\ m \in [Coeffs -> 0..(T - 1)] /\ r \in [Coeffs -> 0..(T - 1)]
      /\ A \in Nat /\ B \in Nat /\ ct.valid \in BOOLEAN
  BY DEF GoodCt
<1>4. /\ Lifts(C, p, b) /\ Lifts(D, q, b) /\ n >= 2 /\ Len(q) = n /\ e \in ZPoly /\ d \in ZPoly
      /\ u.valid /\ Aligned => ZPhase(C, n, S) = ZAdd(m, ZScale(e, T)) /\ Within(e, A)
      /\ v.valid /\ Aligned => ZPhase(D, n, S) = ZAdd(r, ZScale(d, T)) /\ Within(d, B)
  BY <1>1, <1>2 DEF Encrypts
<1>5. /\ n \in Nat /\ DOMAIN p = 1..n /\ Polys(C, n) /\ Polys(D, n)
      /\ \A c \in 1..n : /\ p[c] = FromIntegers(C[c], b) /\ C[c] \in ZPoly
                         /\ q[c] = FromIntegers(D[c], b) /\ D[c] \in ZPoly
  BY <1>4, LiftsFacts
<1>6. m \in ZPoly /\ r \in ZPoly
  BY <1>3, MessagePoly
<1>7. CASE ct.parts = CtAdd(p, q, b) /\ ct.plain = PlainAdd(m, r)
  <2> DEFINE H == [c \in 1..n |-> ZAdd(C[c], D[c])]  P == ZAdd(m, r)  f == ZAdd(e, d)
             w == ct.parts
  <2>1. Polys(H, n) /\ ZPhase(H, n, S) = ZAdd(ZPhase(C, n, S), ZPhase(D, n, S))
    <3>1. EachAdd(H, C, D, n)
      BY DEF EachAdd
    <3> HIDE DEF H, n
    <3> QED
      BY <1>5, <3>1, ZPhaseLinear
  <2>2. Lifts(H, w, b) /\ Len(w) = n
    <3>1. w = [c \in 1..n |-> w[c]] /\ \A c \in 1..n : w[c] = PolyAdd(p[c], q[c], b)
      BY <1>5, <1>7 DEF CtAdd
    <3>2. ASSUME NEW c \in 1..n PROVE w[c] = FromIntegers(H[c], b)
      <4>1. PolyAdd(FromIntegers(C[c], b), FromIntegers(D[c], b), b)
              = FromIntegers(ZAdd(C[c], D[c]), b)
        BY <1>5, FIAdd
      <4> QED
        BY <1>5, <3>1, <4>1
    <3> HIDE DEF w, H, n
    <3> QED
      BY <1>4, <1>5, <2>1, <3>1, <3>2, LiftsMade
  <2>3. ct.plain = ZMod(P)
    BY <1>7 DEF PlainAdd, ZMod, ZAdd
  <2>4. CarryBound(P, 1) /\ P \in ZPoly /\ f \in ZPoly
    BY <1>3, <1>4, SumCarries, PolyTypes
  <2>5. ct.noise = (A + B) + 1 /\ A + B \in Nat
    BY <1>3 DEF SumCarry
  <2>6. ct.valid /\ Aligned => ZPhase(H, n, S) = ZAdd(P, ZScale(f, T)) /\ Within(f, A + B)
    <3>1. SUFFICES ASSUME ct.valid, Aligned
                   PROVE  ZPhase(H, n, S) = ZAdd(P, ZScale(f, T)) /\ Within(f, A + B)
      OBVIOUS
    <3>2. /\ ZPhase(C, n, S) = ZAdd(m, ZScale(e, T)) /\ Within(e, A)
          /\ ZPhase(D, n, S) = ZAdd(r, ZScale(d, T)) /\ Within(d, B)
      BY <1>4, <3>1
    <3> HIDE DEF H, n, m, r, A, B
    <3>3. Within(f, A + B)
      BY <1>3, <1>4, <3>2, WithinAdd
    <3>4. ZPhase(H, n, S) = ZAdd(P, ZScale(f, T))
      BY <1>4, <1>6, <2>1, <3>2, SumOfTwo
    <3> QED
      BY <3>3, <3>4
  <2> HIDE DEF H, P, f, A, B, n
  <2>7. Lifts(H, ct.parts, b) /\ Len(ct.parts) = n
    BY <2>2
  <2> HIDE DEF w
  <2> QED
    BY <1>3, <1>4, <2>3, <2>4, <2>5, <2>6, <2>7, GoodCarried
<1>8. CASE ct.parts = CtSub(p, q, b) /\ ct.plain = PlainSub(m, r)
  <2> DEFINE H == [c \in 1..n |-> ZSub(C[c], D[c])]  P == ZSub(m, r)  f == ZSub(e, d)
             w == ct.parts
  <2>1. Polys(H, n) /\ ZPhase(H, n, S) = ZSub(ZPhase(C, n, S), ZPhase(D, n, S))
    <3>1. EachSub(H, C, D, n)
      BY DEF EachSub
    <3> HIDE DEF H, n
    <3> QED
      BY <1>5, <3>1, ZPhaseLinear
  <2>2. Lifts(H, w, b) /\ Len(w) = n
    <3>1. w = [c \in 1..n |-> w[c]] /\ \A c \in 1..n : w[c] = PolySub(p[c], q[c], b)
      BY <1>5, <1>8 DEF CtSub
    <3>2. ASSUME NEW c \in 1..n PROVE w[c] = FromIntegers(H[c], b)
      <4>1. PolySub(FromIntegers(C[c], b), FromIntegers(D[c], b), b)
              = FromIntegers(ZSub(C[c], D[c]), b)
        BY <1>5, FISub
      <4> QED
        BY <1>5, <3>1, <4>1
    <3> HIDE DEF w, H, n
    <3> QED
      BY <1>4, <1>5, <2>1, <3>1, <3>2, LiftsMade
  <2>3. ct.plain = ZMod(P)
    BY <1>8 DEF PlainSub, ZMod, ZSub
  <2>4. CarryBound(P, 1) /\ P \in ZPoly /\ f \in ZPoly
    BY <1>3, <1>4, SumCarries, PolyTypes
  <2>5. ct.noise = (A + B) + 1 /\ A + B \in Nat
    BY <1>3 DEF SumCarry
  <2>6. ct.valid /\ Aligned => ZPhase(H, n, S) = ZAdd(P, ZScale(f, T)) /\ Within(f, A + B)
    <3>1. SUFFICES ASSUME ct.valid, Aligned
                   PROVE  ZPhase(H, n, S) = ZAdd(P, ZScale(f, T)) /\ Within(f, A + B)
      OBVIOUS
    <3>2. /\ ZPhase(C, n, S) = ZAdd(m, ZScale(e, T)) /\ Within(e, A)
          /\ ZPhase(D, n, S) = ZAdd(r, ZScale(d, T)) /\ Within(d, B)
      BY <1>4, <3>1
    <3> HIDE DEF H, n, m, r, A, B
    <3>3. Within(f, A + B)
      BY <1>3, <1>4, <3>2, WithinAdd
    <3>4. ZPhase(H, n, S) = ZAdd(P, ZScale(f, T))
      BY <1>4, <1>6, <2>1, <3>2, SumOfTwo
    <3> QED
      BY <3>3, <3>4
  <2> HIDE DEF H, P, f, A, B, n
  <2>7. Lifts(H, ct.parts, b) /\ Len(ct.parts) = n
    BY <2>2
  <2> HIDE DEF w
  <2> QED
    BY <1>3, <1>4, <2>3, <2>4, <2>5, <2>6, <2>7, GoodCarried
<1> QED
  BY <1>7, <1>8

\* What GoodCt says, with the phase under its condition.
LEMMA GoodParts ==
    ASSUME NEW ct, NEW S, NEW b, GoodCt(ct, S, b)
    PROVE  \E C, e :
              /\ ct.plain \in [Coeffs -> 0..(T - 1)] /\ ct.plain \in ZPoly
              /\ ct.noise \in Nat /\ ct.valid \in BOOLEAN
              /\ Lifts(C, ct.parts, b) /\ Len(ct.parts) >= 2 /\ e \in ZPoly
              /\ ct.valid /\ Aligned =>
                    /\ ZPhase(C, Len(ct.parts), S) = ZAdd(ct.plain, ZScale(e, T))
                    /\ Within(e, ct.noise)
  BY MessagePoly DEF GoodCt, Encrypts

\* The opposite is a multiple.
LEMMA NegIsScale ==
    ASSUME NEW f \in ZPoly, NEW k \in Int, k = -1
    PROVE  ZScale(f, k) = ZNeg(f)
<1>1. ZScale(f, k) \in ZPoly /\ ZNeg(f) \in ZPoly
  BY PolyTypes
<1>2. \A i \in Coeffs : ZScale(f, k)[i] = ZNeg(f)[i]
  BY PolyTypes DEF ZScale, ZNeg
<1> QED
  BY <1>1, <1>2, SamePoly

\* The opposite of a message and its noise.
LEMMA NegOfSum ==
    ASSUME NEW m \in ZPoly, NEW e \in ZPoly
    PROVE  /\ ZNeg(ZAdd(m, ZScale(e, T))) = ZAdd(ZSub(ZZero, m), ZScale(ZNeg(e), T))
           /\ ZSub(ZZero, m) \in ZPoly /\ ZNeg(e) \in ZPoly
<1>0. T \in Int
  BY Samples
<1> DEFINE L == ZNeg(ZAdd(m, ZScale(e, T)))  R == ZAdd(ZSub(ZZero, m), ZScale(ZNeg(e), T))
<1>2. L \in ZPoly /\ R \in ZPoly /\ ZSub(ZZero, m) \in ZPoly /\ ZNeg(e) \in ZPoly
  BY <1>0, PolyTypes
<1>3. ASSUME NEW i \in Coeffs PROVE L[i] = R[i]
  <2> DEFINE mi == m[i]  ei == e[i]
  <2>1. mi \in Int /\ ei \in Int
    BY PolyTypes
  <2>2. L[i] = -(mi + T * ei) /\ R[i] = (0 - mi) + T * (-ei)
    BY DEF ZAdd, ZSub, ZScale, ZNeg, ZZero
  <2> HIDE DEF mi, ei, L, R
  <2>3. -(mi + T * ei) = (0 - mi) + T * (-ei)
    BY <1>0, <2>1
  <2> QED
    BY <2>2, <2>3
<1> HIDE DEF L, R
<1>4. L = R
  BY <1>2, <1>3, SamePoly
<1> QED
  BY <1>2, <1>4 DEF L, R

\* Evaluator::neg.
LEMMA NegGood ==
    ASSUME NEW b, Positive(b), NEW S \in ZPoly, NEW u, GoodCt(u, S, b),
           NEW ct, ct.parts = CtNeg(u.parts, b), ct.plain = PlainSub(PlainZero, u.plain),
           ct.noise = u.noise + SumCarry, ct.valid = u.valid
    PROVE  GoodCt(ct, S, b)
<1> DEFINE p == u.parts  n == Len(p)  m == u.plain  A == u.noise  w == ct.parts
<1>1. PICK C, e :
        /\ m \in [Coeffs -> 0..(T - 1)] /\ m \in ZPoly /\ A \in Nat /\ u.valid \in BOOLEAN
        /\ Lifts(C, p, b) /\ n >= 2 /\ e \in ZPoly
        /\ u.valid /\ Aligned => ZPhase(C, n, S) = ZAdd(m, ZScale(e, T)) /\ Within(e, A)
  BY GoodParts
<1> DEFINE H == [c \in 1..n |-> ZNeg(C[c])]  P == ZSub(ZZero, m)  f == ZNeg(e)
<1>2. /\ n \in Nat /\ DOMAIN p = 1..n /\ Polys(C, n)
      /\ \A c \in 1..n : p[c] = FromIntegers(C[c], b) /\ C[c] \in ZPoly
  BY <1>1, LiftsFacts
<1>3. Polys(H, n) /\ ZPhase(H, n, S) = ZNeg(ZPhase(C, n, S))
  <2> DEFINE k == -1
  <2>0. k \in Int /\ k = -1
    OBVIOUS
  <2> HIDE DEF k
  <2>1. \A c \in 1..n : H[c] = ZScale(C[c], k)
    BY <1>2, <2>0, NegIsScale
  <2>2. ZPhase(C, n, S) \in ZPoly
    BY <1>2, ZPhaseFacts
  <2>3. ZScale(ZPhase(C, n, S), k) = ZNeg(ZPhase(C, n, S))
    BY <2>0, <2>2, NegIsScale
  <2> HIDE DEF H, n, k
  <2>4. Polys(H, n) /\ ZPhase(H, n, S) = ZScale(ZPhase(C, n, S), k)
    BY <1>2, <2>0, <2>1, ZPhaseScales
  <2> QED
    BY <2>3, <2>4
<1>4. Lifts(H, w, b) /\ Len(w) = n
  <2>1. w = [c \in 1..n |-> w[c]] /\ \A c \in 1..n : w[c] = PolyNeg(p[c], b)
    BY <1>2 DEF CtNeg
  <2>2. ASSUME NEW c \in 1..n PROVE w[c] = FromIntegers(H[c], b)
    <3>1. PolyNeg(FromIntegers(C[c], b), b) = FromIntegers(ZNeg(C[c]), b)
      BY <1>2, FINeg
    <3> QED
      BY <1>2, <2>1, <3>1
  <2> HIDE DEF w, H, n
  <2> QED
    BY <1>1, <1>2, <1>3, <2>1, <2>2, LiftsMade
<1>5. ct.plain = ZMod(P)
  BY DEF PlainSub, PlainZero, ZMod, ZSub, ZZero
<1>6. CarryBound(P, 1) /\ P \in ZPoly /\ f \in ZPoly
  <2>1. ZZero \in [Coeffs -> 0..(T - 1)]
    BY Samples DEF ZZero
  <2> HIDE DEF m
  <2> QED
    BY <1>1, <2>1, SumCarries, PolyTypes
<1>7. ct.noise = A + 1
  BY DEF SumCarry
<1>8. ct.valid /\ Aligned => ZPhase(H, n, S) = ZAdd(P, ZScale(f, T)) /\ Within(f, A)
  <2>1. SUFFICES ASSUME ct.valid, Aligned
                 PROVE  ZPhase(H, n, S) = ZAdd(P, ZScale(f, T)) /\ Within(f, A)
    OBVIOUS
  <2>2. ZPhase(C, n, S) = ZAdd(m, ZScale(e, T)) /\ Within(e, A)
    BY <1>1, <2>1
  <2> HIDE DEF H, n, m, A
  <2>3. Within(f, A)
    BY <1>1, <2>2, WithinAdd
  <2> QED
    BY <1>1, <1>3, <2>2, <2>3, NegOfSum
<1>9. Lifts(H, ct.parts, b) /\ Len(ct.parts) = n
  BY <1>4
<1> HIDE DEF H, P, f, A, n, w
<1> QED
  BY <1>1, <1>5, <1>6, <1>7, <1>8, <1>9, GoodCarried

\* Evaluator::add_plain.
LEMMA AddPlainGood ==
    ASSUME NEW b, Positive(b), NEW S \in ZPoly, NEW u, GoodCt(u, S, b),
           NEW r \in [Coeffs -> 0..(T - 1)],
           NEW ct, ct.parts = CtAddPlain(u.parts, FromIntegers(r, b), b),
           ct.plain = PlainAdd(u.plain, r), ct.noise = u.noise + SumCarry, ct.valid = u.valid
    PROVE  GoodCt(ct, S, b)
<1> DEFINE p == u.parts  n == Len(p)  m == u.plain  A == u.noise  w == ct.parts
<1>1. PICK C, e :
        /\ m \in [Coeffs -> 0..(T - 1)] /\ m \in ZPoly /\ A \in Nat /\ u.valid \in BOOLEAN
        /\ Lifts(C, p, b) /\ n >= 2 /\ e \in ZPoly
        /\ u.valid /\ Aligned => ZPhase(C, n, S) = ZAdd(m, ZScale(e, T)) /\ Within(e, A)
  BY GoodParts
<1> DEFINE H == [c \in 1..n |-> IF c = 1 THEN ZAdd(C[1], r) ELSE C[c]]  P == ZAdd(m, r)
<1>2. /\ n \in Nat /\ DOMAIN p = 1..n /\ Polys(C, n)
      /\ \A c \in 1..n : p[c] = FromIntegers(C[c], b) /\ C[c] \in ZPoly
  BY <1>1, LiftsFacts
<1>2a. r \in ZPoly /\ 1 \in 1..n /\ n >= 1
  BY <1>1, <1>2, MessagePoly
<1>3. Polys(H, n) /\ ZPhase(H, n, S) = ZAdd(ZPhase(C, n, S), r)
  <2>1. H[1] = ZAdd(C[1], r) /\ \A c \in 2..n : H[c] = C[c]
    BY <1>2, <1>2a
  <2> HIDE DEF H, n
  <2> QED
    BY <1>2, <1>2a, <2>1, ZPhaseShift
<1>4. Lifts(H, w, b) /\ Len(w) = n
  <2>1. /\ w = [c \in 1..n |-> w[c]]
        /\ \A c \in 1..n : w[c] = IF c = 1 THEN PolyAdd(p[1], FromIntegers(r, b), b) ELSE p[c]
    <3>1. p = [c \in 1..n |-> p[c]]
      BY <1>1, <1>2 DEF Lifts
    <3> QED
      BY <1>2, <1>2a, <3>1 DEF CtAddPlain
  <2>2. ASSUME NEW c \in 1..n PROVE w[c] = FromIntegers(H[c], b)
    <3>1. PolyAdd(FromIntegers(C[1], b), FromIntegers(r, b), b) = FromIntegers(ZAdd(C[1], r), b)
      BY <1>2, <1>2a, FIAdd
    <3> QED
      BY <1>2, <1>2a, <2>1, <3>1
  <2> HIDE DEF w, H, n
  <2> QED
    BY <1>1, <1>2, <1>2a, <1>3, <2>1, <2>2, LiftsMade
<1>5. ct.plain = ZMod(P)
  BY DEF PlainAdd, ZMod, ZAdd
<1>6. CarryBound(P, 1) /\ P \in ZPoly
  <2> HIDE DEF m
  <2> QED
    BY <1>1, SumCarries
<1>7. ct.noise = A + 1
  BY DEF SumCarry
<1>8. ct.valid /\ Aligned => ZPhase(H, n, S) = ZAdd(P, ZScale(e, T)) /\ Within(e, A)
  <2>1. SUFFICES ASSUME ct.valid, Aligned
                 PROVE  ZPhase(H, n, S) = ZAdd(P, ZScale(e, T)) /\ Within(e, A)
    OBVIOUS
  <2>2. ZPhase(C, n, S) = ZAdd(m, ZScale(e, T)) /\ Within(e, A)
    BY <1>1, <2>1
  <2> HIDE DEF H, n, m, A
  <2>3. ZScale(e, T) \in ZPoly
    BY <1>1, Samples, PolyTypes
  <2>4. ZAdd(ZAdd(m, ZScale(e, T)), r) = ZAdd(ZAdd(m, r), ZScale(e, T))
    BY <1>1, <1>2a, <2>3, AddShuffle
  <2> QED
    BY <1>3, <2>2, <2>4
<1>9. Lifts(H, ct.parts, b) /\ Len(ct.parts) = n
  BY <1>4
<1> HIDE DEF H, P, A, n, w
<1> QED
  BY <1>1, <1>5, <1>6, <1>7, <1>8, <1>9, GoodCarried

-----------------------------------------------------------------------------
(* Products                                                                 *)

\* A bound times a number.
LEMMA WithinTimes ==
    ASSUME NEW f \in ZPoly, NEW A \in Nat, Within(f, A), NEW k \in Nat
    PROVE  Within(ZScale(f, k), k * A) /\ k * A \in Nat
<1>1. ASSUME NEW i \in Coeffs PROVE -(k * A) <= k * f[i] /\ k * f[i] <= k * A
  <2> DEFINE v == f[i]
  <2>1. v \in Int /\ -A <= v /\ v <= A
    BY PolyTypes DEF Within
  <2> HIDE DEF v
  <2>2. k * (A - v) >= 0 /\ k * (v + A) >= 0
    BY <2>1
  <2>3. -(k * A) <= k * v /\ k * v <= k * A
    BY <2>1, <2>2
  <2> QED
    BY <2>3 DEF v
<1> QED
  BY <1>1 DEF Within, ZScale

\* Messages are polynomials with coefficients below T; what a product of two
\* carries is ProductCarry.
LEMMA ProductCarries ==
    ASSUME NEW m \in [Coeffs -> 0..(T - 1)], NEW r \in [Coeffs -> 0..(T - 1)]
    PROVE  /\ CarryBound(ZMul(m, r), ProductCarry) /\ ZMul(m, r) \in ZPoly
           /\ PlainMul(m, r) = ZMod(ZMul(m, r)) /\ ProductCarry \in Nat
           /\ Within(m, T - 1) /\ T - 1 \in Nat
<1> DEFINE M == Degree * (T - 1) * (T - 1)  K == M \div T + 1
<1>0. T \in Nat /\ T > 0 /\ T - 1 \in Nat /\ Degree \in Nat
  BY Samples, CoeffsFacts
<1>1. m \in ZPoly /\ r \in ZPoly /\ Within(m, T - 1) /\ Within(r, T - 1)
  BY <1>0, MessagePoly DEF Within
<1>2. ZMul(m, r) \in ZPoly /\ Within(ZMul(m, r), M) /\ M \in Nat
  BY <1>0, <1>1, MulBound, MulType
<1>3. ProductCarry = K
  BY DEF ProductCarry, RingProductBound
<1> HIDE DEF M
<1>4. M \div T \in Nat /\ M < T * K
  <2> DEFINE q == M \div T  s == M % T
  <2>1. q \in Nat /\ s \in 0..(T - 1) /\ M = q * T + s
    BY <1>0, <1>2, Quotient, QuotientNat
  <2> HIDE DEF q, s
  <2>2. M < T * (q + 1)
    BY <1>0, <2>1
  <2> QED
    BY <2>1, <2>2 DEF q
<1>5. K \in Nat
  BY <1>4
<1> HIDE DEF K
<1>6. CarryBound(ZMul(m, r), K)
  <2>1. ASSUME NEW i \in Coeffs
        PROVE  -(T * K) <= ZMul(m, r)[i] /\ ZMul(m, r)[i] < T * (K + 1)
    <3> DEFINE v == ZMul(m, r)[i]
    <3>1. v \in Int /\ -M <= v /\ v <= M
      BY <1>2, PolyTypes DEF Within
    <3> HIDE DEF v
    <3>2. T * K \in Int /\ T * (K + 1) = T * K + T
      BY <1>0, <1>5
    <3>3. -(T * K) <= v /\ v < T * (K + 1)
      BY <1>0, <1>2, <1>4, <3>1, <3>2
    <3> QED
      BY <3>3 DEF v
  <2> QED
    BY <2>1 DEF CarryBound
<1>7. PlainMul(m, r) = ZMod(ZMul(m, r))
  BY DEF PlainMul, ZMod, ZMul
<1> QED
  BY <1>0, <1>1, <1>2, <1>3, <1>5, <1>6, <1>7

\* A message and its noise times a polynomial.
LEMMA TimesMessage ==
    ASSUME NEW m \in ZPoly, NEW e \in ZPoly, NEW r \in ZPoly
    PROVE  /\ ZMul(ZAdd(m, ZScale(e, T)), r) = ZAdd(ZMul(m, r), ZScale(ZMul(e, r), T))
           /\ ZMul(m, r) \in ZPoly /\ ZMul(e, r) \in ZPoly
<1>1. T \in Int /\ ZScale(e, T) \in ZPoly
  BY Samples, PolyTypes
<1>2. ZMul(ZScale(e, T), r) = ZScale(ZMul(e, r), T)
  BY <1>1, MulScales
<1> QED
  BY <1>1, <1>2, MulAdds, MulType

\* The noise of a product.
ProductNoise(m, e, r, d) == ZAdd(ZAdd(ZMul(m, d), ZMul(e, r)), ZScale(ZMul(e, d), T))

\* The product of two messages with their noise.
LEMMA TimesSum ==
    ASSUME NEW m \in ZPoly, NEW e \in ZPoly, NEW r \in ZPoly, NEW d \in ZPoly
    PROVE  /\ ZMul(ZAdd(m, ZScale(e, T)), ZAdd(r, ZScale(d, T)))
                 = ZAdd(ZMul(m, r), ZScale(ProductNoise(m, e, r, d), T))
           /\ ProductNoise(m, e, r, d) \in ZPoly
<1> DEFINE X == ZAdd(r, ZScale(d, T))  mr == ZMul(m, r)  md == ZMul(m, d)  er == ZMul(e, r)
           ed == ZMul(e, d)
<1>0. T \in Int
  BY Samples
<1>1. X \in ZPoly /\ ZScale(d, T) \in ZPoly
  BY <1>0, PolyTypes
<1>2. mr \in ZPoly /\ md \in ZPoly /\ er \in ZPoly /\ ed \in ZPoly
  BY MulType
<1>3. ZMul(m, X) = ZAdd(mr, ZScale(md, T)) /\ ZMul(e, X) = ZAdd(er, ZScale(ed, T))
  <2>1. ZMul(m, ZScale(d, T)) = ZScale(md, T) /\ ZMul(e, ZScale(d, T)) = ZScale(ed, T)
    BY <1>0, MulRight
  <2> QED
    BY <1>1, <2>1, MulRight
<1>4. ZMul(ZAdd(m, ZScale(e, T)), X) = ZAdd(ZMul(m, X), ZScale(ZMul(e, X), T))
  <2> HIDE DEF X
  <2> QED
    BY <1>1, TimesMessage
<1> DEFINE L == ZAdd(ZAdd(mr, ZScale(md, T)), ZScale(ZAdd(er, ZScale(ed, T)), T))
           f == ZAdd(ZAdd(md, er), ZScale(ed, T))  R == ZAdd(mr, ZScale(f, T))
<1> HIDE DEF mr, md, er, ed
<1>5. L \in ZPoly /\ R \in ZPoly /\ f \in ZPoly
  BY <1>0, <1>2, PolyTypes
<1>6. ASSUME NEW i \in Coeffs PROVE L[i] = R[i]
  <2> DEFINE a == mr[i]  p == md[i]  q == er[i]  s == ed[i]
  <2>1. a \in Int /\ p \in Int /\ q \in Int /\ s \in Int
    BY <1>2, PolyTypes
  <2>2. L[i] = (a + T * p) + T * (q + T * s) /\ R[i] = a + T * ((p + q) + T * s)
    BY DEF ZAdd, ZScale
  <2> HIDE DEF a, p, q, s, L, R
  <2>3. (a + T * p) + T * (q + T * s) = a + T * ((p + q) + T * s)
    <3>1. T * s \in Int
      BY <1>0, <2>1
    <3> QED
      BY <1>0, <2>1, <3>1
  <2> QED
    BY <2>2, <2>3
<1>7. L = R
  <2> HIDE DEF L, R
  <2> QED
    BY <1>5, <1>6, SamePoly
<1> HIDE DEF X
<1> QED
  BY <1>3, <1>4, <1>5, <1>7 DEF X, ProductNoise, mr, md, er, ed

\* Evaluator::mul, of ciphertexts or by a plaintext: the product of the phases.
LEMMA ProductParts ==
    ASSUME NEW b, Positive(b), NEW S \in ZPoly, NEW C, NEW p, Lifts(C, p, b),
           NEW D, NEW q, Lifts(D, q, b)
    PROVE  LET n == Len(p)
               m == Len(q)
           IN  /\ Lifts(ZProduct(C, n, D, m), CtMul(p, q, b), b)
               /\ Len(CtMul(p, q, b)) = n + m - 1
               /\ ZPhase(ZProduct(C, n, D, m), n + m - 1, S)
                     = ZMul(ZPhase(C, n, S), ZPhase(D, m, S))
<1> DEFINE n == Len(p)  m == Len(q)  k == n + m - 1  H == ZProduct(C, n, D, m)  w == CtMul(p, q, b)
<1>1. /\ n \in Nat /\ n >= 1 /\ DOMAIN p = 1..n /\ Polys(C, n)
      /\ \A c \in 1..n : p[c] = FromIntegers(C[c], b)
  BY LiftsFacts
<1>2. /\ m \in Nat /\ m >= 1 /\ DOMAIN q = 1..m /\ Polys(D, m)
      /\ \A c \in 1..m : q[c] = FromIntegers(D[c], b)
  BY LiftsFacts
<1>3. w = [c \in 1..k |-> FromIntegers(H[c], b)]
  <2>1. Components(C, p, b) /\ Components(D, q, b)
    BY <1>1, <1>2 DEF Components
  <2>2. Tabulated(w, H, k, b)
    BY <1>1, <1>2, <2>1, FICtMul
  <2> QED
    BY <2>2 DEF Tabulated
<1>3a. k \in Nat /\ k >= 1
  BY <1>1, <1>2
<1> HIDE DEF n, m
<1>4. Polys(H, k) /\ ZPhase(H, k, S) = ZMul(ZPhase(C, n, S), ZPhase(D, m, S))
  BY <1>1, <1>2, ZPhaseProduct
<1> HIDE DEF H, k, w
<1>5. Lifts(H, w, b) /\ Len(w) = k
  <2>1. w = [c \in 1..k |-> w[c]] /\ \A c \in 1..k : w[c] = FromIntegers(H[c], b)
    BY <1>3
  <2> QED
    BY <1>3a, <1>4, <2>1, LiftsMade
<1> QED
  BY <1>4, <1>5 DEF n, m, k, H, w

\* A plaintext as a ciphertext of one component.
LEMMA SingleLifts ==
    ASSUME NEW b, NEW r \in ZPoly, NEW S \in ZPoly
    PROVE  /\ Lifts(<<r>>, <<FromIntegers(r, b)>>, b) /\ Len(<<FromIntegers(r, b)>>) = 1
           /\ ZPhase(<<r>>, 1, S) = r
<1> DEFINE C == <<r>>  p == <<FromIntegers(r, b)>>
<1>1. /\ C[1] = r /\ p[1] = FromIntegers(C[1], b) /\ p \in Seq(Range(p)) /\ Len(p) = 1
      /\ \A c \in 1..1 : c = 1
  BY DEF Range
<1>2. Polys(C, 1)
  BY <1>1 DEF Polys
<1> HIDE DEF C, p
<1>3. Lifts(C, p, b)
  BY <1>1, <1>2 DEF Lifts
<1>4. ZPhase(C, 1, S) = C[1]
  <2> DEFINE n == 1
  <2>1. n \in Nat /\ n >= 1 /\ Polys(C, n) /\ n = 1
    BY <1>2
  <2> HIDE DEF n
  <2> QED
    BY <2>1, ZPhaseShort
<1> QED
  BY <1>1, <1>3, <1>4 DEF C, p

\* Evaluator::mul_plain.
LEMMA MulPlainGood ==
    ASSUME NEW b, Positive(b), NEW S \in ZPoly, NEW u, GoodCt(u, S, b),
           NEW r \in [Coeffs -> 0..(T - 1)],
           NEW ct, ct.parts = CtMul(u.parts, <<FromIntegers(r, b)>>, b),
           ct.plain = PlainMul(u.plain, r), ct.noise = MulPlainNoise(u.noise), ct.valid = u.valid
    PROVE  GoodCt(ct, S, b)
<1> DEFINE p == u.parts  n == Len(p)  m == u.plain  A == u.noise  w == ct.parts
           q == <<FromIntegers(r, b)>>  D == <<r>>
<1>1. PICK C, e :
        /\ m \in [Coeffs -> 0..(T - 1)] /\ m \in ZPoly /\ A \in Nat /\ u.valid \in BOOLEAN
        /\ Lifts(C, p, b) /\ n >= 2 /\ e \in ZPoly
        /\ u.valid /\ Aligned => ZPhase(C, n, S) = ZAdd(m, ZScale(e, T)) /\ Within(e, A)
  BY GoodParts
<1>2. r \in ZPoly
  BY MessagePoly
<1>3. Lifts(D, q, b) /\ Len(q) = 1 /\ ZPhase(D, 1, S) = r
  BY <1>2, SingleLifts
<1> DEFINE H == ZProduct(C, n, D, 1)  P == ZMul(m, r)  f == ZMul(e, r)
           N == RingProductBound(T - 1, A)
<1>4. n \in Nat
  BY <1>1, LiftsFacts
<1>5. Lifts(H, w, b) /\ Len(w) = n /\ ZPhase(H, n, S) = ZMul(ZPhase(C, n, S), r)
  <2>1. n + 1 - 1 = n
    BY <1>4
  <2>2. w = CtMul(p, q, b)
    OBVIOUS
  <2> HIDE DEF D, q, w, p, H
  <2>3. /\ Lifts(ZProduct(C, Len(p), D, Len(q)), CtMul(p, q, b), b)
        /\ Len(CtMul(p, q, b)) = Len(p) + Len(q) - 1
        /\ ZPhase(ZProduct(C, Len(p), D, Len(q)), Len(p) + Len(q) - 1, S)
              = ZMul(ZPhase(C, Len(p), S), ZPhase(D, Len(q), S))
    <3>1. Lifts(C, p, b) /\ Lifts(D, q, b)
      BY <1>1, <1>3
    <3> QED
      BY <3>1, ProductParts
  <2>4. H = ZProduct(C, Len(p), D, Len(q)) /\ n = Len(p)
    BY <1>3 DEF H
  <2> QED
    BY <1>3, <2>1, <2>2, <2>3, <2>4
<1>6. /\ CarryBound(P, ProductCarry) /\ P \in ZPoly /\ ProductCarry \in Nat
      /\ ct.plain = ZMod(P) /\ T - 1 \in Nat /\ Within(r, T - 1)
  <2> HIDE DEF m
  <2> QED
    BY <1>1, ProductCarries DEF m
<1>7. f \in ZPoly
  BY <1>1, <1>2, MulType
<1>8. N \in Nat /\ ct.noise = N + ProductCarry
  <2>1. N \in Nat
    BY <1>1, <1>6, CoeffsFacts DEF RingProductBound
  <2> QED
    BY <2>1 DEF MulPlainNoise
<1>9. ct.valid /\ Aligned => ZPhase(H, n, S) = ZAdd(P, ZScale(f, T)) /\ Within(f, N)
  <2>1. SUFFICES ASSUME ct.valid, Aligned
                 PROVE  ZPhase(H, n, S) = ZAdd(P, ZScale(f, T)) /\ Within(f, N)
    OBVIOUS
  <2>2. ZPhase(C, n, S) = ZAdd(m, ZScale(e, T)) /\ Within(e, A)
    BY <1>1, <2>1
  <2> HIDE DEF H, n, m, A
  <2>3. Within(f, N)
    <3>1. Within(f, Degree * A * (T - 1))
      BY <1>1, <1>2, <1>6, <2>2, MulBound
    <3>2. N = Degree * A * (T - 1)
      BY <1>1, <1>6, CoeffsFacts DEF RingProductBound
    <3> QED
      BY <3>1, <3>2
  <2> QED
    BY <1>1, <1>2, <1>5, <2>2, <2>3, TimesMessage
<1>10. Lifts(H, ct.parts, b) /\ Len(ct.parts) = n
  BY <1>5
<1>11. ct.valid \in BOOLEAN
  BY <1>1
<1> HIDE DEF H, P, f, A, n, w, N
<1> QED
  BY <1>1, <1>6, <1>7, <1>8, <1>9, <1>10, <1>11, GoodCarried

\* Evaluator::mul.
LEMMA MulGood ==
    ASSUME NEW b, Positive(b), NEW S \in ZPoly, NEW u, NEW v, GoodCt(u, S, b), GoodCt(v, S, b),
           NEW ct, ct.parts = CtMul(u.parts, v.parts, b), ct.plain = PlainMul(u.plain, v.plain),
           ct.noise = MulNoiseBound(Larger(u.noise, v.noise)) + ProductCarry,
           ct.valid = (u.valid /\ v.valid)
    PROVE  GoodCt(ct, S, b)
<1> DEFINE p == u.parts  q == v.parts  n == Len(p)  l == Len(q)  m == u.plain  r == v.plain
           A == u.noise  B == v.noise  w == ct.parts  E == Larger(A, B)  N == MulNoiseBound(E)
<1>1. PICK C, e :
        /\ m \in [Coeffs -> 0..(T - 1)] /\ m \in ZPoly /\ A \in Nat /\ u.valid \in BOOLEAN
        /\ Lifts(C, p, b) /\ n >= 2 /\ e \in ZPoly
        /\ u.valid /\ Aligned => ZPhase(C, n, S) = ZAdd(m, ZScale(e, T)) /\ Within(e, A)
  BY GoodParts
<1>2. PICK D, d :
        /\ r \in [Coeffs -> 0..(T - 1)] /\ r \in ZPoly /\ B \in Nat /\ v.valid \in BOOLEAN
        /\ Lifts(D, q, b) /\ l >= 2 /\ d \in ZPoly
        /\ v.valid /\ Aligned => ZPhase(D, l, S) = ZAdd(r, ZScale(d, T)) /\ Within(d, B)
  BY GoodParts
<1> DEFINE k == n + l - 1  H == ZProduct(C, n, D, l)  P == ZMul(m, r)
           f == ProductNoise(m, e, r, d)
<1>3. n \in Nat /\ l \in Nat /\ k >= 2 /\ T \in Nat /\ T - 1 \in Nat /\ T - 1 <= T
  <2>1. n \in Nat
    BY <1>1, LiftsFacts
  <2>2. l \in Nat
    BY <1>2, LiftsFacts
  <2>3. k >= 2
    <3> HIDE DEF n, l
    <3> QED
      BY <1>1, <1>2, <2>1, <2>2
  <2>4. T \in Nat /\ T > 2
    BY Samples
  <2>5. T - 1 \in Nat /\ T - 1 <= T
    BY <2>4
  <2> QED
    BY <2>1, <2>2, <2>3, <2>4, <2>5
<1>4. Lifts(H, w, b) /\ Len(w) = k /\ ZPhase(H, k, S) = ZMul(ZPhase(C, n, S), ZPhase(D, l, S))
  <2>1. w = CtMul(p, q, b)
    OBVIOUS
  <2> HIDE DEF w, p, q
  <2>2. /\ Lifts(ZProduct(C, Len(p), D, Len(q)), CtMul(p, q, b), b)
        /\ Len(CtMul(p, q, b)) = Len(p) + Len(q) - 1
        /\ ZPhase(ZProduct(C, Len(p), D, Len(q)), Len(p) + Len(q) - 1, S)
              = ZMul(ZPhase(C, Len(p), S), ZPhase(D, Len(q), S))
    BY <1>1, <1>2, ProductParts
  <2> QED
    BY <2>1, <2>2
<1>5. /\ CarryBound(P, ProductCarry) /\ P \in ZPoly /\ ProductCarry \in Nat
      /\ ct.plain = ZMod(P) /\ Within(m, T - 1) /\ Within(r, T - 1)
  <2>1. ct.plain = PlainMul(m, r)
    OBVIOUS
  <2> HIDE DEF m, r
  <2> QED
    BY <1>1, <1>2, <2>1, ProductCarries
<1>6. f \in ZPoly
  BY <1>1, <1>2, TimesSum
<1>7. E \in Nat /\ A <= E /\ B <= E
  BY <1>1, <1>2 DEF Larger
<1> DEFINE g == Degree * T * E  h == Degree * E * E
<1> HIDE DEF E
<1>8. g \in Nat /\ h \in Nat /\ T * h \in Nat /\ N = (g + g) + T * h /\ N \in Nat
  <2>1. g \in Nat /\ h \in Nat /\ T * h \in Nat
    BY <1>3, <1>7, CoeffsFacts
  <2>2. N = 2 * g + T * h
    BY DEF MulNoiseBound, RingProductBound
  <2> HIDE DEF g, h
  <2>3. 2 * g = g + g
    BY <2>1
  <2> QED
    BY <2>1, <2>2, <2>3
<1>9. ct.valid /\ Aligned => ZPhase(H, k, S) = ZAdd(P, ZScale(f, T)) /\ Within(f, N)
  <2>1. SUFFICES ASSUME ct.valid, Aligned
                 PROVE  ZPhase(H, k, S) = ZAdd(P, ZScale(f, T)) /\ Within(f, N)
    OBVIOUS
  <2>2. /\ ZPhase(C, n, S) = ZAdd(m, ZScale(e, T)) /\ Within(e, A)
        /\ ZPhase(D, l, S) = ZAdd(r, ZScale(d, T)) /\ Within(d, B)
    BY <1>1, <1>2, <2>1
  <2> HIDE DEF H, k, n, l, m, r, A, B
  <2>3. Within(e, E) /\ Within(d, E) /\ Within(m, T) /\ Within(r, T)
    BY <1>1, <1>2, <1>3, <1>5, <1>7, <2>2, WithinScale
  <2> DEFINE md == ZMul(m, d)  er == ZMul(e, r)  ed == ZMul(e, d)
  <2>4. md \in ZPoly /\ Within(md, g)
    BY <1>1, <1>2, <1>3, <1>7, <2>3, MulBound, MulType
  <2>5. er \in ZPoly /\ Within(er, g)
    <3>1. Within(er, Degree * E * T)
      BY <1>1, <1>2, <1>3, <1>7, <2>3, MulBound
    <3>2. Degree * E * T = g
      BY <1>3, <1>7, CoeffsFacts
    <3> QED
      BY <1>1, <1>2, <3>1, <3>2, MulType
  <2>6. ed \in ZPoly /\ Within(ed, h)
    BY <1>1, <1>2, <1>7, <2>3, MulBound, MulType
  <2> HIDE DEF md, er, ed, g, h
  <2>7. Within(ZScale(ed, T), T * h) /\ ZScale(ed, T) \in ZPoly
    <3>1. Within(ZScale(ed, T), T * h)
      BY <1>3, <1>8, <2>6, WithinTimes
    <3>2. T \in Int
      BY <1>3
    <3> QED
      BY <2>6, <3>1, <3>2, PolyTypes
  <2>8. Within(ZAdd(md, er), g + g) /\ ZAdd(md, er) \in ZPoly /\ g + g \in Nat
    BY <1>8, <2>4, <2>5, WithinAdd, PolyTypes
  <2>9. Within(ZAdd(ZAdd(md, er), ZScale(ed, T)), (g + g) + T * h)
    BY <1>8, <2>7, <2>8, WithinAdd
  <2>10. Within(f, N)
    BY <1>8, <2>9 DEF ProductNoise, md, er, ed
  <2> HIDE DEF f, N
  <2>11. ZMul(ZAdd(m, ZScale(e, T)), ZAdd(r, ZScale(d, T))) = ZAdd(P, ZScale(f, T))
    BY <1>1, <1>2, TimesSum DEF f
  <2> QED
    BY <1>4, <2>2, <2>10, <2>11
<1>10. Lifts(H, ct.parts, b) /\ Len(ct.parts) = k
  BY <1>4
<1>11. ct.valid \in BOOLEAN /\ ct.noise = N + ProductCarry
  <2>1. ct.valid \in BOOLEAN
    BY <1>1, <1>2, Zenon
  <2> QED
    BY <2>1 DEF E
<1> HIDE DEF H, P, f, N, k, w
<1> QED
  BY <1>3, <1>5, <1>6, <1>8, <1>9, <1>10, <1>11, GoodCarried

-----------------------------------------------------------------------------
(* Key switching                                                            *)

\* A row of a key times the digit it is paired with.
DigitAndRow(D, k, a, e, O, S, w) ==
    /\ D \in ZPoly /\ k \in ZPoly /\ a \in ZPoly /\ e \in ZPoly /\ O \in ZPoly /\ S \in ZPoly
    /\ w \in Int /\ ZAdd(k, ZMul(a, S)) = ZAdd(ZScale(O, w), ZScale(e, T))

\* The phase of a digit times a key row.
LEMMA DigitTimesRow ==
    ASSUME NEW D, NEW k, NEW a, NEW e, NEW O, NEW S, NEW w, DigitAndRow(D, k, a, e, O, S, w)
    PROVE  /\ ZAdd(ZMul(D, k), ZMul(ZMul(D, a), S))
                  = ZAdd(ZMul(ZScale(D, w), O), ZScale(ZMul(D, e), T))
           /\ ZMul(D, k) \in ZPoly /\ ZMul(D, a) \in ZPoly /\ ZMul(D, e) \in ZPoly
<1>0. /\ D \in ZPoly /\ k \in ZPoly /\ a \in ZPoly /\ e \in ZPoly /\ O \in ZPoly /\ S \in ZPoly
      /\ w \in Int /\ T \in Int /\ ZAdd(k, ZMul(a, S)) = ZAdd(ZScale(O, w), ZScale(e, T))
  BY Samples DEF DigitAndRow
<1> USE <1>0
<1>1. /\ ZMul(D, k) \in ZPoly /\ ZMul(D, a) \in ZPoly /\ ZMul(D, e) \in ZPoly
      /\ ZMul(a, S) \in ZPoly /\ ZScale(O, w) \in ZPoly /\ ZScale(e, T) \in ZPoly
  BY <1>0, MulType, PolyTypes
<1>2. ZMul(ZMul(D, a), S) = ZMul(D, ZMul(a, S))
  BY MulAssociates
<1>3. ZAdd(ZMul(D, k), ZMul(D, ZMul(a, S))) = ZMul(D, ZAdd(k, ZMul(a, S)))
  BY <1>1, MulRight
<1>4. ZMul(D, ZAdd(ZScale(O, w), ZScale(e, T)))
         = ZAdd(ZMul(D, ZScale(O, w)), ZMul(D, ZScale(e, T)))
  BY <1>1, MulRight
<1>5. ZMul(D, ZScale(O, w)) = ZMul(ZScale(D, w), O)
  BY MulRight, MulScales
<1>6. ZMul(D, ZScale(e, T)) = ZScale(ZMul(D, e), T)
  BY <1>0, MulRight
<1> QED
  BY <1>1, <1>2, <1>3, <1>4, <1>5, <1>6

\* A row (K, A) under S whose message is Q, in a key meant for P.
RowFor(K, A, S, e, P, Q) ==
    /\ K \in ZPoly /\ A \in ZPoly /\ S \in ZPoly /\ e \in ZPoly /\ P \in ZPoly /\ Q \in ZPoly
    /\ ZAdd(K, ZMul(A, S)) = ZAdd(Q, ZScale(e, T))

\* The message of a row may be changed by a multiple of the modulus.
LEMMA MessageShift ==
    ASSUME NEW K, NEW A, NEW S, NEW e, NEW P, NEW Q, RowFor(K, A, S, e, P, Q)
    PROVE  /\ ZAdd(ZAdd(K, ZSub(P, Q)), ZMul(A, S)) = ZAdd(P, ZScale(e, T))
           /\ ZAdd(K, ZSub(P, P)) = K /\ ZAdd(K, ZSub(P, Q)) \in ZPoly /\ ZSub(P, Q) \in ZPoly
<1>p. /\ K \in ZPoly /\ A \in ZPoly /\ S \in ZPoly /\ e \in ZPoly /\ P \in ZPoly /\ Q \in ZPoly
      /\ ZAdd(K, ZMul(A, S)) = ZAdd(Q, ZScale(e, T))
  BY DEF RowFor
<1> USE <1>p
<1> DEFINE X == ZMul(A, S)  Y == ZScale(e, T)
<1>0. T \in Int
  BY Samples
<1>1. X \in ZPoly /\ Y \in ZPoly /\ ZSub(P, Q) \in ZPoly /\ ZSub(P, P) \in ZPoly
      /\ ZAdd(K, X) = ZAdd(Q, Y)
  BY <1>0, MulType, PolyTypes
<1> HIDE DEF X, Y
<1>2. /\ ZAdd(ZAdd(K, ZSub(P, Q)), X) \in ZPoly /\ ZAdd(P, Y) \in ZPoly
      /\ ZAdd(K, ZSub(P, P)) \in ZPoly /\ ZAdd(K, ZSub(P, Q)) \in ZPoly
  BY <1>1, PolyTypes
<1>3. ASSUME NEW i \in Coeffs
      PROVE  /\ ZAdd(ZAdd(K, ZSub(P, Q)), X)[i] = ZAdd(P, Y)[i]
             /\ ZAdd(K, ZSub(P, P))[i] = K[i]
  <2>1. K[i] \in Int /\ P[i] \in Int /\ Q[i] \in Int /\ X[i] \in Int /\ Y[i] \in Int
    BY <1>1, PolyTypes
  <2>2. ZAdd(K, X)[i] = ZAdd(Q, Y)[i]
    BY <1>1
  <2>3. K[i] + X[i] = Q[i] + Y[i]
    BY <2>2 DEF ZAdd
  <2>4. ZAdd(ZAdd(K, ZSub(P, Q)), X)[i] = (K[i] + (P[i] - Q[i])) + X[i]
        /\ ZAdd(P, Y)[i] = P[i] + Y[i] /\ ZAdd(K, ZSub(P, P))[i] = K[i] + (P[i] - P[i])
    BY DEF ZAdd, ZSub
  <2> DEFINE ki == K[i]  pi == P[i]  qi == Q[i]  xi == X[i]  yi == Y[i]
  <2>5. /\ ki \in Int /\ pi \in Int /\ qi \in Int /\ xi \in Int /\ yi \in Int
        /\ ki + xi = qi + yi
    BY <2>1, <2>3
  <2> HIDE DEF ki, pi, qi, xi, yi
  <2>6. (ki + (pi - qi)) + xi = pi + yi /\ ki + (pi - pi) = ki
    BY <2>5
  <2> QED
    BY <2>4, <2>6 DEF ki, pi, qi, xi, yi
<1>4. ZAdd(ZAdd(K, ZSub(P, Q)), X) = ZAdd(P, Y)
  BY <1>2, <1>3, SamePoly
<1>5. ZAdd(K, ZSub(P, P)) = K
  BY <1>2, <1>3, SamePoly
<1> QED
  BY <1>1, <1>2, <1>4, <1>5 DEF X, Y

\* What a row of a key consists of.
RowParts(t, pair, K, S, B, b) ==
    /\ t[1] \in ZPoly /\ t[2] \in ZPoly /\ t[3] \in ZPoly
    /\ pair = <<FromIntegers(t[1], b), FromIntegers(t[2], b)>>
    /\ ZAdd(t[1], ZMul(t[2], S)) = ZAdd(K, ZScale(t[3], T))
    /\ Within(t[3], B)

\* The polynomials under a key row.
LEMMA RowHasParts ==
    ASSUME NEW pair, NEW K, NEW S, NEW B, NEW b, RowOf(pair, K, S, B, b)
    PROVE  \E t : RowParts(t, pair, K, S, B, b)
<1>1. PICK k \in ZPoly, a \in ZPoly, e \in ZPoly :
        /\ pair = <<FromIntegers(k, b), FromIntegers(a, b)>>
        /\ ZAdd(k, ZMul(a, S)) = ZAdd(K, ZScale(e, T))
        /\ Within(e, B)
  BY DEF RowOf
<1>2. RowParts(<<k, a, e>>, pair, K, S, B, b)
  BY <1>1 DEF RowParts
<1> QED
  BY <1>2

\* The rows of an evaluation key: each encrypts the old secret times the weight
\* of its digit.
KeyRows(key, O, S, B, b) ==
    \A row \in Rows(b) : RowOf(key[row], ZScale(O, RowWeight(b, row)), S, B, b)

\* The digits are enough for every modulus.
Enough(b) == \A m \in 1..Len(b) : b[m] <= Weight(Levels)

\* key_switch: the digits of a component against the rows of a key encrypt its
\* product with the old secret under the new one, and the noise adds up to what
\* noise.rs says.
LEMMA KeySwitchGood ==
    ASSUME IsBasis(basis), Enough(basis), NEW f \in ZPoly, NEW O \in ZPoly, NEW S \in ZPoly,
           NEW B \in Nat, NEW key, KeyRows(key, O, S, B, basis)
    PROVE  RowOf(KeySwitch(FromIntegers(f, basis), key), ZMul(f, O), S,
                 RowCount(basis) * RingProductBound(Base - 1, B), basis)
<1> DEFINE b == basis  n == RowCount(b)  z == FromIntegers(f, b)
           good(t, row) == RowParts(t, key[row], ZScale(O, RowWeight(b, row)), S, B, b)
           R == [row \in 1..n |-> CHOOSE t : good(t, row)]
           D == [row \in 1..n |-> Digit(b, f, row)]
           FK == [row \in 1..n |-> ZMul(D[row], R[row][1])]
           FA == [row \in 1..n |-> ZMul(D[row], R[row][2])]
           FE == [row \in 1..n |-> ZMul(D[row], R[row][3])]
           FX == [row \in 1..n |-> ZMul(FA[row], S)]
           FQ == [row \in 1..n |-> ZMul(DigitTerms(b, f)[row], O)]
           FT == [row \in 1..n |-> ZScale(FE[row], T)]
           FS == [row \in 1..n |-> ZAdd(FK[row], FX[row])]
<1>1. /\ n \in Nat /\ Rows(b) = 1..n /\ Polys(DigitTerms(b, f), n) /\ Base - 1 \in Nat
      /\ Positive(b) /\ T \in Int
  BY DigitFacts, BasisPositive, Samples
<1>2. ASSUME NEW row \in 1..n
      PROVE  /\ R[row][1] \in ZPoly /\ R[row][2] \in ZPoly /\ R[row][3] \in ZPoly
             /\ key[row] = <<FromIntegers(R[row][1], b), FromIntegers(R[row][2], b)>>
             /\ ZAdd(R[row][1], ZMul(R[row][2], S))
                   = ZAdd(ZScale(O, RowWeight(b, row)), ZScale(R[row][3], T))
             /\ Within(R[row][3], B)
  <2>1. RowOf(key[row], ZScale(O, RowWeight(b, row)), S, B, b)
    BY <1>1 DEF KeyRows
  <2>2. \E t : good(t, row)
    BY <2>1, RowHasParts
  <2>3. R[row] = CHOOSE t : good(t, row)
    OBVIOUS
  <2>4. good(R[row], row)
    <3> HIDE DEF R
    <3> QED
      BY <2>2, <2>3
  <2> HIDE DEF R
  <2> QED
    BY <2>4 DEF RowParts
<1>3. ASSUME NEW row \in 1..n
      PROVE  /\ D[row] \in ZPoly /\ Within(D[row], Base - 1) /\ RowWeight(b, row) \in Int
             /\ Digits(z, b)[row] = FromIntegers(D[row], b)
             /\ DigitTerms(b, f)[row] = ZScale(D[row], RowWeight(b, row))
  BY <1>1, DigitFacts, RowFacts DEF DigitTerms
<1>4. ASSUME NEW row \in 1..n
      PROVE  /\ FK[row] = ZMul(D[row], R[row][1]) /\ FA[row] = ZMul(D[row], R[row][2])
             /\ FE[row] = ZMul(D[row], R[row][3]) /\ FX[row] = ZMul(FA[row], S)
             /\ FQ[row] = ZMul(DigitTerms(b, f)[row], O) /\ FT[row] = ZScale(FE[row], T)
             /\ FS[row] = ZAdd(FK[row], FX[row])
  OBVIOUS
<1>5. DOMAIN FK = 1..n /\ DOMAIN FA = 1..n
  OBVIOUS
<1> HIDE DEF R, D, FK, FA, FE, FX, FQ, FT, FS
<1>6. ASSUME NEW row \in 1..n
      PROVE  /\ FK[row] \in ZPoly /\ FA[row] \in ZPoly /\ FE[row] \in ZPoly
             /\ FS[row] = ZAdd(FQ[row], FT[row])
             /\ Within(FE[row], RingProductBound(Base - 1, B))
  <2>1. /\ ZAdd(ZMul(D[row], R[row][1]), ZMul(ZMul(D[row], R[row][2]), S))
              = ZAdd(ZMul(ZScale(D[row], RowWeight(b, row)), O), ZScale(ZMul(D[row], R[row][3]), T))
        /\ ZMul(D[row], R[row][1]) \in ZPoly /\ ZMul(D[row], R[row][2]) \in ZPoly
        /\ ZMul(D[row], R[row][3]) \in ZPoly
    <3> DEFINE d == D[row]  k == R[row][1]  a == R[row][2]  c == R[row][3]  w == RowWeight(b, row)
    <3>1. d \in ZPoly /\ k \in ZPoly /\ a \in ZPoly /\ c \in ZPoly /\ w \in Int
          /\ ZAdd(k, ZMul(a, S)) = ZAdd(ZScale(O, w), ZScale(c, T))
      BY <1>2, <1>3
    <3> HIDE DEF d, k, a, c, w
    <3>3. DigitAndRow(d, k, a, c, O, S, w)
      BY <3>1 DEF DigitAndRow
    <3>2. /\ ZAdd(ZMul(d, k), ZMul(ZMul(d, a), S)) = ZAdd(ZMul(ZScale(d, w), O), ZScale(ZMul(d, c), T))
          /\ ZMul(d, k) \in ZPoly /\ ZMul(d, a) \in ZPoly /\ ZMul(d, c) \in ZPoly
      BY <3>3, DigitTimesRow
    <3> QED
      BY <3>2 DEF d, k, a, c, w
  <2>2. Within(ZMul(D[row], R[row][3]), Degree * (Base - 1) * B)
    BY <1>1, <1>2, <1>3, MulBound
  <2> QED
    BY <1>3, <1>4, <2>1, <2>2 DEF RingProductBound
<1>7. Polys(FK, n) /\ Polys(FA, n) /\ Polys(FE, n)
  BY <1>6 DEF Polys
<1> DEFINE K == ZSum(FK, n)  A == ZSum(FA, n)  e == ZSum(FE, n)  G == ZSum(DigitTerms(b, f), n)
<1>8. /\ Totals(FK, n, K) /\ Totals(FA, n, A) /\ Totals(FE, n, e) /\ Totals(DigitTerms(b, f), n, G)
      /\ K \in ZPoly /\ A \in ZPoly /\ e \in ZPoly /\ G \in ZPoly
  BY <1>1, <1>7, ZSumStep DEF Totals
<1>9. FromIntegers(G, b) = FromIntegers(f, b)
  BY DigitsSum DEF Enough
<1> HIDE DEF K, A, e, G
<1>10. ZAdd(K, ZMul(A, S)) = ZAdd(ZMul(G, O), ZScale(e, T))
  <2>1. Totals(FX, n, ZMul(A, S))
    BY <1>4, <1>8, TotalMul
  <2>2. Totals(FQ, n, ZMul(G, O))
    BY <1>4, <1>8, TotalMul
  <2>3. Totals(FT, n, ZScale(e, T))
    BY <1>1, <1>4, <1>8, TotalScale
  <2>4. Totals(FS, n, ZAdd(K, ZMul(A, S)))
    <3> DEFINE X == ZMul(A, S)
    <3>1. Totals(FK, n, K) /\ Totals(FX, n, X) /\ \A row \in 1..n : FS[row] = ZAdd(FK[row], FX[row])
      BY <1>4, <1>8, <2>1
    <3> HIDE DEF X, n, b
    <3>2. Totals(FS, n, ZAdd(K, X))
      BY <3>1, TotalAdd
    <3> QED
      BY <3>2 DEF X
  <2>5. Totals(FS, n, ZAdd(ZMul(G, O), ZScale(e, T)))
    BY <1>6, <2>2, <2>3, TotalAdd
  <2> QED
    BY <2>4, <2>5 DEF Totals
<1>11. Within(e, n * RingProductBound(Base - 1, B))
  <2>1. RingProductBound(Base - 1, B) \in Nat
    BY <1>1, CoeffsFacts DEF RingProductBound
  <2> QED
    BY <1>1, <1>6, <1>7, <2>1, ZSumBound DEF e
<1> DEFINE P == ZMul(f, O)  Q == ZMul(G, O)  K2 == ZAdd(K, ZSub(P, Q))
<1>12. P \in ZPoly /\ Q \in ZPoly /\ FromIntegers(P, b) = FromIntegers(Q, b)
  <2>1. P \in ZPoly /\ Q \in ZPoly
    BY <1>8, MulType
  <2>2. PolyMul(FromIntegers(f, b), FromIntegers(O, b), b) = FromIntegers(P, b)
        /\ PolyMul(FromIntegers(G, b), FromIntegers(O, b), b) = FromIntegers(Q, b)
    BY <1>1, <1>8, FIMul
  <2> QED
    BY <1>9, <2>1, <2>2
<1> HIDE DEF P, Q, b, n
<1>13. /\ ZAdd(K2, ZMul(A, S)) = ZAdd(P, ZScale(e, T)) /\ K2 \in ZPoly
       /\ ZAdd(K, ZSub(P, P)) = K /\ ZSub(P, Q) \in ZPoly /\ ZSub(P, P) \in ZPoly
  <2>1. ZAdd(K, ZMul(A, S)) = ZAdd(Q, ZScale(e, T))
    BY <1>10 DEF Q
  <2>2. ZSub(P, P) \in ZPoly
    BY <1>12, PolyTypes
  <2> QED
    <3> HIDE DEF K2, e, K, A
    <3>0. RowFor(K, A, S, e, P, Q)
      BY <1>8, <1>12, <2>1 DEF RowFor
    <3>1. ZAdd(ZAdd(K, ZSub(P, Q)), ZMul(A, S)) = ZAdd(P, ZScale(e, T))
          /\ ZAdd(K, ZSub(P, P)) = K /\ ZAdd(K, ZSub(P, Q)) \in ZPoly /\ ZSub(P, Q) \in ZPoly
      BY <3>0, MessageShift
    <3> QED
      BY <2>2, <3>1 DEF K2
<1>14. FromIntegers(K2, b) = FromIntegers(K, b)
  <2>1. FromIntegers(ZSub(P, Q), b) = PolySub(FromIntegers(P, b), FromIntegers(Q, b), b)
        /\ FromIntegers(ZSub(P, P), b) = PolySub(FromIntegers(P, b), FromIntegers(P, b), b)
    BY <1>1, <1>12, FISub
  <2>2. FromIntegers(K2, b) = PolyAdd(FromIntegers(K, b), FromIntegers(ZSub(P, Q), b), b)
        /\ FromIntegers(ZAdd(K, ZSub(P, P)), b)
              = PolyAdd(FromIntegers(K, b), FromIntegers(ZSub(P, P), b), b)
    BY <1>1, <1>8, <1>13, FIAdd
  <2> QED
    BY <1>12, <1>13, <2>1, <2>2
<1>15. KeySwitch(z, key) = <<FromIntegers(K, b), FromIntegers(A, b)>>
  <2> DEFINE s == [row \in Rows(b) |-> PolyMul(Digits(z, b)[row], key[row][1], b)]
             t == [row \in Rows(b) |-> PolyMul(Digits(z, b)[row], key[row][2], b)]
  <2>1. KeySwitch(z, key) = <<PolySum(s, b), PolySum(t, b)>>
    BY DEF KeySwitch, b
  <2>2. /\ DOMAIN s = 1..n /\ DOMAIN t = 1..n
    BY <1>1
  <2>3. ASSUME NEW row \in 1..n
        PROVE  s[row] = FromIntegers(FK[row], b) /\ t[row] = FromIntegers(FA[row], b)
    <3>1. s[row] = PolyMul(FromIntegers(D[row], b), FromIntegers(R[row][1], b), b)
          /\ t[row] = PolyMul(FromIntegers(D[row], b), FromIntegers(R[row][2], b), b)
      BY <1>1, <1>2, <1>3
    <3> HIDE DEF s, t
    <3> QED
      BY <1>1, <1>2, <1>3, <1>4, <3>1, FIMul
  <2> HIDE DEF s, t
  <2>4. PolySum(s, b) = FromIntegers(K, b)
    BY <1>1, <1>7, <2>2, <2>3, FISum DEF K
  <2>5. PolySum(t, b) = FromIntegers(A, b)
    BY <1>1, <1>7, <2>2, <2>3, FISum DEF A
  <2> QED
    BY <2>1, <2>4, <2>5
<1> HIDE DEF K2, z
<1>16. KeySwitch(z, key) = <<FromIntegers(K2, b), FromIntegers(A, b)>>
  BY <1>14, <1>15
<1>17. RowOf(KeySwitch(z, key), P, S, n * RingProductBound(Base - 1, B), b)
  BY <1>8, <1>11, <1>12, <1>13, <1>16, RowFromParts
<1> QED
  BY <1>17 DEF z, P, n, b

\* A ciphertext of two components.
LEMMA GoodPair ==
    ASSUME NEW b, NEW S \in ZPoly, NEW f \in ZPoly, NEW g \in ZPoly, NEW e \in ZPoly,
           NEW ct, ct.parts = <<FromIntegers(f, b), FromIntegers(g, b)>>,
           ct.plain \in [Coeffs -> 0..(T - 1)], ct.noise \in Nat, ct.valid \in BOOLEAN,
           ct.valid /\ Aligned =>
              ZAdd(f, ZMul(g, S)) = ZAdd(ct.plain, ZScale(e, T)) /\ Within(e, ct.noise)
    PROVE  GoodCt(ct, S, b)
<1> DEFINE w == ct.parts  C == <<f, g>>
<1>1. Lifts(C, w, b) /\ Len(w) = 2 /\ ZPhase(C, 2, S) = ZAdd(f, ZMul(g, S))
  <2>1. w = <<FromIntegers(f, b), FromIntegers(g, b)>>
    OBVIOUS
  <2> HIDE DEF w
  <2> QED
    BY <2>1, PairLifts
<1> HIDE DEF w, C
<1>2. Encrypts(C, e, ct, S, b)
  BY <1>1 DEF Encrypts, w
<1> QED
  BY <1>2 DEF GoodCt

\* A pair and a row of a key, added.
PairAndRow(c1, c2, k, a, S, Q, e) ==
    /\ c1 \in ZPoly /\ c2 \in ZPoly /\ k \in ZPoly /\ a \in ZPoly /\ S \in ZPoly /\ Q \in ZPoly
    /\ e \in ZPoly /\ ZAdd(k, ZMul(a, S)) = ZAdd(Q, ZScale(e, T))

\* The phase of a pair to which a switched component is added.
LEMMA PairPlusRow ==
    ASSUME NEW c1, NEW c2, NEW k, NEW a, NEW S, NEW Q, NEW e, PairAndRow(c1, c2, k, a, S, Q, e)
    PROVE  /\ ZAdd(ZAdd(c1, k), ZMul(ZAdd(c2, a), S))
                  = ZAdd(ZAdd(ZAdd(c1, ZMul(c2, S)), Q), ZScale(e, T))
           /\ ZAdd(c1, k) \in ZPoly /\ ZAdd(c2, a) \in ZPoly
           /\ ZAdd(ZAdd(k, c1), ZMul(a, S)) = ZAdd(ZAdd(c1, Q), ZScale(e, T))
           /\ ZAdd(k, c1) \in ZPoly
<1>0. /\ c1 \in ZPoly /\ c2 \in ZPoly /\ k \in ZPoly /\ a \in ZPoly /\ S \in ZPoly /\ Q \in ZPoly
      /\ e \in ZPoly /\ T \in Int /\ ZAdd(k, ZMul(a, S)) = ZAdd(Q, ZScale(e, T))
  BY Samples DEF PairAndRow
<1> USE <1>0
<1> DEFINE X == ZMul(c2, S)  Y == ZMul(a, S)  Z == ZScale(e, T)
<1>1. /\ X \in ZPoly /\ Y \in ZPoly /\ Z \in ZPoly /\ ZAdd(k, Y) = ZAdd(Q, Z)
      /\ ZMul(ZAdd(c2, a), S) = ZAdd(X, Y)
  BY MulType, PolyTypes, MulAdds
<1> HIDE DEF X, Y, Z
<1> DEFINE L == ZAdd(ZAdd(c1, k), ZAdd(X, Y))  R == ZAdd(ZAdd(ZAdd(c1, X), Q), Z)
           L2 == ZAdd(ZAdd(k, c1), Y)  R2 == ZAdd(ZAdd(c1, Q), Z)
<1>2. L \in ZPoly /\ R \in ZPoly /\ L2 \in ZPoly /\ R2 \in ZPoly
  BY <1>1, PolyTypes
<1>3. ASSUME NEW i \in Coeffs PROVE L[i] = R[i] /\ L2[i] = R2[i]
  <2>1. /\ c1[i] \in Int /\ k[i] \in Int /\ Q[i] \in Int /\ X[i] \in Int /\ Y[i] \in Int
        /\ Z[i] \in Int
    BY <1>1, PolyTypes
  <2>2. ZAdd(k, Y)[i] = ZAdd(Q, Z)[i]
    BY <1>1
  <2>3. k[i] + Y[i] = Q[i] + Z[i]
    BY <2>2 DEF ZAdd
  <2>4. /\ L[i] = (c1[i] + k[i]) + (X[i] + Y[i]) /\ R[i] = ((c1[i] + X[i]) + Q[i]) + Z[i]
        /\ L2[i] = (k[i] + c1[i]) + Y[i] /\ R2[i] = (c1[i] + Q[i]) + Z[i]
    BY DEF ZAdd
  <2> HIDE DEF L, R, L2, R2
  <2> QED
    BY <2>1, <2>3, <2>4
<1> HIDE DEF L, R, L2, R2
<1>4. L = R /\ L2 = R2
  <2>1. L = R
    BY <1>2, <1>3, SamePoly
  <2>2. L2 = R2
    BY <1>2, <1>3, SamePoly
  <2> QED
    BY <2>1, <2>2
<1>5. ZAdd(c1, k) \in ZPoly /\ ZAdd(c2, a) \in ZPoly /\ ZAdd(k, c1) \in ZPoly
  BY PolyTypes
<1> QED
  BY <1>1, <1>4, <1>5 DEF L, R, L2, R2, X, Y, Z

\* A sum of a message, noise and more noise.
LEMMA NoiseAdds ==
    ASSUME NEW m \in ZPoly, NEW e \in ZPoly, NEW d \in ZPoly
    PROVE  /\ ZAdd(ZAdd(m, ZScale(e, T)), ZScale(d, T)) = ZAdd(m, ZScale(ZAdd(e, d), T))
           /\ ZAdd(e, d) \in ZPoly
<1>0. T \in Int
  BY Samples
<1> DEFINE L == ZAdd(ZAdd(m, ZScale(e, T)), ZScale(d, T))  R == ZAdd(m, ZScale(ZAdd(e, d), T))
<1>1. L \in ZPoly /\ R \in ZPoly /\ ZAdd(e, d) \in ZPoly
  BY <1>0, PolyTypes
<1>2. ASSUME NEW i \in Coeffs PROVE L[i] = R[i]
  <2>1. m[i] \in Int /\ e[i] \in Int /\ d[i] \in Int
    BY PolyTypes
  <2>2. L[i] = (m[i] + T * e[i]) + T * d[i] /\ R[i] = m[i] + T * (e[i] + d[i])
    BY DEF ZAdd, ZScale
  <2> DEFINE v == e[i]  w == d[i]
  <2>3. T * (v + w) = T * v + T * w /\ T * v \in Int /\ T * w \in Int
    <3> HIDE DEF v, w
    <3> QED
      BY <1>0, <2>1 DEF v, w
  <2> HIDE DEF L, R
  <2> QED
    BY <1>0, <2>1, <2>2, <2>3
<1> HIDE DEF L, R
<1>3. L = R
  BY <1>1, <1>2, SamePoly
<1> QED
  BY <1>1, <1>3 DEF L, R

\* The noise a key switch adds.
SwitchedNoise(B) == RowCount(basis) * RingProductBound(Base - 1, B)

\* The noise of a key switch is a number.
LEMMA SwitchedNoiseType ==
    ASSUME IsBasis(basis), NEW B \in Nat
    PROVE  SwitchedNoise(B) \in Nat
<1>1. RowCount(basis) \in Nat /\ Base - 1 \in Nat
  <2>1. ZZero \in ZPoly
    BY PolyTypes
  <2> QED
    BY <2>1, DigitFacts
<1>2. RingProductBound(Base - 1, B) \in Nat
  BY <1>1, CoeffsFacts DEF RingProductBound
<1> QED
  BY <1>1, <1>2 DEF SwitchedNoise

\* relinearize_real
LEMMA RelinearizeGood ==
    ASSUME IsBasis(basis), Enough(basis), NEW S \in ZPoly, NEW u, GoodCt(u, S, basis),
           Len(u.parts) = 3, NEW B \in Nat, NEW key, KeyRows(key, ZMul(S, S), S, B, basis),
           NEW ct, ct.parts = CtAdd(SubSeq(u.parts, 1, 2), KeySwitch(u.parts[3], key), basis),
           ct.plain = u.plain, ct.valid = u.valid,
           ct.noise = RelinearizeNoiseBound(RowCount(basis), u.noise, B)
    PROVE  GoodCt(ct, S, basis)
<1> DEFINE b == basis  p == u.parts  m == u.plain  A == u.noise  O == ZMul(S, S)
           N == SwitchedNoise(B)
<1>0. Positive(b) /\ O \in ZPoly /\ N \in Nat
  BY BasisPositive, MulType, SwitchedNoiseType
<1>1. PICK C, e :
        /\ m \in [Coeffs -> 0..(T - 1)] /\ m \in ZPoly /\ A \in Nat /\ u.valid \in BOOLEAN
        /\ Lifts(C, p, b) /\ Len(p) >= 2 /\ e \in ZPoly
        /\ u.valid /\ Aligned => ZPhase(C, Len(p), S) = ZAdd(m, ZScale(e, T)) /\ Within(e, A)
  BY GoodParts
<1>2. /\ C[1] \in ZPoly /\ C[2] \in ZPoly /\ C[3] \in ZPoly /\ Polys(C, 3)
      /\ p[1] = FromIntegers(C[1], b) /\ p[2] = FromIntegers(C[2], b)
      /\ p[3] = FromIntegers(C[3], b) /\ DOMAIN p = 1..3
  <2>1. /\ DOMAIN p = 1..Len(p) /\ Polys(C, Len(p))
        /\ \A c \in 1..Len(p) : p[c] = FromIntegers(C[c], b) /\ C[c] \in ZPoly
    <3> HIDE DEF p
    <3> QED
      BY <1>1, LiftsFacts
  <2> QED
    BY <2>1
<1> DEFINE Q == ZMul(C[3], O)
<1>3. PICK k \in ZPoly, a \in ZPoly, d \in ZPoly :
        /\ KeySwitch(p[3], key) = <<FromIntegers(k, b), FromIntegers(a, b)>>
        /\ ZAdd(k, ZMul(a, S)) = ZAdd(Q, ZScale(d, T))
        /\ Within(d, N)
  <2>1. RowOf(KeySwitch(FromIntegers(C[3], basis), key), ZMul(C[3], O), S, N, basis)
    <3> HIDE DEF O
    <3> QED
      BY <1>0, <1>2, KeySwitchGood DEF SwitchedNoise, O
  <2> QED
    BY <1>2, <2>1 DEF RowOf
<1>4. ZPhase(C, 3, S) = ZAdd(ZAdd(C[1], ZMul(C[2], S)), Q) /\ Q \in ZPoly
  <2>1. ZPhase(C, 3, S) = ZAdd(ZPhase(C, 2, S), ZMul(C[3], ZPowers(S)[2]))
    <3> DEFINE n == 3
    <3>1. n \in Nat /\ Polys(C, n) /\ n \in 1..n
      BY <1>2
    <3> HIDE DEF n
    <3>2. ZPhase(C, n, S) = ZAdd(ZPhase(C, n - 1, S), ZMul(C[n], ZPowers(S)[n - 1]))
      BY <3>1, ZPhaseFacts
    <3>3. n = 3 /\ n - 1 = 2
      BY DEF n
    <3> QED
      BY <3>2, <3>3
  <2>2. ZPhase(C, 2, S) = ZAdd(C[1], ZMul(C[2], S))
    <3> DEFINE n == 3
    <3>1. n \in Nat /\ Polys(C, n) /\ n >= 2
      BY <1>2
    <3> HIDE DEF n
    <3> QED
      BY <3>1, ZPhaseShort
  <2>3. ZPowers(S)[2] = O
    <3>1. IsPowers(ZPowers(S), S)
      BY ZPowersAre
    <3>2. ZPowers(S)[0 + 1] = ZMul(ZPowers(S)[0], S) /\ ZPowers(S)[1 + 1] = ZMul(ZPowers(S)[1], S)
          /\ ZPowers(S)[0] = ZOne
      BY <3>1 DEF IsPowers
    <3>3. 0 + 1 = 1 /\ 1 + 1 = 2
      OBVIOUS
    <3>4. ZMul(ZOne, S) = S
      BY MulOne
    <3> QED
      BY <3>2, <3>3, <3>4
  <2> QED
    BY <1>0, <1>2, <2>1, <2>2, <2>3, MulType
<1> HIDE DEF Q, O, N
<1> DEFINE f == ZAdd(C[1], k)  g == ZAdd(C[2], a)  h == ZAdd(e, d)
<1>5. ct.parts = <<FromIntegers(f, b), FromIntegers(g, b)>>
  <2> DEFINE s == SubSeq(p, 1, 2)  w == KeySwitch(p[3], key)
  <2>1. DOMAIN s = 1..2 /\ s[1] = FromIntegers(C[1], b) /\ s[2] = FromIntegers(C[2], b)
    <3> DEFINE v == u.parts
    <3>1. Len(v) = 3 /\ DOMAIN v = 1..3 /\ v \in Seq(Range(v)) /\ p = v
      BY <1>1, <1>2 DEF Lifts
    <3> HIDE DEF v, p
    <3>2. DOMAIN SubSeq(v, 1, 2) = 1..2 /\ SubSeq(v, 1, 2)[1] = v[1] /\ SubSeq(v, 1, 2)[2] = v[2]
      BY <3>1
    <3> QED
      BY <1>2, <3>1, <3>2
  <2>2. w[1] = FromIntegers(k, b) /\ w[2] = FromIntegers(a, b)
    BY <1>3
  <2>3. ct.parts = [c \in DOMAIN s |-> PolyAdd(s[c], w[c], b)]
    BY DEF CtAdd
  <2> HIDE DEF s, w
  <2>4. PolyAdd(s[1], w[1], b) = FromIntegers(f, b) /\ PolyAdd(s[2], w[2], b) = FromIntegers(g, b)
    BY <1>0, <1>2, <1>3, <2>1, <2>2, FIAdd
  <2> HIDE DEF f, g, b
  <2>5. ct.parts = [c \in 1..2 |-> PolyAdd(s[c], w[c], b)]
    BY <2>1, <2>3
  <2>6. <<FromIntegers(f, b), FromIntegers(g, b)>> = [c \in 1..2 |-> PolyAdd(s[c], w[c], b)]
    BY <2>4
  <2> QED
    BY <2>5, <2>6
<1>6. f \in ZPoly /\ g \in ZPoly /\ h \in ZPoly
      /\ ZAdd(f, ZMul(g, S)) = ZAdd(ZPhase(C, 3, S), ZScale(d, T))
  <2>1. PairAndRow(C[1], C[2], k, a, S, Q, d)
    BY <1>2, <1>3, <1>4 DEF PairAndRow
  <2> QED
    BY <1>1, <1>4, <2>1, PairPlusRow, PolyTypes
<1>7. ct.noise = A + N /\ ct.noise \in Nat
  BY <1>0, <1>1 DEF RelinearizeNoiseBound, SwitchedNoise, N
<1>8. ct.valid /\ Aligned =>
         ZAdd(f, ZMul(g, S)) = ZAdd(ct.plain, ZScale(h, T)) /\ Within(h, ct.noise)
  <2>1. SUFFICES ASSUME ct.valid, Aligned
                 PROVE  ZAdd(f, ZMul(g, S)) = ZAdd(m, ZScale(h, T)) /\ Within(h, A + N)
    BY <1>7
  <2>2. ZPhase(C, 3, S) = ZAdd(m, ZScale(e, T)) /\ Within(e, A)
    BY <1>1, <2>1
  <2> HIDE DEF m, A
  <2> QED
    BY <1>0, <1>1, <1>3, <1>6, <2>2, NoiseAdds, WithinAdd
<1>9. ct.plain \in [Coeffs -> 0..(T - 1)] /\ ct.valid \in BOOLEAN
  BY <1>1
<1> HIDE DEF f, g, h
<1> QED
  BY <1>5, <1>6, <1>7, <1>8, <1>9, GoodPair

\* The rotated plaintext.
LEMMA RotatedPlain ==
    ASSUME NEW m \in [Coeffs -> 0..(T - 1)]
    PROVE  /\ PlainRotate(m) = ZMod(ZAut(m, Element)) /\ ZAut(m, Element) \in ZPoly
           /\ CarryBound(ZAut(m, Element), 1)
<1> DEFINE b == <<T>>  P == ZAut(m, Element)
<1>1. /\ T \in Nat /\ T > 2 /\ T - 1 \in Nat /\ Element \in Int /\ Element % 2 = 1
      /\ m \in ZPoly /\ \A i \in Coeffs : m[i] \in Int /\ 0 <= m[i] /\ m[i] <= T - 1 /\ m[i] % T = m[i]
  BY Samples, MessagePoly
<1>2. Positive(b) /\ DOMAIN b = 1..1 /\ b[1] = T
  BY <1>1 DEF Positive
<1>3. FromIntegers(m, b) = [i \in Coeffs |-> <<m[i]>>]
  <2>1. ASSUME NEW i \in Coeffs PROVE Decompose(m[i], b) = <<m[i]>>
    <3>1. Decompose(m[i], b) = [j \in 1..1 |-> m[i] % b[j]]
      BY <1>2 DEF Decompose
    <3>2. ASSUME NEW j \in 1..1 PROVE m[i] % b[j] = m[i]
      <4>1. j = 1
        OBVIOUS
      <4> QED
        BY <1>1, <1>2, <4>1
    <3> HIDE DEF b
    <3>3. Decompose(m[i], b) = [j \in 1..1 |-> m[i]]
      BY <3>1, <3>2
    <3> QED
      BY <3>3
  <2> HIDE DEF b
  <2> QED
    BY <2>1 DEF FromIntegers
<1>4. P \in ZPoly /\ Within(P, T - 1)
  <2>1. Within(m, T - 1)
    BY <1>1 DEF Within
  <2> QED
    BY <1>1, <2>1, AutExt
<1>5. Automorphism(FromIntegers(m, b), Element, b) = FromIntegers(P, b)
  <2> HIDE DEF b
  <2> QED
    BY <1>1, <1>2, FIAut
<1>6. PlainRotate(m) = [i \in Coeffs |-> FromIntegers(P, b)[i][1]]
  BY <1>3, <1>5 DEF PlainRotate
<1> HIDE DEF P, b
<1>7. PlainRotate(m) = ZMod(P)
  <2>1. ASSUME NEW i \in Coeffs PROVE FromIntegers(P, b)[i][1] = P[i] % T
    <3>1. 1 \in DOMAIN b
      BY <1>2
    <3> QED
      BY <1>2, <1>4, <3>1, FIValue
  <2> QED
    BY <1>6, <2>1 DEF ZMod
<1>8. CarryBound(P, 1)
  <2>1. ASSUME NEW i \in Coeffs PROVE -(T * 1) <= P[i] /\ P[i] < T * (1 + 1)
    <3>1. P[i] \in Int /\ -(T - 1) <= P[i] /\ P[i] <= T - 1
      BY <1>4, PolyTypes DEF Within
    <3> QED
      BY <1>1, <3>1
  <2> QED
    BY <2>1 DEF CarryBound
<1> QED
  BY <1>4, <1>7, <1>8 DEF P

\* rotate_real
LEMMA RotateGood ==
    ASSUME IsBasis(basis), Enough(basis), NEW S \in ZPoly, NEW u, GoodCt(u, S, basis),
           Len(u.parts) = 2, NEW B \in Nat, NEW key,
           KeyRows(key, ZAut(S, Element), S, B, basis),
           NEW ct, ct.parts = CtAddPlain(KeySwitch(Automorphism(u.parts[2], Element, basis), key),
                                         Automorphism(u.parts[1], Element, basis), basis),
           ct.plain = PlainRotate(u.plain), ct.valid = u.valid,
           ct.noise = RelinearizeNoiseBound(RowCount(basis), u.noise, B) + SumCarry
    PROVE  GoodCt(ct, S, basis)
<1> DEFINE b == basis  p == u.parts  m == u.plain  A == u.noise  g == Element
           O == ZAut(S, g)  N == SwitchedNoise(B)
<1>0. Positive(b) /\ g \in Int /\ g % 2 = 1 /\ O \in ZPoly /\ N \in Nat /\ T \in Int
  <2>1. g \in Int /\ g % 2 = 1
    BY Samples
  <2> QED
    BY <2>1, BasisPositive, AutExt, SwitchedNoiseType, Samples
<1>1. PICK C, e :
        /\ m \in [Coeffs -> 0..(T - 1)] /\ m \in ZPoly /\ A \in Nat /\ u.valid \in BOOLEAN
        /\ Lifts(C, p, b) /\ Len(p) >= 2 /\ e \in ZPoly
        /\ u.valid /\ Aligned => ZPhase(C, Len(p), S) = ZAdd(m, ZScale(e, T)) /\ Within(e, A)
  BY GoodParts
<1>2. /\ C[1] \in ZPoly /\ C[2] \in ZPoly
      /\ p[1] = FromIntegers(C[1], b) /\ p[2] = FromIntegers(C[2], b)
      /\ ZPhase(C, 2, S) = ZAdd(C[1], ZMul(C[2], S))
  <2>1. /\ DOMAIN p = 1..Len(p) /\ Polys(C, Len(p))
        /\ \A c \in 1..Len(p) : p[c] = FromIntegers(C[c], b) /\ C[c] \in ZPoly
    <3> HIDE DEF p
    <3> QED
      BY <1>1, LiftsFacts
  <2>2. ZPhase(C, 2, S) = ZAdd(C[1], ZMul(C[2], S))
    <3> DEFINE n == 2
    <3>1. n \in Nat /\ Polys(C, n) /\ n >= 2 /\ n = 2
      BY <2>1
    <3> HIDE DEF n
    <3> QED
      BY <3>1, ZPhaseShort
  <2> QED
    BY <2>1, <2>2
<1> DEFINE D1 == ZAut(C[1], g)  D2 == ZAut(C[2], g)  Q == ZMul(D2, O)  X == ZMul(C[2], S)
           M == ZAut(m, g)  E == ZAut(e, g)
<1>3. /\ D1 \in ZPoly /\ D2 \in ZPoly /\ M \in ZPoly /\ E \in ZPoly /\ X \in ZPoly
      /\ Automorphism(p[1], g, b) = FromIntegers(D1, b)
      /\ Automorphism(p[2], g, b) = FromIntegers(D2, b)
      /\ Q = ZAut(X, g) /\ Q \in ZPoly /\ ZAut(ZAdd(C[1], X), g) = ZAdd(D1, Q)
  <2> HIDE DEF b, g
  <2>1. D1 \in ZPoly /\ D2 \in ZPoly /\ M \in ZPoly /\ E \in ZPoly /\ X \in ZPoly
    BY <1>0, <1>1, <1>2, AutExt, MulType
  <2>2. /\ Automorphism(p[1], g, b) = FromIntegers(D1, b)
        /\ Automorphism(p[2], g, b) = FromIntegers(D2, b)
    BY <1>0, <1>2, FIAut
  <2>3. Q = ZAut(X, g)
    BY <1>0, <1>2, AutMul
  <2>4. Q \in ZPoly
    BY <1>0, <2>1, MulType
  <2>5. ZAut(ZAdd(C[1], X), g) = ZAdd(ZAut(C[1], g), ZAut(X, g))
    <3> HIDE DEF X
    <3> QED
      BY <1>0, <1>2, <2>1, AutAdds
  <2> QED
    BY <2>1, <2>2, <2>3, <2>4, <2>5
<1>4. PICK k \in ZPoly, a \in ZPoly, d \in ZPoly :
        /\ KeySwitch(FromIntegers(D2, b), key) = <<FromIntegers(k, b), FromIntegers(a, b)>>
        /\ ZAdd(k, ZMul(a, S)) = ZAdd(Q, ZScale(d, T))
        /\ Within(d, N)
  <2>1. RowOf(KeySwitch(FromIntegers(D2, basis), key), ZMul(D2, O), S, N, basis)
    <3> HIDE DEF O, D2
    <3> QED
      BY <1>0, <1>3, KeySwitchGood DEF SwitchedNoise, O
  <2> QED
    BY <2>1 DEF RowOf
<1> HIDE DEF Q, O, N, D1, D2
<1> DEFINE f == ZAdd(k, D1)  w == ct.parts  C2 == <<f, a>>  h == ZAdd(E, d)
<1>5. ct.parts = <<FromIntegers(f, b), FromIntegers(a, b)>>
  <2>1. ct.parts = CtAddPlain(<<FromIntegers(k, b), FromIntegers(a, b)>>, FromIntegers(D1, b), b)
    BY <1>3, <1>4
  <2>2. PolyAdd(FromIntegers(k, b), FromIntegers(D1, b), b) = FromIntegers(f, b)
    BY <1>0, <1>3, FIAdd
  <2> HIDE DEF f
  <2> QED
    BY <2>1, <2>2 DEF CtAddPlain
<1>6. f \in ZPoly /\ h \in ZPoly /\ ZAdd(f, ZMul(a, S)) = ZAdd(ZAdd(D1, Q), ZScale(d, T))
  <2>1. PairAndRow(D1, D2, k, a, S, Q, d)
    BY <1>3, <1>4 DEF PairAndRow
  <2> QED
    BY <1>3, <2>1, PairPlusRow, PolyTypes
<1>7. PlainRotate(m) = ZMod(M) /\ CarryBound(M, 1)
  <2> HIDE DEF m
  <2> QED
    BY <1>1, RotatedPlain
<1> DEFINE N2 == A + N
<1>8. N2 \in Nat /\ ct.noise = N2 + 1
  BY <1>0, <1>1 DEF RelinearizeNoiseBound, SwitchedNoise, N, SumCarry
<1>9. Lifts(C2, w, b) /\ Len(w) = 2 /\ ZPhase(C2, 2, S) = ZAdd(f, ZMul(a, S))
  <2> HIDE DEF w, f
  <2> QED
    BY <1>5, <1>6, PairLifts DEF w
<1> HIDE DEF f, C2
<1>10. ct.valid /\ Aligned =>
          ZPhase(C2, 2, S) = ZAdd(M, ZScale(h, T)) /\ Within(h, N2)
  <2>1. SUFFICES ASSUME ct.valid, Aligned
                 PROVE  ZPhase(C2, 2, S) = ZAdd(M, ZScale(h, T)) /\ Within(h, N2)
    OBVIOUS
  <2>2. ZAdd(C[1], X) = ZAdd(m, ZScale(e, T)) /\ Within(e, A)
    BY <1>1, <1>2, <2>1
  <2> HIDE DEF m, A, g
  <2>3. ZAut(ZAdd(m, ZScale(e, T)), g) = ZAdd(M, ZScale(E, T))
    <3>1. ZScale(e, T) \in ZPoly
      BY <1>0, <1>1, PolyTypes
    <3>2. ZAut(ZScale(e, T), g) = ZScale(E, T)
      BY <1>0, <1>1, AutAdds
    <3>3. ZAut(ZAdd(m, ZScale(e, T)), g) = ZAdd(ZAut(m, g), ZAut(ZScale(e, T), g))
      BY <1>0, <1>1, <3>1, AutAdds
    <3> QED
      BY <3>2, <3>3
  <2>4. Within(E, A)
    BY <1>0, <1>1, <2>2, AutExt
  <2> HIDE DEF M, E, X
  <2>5. ZPhase(C2, 2, S) = ZAdd(ZAdd(M, ZScale(E, T)), ZScale(d, T))
    BY <1>3, <1>6, <1>9, <2>2, <2>3
  <2> QED
    BY <1>0, <1>1, <1>3, <1>4, <2>4, <2>5, NoiseAdds, WithinAdd
<1>11. ct.valid \in BOOLEAN /\ ct.plain = ZMod(M)
  BY <1>1, <1>7
<1> DEFINE K == 1
<1>12. K \in Nat /\ CarryBound(M, K) /\ ct.noise = N2 + K /\ Len(w) >= 2
  BY <1>7, <1>8, <1>9
<1>13. ct.valid /\ Aligned =>
          ZPhase(C2, Len(w), S) = ZAdd(M, ZScale(h, T)) /\ Within(h, N2)
  BY <1>9, <1>10
<1> HIDE DEF K, N2, h, M, w, E
<1> QED
  BY <1>3, <1>6, <1>8, <1>9, <1>11, <1>12, <1>13, GoodCarried DEF w

-----------------------------------------------------------------------------
(* Modulus switching                                                        *)

\* How far the noise of several components adds up under the secret.
LEMMA PhaseBound ==
    ASSUME NEW S \in ZPoly, NEW n \in Nat, Within(S, n), NEW k \in Nat, NEW D, Polys(D, k),
           NEW B \in Nat, \A c \in 1..k : Within(D[c], B)
    PROVE  LET w == SumOf([c \in 1..k |-> Power(Degree * n, c - 1)])
           IN  w \in Nat /\ B * w \in Nat /\ Within(ZPhase(D, k, S), B * w)
<1> DEFINE s == [c \in 1..k |-> Power(Degree * n, c - 1)]
<1>1. ASSUME NEW c \in 1..k
      PROVE  /\ s[c] \in Nat /\ B * s[c] \in Nat
             /\ D[c] \in ZPoly /\ Within(ZMul(D[c], ZPowers(S)[c - 1]), B * s[c])
  <2>1. c - 1 \in Nat /\ D[c] \in ZPoly
    BY DEF Polys
  <2> DEFINE l == c - 1
  <2>2. s[c] = Power(Degree * n, l)
    OBVIOUS
  <2> HIDE DEF l, s
  <2>3. /\ Power(Degree * n, l) \in Nat /\ B * Power(Degree * n, l) \in Nat
        /\ Within(ZMul(D[c], ZPowers(S)[l]), B * Power(Degree * n, l))
    BY <2>1, ZPowersBound DEF l
  <2> QED
    BY <2>1, <2>2, <2>3 DEF l
<1>2. s \in Seq(Int) /\ Len(s) = k
  <2>1. ASSUME NEW c \in 1..k PROVE Power(Degree * n, c - 1) \in Int
    <3>1. s[c] = Power(Degree * n, c - 1)
      OBVIOUS
    <3> HIDE DEF s
    <3> QED
      BY <1>1, <3>1
  <2> QED
    BY <2>1
<1> HIDE DEF s
<1>3. PICK p \in [0..k -> Int] :
        /\ p[0] = 0 /\ SumOf(s) = p[k]
        /\ \A c \in 1..k : p[c] = p[c - 1] + s[c]
  BY <1>2, SumSteps
<1> DEFINE G == {c \in Nat : c <= k => p[c] \in Nat /\ Within(ZPhase(D, c, S), B * p[c])}
<1>4. 0 \in G
  <2>1. ZPhase(D, 0, S) = ZZero
    BY ZPhaseFacts
  <2>2. Within(ZZero, B * 0)
    BY DEF Within, ZZero
  <2> QED
    BY <1>3, <2>1, <2>2
<1>5. ASSUME NEW c \in Nat, c \in G PROVE c + 1 \in G
  <2> SUFFICES ASSUME c + 1 <= k
               PROVE  p[c + 1] \in Nat /\ Within(ZPhase(D, c + 1, S), B * p[c + 1])
    OBVIOUS
  <2> DEFINE l == c + 1
  <2>1. l \in 1..k /\ l - 1 = c /\ c \in 0..k /\ l \in Nat
    OBVIOUS
  <2>2. p[c] \in Nat /\ Within(ZPhase(D, c, S), B * p[c])
    BY <1>5
  <2> HIDE DEF G, l
  <2>3. p[l] = p[c] + s[l]
    BY <1>3, <2>1
  <2>4. ZPhase(D, l, S) = ZAdd(ZPhase(D, c, S), ZMul(D[l], ZPowers(S)[c]))
        /\ ZPhase(D, c, S) \in ZPoly
    BY <2>1, ZPhaseFacts
  <2>5. /\ s[l] \in Nat /\ B * s[l] \in Nat /\ D[l] \in ZPoly
        /\ Within(ZMul(D[l], ZPowers(S)[c]), B * s[l])
    BY <1>1, <2>1
  <2> DEFINE a == p[c]  d == s[l]  X == ZPhase(D, c, S)  Y == ZMul(D[l], ZPowers(S)[c])
  <2>6. Y \in ZPoly
    <3>1. ZPowers(S)[c] \in ZPoly
      BY ZPowersAre DEF IsPowers
    <3> QED
      BY <2>5, <3>1, MulType
  <2>7. a \in Nat /\ d \in Nat /\ X \in ZPoly /\ Within(X, B * a) /\ Within(Y, B * d)
    BY <2>2, <2>4, <2>5
  <2> HIDE DEF a, d, X, Y
  <2>8. B * a \in Nat /\ B * d \in Nat /\ B * (a + d) = B * a + B * d
    BY <2>7
  <2>9. Within(ZAdd(X, Y), B * a + B * d)
    BY <2>6, <2>7, <2>8, WithinAdd
  <2>10. a + d \in Nat /\ Within(ZAdd(X, Y), B * (a + d))
    BY <2>7, <2>8, <2>9
  <2> QED
    BY <2>3, <2>4, <2>10 DEF l, a, d, X, Y
<1> HIDE DEF G
<1>6. k \in G
  BY <1>4, <1>5, InductionSet
<1>7. p[k] \in Nat /\ Within(ZPhase(D, k, S), B * p[k])
  BY <1>6 DEF G
<1>8. B * p[k] \in Nat
  BY <1>7
<1> QED
  BY <1>3, <1>7, <1>8 DEF s

\* The part that modulus_switch_down adds to a component is a multiple of T, if
\* the modulus it drops is 1 modulo T.
LEMMA SwitchCarry ==
    ASSUME NEW t \in Nat, t > 1, NEW q \in Nat, q % t = 1, NEW u \in Int, NEW v \in Int,
           q * v - u \in 0..(q * t - 1), v % t = u % t
    PROVE  \E d \in Int : q * v = u + t * d /\ 0 <= d /\ d <= q - 1
<1>1. Cong(q, 1, t)
  <2>1. 1 % t = 1
    BY QuotientUnique, 1 = 0 * t + 1, 0 \in Int, 1 \in 0..(t - 1)
  <2>2. q \in Int /\ 1 \in Int /\ t > 0 /\ q % t = 1 % t
    BY <2>1
  <2> DEFINE o == 1
  <2>3. o \in Int /\ q % t = o % t
    BY <2>2
  <2> HIDE DEF o
  <2>4. Cong(q, o, t)
    BY <2>2, <2>3, CongIff
  <2> QED
    BY <2>4 DEF o
<1>2. Cong(v, u, t)
  BY CongIff
<1>3. PICK a \in Int : q = 1 + a * t
  BY <1>1 DEF Cong
<1>4. PICK c \in Int : v = u + c * t
  BY <1>2 DEF Cong
<1> DEFINE d == a * v + c
<1>5. d \in Int /\ q * v = u + t * d
  <2>1. q * v = v + (a * t) * v
    BY <1>3
  <2>2. (a * t) * v = t * (a * v)
    OBVIOUS
  <2> DEFINE g == a * v
  <2>3. g \in Int /\ d = g + c /\ c * t = t * c
    OBVIOUS
  <2>4. v = u + t * c
    BY <1>4, <2>3
  <2>5. q * v = v + t * g
    BY <2>1, <2>2
  <2> DEFINE qv == q * v
  <2>6. qv = (u + t * c) + t * g /\ qv \in Int
    BY <2>4, <2>5
  <2> HIDE DEF g, d, qv
  <2>7. t * (g + c) = t * g + t * c
    BY <2>3
  <2>8. qv = u + t * d
    BY <2>3, <2>6, <2>7
  <2> QED
    BY <2>3, <2>8 DEF qv
<1> HIDE DEF d
<1>6. t * d \in 0..(q * t - 1) /\ q * t = t * q
  <2> DEFINE td == t * d  qv == q * v
  <2>1. td \in Int /\ qv = u + td /\ qv - u \in 0..(q * t - 1)
    BY <1>5
  <2> HIDE DEF td, qv
  <2> QED
    BY <2>1 DEF td
<1>7. 0 <= d
  <2>1. SUFFICES ASSUME d <= -1 PROVE FALSE
    BY <1>5
  <2>2. t * d <= t * (-1)
    BY <1>5, <2>1
  <2> QED
    BY <1>6, <2>2
<1>8. d <= q - 1
  <2>1. SUFFICES ASSUME d >= q PROVE FALSE
    BY <1>5
  <2>2. t * d >= t * q
    BY <1>5, <2>1
  <2> DEFINE td == t * d  tq == t * q
  <2>3. td \in Int /\ tq \in Int /\ td <= tq - 1 /\ td >= tq
    BY <1>5, <1>6, <2>2
  <2> QED
    BY <2>3
<1> QED
  BY <1>5, <1>7, <1>8

\* The error after the switch, from q z = m + T (e + d).
LEMMA SwitchedError ==
    ASSUME NEW t \in Nat, t > 1, NEW r \in Nat, NEW q, q = 1 + t * r, NEW z \in Int,
           NEW m \in 0..(t - 1), NEW e \in Int, NEW d \in Int, q * z = m + t * (e + d),
           NEW A \in Nat, -A <= e, e <= A, NEW w \in Nat, -((q - 1) * w) <= d, d <= (q - 1) * w
    PROVE  LET f == (e + d) - r * z
               N == (1 + A) \div q + 2 + w
           IN  /\ z = m + t * f /\ f \in Int
               /\ -N <= f /\ f <= N /\ N \in Nat
<1> DEFINE h == e + d  rz == r * z  f == h - rz
           v == (1 + A) \div q  N == v + 2 + w
<1>0. q \in Nat /\ q > 0 /\ q >= 1 /\ h \in Int /\ rz \in Int /\ f \in Int /\ t * r \in Nat
      /\ t * r = q - 1
  OBVIOUS
<1>1. v \in Nat /\ 1 + A < v * q + q /\ N \in Nat
  <2>1. v \in Nat
    BY <1>0, QuotientNat
  <2>2. (1 + A) % q \in 0..(q - 1) /\ 1 + A = v * q + ((1 + A) % q)
    BY <1>0, Quotient
  <2>3. v * q \in Int
    BY <1>0, <2>1
  <2> QED
    BY <1>0, <2>1, <2>2, <2>3
<1> HIDE DEF v
<1>2. q * z = z + t * rz
  <2>1. (1 + t * r) * z = z + (t * r) * z
    OBVIOUS
  <2>2. (t * r) * z = t * (r * z)
    OBVIOUS
  <2> QED
    BY <2>1, <2>2
<1>3. z = m + t * f
  <2> HIDE DEF h, rz
  <2>1. t * (h - rz) = t * h - t * rz
    BY <1>0
  <2>2. z + t * rz = m + t * h
    BY <1>2 DEF h
  <2> DEFINE th == t * h  tz == t * rz
  <2>3. th \in Int /\ tz \in Int
    BY <1>0
  <2> HIDE DEF th, tz
  <2>4. z = m + (th - tz)
    BY <2>2, <2>3 DEF th, tz
  <2> QED
    BY <2>1, <2>4 DEF th, tz
<1>4. q * f = h - r * m
  <2>1. q * (h - rz) = q * h - q * rz
    <3> HIDE DEF h, rz
    <3> QED
      BY <1>0
  <2>2. q * rz = r * (q * z)
    BY <1>0
  <2>3. q * z = m + t * h
    OBVIOUS
  <2> HIDE DEF h
  <2>4. r * (m + t * h) = r * m + r * (t * h)
    BY <1>0
  <2>5. r * (t * h) = (t * r) * h
    BY <1>0
  <2>6. (t * r) * h = q * h - h
    <3>1. (q - 1) * h = q * h - h
      BY <1>0
    <3> QED
      BY <1>0, <3>1
  <2> DEFINE qh == q * h  rm == r * m
  <2>7. qh \in Int /\ rm \in Int
    BY <1>0
  <2> HIDE DEF qh, rm, rz
  <2>8. q * rz = rm + (qh - h)
    BY <2>2, <2>3, <2>4, <2>5, <2>6 DEF qh, rm
  <2>9. q * f = qh - (rm + (qh - h))
    BY <2>1, <2>8 DEF qh
  <2> QED
    BY <1>0, <2>7, <2>9 DEF rm
<1>5. 0 <= r * m /\ r * m <= q - 1 /\ r * m \in Int
  <2>1. r * m <= r * t
    BY m <= t
  <2>2. r * t = t * r /\ 0 <= r * m
    OBVIOUS
  <2> QED
    BY <1>0, <2>1, <2>2
<1> DEFINE qw == q * w
<1>6. (q - 1) * w = qw - w /\ qw \in Nat
  BY <1>0
<1> DEFINE qf == q * f  rm == r * m  vq == v * q
<1>7. qf \in Int /\ vq \in Int /\ rm \in Int
  BY <1>0, <1>1
<1> HIDE DEF qw, qf, rm, f, h, vq
<1>8. qf <= vq + q + qw /\ -(vq + q + (q + qw)) <= qf
  <2>1. qf = (e + d) - rm
    BY <1>4 DEF qf, rm, h
  <2>2. 0 <= rm /\ rm <= q - 1
    BY <1>5 DEF rm
  <2>3. d <= qw - w /\ -(qw - w) <= d
    BY <1>6
  <2>4. 1 + A < vq + q
    BY <1>1 DEF vq
  <2> QED
    BY <1>0, <1>6, <1>7, <2>1, <2>2, <2>3, <2>4
<1>9. q * N = vq + (q + q) + qw
  <2>1. q * (v + 2 + w) = q * v + q * 2 + q * w
    BY <1>0, <1>1
  <2>2. q * v = v * q /\ q * 2 = q + q
    BY <1>0, <1>1
  <2> QED
    BY <2>1, <2>2 DEF vq, qw
<1> DEFINE qN == q * N
<1>10. qN \in Int /\ qf <= qN /\ -qN <= qf
  <2>1. q * N = vq + (q + q) + qw
    BY <1>9
  <2> QED
    BY <1>0, <1>6, <1>7, <1>8, <2>1
<1> HIDE DEF N
<1>11. f <= N
  <2>1. SUFFICES ASSUME f >= N + 1 PROVE FALSE
    BY <1>0, <1>1
  <2>2. q * f >= q * (N + 1)
    BY <1>0, <1>1, <2>1
  <2>3. q * (N + 1) = q * N + q
    BY <1>0, <1>1
  <2> QED
    BY <1>0, <1>7, <1>10, <2>2, <2>3 DEF qf
<1>12. -N <= f
  <2>1. SUFFICES ASSUME f <= -(N + 1) PROVE FALSE
    BY <1>0, <1>1
  <2>2. q * f <= q * (-(N + 1))
    BY <1>0, <1>1, <2>1
  <2>3. q * (-(N + 1)) = -(q * N + q)
    BY <1>0, <1>1
  <2> QED
    BY <1>0, <1>7, <1>10, <2>2, <2>3 DEF qf
<1> QED
  BY <1>0, <1>1, <1>3, <1>11, <1>12 DEF f, h, N, v

\* What modulus_switch_down makes of the residues of v: those of t[1], which is
\* v, less a multiple of the modulus product, plus T t[3], divided by the last
\* modulus.
DropsTo(t, v, b) ==
    /\ t[1] \in Int /\ t[2] \in Int /\ t[3] \in Int
    /\ ModulusSwitchDown(Decompose(v, b), b, T) = Decompose(t[1], DropLast(b))
    /\ b[Len(b)] % T = 1 =>
          /\ b[Len(b)] * t[1] = (v - BasisProduct(b) * t[2]) + T * t[3]
          /\ 0 <= t[3] /\ t[3] <= b[Len(b)] - 1

\* modulus_switch_down of one coefficient.
LEMMA CoefficientDrops ==
    ASSUME NEW b, IsBasis(b), Len(b) > 1, InvertsIn(b[Len(b)], T), NEW v \in Int
    PROVE  \E t : DropsTo(t, v, b)
<1> DEFINE q == b[Len(b)]  Q == BasisProduct(b)  z == v % Q  g == v \div Q  f == DropLast(b)
<1>1. T \in Nat /\ T > 1 /\ Q \in Nat /\ Q > 0
  BY Samples, ProductFacts
<1>2. z \in 0..(Q - 1) /\ g \in Int /\ v = g * Q + z
  BY <1>1, Quotient
<1>3. Decompose(v, b) = Decompose(z, b)
  <2>1. ASSUME NEW j \in DOMAIN b PROVE v % b[j] = z % b[j]
    <3>1. j \in 1..Len(b) /\ b[j] \in Nat /\ b[j] > 0
      BY BasisPositive DEF Positive
    <3>2. Divides(b[j], Q)
      BY <3>1, ProductFacts
    <3>3. Cong(v, z, Q)
      <4> HIDE DEF z, g, Q
      <4>1. v = z + g * Q /\ z \in Int
        BY <1>1, <1>2
      <4> QED
        BY <1>2, <4>1 DEF Cong
    <3> DEFINE p == b[j]
    <3> HIDE DEF z, Q, p
    <3>4. p \in Nat /\ p > 0 /\ p \in Int /\ z \in Int /\ Divides(p, Q) /\ Q \in Int
      BY <1>1, <1>2, <3>1, <3>2 DEF p
    <3>5. Cong(v, z, p)
      BY <3>3, <3>4, CongDivisor
    <3>6. v % p = z % p
      BY <3>4, <3>5, CongIff
    <3> QED
      BY <3>6 DEF p
  <2> HIDE DEF z
  <2> QED
    BY <2>1 DEF Decompose
<1>4. q \in Nat /\ \E w \in Int : /\ ModulusSwitchDown(Decompose(z, b), b, T) = Decompose(w, f)
                   /\ q * w - z \in 0..(q * T - 1) /\ w % T = z % T
  <2> HIDE DEF z
  <2> QED
    <3>1. z \in 0..(BasisProduct(b) - 1)
      BY <1>2 DEF Q
    <3> HIDE DEF Q
    <3>2. T \in Nat /\ T > 1
      BY <1>1
    <3> QED
      BY <3>1, <3>2, SwitchDown
<1>5. PICK w \in Int : /\ ModulusSwitchDown(Decompose(z, b), b, T) = Decompose(w, f)
                       /\ q * w - z \in 0..(q * T - 1) /\ w % T = z % T
  BY <1>4
<1> HIDE DEF q, z, f, g, Q
<1>6. CASE q % T = 1
  <2>1. PICK d \in Int : q * w = z + T * d /\ 0 <= d /\ d <= q - 1
    <3>1. z \in Int
      BY <1>1, <1>2
    <3> QED
      BY <1>1, <1>4, <1>5, <1>6, <3>1, SwitchCarry
  <2>2. z = v - Q * g
    <3>1. Q * g = g * Q /\ g * Q \in Int
      BY <1>1, <1>2
    <3> QED
      BY <1>1, <1>2, <3>1
  <2> DEFINE t == <<w, g, d>>
  <2>3. t[1] = w /\ t[2] = g /\ t[3] = d
    OBVIOUS
  <2> HIDE DEF t
  <2>4. DropsTo(t, v, b)
    BY <1>2, <1>3, <1>5, <2>1, <2>2, <2>3 DEF DropsTo, q, f, Q
  <2> QED
    BY <2>4
<1>7. CASE q % T # 1
  <2> DEFINE t == <<w, 0, 0>>
  <2>1. t[1] = w /\ t[2] = 0 /\ t[3] = 0
    OBVIOUS
  <2> HIDE DEF t
  <2>2. DropsTo(t, v, b)
    BY <1>3, <1>5, <1>7, <2>1 DEF DropsTo, q, f
  <2> QED
    BY <2>2
<1> QED
  BY <1>6, <1>7

\* The same for the components of a ciphertext.
Drops(H, V, D, C, n, b) ==
    /\ Polys(H, n) /\ Polys(V, n) /\ Polys(D, n)
    /\ \A c \in 1..n : \A i \in Coeffs : DropsTo(<<H[c][i], V[c][i], D[c][i]>>, C[c][i], b)

\* modulus_switch_down of every coefficient of every component.
LEMMA ComponentsDrop ==
    ASSUME NEW b, IsBasis(b), Len(b) > 1, InvertsIn(b[Len(b)], T), NEW n \in Nat, NEW C, Polys(C, n)
    PROVE  \E H, V, D : Drops(H, V, D, C, n, b)
<1> DEFINE R == [c \in 1..n |-> [i \in Coeffs |-> CHOOSE t : DropsTo(t, C[c][i], b)]]
           H == [c \in 1..n |-> [i \in Coeffs |-> R[c][i][1]]]
           V == [c \in 1..n |-> [i \in Coeffs |-> R[c][i][2]]]
           D == [c \in 1..n |-> [i \in Coeffs |-> R[c][i][3]]]
<1>1. ASSUME NEW c \in 1..n, NEW i \in Coeffs PROVE DropsTo(R[c][i], C[c][i], b)
  <2>1. C[c][i] \in Int
    <3>1. C[c] \in ZPoly
      BY DEF Polys
    <3> QED
      BY <3>1, PolyTypes
  <2>2. \E t : DropsTo(t, C[c][i], b)
    BY <2>1, CoefficientDrops
  <2>3. R[c][i] = CHOOSE t : DropsTo(t, C[c][i], b)
    OBVIOUS
  <2> HIDE DEF R
  <2> QED
    BY <2>2, <2>3
<1>2. ASSUME NEW c \in 1..n
      PROVE  /\ H[c] = [i \in Coeffs |-> R[c][i][1]] /\ V[c] = [i \in Coeffs |-> R[c][i][2]]
             /\ D[c] = [i \in Coeffs |-> R[c][i][3]]
  OBVIOUS
<1>2a. ASSUME NEW c \in 1..n, NEW i \in Coeffs
       PROVE  H[c][i] = R[c][i][1] /\ V[c][i] = R[c][i][2] /\ D[c][i] = R[c][i][3]
  OBVIOUS
<1> HIDE DEF R, H, V, D
<1>3. ASSUME NEW c \in 1..n PROVE H[c] \in ZPoly /\ V[c] \in ZPoly /\ D[c] \in ZPoly
  <2>1. ASSUME NEW i \in Coeffs
        PROVE  R[c][i][1] \in Int /\ R[c][i][2] \in Int /\ R[c][i][3] \in Int
    BY <1>1 DEF DropsTo
  <2> QED
    BY <1>2, <2>1 DEF ZPoly
<1>4. ASSUME NEW c \in 1..n, NEW i \in Coeffs
      PROVE  DropsTo(<<H[c][i], V[c][i], D[c][i]>>, C[c][i], b)
  <2> DEFINE t == <<H[c][i], V[c][i], D[c][i]>>
  <2>1. t[1] = R[c][i][1] /\ t[2] = R[c][i][2] /\ t[3] = R[c][i][3]
    <3>1. t[1] = H[c][i] /\ t[2] = V[c][i] /\ t[3] = D[c][i]
      OBVIOUS
    <3> HIDE DEF t
    <3>2. H[c][i] = R[c][i][1]
      BY <1>2a
    <3>3. V[c][i] = R[c][i][2]
      BY <1>2a
    <3>4. D[c][i] = R[c][i][3]
      BY <1>2a
    <3> QED
      BY <3>1, <3>2, <3>3, <3>4
  <2> HIDE DEF t
  <2> DEFINE s == R[c][i]
  <2>2. DropsTo(s, C[c][i], b) /\ t[1] = s[1] /\ t[2] = s[2] /\ t[3] = s[3]
    BY <1>1, <2>1
  <2> HIDE DEF s
  <2>3. DropsTo(t, C[c][i], b)
    BY <2>2 DEF DropsTo
  <2> QED
    BY <2>3 DEF t
<1>5. Drops(H, V, D, C, n, b)
  BY <1>3, <1>4 DEF Drops, Polys
<1> QED
  BY <1>5

\* Dropping the last modulus q of b, for a whole ciphertext: q times the new
\* phase is the old one plus a multiple of T.
LEMMA PhaseDrops ==
    ASSUME NEW b, IsBasis(b), Len(b) > 1, b[Len(b)] % T = 1, NEW S \in ZPoly, NEW n \in Nat,
           NEW C, Polys(C, n), NEW H, NEW V, NEW D, Drops(H, V, D, C, n, b)
    PROVE  LET q == b[Len(b)]
               f == DropLast(b)
               Z == ZAdd(ZPhase(H, n, S), ZScale(ZPhase(V, n, S), BasisProduct(f)))
           IN  /\ ZScale(Z, q) = ZAdd(ZPhase(C, n, S), ZScale(ZPhase(D, n, S), T))
               /\ Z \in ZPoly /\ ZPhase(H, n, S) \in ZPoly /\ ZPhase(D, n, S) \in ZPoly
               /\ FromIntegers(ZPhase(H, n, S), f) = FromIntegers(Z, f)
               /\ \A c \in 1..n : Within(D[c], q - 1)
<1> DEFINE q == b[Len(b)]  f == DropLast(b)  Q == BasisProduct(b)  P == BasisProduct(f)
           h == ZPhase(H, n, S)  v == ZPhase(V, n, S)  d == ZPhase(D, n, S)  c0 == ZPhase(C, n, S)
           Z == ZAdd(h, ZScale(v, P))
<1>1. /\ b \in Seq(Nat) /\ Len(b) \in Nat /\ Len(b) > 1 /\ q \in Nat /\ q > 1 /\ IsBasis(f)
      /\ f \in Seq(Nat) /\ b = f \o <<q>> /\ P \in Nat /\ Q \in Nat /\ T \in Int
  <2>1. b \in Seq(Nat) /\ \A i \in 1..Len(b) : b[i] > 1
    BY DEF IsBasis
  <2>2. /\ f \in Seq(Nat) /\ b = f \o <<q>> /\ q \in Nat /\ q > 1 /\ <<q>> \in Seq(Nat)
        /\ Len(b) \in Nat
    BY <2>1 DEF DropLast
  <2>3. IsBasis(f)
    <3> HIDE DEF f, q
    <3>1. IsBasis(f \o <<q>>)
      BY <2>2
    <3> QED
      BY <2>2, <3>1, BasisParts
  <2>4. P \in Nat /\ Q \in Nat
    BY <2>3, ProductFacts
  <2>5. T \in Int
    BY Samples
  <2> HIDE DEF q, f, P, Q
  <2> QED
    BY <2>1, <2>2, <2>3, <2>4, <2>5
<1>2. Q = P * q
  <2> HIDE DEF f, q
  <2>1. f \in Seq(Int) /\ <<q>> \in Seq(Int) /\ q \in Int
    BY <1>1
  <2>2. BasisProduct(f \o <<q>>) = BasisProduct(f) * BasisProduct(<<q>>)
    BY <2>1, ProductConcat
  <2>3. BasisProduct(<<q>>) = q
    BY <2>1, ProductSingle
  <2> QED
    BY <1>1, <2>2, <2>3
<1>3. Polys(H, n) /\ Polys(V, n) /\ Polys(D, n)
  BY DEF Drops
<1>4. ASSUME NEW c \in 1..n, NEW i \in Coeffs
      PROVE  /\ q * H[c][i] = (C[c][i] - Q * V[c][i]) + T * D[c][i]
             /\ 0 <= D[c][i] /\ D[c][i] <= q - 1
  <2> DEFINE t == <<H[c][i], V[c][i], D[c][i]>>
  <2>1. DropsTo(t, C[c][i], b)
    BY DEF Drops
  <2>2. t[1] = H[c][i] /\ t[2] = V[c][i] /\ t[3] = D[c][i]
    OBVIOUS
  <2> HIDE DEF t
  <2> QED
    BY <2>1, <2>2 DEF DropsTo
<1>5. ASSUME NEW c \in 1..n PROVE Within(D[c], q - 1)
  <2>1. ASSUME NEW i \in Coeffs PROVE -(q - 1) <= D[c][i] /\ D[c][i] <= q - 1
    <3>1. D[c][i] \in Int
      <4>1. D[c] \in ZPoly
        BY <1>3 DEF Polys
      <4> QED
        BY <4>1, PolyTypes
    <3>2. 0 <= D[c][i] /\ D[c][i] <= q - 1
      BY <1>4
    <3> DEFINE dv == D[c][i]
    <3>3. dv \in Int /\ 0 <= dv /\ dv <= q - 1 /\ q \in Nat /\ q > 0
      BY <1>1, <3>1, <3>2
    <3> HIDE DEF q, dv
    <3>4. -(q - 1) <= dv /\ dv <= q - 1
      BY <3>3
    <3> QED
      BY <3>4 DEF dv
  <2> QED
    BY <2>1 DEF Within
<1> DEFINE HQ == [c \in 1..n |-> ZScale(H[c], q)]  VQ == [c \in 1..n |-> ZScale(V[c], Q)]
           DT == [c \in 1..n |-> ZScale(D[c], T)]  CV == [c \in 1..n |-> ZSub(C[c], VQ[c])]
<1>6. ASSUME NEW c \in 1..n
      PROVE  /\ HQ[c] = ZScale(H[c], q) /\ VQ[c] = ZScale(V[c], Q)
             /\ DT[c] = ZScale(D[c], T) /\ CV[c] = ZSub(C[c], VQ[c])
  OBVIOUS
<1> HIDE DEF HQ, VQ, DT, CV, q, Q
<1>7. ASSUME NEW c \in 1..n PROVE HQ[c] = ZAdd(CV[c], DT[c])
  <2>1. H[c] \in ZPoly /\ V[c] \in ZPoly /\ D[c] \in ZPoly /\ C[c] \in ZPoly
    BY <1>3 DEF Polys
  <2>0. /\ HQ[c] = ZScale(H[c], q) /\ VQ[c] = ZScale(V[c], Q)
        /\ DT[c] = ZScale(D[c], T) /\ CV[c] = ZSub(C[c], VQ[c])
    BY <1>6
  <2>2. VQ[c] \in ZPoly /\ HQ[c] \in ZPoly /\ CV[c] \in ZPoly /\ DT[c] \in ZPoly
    <3>1. q \in Int /\ Q \in Int /\ T \in Int
      BY <1>1
    <3>2. VQ[c] \in ZPoly /\ HQ[c] \in ZPoly /\ DT[c] \in ZPoly
      BY <2>0, <2>1, <3>1, PolyTypes
    <3> QED
      BY <2>0, <2>1, <3>2, PolyTypes
  <2>3. HQ[c] \in ZPoly /\ ZAdd(CV[c], DT[c]) \in ZPoly
    BY <2>2, PolyTypes
  <2>4. ASSUME NEW i \in Coeffs PROVE HQ[c][i] = ZAdd(CV[c], DT[c])[i]
    <3>1. HQ[c][i] = q * H[c][i]
      BY <2>0 DEF ZScale
    <3>2. ZAdd(CV[c], DT[c])[i] = (C[c][i] - Q * V[c][i]) + T * D[c][i]
      BY <2>0 DEF ZAdd, ZSub, ZScale
    <3> QED
      BY <1>4, <3>1, <3>2
  <2> QED
    BY <2>3, <2>4, SamePoly
<1>8. h \in ZPoly /\ v \in ZPoly /\ d \in ZPoly /\ c0 \in ZPoly
  BY <1>3, ZPhaseFacts
<1>9. /\ Polys(HQ, n) /\ ZPhase(HQ, n, S) = ZScale(h, q)
      /\ Polys(VQ, n) /\ ZPhase(VQ, n, S) = ZScale(v, Q)
      /\ Polys(DT, n) /\ ZPhase(DT, n, S) = ZScale(d, T)
  <2>0. q \in Int /\ Q \in Int /\ T \in Int
    BY <1>1
  <2>a. \A c \in 1..n : HQ[c] = ZScale(H[c], q)
    BY <1>6
  <2>b. \A c \in 1..n : VQ[c] = ZScale(V[c], Q)
    BY <1>6
  <2>c. \A c \in 1..n : DT[c] = ZScale(D[c], T)
    BY <1>6
  <2>1. Polys(HQ, n) /\ ZPhase(HQ, n, S) = ZScale(h, q)
    BY <1>3, <2>0, <2>a, ZPhaseScales
  <2>2. Polys(VQ, n) /\ ZPhase(VQ, n, S) = ZScale(v, Q)
    BY <1>3, <2>0, <2>b, ZPhaseScales
  <2>3. Polys(DT, n) /\ ZPhase(DT, n, S) = ZScale(d, T)
    BY <1>3, <2>0, <2>c, ZPhaseScales
  <2> QED
    BY <2>1, <2>2, <2>3
<1>10. Polys(CV, n) /\ ZPhase(CV, n, S) = ZSub(c0, ZScale(v, Q))
  <2>1. EachSub(CV, C, VQ, n)
    BY <1>6 DEF EachSub
  <2> QED
    BY <1>9, <2>1, ZPhaseLinear
<1>11. ZScale(h, q) = ZAdd(ZSub(c0, ZScale(v, Q)), ZScale(d, T))
  <2>1. EachAdd(HQ, CV, DT, n)
    BY <1>7 DEF EachAdd
  <2>2. ZPhase(HQ, n, S) = ZAdd(ZPhase(CV, n, S), ZPhase(DT, n, S))
    BY <1>9, <1>10, <2>1, ZPhaseLinear
  <2> QED
    BY <1>9, <1>10, <2>2
<1> HIDE DEF h, v, d, c0, P
<1>12. Z \in ZPoly
  BY <1>1, <1>8, PolyTypes
<1>13. ZScale(Z, q) = ZAdd(c0, ZScale(d, T))
  <2> DEFINE L == ZScale(Z, q)  R == ZAdd(c0, ZScale(d, T))
  <2>1. L \in ZPoly /\ R \in ZPoly
    BY <1>1, <1>8, <1>12, PolyTypes
  <2>2. ASSUME NEW i \in Coeffs PROVE L[i] = R[i]
    <3>1. h[i] \in Int /\ v[i] \in Int /\ d[i] \in Int /\ c0[i] \in Int
      BY <1>8, PolyTypes
    <3>2. ZScale(h, q)[i] = ZAdd(ZSub(c0, ZScale(v, Q)), ZScale(d, T))[i]
      BY <1>11
    <3>3. q * h[i] = (c0[i] - Q * v[i]) + T * d[i]
      BY <3>2 DEF ZScale, ZAdd, ZSub
    <3>4. L[i] = q * (h[i] + P * v[i]) /\ R[i] = c0[i] + T * d[i]
      BY DEF ZScale, ZAdd
    <3> DEFINE hi == h[i]  vi == v[i]  di == d[i]  ci == c0[i]
    <3>5. /\ hi \in Int /\ vi \in Int /\ di \in Int /\ ci \in Int
          /\ q * hi = (ci - Q * vi) + T * di /\ L[i] = q * (hi + P * vi) /\ R[i] = ci + T * di
      BY <3>1, <3>3, <3>4
    <3> HIDE DEF hi, vi, di, ci, L, R
    <3>6. q * (P * vi) = Q * vi
      BY <1>1, <1>2, <3>5
    <3> DEFINE pv == P * vi
    <3>7. pv \in Int
      BY <1>1, <3>5
    <3>8. q * (hi + pv) = q * hi + q * pv
      <4> HIDE DEF pv
      <4> QED
        BY <1>1, <3>5, <3>7
    <3> DEFINE Qv == Q * vi  Td == T * di
    <3>9. Qv \in Int /\ Td \in Int
      BY <1>1, <3>5
    <3> HIDE DEF Qv, Td
    <3>10. q * hi + q * pv = ((ci - Qv) + Td) + Qv
      BY <3>5, <3>6 DEF Qv, Td
    <3> QED
      BY <3>5, <3>8, <3>9, <3>10 DEF Td
  <2> HIDE DEF L, R
  <2>3. L = R
    BY <2>1, <2>2, SamePoly
  <2> QED
    BY <2>3 DEF L, R
<1>14. FromIntegers(h, f) = FromIntegers(Z, f)
  <2>1. Positive(f)
    BY <1>1, BasisPositive
  <2>2. ASSUME NEW i \in Coeffs, NEW j \in DOMAIN f PROVE Cong(h[i], Z[i], f[j])
    <3>1. j \in 1..Len(f) /\ f[j] \in Nat
      BY <1>1, BasisPositive DEF Positive
    <3>2. Divides(f[j], P)
      BY <1>1, <3>1, ProductFacts DEF P
    <3>3. PICK k \in Int : P = k * f[j]
      BY <3>2 DEF Divides
    <3>4. h[i] \in Int /\ v[i] \in Int /\ Z[i] = h[i] + P * v[i]
      BY <1>8, PolyTypes DEF ZAdd, ZScale
    <3> DEFINE hi == h[i]  vi == v[i]  p == f[j]  zi == Z[i]  g == -(k * vi)
    <3>5. hi \in Int /\ vi \in Int /\ p \in Int /\ zi = hi + P * vi /\ P = k * p
      BY <3>1, <3>3, <3>4
    <3> HIDE DEF hi, vi, p, zi
    <3>6. P * vi = (k * vi) * p /\ g \in Int
      BY <3>5
    <3> DEFINE kv == k * vi
    <3>7. kv \in Int /\ (-kv) * p = -(kv * p) /\ kv * p \in Int
      <4>1. kv \in Int
        BY <3>5
      <4> HIDE DEF kv
      <4> QED
        BY <3>5, <4>1
    <3>8. hi = zi + g * p
      <4>1. zi = hi + kv * p
        BY <3>5, <3>6
      <4> HIDE DEF kv
      <4>2. g = -kv
        BY DEF kv
      <4> QED
        BY <3>5, <3>7, <4>1, <4>2
    <3>9. Cong(hi, zi, p)
      BY <3>6, <3>8 DEF Cong
    <3> QED
      BY <3>9 DEF hi, zi, p
  <2> HIDE DEF Z, f
  <2> QED
    BY <1>8, <1>12, <2>1, <2>2, FISame
<1> HIDE DEF Z, f
<1> QED
  BY <1>5, <1>8, <1>12, <1>13, <1>14 DEF Z, f, h, v, d, c0, P, q

\* What a switch by q leaves of a phase m + T e, with a rounding error d.
AfterSwitch(q, Z, m, e, d, A, w) ==
    /\ q \in Nat /\ q > 1 /\ q % T = 1 /\ Z \in ZPoly /\ m \in [Coeffs -> 0..(T - 1)]
    /\ e \in ZPoly /\ d \in ZPoly /\ A \in Nat /\ w \in Nat
    /\ ZScale(Z, q) = ZAdd(ZAdd(m, ZScale(e, T)), ZScale(d, T))
    /\ Within(e, A) /\ Within(d, (q - 1) * w)

\* The noise of a switched ciphertext, from q Z = m + T (e + d).
LEMMA SwitchedPhase ==
    ASSUME NEW q, NEW Z, NEW m, NEW e, NEW d, NEW A, NEW w, AfterSwitch(q, Z, m, e, d, A, w)
    PROVE  LET N == (1 + A) \div q + 2 + w
           IN  /\ N \in Nat
               /\ \E f \in ZPoly : Z = ZAdd(m, ZScale(f, T)) /\ Within(f, N)
<1>p. /\ q \in Nat /\ q > 1 /\ q % T = 1 /\ Z \in ZPoly /\ m \in [Coeffs -> 0..(T - 1)]
      /\ e \in ZPoly /\ d \in ZPoly /\ A \in Nat /\ w \in Nat
      /\ ZScale(Z, q) = ZAdd(ZAdd(m, ZScale(e, T)), ZScale(d, T))
      /\ Within(e, A) /\ Within(d, (q - 1) * w)
  BY DEF AfterSwitch
<1> USE <1>p
<1> DEFINE N == (1 + A) \div q + 2 + w  r == q \div T
           f == [i \in Coeffs |-> (e[i] + d[i]) - r * Z[i]]
<1>1. T \in Nat /\ T > 1 /\ T > 0
  BY Samples
<1>2. r \in Nat /\ q = 1 + T * r
  <2>1. r \in Nat
    BY <1>1, QuotientNat
  <2>2. q = r * T + (q % T)
    BY <1>1, Quotient
  <2>3. r * T = T * r /\ r * T \in Int
    BY <1>1, <2>1
  <2> QED
    BY <1>1, <2>1, <2>2, <2>3
<1> HIDE DEF r
<1>3. ASSUME NEW i \in Coeffs
      PROVE  /\ Z[i] = m[i] + T * f[i] /\ f[i] \in Int
             /\ -N <= f[i] /\ f[i] <= N /\ N \in Nat
  <2> DEFINE zi == Z[i]  mi == m[i]  ei == e[i]  di == d[i]
  <2>1. zi \in Int /\ mi \in 0..(T - 1) /\ ei \in Int /\ di \in Int
    BY PolyTypes
  <2>2. q * zi = mi + T * (ei + di)
    <3>1. ZScale(Z, q)[i] = ZAdd(ZAdd(m, ZScale(e, T)), ZScale(d, T))[i]
      OBVIOUS
    <3>2. q * zi = (mi + T * ei) + T * di
      BY <3>1 DEF ZScale, ZAdd
    <3> HIDE DEF zi, mi, ei, di
    <3>3. T * (ei + di) = T * ei + T * di /\ T * ei \in Int /\ T * di \in Int
      BY <1>1, <2>1
    <3> QED
      BY <1>1, <2>1, <3>2, <3>3
  <2>3. -A <= ei /\ ei <= A /\ -((q - 1) * w) <= di /\ di <= (q - 1) * w
    BY DEF Within
  <2>4. f[i] = (ei + di) - r * zi
    OBVIOUS
  <2> HIDE DEF zi, mi, ei, di, f
  <2> DEFINE t == T
  <2>5. t \in Nat /\ t > 1 /\ mi \in 0..(t - 1) /\ q = 1 + t * r /\ q * zi = mi + t * (ei + di)
    BY <1>1, <1>2, <2>1, <2>2
  <2> HIDE DEF t
  <2>6. LET g == (ei + di) - r * zi
        IN  /\ zi = mi + t * g /\ g \in Int
            /\ -((1 + A) \div q + 2 + w) <= g /\ g <= (1 + A) \div q + 2 + w
            /\ (1 + A) \div q + 2 + w \in Nat
    BY <1>2, <2>1, <2>3, <2>5, SwitchedError
  <2> QED
    BY <2>4, <2>6 DEF t, zi, mi
<1>4. f \in ZPoly
  <2>1. f = [i \in Coeffs |-> f[i]]
    OBVIOUS
  <2> HIDE DEF f
  <2> QED
    BY <1>3, <2>1 DEF ZPoly
<1>5. m \in ZPoly
  BY MessagePoly
<1> HIDE DEF f
<1>6. Z = ZAdd(m, ZScale(f, T))
  <2>1. ZAdd(m, ZScale(f, T)) \in ZPoly
    <3>1. T \in Int
      BY <1>1
    <3> QED
      BY <1>4, <1>5, <3>1, PolyTypes
  <2>2. ASSUME NEW i \in Coeffs PROVE Z[i] = ZAdd(m, ZScale(f, T))[i]
    <3>1. ZAdd(m, ZScale(f, T))[i] = m[i] + T * f[i]
      BY DEF ZAdd, ZScale
    <3> QED
      BY <1>3, <3>1
  <2> QED
    BY <2>1, <2>2, SamePoly
<1>7. N \in Nat
  <2>1. (1 + A) \div q \in Nat
    BY QuotientNat
  <2> QED
    BY <2>1
<1>8. Within(f, N)
  BY <1>3 DEF Within
<1> QED
  BY <1>4, <1>6, <1>7, <1>8

\* switch_next_real
LEMMA SwitchGood ==
    ASSUME IsBasis(basis), Len(basis) > 1, InvertsIn(basis[Len(basis)], T),
           Aligned => basis[Len(basis)] % T = 1,
           NEW S \in ZPoly, SecretBound \in Nat, Within(S, SecretBound),
           NEW u, GoodCt(u, S, basis), NEW ct,
           ct.parts = [c \in DOMAIN u.parts |->
                          [i \in Coeffs |-> ModulusSwitchDown(u.parts[c][i], basis, T)]],
           ct.plain = u.plain, ct.valid = u.valid, ct.noise = SwitchNoise(u.noise, u.parts)
    PROVE  GoodCt(ct, S, DropLast(basis))
<1> DEFINE b == basis  q == b[Len(b)]  g == DropLast(b)  p == u.parts  n == Len(p)  m == u.plain
           A == u.noise  w == SumOf([c \in 1..n |-> Power(Degree * SecretBound, c - 1)])
           v == ct.parts
<1>1. PICK C, e :
        /\ m \in [Coeffs -> 0..(T - 1)] /\ m \in ZPoly /\ A \in Nat /\ u.valid \in BOOLEAN
        /\ Lifts(C, p, b) /\ n >= 2 /\ e \in ZPoly
        /\ u.valid /\ Aligned => ZPhase(C, n, S) = ZAdd(m, ZScale(e, T)) /\ Within(e, A)
  BY GoodParts
<1>2. /\ n \in Nat /\ DOMAIN p = 1..n /\ Polys(C, n)
      /\ \A c \in 1..n : p[c] = FromIntegers(C[c], b)
  <2> HIDE DEF p
  <2> QED
    BY <1>1, LiftsFacts
<1>3. PICK H, V, D : Drops(H, V, D, C, n, b)
  <2> HIDE DEF n
  <2> QED
    BY <1>2, ComponentsDrop
<1>4. Lifts(H, v, g) /\ Len(v) = n /\ Polys(H, n)
  <2>1. Polys(H, n)
    BY <1>3 DEF Drops
  <2>2. v = [c \in 1..n |-> [i \in Coeffs |-> ModulusSwitchDown(p[c][i], b, T)]]
    BY <1>2
  <2> HIDE DEF v, n, p, g
  <2>3. ASSUME NEW c \in 1..n PROVE v[c] = FromIntegers(H[c], g)
    <3>1. ASSUME NEW i \in Coeffs
          PROVE  ModulusSwitchDown(p[c][i], b, T) = Decompose(H[c][i], g)
      <4>1. p[c][i] = Decompose(C[c][i], b)
        <5>1. p[c] = FromIntegers(C[c], b)
          BY <1>2
        <5> QED
          BY <5>1 DEF FromIntegers
      <4> DEFINE t == <<H[c][i], V[c][i], D[c][i]>>
      <4>2. DropsTo(t, C[c][i], b)
        BY <1>3 DEF Drops
      <4>3. t[1] = H[c][i]
        OBVIOUS
      <4> HIDE DEF t
      <4> QED
        BY <4>1, <4>2, <4>3 DEF DropsTo, g
    <3>2. v[c] = [i \in Coeffs |-> ModulusSwitchDown(p[c][i], b, T)]
      BY <2>2
    <3> QED
      BY <3>1, <3>2 DEF FromIntegers
  <2>4. v = [c \in 1..n |-> v[c]]
    BY <2>2
  <2>5. n >= 1
    BY <1>1, <1>2
  <2> QED
    BY <1>2, <2>1, <2>3, <2>4, <2>5, LiftsMade
<1>5. q \in Nat /\ q > 1 /\ IsBasis(g)
  <2>1. b \in Seq(Nat) /\ \A i \in 1..Len(b) : b[i] > 1
    BY DEF IsBasis
  <2>2. /\ g \in Seq(Nat) /\ b = g \o <<q>> /\ q \in Nat /\ q > 1 /\ <<q>> \in Seq(Nat)
    BY <2>1 DEF DropLast
  <2> HIDE DEF g, q
  <2>3. IsBasis(g \o <<q>>)
    BY <2>2
  <2> QED
    BY <2>2, <2>3, BasisParts
<1> DEFINE N == (1 + A) \div q + 2 + w
<1>6. ct.noise = N
  BY <1>2 DEF SwitchNoise
<1>7. w \in Nat
  <2> DEFINE B == 0  F == [c \in 1..n |-> ZZero]
  <2>1. B \in Nat /\ Polys(F, n) /\ \A c \in 1..n : Within(F[c], B)
    <3>1. ZZero \in ZPoly /\ Within(ZZero, 0)
      BY PolyTypes DEF Within, ZZero
    <3>2. \A c \in 1..n : F[c] = ZZero
      OBVIOUS
    <3> HIDE DEF F, n
    <3>3. Polys(F, n)
      BY <3>1, <3>2 DEF Polys
    <3>4. \A c \in 1..n : Within(F[c], 0)
      BY <3>1, <3>2
    <3> QED
      BY <3>3, <3>4
  <2> HIDE DEF B, F, n
  <2> QED
    BY <1>2, <2>1, PhaseBound
<1>8. N \in Nat
  <2>1. (1 + A) \div q \in Nat
    <3> DEFINE a == 1 + A
    <3>1. a \in Int /\ a >= 0 /\ q \in Nat /\ q > 0
      BY <1>1, <1>5
    <3> HIDE DEF a, q
    <3>2. a \div q \in Nat
      BY <3>1, QuotientNat
    <3> QED
      BY <3>2 DEF a
  <2> QED
    BY <1>7, <2>1
<1> HIDE DEF w
<1>9. ct.valid \in BOOLEAN /\ ct.plain \in [Coeffs -> 0..(T - 1)] /\ ct.noise \in Nat
  BY <1>1, <1>6, <1>8
<1>10. CASE ct.valid /\ Aligned
  <2>0. q % T = 1 /\ ZPhase(C, n, S) = ZAdd(m, ZScale(e, T)) /\ Within(e, A)
    BY <1>1, <1>10
  <2> DEFINE d == ZPhase(D, n, S)  h == ZPhase(H, n, S)
             Z == ZAdd(h, ZScale(ZPhase(V, n, S), BasisProduct(g)))
  <2>1. /\ ZScale(Z, q) = ZAdd(ZPhase(C, n, S), ZScale(d, T))
        /\ Z \in ZPoly /\ h \in ZPoly /\ d \in ZPoly
        /\ FromIntegers(h, g) = FromIntegers(Z, g)
        /\ \A c \in 1..n : Within(D[c], q - 1)
    <3> HIDE DEF n
    <3> QED
      BY <1>2, <1>3, <2>0, PhaseDrops
  <2>2. Within(d, (q - 1) * w)
    <3>1. q - 1 \in Nat /\ Polys(D, n)
      BY <1>3, <1>5 DEF Drops
    <3> DEFINE B == q - 1
    <3> HIDE DEF n, B, q
    <3>2. Within(d, B * w)
      BY <1>2, <2>1, <3>1, PhaseBound DEF w, B
    <3> QED
      BY <3>2 DEF B
  <2> HIDE DEF Z, d, h
  <2>3. PICK f \in ZPoly : Z = ZAdd(m, ZScale(f, T)) /\ Within(f, N)
    <3>1. ZScale(Z, q) = ZAdd(ZAdd(m, ZScale(e, T)), ZScale(d, T))
      BY <2>0, <2>1
    <3> HIDE DEF q, m, A
    <3>2. /\ q \in Nat /\ q > 1 /\ q % T = 1 /\ Z \in ZPoly /\ m \in [Coeffs -> 0..(T - 1)]
          /\ e \in ZPoly /\ d \in ZPoly /\ A \in Nat /\ Within(e, A) /\ w \in Nat
      BY <1>1, <1>5, <1>7, <2>0, <2>1
    <3>3. AfterSwitch(q, Z, m, e, d, A, w)
      BY <2>2, <3>1, <3>2 DEF AfterSwitch
    <3> HIDE DEF b, g, p, n, v, w
    <3> DEFINE Y == (1 + A) \div q + 2 + w
    <3>4. \E f \in ZPoly : Z = ZAdd(m, ZScale(f, T)) /\ Within(f, Y)
      BY <3>3, SwitchedPhase
    <3>5. N = Y
      OBVIOUS
    <3> HIDE DEF N, Y
    <3> QED
      BY <3>4, <3>5
  <2>4. PICK F : Lifts(F, v, g) /\ ZPhase(F, Len(v), S) = Z
    <3>1. Positive(g)
      BY <1>5, BasisPositive
    <3>2. FromIntegers(ZPhase(H, Len(v), S), g) = FromIntegers(Z, g)
      BY <1>4, <2>1 DEF h
    <3> HIDE DEF v, g
    <3> QED
      BY <1>4, <2>1, <3>1, <3>2, Adjust
  <2>5. Encrypts(F, f, ct, S, g)
    <3>1. Len(v) >= 2
      BY <1>1, <1>4
    <3>2. ZPhase(F, Len(v), S) = ZAdd(ct.plain, ZScale(f, T)) /\ Within(f, ct.noise)
      BY <1>6, <2>3, <2>4
    <3> HIDE DEF g, m, n
    <3> QED
      BY <2>3, <2>4, <3>1, <3>2 DEF Encrypts
  <2> HIDE DEF g
  <2> QED
    BY <1>9, <2>5 DEF GoodCt, g
<1>11. CASE ~(ct.valid /\ Aligned)
  <2>1. Encrypts(H, e, ct, S, g)
    <3>1. Len(v) >= 2
      BY <1>1, <1>4
    <3> HIDE DEF g, n
    <3> QED
      BY <1>1, <1>4, <1>11, <3>1 DEF Encrypts
  <2> HIDE DEF g
  <2> QED
    BY <1>9, <2>1 DEF GoodCt, g
<1> QED
  BY <1>10, <1>11

-----------------------------------------------------------------------------
(* Re-encryption to other holders                                           *)

\* The shares of ReEncryptor, as sequences over the holders.
SwitchShares(s1, s2, c1, pk, b) ==
    /\ DOMAIN s1 = Holders /\ DOMAIN s2 = Holders
    /\ \A p \in Holders : /\ s1[p] = SwitchShare(p, c1, pk, T, b)[1]
                          /\ s2[p] = SwitchShare(p, c1, pk, T, b)[2]

\* The sum of the smudged masks.
Smudged(k, n, e) == ZAdd(ZMul(k, TernarySum(n, 0)), ZScale(SmudgeSum(n, e), T))

\* What the shares of ReEncryptor add up to.
LEMMA SwitchSums ==
    ASSUME NEW b, Positive(b), IsHolders(holders), NEW k \in ZPoly, NEW a \in ZPoly,
           NEW pk, pk = <<FromIntegers(k, b), FromIntegers(a, b)>>, NEW c \in ZPoly,
           NEW s1, NEW s2, SwitchShares(s1, s2, FromIntegers(c, b), pk, b)
    PROVE  LET n == Len(holders)
               M == ZAdd(Smudged(k, n, 0), ZMul(KeyPoly(holders), c))
           IN  /\ PolySum(s1, b) = FromIntegers(M, b) /\ M \in ZPoly
               /\ PolySum(s2, b) = FromIntegers(Smudged(a, n, 1), b)
<1> DEFINE n == Len(holders)  S == KeyPoly(holders)  K == [p \in 1..n |-> ZMul(holders[p], c)]
           U == HolderTernaries(n, 0)  E == HolderSmudges(n, 0)  D == HolderSmudges(n, 1)
           f == [p \in 1..n |-> ZAdd(ZMul(k, U[p]), ZScale(E[p], T))]
           F == [p \in 1..n |-> ZAdd(f[p], K[p])]
           G == [p \in 1..n |-> ZAdd(ZMul(a, U[p]), ZScale(D[p], T))]
           m == Smudged(k, n, 0)  kw == ZMul(S, c)
<1>1. n \in Nat /\ Holders = 1..n /\ Totals(holders, n, S)
      /\ \A p \in 1..n : holders[p] \in ZPoly
  BY HolderFacts, HolderTotal DEF Holders
<1> HIDE DEF n, S
<1>2. /\ Totals(U, n, TernarySum(n, 0)) /\ Totals(E, n, SmudgeSum(n, 0))
      /\ Totals(D, n, SmudgeSum(n, 1))
      /\ \A p \in 1..n : /\ U[p] = HolderTernary(p, 0) /\ E[p] = HolderSmudge(p, 0)
                         /\ D[p] = HolderSmudge(p, 1)
  <2> DEFINE o == 0  i == 1
  <2>1. o \in Int /\ i \in Int
    OBVIOUS
  <2> HIDE DEF o, i
  <2>2. /\ Totals(HolderTernaries(n, o), n, ZSum(HolderTernaries(n, o), n))
        /\ Totals(HolderSmudges(n, o), n, ZSum(HolderSmudges(n, o), n))
        /\ Totals(HolderSmudges(n, i), n, ZSum(HolderSmudges(n, i), n))
        /\ \A p \in 1..n : /\ HolderTernaries(n, o)[p] = HolderTernary(p, o)
                           /\ HolderSmudges(n, o)[p] = HolderSmudge(p, o)
                           /\ HolderSmudges(n, i)[p] = HolderSmudge(p, i)
    BY <1>1, <2>1, SampleTotals
  <2> QED
    BY <2>2 DEF SmudgeSum, TernarySum, o, i
<1>3. \A p \in 1..n : U[p] \in ZPoly /\ E[p] \in ZPoly /\ D[p] \in ZPoly
  BY <1>1, <1>2 DEF Totals, Polys
<1>k. Totals(K, n, kw) /\ \A p \in 1..n : K[p] = ZMul(holders[p], c)
  <2>1. \A p \in 1..n : K[p] = ZMul(holders[p], c)
    OBVIOUS
  <2> HIDE DEF K
  <2> QED
    BY <1>1, <2>1, TotalMul
<1>kp. \A p \in 1..n : K[p] \in ZPoly
  BY <1>k DEF Totals, Polys
<1> HIDE DEF U, E, D, K, kw
<1>4. Totals(f, n, m)
  <2>1. \A p \in 1..n : f[p] = ZAdd(ZMul(k, U[p]), ZScale(E[p], T))
    OBVIOUS
  <2> HIDE DEF f
  <2> QED
    BY <1>2, <2>1, MaskTotal DEF Smudged
<1>5. Totals(F, n, ZAdd(m, kw))
  <2>1. \A p \in 1..n : F[p] = ZAdd(f[p], K[p])
    OBVIOUS
  <2> HIDE DEF f, F, m
  <2> QED
    BY <1>k, <1>4, <2>1, TotalAdd
<1>6. Totals(G, n, Smudged(a, n, 1))
  <2>1. \A p \in 1..n : G[p] = ZAdd(ZMul(a, U[p]), ZScale(D[p], T))
    OBVIOUS
  <2> HIDE DEF G
  <2> QED
    BY <1>2, <2>1, MaskTotal DEF Smudged
<1>7. ASSUME NEW p \in 1..n
      PROVE  s1[p] = FromIntegers(F[p], b) /\ s2[p] = FromIntegers(G[p], b)
  <2> DEFINE u == FromIntegers(U[p], b)  v == f[p]  w == K[p]
  <2> DEFINE U1 == U[p]  E1 == E[p]  D1 == D[p]
  <2>0. U1 \in ZPoly /\ E1 \in ZPoly /\ D1 \in ZPoly /\ v = ZAdd(ZMul(k, U1), ZScale(E1, T))
        /\ G[p] = ZAdd(ZMul(a, U1), ZScale(D1, T))
    BY <1>3
  <2>1. /\ PolyAdd(PolyMul(u, FromIntegers(k, b), b), Scaled(E[p], T, b), b) = FromIntegers(v, b)
        /\ v \in ZPoly
    <3> HIDE DEF v, U1, E1, D1
    <3>1. /\ PolyAdd(PolyMul(FromIntegers(U1, b), FromIntegers(k, b), b), Scaled(E1, T, b), b)
                 = FromIntegers(v, b)
          /\ v \in ZPoly
      BY <2>0, MaskIs
    <3> QED
      BY <3>1 DEF U1, E1
  <2>2. PolyAdd(PolyMul(u, FromIntegers(a, b), b), Scaled(D[p], T, b), b) = FromIntegers(G[p], b)
    <3> DEFINE r == G[p]
    <3> HIDE DEF U1, E1, D1, r
    <3>1. PolyAdd(PolyMul(FromIntegers(U1, b), FromIntegers(a, b), b), Scaled(D1, T, b), b)
             = FromIntegers(r, b)
      BY <2>0, MaskIs DEF r
    <3> QED
      BY <3>1 DEF U1, D1, r
  <2>3. F[p] = ZAdd(v, w)
    OBVIOUS
  <2>4. PolyMul(HolderSecret(p, b), FromIntegers(c, b), b) = FromIntegers(w, b) /\ w \in ZPoly
    <3>1. HolderSecret(p, b) = FromIntegers(holders[p], b) /\ holders[p] \in ZPoly
      BY <1>1, HolderSecretIs
    <3>2. w = ZMul(holders[p], c) /\ w \in ZPoly
      BY <1>k, <1>kp
    <3> HIDE DEF w
    <3> QED
      BY <3>1, <3>2, FIMul
  <2>5. PolyAdd(FromIntegers(v, b), FromIntegers(w, b), b) = FromIntegers(F[p], b)
    <3> HIDE DEF v, w, F
    <3> QED
      BY <2>1, <2>3, <2>4, FIAdd
  <2>6. /\ s1[p] = PolyAdd(PolyAdd(PolyMul(u, FromIntegers(k, b), b), Scaled(E[p], T, b), b),
                           PolyMul(HolderSecret(p, b), FromIntegers(c, b), b), b)
        /\ s2[p] = PolyAdd(PolyMul(u, FromIntegers(a, b), b), Scaled(D[p], T, b), b)
    BY <1>1, <1>2 DEF SwitchShares, SwitchShare
  <2> HIDE DEF u, v, w, F, G
  <2> QED
    BY <2>1, <2>2, <2>4, <2>5, <2>6
<1>8. ResiduesOf(s1, F, n, b) /\ ResiduesOf(s2, G, n, b)
  BY <1>1, <1>7 DEF ResiduesOf, SwitchShares
<1> HIDE DEF F, G, m
<1>9. PolySum(s1, b) = FromIntegers(ZAdd(m, kw), b)
      /\ PolySum(s2, b) = FromIntegers(Smudged(a, n, 1), b)
  BY <1>5, <1>6, <1>8, FITotal
<1>10. ZAdd(m, kw) \in ZPoly
  BY <1>5 DEF Totals
<1> QED
  BY <1>9, <1>10 DEF n, m, kw, S

\* Two polynomials whose sum is a multiple of T.
MaskOfZero(m, v, e) ==
    m \in ZPoly /\ v \in ZPoly /\ e \in ZPoly /\ ZAdd(m, v) = ZScale(e, T)

\* What the recipient of a re-encryption decrypts.
LEMMA ReEncryptedPhase ==
    ASSUME NEW c0 \in ZPoly, NEW c1 \in ZPoly, NEW S \in ZPoly, NEW m1, NEW v, NEW e,
           MaskOfZero(m1, v, e)
    PROVE  ZAdd(ZAdd(c0, ZAdd(m1, ZMul(S, c1))), v) = ZAdd(ZAdd(c0, ZMul(c1, S)), ZScale(e, T))
<1> DEFINE X == ZMul(c1, S)  Y == ZScale(e, T)  L == ZAdd(ZAdd(c0, ZAdd(m1, X)), v)
           R == ZAdd(ZAdd(c0, X), Y)
<1>0. T \in Int
  BY Samples
<1>1. ZMul(S, c1) = X /\ X \in ZPoly /\ Y \in ZPoly /\ ZAdd(m1, v) = Y
      /\ m1 \in ZPoly /\ v \in ZPoly
  BY <1>0, MulCommutes, MulType, PolyTypes DEF MaskOfZero
<1> HIDE DEF X, Y
<1>2. L \in ZPoly /\ R \in ZPoly
  BY <1>1, PolyTypes
<1>3. ASSUME NEW i \in Coeffs PROVE L[i] = R[i]
  <2>1. c0[i] \in Int /\ m1[i] \in Int /\ X[i] \in Int /\ v[i] \in Int /\ Y[i] \in Int
    BY <1>1, PolyTypes
  <2>2. ZAdd(m1, v)[i] = Y[i]
    BY <1>1
  <2>3. m1[i] + v[i] = Y[i]
    BY <2>2 DEF ZAdd
  <2>4. L[i] = (c0[i] + (m1[i] + X[i])) + v[i] /\ R[i] = (c0[i] + X[i]) + Y[i]
    BY DEF ZAdd
  <2> HIDE DEF L, R
  <2> QED
    BY <2>1, <2>3, <2>4
<1> HIDE DEF L, R
<1>4. L = R
  BY <1>2, <1>3, SamePoly
<1> QED
  BY <1>1, <1>4 DEF L, R, X, Y

\* ReEncryptor: from the key of the holders to the recipient's key R.
LEMMA ReEncryptGood ==
    ASSUME NEW b, Positive(b), IsHolders(holders), NEW u, GoodCt(u, KeyPoly(holders), b),
           NEW R \in ZPoly, Within(R, 1), NEW pk, RowOf(pk, ZZero, R, ErrorBound, b),
           NEW ct, ct.parts = ReEncrypted(u.parts, pk, T, b), ct.plain = u.plain,
           ct.noise = u.noise + ReEncryptNoise, ct.valid = (u.valid /\ Len(u.parts) = 2)
    PROVE  GoodCt(ct, R, b)
<1> DEFINE p == u.parts  m == u.plain  A == u.noise  S == KeyPoly(holders)  n == Len(holders)
           U == TernarySum(n, 0)  E1 == SmudgeSum(n, 0)  E2 == SmudgeSum(n, 1)
<1>0. n \in Nat /\ S \in ZPoly /\ T \in Int
  BY HolderFacts, Samples
<1>1. PICK C, e :
        /\ m \in [Coeffs -> 0..(T - 1)] /\ m \in ZPoly /\ A \in Nat /\ u.valid \in BOOLEAN
        /\ Lifts(C, p, b) /\ Len(p) >= 2 /\ e \in ZPoly
        /\ u.valid /\ Aligned => ZPhase(C, Len(p), S) = ZAdd(m, ZScale(e, T)) /\ Within(e, A)
  BY GoodParts
<1>2. /\ C[1] \in ZPoly /\ C[2] \in ZPoly
      /\ p[1] = FromIntegers(C[1], b) /\ p[2] = FromIntegers(C[2], b)
      /\ ZPhase(C, 2, S) = ZAdd(C[1], ZMul(C[2], S))
  <2>1. /\ DOMAIN p = 1..Len(p) /\ Polys(C, Len(p)) /\ Len(p) \in Nat
        /\ \A c \in 1..Len(p) : p[c] = FromIntegers(C[c], b) /\ C[c] \in ZPoly
    <3> HIDE DEF p
    <3> QED
      BY <1>1, LiftsFacts
  <2>2. 1 \in 1..Len(p) /\ 2 \in 1..Len(p)
    <3> DEFINE l == Len(p)
    <3>1. l \in Nat /\ l >= 2
      BY <1>1, <2>1
    <3> HIDE DEF l
    <3>2. 1 \in 1..l /\ 2 \in 1..l
      BY <3>1
    <3> QED
      BY <3>2 DEF l
  <2>3. ZPhase(C, 2, S) = ZAdd(C[1], ZMul(C[2], S))
    <3> DEFINE l == 2
    <3>1. l \in Nat /\ Polys(C, l) /\ l >= 2 /\ l = 2
      BY <2>1, <2>2 DEF Polys
    <3> HIDE DEF l, S
    <3> QED
      BY <1>0, <3>1, ZPhaseShort
  <2> QED
    BY <2>1, <2>2, <2>3
<1>3. PICK k \in ZPoly, a \in ZPoly, E0 \in ZPoly :
        /\ pk = <<FromIntegers(k, b), FromIntegers(a, b)>>
        /\ ZAdd(k, ZMul(a, R)) = ZAdd(ZZero, ZScale(E0, T))
        /\ Within(E0, ErrorBound)
  BY DEF RowOf
<1>4. ZAdd(k, ZMul(a, R)) = ZScale(E0, T)
  <2>1. ZScale(E0, T) \in ZPoly
    BY <1>0, PolyTypes
  <2> QED
    BY <1>3, <2>1, SubThenAdd
<1> DEFINE X == MaskNoise(E0, U, E1, E2, R)  M1 == Smudged(k, n, 0)  M2 == Smudged(a, n, 1)
           N == RingProductBound(n, ErrorBound) + n * SmudgeBound
                    + RingProductBound(n * SmudgeBound, 1)
<1>5. /\ U \in ZPoly /\ E1 \in ZPoly /\ E2 \in ZPoly
      /\ Within(U, n) /\ Within(E1, n * SmudgeBound) /\ Within(E2, n * SmudgeBound)
      /\ n * SmudgeBound \in Nat /\ ErrorBound \in Nat
  <2> DEFINE o == 0  i == 1
  <2>1. o \in Int /\ i \in Int
    OBVIOUS
  <2> HIDE DEF o, i, n
  <2>2. /\ Totals(HolderTernaries(n, o), n, ZSum(HolderTernaries(n, o), n))
        /\ Totals(HolderSmudges(n, o), n, ZSum(HolderSmudges(n, o), n))
        /\ Totals(HolderSmudges(n, i), n, ZSum(HolderSmudges(n, i), n))
        /\ Within(ZSum(HolderTernaries(n, o), n), n)
        /\ Within(ZSum(HolderSmudges(n, o), n), n * SmudgeBound)
        /\ Within(ZSum(HolderSmudges(n, i), n), n * SmudgeBound) /\ n * SmudgeBound \in Nat
    BY <1>0, <2>1, SampleTotals
  <2>3. ErrorBound \in Nat
    BY Samples
  <2> QED
    BY <2>2, <2>3 DEF SmudgeSum, TernarySum, o, i, Totals
<1> HIDE DEF U, E1, E2, n
<1>6. /\ ZAdd(M1, ZMul(M2, R)) = ZScale(X, T) /\ X \in ZPoly /\ M1 \in ZPoly /\ M2 \in ZPoly
      /\ Within(X, N) /\ N \in Nat
  <2>1. ZeroPair(k, a, R, E0)
    BY <1>4 DEF ZeroPair
  <2>2. /\ ZAdd(ZAdd(ZMul(k, U), ZScale(E1, T)), ZMul(ZAdd(ZMul(a, U), ZScale(E2, T)), R))
               = ZScale(X, T)
        /\ X \in ZPoly /\ ZAdd(ZMul(k, U), ZScale(E1, T)) \in ZPoly
        /\ ZAdd(ZMul(a, U), ZScale(E2, T)) \in ZPoly
    BY <1>5, <2>1, MaskedPair
  <2>3. M1 = ZAdd(ZMul(k, U), ZScale(E1, T)) /\ M2 = ZAdd(ZMul(a, U), ZScale(E2, T))
    BY DEF Smudged, U, E1, E2
  <2> DEFINE s == 1  B == ErrorBound  w == n * SmudgeBound
  <2>4. MaskBounds(E0, U, E1, E2, R, B, n, w, w, s)
    <3>1. s \in Nat /\ Within(R, s) /\ Within(E0, B) /\ B \in Nat /\ w \in Nat /\ Within(E1, w)
          /\ Within(E2, w)
      BY <1>3, <1>5
    <3> HIDE DEF s, B, w
    <3> QED
      BY <1>0, <1>5, <3>1 DEF MaskBounds
  <2> HIDE DEF s, B, w
  <2>5. /\ Within(X, RingProductBound(n, B) + w + RingProductBound(w, s))
        /\ RingProductBound(n, B) + w + RingProductBound(w, s) \in Nat
    BY <2>4, MaskNoiseBound
  <2> QED
    BY <2>2, <2>3, <2>5 DEF s, B, w
<1> DEFINE V == ZAdd(M1, ZMul(S, C[2]))  f == ZAdd(C[1], V)  h == ZAdd(e, X)
<1>7. ct.parts = <<FromIntegers(f, b), FromIntegers(M2, b)>> /\ V \in ZPoly
  <2> DEFINE c == C[2]  c1 == FromIntegers(c, b)
             s1 == [q \in Holders |-> SwitchShare(q, c1, pk, T, b)[1]]
             s2 == [q \in Holders |-> SwitchShare(q, c1, pk, T, b)[2]]
  <2>1. ct.parts = <<PolyAdd(p[1], PolySum(s1, b), b), PolySum(s2, b)>>
    BY <1>2 DEF ReEncrypted, SumOfPairs, SumOverHolders
  <2>2. SwitchShares(s1, s2, c1, pk, b)
    <3> HIDE DEF c1
    <3> QED
      BY DEF SwitchShares
  <2>3. /\ PolySum(s1, b) = FromIntegers(V, b) /\ V \in ZPoly
        /\ PolySum(s2, b) = FromIntegers(M2, b)
    <3> HIDE DEF s1, s2, c, M2
    <3>1. LET M == ZAdd(Smudged(k, Len(holders), 0), ZMul(KeyPoly(holders), c))
          IN  /\ PolySum(s1, b) = FromIntegers(M, b) /\ M \in ZPoly
              /\ PolySum(s2, b) = FromIntegers(Smudged(a, Len(holders), 1), b)
      <4>1. c \in ZPoly
        BY <1>2 DEF c
      <4> QED
        BY <1>3, <2>2, <4>1, SwitchSums
    <3> QED
      BY <3>1 DEF n, M2, c
  <2> HIDE DEF s1, s2, V, M2
  <2>4. PolyAdd(p[1], FromIntegers(V, b), b) = FromIntegers(f, b)
    BY <1>2, <2>3, FIAdd
  <2> QED
    BY <2>1, <2>3, <2>4
<1> HIDE DEF M2
<1>8. f \in ZPoly /\ h \in ZPoly
      /\ ZAdd(f, ZMul(M2, R)) = ZAdd(ZPhase(C, 2, S), ZScale(X, T))
  <2>1. ZMul(M2, R) \in ZPoly /\ f \in ZPoly
    BY <1>2, <1>6, <1>7, MulType, PolyTypes
  <2>2. h \in ZPoly
    BY <1>1, <1>6, PolyTypes
  <2> HIDE DEF X, M1, S
  <2>3. ZAdd(ZAdd(C[1], ZAdd(M1, ZMul(S, C[2]))), ZMul(M2, R))
            = ZAdd(ZAdd(C[1], ZMul(C[2], S)), ZScale(X, T))
    <3> DEFINE v == ZMul(M2, R)  c0 == C[1]  c1 == C[2]
    <3>1. /\ c0 \in ZPoly /\ c1 \in ZPoly /\ v \in ZPoly /\ X \in ZPoly /\ M1 \in ZPoly /\ S \in ZPoly
          /\ ZAdd(M1, v) = ZScale(X, T)
      BY <1>0, <1>2, <1>6, <2>1
    <3> HIDE DEF v, c0, c1, M1, S, X
    <3>2. ZAdd(ZAdd(c0, ZAdd(M1, ZMul(S, c1))), v)
            = ZAdd(ZAdd(c0, ZMul(c1, S)), ZScale(X, T))
      <4>1. MaskOfZero(M1, v, X)
        BY <3>1 DEF MaskOfZero
      <4> QED
        BY <3>1, <4>1, ReEncryptedPhase
    <3> QED
      BY <3>2 DEF v, c0, c1
  <2> QED
    BY <1>2, <2>1, <2>2, <2>3
<1>9. ct.noise = A + N /\ ct.noise \in Nat
  <2>1. ct.noise = A + N
    BY DEF ReEncryptNoise, n
  <2> HIDE DEF A, N
  <2> QED
    BY <1>1, <1>6, <2>1
<1>10. ct.valid /\ Aligned =>
         ZAdd(f, ZMul(M2, R)) = ZAdd(ct.plain, ZScale(h, T)) /\ Within(h, ct.noise)
  <2>1. SUFFICES ASSUME ct.valid, Aligned
                 PROVE  ZAdd(f, ZMul(M2, R)) = ZAdd(m, ZScale(h, T)) /\ Within(h, A + N)
    BY <1>9
  <2>2. ZPhase(C, 2, S) = ZAdd(m, ZScale(e, T)) /\ Within(e, A)
    BY <1>1, <2>1
  <2> HIDE DEF m, A, N, X, f
  <2> QED
    BY <1>1, <1>6, <1>8, <2>2, NoiseAdds, WithinAdd
<1>11. ct.plain \in [Coeffs -> 0..(T - 1)] /\ ct.valid \in BOOLEAN
  BY <1>1
<1> HIDE DEF f, h
<1> QED
  BY <1>6, <1>7, <1>8, <1>9, <1>10, <1>11, GoodPair

-----------------------------------------------------------------------------
(* Collective decryption and refreshing                                     *)

\* The shares of PartialDecryptor and of InteractiveBootstrap, as sequences
\* over the holders.
DecryptShares(s, c1, b) ==
    DOMAIN s = Holders /\ \A p \in Holders : s[p] = DecryptShare(p, c1, T, b)

\* The shares of the refreshing, of which the first opens and the second
\* encrypts.
RefreshShares(s1, s2, c1, masks, b) ==
    /\ DOMAIN s1 = Holders /\ DOMAIN s2 = Holders
    /\ \A p \in Holders :
          /\ s1[p] = RefreshShare(p, c1, FromIntegers(masks[p], b), T, b)[1]
          /\ s2[p] = RefreshShare(p, c1, FromIntegers(masks[p], b), T, b)[2]

\* What the shares of a decryption add up to.
Opening(c, n, S) == ZAdd(ZMul(c, S), ZScale(SmudgeSum(n, 0), T))

\* One holder's part of it.
OpeningTerms(c, n) ==
    [p \in 1..n |-> ZAdd(ZMul(c, holders[p]), ZScale(HolderSmudges(n, 0)[p], T))]

\* The shares of a decryption are residues of polynomials that add up to the
\* opening.
LEMMA OpeningFacts ==
    ASSUME NEW b, Positive(b), IsHolders(holders), NEW c \in ZPoly
    PROVE  LET n == Len(holders)
           IN  /\ Totals(OpeningTerms(c, n), n, Opening(c, n, KeyPoly(holders)))
               /\ \A p \in Holders :
                     /\ DecryptShare(p, FromIntegers(c, b), T, b)
                           = FromIntegers(OpeningTerms(c, n)[p], b)
                     /\ OpeningTerms(c, n)[p] \in ZPoly
               /\ SmudgeSum(n, 0) \in ZPoly /\ Within(SmudgeSum(n, 0), n * SmudgeBound)
               /\ n * SmudgeBound \in Nat /\ Holders = 1..n
<1> DEFINE n == Len(holders)  S == KeyPoly(holders)  E == HolderSmudges(n, 0)  F == OpeningTerms(c, n)
<1>1. n \in Nat /\ Holders = 1..n /\ Totals(holders, n, S)
      /\ \A p \in 1..n : holders[p] \in ZPoly
  BY HolderFacts, HolderTotal DEF Holders
<1> HIDE DEF n, S
<1>2. /\ Totals(E, n, SmudgeSum(n, 0)) /\ \A p \in 1..n : E[p] = HolderSmudge(p, 0)
      /\ Within(SmudgeSum(n, 0), n * SmudgeBound) /\ n * SmudgeBound \in Nat
  <2> DEFINE o == 0
  <2>1. o \in Int
    OBVIOUS
  <2> HIDE DEF o
  <2>2. /\ Totals(HolderSmudges(n, o), n, ZSum(HolderSmudges(n, o), n))
        /\ Within(ZSum(HolderSmudges(n, o), n), n * SmudgeBound) /\ n * SmudgeBound \in Nat
        /\ \A p \in 1..n : HolderSmudges(n, o)[p] = HolderSmudge(p, o)
    BY <1>1, <2>1, SampleTotals
  <2> QED
    BY <2>2 DEF SmudgeSum, o
<1>3. \A p \in 1..n : E[p] \in ZPoly
  BY <1>1, <1>2 DEF Totals, Polys
<1> HIDE DEF E
<1>4. \A p \in 1..n : F[p] = ZAdd(ZMul(c, holders[p]), ZScale(E[p], T))
  BY DEF OpeningTerms, E
<1> HIDE DEF F
<1>5. Totals(F, n, Opening(c, n, S))
  BY <1>1, <1>2, <1>4, MaskTotal DEF Opening
<1>6. ASSUME NEW p \in Holders
      PROVE  DecryptShare(p, FromIntegers(c, b), T, b) = FromIntegers(F[p], b) /\ F[p] \in ZPoly
  <2>1. HolderSecret(p, b) = FromIntegers(holders[p], b) /\ holders[p] \in ZPoly
    BY <1>1, HolderSecretIs
  <2>2. /\ PolyAdd(PolyMul(FromIntegers(c, b), FromIntegers(holders[p], b), b),
                   Scaled(E[p], T, b), b) = FromIntegers(F[p], b)
        /\ F[p] \in ZPoly
    <3> DEFINE u == holders[p]  e == E[p]
    <3>1. F[p] = ZAdd(ZMul(c, u), ZScale(e, T)) /\ u \in ZPoly /\ e \in ZPoly
      BY <1>1, <1>3, <1>4
    <3> HIDE DEF u, e
    <3>2. /\ PolyAdd(PolyMul(FromIntegers(c, b), FromIntegers(u, b), b), Scaled(e, T, b), b)
                 = FromIntegers(ZAdd(ZMul(c, u), ZScale(e, T)), b)
          /\ ZAdd(ZMul(c, u), ZScale(e, T)) \in ZPoly
      BY <3>1, MaskIs
    <3> QED
      BY <3>1, <3>2 DEF u, e
  <2>3. E[p] = HolderSmudge(p, 0)
    BY <1>1, <1>2
  <2> QED
    BY <2>1, <2>2, <2>3 DEF DecryptShare
<1>7. SmudgeSum(n, 0) \in ZPoly
  BY <1>2 DEF Totals
<1> QED
  BY <1>1, <1>2, <1>5, <1>6, <1>7 DEF n, S, F

\* aggregate of PartialDecryptor: c1 s and the smudging noise of everybody.
LEMMA DecryptSums ==
    ASSUME NEW b, Positive(b), IsHolders(holders), NEW c \in ZPoly,
           NEW s, DecryptShares(s, FromIntegers(c, b), b)
    PROVE  LET H == Opening(c, Len(holders), KeyPoly(holders))
           IN  PolySum(s, b) = FromIntegers(H, b) /\ H \in ZPoly
<1> DEFINE n == Len(holders)  S == KeyPoly(holders)  H == Opening(c, n, S)  F == OpeningTerms(c, n)
<1>1. Totals(F, n, H) /\ Holders = 1..n
      /\ \A p \in Holders : DecryptShare(p, FromIntegers(c, b), T, b) = FromIntegers(F[p], b)
  BY OpeningFacts
<1> HIDE DEF F, n, S, H
<1>2. ResiduesOf(s, F, n, b)
  BY <1>1 DEF ResiduesOf, DecryptShares
<1>3. PolySum(s, b) = FromIntegers(H, b)
  BY <1>1, <1>2, FITotal
<1>4. H \in ZPoly
  BY <1>1 DEF Totals
<1> QED
  BY <1>3, <1>4 DEF H, n, S

\* InteractiveBootstrap: what the two halves of the shares add up to.
Hiding(c, n, S, M) == ZSub(Opening(c, n, S), M)

\* The sum of the shares that bring the masks back.
Unhiding(n, S, M) == ZAdd(ZSub(ZScale(ErrorSum(n, 1), T), ZMul(CommonPoly(2), S)), M)

\* What the shares of InteractiveBootstrap add up to.
LEMMA RefreshSums ==
    ASSUME NEW b, Positive(b), IsHolders(holders), NEW c \in ZPoly,
           NEW masks, NEW M, Totals(masks, Len(holders), M),
           NEW s1, NEW s2, RefreshShares(s1, s2, FromIntegers(c, b), masks, b)
    PROVE  LET n == Len(holders)
               S == KeyPoly(holders)
           IN  /\ PolySum(s1, b) = FromIntegers(Hiding(c, n, S, M), b) /\ Hiding(c, n, S, M) \in ZPoly
               /\ PolySum(s2, b) = FromIntegers(Unhiding(n, S, M), b) /\ Unhiding(n, S, M) \in ZPoly
<1> DEFINE n == Len(holders)  S == KeyPoly(holders)  F == OpeningTerms(c, n)
           a == CommonPoly(2)  E == HolderErrors(n, 1)
           A == [p \in 1..n |-> ZScale(E[p], T)]
           Q == [p \in 1..n |-> ZMul(a, holders[p])]
           D == [p \in 1..n |-> ZSub(A[p], Q[p])]
           G == [p \in 1..n |-> ZSub(F[p], masks[p])]
           K == [p \in 1..n |-> ZAdd(D[p], masks[p])]
<1>0. T \in Int /\ a \in ZPoly
  <2> DEFINE t == 2
  <2>1. t \in Int
    OBVIOUS
  <2> HIDE DEF t
  <2>2. Cyclic(RowMasks, t) \in ZPoly /\ T \in Int
    BY <2>1, Samples
  <2> QED
    BY <2>2 DEF CommonPoly, t
<1>1. n \in Nat /\ Totals(holders, n, S) /\ \A p \in 1..n : holders[p] \in ZPoly
  BY HolderFacts, HolderTotal
<1>2. /\ Totals(F, n, Opening(c, n, S)) /\ Holders = 1..n
      /\ \A p \in Holders : /\ DecryptShare(p, FromIntegers(c, b), T, b) = FromIntegers(F[p], b)
                            /\ F[p] \in ZPoly
  BY OpeningFacts
<1>3. Totals(masks, n, M)
  OBVIOUS
<1> HIDE DEF n, S, F, a
<1>4. \A p \in 1..n : masks[p] \in ZPoly
  BY <1>3 DEF Totals, Polys
<1>5. Totals(E, n, ErrorSum(n, 1)) /\ \A p \in 1..n : E[p] = HolderError(p, 1)
  <2> DEFINE i == 1
  <2>1. i \in Int
    OBVIOUS
  <2> HIDE DEF i
  <2>2. /\ Totals(HolderErrors(n, i), n, ZSum(HolderErrors(n, i), n))
        /\ \A p \in 1..n : HolderErrors(n, i)[p] = HolderError(p, i)
    BY <1>1, <2>1, SampleTotals
  <2> QED
    BY <2>2 DEF ErrorSum, i
<1>6. \A p \in 1..n : E[p] \in ZPoly
  BY <1>5 DEF Totals, Polys
<1> HIDE DEF E
<1>7. Totals(A, n, ZScale(ErrorSum(n, 1), T)) /\ \A p \in 1..n : A[p] = ZScale(E[p], T)
  <2>1. \A p \in 1..n : A[p] = ZScale(E[p], T)
    OBVIOUS
  <2> HIDE DEF A
  <2> QED
    BY <1>0, <1>5, <2>1, TotalScale
<1>8. Totals(Q, n, ZMul(a, S)) /\ \A p \in 1..n : Q[p] = ZMul(a, holders[p])
  <2>1. \A p \in 1..n : Q[p] = ZMul(a, holders[p])
    OBVIOUS
  <2> HIDE DEF Q
  <2> QED
    BY <1>0, <1>1, <2>1, TotalMul
<1> HIDE DEF A, Q
<1>9. /\ Totals(D, n, ZSub(ZScale(ErrorSum(n, 1), T), ZMul(a, S)))
      /\ \A p \in 1..n : D[p] = ZSub(A[p], Q[p])
  <2>1. \A p \in 1..n : D[p] = ZSub(A[p], Q[p])
    OBVIOUS
  <2> HIDE DEF D
  <2> QED
    BY <1>7, <1>8, <2>1, TotalSub
<1>t. \A p \in 1..n : A[p] \in ZPoly /\ Q[p] \in ZPoly /\ D[p] \in ZPoly
  BY <1>7, <1>8, <1>9 DEF Totals, Polys
<1> HIDE DEF D
<1>10. Totals(G, n, Hiding(c, n, S, M)) /\ \A p \in 1..n : G[p] = ZSub(F[p], masks[p])
  <2>1. \A p \in 1..n : G[p] = ZSub(F[p], masks[p])
    OBVIOUS
  <2> HIDE DEF G
  <2> QED
    BY <1>2, <1>3, <2>1, TotalSub DEF Hiding
<1>11. Totals(K, n, Unhiding(n, S, M)) /\ \A p \in 1..n : K[p] = ZAdd(D[p], masks[p])
  <2>1. \A p \in 1..n : K[p] = ZAdd(D[p], masks[p])
    OBVIOUS
  <2> HIDE DEF K
  <2> QED
    BY <1>3, <1>9, <2>1, TotalAdd DEF Unhiding, a
<1> HIDE DEF G, K
<1>12. ASSUME NEW p \in 1..n
       PROVE  s1[p] = FromIntegers(G[p], b) /\ s2[p] = FromIntegers(K[p], b)
  <2>1. PolySub(FromIntegers(F[p], b), FromIntegers(masks[p], b), b) = FromIntegers(G[p], b)
    <3>1. F[p] \in ZPoly /\ masks[p] \in ZPoly /\ G[p] = ZSub(F[p], masks[p])
      BY <1>2, <1>4, <1>10
    <3> QED
      BY <3>1, FISub
  <2>2. HolderSecret(p, b) = FromIntegers(holders[p], b) /\ holders[p] \in ZPoly
    BY <1>2, HolderSecretIs
  <2>3. PolyMul(CommonElement(2, b), HolderSecret(p, b), b) = FromIntegers(Q[p], b)
    <3>1. PolyMul(FromIntegers(a, b), FromIntegers(holders[p], b), b) = FromIntegers(Q[p], b)
      BY <1>0, <1>8, <2>2, FIMul
    <3> QED
      BY <2>2, <3>1 DEF CommonElement, CommonPoly, a
  <2>4. Scaled(HolderError(p, 1), T, b) = FromIntegers(A[p], b)
    BY <1>5, <1>6, <1>7, ScaledIs
  <2>5. PolySub(FromIntegers(A[p], b), FromIntegers(Q[p], b), b) = FromIntegers(D[p], b)
    BY <1>t, <1>9, FISub
  <2>6. PolyAdd(FromIntegers(D[p], b), FromIntegers(masks[p], b), b) = FromIntegers(K[p], b)
    BY <1>4, <1>t, <1>11, FIAdd
  <2>7. /\ s1[p] = PolySub(DecryptShare(p, FromIntegers(c, b), T, b), FromIntegers(masks[p], b), b)
        /\ s2[p] = PolyAdd(PolySub(Scaled(HolderError(p, 1), T, b),
                                   PolyMul(CommonElement(2, b), HolderSecret(p, b), b), b),
                           FromIntegers(masks[p], b), b)
    BY <1>2 DEF RefreshShares, RefreshShare, DecryptShare
  <2>8. DecryptShare(p, FromIntegers(c, b), T, b) = FromIntegers(F[p], b)
    BY <1>2
  <2> QED
    BY <2>1, <2>3, <2>4, <2>5, <2>6, <2>7, <2>8
<1>13. ResiduesOf(s1, G, n, b) /\ ResiduesOf(s2, K, n, b)
  BY <1>2, <1>12 DEF ResiduesOf, RefreshShares
<1>14. /\ PolySum(s1, b) = FromIntegers(Hiding(c, n, S, M), b)
       /\ PolySum(s2, b) = FromIntegers(Unhiding(n, S, M), b)
  BY <1>10, <1>11, <1>13, FITotal
<1>15. Hiding(c, n, S, M) \in ZPoly /\ Unhiding(n, S, M) \in ZPoly
  BY <1>10, <1>11 DEF Totals
<1> QED
  BY <1>14, <1>15 DEF n, S

\* decode_signed_residue of any residue is a message coefficient.
LEMMA DecodeType ==
    ASSUME NEW q \in Nat, q > 0, NEW c \in 0..(q - 1)
    PROVE  DecodeSignedResidue(c, q) \in 0..(T - 1)
<1> DEFINE g == (q - c) % T  r == c % T
<1>1. T \in Nat /\ T > 2 /\ c \in Int /\ q - c \in Int
  BY Samples
<1>2. g \in 0..(T - 1) /\ r \in 0..(T - 1)
  BY <1>1, Quotient
<1>3. DecodeSignedResidue(c, q) = IF c <= q \div 2 THEN r ELSE IF g = 0 THEN 0 ELSE T - g
  BY DEF DecodeSignedResidue
<1> HIDE DEF g, r
<1> QED
  BY <1>1, <1>2, <1>3

\* It recovers the residue modulo T of a value below half the modulus.
LEMMA DecodeValue ==
    ASSUME NEW q \in Nat, q > 0, NEW v \in Int, 2 * v < q, -q < 2 * v
    PROVE  DecodeSignedResidue(v % q, q) = v % T
<1>1. T \in Nat /\ T > 2 /\ q \div 2 \in Int /\ (q % 2) \in 0..1 /\ q = (q \div 2) * 2 + (q % 2)
  BY Samples, Quotient
<1>2. CASE v >= 0
  <2>1. v % q = v /\ v <= q \div 2
    <3>1. v \in 0..(q - 1) /\ v <= q \div 2
      BY <1>1, <1>2
    <3>2. (0 * q + v) % q = v
      <4> DEFINE o == 0
      <4>1. o \in Int
        OBVIOUS
      <4> HIDE DEF o
      <4>2. (o * q + v) % q = v
        BY <3>1, <4>1, QuotientUnique
      <4> QED
        BY <4>2 DEF o
    <3>3. 0 * q + v = v
      OBVIOUS
    <3> QED
      BY <3>1, <3>2, <3>3
  <2> QED
    BY <2>1 DEF DecodeSignedResidue
<1>3. CASE v < 0
  <2> DEFINE c == q + v  g == (-v) % T
  <2>1. v % q = c /\ c > q \div 2 /\ q - c = -v
    <3>1. c \in 0..(q - 1) /\ c > q \div 2 /\ q - c = -v
      BY <1>1, <1>3
    <3> DEFINE o == -1
    <3>2. o \in Int /\ o * q + c = v
      OBVIOUS
    <3> HIDE DEF o, c
    <3>3. (o * q + c) % q = c
      BY <3>1, <3>2, QuotientUnique
    <3> QED
      BY <3>1, <3>2, <3>3
  <2>2. DecodeSignedResidue(v % q, q) = IF g = 0 THEN 0 ELSE T - g
    <3> HIDE DEF c
    <3> QED
      BY <2>1 DEF DecodeSignedResidue
  <2>3. /\ g \in 0..(T - 1) /\ v % T \in 0..(T - 1)
        /\ -v = ((-v) \div T) * T + g
        /\ v = (v \div T) * T + (v % T)
        /\ (-v) \div T \in Int /\ v \div T \in Int
    BY <1>1, Quotient
  <2> DEFINE k == (-v) \div T  d == IF g = 0 THEN -k ELSE -k - 1  s == IF g = 0 THEN 0 ELSE T - g
  <2>4. d \in Int /\ s \in 0..(T - 1) /\ v = d * T + s
    <3> HIDE DEF g, k
    <3>1. -v = k * T + g /\ k \in Int /\ g \in 0..(T - 1)
      BY <2>3 DEF k, g
    <3>2. CASE g = 0
      BY <1>1, <3>1, <3>2
    <3>3. CASE g # 0
      BY <1>1, <3>1, <3>3
    <3> QED
      BY <3>2, <3>3
  <2>5. (d * T + s) % T = s
    <3> HIDE DEF d, s
    <3> QED
      BY <1>1, <2>4, QuotientUnique
  <2> HIDE DEF g, k
  <2> QED
    BY <2>2, <2>4, <2>5
<1> QED
  BY <1>2, <1>3

\* decode_u64 within the margin: P beside a multiple of T, P less than K
\* multiples of T away from a message.
LEMMA DecodeCarried ==
    ASSUME Positive(basis), Len(basis) > 0, NEW P \in ZPoly, NEW K \in Nat, CarryBound(P, K),
           NEW e \in ZPoly, NEW N \in Nat, Within(e, N), Margin(N + K, basis[1])
    PROVE  Decode(FromIntegers(ZAdd(P, ZScale(e, T)), basis)) = ZMod(P)
<1> DEFINE q == basis[1]  f == ZAdd(P, ZScale(e, T))
<1>1. T \in Nat /\ T > 2 /\ T \in Int
  BY Samples
<1>2. q \in Nat /\ q > 0 /\ 1 \in DOMAIN basis
  BY PositiveDomain
<1>3. f \in ZPoly
  BY <1>1, PolyTypes
<1>4. ASSUME NEW i \in Coeffs
      PROVE  DecodeSignedResidue(FromIntegers(f, basis)[i][1], q) = P[i] % T
  <2> DEFINE p == P[i]  d == e[i]  v == p + T * d
  <2>1. p \in Int /\ d \in Int /\ -(T * K) <= p /\ p < T * (K + 1) /\ -N <= d /\ d <= N
    BY PolyTypes DEF CarryBound, Within
  <2>2. f[i] = v
    BY DEF ZAdd, ZScale
  <2>3. FromIntegers(f, basis)[i][1] = v % q
    <3> HIDE DEF f, v
    <3> QED
      BY <1>2, <1>3, <2>2, FIValue
  <2>4. 2 * T * (1 + (N + K)) < q
    BY DEF Margin
  <2> HIDE DEF p, d, q
  <2>5. T * d <= T * N /\ -(T * N) <= T * d
    <3>1. T * (N - d) >= 0 /\ T * (N + d) >= 0
      <4> DEFINE a == N - d  c == N + d
      <4>1. a \in Nat /\ c \in Nat
        BY <2>1
      <4> HIDE DEF a, c
      <4>2. T * a >= 0 /\ T * c >= 0
        BY <1>1, <4>1
      <4> QED
        BY <4>2 DEF a, c
    <3>2. T * (N - d) = T * N - T * d /\ T * (N + d) = T * N + T * d
      BY <1>1, <2>1
    <3>3. T * d \in Int /\ T * N \in Int
      BY <1>1, <2>1
    <3> QED
      BY <3>1, <3>2, <3>3
  <2>6. v \in Int /\ 2 * v < q /\ -q < 2 * v
    <3> DEFINE x1 == T * d  x2 == T * N  x3 == T * K
    <3>1. x1 \in Int /\ x2 \in Int /\ x3 \in Int
      BY <1>1, <2>1
    <3>2. T * (K + 1) = x3 + T /\ 2 * T * (1 + (N + K)) = 2 * T + 2 * x2 + 2 * x3
      BY <1>1
    <3>3. x1 <= x2 /\ -x2 <= x1 /\ -x3 <= p
      BY <2>1, <2>5
    <3> HIDE DEF x1, x2, x3
    <3>4. v = p + x1
      BY DEF x1
    <3> HIDE DEF v
    <3> QED
      BY <1>1, <1>2, <2>1, <2>4, <3>1, <3>2, <3>3, <3>4
  <2>7. DecodeSignedResidue(v % q, q) = v % T
    <3> HIDE DEF v
    <3> QED
      BY <1>2, <2>6, DecodeValue DEF q
  <2>8. v % T = p % T
    <3>1. v = p + d * T /\ d \in Int /\ p \in Int
      BY <1>1, <2>1
    <3> HIDE DEF v
    <3>2. Cong(v, p, T)
      BY <3>1 DEF Cong
    <3>3. v \in Int /\ p \in Int /\ T \in Nat /\ T > 0
      BY <1>1, <2>6, <3>1
    <3> HIDE DEF v
    <3> QED
      BY <3>2, <3>3, CongIff
  <2> QED
    BY <2>3, <2>7, <2>8 DEF p, q
<1>5. Decode(FromIntegers(f, basis)) = [i \in Coeffs |-> P[i] % T]
  <2> HIDE DEF f
  <2> QED
    BY <1>4 DEF Decode
<1> QED
  BY <1>5 DEF ZMod

\* Decoding any polynomial gives a message.
LEMMA DecodeIsMessage ==
    ASSUME Positive(basis), Len(basis) > 0, NEW f \in ZPoly
    PROVE  Decode(FromIntegers(f, basis)) \in [Coeffs -> 0..(T - 1)]
<1>1. basis[1] \in Nat /\ basis[1] > 0 /\ 1 \in DOMAIN basis
  BY PositiveDomain
<1>2. ASSUME NEW i \in Coeffs
      PROVE  DecodeSignedResidue(FromIntegers(f, basis)[i][1], basis[1]) \in 0..(T - 1)
  <2>1. FromIntegers(f, basis)[i][1] \in 0..(basis[1] - 1)
    BY <1>1, FIValue
  <2> QED
    BY <1>1, <2>1, DecodeType
<1> QED
  BY <1>2 DEF Decode

\* What is revealed under the masks: the message less the masks.
LEMMA HiddenPhase ==
    ASSUME NEW c0 \in ZPoly, NEW X \in ZPoly, NEW G \in ZPoly, NEW M \in ZPoly, NEW m \in ZPoly,
           NEW e \in ZPoly, ZAdd(c0, X) = ZAdd(m, ZScale(e, T))
    PROVE  /\ ZAdd(c0, ZSub(ZAdd(X, ZScale(G, T)), M)) = ZAdd(ZSub(m, M), ZScale(ZAdd(e, G), T))
           /\ ZSub(m, M) \in ZPoly /\ ZAdd(e, G) \in ZPoly
<1> DEFINE L == ZAdd(c0, ZSub(ZAdd(X, ZScale(G, T)), M))
           R == ZAdd(ZSub(m, M), ZScale(ZAdd(e, G), T))
<1>0. T \in Int
  BY Samples
<1>1. L \in ZPoly /\ R \in ZPoly /\ ZSub(m, M) \in ZPoly /\ ZAdd(e, G) \in ZPoly
  BY <1>0, PolyTypes
<1>2. ASSUME NEW i \in Coeffs PROVE L[i] = R[i]
  <2>1. c0[i] \in Int /\ X[i] \in Int /\ G[i] \in Int /\ M[i] \in Int /\ m[i] \in Int /\ e[i] \in Int
    BY PolyTypes
  <2>2. ZAdd(c0, X)[i] = ZAdd(m, ZScale(e, T))[i]
    OBVIOUS
  <2>3. c0[i] + X[i] = m[i] + T * e[i]
    BY <2>2 DEF ZAdd, ZScale
  <2>4. /\ L[i] = c0[i] + ((X[i] + T * G[i]) - M[i])
        /\ R[i] = (m[i] - M[i]) + T * (e[i] + G[i])
    BY DEF ZAdd, ZSub, ZScale
  <2>5. T * (e[i] + G[i]) = T * e[i] + T * G[i] /\ T * e[i] \in Int /\ T * G[i] \in Int
    BY <1>0, <2>1
  <2> DEFINE x1 == T * e[i]  x2 == T * G[i]
  <2>6. /\ L[i] = c0[i] + ((X[i] + x2) - M[i]) /\ R[i] = (m[i] - M[i]) + (x1 + x2)
        /\ c0[i] + X[i] = m[i] + x1 /\ x1 \in Int /\ x2 \in Int
    BY <2>3, <2>4, <2>5
  <2> HIDE DEF L, R, x1, x2
  <2> QED
    BY <2>1, <2>6
<1> HIDE DEF L, R
<1>3. L = R
  BY <1>1, <1>2, SamePoly
<1> QED
  BY <1>1, <1>3 DEF L, R

\* What a refreshed ciphertext decrypts to: the masks cancel, up to the carry D
\* of reducing the revealed message modulo T.
LEMMA UnhiddenPhase ==
    ASSUME NEW v \in ZPoly, NEW X \in ZPoly, NEW E \in ZPoly, NEW M \in ZPoly, NEW m \in ZPoly,
           NEW D \in ZPoly, ZSub(m, M) = ZAdd(v, ZScale(D, T))
    PROVE  /\ ZAdd(ZAdd(v, ZAdd(ZSub(ZScale(E, T), X), M)), X) = ZAdd(m, ZScale(ZSub(E, D), T))
           /\ ZSub(E, D) \in ZPoly
<1> DEFINE L == ZAdd(ZAdd(v, ZAdd(ZSub(ZScale(E, T), X), M)), X)
           R == ZAdd(m, ZScale(ZSub(E, D), T))
<1>0. T \in Int
  BY Samples
<1>1. L \in ZPoly /\ R \in ZPoly /\ ZSub(E, D) \in ZPoly
  BY <1>0, PolyTypes
<1>2. ASSUME NEW i \in Coeffs PROVE L[i] = R[i]
  <2>1. v[i] \in Int /\ X[i] \in Int /\ E[i] \in Int /\ M[i] \in Int /\ m[i] \in Int /\ D[i] \in Int
    BY PolyTypes
  <2>2. ZSub(m, M)[i] = ZAdd(v, ZScale(D, T))[i]
    OBVIOUS
  <2>3. m[i] - M[i] = v[i] + T * D[i]
    BY <2>2 DEF ZAdd, ZSub, ZScale
  <2>4. /\ L[i] = (v[i] + ((T * E[i] - X[i]) + M[i])) + X[i]
        /\ R[i] = m[i] + T * (E[i] - D[i])
    BY DEF ZAdd, ZSub, ZScale
  <2>5. T * (E[i] - D[i]) = T * E[i] - T * D[i] /\ T * E[i] \in Int /\ T * D[i] \in Int
    BY <1>0, <2>1
  <2> DEFINE x1 == T * E[i]  x2 == T * D[i]
  <2>6. /\ L[i] = (v[i] + ((x1 - X[i]) + M[i])) + X[i] /\ R[i] = m[i] + (x1 - x2)
        /\ m[i] - M[i] = v[i] + x2 /\ x1 \in Int /\ x2 \in Int
    BY <2>3, <2>4, <2>5
  <2> HIDE DEF L, R, x1, x2
  <2> QED
    BY <2>1, <2>6
<1> HIDE DEF L, R
<1>3. L = R
  BY <1>1, <1>2, SamePoly
<1> QED
  BY <1>1, <1>3 DEF L, R

\* The masks of n holders move a message by less than n + 1 multiples of T.
LEMMA MaskCarry ==
    ASSUME NEW n \in Nat, NEW masks, \A p \in 1..n : masks[p] \in [Coeffs -> 0..(T - 1)],
           NEW m \in [Coeffs -> 0..(T - 1)]
    PROVE  LET M == ZSum(masks, n)
           IN  /\ Totals(masks, n, M) /\ M \in ZPoly
               /\ CarryBound(ZSub(m, M), n) /\ ZSub(m, M) \in ZPoly
<1> DEFINE M == ZSum(masks, n)  t == T - 1
<1>0. T \in Nat /\ T > 2 /\ t \in Nat
  BY Samples
<1>1. m \in ZPoly /\ \A i \in Coeffs : m[i] \in Int /\ 0 <= m[i] /\ m[i] <= T - 1
  BY MessagePoly
<1>2. ASSUME NEW p \in 1..n PROVE masks[p] \in ZPoly /\ Within(masks[p], t)
  <2> DEFINE r == masks[p]
  <2>1. r \in [Coeffs -> 0..(T - 1)]
    OBVIOUS
  <2> HIDE DEF r
  <2>2. r \in ZPoly /\ \A i \in Coeffs : r[i] \in Int /\ 0 <= r[i] /\ r[i] <= T - 1
    BY <2>1, MessagePoly
  <2>3. Within(r, t)
    BY <1>0, <2>2 DEF Within
  <2> QED
    BY <2>2, <2>3 DEF r
<1>3. Polys(masks, n)
  BY <1>2 DEF Polys
<1> HIDE DEF t
<1>4. M \in ZPoly /\ Within(M, n * t) /\ n * t \in Nat
  BY <1>0, <1>2, <1>3, ZSumStep, ZSumBound
<1> HIDE DEF M
<1>5. ASSUME NEW i \in Coeffs
      PROVE  -(T * n) <= ZSub(m, M)[i] /\ ZSub(m, M)[i] < T * (n + 1)
  <2>1. M[i] \in Int /\ -(n * t) <= M[i] /\ M[i] <= n * t
    BY <1>4, PolyTypes DEF Within
  <2>2. ZSub(m, M)[i] = m[i] - M[i]
    BY DEF ZSub
  <2>3. n * t = T * n - n /\ T * (n + 1) = T * n + T /\ T * n \in Nat
    BY <1>0 DEF t
  <2> DEFINE a == T * n  b == n * t
  <2>4. b = a - n /\ T * (n + 1) = a + T /\ a \in Nat /\ -b <= M[i] /\ M[i] <= b
    BY <2>1, <2>3
  <2>5. m[i] \in Int /\ 0 <= m[i] /\ m[i] <= T - 1
    BY <1>1
  <2> HIDE DEF a, b
  <2>6. -a <= m[i] - M[i] /\ m[i] - M[i] < a + T
    BY <1>0, <2>1, <2>4, <2>5
  <2> QED
    BY <2>2, <2>4, <2>6 DEF a
<1>6. Totals(masks, n, M)
  BY <1>3, <1>4 DEF Totals, M
<1> QED
  BY <1>1, <1>4, <1>5, <1>6, PolyTypes DEF CarryBound, M

\* The two components that the collective operations read.
LEMMA PairOf ==
    ASSUME NEW C, NEW p, NEW b, Lifts(C, p, b), Len(p) >= 2, NEW S \in ZPoly
    PROVE  /\ p[1] = FromIntegers(C[1], b) /\ p[2] = FromIntegers(C[2], b)
           /\ C[1] \in ZPoly /\ C[2] \in ZPoly
           /\ Len(p) = 2 => ZPhase(C, Len(p), S) = ZAdd(C[1], ZMul(C[2], S))
<1>1. /\ Len(p) \in Nat /\ Polys(C, Len(p))
      /\ \A k \in 1..Len(p) : p[k] = FromIntegers(C[k], b) /\ C[k] \in ZPoly
  BY LiftsFacts
<1>2. p[1] = FromIntegers(C[1], b) /\ p[2] = FromIntegers(C[2], b)
      /\ C[1] \in ZPoly /\ C[2] \in ZPoly
  BY <1>1
<1>3. ASSUME Len(p) = 2 PROVE ZPhase(C, Len(p), S) = ZAdd(C[1], ZMul(C[2], S))
  <2> DEFINE l == Len(p)
  <2>1. l \in Nat /\ Polys(C, l) /\ l >= 2 /\ l = 2
    BY <1>1, <1>3
  <2> HIDE DEF l
  <2>2. ZPhase(C, l, S) = ZAdd(C[1], ZMul(C[2], S))
    BY <2>1, ZPhaseShort
  <2> QED
    BY <2>2 DEF l
<1> QED
  BY <1>2, <1>3

\* Every holder has a mask.
MaskTable(masks) == masks \in [Holders -> [Coeffs -> 0..(T - 1)]]

\* InteractiveBootstrap: with the margin its masks need, a fresh ciphertext of
\* the same message.
LEMMA RefreshGood ==
    ASSUME Positive(basis), Len(basis) > 0, IsHolders(holders), NEW u,
           GoodCt(u, KeyPoly(holders), basis), NEW masks, MaskTable(masks), NEW sums,
           sums = MaskedSums(u.parts, [p \in Holders |-> Encode(masks[p])], T, basis),
           NEW ct, ct.parts = Refreshed(Reveal(sums.masked), sums, basis),
           ct.plain = u.plain, ct.noise = RefreshNoise,
           ct.valid = (u.valid /\ Len(u.parts) = 2
                         /\ Margin(JointNoise(u.noise) + Len(holders), basis[1]))
    PROVE  GoodCt(ct, KeyPoly(holders), basis)
<1> DEFINE p == u.parts  m == u.plain  A == u.noise  S == KeyPoly(holders)  n == Len(holders)
           M == ZSum(masks, n)  G == SmudgeSum(n, 0)  E == ErrorSum(n, 1)  a == CommonPoly(2)
           D == ZDiv(ZSub(m, M))
<1>0. n \in Nat /\ S \in ZPoly /\ T \in Int /\ Holders = 1..n
  BY HolderFacts, Samples DEF Holders
<1>1. PICK C, e :
         /\ m \in [Coeffs -> 0..(T - 1)] /\ m \in ZPoly
         /\ A \in Nat /\ u.valid \in BOOLEAN
         /\ Lifts(C, p, basis) /\ Len(p) >= 2 /\ e \in ZPoly
         /\ u.valid /\ Aligned =>
               ZPhase(C, Len(p), S) = ZAdd(m, ZScale(e, T)) /\ Within(e, A)
  BY GoodParts
<1> DEFINE c0 == C[1]  c == C[2]
<1>2. /\ p[1] = FromIntegers(c0, basis) /\ p[2] = FromIntegers(c, basis)
      /\ c0 \in ZPoly /\ c \in ZPoly
      /\ Len(p) = 2 => ZPhase(C, Len(p), S) = ZAdd(c0, ZMul(c, S))
  <2> HIDE DEF p, S
  <2> QED
    BY <1>0, <1>1, PairOf
<1>3. Totals(masks, n, M) /\ M \in ZPoly /\ CarryBound(ZSub(m, M), n) /\ ZSub(m, M) \in ZPoly
  <2>1. \A k \in 1..n : masks[k] \in [Coeffs -> 0..(T - 1)]
    BY <1>0 DEF MaskTable
  <2> HIDE DEF n, m
  <2> QED
    BY <1>0, <1>1, <2>1, MaskCarry
<1>4. G \in ZPoly /\ Within(G, n * SmudgeBound) /\ n * SmudgeBound \in Nat
  BY <1>2, OpeningFacts
<1>5. E \in ZPoly /\ Within(E, n * ErrorBound) /\ n * ErrorBound \in Nat /\ a \in ZPoly
  <2> DEFINE i == 1  t == 2
  <2>1. i \in Int /\ t \in Int
    OBVIOUS
  <2> HIDE DEF i, t, n
  <2>2. /\ Totals(HolderErrors(n, i), n, ZSum(HolderErrors(n, i), n))
        /\ Within(ZSum(HolderErrors(n, i), n), n * ErrorBound) /\ n * ErrorBound \in Nat
    BY <1>0, <2>1, SampleTotals
  <2>3. Cyclic(RowMasks, t) \in ZPoly
    BY <2>1, Samples
  <2> QED
    BY <2>2, <2>3 DEF ErrorSum, CommonPoly, Totals, i, t
<1> DEFINE s1 == [q \in Holders |-> RefreshShare(q, p[2], Encode(masks[q]), T, basis)[1]]
           s2 == [q \in Holders |-> RefreshShare(q, p[2], Encode(masks[q]), T, basis)[2]]
           h1 == Hiding(c, n, S, M)  h2 == Unhiding(n, S, M)  f == ZAdd(c0, h1)
<1>6. /\ PolySum(s1, basis) = FromIntegers(h1, basis) /\ h1 \in ZPoly
      /\ PolySum(s2, basis) = FromIntegers(h2, basis) /\ h2 \in ZPoly
  <2>1. ASSUME NEW q \in Holders PROVE Encode(masks[q]) = FromIntegers(masks[q], basis)
    <3>1. masks[q] \in [Coeffs -> 0..(T - 1)]
      BY DEF MaskTable
    <3> QED
      BY <3>1, EncodeIs
  <2>2. RefreshShares(s1, s2, FromIntegers(c, basis), masks, basis)
    BY <1>2, <2>1 DEF RefreshShares
  <2> HIDE DEF s1, s2, c, M
  <2> QED
    BY <1>2, <1>3, <2>2, RefreshSums
<1>7. /\ sums.masked = PolyAdd(p[1], PolySum(s1, basis), basis)
      /\ sums.unmasking = PolySum(s2, basis)
  <2>1. \A q \in Holders : [k \in Holders |-> Encode(masks[k])][q] = Encode(masks[q])
    OBVIOUS
  <2> QED
    BY <2>1 DEF MaskedSums, SumOfPairs, SumOverHolders
<1> HIDE DEF s1, s2
<1>8. sums.masked = FromIntegers(f, basis) /\ f \in ZPoly /\ sums.unmasking = FromIntegers(h2, basis)
  <2>1. c0 \in ZPoly /\ h1 \in ZPoly /\ f = ZAdd(c0, h1)
    BY <1>2, <1>6
  <2>2. sums.masked = PolyAdd(FromIntegers(c0, basis), FromIntegers(h1, basis), basis)
    BY <1>2, <1>6, <1>7
  <2>3. sums.unmasking = FromIntegers(h2, basis)
    BY <1>6, <1>7
  <2> HIDE DEF c0, h1, h2, f
  <2> QED
    BY <2>1, <2>2, <2>3, FIAdd, PolyTypes
<1> DEFINE v == Decode(FromIntegers(f, basis))  g == ZAdd(v, h2)
<1>9. v \in [Coeffs -> 0..(T - 1)] /\ v \in ZPoly /\ Reveal(sums.masked) = FromIntegers(v, basis)
  <2>1. v \in [Coeffs -> 0..(T - 1)]
    <3> HIDE DEF f
    <3> QED
      BY <1>8, DecodeIsMessage
  <2>2. Reveal(sums.masked) = Encode(v)
    BY <1>8 DEF Reveal
  <2> HIDE DEF v
  <2> QED
    BY <2>1, <2>2, EncodeIs, MessagePoly
<1> HIDE DEF v, f, h1
<1>10. ct.parts = <<FromIntegers(g, basis), FromIntegers(a, basis)>> /\ g \in ZPoly
  <2>1. ct.parts = <<PolyAdd(FromIntegers(v, basis), FromIntegers(h2, basis), basis),
                     CommonElement(2, basis)>>
    BY <1>8, <1>9 DEF Refreshed
  <2> HIDE DEF h2
  <2> QED
    BY <1>6, <1>9, <2>1, FIAdd, PolyTypes DEF CommonElement, CommonPoly
<1> DEFINE w == ZSub(E, D)
<1>11. /\ ZSub(m, M) = ZAdd(ZMod(ZSub(m, M)), ZScale(D, T)) /\ D \in ZPoly /\ Within(D, n)
  <2> DEFINE P == ZSub(m, M)
  <2>1. P \in ZPoly /\ \A i \in Coeffs : -(T * n) <= P[i] /\ P[i] < T * (n + 1)
    BY <1>3 DEF CarryBound
  <2> HIDE DEF P, n
  <2> QED
    BY <1>0, <2>1, Carry DEF P
<1>12. w \in ZPoly /\ Within(w, n * ErrorBound + n) /\ ct.noise = n * ErrorBound + n
       /\ ct.noise \in Nat
  <2> DEFINE B == n * ErrorBound
  <2>1. ct.noise = B + n
    <3>1. ErrorBound \in Nat
      BY Samples
    <3>2. n * (ErrorBound + 1) = n * ErrorBound + n
      BY <1>0, <3>1
    <3> QED
      BY <3>2 DEF RefreshNoise
  <2> HIDE DEF D, B, E, n
  <2>2. E \in ZPoly /\ D \in ZPoly /\ B \in Nat /\ n \in Nat /\ Within(E, B) /\ Within(D, n)
    BY <1>0, <1>5, <1>11 DEF B
  <2>3. Within(ZSub(E, D), B + n) /\ ZSub(E, D) \in ZPoly
    BY <2>2, WithinAdd, PolyTypes
  <2> QED
    BY <2>1, <2>2, <2>3 DEF B
<1>13. ct.valid /\ Aligned =>
         ZAdd(g, ZMul(a, S)) = ZAdd(ct.plain, ZScale(w, T)) /\ Within(w, ct.noise)
  <2>1. SUFFICES ASSUME u.valid, Aligned, Len(p) = 2, Margin(JointNoise(A) + n, basis[1])
                 PROVE  ZAdd(g, ZMul(a, S)) = ZAdd(m, ZScale(w, T))
    BY <1>12
  <2>2. ZAdd(c0, ZMul(c, S)) = ZAdd(m, ZScale(e, T)) /\ Within(e, A)
    BY <1>1, <1>2, <2>1
  <2>3. f = ZAdd(ZSub(m, M), ZScale(ZAdd(e, G), T)) /\ ZAdd(e, G) \in ZPoly
    <3> DEFINE X == ZMul(c, S)
    <3>1. X \in ZPoly
      BY <1>0, <1>2, MulType
    <3>2. f = ZAdd(c0, ZSub(ZAdd(X, ZScale(G, T)), M))
      BY DEF f, h1, Hiding, Opening
    <3> HIDE DEF X, c0, G, M, m
    <3>3. /\ ZAdd(c0, ZSub(ZAdd(X, ZScale(G, T)), M)) = ZAdd(ZSub(m, M), ZScale(ZAdd(e, G), T))
          /\ ZAdd(e, G) \in ZPoly
      BY <1>1, <1>2, <1>3, <1>4, <2>2, <3>1, HiddenPhase DEF X
    <3> QED
      BY <3>2, <3>3
  <2>4. v = ZMod(ZSub(m, M))
    <3> DEFINE d == ZAdd(e, G)  N == A + n * SmudgeBound  P == ZSub(m, M)
    <3>1. N \in Nat /\ Within(d, N) /\ N = JointNoise(A)
      <4> DEFINE B == n * SmudgeBound
      <4>1. B \in Nat /\ Within(G, B) /\ G \in ZPoly /\ Within(e, A) /\ A \in Nat /\ e \in ZPoly
        BY <1>1, <1>4, <2>2
      <4> HIDE DEF B, G, A
      <4>2. Within(ZAdd(e, G), A + B) /\ A + B \in Nat
        BY <4>1, WithinAdd
      <4> QED
        BY <4>2 DEF B, JointNoise, n
    <3>2. d \in ZPoly /\ P \in ZPoly /\ CarryBound(P, n) /\ f = ZAdd(P, ZScale(d, T))
      BY <1>3, <2>3
    <3>3. Margin(N + n, basis[1])
      BY <2>1, <3>1
    <3> HIDE DEF d, N, P, n
    <3>4. Decode(FromIntegers(ZAdd(P, ZScale(d, T)), basis)) = ZMod(P)
      BY <1>0, <3>1, <3>2, <3>3, DecodeCarried
    <3> QED
      BY <3>2, <3>4 DEF v, P
  <2>5. ZSub(m, M) = ZAdd(v, ZScale(D, T))
    BY <1>11, <2>4
  <2> DEFINE X == ZMul(a, S)
  <2>6. X \in ZPoly
    BY <1>0, <1>5, MulType
  <2>7. h2 = ZAdd(ZSub(ZScale(E, T), X), M)
    BY DEF Unhiding
  <2> HIDE DEF X, E, M, D, m, h2
  <2>8. ZAdd(ZAdd(v, ZAdd(ZSub(ZScale(E, T), X), M)), X) = ZAdd(m, ZScale(ZSub(E, D), T))
    <3>1. v \in ZPoly /\ E \in ZPoly /\ M \in ZPoly /\ m \in ZPoly /\ D \in ZPoly
      BY <1>1, <1>3, <1>5, <1>9, <1>11
    <3> HIDE DEF v
    <3> QED
      BY <2>5, <2>6, <3>1, UnhiddenPhase
  <2> QED
    BY <2>7, <2>8 DEF X
<1>14. /\ ct.plain \in [Coeffs -> 0..(T - 1)] /\ ct.valid \in BOOLEAN /\ ct.noise \in Nat
       /\ S \in ZPoly /\ g \in ZPoly /\ a \in ZPoly /\ w \in ZPoly
  BY <1>0, <1>1, <1>5, <1>10, <1>12
<1>15. ct.parts = <<FromIntegers(g, basis), FromIntegers(a, basis)>>
  BY <1>10
<1> HIDE DEF g, w, a, S
<1>16. GoodCt(ct, S, basis)
  BY <1>13, <1>14, <1>15, GoodPair
<1> QED
  BY <1>16 DEF S

-----------------------------------------------------------------------------
(* Decryption                                                               *)

\* A message is its own residue.
LEMMA MessageIsResidue ==
    ASSUME NEW m \in [Coeffs -> 0..(T - 1)], NEW K, K = 0
    PROVE  CarryBound(m, K) /\ ZMod(m) = m /\ m \in ZPoly
<1>1. m \in ZPoly /\ \A i \in Coeffs : m[i] \in Int /\ 0 <= m[i] /\ m[i] <= T - 1 /\ m[i] % T = m[i]
  BY MessagePoly
<1>2. T \in Nat /\ -(T * 0) = 0 /\ T * (0 + 1) = T
  BY Samples
<1>3. CarryBound(m, K)
  <2> SUFFICES ASSUME NEW i \in Coeffs PROVE -(T * K) <= m[i] /\ m[i] < T * (K + 1)
    BY DEF CarryBound
  <2>1. m[i] \in Int /\ 0 <= m[i] /\ m[i] <= T - 1
    BY <1>1
  <2> QED
    BY <1>2, <2>1
<1>4. ZMod(m) = m
  BY <1>1 DEF ZMod
<1> QED
  BY <1>1, <1>3, <1>4

\* The phase of a ciphertext whose preconditions were met.
LEMMA PhaseOfGood ==
    ASSUME NEW b, Positive(b), IsHolders(holders), NEW ct, GoodCt(ct, KeyPoly(holders), b),
           ct.valid, Aligned
    PROVE  /\ ct.plain \in [Coeffs -> 0..(T - 1)] /\ ct.noise \in Nat /\ ct.plain \in ZPoly
           /\ \E e \in ZPoly :
                 /\ Within(e, ct.noise) /\ ZAdd(ct.plain, ZScale(e, T)) \in ZPoly
                 /\ Phase(ct.parts, Secret(b), b)
                       = FromIntegers(ZAdd(ct.plain, ZScale(e, T)), b)
<1> DEFINE S == KeyPoly(holders)  p == ct.parts
<1>1. S \in ZPoly /\ T \in Int /\ Secret(b) = FromIntegers(S, b)
  BY HolderFacts, SecretIs, Samples DEF Secret
<1> HIDE DEF S
<1>2. GoodCt(ct, S, b)
  BY DEF S
<1>3. PICK C, e :
         /\ ct.plain \in [Coeffs -> 0..(T - 1)] /\ ct.plain \in ZPoly
         /\ ct.noise \in Nat /\ ct.valid \in BOOLEAN
         /\ Lifts(C, p, b) /\ Len(p) >= 2 /\ e \in ZPoly
         /\ ct.valid /\ Aligned =>
               ZPhase(C, Len(p), S) = ZAdd(ct.plain, ZScale(e, T)) /\ Within(e, ct.noise)
  BY <1>2, GoodParts
<1>4. Phase(p, FromIntegers(S, b), b) = FromIntegers(ZPhase(C, Len(p), S), b)
  <2> HIDE DEF p
  <2> QED
    BY <1>1, <1>3, FIPhase
<1>5. ZAdd(ct.plain, ZScale(e, T)) \in ZPoly
  BY <1>1, <1>3, PolyTypes
<1> QED
  BY <1>1, <1>3, <1>4, <1>5

\* Decryptor and decode_u64.
LEMMA DecryptedGood ==
    ASSUME Positive(basis), Len(basis) > 0, IsHolders(holders), NEW ct,
           GoodCt(ct, KeyPoly(holders), basis), ct.valid, Aligned, Margin(ct.noise, basis[1])
    PROVE  Decrypted(ct) = ct.plain
<1> DEFINE m == ct.plain  N == ct.noise  K == 0
<1>1. /\ m \in [Coeffs -> 0..(T - 1)] /\ N \in Nat /\ m \in ZPoly
      /\ \E e \in ZPoly :
            /\ Within(e, N) /\ ZAdd(m, ZScale(e, T)) \in ZPoly
            /\ Phase(ct.parts, Secret(basis), basis) = FromIntegers(ZAdd(m, ZScale(e, T)), basis)
  BY PhaseOfGood
<1>2. PICK e \in ZPoly :
            /\ Within(e, N)
            /\ Phase(ct.parts, Secret(basis), basis) = FromIntegers(ZAdd(m, ZScale(e, T)), basis)
  BY <1>1
<1>3. K \in Nat /\ K = 0 /\ N + K = N
  BY <1>1
<1>4. Margin(N + K, basis[1])
  BY <1>3
<1> HIDE DEF m, N, K
<1>5. CarryBound(m, K) /\ ZMod(m) = m
  BY <1>1, <1>3, MessageIsResidue
<1>6. Decode(FromIntegers(ZAdd(m, ZScale(e, T)), basis)) = ZMod(m)
  BY <1>1, <1>2, <1>3, <1>4, <1>5, DecodeCarried
<1> QED
  BY <1>2, <1>5, <1>6 DEF Decrypted, m

\* PartialDecryptor.
LEMMA JointlyDecryptedGood ==
    ASSUME Positive(basis), Len(basis) > 0, IsHolders(holders), NEW ct,
           GoodCt(ct, KeyPoly(holders), basis), ct.valid, Aligned, Len(ct.parts) = 2,
           Margin(JointNoise(ct.noise), basis[1])
    PROVE  JointlyDecrypted(ct) = ct.plain
<1> DEFINE p == ct.parts  m == ct.plain  A == ct.noise  S == KeyPoly(holders)  n == Len(holders)
           G == SmudgeSum(n, 0)  K == 0
<1>0. n \in Nat /\ S \in ZPoly /\ T \in Int /\ Holders = 1..n
  BY HolderFacts, Samples DEF Holders
<1>1. PICK C, e :
         /\ m \in [Coeffs -> 0..(T - 1)] /\ m \in ZPoly
         /\ A \in Nat /\ ct.valid \in BOOLEAN
         /\ Lifts(C, p, basis) /\ Len(p) >= 2 /\ e \in ZPoly
         /\ ct.valid /\ Aligned =>
               ZPhase(C, Len(p), S) = ZAdd(m, ZScale(e, T)) /\ Within(e, A)
  BY GoodParts
<1> DEFINE c0 == C[1]  c == C[2]
<1>2. /\ p[1] = FromIntegers(c0, basis) /\ p[2] = FromIntegers(c, basis)
      /\ c0 \in ZPoly /\ c \in ZPoly
      /\ Len(p) = 2 => ZPhase(C, Len(p), S) = ZAdd(c0, ZMul(c, S))
  <2> HIDE DEF p, S
  <2> QED
    BY <1>0, <1>1, PairOf
<1>3. ZAdd(c0, ZMul(c, S)) = ZAdd(m, ZScale(e, T)) /\ Within(e, A)
  BY <1>1, <1>2
<1>4. G \in ZPoly /\ Within(G, n * SmudgeBound) /\ n * SmudgeBound \in Nat
  BY <1>2, OpeningFacts
<1> DEFINE s == [q \in Holders |-> DecryptShare(q, p[2], T, basis)]  H == Opening(c, n, S)
           d == ZAdd(e, G)  N == JointNoise(A)
<1>5. PolySum(s, basis) = FromIntegers(H, basis) /\ H \in ZPoly
  <2>1. DecryptShares(s, FromIntegers(c, basis), basis)
    BY <1>2 DEF DecryptShares
  <2> HIDE DEF s, c
  <2> QED
    BY <1>2, <2>1, DecryptSums
<1>6. JointPhase(p, T, basis) = PolyAdd(p[1], PolySum(s, basis), basis)
  BY DEF JointPhase, SumOverHolders
<1> HIDE DEF s
<1>7. JointPhase(p, T, basis) = FromIntegers(ZAdd(c0, H), basis)
  <2>1. PolyAdd(FromIntegers(c0, basis), FromIntegers(H, basis), basis)
           = FromIntegers(ZAdd(c0, H), basis)
    <3> HIDE DEF c0, H
    <3> QED
      BY <1>2, <1>5, FIAdd
  <2> QED
    BY <1>2, <1>5, <1>6, <2>1
<1>8. ZAdd(c0, H) = ZAdd(m, ZScale(d, T)) /\ d \in ZPoly
  <2> DEFINE X == ZMul(c, S)  Y == ZScale(G, T)
  <2>1. X \in ZPoly /\ Y \in ZPoly /\ H = ZAdd(X, Y) /\ ZAdd(c0, X) = ZAdd(m, ZScale(e, T))
    BY <1>0, <1>2, <1>3, <1>4, MulType, PolyTypes DEF Opening
  <2> HIDE DEF X, c0, H, G, m
  <2>2. ZAdd(ZAdd(c0, X), Y) = ZAdd(c0, ZAdd(X, Y))
    <3> HIDE DEF Y
    <3> QED
      BY <1>2, <2>1, AddAssoc
  <2>3. ZAdd(ZAdd(m, ZScale(e, T)), Y) = ZAdd(m, ZScale(d, T)) /\ d \in ZPoly
    BY <1>1, <1>4, NoiseAdds
  <2> HIDE DEF Y, d
  <2> QED
    BY <2>1, <2>2, <2>3
<1>9. Within(d, N) /\ N \in Nat
  <2> DEFINE B == n * SmudgeBound
  <2>1. B \in Nat /\ Within(G, B) /\ G \in ZPoly /\ Within(e, A) /\ A \in Nat /\ e \in ZPoly
    BY <1>1, <1>3, <1>4
  <2> HIDE DEF B, G, A
  <2>2. Within(ZAdd(e, G), A + B) /\ A + B \in Nat
    BY <2>1, WithinAdd
  <2> QED
    BY <2>2 DEF B, JointNoise, n
<1>10. K \in Nat /\ K = 0 /\ N + K = N
  BY <1>9
<1>11. Margin(N + K, basis[1])
  BY <1>10
<1> HIDE DEF m, N, K, d, H, c0, p
<1>12. CarryBound(m, K) /\ ZMod(m) = m
  BY <1>1, <1>10, MessageIsResidue
<1>13. Decode(FromIntegers(ZAdd(m, ZScale(d, T)), basis)) = ZMod(m)
  BY <1>1, <1>8, <1>9, <1>10, <1>11, <1>12, DecodeCarried
<1> QED
  BY <1>7, <1>8, <1>12, <1>13 DEF JointlyDecrypted, m, p

\* Residual: within the margin, a multiple of T no larger than the tracked
\* bound.
LEMMA ResidualGood ==
    ASSUME IsBasis(basis), IsHolders(holders), NEW ct,
           GoodCt(ct, KeyPoly(holders), basis), ct.valid, Aligned,
           Margin(ct.noise, BasisProduct(basis)), NEW i \in Coeffs
    PROVE  /\ Residual(ct)[i] % T = 0
           /\ Residual(ct)[i] \in (-T * ct.noise)..(T * ct.noise)
<1> DEFINE m == ct.plain  N == ct.noise  Q == BasisProduct(basis)
<1>0. Q \in Nat /\ Q > 0 /\ T \in Nat /\ T > 2 /\ Positive(basis)
  BY ProductFacts, BasisPositive, Samples
<1>1. /\ m \in [Coeffs -> 0..(T - 1)] /\ N \in Nat /\ m \in ZPoly
      /\ \E e \in ZPoly :
            /\ Within(e, N) /\ ZAdd(m, ZScale(e, T)) \in ZPoly
            /\ Phase(ct.parts, Secret(basis), basis) = FromIntegers(ZAdd(m, ZScale(e, T)), basis)
  BY <1>0, PhaseOfGood
<1>2. PICK e \in ZPoly :
            /\ Within(e, N)
            /\ Phase(ct.parts, Secret(basis), basis) = FromIntegers(ZAdd(m, ZScale(e, T)), basis)
  BY <1>1
<1>3. 2 * T * (1 + N) < Q
  BY DEF Margin
<1> DEFINE x1 == T * e[i]  x2 == T * N  z == m[i] + x1
<1>4. /\ e[i] \in Int /\ -N <= e[i] /\ e[i] <= N /\ m[i] \in Int /\ 0 <= m[i] /\ m[i] <= T - 1
      /\ x1 \in Int /\ x2 \in Int /\ 2 * T * (1 + N) = 2 * T + 2 * x2
  <2>1. e[i] \in Int /\ -N <= e[i] /\ e[i] <= N /\ m[i] \in Int /\ 0 <= m[i] /\ m[i] <= T - 1
    BY <1>1, <1>2, MessagePoly, PolyTypes DEF Within
  <2> HIDE DEF m, N
  <2> QED
    BY <1>0, <1>1, <2>1
<1>5. x1 <= x2 /\ -x2 <= x1
  <2> DEFINE v == e[i]  a == N - v  c == N + v
  <2>1. a \in Nat /\ c \in Nat /\ v \in Int
    BY <1>1, <1>4
  <2>2. T * a = T * N - T * v /\ T * c = T * N + T * v
    <3> HIDE DEF v, N
    <3> QED
      BY <1>0, <1>1, <2>1
  <2> HIDE DEF a, c
  <2>3. T * a >= 0 /\ T * c >= 0
    BY <1>0, <2>1
  <2> HIDE DEF v, N
  <2>4. T * N \in Int /\ T * v \in Int
    BY <1>0, <1>1, <2>1
  <2> QED
    BY <2>2, <2>3, <2>4 DEF v
<1>6. Residual(ct)[i] = CentredValue(Decompose(z, basis), basis) - m[i]
  <2>1. Phase(ct.parts, Secret(basis), basis)[i] = Decompose(z, basis)
    BY <1>2 DEF FromIntegers, ZAdd, ZScale
  <2> HIDE DEF z
  <2> QED
    BY <2>1 DEF Residual
<1> HIDE DEF x1, x2, Q, N
<1>7. z \in Int /\ 2 * z <= Q /\ -Q < 2 * z
  BY <1>0, <1>3, <1>4, <1>5
<1>8. CentredValue(Decompose(z, basis), basis) = z
  <2>1. TrueValue(Decompose(z, basis), basis) = z % Q
    <3> HIDE DEF z
    <3> QED
      BY <1>7, TrueValueExact DEF Q
  <2>2. Centre(z % Q, Q) = z
    <3> HIDE DEF z
    <3> QED
      BY <1>0, <1>7, CentreOfResidue
  <2> HIDE DEF z
  <2> QED
    BY <2>1, <2>2 DEF CentredValue, Q
<1>9. Residual(ct)[i] = x1
  BY <1>4, <1>6, <1>8
<1>10. x1 % T = 0
  <2> DEFINE k == e[i]  o == 0
  <2>1. k \in Int /\ o \in 0..(T - 1) /\ x1 = k * T + o
    BY <1>0, <1>4 DEF x1
  <2> HIDE DEF k, o
  <2>2. (k * T + o) % T = o
    BY <1>0, <2>1, QuotientUnique
  <2> QED
    BY <2>1, <2>2 DEF o
<1>11. x1 \in (-x2)..x2
  BY <1>4, <1>5
<1>12. -T * N = -x2 /\ T * N = x2
  BY <1>0, <1>1 DEF x2
<1> QED
  BY <1>9, <1>10, <1>11, <1>12 DEF N

-----------------------------------------------------------------------------
(* The invariant                                                            *)

\* The rings of the modulus chain: the first k moduli.
Level(k) == SubSeq(Moduli, 1, k)

\* Every prime has the inverses that InvMod computes.
LEMMA PrimeInverts ==
    ASSUME NEW q \in Nat, q > 1, \A d \in 2..(q - 1) : q % d # 0
    PROVE  Inverts(q)
<1>1. IsPrime(q)
  BY DEF IsPrime
<1> SUFFICES ASSUME NEW a \in 1..(q - 1)
             PROVE  InvMod(a, q) \in 0..(q - 1) /\ (a * InvMod(a, q)) % q = 1
  BY DEF Inverts
<1>2. a \in Nat /\ a % q # 0
  <2> DEFINE o == 0
  <2>1. o \in Int /\ a \in 0..(q - 1) /\ o * q + a = a
    OBVIOUS
  <2> HIDE DEF o
  <2>2. (o * q + a) % q = a
    BY <2>1, QuotientUnique
  <2> QED
    BY <2>1, <2>2
<1> QED
  BY <1>1, <1>2, InvModInverts

\* What key switching, modulus switching and decoding need of a level.
LEMMA LevelFacts ==
    ASSUME NEW k \in 1..Len(Moduli)
    PROVE  /\ IsBasis(Level(k)) /\ Enough(Level(k)) /\ Positive(Level(k))
           /\ Len(Level(k)) = k /\ k \in Nat
           /\ InvertsIn(Level(k)[k], T)
           /\ Aligned /\ k > 1 => Level(k)[k] % T = 1
           /\ k > 1 => DropLast(Level(k)) = Level(k - 1) /\ k - 1 \in 1..Len(Moduli)
<1> DEFINE b == Level(k)
<1>1. /\ Moduli \in Seq(Nat) /\ Len(Moduli) \in Nat
      /\ \A i, j \in 1..Len(Moduli) : i # j => Moduli[i] # Moduli[j]
      /\ \A i \in 1..Len(Moduli) :
            /\ Moduli[i] \in Nat /\ Moduli[i] > 2
            /\ \A d \in 2..(Moduli[i] - 1) : Moduli[i] % d # 0
            /\ Moduli[i] % T # 0
            /\ Moduli[i] <= Weight(Levels)
  BY BgvAssumption
<1>2. T \in Nat /\ T > 2 /\ T > 1 /\ \A d \in 2..(T - 1) : T % d # 0
  BY BgvAssumption, Samples
<1>3. b \in Seq(Nat) /\ Len(b) = k /\ k \in Nat /\ \A i \in 1..k : b[i] = Moduli[i]
  BY <1>1 DEF Level
<1> HIDE DEF b
<1>4. ASSUME NEW i \in 1..k PROVE b[i] > 1 /\ Inverts(b[i]) /\ b[i] <= Weight(Levels)
  <2> DEFINE q == Moduli[i]
  <2>1. /\ q \in Nat /\ q > 2 /\ (\A d \in 2..(q - 1) : q % d # 0)
        /\ q <= Weight(Levels) /\ b[i] = q
    BY <1>1, <1>3
  <2> HIDE DEF q
  <2>2. q > 1
    BY <2>1
  <2>3. Inverts(q)
    BY <2>1, <2>2, PrimeInverts
  <2> QED
    BY <2>1, <2>2, <2>3
<1>5. ASSUME NEW i \in 1..k, NEW j \in 1..k, i # j PROVE b[i] % b[j] # 0
  <2> DEFINE q == Moduli[i]  r == Moduli[j]
  <2>1. /\ q \in Nat /\ q > 2 /\ (\A d \in 2..(q - 1) : q % d # 0)
        /\ r \in Nat /\ r > 2 /\ b[i] = q /\ b[j] = r
    <3>1. i \in 1..Len(Moduli) /\ j \in 1..Len(Moduli)
      BY <1>1, <1>3
    <3>2. q \in Nat /\ q > 2 /\ (\A d \in 2..(q - 1) : q % d # 0)
      BY <1>1, <3>1
    <3>3. r \in Nat /\ r > 2
      BY <1>1, <3>1
    <3>4. b[i] = q /\ b[j] = r
      BY <1>3
    <3> QED
      BY <3>2, <3>3, <3>4
  <2>2. r # q
    <3>1. i \in 1..Len(Moduli) /\ j \in 1..Len(Moduli)
      BY <1>1, <1>3
    <3> QED
      BY <1>1, <1>5, <3>1
  <2> HIDE DEF q, r
  <2>3. q > 1 /\ r > 1
    BY <2>1
  <2>4. q % r # 0
    BY <2>1, <2>2, <2>3, DistinctPrimes
  <2> QED
    BY <2>1, <2>4
<1>6. IsBasis(b)
  BY <1>3, <1>4, <1>5 DEF IsBasis
<1>7. Enough(b)
  BY <1>3, <1>4 DEF Enough
<1>8. InvertsIn(b[k], T)
  <2> DEFINE q == Moduli[k]
  <2>1. q \in Nat /\ q \in Int /\ q % T # 0 /\ b[k] = q
    BY <1>1, <1>3
  <2>2. Inverts(T)
    BY <1>2, PrimeInverts
  <2> HIDE DEF q
  <2>3. InvMod(q % T, T) \in 0..(T - 1) /\ Cong(q * InvMod(q % T, T), 1, T)
    BY <1>2, <2>1, <2>2, UnitOfResidue
  <2> QED
    BY <2>1, <2>3 DEF InvertsIn
<1>9. Aligned /\ k > 1 => b[k] % T = 1
  BY <1>3 DEF Aligned
<1>10. ASSUME k > 1 PROVE DropLast(b) = Level(k - 1) /\ k - 1 \in 1..Len(Moduli)
  <2>1. k - 1 \in 1..Len(Moduli)
    BY <1>1, <1>10
  <2>2. DropLast(b) = SubSeq(b, 1, k - 1)
    BY <1>3 DEF DropLast
  <2>3. SubSeq(b, 1, k - 1) = [i \in 1..(k - 1) |-> b[i]]
    BY <1>3, <1>10
  <2>4. Level(k - 1) = [i \in 1..(k - 1) |-> Moduli[i]]
    BY <1>1, <2>1 DEF Level
  <2>5. \A i \in 1..(k - 1) : b[i] = Moduli[i]
    BY <1>3
  <2> QED
    BY <2>1, <2>2, <2>3, <2>4, <2>5
<1>11. Positive(b)
  BY <1>6, BasisPositive
<1> QED
  BY <1>3, <1>6, <1>7, <1>8, <1>9, <1>10, <1>11 DEF b

\* The keys of the first level, of a smaller one, and of the recipient.
LEMMA KeysGood ==
    ASSUME NEW b, IsBasis(b), IsHolders(holders)
    PROVE  /\ GoodKeys(Keys(b).own, holders, b)
           /\ Len(holders) # 1 => GoodKeys(Keys(b).recipient, <<Recipient>>, b)
<1>1. CASE Len(holders) = 1
  <2>1. Keys(b).own = GeneratedKeys(holders, b)
    BY <1>1 DEF Keys
  <2> QED
    BY <1>1, <2>1, GeneratedKeysGood
<1>2. CASE Len(holders) # 1
  <2>1. Keys(b).own = CollectiveKeys(b) /\ Keys(b).recipient = GeneratedKeys(<<Recipient>>, b)
    BY <1>2 DEF Keys
  <2> DEFINE h == <<Recipient>>
  <2>2. IsHolders(h) /\ Len(h) = 1
    BY SampleAssumption DEF IsHolders, Small
  <2>3. GoodKeys(GeneratedKeys(h, b), h, b)
    <3> HIDE DEF h
    <3> QED
      BY <2>2, GeneratedKeysGood
  <2> QED
    BY <1>2, <2>1, <2>3, CollectiveKeysGood
<1> QED
  BY <1>1, <1>2

\* A ciphertext with its three ghosts.
IsCt(ct) ==
    ct = [parts |-> ct.parts, plain |-> ct.plain, noise |-> ct.noise, valid |-> ct.valid]

\* What the invariant says of an operand that is there.
OperandOK(ct, h, b) == Held(ct) => IsCt(ct) /\ GoodCt(ct, KeyPoly(h), b)

\* What a BGV computation keeps: the basis is a level of the chain, the keys
\* encrypt what they are said to under the key of the holders, and so do the
\* ciphertexts.
BgvInv ==
    /\ IsHolders(holders) /\ holders \in HolderSets \cup {<<Recipient>>}
    /\ \E k \in 1..Len(Moduli) : basis = Level(k)
    /\ GoodKeys(keys.own, holders, basis)
    /\ Len(holders) # 1 => GoodKeys(keys.recipient, <<Recipient>>, basis)
    /\ OperandOK(x, holders, basis) /\ OperandOK(y, holders, basis)
    /\ ops \in 0..MaxOps

\* The bound of a product is a number.
LEMMA BoundType ==
    ASSUME NEW a \in Nat, NEW c \in Nat
    PROVE  RingProductBound(a, c) \in Nat
<1>1. Degree \in Nat
  BY DegreeAssumption
<1>2. Degree * a \in Nat
  BY <1>1
<1> DEFINE d == Degree * a
<1>3. d \in Nat
  BY <1>2
<1> HIDE DEF d
<1>4. d * c \in Nat
  BY <1>3
<1> QED
  BY <1>4 DEF RingProductBound, d

\* The noise bounds of the keys are numbers.
LEMMA RelinNoiseType ==
    ASSUME NEW n \in Nat
    PROVE  RelinNoise(n) \in Nat /\ n * ErrorBound \in Nat
<1> DEFINE E == n * ErrorBound  A == RingProductBound(n, E)  C == RingProductBound(E, n)
           R == A + E + C  P == RingProductBound(n, R)
<1>1. E \in Nat /\ ErrorBound \in Nat
  BY Samples
<1> HIDE DEF E
<1>2. A \in Nat /\ C \in Nat
  BY <1>1, BoundType
<1> HIDE DEF A, C
<1>3. R \in Nat
  BY <1>1, <1>2
<1> HIDE DEF R
<1>4. P \in Nat
  BY <1>3, BoundType
<1>5. RelinNoise(n) = IF n = 1 THEN ErrorBound ELSE P + R
  BY DEF RelinNoise, E, A, C, R
<1> HIDE DEF P
<1> QED
  BY <1>1, <1>3, <1>4, <1>5 DEF E

\* What the invariant gives every operation.
LEMMA InvFacts ==
    ASSUME BgvInv
    PROVE  LET S == KeyPoly(holders)
           IN  /\ IsBasis(basis) /\ Positive(basis) /\ Enough(basis) /\ Len(basis) > 0
               /\ IsHolders(holders)
               /\ S \in ZPoly /\ SecretBound \in Nat /\ Within(S, SecretBound)
               /\ Secret(basis) = FromIntegers(S, basis)
               /\ RowOf(keys.own.public, ZZero, S, Len(holders) * ErrorBound, basis)
               /\ KeyRows(keys.own.relin, ZMul(S, S), S, RelinKeyNoise, basis)
               /\ RelinKeyNoise \in Nat
               /\ KeyRows(keys.own.galois, ZAut(S, Element), S, CollectiveKeyNoise, basis)
               /\ CollectiveKeyNoise \in Nat
<1> DEFINE S == KeyPoly(holders)  n == Len(holders)
<1>1. PICK k \in 1..Len(Moduli) : basis = Level(k)
  BY DEF BgvInv
<1>2. IsBasis(basis) /\ Positive(basis) /\ Enough(basis) /\ Len(basis) > 0
  BY <1>1, LevelFacts
<1>3. IsHolders(holders) /\ GoodKeys(keys.own, holders, basis)
  BY DEF BgvInv
<1>4. n \in Nat /\ S \in ZPoly /\ Within(S, n)
  BY <1>3, HolderFacts
<1>5. Secret(basis) = FromIntegers(S, basis)
  BY <1>2, <1>3, SecretIs DEF Secret
<1>6. RelinKeyNoise = RelinNoise(n) /\ CollectiveKeyNoise = n * ErrorBound
  BY DEF RelinKeyNoise, Round1Noise, RelinNoise, CollectiveKeyNoise, SecretBound
<1>7. RelinKeyNoise \in Nat /\ CollectiveKeyNoise \in Nat
  BY <1>4, <1>6, RelinNoiseType
<1>8. /\ RowOf(keys.own.public, ZZero, S, n * ErrorBound, basis)
      /\ KeyRows(keys.own.relin, ZMul(S, S), S, RelinKeyNoise, basis)
      /\ KeyRows(keys.own.galois, ZAut(S, Element), S, CollectiveKeyNoise, basis)
  BY <1>3, <1>6 DEF GoodKeys, KeyRows
<1> QED
  BY <1>2, <1>3, <1>4, <1>5, <1>7, <1>8 DEF SecretBound

\* The samples of an encryption.
LEMMA SampleFacts ==
    /\ \A m \in Messages : m \in [Coeffs -> 0..(T - 1)]
    /\ \A a \in Masks : a \in ZPoly
    /\ \A e \in Errors : e \in ZPoly /\ Within(e, ErrorBound)
    /\ \A u \in Ternaries : u \in ZPoly /\ Within(u, 1)
    /\ ErrorBound \in Nat
<1>1. ErrorBound \in Nat /\ \A e \in Errors : e \in SmallPolys(ErrorBound)
  BY SampleAssumption DEF Small
<1>2. \A u \in Ternaries : u \in SmallPolys(1)
  BY SampleAssumption DEF Small
<1>3. ASSUME NEW e \in Errors PROVE e \in ZPoly /\ Within(e, ErrorBound)
  BY <1>1, SmallIs
<1>4. ASSUME NEW u \in Ternaries PROVE u \in ZPoly /\ Within(u, 1)
  <2> DEFINE B == 1
  <2>1. B \in Nat /\ u \in SmallPolys(B)
    BY <1>2
  <2> HIDE DEF B
  <2>2. u \in ZPoly /\ Within(u, B)
    BY <2>1, SmallIs
  <2> QED
    BY <2>2 DEF B
<1> QED
  BY <1>1, <1>3, <1>4, SampleAssumption DEF ZPoly

\* What the invariant says of the ciphertext an operation makes.
Result(ct) == IsCt(ct) /\ GoodCt(ct, KeyPoly(holders), basis)

\* Encryptor::encrypt with the secret key.
LEMMA EncryptSecretResult ==
    ASSUME BgvInv, NEW m \in Messages, NEW a \in Masks, NEW e \in Errors, NEW ct,
           ct = Ciphertext(CtAddPlain(ZeroRow(Secret(basis), Poly(a), e, basis), Encode(m), basis),
                           m, FreshSecretKeyNoise)
    PROVE  Result(ct)
<1> DEFINE S == KeyPoly(holders)
<1>1. Positive(basis) /\ S \in ZPoly /\ Secret(basis) = FromIntegers(S, basis)
  BY InvFacts
<1>2. m \in [Coeffs -> 0..(T - 1)] /\ a \in ZPoly /\ e \in ZPoly /\ Within(e, ErrorBound)
  BY SampleFacts
<1>3. Encode(m) = FromIntegers(m, basis)
  BY <1>2, EncodeIs
<1>4. /\ ct.parts = CtAddPlain(ZeroRow(FromIntegers(S, basis), FromIntegers(a, basis), e, basis),
                               FromIntegers(m, basis), basis)
      /\ ct.plain = m /\ ct.noise = ErrorBound /\ ct.valid = TRUE /\ IsCt(ct)
  BY <1>1, <1>3 DEF Ciphertext, FreshSecretKeyNoise, Poly, IsCt
<1> HIDE DEF S
<1>5. GoodCt(ct, S, basis)
  BY <1>1, <1>2, <1>4, EncryptSecretGood
<1> QED
  BY <1>4, <1>5 DEF Result, S

\* Encryptor::encrypt with a public key.
LEMMA EncryptPublicResult ==
    ASSUME BgvInv, NEW m \in Messages, NEW u \in Ternaries, NEW e0 \in Errors, NEW e1 \in Errors,
           NEW ct, ct = EncryptPublic(m, u, e0, e1)
    PROVE  Result(ct)
<1> DEFINE S == KeyPoly(holders)  n == Len(holders)  pair == keys.own.public
<1>1. Positive(basis) /\ S \in ZPoly /\ n \in Nat /\ Within(S, n)
      /\ RowOf(pair, ZZero, S, n * ErrorBound, basis)
  BY InvFacts DEF SecretBound
<1>2. /\ m \in [Coeffs -> 0..(T - 1)] /\ u \in ZPoly /\ Within(u, 1)
      /\ e0 \in ZPoly /\ Within(e0, ErrorBound) /\ e1 \in ZPoly /\ Within(e1, ErrorBound)
  BY SampleFacts
<1>3. Encode(m) = FromIntegers(m, basis)
  BY <1>2, EncodeIs
<1>4. /\ ct.parts = CtAddPlain(
             <<PolyAdd(PolyMul(pair[1], FromIntegers(u, basis), basis), Scaled(e0, T, basis), basis),
               PolyAdd(PolyMul(pair[2], FromIntegers(u, basis), basis), Scaled(e1, T, basis), basis)>>,
             FromIntegers(m, basis), basis)
      /\ ct.plain = m /\ ct.valid = TRUE /\ IsCt(ct)
      /\ ct.noise = RingProductBound(1, n * ErrorBound) + RingProductBound(n, ErrorBound)
                        + ErrorBound
  BY <1>3 DEF EncryptPublic, Ciphertext, Poly, IsCt, FreshPublicKeyNoise, CollectiveKeyNoise,
              SecretBound
<1> HIDE DEF S, n, pair
<1>5. ct.valid \in BOOLEAN
  BY <1>4
<1>6. GoodCt(ct, S, basis)
  BY <1>1, <1>2, <1>4, <1>5, EncryptPublicGood
<1> QED
  BY <1>4, <1>6 DEF Result, S

-----------------------------------------------------------------------------
(* Every operation keeps it                                                 *)

\* Evaluator::add and Evaluator::sub.
LEMMA AddSubResult ==
    ASSUME BgvInv, SameShape, NEW ct, IsCt(ct),
           \/ /\ ct.parts = CtAdd(x.parts, y.parts, basis) /\ ct.plain = PlainAdd(x.plain, y.plain)
           \/ /\ ct.parts = CtSub(x.parts, y.parts, basis) /\ ct.plain = PlainSub(x.plain, y.plain),
           ct.noise = x.noise + y.noise + SumCarry, ct.valid = (x.valid /\ y.valid)
    PROVE  Result(ct)
<1> DEFINE S == KeyPoly(holders)
<1>1. Positive(basis) /\ S \in ZPoly
  BY InvFacts
<1>2. GoodCt(x, S, basis) /\ GoodCt(y, S, basis) /\ Len(x.parts) = Len(y.parts)
  BY DEF BgvInv, OperandOK, SameShape
<1> HIDE DEF S
<1>3. GoodCt(ct, S, basis)
  BY <1>1, <1>2, AddSubGood
<1> QED
  BY <1>3 DEF Result, S

\* Add leaves a good ciphertext.
LEMMA AddResult ==
    ASSUME BgvInv, Add
    PROVE  Result(x')
<1> DEFINE ct == [parts |-> CtAdd(x.parts, y.parts, basis), plain |-> PlainAdd(x.plain, y.plain),
                  noise |-> x.noise + y.noise + SumCarry, valid |-> x.valid /\ y.valid]
<1>1. x' = ct /\ SameShape
  BY DEF Add
<1>2. /\ IsCt(ct) /\ ct.parts = CtAdd(x.parts, y.parts, basis)
      /\ ct.plain = PlainAdd(x.plain, y.plain)
      /\ ct.noise = x.noise + y.noise + SumCarry /\ ct.valid = (x.valid /\ y.valid)
  BY DEF IsCt
<1> HIDE DEF ct
<1> QED
  BY <1>1, <1>2, AddSubResult

\* Sub leaves a good ciphertext.
LEMMA SubResult ==
    ASSUME BgvInv, Sub
    PROVE  Result(x')
<1> DEFINE ct == [parts |-> CtSub(x.parts, y.parts, basis), plain |-> PlainSub(x.plain, y.plain),
                  noise |-> x.noise + y.noise + SumCarry, valid |-> x.valid /\ y.valid]
<1>1. x' = ct /\ SameShape
  BY DEF Sub
<1>2. /\ IsCt(ct) /\ ct.parts = CtSub(x.parts, y.parts, basis)
      /\ ct.plain = PlainSub(x.plain, y.plain)
      /\ ct.noise = x.noise + y.noise + SumCarry /\ ct.valid = (x.valid /\ y.valid)
  BY DEF IsCt
<1> HIDE DEF ct
<1> QED
  BY <1>1, <1>2, AddSubResult

\* A ciphertext made from x by new parts, plaintext, noise and validity.
Made(ct, p, m, n, v) ==
    IsCt(ct) /\ ct.parts = p /\ ct.plain = m /\ ct.noise = n /\ ct.valid = v

\* The first operand is good.
LEMMA HeldX ==
    ASSUME BgvInv, Held(x)
    PROVE  IsCt(x) /\ GoodCt(x, KeyPoly(holders), basis)
  BY DEF BgvInv, OperandOK

\* Evaluator::neg.
LEMMA NegResult ==
    ASSUME BgvInv, Neg
    PROVE  Result(x')
<1> DEFINE S == KeyPoly(holders)
<1>1. Positive(basis) /\ S \in ZPoly
  BY InvFacts
<1>2. IsCt(x) /\ GoodCt(x, S, basis)
  BY HeldX DEF Neg
<1>3. Made(x', CtNeg(x.parts, basis), PlainSub(PlainZero, x.plain), x.noise + SumCarry, x.valid)
  BY <1>2 DEF Neg, Made, IsCt
<1> HIDE DEF S
<1>4. GoodCt(x', S, basis)
  BY <1>1, <1>2, <1>3, NegGood DEF Made
<1> QED
  BY <1>3, <1>4 DEF Result, Made, S

\* Evaluator::add_plain and Evaluator::mul_plain.
LEMMA AddPlainResult ==
    ASSUME BgvInv, NEW m \in Messages, AddPlain(m)
    PROVE  Result(x')
<1> DEFINE S == KeyPoly(holders)
<1>1. Positive(basis) /\ S \in ZPoly
  BY InvFacts
<1>2. IsCt(x) /\ GoodCt(x, S, basis)
  BY HeldX DEF AddPlain
<1>3. m \in [Coeffs -> 0..(T - 1)] /\ Encode(m) = FromIntegers(m, basis)
  BY SampleFacts, EncodeIs
<1>4. Made(x', CtAddPlain(x.parts, FromIntegers(m, basis), basis), PlainAdd(x.plain, m),
           x.noise + SumCarry, x.valid)
  BY <1>2, <1>3 DEF AddPlain, Made, IsCt
<1> HIDE DEF S
<1>5. GoodCt(x', S, basis)
  BY <1>1, <1>2, <1>3, <1>4, AddPlainGood DEF Made
<1> QED
  BY <1>4, <1>5 DEF Result, Made, S

\* Evaluator::mul_plain.
LEMMA MulPlainResult ==
    ASSUME BgvInv, NEW m \in Messages, MulPlain(m)
    PROVE  Result(x')
<1> DEFINE S == KeyPoly(holders)
<1>1. Positive(basis) /\ S \in ZPoly
  BY InvFacts
<1>2. IsCt(x) /\ GoodCt(x, S, basis)
  BY HeldX DEF MulPlain
<1>3. m \in [Coeffs -> 0..(T - 1)] /\ Encode(m) = FromIntegers(m, basis)
  BY SampleFacts, EncodeIs
<1>4. Made(x', CtMul(x.parts, <<FromIntegers(m, basis)>>, basis), PlainMul(x.plain, m),
           MulPlainNoise(x.noise), x.valid)
  BY <1>2, <1>3 DEF MulPlain, Made, IsCt
<1> HIDE DEF S
<1>5. GoodCt(x', S, basis)
  BY <1>1, <1>2, <1>3, <1>4, MulPlainGood DEF Made
<1> QED
  BY <1>4, <1>5 DEF Result, Made, S

\* Evaluator::mul.
LEMMA MulResult ==
    ASSUME BgvInv, Mul
    PROVE  Result(x')
<1> DEFINE S == KeyPoly(holders)
<1>1. Positive(basis) /\ S \in ZPoly
  BY InvFacts
<1>2. GoodCt(x, S, basis) /\ GoodCt(y, S, basis)
  BY DEF BgvInv, OperandOK, Mul
<1>3. Made(x', CtMul(x.parts, y.parts, basis), PlainMul(x.plain, y.plain),
           MulNoiseBound(Larger(x.noise, y.noise)) + ProductCarry, x.valid /\ y.valid)
  BY DEF Mul, Made, IsCt
<1> HIDE DEF S
<1>4. GoodCt(x', S, basis)
  BY <1>1, <1>2, <1>3, MulGood DEF Made
<1> QED
  BY <1>3, <1>4 DEF Result, Made, S

\* relinearize_real and rotate_real refuse an absent operand by its length.
LEMMA LengthHeld ==
    ASSUME NEW ct, Len(ct.parts) > 0
    PROVE  Held(ct)
  BY DEF Held

\* Evaluator::relinearize.
LEMMA RelinearizeResult ==
    ASSUME BgvInv, Relinearize
    PROVE  Result(x')
<1> DEFINE S == KeyPoly(holders)  key == keys.own.relin  B == RelinKeyNoise
<1>1. /\ IsBasis(basis) /\ Enough(basis) /\ S \in ZPoly /\ B \in Nat
      /\ KeyRows(key, ZMul(S, S), S, B, basis)
  BY InvFacts
<1>2. IsCt(x) /\ GoodCt(x, S, basis) /\ Len(x.parts) = 3
  BY HeldX, LengthHeld DEF Relinearize
<1>3. Made(x', CtAdd(SubSeq(x.parts, 1, 2), KeySwitch(x.parts[3], key), basis), x.plain,
           RelinearizeNoiseBound(RowCount(basis), x.noise, B), x.valid)
  BY <1>2 DEF Relinearize, Made, IsCt
<1> HIDE DEF S, key, B
<1>4. GoodCt(x', S, basis)
  BY <1>1, <1>2, <1>3, RelinearizeGood DEF Made
<1> QED
  BY <1>3, <1>4 DEF Result, Made, S

\* Evaluator::rotate.
LEMMA RotateResult ==
    ASSUME BgvInv, Rotate
    PROVE  Result(x')
<1> DEFINE S == KeyPoly(holders)  key == keys.own.galois  B == CollectiveKeyNoise
<1>1. /\ IsBasis(basis) /\ Enough(basis) /\ S \in ZPoly /\ B \in Nat
      /\ KeyRows(key, ZAut(S, Element), S, B, basis)
  BY InvFacts
<1>2. IsCt(x) /\ GoodCt(x, S, basis) /\ Len(x.parts) = 2
  BY HeldX, LengthHeld DEF Rotate
<1>3. Made(x', CtAddPlain(KeySwitch(Automorphism(x.parts[2], Element, basis), key),
                          Automorphism(x.parts[1], Element, basis), basis),
           PlainRotate(x.plain),
           RelinearizeNoiseBound(RowCount(basis), x.noise, B) + SumCarry, x.valid)
  BY <1>2 DEF Rotate, Made, IsCt
<1> HIDE DEF S, key, B
<1>4. GoodCt(x', S, basis)
  BY <1>1, <1>2, <1>3, RotateGood DEF Made
<1> QED
  BY <1>3, <1>4 DEF Result, Made, S

\* InteractiveBootstrap, from the shares to the fresh ciphertext.
LEMMA RefreshResult ==
    ASSUME BgvInv, NEW masks \in [Holders -> Messages], Refresh(masks)
    PROVE  Result(x')
<1> DEFINE S == KeyPoly(holders)
           sums == MaskedSums(x.parts, [p \in Holders |-> Encode(masks[p])], T, basis)
           V == x.valid /\ Len(x.parts) = 2
                  /\ Margin(JointNoise(x.noise) + Len(holders), basis[1])
<1>1. Positive(basis) /\ Len(basis) > 0 /\ IsHolders(holders)
  BY InvFacts
<1>2. IsCt(x) /\ GoodCt(x, S, basis)
  BY HeldX DEF Refresh
<1>3. MaskTable(masks)
  BY SampleFacts DEF MaskTable
<1>4. Made(x', Refreshed(Reveal(sums.masked), sums, basis), x.plain, RefreshNoise, V)
  BY <1>2 DEF Refresh, Made, IsCt
<1>5. sums = MaskedSums(x.parts, [p \in Holders |-> Encode(masks[p])], T, basis)
  OBVIOUS
<1>6. V = (x.valid /\ Len(x.parts) = 2 /\ Margin(JointNoise(x.noise) + Len(holders), basis[1]))
  OBVIOUS
<1> HIDE DEF sums, V
<1>7. GoodCt(x', S, basis)
  BY <1>1, <1>2, <1>3, <1>4, <1>5, <1>6, RefreshGood DEF Made
<1> QED
  BY <1>4, <1>7 DEF Result, Made

\* switch_next_real, for a ciphertext that is there.
LEMMA SwitchedResult ==
    ASSUME BgvInv, Len(basis) > 1, NEW u, OperandOK(u, holders, basis)
    PROVE  OperandOK(Switched(u), holders, DropLast(basis))
<1> DEFINE S == KeyPoly(holders)  ct == Switched(u)  q == basis[Len(basis)]
<1>1. /\ IsBasis(basis) /\ S \in ZPoly /\ SecretBound \in Nat /\ Within(S, SecretBound)
  BY InvFacts
<1>2. InvertsIn(q, T) /\ (Aligned => q % T = 1)
  <2>1. PICK k \in 1..Len(Moduli) : basis = Level(k)
    BY DEF BgvInv
  <2>2. Len(basis) = k /\ InvertsIn(basis[k], T) /\ (Aligned /\ k > 1 => basis[k] % T = 1)
    BY <2>1, LevelFacts
  <2> QED
    BY <2>2
<1>3. CASE ~Held(u)
  BY <1>3 DEF Switched, OperandOK
<1>4. CASE Held(u)
  <2>1. IsCt(u) /\ GoodCt(u, S, basis)
    BY <1>4 DEF OperandOK
  <2>2. Made(ct, [c \in DOMAIN u.parts |->
                     [i \in Coeffs |-> ModulusSwitchDown(u.parts[c][i], basis, T)]],
             u.plain, SwitchNoise(u.noise, u.parts), u.valid)
    BY <1>4, <2>1 DEF Switched, Made, IsCt
  <2> HIDE DEF S, ct
  <2>3. GoodCt(ct, S, DropLast(basis))
    BY <1>1, <1>2, <2>1, <2>2, SwitchGood DEF Made
  <2> QED
    BY <2>2, <2>3 DEF OperandOK, Made, S, ct
<1> QED
  BY <1>3, <1>4

\* The recipient as the holder of a key.
LEMMA RecipientFacts ==
    LET R == KeyPoly(<<Recipient>>)
    IN  /\ IsHolders(<<Recipient>>) /\ R \in ZPoly /\ Within(R, 1) /\ Len(<<Recipient>>) = 1
        /\ \A own, b : GoodKeys(own, <<Recipient>>, b) => RowOf(own.public, ZZero, R, ErrorBound, b)
<1> DEFINE h == <<Recipient>>  n == Len(h)
<1>1. IsHolders(h) /\ n = 1
  BY SampleAssumption DEF IsHolders, Small
<1> HIDE DEF h
<1>2. KeyPoly(h) \in ZPoly /\ Within(KeyPoly(h), n)
  BY <1>1, HolderFacts
<1>3. ASSUME NEW own, NEW b, GoodKeys(own, h, b)
      PROVE  RowOf(own.public, ZZero, KeyPoly(h), ErrorBound, b)
  <2>1. RowOf(own.public, ZZero, KeyPoly(h), n * ErrorBound, b)
    BY <1>3 DEF GoodKeys
  <2>2. n * ErrorBound = ErrorBound
    BY <1>1, Samples
  <2> QED
    BY <2>1, <2>2
<1>4. Within(KeyPoly(h), 1)
  BY <1>1, <1>2
<1> QED
  BY <1>1, <1>2, <1>3, <1>4 DEF h

\* A protocol of several holders does not run with one.
LEMMA SeveralHolders ==
    ASSUME BgvInv, Len(holders) > 1
    PROVE  Len(holders) # 1
<1> DEFINE n == Len(holders)
<1>1. n \in Nat /\ n > 1
  BY HolderFacts DEF BgvInv
<1> HIDE DEF n
<1>2. n # 1
  BY <1>1
<1> QED
  BY <1>2 DEF n

\* ReEncryptor leaves a ciphertext that is good under the recipient's secret.
LEMMA ReEncryptResult ==
    ASSUME BgvInv, ReEncrypt
    PROVE  IsCt(x') /\ GoodCt(x', KeyPoly(<<Recipient>>), basis)
<1> DEFINE S == KeyPoly(holders)  R == KeyPoly(<<Recipient>>)  pk == keys.recipient.public
           V == x.valid /\ Len(x.parts) = 2
<1>1. Positive(basis) /\ IsHolders(holders)
  BY InvFacts
<1>2. IsCt(x) /\ GoodCt(x, S, basis)
  BY HeldX DEF ReEncrypt
<1>3. R \in ZPoly /\ Within(R, 1) /\ RowOf(pk, ZZero, R, ErrorBound, basis)
  <2>1. GoodKeys(keys.recipient, <<Recipient>>, basis)
    <3>1. Len(holders) # 1
      BY SeveralHolders DEF ReEncrypt
    <3> QED
      BY <3>1 DEF BgvInv
  <2> QED
    BY <2>1, RecipientFacts
<1>4. Made(x', ReEncrypted(x.parts, pk, T, basis), x.plain, x.noise + ReEncryptNoise, V)
  BY <1>2 DEF ReEncrypt, Made, IsCt
<1>5. V = (x.valid /\ Len(x.parts) = 2)
  OBVIOUS
<1> HIDE DEF R, pk, V
<1>6. GoodCt(x', R, basis)
  BY <1>1, <1>2, <1>3, <1>4, <1>5, ReEncryptGood DEF Made
<1> QED
  BY <1>4, <1>6 DEF Made, R

-----------------------------------------------------------------------------

\* The empty operand is not held.
LEMMA NoneNotHeld == ~Held(None)
  BY DEF Held, None

\* The initial states satisfy the invariant: the keys that the owner, or the
\* holders together, generate are good.
LEMMA BgvInitInv == BgvInit => BgvInv
<1> SUFFICES ASSUME BgvInit PROVE BgvInv
  OBVIOUS
<1>1. holders \in HolderSets /\ IsHolders(holders)
  BY SampleAssumption DEF BgvInit, IsHolders
<1> DEFINE k == Len(Moduli)
<1>2. k \in 1..Len(Moduli) /\ Moduli \in Seq(Nat)
  BY BgvAssumption
<1>3. Moduli = Level(k)
  BY <1>2 DEF Level
<1>4. IsBasis(Moduli)
  <2> HIDE DEF k
  <2> QED
    BY <1>2, <1>3, LevelFacts
<1>5. /\ GoodKeys(keys.own, holders, basis)
      /\ Len(holders) # 1 => GoodKeys(keys.recipient, <<Recipient>>, basis)
  BY <1>1, <1>4, KeysGood DEF BgvInit
<1>6. OperandOK(x, holders, basis) /\ OperandOK(y, holders, basis)
  BY NoneNotHeld DEF BgvInit, OperandOK
<1>7. ops \in 0..MaxOps
  BY SampleAssumption DEF BgvInit
<1>8. \E j \in 1..Len(Moduli) : basis = Level(j)
  BY <1>2, <1>3 DEF BgvInit
<1> QED
  BY <1>1, <1>5, <1>6, <1>7, <1>8 DEF BgvInv

\* A step that leaves the key and the ring alone.
LEMMA KeptInv ==
    ASSUME BgvInv, holders' = holders, keys' = keys, basis' = basis,
           OperandOK(x', holders, basis), OperandOK(y', holders, basis), ops' \in 0..MaxOps
    PROVE  BgvInv'
  BY DEF BgvInv

\* A good result is a good operand.
LEMMA ResultOK ==
    ASSUME NEW ct, Result(ct)
    PROVE  OperandOK(ct, holders, basis)
  BY DEF Result, OperandOK

\* What an operation that writes to x leaves.
LEMMA WroteX ==
    ASSUME BgvInv, Step, Keep, Result(x')
    PROVE  BgvInv'
<1>1. ops' \in 0..MaxOps
  BY SampleAssumption DEF BgvInv, Step
<1>2. OperandOK(y', holders, basis)
  BY DEF BgvInv, Keep
<1>3. holders' = holders /\ keys' = keys /\ basis' = basis
  BY DEF Keep
<1> QED
  BY <1>1, <1>2, <1>3, ResultOK, KeptInv

\* switch_next_real, of both operands and the keys.
LEMMA SwitchInv ==
    ASSUME BgvInv, SwitchModulus
    PROVE  BgvInv'
<1>1. PICK k \in 1..Len(Moduli) : basis = Level(k)
  BY DEF BgvInv
<1>2. k > 1 /\ DropLast(basis) = Level(k - 1) /\ k - 1 \in 1..Len(Moduli)
  BY <1>1, LevelFacts DEF SwitchModulus
<1> DEFINE j == k - 1
<1>3. j \in 1..Len(Moduli) /\ basis' = Level(j) /\ DropLast(basis) = Level(j)
  BY <1>2 DEF SwitchModulus
<1> HIDE DEF j
<1>4. IsBasis(DropLast(basis)) /\ IsHolders(holders) /\ holders \in HolderSets \cup {<<Recipient>>}
  BY <1>3, LevelFacts DEF BgvInv
<1> DEFINE b == DropLast(basis)
<1>5. /\ GoodKeys(Keys(b).own, holders, b)
      /\ Len(holders) # 1 => GoodKeys(Keys(b).recipient, <<Recipient>>, b)
  BY <1>4, KeysGood
<1>6. keys' = Keys(b) /\ holders' = holders /\ basis' = b /\ x' = Switched(x) /\ y' = Switched(y)
  BY DEF SwitchModulus
<1>7. OperandOK(Switched(x), holders, b) /\ OperandOK(Switched(y), holders, b)
  BY SwitchedResult DEF BgvInv, SwitchModulus
<1>8. ops' \in 0..MaxOps
  BY SampleAssumption DEF BgvInv, Step, SwitchModulus
<1> HIDE DEF b
<1>9. \E i \in 1..Len(Moduli) : basis' = Level(i)
  BY <1>3
<1> QED
  BY <1>4, <1>5, <1>6, <1>7, <1>8, <1>9 DEF BgvInv

\* ReEncryptor, and the keys of the recipient after it.
LEMMA ReEncryptInv ==
    ASSUME BgvInv, ReEncrypt
    PROVE  BgvInv'
<1> DEFINE h == <<Recipient>>
<1>1. IsHolders(h) /\ Len(h) = 1 /\ h \in HolderSets \cup {<<Recipient>>}
  BY RecipientFacts
<1>2. GoodKeys(keys.recipient, h, basis)
  <2>1. Len(holders) # 1
    BY SeveralHolders DEF ReEncrypt
  <2> QED
    BY <2>1 DEF BgvInv
<1>3. IsCt(x') /\ GoodCt(x', KeyPoly(h), basis)
  BY ReEncryptResult
<1>4. holders' = h /\ keys'.own = keys.recipient /\ basis' = basis /\ y' = None
  BY DEF ReEncrypt
<1>5. ops' \in 0..MaxOps
  <2>1. ops \in 0..MaxOps /\ ops < MaxOps /\ ops' = ops + 1
    BY DEF BgvInv, Step, ReEncrypt
  <2>2. MaxOps \in Nat
    BY SampleAssumption
  <2> QED
    BY <2>1, <2>2
<1> HIDE DEF h
<1>6. OperandOK(x', h, basis) /\ OperandOK(y', h, basis)
  BY <1>3, <1>4, NoneNotHeld DEF OperandOK
<1>7. \E k \in 1..Len(Moduli) : basis' = Level(k)
  BY <1>4 DEF BgvInv
<1> QED
  BY <1>1, <1>2, <1>4, <1>5, <1>6, <1>7 DEF BgvInv

\* What encryption leaves.
LEMMA Encrypted ==
    ASSUME BgvInv, KeepKeys,
           \/ Result(x') /\ y' = y
           \/ Result(y') /\ x' = x
    PROVE  BgvInv'
<1>1. ops' \in 0..MaxOps /\ holders' = holders /\ keys' = keys /\ basis' = basis
  BY DEF BgvInv, KeepKeys
<1>2. OperandOK(x', holders, basis) /\ OperandOK(y', holders, basis)
  BY ResultOK DEF BgvInv
<1> QED
  BY <1>1, <1>2, KeptInv

\* Every step of BgvNext keeps the invariant.
LEMMA BgvNextInv ==
    ASSUME BgvInv, BgvNext
    PROVE  BgvInv'
<1>1. ASSUME NEW m \in Messages, NEW a \in Masks, NEW e \in Errors, EncryptSecret(m, a, e)
      PROVE  BgvInv'
  BY <1>1, EncryptSecretResult, Encrypted DEF EncryptSecret
<1>2. ASSUME NEW m \in Messages, NEW u \in Ternaries, NEW e0 \in Errors, NEW e1 \in Errors,
             EncryptX(m, u, e0, e1)
      PROVE  BgvInv'
  BY <1>2, EncryptPublicResult, Encrypted DEF EncryptX
<1>3. ASSUME NEW m \in Messages, NEW u \in Ternaries, NEW e0 \in Errors, NEW e1 \in Errors,
             EncryptY(m, u, e0, e1)
      PROVE  BgvInv'
  BY <1>3, EncryptPublicResult, Encrypted DEF EncryptY
<1>4. CASE Add
  BY <1>4, AddResult, WroteX DEF Add
<1>5. CASE Sub
  BY <1>5, SubResult, WroteX DEF Sub
<1>6. CASE Neg
  BY <1>6, NegResult, WroteX DEF Neg
<1>7. CASE Mul
  BY <1>7, MulResult, WroteX DEF Mul
<1>8. CASE Relinearize
  BY <1>8, RelinearizeResult, WroteX DEF Relinearize
<1>9. CASE Rotate
  BY <1>9, RotateResult, WroteX DEF Rotate
<1>10. CASE SwitchModulus
  BY <1>10, SwitchInv
<1>11. ASSUME NEW m \in Messages, AddPlain(m) PROVE BgvInv'
  BY <1>11, AddPlainResult, WroteX DEF AddPlain
<1>12. ASSUME NEW m \in Messages, MulPlain(m) PROVE BgvInv'
  BY <1>12, MulPlainResult, WroteX DEF MulPlain
<1>13. CASE ReEncrypt
  BY <1>13, ReEncryptInv
<1>14. ASSUME NEW masks \in [Holders -> Messages], Refresh(masks) PROVE BgvInv'
  BY <1>14, RefreshResult, WroteX DEF Refresh
<1> QED
  BY <1>1, <1>2, <1>3, <1>4, <1>5, <1>6, <1>7, <1>8, <1>9, <1>10, <1>11, <1>12, <1>13, <1>14
     DEF BgvNext

-----------------------------------------------------------------------------
(* Theorems                                                                 *)

\* Residues of integer polynomials are reduced.
LEMMA ReducedFI ==
    ASSUME NEW b, Positive(b), NEW f \in ZPoly
    PROVE  Reduced(FromIntegers(f, b), b)
<1>1. ASSUME NEW i \in Coeffs PROVE DOMAIN FromIntegers(f, b)[i] = DOMAIN b
  BY DEF FromIntegers, Decompose
<1>2. \A i \in Coeffs : \A j \in DOMAIN b : FromIntegers(f, b)[i][j] \in 0..(b[j] - 1)
  BY FIValue
<1> QED
  BY <1>1, <1>2 DEF Reduced

\* A key row is reduced.
LEMMA ReducedRow ==
    ASSUME NEW b, Positive(b), NEW pair, NEW K, NEW S, NEW B, RowOf(pair, K, S, B, b)
    PROVE  Reduced(pair[1], b) /\ Reduced(pair[2], b)
<1>1. PICK k \in ZPoly, a \in ZPoly : pair = <<FromIntegers(k, b), FromIntegers(a, b)>>
  BY DEF RowOf
<1>2. pair[1] = FromIntegers(k, b) /\ pair[2] = FromIntegers(a, b)
  BY <1>1
<1> QED
  BY <1>2, ReducedFI

\* The integers behind the components of a ciphertext that is held.
LEMMA HeldParts ==
    ASSUME BgvInv, NEW ct \in HeldCts
    PROVE  /\ GoodCt(ct, KeyPoly(holders), basis)
           /\ \A c \in DOMAIN ct.parts : \E f \in ZPoly : ct.parts[c] = FromIntegers(f, basis)
<1>1. GoodCt(ct, KeyPoly(holders), basis)
  BY DEF BgvInv, OperandOK, HeldCts
<1>2. PICK C, e : Lifts(C, ct.parts, basis) /\ e \in ZPoly
  BY <1>1 DEF GoodCt, Encrypts
<1> DEFINE p == ct.parts
<1>3. DOMAIN p = 1..Len(p) /\ \A c \in 1..Len(p) : p[c] = FromIntegers(C[c], basis) /\ C[c] \in ZPoly
  <2> HIDE DEF p
  <2>1. Lifts(C, p, basis)
    BY <1>2 DEF p
  <2> QED
    BY <2>1, LiftsFacts
<1> QED
  BY <1>1, <1>3

-----------------------------------------------------------------------------

\* The keys and the components stay reduced and in the ring of the level.
LEMMA InvTypes == BgvInv => BgvTypeOK
<1> SUFFICES ASSUME BgvInv PROVE BgvTypeOK
  OBVIOUS
<1> DEFINE S == KeyPoly(holders)
<1>1. Positive(basis) /\ GoodKeys(keys.own, holders, basis)
  BY InvFacts DEF BgvInv
<1>2. Reduced(keys.own.public[1], basis) /\ Reduced(keys.own.public[2], basis)
  BY <1>1, ReducedRow DEF GoodKeys
<1>3. ASSUME NEW row \in Rows(basis)
      PROVE  /\ Reduced(keys.own.relin[row][1], basis) /\ Reduced(keys.own.relin[row][2], basis)
             /\ Reduced(keys.own.galois[row][1], basis) /\ Reduced(keys.own.galois[row][2], basis)
  BY <1>1, ReducedRow DEF GoodKeys
<1>4. ASSUME NEW ct \in HeldCts
      PROVE  /\ \A c \in DOMAIN ct.parts : Reduced(ct.parts[c], basis)
             /\ ct.plain \in [Coeffs -> 0..(T - 1)]
             /\ ct.noise \in Nat /\ ct.valid \in BOOLEAN
  <2>1. ASSUME NEW c \in DOMAIN ct.parts PROVE Reduced(ct.parts[c], basis)
    <3>1. PICK f \in ZPoly : ct.parts[c] = FromIntegers(f, basis)
      BY HeldParts
    <3> QED
      BY <1>1, <3>1, ReducedFI
  <2>2. GoodCt(ct, S, basis)
    BY HeldParts
  <2> QED
    BY <2>1, <2>2 DEF GoodCt
<1>5. \A c \in 1..2 : c = 1 \/ c = 2
  OBVIOUS
<1>6. \A c \in 1..2 :
         /\ Reduced(keys.own.public[c], basis)
         /\ \A row \in Rows(basis) :
               Reduced(keys.own.relin[row][c], basis) /\ Reduced(keys.own.galois[row][c], basis)
  BY <1>2, <1>3, <1>5
<1>7. holders \in HolderSets \cup {<<Recipient>>} /\ ops \in 0..MaxOps
  BY DEF BgvInv
<1> QED
  BY <1>4, <1>6, <1>7 DEF BgvTypeOK

\* The invariant gives the recomposition of the digits.
LEMMA InvDigits == BgvInv => BgvDigitsRecompose
<1> SUFFICES ASSUME BgvInv, NEW ct \in HeldCts, NEW c \in DOMAIN ct.parts
             PROVE  Recompose(Digits(ct.parts[c], basis), basis) = ct.parts[c]
  BY DEF BgvDigitsRecompose
<1>1. IsBasis(basis) /\ \A m \in 1..Len(basis) : basis[m] <= Weight(Levels)
  BY InvFacts DEF Enough
<1>2. PICK f \in ZPoly : ct.parts[c] = FromIntegers(f, basis)
  BY HeldParts
<1>3. Recompose(Digits(FromIntegers(f, basis), basis), basis) = FromIntegers(f, basis)
  BY <1>1, RecomposeDigits
<1> QED
  BY <1>2, <1>3

\* The invariant gives the bound of the noise, for moduli that keep the
\* message.
LEMMA InvNoise ==
    ASSUME Aligned
    PROVE  BgvInv => BgvNoiseBounded
<1> SUFFICES ASSUME BgvInv, NEW ct \in HeldCts, ct.valid, Margin(ct.noise, BasisProduct(basis)),
                    NEW i \in Coeffs
             PROVE  /\ Residual(ct)[i] % T = 0
                    /\ Residual(ct)[i] \in (-T * ct.noise)..(T * ct.noise)
  BY DEF BgvNoiseBounded
<1>1. IsBasis(basis) /\ IsHolders(holders)
  BY InvFacts
<1>2. GoodCt(ct, KeyPoly(holders), basis)
  BY HeldParts
<1> QED
  BY <1>1, <1>2, ResidualGood

\* The invariant gives the decryption, for moduli that keep the message.
LEMMA InvDecrypts ==
    ASSUME Aligned
    PROVE  BgvInv => BgvDecrypts
<1> SUFFICES ASSUME BgvInv, NEW ct \in HeldCts
             PROVE  /\ ct.valid /\ Margin(ct.noise, basis[1]) => Decrypted(ct) = ct.plain
                    /\ ct.valid /\ Len(ct.parts) = 2 /\ Margin(JointNoise(ct.noise), basis[1])
                           => JointlyDecrypted(ct) = ct.plain
  BY DEF BgvDecrypts
<1>1. Positive(basis) /\ Len(basis) > 0 /\ IsHolders(holders)
  BY InvFacts
<1>2. GoodCt(ct, KeyPoly(holders), basis)
  BY HeldParts
<1>3. ASSUME ct.valid, Margin(ct.noise, basis[1]) PROVE Decrypted(ct) = ct.plain
  BY <1>1, <1>2, <1>3, DecryptedGood
<1>4. ASSUME ct.valid, Len(ct.parts) = 2, Margin(JointNoise(ct.noise), basis[1])
      PROVE  JointlyDecrypted(ct) = ct.plain
  BY <1>1, <1>2, <1>4, JointlyDecryptedGood
<1> QED
  BY <1>3, <1>4

-----------------------------------------------------------------------------

\* The invariant, of the runs that chose BGV.
BgvRuns == scheme = "BGV" => BgvInv

\* Every BGV computation keeps its keys and its ciphertexts in BgvInv.
THEOREM BgvInvariant == Spec => []BgvRuns
<1>1. Init => BgvRuns
  <2> SUFFICES ASSUME Init, scheme = "BGV" PROVE BgvInv
    BY DEF BgvRuns
  <2>1. BgvInit
    BY DEF Init
  <2> QED
    BY <2>1, BgvInitInv
<1>2. BgvRuns /\ [Next]_<<vars, scheme>> => BgvRuns'
  <2> SUFFICES ASSUME BgvRuns, [Next]_<<vars, scheme>>, scheme' = "BGV" PROVE BgvInv'
    BY DEF BgvRuns
  <2>1. scheme = "BGV" /\ BgvInv
    BY DEF BgvRuns, Next
  <2>2. CASE UNCHANGED <<vars, scheme>>
    BY <2>1, <2>2 DEF BgvInv, vars
  <2>3. CASE Next
    <3>1. BgvNext
      BY <2>1, <2>3 DEF Next
    <3> QED
      BY <2>1, <3>1, BgvNextInv
  <2> QED
    BY <2>2, <2>3
<1> QED
  BY <1>1, <1>2, PTL DEF Spec

\* Keys and components of a BGV computation are reduced and in the ring of
\* their level, and plaintexts are messages: BgvTypeOK.
THEOREM BgvTyped == Spec => [](scheme = "BGV" => BgvTypeOK)
<1>1. BgvRuns => (scheme = "BGV" => BgvTypeOK)
  BY InvTypes DEF BgvRuns
<1> QED
  BY <1>1, BgvInvariant, PTL

\* The gadget digits of every component recompose to it, for every basis.
THEOREM DigitsAlwaysRecompose == Spec => []DigitsRecompose
<1>1. BgvRuns => DigitsRecompose
  BY InvDigits DEF BgvRuns, DigitsRecompose
<1> QED
  BY <1>1, BgvInvariant, PTL

\* With moduli that modulus switching is right for, what is beside a message is
\* a multiple of T within the bound of noise.rs, whatever was computed.
THEOREM NoiseAlwaysBounded ==
    ASSUME Aligned
    PROVE  Spec => []NoiseBounded
<1>1. BgvRuns => NoiseBounded
  BY InvNoise DEF BgvRuns, NoiseBounded
<1> QED
  BY <1>1, BgvInvariant, PTL

\* With such moduli and within the margin, BGV decrypts to the plaintext of the
\* computation, for the holder of the key and for the holders together.
THEOREM BgvAlwaysDecrypts ==
    ASSUME Aligned
    PROVE  Spec => []Decrypts
<1>1. BgvRuns => Decrypts
  BY InvDecrypts DEF BgvRuns, Decrypts
<1> QED
  BY <1>1, BgvInvariant, PTL

=============================================================================
