------------------------------ MODULE CaseProofs ------------------------------
(***************************************************************************)
(* The properties of the walk through the cases that hold of every case:   *)
(* Barrett and Montgomery reduction and the big integers for words of      *)
(* every width and numbers of every length, the residue number system for  *)
(* every basis of distinct primes, every auxiliary basis, every plaintext  *)
(* prime and every value the bases can hold, and the number-theoretic      *)
(* transform for every prime and degree that support one.                  *)
(***************************************************************************)
EXTENDS RnsCases, RingCases, RnsProofs

-----------------------------------------------------------------------------
(* Words.                                                                   *)

\* Quotient and remainder of natural numbers.
LEMMA WordQuotient ==
    ASSUME NEW n \in Nat, NEW d \in Nat, d > 0
    PROVE  /\ n \div d \in Nat /\ n % d \in 0..(d - 1)
           /\ n = (n \div d) * d + (n % d)
OBVIOUS

\* They are the only pair with their defining property.
LEMMA WordQuotientUnique ==
    ASSUME NEW k \in Nat, NEW d \in Nat, NEW s \in 0..(d - 1)
    PROVE  (k * d + s) \div d = k /\ (k * d + s) % d = s
<1>1. k * d + s \in Nat /\ d > 0
  OBVIOUS
<1> QED
  BY <1>1, Z3

\* A word has 2^WordBits values.
LEMMA WordType == Word \in Nat /\ Word > 1
BY WordBitsAssumption, PowerOfTwo DEF Word

-----------------------------------------------------------------------------

\* The double word is a number.
LEMMA DoubleWordType == DoubleWord \in Nat /\ DoubleWord > 0
BY WordType DEF DoubleWord

\* Four partial products, split as h * w + l with the carries passed on.
LEMMA PartialProducts ==
    ASSUME NEW w \in Int, NEW a0 \in Int, NEW a1 \in Int, NEW b0 \in Int, NEW b1 \in Int,
           NEW h0 \in Int, NEW l0 \in Int, NEW h1 \in Int, NEW l1 \in Int,
           NEW h2 \in Int, NEW l2 \in Int,
           a0 * b0 = h0 * w + l0,
           a0 * b1 + h0 = h1 * w + l1,
           a1 * b0 + l1 = h2 * w + l2
    PROVE  (a1 * w + a0) * (b1 * w + b0)
               = (a1 * b1 + h1 + h2) * (w * w) + (l2 * w + l0)
<1>1. (a1 * w + a0) * (b1 * w + b0)
          = (a1 * b1) * (w * w) + (a1 * b0) * w + (a0 * b1) * w + a0 * b0
  OBVIOUS
<1>2. (a0 * b1) * w = (h1 * w + l1 - h0) * w
  OBVIOUS
<1>3. (a1 * b0) * w = (h2 * w + l2 - l1) * w
  OBVIOUS
<1> QED
  BY <1>1, <1>2, <1>3

\* The four partial products of mul_wide_128 leave a remainder below a double
\* word: the high half is the quotient, with no carry lost.
LEMMA MulWideHighExact ==
    ASSUME NEW a \in Nat, NEW b \in Nat
    PROVE  MulWideHigh(a, b) = (a * b) \div DoubleWord
<1> DEFINE a0 == LowWord(a)   a1 == HighWord(a)
           b0 == LowWord(b)   b1 == HighWord(b)
           p00 == a0 * b0
           p01 == a0 * b1 + HighWord(p00)
           p10 == a1 * b0 + LowWord(p01)
           high == a1 * b1 + HighWord(p01) + HighWord(p10)
           low == LowWord(p10) * Word + LowWord(p00)
<1>w. Word \in Nat /\ Word > 1
  BY WordType
<1>s. ASSUME NEW n \in Nat
      PROVE  LowWord(n) \in 0..(Word - 1) /\ HighWord(n) \in Nat
             /\ n = HighWord(n) * Word + LowWord(n)
  BY <1>w, WordQuotient DEF LowWord, HighWord
<1>t. a0 \in Nat /\ a1 \in Nat /\ b0 \in Nat /\ b1 \in Nat
  BY <1>s, <1>w
<1>p. p00 \in Nat /\ p01 \in Nat /\ p10 \in Nat
  <2>1. p00 \in Nat
    BY <1>t
  <2>2. a0 * b1 \in Nat /\ a1 * b0 \in Nat
    BY <1>t
  <2>3. HighWord(p00) \in Nat
    BY <2>1, <1>s
  <2>4. p01 \in Nat
    <3> HIDE DEF p00, a0, a1, b0, b1
    <3> QED
      BY <2>2, <2>3
  <2>5. LowWord(p01) \in Nat
    <3> HIDE DEF p01
    <3> QED
      BY <2>4, <1>s, <1>w
  <2>6. p10 \in Nat
    <3> HIDE DEF p01, a0, a1, b0, b1
    <3> QED
      BY <2>2, <2>5
  <2> QED
    BY <2>1, <2>4, <2>6
<1>h. high \in Nat /\ low \in 0..(DoubleWord - 1)
  <2>1. a1 * b1 \in Nat /\ HighWord(p01) \in Nat /\ HighWord(p10) \in Nat
    BY <1>t, <1>p, <1>s
  <2>2. LowWord(p10) \in 0..(Word - 1) /\ LowWord(p00) \in 0..(Word - 1)
    BY <1>p, <1>s
  <2>3. LowWord(p10) * Word \in 0..((Word - 1) * Word)
    BY <2>2, <1>w
  <2> QED
    BY <2>1, <2>2, <2>3, <1>w DEF DoubleWord
<1>e. a * b = high * DoubleWord + low
  <2> HIDE DEF a0, a1, b0, b1, p00, p01, p10
  <2>1. a = a1 * Word + a0 /\ b = b1 * Word + b0
    BY <1>s DEF a0, a1, b0, b1
  <2>2. \A n \in Nat : HighWord(n) \in Int /\ LowWord(n) \in Int
    BY <1>s, <1>w
  <2>3. a0 * b0 = HighWord(p00) * Word + LowWord(p00)
    BY <1>p, <1>s DEF p00
  <2>4. a0 * b1 + HighWord(p00) = HighWord(p01) * Word + LowWord(p01)
    BY <1>p, <1>s DEF p01
  <2>5. a1 * b0 + LowWord(p01) = HighWord(p10) * Word + LowWord(p10)
    BY <1>p, <1>s DEF p10
  <2> QED
    BY <2>1, <2>2, <2>3, <2>4, <2>5, <1>t, <1>p, <1>w, PartialProducts DEF DoubleWord
<1> QED
  <2>1. MulWideHigh(a, b) = high
    BY DEF MulWideHigh
  <2> HIDE DEF high, low
  <2> QED
    BY <2>1, <1>e, <1>h, DoubleWordType, WordQuotientUnique

-----------------------------------------------------------------------------

\* The arithmetic of Barrett's estimate: with mu the truncated reciprocal of m,
\* the estimate q of v \div m is at most one too small.
LEMMA BarrettEstimate ==
    ASSUME NEW v \in Nat, NEW m \in Nat, NEW mu \in Nat, NEW q \in Nat, NEW d \in Nat,
           m > 0, v < d,
           mu * m <= d, d < (mu + 1) * m,
           q * d <= v * mu, v * mu < (q + 1) * d
    PROVE  q * m <= v /\ v < (q + 2) * m
<1>1. q * m <= v
  <2>1. (q * d) * m <= (v * mu) * m
    OBVIOUS
  <2>2. v * (mu * m) <= v * d
    OBVIOUS
  <2>3. (q * m) * d <= v * d
    BY <2>1, <2>2
  <2> QED
    BY <2>3
<1>2. v < (q + 2) * m
  <2>1. CASE v = 0
    BY <2>1
  <2>2. CASE v > 0
    <3>1. v * d < v * ((mu + 1) * m)
      BY <2>2
    <3>2. (v * mu) * m < ((q + 1) * d) * m
      OBVIOUS
    <3>3. v * m < d * m
      OBVIOUS
    <3>4. v * ((mu + 1) * m) = (v * mu) * m + v * m
      OBVIOUS
    <3>5. ((q + 1) * d) * m + d * m = ((q + 2) * m) * d
      OBVIOUS
    <3>6. v * d < ((q + 2) * m) * d
      BY <3>1, <3>2, <3>3, <3>4, <3>5
    <3> QED
      BY <3>6
  <2> QED
    BY <2>1, <2>2
<1> QED
  BY <1>1, <1>2

\* reduce returns value % m for every word width, every modulus a word holds
\* and every value below m * 2^WordBits: the estimate fits one word, is never
\* too large, and the corrections reach the remainder.
THEOREM BarrettReduceExact ==
    ASSUME NEW m \in 2..(Word - 1), NEW value \in Nat, value < m * Word
    PROVE  BarrettReduce(value, m) = value % m
<1> DEFINE q == MulWideHigh(value, Mu(m))
<1>w. Word \in Nat /\ Word > 1 /\ DoubleWord \in Nat /\ DoubleWord > 0
  BY WordType, DoubleWordType
<1>v. value < DoubleWord
  <2>1. m * Word < Word * Word
    BY <1>w
  <2> QED
    BY <2>1, <1>w DEF DoubleWord
<1>mu. Mu(m) \in Nat /\ Mu(m) * m <= DoubleWord /\ DoubleWord < (Mu(m) + 1) * m
  <2>1. /\ Mu(m) \in Nat /\ DoubleWord % m \in 0..(m - 1)
        /\ DoubleWord = Mu(m) * m + (DoubleWord % m)
    BY <1>w, WordQuotient DEF Mu
  <2>2. (Mu(m) + 1) * m = Mu(m) * m + m
    BY <2>1
  <2> QED
    BY <2>1, <2>2, <1>w
<1>q. q \in Nat /\ q * DoubleWord <= value * Mu(m) /\ value * Mu(m) < (q + 1) * DoubleWord
  <2>1. q = (value * Mu(m)) \div DoubleWord
    BY <1>mu, MulWideHighExact
  <2>2. value * Mu(m) \in Nat
    BY <1>mu
  <2>3. /\ q \in Nat /\ (value * Mu(m)) % DoubleWord \in 0..(DoubleWord - 1)
        /\ value * Mu(m) = q * DoubleWord + ((value * Mu(m)) % DoubleWord)
    BY <2>1, <2>2, <1>w, WordQuotient
  <2>4. (q + 1) * DoubleWord = q * DoubleWord + DoubleWord
    BY <2>3, <1>w
  <2> QED
    BY <2>2, <2>3, <2>4, <1>w
<1> HIDE DEF q
<1>e. q * m <= value /\ value < (q + 2) * m
  BY <1>w, <1>v, <1>mu, <1>q, BarrettEstimate
<1>1. q < Word
  <2>1. q * m < m * Word
    BY <1>e, <1>q, <1>w
  <2> QED
    BY <2>1, <1>q, <1>w
<1>2. LowWord(q) = q
  BY <1>1, <1>q, <1>w DEF LowWord
<1> DEFINE r == value - q * m
<1>3. BarrettReduce(value, m) = SubtractOnce(SubtractOnce(r, m), m)
  BY <1>2 DEF BarrettReduce, q
<1>4. r \in Nat /\ r < 2 * m
  <2>1. (q + 2) * m = q * m + 2 * m
    BY <1>q
  <2> QED
    BY <2>1, <1>e, <1>q
<1>5. CASE r < m
  <2>1. BarrettReduce(value, m) = r
    BY <1>3, <1>4, <1>5 DEF SubtractOnce
  <2>2. value = q * m + r /\ r \in 0..(m - 1)
    BY <1>4, <1>5, <1>q
  <2> QED
    BY <2>1, <2>2, <1>q, WordQuotientUnique
<1>6. CASE r >= m
  <2>1. BarrettReduce(value, m) = r - m
    BY <1>3, <1>4, <1>6 DEF SubtractOnce
  <2>2. value = (q + 1) * m + (r - m) /\ r - m \in 0..(m - 1)
    BY <1>4, <1>6, <1>q
  <2> QED
    BY <2>1, <2>2, <1>q, WordQuotientUnique
<1> QED
  BY <1>4, <1>5, <1>6

-----------------------------------------------------------------------------
(* Montgomery reduction.                                                    *)

\* The loop of neg_inv_mod_pow2_64, with the low bits that are right.
IsNewton(f, m) ==
    f = [bits \in Nat |->
            IF bits = 1 THEN LowWord(m)
            ELSE LET n == f[(bits + 1) \div 2]
                 IN  LowWord(n * LowWord(2 - m * n))]

\* One Newton step squares the error of an inverse.
LEMMA NewtonStep ==
    ASSUME NEW m \in Int, NEW n \in Int, NEW e \in Int, m * n = 1 + e
    PROVE  m * (n * (2 - m * n)) = 1 - e * e
<1>1. m * (n * (2 - m * n)) = (m * n) * (2 - m * n)
  OBVIOUS
<1>2. (1 + e) * (2 - (1 + e)) = 1 - e * e
  OBVIOUS
<1> QED
  BY <1>1, <1>2

\* A number is its low word and a multiple of the word.
LEMMA LowWordCong ==
    ASSUME NEW a \in Int
    PROVE  LowWord(a) \in 0..(Word - 1) /\ \E k \in Int : LowWord(a) = a + k * Word
<1>1. Word \in Nat /\ Word > 1
  BY WordType
<1>2. /\ a \div Word \in Int /\ a % Word \in 0..(Word - 1)
      /\ a = (a \div Word) * Word + (a % Word)
  BY <1>1, Quotient
<1> DEFINE k == a \div Word  r == a % Word
<1>3. k \in Int /\ r \in 0..(Word - 1) /\ a = k * Word + r
  BY <1>2
<1> HIDE DEF k, r
<1>4. -k \in Int /\ r = a + (-k) * Word
  BY <1>1, <1>3
<1> QED
  BY <1>3, <1>4 DEF LowWord, r

\* Newton's iteration exists, and every value of it is right to its bits.
LEMMA NewtonRight ==
    ASSUME NEW m \in Nat, m % 2 = 1
    PROVE  /\ \E f : IsNewton(f, m)
           /\ \A f : IsNewton(f, m) => \A bits \in 1..WordBits :
                 f[bits] \in 0..(Word - 1) /\ \E k \in Int : m * f[bits] = 1 + k * 2^bits
<1> DEFINE V == 0..(Word - 1)
           step == [v \in V |-> LowWord(v * LowWord(2 - m * v))]
<1>w. Word \in Nat /\ Word > 1 /\ WordBits \in Nat /\ WordBits > 1 /\ m \in Int
  BY WordType, WordBitsAssumption
<1>s. \A v \in V : step[v] = LowWord(v * LowWord(2 - m * v)) /\ step[v] \in V
  <2> TAKE v \in V
  <2>1. v \in Int /\ 2 - m * v \in Int
    BY <1>w
  <2>2. LowWord(2 - m * v) \in Int
    BY <2>1, <1>w, LowWordCong
  <2>3. v * LowWord(2 - m * v) \in Int
    BY <2>1, <2>2
  <2> QED
    BY <2>3, LowWordCong
<1>1. \E f : IsNewton(f, m)
  <2>1. 0 \in V /\ LowWord(m) \in V
    <3>1. LowWord(m) \in 0..(Word - 1)
      BY <1>w, LowWordCong
    <3> QED
      BY <1>w, <3>1
  <2>2. PICK f : IsDoubling(f, V, 0, LowWord(m), step)
    <3> DEFINE low == LowWord(m)  o == 0
    <3>1. low \in V /\ o \in V
      BY <2>1
    <3> HIDE DEF low, o, V, step
    <3>2. \E f : IsDoubling(f, V, o, low, step)
      BY <1>s, <3>1, Doubling
    <3> QED
      BY <3>2 DEF o, low
  <2>3. f \in [Nat -> V] /\ f[0] = 0 /\ f[1] = LowWord(m)
        /\ \A b \in Nat : b > 1 => f[b] = step[f[(b + 1) \div 2]]
    BY <2>2 DEF IsDoubling
  <2>4. ASSUME NEW b \in Nat
        PROVE  f[b] = IF b = 1 THEN LowWord(m)
                      ELSE LowWord(f[(b + 1) \div 2] * LowWord(2 - m * f[(b + 1) \div 2]))
    <3>1. CASE b = 0
      <4>1. (b + 1) \div 2 = 0
        BY <3>1
      <4>2. LowWord(0 * LowWord(2 - m * 0)) = 0
        <5>1. LowWord(2 - m * 0) \in Int
          BY LowWordCong, <1>w
        <5>2. 0 * LowWord(2 - m * 0) = 0
          BY <5>1
        <5>3. 0 % Word = 0
          BY <1>w
        <5> QED
          BY <5>2, <5>3 DEF LowWord
      <4> QED
        BY <2>3, <3>1, <4>1, <4>2
    <3>2. CASE b = 1
      BY <2>3, <3>2
    <3>3. CASE b > 1
      <4>1. (b + 1) \div 2 \in Nat
        BY HalfUp, <3>3
      <4>2. f[(b + 1) \div 2] \in V
        BY <2>3, <4>1
      <4> HIDE DEF V, step
      <4> QED
        BY <2>3, <3>3, <4>2, <1>s
    <3> QED
      BY <3>1, <3>2, <3>3
  <2>5. f = [b \in Nat |-> f[b]]
    BY <2>3
  <2>6. f = [b \in Nat |-> IF b = 1 THEN LowWord(m)
                ELSE LowWord(f[(b + 1) \div 2] * LowWord(2 - m * f[(b + 1) \div 2]))]
    <3> HIDE DEF V, step
    <3> QED
      BY <2>4, <2>5
  <2> QED
    BY <2>6 DEF IsNewton
<1>2. ASSUME NEW f, IsNewton(f, m)
      PROVE  \A bits \in 1..WordBits :
                 f[bits] \in V /\ \E k \in Int : m * f[bits] = 1 + k * 2^bits
  <2>1. \A b \in Nat : f[b] = IF b = 1 THEN LowWord(m)
                       ELSE LowWord(f[(b + 1) \div 2] * LowWord(2 - m * f[(b + 1) \div 2]))
    BY <1>2 DEF IsNewton
  <2> DEFINE Right(b) == f[b] \in V /\ \E k \in Int : m * f[b] = 1 + k * 2^b
             G == {n \in Nat : \A b \in 1..WordBits : b <= n + 1 => Right(b)}
  <2>2. Right(1)
    <3>1. LowWord(m) \in V /\ f[1] = LowWord(m)
      BY <1>w, <2>1, LowWordCong
    <3>2. PICK k \in Int : LowWord(m) = m + k * Word
      BY LowWordCong, <1>w
    <3>3. PICK h \in Int : Word = h * 2
      <4>1. WordBits - 1 \in Nat /\ (WordBits - 1) + 1 = WordBits
        BY <1>w
      <4>2. Word = 2 * 2^(WordBits - 1) /\ 2^(WordBits - 1) \in Nat
        BY <4>1, PowerDoubles DEF Word
      <4> QED
        BY <4>2
    <3>4. PICK a \in Int : m = 2 * a + 1
      <4>1. m = (m \div 2) * 2 + (m % 2) /\ m \div 2 \in Int
        BY Quotient
      <4> QED
        BY <4>1
    <3>5. 2^1 = 2
      <4>1. 0 + 1 = 1
        OBVIOUS
      <4> QED
        BY <4>1, PowerDoubles
    <3>6. LowWord(m) = 2 * (a + k * h) + 1 /\ a + k * h \in Int
      BY <3>2, <3>3, <3>4
    <3> DEFINE c == a + k * h  l == 2 * a * c + c + a
    <3>7. c \in Int /\ l \in Int
      BY <3>6
    <3>8. m * (2 * c + 1) = 1 + l * 2
      <4> HIDE DEF c
      <4> QED
        BY <3>4, <3>7
    <3> HIDE DEF l, c
    <3>9. m * f[1] = 1 + l * 2^1
      BY <3>1, <3>5, <3>6, <3>8 DEF c
    <3> QED
      BY <3>1, <3>7, <3>9
  <2>3. 0 \in G
    <3> HIDE DEF Right
    <3> QED
      BY <2>2
  <2>4. ASSUME NEW n \in Nat, n \in G PROVE n + 1 \in G
    <3> SUFFICES ASSUME NEW b \in 1..WordBits, b <= n + 2 PROVE Right(b)
      BY <2>4
    <3>1. CASE b = 1
      <4> HIDE DEF Right
      <4> QED
        BY <3>1, <2>2
    <3>2. CASE b > 1
      <4> DEFINE h == (b + 1) \div 2
      <4>0. b \in Nat /\ b <= WordBits /\ b # 1
        BY <3>2
      <4>1. h \in Nat /\ h <= b - 1 /\ h >= 1 /\ b <= 2 * h
        BY <4>0, <3>2, HalfUp
      <4> HIDE DEF h
      <4>2. h \in 1..WordBits /\ h <= n + 1
        BY <4>0, <4>1, <1>w
      <4>3. Right(h)
        BY <2>4, <4>2
      <4> DEFINE v == f[h]
      <4>4. v \in 0..(Word - 1) /\ v \in Int
        BY <4>3, <1>w
      <4>5. PICK k \in Int : m * v = 1 + k * 2^h
        BY <4>3
      <4>6. f[b] = LowWord(v * LowWord(2 - m * v))
        BY <2>1, <4>0 DEF h
      <4> HIDE DEF v
      <4>7. PICK i \in Int : LowWord(2 - m * v) = (2 - m * v) + i * Word
        <5>1. 2 - m * v \in Int
          BY <4>4
        <5> QED
          BY <5>1, LowWordCong
      <4> DEFINE u == LowWord(2 - m * v)  p == 2^h  q == 2^b
      <4>8. u \in Int /\ v * u \in Int
        BY <4>4, <4>7, <1>w
      <4>9. LowWord(v * u) \in V /\ \E j \in Int : LowWord(v * u) = v * u + j * Word
        BY <4>8, LowWordCong
      <4>10. PICK j \in Int : LowWord(v * u) = v * u + j * Word
        BY <4>9
      <4>11. PICK c \in Int : p * p = c * q
        <5>1. 2 * h = h + h /\ 2 * h - b \in Nat /\ (2 * h - b) + b = 2 * h
          BY <4>0, <4>1
        <5>2. 2^(h + h) = p * p
          BY <4>1, PowerAdds
        <5>3. 2^((2 * h - b) + b) = 2^(2 * h - b) * q
          BY <4>0, <5>1, PowerAdds
        <5>4. 2^(2 * h - b) \in Int
          BY <5>1, PowerDoubles
        <5> QED
          BY <5>1, <5>2, <5>3, <5>4
      <4>12. PICK d \in Int : Word = d * q
        <5>1. WordBits - b \in Nat /\ (WordBits - b) + b = WordBits
          BY <4>0, <1>w
        <5>2. 2^((WordBits - b) + b) = 2^(WordBits - b) * q
          BY <4>0, <5>1, PowerAdds
        <5>3. 2^(WordBits - b) \in Int
          BY <5>1, PowerDoubles
        <5> QED
          BY <5>1, <5>2, <5>3 DEF Word
      <4>13. p \in Int /\ q \in Int
        <5>1. p \in Nat /\ q \in Nat
          BY <4>0, <4>1, PowerDoubles
        <5> QED
          BY <5>1
      <4> DEFINE z == m * (v * i) + m * j  g == z * d - (k * k) * c
      <4>14. g \in Int /\ z \in Int
        <5>1. m * (v * i) \in Int /\ m * j \in Int
          BY <4>4
        <5>2. z \in Int
          BY <5>1
        <5>3. z * d \in Int /\ (k * k) * c \in Int
          <6> HIDE DEF z
          <6> QED
            BY <5>2
        <5> QED
          BY <5>2, <5>3
      <4>15. m * (v * (2 - m * v)) = 1 - (k * k) * (p * p)
        <5> DEFINE e == k * p
        <5>1. e * e = (k * k) * (p * p)
          <6> HIDE DEF p
          <6> QED
            BY <4>13
        <5>2. m * v = 1 + e /\ m \in Int /\ v \in Int /\ e \in Int
          BY <4>4, <4>5, <4>13, <1>w
        <5> HIDE DEF e, p
        <5>3. m * (v * (2 - m * v)) = 1 - e * e
          BY <5>2, NewtonStep
        <5> QED
          BY <5>1, <5>3
      <4>16. m * LowWord(v * u) = m * (v * (2 - m * v)) + z * Word
        <5> DEFINE t == 2 - m * v
        <5>1. t \in Int /\ u = t + i * Word
          BY <4>4, <4>7
        <5> HIDE DEF t, u, V, step
        <5>2. m * (v * (t + i * Word) + j * Word) = m * (v * t) + (m * (v * i) + m * j) * Word
          <6>1. v * (t + i * Word) = v * t + (v * i) * Word
            BY <4>4, <5>1, <1>w
          <6> DEFINE vt == v * t  vi == v * i
          <6>2. vt \in Int /\ vi \in Int
            BY <4>4, <5>1
          <6> HIDE DEF vt, vi
          <6>3. m * ((vt + vi * Word) + j * Word) = m * vt + (m * vi + m * j) * Word
            BY <6>2, <1>w
          <6> QED
            BY <6>1, <6>3 DEF vt, vi
        <5> QED
          BY <4>10, <5>1, <5>2 DEF t
      <4>17. z * Word = (z * d) * q
        <5> HIDE DEF z, p, q
        <5> QED
          BY <4>12, <4>13, <4>14
      <4>18. (k * k) * (p * p) = ((k * k) * c) * q
        <5> HIDE DEF p, q
        <5> QED
          BY <4>11, <4>13
      <4>19. m * LowWord(v * u) = 1 + g * q
        <5> DEFINE x1 == z * d  x2 == (k * k) * c  kk == (k * k) * (p * p)  zw == z * Word
        <5>1. x1 \in Int /\ x2 \in Int /\ kk \in Int /\ zw \in Int
          <6>1. p * p \in Int
            BY <4>13
          <6> HIDE DEF z, p, q
          <6> QED
            BY <4>14, <6>1, <1>w
        <5>2. kk = x2 * q /\ zw = x1 * q /\ g = x1 - x2
              /\ m * LowWord(v * u) = (1 - kk) + zw
          BY <4>15, <4>16, <4>17, <4>18
        <5> HIDE DEF x1, x2, kk, zw, g, q, p, z, u, V, step
        <5> QED
          BY <5>1, <5>2, <4>13
      <4> HIDE DEF g, u, V, step
      <4> QED
        BY <4>6, <4>9, <4>14, <4>19 DEF u
    <3> QED
      BY <3>1, <3>2
  <2> HIDE DEF G
  <2>5. Nat \subseteq G
    BY <2>3, <2>4, InductionSet
  <2> HIDE DEF Right
  <2>6. ASSUME NEW b \in 1..WordBits PROVE Right(b)
    <3>1. b - 1 \in Nat /\ b <= (b - 1) + 1
      BY <1>w
    <3>2. b - 1 \in G
      BY <2>5, <3>1
    <3> QED
      BY <3>1, <3>2 DEF G
  <2> QED
    BY <2>6 DEF Right
<1> QED
  BY <1>1, <1>2

\* neg_inv_mod_pow2_64 finds minus the inverse of an odd number, for words of
\* every width.
LEMMA NegInverse ==
    ASSUME NEW m \in Nat, m % 2 = 1
    PROVE  /\ NegInvModWord(m) \in 0..(Word - 1)
           /\ \E k \in Int : m * NegInvModWord(m) = -1 + k * Word
<1>w. Word \in Nat /\ Word > 1 /\ WordBits \in Nat /\ WordBits > 1 /\ WordBits \in 1..WordBits
  BY WordType, WordBitsAssumption
<1> DEFINE f == CHOOSE g : IsNewton(g, m)
<1>1. NegInvModWord(m) = LowWord(-f[WordBits])
  BY DEF NegInvModWord, IsNewton
<1>2. IsNewton(f, m)
  <2>1. \E g : IsNewton(g, m)
    BY NewtonRight
  <2> QED
    BY <2>1
<1> HIDE DEF f
<1> DEFINE n == f[WordBits]
<1>3. n \in 0..(Word - 1) /\ \E k \in Int : m * n = 1 + k * 2^WordBits
  BY <1>w, <1>2, NewtonRight
<1>4. PICK k \in Int : m * n = 1 + k * Word
  BY <1>3 DEF Word
<1>5. n \in Int /\ -n \in Int
  BY <1>3, <1>w
<1> HIDE DEF n
<1>6. LowWord(-n) \in 0..(Word - 1) /\ \E j \in Int : LowWord(-n) = -n + j * Word
  BY <1>5, LowWordCong
<1>7. PICK j \in Int : LowWord(-n) = -n + j * Word
  BY <1>6
<1>8. m * (-n + j * Word) = -1 + (m * j - k) * Word
  <2>1. m * (-n + j * Word) = -(m * n) + (m * j) * Word
    BY <1>5, <1>w
  <2> DEFINE mj == m * j
  <2>2. mj \in Int
    OBVIOUS
  <2> HIDE DEF mj
  <2>3. -(1 + k * Word) + mj * Word = -1 + (mj - k) * Word
    BY <2>2, <1>w
  <2> QED
    BY <2>1, <2>3, <1>4 DEF mj
<1>9. m * j - k \in Int
  OBVIOUS
<1> QED
  BY <1>1, <1>6, <1>7, <1>8, <1>9 DEF n

\* What redc is called with.
Reduces(t, m) == m \in 3..(MontgomeryMax - 1) /\ m % 2 = 1 /\ t \in Nat /\ t < m * Word

\* The modulus is a bit narrower than the word.
LEMMA MontgomeryModulus ==
    MontgomeryMax \in Nat /\ Word = 2 * MontgomeryMax
<1>1. WordBits - 1 \in Nat /\ (WordBits - 1) + 1 = WordBits
  BY WordBitsAssumption
<1> QED
  BY <1>1, PowerDoubles DEF Word, MontgomeryMax

\* The sum redc divides is a multiple of the word.
LEMMA RedcSum ==
    ASSUME NEW t \in Int, NEW lt \in Int, NEW n \in Int, NEW m \in Int, NEW w \in Int,
           NEW u \in Int, NEW k0 \in Int, NEW k1 \in Int, NEW k2 \in Int,
           lt = t + k0 * w, u = lt * n + k1 * w, m * n = -1 + k2 * w
    PROVE  t + u * m = (lt * k2 + k1 * m - k0) * w
<1>1. u * m = lt * (m * n) + (k1 * m) * w
  OBVIOUS
<1>2. lt * (m * n) = (lt * k2) * w - lt
  OBVIOUS
<1> DEFINE a == lt * k2  b == k1 * m
<1>3. a \in Int /\ b \in Int
  OBVIOUS
<1> HIDE DEF a, b
<1>4. t + ((a * w - lt) + b * w) = (a + b - k0) * w
  BY <1>3
<1> QED
  BY <1>1, <1>2, <1>4 DEF a, b

\* Montgomery reduction divides by the word modulo m, for words of every
\* width, every odd modulus below MONTGOMERY_MAX_MODULUS and every product it
\* may be called with: the sum in redc does not pass a double word.
THEOREM RedcExact ==
    ASSUME NEW t, NEW m, Reduces(t, m)
    PROVE  Redc(t, m) \in 0..(m - 1) /\ \E k \in Int : Redc(t, m) * Word = t + k * m
<1>w. Word \in Nat /\ Word > 1 /\ DoubleWord = Word * Word
  BY WordType DEF DoubleWord
<1>m. m \in Nat /\ m > 2 /\ 2 * m < Word /\ m % 2 = 1 /\ t \in Nat /\ t < m * Word
  BY MontgomeryModulus DEF Reduces
<1> DEFINE n == NegInvModWord(m)  lt == LowWord(t)  u == LowWord(lt * n)
<1>1. n \in Int /\ \E k \in Int : m * n = -1 + k * Word
  <2>1. NegInvModWord(m) \in 0..(Word - 1) /\ \E k \in Int : m * NegInvModWord(m) = -1 + k * Word
    BY <1>m, NegInverse
  <2> QED
    BY <2>1, <1>w
<1>2. lt \in Int /\ \E k \in Int : lt = t + k * Word
  <2>1. t \in Int
    BY <1>m
  <2>2. LowWord(t) \in 0..(Word - 1) /\ \E k \in Int : LowWord(t) = t + k * Word
    BY <2>1, LowWordCong
  <2> QED
    BY <2>2, <1>w
<1>3. lt * n \in Int
  BY <1>1, <1>2
<1>4. u \in 0..(Word - 1) /\ \E k \in Int : u = lt * n + k * Word
  <2> HIDE DEF lt, n
  <2> QED
    BY <1>3, LowWordCong
<1>5. Redc(t, m) = SubtractOnce(HighWord((t + u * m) % DoubleWord), m)
  BY DEF Redc
<1>6. PICK k2 \in Int : m * n = -1 + k2 * Word
  BY <1>1
<1>7. PICK k0 \in Int : lt = t + k0 * Word
  BY <1>2
<1>8. PICK k1 \in Int : u = lt * n + k1 * Word
  BY <1>4
<1> HIDE DEF n, lt, u
<1> DEFINE s == lt * k2 + k1 * m - k0
<1>9. t + u * m = s * Word
  <2> DEFINE w == Word
  <2>1. /\ t \in Int /\ lt \in Int /\ n \in Int /\ m \in Int /\ w \in Int /\ u \in Int
        /\ lt = t + k0 * w /\ u = lt * n + k1 * w /\ m * n = -1 + k2 * w
    BY <1>w, <1>m, <1>1, <1>2, <1>4, <1>6, <1>7, <1>8
  <2> HIDE DEF w, s
  <2>2. t + u * m = (lt * k2 + k1 * m - k0) * w
    BY <2>1, RedcSum
  <2> QED
    BY <2>2 DEF w, s
<1>10. s \in Int
  <2>1. lt * k2 \in Int /\ k1 * m \in Int
    BY <1>m, <1>2
  <2> QED
    BY <2>1
<1> HIDE DEF s
<1>11. u * m \in Nat /\ u * m <= (Word - 1) * m
  BY <1>4, <1>w, <1>m
<1>12. (Word - 1) * m < Word * m /\ Word * m = m * Word /\ m * Word + m * Word = (2 * m) * Word
  BY <1>w, <1>m
<1>13. s * Word >= 0 /\ s * Word < (2 * m) * Word
  <2> DEFINE um == u * m  mw == m * Word
  <2>1. mw \in Int /\ um \in Nat /\ um < mw /\ t < mw /\ t + um = s * Word
        /\ mw + mw = (2 * m) * Word
    BY <1>w, <1>m, <1>9, <1>11, <1>12
  <2> HIDE DEF um, mw
  <2> QED
    BY <2>1, <1>m
<1>14. s >= 0 /\ s < 2 * m
  <2>1. ASSUME s <= -1 PROVE FALSE
    <3>1. s * Word <= (-1) * Word
      BY <2>1, <1>10, <1>w
    <3> QED
      BY <3>1, <1>13, <1>w, <1>10
  <2>2. ASSUME s >= 2 * m PROVE FALSE
    <3> DEFINE d == 2 * m
    <3>1. d \in Int /\ s >= d
      BY <2>2, <1>m
    <3> HIDE DEF d
    <3>2. s * Word >= d * Word
      BY <3>1, <1>10, <1>w
    <3>3. s * Word < d * Word
      BY <1>13 DEF d
    <3>4. s * Word \in Int /\ d * Word \in Int
      BY <3>1, <1>10, <1>w
    <3> QED
      BY <3>2, <3>3, <3>4
  <2> QED
    BY <2>1, <2>2, <1>10, <1>m
<1>15. (s * Word) % DoubleWord = s * Word
  <2>1. s * Word < Word * Word
    <3>1. s < Word
      BY <1>14, <1>10, <1>m, <1>w
    <3> QED
      BY <3>1, <1>10, <1>w
  <2> DEFINE sw == s * Word  dd == Word * Word
  <2>2. sw \in Nat /\ dd \in Nat /\ sw < dd
    BY <2>1, <1>10, <1>13, <1>w
  <2> HIDE DEF sw, dd
  <2>3. sw % dd = sw
    BY <2>2
  <2> QED
    BY <2>3, <1>w DEF sw, dd
<1>16. HighWord(s * Word) = s
  <2> DEFINE o == 0
  <2>1. o \in 0..(Word - 1)
    BY <1>w
  <2> HIDE DEF o
  <2>2. (s * Word + o) \div Word = s
    BY <2>1, <1>10, <1>w, QuotientUnique
  <2>3. s * Word + o = s * Word
    BY <1>10, <1>w DEF o
  <2> QED
    BY <2>2, <2>3 DEF HighWord
<1>17. Redc(t, m) = IF s >= m THEN s - m ELSE s
  BY <1>5, <1>9, <1>15, <1>16 DEF SubtractOnce
<1>18. CASE s >= m
  <2>1. Redc(t, m) = s - m /\ s - m \in 0..(m - 1)
    BY <1>17, <1>18, <1>14, <1>10, <1>m
  <2>2. (s - m) * Word = t + (u - Word) * m
    <3>1. (s - m) * Word = s * Word - m * Word /\ (u - Word) * m = u * m - m * Word
      BY <1>4, <1>10, <1>m, <1>w
    <3> DEFINE sw == s * Word  um == u * m  mw == m * Word
    <3>2. sw \in Int /\ um \in Int /\ mw \in Int /\ t + um = sw
      BY <1>4, <1>9, <1>10, <1>m, <1>w
    <3> HIDE DEF sw, um, mw
    <3>3. sw - mw = t + (um - mw)
      BY <3>2, <1>m
    <3> QED
      BY <3>1, <3>3 DEF sw, um, mw
  <2>3. u - Word \in Int
    BY <1>4, <1>w
  <2> QED
    BY <2>1, <2>2, <2>3
<1>19. CASE s < m
  <2>1. Redc(t, m) = s /\ s \in 0..(m - 1)
    BY <1>17, <1>19, <1>14, <1>10, <1>m
  <2> QED
    BY <2>1, <1>4, <1>9
<1> QED
  BY <1>10, <1>m, <1>18, <1>19

\* The word is a unit modulo an odd number.
LEMMA WordIsUnit ==
    ASSUME NEW m \in Nat, m % 2 = 1
    PROVE  IsUnit(Word, m)
<1>1. Word \in Int
  BY WordType
<1>2. /\ NegInvModWord(m) \in 0..(Word - 1)
      /\ \E k \in Int : m * NegInvModWord(m) = -1 + k * Word
  BY NegInverse
<1> DEFINE n == NegInvModWord(m)
<1>3. n \in Int
  BY <1>1, <1>2
<1>4. PICK k \in Int : m * n = -1 + k * Word
  BY <1>2
<1> HIDE DEF n
<1>5. Word * k = 1 + n * m
  BY <1>1, <1>3, <1>4
<1> QED
  BY <1>3, <1>5 DEF IsUnit, Cong

\* What redc returns, as a congruence.
LEMMA RedcCong ==
    ASSUME NEW t, NEW m, Reduces(t, m)
    PROVE  Redc(t, m) \in 0..(m - 1) /\ Cong(Redc(t, m) * Word, t, m)
BY RedcExact DEF Cong

\* redc undoes one factor of the word.
LEMMA RedcCancels ==
    ASSUME NEW t, NEW m, Reduces(t, m), NEW c \in Int, Cong(t, c * Word, m)
    PROVE  Redc(t, m) \in 0..(m - 1) /\ Cong(Redc(t, m), c, m)
<1>1. m \in Nat /\ m \in Int /\ m % 2 = 1 /\ t \in Int /\ Word \in Int
  BY WordType, MontgomeryModulus DEF Reduces
<1> DEFINE r == Redc(t, m)
<1>2. r \in 0..(m - 1) /\ Cong(r * Word, t, m)
  BY RedcCong
<1>3. r \in Int /\ r * Word \in Int /\ c * Word \in Int
  BY <1>1, <1>2
<1> HIDE DEF r
<1> DEFINE rw == r * Word  cw == c * Word
<1>4. rw \in Int /\ cw \in Int /\ Cong(rw, t, m) /\ Cong(t, cw, m)
  BY <1>2, <1>3
<1> HIDE DEF rw, cw
<1>5. Cong(rw, cw, m)
  BY <1>1, <1>4, CongTrans
<1> DEFINE wr == Word * r  wc == Word * c
<1>6. wr = rw /\ wc = cw
  BY <1>1, <1>3 DEF rw, cw
<1> HIDE DEF wr, wc
<1>7. Cong(wr, wc, m)
  BY <1>5, <1>6
<1>8. IsUnit(Word, m)
  BY <1>1, WordIsUnit
<1>9. Cong(r, c, m)
  BY <1>1, <1>3, <1>7, <1>8, UnitCancel DEF wr, wc
<1> QED
  BY <1>2, <1>9 DEF r

\* Products of reduced operands may be reduced.
LEMMA ProductReduces ==
    ASSUME NEW m \in 3..(MontgomeryMax - 1), m % 2 = 1,
           NEW a \in 0..(m - 1), NEW b \in 0..(m - 1)
    PROVE  Reduces(a * b, m)
<1>1. m \in Nat /\ m > 0 /\ m < Word /\ Word \in Nat
  BY MontgomeryModulus, WordType
<1>2. a * b \in Nat /\ a * b <= a * m /\ a * m <= m * m /\ m * m < m * Word
  BY <1>1
<1> DEFINE ab == a * b  am == a * m  mm == m * m  mw == m * Word
<1>3. ab \in Nat /\ am \in Int /\ mm \in Int /\ mw \in Int /\ ab <= am /\ am <= mm /\ mm < mw
  BY <1>1, <1>2
<1> HIDE DEF ab, am, mm, mw
<1>4. ab < mw
  BY <1>3
<1> QED
  BY <1>3, <1>4 DEF Reduces, ab, mw

\* mul through Montgomery form is the product modulo m, for every odd modulus
\* below MONTGOMERY_MAX_MODULUS and words of every width.
THEOREM MontgomeryMulExact ==
    ASSUME NEW m \in 3..(MontgomeryMax - 1), m % 2 = 1,
           NEW a \in 0..(m - 1), NEW b \in 0..(m - 1)
    PROVE  MontgomeryMul(a, b, m) = (a * b) % m
<1>1. m \in Nat /\ m > 0 /\ m \in Int /\ Word \in Nat /\ Word \in Int
  BY MontgomeryModulus, WordType
<1> DEFINE r == Word % m  rr == (r * r) % m  ww == Word * Word
<1>2. r \in 0..(m - 1) /\ Cong(r, Word, m)
  BY <1>1, CongOfMod
<1> HIDE DEF r
<1>3. r \in Int /\ r * r \in Int /\ ww \in Int
  BY <1>1, <1>2
<1>4. rr \in 0..(m - 1) /\ Cong(rr, ww, m)
  <2> DEFINE s == r * r
  <2>1. Cong(s, ww, m)
    BY <1>1, <1>2, <1>3, CongAdd
  <2>2. s \in Int
    BY <1>3
  <2> HIDE DEF s, ww
  <2>3. s % m \in 0..(m - 1) /\ Cong(s % m, s, m)
    BY <1>1, <2>2, CongOfMod
  <2>4. s % m \in Int
    BY <2>3, <1>1
  <2>5. Cong(s % m, ww, m)
    <3> DEFINE t == s % m
    <3>1. t \in Int /\ Cong(t, s, m)
      BY <2>3, <2>4
    <3> HIDE DEF t
    <3>2. Cong(t, ww, m)
      BY <3>1, <2>1, <2>2, <1>1, <1>3, CongTrans
    <3> QED
      BY <3>2 DEF t
  <2> QED
    BY <2>3, <2>5 DEF s
<1>5. R2(m) = rr
  BY DEF R2, r
<1> HIDE DEF rr
<1>6. ASSUME NEW c \in 0..(m - 1)
      PROVE  ToMontgomery(c, m) \in 0..(m - 1) /\ Cong(ToMontgomery(c, m), c * Word, m)
  <2> DEFINE t == c * rr  cw == c * Word  cww == cw * Word
  <2>1. Reduces(t, m)
    BY <1>4, ProductReduces
  <2>2. c \in Int /\ rr \in Int /\ cw \in Int /\ Cong(c, c, m)
    BY <1>1, <1>4, CongRefl
  <2>3. Cong(t, c * ww, m)
    BY <1>1, <1>3, <1>4, <2>2, CongAdd
  <2>4. c * ww = cww
    BY <1>1, <2>2
  <2> HIDE DEF t, cw
  <2>5. Redc(t, m) \in 0..(m - 1) /\ Cong(Redc(t, m), cw, m)
    BY <2>1, <2>2, <2>3, <2>4, RedcCancels
  <2> QED
    BY <2>5, <1>5 DEF ToMontgomery, t, cw
<1> DEFINE A == ToMontgomery(a, m)  B == ToMontgomery(b, m)  M == Redc(A * B, m)
           F == Redc(M, m)  ab == a * b  abw == ab * Word
<1>7. /\ A \in 0..(m - 1) /\ Cong(A, a * Word, m)
      /\ B \in 0..(m - 1) /\ Cong(B, b * Word, m)
  BY <1>6
<1>8. MontgomeryMul(a, b, m) = F
  BY DEF MontgomeryMul, MulMontgomery, FromMontgomery
<1> HIDE DEF A, B
<1>9. M \in 0..(m - 1) /\ Cong(M, abw, m)
  <2> DEFINE t == A * B  aw == a * Word  bw == b * Word
  <2>1. Reduces(t, m)
    BY <1>7, ProductReduces
  <2>2. aw \in Int /\ bw \in Int /\ A \in Int /\ B \in Int /\ abw \in Int
    BY <1>1, <1>7
  <2>3. Cong(t, aw * bw, m)
    <3> HIDE DEF aw, bw
    <3> QED
      BY <1>1, <1>7, <2>2, CongAdd DEF aw, bw
  <2>4. aw * bw = abw * Word
    <3>1. (a * Word) * (b * Word) = ((a * b) * Word) * Word
      BY <1>1
    <3> QED
      BY <3>1
  <2> HIDE DEF t, abw
  <2>5. Redc(t, m) \in 0..(m - 1) /\ Cong(Redc(t, m), abw, m)
    BY <2>1, <2>2, <2>3, <2>4, RedcCancels
  <2> QED
    BY <2>5 DEF t
<1> HIDE DEF M
<1>10. Reduces(M, m)
  <2>1. M * 1 = M /\ 1 \in 0..(m - 1)
    BY <1>9, <1>1
  <2> DEFINE o == 1
  <2>2. o \in 0..(m - 1) /\ M * o = M
    BY <2>1
  <2> HIDE DEF o
  <2>3. Reduces(M * o, m)
    BY <1>9, <2>2, ProductReduces
  <2> QED
    BY <2>2, <2>3
<1>11. F \in 0..(m - 1) /\ Cong(F, ab, m)
  <2>1. ab \in Int
    BY <1>1
  <2> HIDE DEF ab
  <2> QED
    BY <1>9, <1>10, <2>1, RedcCancels DEF abw
<1> HIDE DEF F
<1>12. F = ab % m
  <2>1. ab \in Int /\ F \in Int
    BY <1>1, <1>11
  <2> HIDE DEF ab
  <2>2. F % m = ab % m
    BY <1>1, <1>11, <2>1, CongIff
  <2>3. F % m = F
    BY <1>1, <1>11
  <2> QED
    BY <2>2, <2>3
<1> QED
  BY <1>8, <1>12

-----------------------------------------------------------------------------
(* Big integers, from the most significant limb down.                       *)

\* Downward induction over 1..(n + 1).
LEMMA DownInduction ==
    ASSUME NEW n \in Nat, NEW G, n + 1 \in G, \A i \in 1..n : i + 1 \in G => i \in G
    PROVE  1..(n + 1) \subseteq G
<1> DEFINE H == {k \in Nat : k <= n => (n + 1) - k \in G}
<1>1. 0 \in H
  OBVIOUS
<1>2. ASSUME NEW k \in Nat, k \in H PROVE k + 1 \in H
  <2> SUFFICES ASSUME k + 1 <= n PROVE (n + 1) - (k + 1) \in G
    OBVIOUS
  <2> DEFINE i == (n + 1) - (k + 1)
  <2>1. i \in 1..n /\ i + 1 = (n + 1) - k
    OBVIOUS
  <2>2. (n + 1) - k \in G
    BY <1>2
  <2> HIDE DEF i
  <2>3. i \in G
    BY <2>1, <2>2
  <2> QED
    BY <2>3 DEF i
<1> HIDE DEF H
<1>3. Nat \subseteq H
  BY <1>1, <1>2, InductionSet
<1>4. ASSUME NEW i \in 1..(n + 1) PROVE i \in G
  <2> DEFINE k == (n + 1) - i
  <2>1. k \in Nat /\ k <= n /\ (n + 1) - k = i
    OBVIOUS
  <2> HIDE DEF k
  <2> QED
    BY <2>1, <1>3 DEF H
<1> QED
  BY <1>4

\* f is made downward from base.
IsDownward(f, n, V, base, step) ==
    /\ f \in [1..(n + 1) -> V] /\ f[n + 1] = base
    /\ \A i \in 1..n : f[i] = step[i][f[i + 1]]

\* Downward recursion over an interval.
LEMMA Downward ==
    ASSUME NEW n \in Nat, NEW V, NEW base \in V, NEW step,
           \A i \in 1..n, v \in V : step[i][v] \in V
    PROVE  \E f : IsDownward(f, n, V, base, step)
<1> DEFINE up == [k \in 1..n |-> step[(n + 1) - k]]
<1>1. SeqSteps(up, n, V)
  <2>1. \A k \in 1..n : (n + 1) - k \in 1..n
    OBVIOUS
  <2> QED
    BY <2>1 DEF SeqSteps
<1>2. PICK p \in [0..n -> V] : IsChain(p, n, base, up)
  <2> HIDE DEF up
  <2>1. HasChain(n, V, base, up)
    BY <1>1, FoldLeftChain
  <2> QED
    BY <2>1 DEF HasChain
<1> DEFINE f == [i \in 1..(n + 1) |-> p[(n + 1) - i]]
<1>3. f \in [1..(n + 1) -> V]
  <2>1. \A i \in 1..(n + 1) : (n + 1) - i \in 0..n
    OBVIOUS
  <2> QED
    BY <2>1
<1>4. f[n + 1] = base
  <2>1. n + 1 \in 1..(n + 1) /\ (n + 1) - (n + 1) = 0
    OBVIOUS
  <2> QED
    BY <2>1, <1>2 DEF IsChain
<1>5. ASSUME NEW i \in 1..n PROVE f[i] = step[i][f[i + 1]]
  <2> DEFINE k == (n + 1) - i
  <2>1. /\ k \in 1..n /\ (n + 1) - k = i /\ (n + 1) - (i + 1) = k - 1
        /\ i \in 1..(n + 1) /\ i + 1 \in 1..(n + 1)
    OBVIOUS
  <2>2. f[i] = p[k] /\ f[i + 1] = p[k - 1]
    BY <2>1
  <2> HIDE DEF k, f
  <2>3. p[k] = up[k][p[k - 1]]
    BY <2>1, <1>2 DEF IsChain
  <2>4. up[k] = step[i]
    BY <2>1
  <2> QED
    BY <2>2, <2>3, <2>4
<1> HIDE DEF f
<1> QED
  BY <1>3, <1>4, <1>5 DEF IsDownward

-----------------------------------------------------------------------------
(* What a sequence of limbs stands for.                                     *)

\* A sequence of words, ...
IsLimbs(a) == a \in Seq(0..(Word - 1))

\* ... without a zero word at its end.
IsBig(a) == IsLimbs(a) /\ (a # <<>> => a[Len(a)] # 0)

\* F[i] is what the limbs from i on stand for, n limbs in all.
IsTails(F, a, n) ==
    /\ F \in [1..(n + 1) -> Nat] /\ F[n + 1] = 0
    /\ \A i \in 1..n : F[i] = Limb(a, i) + Word * F[i + 1]

\* Limbs are words.
LEMMA LimbType ==
    ASSUME NEW a, IsLimbs(a)
    PROVE  /\ Len(a) \in Nat /\ DOMAIN a = 1..Len(a)
           /\ \A i : Limb(a, i) \in 0..(Word - 1)
           /\ \A i \in 1..Len(a) : a[i] = Limb(a, i) /\ a[i] \in 0..(Word - 1)
           /\ \A i \in Int : i > Len(a) => Limb(a, i) = 0
<1>1. Word \in Nat /\ Word > 1
  BY WordType
<1>2. Len(a) \in Nat /\ DOMAIN a = 1..Len(a) /\ \A i \in 1..Len(a) : a[i] \in 0..(Word - 1)
  <2> DEFINE S == 0..(Word - 1)
  <2>1. a \in Seq(S)
    BY DEF IsLimbs
  <2> HIDE DEF S
  <2>2. Len(a) \in Nat /\ DOMAIN a = 1..Len(a) /\ \A i \in 1..Len(a) : a[i] \in S
    BY <2>1
  <2> QED
    BY <2>2 DEF S
<1>3. ASSUME NEW i PROVE Limb(a, i) \in 0..(Word - 1)
  BY <1>1, <1>2 DEF Limb
<1> QED
  BY <1>1, <1>2, <1>3 DEF Limb

\* Suffixes exist and are unique.
LEMMA TailsExist ==
    ASSUME NEW a, IsLimbs(a), NEW n \in Nat
    PROVE  \E F : IsTails(F, a, n)
<1> DEFINE step == [i \in 1..n |-> [v \in Nat |-> Limb(a, i) + Word * v]]
<1>1. \A i \in 1..n, v \in Nat : step[i][v] \in Nat /\ step[i][v] = Limb(a, i) + Word * v
  <2> TAKE i \in 1..n, v \in Nat
  <2>1. Limb(a, i) \in Nat /\ Word \in Nat
    BY LimbType, WordType
  <2> QED
    BY <2>1
<1>2. PICK F : IsDownward(F, n, Nat, 0, step)
  <2> DEFINE o == 0  V == Nat
  <2>1. o \in V /\ \A i \in 1..n, v \in V : step[i][v] \in V
    BY <1>1
  <2> HIDE DEF o, V, step
  <2>2. \E F : IsDownward(F, n, V, o, step)
    BY <2>1, Downward
  <2> QED
    BY <2>2 DEF o, V
<1>3. IsTails(F, a, n)
  <2>1. \A i \in 1..n : i + 1 \in 1..(n + 1)
    OBVIOUS
  <2> QED
    BY <1>1, <1>2, <2>1 DEF IsDownward, IsTails
<1> QED
  BY <1>3

\* The recursion of Value.
IsFrom(f, limbs) ==
    f = [i \in 1..(Len(limbs) + 1) |->
            IF i > Len(limbs) THEN 0 ELSE limbs[i] + Word * f[i + 1]]

\* Zero limbs above the last one do not matter.
LEMMA ValueIsTail ==
    ASSUME NEW a, IsLimbs(a), NEW n \in Nat, Len(a) <= n, NEW F, IsTails(F, a, n)
    PROVE  Value(a) = F[1] /\ Value(a) \in Nat
<1> DEFINE l == Len(a)
<1>1. l \in Nat /\ l <= n /\ \A i \in 1..l : a[i] = Limb(a, i)
  BY LimbType
<1>2. \A i \in 1..n : F[i] = Limb(a, i) + Word * F[i + 1]
  BY DEF IsTails
<1>3. \A i \in 1..(n + 1) : i > l => F[i] = 0
  <2> DEFINE G == {i \in 1..(n + 1) : i > l => F[i] = 0}
  <2>1. n + 1 \in G
    BY DEF IsTails
  <2>2. ASSUME NEW i \in 1..n, i + 1 \in G PROVE i \in G
    <3> SUFFICES ASSUME i > l PROVE F[i] = 0
      OBVIOUS
    <3>1. F[i + 1] = 0
      BY <2>2, <1>1
    <3>2. Limb(a, i) = 0
      BY LimbType
    <3>3. Word * 0 = 0
      BY WordType
    <3> QED
      BY <1>2, <3>1, <3>2, <3>3
  <2> HIDE DEF G
  <2>3. 1..(n + 1) \subseteq G
    BY <2>1, <2>2, DownInduction
  <2> QED
    BY <2>3 DEF G
<1> DEFINE g == [i \in 1..(l + 1) |-> F[i]]
<1>4. IsFrom(g, a)
  <2>1. ASSUME NEW i \in 1..(l + 1)
        PROVE  g[i] = IF i > l THEN 0 ELSE a[i] + Word * g[i + 1]
    <3>1. i \in 1..(n + 1)
      BY <1>1
    <3>2. CASE i > l
      BY <1>3, <3>1, <3>2
    <3>3. CASE i <= l
      <4>1. i \in 1..l /\ i \in 1..n /\ i + 1 \in 1..(l + 1) /\ ~(i > l)
        BY <1>1, <3>3
      <4> QED
        BY <1>1, <1>2, <4>1
    <3> QED
      BY <3>2, <3>3, <1>1
  <2>2. g = [i \in 1..(l + 1) |-> g[i]]
    OBVIOUS
  <2> HIDE DEF g
  <2>3. g = [i \in 1..(l + 1) |-> IF i > l THEN 0 ELSE a[i] + Word * g[i + 1]]
    BY <2>1, <2>2
  <2> QED
    BY <2>3 DEF IsFrom
<1>5. ASSUME NEW f, IsFrom(f, a) PROVE f[1] = g[1]
  <2> DEFINE G == {i \in 1..(l + 1) : f[i] = g[i]}
  <2>1. \A i \in 1..(l + 1) : f[i] = IF i > l THEN 0 ELSE a[i] + Word * f[i + 1]
    BY <1>5 DEF IsFrom
  <2>2. \A i \in 1..(l + 1) : g[i] = IF i > l THEN 0 ELSE a[i] + Word * g[i + 1]
    <3> HIDE DEF g
    <3> QED
      BY <1>4 DEF IsFrom
  <2> HIDE DEF g
  <2>3. l + 1 \in G
    <3>1. l + 1 \in 1..(l + 1) /\ l + 1 > l
      BY <1>1
    <3> QED
      BY <2>1, <2>2, <3>1
  <2>4. ASSUME NEW i \in 1..l, i + 1 \in G PROVE i \in G
    <3>1. i \in 1..(l + 1) /\ ~(i > l)
      BY <1>1
    <3> QED
      BY <2>1, <2>2, <2>4, <3>1
  <2> HIDE DEF G, l
  <2>5. 1..(l + 1) \subseteq G
    BY <1>1, <2>3, <2>4, DownInduction
  <2> QED
    BY <1>1, <2>5 DEF G
<1> DEFINE h == CHOOSE f : IsFrom(f, a)
<1>6. Value(a) = h[1]
  BY DEF Value, IsFrom
<1>7. IsFrom(h, a)
  <2> HIDE DEF g
  <2> QED
    BY <1>4
<1> HIDE DEF h
<1>8. h[1] = F[1]
  <2>1. 1 \in 1..(l + 1)
    BY <1>1
  <2>2. h[1] = g[1]
    BY <1>5, <1>7
  <2> HIDE DEF l
  <2> QED
    BY <2>1, <2>2
<1> QED
  BY <1>6, <1>8 DEF IsTails

-----------------------------------------------------------------------------
(* Leading zeros.                                                           *)

\* A bounded set of naturals has a maximum.
LEMMA MaxOfBounded ==
    ASSUME NEW n \in Nat, NEW S, S \subseteq 0..n, S # {}
    PROVE  Max(S) \in S /\ \A i \in S : Max(S) >= i
<1> DEFINE D == {n - i : i \in S}
<1>1. D \in SUBSET Nat /\ D # {}
  <2>1. \A i \in S : i \in 0..n /\ n - i \in Nat
    OBVIOUS
  <2> QED
    BY <2>1
<1>2. PICK d \in D : \A e \in D : d <= e
  <2> HIDE DEF D
  <2> QED
    BY <1>1, LeastNat
<1>3. PICK m \in S : d = n - m
  BY <1>2
<1>4. \A i \in S : m >= i
  <2> TAKE i \in S
  <2>1. n - m <= n - i /\ m \in 0..n /\ i \in 0..n
    BY <1>2, <1>3
  <2> QED
    BY <2>1
<1> HIDE DEF D
<1> QED
  BY <1>4 DEF Max

\* Sequences with the same limbs stand for the same number.
LEMMA SameLimbs ==
    ASSUME NEW a, IsLimbs(a), NEW b, IsLimbs(b), NEW n \in Nat, Len(a) <= n, Len(b) <= n,
           \A i \in 1..n : Limb(a, i) = Limb(b, i)
    PROVE  Value(a) = Value(b)
<1>1. PICK F : IsTails(F, a, n)
  BY TailsExist
<1>2. IsTails(F, b, n)
  BY <1>1 DEF IsTails
<1> QED
  BY <1>1, <1>2, ValueIsTail

\* Cutting zero words off the end changes nothing.
LEMMA NormalizedValue ==
    ASSUME NEW a, IsLimbs(a)
    PROVE  /\ IsBig(Normalized(a)) /\ Value(Normalized(a)) = Value(a)
           /\ Len(Normalized(a)) <= Len(a)
           /\ \A i \in 1..Len(a) : Limb(Normalized(a), i) = Limb(a, i)
<1> DEFINE l == Len(a)  Ps == {0} \union {i \in DOMAIN a : a[i] # 0}  m == Max(Ps)
           S == 0..(Word - 1)  b == SubSeq(a, 1, m)
<1>1. l \in Nat /\ DOMAIN a = 1..l /\ \A i \in 1..l : a[i] = Limb(a, i) /\ a[i] \in S
  BY LimbType
<1>2. m \in Ps /\ \A i \in Ps : m >= i
  <2>1. Ps \subseteq 0..l /\ Ps # {}
    BY <1>1
  <2> HIDE DEF Ps, l
  <2> QED
    BY <1>1, <2>1, MaxOfBounded
<1>3. m \in 0..l /\ (m > 0 => a[m] # 0) /\ \A i \in 1..l : i > m => a[i] = 0
  <2>1. m \in 0..l
    BY <1>1, <1>2
  <2>2. m > 0 => a[m] # 0
    BY <1>2
  <2>3. ASSUME NEW i \in 1..l, i > m PROVE a[i] = 0
    <3>1. i \notin Ps
      <4> HIDE DEF Ps
      <4> QED
        BY <1>1, <1>2, <2>1, <2>3
    <3> QED
      BY <1>1, <3>1
  <2> HIDE DEF Ps, m, l
  <2> QED
    BY <2>1, <2>2, <2>3
<1>4. Normalized(a) = b
  BY DEF Normalized
<1> HIDE DEF m, S, Ps
<1>5. b \in Seq(S) /\ Len(b) = m /\ \A i \in 1..m : b[i] = a[i]
  <2>1. a \in Seq(S) /\ m <= Len(a) /\ m \in Nat
    BY <1>1, <1>3 DEF IsLimbs, S
  <2> QED
    BY <2>1
<1>6. IsLimbs(b)
  BY <1>5 DEF IsLimbs, S
<1>7. b # <<>> => b[Len(b)] # 0
  <2>1. CASE m = 0
    BY <1>5, <2>1
  <2>2. CASE m > 0
    BY <1>1, <1>3, <1>5, <2>2
  <2> QED
    BY <1>1, <1>3, <2>1, <2>2
<1> HIDE DEF b
<1>8. \A i \in 1..l : Limb(b, i) = Limb(a, i)
  <2> TAKE i \in 1..l
  <2>1. CASE i <= m
    <3>1. i \in 1..m
      BY <1>1, <1>3, <2>1
    <3>2. Limb(b, i) = b[i]
      BY <1>5, <1>6, <3>1, LimbType
    <3> QED
      BY <1>1, <1>5, <3>1, <3>2
  <2>2. CASE i > m
    <3>1. Limb(b, i) = 0
      BY <1>1, <1>5, <1>6, <2>2, LimbType
    <3> QED
      BY <1>1, <1>3, <2>2, <3>1
  <2> QED
    BY <1>1, <1>3, <2>1, <2>2
<1>9. Value(b) = Value(a)
  <2>1. Len(b) <= l /\ Len(a) <= l
    BY <1>1, <1>3, <1>5
  <2> HIDE DEF l
  <2> QED
    BY <1>1, <1>6, <1>8, <2>1, SameLimbs
<1> QED
  BY <1>1, <1>3, <1>4, <1>5, <1>6, <1>7, <1>8, <1>9 DEF IsBig

-----------------------------------------------------------------------------
(* Carries.                                                                 *)

\* A number is its high and its low word.
LEMMA WordSplit ==
    ASSUME NEW n \in Nat
    PROVE  /\ LowWord(n) \in 0..(Word - 1) /\ HighWord(n) \in Nat
           /\ n = LowWord(n) + Word * HighWord(n)
<1>1. Word \in Nat /\ Word > 0
  BY WordType
<1>2. /\ n \div Word \in Nat /\ n % Word \in 0..(Word - 1)
      /\ n = (n \div Word) * Word + (n % Word)
  BY <1>1, WordQuotient
<1> DEFINE h == n \div Word  l == n % Word
<1>3. h \in Nat /\ l \in 0..(Word - 1) /\ n = h * Word + l
  BY <1>2
<1> HIDE DEF h, l
<1>4. n = l + Word * h
  BY <1>1, <1>3
<1> QED
  BY <1>3, <1>4 DEF h, l, LowWord, HighWord

\* The recursion of PropagateCarries.
IsTotals(t, sums, n) ==
    t = [i \in 0..n |-> IF i = 0 THEN 0 ELSE sums[i] + HighWord(t[i - 1])]

\* What the limbs come to, with their carries.
LEMMA TotalsExist ==
    ASSUME NEW n \in Nat, NEW sums, \A i \in 1..n : sums[i] \in Nat
    PROVE  /\ \E t : IsTotals(t, sums, n)
           /\ \A t : IsTotals(t, sums, n) => t \in [0..n -> Nat]
<1> DEFINE step == [i \in 1..n |-> [v \in Nat |-> sums[i] + HighWord(v)]]
<1>1. \A i \in 1..n, v \in Nat : step[i][v] = sums[i] + HighWord(v) /\ step[i][v] \in Nat
  <2> TAKE i \in 1..n, v \in Nat
  <2>1. HighWord(v) \in Nat
    BY WordSplit
  <2> QED
    BY <2>1
<1>2. \E t : IsTotals(t, sums, n)
  <2> DEFINE o == 0  V == Nat
  <2>1. SeqSteps(step, n, V) /\ o \in V
    BY <1>1 DEF SeqSteps
  <2> HIDE DEF o, V, step
  <2>2. HasChain(n, V, o, step)
    BY <2>1, FoldLeftChain
  <2>3. PICK t \in [0..n -> V] : IsChain(t, n, o, step)
    BY <2>2 DEF HasChain
  <2>4. ASSUME NEW i \in 0..n PROVE t[i] = IF i = 0 THEN 0 ELSE sums[i] + HighWord(t[i - 1])
    <3>1. CASE i = 0
      BY <3>1, <2>3 DEF IsChain, o
    <3>2. CASE i # 0
      <4>1. i \in 1..n /\ i - 1 \in 0..n
        BY <3>2
      <4>2. t[i] = step[i][t[i - 1]]
        BY <4>1, <2>3 DEF IsChain
      <4>3. t[i - 1] \in Nat
        BY <4>1, <2>3 DEF V
      <4> QED
        BY <1>1, <3>2, <4>1, <4>2, <4>3
    <3> QED
      BY <3>1, <3>2
  <2>5. t = [i \in 0..n |-> IF i = 0 THEN 0 ELSE sums[i] + HighWord(t[i - 1])]
    BY <2>3, <2>4
  <2> QED
    BY <2>5 DEF IsTotals
<1>3. ASSUME NEW t, IsTotals(t, sums, n) PROVE t \in [0..n -> Nat]
  <2> DEFINE G == {i \in Nat : i <= n => t[i] \in Nat}
  <2>1. \A i \in 0..n : t[i] = IF i = 0 THEN 0 ELSE sums[i] + HighWord(t[i - 1])
    BY <1>3 DEF IsTotals
  <2>2. 0 \in G
    BY <2>1
  <2>3. ASSUME NEW i \in Nat, i \in G PROVE i + 1 \in G
    <3> SUFFICES ASSUME i + 1 <= n PROVE t[i + 1] \in Nat
      OBVIOUS
    <3>1. t[i] \in Nat /\ i + 1 \in 1..n /\ i + 1 \in 0..n /\ i + 1 # 0 /\ (i + 1) - 1 = i
      BY <2>3
    <3>2. HighWord(t[i]) \in Nat
      BY <3>1, WordSplit
    <3>3. t[i + 1] = sums[i + 1] + HighWord(t[i])
      BY <2>1, <3>1
    <3> QED
      BY <3>1, <3>2, <3>3
  <2> HIDE DEF G
  <2>4. Nat \subseteq G
    BY <2>2, <2>3, InductionSet
  <2>5. \A i \in 0..n : t[i] \in Nat
    BY <2>4 DEF G
  <2>6. t = [i \in 0..n |-> t[i]]
    BY <1>3 DEF IsTotals
  <2> QED
    BY <2>5, <2>6
<1> QED
  BY <1>2, <1>3

\* What the loop with carries is given: sums of n places that a word can carry,
\* and what they come to from each place on.
Carries(sums, n, S) ==
    /\ n \in Nat /\ S \in [1..(n + 1) -> Nat] /\ S[n + 1] = 0
    /\ \A i \in 1..n : /\ sums[i] \in Nat /\ sums[i] <= (Word - 1) * (Word - 1)
                       /\ S[i] = sums[i] + Word * S[i + 1]

\* The high word of what fits two words.
LEMMA HighBound ==
    ASSUME NEW n \in Nat, n <= (Word - 1) * (Word - 1) + (Word - 1)
    PROVE  HighWord(n) \in 0..(Word - 1)
<1>1. Word \in Nat /\ Word > 1
  BY WordType
<1>2. LowWord(n) \in 0..(Word - 1) /\ HighWord(n) \in Nat /\ n = LowWord(n) + Word * HighWord(n)
  BY WordSplit
<1> DEFINE h == HighWord(n)  l == LowWord(n)
<1>3. h \in Nat /\ l \in Nat /\ n = l + Word * h
  BY <1>1, <1>2
<1> HIDE DEF h, l
<1>4. (Word - 1) * (Word - 1) + (Word - 1) = Word * (Word - 1)
  BY <1>1
<1>5. ASSUME h >= Word PROVE FALSE
  <2>1. Word * h >= Word * Word
    BY <1>1, <1>3, <1>5
  <2>2. Word * (Word - 1) < Word * Word
    BY <1>1
  <2> DEFINE wh == Word * h  ww == Word * Word  w1 == Word * (Word - 1)
  <2>3. wh \in Int /\ ww \in Int /\ w1 \in Int /\ wh >= ww /\ w1 < ww /\ n = l + wh /\ n <= w1
    BY <1>1, <1>3, <1>4, <2>1, <2>2
  <2> HIDE DEF wh, ww, w1
  <2> QED
    BY <2>3, <1>3
<1> QED
  BY <1>1, <1>3, <1>5 DEF h

\* The loop of add and mul_u64 computes what its sums stand for, carries and
\* the pushed last one included.
LEMMA CarriesValue ==
    ASSUME NEW sums, NEW n, NEW S, Carries(sums, n, S)
    PROVE  /\ IsBig(PropagateCarries(sums, n))
           /\ Value(PropagateCarries(sums, n)) = S[1]
<1>w. Word \in Nat /\ Word > 1
  BY WordType
<1>n. n \in Nat /\ \A i \in 1..n : sums[i] \in Nat
  BY DEF Carries
<1> DEFINE t == CHOOSE f : IsTotals(f, sums, n)
<1>1. IsTotals(t, sums, n)
  BY <1>n, TotalsExist
<1> DEFINE limbs == [i \in 1..n |-> LowWord(t[i])]
           b == Append(limbs, HighWord(t[n]))
<1>2. PropagateCarries(sums, n) = Normalized(b)
  BY DEF PropagateCarries, IsTotals
<1> HIDE DEF t
<1>3. t \in [0..n -> Nat]
  BY <1>1, <1>n, TotalsExist
<1>4. t[0] = 0 /\ \A i \in 1..n : t[i] = sums[i] + HighWord(t[i - 1])
  <2>1. \A i \in 0..n : t[i] = IF i = 0 THEN 0 ELSE sums[i] + HighWord(t[i - 1])
    BY <1>1 DEF IsTotals
  <2>2. \A i \in 1..n : i \in 0..n /\ i # 0
    OBVIOUS
  <2> QED
    BY <1>n, <2>1, <2>2
<1>5. \A i \in 0..n : /\ t[i] \in Nat /\ LowWord(t[i]) \in 0..(Word - 1) /\ HighWord(t[i]) \in Nat
                      /\ t[i] = LowWord(t[i]) + Word * HighWord(t[i])
  BY <1>3, WordSplit
<1>6. HighWord(0) = 0
  <2> DEFINE o == 0
  <2>1. o \in 0..(Word - 1) /\ 0 * Word + o = 0
    BY <1>w
  <2> HIDE DEF o
  <2>2. (0 * Word + o) \div Word = 0
    BY <1>w, <2>1, WordQuotientUnique
  <2> QED
    BY <2>1, <2>2 DEF HighWord
<1>7. \A i \in 0..n : HighWord(t[i]) \in 0..(Word - 1)
  <2> DEFINE G == {i \in Nat : i <= n => HighWord(t[i]) \in 0..(Word - 1)}
  <2>1. 0 \in G
    BY <1>4, <1>6, <1>w
  <2>2. ASSUME NEW i \in Nat, i \in G PROVE i + 1 \in G
    <3> SUFFICES ASSUME i + 1 <= n PROVE HighWord(t[i + 1]) \in 0..(Word - 1)
      OBVIOUS
    <3>1. HighWord(t[i]) \in 0..(Word - 1) /\ i + 1 \in 1..n /\ i + 1 \in 0..n
          /\ (i + 1) - 1 = i
      BY <2>2, <1>n
    <3>2. t[i + 1] = sums[i + 1] + HighWord(t[i])
      BY <1>4, <3>1
    <3>3. sums[i + 1] \in Nat /\ sums[i + 1] <= (Word - 1) * (Word - 1)
      BY <3>1 DEF Carries
    <3> DEFINE v == t[i + 1]  m == (Word - 1) * (Word - 1)
    <3>4. v \in Nat /\ v <= m + (Word - 1)
      <4>1. m \in Nat
        BY <1>w
      <4> HIDE DEF m
      <4> QED
        BY <1>w, <3>1, <3>2, <3>3, <4>1 DEF m
    <3> HIDE DEF v
    <3>5. HighWord(v) \in 0..(Word - 1)
      BY <3>4, HighBound
    <3> QED
      BY <3>5 DEF v
  <2> HIDE DEF G
  <2>3. Nat \subseteq G
    BY <2>1, <2>2, InductionSet
  <2> QED
    BY <2>3 DEF G
<1>8. /\ IsLimbs(b) /\ Len(b) = n + 1 /\ \A i \in 1..n : Limb(b, i) = LowWord(t[i])
      /\ Limb(b, n + 1) = HighWord(t[n])
  <2> DEFINE V == 0..(Word - 1)  h == HighWord(t[n])
  <2>1. h \in V /\ \A i \in 1..n : LowWord(t[i]) \in V
    BY <1>n, <1>5, <1>7
  <2> HIDE DEF V, h
  <2>2. limbs \in Seq(V) /\ Len(limbs) = n
    BY <1>n, <2>1
  <2>3. \A i \in 1..n : limbs[i] = LowWord(t[i])
    OBVIOUS
  <2> HIDE DEF limbs
  <2> DEFINE c == Append(limbs, h)
  <2>4. c \in Seq(V) /\ Len(c) = n + 1 /\ c[n + 1] = h /\ \A i \in 1..n : c[i] = limbs[i]
    BY <1>n, <2>1, <2>2
  <2>5. c = b
    BY DEF h
  <2> HIDE DEF c, b
  <2>6. IsLimbs(b) /\ Len(b) = n + 1
    BY <2>4, <2>5 DEF IsLimbs, V
  <2>7. \A i \in 1..(n + 1) : Limb(b, i) = b[i]
    BY <2>6, LimbType
  <2>8. \A i \in 1..n : i \in 1..(n + 1)
    BY <1>n
  <2>9. n + 1 \in 1..(n + 1)
    BY <1>n
  <2> QED
    BY <2>3, <2>4, <2>5, <2>6, <2>7, <2>8, <2>9 DEF h
<1> HIDE DEF b
<1> DEFINE k == n + 1
<1>9. k \in Nat
  BY <1>n
<1>10. PICK F : IsTails(F, b, k)
  BY <1>8, <1>9, TailsExist
<1>11. /\ F \in [1..(k + 1) -> Nat] /\ F[k + 1] = 0
       /\ \A i \in 1..k : F[i] = Limb(b, i) + Word * F[i + 1]
  BY <1>10 DEF IsTails
<1>12. 1..(n + 1) \subseteq {i \in 1..(n + 1) : F[i] = S[i] + HighWord(t[i - 1])}
  <2> DEFINE G == {i \in 1..(n + 1) : F[i] = S[i] + HighWord(t[i - 1])}
  <2>1. n + 1 \in G
    <3>1. n + 1 \in 1..k /\ k \in 1..k /\ (n + 1) - 1 = n /\ n \in 0..n /\ n + 1 \in 1..(n + 1)
      BY <1>n
    <3>2. F[k] = HighWord(t[n]) + Word * 0
      BY <1>8, <1>11, <3>1
    <3>3. S[n + 1] = 0
      BY DEF Carries
    <3>4. HighWord(t[n]) \in Nat
      BY <1>5, <3>1
    <3>5. F[n + 1] = S[n + 1] + HighWord(t[n])
      BY <3>2, <3>3, <3>4, <1>w
    <3> QED
      BY <3>1, <3>5
  <2>2. ASSUME NEW i \in 1..n, i + 1 \in G PROVE i \in G
    <3>1. i \in 1..k /\ i \in 1..(n + 1) /\ i \in 0..n /\ i - 1 \in 0..n /\ (i + 1) - 1 = i
          /\ i + 1 \in 1..(n + 1)
      BY <1>n
    <3>2. F[i + 1] = S[i + 1] + HighWord(t[i])
      BY <2>2, <3>1
    <3>3. F[i] = LowWord(t[i]) + Word * F[i + 1]
      BY <1>8, <1>11, <3>1
    <3>4. /\ t[i] = LowWord(t[i]) + Word * HighWord(t[i]) /\ LowWord(t[i]) \in Int
          /\ HighWord(t[i]) \in Int /\ HighWord(t[i - 1]) \in Int
      BY <1>5, <1>w, <3>1
    <3>5. t[i] = sums[i] + HighWord(t[i - 1])
      BY <1>4
    <3>6. S[i] = sums[i] + Word * S[i + 1] /\ S[i + 1] \in Int /\ sums[i] \in Int
      BY <3>1 DEF Carries
    <3> DEFINE lo == LowWord(t[i])  hi == HighWord(t[i])  pr == HighWord(t[i - 1])
               s1 == S[i + 1]  su == sums[i]  ti == t[i]
    <3>7. /\ lo \in Int /\ hi \in Int /\ pr \in Int /\ s1 \in Int /\ su \in Int /\ Word \in Int
          /\ ti = lo + Word * hi /\ ti = su + pr /\ S[i] = su + Word * s1
          /\ F[i] = lo + Word * (s1 + hi)
      BY <1>w, <3>2, <3>3, <3>4, <3>5, <3>6
    <3> HIDE DEF lo, hi, pr, s1, su, ti
    <3>8. Word * (s1 + hi) = Word * s1 + Word * hi
      BY <3>7
    <3> DEFINE ws == Word * s1  wh == Word * hi
    <3>9. ws \in Int /\ wh \in Int /\ ti = lo + wh /\ S[i] = su + ws /\ F[i] = lo + (ws + wh)
      BY <3>7, <3>8
    <3> HIDE DEF ws, wh
    <3>10. F[i] = S[i] + pr
      BY <3>7, <3>9
    <3> QED
      BY <3>1, <3>10 DEF pr
  <2> HIDE DEF G
  <2>3. 1..(n + 1) \subseteq G
    BY <1>n, <2>1, <2>2, DownInduction
  <2> QED
    BY <2>3 DEF G
<1>13. F[1] = S[1]
  <2>1. 1 \in 1..(n + 1) /\ 1 - 1 = 0
    BY <1>n
  <2>2. F[1] = S[1] + HighWord(t[0])
    BY <1>12, <2>1
  <2>3. S[1] \in Nat
    BY <2>1 DEF Carries
  <2> QED
    BY <2>2, <2>3, <1>4, <1>6
<1>14. Value(b) = F[1]
  BY <1>8, <1>9, <1>10, ValueIsTail
<1> QED
  BY <1>2, <1>8, <1>13, <1>14, NormalizedValue

-----------------------------------------------------------------------------

\* add is addition: carries run through every limb, and the last one makes a
\* limb of its own.
THEOREM BigAddExact ==
    ASSUME NEW a, IsLimbs(a), NEW b, IsLimbs(b)
    PROVE  IsBig(BigAdd(a, b)) /\ Value(BigAdd(a, b)) = Value(a) + Value(b)
<1>w. Word \in Nat /\ Word >= 4
  <2>1. WordBits - 2 \in Nat /\ 2 \in Nat /\ (WordBits - 2) + 2 = WordBits
    BY WordBitsAssumption
  <2>2. Word = 2^(WordBits - 2) * 2^2
    BY <2>1, PowerAdds DEF Word
  <2>3. 2^(WordBits - 2) \in Nat /\ 2^(WordBits - 2) > 0
    BY <2>1, PowerDoubles
  <2>4. 2^2 = 4
    <3>1. 0 + 1 = 1 /\ 1 + 1 = 2
      OBVIOUS
    <3> QED
      BY <3>1, PowerDoubles
  <2> DEFINE p == 2^(WordBits - 2)
  <2>5. p \in Nat /\ p > 0 /\ Word = p * 4
    BY <2>2, <2>3, <2>4
  <2> HIDE DEF p
  <2> QED
    BY <2>5
<1> DEFINE n == Max({Len(a), Len(b)})  sums == [i \in 1..n |-> Limb(a, i) + Limb(b, i)]
<1>1. n \in Nat /\ Len(a) <= n /\ Len(b) <= n
  <2>1. Len(a) \in Nat /\ Len(b) \in Nat
    BY LimbType
  <2> DEFINE Ps == {Len(a), Len(b)}  m == Len(a) + Len(b)
  <2>2. m \in Nat /\ Ps \subseteq 0..m /\ Ps # {}
    BY <2>1
  <2>3. Max(Ps) \in Ps /\ \A i \in Ps : Max(Ps) >= i
    <3> HIDE DEF Ps, m
    <3> QED
      BY <2>2, MaxOfBounded
  <2> DEFINE xi == Max(Ps)
  <2>4. xi \in Ps /\ \A i \in Ps : xi >= i
    BY <2>3
  <2> HIDE DEF xi
  <2>5. xi \in Nat /\ Len(a) <= xi /\ Len(b) <= xi
    BY <2>1, <2>4
  <2> QED
    BY <2>5 DEF xi
<1>2. BigAdd(a, b) = PropagateCarries(sums, n)
  BY DEF BigAdd
<1> HIDE DEF n
<1>3. PICK A : IsTails(A, a, n)
  BY <1>1, TailsExist
<1>4. PICK B : IsTails(B, b, n)
  BY <1>1, TailsExist
<1> DEFINE S == [i \in 1..(n + 1) |-> A[i] + B[i]]
<1>5. \A i \in 1..(n + 1) : A[i] \in Nat /\ B[i] \in Nat
  BY <1>3, <1>4 DEF IsTails
<1>6. Carries(sums, n, S)
  <2>1. S \in [1..(n + 1) -> Nat]
    BY <1>5
  <2>2. S[n + 1] = 0
    <3>1. A[n + 1] = 0 /\ B[n + 1] = 0 /\ n + 1 \in 1..(n + 1)
      BY <1>1, <1>3, <1>4 DEF IsTails
    <3> QED
      BY <3>1
  <2>3. ASSUME NEW i \in 1..n
        PROVE  /\ sums[i] \in Nat /\ sums[i] <= (Word - 1) * (Word - 1)
               /\ S[i] = sums[i] + Word * S[i + 1]
    <3>1. i \in 1..(n + 1) /\ i + 1 \in 1..(n + 1)
      BY <1>1
    <3> DEFINE xi == Limb(a, i)  y == Limb(b, i)  u == A[i + 1]  v == B[i + 1]
    <3>2. xi \in 0..(Word - 1) /\ y \in 0..(Word - 1) /\ u \in Nat /\ v \in Nat
      BY <1>5, <3>1, LimbType
    <3>3. A[i] = xi + Word * u /\ B[i] = y + Word * v
      BY <1>3, <1>4 DEF IsTails
    <3>4. sums[i] = xi + y /\ S[i] = (xi + Word * u) + (y + Word * v) /\ S[i + 1] = u + v
      BY <3>1, <3>3
    <3> HIDE DEF xi, y, u, v
    <3>5. (xi + Word * u) + (y + Word * v) = (xi + y) + Word * (u + v)
      BY <3>2, <1>w
    <3>6. xi + y <= (Word - 1) * (Word - 1)
      <4>1. (Word - 1) * 2 <= (Word - 1) * (Word - 1)
        BY <1>w
      <4> DEFINE m == (Word - 1) * (Word - 1)
      <4>2. m \in Int /\ (Word - 1) * 2 <= m
        BY <4>1, <1>w
      <4> HIDE DEF m
      <4>3. xi + y <= m
        BY <3>2, <1>w, <4>2
      <4> QED
        BY <4>3 DEF m
    <3> HIDE DEF S, sums
    <3> QED
      BY <3>2, <3>4, <3>5, <3>6, <1>w
  <2> HIDE DEF S, sums
  <2> QED
    BY <1>1, <2>1, <2>2, <2>3 DEF Carries
<1>7. S[1] = A[1] + B[1]
  <2>1. 1 \in 1..(n + 1)
    BY <1>1
  <2> QED
    BY <2>1
<1>8. Value(a) = A[1] /\ Value(b) = B[1]
  BY <1>1, <1>3, <1>4, ValueIsTail
<1> HIDE DEF S, sums
<1> QED
  BY <1>2, <1>6, <1>7, <1>8, CarriesValue

\* mul_u64 is multiplication by a word.
THEOREM MulWordExact ==
    ASSUME NEW a, IsLimbs(a), NEW s \in 0..(Word - 1)
    PROVE  IsBig(MulWord(a, s)) /\ Value(MulWord(a, s)) = Value(a) * s
<1>w. Word \in Nat /\ Word > 1 /\ s \in Nat
  BY WordType
<1> DEFINE n == Len(a)  sums == [i \in DOMAIN a |-> a[i] * s]
<1>1. n \in Nat /\ DOMAIN a = 1..n /\ \A i \in 1..n : a[i] = Limb(a, i) /\ a[i] \in 0..(Word - 1)
  BY LimbType
<1>2. MulWord(a, s) = PropagateCarries(sums, n)
  BY DEF MulWord
<1>3. PICK A : IsTails(A, a, n)
  <2> HIDE DEF n
  <2> QED
    BY <1>1, TailsExist
<1> DEFINE S == [i \in 1..(n + 1) |-> A[i] * s]
<1>4. \A i \in 1..(n + 1) : A[i] \in Nat
  BY <1>3 DEF IsTails
<1>5. Carries(sums, n, S)
  <2>1. S \in [1..(n + 1) -> Nat]
    <3>1. \A i \in 1..(n + 1) : A[i] * s \in Nat
      BY <1>4, <1>w
    <3> QED
      BY <3>1
  <2>2. S[n + 1] = 0
    <3>1. A[n + 1] = 0 /\ n + 1 \in 1..(n + 1) /\ 0 * s = 0
      BY <1>1, <1>3, <1>w DEF IsTails
    <3> QED
      BY <3>1
  <2>3. ASSUME NEW i \in 1..n
        PROVE  /\ sums[i] \in Nat /\ sums[i] <= (Word - 1) * (Word - 1)
               /\ S[i] = sums[i] + Word * S[i + 1]
    <3>1. i \in 1..(n + 1) /\ i + 1 \in 1..(n + 1)
      BY <1>1
    <3> DEFINE xi == a[i]  u == A[i + 1]
    <3>2. xi \in 0..(Word - 1) /\ u \in Nat
      BY <1>1, <1>4, <3>1
    <3>3. A[i] = xi + Word * u
      BY <1>1, <1>3 DEF IsTails
    <3>4. sums[i] = xi * s /\ S[i] = (xi + Word * u) * s /\ S[i + 1] = u * s
      BY <1>1, <3>1, <3>3
    <3> HIDE DEF xi, u
    <3>5. (xi + Word * u) * s = xi * s + Word * (u * s) /\ xi * s \in Nat
      BY <3>2, <1>w
    <3>6. xi * s <= (Word - 1) * (Word - 1)
      <4>1. xi * s <= (Word - 1) * s
        BY <3>2, <1>w
      <4>2. (Word - 1) * s <= (Word - 1) * (Word - 1)
        BY <1>w
      <4>3. xi * s \in Int /\ (Word - 1) * s \in Int /\ (Word - 1) * (Word - 1) \in Int
        BY <3>2, <1>w
      <4> QED
        BY <4>1, <4>2, <4>3
    <3> HIDE DEF S, sums
    <3> QED
      BY <3>4, <3>5, <3>6
  <2> HIDE DEF S, sums, n
  <2> QED
    BY <1>1, <2>1, <2>2, <2>3 DEF Carries
<1>6. S[1] = A[1] * s
  <2>1. 1 \in 1..(n + 1)
    BY <1>1
  <2> QED
    BY <2>1
<1>7. Value(a) = A[1]
  BY <1>1, <1>3, ValueIsTail
<1> HIDE DEF S, sums
<1> QED
  BY <1>2, <1>5, <1>6, <1>7, CarriesValue

-----------------------------------------------------------------------------
(* Comparison.                                                              *)

\* Tails that agree above a place, and differ in it, differ the same way below.
LEMMA LessAt ==
    ASSUME NEW a, IsLimbs(a), NEW b, IsLimbs(b), NEW n \in Nat,
           NEW A, IsTails(A, a, n), NEW B, IsTails(B, b, n),
           NEW i \in 1..n, Limb(a, i) < Limb(b, i),
           \A j \in (i + 1)..n : Limb(a, j) = Limb(b, j)
    PROVE  A[1] < B[1]
<1>w. Word \in Nat /\ Word > 1
  BY WordType
<1>1. /\ A[n + 1] = 0 /\ B[n + 1] = 0
      /\ \A j \in 1..n : /\ A[j] = Limb(a, j) + Word * A[j + 1]
                         /\ B[j] = Limb(b, j) + Word * B[j + 1]
      /\ \A j \in 1..(n + 1) : A[j] \in Nat /\ B[j] \in Nat
  BY DEF IsTails
<1>2. \A j : Limb(a, j) \in 0..(Word - 1) /\ Limb(b, j) \in 0..(Word - 1)
  BY LimbType
<1> DEFINE G == {j \in 1..(n + 1) : IF j > i THEN A[j] = B[j] ELSE A[j] < B[j]}
<1>3. n + 1 \in G
  BY <1>1
<1>4. ASSUME NEW j \in 1..n, j + 1 \in G PROVE j \in G
  <2>1. j \in 1..(n + 1) /\ j + 1 \in 1..(n + 1)
    OBVIOUS
  <2> DEFINE xi == Limb(a, j)  y == Limb(b, j)  u == A[j + 1]  v == B[j + 1]
  <2>2. xi \in 0..(Word - 1) /\ y \in 0..(Word - 1) /\ u \in Nat /\ v \in Nat
        /\ A[j] = xi + Word * u /\ B[j] = y + Word * v
    BY <1>1, <1>2, <2>1
  <2>3. CASE j > i
    <3>1. xi = y /\ u = v
      BY <1>4, <2>3
    <3> HIDE DEF xi, y, u, v
    <3> QED
      BY <2>1, <2>2, <2>3, <3>1
  <2>4. CASE j = i
    <3>1. xi < y /\ u = v
      BY <1>4, <2>4
    <3> HIDE DEF xi, y, u, v
    <3> DEFINE wu == Word * u
    <3>2. wu \in Int /\ A[j] = xi + wu /\ B[j] = y + wu
      BY <2>2, <3>1, <1>w
    <3> HIDE DEF wu
    <3>3. A[j] < B[j]
      BY <2>2, <3>1, <3>2
    <3> QED
      BY <2>1, <2>4, <3>3
  <2>5. CASE j < i
    <3>1. u < v
      BY <1>4, <2>5
    <3> HIDE DEF xi, y, u, v
    <3>2. Word * (u + 1) <= Word * v /\ Word * (u + 1) = Word * u + Word
      BY <2>2, <3>1, <1>w
    <3> DEFINE wu == Word * u  wv == Word * v
    <3>3. wu \in Int /\ wv \in Int /\ wu + Word <= wv /\ A[j] = xi + wu /\ B[j] = y + wv
      BY <2>2, <3>2, <1>w
    <3> HIDE DEF wu, wv
    <3>4. A[j] < B[j]
      BY <2>2, <3>3, <1>w
    <3> QED
      BY <2>1, <2>5, <3>4
  <2> QED
    BY <2>3, <2>4, <2>5
<1> HIDE DEF G
<1>5. 1..(n + 1) \subseteq G
  BY <1>3, <1>4, DownInduction
<1>6. 1 \in G /\ ~(1 > i)
  BY <1>5
<1> QED
  BY <1>6 DEF G

\* cmp's first answer is right ...
LEMMA LessIsLess ==
    ASSUME NEW a, IsBig(a), NEW b, IsBig(b), BigLess(a, b)
    PROVE  Value(a) < Value(b)
<1>1. IsLimbs(a) /\ IsLimbs(b) /\ Len(a) \in Nat /\ Len(b) \in Nat
  BY LimbType DEF IsBig
<1> DEFINE n == Len(b)
<1>2. Len(a) <= n /\ n \in Nat
  BY <1>1 DEF BigLess
<1>3. \E i \in 1..n : Limb(a, i) < Limb(b, i) /\ \A j \in (i + 1)..n : Limb(a, j) = Limb(b, j)
  <2>1. CASE Len(a) < Len(b)
    <3>1. n \in 1..n /\ b # <<>>
      BY <1>1, <2>1
    <3>2. Limb(b, n) # 0 /\ Limb(b, n) \in 0..(Word - 1)
      BY <1>1, <3>1, LimbType DEF IsBig
    <3>3. Limb(a, n) = 0
      BY <1>1, <2>1, LimbType
    <3>4. Limb(a, n) < Limb(b, n)
      BY <3>2, <3>3, WordType
    <3>5. (n + 1)..n = {}
      BY <1>2
    <3> QED
      BY <3>1, <3>4, <3>5
  <2>2. CASE Len(a) = Len(b)
    <3>1. PICK i \in DOMAIN a : a[i] < b[i] /\ \A j \in (i + 1)..Len(a) : a[j] = b[j]
      <4>1. ~(Len(a) < Len(b))
        BY <1>1, <2>2
      <4> QED
        BY <4>1 DEF BigLess
    <3>2. DOMAIN a = 1..n /\ \A j \in 1..n : a[j] = Limb(a, j) /\ b[j] = Limb(b, j)
      BY <1>1, <2>2, LimbType
    <3>3. \A j \in (i + 1)..n : j \in 1..n
      BY <1>2, <3>1, <3>2
    <3> QED
      BY <2>2, <3>1, <3>2, <3>3
  <2> QED
    BY <1>1, <1>2, <2>1, <2>2
<1> HIDE DEF n
<1>4. PICK i \in 1..n : Limb(a, i) < Limb(b, i) /\ \A j \in (i + 1)..n : Limb(a, j) = Limb(b, j)
  BY <1>3
<1>5. PICK A : IsTails(A, a, n)
  BY <1>1, <1>2, TailsExist
<1>6. PICK B : IsTails(B, b, n)
  BY <1>1, <1>2, TailsExist
<1>7. A[1] < B[1]
  BY <1>1, <1>2, <1>4, <1>5, <1>6, LessAt
<1>8. Value(a) = A[1]
  BY <1>1, <1>2, <1>5, ValueIsTail
<1>9. Len(b) <= n
  BY <1>2 DEF n
<1>10. Value(b) = B[1]
  BY <1>1, <1>2, <1>6, <1>9, ValueIsTail
<1> QED
  BY <1>7, <1>8, <1>10

\* ... and so are the others: without leading zeros, cmp compares the numbers.
THEOREM BigLessExact ==
    ASSUME NEW a, IsBig(a), NEW b, IsBig(b)
    PROVE  /\ BigLess(a, b) <=> Value(a) < Value(b)
           /\ Value(a) = Value(b) => a = b
<1>1. IsLimbs(a) /\ IsLimbs(b) /\ Len(a) \in Nat /\ Len(b) \in Nat
      /\ DOMAIN a = 1..Len(a) /\ DOMAIN b = 1..Len(b)
  BY LimbType DEF IsBig
<1>2. Value(a) \in Nat /\ Value(b) \in Nat
  <2>1. ASSUME NEW c, IsLimbs(c) PROVE Value(c) \in Nat
    <3>1. Len(c) \in Nat /\ Len(c) <= Len(c)
      BY <2>1, LimbType
    <3>2. PICK C : IsTails(C, c, Len(c))
      BY <2>1, <3>1, TailsExist
    <3> QED
      BY <2>1, <3>1, <3>2, ValueIsTail
  <2> QED
    BY <1>1, <2>1
<1>3. BigLess(a, b) => Value(a) < Value(b)
  BY LessIsLess
<1>4. BigLess(b, a) => Value(b) < Value(a)
  BY LessIsLess
<1>5. BigLess(a, b) \/ BigLess(b, a) \/ a = b
  <2>0. ASSUME Len(a) # Len(b) PROVE BigLess(a, b) \/ BigLess(b, a)
    <3>1. Len(a) < Len(b) \/ Len(b) < Len(a)
      <4> DEFINE l == Len(a)  k == Len(b)
      <4>1. l \in Nat /\ k \in Nat /\ l # k
        BY <1>1, <2>0
      <4> HIDE DEF l, k
      <4>2. l < k \/ k < l
        BY <4>1
      <4> QED
        BY <4>2 DEF l, k
    <3> QED
      BY <3>1 DEF BigLess
  <2>1. SUFFICES ASSUME Len(a) = Len(b), a # b PROVE BigLess(a, b) \/ BigLess(b, a)
    BY <2>0
  <2> DEFINE n == Len(a)  Ps == {i \in 1..n : a[i] # b[i]}
  <2>2. Ps \subseteq 0..n /\ Ps # {}
    <3>1. a = [i \in 1..n |-> a[i]] /\ b = [i \in 1..n |-> b[i]]
      BY <1>1, <2>1 DEF IsLimbs
    <3>2. Ps # {}
      BY <2>1, <3>1
    <3> QED
      BY <1>1, <3>2
  <2> DEFINE m == Max(Ps)
  <2>3. m \in Ps /\ \A i \in Ps : m >= i
    <3> HIDE DEF Ps, n
    <3> QED
      BY <1>1, <2>2, MaxOfBounded DEF n
  <2> HIDE DEF m
  <2>4. m \in 1..n /\ a[m] # b[m]
    BY <2>3
  <2>5. \A j \in (m + 1)..n : a[j] = b[j]
    <3> SUFFICES ASSUME NEW j \in (m + 1)..n, a[j] # b[j] PROVE FALSE
      OBVIOUS
    <3>1. j \in Ps /\ ~(m >= j)
      BY <1>1, <2>4
    <3> QED
      BY <2>3, <3>1
  <2>6. a[m] \in Int /\ b[m] \in Int
    <3>1. a[m] \in 0..(Word - 1) /\ b[m] \in 0..(Word - 1)
      BY <1>1, <2>1, <2>4, LimbType
    <3> QED
      BY <3>1, WordType
  <2>7. a[m] < b[m] \/ b[m] < a[m]
    BY <2>4, <2>6
  <2> HIDE DEF n, Ps
  <2> QED
    BY <1>1, <2>1, <2>4, <2>5, <2>7 DEF BigLess, n
<1> QED
  BY <1>2, <1>3, <1>4, <1>5

-----------------------------------------------------------------------------
(* Borrows and word divisions.                                              *)

\* The weights of the places: p[i] is the word to the power n + 1 - i.
IsPlaces(p, n) ==
    p \in [1..(n + 1) -> Nat] /\ p[n + 1] = 1 /\ \A i \in 1..n : p[i] = Word * p[i + 1]

\* What n limbs stand for is below the weight of the next.
LEMMA PlacesBound ==
    ASSUME NEW n \in Nat
    PROVE  /\ \E p : IsPlaces(p, n)
           /\ \A p, a, A : IsPlaces(p, n) /\ IsLimbs(a) /\ IsTails(A, a, n) => A[1] < p[1]
<1>w. Word \in Nat /\ Word > 1
  BY WordType
<1>1. \E p : IsPlaces(p, n)
  <2> DEFINE step == [i \in 1..n |-> [v \in Nat |-> Word * v]]  o == 1  V == Nat
  <2>1. o \in V /\ \A i \in 1..n, v \in V : step[i][v] \in V /\ step[i][v] = Word * v
    BY <1>w
  <2> HIDE DEF o, V, step
  <2>2. PICK p : IsDownward(p, n, V, o, step)
    BY <2>1, Downward
  <2>3. \A i \in 1..n : i + 1 \in 1..(n + 1)
    OBVIOUS
  <2>4. IsPlaces(p, n)
    BY <2>1, <2>2, <2>3 DEF IsDownward, IsPlaces, o, V
  <2> QED
    BY <2>4
<1>2. ASSUME NEW p, NEW a, NEW A, IsPlaces(p, n), IsLimbs(a), IsTails(A, a, n)
      PROVE  A[1] < p[1]
  <2> DEFINE G == {i \in 1..(n + 1) : A[i] < p[i]}
  <2>1. \A i \in 1..(n + 1) : A[i] \in Nat /\ p[i] \in Nat
    BY <1>2 DEF IsTails, IsPlaces
  <2>2. n + 1 \in G
    BY <1>2 DEF IsTails, IsPlaces
  <2>3. ASSUME NEW i \in 1..n, i + 1 \in G PROVE i \in G
    <3>1. i \in 1..(n + 1) /\ i + 1 \in 1..(n + 1)
      OBVIOUS
    <3> DEFINE xi == Limb(a, i)  u == A[i + 1]  v == p[i + 1]
    <3>2. /\ xi \in 0..(Word - 1) /\ u \in Nat /\ v \in Nat /\ u < v
          /\ A[i] = xi + Word * u /\ p[i] = Word * v
      BY <1>2, <2>1, <2>3, <3>1, LimbType DEF IsTails, IsPlaces
    <3> HIDE DEF xi, u, v
    <3>3. Word * (u + 1) <= Word * v /\ Word * (u + 1) = Word * u + Word
      BY <3>2, <1>w
    <3> DEFINE wu == Word * u  wv == Word * v
    <3>4. wu \in Int /\ wv \in Int /\ wu + Word <= wv /\ A[i] = xi + wu /\ p[i] = wv
      BY <3>2, <3>3, <1>w
    <3> HIDE DEF wu, wv
    <3>5. A[i] < p[i]
      BY <3>2, <3>4, <1>w
    <3> QED
      BY <3>1, <3>5
  <2> HIDE DEF G
  <2>4. 1..(n + 1) \subseteq G
    BY <2>2, <2>3, DownInduction
  <2>5. 1 \in 1..(n + 1)
    OBVIOUS
  <2> QED
    BY <2>4, <2>5 DEF G
<1> QED
  BY <1>1, <1>2

\* The recursion of sub.
IsBorrows(f, a, b) ==
    f = [i \in 0..Len(a) |->
            IF i > 0 /\ a[i] - Limb(b, i) - f[i - 1] < 0 THEN 1 ELSE 0]

\* The borrows exist.
LEMMA BorrowsExist ==
    ASSUME NEW a, IsLimbs(a), NEW b
    PROVE  \E f : IsBorrows(f, a, b)
<1> DEFINE n == Len(a)  V == {0, 1}  o == 0
           step == [i \in 1..n |-> [v \in V |-> IF a[i] - Limb(b, i) - v < 0 THEN 1 ELSE 0]]
<1>1. n \in Nat
  BY LimbType
<1>2. SeqSteps(step, n, V) /\ o \in V
  BY DEF SeqSteps
<1>3. \A i \in 1..n, v \in V : step[i][v] = IF a[i] - Limb(b, i) - v < 0 THEN 1 ELSE 0
  OBVIOUS
<1> HIDE DEF n, V, o, step
<1>4. HasChain(n, V, o, step)
  BY <1>1, <1>2, FoldLeftChain
<1>5. PICK f \in [0..n -> V] : IsChain(f, n, o, step)
  BY <1>4 DEF HasChain
<1>6. ASSUME NEW i \in 0..n
      PROVE  f[i] = IF i > 0 /\ a[i] - Limb(b, i) - f[i - 1] < 0 THEN 1 ELSE 0
  <2>1. CASE i = 0
    BY <1>5, <2>1 DEF IsChain, o
  <2>2. CASE i > 0
    <3>1. i \in 1..n /\ i - 1 \in 0..n
      BY <1>1, <2>2
    <3>2. f[i] = step[i][f[i - 1]] /\ f[i - 1] \in V
      BY <1>5, <3>1 DEF IsChain
    <3> QED
      BY <1>3, <2>2, <3>1, <3>2
  <2> QED
    BY <1>1, <2>1, <2>2
<1>7. f = [i \in 0..n |-> IF i > 0 /\ a[i] - Limb(b, i) - f[i - 1] < 0 THEN 1 ELSE 0]
  BY <1>5, <1>6
<1> QED
  BY <1>7 DEF IsBorrows, n

\* The low word of a difference, and what it borrowed.
LEMMA LowOfDifference ==
    ASSUME NEW d \in Int, -Word <= d, d < Word
    PROVE  LowWord(d) = d + Word * (IF d < 0 THEN 1 ELSE 0) /\ LowWord(d) \in 0..(Word - 1)
<1>w. Word \in Nat /\ Word > 1
  BY WordType
<1>1. CASE d < 0
  <2>1. d + Word \in 0..(Word - 1) /\ -1 \in Int
    BY <1>1, <1>w
  <2> DEFINE s == d + Word
  <2>2. ((-1) * Word + s) % Word = s
    <3> HIDE DEF s
    <3> QED
      BY <1>w, <2>1, QuotientUnique DEF s
  <2>3. (-1) * Word + s = d
    BY <1>w
  <2> QED
    BY <1>1, <1>w, <2>1, <2>2, <2>3 DEF LowWord
<1>2. CASE d >= 0
  <2>1. d % Word = d
    BY <1>2, <1>w
  <2> QED
    BY <1>2, <1>w, <2>1 DEF LowWord
<1> QED
  BY <1>1, <1>2

\* sub is subtraction, where it may be called.
THEOREM BigSubExact ==
    ASSUME NEW a, IsLimbs(a), NEW b, IsLimbs(b), Len(b) <= Len(a), Value(b) <= Value(a)
    PROVE  IsBig(BigSub(a, b)) /\ Value(BigSub(a, b)) = Value(a) - Value(b)
<1>w. Word \in Nat /\ Word > 1
  BY WordType
<1> DEFINE n == Len(a)  f == CHOOSE g : IsBorrows(g, a, b)
           c == [i \in DOMAIN a |-> LowWord(a[i] - Limb(b, i) - f[i - 1])]
<1>1. n \in Nat /\ DOMAIN a = 1..n /\ Len(b) <= n
      /\ \A i \in 1..n : a[i] = Limb(a, i) /\ a[i] \in 0..(Word - 1)
  BY LimbType
<1>2. BigSub(a, b) = Normalized(c)
  BY DEF BigSub, IsBorrows
<1>3. IsBorrows(f, a, b)
  BY BorrowsExist
<1> HIDE DEF f
<1> DEFINE d == [i \in 1..n |-> a[i] - Limb(b, i) - f[i - 1]]
<1>4. /\ f[0] = 0 /\ \A i \in 0..n : f[i] \in {0, 1}
      /\ \A i \in 1..n : f[i] = IF d[i] < 0 THEN 1 ELSE 0
  <2>1. \A i \in 0..n : f[i] = IF i > 0 /\ a[i] - Limb(b, i) - f[i - 1] < 0 THEN 1 ELSE 0
    BY <1>3 DEF IsBorrows
  <2>2. \A i \in 1..n : i \in 0..n /\ i > 0
    BY <1>1
  <2>3. f[0] = 0
    BY <1>1, <2>1
  <2>4. \A i \in 0..n : f[i] \in {0, 1}
    BY <2>1
  <2> QED
    BY <2>1, <2>2, <2>3, <2>4
<1>5. ASSUME NEW i \in 1..n
      PROVE  /\ d[i] \in Int /\ d[i] = Limb(a, i) - Limb(b, i) - f[i - 1]
             /\ c[i] = d[i] + Word * f[i] /\ c[i] \in 0..(Word - 1)
  <2>1. a[i] = Limb(a, i) /\ a[i] \in 0..(Word - 1) /\ Limb(b, i) \in 0..(Word - 1)
        /\ i - 1 \in 0..n
    BY <1>1, LimbType
  <2>2. f[i - 1] \in {0, 1}
    BY <1>4, <2>1
  <2> DEFINE e == d[i]
  <2>3. e \in Int /\ -Word <= e /\ e < Word /\ e = Limb(a, i) - Limb(b, i) - f[i - 1]
    BY <2>1, <2>2, <1>w
  <2>4. c[i] = LowWord(e) /\ f[i] = IF e < 0 THEN 1 ELSE 0
    BY <1>1, <1>4
  <2> HIDE DEF e, c
  <2>5. LowWord(e) = e + Word * (IF e < 0 THEN 1 ELSE 0) /\ LowWord(e) \in 0..(Word - 1)
    BY <2>3, LowOfDifference
  <2> QED
    BY <2>3, <2>4, <2>5 DEF e
<1>6. IsLimbs(c) /\ Len(c) = n /\ \A i \in 1..n : Limb(c, i) = c[i]
  <2> DEFINE V == 0..(Word - 1)
  <2>1. \A i \in 1..n : c[i] \in V
    BY <1>5
  <2>2. c = [i \in 1..n |-> c[i]]
    BY <1>1
  <2> HIDE DEF c, V, n
  <2>3. c \in Seq(V) /\ Len(c) = n
    BY <1>1, <2>1, <2>2
  <2>4. IsLimbs(c)
    BY <2>3 DEF IsLimbs, V
  <2> QED
    BY <2>3, <2>4, LimbType
<1> HIDE DEF c, d, n
<1>7. PICK A : IsTails(A, a, n)
  BY <1>1, TailsExist
<1>8. PICK B : IsTails(B, b, n)
  BY <1>1, TailsExist
<1>9. PICK C : IsTails(C, c, n)
  BY <1>1, <1>6, TailsExist
<1>10. PICK p : IsPlaces(p, n)
  BY <1>1, PlacesBound
<1>11. \A i \in 1..(n + 1) : A[i] \in Nat /\ B[i] \in Nat /\ C[i] \in Nat /\ p[i] \in Nat
  BY <1>7, <1>8, <1>9, <1>10 DEF IsTails, IsPlaces
<1> DEFINE last == f[n]
           G == {i \in 1..(n + 1) : A[i] - B[i] - f[i - 1] = C[i] - last * p[i]}
<1>12. last \in {0, 1}
  BY <1>1, <1>4
<1>13. n + 1 \in G
  <2>1. A[n + 1] = 0 /\ B[n + 1] = 0 /\ C[n + 1] = 0 /\ p[n + 1] = 1
    BY <1>7, <1>8, <1>9, <1>10 DEF IsTails, IsPlaces
  <2>2. (n + 1) - 1 = n /\ n + 1 \in 1..(n + 1)
    BY <1>1
  <2> HIDE DEF last
  <2>3. 0 - 0 - last = 0 - last * 1
    BY <1>12
  <2> QED
    BY <2>1, <2>2, <2>3 DEF last
<1>14. ASSUME NEW i \in 1..n, i + 1 \in G PROVE i \in G
  <2>1. i \in 1..(n + 1) /\ i + 1 \in 1..(n + 1) /\ (i + 1) - 1 = i /\ i \in 0..n /\ i - 1 \in 0..n
    BY <1>1
  <2> DEFINE u == A[i + 1]  v == B[i + 1]  w == C[i + 1]  q == p[i + 1]
             xi == Limb(a, i)  y == Limb(b, i)  g == f[i]  h == f[i - 1]
  <2>2. u \in Int /\ v \in Int /\ w \in Int /\ q \in Int /\ xi \in Int /\ y \in Int
        /\ g \in Int /\ h \in Int /\ last \in Int
    <3>1. xi \in 0..(Word - 1) /\ y \in 0..(Word - 1)
      BY LimbType
    <3>2. g \in {0, 1} /\ h \in {0, 1}
      BY <1>4, <2>1
    <3>3. u \in Nat /\ v \in Nat /\ w \in Nat /\ q \in Nat
      BY <1>11, <2>1
    <3> HIDE DEF u, v, w, q, xi, y, g, h, last, G
    <3>4. xi \in Int /\ y \in Int
      BY <3>1, <1>w
    <3>5. g \in Int /\ h \in Int /\ last \in Int
      BY <1>12, <3>2
    <3> QED
      BY <3>3, <3>4, <3>5
  <2>3. u - v - g = w - last * q
    BY <1>14, <2>1
  <2>4. /\ A[i] = xi + Word * u /\ B[i] = y + Word * v /\ p[i] = Word * q
        /\ C[i] = ((xi - y - h) + Word * g) + Word * w
    <3>1. C[i] = c[i] + Word * w
      BY <1>6, <1>9, <2>1 DEF IsTails
    <3>2. c[i] = (xi - y - h) + Word * g
      BY <1>5
    <3> QED
      BY <1>7, <1>8, <1>10, <3>1, <3>2 DEF IsTails, IsPlaces
  <2> HIDE DEF u, v, w, q, xi, y, g, h, last
  <2>5. Word * (u - v - g) = Word * (w - last * q)
    BY <2>3
  <2>6. Word * (u - v - g) = Word * u - Word * v - Word * g
        /\ Word * (w - last * q) = Word * w - last * (Word * q)
    BY <2>2, <1>w
  <2> DEFINE wu == Word * u  wv == Word * v  wg == Word * g  ww == Word * w
             lq == last * (Word * q)
  <2>7. wu \in Int /\ wv \in Int /\ wg \in Int /\ ww \in Int /\ lq \in Int
        /\ wu - wv - wg = ww - lq
    BY <2>2, <2>5, <2>6, <1>w
  <2>8. A[i] = xi + wu /\ B[i] = y + wv /\ last * p[i] = lq
        /\ C[i] = ((xi - y - h) + wg) + ww
    BY <2>4
  <2> HIDE DEF wu, wv, wg, ww, lq
  <2>9. A[i] - B[i] - h = C[i] - last * p[i]
    BY <2>2, <2>7, <2>8
  <2> QED
    BY <2>1, <2>9 DEF h
<1> HIDE DEF G, last
<1>15. 1..(n + 1) \subseteq G
  BY <1>1, <1>13, <1>14, DownInduction
<1>16. A[1] - B[1] = C[1] - last * p[1]
  <2>1. 1 \in 1..(n + 1) /\ 1 - 1 = 0
    BY <1>1
  <2>2. A[1] - B[1] - f[0] = C[1] - last * p[1]
    BY <1>15, <2>1 DEF G
  <2>3. A[1] - B[1] - 0 = A[1] - B[1]
    BY <1>11, <2>1
  <2> QED
    BY <1>4, <2>2, <2>3
<1>17. Value(a) = A[1] /\ Value(b) = B[1] /\ Value(c) = C[1]
  <2>1. Len(a) <= n /\ Len(c) <= n
    BY <1>1, <1>6 DEF n
  <2> QED
    BY <1>1, <1>6, <1>7, <1>8, <1>9, <2>1, ValueIsTail
<1>18. C[1] < p[1] /\ A[1] \in Nat /\ B[1] \in Nat /\ C[1] \in Nat /\ p[1] \in Nat
  <2>1. 1 \in 1..(n + 1)
    BY <1>1
  <2>2. C[1] < p[1]
    BY <1>1, <1>6, <1>9, <1>10, PlacesBound
  <2> QED
    BY <1>11, <2>1, <2>2
<1>19. last = 0
  <2>1. ASSUME last = 1 PROVE FALSE
    <3>1. A[1] - B[1] = C[1] - p[1]
      BY <1>16, <1>18, <2>1
    <3> QED
      BY <1>17, <1>18, <3>1
  <2> QED
    BY <1>12, <2>1
<1>20. C[1] = A[1] - B[1]
  BY <1>16, <1>18, <1>19
<1> QED
  BY <1>2, <1>6, <1>17, <1>20, NormalizedValue

-----------------------------------------------------------------------------
(* Small numbers.                                                           *)

\* Limbs built place by place.
LEMMA MadeLimbs ==
    ASSUME NEW n \in Nat, NEW c, c = [i \in 1..n |-> c[i]],
           \A i \in 1..n : c[i] \in 0..(Word - 1)
    PROVE  /\ IsLimbs(c) /\ Len(c) = n /\ \A i \in 1..n : Limb(c, i) = c[i]
           /\ Value(c) \in Nat
<1> DEFINE V == 0..(Word - 1)
<1>1. \A i \in 1..n : c[i] \in V
  OBVIOUS
<1> HIDE DEF V
<1>2. c \in Seq(V) /\ Len(c) = n
  BY <1>1
<1>3. IsLimbs(c)
  BY <1>2 DEF IsLimbs, V
<1>4. PICK C : IsTails(C, c, n)
  BY <1>3, TailsExist
<1>5. Len(c) <= n
  BY <1>2
<1> QED
  BY <1>2, <1>3, <1>4, <1>5, LimbType, ValueIsTail

\* Limbs have a value.
LEMMA ValueType ==
    ASSUME NEW a, IsLimbs(a)
    PROVE  Value(a) \in Nat
<1>1. Len(a) \in Nat /\ Len(a) <= Len(a)
  BY LimbType
<1>2. PICK A : IsTails(A, a, Len(a))
  BY <1>1, TailsExist
<1> QED
  BY <1>1, <1>2, ValueIsTail

\* No limbs are zero.
LEMMA EmptyValue == IsBig(<<>>) /\ Value(<<>>) = 0
<1> DEFINE c == <<>>  n == 0
<1>1. IsLimbs(c) /\ Len(c) = n
  BY DEF IsLimbs
<1>2. PICK C : IsTails(C, c, n)
  BY <1>1, TailsExist
<1>3. C[1] = 0
  <2>1. C[n + 1] = 0
    BY <1>2 DEF IsTails
  <2> QED
    BY <2>1
<1>4. n \in Nat /\ Len(c) <= n
  BY <1>1
<1> HIDE DEF n
<1>5. Value(c) = C[1]
  BY <1>1, <1>2, <1>4, ValueIsTail
<1> QED
  BY <1>1, <1>3, <1>5 DEF IsBig

\* One word.
LEMMA FromWordValue ==
    ASSUME NEW w \in 0..(Word - 1)
    PROVE  IsBig(FromWord(w)) /\ Value(FromWord(w)) = w
<1>1. CASE w = 0
  BY <1>1, EmptyValue DEF FromWord
<1>2. CASE w # 0
  <2> DEFINE c == <<w>>  n == 1
  <2>1. FromWord(w) = c
    BY <1>2 DEF FromWord
  <2>2. c = [i \in 1..n |-> c[i]] /\ \A i \in 1..n : c[i] = w
    OBVIOUS
  <2>n. n \in Nat /\ c # <<>>
    OBVIOUS
  <2> HIDE DEF c, n
  <2>3. IsLimbs(c) /\ Len(c) = n /\ \A i \in 1..n : Limb(c, i) = c[i]
    BY <2>2, <2>n, MadeLimbs
  <2>4. PICK C : IsTails(C, c, n)
    BY <2>3, <2>n, TailsExist
  <2>5. Value(c) = C[1]
    BY <2>3, <2>4, <2>n, ValueIsTail
  <2>6. n \in 1..n
    BY DEF n
  <2>7. C[1] = w
    <3>1. C[n] = Limb(c, n) + Word * C[n + 1] /\ C[n + 1] = 0
      BY <2>4, <2>6 DEF IsTails
    <3>2. Word * 0 = 0 /\ w + 0 = w
      BY WordType
    <3>3. Limb(c, n) = w
      BY <2>2, <2>3, <2>6
    <3> QED
      BY <3>1, <3>2, <3>3 DEF n
  <2>8. c[Len(c)] # 0
    BY <1>2, <2>2, <2>3, <2>6
  <2> QED
    BY <2>1, <2>3, <2>5, <2>7, <2>8 DEF IsBig
<1> QED
  BY <1>1, <1>2

-----------------------------------------------------------------------------
(* Division by a word.                                                      *)

\* The recursion of divmod_u64.
IsRemainders(f, a, d) ==
    f = [i \in 1..(Len(a) + 1) |->
            IF i = Len(a) + 1 THEN 0 ELSE (f[i + 1] * Word + a[i]) % d]

\* The remainders exist, and are remainders.
LEMMA RemaindersExist ==
    ASSUME NEW a, IsLimbs(a), NEW d \in 1..(Word - 1)
    PROVE  /\ \E f : IsRemainders(f, a, d)
           /\ \A f : IsRemainders(f, a, d) => \A i \in 1..(Len(a) + 1) : f[i] \in 0..(d - 1)
<1> DEFINE n == Len(a)  V == 0..(d - 1)  o == 0
           step == [i \in 1..n |-> [v \in V |-> (v * Word + a[i]) % d]]
<1>w. Word \in Nat /\ Word > 1 /\ d \in Nat /\ d > 0
  BY WordType
<1>1. n \in Nat /\ \A i \in 1..n : a[i] \in Nat
  <2>1. n \in Nat /\ \A i \in 1..n : a[i] \in 0..(Word - 1)
    BY LimbType
  <2> QED
    BY <2>1, <1>w
<1>r. \A v \in Int : v % d \in V
  BY <1>w, Quotient
<1>2. \A i \in 1..n, v \in V : step[i][v] = (v * Word + a[i]) % d /\ step[i][v] \in V
  <2> TAKE i \in 1..n, v \in V
  <2>1. v * Word + a[i] \in Int
    BY <1>1, <1>w
  <2> HIDE DEF V
  <2>2. step[i][v] = (v * Word + a[i]) % d
    OBVIOUS
  <2> HIDE DEF step
  <2> QED
    BY <1>r, <2>1, <2>2
<1>3. o \in V
  BY <1>w
<1> HIDE DEF V, o, step, n
<1>4. PICK f : IsDownward(f, n, V, o, step)
  BY <1>1, <1>2, <1>3, Downward
<1>5. \A i \in 1..(n + 1) : f[i] = IF i = n + 1 THEN 0 ELSE (f[i + 1] * Word + a[i]) % d
  <2> TAKE i \in 1..(n + 1)
  <2>1. CASE i = n + 1
    BY <1>4, <2>1 DEF IsDownward, o
  <2>2. CASE i # n + 1
    <3>1. i \in 1..n /\ i + 1 \in 1..(n + 1)
      BY <1>1, <2>2
    <3>2. f[i] = step[i][f[i + 1]] /\ f[i + 1] \in V
      BY <1>4, <3>1 DEF IsDownward
    <3> QED
      BY <1>2, <2>2, <3>1, <3>2
  <2> QED
    BY <2>1, <2>2
<1>6. \E g : IsRemainders(g, a, d)
  <2>1. f = [i \in 1..(n + 1) |-> IF i = n + 1 THEN 0 ELSE (f[i + 1] * Word + a[i]) % d]
    BY <1>4, <1>5 DEF IsDownward
  <2> QED
    BY <2>1 DEF IsRemainders, n
<1>7. ASSUME NEW g, IsRemainders(g, a, d), NEW k \in 1..(n + 1)
      PROVE  g[k] \in V
  <2> DEFINE G == {i \in 1..(n + 1) : g[i] \in V}
  <2>1. \A i \in 1..(n + 1) : g[i] = IF i = n + 1 THEN 0 ELSE (g[i + 1] * Word + a[i]) % d
    BY <1>7 DEF IsRemainders, n
  <2>2. n + 1 \in G
    BY <1>1, <1>3, <2>1 DEF o
  <2>3. ASSUME NEW i \in 1..n, i + 1 \in G PROVE i \in G
    <3>1. i \in 1..(n + 1) /\ i # n + 1
      BY <1>1
    <3>2. g[i] = (g[i + 1] * Word + a[i]) % d
      BY <2>1, <3>1
    <3>3. g[i + 1] * Word + a[i] \in Int
      <4>1. g[i + 1] \in Nat
        BY <2>3 DEF V
      <4> QED
        BY <4>1, <1>1, <1>w
    <3> QED
      BY <1>r, <3>1, <3>2, <3>3
  <2> HIDE DEF G
  <2>4. 1..(n + 1) \subseteq G
    BY <1>1, <2>2, <2>3, DownInduction
  <2> QED
    BY <2>4 DEF G
<1> QED
  BY <1>6, <1>7 DEF V, n

\* One place of a long division.
LEMMA PlaceQuotient ==
    ASSUME NEW d \in 1..(Word - 1), NEW r \in 0..(d - 1), NEW xi \in 0..(Word - 1)
    PROVE  /\ (r * Word + xi) \div d \in 0..(Word - 1)
           /\ (r * Word + xi) % d \in 0..(d - 1)
           /\ r * Word + xi = d * ((r * Word + xi) \div d) + ((r * Word + xi) % d)
<1>w. Word \in Nat /\ Word > 1 /\ d \in Nat /\ d > 0 /\ r \in Nat /\ xi \in Nat
  BY WordType
<1> DEFINE y == r * Word + xi
<1>1. y \in Nat
  BY <1>w
<1>2. y < d * Word
  <2>1. (r + 1) * Word <= d * Word /\ (r + 1) * Word = r * Word + Word
    BY <1>w
  <2> DEFINE rw == r * Word  dw == d * Word
  <2>2. rw \in Int /\ dw \in Int /\ rw + Word <= dw /\ y = rw + xi
    BY <1>w, <2>1
  <2> HIDE DEF rw, dw, y
  <2>3. y < dw
    BY <2>2, <1>w
  <2> QED
    BY <2>3 DEF dw
<1> HIDE DEF y
<1>3. y \div d \in Nat /\ y % d \in 0..(d - 1) /\ y = (y \div d) * d + (y % d)
  BY <1>1, <1>w, WordQuotient
<1> DEFINE q == y \div d  s == y % d
<1>4. q \in Nat /\ s \in Nat /\ y = q * d + s
  BY <1>3
<1> HIDE DEF q, s
<1>5. q < Word
  <2>1. SUFFICES ASSUME q >= Word PROVE FALSE
    BY <1>4, <1>w
  <2>2. q * d >= Word * d /\ Word * d = d * Word
    BY <1>4, <1>w, <2>1
  <2> QED
    BY <1>1, <1>2, <1>4, <1>w, <2>2
<1>6. d * q = q * d
  BY <1>4, <1>w
<1>7. q \in 0..(Word - 1)
  BY <1>4, <1>5, <1>w
<1> QED
  BY <1>3, <1>4, <1>6, <1>7 DEF q, s, y

\* divmod_u64 is division with remainder.
THEOREM DivmodWordExact ==
    ASSUME NEW a, IsLimbs(a), NEW d \in 1..(Word - 1)
    PROVE  /\ IsBig(DivmodWord(a, d).quotient) /\ IsBig(DivmodWord(a, d).remainder)
           /\ Value(DivmodWord(a, d).quotient) = Value(a) \div d
           /\ Value(DivmodWord(a, d).remainder) = Value(a) % d
<1>w. Word \in Nat /\ Word > 1 /\ d \in Nat /\ d > 0
  BY WordType
<1> DEFINE n == Len(a)  f == CHOOSE g : IsRemainders(g, a, d)
           c == [i \in DOMAIN a |-> (f[i + 1] * Word + a[i]) \div d]
<1>1. n \in Nat /\ DOMAIN a = 1..n
      /\ \A i \in 1..n : a[i] = Limb(a, i) /\ a[i] \in 0..(Word - 1)
  BY LimbType
<1>2. DivmodWord(a, d) = [quotient |-> Normalized(c), remainder |-> FromWord(f[1])]
  BY DEF DivmodWord, IsRemainders
<1>3. IsRemainders(f, a, d) /\ \A i \in 1..(n + 1) : f[i] \in 0..(d - 1)
  BY RemaindersExist
<1> HIDE DEF f
<1>4. ASSUME NEW i \in 1..n
      PROVE  /\ c[i] \in 0..(Word - 1)
             /\ f[i + 1] * Word + Limb(a, i) = d * c[i] + f[i]
  <2>1. i + 1 \in 1..(n + 1) /\ i \in 1..(n + 1) /\ i # n + 1
    BY <1>1
  <2> DEFINE r == f[i + 1]  xi == a[i]
  <2>2. r \in 0..(d - 1) /\ xi \in 0..(Word - 1)
    BY <1>1, <1>3, <2>1
  <2>3. f[i] = (r * Word + xi) % d
    BY <1>3, <2>1 DEF IsRemainders
  <2>4. c[i] = (r * Word + xi) \div d /\ xi = Limb(a, i)
    BY <1>1
  <2> HIDE DEF r, xi, c
  <2>5. /\ (r * Word + xi) \div d \in 0..(Word - 1)
        /\ r * Word + xi = d * ((r * Word + xi) \div d) + ((r * Word + xi) % d)
    BY <2>2, PlaceQuotient
  <2> QED
    BY <2>3, <2>4, <2>5 DEF r
<1>5. c = [i \in 1..n |-> c[i]]
  BY <1>1
<1> HIDE DEF c
<1>6. IsLimbs(c) /\ Len(c) = n /\ \A i \in 1..n : Limb(c, i) = c[i]
  <2> HIDE DEF n
  <2> QED
    BY <1>1, <1>4, <1>5, MadeLimbs
<1> HIDE DEF n
<1>7. PICK A : IsTails(A, a, n)
  BY <1>1, TailsExist
<1>8. PICK C : IsTails(C, c, n)
  BY <1>1, <1>6, TailsExist
<1>9. \A i \in 1..(n + 1) : A[i] \in Nat /\ C[i] \in Nat /\ f[i] \in Nat
  BY <1>3, <1>7, <1>8, <1>w DEF IsTails
<1> DEFINE G == {i \in 1..(n + 1) : A[i] = d * C[i] + f[i]}
<1>10. n + 1 \in G
  <2>1. A[n + 1] = 0 /\ C[n + 1] = 0 /\ n + 1 \in 1..(n + 1)
    BY <1>1, <1>7, <1>8 DEF IsTails
  <2>2. f[n + 1] = 0
    BY <1>3, <2>1 DEF IsRemainders, n
  <2>3. d * 0 + 0 = 0
    BY <1>w
  <2> QED
    BY <2>1, <2>2, <2>3
<1>11. ASSUME NEW i \in 1..n, i + 1 \in G PROVE i \in G
  <2>1. i \in 1..(n + 1) /\ i + 1 \in 1..(n + 1)
    BY <1>1
  <2> DEFINE u == A[i + 1]  v == C[i + 1]  r == f[i + 1]  s == f[i]  xi == Limb(a, i)  y == c[i]
  <2>2. u \in Nat /\ v \in Nat /\ r \in Nat /\ s \in Nat /\ xi \in Nat /\ y \in Nat
    <3>1. xi \in 0..(Word - 1) /\ y \in 0..(Word - 1)
      BY <1>4, LimbType
    <3> QED
      BY <1>9, <2>1, <3>1, <1>w
  <2>3. u = d * v + r /\ r * Word + xi = d * y + s
    BY <1>4, <1>11
  <2>4. A[i] = xi + Word * u /\ C[i] = y + Word * v
    BY <1>6, <1>7, <1>8 DEF IsTails
  <2> HIDE DEF u, v, r, s, xi, y
  <2>5. Word * u = d * (Word * v) + r * Word
    BY <2>2, <2>3, <1>w
  <2>6. d * (y + Word * v) = d * y + d * (Word * v)
    BY <2>2, <1>w
  <2> DEFINE wu == Word * u  dwv == d * (Word * v)  rw == r * Word  dy == d * y
  <2>7. wu \in Int /\ dwv \in Int /\ rw \in Int /\ dy \in Int
        /\ wu = dwv + rw /\ rw + xi = dy + s /\ d * C[i] = dy + dwv /\ A[i] = xi + wu
    BY <2>2, <2>3, <2>4, <2>5, <2>6, <1>w
  <2> DEFINE ai == A[i]  dc == d * C[i]
  <2>9. wu \in Int /\ dwv \in Int /\ rw \in Int /\ dy \in Int /\ xi \in Int /\ s \in Int
        /\ wu = dwv + rw /\ rw + xi = dy + s /\ dc = dy + dwv /\ ai = xi + wu
    BY <2>2, <2>7
  <2> HIDE DEF wu, dwv, rw, dy, ai, dc
  <2>10. ai = dc + s
    BY <2>9
  <2>8. A[i] = d * C[i] + s
    BY <2>10 DEF ai, dc
  <2> QED
    BY <2>1, <2>8 DEF s
<1> HIDE DEF G
<1>12. 1..(n + 1) \subseteq G
  BY <1>1, <1>10, <1>11, DownInduction
<1>13. A[1] = d * C[1] + f[1] /\ f[1] \in 0..(d - 1) /\ C[1] \in Nat
  <2>1. 1 \in 1..(n + 1)
    BY <1>1
  <2> QED
    BY <1>3, <1>8, <1>12, <2>1 DEF G, IsTails
<1>14. Value(a) = A[1] /\ Value(c) = C[1]
  <2>1. Len(a) <= n /\ Len(c) <= n
    BY <1>1, <1>6 DEF n
  <2> QED
    BY <1>1, <1>6, <1>7, <1>8, <2>1, ValueIsTail
<1>15. A[1] \div d = C[1] /\ A[1] % d = f[1]
  <2> DEFINE q == C[1]  s == f[1]
  <2>1. q \in Nat /\ s \in 0..(d - 1)
    BY <1>13
  <2>2. A[1] = q * d + s
    <3>1. d * q = q * d
      BY <2>1, <1>w
    <3> QED
      BY <1>13, <3>1
  <2> HIDE DEF q, s
  <2>3. (q * d + s) \div d = q /\ (q * d + s) % d = s
    BY <2>1, <1>w, WordQuotientUnique
  <2> QED
    BY <2>2, <2>3 DEF q, s
<1>16. IsBig(FromWord(f[1])) /\ Value(FromWord(f[1])) = f[1]
  <2> DEFINE s == f[1]
  <2>1. s \in 0..(Word - 1)
    BY <1>13, <1>w
  <2> HIDE DEF s
  <2>2. IsBig(FromWord(s)) /\ Value(FromWord(s)) = s
    BY <2>1, FromWordValue
  <2> QED
    BY <2>2 DEF s
<1>17. IsBig(Normalized(c)) /\ Value(Normalized(c)) = Value(c)
  BY <1>6, NormalizedValue
<1> QED
  BY <1>2, <1>14, <1>15, <1>16, <1>17

-----------------------------------------------------------------------------
(* Doubling.                                                                *)

\* The bit a limb hands on when it is doubled.
TopBit(a, i) == Limb(a, i) \div MontgomeryMax

\* A doubled limb: its low word, and the bit above it.
LEMMA DoubledLimb ==
    ASSUME NEW a, IsLimbs(a), NEW i
    PROVE  /\ TopBit(a, i) \in {0, 1} /\ (Limb(a, i) = 0 => TopBit(a, i) = 0)
           /\ LowWord(Limb(a, i) * 2) = 2 * Limb(a, i) - Word * TopBit(a, i)
           /\ LowWord(Limb(a, i) * 2) \in 0..(Word - 2)
<1>w. Word \in Nat /\ Word > 1 /\ MontgomeryMax \in Nat /\ Word = 2 * MontgomeryMax
      /\ MontgomeryMax > 0
  BY WordType, MontgomeryModulus
<1> DEFINE xi == Limb(a, i)  h == MontgomeryMax  t == TopBit(a, i)
<1>1. xi \in 0..(Word - 1)
  BY LimbType
<1>2. t = xi \div h
  BY DEF TopBit
<1> HIDE DEF xi, h, t
<1>h. h \in Nat /\ h > 0 /\ Word = 2 * h
  BY <1>w DEF h
<1>3. CASE xi < h
  <2>1. (0 * h + xi) \div h = 0
    BY <1>1, <1>3, <1>h, WordQuotientUnique
  <2>2. t = 0
    BY <1>1, <1>2, <1>h, <2>1
  <2> DEFINE y == xi * 2
  <2>3. y \in 0..(Word - 2) /\ y = 2 * xi
    BY <1>1, <1>3, <1>h
  <2> HIDE DEF y
  <2>4. y % Word = y
    BY <2>3, <1>w
  <2> QED
    BY <1>1, <1>w, <2>2, <2>3, <2>4 DEF LowWord, xi, t, y
<1>4. CASE xi >= h
  <2> DEFINE z == xi - h  k == 1
  <2>1. z \in 0..(h - 1) /\ k \in Nat /\ xi = k * h + z
    BY <1>1, <1>4, <1>h
  <2> HIDE DEF z
  <2>2. t = 1
    <3> HIDE DEF k
    <3>1. (k * h + z) \div h = k
      BY <1>h, <2>1, WordQuotientUnique
    <3> QED
      BY <1>2, <2>1, <3>1 DEF k
  <2> DEFINE y == 2 * xi - Word
  <2>3. y \in 0..(Word - 2) /\ xi * 2 = k * Word + y /\ y \in 0..(Word - 1)
    BY <1>1, <1>4, <1>h
  <2> HIDE DEF y, k
  <2>4. (k * Word + y) % Word = y
    <3>1. k \in Nat /\ Word \in Nat /\ y \in 0..(Word - 1)
      BY <2>1, <2>3, <1>w
    <3> QED
      BY <3>1, WordQuotientUnique
  <2>5. LowWord(xi * 2) = y
    BY <2>3, <2>4 DEF LowWord
  <2>6. y = 2 * xi - Word * t
    BY <2>2, <1>w, <1>1 DEF y
  <2>7. xi # 0
    BY <1>4, <1>h
  <2> QED
    BY <2>2, <2>3, <2>5, <2>6, <2>7 DEF xi, t
<1> QED
  BY <1>1, <1>h, <1>3, <1>4

\* shl by one bit doubles.
LEMMA ShlDoubles ==
    ASSUME NEW a, IsBig(a)
    PROVE  IsBig(Shl(a, 1)) /\ Value(Shl(a, 1)) = 2 * Value(a)
<1>w. Word \in Nat /\ Word > 1
  BY WordType
<1>a. IsLimbs(a) /\ Len(a) \in Nat
  BY LimbType DEF IsBig
<1>1. CASE a = <<>>
  <2>1. Shl(a, 1) = a
    BY <1>1 DEF Shl
  <2> QED
    BY <1>1, <2>1, EmptyValue
<1>2. CASE a # <<>>
  <2> DEFINE n == Len(a) + 1
             c == [i \in 1..n |-> LowWord(Limb(a, i) * 2) + TopBit(a, i - 1)]
  <2>1. n \in Nat /\ Len(a) <= n
    BY <1>a
  <2>2. Shl(a, 1) = Normalized(c)
    <3>1. 1 % WordBits = 1 /\ 1 \div WordBits = 0
      <4> DEFINE k == 0  s == 1
      <4>1. k \in Nat /\ WordBits \in Nat /\ s \in 0..(WordBits - 1) /\ k * WordBits + s = 1
        BY WordBitsAssumption
      <4> HIDE DEF k, s
      <4>2. (k * WordBits + s) \div WordBits = k /\ (k * WordBits + s) % WordBits = s
        BY <4>1, WordQuotientUnique
      <4> QED
        BY <4>1, <4>2 DEF k, s
    <3>2. 2^(1 % WordBits) = 2
      <4>1. 2^(0 + 1) = 2 * 2^0 /\ 2^0 = 1
        BY PowerDoubles
      <4>2. 0 + 1 = 1 /\ 2 * 1 = 2
        OBVIOUS
      <4>3. 2^1 = 2
        BY <4>1, <4>2
      <4> QED
        BY <3>1, <4>3
    <3>3. 2^(WordBits - (1 % WordBits)) = MontgomeryMax
      BY <3>1 DEF MontgomeryMax
    <3> DEFINE z == [i \in 1..(1 \div WordBits) |-> 0]
               s == [i \in 1..(Len(a) + 1) |->
                       LowWord(Limb(a, i) * 2^(1 % WordBits))
                           + Limb(a, i - 1) \div 2^(WordBits - (1 % WordBits))]
    <3>4. Shl(a, 1) = Normalized(z \o s)
      BY <1>2 DEF Shl
    <3>5. s = c
      BY <3>2, <3>3 DEF TopBit
    <3>6. z = <<>>
      BY <3>1
    <3>7. c \in Seq(Nat)
      <4>1. \A i \in 1..n : c[i] \in Nat
        <5> TAKE i \in 1..n
        <5>1. LowWord(Limb(a, i) * 2) \in 0..(Word - 2) /\ TopBit(a, i - 1) \in {0, 1}
          BY <1>a, DoubledLimb
        <5>2. c[i] = LowWord(Limb(a, i) * 2) + TopBit(a, i - 1)
          OBVIOUS
        <5> QED
          BY <5>1, <5>2, <1>w
      <4>2. c = [i \in 1..n |-> c[i]]
        OBVIOUS
      <4> HIDE DEF c, n
      <4> QED
        BY <2>1, <4>1, <4>2
    <3> HIDE DEF c
    <3>8. <<>> \o c = c
      BY <3>7
    <3> QED
      BY <3>4, <3>5, <3>6, <3>8
  <2>3. c = [i \in 1..n |-> c[i]]
    OBVIOUS
  <2>4. ASSUME NEW i \in 1..n
        PROVE  /\ c[i] \in 0..(Word - 1)
               /\ c[i] = 2 * Limb(a, i) - Word * TopBit(a, i) + TopBit(a, i - 1)
    <3> DEFINE l == LowWord(Limb(a, i) * 2)  t == TopBit(a, i - 1)
    <3>1. l \in 0..(Word - 2) /\ l = 2 * Limb(a, i) - Word * TopBit(a, i)
      BY <1>a, DoubledLimb
    <3>2. t \in {0, 1}
      BY <1>a, DoubledLimb
    <3>3. c[i] = l + t
      OBVIOUS
    <3> HIDE DEF l, t, c
    <3>4. l + t \in 0..(Word - 1)
      BY <3>1, <3>2, <1>w
    <3> QED
      BY <3>1, <3>3, <3>4 DEF t
  <2> HIDE DEF c, n
  <2>5. IsLimbs(c) /\ Len(c) = n /\ \A i \in 1..n : Limb(c, i) = c[i]
    BY <2>1, <2>3, <2>4, MadeLimbs
  <2>6. PICK A : IsTails(A, a, n)
    BY <1>a, <2>1, TailsExist
  <2>7. PICK C : IsTails(C, c, n)
    BY <2>1, <2>5, TailsExist
  <2>8. \A i \in 1..(n + 1) : A[i] \in Nat /\ C[i] \in Nat
    BY <2>6, <2>7 DEF IsTails
  <2> DEFINE G == {i \in 1..(n + 1) : C[i] = 2 * A[i] + TopBit(a, i - 1)}
  <2>9. n + 1 \in G
    <3>1. A[n + 1] = 0 /\ C[n + 1] = 0 /\ n + 1 \in 1..(n + 1) /\ (n + 1) - 1 = n
      BY <2>1, <2>6, <2>7 DEF IsTails
    <3>2. Limb(a, n) = 0
      <4>1. n \in Int /\ n > Len(a)
        BY <1>a DEF n
      <4> QED
        BY <1>a, <4>1, LimbType
    <3>3. TopBit(a, n) = 0
      BY <1>a, <3>2, DoubledLimb
    <3> QED
      BY <3>1, <3>3
  <2>10. ASSUME NEW i \in 1..n, i + 1 \in G PROVE i \in G
    <3>1. i \in 1..(n + 1) /\ i + 1 \in 1..(n + 1) /\ (i + 1) - 1 = i
      BY <2>1
    <3> DEFINE u == A[i + 1]  v == C[i + 1]  xi == Limb(a, i)  s == TopBit(a, i)
               t == TopBit(a, i - 1)
    <3>2. u \in Nat /\ v \in Nat /\ xi \in Nat /\ s \in Nat /\ t \in Nat
      <4>1. xi \in 0..(Word - 1) /\ s \in {0, 1} /\ t \in {0, 1}
        BY <1>a, LimbType, DoubledLimb
      <4> QED
        BY <2>8, <3>1, <4>1, <1>w
    <3>3. v = 2 * u + s
      BY <2>10, <3>1
    <3>4. A[i] = xi + Word * u /\ C[i] = (2 * xi - Word * s + t) + Word * v
      <4>1. A[i] = xi + Word * u /\ C[i] = c[i] + Word * v
        BY <2>5, <2>6, <2>7 DEF IsTails
      <4>2. c[i] = 2 * xi - Word * s + t
        BY <2>4
      <4> QED
        BY <4>1, <4>2
    <3> HIDE DEF u, v, xi, s, t
    <3>5. Word * (2 * u + s) = 2 * (Word * u) + Word * s
      BY <3>2, <1>w
    <3> DEFINE wu == Word * u  ws == Word * s  wv == Word * v
    <3>6. wu \in Int /\ ws \in Int /\ wv \in Int /\ wv = 2 * wu + ws
          /\ A[i] = xi + wu /\ C[i] = (2 * xi - ws + t) + wv
      BY <3>2, <3>3, <3>4, <3>5, <1>w
    <3> HIDE DEF wu, ws, wv
    <3>7. C[i] = 2 * A[i] + t
      BY <3>2, <3>6
    <3> QED
      BY <3>1, <3>7 DEF t
  <2> HIDE DEF G
  <2>11. 1..(n + 1) \subseteq G
    BY <2>1, <2>9, <2>10, DownInduction
  <2>12. C[1] = 2 * A[1] + TopBit(a, 0) /\ A[1] \in Nat
    <3>1. 1 \in 1..(n + 1) /\ 1 - 1 = 0
      BY <2>1
    <3> QED
      BY <2>8, <2>11, <3>1 DEF G
  <2>13. TopBit(a, 0) = 0
    <3>1. Limb(a, 0) = 0
      <4>1. DOMAIN a = 1..Len(a)
        BY <1>a, LimbType
      <4>2. 0 \notin 1..Len(a)
        BY <1>a
      <4> QED
        BY <4>1, <4>2 DEF Limb
    <3> QED
      BY <1>a, <3>1, DoubledLimb
  <2>14. Value(a) = A[1] /\ Value(c) = C[1]
    <3>1. Len(c) <= n
      BY <2>1, <2>5
    <3> QED
      BY <1>a, <2>1, <2>5, <2>6, <2>7, <3>1, ValueIsTail
  <2>15. Value(c) = 2 * Value(a)
    BY <2>12, <2>13, <2>14
  <2> QED
    BY <2>2, <2>5, <2>15, NormalizedValue
<1> QED
  BY <1>1, <1>2

-----------------------------------------------------------------------------
(* The bits of a number.                                                    *)

\* q is v without what p counts.
IsSplit(v, p, q) == \E low \in 0..(p - 1) : v = q * p + low

\* Splitting twice.
LEMMA SplitTwice ==
    ASSUME NEW v \in Nat, NEW p \in Nat, NEW q \in Nat, NEW w \in Nat, NEW u \in Nat,
           p > 0, w > 0, IsSplit(v, p, q), IsSplit(q, w, u)
    PROVE  IsSplit(v, p * w, u)
<1>1. PICK l \in 0..(p - 1) : v = q * p + l
  BY DEF IsSplit
<1>2. PICK k \in 0..(w - 1) : q = u * w + k
  BY DEF IsSplit
<1> DEFINE low == k * p + l
<1>3. q * p = u * (p * w) + k * p
  <2>1. (u * w + k) * p = u * (p * w) + k * p
    BY <1>2
  <2> QED
    BY <1>2, <2>1
<1> DEFINE kp == k * p  upw == u * (p * w)  pw == p * w
<1>4. kp \in Nat /\ upw \in Nat /\ pw \in Nat
  BY <1>2
<1>5. kp + p <= pw
  <2>1. (k + 1) * p <= w * p
    BY <1>2
  <2>2. (k + 1) * p = k * p + p /\ w * p = p * w
    BY <1>2
  <2> QED
    BY <2>1, <2>2
<1>6. v = upw + low /\ low = kp + l
  BY <1>1, <1>3, <1>4
<1> HIDE DEF kp, upw, pw, low
<1>7. low \in 0..(pw - 1)
  BY <1>1, <1>4, <1>5, <1>6
<1> QED
  BY <1>6, <1>7 DEF IsSplit, upw, pw

\* There is one split.
LEMMA SplitIsQuotient ==
    ASSUME NEW v \in Nat, NEW p \in Nat, NEW q \in Nat, p > 0, IsSplit(v, p, q)
    PROVE  v \div p = q
<1>1. PICK l \in 0..(p - 1) : v = q * p + l
  BY DEF IsSplit
<1>2. (q * p + l) \div p = q
  BY WordQuotientUnique
<1> QED
  BY <1>1, <1>2

\* Every number has one.
LEMMA QuotientIsSplit ==
    ASSUME NEW v \in Nat, NEW p \in Nat, p > 0
    PROVE  v \div p \in Nat /\ IsSplit(v, p, v \div p)
BY WordQuotient DEF IsSplit

\* Tails are splits at the limbs.
LEMMA TailsSplit ==
    ASSUME NEW a, IsLimbs(a), NEW n \in Nat, NEW A, IsTails(A, a, n), NEW k \in 0..n
    PROVE  IsSplit(A[1], 2^(k * WordBits), A[k + 1])
<1> DEFINE G == {j \in Nat : j <= n => IsSplit(A[1], 2^(j * WordBits), A[j + 1])}
<1>w. Word \in Nat /\ Word > 0 /\ WordBits \in Nat
  BY WordType, WordBitsAssumption
<1>t. \A i \in 1..(n + 1) : A[i] \in Nat
  BY DEF IsTails
<1>1. 0 \in G
  <2>1. 0 * WordBits = 0 /\ 0 + 1 = 1
    BY <1>w
  <2>2. 2^0 = 1
    BY PowerDoubles
  <2>3. A[1] \in Nat
    BY <1>t
  <2> DEFINE v == A[1]
  <2>4. v = v * 1 + 0 /\ 0 \in 0..(1 - 1)
    BY <2>3
  <2>5. IsSplit(v, 1, v)
    BY <2>4 DEF IsSplit
  <2> QED
    BY <2>1, <2>2, <2>5
<1>2. ASSUME NEW j \in Nat, j \in G PROVE j + 1 \in G
  <2> SUFFICES ASSUME j + 1 <= n PROVE IsSplit(A[1], 2^((j + 1) * WordBits), A[(j + 1) + 1])
    OBVIOUS
  <2> DEFINE v == A[1]  q == A[j + 1]  u == A[(j + 1) + 1]  p == 2^(j * WordBits)
  <2>1. v \in Nat /\ q \in Nat /\ u \in Nat /\ j + 1 \in 1..n
    BY <1>t
  <2>2. p \in Nat /\ p > 0
    BY <1>w, PowerDoubles
  <2>3. 2^((j + 1) * WordBits) = p * Word
    <3>1. j * WordBits \in Nat /\ (j + 1) * WordBits = j * WordBits + WordBits
      BY <1>w
    <3> QED
      BY <1>w, <3>1, PowerAdds DEF Word
  <2>4. IsSplit(v, p, q)
    BY <1>2
  <2>5. IsSplit(q, Word, u)
    <3> DEFINE l == Limb(a, j + 1)
    <3>1. q = l + Word * u
      BY <2>1 DEF IsTails
    <3>2. l \in 0..(Word - 1)
      BY LimbType
    <3> HIDE DEF q, u, l
    <3>3. q = u * Word + l
      BY <1>w, <2>1, <3>1, <3>2
    <3> QED
      BY <3>2, <3>3 DEF IsSplit
  <2> HIDE DEF v, q, u, p
  <2>6. IsSplit(v, p * Word, u)
    BY <1>w, <2>1, <2>2, <2>4, <2>5, SplitTwice
  <2> QED
    BY <2>3, <2>6 DEF v, u
<1> HIDE DEF G
<1>3. Nat \subseteq G
  BY <1>1, <1>2, InductionSet
<1> QED
  BY <1>3 DEF G

\* What is left of a number above a bit.
Above(a, bit) == Value(a) \div 2^bit

\* A bit's place: its limb, and its power in it.
LEMMA BitPlace ==
    ASSUME NEW bit \in Nat
    PROVE  /\ bit \div WordBits \in Nat /\ bit % WordBits \in 0..(WordBits - 1)
           /\ bit = (bit \div WordBits) * WordBits + (bit % WordBits)
           /\ 2^bit = 2^((bit \div WordBits) * WordBits) * 2^(bit % WordBits)
           /\ 2^(bit % WordBits) \in Nat /\ 2^(bit % WordBits) > 0
           /\ 2^((bit \div WordBits) * WordBits) \in Nat
           /\ 2^((bit \div WordBits) * WordBits) > 0
<1> DEFINE k == bit \div WordBits  s == bit % WordBits
<1>1. k \in Nat /\ s \in 0..(WordBits - 1) /\ bit = k * WordBits + s /\ WordBits \in Nat
  BY WordBitsAssumption, WordQuotient
<1> HIDE DEF k, s
<1>2. k * WordBits \in Nat /\ s \in Nat
  BY <1>1
<1>3. 2^bit = 2^(k * WordBits) * 2^s
  BY <1>1, <1>2, PowerAdds
<1>4. 2^s \in Nat /\ 2^s > 0 /\ 2^(k * WordBits) \in Nat /\ 2^(k * WordBits) > 0
  BY <1>2, PowerDoubles
<1> QED
  BY <1>1, <1>3, <1>4 DEF k, s

\* bit reads the number's bits.
LEMMA BitAtExact ==
    ASSUME NEW a, IsLimbs(a), NEW bit \in Nat
    PROVE  /\ Above(a, bit) \in Nat /\ BitAt(a, bit) \in {0, 1}
           /\ Above(a, bit) = 2 * Above(a, bit + 1) + BitAt(a, bit)
<1>w. Word \in Nat /\ Word > 0 /\ WordBits \in Nat /\ WordBits > 1
  BY WordType, WordBitsAssumption
<1> DEFINE k == bit \div WordBits  s == bit % WordBits  n == Len(a) + (k + 1)
           p == 2^(k * WordBits)  r == 2^s
<1>1. k \in Nat /\ s \in 0..(WordBits - 1) /\ 2^bit = p * r
      /\ r \in Nat /\ r > 0 /\ p \in Nat /\ p > 0
  BY BitPlace
<1> HIDE DEF k, s
<1>2. n \in Nat /\ Len(a) <= n /\ k \in 0..n /\ k + 1 \in 1..n
  <2>1. Len(a) \in Nat
    BY LimbType
  <2> QED
    BY <1>1, <2>1
<1>3. BitAt(a, bit) = (Limb(a, k + 1) \div r) % 2
  BY DEF BitAt, k, s
<1> HIDE DEF n, p
<1>4. PICK A : IsTails(A, a, n)
  BY <1>2, TailsExist
<1> DEFINE v == Value(a)  q == A[k + 1]  u == A[(k + 1) + 1]  l == Limb(a, k + 1)
           e == l \div r  m == 2^(WordBits - (s + 1))
<1>5. v \in Nat /\ q \in Nat /\ u \in Nat /\ IsSplit(v, p, q)
  <2>1. v = A[1] /\ v \in Nat
    BY <1>2, <1>4, ValueIsTail
  <2>2. IsSplit(A[1], p, q)
    BY <1>2, <1>4, TailsSplit DEF p
  <2>3. q \in Nat /\ u \in Nat
    <3>1. k + 1 \in 1..(n + 1) /\ (k + 1) + 1 \in 1..(n + 1)
      BY <1>2
    <3> QED
      BY <1>4, <3>1 DEF IsTails
  <2> QED
    BY <2>1, <2>2, <2>3
<1>6. m \in Nat /\ Word = r * (2 * m)
  <2> DEFINE j == WordBits - (s + 1)
  <2>1. j \in Nat /\ s \in Nat /\ j + 1 \in Nat /\ s + (j + 1) = WordBits
    BY <1>1, <1>w
  <2> HIDE DEF j
  <2>2. 2^WordBits = 2^s * 2^(j + 1) /\ 2^(j + 1) = 2 * 2^j /\ 2^j \in Nat
    BY <2>1, PowerAdds, PowerDoubles
  <2> QED
    BY <2>2 DEF Word, j
<1>7. l \in Nat /\ q = l + Word * u
  <2>1. l \in 0..(Word - 1)
    BY LimbType
  <2>2. l \in Nat
    BY <2>1, <1>w
  <2> QED
    BY <1>2, <1>4, <2>2 DEF IsTails
<1> HIDE DEF r, v, q, u, l, m
<1>8. e \in Nat /\ \E low \in 0..(r - 1) : l = e * r + low
  BY <1>1, <1>7, QuotientIsSplit DEF IsSplit
<1>9. PICK low \in 0..(r - 1) : l = e * r + low
  BY <1>8
<1> HIDE DEF e
<1> DEFINE mu == m * u  h == e + 2 * mu
<1>10. mu \in Nat /\ h \in Nat
  BY <1>5, <1>6, <1>8
<1>11. IsSplit(q, r, h)
  <2>1. Word * u = r * (2 * mu)
    BY <1>1, <1>5, <1>6
  <2> HIDE DEF mu
  <2>2. h * r = e * r + r * (2 * mu)
    BY <1>1, <1>8, <1>10
  <2> DEFINE er == e * r  rm == r * (2 * mu)  hr == h * r  wu == Word * u
  <2>3. er \in Int /\ rm \in Int /\ hr = er + rm /\ wu = rm /\ l = er + low /\ q = l + wu
    BY <1>1, <1>7, <1>8, <1>9, <1>10, <2>1, <2>2
  <2> HIDE DEF er, rm, hr, wu, h
  <2>4. q = hr + low
    BY <2>3
  <2> QED
    BY <2>4 DEF IsSplit, hr
<1> HIDE DEF mu
<1>12. Above(a, bit) = h
  <2> DEFINE pr == p * r
  <2>1. pr \in Nat /\ pr > 0 /\ 2^bit = pr
    BY <1>1
  <2> HIDE DEF h
  <2>2. IsSplit(v, p * r, h)
    BY <1>1, <1>5, <1>10, <1>11, SplitTwice
  <2> HIDE DEF pr
  <2>3. v \div pr = h
    BY <1>5, <1>10, <2>1, <2>2, SplitIsQuotient DEF pr
  <2> QED
    BY <2>1, <2>3 DEF Above, v
<1>13. h % 2 = e % 2 /\ e % 2 \in {0, 1}
  BY <1>8, <1>10
<1>14. BitAt(a, bit) = e % 2
  BY <1>3 DEF e, l
<1> HIDE DEF h
<1>15. Above(a, bit + 1) = h \div 2
  <2> DEFINE b == 2^bit  c == h \div 2  two == 2
  <2>1. b \in Nat /\ b > 0 /\ 2^(bit + 1) = 2 * b
    BY PowerDoubles
  <2>2. c \in Nat /\ IsSplit(h, two, c) /\ two \in Nat /\ two > 0
    BY <1>10, QuotientIsSplit
  <2>3. v \div b = h
    BY <1>12 DEF Above, v
  <2> HIDE DEF b, c, two
  <2>4. IsSplit(v, b, h)
    BY <1>5, <2>1, <2>3, QuotientIsSplit
  <2>5. IsSplit(v, b * two, c)
    BY <1>5, <1>10, <2>1, <2>2, <2>4, SplitTwice
  <2> DEFINE bt == b * two
  <2>6. bt \in Nat /\ bt > 0 /\ 2^(bit + 1) = bt
    BY <2>1 DEF two
  <2> HIDE DEF bt
  <2>7. v \div bt = c
    BY <1>5, <2>2, <2>5, <2>6, SplitIsQuotient DEF bt
  <2> QED
    BY <2>6, <2>7 DEF Above, v, c
<1>16. h = 2 * (h \div 2) + (h % 2)
  BY <1>10
<1> QED
  BY <1>10, <1>12, <1>13, <1>14, <1>15, <1>16

\* bit_length counts the bits: nothing is above the last one.
LEMMA BitLengthExact ==
    ASSUME NEW a, IsBig(a)
    PROVE  /\ BitLength(a) \in Nat /\ BitLength(a) <= Len(a) * WordBits
           /\ Above(a, BitLength(a)) = 0 /\ Above(a, 0) = Value(a)
<1>w. Word \in Nat /\ Word > 0 /\ WordBits \in Nat /\ WordBits > 1 /\ Word = 2^WordBits
  BY WordType, WordBitsAssumption DEF Word
<1>a. IsLimbs(a) /\ Len(a) \in Nat /\ Value(a) \in Nat
  BY LimbType, ValueType DEF IsBig
<1>z. Above(a, 0) = Value(a)
  <2> DEFINE v == Value(a)
  <2>1. 2^0 = 1 /\ v \in Nat
    BY <1>a, PowerDoubles
  <2> HIDE DEF v
  <2>2. v \div 1 = v
    BY <2>1
  <2> QED
    BY <2>1, <2>2 DEF Above, v
<1>1. CASE a = <<>>
  <2>1. BitLength(a) = 0
    BY <1>1 DEF BitLength
  <2>2. Value(a) = 0 /\ 0 * WordBits = 0 /\ Len(a) = 0
    BY <1>1, <1>w, EmptyValue
  <2> QED
    BY <1>z, <2>1, <2>2
<1>2. CASE a # <<>>
  <2> DEFINE l == Len(a)  t == a[l]  Ps == {n \in 1..WordBits : t >= 2^(n - 1)}  m == Max(Ps)
             k == l - 1
  <2>1. l \in Nat /\ l \in 1..l /\ t = Limb(a, l) /\ t \in 0..(Word - 1) /\ t # 0 /\ k \in 0..l
        /\ k + 1 = l
    <3>1. l \in 1..l
      BY <1>2, <1>a
    <3> QED
      BY <1>2, <1>a, <3>1, LimbType DEF IsBig
  <2>2. BitLength(a) = k * WordBits + m
    BY <1>2 DEF BitLength
  <2>3. 1 \in Ps
    <3>1. 2^0 = 1 /\ 1 - 1 = 0 /\ 1 \in 1..WordBits
      BY <1>w, PowerDoubles
    <3>2. t >= 1
      BY <1>w, <2>1
    <3> QED
      BY <3>1, <3>2
  <2>4. m \in Ps /\ \A i \in Ps : m >= i
    <3>1. Ps \subseteq 0..WordBits /\ Ps # {}
      <4>1. \A i \in Ps : i \in 0..WordBits
        BY <1>w
      <4> QED
        BY <2>3, <4>1
    <3> HIDE DEF Ps
    <3> QED
      BY <1>w, <3>1, MaxOfBounded
  <2> HIDE DEF m, k
  <2>5. m \in 1..WordBits
    BY <2>4
  <2>6. t < 2^m
    <3>1. CASE m = WordBits
      BY <1>w, <2>1, <3>1
    <3>2. CASE m # WordBits
      <4>1. m + 1 \in 1..WordBits /\ (m + 1) - 1 = m /\ m \in Nat
        BY <1>w, <2>5, <3>2
      <4>2. m + 1 \notin Ps
        <5> HIDE DEF Ps
        <5> QED
          BY <2>4, <4>1
      <4>3. ~(t >= 2^m)
        BY <4>1, <4>2
      <4>4. 2^m \in Nat /\ t \in Nat
        BY <1>w, <2>1, <4>1, PowerDoubles
      <4> DEFINE b == 2^m
      <4> HIDE DEF b, t
      <4> QED
        BY <4>3, <4>4 DEF b
    <3> QED
      BY <3>1, <3>2
  <2> HIDE DEF Ps, l, t
  <2>7. PICK A : IsTails(A, a, l)
    BY <1>a, <2>1, TailsExist
  <2> DEFINE v == Value(a)  p == 2^(k * WordBits)  b == 2^m  z == 0
  <2>8. v \in Nat /\ p \in Nat /\ p > 0 /\ b \in Nat /\ b > 0 /\ z \in Nat /\ t \in Nat
    <3>1. k * WordBits \in Nat /\ m \in Nat
      BY <1>w, <2>1, <2>5
    <3> QED
      BY <1>a, <1>w, <2>1, <3>1, PowerDoubles
  <2>9. IsSplit(v, p, t)
    <3>1. v = A[1]
      <4>1. Len(a) <= l
        BY <2>1 DEF l
      <4> QED
        BY <1>a, <2>1, <2>7, <4>1, ValueIsTail
    <3>2. A[l] = Limb(a, l) + Word * A[l + 1] /\ A[l + 1] = 0
      BY <2>1, <2>7 DEF IsTails
    <3>3. A[k + 1] = t
      <4>1. Word * 0 = 0 /\ t + 0 = t
        BY <1>w, <2>8
      <4> QED
        BY <2>1, <3>2, <4>1
    <3> QED
      BY <1>a, <2>1, <2>7, <3>1, <3>3, TailsSplit
  <2>10. IsSplit(t, b, z)
    <3>1. t \in 0..(b - 1) /\ t = z * b + t
      BY <2>6, <2>8
    <3> QED
      BY <3>1 DEF IsSplit
  <2>11. 2^(BitLength(a)) = p * b
    <3>1. k * WordBits \in Nat /\ m \in Nat
      BY <1>w, <2>1, <2>5
    <3> QED
      BY <2>2, <3>1, PowerAdds
  <2>12. Above(a, BitLength(a)) = 0
    <3> DEFINE pb == p * b
    <3>1. pb \in Nat /\ pb > 0
      BY <2>8
    <3>2. IsSplit(v, p * b, z)
      <4> HIDE DEF v, p, b, z
      <4> QED
        BY <2>8, <2>9, <2>10, SplitTwice
    <3> HIDE DEF v, p, b, z, pb
    <3>3. v \div pb = z
      BY <2>8, <3>1, <3>2, SplitIsQuotient DEF pb
    <3> QED
      BY <2>11, <3>3 DEF Above, v, z, pb
  <2>13. BitLength(a) \in Nat /\ BitLength(a) <= Len(a) * WordBits
    <3>1. k * WordBits \in Nat /\ (k + 1) * WordBits = k * WordBits + WordBits
      BY <1>w, <2>1
    <3> DEFINE kw == k * WordBits
    <3>2. kw \in Nat /\ l * WordBits = kw + WordBits /\ BitLength(a) = kw + m
      BY <2>1, <2>2, <3>1
    <3> HIDE DEF kw
    <3>3. BitLength(a) \in Nat /\ BitLength(a) <= l * WordBits
      BY <1>w, <2>5, <3>2
    <3> QED
      BY <3>3 DEF l
  <2> QED
    BY <1>z, <2>12, <2>13
<1> QED
  BY <1>1, <1>2

-----------------------------------------------------------------------------
(* Long division.                                                           *)

\* One bit is brought down: the remainder doubles.
LEMMA BringDown ==
    ASSUME NEW a, IsLimbs(a), NEW r, IsBig(r), NEW bit \in Nat
    PROVE  LET s == IF BitAt(a, bit) = 1 THEN BigAdd(Shl(r, 1), FromWord(1)) ELSE Shl(r, 1)
           IN  IsBig(s) /\ Value(s) = 2 * Value(r) + BitAt(a, bit)
<1> DEFINE t == Shl(r, 1)  b == BitAt(a, bit)  o == FromWord(1)
<1>1. IsBig(t) /\ Value(t) = 2 * Value(r) /\ Value(r) \in Nat /\ Value(t) \in Nat
  BY ShlDoubles, ValueType DEF IsBig
<1>2. IsBig(o) /\ Value(o) = 1
  <2>1. 1 \in 0..(Word - 1)
    BY WordType
  <2> QED
    BY <2>1, FromWordValue
<1>3. b \in {0, 1}
  BY BitAtExact
<1>4. IsBig(BigAdd(t, o)) /\ Value(BigAdd(t, o)) = Value(t) + Value(o)
  BY <1>1, <1>2, BigAddExact DEF IsBig
<1> HIDE DEF t, b, o
<1>5. CASE b = 1
  BY <1>1, <1>2, <1>4, <1>5 DEF t, b, o
<1>6. CASE b = 0
  BY <1>1, <1>6 DEF t, b
<1> QED
  BY <1>3, <1>5, <1>6

\* One bit of the quotient.
LEMMA DivmodBitExact ==
    ASSUME NEW a, IsLimbs(a), NEW d, IsBig(d), NEW bit \in Nat,
           NEW acc, acc.ones \in SUBSET Nat, IsBig(acc.remainder),
           Value(acc.remainder) < Value(d)
    PROVE  LET next == DivmodBit(a, d, bit, acc)
               full == 2 * Value(acc.remainder) + BitAt(a, bit)
           IN  /\ next = [ones |-> next.ones, remainder |-> next.remainder]
               /\ IsBig(next.remainder) /\ Value(next.remainder) < Value(d)
               /\ IF full < Value(d)
                  THEN next.ones = acc.ones /\ Value(next.remainder) = full
                  ELSE /\ next.ones = acc.ones \cup {bit}
                       /\ Value(next.remainder) = full - Value(d)
<1> DEFINE r == acc.remainder
           s == IF BitAt(a, bit) = 1 THEN BigAdd(Shl(r, 1), FromWord(1)) ELSE Shl(r, 1)
           next == DivmodBit(a, d, bit, acc)
<1>1. IsBig(s) /\ Value(s) = 2 * Value(r) + BitAt(a, bit)
  BY BringDown
<1>2. next = IF BigLess(s, d) THEN [ones |-> acc.ones, remainder |-> s]
             ELSE [ones |-> acc.ones \cup {bit}, remainder |-> BigSub(s, d)]
  BY DEF DivmodBit
<1>3. Value(r) \in Nat /\ Value(d) \in Nat /\ Value(s) \in Nat /\ BitAt(a, bit) \in {0, 1}
  BY <1>1, ValueType, BitAtExact DEF IsBig
<1>4. BigLess(s, d) <=> Value(s) < Value(d)
  BY <1>1, BigLessExact
<1> HIDE DEF s, next
<1>5. CASE Value(s) < Value(d)
  BY <1>1, <1>2, <1>4, <1>5 DEF r, next
<1>6. CASE ~(Value(s) < Value(d))
  <2>1. next = [ones |-> acc.ones \cup {bit}, remainder |-> BigSub(s, d)]
    BY <1>2, <1>4, <1>6
  <2>2. Len(d) <= Len(s)
    <3>1. Len(d) \in Nat /\ Len(s) \in Nat
      BY <1>1, LimbType DEF IsBig
    <3>2. ~(Len(s) < Len(d))
      BY <1>4, <1>6 DEF BigLess
    <3> DEFINE ld == Len(d)  ls == Len(s)
    <3> HIDE DEF ld, ls
    <3>3. ld \in Nat /\ ls \in Nat /\ ~(ls < ld)
      BY <3>1, <3>2 DEF ld, ls
    <3>4. ld <= ls
      BY <3>3
    <3> QED
      BY <3>4 DEF ld, ls
  <2>3. IsLimbs(s) /\ IsLimbs(d) /\ Value(d) <= Value(s)
    BY <1>1, <1>3, <1>6 DEF IsBig
  <2>4. IsBig(BigSub(s, d)) /\ Value(BigSub(s, d)) = Value(s) - Value(d)
    BY <2>2, <2>3, BigSubExact
  <2> DEFINE vs == Value(s)  vd == Value(d)  vr == Value(r)  b == BitAt(a, bit)
  <2>5. vs = 2 * vr + b /\ vs \in Nat /\ vd \in Nat /\ vr \in Nat /\ b \in {0, 1} /\ vr < vd
    BY <1>1, <1>3
  <2> HIDE DEF vs, vd, vr, b
  <2>6. vs - vd < vd
    BY <2>5
  <2> QED
    BY <1>1, <1>6, <2>1, <2>4, <2>6 DEF vs, vd, vr, b, r, next
<1> QED
  BY <1>5, <1>6

\* The values of the bits of O in limb i, and the limb they make.
LimbBits(O, i) == {2^(b % WordBits) : b \in {o \in O : o \div WordBits = i - 1}}
BitLimb(O, i) == SumSet(LimbBits(O, i))

\* The number that has the bits of O, n limbs in all.
BitLimbs(O, n) == [i \in 1..n |-> BitLimb(O, i)]

\* Bits of a limb are bits of a word.
LEMMA LimbBitsType ==
    ASSUME NEW O \in SUBSET Nat, NEW i
    PROVE  /\ LimbBits(O, i) \in SUBSET BitValues(WordBits)
           /\ BitLimb(O, i) \in 0..(Word - 1)
<1>1. LimbBits(O, i) \in SUBSET BitValues(WordBits)
  <2> SUFFICES ASSUME NEW b \in O PROVE 2^(b % WordBits) \in BitValues(WordBits)
    BY DEF LimbBits
  <2>1. b % WordBits \in 0..(WordBits - 1)
    BY BitPlace
  <2> QED
    BY <2>1 DEF BitValues
<1>2. WordBits \in Nat
  BY WordBitsAssumption
<1> DEFINE S == LimbBits(O, i)
<1>3. S \in SUBSET BitValues(WordBits)
  BY <1>1
<1> HIDE DEF S
<1>4. SumSet(S) \in 0..(2^WordBits - 1)
  BY <1>2, <1>3, BitsAddUp DEF BitsAdd
<1> QED
  BY <1>1, <1>4 DEF BitLimb, S, Word

\* A new bit is added to its limb.
LEMMA BitAdded ==
    ASSUME NEW O \in SUBSET Nat, NEW bit \in Nat, bit \notin O, NEW i
    PROVE  BitLimb(O \cup {bit}, i)
               = BitLimb(O, i) + (IF i - 1 = bit \div WordBits THEN 2^(bit % WordBits) ELSE 0)
<1> DEFINE P == O \cup {bit}  e == 2^(bit % WordBits)
<1>w. WordBits \in Nat
  BY WordBitsAssumption
<1>1. CASE i - 1 = bit \div WordBits
  <2>1. LimbBits(P, i) = LimbBits(O, i) \cup {e}
    BY <1>1 DEF LimbBits
  <2>2. e \in BitValues(WordBits)
    <3>1. bit % WordBits \in 0..(WordBits - 1)
      BY BitPlace
    <3> QED
      BY <3>1 DEF BitValues
  <2>3. e \notin LimbBits(O, i)
    <3> SUFFICES ASSUME NEW b \in O, b \div WordBits = i - 1, e = 2^(b % WordBits) PROVE FALSE
      BY DEF LimbBits
    <3> DEFINE s == bit % WordBits  r == b % WordBits  k == b \div WordBits
    <3>1. /\ s \in 0..(WordBits - 1) /\ r \in 0..(WordBits - 1) /\ k \in Nat
          /\ bit = k * WordBits + s /\ b = k * WordBits + r
      <4>1. bit \div WordBits = k
        BY <1>1
      <4>2. b \in Nat
        OBVIOUS
      <4>3. r \in 0..(WordBits - 1) /\ k \in Nat /\ b = k * WordBits + r
        BY <4>2, BitPlace
      <4>4. s \in 0..(WordBits - 1) /\ bit = (bit \div WordBits) * WordBits + s
        BY BitPlace
      <4> HIDE DEF k, s, r
      <4> QED
        BY <4>1, <4>3, <4>4
    <3>2. 2^s = 2^r
      OBVIOUS
    <3> HIDE DEF s, r, k
    <3>3. s \in Nat /\ r \in Nat
      BY <3>1, <1>w
    <3>4. ~(2^s < 2^r) /\ ~(2^r < 2^s)
      <4>1. 2^s \in Nat /\ 2^r \in Nat
        BY <3>3, PowerDoubles
      <4> QED
        BY <3>2, <4>1
    <3>5. ~(s < r) /\ ~(r < s)
      BY <3>3, <3>4, PowerGrows
    <3>6. s = r
      BY <3>3, <3>5
    <3> QED
      BY <3>1, <3>6
  <2>4. BitLimb(P, i) = BitLimb(O, i) + e
    <3> DEFINE S == LimbBits(O, i)
    <3>1. S \in SUBSET BitValues(WordBits)
      BY LimbBitsType
    <3>2. e \notin S
      BY <2>3
    <3> HIDE DEF S, e, P
    <3>3. SumSet(S \cup {e}) = SumSet(S) + e
      BY <1>w, <2>2, <3>1, <3>2, BitsAddUp DEF BitsAdd
    <3> QED
      BY <2>1, <3>3 DEF BitLimb, S
  <2> QED
    BY <1>1, <2>4
<1>2. CASE i - 1 # bit \div WordBits
  <2>1. LimbBits(P, i) = LimbBits(O, i)
    BY <1>2 DEF LimbBits
  <2>2. BitLimb(P, i) = BitLimb(O, i)
    BY <2>1 DEF BitLimb
  <2>3. BitLimb(O, i) \in Int
    <3>1. BitLimb(O, i) \in 0..(Word - 1)
      BY LimbBitsType
    <3> QED
      BY <3>1, WordType
  <2>4. BitLimb(O, i) + 0 = BitLimb(O, i)
    BY <2>3
  <2> QED
    BY <1>2, <2>2, <2>4
<1> QED
  BY <1>1, <1>2

\* They are limbs.
LEMMA BitLimbsType ==
    ASSUME NEW O \in SUBSET Nat, NEW n \in Nat
    PROVE  /\ IsLimbs(BitLimbs(O, n)) /\ Len(BitLimbs(O, n)) = n
           /\ \A i \in 1..n : Limb(BitLimbs(O, n), i) = BitLimb(O, i)
           /\ Value(BitLimbs(O, n)) \in Nat
<1> DEFINE c == BitLimbs(O, n)
<1>1. c = [i \in 1..n |-> c[i]] /\ \A i \in 1..n : c[i] = BitLimb(O, i)
  BY DEF BitLimbs
<1>2. \A i \in 1..n : c[i] \in 0..(Word - 1)
  BY <1>1, LimbBitsType
<1> HIDE DEF c
<1>3. /\ IsLimbs(c) /\ Len(c) = n /\ Value(c) \in Nat
      /\ \A i \in 1..n : Limb(c, i) = c[i]
  BY <1>1, <1>2, MadeLimbs
<1>4. \A i \in 1..n : Limb(c, i) = BitLimb(O, i)
  BY <1>1, <1>3
<1> QED
  BY <1>3, <1>4 DEF c

\* No bits are zero.
LEMMA NoBits ==
    ASSUME NEW n \in Nat
    PROVE  Value(BitLimbs({}, n)) = 0
<1> DEFINE O == {}  c == BitLimbs(O, n)  z == <<>>
<1>1. IsLimbs(c) /\ Len(c) = n /\ \A i \in 1..n : Limb(c, i) = BitLimb(O, i)
  <2>1. O \in SUBSET Nat
    OBVIOUS
  <2> HIDE DEF O
  <2> QED
    BY <2>1, BitLimbsType
<1>2. \A i \in 1..n : BitLimb(O, i) = 0
  <2>1. \A i \in 1..n : LimbBits(O, i) = {}
    BY DEF LimbBits
  <2>2. SumSet({}) = 0
    <3>1. WordBits \in Nat
      BY WordBitsAssumption
    <3> QED
      BY <3>1, BitValuesFinite DEF AddsUp
  <2> QED
    BY <2>1, <2>2 DEF BitLimb
<1>3. IsLimbs(z) /\ Len(z) = 0 /\ Value(z) = 0
  BY EmptyValue DEF IsBig
<1>4. \A i \in 1..n : Limb(z, i) = 0
  BY DEF Limb
<1> HIDE DEF c, z
<1>5. Value(c) = Value(z)
  <2>1. \A i \in 1..n : Limb(c, i) = Limb(z, i)
    BY <1>1, <1>2, <1>4
  <2>2. Len(c) <= n /\ Len(z) <= n
    BY <1>1, <1>3
  <2> QED
    BY <1>1, <1>3, <2>1, <2>2, SameLimbs
<1> QED
  BY <1>3, <1>5 DEF c

\* A new bit counts once.
LEMMA BitCounts ==
    ASSUME NEW n \in Nat, NEW O \in SUBSET Nat, NEW bit \in Nat, bit \notin O, bit < n * WordBits
    PROVE  Value(BitLimbs(O \cup {bit}, n)) = Value(BitLimbs(O, n)) + 2^bit
<1>w. Word \in Nat /\ Word > 0 /\ WordBits \in Nat /\ WordBits > 1
  BY WordType, WordBitsAssumption
<1> DEFINE P == O \cup {bit}  c == BitLimbs(O, n)  d == BitLimbs(P, n)
           k == bit \div WordBits  s == bit % WordBits  e == 2^s
           added(j) == IF j > k + 1 THEN 0 ELSE e * 2^(((k + 1) - j) * WordBits)
<1>1. P \in SUBSET Nat
  OBVIOUS
<1>2. IsLimbs(c) /\ Len(c) = n /\ \A i \in 1..n : Limb(c, i) = BitLimb(O, i)
  BY BitLimbsType
<1>3. IsLimbs(d) /\ Len(d) = n /\ \A i \in 1..n : Limb(d, i) = BitLimb(P, i)
  <2> HIDE DEF P
  <2> QED
    BY <1>1, BitLimbsType
<1>4. /\ k \in Nat /\ s \in 0..(WordBits - 1) /\ bit = k * WordBits + s /\ e \in Nat
      /\ 2^bit = 2^(k * WordBits) * e /\ 2^(k * WordBits) \in Nat
  BY BitPlace
<1>5. \A i : BitLimb(P, i) = BitLimb(O, i) + (IF i - 1 = k THEN e ELSE 0)
  BY BitAdded
<1> HIDE DEF P, c, d, k, s, e
<1>6. k < n
  <2>1. SUFFICES ASSUME k >= n PROVE FALSE
    BY <1>4
  <2>2. k * WordBits >= n * WordBits
    BY <1>4, <1>w, <2>1
  <2> DEFINE kw == k * WordBits  nw == n * WordBits
  <2>3. kw \in Int /\ nw \in Int /\ kw >= nw /\ bit = kw + s /\ bit < nw /\ s \in Nat
    BY <1>4, <1>w, <2>2
  <2> HIDE DEF kw, nw
  <2> QED
    BY <2>3
<1>7. PICK C : IsTails(C, c, n)
  BY <1>2, TailsExist
<1>8. PICK D : IsTails(D, d, n)
  BY <1>3, TailsExist
<1>9. \A j \in 1..(n + 1) : C[j] \in Nat /\ D[j] \in Nat
  BY <1>7, <1>8 DEF IsTails
<1> DEFINE G == {j \in 1..(n + 1) : D[j] = C[j] + added(j)}
<1>10. n + 1 \in G
  <2>1. D[n + 1] = 0 /\ C[n + 1] = 0 /\ n + 1 \in 1..(n + 1)
    BY <1>7, <1>8 DEF IsTails
  <2>2. added(n + 1) = 0
    BY <1>4, <1>6
  <2> QED
    BY <2>1, <2>2
<1>11. ASSUME NEW j \in 1..n, j + 1 \in G PROVE j \in G
  <2>1. j \in 1..(n + 1) /\ j + 1 \in 1..(n + 1)
    OBVIOUS
  <2> DEFINE u == C[j + 1]  w == D[j + 1]  y == Limb(c, j)  z == Limb(d, j)
  <2>2. u \in Nat /\ w \in Nat /\ C[j] = y + Word * u /\ D[j] = z + Word * w
    BY <1>7, <1>8, <1>9, <2>1 DEF IsTails
  <2>3. z = y + (IF j - 1 = k THEN e ELSE 0) /\ y \in Nat
    <3>1. y \in 0..(Word - 1)
      BY <1>2, LimbType
    <3>2. z = y + (IF j - 1 = k THEN e ELSE 0)
      BY <1>2, <1>3, <1>5
    <3> QED
      BY <3>1, <3>2, <1>w
  <2>4. w = u + added(j + 1)
    BY <1>11
  <2> HIDE DEF u, w, y, z, G
  <2>5. D[j] = C[j] + added(j)
    <3>1. CASE j > k + 1
      <4>1. added(j) = 0 /\ added(j + 1) = 0 /\ j - 1 # k
        BY <1>4, <3>1
      <4> HIDE DEF added
      <4>2. w = u /\ z = y
        BY <2>2, <2>3, <2>4, <4>1
      <4>3. y + Word * u \in Int
        BY <1>w, <2>2, <2>3
      <4> QED
        BY <2>2, <4>1, <4>2, <4>3
    <3>2. CASE j = k + 1
      <4>1. added(j + 1) = 0 /\ j - 1 = k
        BY <1>4, <3>2
      <4>2. added(j) = e
        <5>1. ~(j > k + 1) /\ (k + 1) - j = 0 /\ 0 * WordBits = 0
          BY <1>4, <1>w, <3>2
        <5>2. e * 1 = e /\ 2^0 = 1
          BY <1>4, PowerDoubles
        <5> QED
          BY <5>1, <5>2
      <4> HIDE DEF added
      <4>3. w = u /\ z = y + e
        BY <2>2, <2>3, <2>4, <4>1
      <4> DEFINE wu == Word * u
      <4>4. wu \in Int /\ C[j] = y + wu /\ D[j] = (y + e) + wu
        BY <1>w, <2>2, <4>3
      <4> HIDE DEF wu
      <4> QED
        BY <1>4, <2>3, <4>2, <4>4
    <3>3. CASE j < k + 1
      <4> DEFINE i == (k + 1) - (j + 1)  q == 2^(i * WordBits)
      <4>1. /\ i \in Nat /\ (k + 1) - j = i + 1 /\ ~(j + 1 > k + 1) /\ ~(j > k + 1)
            /\ j - 1 # k
        BY <1>4, <3>3
      <4>2. q \in Nat /\ 2^((i + 1) * WordBits) = q * Word
        <5> HIDE DEF i
        <5>1. i * WordBits \in Nat /\ (i + 1) * WordBits = i * WordBits + WordBits
          BY <1>w, <4>1
        <5> QED
          BY <1>w, <5>1, PowerAdds, PowerDoubles DEF Word
      <4>3. added(j + 1) = e * q /\ added(j) = e * (q * Word)
        BY <4>1, <4>2
      <4> HIDE DEF added, i, q
      <4>4. w = u + e * q /\ z = y
        BY <2>3, <2>4, <4>1, <4>3
      <4>5. Word * (u + e * q) = Word * u + e * (q * Word)
        BY <1>w, <1>4, <2>2, <4>2
      <4> DEFINE wu == Word * u  eq == e * (q * Word)
      <4>6. wu \in Int /\ eq \in Int /\ C[j] = y + wu /\ D[j] = y + (wu + eq)
        BY <1>w, <1>4, <2>2, <4>2, <4>4, <4>5
      <4>7. added(j) = eq
        BY <4>3
      <4> HIDE DEF wu, eq
      <4>8. D[j] = C[j] + eq
        BY <2>3, <4>6
      <4> QED
        BY <4>7, <4>8
    <3> QED
      BY <1>4, <3>1, <3>2, <3>3
  <2> QED
    BY <2>1, <2>5 DEF G
<1> HIDE DEF G, added
<1>12. 1..(n + 1) \subseteq G
  BY <1>10, <1>11, DownInduction
<1>13. D[1] = C[1] + added(1)
  <2>1. 1 \in 1..(n + 1)
    OBVIOUS
  <2> QED
    BY <1>12, <2>1 DEF G
<1>14. added(1) = 2^bit
  <2>1. ~(1 > k + 1) /\ (k + 1) - 1 = k
    BY <1>4
  <2>2. e * 2^(k * WordBits) = 2^(k * WordBits) * e
    <3> DEFINE q == 2^(k * WordBits)
    <3>1. q \in Nat /\ e \in Nat
      BY <1>4
    <3> HIDE DEF q
    <3>2. e * q = q * e
      BY <3>1
    <3> QED
      BY <3>2 DEF q
  <2> QED
    BY <1>4, <2>1, <2>2 DEF added
<1>15. Value(c) = C[1] /\ Value(d) = D[1]
  <2>1. Len(c) <= n /\ Len(d) <= n
    BY <1>2, <1>3
  <2> QED
    BY <1>2, <1>3, <1>7, <1>8, <2>1, ValueIsTail
<1> QED
  BY <1>13, <1>14, <1>15 DEF c, d, P

\* The recursion of divmod.
IsDivision(f, a, d, n) ==
    f = [bit \in 0..n |->
            IF bit = n THEN [ones |-> {}, remainder |-> <<>>]
            ELSE DivmodBit(a, d, bit, f[bit + 1])]

\* Remainders of a division by d.
Remainders(d) == {r \in Seq(0..(Word - 1)) : IsBig(r) /\ Value(r) < Value(d)}

\* What is divided and what divides.
IsDivided(a, d) == IsLimbs(a) /\ IsBig(d) /\ Value(d) > 0

\* The bits of the quotient so far, and the remainder.
Accumulators(d) == [ones : SUBSET Nat, remainder : Remainders(d)]

\* A bit keeps them so.
LEMMA AccumulatorStep ==
    ASSUME NEW a, NEW d, IsDivided(a, d), NEW bit \in Nat, NEW acc \in Accumulators(d)
    PROVE  DivmodBit(a, d, bit, acc) \in Accumulators(d)
<1> DEFINE next == DivmodBit(a, d, bit, acc)
<1>1. /\ acc.ones \in SUBSET Nat /\ IsBig(acc.remainder)
      /\ Value(acc.remainder) < Value(d) /\ IsLimbs(a) /\ IsBig(d)
  BY DEF Accumulators, Remainders, IsDivided
<1>2. /\ next = [ones |-> next.ones, remainder |-> next.remainder]
      /\ IsBig(next.remainder) /\ Value(next.remainder) < Value(d)
      /\ next.ones = acc.ones \/ next.ones = acc.ones \cup {bit}
  BY <1>1, DivmodBitExact
<1> HIDE DEF next
<1>3. next.ones \in SUBSET Nat
  BY <1>1, <1>2
<1>4. next.remainder \in Remainders(d)
  BY <1>2 DEF Remainders, IsBig, IsLimbs
<1>5. next \in Accumulators(d)
  BY <1>2, <1>3, <1>4 DEF Accumulators
<1> QED
  BY <1>5 DEF next

\* The division starts with nothing.
LEMMA AccumulatorBase ==
    ASSUME NEW a, NEW d, IsDivided(a, d)
    PROVE  [ones |-> {}, remainder |-> <<>>] \in Accumulators(d)
<1>1. IsBig(<<>>) /\ Value(<<>>) = 0
  BY EmptyValue
<1> DEFINE e == <<>>
<1>2. e \in Seq(0..(Word - 1)) /\ IsBig(e) /\ Value(e) < Value(d)
  BY <1>1 DEF IsDivided
<1> HIDE DEF e
<1>3. e \in Remainders(d)
  BY <1>2 DEF Remainders
<1>4. [ones |-> {}, remainder |-> e] \in Accumulators(d)
  BY <1>3 DEF Accumulators
<1> QED
  BY <1>4 DEF e

\* The division exists.
LEMMA DivisionExists ==
    ASSUME NEW a, NEW d, IsDivided(a, d), NEW n \in Nat
    PROVE  \E f : IsDivision(f, a, d, n)
<1> DEFINE V == Accumulators(d)  base == [ones |-> {}, remainder |-> <<>>]
           step == [i \in 1..n |-> [v \in V |-> DivmodBit(a, d, i - 1, v)]]
<1>1. base \in V
  BY AccumulatorBase
<1>2. \A i \in 1..n, v \in V : step[i][v] = DivmodBit(a, d, i - 1, v) /\ step[i][v] \in V
  <2> TAKE i \in 1..n, v \in V
  <2>1. i - 1 \in Nat
    OBVIOUS
  <2>2. DivmodBit(a, d, i - 1, v) \in V
    <3> DEFINE bit == i - 1
    <3> HIDE DEF bit
    <3>1. bit \in Nat
      BY <2>1 DEF bit
    <3>2. DivmodBit(a, d, bit, v) \in V
      BY <3>1, AccumulatorStep
    <3> QED
      BY <3>2 DEF bit
  <2> QED
    BY <2>2
<1> HIDE DEF V, base, step
<1>3. PICK g : IsDownward(g, n, V, base, step)
  BY <1>1, <1>2, Downward
<1> DEFINE f == [bit \in 0..n |-> g[bit + 1]]
<1>4. ASSUME NEW bit \in 0..n
      PROVE  f[bit] = IF bit = n THEN base ELSE DivmodBit(a, d, bit, f[bit + 1])
  <2>1. CASE bit = n
    BY <1>3, <2>1 DEF IsDownward
  <2>2. CASE bit # n
    <3>1. bit + 1 \in 1..n /\ bit + 1 \in 0..n /\ (bit + 1) - 1 = bit /\ (bit + 1) + 1 \in 1..(n + 1)
      BY <2>2
    <3>2. f[bit] = g[bit + 1] /\ f[bit + 1] = g[(bit + 1) + 1]
      BY <3>1
    <3>3. g[bit + 1] = step[bit + 1][g[(bit + 1) + 1]] /\ g[(bit + 1) + 1] \in V
      BY <1>3, <3>1 DEF IsDownward
    <3> HIDE DEF f
    <3>4. step[bit + 1][g[(bit + 1) + 1]] = DivmodBit(a, d, (bit + 1) - 1, g[(bit + 1) + 1])
      BY <1>2, <3>1, <3>3
    <3> QED
      BY <2>2, <3>1, <3>2, <3>3, <3>4
  <2> QED
    BY <2>1, <2>2
<1>5. f = [bit \in 0..n |-> f[bit]]
  OBVIOUS
<1> HIDE DEF f
<1>6. f = [bit \in 0..n |-> IF bit = n THEN base ELSE DivmodBit(a, d, bit, f[bit + 1])]
  BY <1>4, <1>5
<1> QED
  BY <1>6 DEF IsDivision, base

\* Above bit, the dividend is the quotient so far times the divisor, plus the
\* remainder.
Divided(acc, a, d, bit, n, limbs) ==
    /\ acc \in Accumulators(d) /\ \A o \in acc.ones : o >= bit /\ o < n
    /\ Above(a, bit) * 2^bit
           = Value(BitLimbs(acc.ones, limbs)) * Value(d) + Value(acc.remainder) * 2^bit

\* One step of the identity.
LEMMA DividedSum ==
    ASSUME NEW h \in Int, NEW hh \in Int, NEW b \in Int, NEW p \in Int, NEW q \in Int,
           NEW d \in Int, NEW r \in Int,
           h = 2 * hh + b, hh * (2 * p) = q * d + r * (2 * p)
    PROVE  /\ h * p = q * d + (2 * r + b) * p
           /\ h * p = (q + p) * d + ((2 * r + b) - d) * p
<1>1. h * p = hh * (2 * p) + b * p
  OBVIOUS
<1>2. (2 * r + b) * p = r * (2 * p) + b * p
  OBVIOUS
<1>3. (q + p) * d = q * d + d * p
  OBVIOUS
<1>4. ((2 * r + b) - d) * p = (2 * r + b) * p - d * p
  OBVIOUS
<1> DEFINE hp == h * p  h2 == hh * (2 * p)  bp == b * p  rp == (2 * r + b) * p
           r2 == r * (2 * p)  qd == q * d  dp == d * p  qq == (q + p) * d
           rr == ((2 * r + b) - d) * p
<1>5. /\ hp \in Int /\ h2 \in Int /\ bp \in Int /\ rp \in Int /\ r2 \in Int /\ qd \in Int
      /\ dp \in Int /\ qq \in Int /\ rr \in Int
      /\ hp = h2 + bp /\ rp = r2 + bp /\ qq = qd + dp /\ rr = rp - dp /\ h2 = qd + r2
  BY <1>1, <1>2, <1>3, <1>4
<1> HIDE DEF hp, h2, bp, rp, r2, qd, dp, qq, rr
<1>6. hp = qd + rp /\ hp = qq + rr
  BY <1>5
<1> QED
  BY <1>6 DEF hp, qd, rp, qq, rr

\* Every bit keeps the identity.
LEMMA DividedStep ==
    ASSUME NEW a, NEW d, IsDivided(a, d), NEW n \in Nat, NEW limbs \in Nat,
           n <= limbs * WordBits, NEW bit \in Nat, bit < n,
           NEW acc, Divided(acc, a, d, bit + 1, n, limbs)
    PROVE  Divided(DivmodBit(a, d, bit, acc), a, d, bit, n, limbs)
<1> DEFINE next == DivmodBit(a, d, bit, acc)  r == Value(acc.remainder)  v == Value(d)
           b == BitAt(a, bit)  p == 2^bit  q == Value(BitLimbs(acc.ones, limbs))
           h == Above(a, bit)  hh == Above(a, bit + 1)
<1>1. /\ acc \in Accumulators(d) /\ acc.ones \in SUBSET Nat /\ IsBig(acc.remainder)
      /\ r < v /\ IsLimbs(a) /\ IsBig(d)
  BY DEF Divided, Accumulators, Remainders, IsDivided
<1>2. next \in Accumulators(d)
  BY <1>1, AccumulatorStep
<1>3. IF 2 * r + b < v
      THEN next.ones = acc.ones /\ Value(next.remainder) = 2 * r + b
      ELSE next.ones = acc.ones \cup {bit} /\ Value(next.remainder) = (2 * r + b) - v
  BY <1>1, DivmodBitExact
<1>4. h \in Nat /\ hh \in Nat /\ b \in {0, 1} /\ h = 2 * hh + b
  <2>1. bit + 1 \in Nat
    OBVIOUS
  <2> QED
    BY <1>1, <2>1, BitAtExact
<1>5. r \in Nat /\ v \in Nat
  BY <1>1, ValueType DEF IsBig
<1>6. p \in Nat /\ 2^(bit + 1) = 2 * p
  BY PowerDoubles
<1>7. q \in Nat
  BY <1>1, BitLimbsType
<1>8. \A o \in acc.ones : o >= bit + 1 /\ o < n
  BY DEF Divided
<1>9. hh * (2 * p) = q * v + r * (2 * p)
  BY <1>6 DEF Divided
<1>10. Value(BitLimbs(acc.ones \cup {bit}, limbs)) = q + p
  <2>1. bit \notin acc.ones
    <3> SUFFICES ASSUME bit \in acc.ones PROVE FALSE
      OBVIOUS
    <3>1. bit >= bit + 1
      BY <1>8
    <3> QED
      BY <3>1
  <2>2. bit < limbs * WordBits
    <3> DEFINE lw == limbs * WordBits
    <3>1. lw \in Int /\ n <= lw
      BY WordBitsAssumption
    <3> HIDE DEF lw
    <3>2. bit < lw
      BY <3>1
    <3> QED
      BY <3>2 DEF lw
  <2> QED
    BY <1>1, <2>1, <2>2, BitCounts
<1> HIDE DEF next, r, v, b, p, q, h, hh
<1>11. h * p = q * v + (2 * r + b) * p /\ h * p = (q + p) * v + ((2 * r + b) - v) * p
  <2>1. h \in Int /\ hh \in Int /\ b \in Int /\ p \in Int /\ q \in Int /\ v \in Int /\ r \in Int
    BY <1>4, <1>5, <1>6, <1>7
  <2> QED
    BY <1>4, <1>9, <2>1, DividedSum
<1>12. CASE 2 * r + b < v
  <2>1. next.ones = acc.ones /\ Value(next.remainder) = 2 * r + b
    BY <1>3, <1>12
  <2>2. \A o \in next.ones : o >= bit /\ o < n
    <3> SUFFICES ASSUME NEW o \in acc.ones PROVE o >= bit /\ o < n
      BY <2>1
    <3>1. o >= bit + 1 /\ o < n /\ o \in Nat
      BY <1>1, <1>8
    <3> QED
      BY <3>1
  <2>3. Value(BitLimbs(next.ones, limbs)) = q
    BY <2>1 DEF q
  <2>4. h * p = q * v + Value(next.remainder) * p
    BY <1>11, <2>1
  <2> QED
    BY <1>2, <2>2, <2>3, <2>4 DEF Divided, next, h, p, v
<1>13. CASE ~(2 * r + b < v)
  <2>1. next.ones = acc.ones \cup {bit} /\ Value(next.remainder) = (2 * r + b) - v
    BY <1>3, <1>13
  <2>2. \A o \in next.ones : o >= bit /\ o < n
    <3> SUFFICES ASSUME NEW o \in acc.ones PROVE o >= bit /\ o < n
      BY <2>1
    <3>1. o >= bit + 1 /\ o < n /\ o \in Nat
      BY <1>1, <1>8
    <3> QED
      BY <3>1
  <2>3. Value(BitLimbs(next.ones, limbs)) = q + p
    BY <1>10, <2>1
  <2>4. h * p = (q + p) * v + Value(next.remainder) * p
    BY <1>11, <2>1
  <2> QED
    BY <1>2, <2>2, <2>3, <2>4 DEF Divided, next, h, p, v
<1> QED
  BY <1>12, <1>13

\* The long division is division.
LEMMA LongDivision ==
    ASSUME NEW a, NEW d, IsDivided(a, d), NEW n \in Nat, NEW limbs \in Nat,
           n <= limbs * WordBits, Above(a, n) = 0, Above(a, 0) = Value(a),
           NEW f, IsDivision(f, a, d, n)
    PROVE  /\ f[0].ones \in SUBSET Nat /\ IsBig(f[0].remainder)
           /\ Value(BitLimbs(f[0].ones, limbs)) = Value(a) \div Value(d)
           /\ Value(f[0].remainder) = Value(a) % Value(d)
<1> DEFINE G == {i \in 1..(n + 1) : Divided(f[i - 1], a, d, i - 1, n, limbs)}
<1>1. \A bit \in 0..n : f[bit] = IF bit = n THEN [ones |-> {}, remainder |-> <<>>]
                                 ELSE DivmodBit(a, d, bit, f[bit + 1])
  BY DEF IsDivision
<1>2. n + 1 \in G
  <2> DEFINE acc == [ones |-> {}, remainder |-> <<>>]  p == 2^n  v == Value(d)
  <2>1. f[n] = acc /\ (n + 1) - 1 = n /\ n + 1 \in 1..(n + 1)
    BY <1>1
  <2>2. acc \in Accumulators(d) /\ acc.ones = {} /\ acc.remainder = <<>>
    BY AccumulatorBase
  <2>3. Value(BitLimbs(acc.ones, limbs)) = 0 /\ Value(acc.remainder) = 0
    <3>1. Value(BitLimbs({}, limbs)) = 0 /\ Value(<<>>) = 0
      BY NoBits, EmptyValue
    <3> QED
      BY <2>2, <3>1
  <2>4. p \in Nat /\ v \in Nat
    BY PowerDoubles, ValueType DEF IsDivided, IsBig
  <2> HIDE DEF acc, p, v
  <2>5. 0 * p = 0 * v + 0 * p
    BY <2>4
  <2>6. Divided(acc, a, d, n, n, limbs)
    BY <2>2, <2>3, <2>5 DEF Divided, p, v
  <2> QED
    BY <2>1, <2>6
<1>3. ASSUME NEW i \in 1..n, i + 1 \in G PROVE i \in G
  <2> DEFINE bit == i - 1  acc == f[bit + 1]
  <2>1. bit \in Nat /\ bit < n /\ bit \in 0..n /\ bit # n /\ bit + 1 = i /\ (i + 1) - 1 = i
        /\ i \in 1..(n + 1)
    OBVIOUS
  <2>2. Divided(acc, a, d, bit + 1, n, limbs)
    BY <1>3, <2>1
  <2>3. f[bit] = DivmodBit(a, d, bit, acc)
    BY <1>1, <2>1
  <2> HIDE DEF acc, bit
  <2>4. Divided(DivmodBit(a, d, bit, acc), a, d, bit, n, limbs)
    BY <2>1, <2>2, DividedStep
  <2>5. Divided(f[i - 1], a, d, i - 1, n, limbs)
    BY <2>3, <2>4 DEF bit
  <2> QED
    BY <2>1, <2>5
<1> HIDE DEF G
<1>4. 1..(n + 1) \subseteq G
  BY <1>2, <1>3, DownInduction
<1> DEFINE z == f[0]  v == Value(d)  r == Value(z.remainder)
           q == Value(BitLimbs(z.ones, limbs))
<1>5. Divided(z, a, d, 0, n, limbs)
  <2>1. 1 \in 1..(n + 1) /\ 1 - 1 = 0
    OBVIOUS
  <2> QED
    BY <1>4, <2>1 DEF G
<1>6. z.ones \in SUBSET Nat /\ IsBig(z.remainder) /\ r < v
  BY <1>5 DEF Divided, Accumulators, Remainders
<1>7. q \in Nat /\ r \in Nat /\ v \in Nat
  BY <1>6, BitLimbsType, ValueType DEF IsDivided, IsBig
<1>8. Value(a) * 1 = q * v + r * 1 /\ Value(a) \in Nat
  <2>1. 2^0 = 1
    BY PowerDoubles
  <2> QED
    BY <1>5, <2>1, ValueType DEF Divided, IsDivided
<1> DEFINE m == Value(a)
<1> HIDE DEF r, v, q, m
<1>9. m = q * v + r /\ r \in 0..(v - 1)
  BY <1>6, <1>7, <1>8 DEF m
<1>10. (q * v + r) \div v = q /\ (q * v + r) % v = r
  BY <1>7, <1>9, WordQuotientUnique
<1>11. m \div v = q /\ m % v = r
  BY <1>9, <1>10
<1> QED
  BY <1>6, <1>11 DEF m, q, r, v, z

\* A number of one limb is the limb.
LEMMA OneLimb ==
    ASSUME NEW d, IsBig(d), Len(d) = 1
    PROVE  d[1] \in 1..(Word - 1) /\ Value(d) = d[1]
<1> DEFINE n == 1
<1>1. IsLimbs(d) /\ d # <<>> /\ d[n] # 0 /\ n \in 1..n /\ Len(d) <= n /\ n \in Nat
  BY DEF IsBig
<1> HIDE DEF n
<1>2. d[n] = Limb(d, n) /\ d[n] \in 0..(Word - 1)
  <2>1. n \in 1..Len(d)
    BY DEF n
  <2> QED
    BY <1>1, <2>1, LimbType
<1>3. PICK D : IsTails(D, d, n)
  BY <1>1, TailsExist
<1>4. D[n] = Limb(d, n) + Word * D[n + 1] /\ D[n + 1] = 0
  BY <1>1, <1>3 DEF IsTails
<1>5. Word * 0 = 0 /\ d[n] + 0 = d[n] /\ d[n] \in 1..(Word - 1)
  BY <1>1, <1>2, WordType
<1>6. D[n] = d[n]
  BY <1>2, <1>4, <1>5
<1>7. Value(d) = D[1]
  BY <1>1, <1>3, ValueIsTail
<1> QED
  BY <1>5, <1>6, <1>7 DEF n

\* divmod is division with remainder, for numbers of every length.
THEOREM DivmodExact ==
    ASSUME NEW a, IsBig(a), NEW d, IsBig(d), d # <<>>
    PROVE  /\ IsBig(Divmod(a, d).quotient) /\ IsBig(Divmod(a, d).remainder)
           /\ Value(Divmod(a, d).quotient) = Value(a) \div Value(d)
           /\ Value(Divmod(a, d).remainder) = Value(a) % Value(d)
<1>a. IsLimbs(a) /\ IsLimbs(d) /\ Value(a) \in Nat /\ Value(d) \in Nat
  BY ValueType DEF IsBig
<1>d. Value(d) > 0
  <2>1. Len(d) \in Nat /\ Len(<<>>) = 0 /\ IsBig(<<>>) /\ Value(<<>>) = 0
    BY <1>a, LimbType, EmptyValue
  <2>2. Len(d) # 0
    BY <1>a DEF IsLimbs
  <2> DEFINE e == <<>>  l == Len(d)
  <2>3. l \in Nat /\ l # 0 /\ Len(e) = 0 /\ IsBig(e) /\ Value(e) = 0
    BY <2>1, <2>2
  <2> HIDE DEF e, l
  <2>4. Len(e) < l
    BY <2>3
  <2>5. BigLess(e, d)
    BY <2>4 DEF BigLess, l
  <2> QED
    BY <2>3, <2>5, BigLessExact
<1>1. CASE BigLess(a, d)
  <2>1. Divmod(a, d).quotient = <<>> /\ Divmod(a, d).remainder = a
    BY <1>1 DEF Divmod
  <2>2. Value(a) < Value(d)
    BY <1>1, BigLessExact
  <2> DEFINE m == Value(a)  v == Value(d)
  <2> HIDE DEF m, v
  <2>3. m \in Nat /\ v \in Nat /\ m < v
    BY <1>a, <2>2 DEF m, v
  <2>4. m \div v = 0 /\ m % v = m
    <3>1. 0 \in Nat /\ m \in 0..(v - 1) /\ 0 * v + m = m
      BY <2>3
    <3> DEFINE k == 0
    <3> HIDE DEF k
    <3>2. (k * v + m) \div v = k /\ (k * v + m) % v = m
      BY <2>3, <3>1, WordQuotientUnique DEF k
    <3> QED
      BY <3>1, <3>2 DEF k
  <2> QED
    BY <2>1, <2>4, EmptyValue DEF m, v
<1>2. CASE ~BigLess(a, d) /\ Len(d) = 1
  <2>1. Divmod(a, d) = DivmodWord(a, d[1])
    BY <1>2 DEF Divmod
  <2>2. d[1] \in 1..(Word - 1) /\ Value(d) = d[1]
    BY <1>2, OneLimb
  <2> QED
    BY <1>a, <2>1, <2>2, DivmodWordExact
<1>3. CASE ~BigLess(a, d) /\ Len(d) # 1
  <2> DEFINE n == BitLength(a)  f == CHOOSE g : IsDivision(g, a, d, n)  l == Len(a)
  <2>1. Divmod(a, d) = [quotient |-> Normalized([i \in DOMAIN a |-> BitLimb(f[0].ones, i)]),
                        remainder |-> f[0].remainder]
    BY <1>3 DEF Divmod, IsDivision, BitLimb, LimbBits
  <2>2. n \in Nat /\ l \in Nat /\ n <= l * WordBits /\ Above(a, n) = 0 /\ Above(a, 0) = Value(a)
        /\ DOMAIN a = 1..l
    BY <1>a, BitLengthExact, LimbType
  <2>3. IsDivided(a, d)
    BY <1>a, <1>d DEF IsDivided
  <2> HIDE DEF n, l
  <2>4. IsDivision(f, a, d, n)
    BY <2>2, <2>3, DivisionExists
  <2> HIDE DEF f
  <2>5. /\ f[0].ones \in SUBSET Nat /\ IsBig(f[0].remainder)
        /\ Value(BitLimbs(f[0].ones, l)) = Value(a) \div Value(d)
        /\ Value(f[0].remainder) = Value(a) % Value(d)
    BY <2>2, <2>3, <2>4, LongDivision
  <2> DEFINE c == BitLimbs(f[0].ones, l)
  <2>6. Divmod(a, d).quotient = Normalized(c) /\ Divmod(a, d).remainder = f[0].remainder
    BY <2>1, <2>2 DEF BitLimbs
  <2>7. IsLimbs(c)
    BY <2>2, <2>5, BitLimbsType
  <2> HIDE DEF c
  <2>8. IsBig(Normalized(c)) /\ Value(Normalized(c)) = Value(c)
    BY <2>7, NormalizedValue
  <2> QED
    BY <2>5, <2>6, <2>8 DEF c
<1> QED
  BY <1>1, <1>2, <1>3

-----------------------------------------------------------------------------
(* The operands of BignumExact.                                             *)

\* Four limbs of a number.
FourLimbs(n) == [i \in 1..4 |-> (n \div 2^((i - 1) * WordBits)) % Word]

\* They hold it, when it is small enough.
LEMMA FourLimbsValue ==
    ASSUME NEW n \in Nat, n < 2^(4 * WordBits)
    PROVE  IsBig(Normalized(FourLimbs(n))) /\ Value(Normalized(FourLimbs(n))) = n
<1> DEFINE c == FourLimbs(n)  l == 4  p == [i \in 1..(l + 1) |-> 2^((i - 1) * WordBits)]
           F == [i \in 1..(l + 1) |-> n \div p[i]]
<1>w. Word \in Nat /\ Word > 0 /\ WordBits \in Nat
  BY WordType, WordBitsAssumption
<1>l. l \in Nat
  OBVIOUS
<1>c. c = [i \in 1..l |-> c[i]] /\ \A i \in 1..l : c[i] = F[i] % Word
  BY DEF FourLimbs
<1>1. \A i \in 1..(l + 1) : p[i] = 2^((i - 1) * WordBits) /\ p[i] \in Nat /\ p[i] > 0
  <2> TAKE i \in 1..(l + 1)
  <2>1. (i - 1) * WordBits \in Nat
    BY <1>w
  <2> QED
    BY <2>1, PowerDoubles
<1>2. \A i \in 1..(l + 1) : F[i] \in Nat /\ IsSplit(n, p[i], F[i])
  <2> TAKE i \in 1..(l + 1)
  <2> DEFINE q == p[i]
  <2>1. q \in Nat /\ q > 0 /\ F[i] = n \div q
    BY <1>1
  <2> HIDE DEF q
  <2>2. n \div q \in Nat /\ IsSplit(n, q, n \div q)
    BY <2>1, QuotientIsSplit
  <2> HIDE DEF F, p
  <2> QED
    BY <2>1, <2>2 DEF q
<1>3. F[l + 1] = 0
  <2> DEFINE b == p[l + 1]
  <2>1. b = 2^(4 * WordBits) /\ b \in Nat /\ n < b /\ F[l + 1] = n \div b
    <3>1. l + 1 \in 1..(l + 1) /\ (l + 1) - 1 = 4
      OBVIOUS
    <3>2. b = 2^(4 * WordBits) /\ b \in Nat /\ F[l + 1] = n \div b
      BY <1>1, <3>1
    <3> QED
      BY <3>2
  <2> DEFINE z == 0
  <2>2. z \in Nat /\ n \in 0..(b - 1) /\ z * b + n = n
    <3> HIDE DEF b
    <3> QED
      BY <2>1
  <2> HIDE DEF z, b
  <2>3. (z * b + n) \div b = z
    BY <2>1, <2>2, WordQuotientUnique
  <2> QED
    BY <2>1, <2>2, <2>3 DEF z
<1>f. F = [i \in 1..(l + 1) |-> F[i]]
  OBVIOUS
<1>4. ASSUME NEW i \in 1..l
      PROVE  c[i] \in 0..(Word - 1) /\ F[i] = c[i] + Word * F[i + 1]
  <2> DEFINE q == p[i]  u == F[i]  k == u \div Word  s == u % Word
  <2>1. i \in 1..(l + 1) /\ i + 1 \in 1..(l + 1)
    OBVIOUS
  <2>2. u \in Nat /\ q \in Nat /\ q > 0 /\ IsSplit(n, q, u)
    BY <1>1, <1>2, <2>1
  <2>3. p[i + 1] = q * Word
    <3> DEFINE j == i - 1
    <3>1. j \in Nat /\ (i + 1) - 1 = j + 1
      OBVIOUS
    <3>2. p[i + 1] = 2^((j + 1) * WordBits) /\ q = 2^(j * WordBits)
      BY <2>1, <3>1
    <3> HIDE DEF j, q, p
    <3>3. j * WordBits \in Nat /\ (j + 1) * WordBits = j * WordBits + WordBits
      BY <1>w, <3>1
    <3> QED
      BY <1>w, <3>2, <3>3, PowerAdds DEF Word
  <2>4. k \in Nat /\ IsSplit(u, Word, k) /\ s \in 0..(Word - 1) /\ u = k * Word + s
    <3> HIDE DEF u
    <3> QED
      BY <1>w, <2>2, QuotientIsSplit, WordQuotient
  <2>5. IsSplit(n, q * Word, k)
    <3> HIDE DEF q, u, k
    <3> QED
      BY <1>w, <2>2, <2>4, SplitTwice
  <2>6. F[i + 1] = k
    <3> DEFINE t == p[i + 1]
    <3>1. t \in Nat /\ t > 0 /\ F[i + 1] = n \div t
      BY <1>1, <2>1
    <3>2. IsSplit(n, t, k)
      BY <2>3, <2>5
    <3> HIDE DEF t, k, F
    <3> QED
      BY <2>4, <3>1, <3>2, SplitIsQuotient
  <2>7. c[i] = s
    BY <1>c
  <2> HIDE DEF c, F, u, k, s
  <2>8. k * Word + s = s + Word * k
    BY <1>w, <2>4
  <2> QED
    BY <2>4, <2>6, <2>7, <2>8 DEF u
<1> HIDE DEF c, F, l, p
<1>5. IsLimbs(c) /\ Len(c) = l /\ \A i \in 1..l : Limb(c, i) = c[i]
  BY <1>l, <1>c, <1>4, MadeLimbs
<1>6. IsTails(F, c, l)
  <2>1. F \in [1..(l + 1) -> Nat]
    BY <1>2, <1>f
  <2>2. \A i \in 1..l : F[i] = Limb(c, i) + Word * F[i + 1]
    BY <1>4, <1>5
  <2> QED
    BY <1>3, <2>1, <2>2 DEF IsTails
<1>7. F[1] = n
  <2>1. 2^0 = 1 /\ 1 - 1 = 0 /\ 0 * WordBits = 0 /\ 1 \in 1..(l + 1)
    BY <1>w, <1>l, PowerDoubles
  <2>2. p[1] = 1
    BY <1>1, <2>1
  <2>3. F[1] = n \div 1
    BY <2>1, <2>2 DEF F
  <2>4. n \div 1 = n
    OBVIOUS
  <2> QED
    BY <2>3, <2>4
<1>8. Value(c) = n
  <2>1. Len(c) <= l
    BY <1>l, <1>5
  <2> QED
    BY <1>l, <1>5, <1>6, <1>7, <2>1, ValueIsTail
<1> QED
  BY <1>5, <1>8, NormalizedValue DEF c

\* Numbers without leading zeros are normalized.
LEMMA BigIsNormalized ==
    ASSUME NEW a, IsBig(a)
    PROVE  a = Normalized(a)
<1>1. IsBig(Normalized(a)) /\ Value(Normalized(a)) = Value(a)
  BY NormalizedValue DEF IsBig
<1> QED
  BY <1>1, BigLessExact

\* The operands of BignumExact.
Operands(m, n, s) ==
    /\ m \in Nat /\ n \in Nat /\ n > 0 /\ m + n < 2^(4 * WordBits) /\ s \in 0..(Word - 1)

\* The big integer a, and its being n.
FourOf(n) == Normalized(FourLimbs(n))
IsNumber(a, n) == Value(a) = n /\ a = Normalized(a)

\* All of BignumExact, for any operands.
LEMMA OperandsExact ==
    ASSUME NEW m, NEW n, NEW s, Operands(m, n, s)
    PROVE  /\ IsNumber(BigAdd(FourOf(m), FourOf(n)), m + n)
           /\ IsNumber(BigSub(FourOf(m + n), FourOf(n)), m)
           /\ IsNumber(MulWord(FourOf(m), s), m * s)
           /\ IsNumber(Divmod(FourOf(m), FourOf(n)).quotient, m \div n)
           /\ IsNumber(Divmod(FourOf(m), FourOf(n)).remainder, m % n)
           /\ s > 0 => /\ IsNumber(DivmodWord(FourOf(m), s).quotient, m \div s)
                       /\ IsNumber(DivmodWord(FourOf(m), s).remainder, m % s)
<1> DEFINE a == FourOf(m)  b == FourOf(n)  c == FourOf(m + n)
<1>w. Word \in Nat /\ Word > 1
  BY WordType
<1>1. m \in Nat /\ n \in Nat /\ n > 0 /\ m + n \in Nat /\ s \in 0..(Word - 1)
      /\ m < 2^(4 * WordBits) /\ n < 2^(4 * WordBits) /\ m + n < 2^(4 * WordBits)
  <2> DEFINE p == 2^(4 * WordBits)
  <2>1. p \in Nat
    <3>1. 4 * WordBits \in Nat
      BY WordBitsAssumption
    <3> QED
      BY <3>1, PowerDoubles
  <2>2. m \in Nat /\ n \in Nat /\ n > 0 /\ m + n < p /\ s \in 0..(Word - 1)
    BY DEF Operands
  <2> HIDE DEF p
  <2>3. m < p /\ n < p /\ m + n \in Nat
    BY <2>1, <2>2
  <2> QED
    BY <2>2, <2>3 DEF p
<1>2. IsBig(a) /\ Value(a) = m
  BY <1>1, FourLimbsValue DEF FourOf
<1>3. IsBig(b) /\ Value(b) = n
  BY <1>1, FourLimbsValue DEF FourOf
<1>4. IsBig(c) /\ Value(c) = m + n
  BY <1>1, FourLimbsValue DEF FourOf
<1> HIDE DEF a, b, c
<1>5. IsLimbs(a) /\ IsLimbs(b) /\ IsLimbs(c)
  BY <1>2, <1>3, <1>4 DEF IsBig
<1>n. ASSUME NEW d, NEW v, IsBig(d), Value(d) = v PROVE IsNumber(d, v)
  BY <1>n, BigIsNormalized DEF IsNumber
<1>6. IsNumber(BigAdd(a, b), m + n)
  <2>1. IsBig(BigAdd(a, b)) /\ Value(BigAdd(a, b)) = m + n
    BY <1>2, <1>3, <1>5, BigAddExact
  <2> QED
    BY <1>n, <2>1
<1>7. IsNumber(BigSub(c, b), m)
  <2>1. Value(b) <= Value(c)
    BY <1>1, <1>3, <1>4
  <2>2. Len(b) <= Len(c)
    <3>1. ~(Value(c) < Value(b))
      BY <1>1, <1>3, <1>4
    <3>2. ~BigLess(c, b)
      BY <1>3, <1>4, <3>1, BigLessExact
    <3>3. ~(Len(c) < Len(b))
      BY <3>2 DEF BigLess
    <3> DEFINE lb == Len(b)  lc == Len(c)
    <3>4. lb \in Nat /\ lc \in Nat /\ ~(lc < lb)
      BY <1>5, <3>3, LimbType
    <3> HIDE DEF lb, lc
    <3>5. lb <= lc
      BY <3>4
    <3> QED
      BY <3>5 DEF lb, lc
  <2>3. IsBig(BigSub(c, b)) /\ Value(BigSub(c, b)) = Value(c) - Value(b)
    BY <1>5, <2>1, <2>2, BigSubExact
  <2>4. (m + n) - n = m
    BY <1>1
  <2> QED
    BY <1>n, <1>3, <1>4, <2>3, <2>4
<1>8. IsNumber(MulWord(a, s), m * s)
  <2>1. IsBig(MulWord(a, s)) /\ Value(MulWord(a, s)) = m * s
    BY <1>1, <1>2, <1>5, MulWordExact
  <2> QED
    BY <1>n, <2>1
<1>9. /\ IsNumber(Divmod(a, b).quotient, m \div n)
      /\ IsNumber(Divmod(a, b).remainder, m % n)
  <2>1. b # <<>>
    BY <1>1, <1>3, EmptyValue
  <2>2. /\ IsBig(Divmod(a, b).quotient) /\ IsBig(Divmod(a, b).remainder)
        /\ Value(Divmod(a, b).quotient) = m \div n /\ Value(Divmod(a, b).remainder) = m % n
    BY <1>2, <1>3, <2>1, DivmodExact
  <2> QED
    BY <1>n, <2>2
<1>10. ASSUME s > 0
       PROVE  /\ IsNumber(DivmodWord(a, s).quotient, m \div s)
              /\ IsNumber(DivmodWord(a, s).remainder, m % s)
  <2>1. s \in 1..(Word - 1)
    BY <1>1, <1>10, <1>w
  <2>2. /\ IsBig(DivmodWord(a, s).quotient) /\ IsBig(DivmodWord(a, s).remainder)
        /\ Value(DivmodWord(a, s).quotient) = m \div s
        /\ Value(DivmodWord(a, s).remainder) = m % s
    BY <1>2, <1>5, <2>1, DivmodWordExact
  <2> QED
    BY <1>n, <2>2
<1> QED
  BY <1>6, <1>7, <1>8, <1>9, <1>10 DEF a, b, c

\* Montgomery reduction and multiplication, for every value of the walk.
LEMMA MontgomeryHolds == x \in Nat => MontgomeryExact
<1> SUFFICES ASSUME x \in Nat, NEW m \in {n \in 3..(MontgomeryMax - 1) : n % 2 = 1}
             PROVE  /\ x < m * Word => (Redc(x, m) * Word - x) % m = 0 /\ Redc(x, m) < m
                    /\ MontgomeryMul(x % m, (x \div m) % m, m)
                           = ((x % m) * ((x \div m) % m)) % m
  BY DEF MontgomeryExact
<1> DEFINE y == x
<1>y. y \in Nat
  OBVIOUS
<1>1. m \in 3..(MontgomeryMax - 1) /\ m % 2 = 1 /\ m \in Nat /\ m > 0
  BY MontgomeryModulus
<1> HIDE DEF y
<1>2. ASSUME y < m * Word PROVE (Redc(y, m) * Word - y) % m = 0 /\ Redc(y, m) < m
  <2>1. Reduces(y, m)
    BY <1>1, <1>2, <1>y DEF Reduces
  <2>2. Redc(y, m) \in 0..(m - 1) /\ \E k \in Int : Redc(y, m) * Word = y + k * m
    BY <2>1, RedcExact
  <2> DEFINE r == Redc(y, m)  rw == r * Word
  <2>3. PICK k \in Int : rw = y + k * m
    BY <2>2
  <2> DEFINE km == k * m  z == 0
  <2>4. km \in Int /\ rw = y + km
    BY <1>1, <2>3
  <2> HIDE DEF rw, km
  <2>5. rw - y = km
    BY <1>y, <2>4
  <2>6. z \in 0..(m - 1) /\ k * m + z = k * m
    BY <1>1
  <2> HIDE DEF z, r
  <2>7. (k * m + z) % m = z
    BY <1>1, <2>6, QuotientUnique
  <2>8. (rw - y) % m = 0
    BY <2>5, <2>6, <2>7 DEF km, z
  <2>9. r < m
    BY <1>1, <2>2 DEF r
  <2> QED
    BY <2>8, <2>9 DEF rw, r
<1>3. MontgomeryMul(y % m, (y \div m) % m, m) = ((y % m) * ((y \div m) % m)) % m
  <2> DEFINE a == y % m  h == y \div m  b == h % m
  <2>1. a \in 0..(m - 1) /\ h \in Nat
    BY <1>1, <1>y, WordQuotient
  <2> HIDE DEF h
  <2>2. b \in 0..(m - 1)
    BY <1>1, <2>1, WordQuotient
  <2> HIDE DEF a, b
  <2>3. MontgomeryMul(a, b, m) = (a * b) % m
    BY <1>1, <2>1, <2>2, MontgomeryMulExact
  <2> QED
    BY <2>3 DEF a, b, h
<1> QED
  BY <1>2, <1>3 DEF y

\* The big integers, for every value of the walk.
LEMMA BignumHolds == x \in 0..(Cases - 1) => BignumExact
<1> SUFFICES ASSUME x \in 0..(Cases - 1) PROVE BignumExact
  OBVIOUS
<1> DEFINE m == x * x  n == 37 * x + Word  s == x % Word
<1>1. Operands(m, n, s)
  <2> DEFINE p == 2^(4 * WordBits)  y == x  cc == Cases * Cases
  <2>1. y \in Nat /\ Cases \in Nat /\ y <= Cases - 1 /\ Word \in Nat /\ Word > 1
    BY CasesAssumption, WordType
  <2>2. p \in Nat /\ cc + 37 * Cases + Word <= p
    <3>1. 4 * WordBits \in Nat
      BY WordBitsAssumption
    <3> QED
      BY <3>1, PowerDoubles, RingCasesAssumption
  <2>3. s \in 0..(Word - 1)
    BY <2>1, WordQuotient
  <2> HIDE DEF p, y, s
  <2>4. y * y \in Nat /\ y * y <= cc /\ cc \in Nat
    <3>1. y * y <= y * Cases /\ y * Cases <= Cases * Cases
      BY <2>1
    <3>2. y * y \in Nat /\ y * Cases \in Nat /\ Cases * Cases \in Nat
      BY <2>1
    <3> DEFINE yy == y * y  yc == y * Cases
    <3>3. yy \in Nat /\ yc \in Nat /\ cc \in Nat /\ yy <= yc /\ yc <= cc
      BY <3>1, <3>2
    <3> HIDE DEF yy, yc, cc
    <3>4. yy \in Nat /\ yy <= cc /\ cc \in Nat
      BY <3>3
    <3> QED
      BY <3>4 DEF yy
  <2> DEFINE yy == y * y  nn == 37 * y + Word
  <2>5. yy \in Nat /\ yy <= cc /\ cc \in Nat
    BY <2>4
  <2> HIDE DEF yy, cc
  <2>6. nn \in Nat /\ nn > 0 /\ yy + nn < p
    BY <2>1, <2>2, <2>5
  <2>7. m = yy /\ n = nn
    BY DEF yy, y
  <2> HIDE DEF m, n, nn
  <2> QED
    BY <2>3, <2>5, <2>6, <2>7 DEF Operands, p
<1> HIDE DEF m, n, s
<1>2. /\ IsNumber(BigAdd(FourOf(m), FourOf(n)), m + n)
      /\ IsNumber(BigSub(FourOf(m + n), FourOf(n)), m)
      /\ IsNumber(MulWord(FourOf(m), s), m * s)
      /\ IsNumber(Divmod(FourOf(m), FourOf(n)).quotient, m \div n)
      /\ IsNumber(Divmod(FourOf(m), FourOf(n)).remainder, m % n)
      /\ s > 0 => /\ IsNumber(DivmodWord(FourOf(m), s).quotient, m \div s)
                  /\ IsNumber(DivmodWord(FourOf(m), s).remainder, m % s)
  BY <1>1, OperandsExact
<1> QED
  BY <1>2 DEF BignumExact, IsNumber, FourOf, FourLimbs, m, n, s


-----------------------------------------------------------------------------
(* The bases of RnsCases.                                                   *)

LEMMA ModuliInvert == Inverts(T) /\ \A i \in DOMAIN QP : Inverts(QP[i])
<1>1. ASSUME NEW q, IsPrime(q) PROVE Inverts(q)
  <2> SUFFICES ASSUME NEW a \in 1..(q - 1)
               PROVE  InvMod(a, q) \in 0..(q - 1) /\ (a * InvMod(a, q)) % q = 1
    BY DEF Inverts
  <2>1. q \in Nat /\ q > 1
    BY <1>1 DEF IsPrime
  <2>2. a \in Nat /\ a % q # 0
    BY <2>1
  <2> QED
    BY <1>1, <2>2, InvModInverts
<1>2. IsPrime(T)
  BY RnsAssumption, PrimeAssumption DEF IsPrime
<1>3. ASSUME NEW i \in DOMAIN QP PROVE IsPrime(QP[i])
  <2>1. QP \in Seq(Nat)
    BY RnsAssumption DEF QP
  <2>2. QP[i] \in Nat
    BY <2>1
  <2> QED
    BY <2>2, PrimeAssumption DEF IsPrime
<1> QED
  BY <1>1, <1>2, <1>3

\* The moduli of RnsCases are a basis of distinct primes.
LEMMA QPIsBasis == IsBasis(QP)
<1>1. QP \in Seq(Nat) /\ DOMAIN QP = 1..Len(QP)
  BY RnsAssumption DEF QP
<1>2. \A i \in 1..Len(QP) : QP[i] > 1 /\ Inverts(QP[i]) /\ QP[i] \in Nat
  BY <1>1, PrimeAssumption, ModuliInvert
<1>3. ASSUME NEW i \in 1..Len(QP), NEW j \in 1..Len(QP), i # j PROVE QP[i] % QP[j] # 0
  <2> DEFINE p == QP[i]  q == QP[j]
  <2>1. /\ p \in Nat /\ p > 1 /\ q \in Nat /\ q > 1 /\ q # p
        /\ \A d \in 2..(p - 1) : p % d # 0
    BY <1>1, <1>2, <1>3, PrimeAssumption
  <2> HIDE DEF p, q
  <2>2. p % q # 0
    BY <2>1, DistinctPrimes
  <2> QED
    BY <2>2 DEF p, q
<1> QED
  BY <1>1, <1>2, <1>3 DEF IsBasis

\* The parts of QP, and what their products have to do with each other.
LEMMA Bases ==
    /\ IsBasis(QBasis) /\ IsBasis(PBasis) /\ IsBasis(QFirst)
    /\ QBasis \in Seq(Nat) /\ PBasis \in Seq(Nat) /\ QFirst \in Seq(Nat)
    /\ Len(QFirst) = Len(QBasis) - 1
    /\ \A j \in 1..Len(QFirst) : QFirst[j] = QBasis[j]
    /\ QProduct \in Nat /\ QProduct > 0 /\ PProduct \in Nat /\ PProduct > 0
    /\ BasisProduct(QP) = QProduct * PProduct /\ Cases = QProduct * PProduct
    /\ QLast \in Nat /\ QLast > 1 /\ Inverts(QLast)
    /\ BasisProduct(QFirst) \in Nat /\ BasisProduct(QFirst) > 0
    /\ QProduct = BasisProduct(QFirst) * QLast
<1>1. QBasis \in Seq(Nat) /\ PBasis \in Seq(Nat) /\ Len(QBasis) > 1 /\ Len(QBasis) \in Nat
  BY RnsAssumption
<1>2. IsBasis(QBasis) /\ IsBasis(PBasis)
  BY <1>1, QPIsBasis, BasisParts DEF QP
<1>3. /\ QFirst \in Seq(Nat) /\ Len(QFirst) = Len(QBasis) - 1
      /\ \A j \in 1..Len(QFirst) : QFirst[j] = QBasis[j]
      /\ <<QLast>> \in Seq(Nat) /\ QLast \in Nat
      /\ QBasis = QFirst \o <<QLast>>
  <2> DEFINE b == QBasis  n == Len(b)
  <2>0. b \in Seq(Nat) /\ n = Len(b) /\ n > 1 /\ n \in Nat
    BY <1>1
  <2>1. QFirst = SubSeq(b, 1, n - 1) /\ QLast = b[n]
    BY DEF QFirst, QLast
  <2> HIDE DEF b, n
  <2>2. /\ SubSeq(b, 1, n - 1) \in Seq(Nat) /\ Len(SubSeq(b, 1, n - 1)) = n - 1
        /\ \A j \in 1..(n - 1) : SubSeq(b, 1, n - 1)[j] = b[j]
    BY <2>0
  <2>3. b[n] \in Nat /\ <<b[n]>> \in Seq(Nat)
    BY <2>0
  <2>4. b = SubSeq(b, 1, n - 1) \o <<b[n]>>
    BY <2>0
  <2> QED
    BY <2>1, <2>2, <2>3, <2>4 DEF b, n
<1>4. IsBasis(QFirst) /\ IsBasis(<<QLast>>)
  BY <1>2, <1>3, BasisParts
<1>5. /\ QProduct \in Nat /\ QProduct > 0 /\ PProduct \in Nat /\ PProduct > 0
      /\ BasisProduct(QFirst) \in Nat /\ BasisProduct(QFirst) > 0
  BY <1>2, <1>4, ProductFacts DEF QProduct, PProduct
<1>6. BasisProduct(QP) = QProduct * PProduct
  BY <1>1, ProductConcat DEF QP, QProduct, PProduct
<1>7. QProduct = BasisProduct(QFirst) * QLast
  <2>1. QFirst \in Seq(Int) /\ <<QLast>> \in Seq(Int) /\ QLast \in Int
    BY <1>3
  <2>2. BasisProduct(QFirst \o <<QLast>>) = BasisProduct(QFirst) * BasisProduct(<<QLast>>)
    BY <2>1, ProductConcat
  <2> QED
    BY <2>1, <2>2, <1>3, ProductSingle DEF QProduct
<1>8. QLast > 1 /\ Inverts(QLast)
  BY <1>1, <1>2 DEF IsBasis, QLast
<1>9. Cases = QProduct * PProduct
  BY <1>6, RnsAssumption DEF QP
<1> QED
  BY <1>1, <1>2, <1>3, <1>4, <1>5, <1>6, <1>7, <1>8, <1>9

\* Residues determine the value, whatever basis they go through.
LEMMA RepresentationHolds ==
    ASSUME x \in 0..(Cases - 1)
    PROVE  RepresentationExact
<1> DEFINE M == BasisProduct(QP)
<1>1. /\ IsBasis(QP) /\ M \in Nat /\ M > 0 /\ M = QProduct * PProduct /\ x \in 0..(M - 1)
      /\ QProduct \in Nat /\ QProduct > 0 /\ PProduct \in Nat /\ PProduct > 0
  <2>1. /\ M = QProduct * PProduct /\ M = Cases
        /\ QProduct \in Nat /\ QProduct > 0 /\ PProduct \in Nat /\ PProduct > 0
    BY Bases
  <2> HIDE DEF M
  <2>2. M \in Nat /\ M > 0 /\ x \in 0..(M - 1)
    BY <2>1
  <2> QED
    BY <2>1, <2>2, QPIsBasis
<1>2. TrueValue(Residues, QP) = x /\ CentredValue(Residues, QP) = Centred
  BY <1>1, DecomposeOfValue DEF Residues, Centred
<1>3. ASSUME x < QProduct
      PROVE  CentredValue(ExtendBasisCentred(Decompose(x, QBasis), QBasis, QP), QP)
                 = Centre(x, QProduct)
  <2> DEFINE c == Centre(x, QProduct)
  <2>1. x \in 0..(QProduct - 1)
    BY <1>1, <1>3
  <2>2. c \in Int /\ 2 * c <= QProduct /\ -QProduct < 2 * c
    BY <1>1, <2>1, CentreBounds
  <2>3. CentredValue(Decompose(x, QBasis), QBasis) = c
    BY <2>1, Bases, DecomposeOfValue DEF QProduct
  <2> HIDE DEF c
  <2>4. QProduct <= M
    BY <1>1
  <2> HIDE DEF M
  <2>5. Centre(c % M, M) = c
    <3>1. M \in Nat /\ M > 0 /\ c \in Int /\ 2 * c <= M /\ -M < 2 * c
      BY <1>1, <2>2, <2>4
    <3> QED
      BY <3>1, CentreOfResidue
  <2>6. CentredValue(Decompose(c, QP), QP) = Centre(c % M, M)
    BY <1>1, <2>2, TrueValueExact DEF CentredValue, M
  <2>7. ExtendBasisCentred(Decompose(x, QBasis), QBasis, QP) = Decompose(c, QP)
    BY <2>3 DEF ExtendBasisCentred
  <2> QED
    BY <2>5, <2>6, <2>7 DEF c
<1>4. ASSUME NEW j \in DOMAIN QP
      PROVE  SumOf([i \in DOMAIN QP |-> CrtLiftConstant(QP, i, QP)[j] * Residues[i]]) % QP[j]
                 = Residues[j]
  <2>1. j \in 1..Len(QP) /\ x \in Int
    BY <1>1 DEF IsBasis
  <2> QED
    BY <1>1, <2>1, LiftsSum DEF Residues
<1> QED
  BY <1>2, <1>3, <1>4 DEF RepresentationExact

\* What is left of the product is a unit modulo the others: dividing by it is
\* possible.
LEMMA AuxiliaryUnits ==
    ASSUME NEW j \in 1..Len(QBasis)
    PROVE  IsUnit(PProduct, QBasis[j])
<1> DEFINE q == QBasis[j]  h == Hat(QBasis, j)  g == Hat(QP, j)
<1>1. j \in 1..Len(QP) /\ QP[j] = q /\ q \in Nat /\ q > 1
  <2>1. QBasis \in Seq(Nat) /\ PBasis \in Seq(Nat)
    BY Bases
  <2>2. j \in 1..Len(QP) /\ QP[j] = q
    BY <2>1 DEF QP
  <2>3. q \in Nat /\ q > 1
    <3>1. IsBasis(QBasis)
      BY Bases
    <3>2. \A i \in 1..Len(QBasis) : QBasis[i] \in Nat /\ QBasis[i] > 1
      BY <2>1, <3>1 DEF IsBasis
    <3> QED
      BY <3>2
  <2> QED
    BY <2>2, <2>3
<1>2. g \in Nat /\ BasisProduct(QP) = g * q /\ IsUnit(g, q)
  BY <1>1, QPIsBasis, HatFacts
<1>3. h \in Nat /\ QProduct = h * q
  BY Bases, HatFacts DEF QProduct
<1>4. BasisProduct(QP) = QProduct * PProduct /\ PProduct \in Nat
  BY Bases
<1> HIDE DEF g, h, q
<1>5. g * q = (h * PProduct) * q
  BY <1>1, <1>2, <1>3, <1>4
<1>6. g = h * PProduct
  <2> DEFINE u == h * PProduct
  <2>1. u \in Nat /\ g * q = u * q
    BY <1>3, <1>4, <1>5
  <2> HIDE DEF u
  <2>2. g = u
    BY <1>1, <1>2, <2>1
  <2> QED
    BY <2>2 DEF u
<1>7. IsUnit(h * PProduct, q)
  BY <1>2, <1>6
<1>8. IsUnit(PProduct, q)
  <2>1. h \in Int /\ PProduct \in Int /\ q \in Int
    BY <1>1, <1>3, <1>4
  <2> QED
    BY <1>7, <2>1, UnitFactor
<1> QED
  BY <1>8 DEF q

\* mod_down on residues is the decomposition of the floor.
LEMMA ModDownHolds ==
    ASSUME x \in 0..(Cases - 1)
    PROVE  ModDownIsFloor
<1> DEFINE P == PProduct
           y == x \div P
<1>1. /\ x \in Nat /\ P \in Nat /\ P > 0 /\ QProduct \in Nat /\ QProduct > 0
      /\ x < QProduct * P
      /\ QBasis \in Seq(Nat) /\ PBasis \in Seq(Nat) /\ IsBasis(QBasis) /\ IsBasis(PBasis)
  BY Bases
<1>2. /\ Len(Residues) = Len(QBasis) + Len(PBasis)
      /\ \A j \in 1..Len(QBasis) : Residues[j] = x % QBasis[j]
      /\ SubSeq(Residues, Len(QBasis) + 1, Len(Residues)) = Decompose(x, PBasis)
  BY <1>1 DEF Residues, Decompose, QP
<1>3. TrueValue(Decompose(x, PBasis), PBasis) = x % P
  BY <1>1, TrueValueExact DEF PProduct
<1>4. \A j \in 1..Len(QBasis) :
         ExtendBasis(Decompose(x, PBasis), PBasis, QBasis)[j] = (x % P) % QBasis[j]
  <2>1. DOMAIN QBasis = 1..Len(QBasis)
    BY <1>1
  <2> QED
    BY <2>1, <1>3 DEF ExtendBasis, Decompose
<1>5. y \in Nat /\ y < QProduct
  <2>1. y \in Nat /\ x % P \in 0..(P - 1) /\ x = y * P + (x % P)
    <3>1. x \in Int /\ x >= 0
      BY <1>1
    <3> HIDE DEF P
    <3>2. x \div P \in Int /\ x % P \in 0..(P - 1) /\ x = (x \div P) * P + (x % P)
      BY <1>1, <3>1, Quotient
    <3>3. x \div P \in Nat
      BY <1>1, <3>1, QuotientNat
    <3> QED
      BY <3>2, <3>3
  <2> DEFINE r == x % P
  <2>2. r \in Nat /\ x = y * P + r
    BY <2>1
  <2> HIDE DEF y, r, P
  <2> SUFFICES ASSUME y >= QProduct PROVE FALSE
    BY <1>1, <2>1
  <2>3. y * P >= QProduct * P
    BY <1>1, <2>1
  <2> QED
    BY <1>1, <2>1, <2>2, <2>3
<1>6. ASSUME NEW j \in 1..Len(QBasis)
      PROVE  ModDown(Residues, QBasis, PBasis)[j] = y % QBasis[j]
  <2> DEFINE q == QBasis[j]
             d == SubMod(x % q, (x % P) % q, q)
  <2>1. q \in Nat /\ q > 1 /\ q > 0 /\ Inverts(q) /\ IsUnit(P, q)
    BY <1>1, AuxiliaryUnits DEF IsBasis
  <2>2. ModDown(Residues, QBasis, PBasis)[j] = MulMod(d, InvMod(P % q, q), q)
    <3>1. j \in DOMAIN QBasis
      BY <1>1
    <3>2. ModDown(Residues, QBasis, PBasis)[j] =
              MulMod(SubMod(Residues[j],
                            ExtendBasis(Decompose(x, PBasis), PBasis, QBasis)[j], q),
                     InvMod(P % q, q), q)
      BY <1>2, <3>1 DEF ModDown, PProduct
    <3> QED
      BY <1>2, <1>4, <3>2
  <2> HIDE DEF q, P
  <2>3. d \in Int /\ Cong(d, P * (x \div P), q)
    BY <1>1, <2>1, FloorCong
  <2> HIDE DEF d
  <2>4. y \in Int /\ Cong(d, P * y, q) /\ P \in Int
    BY <1>1, <1>5, <2>3
  <2> HIDE DEF y
  <2>5. MulMod(d, InvMod(P % q, q), q) = y % q
    BY <2>1, <2>3, <2>4, DivideResidue
  <2> QED
    BY <2>2, <2>5 DEF q
<1>7. ModDown(Residues, QBasis, PBasis) = Decompose(y, QBasis)
  <2>1. DOMAIN QBasis = 1..Len(QBasis)
    BY <1>1
  <2> HIDE DEF y
  <2> QED
    BY <1>6, <2>1 DEF ModDown, Decompose
<1>8. TrueValue(Decompose(y, QBasis), QBasis) = y
  <2>1. y \in 0..(BasisProduct(QBasis) - 1)
    BY <1>1, <1>5 DEF QProduct
  <2> HIDE DEF y
  <2> QED
    BY <1>1, <2>1, DecomposeOfValue
<1> QED
  BY <1>7, <1>8 DEF ModDownIsFloor

\* The last modulus is a prime other than t.
LEMMA LastIsUnit == IsUnit(QLast, T)
<1>1. Len(QBasis) \in DOMAIN QP /\ QP[Len(QBasis)] = QLast
  <2>1. QBasis \in Seq(Nat) /\ PBasis \in Seq(Nat) /\ Len(QBasis) > 1
    BY RnsAssumption
  <2> QED
    BY <2>1 DEF QP, QLast
<1> DEFINE p == QLast
<1>2. /\ \A e \in 2..(p - 1) : p % e # 0
      /\ T # p
  BY <1>1, PrimeAssumption
<1> HIDE DEF p
<1>3. p \in Nat /\ p > 1
  BY Bases DEF p
<1>5. T \in Nat /\ T > 1 /\ Inverts(T)
  BY RnsAssumption, ModuliInvert
<1>4. p % T # 0
  BY <1>2, <1>3, <1>5, DistinctPrimes
<1> QED
  BY <1>3, <1>4, <1>5, UnitOfResidue DEF p

\* modulus_switch_down finds (x + correction) / qLast.
LEMMA SwitchHolds ==
    ASSUME x \in 0..(Cases - 1)
    PROVE  SwitchKeepsResidueModT
<1> SUFFICES ASSUME x < QProduct
             PROVE  LET got == TrueValue(ModulusSwitchDown(Decompose(x, QBasis), QBasis, T),
                                         QFirst)
                        F == BasisProduct(QFirst)
                    IN  \E m \in 0..((F + T) \div F) :
                            LET y == got + m * F
                            IN  /\ y % T = x % T
                                /\ QLast * y - x \in 0..(QLast * T - 1)
  BY DEF SwitchKeepsResidueModT
<1> DEFINE F == BasisProduct(QFirst)
<1>1. /\ QBasis \in Seq(Nat) /\ IsBasis(QBasis) /\ Len(QBasis) > 1
      /\ QFirst \in Seq(Nat) /\ IsBasis(QFirst)
      /\ QLast \in Nat /\ QLast > 1
      /\ F \in Nat /\ F > 0 /\ QProduct = F * QLast /\ QProduct \in Nat
      /\ T \in Nat /\ T > 1 /\ T > 0 /\ x \in Nat /\ x < F * QLast
  BY Bases, RnsAssumption
<1> HIDE DEF F
<1>2. InvertsIn(QLast, T)
  <2>1. QLast % T # 0
    BY <1>1, LastIsUnit, UnitNonzero
  <2> QED
    BY <1>1, <2>1, ModuliInvert, UnitOfResidue DEF InvertsIn
<1>3. PICK y \in Int :
          /\ ModulusSwitchDown(Decompose(x, QBasis), QBasis, T) = Decompose(y, QFirst)
          /\ QLast * y - x \in 0..(QLast * T - 1)
          /\ y % T = x % T
  <2>1. x \in 0..(BasisProduct(QBasis) - 1)
    BY <1>1 DEF QProduct
  <2>2. InvertsIn(QBasis[Len(QBasis)], T)
    BY <1>2 DEF QLast
  <2>3. \E y \in Int :
           /\ ModulusSwitchDown(Decompose(x, QBasis), QBasis, T)
                  = Decompose(y, DropLast(QBasis))
           /\ QBasis[Len(QBasis)] * y - x \in 0..(QBasis[Len(QBasis)] * T - 1)
           /\ y % T = x % T
    BY <1>1, <2>1, <2>2, SwitchDown
  <2> QED
    BY <2>3 DEF QFirst, QLast, DropLast
<1>4. y \in Nat /\ y < F + T
  <2>1. y * QLast >= 0 /\ y * QLast < (F + T) * QLast
    <3> DEFINE C == QLast * y - x
    <3>1. (F + T) * QLast = F * QLast + QLast * T
      BY <1>1
    <3>2. C \in Int /\ C >= 0 /\ C < QLast * T
      BY <1>1, <1>3
    <3>3. y * QLast = x + C
      BY <1>1, <3>2
    <3> HIDE DEF C
    <3> DEFINE yq == y * QLast  fq == F * QLast  tq == QLast * T  all == (F + T) * QLast
    <3>4. /\ yq \in Int /\ fq \in Int /\ tq \in Int /\ all \in Int
          /\ all = fq + tq /\ yq = x + C /\ C >= 0 /\ C < tq /\ x < fq
      BY <1>1, <3>1, <3>2, <3>3
    <3> HIDE DEF yq, fq, tq, all
    <3>5. yq >= 0 /\ yq < all
      BY <1>1, <3>2, <3>4
    <3> QED
      BY <3>5 DEF yq, all
  <2>2. y >= 0
    <3> SUFFICES ASSUME y <= -1 PROVE FALSE
      OBVIOUS
    <3>1. y * QLast <= (-1) * QLast
      BY <1>1
    <3> QED
      BY <1>1, <2>1, <3>1
  <2>3. y < F + T
    <3> SUFFICES ASSUME y >= F + T PROVE FALSE
      BY <1>1
    <3>1. y * QLast >= (F + T) * QLast
      BY <1>1
    <3> QED
      BY <1>1, <2>1, <3>1
  <2> QED
    BY <2>2, <2>3
<1>7. TrueValue(Decompose(y, QFirst), QFirst) = y % F
  BY <1>1, TrueValueExact DEF F
<1> DEFINE m == y \div F
<1>8. m \in 0..((F + T) \div F) /\ y = (y % F) + m * F
  <2>1. m \in Int /\ y = m * F + (y % F) /\ y % F \in 0..(F - 1)
    BY <1>1, Quotient
  <2>2. m >= 0 /\ m <= (F + T) \div F
    <3> DEFINE n == (F + T) \div F  s == (F + T) % F  e == y % F
    <3>1. n \in Int /\ F + T = n * F + s /\ s \in 0..(F - 1)
      <4>1. F + T \in Int
        BY <1>1
      <4> QED
        BY <1>1, <4>1, Quotient
    <3>2. y = m * F + e /\ e \in 0..(F - 1) /\ m \in Int
      BY <2>1
    <3> HIDE DEF n, s, e, m
    <3>3. m >= 0
      <4> SUFFICES ASSUME m <= -1 PROVE FALSE
        BY <3>2
      <4>1. m * F <= (-1) * F
        BY <1>1, <3>2
      <4> QED
        <5>1. y <= -1
          <6>1. (-1) * F = -F /\ m * F \in Int
            BY <1>1, <3>2
          <6> QED
            <7> DEFINE w == m * F
            <7>1. w \in Int /\ w <= -F /\ y = w + e /\ e \in 0..(F - 1) /\ F \in Int
              BY <1>1, <3>2, <4>1, <6>1
            <7> HIDE DEF w
            <7> QED
              BY <7>1
        <5> QED
          BY <1>4, <5>1
    <3>4. m <= n
      <4> SUFFICES ASSUME m >= n + 1 PROVE FALSE
        BY <3>1, <3>2
      <4>1. m * F >= (n + 1) * F /\ (n + 1) * F = n * F + F
        BY <1>1, <3>1, <3>2
      <4> DEFINE mf == m * F  nf == n * F
      <4>2. /\ mf \in Int /\ nf \in Int /\ mf >= nf + F /\ y = mf + e /\ e >= 0 /\ e \in Int
            /\ F + T = nf + s /\ s \in Int /\ s < F
        BY <1>1, <3>1, <3>2, <4>1
      <4> HIDE DEF mf, nf
      <4> QED
        BY <1>1, <1>4, <4>2
    <3> QED
      BY <3>3, <3>4 DEF n
  <2>3. (F + T) \div F \in Int
    BY <1>1
  <2> QED
    BY <1>1, <2>1, <2>2, <2>3
<1> HIDE DEF m
<1> QED
  BY <1>3, <1>7, <1>8 DEF F

\* rescale_and_round: the residues of the rounded value.
LEMMA RescaleHolds ==
    ASSUME x \in 0..(Cases - 1)
    PROVE  RescaleIsNearest
<1> DEFINE c == Centred
           Q == QProduct
           R == Rounded(c, T, Q)
           got == CentredValue(RescaleAndRound(Residues, QBasis, PBasis, T), QBasis)
<1>1. /\ QBasis \in Seq(Nat) /\ IsBasis(QBasis) /\ Q \in Nat /\ Q > 1 /\ Q > 0
      /\ T \in Nat /\ T > 1 /\ QProduct \in Nat /\ PProduct \in Nat /\ PProduct > 0
      /\ x \in 0..(QProduct * PProduct - 1)
      /\ QProduct * PProduct = BasisProduct(QP) /\ IsBasis(QP)
      /\ Q = BasisProduct(QBasis)
  <2>1. QProduct > 1
    <3>1. /\ BasisProduct(QFirst) \in Nat /\ BasisProduct(QFirst) > 0 /\ QLast \in Nat
          /\ QLast > 1 /\ QProduct = BasisProduct(QFirst) * QLast
      BY Bases
    <3> DEFINE F == BasisProduct(QFirst)
    <3> HIDE DEF F
    <3>2. F * QLast >= 1 * QLast
      BY <3>1 DEF F
    <3> QED
      BY <3>1, <3>2 DEF F
  <2> QED
    BY <2>1, Bases, QPIsBasis, RnsAssumption DEF QProduct
<1>2. c \in Int /\ CentredValue(Residues, QP) = c
  <2>1. BasisProduct(QP) \in Nat /\ BasisProduct(QP) > 0
    BY <1>1, ProductFacts
  <2>2. CentredValue(Residues, QP) = c
    BY <1>1, DecomposeOfValue DEF Residues, Centred
  <2>3. c \in Int
    BY <1>1, <2>1, CentreBounds DEF Centred
  <2> QED
    BY <2>2, <2>3
<1> HIDE DEF c, Q
<1>3. R \in Int /\ 2 * (c * T - R * Q) <= Q /\ -Q <= 2 * (c * T - R * Q)
  BY <1>1, <1>2, RoundedNear
<1>4. RescaleAndRound(Residues, QBasis, PBasis, T) = Decompose(R, QBasis)
  <2>1. ASSUME NEW j \in DOMAIN QBasis
        PROVE  RescaleAndRound(Residues, QBasis, PBasis, T)[j] = R % QBasis[j]
    <3>1. QBasis[j] \in Nat /\ QBasis[j] > 0
      <4>1. j \in 1..Len(QBasis)
        BY <1>1
      <4> QED
        BY <1>1, <4>1, BasisUnits
    <3>2. RescaleAndRound(Residues, QBasis, PBasis, T)[j] = ScaledResidue(c, T, Q, QBasis[j])
      BY <1>1, <1>2 DEF RescaleAndRound, QP
    <3> QED
      BY <1>1, <1>2, <3>1, <3>2, ScaledResidueIs
  <2> HIDE DEF R
  <2> QED
    BY <2>1 DEF RescaleAndRound, Decompose
<1> HIDE DEF R
<1>5. got \in Int /\ Cong(got, R, Q)
  <2> DEFINE r == R % Q
  <2>1. r \in 0..(Q - 1) /\ Cong(r, R, Q) /\ r \in Int
    <3>1. R % Q \in 0..(Q - 1) /\ Cong(R % Q, R, Q)
      BY <1>1, <1>3, CongOfMod
    <3> QED
      BY <3>1
  <2>2. TrueValue(Decompose(R, QBasis), QBasis) = r
    BY <1>1, <1>3, TrueValueExact
  <2>3. got = Centre(r, Q)
    BY <1>1, <1>4, <2>2 DEF CentredValue
  <2> HIDE DEF r, got
  <2>4. got \in Int /\ Cong(got, r, Q)
    BY <1>1, <2>1, <2>3, CentreBounds
  <2> QED
    BY <1>1, <1>3, <2>1, <2>4, CongTrans
<1> HIDE DEF got
<1> DEFINE e == R * Q - c * T
           M == Q * Q
           w == got * Q - c * T
<1>6. PICK k \in Int : got = R + k * Q
  BY <1>5 DEF Cong
<1>7. e \in Int /\ w \in Int /\ M \in Nat /\ M > 0 /\ w = e + k * M
  <2>1. got * Q = R * Q + k * (Q * Q)
    <3>1. (R + k * Q) * Q = R * Q + k * (Q * Q)
      BY <1>1, <1>3
    <3> QED
      BY <1>6, <3>1
  <2> DEFINE u == R * Q  v == c * T  z == got * Q  y == k * (Q * Q)
  <2>2. u \in Int /\ v \in Int /\ z \in Int /\ y \in Int /\ z = u + y
    <3>1. T \in Int /\ Q * Q \in Int
      BY <1>1
    <3>2. k * (Q * Q) \in Int
      BY <3>1
    <3>3. R * Q \in Int /\ c * T \in Int /\ got * Q \in Int
      <4>1. R \in Int /\ c \in Int /\ got \in Int /\ Q \in Int
        BY <1>1, <1>2, <1>3, <1>5
      <4> QED
        BY <3>1, <4>1
    <3> QED
      BY <2>1, <3>2, <3>3
  <2>3. M \in Nat /\ M > 0
    BY <1>1
  <2>4. e = u - v /\ w = z - v /\ k * M = y
    OBVIOUS
  <2> HIDE DEF u, v, z, y, e, w, M
  <2> QED
    BY <2>2, <2>3, <2>4
<1>8. 2 * e <= Q /\ -Q <= 2 * e
  <2> DEFINE u == R * Q  v == c * T
  <2>1. u \in Int /\ v \in Int /\ 2 * (v - u) <= Q /\ -Q <= 2 * (v - u) /\ e = u - v
    BY <1>1, <1>2, <1>3
  <2> HIDE DEF u, v, e
  <2> QED
    BY <1>1, <2>1
<1>9. Q < M
  BY <1>1
<1> HIDE DEF e, M, w
<1>10. w % M = e % M
  <2>1. Cong(w, e, M)
    BY <1>7 DEF Cong
  <2> QED
    BY <1>7, <2>1, CongIff
<1>11. Centre(e % M, M) = e
  <2>1. 2 * e <= M /\ -M < 2 * e
    BY <1>1, <1>7, <1>8, <1>9
  <2> QED
    BY <1>7, <2>1, CentreOfResidue
<1>12. 2 * Abs(e) <= Q
  BY <1>1, <1>7, <1>8 DEF Abs
<1> QED
  BY <1>10, <1>11, <1>12 DEF RescaleIsNearest, got, c, Q, w, M

\* decode_scaled_value: with Q = Delta * T + rest, the rounded quotient of
\* (Delta * m + e) * T by Q is m while e keeps its margin.
LEMMA DecodeHolds ==
    ASSUME x \in 0..(Cases - 1)
    PROVE  DecodeFindsMessage
<1> SUFFICES ASSUME x < QProduct, NEW m \in 0..(T - 1),
                    Abs(Centre((x - Delta * m) % QProduct, QProduct)) <= Delta \div 2 - T
             PROVE  DecodeScaledValue(Decompose(x, QBasis), QBasis, T) = m
  BY DEF DecodeFindsMessage
<1> DEFINE Q == QProduct
           D == Delta
           c == Centre(x, Q)
           z == x - D * m
           e == Centre(z % Q, Q)
<1>1. /\ Q \in Nat /\ Q > 0 /\ T \in Nat /\ T > 1 /\ m \in Nat /\ m < T
      /\ IsBasis(QBasis) /\ x \in 0..(Q - 1) /\ x \in Int /\ Q = BasisProduct(QBasis)
  <2>1. Q \in Nat /\ Q > 0 /\ IsBasis(QBasis) /\ Q = BasisProduct(QBasis)
    BY Bases DEF QProduct
  <2>2. T \in Nat /\ T > 1
    BY RnsAssumption
  <2> HIDE DEF Q
  <2>3. x \in 0..(Q - 1) /\ m \in 0..(T - 1)
    <3>1. Cases \in Int
      <4>1. Cases = QProduct * PProduct /\ QProduct \in Nat /\ PProduct \in Nat
        BY Bases
      <4> QED
        BY <4>1
    <3>2. x \in Int /\ x >= 0 /\ x < Q
      BY <3>1 DEF Q
    <3> QED
      BY <2>1, <3>2
  <2> QED
    BY <2>1, <2>2, <2>3
<1>2. D \in Nat /\ \E rest \in Nat : rest < T /\ Q = D * T + rest
  <2> DEFINE d == Q \div T  rest == Q % T
  <2>1. d \in Int /\ rest \in 0..(T - 1) /\ Q = d * T + rest
    <3>1. T > 0 /\ Q \in Int
      BY <1>1
    <3> HIDE DEF Q
    <3> QED
      BY <1>1, <3>1, Quotient
  <2>2. d >= 0 /\ d \in 0..(Q - 1)
    <3>1. d >= 0
      BY <1>1
    <3> HIDE DEF d, rest, Q
    <3>2. d < Q
      <4> SUFFICES ASSUME d >= Q PROVE FALSE
        BY <1>1, <2>1
      <4>1. d * T >= Q * T /\ Q * T >= Q * 2
        BY <1>1, <2>1, <3>1
      <4>2. d * T \in Int /\ Q * T \in Int
        BY <1>1, <2>1
      <4> QED
        BY <1>1, <2>1, <4>1, <4>2
    <3> QED
      BY <1>1, <2>1, <3>1, <3>2
  <2>3. D = d
    <3>1. FloorDivideResidues(QBasis, T) = Decompose(d, QBasis)
      BY <1>1 DEF FloorDivideResidues
    <3> HIDE DEF d
    <3>2. TrueValue(Decompose(d, QBasis), QBasis) = d
      BY <1>1, <2>2, DecomposeOfValue
    <3> QED
      BY <3>1, <3>2 DEF Delta
  <2> HIDE DEF d, rest, D, Q
  <2>4. d \in Nat
    BY <2>1, <2>2
  <2>5. rest \in Nat /\ rest < T
    BY <1>1, <2>1
  <2> QED
    BY <2>1, <2>3, <2>4, <2>5
<1>3. PICK rest \in Nat : rest < T /\ Q = D * T + rest
  BY <1>2
<1>4. c \in Int /\ \E i \in Int : c = x + i * Q
  <2> HIDE DEF Q
  <2> QED
    BY <1>1, CentreBounds DEF Cong
<1>5. PICK i \in Int : c = x + i * Q
  BY <1>4
<1>6. e \in Int /\ \E j \in Int : z = e + j * Q
  <2>1. z \in Int
    BY <1>1, <1>2
  <2> HIDE DEF z, Q
  <2> DEFINE r == z % Q
  <2>2. r \in 0..(Q - 1) /\ Cong(z, r, Q) /\ r \in Int
    <3>1. z % Q \in 0..(Q - 1) /\ Cong(z, z % Q, Q)
      BY <1>1, <2>1, CongOfMod
    <3> QED
      BY <3>1
  <2> HIDE DEF r
  <2>3. Centre(r, Q) \in Int /\ Cong(Centre(r, Q), r, Q)
    BY <1>1, <2>2, CentreBounds
  <2> DEFINE f == Centre(r, Q)
  <2>4. f \in Int /\ Cong(r, f, Q) /\ Q \in Int
    BY <1>1, <2>2, <2>3, CongSym
  <2>5. e = f
    BY DEF r
  <2> HIDE DEF e, f
  <2>6. Cong(z, f, Q)
    BY <2>1, <2>2, <2>4, CongTrans
  <2> QED
    BY <2>4, <2>5, <2>6 DEF Cong
<1>7. PICK j \in Int : z = e + j * Q
  BY <1>6
<1>8. 2 * Abs(e) <= D - 2 * T
  <2>1. Abs(e) <= D \div 2 - T
    OBVIOUS
  <2>2. D \div 2 \in Int /\ 2 * (D \div 2) <= D
    BY <1>2
  <2>3. Abs(e) \in Int
    BY <1>6 DEF Abs
  <2> HIDE DEF D, e
  <2> QED
    BY <1>1, <1>2, <2>1, <2>2, <2>3
<1>9. 2 * e <= D - 2 * T /\ -(D - 2 * T) <= 2 * e
  <2> HIDE DEF D, e
  <2> QED
    BY <1>1, <1>2, <1>6, <1>8 DEF Abs
<1>10. DecodeScaledValue(Decompose(x, QBasis), QBasis, T) = ScaledResidue(c, T, Q, T)
  BY <1>1, DecomposeOfValue DEF DecodeScaledValue
<1>z. x = z + D * m
  BY <1>1, <1>2
<1> HIDE DEF Q, D, c, e, z
<1> DEFINE w == m + (i + j) * T
           R == Rounded(c, T, Q)
<1>11. w \in Int /\ c * T - w * Q = e * T - m * rest
  <2>1. w \in Int /\ c = e + D * m + (i + j) * Q
    <3>1. (i + j) * Q = i * Q + j * Q
      BY <1>1
    <3>2. i * Q \in Int /\ j * Q \in Int /\ D * m \in Int /\ (i + j) * T \in Int
      BY <1>1, <1>2
    <3>3. z \in Int
      BY <1>6, <1>7, <3>2
    <3> QED
      BY <1>1, <1>5, <1>6, <1>7, <1>z, <3>1, <3>2, <3>3
  <2> DEFINE n == i + j
  <2>2. n \in Int
    OBVIOUS
  <2> HIDE DEF n
  <2>3. c * T = e * T + (D * m) * T + (n * Q) * T
    BY <1>1, <1>2, <1>6, <2>1, <2>2 DEF n
  <2>4. (m + n * T) * Q = m * Q + (n * T) * Q
    BY <1>1, <2>2
  <2>5. m * Q = m * (D * T) + m * rest
    BY <1>1, <1>2, <1>3
  <2>6. (D * m) * T = m * (D * T) /\ (n * Q) * T = (n * T) * Q
    BY <1>1, <1>2, <2>2
  <2>7. w = m + n * T
    BY DEF n
  <2> DEFINE p1 == e * T  p2 == m * (D * T)  p3 == (n * T) * Q  p4 == m * rest
  <2>8. /\ p1 \in Int /\ p2 \in Int /\ p3 \in Int /\ p4 \in Int
        /\ c * T = p1 + p2 + p3 /\ w * Q = (p2 + p4) + p3
    <3>1. p1 \in Int /\ p4 \in Int
      BY <1>1, <1>3, <1>6
    <3>2. D * T \in Int /\ n * T \in Int
      BY <1>1, <1>2, <2>2
    <3>3. p2 \in Int /\ p3 \in Int
      BY <1>1, <3>2
    <3> QED
      BY <2>3, <2>4, <2>5, <2>6, <2>7, <3>1, <3>3
  <2> HIDE DEF p1, p2, p3, p4, w
  <2> QED
    BY <2>1, <2>8 DEF p1, p4
<1>12. 2 * (e * T - m * rest) < Q /\ -Q < 2 * (e * T - m * rest)
  <2> DEFINE p == e * T  s == m * rest  d == D * T  t == T * T
  <2>1. p \in Int /\ s \in Int /\ d \in Int /\ t \in Int /\ t > 0
    BY <1>1, <1>2, <1>3, <1>6
  <2>2. s >= 0 /\ s < t
    <3>1. m * rest >= 0
      BY <1>1, <1>3
    <3>2. m * rest <= T * rest
      BY <1>1, <1>3
    <3>3. T * rest <= T * (T - 1) /\ T * (T - 1) = t - T
      BY <1>1, <1>3
    <3> DEFINE u == T * rest
    <3>4. u \in Int /\ T > 0
      BY <1>1, <1>3
    <3>5. s >= 0 /\ s <= u /\ u <= t - T
      BY <3>1, <3>2, <3>3
    <3> HIDE DEF s, t, u
    <3> QED
      BY <1>1, <2>1, <3>4, <3>5
  <2>3. 2 * p <= d - 2 * t
    <3>1. (2 * e) * T <= (D - 2 * T) * T
      BY <1>1, <1>2, <1>6, <1>9
    <3>2. (2 * e) * T = 2 * p /\ (D - 2 * T) * T = d - 2 * t
      BY <1>1, <1>2, <1>6
    <3> QED
      BY <3>1, <3>2
  <2>4. -(d - 2 * t) <= 2 * p
    <3>1. (-(D - 2 * T)) * T <= (2 * e) * T
      BY <1>1, <1>2, <1>6, <1>9
    <3>2. (2 * e) * T = 2 * p /\ (-(D - 2 * T)) * T = -(d - 2 * t)
      BY <1>1, <1>2, <1>6
    <3> QED
      BY <3>1, <3>2
  <2>5. Q = d + rest
    BY <1>3
  <2> HIDE DEF p, s, d, t
  <2>6. 2 * (p - s) < Q /\ -Q < 2 * (p - s)
    BY <1>1, <1>3, <2>1, <2>2, <2>3, <2>4, <2>5
  <2> QED
    BY <2>6 DEF p, s
<1>13. R \in Int /\ 2 * (c * T - R * Q) <= Q /\ -Q <= 2 * (c * T - R * Q)
  BY <1>1, <1>4, RoundedNear
<1>14. R = w
  <2> DEFINE s == c * T
  <2>1. s \in Int
    BY <1>1, <1>4
  <2>2. 2 * (s - w * Q) < Q /\ -Q < 2 * (s - w * Q)
    BY <1>11, <1>12
  <2>3. 2 * (s - R * Q) <= Q /\ -Q <= 2 * (s - R * Q)
    BY <1>13
  <2> HIDE DEF s, w, R
  <2> QED
    BY <1>1, <1>11, <1>13, <2>1, <2>2, <2>3, RoundedUnique
<1>15. R % T = m
  <2> DEFINE n == i + j
  <2>1. n \in Int /\ w = n * T + m /\ m \in 0..(T - 1)
    BY <1>1
  <2> HIDE DEF n, w
  <2>2. (n * T + m) % T = m
    BY <1>1, <2>1, QuotientUnique
  <2> QED
    BY <1>14, <2>1, <2>2
<1>16. ScaledResidue(c, T, Q, T) = R % T
  <2>1. T > 0
    BY <1>1
  <2> QED
    BY <1>1, <1>4, <2>1, ScaledResidueIs
<1> QED
  BY <1>10, <1>15, <1>16 DEF c, Q

-----------------------------------------------------------------------------
(* The walk.                                                                *)

\* The walk stays within the values of the extended basis.
LEMMA WalkType == Spec => [](x \in 0..(Cases - 1))
<1>1. Cases \in Nat /\ Cases > 0
  BY CasesAssumption
<1>2. Init => x \in 0..(Cases - 1)
  BY <1>1 DEF Init
<1>3. x \in 0..(Cases - 1) /\ [Next]_x => (x \in 0..(Cases - 1))'
  BY <1>1 DEF Next
<1> QED
  BY <1>2, <1>3, PTL DEF Spec

\* reconstruct_true_values, extend_basis_centered and crt_lift_constant
\* represent a value exactly.
THEOREM RepresentationIsExact == Spec => []RepresentationExact
BY WalkType, RepresentationHolds, PTL

\* mod_down divides by the auxiliary product and rounds down.
THEOREM ModDownFloors == Spec => []ModDownIsFloor
BY WalkType, ModDownHolds, PTL

\* modulus_switch_down keeps the value modulo t and divides it by the last
\* modulus.
THEOREM SwitchKeepsMessage == Spec => []SwitchKeepsResidueModT
BY WalkType, SwitchHolds, PTL

\* rescale_and_round rounds to the nearest.
THEOREM RescaleRounds == Spec => []RescaleIsNearest
BY WalkType, RescaleHolds, PTL

\* decode_scaled_value removes the noise it has a margin for.
THEOREM DecodeRemovesNoise == Spec => []DecodeFindsMessage
BY WalkType, DecodeHolds, PTL

\* Barrett reduction is exact (BarrettExact), whatever the width of a word and
\* however far the walk goes: no value below m * 2^WordBits is left out.
THEOREM BarrettAlways == Spec => []BarrettExact
<1>1. Cases \in Nat
  BY CasesAssumption
<1>2. x \in 0..(Cases - 1) => BarrettExact
  BY <1>1, BarrettReduceExact DEF BarrettExact
<1> QED
  BY <1>2, WalkType, PTL

\* Montgomery's reducer and the big integers' loops are exact (WordsExact),
\* whatever the width of a word: every odd modulus below MONTGOMERY_MAX_MODULUS,
\* every carry, borrow and bit of the quotient.
THEOREM WordsAlways == Spec => []WordsExact
<1>1. x \in 0..(Cases - 1) => x \in Nat
  BY CasesAssumption
<1>2. x \in 0..(Cases - 1) => WordsExact
  BY <1>1, MontgomeryHolds, BignumHolds DEF WordsExact
<1> QED
  BY <1>2, WalkType, PTL

-----------------------------------------------------------------------------
(* The transform.                                                           *)

\* A transform's degree is a power of two.
LEMMA DegreeIsPower ==
    /\ Degree \in Nat /\ Degree > 0 /\ \E s \in Nat : Degree = 2^s
<1> DEFINE G == {n \in Nat : Power(2, n) = 2^n}
<1>1. Degree \in Nat /\ Degree > 0 /\ \E n \in 0..Degree : Degree = Power(2, n)
  BY DegreeAssumption
<1> DEFINE two == 2
<1>2. two \in Int
  OBVIOUS
<1> HIDE DEF two
<1>3. Power(two, 0) = 1 /\ \A n \in Nat : Power(two, n) \in Int /\ Power(two, n + 1) = Power(two, n) * two
  BY <1>2, PowerStep
<1>4. 2^0 = 1 /\ \A n \in Nat : 2^n \in Nat /\ 2^(n + 1) = 2 * 2^n
  BY PowerDoubles
<1>5. 0 \in G
  BY <1>3, <1>4 DEF two
<1>6. ASSUME NEW n \in Nat, n \in G PROVE n + 1 \in G
  <2> DEFINE p == Power(2, n)
  <2>1. p \in Int /\ p = 2^n /\ Power(2, n + 1) = p * 2 /\ 2^(n + 1) = 2 * 2^n
    BY <1>3, <1>4, <1>6 DEF two
  <2> HIDE DEF p
  <2>2. p * 2 = 2 * p
    BY <2>1
  <2> QED
    BY <2>1, <2>2
<1> HIDE DEF G
<1>7. Nat \subseteq G
  BY <1>5, <1>6, InductionSet
<1>8. PICK n \in 0..Degree : Degree = Power(2, n)
  BY <1>1
<1>9. n \in Nat /\ Degree = 2^n
  BY <1>1, <1>7, <1>8 DEF G
<1> QED
  BY <1>1, <1>9

\* The moduli of the transforms.
LEMMA NttModulus ==
    ASSUME NEW q \in NttModuli
    PROVE  /\ IsPrime(q) /\ q \in 2..(Word - 1) /\ q \in Nat /\ q > 2 /\ q > 1 /\ q > 0 /\ q \in Int
           /\ \E e \in Nat : e > 0 /\ q - 1 = 2 * (Degree * e)
<1>1. Word \in Nat /\ Word > 1 /\ Degree \in Nat /\ Degree > 0
  BY WordType, DegreeIsPower
<1>2. q \in 2..(Word - 1) /\ (\A d \in 2..(q - 1) : q % d # 0) /\ (q - 1) % (2 * Degree) = 0
  BY RingCasesAssumption DEF SupportsNtt
<1>3. q \in Nat /\ q > 1 /\ IsPrime(q)
  BY <1>1, <1>2 DEF IsPrime
<1> DEFINE a == q - 1  d == 2 * Degree  e == a \div d
<1>4. a \in Nat /\ a > 0 /\ d \in Nat /\ d > 0 /\ a % d = 0
  BY <1>1, <1>2, <1>3
<1> HIDE DEF a, d
<1>5. e \in Nat /\ a = e * d + (a % d)
  BY <1>4, QuotientNat
<1> HIDE DEF e
<1>6. a = e * d
  BY <1>4, <1>5
<1>7. e > 0
  <2>1. e # 0
    BY <1>4, <1>6
  <2> QED
    BY <1>5, <2>1
<1>8. q - 1 = 2 * (Degree * e)
  BY <1>1, <1>5, <1>6 DEF a, d
<1>9. q > 2
  <2>1. Degree * e \in Nat
    BY <1>1, <1>5
  <2> QED
    BY <1>3, <1>4, <1>8, <2>1 DEF a
<1> QED
  BY <1>2, <1>3, <1>5, <1>7, <1>8, <1>9

\* Both ways of mul_residue are the product modulo q.
LEMMA MulResidueExact ==
    ASSUME NEW q \in 2..(Word - 1), NEW a \in Nat, NEW b \in Nat
    PROVE  MulResidue(a, b, q) = (a * b) % q
<1>1. Word \in Nat /\ q \in Nat /\ q > 0 /\ q < Word
  BY WordType
<1>2. CASE a < q /\ b < q
  <2> DEFINE p == a * b
  <2>1. p \in Nat
    OBVIOUS
  <2>2. p < q * Word
    <3>1. a * b <= a * Word
      BY <1>1, <1>2
    <3>2. a * Word < q * Word
      BY <1>1, <1>2
    <3> QED
      BY <1>1, <2>1, <3>1, <3>2
  <2> HIDE DEF p
  <2>3. BarrettReduce(p, q) = p % q
    BY <2>1, <2>2, BarrettReduceExact
  <2> QED
    BY <1>2, <2>3 DEF MulResidue, p
<1>3. CASE ~(a < q /\ b < q)
  BY <1>3 DEF MulResidue, MulMod
<1> QED
  BY <1>2, <1>3

\* pow_mod of a residue.
LEMMA PowModIs ==
    ASSUME NEW q \in Nat, q > 1, NEW a \in 0..(q - 1), NEW w, IsPowersMod(w, a, q), NEW n \in Nat
    PROVE  PowMod(a, n, q) = w[n]
<1>1. a \in Nat /\ a % q = a
  OBVIOUS
<1>2. IsPowersMod(w, a % q, q)
  BY <1>1
<1> QED
  BY <1>1, <1>2, PowModPower

\* A root of one that is not one itself is minus one, modulo a prime.
LEMMA SquareRootOfOne ==
    ASSUME NEW q, IsPrime(q), NEW r \in 0..(q - 1), r # 1, Cong(r * r, 1, q)
    PROVE  r = q - 1
<1>1. q \in Nat /\ q > 1 /\ q > 0 /\ q \in Int /\ r \in Int /\ r \in Nat
  BY DEF IsPrime
<1> DEFINE d == r - 1  e == r + 1  o == 0
<1>2. d \in Int /\ e \in Int /\ o \in Int /\ d * e = r * r - 1
  BY <1>1
<1>3. Cong(d * e, d * o, q)
  <2> DEFINE rr == r * r
  <2>1. rr \in Int /\ Cong(rr, 1, q) /\ 1 \in Int
    BY <1>1
  <2> HIDE DEF rr
  <2>2. Cong(1, 1, q) /\ 1 - 1 = 0 /\ d * o = 0
    BY <1>1, <1>2, <2>1, CongRefl
  <2>3. Cong(rr - 1, 1 - 1, q)
    BY <1>1, <2>1, <2>2, CongAdd
  <2> QED
    BY <1>2, <2>2, <2>3 DEF rr
<1>4. d % q # 0
  <2>1. CASE r = 0
    <3>1. d = -1 * q + (q - 1) /\ q - 1 \in 0..(q - 1) /\ -1 \in Int
      BY <1>1, <2>1
    <3>2. (-1 * q + (q - 1)) % q = q - 1
      BY <1>1, <3>1, QuotientUnique
    <3> QED
      BY <1>1, <3>1, <3>2
  <2>2. CASE r > 0
    <3>1. d \in 0..(q - 1) /\ d # 0
      BY <1>1, <2>2
    <3> HIDE DEF d
    <3>2. d % q = d
      BY <1>1, <3>1
    <3> QED
      BY <3>1, <3>2
  <2> QED
    BY <1>1, <2>1, <2>2
<1> HIDE DEF d
<1>5. IsUnit(d, q)
  BY <1>2, <1>4, PrimeUnit
<1> HIDE DEF e, o
<1>6. Cong(e, o, q)
  BY <1>1, <1>2, <1>3, <1>5, UnitCancel
<1>7. e % q = 0
  <2>1. o % q = 0
    BY <1>1 DEF o
  <2> QED
    BY <1>1, <1>2, <1>6, <2>1, CongIff
<1>8. e \in 1..q
  BY <1>1 DEF e
<1>9. e = q
  <2>1. e < q => e % q = e
    BY <1>1, <1>8
  <2> QED
    BY <1>1, <1>7, <1>8, <2>1
<1> QED
  BY <1>1, <1>9 DEF e

\* A number of order 2n: psi of the table, and its powers.
IsPsi(psi, w, n, q) ==
    /\ psi \in 2..(q - 1) /\ IsPowersMod(w, psi, q) /\ w[2 * n] = 1 /\ w[n] = q - 1

\* What primitive_root_of_order tests makes a psi: a number whose n-th power is
\* minus one.
LEMMA OrderMakesPsi ==
    ASSUME NEW q, IsPrime(q), q > 2, NEW n \in Nat, n > 0,
           NEW c \in 0..(q - 1), HasOrder(c, 2 * n, q)
    PROVE  \E w : IsPsi(c, w, n, q)
<1>1. q \in Nat /\ q > 1 /\ q > 0 /\ q \in Int /\ c \in Nat /\ c \in Int
  BY DEF IsPrime
<1>2. 2 * n \in Nat /\ (2 * n) \div 2 = n
  BY <1>1
<1>3. PowMod(c, 2 * n, q) = 1 /\ PowMod(c, n, q) # 1
  BY <1>2 DEF HasOrder
<1>10. PICK v : IsPowersMod(v, c, q)
  BY <1>1, PowersModExist
<1>12. v[2 * n] = 1 /\ v[n] # 1
  <2>1. PowMod(c, 2 * n, q) = v[2 * n] /\ PowMod(c, n, q) = v[n]
    BY <1>1, <1>2, <1>10, PowModIs
  <2> QED
    BY <1>3, <2>1
<1>13. c # 0
  <2>1. SUFFICES ASSUME c = 0 PROVE FALSE
    OBVIOUS
  <2> DEFINE m == 2 * n - 1
  <2>2. m \in Nat /\ m + 1 = 2 * n
    BY <1>1
  <2> HIDE DEF m
  <2>3. v[m + 1] = (v[m] * c) % q /\ v[m] \in Int
    BY <1>1, <1>10, <2>2, PowersFacts
  <2>4. v[m] * 0 = 0 /\ 0 % q = 0
    BY <1>1, <2>3
  <2> QED
    BY <1>12, <2>1, <2>2, <2>3, <2>4
<1>14. c # 1
  <2>1. SUFFICES ASSUME c = 1 PROVE FALSE
    OBVIOUS
  <2>2. v[0] = 1 /\ v[0 + 1] = (v[0] * c) % q
    <3>1. 0 \in Nat
      OBVIOUS
    <3> QED
      BY <1>1, <1>10, <3>1, PowersFacts
  <2> DEFINE p == 1
  <2>3. (1 * 1) % q = 1
    BY <1>1
  <2>4. p \in Nat /\ v[p] = 1 /\ p * n = n /\ 0 + 1 = 1
    BY <1>1, <2>1, <2>2, <2>3
  <2> HIDE DEF p
  <2>5. v[p * n] = 1
    <3> DEFINE i == 0
    <3>1. i \in Nat
      OBVIOUS
    <3> HIDE DEF i
    <3> QED
      BY <1>1, <1>10, <2>4, <3>1, PowersPeriod
  <2> QED
    BY <1>12, <2>4, <2>5
<1>15. c \in 2..(q - 1)
  BY <1>1, <1>13, <1>14
<1>16. v[n] = q - 1
  <2> DEFINE r == v[n]
  <2>1. r \in 0..(q - 1) /\ r # 1
    BY <1>1, <1>10, <1>12, PowersFacts
  <2>0. \A i, j \in Nat : Cong(v[i + j], v[i] * v[j], q)
    BY <1>1, <1>10, PowersAdd
  <2>2. Cong(v[n + n], r * r, q)
    BY <1>1, <2>0, Zenon
  <2>3. Cong(1, r * r, q)
    <3>1. n + n = 2 * n
      BY <1>1
    <3> QED
      BY <1>12, <2>2, <3>1
  <2> HIDE DEF r
  <2> DEFINE rr == r * r
  <2>4. rr \in Int /\ 1 \in Int /\ Cong(1, rr, q)
    BY <1>1, <2>1, <2>3
  <2> HIDE DEF rr
  <2>5. Cong(rr, 1, q)
    BY <1>1, <2>4, CongSym
  <2>6. r = q - 1
    BY <1>1, <2>1, <2>5, SquareRootOfOne DEF rr
  <2> QED
    BY <2>6 DEF r
<1>17. IsPsi(c, v, n, q)
  BY <1>10, <1>12, <1>15, <1>16 DEF IsPsi
<1> QED
  BY <1>17

\* A least element is one of them.
LEMMA LeastIn ==
    ASSUME NEW found, found \in SUBSET Nat, found # {}
    PROVE  Least(found) \in found
<1>1. \E k \in found : \A l \in found : k <= l
  BY LeastNat
<1> QED
  BY <1>1 DEF Least

\* primitive_root_of_order returns a number whose n-th power is minus one
\* whenever it returns one, from either of its loops: the two powers it looks
\* at are enough, since q is a prime.
THEOREM PsiFound ==
    ASSUME NEW q \in NttModuli
    PROVE  \E w : IsPsi(PrimitiveRoot(2 * Degree, q), w, Degree, q)
<1> DEFINE order == 2 * Degree
           psi == PrimitiveRoot(order, q)
           direct == DirectRoots(order, q)
           powers == CofactorRoots(order, q)
<1>1. q \in Nat /\ q > 1 /\ q > 2 /\ q \in Int /\ IsPrime(q) /\ Degree \in Nat /\ Degree > 0
  BY NttModulus, DegreeIsPower
<1>2. direct # {} \/ powers # {}
  BY RingCasesAssumption DEF RootFound
<1>3. CASE direct # {}
  <2>1. direct \in SUBSET Nat
    BY DEF DirectRoots, Candidates
  <2>2. psi \in direct
    BY <1>3, <2>1, LeastIn DEF PrimitiveRoot
  <2>3. psi \in 0..(q - 1) /\ HasOrder(psi, order, q)
    BY <1>1, <2>2 DEF DirectRoots, Candidates
  <2> HIDE DEF psi
  <2>4. \E w : IsPsi(psi, w, Degree, q)
    BY <1>1, <2>3, OrderMakesPsi
  <2> QED
    BY <2>4 DEF psi
<1>4. CASE direct = {}
  <2> DEFINE c == Least(powers)
  <2>1. powers \in SUBSET Nat
    BY DEF CofactorRoots, Candidates
  <2>2. c \in powers
    BY <1>2, <1>4, <2>1, LeastIn
  <2>3. psi = CofactorPower(c, order, q)
    BY <1>4 DEF PrimitiveRoot
  <2>4. c \in 2..(q - 1) /\ HasOrder(psi, order, q)
    BY <2>2, <2>3 DEF CofactorRoots, Candidates
  <2>5. psi \in 0..(q - 1)
    <3> HIDE DEF c
    <3> DEFINE m == (q - 1) \div order
    <3>1. m \in Nat /\ c \in 0..(q - 1) /\ c \in Int
      <4>1. PICK e \in Nat : e > 0 /\ q - 1 = 2 * (Degree * e)
        BY NttModulus
      <4>2. Degree \in Nat /\ Degree > 0
        BY DegreeIsPower
      <4>3. order \in Nat /\ order > 0 /\ q - 1 \in Nat
        BY <1>1, <4>2
      <4> HIDE DEF order
      <4>4. m \in Nat
        BY <4>3, QuotientNat
      <4> QED
        BY <1>1, <2>4, <4>4
    <3> HIDE DEF m
    <3>2. PICK w : IsPowersMod(w, c, q)
      BY <1>1, <3>1, PowersModExist
    <3>3. PowMod(c, m, q) = w[m]
      BY <1>1, <3>1, <3>2, PowModIs
    <3>4. w[m] \in 0..(q - 1)
      BY <1>1, <3>1, <3>2, PowersFacts
    <3> QED
      BY <2>3, <3>3, <3>4 DEF CofactorPower, m
  <2> HIDE DEF psi
  <2>6. \E w : IsPsi(psi, w, Degree, q)
    BY <1>1, <2>4, <2>5, OrderMakesPsi
  <2> QED
    BY <2>6 DEF psi
<1> QED
  BY <1>3, <1>4

\* The first loop does find a root when the modulus does not pass the search
\* limit: there is one, since q is a prime and 2n divides q - 1.
THEOREM RootWithinLimit ==
    ASSUME NEW q, IsPrime(q), q > 2, q <= SearchLimit,
           NEW n \in Nat, n > 0, NEW e \in Nat, e > 0, q - 1 = 2 * (n * e)
    PROVE  RootFound(2 * n, q)
<1>1. q \in Nat /\ q > 1 /\ q > 0 /\ q \in Int
  BY DEF IsPrime
<1>3. 2 * n \in Nat /\ (2 * n) \div 2 = n
  OBVIOUS
<1> DEFINE d == e * n
<1>4. d \in Nat /\ q - 1 = 2 * d /\ d > 0 /\ d < q - 1
  <2>1. n * e \in Nat /\ n * e = e * n
    OBVIOUS
  <2> QED
    BY <1>1, <2>1
<1> HIDE DEF d
<1>5. PICK g \in 1..(q - 1) : \A w : IsPowersMod(w, g, q) => w[d] # 1
  BY <1>1, <1>4, NoSmallerExponent
<1>6. g \in Int /\ g \in Nat /\ g % q # 0
  BY <1>1
<1>7. PICK u : IsPowersMod(u, g, q)
  BY <1>1, <1>6, PowersModExist
<1>8. u[d] # 1 /\ u[q - 1] = 1
  BY <1>1, <1>5, <1>6, <1>7, Fermat
<1> DEFINE c == u[e]
<1>9. c \in 0..(q - 1) /\ c \in Int
  BY <1>1, <1>6, <1>7, PowersFacts
<1>10. PICK v : IsPowersMod(v, c, q)
  BY <1>1, <1>9, PowersModExist
<1>11. \A i \in Nat : v[i] = u[e * i]
  <2> TAKE i \in Nat
  <2>1. Cong(c, u[e], q)
    BY <1>1, <1>9, CongRefl
  <2> HIDE DEF c
  <2> QED
    BY <1>1, <1>6, <1>7, <1>9, <1>10, <2>1, PowersOfPower
<1> HIDE DEF c
<1>12. v[2 * n] = 1 /\ v[n] # 1
  <2>1. e * (2 * n) = q - 1 /\ e * n = d
    BY <1>1, <1>4 DEF d
  <2>2. v[2 * n] = u[e * (2 * n)] /\ v[n] = u[e * n]
    BY <1>1, <1>3, <1>11
  <2> QED
    BY <1>8, <2>1, <2>2
<1>13. HasOrder(c, 2 * n, q)
  <2>1. PowMod(c, 2 * n, q) = v[2 * n] /\ PowMod(c, n, q) = v[n]
    BY <1>1, <1>3, <1>9, <1>10, PowModIs
  <2> QED
    BY <1>3, <1>12, <2>1 DEF HasOrder
<1>14. c \in 2..(q - 1)
  <2>1. PICK w : IsPsi(c, w, n, q)
    BY <1>9, <1>13, OrderMakesPsi
  <2> QED
    BY <2>1 DEF IsPsi
<1>15. c \in DirectRoots(2 * n, q)
  <2>1. c < SearchLimit
    BY <1>1, <1>14 DEF SearchLimit
  <2> QED
    BY <1>13, <1>14, <2>1 DEF DirectRoots, Candidates
<1> QED
  BY <1>15 DEF RootFound

\* The equations of reverse_bits, for buffers of up to n places.
IsReversal(rev, n) ==
    \A m \in 1..n, p \in Nat :
        rev[m][p] = IF m = 1 THEN 0 ELSE (p % 2) * (m \div 2) + rev[m \div 2][p \div 2]

\* Halving a size that is not one.
LEMMA HalfOfSize ==
    ASSUME NEW m \in Nat, m > 1
    PROVE  m \div 2 \in 1..(m - 1)
OBVIOUS

\* They have a solution, which is what ReverseBits uses.
LEMMA ReversalExists ==
    ASSUME NEW n \in Nat, n > 0
    PROVE  \E rev : IsReversal(rev, n) /\ \A i : ReverseBits(i, n) = rev[n][i]
<1> DEFINE Solves(g, k) == g = [m \in 1..k |-> [p \in Nat |->
                                  IF m = 1 THEN 0 ELSE (p % 2) * (m \div 2) + g[m \div 2][p \div 2]]]
           G == {k \in Nat : \E g : Solves(g, k)}
           rev == CHOOSE g : Solves(g, n)
<1>1. 0 \in G
  <2> DEFINE g == [m \in 1..0 |-> [p \in Nat |-> 0]]
  <2>1. Solves(g, 0)
    OBVIOUS
  <2> HIDE DEF g
  <2> QED
    BY <2>1
<1>2. ASSUME NEW k \in Nat, k \in G PROVE k + 1 \in G
  <2>1. PICK g : Solves(g, k)
    BY <1>2
  <2> DEFINE h == [m \in 1..(k + 1) |-> [p \in Nat |->
                     IF m = 1 THEN 0 ELSE (p % 2) * (m \div 2) + g[m \div 2][p \div 2]]]
  <2>2. ASSUME NEW m \in 1..(k + 1), m # 1 PROVE h[m \div 2] = g[m \div 2]
    <3> DEFINE l == m \div 2
    <3>1. l \in 1..k /\ l \in 1..(k + 1)
      <4>1. m > 1 /\ m \in Nat
        BY <2>2
      <4>2. l \in 1..(m - 1)
        BY <4>1, HalfOfSize
      <4> HIDE DEF l
      <4> QED
        BY <4>2
    <3> HIDE DEF l
    <3>2. g[l] = [p \in Nat |-> IF l = 1 THEN 0 ELSE (p % 2) * (l \div 2) + g[l \div 2][p \div 2]]
      BY <2>1, <3>1
    <3>3. h[l] = [p \in Nat |-> IF l = 1 THEN 0 ELSE (p % 2) * (l \div 2) + g[l \div 2][p \div 2]]
      BY <3>1
    <3> QED
      BY <3>2, <3>3 DEF l
  <2>3. \A m \in 1..(k + 1) : [p \in Nat |-> IF m = 1 THEN 0 ELSE (p % 2) * (m \div 2) + g[m \div 2][p \div 2]]
                              = [p \in Nat |-> IF m = 1 THEN 0 ELSE (p % 2) * (m \div 2) + h[m \div 2][p \div 2]]
    <3> TAKE m \in 1..(k + 1)
    <3>1. m # 1 => h[m \div 2] = g[m \div 2]
      BY <2>2
    <3> HIDE DEF h
    <3> QED
      BY <3>1
  <2>4. h = [m \in 1..(k + 1) |-> [p \in Nat |-> IF m = 1 THEN 0 ELSE (p % 2) * (m \div 2) + g[m \div 2][p \div 2]]]
    OBVIOUS
  <2> HIDE DEF h
  <2>5. Solves(h, k + 1)
    BY <2>3, <2>4
  <2> HIDE DEF Solves
  <2> QED
    BY <2>5
<1>3. n \in G
  <2> HIDE DEF G
  <2> QED
    BY <1>1, <1>2, InductionSet
<1>4. Solves(rev, n)
  <2> HIDE DEF Solves
  <2> QED
    BY <1>3
<1>5. \A i : ReverseBits(i, n) = rev[n][i]
  BY DEF ReverseBits
<1> HIDE DEF rev
<1>6. ASSUME NEW m \in 1..n, NEW p \in Nat
      PROVE  rev[m][p] = IF m = 1 THEN 0 ELSE (p % 2) * (m \div 2) + rev[m \div 2][p \div 2]
  <2>1. rev[m] = [l \in Nat |-> IF m = 1 THEN 0 ELSE (l % 2) * (m \div 2) + rev[m \div 2][l \div 2]]
    BY <1>4
  <2> QED
    BY <2>1
<1>7. IsReversal(rev, n)
  BY <1>6 DEF IsReversal
<1> QED
  BY <1>5, <1>7

\* One more bit reversed: the low bit becomes the high one.
LEMMA ReversalStep ==
    ASSUME NEW n \in Nat, NEW rev, IsReversal(rev, n),
           NEW k \in Nat, k > 0, 2 * k \in 1..n, NEW p \in Nat, rev[k][p] \in Nat
    PROVE  /\ rev[2 * k][2 * p] = rev[k][p]
           /\ rev[2 * k][2 * p + 1] = k + rev[k][p]
<1> DEFINE m == 2 * k  e == 2 * p  o == 2 * p + 1
<1>1. m \in 1..n /\ m # 1 /\ m \div 2 = k /\ e \in Nat /\ o \in Nat
  OBVIOUS
<1>2. e % 2 = 0 /\ e \div 2 = p /\ o % 2 = 1 /\ o \div 2 = p
  OBVIOUS
<1> HIDE DEF m, e, o
<1>3. \A l \in Nat : rev[m][l] = (l % 2) * (m \div 2) + rev[m \div 2][l \div 2]
  BY <1>1 DEF IsReversal
<1>4. rev[m][e] = 0 * k + rev[k][p] /\ rev[m][o] = 1 * k + rev[k][p]
  BY <1>1, <1>2, <1>3
<1> QED
  BY <1>4 DEF m, e, o

\* A place of n = 2^s reverses to a place of n.
LEMMA ReversalType ==
    ASSUME NEW n \in Nat, NEW rev, IsReversal(rev, n), NEW s \in Nat, 2^s \in 1..n
    PROVE  \A p \in Nat : rev[2^s][p] \in 0..(2^s - 1)
<1> DEFINE G == {k \in Nat : 2^k \in 1..n => \A p \in Nat : rev[2^k][p] \in 0..(2^k - 1)}
<1>1. 2^0 = 1 /\ \A k \in Nat : 2^k \in Nat /\ 2^(k + 1) = 2 * 2^k
  BY PowerDoubles
<1>2. 0 \in G
  <2>1. 2^0 \in 1..n => \A p \in Nat : rev[1][p] = 0
    BY <1>1 DEF IsReversal
  <2> QED
    BY <1>1, <2>1
<1>3. ASSUME NEW k \in Nat, k \in G PROVE k + 1 \in G
  <2> DEFINE h == 2^k  m == 2^(k + 1)
  <2>1. h \in Nat /\ m = 2 * h
    BY <1>1
  <2>2. h \in 1..n => \A p \in Nat : rev[h][p] \in 0..(h - 1)
    BY <1>3
  <2> HIDE DEF h, m
  <2>3. ASSUME m \in 1..n, NEW p \in Nat PROVE rev[m][p] \in 0..(m - 1)
    <3> DEFINE l == p \div 2  e == p % 2
    <3>1. l \in Nat /\ e \in {0, 1} /\ h \in 1..n /\ h > 0 /\ m # 1 /\ m \div 2 = h
      BY <2>1, <2>3
    <3>2. rev[m][p] = e * h + rev[h][l]
      BY <2>3, <3>1 DEF IsReversal
    <3>3. rev[h][l] \in 0..(h - 1)
      BY <2>2, <3>1
    <3> HIDE DEF l, e
    <3>4. e * h = 0 \/ e * h = h
      BY <2>1, <3>1
    <3> QED
      BY <2>1, <3>2, <3>3, <3>4
  <2> QED
    BY <2>3 DEF m
<1> HIDE DEF G
<1>4. s \in G
  BY <1>2, <1>3, InductionSet
<1> QED
  BY <1>4 DEF G

\* power_table holds the powers.
LEMMA PowerTableIs ==
    ASSUME NEW q \in Nat, q > 1, NEW c \in Int, NEW w, IsPowersMod(w, c, q), NEW n \in Nat
    PROVE  \A i \in 0..(n - 1) : PowerTable(c, n, q)[i] = w[i]
<1> DEFINE I == 0..(n - 1)
           Solves(g) == g = [i \in I |-> IF i = 0 THEN 1 ELSE MulMod(g[i - 1], c, q)]
           power == CHOOSE g : Solves(g)
           h == [i \in I |-> w[i]]
           G == {k \in Nat : k \in I => power[k] = w[k]}
<1>1. w[0] = 1 /\ \A i \in Nat : w[i] \in Int /\ w[i + 1] = (w[i] * c) % q
  BY PowersFacts
<1>2. \A i \in I : i # 0 => /\ i - 1 \in I /\ i - 1 \in Nat /\ (i - 1) + 1 = i
                            /\ w[i] = MulMod(w[i - 1], c, q)
  <2> TAKE i \in I
  <2>1. i # 0 => i - 1 \in I /\ i - 1 \in Nat /\ (i - 1) + 1 = i
    OBVIOUS
  <2>2. i # 0 => w[(i - 1) + 1] = (w[i - 1] * c) % q
    BY <1>1, <2>1
  <2> QED
    BY <2>1, <2>2 DEF MulMod
<1>3. Solves(h)
  <2>1. \A i \in I : w[i] = IF i = 0 THEN 1 ELSE MulMod(h[i - 1], c, q)
    BY <1>1, <1>2
  <2> QED
    BY <2>1
<1>4. Solves(power)
  <2> HIDE DEF Solves, h
  <2> QED
    BY <1>3
<1>5. PowerTable(c, n, q) = power
  BY DEF PowerTable
<1> HIDE DEF power, h
<1>6. 0 \in G
  BY <1>1, <1>4
<1>7. ASSUME NEW k \in Nat, k \in G PROVE k + 1 \in G
  <2>1. k + 1 \in I => power[k + 1] = MulMod(power[(k + 1) - 1], c, q) /\ k \in I
    BY <1>4
  <2>2. (k + 1) - 1 = k
    OBVIOUS
  <2> QED
    BY <1>2, <1>7, <2>1, <2>2
<1> HIDE DEF G
<1>8. Nat \subseteq G
  BY <1>6, <1>7, InductionSet
<1> QED
  BY <1>5, <1>8 DEF G

\* The powers of a block's root, as Butterflies runs through them.
Twiddles(c, n, q) ==
    LET power[i \in 0..(n - 1)] == IF i = 0 THEN 1 ELSE MulResidue(power[i - 1], c, q)
    IN  power

\* They are the powers.
LEMMA TwiddlesAre ==
    ASSUME NEW q \in 2..(Word - 1), NEW c \in 0..(q - 1), NEW v, IsPowersMod(v, c, q), NEW n \in Nat
    PROVE  \A i \in 0..(n - 1) : Twiddles(c, n, q)[i] = v[i]
<1> DEFINE I == 0..(n - 1)
           Solves(g) == g = [i \in I |-> IF i = 0 THEN 1 ELSE MulResidue(g[i - 1], c, q)]
           u == CHOOSE g : Solves(g)
           h == [i \in I |-> v[i]]
           G == {k \in Nat : k \in I => u[k] = v[k]}
<1>0. q \in Nat /\ q > 1 /\ c \in Int /\ c \in Nat
  BY WordType
<1>1. v[0] = 1 /\ \A i \in Nat : v[i] \in 0..(q - 1) /\ v[i + 1] = (v[i] * c) % q
  BY <1>0, PowersFacts
<1>2. \A i \in I : i # 0 => /\ i - 1 \in I /\ i - 1 \in Nat /\ (i - 1) + 1 = i
                            /\ v[i] = MulResidue(v[i - 1], c, q)
  <2> TAKE i \in I
  <2>1. i # 0 => i - 1 \in I /\ i - 1 \in Nat /\ (i - 1) + 1 = i
    OBVIOUS
  <2>2. i # 0 => v[(i - 1) + 1] = (v[i - 1] * c) % q /\ v[i - 1] \in Nat
    <3> DEFINE l == i - 1
    <3>1. SUFFICES ASSUME l \in Nat PROVE v[l + 1] = (v[l] * c) % q /\ v[l] \in Nat
      BY <2>1
    <3>2. v[l] \in 0..(q - 1)
      BY <1>1, <3>1
    <3> HIDE DEF l
    <3> QED
      BY <1>0, <1>1, <3>1, <3>2
  <2>3. i # 0 => MulResidue(v[i - 1], c, q) = (v[i - 1] * c) % q
    BY <1>0, <2>2, MulResidueExact
  <2> QED
    BY <2>1, <2>2, <2>3
<1>3. Solves(h)
  <2>1. \A i \in I : v[i] = IF i = 0 THEN 1 ELSE MulResidue(h[i - 1], c, q)
    BY <1>1, <1>2
  <2> QED
    BY <2>1
<1>4. Solves(u)
  <2> HIDE DEF Solves, h
  <2> QED
    BY <1>3
<1>5. Twiddles(c, n, q) = u
  BY DEF Twiddles
<1> HIDE DEF u, h
<1>6. 0 \in G
  BY <1>1, <1>4
<1>7. ASSUME NEW k \in Nat, k \in G PROVE k + 1 \in G
  <2>1. k + 1 \in I => u[k + 1] = MulResidue(u[(k + 1) - 1], c, q) /\ k \in I
    BY <1>4
  <2>2. (k + 1) - 1 = k
    OBVIOUS
  <2> QED
    BY <1>2, <1>7, <2>1, <2>2
<1> HIDE DEF G
<1>8. Nat \subseteq G
  BY <1>6, <1>7, InductionSet
<1> QED
  BY <1>5, <1>8 DEF G

\* n places are k blocks of two halves of h places.
Blocks(k, h, n) == k \in Nat /\ k > 0 /\ h \in Nat /\ h > 0 /\ n = k * (2 * h)

\* A stage's input, and its root.
IsStage(a, k, h, n, root, w, q) ==
    /\ q \in 2..(Word - 1) /\ root \in 0..(q - 1) /\ IsPowersMod(w, root, q)
    /\ Blocks(k, h, n)
    /\ a \in [0..(n - 1) -> 0..(q - 1)]

\* The places of a block.
LEMMA BlockPlaces ==
    ASSUME NEW k, NEW h, NEW n, Blocks(k, h, n), NEW p \in 0..(k - 1), NEW j \in 0..(h - 1)
    PROVE  LET lo == p * (2 * h) + j
               hi == lo + h
           IN  /\ n \in Nat /\ lo \in 0..(n - 1) /\ hi \in 0..(n - 1)
               /\ lo % (2 * h) = j /\ hi % (2 * h) = j + h
               /\ j % h = j /\ (j + h) % h = j
               /\ lo % h = j /\ hi % h = j
               /\ hi - h = lo
               /\ lo = (2 * p) * h + j /\ hi = (2 * p + 1) * h + j
<1> DEFINE m == 2 * h  pm == p * m  lo == pm + j  hi == lo + h
<1>0. k \in Nat /\ k > 0 /\ h \in Nat /\ h > 0 /\ n = k * m
  BY DEF Blocks
<1>1. m \in Nat /\ m > 0 /\ m = h + h /\ j \in 0..(m - 1) /\ j + h \in 0..(m - 1) /\ p \in Int
  BY <1>0
<1>2. (p * m + j) % m = j /\ (p * m + (j + h)) % m = j + h
  <2> HIDE DEF m, pm, lo, hi
  <2>1. \A s \in 0..(m - 1) : (p * m + s) % m = s
    BY <1>1, QuotientUnique
  <2> QED
    BY <1>1, <2>1
<1>3. pm \in Nat /\ pm + m <= k * m /\ k * m \in Nat
  <2> HIDE DEF m
  <2>1. p \in Nat /\ p + 1 <= k
    BY <1>0
  <2>2. (p + 1) * m <= k * m /\ (p + 1) * m = pm + m
    BY <1>0, <1>1, <2>1
  <2> QED
    BY <1>0, <1>1, <2>1, <2>2
<1>4. n = k * m
  BY <1>0
<1>5. 2 * p \in Int /\ 2 * p + 1 \in Int /\ pm = (2 * p) * h /\ pm + h = (2 * p + 1) * h
  BY <1>0, <1>1
<1>6. ((2 * p) * h + j) % h = j /\ ((2 * p + 1) * h + j) % h = j
  <2> DEFINE e == 2 * p  o == 2 * p + 1
  <2>1. e \in Int /\ o \in Int /\ h \in Nat
    BY <1>0
  <2> HIDE DEF e, o
  <2>2. (e * h + j) % h = j /\ (o * h + j) % h = j
    BY <2>1, QuotientUnique
  <2> QED
    BY <2>2 DEF e, o
<1>7. j % h = j /\ (j + h) % h = j
  <2>1. (0 * h + j) % h = j /\ (1 * h + j) % h = j
    BY <1>0, QuotientUnique
  <2>2. 0 * h + j = j /\ 1 * h + j = j + h
    BY <1>0
  <2> QED
    BY <2>1, <2>2
<1> HIDE DEF m
<1> HIDE DEF pm
<1>8. /\ lo \in 0..(n - 1) /\ hi \in 0..(n - 1) /\ n \in Nat /\ hi - h = lo
      /\ lo = (2 * p) * h + j /\ hi = (2 * p + 1) * h + j
  BY <1>0, <1>1, <1>3, <1>4, <1>5
<1>9. lo = p * m + j /\ hi = p * m + (j + h)
  BY <1>0, <1>1, <1>3 DEF pm
<1> HIDE DEF lo, hi
<1>10. lo % m = j /\ hi % m = j + h /\ lo % h = j /\ hi % h = j
  BY <1>2, <1>6, <1>8, <1>9
<1> QED
  BY <1>7, <1>8, <1>10 DEF lo, hi, m, pm

\* Every place is in the lower or the upper half of a block.
LEMMA EveryPlace ==
    ASSUME NEW k, NEW h, NEW n, Blocks(k, h, n), NEW i \in 0..(n - 1)
    PROVE  \E p \in 0..(k - 1), j \in 0..(h - 1) :
              i = p * (2 * h) + j \/ i = p * (2 * h) + j + h
<1> DEFINE m == 2 * h  p == i \div m  r == i % m
<1>0. k \in Nat /\ k > 0 /\ h \in Nat /\ h > 0 /\ n = k * m
  BY DEF Blocks
<1>1. m \in Nat /\ m > 0 /\ m = h + h /\ n = k * m /\ n \in Nat /\ i \in Nat
  BY <1>0
<1> HIDE DEF m
<1>2. p \in Nat /\ r \in 0..(m - 1) /\ i = p * m + r
  BY <1>1, Quotient, QuotientNat
<1> HIDE DEF p, r
<1>3. p < k
  <2>1. SUFFICES ASSUME p >= k PROVE FALSE
    BY <1>0, <1>2
  <2> DEFINE d == p - k
  <2>2. d \in Nat /\ p = k + d
    BY <1>0, <1>2, <2>1
  <2> HIDE DEF d
  <2>3. p * m = k * m + d * m /\ d * m \in Nat /\ k * m \in Nat /\ p * m \in Nat
    BY <1>0, <1>1, <1>2, <2>2
  <2> QED
    BY <1>1, <1>2, <2>3
<1>4. p \in 0..(k - 1)
  BY <1>0, <1>2, <1>3
<1>5. CASE r < h
  <2>1. r \in 0..(h - 1)
    BY <1>0, <1>1, <1>2, <1>5
  <2> QED
    BY <1>2, <1>4, <2>1 DEF m
<1>6. CASE ~(r < h)
  <2> DEFINE j == r - h
  <2>1. j \in 0..(h - 1) /\ r = j + h
    BY <1>0, <1>1, <1>2, <1>6
  <2>2. i = p * m + j + h
    BY <1>0, <1>1, <1>2, <2>1
  <2> HIDE DEF j
  <2> QED
    BY <1>4, <2>1, <2>2 DEF m
<1> QED
  BY <1>5, <1>6

\* What a butterfly makes of its two places.
LEMMA ButterflyPair ==
    ASSUME NEW a, NEW k, NEW h, NEW n, NEW root, NEW w, NEW q, IsStage(a, k, h, n, root, w, q),
           NEW p \in 0..(k - 1), NEW j \in 0..(h - 1)
    PROVE  LET B == Butterflies(a, 2 * h, n, root, q)
               lo == p * (2 * h) + j
               hi == lo + h
               t == (w[k * j] * a[hi]) % q
           IN  /\ a[lo] \in 0..(q - 1) /\ a[hi] \in 0..(q - 1) /\ t \in 0..(q - 1)
               /\ w[k * j] \in 0..(q - 1)
               /\ B[lo] = (a[lo] + t) % q /\ B[hi] = SubMod(a[lo], t, q)
<1> DEFINE m == 2 * h
           half == m \div 2
           wm == PowMod(root, n \div m, q)
           u == Twiddles(wm, half, q)
           twisted(i) == MulResidue(u[i % half], a[i], q)
           B == Butterflies(a, m, n, root, q)
           lo == p * m + j
           hi == lo + h
           wj == w[k * j]
           t == (wj * a[hi]) % q
<1>0. Blocks(k, h, n)
  BY DEF IsStage
<1>1. /\ q \in 2..(Word - 1) /\ root \in 0..(q - 1) /\ IsPowersMod(w, root, q)
      /\ k \in Nat /\ k > 0 /\ h \in Nat /\ h > 0 /\ n = k * (2 * h)
      /\ a \in [0..(n - 1) -> 0..(q - 1)]
  BY DEF IsStage, Blocks
<1>2. q \in Nat /\ q > 1 /\ q > 0 /\ root \in Int /\ root \in Nat
  BY <1>1, WordType
<1>3. /\ lo \in 0..(n - 1) /\ hi \in 0..(n - 1)
      /\ lo % m = j /\ hi % m = j + h /\ lo % h = j /\ hi % h = j /\ hi - h = lo
  BY <1>0, BlockPlaces
<1>4. half = h
  BY <1>1
<1>5. n \div m = k
  <2>1. m \in Nat /\ m > 0 /\ n = k * m + 0 /\ 0 \in 0..(m - 1)
    BY <1>1
  <2> HIDE DEF m
  <2>2. (k * m + 0) \div m = k
    BY <1>1, <2>1, QuotientUnique
  <2> QED
    BY <2>1, <2>2
<1>6. B = [i \in 0..(n - 1) |->
             IF i % m < half THEN AddMod(a[i], twisted(i + half), q)
                             ELSE SubMod(a[i - half], twisted(i), q)]
  BY DEF Butterflies, Twiddles
<1>7. wm = w[k]
  BY <1>1, <1>2, <1>5, PowModIs
<1>8. w[k] \in 0..(q - 1) /\ k * j \in Nat /\ wj \in 0..(q - 1)
  <2>1. k * j \in Nat
    BY <1>1
  <2> QED
    BY <1>1, <1>2, <2>1, PowersFacts
<1> HIDE DEF wm
<1>9. PICK v : IsPowersMod(v, wm, q)
  <2>1. wm \in Int
    BY <1>2, <1>7, <1>8
  <2> QED
    BY <1>2, <2>1, PowersModExist
<1>10. u[j] = wj
  <2>1. wm \in 0..(q - 1) /\ half \in Nat
    BY <1>1, <1>4, <1>7, <1>8
  <2>2. wm \in Int /\ Cong(wm, w[k], q)
    BY <1>2, <1>7, <2>1, CongRefl
  <2> HIDE DEF half
  <2>3. \A i \in 0..(half - 1) : Twiddles(wm, half, q)[i] = v[i]
    BY <1>1, <1>9, <2>1, TwiddlesAre
  <2>4. j \in 0..(half - 1)
    BY <1>4
  <2>5. j \in Nat
    BY <1>1
  <2>6. v[j] = w[k * j]
    BY <1>1, <1>2, <1>9, <2>2, <2>5, PowersOfPower
  <2> QED
    BY <2>3, <2>4, <2>6
<1>11. a[lo] \in 0..(q - 1) /\ a[hi] \in 0..(q - 1)
  BY <1>1, <1>3
<1>12. twisted(hi) = t
  <2>1. twisted(hi) = MulResidue(wj, a[hi], q)
    BY <1>3, <1>4, <1>10
  <2> DEFINE y == a[hi]
  <2>2. wj \in Nat /\ y \in Nat
    BY <1>2, <1>8, <1>11
  <2> HIDE DEF wj, y
  <2>3. MulResidue(wj, y, q) = (wj * y) % q
    BY <1>1, <2>2, MulResidueExact
  <2> QED
    BY <2>1, <2>3 DEF y
<1>13. t \in 0..(q - 1)
  <2> DEFINE z == wj * a[hi]
  <2>1. z \in Int
    BY <1>2, <1>8, <1>11
  <2> HIDE DEF z
  <2>2. z % q \in 0..(q - 1)
    BY <1>2, <2>1
  <2> QED
    BY <2>2 DEF z
<1> HIDE DEF t, twisted, u, B, wj, half
<1>14. B[lo] = AddMod(a[lo], twisted(lo + half), q) /\ B[hi] = SubMod(a[hi - half], twisted(hi), q)
  <2>1. lo % m < half /\ ~(hi % m < half)
    BY <1>1, <1>3, <1>4
  <2> HIDE DEF lo, hi, m
  <2> QED
    BY <1>3, <1>6, <2>1
<1>15. lo + half = hi /\ hi - half = lo
  BY <1>3, <1>4
<1>16. B[lo] = (a[lo] + t) % q /\ B[hi] = SubMod(a[lo], t, q)
  BY <1>12, <1>14, <1>15 DEF AddMod
<1> QED
  BY <1>8, <1>11, <1>13, <1>16 DEF t, B, wj

\* A stage's residues are residues.
LEMMA ButterfliesType ==
    ASSUME NEW a, NEW k, NEW h, NEW n, NEW root, NEW w, NEW q, IsStage(a, k, h, n, root, w, q)
    PROVE  Butterflies(a, 2 * h, n, root, q) \in [0..(n - 1) -> 0..(q - 1)]
<1> DEFINE B == Butterflies(a, 2 * h, n, root, q)
<1>1. Blocks(k, h, n) /\ q \in Nat /\ q > 0
  BY WordType DEF IsStage
<1>2. B = [i \in 0..(n - 1) |-> B[i]]
  BY DEF Butterflies
<1>3. ASSUME NEW i \in 0..(n - 1) PROVE B[i] \in 0..(q - 1)
  <2>1. PICK p \in 0..(k - 1), j \in 0..(h - 1) :
           i = p * (2 * h) + j \/ i = p * (2 * h) + j + h
    BY <1>1, EveryPlace
  <2> DEFINE lo == p * (2 * h) + j
             hi == lo + h
             t == (w[k * j] * a[hi]) % q
             y == a[lo]
  <2>2. /\ y \in 0..(q - 1) /\ t \in 0..(q - 1)
        /\ B[lo] = (y + t) % q /\ B[hi] = SubMod(y, t, q)
    BY ButterflyPair
  <2>3. i = lo \/ i = hi
    BY <2>1
  <2> HIDE DEF B, lo, hi, t, y
  <2>4. y + t \in Int /\ (y + t) % q \in 0..(q - 1)
    BY <1>1, <2>2
  <2>5. SubMod(y, t, q) \in 0..(q - 1)
    BY <1>1, <2>2, SubModCong
  <2> QED
    BY <2>2, <2>3, <2>4, <2>5
<1> HIDE DEF B
<1> QED
  BY <1>2, <1>3 DEF B

\* Two sums of an even and an odd part, the odd one taken times c and times
\* minus c.
TwoSums(E, O, c, d, s, z, q) ==
    /\ q \in Nat /\ q > 0 /\ E \in Int /\ O \in Int /\ c \in Int /\ d \in Int /\ s \in Int /\ z \in Int
    /\ Cong(d, 0 - c, q) /\ Cong(s, E + c * O, q) /\ Cong(z, E + d * O, q)

\* A butterfly on the residues of the parts makes those of the sums.
LEMMA ButterflyResidues ==
    ASSUME NEW E, NEW O, NEW c, NEW d, NEW s, NEW z, NEW q, TwoSums(E, O, c, d, s, z, q)
    PROVE  LET t == (c * (O % q)) % q
           IN  ((E % q) + t) % q = s % q /\ SubMod(E % q, t, q) = z % q
<1> DEFINE e == E % q  o == O % q
<1>0. /\ q \in Nat /\ q > 0 /\ E \in Int /\ O \in Int /\ c \in Int /\ d \in Int /\ s \in Int /\ z \in Int
      /\ Cong(d, 0 - c, q) /\ Cong(s, E + c * O, q) /\ Cong(z, E + d * O, q)
  BY DEF TwoSums
<1>01. e \in 0..(q - 1) /\ Cong(e, E, q)
  BY <1>0, CongOfMod
<1>02. o \in 0..(q - 1) /\ Cong(o, O, q)
  BY <1>0, CongOfMod
<1> HIDE DEF e, o
<1> DEFINE co == c * o  cO == c * O  t == co % q  dO == d * O
<1>1. q \in Int /\ e \in 0..(q - 1) /\ e \in Int /\ Cong(e, E, q) /\ o \in Int /\ Cong(o, O, q)
  BY <1>0, <1>01, <1>02
<1>2. co \in Int /\ cO \in Int /\ dO \in Int /\ Cong(c, c, q)
  BY <1>0, <1>1, CongRefl
<1>3. Cong(co, cO, q)
  BY <1>0, <1>1, <1>2, CongAdd
<1>4. Cong(dO, 0 - cO, q)
  <2> DEFINE y == 0 - c
  <2>1. y \in Int /\ Cong(d, y, q) /\ Cong(O, O, q) /\ y * O \in Int /\ y * O = 0 - cO
    BY <1>0, <1>1, CongRefl
  <2> HIDE DEF y
  <2>2. Cong(dO, y * O, q)
    BY <1>0, <1>1, <2>1, CongAdd
  <2> QED
    BY <2>1, <2>2
<1> HIDE DEF co, cO, dO
<1>5. t \in 0..(q - 1) /\ t \in Int /\ Cong(t, co, q)
  <2>1. q \in Nat /\ q > 0 /\ co \in Int
    BY <1>0, <1>2
  <2>2. t \in 0..(q - 1) /\ Cong(t, co, q)
    BY <2>1, CongOfMod
  <2> QED
    BY <2>1, <2>2
<1> HIDE DEF t
<1>6. Cong(t, cO, q)
  BY <1>0, <1>1, <1>2, <1>3, <1>5, CongTrans
<1> DEFINE et == e + t  eT == E + cO  em == e - t  Em == E - cO  Ed == E + dO
<1>7. et \in Int /\ eT \in Int /\ em \in Int /\ Em \in Int /\ Ed \in Int
  BY <1>0, <1>1, <1>2, <1>5
<1>8. Cong(et, eT, q) /\ Cong(em, Em, q)
  BY <1>0, <1>1, <1>2, <1>5, <1>6, CongAdd
<1>9. Cong(s, eT, q) /\ Cong(z, Ed, q)
  BY <1>0 DEF cO, dO
<1>10. Cong(Ed, Em, q)
  <2> DEFINE y == 0 - cO
  <2>1. y \in Int /\ Cong(dO, y, q) /\ Cong(E, E, q) /\ E + y = Em
    BY <1>0, <1>1, <1>2, <1>4, CongRefl
  <2> HIDE DEF y
  <2>2. Cong(E + dO, E + y, q)
    BY <1>0, <1>1, <1>2, <2>1, CongAdd
  <2> QED
    BY <2>1, <2>2
<1> HIDE DEF et, eT, em, Em, Ed
<1>11. et % q = s % q
  <2>1. Cong(eT, s, q)
    BY <1>0, <1>1, <1>7, <1>9, CongSym
  <2>2. Cong(et, s, q)
    BY <1>0, <1>1, <1>7, <1>8, <2>1, CongTrans
  <2> QED
    BY <1>0, <1>1, <1>7, <2>2, CongIff
<1>12. em % q = z % q
  <2>1. Cong(z, Em, q)
    BY <1>0, <1>1, <1>7, <1>9, <1>10, CongTrans
  <2>2. Cong(Em, z, q)
    BY <1>0, <1>1, <1>7, <2>1, CongSym
  <2>3. Cong(em, z, q)
    BY <1>0, <1>1, <1>7, <1>8, <2>2, CongTrans
  <2> QED
    BY <1>0, <1>1, <1>7, <2>3, CongIff
<1> DEFINE y == SubMod(e, t, q)
<1>13. y \in 0..(q - 1) /\ Cong(y, em, q)
  BY <1>0, <1>1, <1>5, SubModCong DEF em
<1> HIDE DEF y
<1>14. y \in Int /\ y % q = y
  BY <1>0, <1>1, <1>13
<1>15. y = z % q
  <2>1. y % q = em % q
    BY <1>0, <1>1, <1>7, <1>13, <1>14, CongIff
  <2> QED
    BY <1>12, <1>14, <2>1
<1> QED
  BY <1>11, <1>15 DEF et, y, e, t, co, o

\* Between the stages: place j of the block that starts at lo holds the part of
\* the transform taken over the places c, c + k, ...
Holds(v, lo, a, k, c, h, w, q) ==
    \A j \in 0..(h - 1) : v[lo + j] = Part(a, k, c, h, w, k * j) % q

\* A stage joins the parts over even and odd places into one.
LEMMA StageJoins ==
    ASSUME NEW v, NEW k, NEW h, NEW n, NEW root, NEW w, NEW q, IsStage(v, k, h, n, root, w, q),
           NEW a, Transforms(a, w, root, q), w[n] = 1, w[k * h] = q - 1,
           NEW p \in 0..(k - 1), NEW c \in Nat,
           Holds(v, (2 * p) * h, a, 2 * k, c, h, w, q),
           Holds(v, (2 * p + 1) * h, a, 2 * k, c + k, h, w, q)
    PROVE  Holds(Butterflies(v, 2 * h, n, root, q), p * (2 * h), a, k, c, 2 * h, w, q)
<1> DEFINE B == Butterflies(v, 2 * h, n, root, q)
           whole(i) == Part(a, k, c, 2 * h, w, k * i)
           even(j) == Part(a, 2 * k, c, h, w, (2 * k) * j)
           odd(j) == Part(a, 2 * k, c + k, h, w, (2 * k) * j)
           lo(j) == p * (2 * h) + j
           hi(j) == lo(j) + h
<1>0. Blocks(k, h, n)
  BY DEF IsStage
<1>1. /\ q \in Nat /\ q > 1 /\ q > 0 /\ q \in Int /\ root \in Int /\ IsPowersMod(w, root, q)
      /\ k \in Nat /\ k > 0 /\ h \in Nat /\ h > 0 /\ n = k * (2 * h)
  BY WordType DEF IsStage, Blocks
<1>2. n \in Nat /\ n = (2 * k) * h /\ 2 * k \in Nat /\ c + k \in Nat
  BY <1>1
<1>3. \A e \in Nat : w[e] \in Int
  BY <1>1, PowersFacts
<1>4. \A i, j \in Nat : Cong(w[i + j], w[i] * w[j], q)
  BY <1>1, PowersAdd
<1>5. ASSUME NEW j \in 0..(h - 1)
      PROVE  B[lo(j)] = whole(j) % q /\ B[hi(j)] = whole(j + h) % q
  <2> DEFINE e == k * j  g == k * (j + h)  E == even(j)  O == odd(j)
             s == whole(j)  z == whole(j + h)  x1 == w[e]  d == w[g]
  <2>1. /\ e \in Nat /\ g \in Nat /\ 2 * e = (2 * k) * j /\ 2 * g = (2 * k) * j + n /\ (2 * k) * j \in Nat
        /\ g = e + k * h /\ k * h \in Nat
    BY <1>1
  <2>2. \A l \in Nat : /\ Part(a, k, c, 2 * h, w, l) \in Int
                       /\ Part(a, 2 * k, c, h, w, 2 * l) \in Int
                       /\ Part(a, 2 * k, c + k, h, w, 2 * l) \in Int
                       /\ Cong(Part(a, k, c, 2 * h, w, l),
                               Part(a, 2 * k, c, h, w, 2 * l)
                                 + w[l] * Part(a, 2 * k, c + k, h, w, 2 * l), q)
    BY <1>1, PartHalves
  <2>3. /\ Part(a, 2 * k, c, h, w, 2 * g) = E /\ Part(a, 2 * k, c + k, h, w, 2 * g) = O
        /\ Part(a, 2 * k, c, h, w, 2 * e) = E /\ Part(a, 2 * k, c + k, h, w, 2 * e) = O
    <3> DEFINE l == (2 * k) * j  K == 2 * k  N == n  C == c + k
    <3>1. l \in Nat /\ K \in Nat /\ C \in Nat /\ h \in Nat /\ 2 * g = l + N /\ 2 * e = l
          /\ N \in Nat /\ w[N] = 1
      BY <1>1, <1>2, <2>1
    <3> HIDE DEF l, K, N, C
    <3>2. Part(a, K, c, h, w, l + N) = Part(a, K, c, h, w, l)
      BY <3>1, PartPeriod
    <3>3. Part(a, K, C, h, w, l + N) = Part(a, K, C, h, w, l)
      BY <3>1, PartPeriod
    <3> QED
      BY <3>1, <3>2, <3>3 DEF l, K, C
  <2>4. /\ s \in Int /\ z \in Int /\ E \in Int /\ O \in Int
        /\ Cong(s, E + x1 * O, q) /\ Cong(z, E + d * O, q)
    BY <2>1, <2>2, <2>3
  <2>5. x1 \in Int /\ d \in Int /\ Cong(d, 0 - x1, q)
    <3>1. x1 \in Int /\ d \in Int
      BY <1>3, <2>1
    <3>2. Cong(w[e + k * h], w[e] * w[k * h], q)
      BY <1>4, <2>1
    <3> DEFINE y == x1 * (q - 1)  m == 0 - x1
    <3>3. Cong(d, y, q)
      BY <2>1, <3>2
    <3> HIDE DEF x1, d
    <3>4. y \in Int /\ m \in Int /\ y - m = x1 * q
      BY <1>1, <3>1
    <3>5. Cong(y, m, q)
      BY <3>1, <3>4 DEF Cong
    <3> HIDE DEF y, m
    <3>6. Cong(d, m, q)
      BY <1>1, <3>1, <3>3, <3>4, <3>5, CongTrans
    <3> QED
      BY <3>1, <3>6 DEF m
  <2>6. lo(j) = (2 * p) * h + j /\ hi(j) = (2 * p + 1) * h + j
    BY <1>0, BlockPlaces
  <2>7. v[lo(j)] = E % q /\ v[hi(j)] = O % q
    BY <2>6 DEF Holds
  <2> DEFINE t == (x1 * (O % q)) % q
  <2>8. B[lo(j)] = ((E % q) + t) % q /\ B[hi(j)] = SubMod(E % q, t, q)
    <3>1. LET r == (w[k * j] * v[hi(j)]) % q
          IN  B[lo(j)] = (v[lo(j)] + r) % q /\ B[hi(j)] = SubMod(v[lo(j)], r, q)
      BY ButterflyPair
    <3> HIDE DEF B, lo, hi, E, O
    <3> QED
      BY <2>7, <3>1
  <2> HIDE DEF B, lo, hi, s, z, E, O, x1, d
  <2>9. ((E % q) + t) % q = s % q /\ SubMod(E % q, t, q) = z % q
    <3>1. TwoSums(E, O, x1, d, s, z, q)
      BY <1>1, <2>4, <2>5 DEF TwoSums
    <3> QED
      BY <3>1, ButterflyResidues
  <2> QED
    BY <2>8, <2>9 DEF s, z
<1>6. ASSUME NEW i \in 0..(2 * h - 1) PROVE B[p * (2 * h) + i] = whole(i) % q
  <2> DEFINE j == i - h
  <2>1. CASE i < h
    <3>1. i \in 0..(h - 1)
      BY <1>1, <2>1
    <3> QED
      BY <1>5, <3>1
  <2>2. CASE ~(i < h)
    <3>1. j \in 0..(h - 1) /\ j + h = i /\ hi(j) = p * (2 * h) + i
      BY <1>1, <2>2
    <3> HIDE DEF j, hi, B, whole
    <3> QED
      BY <1>5, <3>1
  <2> QED
    BY <2>1, <2>2
<1> QED
  BY <1>6 DEF Holds

\* The stages of a transform, the last one the transform.
IsStages(g, a, n, root, q) ==
    \A m \in 1..n : g[m] = IF m = 1 THEN BitReversed(a, n)
                           ELSE Butterflies(g[m \div 2], m, n, root, q)

\* They exist.
LEMMA StagesExist ==
    ASSUME NEW n \in Nat, n > 0, NEW a, NEW root, NEW q
    PROVE  \E g : IsStages(g, a, n, root, q) /\ Radix2(a, n, root, q) = g[n]
<1> DEFINE Solves(g, k) == g = [m \in 1..k |-> IF m = 1 THEN BitReversed(a, n)
                                               ELSE Butterflies(g[m \div 2], m, n, root, q)]
           G == {k \in Nat : \E g : Solves(g, k)}
           stage == CHOOSE g : Solves(g, n)
<1>1. 0 \in G
  <2> DEFINE g == [m \in 1..0 |-> 0]
  <2>1. Solves(g, 0)
    OBVIOUS
  <2> HIDE DEF g
  <2> QED
    BY <2>1
<1>2. ASSUME NEW k \in Nat, k \in G PROVE k + 1 \in G
  <2>1. PICK g : Solves(g, k)
    BY <1>2
  <2> DEFINE F(f, m) == IF m = 1 THEN BitReversed(a, n) ELSE Butterflies(f[m \div 2], m, n, root, q)
             h == [m \in 1..(k + 1) |-> F(g, m)]
  <2>2. ASSUME NEW m \in 1..(k + 1) PROVE F(g, m) = F(h, m)
    <3>1. CASE m = 1
      BY <3>1
    <3>2. CASE m # 1
      <4> DEFINE l == m \div 2
      <4>1. l \in 1..k /\ l \in 1..(k + 1)
        <5>1. m > 1 /\ m \in Nat
          BY <3>2
        <5>2. l \in 1..(m - 1)
          BY <5>1, HalfOfSize
        <5> HIDE DEF l
        <5> QED
          BY <5>2
      <4> HIDE DEF l
      <4>2. g[l] = F(g, l)
        BY <2>1, <4>1
      <4> HIDE DEF F
      <4>3. h[l] = F(g, l)
        BY <4>1
      <4>4. h[m \div 2] = g[m \div 2]
        BY <4>2, <4>3 DEF l
      <4> HIDE DEF h
      <4> QED
        BY <4>4 DEF F
    <3> QED
      BY <3>1, <3>2
  <2> HIDE DEF F
  <2>3. h = [m \in 1..(k + 1) |-> F(h, m)]
    <3>1. h = [m \in 1..(k + 1) |-> F(g, m)]
      OBVIOUS
    <3> HIDE DEF h
    <3> QED
      BY <2>2, <3>1
  <2> HIDE DEF h
  <2>4. Solves(h, k + 1)
    BY <2>3 DEF F
  <2> HIDE DEF Solves
  <2> QED
    BY <2>4
<1> HIDE DEF G
<1>3. n \in G
  BY <1>1, <1>2, InductionSet
<1>4. Solves(stage, n)
  <2> HIDE DEF Solves
  <2> QED
    BY <1>3 DEF G
<1>5. Radix2(a, n, root, q) = stage[n]
  BY DEF Radix2
<1> HIDE DEF stage
<1>6. IsStages(stage, a, n, root, q)
  BY <1>4 DEF IsStages
<1> QED
  BY <1>5, <1>6

\* A transform of n = 2^s places by a root of that order.
IsRadix2(a, A, s, n, root, w, q) ==
    /\ q \in 2..(Word - 1) /\ root \in 0..(q - 1) /\ IsPowersMod(w, root, q)
    /\ s \in Nat /\ n = 2^s /\ n \in Nat /\ n > 0 /\ Halves(w, s, q)
    /\ a \in [0..(n - 1) -> 0..(q - 1)]
    /\ A \in [Nat -> Int] /\ \A i \in 0..(n - 1) : A[i] = a[i]

\* What holds between the stages: with blocks of h places, of k of them, block p
\* has the part of the transform that starts at the reversed p.
Between(g, rev, A, k, h, n, w, q) ==
    /\ k * h = n /\ k \in Nat /\ k > 0 /\ h \in Nat /\ h > 0
    /\ g[h] \in [0..(n - 1) -> 0..(q - 1)]
    /\ \A p \in 0..(k - 1) : /\ rev[k][p] \in Nat
                             /\ Holds(g[h], p * h, A, k, rev[k][p], h, w, q)

\* It holds after the permutation, of blocks of one place.
LEMMA BetweenFirst ==
    ASSUME NEW a, NEW A, NEW s, NEW n, NEW root, NEW w, NEW q, IsRadix2(a, A, s, n, root, w, q),
           NEW g, IsStages(g, a, n, root, q),
           NEW rev, IsReversal(rev, n), \A i : ReverseBits(i, n) = rev[n][i]
    PROVE  Between(g, rev, A, n, 1, n, w, q)
<1>1. /\ q \in Nat /\ q > 1 /\ q > 0 /\ root \in Int /\ IsPowersMod(w, root, q) /\ s \in Nat
      /\ n = 2^s /\ n \in Nat /\ n > 0
      /\ a \in [0..(n - 1) -> 0..(q - 1)] /\ A \in [Nat -> Int] /\ \A i \in 0..(n - 1) : A[i] = a[i]
  <2>1. /\ q \in 2..(Word - 1) /\ root \in 0..(q - 1) /\ IsPowersMod(w, root, q) /\ s \in Nat
        /\ n = 2^s /\ n \in Nat /\ n > 0
        /\ a \in [0..(n - 1) -> 0..(q - 1)] /\ A \in [Nat -> Int]
        /\ \A i \in 0..(n - 1) : A[i] = a[i]
    BY Zenon DEF IsRadix2
  <2>2. q \in Nat /\ q > 1 /\ q > 0
    BY <2>1, WordType
  <2>3. root \in Int
    BY <2>1, <2>2
  <2> QED
    BY Zenon, <2>1, <2>2, <2>3
<1>2. \A p \in 0..(n - 1) : rev[n][p] \in 0..(n - 1)
  <2>1. 2^s \in 1..n
    BY <1>1
  <2>2. \A p \in Nat : rev[2^s][p] \in 0..(2^s - 1)
    BY <1>1, <2>1, ReversalType
  <2>3. \A p \in Nat : rev[n][p] \in 0..(n - 1)
    BY <1>1, <2>2
  <2> QED
    BY <1>1, <2>3
<1>3. g[1] = [i \in 0..(n - 1) |-> a[rev[n][i]]]
  <2>1. 1 \in 1..n
    BY <1>1
  <2>2. g[1] = BitReversed(a, n)
    BY <2>1 DEF IsStages
  <2> QED
    BY <2>2 DEF BitReversed
<1>4. g[1] \in [0..(n - 1) -> 0..(q - 1)]
  BY <1>1, <1>2, <1>3
<1>5. ASSUME NEW p \in 0..(n - 1) PROVE rev[n][p] \in Nat /\ Holds(g[1], p * 1, A, n, rev[n][p], 1, w, q)
  <2> DEFINE c == rev[n][p]  z == 0  P(m) == Part(A, n, c, m, w, z)
  <2>1. c \in 0..(n - 1) /\ c \in Nat
    BY <1>1, <1>2
  <2>2. g[1][p] = a[c] /\ a[c] = A[c] /\ a[c] \in 0..(q - 1)
    BY <1>1, <1>3, <2>1
  <2>3. z \in Nat /\ n \in Nat /\ Transforms(A, w, root, q)
    BY <1>1 DEF Transforms
  <2> HIDE DEF c, z
  <2>4. PartSums(A, n, c, w, z)
    BY <2>1, <2>3, PartFacts
  <2>5. P(0) = 0 /\ P(0 + 1) = P(0) + A[c + 0 * n] * w[z * 0]
    BY <2>4 DEF PartSums
  <2>6. 0 + 1 = 1 /\ c + 0 * n = c /\ z * 0 = 0 /\ n * 0 = 0 /\ p * 1 + 0 = p
    BY <1>1, <2>1 DEF z
  <2>7. w[0] = 1
    BY <1>1, PowersFacts
  <2> DEFINE y == a[c]
  <2>70. y \in 0..(q - 1) /\ q \in Nat
    BY <1>1, <2>2
  <2> HIDE DEF y
  <2>71. y * 1 = y /\ 0 + y = y /\ y % q = y
    BY <2>70
  <2>8. P(1) = a[c]
    <3> HIDE DEF P
    <3> QED
      BY <2>2, <2>5, <2>6, <2>7, <2>71 DEF y
  <2>9. a[c] % q = a[c]
    BY <2>71 DEF y
  <2>10. g[1][p * 1 + 0] = Part(A, n, c, 1, w, n * 0) % q
    BY <2>2, <2>6, <2>8, <2>9 DEF z
  <2>11. Holds(g[1], p * 1, A, n, c, 1, w, q)
    <3> SUFFICES ASSUME NEW j \in 0..(1 - 1)
                 PROVE  g[1][p * 1 + j] = Part(A, n, c, 1, w, n * j) % q
      BY DEF Holds
    <3>1. j = 0
      OBVIOUS
    <3> QED
      BY <2>10, <3>1
  <2> QED
    BY <2>1, <2>11 DEF c
<1> DEFINE h == 1
<1>6. n * h = n /\ h \in Nat /\ h > 0
  BY <1>1
<1>7. /\ g[h] \in [0..(n - 1) -> 0..(q - 1)]
      /\ \A p \in 0..(n - 1) : rev[n][p] \in Nat /\ Holds(g[h], p * h, A, n, rev[n][p], h, w, q)
  BY <1>4, <1>5
<1> HIDE DEF h
<1>8. Between(g, rev, A, n, h, n, w, q)
  BY <1>1, <1>6, <1>7 DEF Between
<1> QED
  BY <1>8 DEF h

\* A stage keeps it, with blocks twice as long.
LEMMA BetweenNext ==
    ASSUME NEW a, NEW A, NEW s, NEW n, NEW root, NEW w, NEW q, IsRadix2(a, A, s, n, root, w, q),
           NEW g, IsStages(g, a, n, root, q), NEW rev, IsReversal(rev, n),
           NEW k \in Nat, k > 0, NEW h \in Nat, Between(g, rev, A, 2 * k, h, n, w, q),
           \A p \in Nat : rev[k][p] \in Nat
    PROVE  Between(g, rev, A, k, 2 * h, n, w, q)
<1>1. /\ q \in Nat /\ q > 1 /\ q > 0 /\ q \in 2..(Word - 1) /\ root \in 0..(q - 1) /\ root \in Int
      /\ IsPowersMod(w, root, q) /\ s \in Nat /\ n = 2^s /\ n \in Nat /\ n > 0
      /\ A \in [Nat -> Int] /\ Halves(w, s, q)
  <2>1. /\ q \in 2..(Word - 1) /\ root \in 0..(q - 1) /\ IsPowersMod(w, root, q)
        /\ s \in Nat /\ n = 2^s /\ n \in Nat /\ n > 0 /\ A \in [Nat -> Int] /\ Halves(w, s, q)
    BY Zenon DEF IsRadix2
  <2>2. q \in Nat /\ q > 1 /\ q > 0
    BY <2>1, WordType
  <2>3. root \in Int
    BY <2>1, <2>2
  <2> QED
    BY Zenon, <2>1, <2>2, <2>3
<1>2. /\ (2 * k) * h = n /\ h > 0 /\ g[h] \in [0..(n - 1) -> 0..(q - 1)]
      /\ \A p \in 0..(2 * k - 1) : Holds(g[h], p * h, A, 2 * k, rev[2 * k][p], h, w, q)
  BY DEF Between
<1> DEFINE m == 2 * h
<1>3. k * m = n /\ m \in Nat /\ m > 0 /\ m # 1 /\ m \div 2 = h
  BY <1>2
<1>4. m \in 1..n /\ 2 * k \in 1..n /\ Blocks(k, h, n)
  <2>1. m <= k * m
    BY <1>3
  <2>2. 2 * k <= (2 * k) * h
    BY <1>2
  <2>3. n = k * (2 * h)
    BY <1>3
  <2> QED
    BY <1>2, <1>3, <2>1, <2>2, <2>3 DEF Blocks
<1>5. g[m] = Butterflies(g[h], m, n, root, q)
  BY <1>3, <1>4 DEF IsStages
<1>6. IsStage(g[h], k, h, n, root, w, q)
  BY <1>1, <1>2, <1>4 DEF IsStage
<1>7. w[n] = 1 /\ w[k * h] = q - 1
  <2>1. s > 0
    <3>1. SUFFICES ASSUME s = 0 PROVE FALSE
      BY <1>1
    <3>2. n = 1
      BY <1>1, <3>1, PowerDoubles
    <3> QED
      BY <1>3, <1>4, <3>2
  <2> DEFINE r == s - 1
  <2>2. r \in Nat /\ s = r + 1
    BY <1>1, <2>1
  <2> HIDE DEF r
  <2>3. 2^r \in Nat /\ 2^(r + 1) = 2 * 2^r
    BY <2>2, PowerDoubles
  <2> DEFINE z == 2^r
  <2>4. z \in Nat /\ n = 2 * z
    BY <1>1, <2>2, <2>3
  <2>5. w[n] = 1 /\ w[z] = q - 1
    BY <1>1, <2>1 DEF Halves, r
  <2> HIDE DEF z
  <2>6. k * h \in Nat /\ 2 * (k * h) = n
    BY <1>2
  <2>7. k * h = z
    BY <2>4, <2>6
  <2> QED
    BY <2>5, <2>7
<1>8. g[m] \in [0..(n - 1) -> 0..(q - 1)]
  BY <1>5, <1>6, ButterfliesType
<1>9. Transforms(A, w, root, q)
  BY <1>1 DEF Transforms
<1>10. ASSUME NEW p \in 0..(k - 1) PROVE Holds(g[m], p * m, A, k, rev[k][p], m, w, q)
  <2> DEFINE c == rev[k][p]  lower == 2 * p  upper == 2 * p + 1  K == 2 * k
  <2>1. c \in Nat /\ p \in Nat /\ lower \in 0..(K - 1) /\ upper \in 0..(K - 1)
    <3>1. p \in Nat
      OBVIOUS
    <3> QED
      BY <3>1
  <2>2. rev[K][lower] = c /\ rev[K][upper] = c + k
    <3>1. rev[2 * k][2 * p] = rev[k][p] /\ rev[2 * k][2 * p + 1] = k + rev[k][p]
      BY <1>1, <1>4, <2>1, ReversalStep
    <3>2. k + c = c + k
      BY <2>1
    <3> QED
      BY <3>1, <3>2
  <2> HIDE DEF c, lower, upper
  <2>3. Holds(g[h], lower * h, A, K, c, h, w, q) /\ Holds(g[h], upper * h, A, K, c + k, h, w, q)
    BY <1>2, <2>1, <2>2
  <2>4. /\ Holds(g[h], (2 * p) * h, A, 2 * k, c, h, w, q)
        /\ Holds(g[h], (2 * p + 1) * h, A, 2 * k, c + k, h, w, q)
    BY <2>3 DEF lower, upper
  <2> HIDE DEF K, m
  <2>5. Holds(Butterflies(g[h], 2 * h, n, root, q), p * (2 * h), A, k, c, 2 * h, w, q)
    BY <1>6, <1>7, <1>9, <2>1, <2>4, StageJoins
  <2> QED
    BY <1>5, <2>5 DEF c, m
<1> HIDE DEF m
<1>11. \A p \in 0..(k - 1) : rev[k][p] \in Nat /\ Holds(g[m], p * m, A, k, rev[k][p], m, w, q)
  <2>1. \A p \in 0..(k - 1) : p \in Nat
    OBVIOUS
  <2> QED
    BY <1>10, <2>1
<1>12. Between(g, rev, A, k, m, n, w, q)
  BY <1>3, <1>8, <1>11 DEF Between
<1> QED
  BY <1>12 DEF m

\* radix2_ntt_inplace evaluates at every power of its root.
THEOREM Radix2Transforms ==
    ASSUME NEW a, NEW A, NEW s, NEW n, NEW root, NEW w, NEW q, IsRadix2(a, A, s, n, root, w, q)
    PROVE  /\ Radix2(a, n, root, q) \in [0..(n - 1) -> 0..(q - 1)]
           /\ \A j \in 0..(n - 1) : Radix2(a, n, root, q)[j] = Part(A, 1, 0, n, w, j) % q
<1>1. s \in Nat /\ n = 2^s /\ n \in Nat /\ n > 0
  BY DEF IsRadix2
<1>2. PICK g : IsStages(g, a, n, root, q) /\ Radix2(a, n, root, q) = g[n]
  BY <1>1, StagesExist
<1>3. PICK rev : IsReversal(rev, n) /\ \A i : ReverseBits(i, n) = rev[n][i]
  BY <1>1, ReversalExists
<1>4. 2^0 = 1 /\ \A e \in Nat : 2^e \in Nat /\ 2^e > 0 /\ 2^(e + 1) = 2 * 2^e
  BY PowerDoubles
<1> DEFINE G == {r \in Nat : r <= s => Between(g, rev, A, 2^(s - r), 2^r, n, w, q)}
<1>5. 0 \in G
  <2>1. Between(g, rev, A, n, 1, n, w, q)
    BY <1>2, <1>3, BetweenFirst
  <2>2. s - 0 = s
    BY <1>1
  <2> QED
    BY <1>1, <1>4, <2>1, <2>2
<1>6. ASSUME NEW r \in Nat, r \in G PROVE r + 1 \in G
  <2>1. SUFFICES ASSUME r + 1 <= s
                 PROVE  Between(g, rev, A, 2^(s - (r + 1)), 2^(r + 1), n, w, q)
    OBVIOUS
  <2> DEFINE e == s - (r + 1)  k == 2^e  h == 2^r
  <2>2. e \in Nat /\ s - r = e + 1 /\ r <= s
    BY <1>1, <2>1
  <2> HIDE DEF e
  <2>3. /\ k \in Nat /\ k > 0 /\ 2^(e + 1) = 2 * k /\ h \in Nat /\ h > 0 /\ 2^(r + 1) = 2 * h
    BY <1>4, <2>2
  <2>4. Between(g, rev, A, 2 * k, h, n, w, q)
    BY <1>6, <2>2, <2>3
  <2>5. \A p \in Nat : rev[k][p] \in Nat
    <3>1. (2 * k) * h = n
      BY <2>4 DEF Between
    <3> HIDE DEF k, h
    <3>2. k <= n
      <4>1. (2 * k) * 1 <= (2 * k) * h
        BY <2>3
      <4> QED
        BY <2>3, <3>1, <4>1
    <3>3. 2^e \in 1..n
      BY <1>1, <2>3, <3>2 DEF k
    <3>4. \A p \in Nat : rev[2^e][p] \in 0..(2^e - 1)
      BY <1>1, <1>3, <2>2, <3>3, ReversalType
    <3>5. \A p \in Nat : rev[k][p] \in 0..(k - 1)
      BY <3>4 DEF k
    <3> QED
      BY <2>3, <3>5
  <2> HIDE DEF k, h
  <2>6. Between(g, rev, A, k, 2 * h, n, w, q)
    BY <1>2, <1>3, <2>3, <2>4, <2>5, BetweenNext
  <2>7. Between(g, rev, A, 2^e, 2^(r + 1), n, w, q)
    BY <2>3, <2>6 DEF k
  <2> QED
    BY <2>7 DEF e
<1> HIDE DEF G
<1>7. s \in G
  BY <1>1, <1>5, <1>6, InductionSet
<1>8. Between(g, rev, A, 1, n, n, w, q)
  <2>1. s - s = 0 /\ s <= s
    BY <1>1
  <2> QED
    BY <1>1, <1>4, <1>7, <2>1 DEF G
<1>9. /\ g[n] \in [0..(n - 1) -> 0..(q - 1)]
      /\ \A p \in 0..(1 - 1) : Holds(g[n], p * n, A, 1, rev[1][p], n, w, q)
  BY <1>8 DEF Between
<1>10. Holds(g[n], 0 * n, A, 1, rev[1][0], n, w, q)
  BY <1>9
<1>11. rev[1][0] = 0
  BY <1>1, <1>3 DEF IsReversal
<1>12. ASSUME NEW j \in 0..(n - 1) PROVE g[n][j] = Part(A, 1, 0, n, w, j) % q
  <2>1. g[n][0 * n + j] = Part(A, 1, rev[1][0], n, w, 1 * j) % q
    BY <1>10 DEF Holds
  <2>2. 0 * n + j = j /\ 1 * j = j
    BY <1>1
  <2> QED
    BY <1>11, <2>1, <2>2
<1> QED
  BY <1>2, <1>9, <1>12

\* Powers of inverses are inverses.
LEMMA InversePowers ==
    ASSUME NEW q \in Nat, q > 1, NEW b \in Int, NEW c \in Int, Cong(b * c, 1, q),
           NEW w, IsPowersMod(w, b, q), NEW v, IsPowersMod(v, c, q)
    PROVE  \A t \in Nat : Cong(w[t] * v[t], 1, q)
<1> DEFINE G == {t \in Nat : Cong(w[t] * v[t], 1, q)}
<1>1. w[0] = 1 /\ v[0] = 1 /\ q \in Int /\ 1 \in Int
  BY PowersFacts
<1>2. \A t \in Nat : w[t] \in Int /\ w[t + 1] \in Int /\ Cong(w[t + 1], w[t] * b, q)
  BY PowersFacts
<1>3. \A t \in Nat : v[t] \in Int /\ v[t + 1] \in Int /\ Cong(v[t + 1], v[t] * c, q)
  BY PowersFacts
<1>4. 0 \in G
  <2>1. 1 * 1 = 1
    OBVIOUS
  <2> QED
    BY <1>1, <2>1, CongRefl
<1>5. ASSUME NEW t \in Nat, t \in G PROVE t + 1 \in G
  <2> DEFINE a == w[t]  d == v[t]  a1 == w[t + 1]  d1 == v[t + 1]
             ab == a * b  dc == d * c  ad == a * d  bc == b * c
  <2>1. /\ a \in Int /\ d \in Int /\ a1 \in Int /\ d1 \in Int
        /\ Cong(a1, ab, q) /\ Cong(d1, dc, q) /\ Cong(ad, 1, q) /\ Cong(bc, 1, q)
    BY <1>2, <1>3, <1>5
  <2> HIDE DEF a, d, a1, d1
  <2>2. ab \in Int /\ dc \in Int /\ ad \in Int /\ bc \in Int /\ ab * dc = ad * bc /\ 1 * 1 = 1
    BY <2>1
  <2> HIDE DEF ab, dc, ad, bc
  <2>3. Cong(a1 * d1, ab * dc, q) /\ Cong(ad * bc, 1 * 1, q)
    BY <1>1, <2>1, <2>2, CongAdd
  <2> DEFINE y == a1 * d1  z == ad * bc
  <2>4. y \in Int /\ z \in Int /\ Cong(y, z, q) /\ Cong(z, 1, q)
    BY <2>1, <2>2, <2>3
  <2> HIDE DEF y, z
  <2>5. Cong(y, 1, q)
    BY <1>1, <2>4, CongTrans
  <2> QED
    BY <2>5 DEF y, a1, d1
<1> HIDE DEF G
<1>6. Nat \subseteq G
  BY <1>4, <1>5, InductionSet
<1> QED
  BY <1>6 DEF G

\* The inverse of one is one, and that of minus one is minus one.
LEMMA InverseOfSign ==
    ASSUME NEW q \in Nat, q > 1, NEW a \in Int, NEW d \in 0..(q - 1), Cong(a * d, 1, q)
    PROVE  (a = 1 => d = 1) /\ (a = q - 1 => d = q - 1)
<1>1. q \in Int /\ d \in Int /\ q > 0
  OBVIOUS
<1>2. a = 1 => d = 1
  <2>1. SUFFICES ASSUME a = 1 PROVE d = 1
    OBVIOUS
  <2>2. a * d = d /\ 1 \in 0..(q - 1)
    BY <1>1, <2>1
  <2>3. Cong(d, 1, q)
    BY <2>2
  <2> QED
    BY <2>2, <2>3, CongUnique
<1>3. a = q - 1 => d = q - 1
  <2>1. SUFFICES ASSUME a = q - 1 PROVE d = q - 1
    OBVIOUS
  <2> DEFINE y == (q - 1) * d
  <2>2. y \in Int /\ Cong(y, 1, q)
    BY <1>1, <2>1
  <2>3. PICK k \in Int : y - 1 = k * q
    BY <2>2 DEF Cong
  <2>4. d - (q - 1) = (d - 1 - k) * q
    <3>1. y = q * d - d
      BY <1>1
    <3>2. (d - 1 - k) * q = d * q - q - k * q
      BY <1>1
    <3>3. q * d = d * q
      BY <1>1
    <3> DEFINE dq == d * q  kq == k * q
    <3>4. dq \in Int /\ kq \in Int
      BY <1>1
    <3> HIDE DEF y, dq, kq
    <3>5. y = dq - d /\ y - 1 = kq /\ (d - 1 - k) * q = dq - q - kq
      BY <2>3, <3>1, <3>2, <3>3 DEF dq, kq
    <3> QED
      BY <1>1, <3>4, <3>5
  <2>5. Cong(d, q - 1, q)
    <3>1. d - 1 - k \in Int
      BY <1>1
    <3> QED
      BY <2>4, <3>1 DEF Cong
  <2>6. q - 1 \in 0..(q - 1)
    BY <1>1
  <2> QED
    BY <2>5, <2>6, CongUnique
<1> QED
  BY <1>2, <1>3

\* What the table of a prime holds: w and v are the powers of psi and of its
\* inverse, o and u those of omega and of its inverse.
IsTable(table, w, v, o, u, s, n, q) ==
    /\ IsPrime(q) /\ q > 2 /\ q \in 2..(Word - 1) /\ s \in Nat /\ n = 2^s /\ n \in Nat /\ n > 0
    /\ table.q = q /\ table.n = n
    /\ table.omega \in 0..(q - 1) /\ IsPowersMod(o, table.omega, q)
    /\ table.invOmega \in 0..(q - 1) /\ IsPowersMod(u, table.invOmega, q)
    /\ \E b \in 0..(q - 1) : IsPowersMod(w, b, q)
    /\ \E b \in 0..(q - 1) : IsPowersMod(v, b, q)
    /\ w[2 * n] = 1 /\ w[n] = q - 1
    /\ \A t \in Nat : o[t] = w[2 * t] /\ Cong(w[t] * v[t], 1, q)
    /\ Inverses(o, u, n, s, q)
    /\ \A i \in 0..(n - 1) : table.psiPowers[i] = w[i] /\ table.invPsiPowers[i] = v[i]
    /\ table.invDegree \in 0..(q - 1) /\ Cong(n * table.invDegree, 1, q)

\* An inverse modulo a prime.
LEMMA InverseExact ==
    ASSUME NEW q, IsPrime(q), NEW a \in 1..(q - 1)
    PROVE  InvMod(a, q) \in 0..(q - 1) /\ Cong(a * InvMod(a, q), 1, q)
<1> DEFINE i == InvMod(a, q)
<1>1. q \in Nat /\ q > 1 /\ q > 0 /\ a \in Nat
  BY DEF IsPrime
<1>2. a % q # 0
  BY <1>1
<1>3. i \in 0..(q - 1) /\ (a * i) % q = 1
  BY <1>1, <1>2, InvModInverts
<1> HIDE DEF i
<1> DEFINE p == a * i
<1>4. p \in Int /\ p % q = 1 /\ 1 % q = 1
  BY <1>1, <1>3
<1> HIDE DEF p
<1>5. Cong(p, 1, q)
  BY <1>1, <1>4, CongIff
<1> QED
  BY <1>3, <1>5 DEF p, i

\* NttTable::new makes such a table.
LEMMA TableFound ==
    ASSUME NEW q \in NttModuli
    PROVE  \E w, v, o, u, s : /\ IsTable(NttTable(Degree, q), w, v, o, u, s, Degree, q)
                              /\ IsPowersMod(w, PrimitiveRoot(2 * Degree, q), q)
                              /\ PrimitiveRoot(2 * Degree, q) \in 0..(q - 1)
<1> DEFINE n == Degree
           table == NttTable(n, q)
           psi == PrimitiveRoot(2 * n, q)
           psiInv == InvMod(psi, q)
           omega == MulMod(psi, psi, q)
           omegaInv == InvMod(omega, q)
<1>1. /\ IsPrime(q) /\ q \in 2..(Word - 1) /\ q \in Nat /\ q > 2 /\ q > 1 /\ q > 0 /\ q \in Int
      /\ n \in Nat /\ n > 0
  BY NttModulus, DegreeIsPower
<1>2. PICK s \in Nat : n = 2^s
  BY DegreeIsPower
<1>3. PICK w : IsPsi(psi, w, n, q)
  BY PsiFound
<1>30. /\ table.q = q /\ table.n = n /\ table.omega = omega /\ table.invOmega = omegaInv
       /\ table.invDegree = InvMod(n % q, q)
       /\ table.psiPowers = PowerTable(psi, n, q)
       /\ table.invPsiPowers = PowerTable(psiInv, n, q)
  BY DEF NttTable
<1> HIDE DEF n, table, psi
<1>4. psi \in 2..(q - 1) /\ IsPowersMod(w, psi, q) /\ w[2 * n] = 1 /\ w[n] = q - 1
  BY <1>3 DEF IsPsi
<1>5. psi \in 1..(q - 1) /\ psi \in 0..(q - 1) /\ psi \in Int
  BY <1>1, <1>4
<1>6. psiInv \in 0..(q - 1) /\ Cong(psi * psiInv, 1, q)
  BY <1>1, <1>5, InverseExact
<1> HIDE DEF psiInv
<1>7. psiInv \in Int
  BY <1>1, <1>6
<1>8. PICK v : IsPowersMod(v, psiInv, q)
  BY <1>1, <1>7, PowersModExist
<1>9. \A t \in Nat : Cong(w[t] * v[t], 1, q)
  BY <1>1, <1>4, <1>5, <1>6, <1>7, <1>8, InversePowers
<1>10. w[0] = 1 /\ \A t \in Nat : w[t] \in 0..(q - 1) /\ w[t + 1] = (w[t] * psi) % q
  BY <1>1, <1>4, <1>5, PowersFacts
<1>11. omega = w[2]
  <2>1. 0 \in Nat /\ 1 \in Nat /\ 0 + 1 = 1 /\ 1 + 1 = 2
    OBVIOUS
  <2>2. w[1] = (1 * psi) % q
    BY <1>10, <2>1
  <2>3. (1 * psi) % q = psi
    BY <1>1, <1>5
  <2>4. w[2] = (psi * psi) % q
    BY <1>10, <2>1, <2>2, <2>3
  <2> QED
    BY <2>4 DEF MulMod
<1> HIDE DEF omega
<1>12. omega \in 0..(q - 1) /\ omega \in Int /\ Cong(omega, w[2], q)
  <2>1. 2 \in Nat
    OBVIOUS
  <2>2. omega \in 0..(q - 1)
    BY <1>10, <1>11, <2>1
  <2> QED
    BY <1>1, <1>11, <2>2, CongRefl
<1>13. PICK o : IsPowersMod(o, omega, q)
  BY <1>1, <1>12, PowersModExist
<1>14. \A t \in Nat : o[t] = w[2 * t]
  <2> DEFINE e == 2
  <2>1. e \in Nat /\ Cong(omega, w[e], q)
    BY <1>12
  <2> HIDE DEF e
  <2>2. \A t \in Nat : o[t] = w[e * t]
    BY <1>1, <1>4, <1>5, <1>12, <1>13, <2>1, PowersOfPower
  <2> QED
    BY <2>2 DEF e
<1>15. o[n] = 1 /\ (s > 0 => o[2^(s - 1)] = q - 1)
  <2>1. o[n] = 1
    BY <1>1, <1>4, <1>14
  <2>2. ASSUME s > 0 PROVE o[2^(s - 1)] = q - 1
    <3> DEFINE r == s - 1
    <3>1. r \in Nat /\ s = r + 1
      BY <1>2, <2>2
    <3> HIDE DEF r
    <3> DEFINE z == 2^r
    <3>2. z \in Nat /\ n = 2 * z
      BY <1>2, <3>1, PowerDoubles
    <3>3. o[z] = w[2 * z]
      BY <1>14, <3>2
    <3> QED
      BY <1>4, <3>2, <3>3 DEF r
  <2> QED
    BY <2>1, <2>2
<1>16. omega # 0
  <2>1. SUFFICES ASSUME omega = 0 PROVE FALSE
    OBVIOUS
  <2> DEFINE m == n - 1
  <2>2. m \in Nat /\ m + 1 = n
    BY <1>1
  <2> HIDE DEF m
  <2>3. o[m + 1] = (o[m] * omega) % q /\ o[m] \in Int
    BY <1>1, <1>12, <1>13, <2>2, PowersFacts
  <2>4. o[m] * 0 = 0 /\ 0 % q = 0
    BY <1>1, <2>3
  <2> QED
    BY <1>15, <2>1, <2>2, <2>3, <2>4
<1>17. omegaInv \in 0..(q - 1) /\ Cong(omega * omegaInv, 1, q)
  <2>1. omega \in 1..(q - 1)
    BY <1>1, <1>12, <1>16
  <2> QED
    BY <1>1, <2>1, InverseExact
<1> HIDE DEF omegaInv
<1>18. omegaInv \in Int
  BY <1>1, <1>17
<1>19. PICK u : IsPowersMod(u, omegaInv, q)
  BY <1>1, <1>18, PowersModExist
<1>20. \A t \in Nat : Cong(o[t] * u[t], 1, q)
  BY <1>1, <1>12, <1>13, <1>17, <1>18, <1>19, InversePowers
<1>21. \A t \in Nat : o[t] \in Int /\ u[t] \in 0..(q - 1)
  <2>1. \A t \in Nat : o[t] \in Int
    BY <1>1, <1>12, <1>13, PowersFacts
  <2>2. \A t \in Nat : u[t] \in 0..(q - 1)
    BY <1>1, <1>18, <1>19, PowersFacts
  <2> QED
    BY <2>1, <2>2
<1>22. \A t \in Nat : (o[t] = 1 => u[t] = 1) /\ (o[t] = q - 1 => u[t] = q - 1)
  <2> TAKE t \in Nat
  <2> DEFINE y == o[t]  z == u[t]
  <2>1. y \in Int /\ z \in 0..(q - 1) /\ Cong(y * z, 1, q)
    BY <1>20, <1>21
  <2> HIDE DEF y, z
  <2>2. (y = 1 => z = 1) /\ (y = q - 1 => z = q - 1)
    BY <1>1, <2>1, InverseOfSign
  <2> QED
    BY <2>2 DEF y, z
<1>23. Halves(o, s, q) /\ Halves(u, s, q)
  <2>1. u[n] = 1
    BY <1>1, <1>15, <1>22
  <2>2. s > 0 => u[2^(s - 1)] = q - 1
    <3>1. SUFFICES ASSUME s > 0 PROVE u[2^(s - 1)] = q - 1
      OBVIOUS
    <3>2. s - 1 \in Nat
      BY <1>2, <3>1
    <3>3. 2^(s - 1) \in Nat
      BY <3>2, PowerDoubles
    <3> QED
      BY <1>15, <1>22, <3>1, <3>3
  <2> QED
    BY <1>2, <1>15, <2>1, <2>2 DEF Halves
<1>24. Inverses(o, u, n, s, q)
  BY <1>1, <1>2, <1>12, <1>13, <1>18, <1>19, <1>20, <1>23 DEF Inverses
<1>25. \A i \in 0..(n - 1) : table.psiPowers[i] = w[i] /\ table.invPsiPowers[i] = v[i]
  <2>1. \A i \in 0..(n - 1) : PowerTable(psi, n, q)[i] = w[i]
    BY <1>1, <1>4, <1>5, PowerTableIs
  <2>2. \A i \in 0..(n - 1) : PowerTable(psiInv, n, q)[i] = v[i]
    BY <1>1, <1>7, <1>8, PowerTableIs
  <2> QED
    BY <1>30, <2>1, <2>2
<1>26. n \in 1..(q - 1) /\ n % q = n
  <2>1. PICK e \in Nat : e > 0 /\ q - 1 = 2 * (n * e)
    BY NttModulus DEF n
  <2>2. n * 1 <= n * e
    BY <1>1, <2>1
  <2> DEFINE ne == n * e
  <2>3. ne \in Nat /\ q - 1 = 2 * ne /\ n <= ne
    BY <1>1, <2>1, <2>2
  <2> HIDE DEF ne
  <2>4. n \in 1..(q - 1)
    BY <1>1, <2>3
  <2> QED
    BY <1>1, <2>4
<1>27. table.invDegree \in 0..(q - 1) /\ Cong(n * table.invDegree, 1, q)
  <2>1. InvMod(n, q) \in 0..(q - 1) /\ Cong(n * InvMod(n, q), 1, q)
    BY <1>1, <1>26, InverseExact
  <2> QED
    BY <1>26, <1>30, <2>1
<1>28. IsTable(table, w, v, o, u, s, n, q)
  BY <1>1, <1>2, <1>4, <1>5, <1>6, <1>8, <1>9, <1>12, <1>13, <1>14, <1>17, <1>19, <1>24, <1>25,
     <1>27, <1>30 DEF IsTable
<1> QED
  BY <1>4, <1>5, <1>28 DEF n, table, psi

\* What a table says of single powers.
TableSays(table, w, v, o, u, n, q) ==
    /\ q \in Nat /\ q > 1 /\ q > 0 /\ q \in Int /\ q \in 2..(Word - 1)
    /\ n \in Nat /\ n > 0 /\ table.q = q /\ table.n = n
    /\ \A t \in Nat : /\ w[t] \in 0..(q - 1) /\ v[t] \in 0..(q - 1)
                      /\ o[t] \in 0..(q - 1) /\ u[t] \in 0..(q - 1)
    /\ \A i, j \in Nat : w[i + j] = (w[i] * w[j]) % q /\ Cong(w[i + j], w[i] * w[j], q)

\* It says so.
LEMMA TableFacts ==
    ASSUME NEW table, NEW w, NEW v, NEW o, NEW u, NEW s, NEW n, NEW q,
           IsTable(table, w, v, o, u, s, n, q)
    PROVE  TableSays(table, w, v, o, u, n, q)
<1>1. /\ q \in Nat /\ q > 1 /\ q > 0 /\ q \in Int /\ q \in 2..(Word - 1)
      /\ n \in Nat /\ n > 0 /\ table.q = q /\ table.n = n
  BY DEF IsTable, IsPrime
<1>2. PICK b \in 0..(q - 1) : IsPowersMod(w, b, q)
  BY DEF IsTable
<1>3. PICK c \in 0..(q - 1) : IsPowersMod(v, c, q)
  BY DEF IsTable
<1>4. /\ table.omega \in 0..(q - 1) /\ IsPowersMod(o, table.omega, q)
      /\ table.invOmega \in 0..(q - 1) /\ IsPowersMod(u, table.invOmega, q)
  BY DEF IsTable
<1>5. \A d \in 0..(q - 1) : d \in Int
  BY <1>1
<1>6. \A t \in Nat : /\ w[t] \in 0..(q - 1) /\ v[t] \in 0..(q - 1)
                     /\ o[t] \in 0..(q - 1) /\ u[t] \in 0..(q - 1)
  BY <1>2, <1>3, <1>4 DEF IsPowersMod
<1>7. \A i, j \in Nat : w[i + j] = (w[i] * w[j]) % q /\ Cong(w[i + j], w[i] * w[j], q)
  <2>1. q \in Nat /\ q > 1 /\ b \in Int
    BY <1>1, <1>5
  <2> QED
    BY <1>2, <2>1, PowersAdd
<1> QED
  BY <1>1, <1>6, <1>7 DEF TableSays

\* The coefficients twisted by the powers of psi, and none above them.
Twisted(a, w, n, q) == [i \in Nat |-> IF i < n THEN (a[i] * w[i]) % q ELSE 0]

\* What the forward transform F of a is, A being a twisted.
ForwardIs(F, A, a, w, o, n, q) ==
    /\ A \in [Nat -> Int] /\ \A i \in 0..(n - 1) : A[i] = (a[i] * w[i]) % q
    /\ F \in [0..(n - 1) -> 0..(q - 1)]
    /\ \A t \in 0..(n - 1) : F[t] = Total([j \in Nat |-> A[j] * o[t * j]], n) % q

\* forward_transform_in_place.
LEMMA ForwardParts ==
    ASSUME NEW table, NEW w, NEW v, NEW o, NEW u, NEW s, NEW n, NEW q,
           IsTable(table, w, v, o, u, s, n, q), NEW a \in [0..(n - 1) -> 0..(q - 1)]
    PROVE  ForwardIs(Forward(a, table), Twisted(a, w, n, q), a, w, o, n, q)
<1> DEFINE A == Twisted(a, w, n, q)
           b == [i \in 0..(n - 1) |-> MulResidue(a[i], table.psiPowers[i], q)]
<1>0. TableSays(table, w, v, o, u, n, q)
  BY TableFacts
<1>1. /\ q \in Nat /\ q > 1 /\ q > 0 /\ q \in Int /\ q \in 2..(Word - 1)
      /\ n \in Nat /\ n > 0 /\ table.q = q /\ table.n = n
      /\ \A t \in Nat : w[t] \in 0..(q - 1)
  BY <1>0 DEF TableSays
<1>2. \A i \in 0..(n - 1) : MulResidue(a[i], table.psiPowers[i], q) = (a[i] * w[i]) % q
  <2> TAKE i \in 0..(n - 1)
  <2> DEFINE y == a[i]  z == w[i]
  <2>1. table.psiPowers[i] = z
    BY DEF IsTable
  <2>2. i \in Nat
    BY <1>1
  <2>3. y \in Nat /\ z \in Nat
    BY <1>1, <2>2
  <2> HIDE DEF y, z
  <2>4. MulResidue(y, z, q) = (y * z) % q
    BY <1>1, <2>3, MulResidueExact
  <2> QED
    BY <2>1, <2>4 DEF y, z
<1>3. ASSUME NEW i \in Nat PROVE A[i] = (IF i < n THEN (a[i] * w[i]) % q ELSE 0) /\ A[i] \in 0..(q - 1)
  <2>1. A[i] = IF i < n THEN (a[i] * w[i]) % q ELSE 0
    BY DEF Twisted
  <2>2. CASE i < n
    <3> DEFINE y == a[i] * w[i]
    <3>1. y \in Int
      <4>1. i \in 0..(n - 1)
        BY <1>1, <2>2
      <4>2. a[i] \in Int /\ w[i] \in Int
        BY <1>1, <4>1
      <4> QED
        BY <4>2
    <3> HIDE DEF y
    <3>2. y % q \in 0..(q - 1)
      BY <1>1, <3>1
    <3> HIDE DEF A
    <3> QED
      BY <2>1, <2>2, <3>2 DEF y
  <2>3. CASE ~(i < n)
    <3> HIDE DEF A
    <3> QED
      BY <1>1, <2>1, <2>3
  <2> QED
    BY <2>1, <2>2, <2>3
<1>4. A \in [Nat -> Int]
  <2>1. A = [i \in Nat |-> A[i]]
    BY DEF Twisted
  <2> HIDE DEF A
  <2>2. \A i \in Nat : A[i] \in Int
    BY <1>1, <1>3
  <2> QED
    BY <2>1, <2>2
<1>5. \A i \in 0..(n - 1) : A[i] = (a[i] * w[i]) % q /\ A[i] \in 0..(q - 1)
  <2> TAKE i \in 0..(n - 1)
  <2>1. i \in Nat /\ i < n
    BY <1>1
  <2> HIDE DEF A
  <2> QED
    BY <1>3, <2>1
<1> HIDE DEF A
<1>6. b \in [0..(n - 1) -> 0..(q - 1)] /\ \A i \in 0..(n - 1) : A[i] = b[i]
  BY <1>2, <1>5
<1>7. Forward(a, table) = Radix2(b, n, table.omega, q)
  BY <1>1 DEF Forward
<1> HIDE DEF b
<1>8. IsRadix2(b, A, s, n, table.omega, o, q)
  BY <1>4, <1>6 DEF IsTable, Inverses, IsRadix2
<1>9. /\ Radix2(b, n, table.omega, q) \in [0..(n - 1) -> 0..(q - 1)]
      /\ \A j \in 0..(n - 1) : Radix2(b, n, table.omega, q)[j] = Part(A, 1, 0, n, o, j) % q
  BY <1>8, Radix2Transforms
<1>10. \A j : Part(A, 1, 0, n, o, j) = Total([t \in Nat |-> A[t] * o[j * t]], n)
  <2> TAKE j
  <2>1. \A t \in Nat : 0 + t * 1 = t
    OBVIOUS
  <2>2. [t \in Nat |-> A[0 + t * 1] * o[j * t]] = [t \in Nat |-> A[t] * o[j * t]]
    BY <2>1
  <2> QED
    BY <2>2 DEF Part
<1> QED
  BY <1>4, <1>5, <1>7, <1>9, <1>10 DEF A, ForwardIs

\* The powers of an odd power of psi.
PointPowers(w, j) == [k \in Nat |-> w[(2 * j + 1) * k]]

\* X^n = -1 holds of every such point.
LEMMA PointEvaluates ==
    ASSUME NEW table, NEW w, NEW v, NEW o, NEW u, NEW s, NEW n, NEW q,
           IsTable(table, w, v, o, u, s, n, q),
           NEW j \in Nat, NEW f, \A k \in 0..(n - 1) : f[k] \in Int
    PROVE  Evaluates(f, PointPowers(w, j), n, w[2 * j + 1], q)
<1> DEFINE e == 2 * j + 1  p == w[e]  g == PointPowers(w, j)
<1>0. TableSays(table, w, v, o, u, n, q)
  BY TableFacts
<1>1. /\ q \in Nat /\ q > 1 /\ q > 0 /\ n \in Nat /\ n > 0
      /\ \A t \in Nat : w[t] \in 0..(q - 1)
      /\ \A i, k \in Nat : w[i + k] = (w[i] * w[k]) % q
  BY <1>0 DEF TableSays
<1>2. g = [k \in Nat |-> w[e * k]] /\ e \in Nat
  BY DEF PointPowers
<1>20. p \in 0..(q - 1) /\ p \in Int
  <2> HIDE DEF e
  <2>1. w[e] \in 0..(q - 1)
    BY <1>1, <1>2
  <2> QED
    BY <1>1, <2>1
<1> HIDE DEF g, p
<1>3. \A k \in Nat : e * k \in Nat /\ e * (k + 1) = e * k + e
  BY <1>2
<1>4. e * n = n + (2 * n) * j
  BY <1>1
<1> HIDE DEF e
<1>5. \A k \in Nat : g[k] = w[e * k] /\ g[k] \in 0..(q - 1) /\ g[k + 1] = (g[k] * p) % q
  <2> TAKE k \in Nat
  <2> DEFINE ek == e * k
  <2>1. ek \in Nat /\ g[k] = w[ek] /\ k + 1 \in Nat /\ g[k + 1] = w[ek + e]
    BY <1>2, <1>3
  <2> HIDE DEF ek
  <2>2. w[ek + e] = (w[ek] * p) % q /\ w[ek] \in 0..(q - 1)
    BY <1>1, <1>2, <2>1 DEF p
  <2> QED
    BY <2>1, <2>2 DEF ek
<1>6. g[0] = 1
  <2>1. e * 0 = 0 /\ 0 \in Nat
    BY <1>2
  <2>2. w[0] = 1
    BY DEF IsTable, IsPowersMod
  <2> QED
    BY <1>5, <2>1, <2>2
<1>7. IsPowersMod(g, p, q)
  <2>1. g \in [Nat -> 0..(q - 1)]
    BY <1>2, <1>5
  <2> QED
    BY <1>5, <1>6, <2>1 DEF IsPowersMod
<1>8. g[n] = q - 1
  <2> DEFINE N == 2 * n
  <2>1. N \in Nat /\ w[N] = 1 /\ w[n] = q - 1 /\ e * n = n + N * j
    BY <1>1, <1>4 DEF IsTable
  <2>2. PICK b \in 0..(q - 1) : IsPowersMod(w, b, q)
    BY DEF IsTable
  <2>3. b \in Int /\ q \in Nat /\ q > 1 /\ n \in Nat
    BY <1>1
  <2> HIDE DEF N
  <2>4. w[n + N * j] = w[n]
    <3>1. N \in Nat /\ w[N] = 1
      BY <2>1
    <3> QED
      BY <2>2, <2>3, <3>1, PowersPeriod
  <2> QED
    BY <1>1, <1>5, <2>1, <2>4
<1> QED
  BY <1>1, <1>7, <1>8, <1>20 DEF Evaluates, e, p, g

\* The forward transform evaluates at the odd powers of psi.
LEMMA ForwardEvaluates ==
    ASSUME NEW table, NEW w, NEW v, NEW o, NEW u, NEW s, NEW n, NEW q,
           IsTable(table, w, v, o, u, s, n, q), NEW a \in [0..(n - 1) -> 0..(q - 1)]
    PROVE  \A j \in 0..(n - 1) : Forward(a, table)[j] = ValueAt(a, PointPowers(w, j), n) % q
<1> SUFFICES ASSUME NEW j \in 0..(n - 1)
             PROVE  Forward(a, table)[j] = ValueAt(a, PointPowers(w, j), n) % q
  OBVIOUS
<1>0. TableSays(table, w, v, o, u, n, q)
  BY TableFacts
<1>1. /\ q \in Nat /\ q > 1 /\ q > 0 /\ q \in Int /\ n \in Nat /\ n > 0
      /\ \A t \in Nat : w[t] \in 0..(q - 1)
      /\ \A i, k \in Nat : Cong(w[i + k], w[i] * w[k], q)
  BY <1>0 DEF TableSays
<1>2. \A t \in Nat : o[t] = w[2 * t]
  BY DEF IsTable
<1> DEFINE A == Twisted(a, w, n, q)
           h == [t \in Nat |-> A[t] * o[j * t]]
           g == PointPowers(w, j)
           f == [k \in 0..(n - 1) |-> a[k] * g[k]]
<1>30. ForwardIs(Forward(a, table), A, a, w, o, n, q)
  BY ForwardParts
<1>3. /\ \A i \in 0..(n - 1) : A[i] = (a[i] * w[i]) % q
      /\ Forward(a, table)[j] = Total(h, n) % q
  BY <1>30 DEF ForwardIs
<1>4. \A k \in Nat : g[k] = w[(2 * j + 1) * k]
  BY DEF PointPowers
<1> HIDE DEF A, g
<1>5. ASSUME NEW k \in 0..(n - 1) PROVE f[k] \in Int /\ h[k] \in Int /\ Cong(h[k], f[k], q)
  <2> DEFINE e == 2 * (j * k)  y == a[k]  z == w[k]  x1 == w[e]  gk == g[k]
             yz == y * z  ak == A[k]  zx == z * x1
  <2>1. k \in Nat /\ j \in Nat /\ j * k \in Nat /\ e \in Nat /\ (2 * j + 1) * k = k + e
    BY <1>1
  <2>2. gk = w[k + e] /\ h[k] = ak * x1 /\ f[k] = y * gk /\ ak = yz % q
    <3>1. o[j * k] = w[e]
      BY <1>2, <2>1
    <3>2. h[k] = A[k] * o[j * k]
      BY <2>1
    <3>3. f[k] = a[k] * g[k] /\ g[k] = w[(2 * j + 1) * k]
      BY <1>4, <2>1
    <3>4. A[k] = (a[k] * w[k]) % q
      BY <1>3
    <3> HIDE DEF e, h, f
    <3> QED
      BY <2>1, <3>1, <3>2, <3>3, <3>4
  <2>3. y \in Int /\ z \in Int /\ x1 \in Int /\ gk \in Int
    <3> HIDE DEF e
    <3>1. k + e \in Nat
      BY <2>1
    <3>2. w[k] \in 0..(q - 1) /\ w[e] \in 0..(q - 1) /\ w[k + e] \in 0..(q - 1) /\ a[k] \in 0..(q - 1)
      BY <1>1, <2>1, <3>1
    <3>3. \A c \in 0..(q - 1) : c \in Int
      BY <1>1
    <3> QED
      BY <2>2, <3>2, <3>3
  <2>4. Cong(gk, zx, q)
    <3> HIDE DEF e
    <3> QED
      BY <1>1, <2>1, <2>2
  <2> HIDE DEF e, y, z, x1, gk, ak, h, f
  <2>5. yz \in Int /\ zx \in Int /\ yz * x1 = y * zx
    BY <2>3
  <2> HIDE DEF yz, zx
  <2>6. ak \in Int /\ Cong(ak, yz, q) /\ Cong(x1, x1, q) /\ Cong(y, y, q)
    <3>1. yz % q \in 0..(q - 1) /\ Cong(yz % q, yz, q)
      BY <1>1, <2>5, CongOfMod
    <3> QED
      BY <1>1, <2>2, <2>3, <3>1, CongRefl
  <2> DEFINE ax == ak * x1  yzx == yz * x1  yg == y * gk  m == y * zx
  <2>7. ax \in Int /\ yzx \in Int /\ yg \in Int /\ m \in Int /\ yzx = m
    BY <2>3, <2>5, <2>6
  <2>8. Cong(ax, yzx, q)
    BY <1>1, <2>3, <2>5, <2>6, CongAdd
  <2>9. Cong(yg, m, q)
    BY <1>1, <2>3, <2>4, <2>5, <2>6, CongAdd
  <2> HIDE DEF ax, yzx, yg, m
  <2>10. Cong(m, yg, q)
    BY <1>1, <2>7, <2>9, CongSym
  <2>11. Cong(ax, yg, q)
    BY <1>1, <2>7, <2>8, <2>10, CongTrans
  <2> QED
    BY <2>2, <2>7, <2>11 DEF ax, yg
<1> HIDE DEF f, h
<1>6. Total(f, n) \in Int /\ Total(h, n) \in Int /\ Cong(Total(h, n), Total(f, n), q)
  BY <1>1, <1>5, TotalCong
<1>7. Total(h, n) % q = Total(f, n) % q
  BY <1>1, <1>6, CongIff
<1> QED
  BY <1>3, <1>7 DEF ValueAt, f, g

\* The inverse transform undoes the forward one.
THEOREM InverseUndoes ==
    ASSUME NEW table, NEW w, NEW v, NEW o, NEW u, NEW s, NEW n, NEW q,
           IsTable(table, w, v, o, u, s, n, q), NEW a \in [0..(n - 1) -> 0..(q - 1)]
    PROVE  InverseTransform(Forward(a, table), table) = a
<1>0. TableSays(table, w, v, o, u, n, q)
  BY TableFacts
<1>1. /\ q \in Nat /\ q > 1 /\ q > 0 /\ q \in Int /\ q \in 2..(Word - 1) /\ n \in Nat /\ n > 0
      /\ table.q = q /\ table.n = n
      /\ \A t \in Nat : w[t] \in 0..(q - 1) /\ v[t] \in 0..(q - 1)
  BY <1>0 DEF TableSays
<1>2. /\ Inverses(o, u, n, s, q) /\ s \in Nat /\ n = 2^s
      /\ table.invOmega \in 0..(q - 1) /\ IsPowersMod(u, table.invOmega, q)
      /\ \A t \in Nat : Cong(w[t] * v[t], 1, q)
      /\ \A i \in 0..(n - 1) : table.invPsiPowers[i] = v[i]
      /\ table.invDegree \in 0..(q - 1) /\ Cong(n * table.invDegree, 1, q)
  BY DEF IsTable
<1> DEFINE F == Forward(a, table)
           A == Twisted(a, w, n, q)
           E == [i \in Nat |-> IF i < n THEN F[i] ELSE 0]
           b == Radix2(F, n, table.invOmega, q)
           d == table.invDegree
           R == InverseTransform(F, table)
<1>3. /\ A \in [Nat -> Int]
      /\ \A i \in 0..(n - 1) : A[i] = (a[i] * w[i]) % q
      /\ F \in [0..(n - 1) -> 0..(q - 1)]
      /\ \A t \in 0..(n - 1) : F[t] = Total([j \in Nat |-> A[j] * o[t * j]], n) % q
  <2>1. ForwardIs(F, A, a, w, o, n, q)
    BY ForwardParts
  <2> QED
    BY <2>1 DEF ForwardIs
<1>4. R = [i \in 0..(n - 1) |-> MulResidue(MulResidue(b[i], d, q), table.invPsiPowers[i], q)]
  BY <1>1 DEF InverseTransform
<1> HIDE DEF F, A, R
<1>5. E \in [Nat -> Int] /\ \A i \in 0..(n - 1) : E[i] = F[i]
  <2>1. \A i \in Nat : i < n => F[i] \in Int
    BY <1>1, <1>3
  <2> QED
    BY <1>1, <2>1
<1> HIDE DEF E
<1>6. IsRadix2(F, E, s, n, table.invOmega, u, q)
  BY <1>1, <1>2, <1>3, <1>5 DEF Inverses, IsRadix2
<1>7. /\ b \in [0..(n - 1) -> 0..(q - 1)]
      /\ \A i \in 0..(n - 1) : b[i] = Part(E, 1, 0, n, u, i) % q
  BY <1>6, Radix2Transforms
<1> HIDE DEF b
<1>8. ASSUME NEW i \in 0..(n - 1) PROVE Cong(b[i], n * A[i], q)
  <2>1. \A t \in Nat : 0 + t * 1 = t
    OBVIOUS
  <2>2. [t \in Nat |-> E[0 + t * 1] * u[i * t]] = [t \in Nat |-> E[t] * u[i * t]]
    BY <2>1
  <2>3. b[i] = Total([t \in Nat |-> E[t] * u[i * t]], n) % q
    BY <1>7, <2>2 DEF Part
  <2>4. ASSUME NEW t \in 0..(n - 1)
        PROVE  E[t] \in Int /\ Cong(E[t], Total([j \in Nat |-> A[j] * o[t * j]], n), q)
    <3> DEFINE row == [j \in Nat |-> A[j] * o[t * j]]  z == Total(row, n)
    <3>1. E[t] = z % q
      BY <1>3, <1>5
    <3>2. z \in Int
      <4>1. \A j \in 0..(n - 1) : row[j] \in Int
        <5> TAKE j \in 0..(n - 1)
        <5> DEFINE e == t * j
        <5>1. j \in Nat /\ t \in Nat /\ e \in Nat /\ row[j] = A[j] * o[e]
          BY <1>1
        <5> HIDE DEF e
        <5>2. o[e] \in 0..(q - 1) /\ A[j] \in Int
          BY <1>0, <1>3, <5>1 DEF TableSays
        <5> HIDE DEF row
        <5> QED
          BY <1>1, <5>1, <5>2
      <4> HIDE DEF row
      <4> QED
        BY <1>1, <4>1, TotalType
    <3> HIDE DEF z
    <3>3. z % q \in 0..(q - 1) /\ Cong(z % q, z, q)
      BY <1>1, <3>2, CongOfMod
    <3> QED
      BY <1>1, <3>1, <3>3 DEF z
  <2>5. \A j \in 0..(n - 1) : A[j] \in Int
    BY <1>1, <1>3
  <2> DEFINE z == Total([t \in Nat |-> E[t] * u[i * t]], n)  m == n * A[i]
  <2>6. z \in Int /\ Cong(z, m, q)
    <3>1. Inverses(o, u, n, s, q)
      BY <1>2
    <3> HIDE DEF d
    <3> QED
      BY <2>4, <2>5, <3>1, InverseSums
  <2> HIDE DEF z
  <2>7. m \in Int
    BY <1>1, <2>5
  <2> HIDE DEF m
  <2>8. z % q \in Int /\ Cong(z % q, z, q)
    <3>1. z % q \in 0..(q - 1) /\ Cong(z % q, z, q)
      BY <1>1, <2>6, CongOfMod
    <3> QED
      BY <1>1, <3>1
  <2> DEFINE r == z % q
  <2>9. r \in Int /\ Cong(r, z, q) /\ b[i] = r
    BY <2>3, <2>8 DEF z
  <2> HIDE DEF r
  <2>10. Cong(r, m, q)
    BY <1>1, <2>6, <2>7, <2>9, CongTrans
  <2> QED
    BY <2>9, <2>10 DEF m
<1>9. ASSUME NEW i \in 0..(n - 1) PROVE R[i] = a[i]
  <2> DEFINE y == a[i]  bi == b[i]  wi == w[i]  vi == v[i]  yw == y * wi  Ai == A[i]
             nA == n * Ai  nd == n * d
             bd == bi * d  r == bd % q  rv == r * vi
  <2>1. /\ y \in 0..(q - 1) /\ bi \in 0..(q - 1) /\ wi \in 0..(q - 1) /\ vi \in 0..(q - 1)
        /\ d \in 0..(q - 1) /\ Ai = yw % q /\ i \in Nat
    <3>1. i \in Nat
      BY <1>1
    <3>2. wi \in 0..(q - 1) /\ vi \in 0..(q - 1)
      BY <1>1, <3>1
    <3>3. y \in 0..(q - 1) /\ bi \in 0..(q - 1) /\ d \in 0..(q - 1)
      BY <1>2, <1>7
    <3>4. Ai = yw % q
      BY <1>3
    <3> QED
      BY <3>1, <3>2, <3>3, <3>4
  <2>2. Cong(bi, nA, q) /\ Cong(wi * vi, 1, q) /\ Cong(nd, 1, q)
    BY <1>2, <1>8, <2>1
  <2>3. R[i] = MulResidue(MulResidue(bi, d, q), vi, q)
    BY <1>2, <1>4
  <2> HIDE DEF y, bi, wi, vi, d, Ai
  <2>4. y \in Int /\ bi \in Nat /\ bi \in Int /\ wi \in Int /\ vi \in Nat /\ vi \in Int /\ d \in Nat /\ d \in Int
    BY <1>1, <2>1
  <2>5. yw \in Int /\ bd \in Nat /\ bd \in Int /\ nd \in Int
    BY <1>1, <2>4
  <2>6. Ai \in Int /\ Cong(Ai, yw, q)
    <3> HIDE DEF yw
    <3>1. yw % q \in 0..(q - 1) /\ Cong(yw % q, yw, q)
      BY <1>1, <2>5, CongOfMod
    <3> QED
      BY <1>1, <2>1, <3>1
  <2>7. nA \in Int /\ nA * d = Ai * nd /\ Ai * 1 = Ai
    BY <1>1, <2>4, <2>6
  <2>8. MulResidue(bi, d, q) = r
    BY <1>1, <2>4, MulResidueExact
  <2> HIDE DEF bd, nA, nd
  <2>9. r \in 0..(q - 1) /\ Cong(r, bd, q)
    BY <1>1, <2>5, CongOfMod
  <2> HIDE DEF r
  <2>10. r \in Nat /\ r \in Int /\ rv \in Int
    BY <1>1, <2>4, <2>9
  <2>11. R[i] = rv % q
    BY <1>1, <2>3, <2>4, <2>8, <2>10, MulResidueExact
  <2>12. Cong(r, Ai, q)
    <3> DEFINE p1 == bi * d  p2 == nA * d  p3 == Ai * nd
    <3>1. Cong(d, d, q) /\ Cong(Ai, Ai, q) /\ p1 \in Int /\ p2 \in Int /\ p3 \in Int /\ p1 = bd /\ p2 = p3
      BY <1>1, <2>4, <2>5, <2>6, <2>7, CongRefl DEF bd
    <3>2. Cong(p1, p2, q)
      BY <1>1, <2>2, <2>4, <2>7, <3>1, CongAdd
    <3> DEFINE o1 == 1  q1 == Ai * o1
    <3>3. o1 \in Int /\ Cong(nd, o1, q) /\ q1 = Ai /\ q1 \in Int
      BY <2>2, <2>6, <2>7
    <3> HIDE DEF o1
    <3>4. Cong(p3, q1, q)
      BY <1>1, <2>5, <2>6, <3>1, <3>3, CongAdd
    <3> HIDE DEF p1, p2, p3, q1
    <3>5. Cong(p1, q1, q)
      BY <1>1, <3>1, <3>2, <3>3, <3>4, CongTrans
    <3>6. Cong(r, p1, q)
      BY <2>9, <3>1
    <3>7. Cong(r, q1, q)
      BY <1>1, <2>10, <3>1, <3>3, <3>5, <3>6, CongTrans
    <3> QED
      BY <3>3, <3>7
  <2>13. Cong(r, yw, q)
    BY <1>1, <2>5, <2>6, <2>10, <2>12, CongTrans
  <2>14. Cong(rv, y, q)
    <3> DEFINE p2 == yw * vi  wv == wi * vi  p3 == y * wv
    <3>1. Cong(vi, vi, q) /\ Cong(y, y, q) /\ p2 \in Int /\ wv \in Int /\ p3 \in Int /\ p2 = p3
      BY <1>1, <2>4, <2>5, CongRefl
    <3>2. Cong(rv, p2, q)
      BY <1>1, <2>4, <2>5, <2>10, <2>13, <3>1, CongAdd
    <3> DEFINE o1 == 1  q1 == y * o1
    <3>3. o1 \in Int /\ Cong(wv, o1, q) /\ q1 = y /\ q1 \in Int
      BY <2>2, <2>4
    <3> HIDE DEF o1
    <3>4. Cong(p3, q1, q)
      BY <1>1, <2>4, <3>1, <3>3, CongAdd
    <3> HIDE DEF rv, p2, p3, q1
    <3>5. Cong(rv, q1, q)
      BY <1>1, <2>10, <3>1, <3>2, <3>3, <3>4, CongTrans
    <3> QED
      BY <3>3, <3>5
  <2> HIDE DEF rv
  <2>15. rv % q = y % q
    BY <1>1, <2>4, <2>10, <2>14, CongIff
  <2>16. y % q = y
    <3>1. q \in Nat /\ y \in 0..(q - 1)
      BY <1>1, <2>1
    <3> QED
      BY <3>1
  <2> QED
    BY <2>11, <2>15, <2>16 DEF y
<1>10. R = [i \in 0..(n - 1) |-> R[i]]
  <2> DEFINE S(i) == MulResidue(MulResidue(b[i], d, q), table.invPsiPowers[i], q)
  <2> HIDE DEF S
  <2>1. R = [i \in 0..(n - 1) |-> S(i)]
    BY <1>4 DEF S
  <2> QED
    BY <2>1
<1>11. R = a
  BY <1>9, <1>10
<1> QED
  BY <1>11 DEF R, F

\* A negacyclic sum is an integer.
LEMMA WrappedType ==
    ASSUME NEW f, NEW g, NEW n \in Nat, NEW k \in 0..(n - 1),
           \A i \in 0..(n - 1) : f[i] \in Int /\ g[i] \in Int
    PROVE  Wrapped(f, g, n, k) \in Int
<1> DEFINE h == [a \in 0..(n - 1) |-> IF a <= k THEN f[a] * g[k - a] ELSE -(f[a] * g[k - a + n])]
<1>1. \A a \in 0..(n - 1) : h[a] \in Int
  <2> TAKE a \in 0..(n - 1)
  <2> DEFINE i == k - a  j == k - a + n
  <2>1. (a <= k => i \in 0..(n - 1)) /\ (~(a <= k) => j \in 0..(n - 1))
    OBVIOUS
  <2>2. h[a] = IF a <= k THEN f[a] * g[i] ELSE -(f[a] * g[j])
    OBVIOUS
  <2> HIDE DEF h, i, j
  <2>3. CASE a <= k
    BY <2>1, <2>2, <2>3
  <2>4. CASE ~(a <= k)
    BY <2>1, <2>2, <2>4
  <2> QED
    BY <2>3, <2>4
<1> HIDE DEF h
<1>2. Total(h, n) \in Int
  BY <1>1, TotalType
<1> QED
  BY <1>2 DEF h, Wrapped

\* Ring::mul's transform path: the product of the transforms is the transform
\* of the negacyclic product.
LEMMA NttMulIs ==
    ASSUME NEW table, NEW w, NEW v, NEW o, NEW u, NEW s, NEW n, NEW q,
           IsTable(table, w, v, o, u, s, n, q),
           NEW a \in [0..(n - 1) -> 0..(q - 1)], NEW b \in [0..(n - 1) -> 0..(q - 1)]
    PROVE  NttMul(a, b, table) = [k \in 0..(n - 1) |-> Wrapped(a, b, n, k) % q]
<1>0. TableSays(table, w, v, o, u, n, q)
  BY TableFacts
<1>1. /\ q \in Nat /\ q > 1 /\ q > 0 /\ q \in Int /\ q \in 2..(Word - 1) /\ n \in Nat /\ n > 0
      /\ table.q = q /\ table.n = n
  BY <1>0 DEF TableSays
<1> DEFINE I == 0..(n - 1)
           c == [k \in I |-> Wrapped(a, b, n, k) % q]
           fa == Forward(a, table)
           fb == Forward(b, table)
           fc == Forward(c, table)
           p == [i \in I |-> MulResidue(fa[i], fb[i], q)]
<1>2. \A i \in I : a[i] \in Int /\ b[i] \in Int /\ a[i] \in 0..(q - 1) /\ b[i] \in 0..(q - 1)
  BY <1>1
<1>3. \A k \in I : /\ Wrapped(a, b, n, k) \in Int /\ c[k] \in 0..(q - 1) /\ c[k] \in Int
                   /\ Cong(c[k], Wrapped(a, b, n, k), q)
  <2> TAKE k \in I
  <2> DEFINE z == Wrapped(a, b, n, k)
  <2>1. z \in Int
    BY <1>1, <1>2, WrappedType
  <2>2. c[k] = z % q
    OBVIOUS
  <2> HIDE DEF z, c
  <2>3. z % q \in 0..(q - 1) /\ Cong(z % q, z, q)
    BY <1>1, <2>1, CongOfMod
  <2> QED
    BY <1>1, <2>1, <2>2, <2>3 DEF z
<1>4. c \in [I -> 0..(q - 1)]
  BY <1>3
<1>40. NttMul(a, b, table) = InverseTransform(p, table)
  BY <1>1 DEF NttMul
<1> HIDE DEF c, fa, fb, fc
<1>5. fa \in [I -> 0..(q - 1)] /\ fb \in [I -> 0..(q - 1)] /\ fc \in [I -> 0..(q - 1)]
  <2>1. ForwardIs(fa, Twisted(a, w, n, q), a, w, o, n, q)
    BY ForwardParts DEF fa
  <2>2. ForwardIs(fb, Twisted(b, w, n, q), b, w, o, n, q)
    BY ForwardParts DEF fb
  <2>3. ForwardIs(fc, Twisted(c, w, n, q), c, w, o, n, q)
    BY <1>4, ForwardParts DEF fc
  <2> QED
    BY <2>1, <2>2, <2>3 DEF ForwardIs
<1>6. ASSUME NEW j \in I PROVE fc[j] = MulResidue(fa[j], fb[j], q)
  <2> DEFINE g == PointPowers(w, j)  y == ValueAt(a, g, n)  z == ValueAt(b, g, n)  r == ValueAt(c, g, n)
             B == w[2 * j + 1]
  <2>1. j \in Nat
    BY <1>1
  <2>2. Evaluates(a, g, n, B, q) /\ Evaluates(b, g, n, B, q) /\ Evaluates(c, g, n, B, q)
    BY <1>2, <1>3, <2>1, PointEvaluates
  <2>3. fa[j] = y % q /\ fb[j] = z % q
    BY ForwardEvaluates DEF fa, fb
  <2>4. fc[j] = r % q
    BY <1>4, ForwardEvaluates DEF fc
  <2> HIDE DEF g, B
  <2>5. y \in Int /\ z \in Int /\ r \in Int
    BY <2>2, ValueAtType
  <2>6. Cong(r, y * z, q)
    BY <1>3, <2>2, WrappedMultiplies
  <2> HIDE DEF y, z, r
  <2> DEFINE yz == y * z  d == y % q  e == z % q  de == d * e
  <2>7. yz \in Int /\ Cong(r, yz, q)
    BY <2>5, <2>6
  <2>8. d \in 0..(q - 1) /\ Cong(d, y, q)
    BY <1>1, <2>5, CongOfMod
  <2>9. e \in 0..(q - 1) /\ Cong(e, z, q)
    BY <1>1, <2>5, CongOfMod
  <2> HIDE DEF d, e
  <2>10. d \in Nat /\ e \in Nat /\ d \in Int /\ e \in Int /\ de \in Int
    BY <1>1, <2>8, <2>9
  <2>11. Cong(de, yz, q)
    BY <1>1, <2>5, <2>8, <2>9, <2>10, CongAdd
  <2>12. MulResidue(d, e, q) = de % q
    BY <1>1, <2>10, MulResidueExact
  <2> HIDE DEF yz, de
  <2>13. r % q = yz % q /\ de % q = yz % q
    BY <1>1, <2>5, <2>7, <2>10, <2>11, CongIff
  <2> QED
    BY <2>3, <2>4, <2>12, <2>13 DEF d, e
<1>7. p = fc
  BY <1>5, <1>6
<1> HIDE DEF p
<1>8. InverseTransform(fc, table) = c
  BY <1>4, InverseUndoes DEF fc
<1> QED
  BY <1>7, <1>8, <1>40 DEF c

\* A sum over a sequence as a sum over places from zero.
LEMMA SumOfTotal ==
    ASSUME NEW n \in Nat, NEW f, \A i \in 0..(n - 1) : f[i] \in Int,
           NEW t \in Seq(Int), Len(t) = n, \A i \in 1..n : t[i] = f[i - 1]
    PROVE  SumOf(t) = Total(f, n)
<1>1. PICK p \in [0..n -> Int] : /\ p[0] = 0 /\ \A k \in 1..n : p[k] = p[k - 1] + t[k]
                                 /\ SumOf(t) = p[n]
  BY SumSteps
<1> DEFINE G == {k \in Nat : k <= n => p[k] = Total(f, k)}
<1>2. \A k \in Nat : k < n => Total(f, k + 1) = Total(f, k) + f[k]
  <2> TAKE k \in Nat
  <2>1. SUFFICES ASSUME k < n PROVE Total(f, k + 1) = Total(f, k) + f[k]
    OBVIOUS
  <2>2. \A i \in 0..k : f[i] \in Int
    BY <2>1
  <2> QED
    BY <2>2, TotalStep
<1>3. 0 \in G
  <2>0. 0..(0 - 1) = {}
    OBVIOUS
  <2>1. Total(f, 0) = 0
    BY <2>0, SumEmpty DEF Total
  <2> QED
    BY <1>1, <2>1
<1>4. ASSUME NEW k \in Nat, k \in G PROVE k + 1 \in G
  <2>1. SUFFICES ASSUME k + 1 <= n PROVE p[k + 1] = Total(f, k + 1)
    OBVIOUS
  <2>2. k < n /\ k + 1 \in 1..n /\ (k + 1) - 1 = k /\ k <= n
    BY <2>1
  <2>3. p[k + 1] = p[k] + f[k]
    BY <1>1, <2>2
  <2> QED
    BY <1>2, <1>4, <2>2, <2>3
<1> HIDE DEF G
<1>5. n \in G
  BY <1>3, <1>4, InductionSet
<1> QED
  BY <1>1, <1>5 DEF G

\* The transform of one prime, for any two polynomials: At of NttMultiplies.
ValueOf(f, point, q) ==
    SumOf([i \in 1..Degree |-> f[i - 1] * PowMod(point, i - 1, q)]) % q

\* It is the value at the point.
LEMMA ValueOfIs ==
    ASSUME NEW q \in 2..(Word - 1), NEW f, NEW v, NEW b \in 0..(q - 1), Evaluates(f, v, Degree, b, q)
    PROVE  ValueOf(f, b, q) = ValueAt(f, v, Degree) % q
<1> DEFINE n == Degree
           t == [i \in 1..n |-> f[i - 1] * PowMod(b, i - 1, q)]
           g == [k \in 0..(n - 1) |-> f[k] * v[k]]
<1>0. q \in Nat /\ q > 1 /\ b \in Int
  BY WordType
<1>1. n \in Nat /\ n > 0
  BY DegreeIsPower
<1>2. IsPowersMod(v, b, q) /\ \A k \in 0..(n - 1) : f[k] \in Int
  BY DEF Evaluates
<1>3. \A k \in 0..(n - 1) : /\ k \in Nat /\ g[k] = f[k] * v[k] /\ g[k] \in Int
                            /\ PowMod(b, k, q) = v[k]
  <2> TAKE k \in 0..(n - 1)
  <2>1. k \in Nat
    BY <1>1
  <2>2. PowMod(b, k, q) = v[k]
    BY <1>0, <1>2, <2>1, PowModIs
  <2>3. f[k] \in Int /\ v[k] \in Int
    BY <1>0, <1>2, <2>1, PowersFacts
  <2> QED
    BY <2>1, <2>2, <2>3
<1> HIDE DEF n
<1>4. \A i \in 1..n : i - 1 \in 0..(n - 1) /\ t[i] = g[i - 1] /\ t[i] \in Int
  <2> TAKE i \in 1..n
  <2>1. i - 1 \in 0..(n - 1)
    BY <1>1
  <2> HIDE DEF g
  <2> QED
    BY <1>3, <2>1
<1>5. t \in Seq(Int) /\ Len(t) = n
  <2>1. t \in [1..n -> Int]
    BY <1>4
  <2>2. t \in Seq(Int)
    BY <1>1, <2>1
  <2> QED
    BY <1>1, <2>2
<1> HIDE DEF t, g
<1>6. SumOf(t) = Total(g, n)
  BY <1>1, <1>3, <1>4, <1>5, SumOfTotal
<1> QED
  BY <1>6 DEF ValueOf, ValueAt, t, g, n

\* The transform of one of the primes, on any two polynomials: forward it
\* evaluates at the odd powers of the root, backward it undoes that, and
\* Ring::mul through it is the schoolbook product.
THEOREM NttExact ==
    ASSUME NEW q \in NttModuli,
           NEW a \in [Coeffs -> 0..(q - 1)], NEW b \in [Coeffs -> 0..(q - 1)]
    PROVE  LET table == NttTable(Degree, q)
               psi == PrimitiveRoot(2 * Degree, q)
               Single(f) == [i \in Coeffs |-> <<f[i]>>]
           IN  /\ Forward(a, table) = [i \in Coeffs |-> ValueOf(a, PowMod(psi, 2 * i + 1, q), q)]
               /\ InverseTransform(Forward(a, table), table) = a
               /\ Single(NttMul(a, b, table)) = PolyMul(Single(a), Single(b), <<q>>)
<1> DEFINE n == Degree
           table == NttTable(Degree, q)
           psi == PrimitiveRoot(2 * Degree, q)
           Single(f) == [i \in Coeffs |-> <<f[i]>>]
<1>1. PICK w, v, o, u, s : IsTable(table, w, v, o, u, s, n, q)
                           /\ IsPowersMod(w, psi, q) /\ psi \in 0..(q - 1)
  BY TableFound
<1>2. Coeffs = 0..(n - 1)
  BY DEF Coeffs
<1> HIDE DEF n, table, psi
<1>3. TableSays(table, w, v, o, u, n, q)
  BY <1>1, TableFacts
<1>4. /\ q \in Nat /\ q > 1 /\ q > 0 /\ q \in 2..(Word - 1) /\ n \in Nat /\ n > 0
      /\ \A t \in Nat : w[t] \in 0..(q - 1)
  BY <1>3 DEF TableSays
<1>5. a \in [0..(n - 1) -> 0..(q - 1)] /\ b \in [0..(n - 1) -> 0..(q - 1)]
  BY <1>2
<1>6. ForwardIs(Forward(a, table), Twisted(a, w, n, q), a, w, o, n, q)
  BY <1>1, <1>5, ForwardParts
<1>7. Forward(a, table) = [i \in Coeffs |-> ValueOf(a, PowMod(psi, 2 * i + 1, q), q)]
  <2>1. Forward(a, table) \in [0..(n - 1) -> 0..(q - 1)]
    BY <1>6 DEF ForwardIs
  <2>2. ASSUME NEW j \in 0..(n - 1)
        PROVE  Forward(a, table)[j] = ValueOf(a, PowMod(psi, 2 * j + 1, q), q)
    <3> DEFINE e == 2 * j + 1  B == w[e]  g == PointPowers(w, j)
    <3>1. j \in Nat /\ e \in Nat
      BY <1>4
    <3>2. Forward(a, table)[j] = ValueAt(a, g, n) % q
      BY <1>1, <1>5, ForwardEvaluates
    <3>3. \A k \in 0..(n - 1) : a[k] \in Int
      BY <1>4, <1>5
    <3>4. Evaluates(a, g, n, B, q)
      BY <1>1, <3>1, <3>3, PointEvaluates
    <3> HIDE DEF e, g
    <3>5. PowMod(psi, e, q) = B /\ B \in 0..(q - 1)
      BY <1>1, <1>4, <3>1, PowModIs
    <3> HIDE DEF B
    <3>6. ValueOf(a, B, q) = ValueAt(a, g, n) % q
      BY <1>4, <3>4, <3>5, ValueOfIs DEF n
    <3> QED
      BY <3>2, <3>5, <3>6 DEF e
  <2> DEFINE F == Forward(a, table)  V(j) == ValueOf(a, PowMod(psi, 2 * j + 1, q), q)
  <2> HIDE DEF F, V
  <2>3. F \in [0..(n - 1) -> 0..(q - 1)] /\ \A j \in 0..(n - 1) : F[j] = V(j)
    BY <2>1, <2>2 DEF F, V
  <2>4. F = [i \in Coeffs |-> V(i)]
    BY <1>2, <2>3
  <2> QED
    BY <2>4 DEF F, V
<1>8. InverseTransform(Forward(a, table), table) = a
  BY <1>1, <1>5, InverseUndoes
<1>9. Single(NttMul(a, b, table)) = PolyMul(Single(a), Single(b), <<q>>)
  <2> DEFINE c == NttMul(a, b, table)
  <2>1. c = [k \in 0..(n - 1) |-> Wrapped(a, b, n, k) % q]
    BY <1>1, <1>5, NttMulIs
  <2>2. Component(Single(a), 1) = a /\ Component(Single(b), 1) = b
    <3>1. \A f \in [Coeffs -> 0..(q - 1)] : Component(Single(f), 1) = f
      <4> TAKE f \in [Coeffs -> 0..(q - 1)]
      <4>1. Component(Single(f), 1) = [i \in Coeffs |-> Single(f)[i][1]]
        BY DEF Component
      <4>2. \A i \in Coeffs : Single(f)[i][1] = f[i]
        OBVIOUS
      <4> HIDE DEF Single
      <4> QED
        BY <4>1, <4>2
    <3> QED
      BY <3>1
  <2>3. \A k \in Coeffs : NegacyclicCoeff(a, b, k) = Wrapped(a, b, n, k)
    <3> TAKE k \in Coeffs
    <3> DEFINE F(S) == [j \in S |-> IF j <= k THEN a[j] * b[k - j]
                                              ELSE -(a[j] * b[k - j + n])]
    <3>1. NegacyclicCoeff(a, b, k) = SumFunctionOnSet(F(Coeffs), Coeffs)
      BY Zenon DEF NegacyclicCoeff, n
    <3>2. Wrapped(a, b, n, k) = Total(F(0..(n - 1)), n)
      BY Zenon DEF Wrapped
    <3> HIDE DEF F
    <3>3. Wrapped(a, b, n, k) = SumFunctionOnSet(F(0..(n - 1)), 0..(n - 1))
      BY <3>2 DEF Total
    <3> QED
      BY <1>2, <3>1, <3>3
  <2>4. DOMAIN <<q>> = {1} /\ <<q>>[1] = q
    OBVIOUS
  <2> DEFINE W(k) == Wrapped(a, b, n, k) % q
  <2>5. PolyMul(Single(a), Single(b), <<q>>) = [k \in Coeffs |-> [j \in {1} |-> W(k)]]
    <3>1. PolyMul(Single(a), Single(b), <<q>>)
            = [k \in Coeffs |-> [j \in DOMAIN <<q>> |->
                 NegacyclicCoeff(Component(Single(a), j), Component(Single(b), j), k) % <<q>>[j]]]
      BY DEF PolyMul
    <3> HIDE DEF Single
    <3>2. \A k \in Coeffs : \A j \in {1} :
             NegacyclicCoeff(Component(Single(a), j), Component(Single(b), j), k) % <<q>>[j] = W(k)
      BY <2>2, <2>3, <2>4
    <3> HIDE DEF W
    <3> QED
      BY <2>4, <3>1, <3>2
  <2>6. \A k \in Coeffs : c[k] = W(k)
    BY <1>2, <2>1
  <2> HIDE DEF c, W
  <2>7. \A k \in Coeffs : [j \in {1} |-> W(k)] = <<c[k]>>
    <3> TAKE k \in Coeffs
    <3> DEFINE y == c[k]
    <3>1. W(k) = y
      BY <2>6
    <3> HIDE DEF y
    <3>2. [j \in {1} |-> y] = <<y>>
      OBVIOUS
    <3> QED
      BY <3>1, <3>2 DEF y
  <2> QED
    BY <2>5, <2>7 DEF c
<1> QED
  BY <1>7, <1>8, <1>9 DEF table, psi

\* The polynomials of the walk are such polynomials.
LEMMA NttHolds == x \in 0..(Cases - 1) => NttMultiplies
<1>1. SUFFICES ASSUME x \in 0..(Cases - 1) PROVE NttMultiplies
  OBVIOUS
<1>2. x \in Nat
  BY <1>1, CasesAssumption
<1>3. SUFFICES ASSUME NEW q \in NttModuli
               PROVE
        LET table == NttTable(Degree, q)
            psi == PrimitiveRoot(2 * Degree, q)
            a == [i \in Coeffs |-> (x * (i + 3) + x \div (i + 2)) % q]
            b == [i \in Coeffs |-> (x * x + 7 * i * x + i) % q]
            At(f, point) == SumOf([i \in 1..Degree |->
                                      f[i - 1] * PowMod(point, i - 1, q)]) % q
            Single(f) == [i \in Coeffs |-> <<f[i]>>]
            product == NttMul(a, b, table)
        IN  /\ Forward(a, table) = [i \in Coeffs |-> At(a, PowMod(psi, 2 * i + 1, q))]
            /\ InverseTransform(Forward(a, table), table) = a
            /\ Single(product) = PolyMul(Single(a), Single(b), <<q>>)
  BY DEF NttMultiplies
<1> DEFINE a == [i \in Coeffs |-> (x * (i + 3) + x \div (i + 2)) % q]
           b == [i \in Coeffs |-> (x * x + 7 * i * x + i) % q]
<1>4. q \in Nat /\ q > 0
  BY NttModulus
<1>5. a \in [Coeffs -> 0..(q - 1)]
  <2>1. ASSUME NEW i \in Coeffs PROVE (x * (i + 3) + x \div (i + 2)) % q \in 0..(q - 1)
    <3> DEFINE y == x  d == i + 2  z == y * (i + 3) + y \div d
    <3>1. i \in Nat
      BY DegreeIsPower DEF Coeffs
    <3>2. y \in Nat /\ d \in Nat /\ d > 0
      BY <1>2, <3>1
    <3> HIDE DEF y, d
    <3>3. y \div d \in Nat
      BY <3>2, QuotientNat
    <3>4. z \in Int
      BY <3>1, <3>2, <3>3
    <3> HIDE DEF z
    <3>5. z % q \in 0..(q - 1)
      BY <1>4, <3>4
    <3> QED
      BY <3>5 DEF z, y, d
  <2> QED
    BY <2>1
<1>6. b \in [Coeffs -> 0..(q - 1)]
  <2>1. ASSUME NEW i \in Coeffs PROVE (x * x + 7 * i * x + i) % q \in 0..(q - 1)
    <3> DEFINE y == x  z == y * y + 7 * i * y + i
    <3>1. i \in Nat
      BY DegreeIsPower DEF Coeffs
    <3>2. y \in Nat
      BY <1>2
    <3> HIDE DEF y
    <3>3. z \in Int
      BY <3>1, <3>2
    <3> HIDE DEF z
    <3>4. z % q \in 0..(q - 1)
      BY <1>4, <3>3
    <3> QED
      BY <3>4 DEF z, y
  <2> QED
    BY <2>1
<1> HIDE DEF a, b
<1>7. LET table == NttTable(Degree, q)
          psi == PrimitiveRoot(2 * Degree, q)
          Single(f) == [i \in Coeffs |-> <<f[i]>>]
      IN  /\ Forward(a, table) = [i \in Coeffs |-> ValueOf(a, PowMod(psi, 2 * i + 1, q), q)]
          /\ InverseTransform(Forward(a, table), table) = a
          /\ Single(NttMul(a, b, table)) = PolyMul(Single(a), Single(b), <<q>>)
  BY <1>5, <1>6, NttExact
<1> QED
  BY <1>7 DEF ValueOf, a, b

\* The transform is exact for every prime of a word that supports one and every
\* degree that is a power of two (NttMultiplies): it evaluates at the odd powers
\* of the root primitive_root_of_order finds, its inverse undoes it, and Ring::mul
\* through it is the schoolbook product.
THEOREM NttAlways == Spec => []NttMultiplies
<1> QED
  BY NttHolds, WalkType, PTL
=============================================================================
