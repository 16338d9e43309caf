------------------------------ MODULE VssProofs ------------------------------
(***************************************************************************)
(* Verifiable secret sharing for any dealers, recipients, threshold and    *)
(* prime field: an accumulator holds the sum of the shares it accepted,    *)
(* and final shares that passed verify_combined interpolate to the sum of  *)
(* the dealers' secrets from every subset that reaches the threshold.      *)
(***************************************************************************)
EXTENDS VssDkg, ArithmeticProofs

\* The field of the scalars.
LEMMA FieldFacts ==
    /\ L \in Nat /\ L > 1 /\ L > 0 /\ L \in Int /\ IsPrime(L)
    /\ 0 \in Field /\ 1 \in Field
    /\ \A v \in Field : v \in Int /\ v % L = v
    /\ \A v \in Int : v % L \in Field
<1>1. L \in Nat /\ L > 1 /\ \A k \in 2..(L - 1) : L % k # 0
  BY FieldAssumption
<1>2. \A v \in Int : v % L \in 0..(L - 1)
  BY <1>1, Quotient
<1>3. \A v \in 0..(L - 1) : v % L = v
  BY <1>1
<1>4. IsPrime(L)
  BY <1>1 DEF IsPrime
<1>5. 0 \in 0..(L - 1) /\ 1 \in 0..(L - 1) /\ \A v \in 0..(L - 1) : v \in Int
  BY <1>1
<1> QED
  BY <1>1, <1>2, <1>3, <1>4, <1>5 DEF Field

-----------------------------------------------------------------------------
(* A share and its check against the commitments.                          *)

\* One term of the right-hand side that verify_equation sums.
Term(acc, c, z) == [rhs |-> (acc.rhs + c * acc.power) % L, power |-> (acc.power * z) % L]

\* The states of verify's loop.
TermStates == [rhs : Field, power : Field]

\* verify_equation, one commitment at a time.
LEMMA CommitmentSteps ==
    ASSUME NEW s \in Seq(Int), NEW z \in Int
    PROVE  \E p \in [0..Len(s) -> TermStates] :
              /\ p[0] = [rhs |-> 0, power |-> 1]
              /\ \A k \in 1..Len(s) : p[k] = Term(p[k - 1], s[k], z)
              /\ CommitmentAt(s, z) = p[Len(s)].rhs
<1> DEFINE n == Len(s)
           base == [rhs |-> 0, power |-> 1]
           Iterates(h) == h = [W \in SUBSET (1..n) |->
               IF W = {} THEN base
               ELSE [rhs |-> (h[W \ {Max(W)}].rhs + s[Max(W)] * h[W \ {Max(W)}].power) % L,
                     power |-> (h[W \ {Max(W)}].power * z) % L]]
           iter == CHOOSE h : Iterates(h)
           V == TermStates \cup {iter[W] : W \in SUBSET (1..n)}
           step == [k \in 1..n |-> [v \in V |-> Term(v, s[k], z)]]
<1>1. n \in Nat /\ DOMAIN s = 1..n /\ \A k \in 1..n : s[k] \in Int
  OBVIOUS
<1>2. CommitmentAt(s, z) = iter[1..n].rhs
  BY <1>1 DEF CommitmentAt, FoldLeft, MapThenFoldSet
<1> HIDE DEF iter
<1>3. TermStates \subseteq V /\ \A W \in SUBSET (1..n) : iter[W] \in V
  OBVIOUS
<1> HIDE DEF V
<1>4. \A k \in 1..n, v \in V : step[k][v] = Term(v, s[k], z)
  BY <1>1
<1> HIDE DEF step, n
<1>5. HasFold(n, TermStates, base, step) /\ HasChain(n, TermStates, base, step)
  <2>1. SeqSteps(step, n, TermStates)
    <3> SUFFICES ASSUME NEW k \in 1..n, NEW v \in TermStates PROVE step[k][v] \in TermStates
      BY DEF SeqSteps
    <3>1. step[k][v] = Term(v, s[k], z) /\ s[k] \in Int
      BY <1>1, <1>3, <1>4
    <3>2. v.rhs \in Int /\ v.power \in Int
      BY FieldFacts DEF TermStates
    <3>3. v.rhs + s[k] * v.power \in Int /\ v.power * z \in Int
      BY <3>1, <3>2
    <3>4. (v.rhs + s[k] * v.power) % L \in Field /\ (v.power * z) % L \in Field
      BY <3>3, FieldFacts
    <3> QED
      BY <3>1, <3>4 DEF Term, TermStates
  <2>2. base \in TermStates /\ n \in Nat
    BY <1>1, FieldFacts DEF TermStates
  <2> HIDE DEF base
  <2> QED
    BY <2>1, <2>2, FoldLeftChain
<1>6. \A W \in SUBSET (1..n) :
         /\ W \ {Max(W)} \in SUBSET (1..n) /\ MaxOf(n)[W] = Max(W)
         /\ W # {} => Max(W) \in 1..n
  BY <1>1, MaxOfInterval DEF MaxOf
<1> HIDE DEF base
<1>7. Iterates(iter)
  <2>1. PICK g \in [SUBSET (1..n) -> TermStates] : IsFold(g, 1..n, base, step, MaxOf(n))
    BY <1>5 DEF HasFold
  <2>2. ASSUME NEW W \in SUBSET (1..n)
        PROVE  g[W] = IF W = {} THEN base ELSE Term(g[W \ {Max(W)}], s[Max(W)], z)
    <3>1. g[W] = FoldAt(g, W, base, step, MaxOf(n)) /\ g[W \ {Max(W)}] \in V
      BY <2>1, <1>3, <1>6 DEF IsFold
    <3> QED
      BY <3>1, <1>4, <1>6 DEF FoldAt
  <2>3. Iterates(g)
    BY <2>1, <2>2 DEF Term
  <2> QED
    BY <2>3 DEF iter
<1>8. IsFold(iter, 1..n, base, step, MaxOf(n))
  <2> SUFFICES ASSUME NEW W \in SUBSET (1..n)
               PROVE  iter[W] = FoldAt(iter, W, base, step, MaxOf(n))
    BY DEF IsFold
  <2>1. CASE W = {}
    BY <1>7, <2>1 DEF FoldAt
  <2>2. CASE W # {}
    <3>1. iter[W] = Term(iter[W \ {Max(W)}], s[Max(W)], z)
      BY <1>7, <2>2 DEF Term
    <3>2. iter[W \ {Max(W)}] \in V /\ Max(W) \in 1..n
      BY <1>3, <1>6, <2>2
    <3>3. step[Max(W)][iter[W \ {Max(W)}]] = Term(iter[W \ {Max(W)}], s[Max(W)], z)
      BY <1>4, <3>2
    <3> QED
      BY <1>6, <2>2, <3>1, <3>3 DEF FoldAt
  <2> QED
    BY <2>1, <2>2
<1>9. PICK p \in [0..n -> TermStates] :
         /\ IsChain(p, n, base, step)
         /\ \A h : IsFold(h, 1..n, base, step, MaxOf(n)) => h[1..n] = p[n]
  BY <1>5 DEF HasChain
<1>10. iter[1..n] = p[n]
  BY <1>8, <1>9
<1>11. p[0] = base /\ \A k \in 1..n : p[k] = Term(p[k - 1], s[k], z)
  <2>1. \A k \in 1..n : p[k] = step[k][p[k - 1]] /\ p[k - 1] \in V
    BY <1>1, <1>3, <1>9 DEF IsChain
  <2> QED
    BY <1>4, <1>9, <2>1 DEF IsChain
<1> QED
  BY <1>2, <1>10, <1>11 DEF n, base

\* Horner's method, one coefficient at a time from the highest down.
LEMMA EvaluateSteps ==
    ASSUME NEW s \in Seq(Int), NEW z \in Int
    PROVE  \E p \in [1..(Len(s) + 1) -> Field] :
              /\ p[Len(s) + 1] = 0
              /\ \A k \in 1..Len(s) : p[k] = (p[k + 1] * z + s[k]) % L
              /\ Evaluate(s, z) = p[1]
<1> DEFINE n == Len(s)
           Iterates(h) == h = [W \in SUBSET (1..n) |->
               IF W = {} THEN 0 ELSE (h[W \ {Min(W)}] * z + s[Min(W)]) % L]
           iter == CHOOSE h : Iterates(h)
           V == Field \cup {iter[W] : W \in SUBSET (1..n)}
           step == [k \in 1..n |-> [v \in V |-> (v * z + s[k]) % L]]
<1>1. n \in Nat /\ DOMAIN s = 1..n /\ \A k \in 1..n : s[k] \in Int
  OBVIOUS
<1>2. Evaluate(s, z) = iter[1..n]
  BY <1>1 DEF Evaluate, FoldRight, MapThenFoldSet
<1> HIDE DEF iter
<1>3. Field \subseteq V /\ \A W \in SUBSET (1..n) : iter[W] \in V
  OBVIOUS
<1> HIDE DEF V
<1>4. \A k \in 1..n, v \in V : step[k][v] = (v * z + s[k]) % L
  BY <1>1
<1> HIDE DEF step, n
<1>5. HasRightFold(n, Field, 0, step) /\ HasRightChain(n, Field, 0, step)
  <2>1. SeqSteps(step, n, Field)
    <3> SUFFICES ASSUME NEW k \in 1..n, NEW v \in Field PROVE step[k][v] \in Field
      BY DEF SeqSteps
    <3>1. step[k][v] = (v * z + s[k]) % L /\ s[k] \in Int /\ v \in Int
      BY <1>1, <1>3, <1>4, FieldFacts
    <3>2. v * z + s[k] \in Int
      BY <3>1
    <3> QED
      BY <3>1, <3>2, FieldFacts
  <2>2. 0 \in Field /\ n \in Nat
    BY <1>1, FieldFacts
  <2> QED
    BY <2>1, <2>2, FoldRightChain
<1>6. \A W \in SUBSET (1..n) :
         /\ W \ {Min(W)} \in SUBSET (1..n) /\ MinOf(n)[W] = Min(W)
         /\ W # {} => Min(W) \in 1..n
  BY <1>1, MinOfInterval DEF MinOf
<1>7. Iterates(iter)
  <2>1. PICK g \in [SUBSET (1..n) -> Field] : IsFold(g, 1..n, 0, step, MinOf(n))
    BY <1>5 DEF HasRightFold
  <2>2. ASSUME NEW W \in SUBSET (1..n)
        PROVE  g[W] = IF W = {} THEN 0 ELSE (g[W \ {Min(W)}] * z + s[Min(W)]) % L
    <3>1. g[W] = FoldAt(g, W, 0, step, MinOf(n)) /\ g[W \ {Min(W)}] \in V
      BY <2>1, <1>3, <1>6 DEF IsFold
    <3> QED
      BY <3>1, <1>4, <1>6 DEF FoldAt
  <2>3. Iterates(g)
    BY <2>1, <2>2
  <2> QED
    BY <2>3 DEF iter
<1>8. IsFold(iter, 1..n, 0, step, MinOf(n))
  <2> SUFFICES ASSUME NEW W \in SUBSET (1..n)
               PROVE  iter[W] = FoldAt(iter, W, 0, step, MinOf(n))
    BY DEF IsFold
  <2>1. CASE W = {}
    BY <1>7, <2>1 DEF FoldAt
  <2>2. CASE W # {}
    <3>1. iter[W] = (iter[W \ {Min(W)}] * z + s[Min(W)]) % L
      BY <1>7, <2>2
    <3>2. iter[W \ {Min(W)}] \in V /\ Min(W) \in 1..n
      BY <1>3, <1>6, <2>2
    <3>3. step[Min(W)][iter[W \ {Min(W)}]] = (iter[W \ {Min(W)}] * z + s[Min(W)]) % L
      BY <1>4, <3>2
    <3> QED
      BY <1>6, <2>2, <3>1, <3>3 DEF FoldAt
  <2> QED
    BY <2>1, <2>2
<1>9. PICK p \in [1..(n + 1) -> Field] :
         /\ IsRightChain(p, n, 0, step)
         /\ \A h : IsFold(h, 1..n, 0, step, MinOf(n)) => h[1..n] = p[1]
  BY <1>5 DEF HasRightChain
<1>10. iter[1..n] = p[1]
  BY <1>8, <1>9
<1>11. p[n + 1] = 0 /\ \A k \in 1..n : p[k] = (p[k + 1] * z + s[k]) % L
  <2>1. \A k \in 1..n : p[k] = step[k][p[k + 1]] /\ p[k + 1] \in V
    <3>1. \A k \in 1..n : k + 1 \in 1..(n + 1)
      BY <1>1
    <3> QED
      BY <3>1, <1>3, <1>9 DEF IsRightChain
  <2> QED
    BY <1>4, <1>9, <2>1 DEF IsRightChain
<1> QED
  BY <1>2, <1>10, <1>11 DEF n

\* A share verifies exactly when it is the dealer's polynomial at the
\* recipient's id: both sides of verify_equation are the same number.
LEMMA CommitmentOpens ==
    ASSUME NEW s \in Seq(Int), NEW z \in Int
    PROVE  CommitmentAt(s, z) = Evaluate(s, z) /\ Evaluate(s, z) \in Field
<1>1. PICK p \in [0..Len(s) -> TermStates] :
         /\ p[0] = [rhs |-> 0, power |-> 1]
         /\ \A k \in 1..Len(s) : p[k] = Term(p[k - 1], s[k], z)
         /\ CommitmentAt(s, z) = p[Len(s)].rhs
  BY CommitmentSteps
<1>2. PICK h \in [1..(Len(s) + 1) -> Field] :
         /\ h[Len(s) + 1] = 0
         /\ \A k \in 1..Len(s) : h[k] = (h[k + 1] * z + s[k]) % L
         /\ Evaluate(s, z) = h[1]
  BY EvaluateSteps
<1> DEFINE n == Len(s)
           N == {k \in Nat : k <= n => Cong(p[k].rhs + p[k].power * h[k + 1], h[1], L)}
<1>3. n \in Nat
  OBVIOUS
<1>4. \A k \in 0..n : /\ p[k].rhs \in Field /\ p[k].rhs \in Int
                      /\ p[k].power \in Field /\ p[k].power \in Int
                      /\ k + 1 \in 1..(n + 1) /\ h[k + 1] \in Field /\ h[k + 1] \in Int
  <2> HIDE DEF N
  <2>1. \A k \in 0..n : p[k] \in TermStates /\ k + 1 \in 1..(n + 1)
    BY <1>3
  <2>2. \A k \in 0..n : h[k + 1] \in Field
    BY <2>1
  <2> QED
    BY <2>1, <2>2, FieldFacts DEF TermStates
<1>5. 0 \in N
  <2>1. p[0].rhs = 0 /\ p[0].power = 1 /\ h[1] \in Int
    BY <1>1, <1>2, <1>3, FieldFacts
  <2>2. p[0].rhs + p[0].power * h[0 + 1] = h[1]
    BY <2>1
  <2> QED
    BY <2>1, <2>2, CongRefl, FieldFacts
<1>6. ASSUME NEW k \in Nat, k \in N PROVE k + 1 \in N
  <2> SUFFICES ASSUME k + 1 <= n
               PROVE  Cong(p[k + 1].rhs + p[k + 1].power * h[k + 2], h[1], L)
    BY <1>3
  <2> DEFINE r == p[k].rhs
             w == p[k].power
             c == s[k + 1]
             g == h[k + 2]
             g1 == h[k + 1]
             u == p[k + 1].rhs
             v == p[k + 1].power
             t == h[1]
  <2>1. /\ k \in 0..n /\ k + 1 \in 0..n /\ k + 1 \in 1..n /\ k + 1 - 1 = k
        /\ k + 1 + 1 = k + 2 /\ k <= n
    BY <1>3
  <2>2. Cong(r + w * g1, t, L)
    BY <1>6, <2>1
  <2> HIDE DEF N
  <2>3. /\ r \in Int /\ w \in Int /\ c \in Int /\ g \in Int /\ g1 \in Int /\ t \in Int
        /\ u \in Int /\ v \in Int /\ L \in Int /\ L \in Nat /\ L > 0
    <3>1. r \in Int /\ w \in Int /\ g1 \in Int
      BY <1>4, <2>1
    <3>2. u \in Int /\ v \in Int /\ g \in Int
      BY <1>4, <2>1
    <3>3. c \in Int
      BY <2>1
    <3>4. t \in Int
      <4>1. 1 \in 1..(Len(s) + 1)
        BY <1>3
      <4> QED
        BY <1>2, <4>1, FieldFacts
    <3> QED
      BY <3>1, <3>2, <3>3, <3>4, FieldFacts
  <2>4. u = (r + c * w) % L /\ v = (w * z) % L
    <3>1. p[k + 1] = Term(p[k], s[k + 1], z)
      BY <1>1, <2>1
    <3> QED
      BY <3>1 DEF Term
  <2>5. g1 = (g * z + c) % L
    BY <1>2, <2>1
  <2> HIDE DEF r, w, c, g, g1, u, v, t
  <2>6. Cong(u, r + c * w, L) /\ Cong(v, w * z, L) /\ Cong(g1, g * z + c, L)
    <3>1. r + c * w \in Int /\ w * z \in Int /\ g * z + c \in Int
      BY <2>3
    <3> QED
      BY <2>3, <2>4, <2>5, <3>1, CongOfMod, CongSym
  <2>7. Cong(w * g1, w * (g * z + c), L)
    <3>1. g * z + c \in Int
      BY <2>3
    <3> QED
      BY <2>3, <2>6, <3>1, CongRefl, CongAdd
  <2>8. Cong(v * g, (w * z) * g, L)
    <3>1. w * z \in Int
      BY <2>3
    <3> QED
      BY <2>3, <2>6, <3>1, CongRefl, CongAdd
  <2>9. Cong(u + v * g, (r + c * w) + (w * z) * g, L)
    <3>1. r + c * w \in Int /\ (w * z) * g \in Int /\ v * g \in Int
      BY <2>3
    <3> QED
      BY <2>3, <2>6, <2>8, <3>1, CongAdd
  <2>10. Cong(r + w * g1, r + w * (g * z + c), L)
    <3>1. w * g1 \in Int /\ w * (g * z + c) \in Int
      BY <2>3
    <3> QED
      BY <2>3, <2>7, <3>1, CongRefl, CongAdd
  <2>11. (r + c * w) + (w * z) * g = r + w * (g * z + c)
    BY <2>3
  <2>12. Cong(u + v * g, t, L)
    <3> DEFINE a == u + v * g  b == r + w * g1  d == r + w * (g * z + c)
    <3>1. a \in Int /\ b \in Int /\ d \in Int
      BY <2>3
    <3>2. Cong(a, d, L) /\ Cong(b, d, L) /\ Cong(b, t, L)
      BY <2>2, <2>9, <2>10, <2>11
    <3> HIDE DEF a, b, d
    <3>3. Cong(d, b, L)
      BY <2>3, <3>1, <3>2, CongSym
    <3>4. Cong(a, b, L)
      BY <2>3, <3>1, <3>2, <3>3, CongTrans
    <3>5. Cong(a, t, L)
      BY <2>3, <3>1, <3>2, <3>4, CongTrans
    <3> QED
      BY <3>5 DEF a
  <2> QED
    BY <2>12 DEF u, v, g, t
<1> HIDE DEF N
<1>7. n \in N
  BY <1>3, <1>5, <1>6, InductionSet
<1>8. Cong(p[n].rhs, h[1], L)
  <2>1. Cong(p[n].rhs + p[n].power * h[n + 1], h[1], L)
    BY <1>3, <1>7 DEF N
  <2>2. n \in 0..n /\ h[n + 1] = 0
    BY <1>2, <1>3
  <2>3. p[n].rhs + p[n].power * h[n + 1] = p[n].rhs
    BY <1>4, <2>2
  <2> QED
    BY <2>1, <2>3
<1>9. p[n].rhs \in Field /\ h[1] \in Field
  BY <1>2, <1>3, <1>4
<1>10. p[n].rhs = h[1]
  BY <1>8, <1>9, CongUnique, FieldFacts DEF Field
<1> QED
  BY <1>1, <1>2, <1>9, <1>10

-----------------------------------------------------------------------------
(* Products of scalars.                                                    *)

\* Two factors may be multiplied in either order.
LEMMA FactorsCommute ==
    ASSUME NEW v \in Int, NEW a \in Int, NEW b \in Int
    PROVE  (((v * a) % L) * b) % L = (((v * b) % L) * a) % L
<1> DEFINE va == v * a  vb == v * b  ra == va % L  rb == vb % L
<1>1. /\ va \in Int /\ vb \in Int /\ L \in Nat /\ L > 0 /\ L \in Int
      /\ ra \in Int /\ rb \in Int
  BY FieldFacts
<1>2. va * b = vb * a
  OBVIOUS
<1> HIDE DEF va, vb
<1>3. Cong(ra, va, L) /\ Cong(rb, vb, L)
  BY <1>1, CongOfMod, CongSym
<1> HIDE DEF ra, rb
<1>4. Cong(ra * b, va * b, L) /\ Cong(rb * a, vb * a, L)
  BY <1>1, <1>3, CongRefl, CongAdd
<1>5. ra * b \in Int /\ rb * a \in Int /\ va * b \in Int
  BY <1>1
<1>6. Cong(va * b, rb * a, L)
  BY <1>1, <1>2, <1>4, <1>5, CongSym
<1>7. Cong(ra * b, rb * a, L)
  BY <1>1, <1>4, <1>5, <1>6, CongTrans
<1>8. (ra * b) % L = (rb * a) % L
  BY <1>1, <1>5, <1>7, CongIff
<1> QED
  BY <1>8 DEF ra, rb, va, vb

\* The product over the empty set is 1, and any element may be taken last.
IsProduct(f, S) ==
    /\ ScalarProduct(f, {}) = 1
    /\ \A W \in SUBSET S : ScalarProduct(f, W) \in Field
    /\ \A W \in SUBSET S : \A e \in W :
          ScalarProduct(f, W) = (ScalarProduct(f, W \ {e}) * f[e]) % L

\* ScalarProduct is a product.
LEMMA ProductIsProduct ==
    ASSUME NEW S, IsFiniteSet(S), NEW f, IntOn(f, S)
    PROVE  IsProduct(f, S)
<1> DEFINE Iterates(h, W) == h = [s \in SUBSET W |->
               IF s = {} THEN 1
               ELSE (h[s \ {CHOOSE e \in s : TRUE}] * f[CHOOSE e \in s : TRUE]) % L]
           iter == [W \in SUBSET S |-> CHOOSE h : Iterates(h, W)]
           V == Field \cup UNION {{iter[W][s] : s \in SUBSET W} : W \in SUBSET S}
           step == [e \in S |-> [v \in V |-> (v * f[e]) % L]]
           c == AnyOf(S)
<1>1. \A W \in SUBSET S : ScalarProduct(f, W) = iter[W][W]
  BY DEF ScalarProduct, FoldFunctionOnSet, MapThenFoldSet
<1>2. \A W \in SUBSET S : iter[W] = CHOOSE h : Iterates(h, W)
  OBVIOUS
<1> HIDE DEF iter
<1>3. Field \subseteq V /\ \A W \in SUBSET S : \A s \in SUBSET W : iter[W][s] \in V
  OBVIOUS
<1> HIDE DEF V
<1>4. \A e \in S, v \in V : step[e][v] = (v * f[e]) % L
  OBVIOUS
<1> HIDE DEF step
<1>5. PICK g : IsSetFold(g, S, Field, 1, step)
  <2>1. Steps(step, S, Field)
    <3> SUFFICES ASSUME NEW e \in S, NEW v \in Field PROVE step[e][v] \in Field
      BY DEF Steps
    <3>1. step[e][v] = (v * f[e]) % L /\ f[e] \in Int /\ v \in Int
      BY <1>3, <1>4, FieldFacts DEF IntOn
    <3>2. v * f[e] \in Int
      BY <3>1
    <3> QED
      BY <3>1, <3>2, FieldFacts
  <2>2. Commute(step, S, Field)
    <3> SUFFICES ASSUME NEW a \in S, NEW b \in S, NEW v \in Field
                 PROVE  step[a][step[b][v]] = step[b][step[a][v]]
      BY DEF Commute
    <3> DEFINE fa == f[a]  fb == f[b]
    <3>1. fa \in Int /\ fb \in Int /\ v \in Int
      BY FieldFacts DEF IntOn
    <3>2. step[a][v] = (v * fa) % L /\ step[b][v] = (v * fb) % L
      BY <1>3, <1>4
    <3>3. step[a][v] \in V /\ step[b][v] \in V
      BY <1>3, <2>1 DEF Steps
    <3>4. /\ step[a][step[b][v]] = (step[b][v] * fa) % L
          /\ step[b][step[a][v]] = (step[a][v] * fb) % L
      BY <1>4, <3>3
    <3> HIDE DEF fa, fb
    <3> QED
      BY <3>1, <3>2, <3>4, FactorsCommute
  <2> QED
    BY <2>1, <2>2, FieldFacts, SetFold
<1>6. /\ g \in [SUBSET S -> Field] /\ IsFold(g, S, 1, step, c)
      /\ g[{}] = 1 /\ AnyOrder(g, S, step)
  BY <1>5 DEF IsSetFold
<1>7. Chooses(c, S) /\ \A s \in SUBSET S : c[s] = CHOOSE e \in s : TRUE
  BY DEF Chooses, AnyOf
<1> HIDE DEF c
<1>8. ASSUME NEW W \in SUBSET S PROVE ScalarProduct(f, W) = g[W]
  <2> DEFINE r == [s \in SUBSET W |-> g[s]]
  <2>1. \A s \in SUBSET W : s # {} =>
           /\ c[s] \in s /\ c[s] = (CHOOSE e \in s : TRUE)
           /\ s \in SUBSET S /\ s \ {c[s]} \in SUBSET W /\ c[s] \in S
    BY <1>7 DEF Chooses
  <2>2. ASSUME NEW s \in SUBSET W, s # {} PROVE g[s] = (g[s \ {c[s]}] * f[c[s]]) % L
    <3>1. g[s] = step[c[s]][g[s \ {c[s]}]]
      BY <1>6, <2>1, <2>2 DEF IsFold, FoldAt
    <3>2. g[s \ {c[s]}] \in V /\ c[s] \in S
      BY <1>3, <1>6, <2>1, <2>2
    <3> QED
      BY <1>4, <3>1, <3>2
  <2>3. Iterates(r, W)
    <3>1. \A s \in SUBSET W :
             g[s] = IF s = {} THEN 1
                    ELSE (r[s \ {CHOOSE e \in s : TRUE}] * f[CHOOSE e \in s : TRUE]) % L
      BY <1>6, <2>1, <2>2
    <3> QED
      BY <3>1
  <2>4. Iterates(iter[W], W)
    <3> HIDE DEF Iterates, r
    <3> QED
      BY <1>2, <2>3
  <2>5. IsFold(iter[W], W, 1, step, c)
    <3> SUFFICES ASSUME NEW s \in SUBSET W PROVE iter[W][s] = FoldAt(iter[W], s, 1, step, c)
      BY DEF IsFold
    <3>1. CASE s = {}
      BY <2>4, <3>1 DEF FoldAt
    <3>2. CASE s # {}
      <4>1. iter[W][s] = (iter[W][s \ {c[s]}] * f[c[s]]) % L
        BY <2>1, <2>4, <3>2
      <4>2. iter[W][s \ {c[s]}] \in V /\ c[s] \in S
        BY <1>3, <2>1, <3>2
      <4>3. step[c[s]][iter[W][s \ {c[s]}]] = (iter[W][s \ {c[s]}] * f[c[s]]) % L
        BY <1>4, <4>2
      <4> QED
        BY <3>2, <4>1, <4>3 DEF FoldAt
    <3> QED
      BY <3>1, <3>2
  <2>6. iter[W][W] = g[W]
    <3> DEFINE h == iter[W]
    <3> HIDE DEF h, r, Iterates
    <3>1. IsFold(h, W, 1, step, c) /\ IsFold(g, S, 1, step, c) /\ Chooses(c, S)
      BY <1>6, <1>7, <2>5 DEF h
    <3>2. W \in SUBSET W
      OBVIOUS
    <3>3. h[W] = g[W]
      BY <3>1, <3>2, FoldUnique
    <3> QED
      BY <3>3 DEF h
  <2> QED
    BY <1>1, <2>6
<1>9. ASSUME NEW W \in SUBSET S, NEW e \in W
      PROVE  ScalarProduct(f, W) = (ScalarProduct(f, W \ {e}) * f[e]) % L
  <2>1. W \ {e} \in SUBSET S /\ e \in S
    BY <1>9
  <2>2. g[W] = step[e][g[W \ {e}]] /\ g[W \ {e}] \in V
    BY <1>3, <1>6, <2>1 DEF AnyOrder
  <2> QED
    BY <1>4, <1>8, <2>1, <2>2
<1> QED
  BY <1>6, <1>8, <1>9 DEF IsProduct

\* A product depends only on the factors it multiplies.
LEMMA ProductAgrees ==
    ASSUME NEW S, IsFiniteSet(S), NEW f, NEW g, IntOn(f, S), \A e \in S : f[e] = g[e]
    PROVE  ScalarProduct(f, S) = ScalarProduct(g, S)
<1> DEFINE G == {W \in SUBSET S : ScalarProduct(f, W) = ScalarProduct(g, W)}
<1>1. IntOn(g, S)
  BY DEF IntOn
<1>2. IsProduct(f, S) /\ IsProduct(g, S)
  BY <1>1, ProductIsProduct
<1>3. {} \in G
  BY <1>2 DEF IsProduct
<1>4. ASSUME NEW W \in SUBSET S, NEW e \in S, e \notin W, W \in G PROVE W \cup {e} \in G
  <2> DEFINE X == W \cup {e}
  <2>1. X \in SUBSET S /\ e \in X /\ X \ {e} = W
    BY <1>4
  <2> HIDE DEF X
  <2>2. /\ ScalarProduct(f, X) = (ScalarProduct(f, W) * f[e]) % L
        /\ ScalarProduct(g, X) = (ScalarProduct(g, W) * g[e]) % L
    BY <1>2, <2>1 DEF IsProduct
  <2>3. ScalarProduct(f, X) = ScalarProduct(g, X)
    BY <1>4, <2>2
  <2> QED
    BY <2>1, <2>3 DEF X
<1> HIDE DEF G
<1>5. SUBSET S \subseteq G
  BY <1>3, <1>4, SubsetInduction
<1> QED
  BY <1>5 DEF G

\* A product of units is a unit.
LEMMA ProductOfUnits ==
    ASSUME NEW S, IsFiniteSet(S), NEW f, IntOn(f, S), \A e \in S : IsUnit(f[e], L)
    PROVE  IsUnit(ScalarProduct(f, S), L)
<1> DEFINE G == {W \in SUBSET S : IsUnit(ScalarProduct(f, W), L)}
<1>1. IsProduct(f, S)
  BY ProductIsProduct
<1>2. {} \in G
  <2>1. Cong(1 * 1, 1, L)
    BY FieldFacts, CongRefl
  <2>2. IsUnit(1, L)
    BY <2>1 DEF IsUnit
  <2> QED
    BY <1>1, <2>2 DEF IsProduct
<1>3. ASSUME NEW W \in SUBSET S, NEW e \in S, e \notin W, W \in G PROVE W \cup {e} \in G
  <2> DEFINE X == W \cup {e}
             w == ScalarProduct(f, W)
             a == f[e]
  <2>1. X \in SUBSET S /\ e \in X /\ X \ {e} = W
    BY <1>3
  <2> HIDE DEF X
  <2>2. ScalarProduct(f, X) = (w * a) % L
    BY <1>1, <2>1 DEF IsProduct
  <2>3. w \in Int /\ a \in Int /\ IsUnit(w, L) /\ IsUnit(a, L) /\ L \in Int /\ L \in Nat /\ L > 0
    <3>1. w \in Field
      BY <1>1 DEF IsProduct
    <3>2. IsUnit(w, L)
      BY <1>3
    <3> QED
      BY <3>1, <3>2, FieldFacts DEF IntOn
  <2> HIDE DEF w, a, G
  <2>4. IsUnit(w * a, L)
    BY <2>3, UnitProduct
  <2> DEFINE z == w * a
  <2>5. z \in Int /\ z % L \in Int
    BY <2>3
  <2>6. IsUnit(z, L)
    BY <2>4
  <2> HIDE DEF z
  <2>7. IsUnit(z % L, L)
    BY <2>3, <2>5, <2>6, UnitOfRemainder
  <2>8. IsUnit(ScalarProduct(f, X), L)
    BY <2>2, <2>7 DEF z
  <2> QED
    BY <2>1, <2>8 DEF X, G
<1> HIDE DEF G
<1>4. SUBSET S \subseteq G
  BY <1>2, <1>3, SubsetInduction
<1> QED
  BY <1>4 DEF G

\* The inverse of a unit is found.
LEMMA InvertFacts ==
    ASSUME NEW v \in Int, IsUnit(v, L)
    PROVE  Invert(v) \in Field /\ Cong(v * Invert(v), 1, L)
<1>1. PICK b \in Int : Cong(v * b, 1, L)
  BY DEF IsUnit
<1> DEFINE w == b % L
<1>2. w \in Field /\ w \in Int /\ L \in Int /\ L \in Nat /\ L > 0 /\ L > 1
  BY FieldFacts
<1>3. Cong(w, b, L)
  BY <1>2, CongOfMod, CongSym
<1> HIDE DEF w
<1>4. Cong(v * w, v * b, L)
  BY <1>2, <1>3, CongRefl, CongAdd
<1>5. v * w \in Int /\ v * b \in Int
  BY <1>2
<1>6. Cong(v * w, 1, L)
  BY <1>1, <1>2, <1>4, <1>5, CongTrans
<1>7. (v * w) % L = 1
  <2>1. (v * w) % L = 1 % L /\ 1 % L = 1
    BY <1>2, <1>5, <1>6, CongIff
  <2> QED
    BY <2>1
<1>8. Invert(v) \in Field /\ (v * Invert(v)) % L = 1
  BY <1>2, <1>7 DEF Invert
<1> DEFINE i == Invert(v)
           vi == v * i
<1>9. i \in Int /\ vi \in Int /\ vi % L = 1
  BY <1>8, FieldFacts
<1> HIDE DEF vi
<1>10. Cong(vi, 1, L)
  BY <1>2, <1>9, CongOfMod
<1> QED
  BY <1>8, <1>10 DEF vi

\* Recipient ids are distinct and not 0 in the field.
LEMMA RecipientFacts ==
    /\ IsFiniteSet(Recipients) /\ \A i \in Recipients : i \in Int
    /\ \A i, j \in Recipients : i # j => IsUnit(i - j, L)
<1>1. \A i \in Recipients : i \in 1..(L - 1)
  BY FieldAssumption
<1>2. ASSUME NEW i \in Recipients, NEW j \in Recipients, i # j PROVE IsUnit(i - j, L)
  <2>1. i \in 1..(L - 1) /\ j \in 1..(L - 1) /\ L \in Nat /\ L > 1
    BY <1>1, FieldFacts
  <2> DEFINE a == i - j
  <2>2. a \in Int /\ a # 0 /\ a < L /\ -L < a
    BY <1>2, <2>1
  <2> HIDE DEF a
  <2>3. a % L # 0
    <3> SUFFICES ASSUME a % L = 0 PROVE FALSE
      OBVIOUS
    <3> DEFINE k == a \div L
    <3>1. k \in Int /\ a = k * L
      BY <2>1, <2>2, Quotient
    <3> HIDE DEF k
    <3>2. CASE k >= 1
      <4>1. k * L >= 1 * L
        BY <2>1, <3>1, <3>2
      <4> QED
        BY <2>1, <2>2, <3>1, <4>1
    <3>3. CASE k <= -1
      <4>1. k * L <= (-1) * L
        BY <2>1, <3>1, <3>3
      <4> QED
        BY <2>1, <2>2, <3>1, <4>1
    <3>4. CASE k = 0
      BY <2>1, <2>2, <3>1, <3>4
    <3> QED
      BY <3>1, <3>2, <3>3, <3>4
  <2>4. IsUnit(a, L)
    BY <2>2, <2>3, FieldFacts, PrimeUnit
  <2> QED
    BY <2>4 DEF a
<1> QED
  BY <1>1, <1>2, SizeAssumption

-----------------------------------------------------------------------------
(* Lagrange coefficients at zero.                                          *)

Negated == [j \in Recipients |-> -j]

\* The factors of a Lagrange coefficient.
Differences(i) == [j \in Recipients |-> i - j]
Numerator(i, S) == ScalarProduct(Negated, S \ {i})
Denominator(i, S) == ScalarProduct(Differences(i), S \ {i})

\* A Lagrange coefficient is the numerator divided by the denominator.
LEMMA LagrangeFacts ==
    ASSUME NEW S \in SUBSET Recipients, NEW i \in S
    PROVE  /\ LagrangeAtZero(i, S) \in Field /\ LagrangeAtZero(i, S) \in Int
           /\ Numerator(i, S) \in Int /\ Denominator(i, S) \in Int
           /\ IsUnit(Denominator(i, S), L)
           /\ Cong(LagrangeAtZero(i, S) * Denominator(i, S), Numerator(i, S), L)
<1> DEFINE W == S \ {i}
           n == Numerator(i, S)
           d == Denominator(i, S)
<1>1. IsFiniteSet(W) /\ W \in SUBSET Recipients /\ i \in Recipients
  BY RecipientFacts, FS_Subset
<1>2. /\ ScalarProduct([j \in S |-> -j], W) = n
      /\ ScalarProduct([j \in S |-> i - j], W) = d
  <2>1. \A j \in W : /\ [j1 \in S |-> -j1][j] = Negated[j] /\ Negated[j] \in Int
                     /\ [j1 \in S |-> i - j1][j] = Differences(i)[j]
                     /\ Differences(i)[j] \in Int
    BY <1>1, RecipientFacts DEF Negated, Differences
  <2> DEFINE f == [j \in S |-> -j]
             g == [j \in S |-> i - j]
             ds == Differences(i)
  <2>2. /\ \A j \in W : f[j] = Negated[j] /\ g[j] = ds[j]
        /\ IntOn(f, W) /\ IntOn(g, W)
    BY <2>1 DEF IntOn
  <2> HIDE DEF f, g, ds, W
  <2>3. ScalarProduct(f, W) = ScalarProduct(Negated, W)
    BY <1>1, <2>2, ProductAgrees
  <2>4. ScalarProduct(g, W) = ScalarProduct(ds, W)
    BY <1>1, <2>2, ProductAgrees
  <2> QED
    BY <2>3, <2>4 DEF f, g, ds, W, Numerator, Denominator
<1>3. n \in Field /\ d \in Field /\ n \in Int /\ d \in Int
  <2>1. IntOn(Negated, W) /\ IntOn(Differences(i), W)
    BY <1>1, RecipientFacts DEF IntOn, Negated, Differences
  <2>2. IsProduct(Negated, W) /\ IsProduct(Differences(i), W)
    BY <1>1, <2>1, ProductIsProduct
  <2> QED
    BY <2>2, FieldFacts DEF IsProduct, Numerator, Denominator
<1>4. IsUnit(d, L)
  <2>1. \A j \in W : Differences(i)[j] \in Int /\ IsUnit(Differences(i)[j], L)
    BY <1>1, RecipientFacts DEF Differences
  <2>2. IsUnit(ScalarProduct(Differences(i), W), L)
    BY <1>1, <2>1, ProductOfUnits DEF IntOn
  <2> QED
    BY <2>2 DEF Denominator
<1>5. LagrangeAtZero(i, S) = (n * Invert(d)) % L
  BY <1>2 DEF LagrangeAtZero
<1> DEFINE v == Invert(d)
           nv == n * v
           l == nv % L
<1>6. Cong(d * v, 1, L) /\ v \in Int
  BY <1>3, <1>4, InvertFacts, FieldFacts
<1> HIDE DEF n, d, v, W
<1>7. nv \in Int /\ L \in Int /\ L \in Nat /\ L > 0
  BY <1>3, <1>6, FieldFacts
<1>8. l \in Field /\ l \in Int /\ Cong(l, nv, L)
  BY <1>7, CongOfMod, CongSym, FieldFacts
<1> HIDE DEF l
<1>9. Cong(l * d, n, L)
  <2>1. Cong(l * d, nv * d, L)
    BY <1>3, <1>7, <1>8, CongRefl, CongAdd
  <2>2. nv * d = n * (d * v)
    BY <1>3, <1>6
  <2> DEFINE dv == d * v
  <2>3. dv \in Int /\ Cong(dv, 1, L)
    BY <1>3, <1>6
  <2> HIDE DEF dv
  <2>4. Cong(n * dv, n * 1, L)
    BY <1>3, <1>7, <2>3, CongRefl, CongAdd
  <2>5. n * 1 = n /\ n * dv \in Int /\ l * d \in Int /\ nv * d \in Int /\ nv * d = n * dv
    BY <1>3, <1>7, <1>8, <2>2, <2>3 DEF dv
  <2> QED
    BY <1>3, <1>7, <2>1, <2>4, <2>5, CongTrans
<1> QED
  BY <1>3, <1>4, <1>5, <1>8, <1>9 DEF l, n, d, v

\* Taking the point s out of S divides a coefficient by (i - s)/(-s).
LEMMA LagrangeShift ==
    ASSUME NEW S \in SUBSET Recipients, NEW s \in S, NEW i \in S, i # s
    PROVE  Cong(LagrangeAtZero(i, S) * (i - s), LagrangeAtZero(i, S \ {s}) * (0 - s), L)
<1> DEFINE R == S \ {s}
           l == LagrangeAtZero(i, S)
           m == LagrangeAtZero(i, R)
           d == Denominator(i, S)
           e == Denominator(i, R)
           n == Numerator(i, S)
           k == Numerator(i, R)
           a == i - s
           b == 0 - s
<1>1. R \in SUBSET Recipients /\ i \in R /\ i \in Int /\ s \in Int /\ i \in Recipients
  BY RecipientFacts
<1>2. /\ l \in Int /\ d \in Int /\ n \in Int /\ IsUnit(d, L) /\ Cong(l * d, n, L)
      /\ m \in Int /\ e \in Int /\ k \in Int /\ Cong(m * e, k, L)
  BY <1>1, LagrangeFacts
<1>3. d = (e * a) % L /\ n = (k * b) % L
  <2> DEFINE W == S \ {i}
             ds == Differences(i)
  <2>1. /\ IsFiniteSet(W) /\ W \in SUBSET W /\ s \in W /\ W \ {s} = R \ {i}
        /\ W \in SUBSET Recipients /\ s \in Recipients
    BY RecipientFacts, FS_Subset
  <2>2. IntOn(Negated, W) /\ IntOn(ds, W)
    BY <1>1, <2>1, RecipientFacts DEF IntOn, Negated, Differences
  <2> HIDE DEF W, ds
  <2>3. IsProduct(Negated, W) /\ IsProduct(ds, W)
    BY <2>1, <2>2, ProductIsProduct
  <2>4. /\ ScalarProduct(ds, W) = (ScalarProduct(ds, W \ {s}) * ds[s]) % L
        /\ ScalarProduct(Negated, W) = (ScalarProduct(Negated, W \ {s}) * Negated[s]) % L
    BY <2>1, <2>3 DEF IsProduct
  <2>5. ds[s] = a /\ Negated[s] = b
    BY <1>1, <2>1 DEF ds, Differences, Negated
  <2> QED
    BY <2>1, <2>4, <2>5 DEF W, ds, Numerator, Denominator
<1>4. a \in Int /\ b \in Int /\ L \in Int /\ L \in Nat /\ L > 0
  BY <1>1, FieldFacts
<1> HIDE DEF l, m, d, e, n, k, a, b, R
<1>5. Cong(d, e * a, L) /\ Cong(n, k * b, L)
  <2>1. e * a \in Int /\ k * b \in Int
    BY <1>2, <1>4
  <2> QED
    BY <1>3, <1>4, <2>1, CongOfMod, CongSym
\* d * (l * a) and d * (m * b) are both n * a.
<1> DEFINE ld == l * d  me == m * e  ea == e * a  kb == k * b
<1>6. ld \in Int /\ me \in Int /\ ea \in Int /\ kb \in Int
  BY <1>2, <1>4
<1>7. Cong(ld, n, L) /\ Cong(me, k, L) /\ Cong(d, ea, L) /\ Cong(n, kb, L)
  BY <1>2, <1>5
<1> DEFINE mb == m * b  ab == a * b
<1>8. mb \in Int /\ ab \in Int
  BY <1>2, <1>4
<1>9. /\ d * (l * a) = ld * a
      /\ d * (m * b) = d * mb
      /\ ea * mb = me * ab
      /\ k * ab = kb * a
  BY <1>2, <1>4
<1> HIDE DEF ld, me, ea, kb, mb, ab
<1>10. Cong(ld * a, n * a, L)
  BY <1>2, <1>4, <1>6, <1>7, CongRefl, CongAdd
<1>11. Cong(d * mb, ea * mb, L)
  BY <1>2, <1>4, <1>6, <1>7, <1>8, CongRefl, CongAdd
<1>12. Cong(me * ab, k * ab, L)
  BY <1>2, <1>4, <1>6, <1>7, <1>8, CongRefl, CongAdd
<1>13. Cong(n * a, kb * a, L)
  BY <1>2, <1>4, <1>6, <1>7, CongRefl, CongAdd
<1> DEFINE x1 == ld * a  x2 == n * a  x3 == kb * a  x4 == ea * mb  x5 == d * mb
<1>14. x1 \in Int /\ x2 \in Int /\ x3 \in Int /\ x4 \in Int /\ x5 \in Int
  BY <1>2, <1>4, <1>6, <1>8
<1>15. Cong(x1, x2, L) /\ Cong(x5, x4, L) /\ Cong(x4, x3, L) /\ Cong(x2, x3, L)
  BY <1>9, <1>10, <1>11, <1>12, <1>13
<1>16. x1 = d * (l * a) /\ x5 = d * (m * b)
  BY <1>9
<1> HIDE DEF x1, x2, x3, x4, x5
<1>17. Cong(x1, x3, L)
  BY <1>4, <1>14, <1>15, CongTrans
<1>18. Cong(x5, x3, L)
  BY <1>4, <1>14, <1>15, CongTrans
<1>19. Cong(x3, x5, L)
  BY <1>4, <1>14, <1>18, CongSym
<1>20. Cong(x1, x5, L)
  BY <1>4, <1>14, <1>17, <1>19, CongTrans
<1> DEFINE u == l * a  v == m * b
<1>21. u \in Int /\ v \in Int /\ Cong(d * u, d * v, L)
  BY <1>2, <1>4, <1>16, <1>20
<1> HIDE DEF u, v
<1>22. Cong(u, v, L)
  BY <1>2, <1>4, <1>21, UnitCancel
<1> QED
  BY <1>22 DEF u, v, l, a, m, b, R

-----------------------------------------------------------------------------
(* Interpolation.                                                          *)

\* What reconstruct_secret sums.
Interpolate(w, S) == SumFunctionOnSet([i \in S |-> LagrangeAtZero(i, S) * w[i]], S)

\* Interpolation returns an integer.
LEMMA InterpolateType ==
    ASSUME NEW S \in SUBSET Recipients, NEW w, IntOn(w, S)
    PROVE  /\ Interpolate(w, S) \in Int
           /\ IntOn([i \in S |-> LagrangeAtZero(i, S) * w[i]], S)
<1> DEFINE f == [i \in S |-> LagrangeAtZero(i, S) * w[i]]
<1>1. \A i \in S : LagrangeAtZero(i, S) \in Int /\ w[i] \in Int
  BY LagrangeFacts DEF IntOn
<1>2. \A i \in S : LagrangeAtZero(i, S) * w[i] \in Int
  BY <1>1
<1>3. IntOn(f, S)
  BY <1>2 DEF IntOn
<1>4. IsFiniteSet(S) /\ S \in SUBSET S
  BY RecipientFacts, FS_Subset
<1> HIDE DEF f
<1>5. IsSum(f, S)
  BY <1>3, <1>4, SumIsSum
<1>6. SumFunctionOnSet(f, S) \in Int
  BY <1>4, <1>5 DEF IsSum
<1> QED
  BY <1>3, <1>6 DEF f, Interpolate

\* Interpolation is linear modulo L.
LEMMA InterpolateLinear ==
    ASSUME NEW S \in SUBSET Recipients, NEW w, NEW u, NEW v,
           IntOn(w, S), IntOn(u, S), IntOn(v, S), NEW a \in Int, NEW b \in Int,
           \A i \in S : Cong(w[i], a * u[i] + b * v[i], L)
    PROVE  Cong(Interpolate(w, S), a * Interpolate(u, S) + b * Interpolate(v, S), L)
<1> DEFINE fw == [i \in S |-> LagrangeAtZero(i, S) * w[i]]
           fu == [i \in S |-> LagrangeAtZero(i, S) * u[i]]
           fv == [i \in S |-> LagrangeAtZero(i, S) * v[i]]
<1>1. IntOn(fw, S) /\ IntOn(fu, S) /\ IntOn(fv, S)
  BY InterpolateType
<1>2. ASSUME NEW i \in S PROVE Cong(fw[i], a * fu[i] + b * fv[i], L)
  <2> DEFINE l == LagrangeAtZero(i, S)
             wi == w[i]  ui == u[i]  vi == v[i]
  <2>1. l \in Int /\ wi \in Int /\ ui \in Int /\ vi \in Int /\ L \in Int
    BY LagrangeFacts, FieldFacts DEF IntOn
  <2>2. fw[i] = l * wi /\ fu[i] = l * ui /\ fv[i] = l * vi
    OBVIOUS
  <2>3. Cong(wi, a * ui + b * vi, L)
    OBVIOUS
  <2> HIDE DEF l, wi, ui, vi, fw, fu, fv
  <2>4. a * ui + b * vi \in Int
    BY <2>1
  <2>5. Cong(l * wi, l * (a * ui + b * vi), L)
    BY <2>1, <2>3, <2>4, CongRefl, CongAdd
  <2>6. l * (a * ui + b * vi) = a * (l * ui) + b * (l * vi)
    BY <2>1
  <2> QED
    BY <2>2, <2>5, <2>6
<1>3. IsFiniteSet(S) /\ L \in Int
  BY RecipientFacts, FS_Subset, FieldFacts
<1> HIDE DEF fw, fu, fv
<1>4. Cong(SumFunctionOnSet(fw, S),
           a * SumFunctionOnSet(fu, S) + b * SumFunctionOnSet(fv, S), L)
  BY <1>1, <1>2, <1>3, SumLinear
<1> QED
  BY <1>4 DEF fw, fu, fv, Interpolate

\* Values with the factor i - s interpolate as the rest of S does.
LEMMA InterpolateShift ==
    ASSUME NEW S \in SUBSET Recipients, NEW s \in S, NEW w, NEW u,
           IntOn(w, S), IntOn(u, S), \A i \in S : Cong(w[i], u[i] * (i - s), L)
    PROVE  Cong(Interpolate(w, S), (0 - s) * Interpolate(u, S \ {s}), L)
<1> DEFINE R == S \ {s}
           f == [i \in S |-> LagrangeAtZero(i, S) * w[i]]
           g == [i \in R |-> LagrangeAtZero(i, R) * u[i]]
           c == 0 - s
           o == 0
<1>1. IsFiniteSet(S) /\ IsFiniteSet(R) /\ R \in SUBSET Recipients /\ R \in SUBSET S
  BY RecipientFacts, FS_Subset
<1>2. IntOn(f, S) /\ IntOn(u, R)
  BY InterpolateType DEF IntOn
<1>3. IntOn(g, R) /\ IntOn(f, R)
  BY <1>1, <1>2, InterpolateType DEF IntOn
<1>4. s \in Int /\ c \in Int /\ L \in Int /\ \A i \in S : i \in Int
  BY RecipientFacts, FieldFacts
<1>5. Cong(f[s], 0, L)
  <2> DEFINE l == LagrangeAtZero(s, S)
             ws == w[s]  us == u[s]
  <2>1. l \in Int /\ ws \in Int /\ us \in Int
    BY LagrangeFacts DEF IntOn
  <2>2. Cong(ws, us * (s - s), L) /\ f[s] = l * ws
    OBVIOUS
  <2> HIDE DEF l, ws, us, f
  <2>3. us * (s - s) = 0
    BY <1>4, <2>1
  <2>4. Cong(ws, 0, L)
    BY <2>2, <2>3
  <2>5. Cong(l * ws, 0, L)
    <3>1. PICK k \in Int : ws = 0 + k * L
      BY <2>4 DEF Cong
    <3>2. l * ws = 0 + (l * k) * L /\ l * k \in Int
      BY <1>4, <2>1, <3>1
    <3> QED
      BY <3>2 DEF Cong
  <2> QED
    BY <2>1, <2>2, <2>5
<1>6. ASSUME NEW i \in R PROVE Cong(f[i], c * g[i] + o * g[i], L)
  <2> DEFINE l == LagrangeAtZero(i, S)
             m == LagrangeAtZero(i, R)
             wi == w[i]  ui == u[i]  d == i - s
  <2>1. l \in Int /\ m \in Int /\ wi \in Int /\ ui \in Int /\ d \in Int
    BY <1>1, <1>4, LagrangeFacts DEF IntOn
  <2>2. Cong(wi, ui * d, L) /\ f[i] = l * wi /\ g[i] = m * ui
    OBVIOUS
  <2>3. Cong(l * d, m * c, L)
    BY LagrangeShift
  <2> HIDE DEF l, m, wi, ui, d, c, f, g
  <2>4. ui * d \in Int /\ l * d \in Int /\ m * c \in Int
    BY <1>4, <2>1
  <2>5. Cong(l * wi, l * (ui * d), L)
    BY <1>4, <2>1, <2>2, <2>4, CongRefl, CongAdd
  <2>6. Cong((l * d) * ui, (m * c) * ui, L)
    BY <1>4, <2>1, <2>3, <2>4, CongRefl, CongAdd
  <2>7. l * (ui * d) = (l * d) * ui /\ (m * c) * ui = c * (m * ui) + o * (m * ui)
    BY <1>4, <2>1
  <2>8. l * wi \in Int /\ (l * d) * ui \in Int /\ (m * c) * ui \in Int
    BY <2>1, <2>4
  <2>9. Cong(l * wi, (m * c) * ui, L)
    BY <1>4, <2>5, <2>6, <2>7, <2>8, CongTrans
  <2> QED
    BY <2>2, <2>7, <2>9
<1> DEFINE sr == SumFunctionOnSet(f, R)
           sg == SumFunctionOnSet(g, R)
           fs == f[s]
<1>7. SumFunctionOnSet(f, S) = fs + sr /\ sr \in Int /\ sg \in Int /\ fs \in Int
  <2> HIDE DEF f, g, R
  <2>1. IsSum(f, S) /\ IsSum(g, R)
    BY <1>1, <1>2, <1>3, SumIsSum
  <2>2. S \in SUBSET S /\ R \in SUBSET R /\ R = S \ {s}
    BY DEF R
  <2> QED
    BY <1>1, <1>2, <2>1, <2>2 DEF IsSum, IntOn
<1>8. Cong(sr, c * sg + o * sg, L)
  <2>1. o \in Int
    OBVIOUS
  <2> HIDE DEF f, g, R, c, o
  <2> QED
    BY <1>1, <1>3, <1>4, <1>6, <2>1, SumLinear
<1>9. Cong(fs, 0, L)
  BY <1>5
<1> HIDE DEF sr, sg, fs, c, f
<1>10. c * sg \in Int /\ c * sg + o * sg = c * sg /\ 0 + c * sg = c * sg
  BY <1>4, <1>7
<1>11. Cong(fs + sr, 0 + c * sg, L)
  BY <1>4, <1>7, <1>8, <1>9, <1>10, CongAdd
<1> QED
  BY <1>7, <1>10, <1>11 DEF f, c, sg, Interpolate

\* The coefficients of every nonempty set of recipients sum to 1.
LEMMA WeightsSumToOne ==
    ASSUME NEW w, \A i \in Recipients : w[i] = 1
    PROVE  \A S \in SUBSET Recipients : S # {} => Cong(Interpolate(w, S), 1, L)
<1> DEFINE N == {n \in Nat : \A S \in SUBSET Recipients :
                    Cardinality(S) = n /\ S # {} => Cong(Interpolate(w, S), 1, L)}
<1>1. \A S \in SUBSET Recipients :
         /\ IsFiniteSet(S) /\ Cardinality(S) \in Nat /\ (Cardinality(S) = 0 <=> S = {})
         /\ \A s \in S : Cardinality(S \ {s}) = Cardinality(S) - 1
  <2>1. \A S \in SUBSET Recipients : IsFiniteSet(S)
    BY RecipientFacts, FS_Subset
  <2> QED
    BY <2>1, FS_CardinalityType, FS_EmptySet, FS_RemoveElement
<1>2. 0 \in N
  BY <1>1
<1>3. ASSUME NEW n \in Nat, n \in N PROVE n + 1 \in N
  <2> SUFFICES ASSUME NEW S \in SUBSET Recipients, Cardinality(S) = n + 1, S # {}
               PROVE  Cong(Interpolate(w, S), 1, L)
    OBVIOUS
  <2>0. PICK s \in S : TRUE
    OBVIOUS
  <2>f. L \in Int /\ L \in Nat /\ L > 0
    BY FieldFacts
  <2>1. CASE S = {s}
    <3> DEFINE l == LagrangeAtZero(s, S)
               f == [i \in S |-> LagrangeAtZero(i, S) * w[i]]
    <3>1. ScalarProduct(Negated, {}) = 1 /\ ScalarProduct(Differences(s), {}) = 1
      <4>1. IsFiniteSet({}) /\ IntOn(Negated, {}) /\ IntOn(Differences(s), {})
        BY FS_EmptySet DEF IntOn
      <4> QED
        BY <4>1, ProductIsProduct DEF IsProduct
    <3>2. Numerator(s, S) = 1 /\ Denominator(s, S) = 1
      <4>1. S \ {s} = {}
        BY <2>1
      <4> QED
        BY <3>1, <4>1 DEF Numerator, Denominator
    <3>3. l \in Int /\ Cong(l * 1, 1, L)
      BY <2>0, <3>2, LagrangeFacts
    <3>4. f[s] = l * 1 /\ IntOn(f, S)
      BY <2>0, InterpolateType DEF IntOn
    <3> HIDE DEF f
    <3>5. SumFunctionOnSet(f, S) = f[s] + 0
      <4>1. IsSum(f, S)
        BY <1>1, <3>4, SumIsSum
      <4>2. S \in SUBSET S /\ S \ {s} = {}
        BY <2>1
      <4>3. SumFunctionOnSet(f, S) = f[s] + SumFunctionOnSet(f, S \ {s})
        BY <2>0, <4>1, <4>2 DEF IsSum
      <4> QED
        BY <4>1, <4>2, <4>3 DEF IsSum
    <3>6. f[s] + 0 = l * 1
      BY <3>3, <3>4
    <3> QED
      BY <3>3, <3>5, <3>6 DEF f, Interpolate
  <2>2. CASE S # {s}
    <3>1. PICK t \in S : t # s
      BY <2>0, <2>2
    <3>2. s \in Int /\ t \in Int /\ s \in Recipients /\ t \in Recipients /\ IsUnit(t - s, L)
      BY <2>0, <3>1, RecipientFacts
    <3> DEFINE ws == [i \in S |-> w[i] * (i - s)]
               wt == [i \in S |-> w[i] * (i - t)]
               d == t - s
               one == 1
    <3>3. \A i \in S : w[i] = 1 /\ i \in Int
      BY RecipientFacts
    <3>4. IntOn(w, S) /\ IntOn(ws, S) /\ IntOn(wt, S)
      BY <3>2, <3>3 DEF IntOn
    <3>5. /\ Cong(Interpolate(ws, S), (0 - s) * Interpolate(w, S \ {s}), L)
          /\ Cong(Interpolate(wt, S), (0 - t) * Interpolate(w, S \ {t}), L)
      <4>1. /\ \A i \in S : Cong(ws[i], w[i] * (i - s), L)
            /\ \A i \in S : Cong(wt[i], w[i] * (i - t), L)
        BY <2>f, <3>2, <3>3, CongRefl
      <4> HIDE DEF ws, wt
      <4> QED
        BY <2>0, <3>1, <3>4, <4>1, InterpolateShift
    <3>6. Cong(Interpolate(w, S \ {s}), 1, L) /\ Cong(Interpolate(w, S \ {t}), 1, L)
      <4>1. /\ S \ {s} # {} /\ S \ {t} # {}
            /\ Cardinality(S \ {s}) = n /\ Cardinality(S \ {t}) = n
        BY <1>1, <2>0, <3>1
      <4>2. S \ {s} \in SUBSET Recipients /\ S \ {t} \in SUBSET Recipients
        OBVIOUS
      <4> QED
        BY <1>3, <4>1, <4>2
    <3> HIDE DEF N
    <3>7. Cong(Interpolate(ws, S), d * Interpolate(w, S) + one * Interpolate(wt, S), L)
      <4>1. ASSUME NEW i \in S PROVE Cong(ws[i], d * w[i] + one * wt[i], L)
        <5>1. ws[i] = d * w[i] + one * wt[i] /\ ws[i] \in Int
          BY <3>2, <3>3
        <5> HIDE DEF ws
        <5> QED
          BY <2>f, <5>1, CongRefl
      <4>2. d \in Int /\ one \in Int
        BY <3>2
      <4> HIDE DEF ws, wt, d, one
      <4> QED
        BY <3>4, <4>1, <4>2, InterpolateLinear
    <3> DEFINE xs == Interpolate(ws, S)
               xt == Interpolate(wt, S)
               z == Interpolate(w, S)
               ys == Interpolate(w, S \ {s})
               yt == Interpolate(w, S \ {t})
    <3>8. xs \in Int /\ xt \in Int /\ z \in Int /\ ys \in Int /\ yt \in Int
      <4>1. IntOn(w, S \ {s}) /\ IntOn(w, S \ {t})
        BY <3>4 DEF IntOn
      <4> HIDE DEF ws, wt
      <4> QED
        BY <3>4, <4>1, InterpolateType
    <3> HIDE DEF xs, xt, z, ys, yt, ws, wt
    <3>9. Cong(xs, 0 - s, L) /\ Cong(xt, 0 - t, L)
      <4> DEFINE ms == 0 - s  mt == 0 - t
      <4>1. ms \in Int /\ mt \in Int
        BY <3>2
      <4>2. Cong(ys, 1, L) /\ Cong(yt, 1, L)
        BY <3>6 DEF ys, yt
      <4>3. Cong(xs, ms * ys, L) /\ Cong(xt, mt * yt, L)
        BY <3>5 DEF xs, xt, ys, yt
      <4> HIDE DEF ms, mt
      <4>4. Cong(ms * ys, ms, L) /\ Cong(mt * yt, mt, L)
        <5>1. PICK a \in Int : ys = 1 + a * L
          BY <4>2 DEF Cong
        <5>2. PICK b \in Int : yt = 1 + b * L
          BY <4>2 DEF Cong
        <5>3. /\ ms * ys = ms + (ms * a) * L /\ ms * a \in Int
              /\ mt * yt = mt + (mt * b) * L /\ mt * b \in Int
          BY <2>f, <4>1, <5>1, <5>2
        <5> QED
          BY <5>3 DEF Cong
      <4>5. ms * ys \in Int /\ mt * yt \in Int
        BY <3>8, <4>1
      <4>6. Cong(xs, ms, L)
        BY <2>f, <3>8, <4>1, <4>3, <4>4, <4>5, CongTrans
      <4>7. Cong(xt, mt, L)
        BY <2>f, <3>8, <4>1, <4>3, <4>4, <4>5, CongTrans
      <4> QED
        BY <4>6, <4>7 DEF ms, mt
    <3>10. Cong(xs, d * z + xt, L)
      <4>1. one * xt = xt
        BY <3>8
      <4> QED
        BY <3>7, <4>1 DEF xs, xt, z
    <3>11. Cong(d * z, d * 1, L)
      <4>1. PICK a \in Int : xs = (0 - s) + a * L
        BY <3>9 DEF Cong
      <4>2. PICK b \in Int : xt = (0 - t) + b * L
        BY <3>9 DEF Cong
      <4>3. PICK c \in Int : xs = (d * z + xt) + c * L
        BY <3>10 DEF Cong
      <4> DEFINE dz == d * z  aL == a * L  bL == b * L  cL == c * L
      <4>4. /\ dz \in Int /\ aL \in Int /\ bL \in Int /\ cL \in Int
            /\ (a - b - c) * L = aL - bL - cL
        BY <2>f, <3>2, <3>8
      <4>5. xs = (0 - s) + aL /\ xt = (0 - t) + bL /\ xs = (dz + xt) + cL
        BY <4>1, <4>2, <4>3
      <4> HIDE DEF dz, aL, bL, cL
      <4>6. dz = (t - s) + (aL - bL - cL)
        BY <3>2, <3>8, <4>4, <4>5
      <4>7. d * z = d * 1 + (a - b - c) * L /\ a - b - c \in Int
        BY <3>2, <4>4, <4>6 DEF dz
      <4> QED
        BY <4>7 DEF Cong
    <3>12. d \in Int /\ IsUnit(d, L)
      BY <3>2
    <3> HIDE DEF d
    <3>13. Cong(z, 1, L)
      BY <2>f, <3>8, <3>11, <3>12, UnitCancel
    <3> QED
      BY <3>13 DEF z
  <2> QED
    BY <2>1, <2>2
<1> HIDE DEF N
<1>4. Nat \subseteq N
  BY <1>2, <1>3, InductionSet
<1> QED
  BY <1>1, <1>4 DEF N

\* pw[k] is the k-th power of the recipient's id, up to n.
IsPowers(pw, n) ==
    /\ \A k \in 0..n : IntOn(pw[k], Recipients)
    /\ \A i \in Recipients : pw[0][i] = 1
    /\ \A k \in 1..n : \A i \in Recipients : Cong(pw[k][i], pw[k - 1][i] * i, L)

\* What the Lagrange coefficients weigh x^k with: 1 for the constant, 0
\* above.
Moment(k) == IF k = 0 THEN 1 ELSE 0

\* Powers below the size of the set interpolate to 0, except the first.
LEMMA PowersVanish ==
    ASSUME NEW n \in Nat, NEW pw, IsPowers(pw, n)
    PROVE  \A k \in 0..n : \A S \in SUBSET Recipients :
              k < Cardinality(S) => Cong(Interpolate(pw[k], S), Moment(k), L)
<1> DEFINE N == {k \in Nat : k <= n => \A S \in SUBSET Recipients :
                    k < Cardinality(S) => Cong(Interpolate(pw[k], S), Moment(k), L)}
<1>1. 0 \in N
  <2> SUFFICES ASSUME NEW S \in SUBSET Recipients, 0 < Cardinality(S)
               PROVE  Cong(Interpolate(pw[0], S), 1, L)
    BY DEF Moment
  <2>1. S # {}
    BY FS_EmptySet
  <2>2. \A i \in Recipients : pw[0][i] = 1
    BY DEF IsPowers
  <2> DEFINE w == pw[0]
  <2> HIDE DEF w, N
  <2>3. \A i \in Recipients : w[i] = 1
    BY <2>2 DEF w
  <2>4. Cong(Interpolate(w, S), 1, L)
    BY <2>1, <2>3, WeightsSumToOne
  <2> QED
    BY <2>4 DEF w
<1>2. ASSUME NEW k \in Nat, k \in N PROVE k + 1 \in N
  <2> SUFFICES ASSUME k + 1 <= n, NEW S \in SUBSET Recipients, k + 1 < Cardinality(S)
               PROVE  Cong(Interpolate(pw[k + 1], S), 0, L)
    BY DEF Moment
  <2>1. IsFiniteSet(S) /\ Cardinality(S) \in Nat /\ S # {}
    BY RecipientFacts, FS_Subset, FS_CardinalityType, FS_EmptySet
  <2>2. PICK s \in S : TRUE
    BY <2>1
  <2> DEFINE R == S \ {s}
             u == pw[k]
             v == pw[k + 1]
             w == [i \in S |-> u[i] * (i - s)]
             m == Moment(k)
  <2>3. R \in SUBSET Recipients /\ k < Cardinality(R) /\ k < Cardinality(S)
    <3>1. Cardinality(R) = Cardinality(S) - 1
      BY <2>1, <2>2, FS_RemoveElement
    <3> QED
      BY <2>1, <3>1
  <2>4. Cong(Interpolate(u, S), m, L) /\ Cong(Interpolate(u, R), m, L)
    BY <1>2, <2>3
  <2> HIDE DEF N
  <2>5. /\ k \in 0..n /\ k + 1 \in 0..n /\ k + 1 \in 1..n /\ k + 1 - 1 = k
        /\ L \in Int /\ m \in Int /\ s \in Int
    BY <2>2, RecipientFacts, FieldFacts DEF Moment
  <2>6. IntOn(u, Recipients) /\ IntOn(v, Recipients)
    BY <2>5 DEF IsPowers
  <2>7. \A i \in Recipients : Cong(v[i], u[i] * i, L)
    BY <2>5 DEF IsPowers
  <2> HIDE DEF u, v, m, R
  <2>8. IntOn(u, S) /\ IntOn(v, S) /\ IntOn(u, R) /\ \A i \in S : i \in Int
    BY <2>6, RecipientFacts DEF IntOn, R
  <2>9. IntOn(w, S)
    BY <2>5, <2>8 DEF IntOn
  <2>10. Cong(Interpolate(w, S), (0 - s) * Interpolate(u, R), L)
    <3>1. \A i \in S : Cong(w[i], u[i] * (i - s), L)
      BY <2>5, <2>8, CongRefl DEF IntOn
    <3> HIDE DEF w
    <3> QED
      BY <2>2, <2>8, <2>9, <3>1, InterpolateShift DEF R
  <2> DEFINE one == 1
  <2>11. Cong(Interpolate(v, S), one * Interpolate(w, S) + s * Interpolate(u, S), L)
    <3>1. ASSUME NEW i \in S PROVE Cong(v[i], one * w[i] + s * u[i], L)
      <4>1. Cong(v[i], u[i] * i, L)
        BY <2>7
      <4>2. u[i] * i = one * w[i] + s * u[i]
        <5>1. u[i] \in Int /\ i \in Int /\ w[i] = u[i] * (i - s)
          BY <2>8 DEF IntOn
        <5> QED
          BY <2>5, <5>1
      <4> QED
        BY <4>1, <4>2
    <3>2. one \in Int
      OBVIOUS
    <3> HIDE DEF w, one
    <3> QED
      BY <2>5, <2>8, <2>9, <3>1, <3>2, InterpolateLinear
  <2> DEFINE x1 == Interpolate(w, S)  x2 == Interpolate(u, S)  x3 == Interpolate(u, R)
             x4 == Interpolate(v, S)
  <2>12. x1 \in Int /\ x2 \in Int /\ x3 \in Int /\ x4 \in Int
    <3>1. R \in SUBSET Recipients
      BY <2>3
    <3> HIDE DEF w
    <3> QED
      BY <2>8, <2>9, <3>1, InterpolateType
  <2> HIDE DEF x1, x2, x3, x4, w
  <2>13. Cong(x4, x1 + s * x2, L)
    <3>1. one * x1 + s * x2 = x1 + s * x2
      BY <2>5, <2>12
    <3> QED
      BY <2>11, <3>1 DEF x1, x2, x4
  <2>14. PICK a \in Int : x4 = (x1 + s * x2) + a * L
    BY <2>13 DEF Cong
  <2>15. PICK b \in Int : x1 = (0 - s) * x3 + b * L
    BY <2>10 DEF Cong, x1, x3
  <2>16. PICK c \in Int : x2 = m + c * L
    BY <2>4 DEF Cong, x2
  <2>17. PICK d \in Int : x3 = m + d * L
    BY <2>4 DEF Cong, x3
  <2>18. x4 = 0 + (a + b + s * c - s * d) * L
    <3>1. s * x2 = s * m + (s * c) * L
      BY <2>5, <2>16
    <3>2. (0 - s) * x3 = 0 - (s * m + (s * d) * L)
      BY <2>5, <2>17
    <3> DEFINE sm == s * m  sc == s * c  sd == s * d  aL == a * L  bL == b * L
               scL == sc * L  sdL == sd * L  s2 == s * x2  s3 == (0 - s) * x3
    <3>3. /\ sm \in Int /\ sc \in Int /\ sd \in Int /\ aL \in Int /\ bL \in Int
          /\ scL \in Int /\ sdL \in Int /\ s2 \in Int /\ s3 \in Int
      BY <2>5, <2>12
    <3>4. s2 = sm + scL /\ s3 = 0 - (sm + sdL) /\ x4 = (x1 + s2) + aL /\ x1 = s3 + bL
      BY <2>14, <2>15, <3>1, <3>2
    <3>5. (a + b + sc - sd) * L = aL + bL + scL - sdL
      BY <2>5, <3>3
    <3> HIDE DEF sm, aL, bL, scL, sdL, s2, s3
    <3>6. x4 = 0 + (aL + bL + scL - sdL)
      BY <2>12, <3>3, <3>4
    <3> QED
      BY <3>5, <3>6
  <2>19. a + b + s * c - s * d \in Int
    BY <2>5
  <2>20. Cong(x4, 0, L)
    BY <2>18, <2>19 DEF Cong
  <2> QED
    BY <2>20 DEF x4, v
<1> HIDE DEF N
<1>3. Nat \subseteq N
  BY <1>1, <1>2, InductionSet
<1> QED
  BY <1>3 DEF N

\* verify_equation's running term after k commitments, for each recipient.
IsTermChain(p, s, z) ==
    /\ p \in [0..Len(s) -> TermStates] /\ p[0] = [rhs |-> 0, power |-> 1]
    /\ \A k \in 1..Len(s) : p[k] = Term(p[k - 1], s[k], z)
    /\ CommitmentAt(s, z) = p[Len(s)].rhs

\* Values of a polynomial of no more coefficients than points interpolate to
\* its constant term.
LEMMA InterpolationRecovers ==
    ASSUME NEW s \in Seq(Int), Len(s) >= 1,
           NEW S \in SUBSET Recipients, Len(s) <= Cardinality(S),
           NEW w, \A i \in S : w[i] = CommitmentAt(s, i)
    PROVE  IntOn(w, S) /\ Cong(Interpolate(w, S), s[1], L)
<1> DEFINE n == Len(s)
           chain == [i \in Recipients |-> CHOOSE p : IsTermChain(p, s, i)]
           pw == [k \in 0..n |-> [i \in Recipients |-> chain[i][k].power]]
           rh == [k \in 0..n |-> [i \in Recipients |-> chain[i][k].rhs]]
<1>1. n \in Nat /\ n >= 1 /\ s[1] \in Int /\ \A k \in 1..n : s[k] \in Int
  OBVIOUS
<1>f. L \in Int /\ L \in Nat /\ L > 0
  BY FieldFacts
<1>2. ASSUME NEW i \in Recipients PROVE IsTermChain(chain[i], s, i)
  <2>1. i \in Int
    BY RecipientFacts
  <2>2. \E p : IsTermChain(p, s, i)
    BY <2>1, CommitmentSteps DEF IsTermChain
  <2> QED
    BY <2>2
<1> HIDE DEF chain
<1>3. \A k \in 0..n : \A i \in Recipients :
         pw[k][i] = chain[i][k].power /\ rh[k][i] = chain[i][k].rhs
  OBVIOUS
<1> HIDE DEF pw, rh
<1>4. \A k \in 0..n : IntOn(pw[k], Recipients) /\ IntOn(rh[k], Recipients)
  <2> SUFFICES ASSUME NEW k \in 0..n, NEW i \in Recipients
               PROVE  pw[k][i] \in Int /\ rh[k][i] \in Int
    BY DEF IntOn
  <2>1. chain[i][k] \in TermStates
    BY <1>2 DEF IsTermChain
  <2>2. chain[i][k].power \in Field /\ chain[i][k].rhs \in Field
    BY <2>1 DEF TermStates
  <2> QED
    BY <1>3, <2>2, FieldFacts
<1>5. ASSUME NEW k \in 1..n, NEW i \in Recipients
      PROVE  /\ Cong(pw[k][i], pw[k - 1][i] * i, L)
             /\ Cong(rh[k][i], rh[k - 1][i] + s[k] * pw[k - 1][i], L)
  <2> DEFINE a == pw[k - 1][i]
             b == rh[k - 1][i]
             c == s[k]
  <2>1. k - 1 \in 0..n /\ k \in 0..n
    BY <1>1
  <2>2. chain[i][k] = Term(chain[i][k - 1], s[k], i)
    BY <1>2 DEF IsTermChain
  <2>3. pw[k][i] = (a * i) % L /\ rh[k][i] = (b + c * a) % L
    BY <1>3, <2>1, <2>2 DEF Term
  <2>4. a \in Int /\ b \in Int /\ c \in Int /\ i \in Int
    BY <1>1, <1>4, <2>1, RecipientFacts DEF IntOn
  <2> HIDE DEF a, b, c
  <2>5. a * i \in Int /\ b + c * a \in Int
    BY <2>4
  <2> DEFINE ai == a * i  bc == b + c * a
  <2>6. ai \in Int /\ bc \in Int /\ pw[k][i] = ai % L /\ rh[k][i] = bc % L
    BY <2>3, <2>5
  <2> HIDE DEF ai, bc
  <2>7. ai % L \in Int /\ bc % L \in Int
    BY <1>f, <2>6, Quotient
  <2>8. Cong(ai % L, ai, L) /\ Cong(bc % L, bc, L)
    BY <1>f, <2>6, <2>7, CongOfMod, CongSym
  <2> QED
    BY <2>6, <2>8 DEF ai, bc, a, b, c
<1>6. \A i \in Recipients : pw[0][i] = 1 /\ rh[0][i] = 0
  <2>1. 0 \in 0..n /\ \A i \in Recipients : chain[i][0] = [rhs |-> 0, power |-> 1]
    BY <1>1, <1>2 DEF IsTermChain
  <2> QED
    BY <1>3, <2>1
<1>7. IsPowers(pw, n)
  BY <1>4, <1>5, <1>6 DEF IsPowers
<1>8. \A k \in 0..(n - 1) : Cong(Interpolate(pw[k], S), Moment(k), L)
  <2>1. \A k \in 0..(n - 1) : k \in 0..n /\ k < Cardinality(S)
    <3>1. Cardinality(S) \in Nat
      BY RecipientFacts, FS_Subset, FS_CardinalityType
    <3> QED
      BY <1>1, <3>1
  <2> QED
    BY <1>1, <1>7, <2>1, PowersVanish
<1> DEFINE Found(k) == IF k = 0 THEN 0 ELSE s[1]
           N == {k \in Nat : k <= n => Cong(Interpolate(rh[k], S), Found(k), L)}
<1> HIDE DEF n
<1>9. 0 \in N
  <2> DEFINE u == rh[0]
             o == 0
  <2>1. IntOn(u, S) /\ \A i \in S : u[i] = 0
    <3>1. 0 \in 0..n
      BY <1>1
    <3> QED
      BY <1>4, <1>6, <3>1 DEF IntOn
  <2> HIDE DEF u
  <2>2. \A i \in S : Cong(u[i], o * u[i] + o * u[i], L)
    <3>1. o * 0 + o * 0 = 0
      OBVIOUS
    <3> QED
      BY <1>f, <2>1, <3>1, CongRefl
  <2>3. Interpolate(u, S) \in Int /\ o \in Int
    <3>1. IntOn(u, S)
      BY <2>1
    <3>2. o \in Int
      OBVIOUS
    <3> HIDE DEF N, Found, o
    <3>3. Interpolate(u, S) \in Int
      BY <3>1, InterpolateType
    <3> QED
      BY <3>2, <3>3
  <2> HIDE DEF o
  <2>4. Cong(Interpolate(u, S), o * Interpolate(u, S) + o * Interpolate(u, S), L)
    BY <2>1, <2>2, <2>3, InterpolateLinear
  <2> DEFINE z == Interpolate(u, S)
  <2>5. o * z + o * z = 0
    BY <2>3 DEF o
  <2>6. Cong(z, 0, L)
    BY <2>4, <2>5
  <2> QED
    BY <2>6 DEF u
<1>10. ASSUME NEW k \in Nat, k \in N PROVE k + 1 \in N
  <2> SUFFICES ASSUME k + 1 <= n PROVE Cong(Interpolate(rh[k + 1], S), s[1], L)
    OBVIOUS
  <2>1. /\ k \in 0..n /\ k \in 0..(n - 1) /\ k + 1 \in 1..n /\ k + 1 \in 0..n
        /\ k + 1 - 1 = k /\ k <= n
    BY <1>1
  <2> DEFINE u == rh[k]
             v == rh[k + 1]
             p == pw[k]
             c == s[k + 1]
             f == Found(k)
             m == Moment(k)
             one == 1
  <2>2. Cong(Interpolate(u, S), f, L) /\ Cong(Interpolate(p, S), m, L)
    BY <1>8, <1>10, <2>1
  <2>3. f \in Int /\ m \in Int /\ c \in Int /\ one \in Int /\ f + c * m = s[1]
    <3>1. CASE k = 0
      BY <1>1, <2>1, <3>1 DEF Moment
    <3>2. CASE k # 0
      BY <1>1, <2>1, <3>2 DEF Moment
    <3> QED
      BY <3>1, <3>2
  <2> HIDE DEF N, Found
  <2>4. IntOn(u, S) /\ IntOn(v, S) /\ IntOn(p, S)
    BY <1>4, <2>1 DEF IntOn
  <2>5. \A i \in S : Cong(v[i], u[i] + c * p[i], L)
    BY <1>5, <2>1
  <2> HIDE DEF u, v, p, c, f, m
  <2>6. \A i \in S : one * u[i] + c * p[i] = u[i] + c * p[i]
    BY <2>3, <2>4 DEF IntOn
  <2>7. \A i \in S : Cong(v[i], one * u[i] + c * p[i], L)
    BY <2>5, <2>6
  <2> DEFINE x1 == Interpolate(u, S)  x2 == Interpolate(p, S)  x3 == Interpolate(v, S)
  <2>8. x1 \in Int /\ x2 \in Int /\ x3 \in Int
    BY <2>4, InterpolateType
  <2>9. Cong(x3, one * x1 + c * x2, L)
    <3> HIDE DEF one
    <3> QED
      BY <2>3, <2>4, <2>7, InterpolateLinear
  <2>10. Cong(x1, f, L) /\ Cong(x2, m, L)
    BY <2>2
  <2> HIDE DEF x1, x2, x3
  <2>11. Cong(c * x2, c * m, L)
    BY <1>f, <2>3, <2>8, <2>10, CongRefl, CongAdd
  <2> DEFINE cx == c * x2  cm == c * m
  <2>12. cx \in Int /\ cm \in Int /\ one * x1 + cx = x1 + cx /\ x1 + cx \in Int /\ f + cm \in Int
    BY <2>3, <2>8
  <2>13. Cong(x3, x1 + cx, L) /\ Cong(cx, cm, L) /\ f + cm = s[1]
    BY <2>3, <2>9, <2>11, <2>12
  <2> HIDE DEF cx, cm
  <2>14. Cong(x1 + cx, f + cm, L)
    BY <1>f, <2>3, <2>8, <2>10, <2>12, <2>13, CongAdd
  <2>15. Cong(x3, f + cm, L)
    BY <1>f, <2>8, <2>12, <2>13, <2>14, CongTrans
  <2> QED
    BY <2>13, <2>15 DEF x3, v
<1> HIDE DEF N
<1>11. n \in N
  BY <1>1, <1>9, <1>10, InductionSet
<1>12. Cong(Interpolate(rh[n], S), s[1], L)
  BY <1>1, <1>11 DEF N
<1>13. \A i \in S : w[i] = rh[n][i] /\ rh[n][i] \in Int
  <2>1. n \in 0..n
    BY <1>1
  <2>2. \A i \in S : CommitmentAt(s, i) = chain[i][n].rhs
    BY <1>2 DEF IsTermChain, n
  <2> QED
    BY <1>3, <1>4, <2>1, <2>2 DEF IntOn
<1>14. IntOn(w, S)
  BY <1>13 DEF IntOn
<1>15. Interpolate(w, S) = Interpolate(rh[n], S)
  <2> DEFINE u == rh[n]
  <2>1. \A i \in S : w[i] = u[i]
    BY <1>13
  <2> HIDE DEF u
  <2>2. [i \in S |-> LagrangeAtZero(i, S) * w[i]] = [i \in S |-> LagrangeAtZero(i, S) * u[i]]
    BY <2>1
  <2> QED
    BY <2>2 DEF Interpolate, u
<1> QED
  BY <1>12, <1>14, <1>15

-----------------------------------------------------------------------------
(* What the dealers' small secrets become.                                 *)

LEMMA SizeFacts ==
    /\ IsFiniteSet(Dealers) /\ IsFiniteSet(Recipients)
    /\ Small \in Nat /\ SecretBound \in Nat /\ MaxFaults \in Nat /\ 2 * Small < L
    /\ Threshold \in Nat /\ Threshold >= 1 /\ Cardinality(Dealers) \in Nat
    /\ Cardinality(Dealers) * SecretBound \in Nat
    /\ Cardinality(Dealers) * SecretBound < Small
    /\ \A d \in Dealers : SecretBound < Small
<1>1. Cardinality(Dealers) \in Nat /\ Cardinality(Recipients) \in Nat
  BY SizeAssumption, FS_CardinalityType
<1>2. ASSUME NEW d \in Dealers PROVE SecretBound < Small
  <2> DEFINE n == Cardinality(Dealers)
  <2>1. n # 0
    BY SizeAssumption, FS_EmptySet
  <2>2. n \in Nat /\ n >= 1 /\ SecretBound \in Nat /\ Small \in Nat /\ n * SecretBound < Small
    BY <1>1, <2>1, SizeAssumption
  <2> HIDE DEF n
  <2>3. n * SecretBound >= 1 * SecretBound
    BY <2>2
  <2> DEFINE nb == n * SecretBound
  <2>4. nb \in Int /\ nb >= SecretBound /\ nb < Small
    BY <2>2, <2>3
  <2> HIDE DEF nb
  <2> QED
    BY <2>2, <2>4
<1>3. Cardinality(Dealers) * SecretBound \in Nat
  BY <1>1, SizeAssumption
<1> QED
  BY <1>1, <1>2, <1>3, SizeAssumption

\* A centred number and its embedding.
LEMMA EmbedFacts ==
    ASSUME NEW c \in Int, -Small < c, c < Small
    PROVE  /\ EmbedCentered(c) \in Field
           /\ c >= 0 => EmbedCentered(c) = c
           /\ c < 0 => EmbedCentered(c) = c + L
<1>1. Small \in Nat /\ 2 * Small < L /\ L \in Nat /\ L > 0
  BY SizeFacts, FieldFacts
<1>2. CASE c >= 0
  <2>1. c \in 0..(L - 1) /\ 0 * L + c = c
    BY <1>1, <1>2
  <2>2. c % L = c
    BY <1>1, <2>1, QuotientUnique
  <2> QED
    BY <1>1, <1>2, <2>1, <2>2 DEF EmbedCentered, Field
<1>3. CASE c < 0
  <2>1. c + L \in 0..(L - 1) /\ (-1) * L + (c + L) = c /\ -1 \in Int
    BY <1>1, <1>3
  <2>2. c % L = c + L
    BY <1>1, <2>1, QuotientUnique
  <2> QED
    BY <1>1, <1>3, <2>1, <2>2 DEF EmbedCentered, Field
<1> QED
  BY <1>2, <1>3

\* The remainder of a number that lies less than L below zero.
LEMMA NegativeRemainder ==
    ASSUME NEW w \in Int, NEW m \in 0..(L - 1), w = m - L
    PROVE  w % L = m
<1>1. L \in Nat /\ L > 0 /\ -1 \in Int
  BY FieldFacts
<1>2. (-1) * L + m = w
  BY <1>1
<1>3. ((-1) * L + m) % L = m
  BY <1>1, QuotientUnique
<1> QED
  BY <1>2, <1>3

\* recover_centered undoes embed_centered within its bound.
LEMMA RecoverFacts ==
    ASSUME NEW B \in Nat, B < Small, NEW c \in Int, -B <= c, c <= B
    PROVE  RecoverCentered(c % L, B) = c
<1>1. Small \in Nat /\ 2 * Small < L /\ L \in Nat /\ L > 0 /\ -Small < c /\ c < Small
  BY SizeFacts, FieldFacts
<1> DEFINE v == c % L
           n == (-v) % L
<1>2. (c >= 0 => v = c) /\ (c < 0 => v = c + L)
  BY <1>1, EmbedFacts DEF EmbedCentered
<1> HIDE DEF v
<1>3. CASE c < 0
  <2>1. -c \in Int /\ -c >= 0 /\ -c < Small /\ -Small < -c
    BY <1>1, <1>3
  <2>2. -c \in 0..(L - 1) /\ -v \in Int /\ -v = (-c) - L
    BY <1>1, <1>2, <1>3
  <2>3. n = -c
    BY <2>2, NegativeRemainder
  <2>4. ~(v < Small)
    BY <1>1, <1>2, <1>3
  <2>5. n < Small /\ n <= B /\ -n = c
    BY <1>1, <2>3
  <2> HIDE DEF n
  <2>6. ~(v < Small /\ v <= B) /\ n < Small /\ n <= B
    BY <2>4, <2>5
  <2>7. RecoverCentered(v, B) = -n
    BY <2>6 DEF RecoverCentered, n
  <2> QED
    BY <2>5, <2>7 DEF v
<1>4. CASE c > 0
  <2>1. v = c /\ v < Small /\ v <= B
    BY <1>1, <1>2, <1>4
  <2>2. L - c \in 0..(L - 1) /\ -v \in Int /\ -v = (L - c) - L
    BY <1>1, <2>1, <1>4
  <2>6. n = L - c
    BY <2>2, NegativeRemainder
  <2> HIDE DEF n
  <2>4. ~(n < Small)
    BY <1>1, <2>6
  <2>9. RecoverCentered(v, B) = v
    BY <2>1, <2>4 DEF RecoverCentered, n
  <2> QED
    BY <2>1, <2>9 DEF v
<1>5. CASE c = 0
  <2>1. v = 0 /\ v < Small /\ v <= B /\ n = 0 /\ -n = 0
    BY <1>1, <1>2, <1>5
  <2> HIDE DEF n
  <2>2. RecoverCentered(v, B) = v
    BY <2>1 DEF RecoverCentered, n
  <2> QED
    BY <2>1, <2>2, <1>5 DEF v
<1> QED
  BY <1>3, <1>4, <1>5

-----------------------------------------------------------------------------
(* The inductive invariant.                                                *)

AllDealt == \A d \in Dealers : poly[d] # <<>>

\* Every dealer's secret is small.
SecretsSmall ==
    \A d \in Dealers : poly[d] # <<>> =>
        -SecretBound <= Centered(poly[d][1]) /\ Centered(poly[d][1]) <= SecretBound

\* A share is in a sum only if its dealer is recorded and has dealt.
SummedAreSeen ==
    \A i \in Recipients : \A d \in summed[i] : d \in seen[i] /\ poly[d] # <<>>

\* A checked final share is the combined polynomial at its recipient's id, and
\* nothing is dealt afterwards.
CheckedVerify ==
    \A i \in checked : AllDealt /\ final[i] # NotYet /\ final[i] = CommitmentAt(Combined, i)

\* An outcome is the collective secret, and nothing is dealt afterwards.
OutcomeStands == outcome # NotYet => AllDealt /\ outcome = CollectiveSecret

\* The inductive invariant.
IInv ==
    /\ TypeOK
    /\ AccumulatedIsSum
    /\ SecretsSmall
    /\ SummedAreSeen
    /\ CheckedVerify
    /\ OutcomeStands

\* What a dealer may deal: Threshold coefficients, the first a small secret.
IsDeal(f) ==
    /\ f \in [1..Threshold -> Field] /\ f # <<>>
    /\ -SecretBound <= Centered(f[1]) /\ Centered(f[1]) <= SecretBound

\* What a dealer samples is a deal.
LEMMA DealFacts ==
    ASSUME NEW secret \in (-SecretBound)..SecretBound,
           NEW rest \in [1..(Threshold - 1) -> Coefficients], NEW d \in Dealers
    PROVE  IsDeal(Sample(secret, rest))
<1> DEFINE e == EmbedCentered(secret)
           f == <<e>> \o rest
<1>1. /\ Threshold \in Nat /\ Threshold >= 1 /\ Small \in Nat /\ 2 * Small < L
      /\ SecretBound \in Nat /\ SecretBound < Small /\ L \in Nat
  BY SizeFacts, FieldFacts
<1>2. /\ secret \in Int /\ -SecretBound <= secret /\ secret <= SecretBound
      /\ -Small < secret /\ secret < Small
  BY <1>1
<1>3. e \in Field /\ (secret >= 0 => e = secret) /\ (secret < 0 => e = secret + L)
  BY <1>2, EmbedFacts
<1> HIDE DEF e
<1>4. Centered(e) = secret
  BY <1>1, <1>2, <1>3 DEF Centered
<1>5. \A k \in 1..(Threshold - 1) : rest[k] \in Field
  BY SizeAssumption DEF Field
<1>6. rest \in Seq(Field) /\ Len(rest) = Threshold - 1
  BY <1>1, <1>5
<1>7. <<e>> \in Seq(Field) /\ Len(<<e>>) = 1 /\ <<e>>[1] = e
  BY <1>3
<1>8. f \in Seq(Field) /\ Len(f) = Threshold /\ f[1] = e
  BY <1>1, <1>6, <1>7
<1> HIDE DEF f
<1>9. f \in [1..Threshold -> Field] /\ f # <<>>
  BY <1>1, <1>8
<1>10. IsDeal(f)
  BY <1>2, <1>4, <1>8, <1>9 DEF IsDeal
<1> QED
  BY <1>10 DEF Sample, f, e

\* Every polynomial is a sequence of integers, and its shares are scalars.
LEMMA PolynomialFacts ==
    ASSUME TypeOK, NEW d \in Dealers
    PROVE  /\ poly[d] \in Seq(Int)
           /\ poly[d] # <<>> => /\ poly[d] \in [1..Threshold -> Field]
                                /\ poly[d][1] \in Field /\ Len(poly[d]) = Threshold
<1>1. poly[d] = <<>> \/ poly[d] \in [1..Threshold -> Field]
  BY DEF TypeOK
<1>2. Threshold \in Nat /\ Threshold >= 1 /\ 1 \in 1..Threshold /\ Field \subseteq Int
  BY SizeFacts, FieldFacts
<1>3. CASE poly[d] = <<>>
  BY <1>3
<1>4. CASE poly[d] \in [1..Threshold -> Field]
  <2> DEFINE f == poly[d]
  <2>1. f \in [1..Threshold -> Field]
    BY <1>4
  <2> HIDE DEF f
  <2>2. f \in Seq(Int) /\ f[1] \in Field /\ Len(f) = Threshold
    <3>1. f \in [1..Threshold -> Int] /\ f[1] \in Field
      BY <1>2, <2>1
    <3> QED
      BY <1>2, <3>1
  <2> QED
    BY <1>4, <2>2 DEF f
<1> QED
  BY <1>1, <1>3, <1>4

\* A share that verifies is the value of its dealer's polynomial.
LEMMA VerifiedShare ==
    ASSUME TypeOK, NEW d \in Dealers, NEW m \in net, Verify(m, d)
    PROVE  /\ m.dealer = d /\ poly[d] # <<>>
           /\ m.value = Evaluate(poly[d], m.recipient)
<1>1. m.dealer = d /\ poly[d] # <<>> /\ m.value = CommitmentAt(poly[d], m.recipient)
  BY DEF Verify, VerifyEquation
<1>2. m.recipient \in Int
  BY RecipientFacts DEF TypeOK, VssShare
<1>3. poly[d] \in Seq(Int)
  BY PolynomialFacts
<1> QED
  BY <1>1, <1>2, <1>3, CommitmentOpens

\* The shares of one recipient are scalars.
LEMMA SharesAreScalars ==
    ASSUME TypeOK, NEW i \in Recipients
    PROVE  \A d \in Dealers : Evaluate(poly[d], i) \in Field
<1> SUFFICES ASSUME NEW d \in Dealers PROVE Evaluate(poly[d], i) \in Field
  OBVIOUS
<1>1. i \in Int /\ poly[d] \in Seq(Int)
  BY RecipientFacts, PolynomialFacts
<1> QED
  BY <1>1, CommitmentOpens

\* The combined commitments open to a polynomial whose constant term is the
\* sum of the secrets.
LEMMA CombinedFacts ==
    ASSUME TypeOK, SecretsSmall, AllDealt
    PROVE  /\ Combined \in Seq(Int) /\ Len(Combined) = Threshold
           /\ CollectiveSecret \in Int /\ Cong(Combined[1], CollectiveSecret, L)
           /\ -(Cardinality(Dealers) * SecretBound) <= CollectiveSecret
           /\ CollectiveSecret <= Cardinality(Dealers) * SecretBound
<1>1. /\ Threshold \in Nat /\ Threshold >= 1 /\ IsFiniteSet(Dealers) /\ SecretBound \in Nat
      /\ L \in Nat /\ L > 0 /\ L \in Int /\ Small \in Nat
  BY SizeFacts, FieldFacts
<1>2. ASSUME NEW k \in 1..Threshold
      PROVE  /\ IntOn([d \in Dealers |-> poly[d][k]], Dealers)
             /\ SumFunctionOnSet([d \in Dealers |-> poly[d][k]], Dealers) \in Int
             /\ SumFunctionOnSet([d \in Dealers |-> poly[d][k]], Dealers) % L \in Int
  <2> DEFINE f == [d \in Dealers |-> poly[d][k]]
  <2>1. IntOn(f, Dealers)
    BY PolynomialFacts, FieldFacts DEF IntOn, AllDealt
  <2>2. Dealers \in SUBSET Dealers
    OBVIOUS
  <2> HIDE DEF f
  <2>3. IsSum(f, Dealers)
    BY <1>1, <2>1, SumIsSum
  <2>4. SumFunctionOnSet(f, Dealers) \in Int
    BY <2>2, <2>3 DEF IsSum
  <2>5. SumFunctionOnSet(f, Dealers) % L \in Int
    BY <1>1, <2>4, Quotient
  <2> QED
    BY <2>1, <2>4, <2>5 DEF f
<1>3. Combined \in [1..Threshold -> Int]
  BY <1>2 DEF Combined
<1>4. Combined \in Seq(Int) /\ Len(Combined) = Threshold
  BY <1>1, <1>3
<1> DEFINE f == [d \in Dealers |-> poly[d][1]]
           g == [d \in Dealers |-> Centered(poly[d][1])]
           sf == SumFunctionOnSet(f, Dealers)
           sg == SumFunctionOnSet(g, Dealers)
           one == 1
           o == 0
<1>5. Combined[1] = sf % L /\ IntOn(f, Dealers) /\ sf \in Int
  <2>1. 1 \in 1..Threshold
    BY <1>1
  <2> QED
    BY <1>2, <2>1 DEF Combined
<1>6. ASSUME NEW d \in Dealers
      PROVE  /\ g[d] \in Int /\ -SecretBound <= g[d] /\ g[d] <= SecretBound
             /\ Cong(g[d], one * f[d] + o * f[d], L)
  <2> DEFINE v == poly[d][1]
  <2>1. v \in Int /\ f[d] = v /\ g[d] = Centered(v)
    BY PolynomialFacts, FieldFacts DEF AllDealt
  <2>2. -SecretBound <= Centered(v) /\ Centered(v) <= SecretBound
    BY DEF SecretsSmall, AllDealt
  <2> HIDE DEF f, g, v
  <2>3. Centered(v) \in Int /\ (Centered(v) = v + 0 * L \/ Centered(v) = v + (-1) * L)
    BY <1>1, <2>1 DEF Centered
  <2>4. Cong(Centered(v), v, L)
    BY <2>3 DEF Cong
  <2>5. one * v + o * v = v
    BY <2>1
  <2> QED
    BY <2>1, <2>2, <2>3, <2>4, <2>5
<1>7. IntOn(g, Dealers)
  BY <1>6 DEF IntOn
<1>8. one \in Int /\ o \in Int
  OBVIOUS
<1> HIDE DEF f, g, one, o
<1>9. sg \in Int /\ Cong(sg, one * sf + o * sf, L)
  BY <1>1, <1>5, <1>6, <1>7, <1>8, SumLinear
<1>10. -(Cardinality(Dealers) * SecretBound) <= sg /\ sg <= Cardinality(Dealers) * SecretBound
  BY <1>1, <1>6, SumBound
<1>11. CollectiveSecret = sg
  BY DEF CollectiveSecret, g
<1> HIDE DEF sf, sg
<1>12. one * sf + o * sf = sf
  BY <1>5 DEF one, o
<1>13. Cong(sf % L, sg, L)
  <2>1. sf % L \in Int
    BY <1>1, <1>5, Quotient
  <2>2. Cong(sf % L, sf, L)
    BY <1>1, <1>5, <2>1, CongOfMod, CongSym
  <2>3. Cong(sf, sg, L)
    BY <1>1, <1>5, <1>9, <1>12, CongSym
  <2> QED
    BY <1>1, <1>5, <1>9, <2>1, <2>2, <2>3, CongTrans
<1> QED
  BY <1>4, <1>5, <1>9, <1>10, <1>11, <1>13

\* Enough checked final shares reconstruct the collective secret.
LEMMA ReconstructionIsExact ==
    ASSUME IInv, NEW points \in SUBSET checked, EnoughShares(points)
    PROVE  AllDealt /\ ReconstructSecret(final, points) = CollectiveSecret
<1>1. AllDealt
  BY DEF IInv, CheckedVerify, EnoughShares
<1>2. points \in SUBSET Recipients /\ Threshold <= Cardinality(points)
  <2>1. points \in SUBSET Recipients
    BY DEF IInv, TypeOK
  <2>2. Cardinality(points) \in Nat
    BY <2>1, RecipientFacts, FS_Subset, FS_CardinalityType
  <2> QED
    BY <2>1, <2>2, SizeFacts DEF EnoughShares
<1> DEFINE B == Cardinality(Dealers) * SecretBound
           c == CollectiveSecret
           w == Interpolate(final, points)
<1>3. /\ Combined \in Seq(Int) /\ Len(Combined) = Threshold /\ c \in Int
      /\ Cong(Combined[1], c, L) /\ -B <= c /\ c <= B
  BY <1>1, CombinedFacts DEF IInv
<1>4. B \in Nat /\ B < Small /\ Threshold >= 1 /\ Threshold \in Nat /\ L \in Nat /\ L > 0 /\ L \in Int
  BY SizeFacts, FieldFacts
<1>5. \A i \in points : final[i] = CommitmentAt(Combined, i)
  BY DEF IInv, CheckedVerify
<1>6. IntOn(final, points) /\ Cong(w, Combined[1], L)
  BY <1>2, <1>3, <1>4, <1>5, InterpolationRecovers
<1>7. w \in Int /\ Combined[1] \in Int
  <2>1. Combined[1] \in Int
    <3>1. 1 \in 1..Len(Combined)
      BY <1>3, <1>4
    <3> QED
      BY <1>3, <3>1
  <2>2. w \in Int
    BY <1>2, <1>6, InterpolateType
  <2> QED
    BY <2>1, <2>2
<1>8. ReconstructSecret(final, points) = RecoverCentered(w % L, B)
  BY DEF ReconstructSecret, Interpolate
<1> HIDE DEF w, c, B
<1>9. Cong(w, c, L)
  BY <1>3, <1>4, <1>6, <1>7, CongTrans
<1>10. w % L = c % L
  BY <1>3, <1>4, <1>7, <1>9, CongIff
<1>11. RecoverCentered(c % L, B) = c
  BY <1>3, <1>4, RecoverFacts
<1> QED
  BY <1>1, <1>8, <1>10, <1>11 DEF c

-----------------------------------------------------------------------------

\* It holds initially.
LEMMA InitInvariant == Init => IInv
<1> SUFFICES ASSUME Init PROVE IInv
  OBVIOUS
<1>1. TypeOK
  BY FieldFacts, SizeFacts DEF Init, TypeOK
<1>2. AccumulatedIsSum
  <2> SUFFICES ASSUME NEW i \in Recipients
               PROVE  sum[i] = SumFunctionOnSet([d \in Dealers |-> Evaluate(poly[d], i)],
                                                summed[i]) % L
    BY DEF AccumulatedIsSum
  <2> DEFINE f == [d \in Dealers |-> Evaluate(poly[d], i)]
  <2>1. IntOn(f, Dealers)
    BY <1>1, SharesAreScalars, FieldFacts DEF IntOn
  <2> HIDE DEF f
  <2>2. SumFunctionOnSet(f, {}) = 0
    BY <2>1, SizeFacts, SumIsSum DEF IsSum
  <2>3. sum[i] = 0 /\ summed[i] = {}
    BY DEF Init
  <2> QED
    BY <2>2, <2>3, FieldFacts DEF f
<1>3. SecretsSmall /\ SummedAreSeen /\ CheckedVerify /\ OutcomeStands
  BY DEF Init, SecretsSmall, SummedAreSeen, CheckedVerify, OutcomeStands
<1> QED
  BY <1>1, <1>2, <1>3 DEF IInv

\* Dealing leaves every sum alone: no share of the dealer is in one yet.
LEMMA DealStep ==
    ASSUME IInv, NEW d \in Dealers, NEW f, IsDeal(f), Deal(d, f)
    PROVE  IInv'
<1>1. /\ poly[d] = <<>> /\ poly' = [poly EXCEPT ![d] = f]
      /\ net' = net \cup
            {[dealer |-> d, recipient |-> i, value |-> Evaluate(f, i)] : i \in Recipients}
      /\ UNCHANGED <<sum, seen, summed, final, checked, outcome, faults>>
  BY DEF Deal
<1>2. TypeOK /\ f \in [1..Threshold -> Field] /\ f # <<>>
  BY DEF IInv, IsDeal
<1>3. poly' \in [Dealers -> {<<>>} \cup [1..Threshold -> Field]]
  BY <1>1, <1>2 DEF TypeOK
<1>4. /\ poly'[d] = f /\ \A e \in Dealers : e # d => poly'[e] = poly[e]
      /\ ~AllDealt
  BY <1>1, <1>2 DEF TypeOK, AllDealt
<1>5. TypeOK'
  <2>1. f \in Seq(Int)
    <3>1. f \in [1..Threshold -> Int] /\ Threshold \in Nat
      BY <1>2, FieldFacts, SizeFacts
    <3> QED
      BY <3>1
  <2>2. \A i \in Recipients : Evaluate(f, i) \in Field
    BY <2>1, RecipientFacts, CommitmentOpens
  <2>3. net' \subseteq VssShare
    BY <1>1, <1>2, <2>2 DEF TypeOK, VssShare
  <2> QED
    BY <1>1, <1>2, <1>3, <2>3 DEF TypeOK
<1>6. AccumulatedIsSum'
  <2> SUFFICES ASSUME NEW i \in Recipients
               PROVE  sum'[i] = SumFunctionOnSet([e \in Dealers |-> Evaluate(poly'[e], i)],
                                                 summed'[i]) % L
    BY DEF AccumulatedIsSum
  <2> DEFINE g == [e \in Dealers |-> Evaluate(poly[e], i)]
             h == [e \in Dealers |-> Evaluate(poly'[e], i)]
             S == summed[i]
  <2>1. S \in SUBSET Dealers /\ IsFiniteSet(S)
    BY <1>2, SizeFacts, FS_Subset DEF TypeOK
  <2>2. d \notin S
    BY <1>1 DEF IInv, SummedAreSeen
  <2>3. \A e \in S : g[e] = h[e] /\ g[e] \in Int
    BY <1>2, <1>4, <2>1, <2>2, SharesAreScalars, FieldFacts
  <2>4. sum[i] = SumFunctionOnSet(g, S) % L
    BY DEF IInv, AccumulatedIsSum
  <2> HIDE DEF g, h
  <2>5. SumFunctionOnSet(g, S) = SumFunctionOnSet(h, S)
    BY <2>1, <2>3, SumAgrees DEF IntOn
  <2>6. sum'[i] = sum[i] /\ summed'[i] = S
    BY <1>1
  <2> QED
    BY <2>4, <2>5, <2>6 DEF h
<1>7. SecretsSmall'
  BY <1>4 DEF IInv, SecretsSmall, IsDeal, Centered
<1>8. SummedAreSeen'
  BY <1>1, <1>2, <1>4 DEF IInv, SummedAreSeen, TypeOK
<1>9. CheckedVerify' /\ OutcomeStands'
  <2>1. checked = {} /\ outcome = NotYet
    BY <1>4 DEF IInv, CheckedVerify, OutcomeStands
  <2> QED
    BY <1>1, <2>1 DEF CheckedVerify, OutcomeStands
<1> QED
  BY <1>5, <1>6, <1>7, <1>8, <1>9 DEF IInv

\* Only a share that verifies enters a sum, and no dealer's twice.
LEMMA AddStep ==
    ASSUME IInv, NEW i \in Recipients, NEW m \in net, NEW d \in Dealers,
           AddVerifiedShare(i, m, d)
    PROVE  IInv'
<1>1. /\ m.recipient = i /\ m.dealer \notin seen[i]
      /\ seen' = [seen EXCEPT ![i] = @ \cup {m.dealer}]
      /\ faults' = faults + (IF m.dealer = d THEN 0 ELSE 1)
      /\ m.dealer # d => faults < MaxFaults
      /\ UNCHANGED <<poly, net, final, checked, outcome>>
      /\ IF Verify(m, d)
         THEN /\ sum' = [sum EXCEPT ![i] = (@ + m.value) % L]
              /\ summed' = [summed EXCEPT ![i] = @ \cup {m.dealer}]
         ELSE UNCHANGED <<sum, summed>>
  BY DEF AddVerifiedShare, Unseen
<1>2. TypeOK /\ m \in VssShare /\ m.dealer \in Dealers /\ m.value \in Field
  BY DEF IInv, TypeOK, VssShare
<1>3. /\ sum \in [Recipients -> Field] /\ seen \in [Recipients -> SUBSET Dealers]
      /\ summed \in [Recipients -> SUBSET Dealers]
  BY <1>2 DEF TypeOK
<1>4. seen' \in [Recipients -> SUBSET Dealers] /\ faults' \in 0..MaxFaults
  BY <1>1, <1>2, <1>3, SizeFacts DEF TypeOK
<1>5. sum' \in [Recipients -> Field] /\ summed' \in [Recipients -> SUBSET Dealers]
  <2>1. (sum[i] + m.value) % L \in Field
    <3>1. sum[i] \in Int /\ m.value \in Int
      BY <1>2, <1>3, FieldFacts
    <3>2. sum[i] + m.value \in Int
      BY <3>1
    <3> QED
      BY <3>2, FieldFacts
  <2> QED
    BY <1>1, <1>2, <1>3, <2>1
<1>6. TypeOK'
  BY <1>1, <1>2, <1>4, <1>5 DEF TypeOK
<1>7. AccumulatedIsSum'
  <2> SUFFICES ASSUME NEW j \in Recipients
               PROVE  sum'[j] = SumFunctionOnSet([e \in Dealers |-> Evaluate(poly'[e], j)],
                                                 summed'[j]) % L
    BY DEF AccumulatedIsSum
  <2> DEFINE g == [e \in Dealers |-> Evaluate(poly[e], j)]
  <2>1. sum[j] = SumFunctionOnSet(g, summed[j]) % L
    BY DEF IInv, AccumulatedIsSum
  <2>2. g = [e \in Dealers |-> Evaluate(poly'[e], j)]
    BY <1>1
  <2>3. CASE j # i \/ ~Verify(m, d)
    <3>1. sum'[j] = sum[j] /\ summed'[j] = summed[j]
      BY <1>1, <1>3, <2>3
    <3> QED
      BY <2>1, <2>2, <3>1
  <2>4. CASE j = i /\ Verify(m, d)
    <3> DEFINE S == summed[i]
               X == S \cup {d}
    <3>1. m.dealer = d /\ poly[d] # <<>> /\ m.value = Evaluate(poly[d], i)
      BY <1>1, <1>2, <2>4, VerifiedShare
    <3>2. d \notin S
      BY <1>1, <3>1 DEF IInv, SummedAreSeen
    <3>3. sum'[i] = (sum[i] + m.value) % L /\ summed'[i] = X
      BY <1>1, <1>3, <2>4, <3>1
    <3>4. g[d] = m.value /\ IntOn(g, Dealers)
      BY <1>2, <2>4, <3>1, SharesAreScalars, FieldFacts DEF IntOn
    <3> HIDE DEF g
    <3>5. IsSum(g, Dealers)
      BY <3>4, SizeFacts, SumIsSum
    <3>6. X \in SUBSET Dealers /\ S \in SUBSET Dealers /\ d \in X /\ X \ {d} = S
      BY <1>3, <3>2
    <3> DEFINE sx == SumFunctionOnSet(g, X)
               ss == SumFunctionOnSet(g, S)
               v == m.value
               a == sum[i]
    <3>7. sx = v + ss /\ ss \in Int /\ sx \in Int /\ v \in Int
      BY <1>2, <3>4, <3>5, <3>6, FieldFacts DEF IsSum
    <3>8. a = ss % L /\ L \in Nat /\ L > 0 /\ L \in Int
      BY <2>1, <2>4, FieldFacts
    <3> HIDE DEF sx, ss, v, a, X
    <3>9. a \in Int /\ Cong(a, ss, L)
      BY <3>7, <3>8, Quotient, CongOfMod, CongSym
    <3>10. Cong(a + v, ss + v, L)
      BY <3>7, <3>8, <3>9, CongRefl, CongAdd
    <3>11. a + v \in Int /\ ss + v \in Int /\ ss + v = sx
      BY <3>7, <3>9
    <3>12. (a + v) % L = sx % L
      BY <3>7, <3>8, <3>10, <3>11, CongIff
    <3> QED
      BY <2>2, <2>4, <3>3, <3>12 DEF sx, X, a, v
  <2> QED
    BY <2>3, <2>4
<1>8. SummedAreSeen'
  <2> SUFFICES ASSUME NEW j \in Recipients, NEW e \in summed'[j]
               PROVE  e \in seen'[j] /\ poly'[e] # <<>>
    BY DEF SummedAreSeen
  <2>1. seen[j] \subseteq seen'[j] /\ poly' = poly
    BY <1>1, <1>3
  <2>2. CASE e \in summed[j]
    BY <2>1, <2>2 DEF IInv, SummedAreSeen
  <2>3. CASE e \notin summed[j]
    <3>1. j = i /\ Verify(m, d) /\ e = m.dealer
      BY <1>1, <1>3, <2>3
    <3>2. m.dealer = d /\ poly[d] # <<>>
      BY <1>2, <3>1, VerifiedShare
    <3> QED
      BY <1>1, <1>3, <2>1, <3>1, <3>2
  <2> QED
    BY <2>2, <2>3
<1>9. SecretsSmall' /\ CheckedVerify' /\ OutcomeStands'
  BY <1>1 DEF IInv, SecretsSmall, CheckedVerify, OutcomeStands, AllDealt, Combined,
              CollectiveSecret, Centered
<1> QED
  BY <1>6, <1>7, <1>8, <1>9 DEF IInv

\* What a step that leaves the dealers' and the accumulators' state alone keeps.
LEMMA DealingUnchanged ==
    ASSUME IInv, TypeOK', UNCHANGED <<poly, sum, seen, summed>>
    PROVE  AccumulatedIsSum' /\ SecretsSmall' /\ SummedAreSeen'
BY DEF IInv, AccumulatedIsSum, SecretsSmall, SummedAreSeen, Centered

\* Every step keeps it.
LEMMA NextInvariant == IInv /\ [Next]_vars => IInv'
<1> SUFFICES ASSUME IInv, [Next]_vars PROVE IInv'
  OBVIOUS
<1>1. TypeOK
  BY DEF IInv
<1>2. ASSUME NEW d \in Dealers, NEW secret \in (-SecretBound)..SecretBound,
             NEW rest \in [1..(Threshold - 1) -> Coefficients],
             Deal(d, Sample(secret, rest))
      PROVE  IInv'
  BY <1>2, DealFacts, DealStep
<1>3. ASSUME NEW m \in net, Corrupt(m) PROVE IInv'
  <2>1. /\ faults < MaxFaults /\ faults' = faults + 1
        /\ net' = net \cup {[m EXCEPT !.value = (@ + 1) % L]}
        /\ UNCHANGED <<poly, sum, seen, summed, final, checked, outcome>>
    BY <1>3 DEF Corrupt
  <2>2. m \in VssShare
    BY <1>1 DEF TypeOK
  <2>3. (m.value + 1) % L \in Field
    <3>1. m.value + 1 \in Int
      BY <2>2, FieldFacts DEF VssShare
    <3> QED
      BY <3>1, FieldFacts
  <2>4. [m EXCEPT !.value = (@ + 1) % L] \in VssShare
    BY <2>2, <2>3 DEF VssShare
  <2>5. TypeOK'
    BY <1>1, <2>1, <2>4, SizeFacts DEF TypeOK
  <2>6. CheckedVerify' /\ OutcomeStands'
    BY <2>1 DEF IInv, CheckedVerify, OutcomeStands, AllDealt, Combined, CollectiveSecret,
                Centered
  <2> QED
    BY <2>1, <2>5, <2>6, DealingUnchanged DEF IInv
<1>4. ASSUME NEW i \in Recipients, NEW m \in net, NEW d \in Dealers, AddVerifiedShare(i, m, d)
      PROVE  IInv'
  BY <1>4, AddStep
<1>5. ASSUME NEW i \in Recipients, FinalizeComplete(i) PROVE IInv'
  <2>1. /\ final[i] = NotYet /\ final' = [final EXCEPT ![i] = sum[i]]
        /\ UNCHANGED <<poly, net, sum, seen, summed, checked, outcome, faults>>
    BY <1>5 DEF FinalizeComplete, MayFinalize, Finalize
  <2>2. TypeOK'
    BY <1>1, <2>1 DEF TypeOK
  <2>3. CheckedVerify'
    <3>1. \A j \in checked : final'[j] = final[j]
      BY <1>1, <2>1 DEF IInv, CheckedVerify, TypeOK
    <3> QED
      BY <2>1, <3>1 DEF IInv, CheckedVerify, AllDealt, Combined
  <2>4. OutcomeStands'
    BY <2>1 DEF IInv, OutcomeStands, AllDealt, CollectiveSecret, Centered
  <2> QED
    BY <2>1, <2>2, <2>3, <2>4, DealingUnchanged DEF IInv
<1>6. ASSUME NEW i \in Recipients, VerifyCombined(i) PROVE IInv'
  <2>1. /\ AllDealt /\ final[i] # NotYet /\ final[i] = CommitmentAt(Combined, i)
        /\ checked' = checked \cup {i}
        /\ UNCHANGED <<poly, net, sum, seen, summed, final, outcome, faults>>
    BY <1>6 DEF VerifyCombined, FinalVerifies, VerifyEquation, AllDealt
  <2>2. TypeOK'
    BY <1>1, <2>1 DEF TypeOK
  <2>3. CheckedVerify'
    BY <2>1 DEF IInv, CheckedVerify, AllDealt, Combined
  <2>4. OutcomeStands'
    BY <2>1 DEF IInv, OutcomeStands, AllDealt, CollectiveSecret, Centered
  <2> QED
    BY <2>1, <2>2, <2>3, <2>4, DealingUnchanged DEF IInv
<1>7. ASSUME NEW points \in SUBSET checked, Reconstruct(points) PROVE IInv'
  <2>1. /\ EnoughShares(points) /\ outcome' = ReconstructSecret(final, points)
        /\ UNCHANGED <<poly, net, sum, seen, summed, final, checked, faults>>
    BY <1>7 DEF Reconstruct
  <2>2. AllDealt /\ outcome' = CollectiveSecret
    BY <2>1, ReconstructionIsExact
  <2>3. TypeOK'
    BY <1>1, <2>1 DEF TypeOK
  <2>4. CheckedVerify'
    BY <2>1 DEF IInv, CheckedVerify, AllDealt, Combined
  <2>5. OutcomeStands'
    BY <2>1, <2>2 DEF OutcomeStands, AllDealt, CollectiveSecret, Centered
  <2> QED
    BY <2>1, <2>3, <2>4, <2>5, DealingUnchanged DEF IInv
<1>8. CASE UNCHANGED vars
  <2>1. UNCHANGED <<poly, net, sum, seen, summed, final, checked, outcome, faults>>
    BY <1>8 DEF vars
  <2>2. TypeOK'
    BY <1>1, <2>1 DEF TypeOK
  <2>3. CheckedVerify' /\ OutcomeStands'
    BY <2>1 DEF IInv, CheckedVerify, OutcomeStands, AllDealt, Combined, CollectiveSecret,
                Centered
  <2> QED
    BY <2>1, <2>2, <2>3, DealingUnchanged DEF IInv
<1> QED
  BY <1>2, <1>3, <1>4, <1>5, <1>6, <1>7, <1>8 DEF Next

-----------------------------------------------------------------------------

\* IInv holds in every state the dealers, recipients and combiner can reach.
THEOREM VssInvariant == Spec => []IInv
<1> QED
  BY InitInvariant, NextInvariant, PTL DEF Spec

\* Every variable keeps its type: shares, sums and final shares stay scalars.
THEOREM VssTypeCorrect == Spec => []TypeOK
<1>1. IInv => TypeOK
  BY DEF IInv
<1> QED
  BY <1>1, VssInvariant, PTL

\* An accumulator holds exactly the sum of the shares of the dealers it
\* accepted, whatever the transport damaged or a caller mixed up.
THEOREM AccumulatorsExact == Spec => []AccumulatedIsSum
<1>1. IInv => AccumulatedIsSum
  BY DEF IInv
<1> QED
  BY <1>1, VssInvariant, PTL

\* Final shares that passed verify_combined reconstruct the sum of the
\* dealers' secrets from every subset that reaches the threshold.
THEOREM ReconstructionVerified == Spec => []VerifiedReconstruction
<1>1. IInv => VerifiedReconstruction
  BY DEF IInv, OutcomeStands, VerifiedReconstruction
<1> QED
  BY <1>1, VssInvariant, PTL
=============================================================================
