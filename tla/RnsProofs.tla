------------------------------- MODULE RnsProofs -------------------------------
(***************************************************************************)
(* The residue arithmetic of module Rns for every basis of distinct        *)
(* primes: reconstruction (the Chinese remainder theorem), lift constants, *)
(* division by an invertible number, the BGV switch and rounding.          *)
(***************************************************************************)
EXTENDS Rns, ArithmeticProofs

\* The product of a sequence, one factor at a time.
LEMMA ProductSteps ==
    ASSUME NEW s \in Seq(Int)
    PROVE  \E p \in [0..Len(s) -> Int] :
              /\ p[0] = 1
              /\ \A k \in 1..Len(s) : p[k] = p[k - 1] * s[k]
              /\ BasisProduct(s) = p[Len(s)]
<1> DEFINE n == Len(s)
           Iterates(h) == h = [W \in SUBSET (1..n) |->
               IF W = {} THEN 1 ELSE h[W \ {Max(W)}] * s[Max(W)]]
           iter == CHOOSE h : Iterates(h)
           V == Int \cup {iter[W] : W \in SUBSET (1..n)}
           step == [k \in 1..n |-> [v \in V |-> v * s[k]]]
<1>1. n \in Nat /\ DOMAIN s = 1..n /\ \A k \in 1..n : s[k] \in Int
  OBVIOUS
<1>2. BasisProduct(s) = iter[1..n]
  BY <1>1 DEF BasisProduct, FoldLeft, MapThenFoldSet
<1> HIDE DEF iter
<1>3. Int \subseteq V /\ \A W \in SUBSET (1..n) : iter[W] \in V
  OBVIOUS
<1> HIDE DEF V
<1>4. \A k \in 1..n, v \in V : step[k][v] = v * s[k]
  BY <1>1
<1> HIDE DEF step, n
<1>5. HasFold(n, Int, 1, step) /\ HasChain(n, Int, 1, step)
  <2>1. SeqSteps(step, n, Int)
    <3> SUFFICES ASSUME NEW k \in 1..n, NEW v \in Int PROVE step[k][v] \in Int
      BY DEF SeqSteps
    <3>1. step[k][v] = v * s[k] /\ s[k] \in Int
      BY <1>1, <1>3, <1>4
    <3> QED
      BY <3>1
  <2>2. 1 \in Int /\ n \in Nat
    BY <1>1
  <2> QED
    BY <2>1, <2>2, FoldLeftChain
<1>6. \A W \in SUBSET (1..n) :
         /\ W \ {Max(W)} \in SUBSET (1..n) /\ MaxOf(n)[W] = Max(W)
         /\ W # {} => Max(W) \in 1..n
  BY <1>1, MaxOfInterval DEF MaxOf
<1>7. Iterates(iter)
  <2>1. PICK g \in [SUBSET (1..n) -> Int] : IsFold(g, 1..n, 1, step, MaxOf(n))
    BY <1>5 DEF HasFold
  <2>2. ASSUME NEW W \in SUBSET (1..n)
        PROVE  g[W] = IF W = {} THEN 1 ELSE g[W \ {Max(W)}] * s[Max(W)]
    <3>1. g[W] = FoldAt(g, W, 1, step, MaxOf(n)) /\ g[W \ {Max(W)}] \in V
      BY <2>1, <1>3, <1>6 DEF IsFold
    <3> QED
      BY <3>1, <1>4, <1>6 DEF FoldAt
  <2>3. Iterates(g)
    BY <2>1, <2>2
  <2> QED
    BY <2>3 DEF iter
<1>8. IsFold(iter, 1..n, 1, step, MaxOf(n))
  <2> SUFFICES ASSUME NEW W \in SUBSET (1..n)
               PROVE  iter[W] = FoldAt(iter, W, 1, step, MaxOf(n))
    BY DEF IsFold
  <2>1. iter[W] = IF W = {} THEN 1 ELSE iter[W \ {Max(W)}] * s[Max(W)]
    BY <1>7
  <2>2. iter[W \ {Max(W)}] \in V
    BY <1>3, <1>6
  <2> QED
    BY <2>1, <2>2, <1>4, <1>6 DEF FoldAt
<1>9. PICK p \in [0..n -> Int] : IsChain(p, n, 1, step) /\ iter[1..n] = p[n]
  BY <1>5, <1>8 DEF HasChain
<1>10. ASSUME NEW k \in 1..n PROVE p[k] = p[k - 1] * s[k]
  <2>1. k - 1 \in 0..n
    BY <1>1
  <2> QED
    BY <2>1, <1>9, <1>3, <1>4 DEF IsChain
<1> QED
  BY <1>2, <1>9, <1>10 DEF n, IsChain

\* The sum of a sequence, one term at a time.
LEMMA SumSteps ==
    ASSUME NEW s \in Seq(Int)
    PROVE  \E p \in [0..Len(s) -> Int] :
              /\ p[0] = 0
              /\ \A k \in 1..Len(s) : p[k] = p[k - 1] + s[k]
              /\ SumOf(s) = p[Len(s)]
<1> DEFINE n == Len(s)
           Iterates(h) == h = [W \in SUBSET (1..n) |->
               IF W = {} THEN 0 ELSE h[W \ {Max(W)}] + s[Max(W)]]
           iter == CHOOSE h : Iterates(h)
           V == Int \cup {iter[W] : W \in SUBSET (1..n)}
           step == [k \in 1..n |-> [v \in V |-> v + s[k]]]
<1>1. n \in Nat /\ DOMAIN s = 1..n /\ \A k \in 1..n : s[k] \in Int
  OBVIOUS
<1>2. SumOf(s) = iter[1..n]
  BY <1>1 DEF SumOf, FoldLeft, MapThenFoldSet
<1> HIDE DEF iter
<1>3. Int \subseteq V /\ \A W \in SUBSET (1..n) : iter[W] \in V
  OBVIOUS
<1> HIDE DEF V
<1>4. \A k \in 1..n, v \in V : step[k][v] = v + s[k]
  BY <1>1
<1> HIDE DEF step, n
<1>5. HasFold(n, Int, 0, step) /\ HasChain(n, Int, 0, step)
  <2>1. SeqSteps(step, n, Int)
    <3> SUFFICES ASSUME NEW k \in 1..n, NEW v \in Int PROVE step[k][v] \in Int
      BY DEF SeqSteps
    <3>1. step[k][v] = v + s[k] /\ s[k] \in Int
      BY <1>1, <1>3, <1>4
    <3> QED
      BY <3>1
  <2>2. 0 \in Int /\ n \in Nat
    BY <1>1
  <2> QED
    BY <2>1, <2>2, FoldLeftChain
<1>6. \A W \in SUBSET (1..n) :
         /\ W \ {Max(W)} \in SUBSET (1..n) /\ MaxOf(n)[W] = Max(W)
         /\ W # {} => Max(W) \in 1..n
  BY <1>1, MaxOfInterval DEF MaxOf
<1>7. Iterates(iter)
  <2>1. PICK g \in [SUBSET (1..n) -> Int] : IsFold(g, 1..n, 0, step, MaxOf(n))
    BY <1>5 DEF HasFold
  <2>2. ASSUME NEW W \in SUBSET (1..n)
        PROVE  g[W] = IF W = {} THEN 0 ELSE g[W \ {Max(W)}] + s[Max(W)]
    <3>1. g[W] = FoldAt(g, W, 0, step, MaxOf(n)) /\ g[W \ {Max(W)}] \in V
      BY <2>1, <1>3, <1>6 DEF IsFold
    <3> QED
      BY <3>1, <1>4, <1>6 DEF FoldAt
  <2>3. Iterates(g)
    BY <2>1, <2>2
  <2> QED
    BY <2>3 DEF iter
<1>8. IsFold(iter, 1..n, 0, step, MaxOf(n))
  <2> SUFFICES ASSUME NEW W \in SUBSET (1..n)
               PROVE  iter[W] = FoldAt(iter, W, 0, step, MaxOf(n))
    BY DEF IsFold
  <2>1. iter[W] = IF W = {} THEN 0 ELSE iter[W \ {Max(W)}] + s[Max(W)]
    BY <1>7
  <2>2. iter[W \ {Max(W)}] \in V
    BY <1>3, <1>6
  <2> QED
    BY <2>1, <2>2, <1>4, <1>6 DEF FoldAt
<1>9. PICK p \in [0..n -> Int] : IsChain(p, n, 0, step) /\ iter[1..n] = p[n]
  BY <1>5, <1>8 DEF HasChain
<1>10. ASSUME NEW k \in 1..n PROVE p[k] = p[k - 1] + s[k]
  <2>1. k - 1 \in 0..n
    BY <1>1
  <2> QED
    BY <2>1, <1>9, <1>3, <1>4 DEF IsChain
<1> QED
  BY <1>2, <1>9, <1>10 DEF n, IsChain

\* A modular sum, one term at a time.
LEMMA ModSumSteps ==
    ASSUME NEW s \in Seq(Int), NEW Q \in Nat, Q > 0
    PROVE  \E p \in [0..Len(s) -> Int] :
              /\ p[0] = 0
              /\ \A k \in 1..Len(s) : p[k] = (p[k - 1] + s[k]) % Q
              /\ ModSum(s, Q) = p[Len(s)]
<1> DEFINE n == Len(s)
           Iterates(h) == h = [W \in SUBSET (1..n) |->
               IF W = {} THEN 0 ELSE (h[W \ {Max(W)}] + s[Max(W)]) % Q]
           iter == CHOOSE h : Iterates(h)
           V == Int \cup {iter[W] : W \in SUBSET (1..n)}
           step == [k \in 1..n |-> [v \in V |-> (v + s[k]) % Q]]
<1>1. n \in Nat /\ DOMAIN s = 1..n /\ \A k \in 1..n : s[k] \in Int
  OBVIOUS
<1>2. ModSum(s, Q) = iter[1..n]
  BY <1>1 DEF ModSum, AddMod, FoldLeft, MapThenFoldSet
<1> HIDE DEF iter
<1>3. Int \subseteq V /\ \A W \in SUBSET (1..n) : iter[W] \in V
  OBVIOUS
<1> HIDE DEF V
<1>4. \A k \in 1..n, v \in V : step[k][v] = (v + s[k]) % Q
  BY <1>1
<1> HIDE DEF step, n
<1>5. HasFold(n, Int, 0, step) /\ HasChain(n, Int, 0, step)
  <2>1. SeqSteps(step, n, Int)
    <3> SUFFICES ASSUME NEW k \in 1..n, NEW v \in Int PROVE step[k][v] \in Int
      BY DEF SeqSteps
    <3>1. step[k][v] = (v + s[k]) % Q /\ s[k] \in Int
      BY <1>1, <1>3, <1>4
    <3> QED
      BY <3>1
  <2>2. 0 \in Int /\ n \in Nat
    BY <1>1
  <2> QED
    BY <2>1, <2>2, FoldLeftChain
<1>6. \A W \in SUBSET (1..n) :
         /\ W \ {Max(W)} \in SUBSET (1..n) /\ MaxOf(n)[W] = Max(W)
         /\ W # {} => Max(W) \in 1..n
  BY <1>1, MaxOfInterval DEF MaxOf
<1>7. Iterates(iter)
  <2>1. PICK g \in [SUBSET (1..n) -> Int] : IsFold(g, 1..n, 0, step, MaxOf(n))
    BY <1>5 DEF HasFold
  <2>2. ASSUME NEW W \in SUBSET (1..n)
        PROVE  g[W] = IF W = {} THEN 0 ELSE (g[W \ {Max(W)}] + s[Max(W)]) % Q
    <3>1. g[W] = FoldAt(g, W, 0, step, MaxOf(n)) /\ g[W \ {Max(W)}] \in V
      BY <2>1, <1>3, <1>6 DEF IsFold
    <3> QED
      BY <3>1, <1>4, <1>6 DEF FoldAt
  <2>3. Iterates(g)
    BY <2>1, <2>2
  <2> QED
    BY <2>3 DEF iter
<1>8. IsFold(iter, 1..n, 0, step, MaxOf(n))
  <2> SUFFICES ASSUME NEW W \in SUBSET (1..n)
               PROVE  iter[W] = FoldAt(iter, W, 0, step, MaxOf(n))
    BY DEF IsFold
  <2>1. iter[W] = IF W = {} THEN 0 ELSE (iter[W \ {Max(W)}] + s[Max(W)]) % Q
    BY <1>7
  <2>2. iter[W \ {Max(W)}] \in V
    BY <1>3, <1>6
  <2> QED
    BY <2>1, <2>2, <1>4, <1>6 DEF FoldAt
<1>9. PICK p \in [0..n -> Int] : IsChain(p, n, 0, step) /\ iter[1..n] = p[n]
  BY <1>5, <1>8 DEF HasChain
<1>10. ASSUME NEW k \in 1..n PROVE p[k] = (p[k - 1] + s[k]) % Q
  <2>1. k - 1 \in 0..n
    BY <1>1
  <2> QED
    BY <2>1, <1>9, <1>3, <1>4 DEF IsChain
<1> QED
  BY <1>2, <1>9, <1>10 DEF n, IsChain

-----------------------------------------------------------------------------
(* Powers and inverses modulo a prime.                                      *)

\* There is one power function.
LEMMA PowersModUnique ==
    ASSUME NEW q, NEW b, NEW f, IsPowersMod(f, b, q), NEW g, IsPowersMod(g, b, q)
    PROVE  f = g
<1> DEFINE G == {n \in Nat : f[n] = g[n]}
<1>1. 0 \in G
  BY DEF IsPowersMod
<1>2. ASSUME NEW n \in Nat, n \in G PROVE n + 1 \in G
  BY <1>2 DEF IsPowersMod
<1> HIDE DEF G
<1>3. Nat \subseteq G
  BY <1>1, <1>2, InductionSet
<1>4. \A n \in Nat : f[n] = g[n]
  BY <1>3 DEF G
<1> QED
  BY <1>4 DEF IsPowersMod

\* Powers of every base, one power function for each.
PowersOf(q) == [b \in Nat |-> CHOOSE pw : IsPowersMod(pw, b, q)]

\* What the loop of pow_mod leaves of state s.
PowLeft(q) ==
    [s \in PowState |-> IF s.exp = 0 THEN s.acc
                        ELSE (s.acc * PowersOf(q)[s.base][s.exp]) % q]

\* The equation of the loop.
IsPowLoop(loop, q) ==
    loop = [s \in PowState |-> IF s.exp = 0 THEN s.acc ELSE loop[PowTurn(s, q)]]

\* PowersOf returns the powers.
LEMMA PowersOfAre ==
    ASSUME NEW q \in Nat, q > 1
    PROVE  \A b \in Nat : IsPowersMod(PowersOf(q)[b], b, q)
<1> TAKE b \in Nat
<1>1. \E pw : IsPowersMod(pw, b, q)
  BY PowersModExist
<1>2. PowersOf(q)[b] = CHOOSE pw : IsPowersMod(pw, b, q)
  BY DEF PowersOf
<1> QED
  BY <1>1, <1>2

\* A turn of the loop stays in its states and halves the exponent.
LEMMA PowTurnType ==
    ASSUME NEW q \in Nat, q > 1, NEW s \in PowState
    PROVE  /\ PowTurn(s, q) \in PowState
           /\ PowTurn(s, q).exp = s.exp \div 2
           /\ PowTurn(s, q).base = (s.base * s.base) % q
           /\ PowTurn(s, q).acc = IF s.exp % 2 = 1 THEN (s.acc * s.base) % q ELSE s.acc
           /\ s.exp > 0 => s.exp \div 2 \in Nat /\ s.exp \div 2 <= s.exp - 1
<1>1. s.acc \in Nat /\ s.base \in Nat /\ s.exp \in Nat
  BY DEF PowState
<1> DEFINE ab == s.acc * s.base  bb == s.base * s.base  n == s.exp
<1>2. ab \in Int /\ bb \in Int /\ q > 0
  BY <1>1
<1> HIDE DEF ab, bb
<1>3. ab % q \in Nat /\ bb % q \in Nat
  <2>1. ab % q \in 0..(q - 1) /\ bb % q \in 0..(q - 1)
    BY <1>2, Quotient
  <2> QED
    BY <2>1
<1>4. n \div 2 \in Nat /\ (n > 0 => n \div 2 <= n - 1)
  BY <1>1
<1> QED
  BY <1>1, <1>3, <1>4 DEF ab, bb, PowState, PowTurn, MulMod

\* A turn of the loop does not change what it leaves.
LEMMA PowLeftTurns ==
    ASSUME NEW q \in Nat, q > 1, NEW s \in PowState, s.exp # 0
    PROVE  PowLeft(q)[s] = PowLeft(q)[PowTurn(s, q)]
<1> DEFINE t == PowTurn(s, q)  n == s.exp  b == s.base  c == s.acc  h == n \div 2
           bb == (b * b) % q
           pw == PowersOf(q)[b]  sq == PowersOf(q)[bb]
           P == pw[n]  R == sq[h]
<1>0. n \in Nat /\ n > 0 /\ b \in Nat /\ c \in Nat /\ b \in Int /\ c \in Int /\ q > 0
  BY DEF PowState
<1>1. /\ t \in PowState /\ t.exp = h /\ t.base = bb
      /\ t.acc = IF n % 2 = 1 THEN (c * b) % q ELSE c
      /\ h \in Nat
  BY <1>0, PowTurnType
<1>2. bb \in Nat
  BY <1>1 DEF PowState
<1>3. IsPowersMod(pw, b, q) /\ IsPowersMod(sq, bb, q)
  BY <1>0, <1>2, PowersOfAre
<1>4. P \in 0..(q - 1) /\ R \in 0..(q - 1) /\ sq[0] = 1
  BY <1>0, <1>1, <1>3 DEF IsPowersMod
<1>5. P = ((IF n % 2 = 1 THEN b ELSE 1) * R) % q
  <2> HIDE DEF pw, sq, n, b
  <2> QED
    BY <1>0, <1>3, PowerHalves
<1>6. PowLeft(q)[s] = (c * P) % q
  BY <1>0 DEF PowLeft
<1>7. PowLeft(q)[t] = IF h = 0 THEN t.acc ELSE (t.acc * R) % q
  <2> HIDE DEF t, h, bb
  <2> QED
    BY <1>1 DEF PowLeft
<1>8. R \in Int /\ P \in Int
  BY <1>4
<1>9. h = 0 => R = 1 /\ n = 1 /\ n % 2 = 1
  <2>1. h = 0 => n = 1
    BY <1>0
  <2> QED
    BY <2>1, <1>4
<1> HIDE DEF n, t, h, bb, pw, sq, P, R, b, c
<1>10. CASE n % 2 = 1
  <2> DEFINE cb == c * b  bR == b * R
  <2>1. cb \in Int /\ bR \in Int /\ P = bR % q /\ t.acc = cb % q
    BY <1>0, <1>8, <1>5, <1>1, <1>10
  <2>2. c * bR = cb * R
    BY <1>0, <1>8
  <2> HIDE DEF cb, bR
  <2>3. (c * (bR % q)) % q = (c * bR) % q /\ ((cb % q) * R) % q = (cb * R) % q
    BY <1>0, <1>8, <2>1, ModAbsorb
  <2>4. (c * P) % q = (t.acc * R) % q
    BY <2>1, <2>2, <2>3
  <2>5. CASE h = 0
    <3> DEFINE r == cb % q
    <3>1. r \in 0..(q - 1)
      BY <1>0, <2>1, Quotient
    <3> HIDE DEF r
    <3>2. (r * 1) % q = r
      BY <3>1, <1>0
    <3>3. (t.acc * R) % q = t.acc
      BY <3>2, <2>1, <2>5, <1>9 DEF r
    <3> QED
      BY <1>6, <1>7, <2>4, <2>5, <3>3 DEF t
  <2> QED
    BY <1>6, <1>7, <2>4, <2>5 DEF t
<1>11. CASE n % 2 # 1
  <2>1. P = R % q /\ t.acc = c /\ h # 0
    <3>1. 1 * R = R
      BY <1>8
    <3> QED
      BY <1>1, <1>5, <1>9, <1>11, <3>1
  <2>2. (c * (R % q)) % q = (c * R) % q
    BY <1>0, <1>8, ModAbsorb
  <2> QED
    BY <1>6, <1>7, <2>1, <2>2 DEF t
<1> QED
  BY <1>10, <1>11

\* The loop of pow_mod exists, and what it returns is a power.
LEMMA PowLoopValue ==
    ASSUME NEW q \in Nat, q > 1
    PROVE  /\ IsPowLoop(PowLeft(q), q)
           /\ \A loop : IsPowLoop(loop, q) => loop = PowLeft(q)
<1>1. IsPowLoop(PowLeft(q), q)
  <2> DEFINE F == PowLeft(q)
  <2>1. F = [s \in PowState |-> F[s]]
    BY DEF PowLeft
  <2>2. \A s \in PowState : F[s] = IF s.exp = 0 THEN s.acc ELSE F[PowTurn(s, q)]
    <3> TAKE s \in PowState
    <3>1. CASE s.exp = 0
      BY <3>1 DEF PowLeft
    <3>2. CASE s.exp # 0
      BY <3>2, PowLeftTurns
    <3> QED
      BY <3>1, <3>2
  <2> HIDE DEF F
  <2>3. F = [s \in PowState |-> IF s.exp = 0 THEN s.acc ELSE F[PowTurn(s, q)]]
    BY <2>1, <2>2
  <2> QED
    BY <2>3 DEF F, IsPowLoop
<1>2. ASSUME NEW loop, IsPowLoop(loop, q) PROVE loop = PowLeft(q)
  <2> DEFINE F == PowLeft(q)
             G == {n \in Nat : \A s \in PowState : s.exp <= n => loop[s] = F[s]}
  <2>1. \A s \in PowState : /\ s.exp \in Nat
                            /\ loop[s] = IF s.exp = 0 THEN s.acc ELSE loop[PowTurn(s, q)]
    BY <1>2 DEF IsPowLoop, PowState
  <2>2. \A s \in PowState : F[s] = IF s.exp = 0 THEN s.acc ELSE F[PowTurn(s, q)]
    BY <1>1 DEF IsPowLoop
  <2> HIDE DEF F
  <2>3. 0 \in G
    BY <2>1, <2>2
  <2>4. ASSUME NEW n \in Nat, n \in G PROVE n + 1 \in G
    <3> SUFFICES ASSUME NEW s \in PowState, s.exp <= n + 1 PROVE loop[s] = F[s]
      OBVIOUS
    <3>1. CASE s.exp = 0
      BY <2>1, <2>2, <3>1
    <3>2. CASE s.exp # 0
      <4> DEFINE t == PowTurn(s, q)
      <4>1. s.exp \in Nat /\ s.exp > 0
        BY <2>1, <3>2
      <4>2. t \in PowState /\ t.exp = s.exp \div 2 /\ s.exp \div 2 <= s.exp - 1
        BY <4>1, PowTurnType
      <4>3. t.exp \in Nat /\ t.exp <= n
        BY <2>1, <4>1, <4>2
      <4>4. loop[t] = F[t]
        BY <2>4, <4>2, <4>3
      <4> QED
        BY <2>1, <2>2, <3>2, <4>4
    <3> QED
      BY <3>1, <3>2
  <2> HIDE DEF G
  <2>5. Nat \subseteq G
    BY <2>3, <2>4, InductionSet
  <2>6. \A s \in PowState : loop[s] = F[s]
    BY <2>1, <2>5 DEF G
  <2>7. loop = [s \in PowState |-> loop[s]]
    BY <1>2 DEF IsPowLoop
  <2>8. F = [s \in PowState |-> F[s]]
    BY DEF F, PowLeft
  <2>9. loop = F
    BY <2>6, <2>7, <2>8
  <2> QED
    BY <2>9 DEF F
<1> QED
  BY <1>1, <1>2

\* pow_mod is the power.
LEMMA PowModPower ==
    ASSUME NEW q \in Nat, q > 1, NEW a \in Nat, NEW n \in Nat,
           NEW pw, IsPowersMod(pw, a % q, q)
    PROVE  PowMod(a, n, q) = pw[n]
<1> DEFINE L == CHOOSE loop : IsPowLoop(loop, q)
           s == [acc |-> 1, base |-> a % q, exp |-> n]
<1>1. IsPowLoop(L, q)
  <2>1. \E loop : IsPowLoop(loop, q)
    BY PowLoopValue
  <2> QED
    BY <2>1
<1>2. PowMod(a, n, q) = L[s]
  BY DEF PowMod, IsPowLoop
<1> HIDE DEF L
<1>3. L = PowLeft(q)
  BY <1>1, PowLoopValue
<1>4. a % q \in 0..(q - 1)
  <2>1. q > 0 /\ a \in Int
    OBVIOUS
  <2> QED
    BY <2>1, Quotient
<1>5. s \in PowState /\ s.acc = 1 /\ s.base = a % q /\ s.exp = n /\ a % q \in Nat
  BY <1>4 DEF PowState
<1> DEFINE r == a % q  P == PowersOf(q)[r]
<1>6. IsPowersMod(P, r, q)
  BY <1>5, PowersOfAre
<1> HIDE DEF s
<1>7. PowLeft(q)[s] = IF n = 0 THEN 1 ELSE (1 * P[n]) % q
  BY <1>5 DEF PowLeft
<1>8. P = pw
  <2> HIDE DEF P, r
  <2> QED
    BY <1>6, PowersModUnique DEF r
<1>9. pw[n] \in 0..(q - 1) /\ pw[0] = 1
  BY DEF IsPowersMod
<1> HIDE DEF P, r
<1>10. (1 * pw[n]) % q = pw[n]
  BY <1>9
<1> QED
  BY <1>2, <1>3, <1>7, <1>8, <1>9, <1>10

\* The inverse inv_mod finds modulo a prime.
LEMMA InvModInverts ==
    ASSUME NEW q, IsPrime(q), NEW a \in Nat, a % q # 0
    PROVE  InvMod(a, q) \in 0..(q - 1) /\ (a * InvMod(a, q)) % q = 1
<1> DEFINE r == a % q
<1>1. q \in Nat /\ q > 1 /\ q > 0 /\ q \in Int /\ q - 2 \in Nat /\ (q - 2) + 1 = q - 1
  BY DEF IsPrime
<1>2. r \in 0..(q - 1)
  BY <1>1, Quotient
<1>3. r \in Int /\ r % q # 0
  BY <1>1, <1>2
<1>4. PICK pw : IsPowersMod(pw, r, q)
  <2> HIDE DEF r
  <2> QED
    BY <1>1, <1>3, PowersModExist
<1> DEFINE i == pw[q - 2]
<1>5. InvMod(a, q) = i
  BY <1>1, <1>4, PowModPower DEF InvMod
<1>6. i \in 0..(q - 1)
  BY <1>1, <1>4 DEF IsPowersMod
<1>7. pw[q - 1] = (i * r) % q
  BY <1>1, <1>4 DEF IsPowersMod
<1>8. pw[q - 1] = 1
  <2> HIDE DEF r
  <2> QED
    BY <1>3, <1>4, Fermat
<1> HIDE DEF i
<1>9. i \in Int /\ a \in Int
  BY <1>1, <1>6
<1>10. (i * r) % q = (i * a) % q
  BY <1>1, <1>9, ModAbsorb
<1>11. i * a = a * i
  BY <1>9
<1> QED
  BY <1>5, <1>6, <1>7, <1>8, <1>10, <1>11

\* The powers inv_mod takes are inverses.
Inverts(q) ==
    \A a \in 1..(q - 1) : InvMod(a, q) \in 0..(q - 1) /\ (a * InvMod(a, q)) % q = 1

-----------------------------------------------------------------------------
(* Bases.                                                                   *)

\* Moduli none of which divides another, with inverses for what they do not
\* divide: what makes a sequence of numbers a basis.
IsBasis(b) ==
    /\ b \in Seq(Nat)
    /\ \A i \in 1..Len(b) : b[i] > 1 /\ Inverts(b[i])
    /\ \A i, j \in 1..Len(b) : i # j => b[i] % b[j] # 0

\* Whatever a modulus with inverses does not divide is a unit, and InvMod finds
\* the inverse.
LEMMA UnitOfResidue ==
    ASSUME NEW q \in Nat, q > 1, Inverts(q), NEW a \in Int, a % q # 0
    PROVE  /\ InvMod(a % q, q) \in 0..(q - 1)
           /\ Cong(a * InvMod(a % q, q), 1, q) /\ IsUnit(a, q)
<1> DEFINE r == a % q
           v == InvMod(r, q)
<1>1. r \in 1..(q - 1) /\ Cong(a, r, q) /\ r \in Int
  <2>0. q > 0
    OBVIOUS
  <2>1. r \in 0..(q - 1) /\ Cong(a, r, q)
    BY <2>0, CongOfMod
  <2> QED
    BY <2>1
<1> HIDE DEF r
<1>2. v \in 0..(q - 1) /\ (r * v) % q = 1
  BY <1>1 DEF Inverts
<1> HIDE DEF v
<1>3. v \in Int /\ 1 % q = 1
  BY <1>2
<1>4. Cong(v, v, q)
  BY <1>3, CongRefl
<1>5. Cong(a * v, r * v, q)
  BY <1>1, <1>3, <1>4, CongAdd
<1>6. Cong(r * v, 1, q)
  BY <1>1, <1>2, <1>3, CongIff
<1>7. Cong(a * v, 1, q)
  BY <1>1, <1>3, <1>5, <1>6, CongTrans
<1>8. IsUnit(a, q)
  BY <1>7, <1>3 DEF IsUnit
<1> QED
  BY <1>2, <1>7, <1>8 DEF r, v

\* Two moduli of a basis are units of each other.
LEMMA BasisUnits ==
    ASSUME NEW b, IsBasis(b)
    PROVE  /\ b \in Seq(Int)
           /\ \A i \in 1..Len(b) : b[i] \in Nat /\ b[i] > 1
           /\ \A i, j \in 1..Len(b) : i # j => IsUnit(b[i], b[j])
<1>1. b \in Seq(Nat) /\ \A i \in 1..Len(b) : b[i] \in Nat /\ b[i] > 1 /\ Inverts(b[i])
  BY DEF IsBasis
<1>2. ASSUME NEW i \in 1..Len(b), NEW j \in 1..Len(b), i # j PROVE IsUnit(b[i], b[j])
  <2>1. b[i] \in Int /\ b[j] \in Nat /\ b[j] > 1 /\ Inverts(b[j]) /\ b[i] % b[j] # 0
    BY <1>1, <1>2 DEF IsBasis
  <2> QED
    BY <2>1, UnitOfResidue
<1> QED
  BY <1>1, <1>2

\* One is a unit of every modulus: the start of the products of units.
LEMMA UnitOne == \A q \in Int : IsUnit(1, q)
<1> SUFFICES ASSUME NEW q \in Int PROVE IsUnit(1, q)
  OBVIOUS
<1>1. Cong(1 * 1, 1, q)
  BY CongRefl
<1> QED
  BY <1>1 DEF IsUnit

\* The product of a basis without modulus i, which the other moduli divide and
\* modulus i does not.
LEMMA HatFacts ==
    ASSUME NEW b, IsBasis(b), NEW i \in 1..Len(b)
    PROVE  /\ Hat(b, i) \in Nat /\ Hat(b, i) > 0
           /\ BasisProduct(b) = Hat(b, i) * b[i]
           /\ IsUnit(Hat(b, i), b[i])
           /\ \A j \in 1..Len(b) : j # i => Divides(b[j], Hat(b, i))
<1> DEFINE n == Len(b)
           Rest(h, k) == /\ h > 0 /\ IsUnit(h, b[i])
                         /\ \A j \in 1..k : j # i => Divides(b[j], h)
<1>1. /\ b \in Seq(Int) /\ n \in Nat
      /\ \A j \in 1..n : b[j] \in Nat /\ b[j] > 1
      /\ \A j \in 1..n : j # i => IsUnit(b[j], b[i])
  <2>1. b \in Seq(Int) /\ \A j \in 1..Len(b) : b[j] \in Nat /\ b[j] > 1
    BY BasisUnits
  <2>2. \A j \in 1..Len(b) : j # i => IsUnit(b[j], b[i])
    BY BasisUnits
  <2> QED
    BY <2>1, <2>2
<1>2. PICK p \in [0..n -> Int] :
          /\ p[0] = 1 /\ \A k \in 1..n : p[k] = p[k - 1] * b[k]
          /\ BasisProduct(b) = p[n]
  BY <1>1, ProductSteps
<1> DEFINE N == {k \in Nat : k <= n =>
                    \E h \in Nat : /\ p[k] = h * (IF i <= k THEN b[i] ELSE 1)
                                   /\ Rest(h, k)}
<1>3. 0 \in N
  <2>1. IsUnit(1, b[i])
    BY <1>1, UnitOne
  <2>2. Rest(1, 0) /\ p[0] = 1 * 1 /\ ~(i <= 0)
    BY <2>1, <1>2
  <2> HIDE DEF Rest
  <2> QED
    BY <2>2
<1>4. ASSUME NEW k \in Nat, k \in N PROVE k + 1 \in N
  <2> SUFFICES ASSUME k + 1 <= n
               PROVE  \E h \in Nat : /\ p[k + 1] = h * (IF i <= k + 1 THEN b[i] ELSE 1)
                                     /\ Rest(h, k + 1)
    OBVIOUS
  <2>1. PICK h \in Nat : p[k] = h * (IF i <= k THEN b[i] ELSE 1) /\ Rest(h, k)
    BY <1>1, <1>4
  <2>2. /\ k + 1 \in 1..n /\ p[k + 1] = p[k] * b[k + 1] /\ p[k] \in Int
        /\ b[k + 1] \in Nat /\ b[k + 1] > 1 /\ b[i] \in Nat
    <3>1. k + 1 \in 1..n /\ k \in 0..n /\ (k + 1) - 1 = k
      BY <1>1
    <3>2. p[k + 1] = p[(k + 1) - 1] * b[k + 1]
      BY <1>2, <3>1
    <3> QED
      BY <1>1, <1>2, <3>1, <3>2
  <2>3. CASE k + 1 = i
    <3>1. p[k + 1] = h * b[i] /\ i <= k + 1
      BY <2>1, <2>2, <2>3
    <3>2. Rest(h, k + 1)
      BY <2>1, <2>3
    <3> HIDE DEF Rest
    <3> QED
      BY <3>1, <3>2
  <2>4. CASE k + 1 # i
    <3> DEFINE q == b[k + 1]
               g == h * q
    <3>1. g \in Nat /\ g > 0 /\ h \in Int /\ q \in Int
      BY <2>1, <2>2
    <3>2. IsUnit(g, b[i])
      <4>1. IsUnit(h, b[i]) /\ IsUnit(q, b[i]) /\ b[i] \in Int
        BY <1>1, <2>1, <2>2, <2>4
      <4> HIDE DEF q
      <4> QED
        BY <3>1, <4>1, UnitProduct
    <3>3. ASSUME NEW j \in 1..(k + 1), j # i PROVE Divides(b[j], g)
      <4>1. CASE j = k + 1
        <5>1. g = h * b[j] /\ h \in Int
          BY <4>1
        <5> QED
          BY <5>1 DEF Divides
      <4>2. CASE j # k + 1
        <5>1. j \in 1..k /\ b[j] \in Int
          BY <4>2, <1>1
        <5>2. Divides(b[j], h)
          BY <5>1, <2>1, <3>3
        <5> HIDE DEF q
        <5> QED
          BY <5>1, <5>2, <3>1, DividesProduct
      <4> QED
        BY <4>1, <4>2
    <3>4. p[k + 1] = g * (IF i <= k + 1 THEN b[i] ELSE 1)
      <4>1. (i <= k + 1) <=> (i <= k)
        BY <2>4
      <4>2. CASE i <= k
        BY <2>1, <2>2, <4>1, <4>2
      <4>3. CASE ~(i <= k)
        BY <2>1, <2>2, <4>1, <4>3
      <4> QED
        BY <4>2, <4>3
    <3>5. Rest(g, k + 1)
      <4> HIDE DEF g
      <4> QED
        BY <3>1, <3>2, <3>3
    <3> HIDE DEF Rest, g
    <3> QED
      BY <3>1, <3>4, <3>5
  <2> QED
    BY <2>3, <2>4
<1> HIDE DEF N
<1>5. Nat \subseteq N
  BY <1>3, <1>4, InductionSet
<1>6. n \in N /\ n <= n /\ i <= n
  BY <1>1, <1>5
<1>7. PICK h \in Nat : p[n] = h * b[i] /\ Rest(h, n)
  BY <1>6 DEF N
<1>8. Hat(b, i) = h
  <2>1. b[i] \in Nat /\ 0 \in 0..(b[i] - 1) /\ BasisProduct(b) = h * b[i] + 0
    BY <1>1, <1>2, <1>7
  <2> DEFINE q == b[i]
  <2> HIDE DEF q
  <2>2. (h * q + 0) \div q = h
    <3>1. q \in Nat /\ 0 \in 0..(q - 1) /\ h \in Int
      BY <2>1 DEF q
    <3> QED
      BY <3>1, QuotientUnique
  <2> QED
    BY <2>1, <2>2 DEF Hat, q
<1> QED
  BY <1>2, <1>7, <1>8

\* The product is positive; every modulus divides it.
LEMMA ProductFacts ==
    ASSUME NEW b, IsBasis(b)
    PROVE  /\ BasisProduct(b) \in Nat /\ BasisProduct(b) > 0
           /\ \A i \in 1..Len(b) : Divides(b[i], BasisProduct(b))
<1>1. Len(b) \in Nat /\ \A i \in 1..Len(b) : b[i] \in Nat /\ b[i] > 1
  BY BasisUnits DEF IsBasis
<1>2. CASE Len(b) = 0
  <2>1. BasisProduct(b) = 1
    BY <1>2, BasisUnits, ProductSteps
  <2> QED
    BY <2>1, <1>2
<1>3. CASE Len(b) # 0
  <2>1. ASSUME NEW i \in 1..Len(b)
        PROVE  BasisProduct(b) \in Nat /\ BasisProduct(b) > 0 /\ Divides(b[i], BasisProduct(b))
    <3>1. /\ Hat(b, i) \in Nat /\ Hat(b, i) > 0
          /\ BasisProduct(b) = Hat(b, i) * b[i] /\ b[i] \in Nat /\ b[i] > 1
      BY <1>1, HatFacts
    <3> QED
      BY <3>1 DEF Divides
  <2>2. 1 \in 1..Len(b)
    BY <1>1, <1>3
  <2> QED
    BY <2>1, <2>2
<1> QED
  BY <1>2, <1>3

\* What every modulus of a basis divides, their product divides.
LEMMA CommonMultiple ==
    ASSUME NEW b, IsBasis(b), NEW y \in Int, \A i \in 1..Len(b) : Divides(b[i], y)
    PROVE  Divides(BasisProduct(b), y)
<1> DEFINE n == Len(b)
<1>1. /\ b \in Seq(Int) /\ n \in Nat
      /\ \A i \in 1..n : b[i] \in Nat /\ b[i] > 1
  BY BasisUnits DEF IsBasis
<1>2. PICK p \in [0..n -> Int] :
          /\ p[0] = 1 /\ \A k \in 1..n : p[k] = p[k - 1] * b[k]
          /\ BasisProduct(b) = p[n]
  BY <1>1, ProductSteps
<1> DEFINE N == {k \in Nat : k <= n => /\ Divides(p[k], y)
                                       /\ \A j \in (k + 1)..n : IsUnit(p[k], b[j])}
<1>3. 0 \in N
  <2>1. Divides(1, y)
    <3>1. y = y * 1
      OBVIOUS
    <3> QED
      BY <3>1 DEF Divides
  <2>2. \A j \in 1..n : IsUnit(1, b[j])
    BY <1>1, UnitOne
  <2> QED
    BY <1>2, <2>1, <2>2
<1>4. ASSUME NEW k \in Nat, k \in N PROVE k + 1 \in N
  <2> SUFFICES ASSUME k + 1 <= n
               PROVE  /\ Divides(p[k + 1], y)
                      /\ \A j \in (k + 2)..n : IsUnit(p[k + 1], b[j])
    OBVIOUS
  <2> DEFINE q == b[k + 1]
             u == p[k]
  <2>1. /\ k + 1 \in 1..n /\ k \in 0..n /\ (k + 1) - 1 = k
        /\ q \in Int /\ u \in Int
    <3>1. k + 1 \in 1..n /\ k \in 0..n /\ (k + 1) - 1 = k
      BY <1>1
    <3>2. q \in Int
      BY <1>1, <3>1
    <3>3. u \in Int
      BY <1>1, <3>1
    <3> QED
      BY <3>1, <3>2, <3>3
  <2>2. p[k + 1] = u * q
    <3>1. p[k + 1] = p[(k + 1) - 1] * b[k + 1]
      BY <1>2, <2>1
    <3> QED
      BY <3>1, <2>1
  <2>3. Divides(u, y) /\ IsUnit(u, q) /\ Divides(q, y)
    BY <1>4, <2>1
  <2>4. ASSUME NEW j \in (k + 2)..n PROVE IsUnit(u * q, b[j])
    <3> DEFINE r == b[j]
    <3>1. j \in (k + 1)..n /\ j \in 1..n /\ k + 1 # j
      BY <2>1
    <3>2. r \in Int /\ IsUnit(u, r) /\ IsUnit(q, r)
      BY <1>1, <1>4, <2>1, <3>1, BasisUnits
    <3> HIDE DEF q, u, r
    <3>3. IsUnit(u * q, r)
      BY <2>1, <3>2, UnitProduct
    <3> QED
      BY <3>3 DEF r
  <2> HIDE DEF q, u
  <2>5. Divides(u * q, y)
    BY <2>1, <2>3, CoprimeDivides
  <2> QED
    BY <2>2, <2>4, <2>5
<1> HIDE DEF N
<1>5. n \in N
  BY <1>1, <1>3, <1>4, InductionSet
<1> QED
  BY <1>1, <1>2, <1>5 DEF N

\* Numbers congruent modulo every modulus are congruent modulo the product.
LEMMA CrtUnique ==
    ASSUME NEW b, IsBasis(b), NEW u \in Int, NEW v \in Int,
           \A i \in 1..Len(b) : Cong(u, v, b[i])
    PROVE  Cong(u, v, BasisProduct(b))
<1> DEFINE y == u - v
<1>1. ASSUME NEW i \in 1..Len(b) PROVE Divides(b[i], y)
  <2>1. PICK k \in Int : u = v + k * b[i]
    BY DEF Cong
  <2>2. b[i] \in Int
    BY BasisUnits
  <2>3. y = k * b[i]
    BY <2>1, <2>2
  <2> QED
    BY <2>3 DEF Divides
<1>2. y \in Int
  OBVIOUS
<1> HIDE DEF y
<1>3. Divides(BasisProduct(b), y)
  BY <1>1, <1>2, CommonMultiple
<1>4. PICK k \in Int : y = k * BasisProduct(b)
  BY <1>3 DEF Divides
<1>5. BasisProduct(b) \in Nat
  BY ProductFacts
<1>6. u = v + k * BasisProduct(b)
  BY <1>4, <1>5 DEF y
<1> QED
  BY <1>6 DEF Cong

\* The reconstruction's inverses: what hat_inverse returns inverts the rest of
\* the product.
LEMMA HatInverseFacts ==
    ASSUME NEW b, IsBasis(b), NEW i \in 1..Len(b)
    PROVE  /\ HatInverse(b, i) \in Int
           /\ Cong(Hat(b, i) * HatInverse(b, i), 1, b[i])
<1> DEFINE q == b[i]  h == Hat(b, i)
<1>1. q \in Nat /\ q > 1 /\ q > 0 /\ Inverts(q)
  BY DEF IsBasis
<1>2. h \in Int /\ IsUnit(h, q)
  BY HatFacts
<1> HIDE DEF h, q
<1>3. h % q # 0
  BY <1>1, <1>2, UnitNonzero
<1>4. InvMod(h % q, q) \in 0..(q - 1) /\ Cong(h * InvMod(h % q, q), 1, q)
  BY <1>1, <1>2, <1>3, UnitOfResidue
<1>5. HatInverse(b, i) = InvMod(h % q, q)
  BY DEF HatInverse, h, q
<1> DEFINE v == InvMod(h % q, q)
<1>6. v \in Int /\ Cong(h * v, 1, q)
  BY <1>4
<1> HIDE DEF v
<1>7. HatInverse(b, i) = v
  BY <1>5 DEF v
<1> QED
  BY <1>6, <1>7 DEF h, q

\* The term of modulus i in the reconstruction: the value itself modulo that
\* modulus, and zero modulo the others.
LEMMA TermResidues ==
    ASSUME NEW b, IsBasis(b), NEW z \in Int, NEW i \in 1..Len(b)
    PROVE  /\ CrtTerm(Decompose(z, b), b, i) \in Int
           /\ Cong(CrtTerm(Decompose(z, b), b, i), z, b[i])
           /\ \A j \in 1..Len(b) :
                j # i => Cong(CrtTerm(Decompose(z, b), b, i), 0, b[j])
<1> DEFINE q == b[i]  h == Hat(b, i)  v == HatInverse(b, i)  r == z % q
           m == (r * v) % q
<1>1. /\ q \in Nat /\ q > 1 /\ q > 0
      /\ h \in Int
      /\ \A j \in 1..Len(b) : j # i => Divides(b[j], h)
  <2>1. q \in Nat /\ q > 1 /\ q > 0
    BY DEF IsBasis
  <2>2. Hat(b, i) \in Nat
    BY HatFacts
  <2>3. \A j \in 1..Len(b) : j # i => Divides(b[j], Hat(b, i))
    BY HatFacts
  <2> QED
    BY <2>1, <2>2, <2>3
<1>3. v \in Int /\ Cong(h * v, 1, q)
  BY HatInverseFacts
<1>4. CrtTerm(Decompose(z, b), b, i) = h * m
  <2>1. i \in DOMAIN b
    BY DEF IsBasis
  <2> QED
    BY <2>1 DEF CrtTerm, Decompose, MulMod
<1> HIDE DEF q, h, v
<1>5. r \in Int /\ v \in Int /\ Cong(r, z, q)
  BY <1>1, <1>3, CongOfMod
<1> HIDE DEF r
<1>6. m \in Int /\ Cong(m, r * v, q)
  <2>1. r * v \in Int
    BY <1>5
  <2>2. (r * v) % q \in 0..(q - 1) /\ Cong((r * v) % q, r * v, q)
    BY <1>1, <2>1, CongOfMod
  <2> QED
    BY <2>2
<1> HIDE DEF m
<1>7. Cong(h * m, z, q)
  <2>1. Cong(h * m, h * (r * v), q)
    <3> DEFINE w == r * v
    <3>1. w \in Int /\ Cong(m, w, q) /\ Cong(h, h, q)
      BY <1>1, <1>5, <1>6, CongRefl
    <3> HIDE DEF w
    <3>2. Cong(h * m, h * w, q)
      BY <1>1, <1>6, <3>1, CongAdd
    <3> QED
      BY <3>2 DEF w
  <2>2. Cong(r * (h * v), z * 1, q)
    BY <1>1, <1>3, <1>5, CongAdd
  <2>3. h * (r * v) = r * (h * v) /\ z * 1 = z /\ h * m \in Int /\ h * (r * v) \in Int
    BY <1>1, <1>5, <1>6
  <2> DEFINE w == h * (r * v)
  <2>4. Cong(h * m, w, q) /\ Cong(w, z, q) /\ w \in Int
    BY <2>1, <2>2, <2>3
  <2> HIDE DEF w
  <2> QED
    BY <1>1, <2>3, <2>4, CongTrans
<1>8. ASSUME NEW j \in 1..Len(b), j # i PROVE Cong(h * m, 0, b[j])
  <2>1. b[j] \in Int /\ Divides(b[j], h)
    BY <1>1, <1>8, BasisUnits
  <2> DEFINE d == b[j]
  <2> HIDE DEF d
  <2>2. d \in Int /\ Divides(d, h)
    BY <2>1 DEF d
  <2>3. Divides(d, h * m) /\ h * m \in Int
    <3>1. h \in Int /\ m \in Int
      BY <1>1, <1>6
    <3>2. Divides(d, h * m)
      BY <2>2, <3>1, DividesProduct
    <3> QED
      BY <3>1, <3>2
  <2>4. Cong(h * m, 0, d)
    BY <2>2, <2>3, DividesCong
  <2> QED
    BY <2>4 DEF d
<1>9. h * m \in Int
  BY <1>1, <1>6
<1> QED
  BY <1>4, <1>7, <1>8, <1>9 DEF q

\* The Chinese remainder theorem: reconstruct_true_values finds the value below
\* the product that has these residues.
THEOREM TrueValueExact ==
    ASSUME NEW b, IsBasis(b), NEW z \in Int
    PROVE  TrueValue(Decompose(z, b), b) = z % BasisProduct(b)
<1> DEFINE n == Len(b)
           Q == BasisProduct(b)
           s == [i \in DOMAIN b |-> CrtTerm(Decompose(z, b), b, i)]
<1>1. /\ n \in Nat /\ DOMAIN b = 1..n
      /\ \A i \in 1..n : b[i] \in Nat /\ b[i] > 1
  BY BasisUnits DEF IsBasis
<1>2. /\ Q \in Nat /\ Q > 0 /\ Q \in Int
      /\ \A i \in 1..n : Divides(b[i], Q)
  BY ProductFacts
<1>3. /\ \A i \in 1..n : s[i] \in Int /\ Cong(s[i], z, b[i])
      /\ \A i, j \in 1..n : j # i => Cong(s[i], 0, b[j])
  BY <1>1, TermResidues
<1>4. s \in Seq(Int) /\ Len(s) = n
  BY <1>1, <1>3
<1>5. TrueValue(Decompose(z, b), b) = ModSum(s, Q)
  BY DEF TrueValue
<1> HIDE DEF s, Q
<1>6. PICK p \in [0..n -> Int] :
          /\ p[0] = 0 /\ \A k \in 1..n : p[k] = (p[k - 1] + s[k]) % Q
          /\ ModSum(s, Q) = p[n]
  <2>1. \E p \in [0..Len(s) -> Int] :
          /\ p[0] = 0
          /\ \A k \in 1..Len(s) : p[k] = (p[k - 1] + s[k]) % Q
          /\ ModSum(s, Q) = p[Len(s)]
    <3>1. s \in Seq(Int) /\ Q \in Nat /\ Q > 0
      BY <1>2, <1>4
    <3> QED
      BY <3>1, ModSumSteps
  <2> QED
    BY <2>1, <1>4
<1>7. ASSUME NEW j \in 1..n PROVE Cong(p[n], z, b[j])
  <2> DEFINE q == b[j]
             N == {k \in Nat : k <= n => Cong(p[k], IF j <= k THEN z ELSE 0, q)}
  <2>1. q \in Int /\ Divides(q, Q)
    BY <1>1, <1>2
  <2>2. /\ Cong(s[j], z, q)
        /\ \A i \in 1..n : i # j => Cong(s[i], 0, q)
    BY <1>3
  <2> HIDE DEF q
  <2>3. 0 \in N
    BY <2>1, <1>6, CongRefl
  <2>4. ASSUME NEW k \in Nat, k \in N PROVE k + 1 \in N
    <3> SUFFICES ASSUME k + 1 <= n
                 PROVE  Cong(p[k + 1], IF j <= k + 1 THEN z ELSE 0, q)
      OBVIOUS
    <3> DEFINE old == p[k]
               new == p[k + 1]
               t == s[k + 1]
               e == IF j <= k THEN z ELSE 0
               f == IF j = k + 1 THEN z ELSE 0
    <3>1. /\ k + 1 \in 1..n /\ k \in 0..n /\ (k + 1) - 1 = k
          /\ old \in Int /\ new \in Int /\ t \in Int /\ e \in Int /\ f \in Int
      BY <1>1, <1>3
    <3>2. new = (old + t) % Q
      <4>1. p[k + 1] = (p[(k + 1) - 1] + s[k + 1]) % Q
        BY <1>6, <3>1
      <4> QED
        BY <4>1, <3>1
    <3>3. Cong(old, e, q)
      BY <2>4, <3>1
    <3>4. Cong(t, f, q)
      BY <2>2, <3>1
    <3>5. e + f = IF j <= k + 1 THEN z ELSE 0
      BY <1>1
    <3> HIDE DEF old, new, t, e, f
    <3>6. old + t \in Int /\ e + f \in Int
      BY <3>1
    <3>7. Cong(new, old + t, Q)
      BY <1>2, <3>2, <3>6, CongOfMod
    <3>8. Cong(new, old + t, q)
      BY <1>2, <2>1, <3>1, <3>6, <3>7, CongDivisor
    <3>9. Cong(old + t, e + f, q)
      BY <2>1, <3>1, <3>3, <3>4, CongAdd
    <3>10. Cong(new, e + f, q)
      <4> DEFINE u == old + t
                 w == e + f
      <4>1. u \in Int /\ w \in Int /\ Cong(new, u, q) /\ Cong(u, w, q)
        BY <3>6, <3>8, <3>9
      <4> HIDE DEF u, w
      <4>2. Cong(new, w, q)
        BY <2>1, <3>1, <4>1, CongTrans
      <4> QED
        BY <4>2 DEF w
    <3> QED
      BY <3>5, <3>10 DEF new
  <2> HIDE DEF N
  <2>5. n \in N
    BY <1>1, <2>3, <2>4, InductionSet
  <2> QED
    BY <1>1, <2>5 DEF N, q
<1>8. p[n] \in 0..(Q - 1)
  <2>1. CASE n = 0
    BY <2>1, <1>2, <1>6
  <2>2. CASE n # 0
    <3>1. n \in 1..n /\ n - 1 \in 0..n /\ p[n] = (p[n - 1] + s[n]) % Q /\ s[n] \in Int
      BY <1>1, <1>3, <1>6, <2>2
    <3>2. p[n - 1] + s[n] \in Int
      BY <3>1
    <3> QED
      BY <1>2, <3>1, <3>2, CongOfMod
  <2> QED
    BY <2>1, <2>2
<1>9. p[n] = z % Q
  <2> DEFINE v == p[n]
  <2>1. v \in Int /\ v \in 0..(Q - 1) /\ \A j \in 1..n : Cong(v, z, b[j])
    BY <1>7, <1>8
  <2> HIDE DEF v
  <2>2. Cong(v, z, Q)
    BY <2>1, CrtUnique DEF Q
  <2>3. v % Q = z % Q
    BY <1>2, <2>1, <2>2, CongIff
  <2>4. v % Q = v
    <3> HIDE DEF Q
    <3>1. Q \in Nat /\ v \in 0..(Q - 1) /\ 0 * Q + v = v /\ 0 \in Int
      BY <1>2, <2>1
    <3>2. (0 * Q + v) % Q = v
      BY <3>1, QuotientUnique
    <3> QED
      BY <3>1, <3>2
  <2> QED
    BY <2>3, <2>4 DEF v
<1> QED
  BY <1>5, <1>6, <1>9 DEF Q

\* The product of a concatenation.
LEMMA ProductConcat ==
    ASSUME NEW a \in Seq(Int), NEW b \in Seq(Int)
    PROVE  /\ BasisProduct(a \o b) = BasisProduct(a) * BasisProduct(b)
           /\ BasisProduct(a) \in Int /\ BasisProduct(b) \in Int
<1> DEFINE m == Len(a)
           n == Len(b)
           s == a \o b
<1>1. /\ s \in Seq(Int) /\ Len(s) = m + n /\ m \in Nat /\ n \in Nat
      /\ \A k \in 1..m : s[k] = a[k]
      /\ \A k \in 1..n : s[m + k] = b[k] /\ b[k] \in Int
      /\ \A k \in 1..m : a[k] \in Int
  OBVIOUS
<1> HIDE DEF s
<1>2. PICK p \in [0..(m + n) -> Int] :
          /\ p[0] = 1 /\ \A k \in 1..(m + n) : p[k] = p[k - 1] * s[k]
          /\ BasisProduct(s) = p[m + n]
  BY <1>1, ProductSteps
<1>3. PICK pa \in [0..m -> Int] :
          /\ pa[0] = 1 /\ \A k \in 1..m : pa[k] = pa[k - 1] * a[k]
          /\ BasisProduct(a) = pa[m]
  BY ProductSteps
<1>4. PICK pb \in [0..n -> Int] :
          /\ pb[0] = 1 /\ \A k \in 1..n : pb[k] = pb[k - 1] * b[k]
          /\ BasisProduct(b) = pb[n]
  BY ProductSteps
<1> HIDE DEF m, n
<1> DEFINE A == {k \in Nat : k <= m => p[k] = pa[k]}
           B == {k \in Nat : k <= n => p[m + k] = pa[m] * pb[k]}
<1>5. m \in A
  <2>1. 0 \in A
    BY <1>2, <1>3
  <2>2. ASSUME NEW k \in Nat, k \in A PROVE k + 1 \in A
    <3> SUFFICES ASSUME k + 1 <= m PROVE p[k + 1] = pa[k + 1]
      OBVIOUS
    <3>1. k + 1 \in 1..m /\ k + 1 \in 1..(m + n) /\ (k + 1) - 1 = k /\ k <= m
      BY <1>1
    <3>2. p[k + 1] = p[k] * s[k + 1] /\ pa[k + 1] = pa[k] * a[k + 1]
      BY <3>1, <1>2, <1>3
    <3> QED
      BY <3>1, <3>2, <2>2, <1>1
  <2> HIDE DEF A
  <2> QED
    BY <2>1, <2>2, <1>1, InductionSet
<1>6. n \in B
  <2>1. 0 \in B
    BY <1>5, <1>1, <1>3, <1>4
  <2>2. ASSUME NEW k \in Nat, k \in B PROVE k + 1 \in B
    <3> SUFFICES ASSUME k + 1 <= n PROVE p[m + (k + 1)] = pa[m] * pb[k + 1]
      OBVIOUS
    <3> DEFINE i == m + (k + 1)
    <3>1. /\ k + 1 \in 1..n /\ i \in 1..(m + n) /\ (k + 1) - 1 = k /\ k <= n
          /\ i - 1 = m + k
      BY <1>1
    <3>2. s[i] = b[k + 1]
      BY <3>1, <1>1
    <3> HIDE DEF i
    <3>3. p[i] = p[m + k] * b[k + 1] /\ pb[k + 1] = pb[k] * b[k + 1]
      BY <3>1, <3>2, <1>2, <1>4
    <3>4. p[m + k] = pa[m] * pb[k]
      BY <3>1, <2>2
    <3>5. pa[m] \in Int /\ pb[k] \in Int /\ b[k + 1] \in Int
      <4>1. m \in 0..m /\ k \in 0..n
        BY <1>1, <3>1
      <4>2. pa[m] \in Int /\ pb[k] \in Int
        BY <4>1
      <4>3. b[k + 1] \in Int
        BY <1>1, <3>1
      <4> QED
        BY <4>2, <4>3
    <3>6. (pa[m] * pb[k]) * b[k + 1] = pa[m] * (pb[k] * b[k + 1])
      BY <3>5
    <3> QED
      BY <3>3, <3>4, <3>6 DEF i
  <2> HIDE DEF B
  <2> QED
    BY <2>1, <2>2, <1>1, InductionSet
<1> QED
  BY <1>1, <1>2, <1>3, <1>4, <1>6 DEF s

\* The product of one modulus.
LEMMA ProductSingle == \A q \in Int : BasisProduct(<<q>>) = q
<1> SUFFICES ASSUME NEW q \in Int PROVE BasisProduct(<<q>>) = q
  OBVIOUS
<1> DEFINE s == <<q>>
<1>1. s \in Seq(Int) /\ Len(s) = 1 /\ s[1] = q
  OBVIOUS
<1> HIDE DEF s
<1>2. PICK p \in [0..1 -> Int] :
          /\ p[0] = 1 /\ \A k \in 1..1 : p[k] = p[k - 1] * s[k]
          /\ BasisProduct(s) = p[1]
  BY <1>1, ProductSteps
<1>3. p[1] = p[1 - 1] * s[1]
  BY <1>2
<1> QED
  BY <1>1, <1>2, <1>3 DEF s

\* Both parts of a basis are bases.
LEMMA BasisParts ==
    ASSUME NEW a \in Seq(Nat), NEW b \in Seq(Nat), IsBasis(a \o b)
    PROVE  IsBasis(a) /\ IsBasis(b)
<1> DEFINE m == Len(a)
           s == a \o b
<1>1. /\ m \in Nat /\ Len(s) = m + Len(b) /\ Len(b) \in Nat
      /\ \A k \in 1..m : s[k] = a[k] /\ k \in 1..Len(s)
      /\ \A k \in 1..Len(b) : s[m + k] = b[k] /\ m + k \in 1..Len(s)
  OBVIOUS
<1>2. /\ \A i \in 1..Len(s) : s[i] > 1 /\ Inverts(s[i])
      /\ \A i, j \in 1..Len(s) : i # j => s[i] % s[j] # 0
  BY DEF IsBasis
<1> HIDE DEF s
<1>3. IsBasis(a)
  BY <1>1, <1>2 DEF IsBasis
<1>4. IsBasis(b)
  <2>1. ASSUME NEW i \in 1..Len(b) PROVE b[i] > 1 /\ Inverts(b[i])
    BY <1>1, <1>2
  <2>2. ASSUME NEW i \in 1..Len(b), NEW j \in 1..Len(b), i # j PROVE b[i] % b[j] # 0
    <3>1. m + i # m + j /\ m + i \in 1..Len(s) /\ m + j \in 1..Len(s)
      BY <1>1, <2>2
    <3>2. s[m + i] % s[m + j] # 0
      BY <1>2, <3>1
    <3> QED
      BY <1>1, <3>2
  <2> QED
    BY <2>1, <2>2 DEF IsBasis
<1> QED
  BY <1>3, <1>4

\* Of two different primes neither divides the other.
LEMMA DistinctPrimes ==
    ASSUME NEW p \in Nat, p > 1, \A d \in 2..(p - 1) : p % d # 0,
           NEW q \in Nat, q > 1, q # p
    PROVE  p % q # 0
<1>1. CASE q < p
  <2>1. q \in 2..(p - 1)
    BY <1>1
  <2> QED
    BY <2>1
<1>2. CASE q > p
  <2>1. 0 \in Int /\ p \in 0..(q - 1) /\ 0 * q + p = p
    BY <1>2
  <2>2. (0 * q + p) % q = p
    BY <2>1, QuotientUnique
  <2> QED
    BY <2>1, <2>2
<1> QED
  BY <1>1, <1>2

\* A lift constant is 1 modulo its own modulus and 0 modulo the others.
LEMMA LiftConstants ==
    ASSUME NEW b, IsBasis(b), NEW i \in 1..Len(b), NEW j \in 1..Len(b)
    PROVE  /\ CrtLiftConstant(b, i, b)[j] \in Int
           /\ Cong(CrtLiftConstant(b, i, b)[j], IF i = j THEN 1 ELSE 0, b[j])
<1> DEFINE q == b[j]  h == Hat(b, i)  v == HatInverse(b, i)  r == h % q
           m == r * v
<1>1. q \in Nat /\ q > 1 /\ q > 0 /\ b \in Seq(Nat)
  BY DEF IsBasis
<1>2. h \in Int /\ v \in Int
  BY HatFacts, HatInverseFacts
<1>3. CrtLiftConstant(b, i, b)[j] = m % q
  BY <1>1 DEF CrtLiftConstant, MulMod
<1>4. Cong(h * v, IF i = j THEN 1 ELSE 0, q)
  <2>1. CASE i = j
    BY <2>1, HatInverseFacts
  <2>2. CASE i # j
    <3>1. Divides(q, h)
      BY <2>2, HatFacts
    <3> HIDE DEF q, h, v
    <3>2. Divides(q, h * v)
      <4>1. q \in Int
        BY <1>1
      <4> QED
        BY <4>1, <1>2, <3>1, DividesProduct
    <3>3. h * v \in Int /\ q \in Int
      BY <1>1, <1>2
    <3> QED
      BY <2>2, <3>2, <3>3, DividesCong
  <2> QED
    BY <2>1, <2>2
<1> HIDE DEF q, h, v
<1>5. r \in Int /\ Cong(r, h, q)
  BY <1>1, <1>2, CongOfMod
<1> HIDE DEF r
<1>6. m \in Int /\ Cong(m, h * v, q) /\ h * v \in Int
  <2>1. Cong(v, v, q) /\ q \in Int
    BY <1>1, <1>2, CongRefl
  <2>2. Cong(r * v, h * v, q)
    BY <1>2, <1>5, <2>1, CongAdd
  <2> QED
    BY <1>2, <1>5, <2>2
<1> HIDE DEF m
<1>7. m % q \in Int /\ Cong(m % q, m, q)
  BY <1>1, <1>6, CongOfMod
<1> DEFINE l == m % q  e == IF i = j THEN 1 ELSE 0  w == h * v
<1>8. /\ l \in Int /\ e \in Int /\ w \in Int /\ q \in Int
      /\ Cong(l, m, q) /\ Cong(m, w, q) /\ Cong(w, e, q)
  BY <1>1, <1>4, <1>6, <1>7
<1> HIDE DEF l, e, w
<1>9. Cong(l, w, q)
  BY <1>6, <1>8, CongTrans
<1>10. Cong(l, e, q)
  BY <1>8, <1>9, CongTrans
<1> QED
  BY <1>3, <1>8, <1>10 DEF l, e, q

\* The lift constants weigh the residues of a value so that they sum to it.
LEMMA LiftsSum ==
    ASSUME NEW b, IsBasis(b), NEW z \in Int, NEW j \in 1..Len(b)
    PROVE  SumOf([i \in DOMAIN b |-> CrtLiftConstant(b, i, b)[j] * Decompose(z, b)[i]]) % b[j]
               = Decompose(z, b)[j]
<1> DEFINE n == Len(b)
           s == [i \in DOMAIN b |-> CrtLiftConstant(b, i, b)[j] * Decompose(z, b)[i]]
           q == b[j]
<1>1. /\ n \in Nat /\ DOMAIN b = 1..n
      /\ \A i \in 1..n : b[i] \in Nat /\ b[i] > 1 /\ b[i] > 0
      /\ \A i \in 1..n : Decompose(z, b)[i] = z % b[i]
  BY DEF IsBasis, Decompose
<1>2. ASSUME NEW i \in 1..n
      PROVE  s[i] \in Int /\ Cong(s[i], IF i = j THEN z ELSE 0, q)
  <2> DEFINE l == CrtLiftConstant(b, i, b)[j]  r == z % b[i]  e == IF i = j THEN 1 ELSE 0
  <2>1. l \in Int /\ e \in Int /\ Cong(l, e, q) /\ q \in Int
    BY <1>1, LiftConstants
  <2>2. r \in Int /\ Cong(r, z, b[i])
    <3> DEFINE p == b[i]
    <3>1. p \in Nat /\ p > 0
      BY <1>1
    <3> HIDE DEF p
    <3>2. z % p \in 0..(p - 1) /\ Cong(z % p, z, p)
      BY <3>1, CongOfMod
    <3>3. z % p \in Int
      BY <3>2
    <3> QED
      BY <3>2, <3>3 DEF p
  <2>3. s[i] = l * r
    BY <1>1
  <2>4. CASE i = j
    <3>1. Cong(r, z, q) /\ e = 1
      BY <2>2, <2>4
    <3> HIDE DEF l, r, q, e
    <3>2. Cong(l * r, e * z, q)
      BY <2>1, <2>2, <3>1, CongAdd
    <3>3. e * z = z /\ l * r \in Int
      BY <2>1, <2>2, <3>1
    <3> QED
      BY <2>3, <2>4, <3>2, <3>3
  <2>5. CASE i # j
    <3>1. e = 0
      BY <2>5
    <3> HIDE DEF l, r, q, e
    <3>2. Cong(l * r, e * r, q)
      BY <2>1, <2>2, CongRefl, CongAdd
    <3>3. e * r = 0 /\ l * r \in Int
      BY <2>1, <2>2, <3>1
    <3> QED
      BY <2>3, <2>5, <3>2, <3>3
  <2> QED
    BY <2>4, <2>5
<1>3. s \in Seq(Int) /\ Len(s) = n
  BY <1>1, <1>2
<1>4. q \in Nat /\ q > 0 /\ Decompose(z, b)[j] = z % q
  BY <1>1
<1> HIDE DEF s, q
<1>5. PICK p \in [0..n -> Int] :
          /\ p[0] = 0 /\ \A k \in 1..n : p[k] = p[k - 1] + s[k]
          /\ SumOf(s) = p[n]
  <2>1. \E p \in [0..Len(s) -> Int] :
          /\ p[0] = 0
          /\ \A k \in 1..Len(s) : p[k] = p[k - 1] + s[k]
          /\ SumOf(s) = p[Len(s)]
    BY <1>3, SumSteps
  <2> QED
    BY <2>1, <1>3
<1> DEFINE N == {k \in Nat : k <= n => Cong(p[k], IF j <= k THEN z ELSE 0, q)}
<1>6. 0 \in N
  BY <1>4, <1>5, CongRefl
<1>7. ASSUME NEW k \in Nat, k \in N PROVE k + 1 \in N
  <2> SUFFICES ASSUME k + 1 <= n PROVE Cong(p[k + 1], IF j <= k + 1 THEN z ELSE 0, q)
    OBVIOUS
  <2> DEFINE old == p[k]  t == s[k + 1]
             e == IF j <= k THEN z ELSE 0
             f == IF k + 1 = j THEN z ELSE 0
  <2>1. k + 1 \in 1..n /\ k \in 0..n /\ (k + 1) - 1 = k
    BY <1>1
  <2>2. /\ old \in Int /\ t \in Int /\ e \in Int /\ f \in Int /\ q \in Int
        /\ Cong(old, e, q) /\ Cong(t, f, q)
    BY <1>2, <1>4, <1>7, <2>1
  <2>3. p[k + 1] = old + t
    <3>1. p[k + 1] = p[(k + 1) - 1] + s[k + 1]
      BY <1>5, <2>1
    <3> QED
      BY <3>1, <2>1
  <2>4. e + f = IF j <= k + 1 THEN z ELSE 0
    BY <1>1
  <2> HIDE DEF old, t, e, f
  <2>5. Cong(old + t, e + f, q)
    BY <2>2, CongAdd
  <2> QED
    BY <2>3, <2>4, <2>5
<1> HIDE DEF N
<1>8. n \in N
  BY <1>1, <1>6, <1>7, InductionSet
<1>9. Cong(p[n], z, q) /\ p[n] \in Int
  BY <1>1, <1>8 DEF N
<1>10. p[n] % q = z % q
  BY <1>4, <1>9, CongIff
<1> QED
  BY <1>4, <1>5, <1>10 DEF s, q

-----------------------------------------------------------------------------
(* Values and their residues.                                               *)

\* Centring undoes the reduction of a number of at most half the modulus.
LEMMA CentreOfResidue ==
    ASSUME NEW M \in Nat, M > 0, NEW c \in Int, 2 * c <= M, -M < 2 * c
    PROVE  Centre(c % M, M) = c
<1>1. CASE c >= 0
  <2>1. 0 \in Int /\ c \in 0..(M - 1) /\ 0 * M + c = c
    BY <1>1
  <2>2. c % M = c
    BY <2>1, QuotientUnique
  <2> QED
    BY <2>2 DEF Centre
<1>2. CASE c < 0
  <2>1. -1 \in Int /\ c + M \in 0..(M - 1) /\ (-1) * M + (c + M) = c
    BY <1>2
  <2> DEFINE d == c + M
  <2>2. d \in 0..(M - 1) /\ (-1) * M + d = c
    BY <2>1
  <2> HIDE DEF d
  <2>3. c % M = d
    BY <2>1, <2>2, QuotientUnique
  <2>4. 2 * d > M /\ d - M = c
    BY <1>2 DEF d
  <2> QED
    BY <2>3, <2>4 DEF Centre
<1> QED
  BY <1>1, <1>2

\* The bounds of a centred residue.
LEMMA CentreBounds ==
    ASSUME NEW M \in Nat, M > 0, NEW r \in 0..(M - 1)
    PROVE  /\ Centre(r, M) \in Int
           /\ 2 * Centre(r, M) <= M /\ -M < 2 * Centre(r, M)
           /\ Cong(Centre(r, M), r, M)
<1>1. CASE 2 * r > M
  <2>1. r - M = r + (-1) * M
    OBVIOUS
  <2>2. Centre(r, M) = r - M
    BY <1>1 DEF Centre
  <2> QED
    BY <1>1, <2>1, <2>2 DEF Cong
<1>2. CASE ~(2 * r > M)
  <2>1. Centre(r, M) = r /\ Cong(r, r, M)
    BY <1>2, CongRefl DEF Centre
  <2> QED
    BY <1>2, <2>1
<1> QED
  BY <1>1, <1>2

\* Residues survive the way through the value: over a basis for the value
\* itself, over another basis for the centred one.
LEMMA DecomposeOfValue ==
    ASSUME NEW b, IsBasis(b), NEW z \in 0..(BasisProduct(b) - 1)
    PROVE  /\ TrueValue(Decompose(z, b), b) = z
           /\ CentredValue(Decompose(z, b), b) = Centre(z, BasisProduct(b))
<1>1. BasisProduct(b) \in Nat /\ BasisProduct(b) > 0 /\ z \in Int
  BY ProductFacts
<1>2. z % BasisProduct(b) = z
  BY <1>1
<1>3. TrueValue(Decompose(z, b), b) = z
  BY <1>1, <1>2, TrueValueExact
<1> QED
  BY <1>3 DEF CentredValue

-----------------------------------------------------------------------------
(* Division by an invertible number, residue by residue.                    *)

\* Reduced operands: the results are reduced, and right modulo q.
LEMMA SubModCong ==
    ASSUME NEW q \in Nat, q > 0, NEW a \in 0..(q - 1), NEW b \in 0..(q - 1)
    PROVE  SubMod(a, b, q) \in 0..(q - 1) /\ Cong(SubMod(a, b, q), a - b, q)
<1>1. CASE a >= b
  <2>1. SubMod(a, b, q) = a - b /\ Cong(a - b, a - b, q)
    BY <1>1, CongRefl DEF SubMod
  <2> QED
    BY <1>1, <2>1
<1>2. CASE ~(a >= b)
  <2>1. SubMod(a, b, q) = q - (b - a)
    BY <1>2 DEF SubMod
  <2>2. q - (b - a) = (a - b) + 1 * q
    OBVIOUS
  <2>3. Cong(q - (b - a), a - b, q)
    BY <2>2 DEF Cong
  <2> QED
    BY <1>2, <2>1, <2>3
<1> QED
  BY <1>1, <1>2

\* neg_mod is the opposite modulo q.
LEMMA NegModCong ==
    ASSUME NEW q \in Nat, q > 0, NEW a \in 0..(q - 1)
    PROVE  NegMod(a, q) \in 0..(q - 1) /\ Cong(NegMod(a, q), 0 - a, q)
<1>1. CASE a = 0
  <2>1. NegMod(a, q) = 0
    BY <1>1 DEF NegMod
  <2>3. 0 - a = 0
    BY <1>1
  <2>2. Cong(0, 0, q)
    BY CongRefl
  <2> QED
    BY <2>1, <2>2, <2>3
<1>2. CASE a # 0
  <2>1. NegMod(a, q) = q - a
    BY <1>2 DEF NegMod
  <2>2. q - a = (0 - a) + 1 * q
    OBVIOUS
  <2>3. Cong(q - a, 0 - a, q)
    BY <2>2 DEF Cong
  <2> QED
    BY <1>2, <2>1, <2>3
<1> QED
  BY <1>1, <1>2

\* Multiplying by the inverse of a divides a multiple of a.
LEMMA DivideResidue ==
    ASSUME NEW q \in Nat, q > 1, Inverts(q), NEW a \in Int, IsUnit(a, q),
           NEW d \in Int, NEW y \in Int, Cong(d, a * y, q)
    PROVE  MulMod(d, InvMod(a % q, q), q) = y % q
<1>0. q > 0
  OBVIOUS
<1>1. a % q # 0
  BY UnitNonzero
<1> DEFINE v == InvMod(a % q, q)
<1>2. v \in Int /\ Cong(a * v, 1, q)
  <2>1. InvMod(a % q, q) \in 0..(q - 1) /\ Cong(a * InvMod(a % q, q), 1, q)
    BY <1>1, UnitOfResidue
  <2> QED
    BY <2>1
<1> HIDE DEF v
<1>3. Cong(d * v, (a * y) * v, q)
  <2>1. a * y \in Int /\ Cong(v, v, q)
    BY <1>2, CongRefl
  <2> DEFINE w == a * y
  <2>2. w \in Int /\ Cong(d, w, q)
    BY <2>1
  <2> HIDE DEF w
  <2>3. Cong(d * v, w * v, q)
    BY <1>2, <2>1, <2>2, CongAdd
  <2> QED
    BY <2>3 DEF w
<1>4. Cong((a * v) * y, 1 * y, q)
  <2> DEFINE w == a * v
  <2>1. w \in Int /\ Cong(w, 1, q) /\ Cong(y, y, q)
    BY <1>2, CongRefl
  <2> HIDE DEF w
  <2>2. Cong(w * y, 1 * y, q)
    BY <2>1, CongAdd
  <2> QED
    BY <2>2 DEF w
<1>5. (a * y) * v = (a * v) * y /\ 1 * y = y /\ d * v \in Int /\ (a * v) * y \in Int
  BY <1>2
<1> DEFINE e == d * v
           w == (a * v) * y
<1>6. e \in Int /\ w \in Int /\ Cong(e, w, q) /\ Cong(w, y, q)
  BY <1>3, <1>4, <1>5
<1> HIDE DEF e, w
<1>7. Cong(e, y, q)
  BY <1>6, CongTrans
<1>8. e % q = y % q
  BY <1>0, <1>6, <1>7, CongIff
<1> QED
  BY <1>8 DEF e, v, MulMod

\* The floor of a quotient, modulo one modulus.
LEMMA FloorCong ==
    ASSUME NEW z \in Nat, NEW d \in Nat, d > 0, NEW q \in Nat, q > 0
    PROVE  Cong(SubMod(z % q, (z % d) % q, q), d * (z \div d), q)
           /\ SubMod(z % q, (z % d) % q, q) \in Int
<1> DEFINE a == z % q  r == z % d  b == r % q
<1>1. r \in Int /\ r \in Nat /\ z \div d \in Int /\ z = (z \div d) * d + r
  BY Quotient
<1>2. a \in 0..(q - 1) /\ Cong(a, z, q)
  BY CongOfMod
<1> HIDE DEF r
<1>3. b \in 0..(q - 1) /\ Cong(b, r, q)
  BY <1>1, CongOfMod
<1> HIDE DEF a, b
<1>4. SubMod(a, b, q) \in 0..(q - 1) /\ Cong(SubMod(a, b, q), a - b, q)
  BY <1>2, <1>3, SubModCong
<1> DEFINE s == SubMod(a, b, q)  c == a - b  e == z - r
<1>5. /\ s \in Int /\ c \in Int /\ e \in Int /\ q \in Int
      /\ Cong(s, c, q) /\ e = d * (z \div d)
  BY <1>1, <1>2, <1>3, <1>4
<1>6. Cong(c, e, q)
  BY <1>1, <1>2, <1>3, CongAdd
<1> HIDE DEF s, c, e
<1>7. Cong(s, e, q)
  BY <1>5, <1>6, CongTrans
<1> QED
  BY <1>5, <1>7 DEF s, a, b, r

\* InvMod finds an inverse of a modulo t: t is a prime that does not divide a,
\* or a is 1 modulo t.
InvertsIn(a, t) ==
    InvMod(a % t, t) \in 0..(t - 1) /\ Cong(a * InvMod(a % t, t), 1, t)

\* The correction of a modulus switch: it makes z divisible by the last modulus
\* and the quotient congruent to z modulo t.
LEMMA CorrectionFacts ==
    ASSUME NEW b, IsBasis(b), Len(b) > 1,
           NEW t \in Nat, t > 1, InvertsIn(b[Len(b)], t),
           NEW z \in 0..(BasisProduct(b) - 1)
    PROVE  LET q == b[Len(b)]
               C == SwitchCorrection(Decompose(z, b), b, t)
           IN  /\ C \in 0..(q * t - 1)
               /\ Cong(z + C, 0, q)
               /\ Cong(z + C, z * q, t)
<1> DEFINE q == b[Len(b)]
           r == Decompose(z, b)
           l == z % q
           a1 == NegMod(l, q)
           ct == z % t
           u == (q - 1) % t
           target == MulMod(ct, u, t)
           a == a1 % t
           d == SubMod(target, a, t)
           k == MulMod(d, InvMod(q % t, t), t)
           C == SwitchCorrection(r, b, t)
<1>1. /\ b \in Seq(Nat) /\ Len(b) > 1 /\ Len(b) \in Nat
      /\ q \in Nat /\ q > 1 /\ q > 0
      /\ z \in Int /\ z \in Nat
      /\ t > 0 /\ t \in Nat
  <2>1. b \in Seq(Nat) /\ \A i \in 1..Len(b) : b[i] > 1
    BY DEF IsBasis
  <2>2. BasisProduct(b) \in Nat
    BY ProductFacts
  <2> QED
    BY <2>1, <2>2
<1>3. C = a1 + q * k
  <2>1. TrueValue(r, b) = z
    BY DecomposeOfValue
  <2>2. ExtendBasis(r, b, <<t>>)[1] = ct
    BY <2>1 DEF ExtendBasis, Decompose
  <2>3. Len(r) = Len(b) /\ r[Len(b)] = l
    BY <1>1 DEF Decompose
  <2> HIDE DEF r
  <2> QED
    BY <2>2, <2>3 DEF SwitchCorrection
<1>q. InvertsIn(q, t)
  OBVIOUS
<1> HIDE DEF r, C, q
<1>4. l \in 0..(q - 1) /\ Cong(z, l, q) /\ l \in Int
  <2>1. z % q \in 0..(q - 1) /\ Cong(z, z % q, q)
    BY <1>1, CongOfMod
  <2> QED
    BY <2>1
<1> HIDE DEF l
<1>5. a1 \in 0..(q - 1) /\ Cong(a1, 0 - l, q) /\ a1 \in Int
  <2>1. NegMod(l, q) \in 0..(q - 1) /\ Cong(NegMod(l, q), 0 - l, q)
    BY <1>1, <1>4, NegModCong
  <2> QED
    BY <2>1
<1> HIDE DEF a1
<1>6. /\ ct \in Int /\ Cong(ct, z, t)
      /\ u \in Int /\ Cong(u, q - 1, t) /\ q - 1 \in Int
      /\ a \in Int /\ a \in 0..(t - 1) /\ Cong(a, a1, t)
  <2>1. z % t \in 0..(t - 1) /\ Cong(z % t, z, t)
    BY <1>1, CongOfMod
  <2>2. q - 1 \in Int
    BY <1>1
  <2>3. (q - 1) % t \in 0..(t - 1) /\ Cong((q - 1) % t, q - 1, t)
    BY <1>1, <2>2, CongOfMod
  <2>4. a1 % t \in 0..(t - 1) /\ Cong(a1 % t, a1, t)
    BY <1>1, <1>5, CongOfMod
  <2> QED
    BY <2>1, <2>2, <2>3, <2>4
<1> HIDE DEF ct, u, a
<1>7. target \in 0..(t - 1) /\ Cong(target, z * (q - 1), t)
  <2> DEFINE w == ct * u  e == z * (q - 1)  f == q - 1
  <2>1. w \in Int /\ e \in Int /\ f \in Int /\ t \in Int /\ target = w % t
    BY <1>1, <1>6 DEF MulMod
  <2>2. Cong(w, e, t)
    <3>1. Cong(u, f, t)
      BY <1>6
    <3> HIDE DEF f
    <3>2. Cong(ct * u, z * f, t)
      BY <1>1, <1>6, <2>1, <3>1, CongAdd
    <3> QED
      BY <3>2 DEF f
  <2> HIDE DEF w, e
  <2>3. w % t \in 0..(t - 1) /\ Cong(w % t, w, t) /\ w % t \in Int
    <3>1. w % t \in 0..(t - 1) /\ Cong(w % t, w, t)
      BY <1>1, <2>1, CongOfMod
    <3> QED
      BY <3>1
  <2>4. Cong(w % t, e, t)
    BY <2>1, <2>2, <2>3, CongTrans
  <2> QED
    BY <2>1, <2>3, <2>4 DEF e
<1> HIDE DEF target
<1>8. d \in Int /\ Cong(d, target - a, t)
  <2>1. SubMod(target, a, t) \in 0..(t - 1) /\ Cong(SubMod(target, a, t), target - a, t)
    BY <1>1, <1>6, <1>7, SubModCong
  <2> QED
    BY <2>1
<1> HIDE DEF d
<1>9. k \in 0..(t - 1) /\ k \in Int /\ Cong(q * k, d, t)
  <2> DEFINE v == InvMod(q % t, t)
  <2>2. v \in 0..(t - 1) /\ Cong(q * v, 1, t)
    BY <1>q DEF InvertsIn
  <2>3. v \in Int /\ d * v \in Int /\ k = (d * v) % t
    BY <1>8, <2>2 DEF MulMod
  <2> HIDE DEF v
  <2> DEFINE w == d * v
  <2>4. w \in Int /\ k = w % t
    BY <2>3
  <2> HIDE DEF w, k
  <2>5. k \in 0..(t - 1) /\ Cong(k, w, t)
    BY <1>1, <2>4, CongOfMod
  <2>6. k \in Int /\ q \in Int /\ t \in Int /\ Cong(q, q, t)
    BY <1>1, <2>5, CongRefl
  <2>7. Cong(q * k, q * w, t)
    BY <2>4, <2>5, <2>6, CongAdd
  <2>8. Cong((q * v) * d, 1 * d, t)
    <3> DEFINE e == q * v
    <3>1. e \in Int /\ Cong(e, 1, t) /\ Cong(d, d, t)
      BY <1>8, <2>2, <2>3, <2>6, CongRefl
    <3> HIDE DEF e
    <3>2. Cong(e * d, 1 * d, t)
      BY <1>8, <2>6, <3>1, CongAdd
    <3> QED
      BY <3>2 DEF e
  <2>9. (q * v) * d = q * w /\ 1 * d = d /\ q * w \in Int /\ q * k \in Int
    <3>1. q \in Int /\ v \in Int /\ d \in Int /\ k \in Int
      BY <1>8, <2>3, <2>6
    <3> QED
      BY <3>1 DEF w
  <2> DEFINE e == q * k
             f == q * w
  <2>10. e \in Int /\ f \in Int /\ Cong(e, f, t) /\ Cong(f, d, t)
    BY <2>7, <2>8, <2>9
  <2> HIDE DEF e, f
  <2>11. Cong(e, d, t)
    BY <1>8, <2>6, <2>10, CongTrans
  <2> QED
    BY <2>5, <2>6, <2>11 DEF e
<1> HIDE DEF k
<1>10. C \in 0..(q * t - 1)
  <2>1. q * k >= 0 /\ q * k <= q * (t - 1) /\ q * (t - 1) = q * t - q
    <3>1. q \in Nat /\ k \in Nat /\ k <= t - 1 /\ t \in Nat
      BY <1>1, <1>9
    <3> QED
      BY <3>1
  <2> DEFINE qk == q * k  qt == q * t
  <2>2. /\ qk \in Int /\ qt \in Int /\ qk >= 0 /\ qk <= qt - q /\ C = a1 + qk
        /\ a1 \in 0..(q - 1) /\ q \in Nat
    BY <1>1, <1>3, <1>5, <1>9, <2>1
  <2> HIDE DEF qk, qt
  <2>3. C \in 0..(qt - 1)
    BY <2>2
  <2> QED
    BY <2>3 DEF qt
<1>11. Cong(z + C, 0, q)
  <2>1. PICK i \in Int : z = l + i * q
    BY <1>4 DEF Cong
  <2>2. PICK j \in Int : a1 = (0 - l) + j * q
    BY <1>5 DEF Cong
  <2>3. z + C = 0 + (i + j + k) * q /\ i + j + k \in Int
    BY <1>1, <1>3, <1>4, <1>9, <2>1, <2>2
  <2> QED
    BY <2>3 DEF Cong
<1>12. Cong(z + C, z * q, t)
  <2>1. PICK i \in Int : a = a1 + i * t
    BY <1>6 DEF Cong
  <2>2. PICK j \in Int : target = z * (q - 1) + j * t
    BY <1>7 DEF Cong
  <2>3. PICK m \in Int : d = (target - a) + m * t
    BY <1>8 DEF Cong
  <2>4. PICK n \in Int : q * k = d + n * t
    BY <1>9 DEF Cong
  <2>5. z * (q - 1) = z * q - z
    BY <1>1
  <2>6. z + C = z * q + (j - i + m + n) * t /\ j - i + m + n \in Int
    BY <1>1, <1>3, <1>5, <2>1, <2>2, <2>3, <2>4, <2>5
  <2> QED
    BY <2>6 DEF Cong
<1> QED
  BY <1>10, <1>11, <1>12 DEF C, r, q

\* modulus_switch_down finds the integer (z + correction) / q, for the last
\* modulus q: right modulo t, and at most t above z / q.
LEMMA SwitchDown ==
    ASSUME NEW b, IsBasis(b), Len(b) > 1,
           NEW t \in Nat, t > 1, InvertsIn(b[Len(b)], t),
           NEW z \in 0..(BasisProduct(b) - 1)
    PROVE  LET f == DropLast(b)
               p == b[Len(b)]
           IN
           /\ IsBasis(f) /\ f \in Seq(Nat) /\ Len(f) = Len(b) - 1
           /\ \A j \in 1..Len(f) : f[j] = b[j]
           /\ p \in Nat /\ p > 1 /\ b = f \o <<p>>
           /\ \E y \in Int :
                 /\ ModulusSwitchDown(Decompose(z, b), b, t) = Decompose(y, f)
                 /\ p * y - z \in 0..(p * t - 1)
                 /\ y % t = z % t
<1> DEFINE f == DropLast(b)
           p == b[Len(b)]
           C == SwitchCorrection(Decompose(z, b), b, t)
<1>1. /\ b \in Seq(Nat) /\ f \in Seq(Nat) /\ IsBasis(f)
      /\ Len(b) \in Nat /\ Len(b) > 1 /\ Len(f) = Len(b) - 1
      /\ \A j \in 1..Len(f) : f[j] = b[j]
      /\ p \in Nat /\ p > 1 /\ p = b[Len(b)] /\ b = f \o <<p>>
      /\ t > 0 /\ t \in Nat /\ z \in Int /\ z \in Nat
  <2>1. b \in Seq(Nat) /\ \A i \in 1..Len(b) : b[i] > 1
    BY DEF IsBasis
  <2>2. /\ f \in Seq(Nat) /\ Len(f) = Len(b) - 1
        /\ \A j \in 1..Len(f) : f[j] = b[j]
        /\ p \in Nat /\ p > 1 /\ b = f \o <<p>> /\ <<p>> \in Seq(Nat)
    <3> DEFINE n == Len(b)
    <3>0. f = SubSeq(b, 1, n - 1) /\ p = b[n]
      BY DEF DropLast
    <3>1. n = Len(b) /\ n \in Nat /\ n > 1 /\ n - 1 \in Nat
      BY <2>1
    <3> HIDE DEF f, p, n
    <3>2. f \in Seq(Nat) /\ Len(f) = n - 1 /\ \A j \in 1..(n - 1) : f[j] = b[j]
      BY <2>1, <3>0, <3>1
    <3>3. p \in Nat /\ p > 1 /\ <<p>> \in Seq(Nat)
      BY <2>1, <3>0, <3>1
    <3>4. b = f \o <<p>>
      BY <2>1, <3>0, <3>1, <3>2, <3>3
    <3> QED
      BY <3>1, <3>2, <3>3, <3>4
  <2> HIDE DEF f, p
  <2>3. IsBasis(f)
    BY <2>2, BasisParts
  <2>4. BasisProduct(b) \in Nat
    BY ProductFacts
  <2>5. p = b[Len(b)] /\ t > 0
    BY DEF p
  <2>6. z \in Int /\ z \in Nat
    BY <2>4
  <2> QED
    BY <2>1, <2>2, <2>3, <2>5, <2>6
<1>2. /\ C \in 0..(p * t - 1)
      /\ Cong(z + C, 0, p)
      /\ Cong(z + C, z * p, t)
  BY <1>1, CorrectionFacts
<1>f. DOMAIN f = 1..(Len(b) - 1)
  BY <1>1
<1>p. InvertsIn(p, t) /\ f = DropLast(b)
  OBVIOUS
<1> HIDE DEF C, f, p
<1>3. PICK y \in Int : z + C = 0 + y * p
  BY <1>2 DEF Cong
<1>5. ASSUME NEW j \in 1..Len(f)
      PROVE  ModulusSwitchDown(Decompose(z, b), b, t)[j] = y % f[j]
  <2> DEFINE q == f[j]
             r == z % q
             c == C % q
             d == AddMod(r, c, q)
  <2>1. q \in Nat /\ q > 1 /\ q > 0 /\ Inverts(q) /\ q \in Int
    BY <1>1 DEF IsBasis
  <2>2. IsUnit(p, q)
    <3>1. j \in 1..Len(b) /\ Len(b) \in 1..Len(b) /\ j # Len(b)
      <4>1. Len(b) \in Nat /\ Len(b) > 1
        BY <1>1
      <4> QED
        BY <1>1, <4>1
    <3>2. IsUnit(b[Len(b)], b[j])
      BY <3>1, BasisUnits
    <3> QED
      BY <1>1, <3>2
  <2>3. ModulusSwitchDown(Decompose(z, b), b, t)[j]
            = MulMod(d, InvMod(p % q, q), q)
    <3>1. j \in 1..(Len(b) - 1) /\ b[j] = q /\ Decompose(z, b)[j] = r
      BY <1>1 DEF Decompose
    <3> HIDE DEF r, q
    <3>2. b[Len(b)] = p
      BY <1>1
    <3> QED
      BY <3>1, <3>2 DEF ModulusSwitchDown, C
  <2> HIDE DEF q
  <2>4. d \in Int /\ Cong(d, p * y, q)
    <3>1. r \in Int /\ c \in Int /\ Cong(r, z, q) /\ Cong(c, C, q) /\ C \in Int /\ z \in Int
      <4>1. C \in Int /\ z \in Int
        BY <1>1, <1>2
      <4>2. z % q \in 0..(q - 1) /\ Cong(z % q, z, q)
        BY <2>1, <4>1, CongOfMod
      <4>3. C % q \in 0..(q - 1) /\ Cong(C % q, C, q)
        BY <2>1, <4>1, CongOfMod
      <4> QED
        BY <4>1, <4>2, <4>3
    <3> HIDE DEF r, c
    <3> DEFINE s == r + c  e == z + C
    <3>2. s \in Int /\ e \in Int /\ e = p * y /\ d = s % q
      <4>1. d = (r + c) % q
        BY DEF AddMod
      <4>2. z \in Int /\ C \in Int /\ z + C = p * y
        <5>0. z + C = 0 + y * p /\ p \in Int
          BY <1>1, <1>3
        <5> HIDE DEF C, p
        <5>1. z + C = 0 + y * p /\ y * p = p * y /\ y * p \in Int
          BY <5>0
        <5> QED
          BY <3>1, <5>1
      <4> HIDE DEF d
      <4> QED
        BY <3>1, <4>1, <4>2
    <3>3. Cong(s, e, q)
      BY <2>1, <3>1, CongAdd
    <3> HIDE DEF s, e, d
    <3>4. d \in 0..(q - 1) /\ Cong(d, s, q)
      BY <2>1, <3>2, CongOfMod
    <3>5. d \in Int
      BY <3>4
    <3>6. Cong(d, e, q)
      BY <2>1, <3>2, <3>3, <3>4, <3>5, CongTrans
    <3> QED
      BY <3>2, <3>5, <3>6
  <2> HIDE DEF d
  <2>5. MulMod(d, InvMod(p % q, q), q) = y % q
    <3>1. p \in Int
      BY <1>1
    <3> QED
      BY <2>1, <2>2, <2>4, <3>1, DivideResidue
  <2> QED
    BY <2>3, <2>5 DEF q
<1>6. ModulusSwitchDown(Decompose(z, b), b, t) = Decompose(y, f)
  <2>1. DOMAIN f = 1..Len(f) /\ Len(f) = Len(b) - 1
    BY <1>1
  <2> QED
    BY <1>5, <2>1 DEF ModulusSwitchDown, Decompose
<1>9. y % t = z % t
  <2> DEFINE v == InvMod(p % t, t)
  <2>1. p * y \in Int /\ z * p = p * z /\ z + C = p * y /\ p \in Int
    BY <1>1, <1>3
  <2>2. Cong(p * y, p * z, t)
    BY <1>2, <2>1
  <2>3. IsUnit(p, t)
    <3>1. v \in Int /\ Cong(p * v, 1, t)
      <4>1. InvertsIn(p, t)
        BY <1>p
      <4> QED
        BY <1>1, <4>1 DEF InvertsIn
    <3> QED
      BY <3>1 DEF IsUnit
  <2>4. Cong(y, z, t)
    <3>1. p \in Int /\ t \in Int /\ z \in Int /\ y \in Int
      BY <1>1
    <3> QED
      BY <2>2, <2>3, <3>1, UnitCancel
  <2> QED
    BY <1>1, <2>4, CongIff
<1>10. p * y - z = C
  <2>1. z \in Int /\ C \in Int /\ z + C = p * y
    BY <1>1, <1>2, <1>3
  <2> DEFINE e == p * y
  <2>2. z + C = e
    BY <2>1
  <2> HIDE DEF C, e
  <2>3. e - z = C
    BY <2>1, <2>2
  <2> QED
    BY <2>3 DEF e
<1> QED
  BY <1>1, <1>2, <1>6, <1>9, <1>10 DEF f, p

-----------------------------------------------------------------------------
(* Scaling with rounding.                                                   *)

\* The rounded quotient is off by at most half.
LEMMA RoundScaledNear ==
    ASSUME NEW a \in Nat, NEW t \in Nat, NEW Q \in Nat, Q > 0
    PROVE  /\ RoundScaled(a, t, Q) \in Nat
           /\ 2 * (a * t - RoundScaled(a, t, Q) * Q) < Q
           /\ -Q <= 2 * (a * t - RoundScaled(a, t, Q) * Q)
<1> DEFINE s == a * t
           k == s \div Q
           r == s % Q
           up == IF 2 * r >= Q THEN 1 ELSE 0
<1>1. s \in Nat
  OBVIOUS
<1>2. RoundScaled(a, t, Q) = k + up
  BY DEF RoundScaled
<1> HIDE DEF s
<1>3. k \in Nat /\ r \in 0..(Q - 1) /\ s = k * Q + r
  <2>1. s \in Int
    BY <1>1
  <2>2. k \in Int /\ r \in 0..(Q - 1) /\ s = k * Q + r
    BY <2>1, Quotient
  <2>3. k >= 0
    BY <1>1
  <2> QED
    BY <2>2, <2>3
<1> DEFINE m == k * Q
<1>4. m \in Int /\ s = m + r /\ (k + 1) * Q = m + Q /\ (k + 0) * Q = m
  BY <1>3
<1> HIDE DEF k, m
<1>5. CASE 2 * r >= Q
  <2>1. up = 1
    BY <1>5
  <2> HIDE DEF up, r
  <2>2. s - (k + up) * Q = r - Q
    BY <1>3, <1>4, <2>1
  <2> QED
    BY <1>2, <1>3, <1>5, <2>1, <2>2 DEF s
<1>6. CASE ~(2 * r >= Q)
  <2>1. up = 0
    BY <1>6
  <2> HIDE DEF up, r
  <2>2. s - (k + up) * Q = r
    BY <1>3, <1>4, <2>1
  <2> QED
    BY <1>2, <1>3, <1>6, <2>1, <2>2 DEF s
<1> QED
  BY <1>5, <1>6

\* The rounded value of c * t / Q, the sign put back.
Rounded(c, t, Q) == IF c < 0 THEN -RoundScaled(-c, t, Q) ELSE RoundScaled(c, t, Q)

\* Rounded is within a half of the quotient.
LEMMA RoundedNear ==
    ASSUME NEW c \in Int, NEW t \in Nat, NEW Q \in Nat, Q > 0
    PROVE  /\ Rounded(c, t, Q) \in Int
           /\ 2 * (c * t - Rounded(c, t, Q) * Q) <= Q
           /\ -Q <= 2 * (c * t - Rounded(c, t, Q) * Q)
<1>1. CASE c < 0
  <2> DEFINE a == -c  R == RoundScaled(a, t, Q)
  <2>1. a \in Nat /\ c = -a
    BY <1>1
  <2> HIDE DEF a
  <2>2. R \in Nat /\ 2 * (a * t - R * Q) < Q /\ -Q <= 2 * (a * t - R * Q)
    BY <2>1, RoundScaledNear
  <2>3. Rounded(c, t, Q) = -R
    BY <1>1 DEF Rounded, a
  <2> HIDE DEF R
  <2> DEFINE u == a * t  v == R * Q
  <2>4. u \in Int /\ v \in Int /\ c * t = -u /\ (-R) * Q = -v
    BY <2>1, <2>2
  <2>5. 2 * (u - v) < Q /\ -Q <= 2 * (u - v)
    BY <2>2
  <2> HIDE DEF u, v
  <2> QED
    BY <2>2, <2>3, <2>4, <2>5
<1>2. CASE ~(c < 0)
  <2> DEFINE R == RoundScaled(c, t, Q)
  <2>1. R \in Nat /\ 2 * (c * t - R * Q) < Q /\ -Q <= 2 * (c * t - R * Q)
    BY <1>2, RoundScaledNear
  <2>2. Rounded(c, t, Q) = R
    BY <1>2 DEF Rounded
  <2> HIDE DEF R
  <2> DEFINE u == c * t  v == R * Q
  <2>3. u \in Int /\ v \in Int /\ 2 * (u - v) < Q /\ -Q <= 2 * (u - v)
    BY <1>2, <2>1
  <2> HIDE DEF u, v
  <2> QED
    BY <2>1, <2>2, <2>3 DEF u, v
<1> QED
  BY <1>1, <1>2

\* ScaledResidue is the residue of the rounded value.
LEMMA ScaledResidueIs ==
    ASSUME NEW c \in Int, NEW t \in Nat, NEW Q \in Nat, Q > 0, NEW m \in Nat, m > 0
    PROVE  ScaledResidue(c, t, Q, m) = Rounded(c, t, Q) % m
<1>1. CASE c < 0
  <2> DEFINE R == RoundScaled(-c, t, Q)  r == R % m
  <2>1. R \in Nat /\ R \in Int
    BY <1>1, RoundScaledNear
  <2>2. ScaledResidue(c, t, Q, m) = NegMod(r, m) /\ Rounded(c, t, Q) = -R
    BY <1>1 DEF ScaledResidue, Rounded
  <2> HIDE DEF R
  <2>3. r \in 0..(m - 1) /\ r \in Int /\ Cong(R, r, m)
    <3>1. R % m \in 0..(m - 1) /\ Cong(R, R % m, m)
      BY <2>1, CongOfMod
    <3> QED
      BY <3>1
  <2> HIDE DEF r
  <2> DEFINE s == NegMod(r, m)  e == 0 - r  f == 0 - R
  <2>4. s \in 0..(m - 1) /\ s \in Int /\ Cong(s, e, m)
    <3>1. NegMod(r, m) \in 0..(m - 1) /\ Cong(NegMod(r, m), 0 - r, m)
      BY <2>3, NegModCong
    <3> QED
      BY <3>1
  <2>5. e \in Int /\ f \in Int /\ Cong(f, e, m) /\ m \in Int
    <3>1. Cong(0, 0, m) /\ m \in Int
      BY CongRefl
    <3>2. Cong(0 - R, 0 - r, m)
      BY <2>1, <2>3, <3>1, CongAdd
    <3> QED
      BY <2>1, <2>3, <3>1, <3>2
  <2>6. f = -R
    BY <2>1
  <2> HIDE DEF s, e, f
  <2>7. Cong(s, f, m)
    BY <2>4, <2>5, CongSym, CongTrans
  <2>8. s % m = f % m /\ s % m = s
    BY <2>4, <2>5, <2>7, CongIff
  <2> QED
    BY <2>2, <2>6, <2>8 DEF s
<1>2. CASE ~(c < 0)
  BY <1>2 DEF ScaledResidue, Rounded
<1> QED
  BY <1>1, <1>2

\* A number nearer to a multiple of Q than half is rounded to it.
LEMMA RoundedUnique ==
    ASSUME NEW Q \in Nat, Q > 0, NEW s \in Int, NEW w \in Int, NEW R \in Int,
           2 * (s - w * Q) < Q, -Q < 2 * (s - w * Q),
           2 * (s - R * Q) <= Q, -Q <= 2 * (s - R * Q)
    PROVE  R = w
<1> DEFINE u == w * Q  v == R * Q
<1>1. u \in Int /\ v \in Int /\ u - v < Q /\ -Q < u - v
  BY DEF u, v
<1>2. u - v = (w - R) * Q
  OBVIOUS
<1> HIDE DEF u, v
<1>3. CASE w - R >= 1
  <2>1. (w - R) * Q >= 1 * Q
    BY <1>3
  <2> QED
    BY <1>1, <1>2, <2>1
<1>4. CASE w - R <= -1
  <2>1. (w - R) * Q <= (-1) * Q
    BY <1>4
  <2> QED
    BY <1>1, <1>2, <2>1
<1> QED
  BY <1>3, <1>4

\* Power is repeated multiplication.
LEMMA PowerStep ==
    ASSUME NEW c \in Int
    PROVE  /\ Power(c, 0) = 1
           /\ \A n \in Nat : Power(c, n) \in Int /\ Power(c, n + 1) = Power(c, n) * c
<1> DEFINE s(n) == [i \in 1..n |-> c]
<1>1. \A n \in Nat : s(n) \in Seq(Int) /\ Len(s(n)) = n
  OBVIOUS
<1>2. \A n \in Nat : Power(c, n) = BasisProduct(s(n))
  BY DEF Power
<1>3. Power(c, 0) = 1
  <2>1. PICK p \in [0..Len(s(0)) -> Int] : p[0] = 1 /\ BasisProduct(s(0)) = p[Len(s(0))]
    BY <1>1, ProductSteps
  <2> QED
    BY <1>1, <1>2, <2>1
<1>4. ASSUME NEW n \in Nat PROVE Power(c, n) \in Int /\ Power(c, n + 1) = Power(c, n) * c
  <2>1. s(n + 1) = s(n) \o <<c>>
    BY <1>1
  <2>2. <<c>> \in Seq(Int) /\ s(n) \in Seq(Int)
    BY <1>1
  <2> HIDE DEF s
  <2>3. BasisProduct(s(n + 1)) = BasisProduct(s(n)) * BasisProduct(<<c>>) /\ BasisProduct(s(n)) \in Int
    BY <2>1, <2>2, ProductConcat
  <2> QED
    BY <1>2, <2>3, ProductSingle
<1> QED
  BY <1>3, <1>4
=============================================================================
