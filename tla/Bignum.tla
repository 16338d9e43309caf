-------------------------------- MODULE Bignum --------------------------------
(***************************************************************************)
(* BigUint of phantom-ring/src/bignum.rs: a number is a sequence of words, *)
(* the least significant first, without a zero word at the end.  CRT       *)
(* reconstruction and BFV's rescaling compute with it; Rns uses TLA+       *)
(* integers instead, and RingCases relates the two.                        *)
(***************************************************************************)
EXTENDS Words, Sequences, FiniteSets
LOCAL INSTANCE FiniteSetsExt

\* The number a sequence of limbs stands for.
Value(limbs) ==
    LET from[i \in 1..(Len(limbs) + 1)] ==
            IF i > Len(limbs) THEN 0 ELSE limbs[i] + Word * from[i + 1]
    IN  from[1]

Limb(a, i) == IF i \in DOMAIN a THEN a[i] ELSE 0

Normalized(a) == SubSeq(a, 1, Max({0} \union {i \in DOMAIN a : a[i] # 0}))

FromWord(w) == IF w = 0 THEN <<>> ELSE <<w>>

ShlLimbs(a, n) == IF a = <<>> THEN <<>> ELSE [i \in 1..n |-> 0] \o a

\* Mutated form of BigLess: decided by the least significant limb that differs.
BigLessLowFirst(a, b) ==
    \/ Len(a) < Len(b)
    \/ /\ Len(a) = Len(b)
       /\ \E i \in DOMAIN a : a[i] < b[i] /\ \A j \in 1..(i - 1) : a[j] = b[j]

\* cmp: by length, then from the most significant limb.
BigLess(a, b) ==
    \/ Len(a) < Len(b)
    \/ /\ Len(a) = Len(b)
       /\ \E i \in DOMAIN a : a[i] < b[i] /\ \A j \in (i + 1)..Len(a) : a[j] = b[j]

\* The loop of add and mul_u64 over n limbs: sums[i], what limb i comes to
\* without carries, the carry of the limb below added; the last carry is pushed.
PropagateCarries(sums, n) ==
    LET total[i \in 0..n] ==
            IF i = 0 THEN 0 ELSE sums[i] + HighWord(total[i - 1])
        limbs == [i \in 1..n |-> LowWord(total[i])]
    IN  Normalized(Append(limbs, HighWord(total[n])))

BigAdd(a, b) ==
    LET n == Max({Len(a), Len(b)})
    IN  PropagateCarries([i \in 1..n |-> Limb(a, i) + Limb(b, i)], n)

MulWord(a, scalar) ==
    PropagateCarries([i \in DOMAIN a |-> a[i] * scalar], Len(a))

\* sub: only right for a >= b, as in the code.
BigSub(a, b) ==
    LET borrow[i \in 0..Len(a)] ==
            IF i > 0 /\ a[i] - Limb(b, i) - borrow[i - 1] < 0 THEN 1 ELSE 0
    IN  Normalized([i \in DOMAIN a |-> LowWord(a[i] - Limb(b, i) - borrow[i - 1])])

\* divmod_u64: from the most significant limb down.
DivmodWord(a, divisor) ==
    LET n == Len(a)
        rem[i \in 1..(n + 1)] ==
            IF i = n + 1 THEN 0 ELSE (rem[i + 1] * Word + a[i]) % divisor
    IN  [quotient |-> Normalized([i \in DOMAIN a |->
                                     (rem[i + 1] * Word + a[i]) \div divisor]),
         remainder |-> FromWord(rem[1])]

BitLength(a) ==
    IF a = <<>> THEN 0
    ELSE (Len(a) - 1) * WordBits + Max({n \in 1..WordBits : a[Len(a)] >= 2^(n - 1)})

BitAt(a, n) == (Limb(a, n \div WordBits + 1) \div 2^(n % WordBits)) % 2

\* shl: whole limbs first, then the bits of each limb and the carry below it.
Shl(a, bits) ==
    LET shift == bits % WordBits
        carry(i) == Limb(a, i) \div 2^(WordBits - shift)
    IN  IF a = <<>> \/ bits = 0 THEN a
        ELSE Normalized([i \in 1..(bits \div WordBits) |-> 0]
                         \o [i \in 1..(Len(a) + 1) |->
                                LowWord(Limb(a, i) * 2^shift) + carry(i - 1)])

\* One bit of divmod's long division, from the most significant one down; ones
\* are the bits of the quotient that are set.
DivmodBit(a, divisor, bit, acc) ==
    LET shifted == Shl(acc.remainder, 1)
        r == IF BitAt(a, bit) = 1 THEN BigAdd(shifted, FromWord(1)) ELSE shifted
    IN  IF BigLess(r, divisor)
        THEN [ones |-> acc.ones, remainder |-> r]
        ELSE [ones |-> acc.ones \union {bit}, remainder |-> BigSub(r, divisor)]

\* divmod
Divmod(a, divisor) ==
    LET n == BitLength(a)
        down[bit \in 0..n] ==
            IF bit = n THEN [ones |-> {}, remainder |-> <<>>]
            ELSE DivmodBit(a, divisor, bit, down[bit + 1])
        limb(i) == SumSet({2^(bit % WordBits) :
                              bit \in {o \in down[0].ones : o \div WordBits = i - 1}})
    IN  IF BigLess(a, divisor) THEN [quotient |-> <<>>, remainder |-> a]
        ELSE IF Len(divisor) = 1 THEN DivmodWord(a, divisor[1])
        ELSE [quotient |-> Normalized([i \in DOMAIN a |-> limb(i)]),
              remainder |-> down[0].remainder]
=============================================================================
