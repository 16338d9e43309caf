-------------------------------- MODULE Words --------------------------------
(***************************************************************************)
(* Reduction on machine words: phantom-ring/src/reduce/barrett.rs and      *)
(* montgomery.rs.  A word holds WordBits bits (64 in the code) and a       *)
(* double word, the code's u128, twice as many.                            *)
(***************************************************************************)
EXTENDS Residues

CONSTANT WordBits

ASSUME WordBitsAssumption == WordBits \in Nat /\ WordBits > 1

\* Values a word, and a double word, can hold.
Word == 2^WordBits
DoubleWord == Word * Word

LowWord(n) == n % Word
HighWord(n) == n \div Word

SubtractOnce(r, m) == IF r >= m THEN r - m ELSE r

-----------------------------------------------------------------------------
\* barrett.rs

Mu(m) == DoubleWord \div m

\* Mutated form of MulWideHigh: the carry out of the first row is lost.
MulWideHighNoCarry(a, b) ==
    LET p00 == LowWord(a) * LowWord(b)
        p01 == LowWord(a) * HighWord(b) + HighWord(p00)
        p10 == HighWord(a) * LowWord(b) + LowWord(p01)
    IN  HighWord(a) * HighWord(b) + HighWord(p10)

\* mul_wide_128: the high double word of a * b from four partial products.  The
\* low word of a makes the first row, its high word is added to it, and each
\* sum passes its high word on as the carry; the word above a finished row is
\* still empty, so the last carry goes nowhere else.
MulWideHigh(a, b) ==
    LET p00 == LowWord(a) * LowWord(b)
        p01 == LowWord(a) * HighWord(b) + HighWord(p00)
        p10 == HighWord(a) * LowWord(b) + LowWord(p01)
        p11 == HighWord(a) * HighWord(b) + HighWord(p01) + HighWord(p10)
    IN  p11

\* reduce: the quotient is estimated from the truncated reciprocal Mu, read as
\* a single word, and the remainder corrected twice.  Only right for
\* value < m * 2^WordBits, a debug assertion of the code.
BarrettReduce(value, m) ==
    LET q3 == LowWord(MulWideHigh(value, Mu(m)))
    IN  SubtractOnce(SubtractOnce(value - q3 * m, m), m)

-----------------------------------------------------------------------------
\* montgomery.rs

\* MONTGOMERY_MAX_MODULUS: one bit below the word.
MontgomeryMax == 2^(WordBits - 1)

\* neg_inv_mod_pow2_64: every Newton step doubles the low bits that are right;
\* the code takes six for 64 bits.
NegInvModWord(m) ==
    LET newton[bits \in Nat] ==
            IF bits = 1 THEN LowWord(m)
            ELSE LET n == newton[(bits + 1) \div 2]
                 IN  LowWord(n * LowWord(2 - m * n))
    IN  LowWord(-newton[WordBits])

\* Mutated form of Redc: t2 keeps no bit above the double word, and the last
\* subtraction is left out.
RedcUncorrected(t, m) ==
    HighWord((t + LowWord(LowWord(t) * NegInvModWord(m)) * m) % DoubleWord)

\* redc: t / 2^WordBits modulo m for t < m * 2^WordBits.  The sum t2 is a u128:
\* it is the bound on m that keeps it from wrapping.
Redc(t, m) ==
    LET u == LowWord(LowWord(t) * NegInvModWord(m))
        t2 == (t + u * m) % DoubleWord
    IN  SubtractOnce(HighWord(t2), m)

R2(m) == ((Word % m) * (Word % m)) % m

ToMontgomery(a, m) == Redc(a * R2(m), m)
FromMontgomery(a, m) == Redc(a, m)
MulMontgomery(a, b, m) == Redc(a * b, m)

\* mul: into Montgomery form, the product, and back.
MontgomeryMul(a, b, m) ==
    FromMontgomery(MulMontgomery(ToMontgomery(a, m), ToMontgomery(b, m), m), m)
=============================================================================
