--------------------------------- MODULE Rns ---------------------------------
(***************************************************************************)
(* The residue number system of phantom-ring/src/rns, one coefficient at a *)
(* time: a basis is a sequence of distinct odd primes, a residue vector    *)
(* has one residue for each of them.  The code's loops over coefficients   *)
(* repeat these operators.                                                 *)
(*                                                                         *)
(* Exact big integers (bignum.rs) are TLA+ integers.                       *)
(***************************************************************************)
EXTENDS Residues, SequencesExt

BasisProduct(basis) == FoldLeft(LAMBDA acc, q : acc * q, 1, basis)

\* b to the power n.
Power(b, n) == BasisProduct([i \in 1..n |-> b])

SumOf(s) == FoldLeft(LAMBDA acc, n : acc + n, 0, s)

\* decompose_value, embed_centered_coeffs: % is Euclidean for negative x too.
Decompose(x, basis) == [j \in DOMAIN basis |-> x % basis[j]]

Hat(basis, i) == BasisProduct(basis) \div basis[i]

\* Mutated form of HatInverse: the plain basis constant, not inverted.
HatInverseSkipped(basis, i) == 1

HatInverse(basis, i) == InvMod(Hat(basis, i) % basis[i], basis[i])

\* The sum of s, reduced after every step.
ModSum(s, Q) == FoldLeft(LAMBDA acc, n : AddMod(acc, n, Q), 0, s)

CrtTerm(r, basis, i) == Hat(basis, i) * MulMod(r[i], HatInverse(basis, i), basis[i])

\* reconstruct_true_values: each term is below Q, and so is the sum after every
\* step.
TrueValue(r, basis) ==
    ModSum([i \in DOMAIN basis |-> CrtTerm(r, basis, i)], BasisProduct(basis))

\* reconstruct_centered_values: the representative in (-Q/2, Q/2].
Centre(x, Q) == IF 2 * x > Q THEN x - Q ELSE x

\* Without reconstruct_centered_values' CrtOverflow: a product of moduli that
\* does not fit an i128 is outside the parameters the code is for.
CentredValue(r, basis) == Centre(TrueValue(r, basis), BasisProduct(basis))

ExtendBasis(r, from, to) == Decompose(TrueValue(r, from), to)

ExtendBasisCentred(r, from, to) == Decompose(CentredValue(r, from), to)

\* crt_lift_constant
CrtLiftConstant(basis, i, targets) ==
    [j \in DOMAIN targets |->
        MulMod(Hat(basis, i) % targets[j], HatInverse(basis, i), targets[j])]

\* floor_divide_residues: BFV's Delta for divisor = t.
FloorDivideResidues(basis, divisor) ==
    Decompose(BasisProduct(basis) \div divisor, basis)

-----------------------------------------------------------------------------
\* rescale.rs

DropLast(r) == SubSeq(r, 1, Len(r) - 1)

\* Mutated form of ModDown: the part below P is extended centred, which rounds.
ModDownRounding(r, qs, ps) ==
    LET fromP == ExtendBasisCentred(SubSeq(r, Len(qs) + 1, Len(r)), ps, qs)
    IN  [j \in DOMAIN qs |->
            MulMod(SubMod(r[j], fromP[j], qs[j]),
                   InvMod(BasisProduct(ps) % qs[j], qs[j]), qs[j])]

\* mod_down: r is over qs \o ps; divides by the product of ps, rounding down.
ModDown(r, qs, ps) ==
    LET fromP == ExtendBasis(SubSeq(r, Len(qs) + 1, Len(r)), ps, qs)
        P == BasisProduct(ps)
    IN  [j \in DOMAIN qs |->
            MulMod(SubMod(r[j], fromP[j], qs[j]), InvMod(P % qs[j], qs[j]), qs[j])]

\* Mutated form of SwitchCorrection: divisible by the last modulus, and no more.
SwitchCorrectionAnyResidue(r, qs, t) == NegMod(r[Len(r)], qs[Len(qs)])

\* The correction modulus_switch_down adds before it divides by the last
\* modulus: -x modulo that modulus, and x * (qLast - 1) modulo t.
SwitchCorrection(r, qs, t) ==
    LET qLast == qs[Len(qs)]
        ct == ExtendBasis(r, qs, <<t>>)[1]
        a1 == NegMod(r[Len(r)], qLast)
        target == MulMod(ct, (qLast - 1) % t, t)
        k == MulMod(SubMod(target, a1 % t, t), InvMod(qLast % t, t), t)
    IN  a1 + qLast * k

\* modulus_switch_down
ModulusSwitchDown(r, qs, t) ==
    LET qLast == qs[Len(qs)]
        correction == SwitchCorrection(r, qs, t)
    IN  [j \in 1..(Len(qs) - 1) |->
            MulMod(AddMod(r[j], correction % qs[j], qs[j]),
                   InvMod(qLast % qs[j], qs[j]), qs[j])]

\* Mutated form of RoundScaled: rounds down.
RoundScaledDown(magnitude, t, Q) == (magnitude * t) \div Q

\* round(|x| * t / Q), ties up, shared by the two functions below.
RoundScaled(magnitude, t, Q) ==
    LET scaled == magnitude * t
    IN  scaled \div Q + (IF 2 * (scaled % Q) >= Q THEN 1 ELSE 0)

\* x * t / Q rounded on the magnitude and reduced modulo m, the sign put back.
ScaledResidue(x, t, Q, m) ==
    IF x < 0 THEN NegMod(RoundScaled(-x, t, Q) % m, m)
             ELSE RoundScaled(x, t, Q) % m

\* rescale_and_round: r is over qs \o ps, the result over qs.
RescaleAndRound(r, qs, ps, t) ==
    LET x == CentredValue(r, qs \o ps)
    IN  [j \in DOMAIN qs |-> ScaledResidue(x, t, BasisProduct(qs), qs[j])]

\* Mutated form of DecodeScaledValue: reads the first modulus as if it were Q.
DecodeFirstModulus(r, basis, t) ==
    ScaledResidue(Centre(r[1], basis[1]), t, basis[1], t)

\* decode_scaled_value
DecodeScaledValue(r, basis, t) ==
    ScaledResidue(CentredValue(r, basis), t, BasisProduct(basis), t)
=============================================================================
