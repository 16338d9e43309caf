----------------------------- MODULE CkksCircuits -----------------------------
(***************************************************************************)
(* CKKS circuits on encrypted slots: polynomials and linear transforms of  *)
(* phantom-circuits/src/ckks and the bootstrapping pipeline of             *)
(* phantom-bootstrapping/src/ckks.                                         *)
(*                                                                         *)
(* A ciphertext here is what those circuits depend on: its slots, level,   *)
(* scale and degree.  Slot values are exact: a number is a pair <<v, w>>   *)
(* of residues modulo a prime, its value and its conjugate's, with the     *)
(* root zeta of the embedding a root of unity of the field; what rounding  *)
(* and noise do to them is the subject of module Ckks.  The scale is kept  *)
(* as a logarithm: deltas whole factors of the default scale and a drift,  *)
(* in DriftUnit-ths of a bit, from moduli that only approximate it.  An    *)
(* operation's outcome is a set, empty when the code returns an error.     *)
(***************************************************************************)
EXTENDS RingPoly, Ntt

CONSTANTS Field,      \* the prime the slot values are taken modulo
          Drifts,     \* Drifts[l + 1]: log2(q_l) - log2(default scale), in 1e-7 bits
          RaiseValue, \* raise_modulus, a square of the field
          TwoPi       \* the constant 2 * pi, a unit of the field

ASSUME CkksCircuitsAssumption ==
    /\ Field < Word /\ (Field - 1) % (2 * Degree) = 0
    /\ \A l \in DOMAIN Drifts : Drifts[l] \in Int
    /\ \E s \in 1..(Field - 1) : (s * s) % Field = RaiseValue
    /\ TwoPi \in 1..(Field - 1)

SlotCount == Degree \div 2
MaxLevel == Len(Drifts) - 1

\* COMPATIBLE_TOLERANCE_BITS, 1e-3 bits
Tolerance == 10000

---------------------------------------------------------------------------
\* Slot values.

Real(v) == <<v % Field, v % Field>>
CPlus(a, b) == <<(a[1] + b[1]) % Field, (a[2] + b[2]) % Field>>
CMinus(a, b) == <<(a[1] - b[1]) % Field, (a[2] - b[2]) % Field>>
CTimes(a, b) == <<(a[1] * b[1]) % Field, (a[2] * b[2]) % Field>>
Conjugated(a) == <<a[2], a[1]>>
Reciprocal(v) == Real(InvMod(v % Field, Field))

\* zeta^k, zeta = exp(i * pi / N), and the imaginary unit among its powers.
Root(k) ==
    LET zeta == PrimitiveRoot(2 * Degree, Field)
    IN  <<PowMod(zeta, k % (2 * Degree), Field), PowMod(zeta, (-k) % (2 * Degree), Field)>>
ImaginaryUnit == Root(Degree \div 2)

\* A vector of slots, slot j at place j + 1.
SlotSeq(value(_)) ==
    LET upto[k \in Nat] == IF k = 0 THEN <<>> ELSE Append(upto[k - 1], value(k - 1))
    IN  upto[SlotCount]

CSum(term(_), n) ==
    LET sum[k \in Nat] == IF k = n THEN Real(0) ELSE CPlus(term(k), sum[k + 1])
    IN  sum[0]

---------------------------------------------------------------------------
\* Evaluator: what each operation refuses and what it does to level and scale.

Fresh(slots, level) ==
    [slots |-> slots, level |-> level, deltas |-> 1, drift |-> 0, degree |-> 1]

Then(outcomes, op(_)) == UNION {op(ct) : ct \in outcomes}

\* Scale::compatible
ScalesAgree(a, b) ==
    /\ a.deltas = b.deltas
    /\ a.drift - b.drift <= Tolerance /\ b.drift - a.drift <= Tolerance

\* encode_complex_real at a level, at the default scale.
EncodeAt(slots, level) == [slots |-> slots, level |-> level, deltas |-> 1, drift |-> 0]
ConstantAt(value, level) == EncodeAt(SlotSeq(LAMBDA j : value), level)

Slotwise(ct, other, op(_, _)) ==
    [ct EXCEPT !.slots = SlotSeq(LAMBDA j : op(ct.slots[j + 1], other.slots[j + 1]))]

AddCts(a, b) ==
    IF a.level = b.level /\ ScalesAgree(a, b) THEN {Slotwise(a, b, CPlus)} ELSE {}

SubCts(a, b) ==
    IF a.level = b.level /\ ScalesAgree(a, b) THEN {Slotwise(a, b, CMinus)} ELSE {}

AddPlainCt(ct, plain) ==
    IF ct.level = plain.level /\ ScalesAgree(ct, plain) THEN {Slotwise(ct, plain, CPlus)}
    ELSE {}

Times(ct, other) ==
    [Slotwise(ct, other, CTimes) EXCEPT !.deltas = @ + other.deltas, !.drift = @ + other.drift]

MulPlainCt(ct, plain) == IF ct.level = plain.level THEN {Times(ct, plain)} ELSE {}

MulCts(a, b) ==
    IF a.level = b.level THEN {[Times(a, b) EXCEPT !.degree = @ + b.degree]} ELSE {}

\* relinearize_real with the key for a level: key_switch wants its rows to
\* match the ciphertext's moduli.
RelinearizeCt(ct, keyLevel) ==
    IF ct.degree = 2 /\ keyLevel = ct.level THEN {[ct EXCEPT !.degree = 1]} ELSE {}

RescaleCt(ct) ==
    IF ct.level = 0 THEN {}
    ELSE {[ct EXCEPT !.level = @ - 1, !.deltas = @ - 1, !.drift = @ - Drifts[ct.level + 1]]}

DropCt(ct) == IF ct.level = 0 THEN {} ELSE {[ct EXCEPT !.level = @ - 1]}

\* CkksParams::rotation_element and conjugation_element.
GaloisElement(shift) == PowMod(5, shift % SlotCount, 2 * Degree)
ConjugationElement == 2 * Degree - 1

\* keys: the Galois keys at hand, a set of elements, all made for one level.
HasKey(ct, keys, element) ==
    ct.degree = 1 /\ keys.level = ct.level /\ element \in keys.elements

RotatedSlots(slots, shift) == SlotSeq(LAMBDA j : slots[((j + shift) % SlotCount) + 1])

ConjugateCt(ct, keys) ==
    IF HasKey(ct, keys, ConjugationElement)
    THEN {[ct EXCEPT !.slots = SlotSeq(LAMBDA j : Conjugated(ct.slots[j + 1]))]}
    ELSE {}

MulPlainRescaled(ct, value) ==
    Then(MulPlainCt(ct, ConstantAt(value, ct.level)), RescaleCt)

\* mul_real, relinearize_real, rescale_next_real: one step of a circuit, with
\* relinKeys[l] made for level l, for l < relinKeys.
MulRescaled(a, b, relinKeys) ==
    Then(Then({ct \in MulCts(a, b) : ct.level < relinKeys},
              LAMBDA ct : RelinearizeCt(ct, ct.level)),
         RescaleCt)

---------------------------------------------------------------------------
\* PolynomialEvaluator::evaluate_encrypted, Horner's rule: x follows the
\* accumulator down the levels, and every constant is encoded at its level.
EvaluateEncrypted(ct, coefficients, relinKeys) ==
    LET degree == Len(coefficients) - 1
        C(i) == Real(coefficients[i + 1])
        AddC(acc, i) == AddPlainCt(acc, ConstantAt(C(i), acc.level))
        Pairs(accs, x) == accs \X DropCt(x)
        leading == Then(MulPlainRescaled(ct, C(degree)), LAMBDA acc : AddC(acc, degree - 1))
        Multiplied(acc, x, i) ==
            Pairs(Then(MulRescaled(acc, x, relinKeys), LAMBDA a : AddC(a, i)), x)
        step[i \in Nat] ==
            IF i = degree - 1 THEN Pairs(leading, ct)
            ELSE UNION {Multiplied(pair[1], pair[2], i) : pair \in step[i + 1]}
    IN  IF degree < 1 \/ ct.level < degree \/ relinKeys < ct.level THEN {}
        ELSE {pair[1] : pair \in step[0]}

\* LinearTransformEvaluator::apply_real on matrix[row][col]: rotate, multiply
\* by a diagonal, accumulate; one rescale at the end.  The terms share one
\* level and scale.
TransformReal(ct, matrix, keys) ==
    LET Diagonal(k) == SlotSeq(LAMBDA j : matrix[j][(j + k) % SlotCount])
        offsets == {k \in 0..(SlotCount - 1) :
                       \E j \in 1..SlotCount : Diagonal(k)[j] # Real(0)}
        Term(k, j) == IF k \in offsets
                      THEN CTimes(Diagonal(k)[j + 1], RotatedSlots(ct.slots, k)[j + 1])
                      ELSE Real(0)
        total == [ct EXCEPT !.slots = SlotSeq(LAMBDA j : CSum(LAMBDA k : Term(k, j), SlotCount)),
                            !.deltas = @ + 1]
    IN  IF offsets = {} \/ \E k \in offsets \ {0} : ~HasKey(ct, keys, GaloisElement(k)) THEN {}
        ELSE RescaleCt(total)

---------------------------------------------------------------------------
\* Bootstrapping.

\* embedding_roots and pow_root: zeta_j ^ k.
EmbeddingPower(j, k) == Root(GaloisElement(j) * k)

\* Mutated form of CoeffsMatrix: the matrix is not conjugated.
CoeffsMatrixPlain(half, conjugated) ==
    [row \in 0..(SlotCount - 1) |-> [col \in 0..(SlotCount - 1) |->
        CTimes(EmbeddingPower(col, half * SlotCount + row), Reciprocal(Degree))]]

\* coeffs_to_slots_matrices: A_half, the conjugate transpose of half of the
\* embedding over N, and B_half, its transpose over N.
CoeffsMatrix(half, conjugated) ==
    LET U(j, k) == EmbeddingPower(j, half * SlotCount + k)
    IN  [row \in 0..(SlotCount - 1) |-> [col \in 0..(SlotCount - 1) |->
            CTimes(IF conjugated THEN Conjugated(U(col, row)) ELSE U(col, row),
                   Reciprocal(Degree))]]

\* u0_u1_matrices: half of the embedding itself.
SlotsMatrix(half) ==
    [row \in 0..(SlotCount - 1) |-> [col \in 0..(SlotCount - 1) |->
        EmbeddingPower(row, half * SlotCount + col)]]

\* CoeffsToSlots::apply_real: the ciphertexts of the two halves of the
\* coefficients, as a pair.
CoeffsToSlots(ct, keys, conjugationKey) ==
    LET Half(half, conj) ==
            UNION {AddCts(a, b) : a \in TransformReal(ct, CoeffsMatrix(half, TRUE), keys),
                                  b \in TransformReal(conj, CoeffsMatrix(half, FALSE), keys)}
    IN  UNION {Half(0, conj) \X Half(1, conj) : conj \in ConjugateCt(ct, conjugationKey)}

\* SlotsToCoeffs::apply_real
SlotsToCoeffs(z0, z1, keys) ==
    UNION {AddCts(a, b) : a \in TransformReal(z0, SlotsMatrix(0), keys),
                          b \in TransformReal(z1, SlotsMatrix(1), keys)}

\* The field's own sine and cosine: the angle y is the power gamma^y of a
\* primitive element, and SIN_ and COS_APPROX_BASE_COEFFICIENTS are the
\* interpolating polynomials, written with 18 coefficients as in the code.
Gamma == PrimitiveRoot(Field - 1, Field)
Turn(y) == <<PowMod(Gamma, y % (Field - 1), Field), PowMod(Gamma, (-y) % (Field - 1), Field)>>
SinOf(y) == CTimes(CMinus(Turn(y), Conjugated(Turn(y))),
                   CTimes(Reciprocal(2), Conjugated(ImaginaryUnit)))
CosOf(y) == CTimes(CPlus(Turn(y), Conjugated(Turn(y))), Reciprocal(2))

Interpolating(f(_)) ==
    LET sum[k \in Nat, y \in Nat] ==
            IF y = Field THEN 0
            ELSE f(y) * PowMod(y, Field - 1 - k, Field) + sum[k, y + 1]
    IN  [i \in 1..(Field + 1) |-> IF i = 1 THEN f(0)
                                 ELSE IF i > Field THEN 0
                                 ELSE (-sum[i - 1, 0]) % Field]

SinCoefficients == Interpolating(LAMBDA y : SinOf(y)[1])
CosCoefficients == Interpolating(LAMBDA y : CosOf(y)[1])

\* Mutated form of MatchingConstant: the constant at the default scale.
DefaultConstant(ct, value) == ConstantAt(value, ct.level)

\* encode_constant_matching_scale: the doublings double the drift of the
\* scale, so the constant is encoded at the ciphertext's own.
MatchingConstant(ct, value) ==
    [ConstantAt(value, ct.level) EXCEPT !.deltas = ct.deltas, !.drift = ct.drift]

\* Mutated form of DoubleCos: the square is not doubled.
DoubleCosOnce(cosine, relinKeys) ==
    Then(MulRescaled(cosine, cosine, relinKeys),
         LAMBDA c : AddPlainCt(c, MatchingConstant(c, Real(-1))))

\* One turn of the doubling loop: 2 sin cos and 2 cos^2 - 1.
DoubleSin(sine, cosine, relinKeys) ==
    Then(MulRescaled(sine, cosine, relinKeys), LAMBDA c : AddCts(c, c))

DoubleCos(cosine, relinKeys) ==
    Then(Then(MulRescaled(cosine, cosine, relinKeys), LAMBDA c : AddCts(c, c)),
         LAMBDA c : AddPlainCt(c, MatchingConstant(c, Real(-1))))

\* The least square root of a square of the field.
SquareRoot(v) ==
    CHOOSE s \in 0..(Field - 1) :
        (s * s) % Field = v /\ \A u \in 0..(s - 1) : (u * u) % Field # v

\* EvalMod::reduce_mod_q_real_wide: x / (q 2^r) in two steps, sine and cosine
\* of that, r doublings, and back up by q / (2 pi).
ReduceModQWide(ct, relinKeys, doublings) ==
    LET effective == (RaiseValue * PowMod(2, doublings, Field)) % Field
        down == Reciprocal(SquareRoot(effective))
        Sine(c) == EvaluateEncrypted(c, SinCoefficients, relinKeys)
        Cosine(c) == EvaluateEncrypted(c, CosCoefficients, relinKeys)
        Sines(scaled) ==
            LET after[r \in Nat] ==
                    IF r = 0 THEN Sine(scaled) \X Cosine(scaled)
                    ELSE UNION {DoubleSin(pair[1], pair[2], relinKeys)
                                \X DoubleCos(pair[2], relinKeys) : pair \in after[r - 1]}
            IN  IF doublings = 0 THEN Sine(scaled) ELSE {pair[1] : pair \in after[doublings]}
    IN  Then(Then(Then(MulPlainRescaled(ct, down), LAMBDA c : MulPlainRescaled(c, down)), Sines),
             LAMBDA c : MulPlainRescaled(c, CTimes(Real(RaiseValue), Reciprocal(TwoPi))))

\* EvalMod::reduce_mod_q_real_complex_wide: the real and imaginary parts apart.
ReduceModQComplex(ct, relinKeys, doublings, conjugationKey) ==
    LET Half == Reciprocal(2)
        Unit == <<Real(1), ImaginaryUnit>>
        Parts(conj) ==
            Then(AddCts(ct, conj), LAMBDA c : MulPlainRescaled(c, Half))
            \X Then(SubCts(ct, conj),
                    LAMBDA c : MulPlainRescaled(c, CTimes(Half, Conjugated(ImaginaryUnit))))
        Reduced(parts) ==
            [i \in 1..2 |-> Then(ReduceModQWide(parts[i], relinKeys, doublings),
                                 LAMBDA c : MulPlainRescaled(c, Unit[i]))]
        Joined(reduced) == UNION {AddCts(pair[1], pair[2]) : pair \in reduced[1] \X reduced[2]}
    IN  Then({Reduced(parts) : parts \in Then(ConjugateCt(ct, conjugationKey), Parts)}, Joined)

\* Bootstrapper::bootstrap_real_wide.  A conjugate-invariant ring is left to
\* other code: its ciphertexts come back as they are.
BootstrapReal(ct, conjugateInvariant, ctsKeys, conjugationKey, relinKeys, doublings, stcKeys) ==
    LET Reduced(halves) == [i \in 1..2 |-> ReduceModQWide(halves[i], relinKeys, doublings)]
        Restored(reduced) ==
            UNION {SlotsToCoeffs(pair[1], pair[2], stcKeys) : pair \in reduced[1] \X reduced[2]}
    IN  IF conjugateInvariant THEN {ct}
        ELSE Then({Reduced(halves) : halves \in CoeffsToSlots(ct, ctsKeys, conjugationKey)},
                  Restored)
=============================================================================
