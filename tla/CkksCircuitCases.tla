--------------------------- MODULE CkksCircuitCases ---------------------------
(***************************************************************************)
(* CKKS circuits against what their documentation promises, for inputs     *)
(* made from the walk's x.                                                 *)
(***************************************************************************)
EXTENDS CaseWalk, CkksCircuits, FiniteSets

CONSTANTS CircuitCases,   \* circuits are run for x below this bound
          MaxDoublings    \* the widest eval-mod

ASSUME CircuitCasesAssumption ==
    /\ CircuitCases \in Nat /\ MaxDoublings \in Nat
    /\ MaxLevel > 22 + MaxDoublings

Doublings == x % (MaxDoublings + 1)

\* Slots with unrelated conjugates, and real ones.
ComplexSlots == SlotSeq(LAMBDA j : <<(x * (j + 1) + j) % Field, (x + 5 * j) % Field>>)
RealSlots == SlotSeq(LAMBDA j : Real(x * (j + 2) + j * j))

AllElements == {GaloisElement(k) : k \in 0..(SlotCount - 1)} \union {ConjugationElement}
KeysAt(level) == [level |-> level, elements |-> AllElements]

\* One ciphertext, at a level, of one factor of the scale and degree one.
Lands(outcome, level) ==
    \E ct \in outcome : outcome = {ct} /\ ct.level = level /\ ct.deltas = 1 /\ ct.degree = 1

\* An outcome that lands when, and only when, the inputs allow it.
LandsWhen(allowed, outcome, level) ==
    \A found \in {outcome} : IF allowed THEN Lands(found, level) ELSE found = {}

\* A polynomial of degree d takes d levels, and leaves a scale that constants
\* still match.
PolynomialLands ==
    LET coefficients == [i \in 1..(x % 6) |-> (x * i + i) % Field]
        degree == Len(coefficients) - 1
        ValueAt(v) == CSum(LAMBDA k : CTimes(Real(coefficients[k + 1]),
                                             <<PowMod(v[1], k, Field), PowMod(v[2], k, Field)>>),
                           degree + 1)
    IN  \A level \in 0..6, keyCount \in {5, 6} :
            LET outcome == EvaluateEncrypted(Fresh(ComplexSlots, level), coefficients, keyCount)
            IN  /\ LandsWhen(degree >= 1 /\ level >= degree /\ keyCount >= level,
                             outcome, level - degree)
                /\ \A ct \in outcome :
                      /\ ScalesAgree(ct, Fresh(ComplexSlots, ct.level))
                      /\ ct.slots = SlotSeq(LAMBDA j : ValueAt(ComplexSlots[j + 1]))

\* A linear transform takes one level, with a key for each diagonal it needs,
\* at the ciphertext's level, and is the matrix product.
TransformLands ==
    LET entry(row, col) ==
            CASE x % 4 = 3 -> Real(0)
              [] x % 4 = 2 /\ (col - row) % SlotCount \notin {0, 1} -> Real(0)
              [] OTHER -> <<(row + x * col) % Field, (x + row * col) % Field>>
        matrix == [row \in 0..(SlotCount - 1) |-> [col \in 0..(SlotCount - 1) |-> entry(row, col)]]
        needed == {GaloisElement((p[2] - p[1]) % SlotCount) :
                      p \in {q \in (0..(SlotCount - 1)) \X (0..(SlotCount - 1)) :
                                matrix[q[1]][q[2]] # Real(0)}}
    IN  \A level \in 0..2, keyLevel \in 0..2, elements \in {AllElements, {1, 5}, {}} :
            LET outcome == TransformReal(Fresh(ComplexSlots, level), matrix,
                                         [level |-> keyLevel, elements |-> elements])
            IN  /\ LandsWhen(/\ needed # {} /\ level >= 1
                             /\ needed \subseteq {1} \/ keyLevel = level
                             /\ needed \ {1} \subseteq elements,
                             outcome, level - 1)
                /\ \A ct \in outcome : ct.slots = SlotSeq(LAMBDA j :
                      CSum(LAMBDA k : CTimes(matrix[j][k], ComplexSlots[k + 1]), SlotCount))

\* Eval-mod takes 20 + r levels for r doublings (eval_mod.rs:266), and
\* bootstrapping one more before and one after; nothing but missing levels, or
\* keys made for another level, is refused on the way, however far the scale
\* has drifted.  Bootstrapping leaves a conjugate-invariant ciphertext alone.
BootstrapLands ==
    LET r == Doublings
        Input(level) == Fresh(ComplexSlots, level)
    IN  /\ \A level \in {19 + r, 20 + r, MaxLevel} :
              LandsWhen(level >= 20 + r, ReduceModQWide(Input(level), level, r), level - 20 - r)
        /\ \A level \in {21 + r, 22 + r, MaxLevel}, conjugateInvariant \in BOOLEAN :
           \A stcLevel \in {level - 21 - r, MaxLevel} :
           \A found \in {BootstrapReal(Input(level), conjugateInvariant, KeysAt(level),
                                       KeysAt(level), level, r, KeysAt(stcLevel))} :
              IF conjugateInvariant THEN found = {Input(level)}
              ELSE LandsWhen(level >= 22 + r /\ stcLevel = level - 21 - r, found, level - 22 - r)

\* The real and the imaginary parts of the slots, as real slots.
ComplexParts ==
    <<SlotSeq(LAMBDA j : CTimes(CPlus(ComplexSlots[j + 1], Conjugated(ComplexSlots[j + 1])),
                                Reciprocal(2))),
      SlotSeq(LAMBDA j : CTimes(CMinus(ComplexSlots[j + 1], Conjugated(ComplexSlots[j + 1])),
                                CTimes(Reciprocal(2), Conjugated(ImaginaryUnit))))>>

Rejoined(real, imag) ==
    SlotSeq(LAMBDA j : CPlus(real.slots[j + 1], CTimes(ImaginaryUnit, imag.slots[j + 1])))

\* On complex slots eval-mod reduces the real and the imaginary part of every
\* slot apart, one level below the input, and joins them one level below what
\* that reduction leaves.  (How many levels this is in all the documentation
\* gets wrong: eval_mod.rs:500-511 counts the shared reduction as 19 + r, where
\* line 266 and the code have 20 + r.)
ComplexReducesParts ==
    \A level \in {21 + Doublings, 22 + Doublings} :
    \A reduced \in {[i \in 1..2 |-> Then({Fresh(ComplexParts[i], level - 1)},
                                         LAMBDA ct : ReduceModQWide(ct, level, Doublings))]} :
        {[ct EXCEPT !.drift = 0] :
            ct \in Then({Fresh(ComplexSlots, level)},
                        LAMBDA ct : ReduceModQComplex(ct, level, Doublings, KeysAt(level)))} =
        {Fresh(Rejoined(parts[1], parts[2]), parts[1].level - 1) :
            parts \in {p \in reduced[1] \X reduced[2] : p[1].level > 0}}

\* Polynomials, linear transforms, eval-mod and bootstrapping end at the level
\* and scale their documentation gives, or refuse for the documented reason; the
\* eval-mod of complex slots ends as its real one does on each part.
CircuitsLand ==
    x < CircuitCases =>
    PolynomialLands /\ TransformLands /\ BootstrapLands /\ ComplexReducesParts

\* Coefficients-to-slots puts the N raw coefficients, real numbers, into the
\* slots of two ciphertexts; slots-to-coefficients takes them back.
CoeffsInSlots ==
    x < CircuitCases =>
    LET coefficients == [i \in Coeffs |-> Real(x * (i + 1) + i * i)]
        Embedded == SlotSeq(LAMBDA j :
            CSum(LAMBDA k : CTimes(coefficients[k], EmbeddingPower(j, k)), Degree))
        halves == CoeffsToSlots(Fresh(Embedded, 2), KeysAt(2), KeysAt(2))
    IN  /\ \A pair \in halves :
              /\ pair[1].slots = SlotSeq(LAMBDA j : coefficients[j])
              /\ pair[2].slots = SlotSeq(LAMBDA j : coefficients[SlotCount + j])
              /\ Lands(SlotsToCoeffs(pair[1], pair[2], KeysAt(1)), 0)
              /\ \A ct \in SlotsToCoeffs(pair[1], pair[2], KeysAt(1)) : ct.slots = Embedded
        /\ Cardinality(halves) = 1

\* Eval-mod is q / (2 pi) times the sine of the angle x / q, whatever the number
\* of doublings: each doubles the angle and nothing else.
EvalModFollowsAngle ==
    x < CircuitCases =>
    LET scaleDown == InvMod((RaiseValue * PowMod(2, Doublings, Field)) % Field, Field)
        Angle(v) == 2^Doublings * ((v[1] * scaleDown) % Field)
    IN  \A ct \in ReduceModQWide(Fresh(RealSlots, MaxLevel), MaxLevel, Doublings) :
            ct.slots = SlotSeq(LAMBDA j :
                CTimes(SinOf(Angle(RealSlots[j + 1])),
                       CTimes(Real(RaiseValue), Reciprocal(TwoPi))))
=============================================================================
