----------------------------- MODULE SlotCircuits -----------------------------
(***************************************************************************)
(* Exact circuits over batched slots, phantom-circuits/src/bgv, and the    *)
(* schedules of phantom-circuits/src/common.  A ciphertext is what it      *)
(* decrypts to, one residue modulo t for each slot: SlotsIndependent says  *)
(* what the ring operations do to those.  A circuit's outcome is a set,    *)
(* empty when it refuses.  The BFV circuits run the same loops over BFV's  *)
(* own multiplication and key switching.                                   *)
(***************************************************************************)
EXTENDS Slots, FiniteSets

SlotSum(term(_), slots) ==
    LET sum[i \in Nat] == IF i = slots THEN 0 ELSE term(i) + sum[i + 1]
    IN  sum[0]

---------------------------------------------------------------------------
\* Linear transforms: matrix[row][col], raw words.

\* apply: the transparent evaluator's dense product.
Apply(matrix, slots, t) ==
    [row \in Coeffs |->
        SlotSum(LAMBDA col : (slots[col] % t) * (matrix[row][col] % t), Degree) % t]

\* Mutated form of RowLocalDiagonal: one cyclic group of all the slots.
FlatDiagonal(matrix, k) == [row \in Coeffs |-> matrix[row][(row + k) % Degree]]

\* row_local_diagonals: entry k places on, around the row's own half.
RowLocalDiagonal(matrix, k) ==
    [row \in Coeffs |->
        matrix[row][RowWidth * (row \div RowWidth) + ((row + k) % RowWidth)]]

CrossesRows(matrix) ==
    \E row, col \in Coeffs :
        matrix[row][col] # 0 /\ row \div RowWidth # col \div RowWidth

\* The offsets apply_real multiplies at, and those it needs a key for.
RowOffsets(matrix) ==
    {k \in 0..(RowWidth - 1) : \E row \in Coeffs : RowLocalDiagonal(matrix, k)[row] # 0}

\* apply_real: rotate, multiply by a diagonal, accumulate.  keys are the Galois
\* elements a rotation key was given for.
ApplyReal(matrix, slots, keys, t) ==
    LET offsets == RowOffsets(matrix)
        term(k, row) == IF k \in offsets
                        THEN Rotated(slots, k)[row] * (RowLocalDiagonal(matrix, k)[row] % t)
                        ELSE 0
    IN  IF \/ CrossesRows(matrix)
           \/ \E k \in offsets \ {0} : RotationElement(k) \notin keys
           \/ offsets = {}
        THEN {}
        ELSE {[row \in Coeffs |-> SlotSum(LAMBDA k : term(k, row), RowWidth) % t]}

---------------------------------------------------------------------------
\* Polynomials: coefficients c_0, c_1, ... as a sequence.

\* evaluate_modular_polynomial, slot by slot.
Evaluate(coefficients, slots, t) ==
    LET horner[i \in Nat, s \in Nat] ==
            IF i > Len(coefficients) THEN 0
            ELSE (horner[i + 1, s] * s + (coefficients[i] % t)) % t
    IN  [j \in Coeffs |-> horner[1, slots[j] % t]]

\* evaluate_real: the leading coefficient times x, the next coefficient, and
\* only then products with x.  A constant has no ciphertext to start from.
EvaluateReal(coefficients, slots, t) ==
    LET degree == Len(coefficients) - 1
        C(i) == coefficients[i + 1] % t
        step[i \in Nat, s \in Nat] ==
            (s * (IF i = degree - 1 THEN C(degree) ELSE step[i + 1, s]) + C(i)) % t
    IN  IF degree < 1 THEN {} ELSE {[j \in Coeffs |-> step[0, slots[j]]]}

---------------------------------------------------------------------------
\* Schedules.

\* DiagonalMatrix::from_linear_transform and to_dense, n slots in one cycle.
Diagonals(matrix, n) ==
    LET Values(offset) == [row \in 0..(n - 1) |-> matrix[row][(row + offset) % n]]
    IN  {<<offset, Values(offset)>> :
            offset \in {o \in 0..(n - 1) : \E row \in 0..(n - 1) : Values(o)[row] # 0}}

ToDense(diagonals, n) ==
    [row \in 0..(n - 1) |-> [col \in 0..(n - 1) |->
        LET held == {d \in diagonals : (row + d[1]) % n = col}
        IN  IF held = {} THEN 0 ELSE (CHOOSE d \in held : TRUE)[2][row]]]

\* BabyStepGiantStepPlan::new
GiantOf(offset, baby, n) == ((offset \div baby) * baby) % n

BsgsPlan(offsets, baby, n) ==
    LET normalized == {o % n : o \in offsets}
    IN  [offsets |-> normalized,
         babySteps |-> {o % baby : o \in normalized},
         giantSteps |-> {GiantOf(o, baby, n) : o \in normalized}]

\* decompose_offset of a covered offset: its giant and its baby step.
DecomposeOffset(offset, baby, n) == <<GiantOf(offset % n, baby, n), (offset % n) % baby>>

\* integer_sqrt_ceil
SqrtCeil(value) ==
    IF value <= 1 THEN value
    ELSE CHOOSE r \in 1..value : r * r >= value /\ (r - 1) * (r - 1) < value

\* PatersonStockmeyerPlan::new: blocks of coefficients, the powers inside a
\* block and the powers that shift it.
PatersonStockmeyer(degree, baby) ==
    LET Block(start) == [start |-> start,
                         end |-> IF start + baby - 1 < degree THEN start + baby - 1
                                                              ELSE degree,
                         giant |-> start \div baby]
    IN  [babyPowers |-> 1..(IF baby < degree THEN baby ELSE degree),
         giantPowers |-> {g * baby : g \in 1..(degree \div baby)},
         blocks |-> {Block(g * baby) : g \in 0..(degree \div baby)}]
=============================================================================
