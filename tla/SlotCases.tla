------------------------------ MODULE SlotCases ------------------------------
(***************************************************************************)
(* Batched plaintexts against the slots they promise, for slot vectors     *)
(* made from the walk's x.                                                 *)
(***************************************************************************)
EXTENDS CaseWalk, SlotCircuits

CONSTANTS SlotModulus,    \* t, the prime the slots live in
          CipherModulus,  \* q, wide enough that a product of plaintexts fits
          SlotCaseCount   \* whole plaintexts are made from x below this bound

ASSUME SlotCasesAssumption ==
    /\ SlotCaseCount \in Nat
    /\ SlotModulus < Word /\ SupportsNtt(SlotModulus, Degree)
    /\ 2 * Degree * SlotModulus * SlotModulus < CipherModulus

\* A vector with up to Degree slots, spread from x.
SlotVector(salt, width) ==
    [j \in 0..(width - 1) |-> (x * (j + salt) + x \div (j + 3) + j * j) % SlotModulus]

\* Slots are independent: a ring product multiplies slot by slot, the rotation
\* automorphism turns both rows by its shift, the swap exchanges them, a short
\* vector is padded with zeros, and no slot sees another.
SlotsIndependent ==
    x < SlotCaseCount =>
    LET t == SlotModulus
        q == CipherModulus
        a == SlotVector(2, Degree)
        b == SlotVector(5, Degree - (x % Degree))
        Padded(f) == [j \in Coeffs |-> IF j \in DOMAIN f THEN f[j] ELSE 0]
        ea == EncodeBatched(a, t, q)
        eb == EncodeBatched(b, t, q)
        Read(plaintext) == DecodeBatched(plaintext, t, q)
    IN  /\ Read(eb) = Padded(b)
        /\ Read(PolyMul(ea, eb, <<q>>)) = [j \in Coeffs |-> (a[j] * Padded(b)[j]) % t]
        /\ Read(PolySub(ea, eb, <<q>>)) = [j \in Coeffs |-> (a[j] - Padded(b)[j]) % t]
        /\ \A shift \in 0..RowWidth :
              Read(Automorphism(ea, RotationElement(shift), <<q>>)) = Rotated(a, shift)
        /\ Read(Automorphism(ea, RowSwapElement, <<q>>)) = RowsSwapped(a)
---------------------------------------------------------------------------
\* Matrices: within the rows, sparse, with one entry across the rows, empty.
SlotMatrix ==
    LET weight(row, col) == (x * (row + 2) + 3 * col * x + row) % (2 * SlotModulus)
        sameRow(row, col) == row \div RowWidth = col \div RowWidth
    IN  [row \in Coeffs |-> [col \in Coeffs |->
            CASE x % 5 = 4 -> 0
              [] x % 5 = 3 -> IF sameRow(row, col) \/ (row = x % Degree /\ col = 0)
                              THEN weight(row, col) ELSE 0
              [] x % 5 = 2 -> IF col = row \/ (sameRow(row, col) /\ (col - row) % RowWidth = 1)
                              THEN weight(row, col) ELSE 0
              [] OTHER -> IF sameRow(row, col) THEN weight(row, col) ELSE 0]]

\* A transform inside the rows is the dense product whenever there is a
\* rotation key for every offset it needs; it is refused for a missing key, an
\* entry that crosses the rows, or an empty matrix, and for nothing else.
TransformsApply ==
    LET t == SlotModulus
        slots == SlotVector(2, Degree)
        needed == {RotationElement((col - row) % RowWidth) :
                      <<row, col>> \in {p \in Coeffs \X Coeffs : SlotMatrix[p[1]][p[2]] # 0}}
        inRows == \A row, col \in Coeffs :
                     SlotMatrix[row][col] # 0 => (row < RowWidth) = (col < RowWidth)
        keySets == {needed, needed \ {RotationElement(1)}, needed \ {1}}
    IN  \A keys \in keySets :
            ApplyReal(SlotMatrix, slots, keys, t) =
                IF inRows /\ needed # {} /\ needed \ {1} \subseteq keys
                THEN {Apply(SlotMatrix, slots, t)} ELSE {}

\* Horner's rule on ciphertexts is the polynomial at every slot.
PolynomialsEvaluate ==
    LET coefficients == [i \in 1..(x % 7) |-> (x * i + x \div i) % 40]
        slots == SlotVector(1, Degree)
    IN  EvaluateReal(coefficients, slots, SlotModulus) =
            IF Len(coefficients) < 2 THEN {} ELSE {Evaluate(coefficients, slots, SlotModulus)}

\* Every diagonal, and every coefficient, is scheduled once, from rotations and
\* powers the plan says to prepare.
PlansCover ==
    LET n == Degree
        baby == 1 + (x % 11)
        degree == 1 + (x % 23)
        diagonals == Diagonals(SlotMatrix, n)
        plan == BsgsPlan({d[1] : d \in diagonals} \union {x}, baby, n)
        Covers(count, d) ==
            LET p == PatersonStockmeyer(degree, count)
                holding == {b \in p.blocks : d \in b.start..b.end}
            IN  /\ Cardinality(holding) = 1
                /\ \A b \in holding : /\ b.giant * count \in {0} \union p.giantPowers
                                      /\ d - b.start \in {0} \union p.babyPowers
                                      /\ b.giant * count + (d - b.start) = d
    IN  /\ ToDense(diagonals, n) = SlotMatrix
        /\ \A o \in plan.offsets :
              LET parts == DecomposeOffset(o, baby, n)
              IN  /\ parts[1] \in plan.giantSteps /\ parts[2] \in plan.babySteps
                  /\ (parts[1] + parts[2]) % n = o
        /\ \A count \in {baby, SqrtCeil(degree + 1)} :
              \A d \in 0..degree : Covers(count, d)

\* Encrypted circuits give what the transparent ones give, and the schedules
\* they could follow leave nothing out.
SlotCircuitsCompute == TransformsApply /\ PolynomialsEvaluate /\ PlansCover
=============================================================================
