--------------------------------- MODULE Slots ---------------------------------
(***************************************************************************)
(* Batching: N integers modulo a prime t in one plaintext, the encoder of  *)
(* phantom-schemes/src/bgv/encoder.rs, which the BFV scheme shares, and    *)
(* the automorphisms that move the slots.  A plaintext is read through its *)
(* residues modulo the first ciphertext modulus q, as the decoder does.    *)
(***************************************************************************)
EXTENDS RingPoly, Ntt

RowWidth == Degree \div 2

\* Mutated form of SlotExponent: the second row continues the powers of five.
SlotExponentOneRow(j) == PowMod(5, j, 2 * Degree)

\* slot_exponents: row 0 holds the powers of five, row 1 their negatives.
SlotExponent(j) ==
    IF j < RowWidth THEN PowMod(5, j, 2 * Degree)
    ELSE (2 * Degree - PowMod(5, j - RowWidth, 2 * Degree)) % (2 * Degree)

\* sequential_position: where the transform keeps the value at an odd power.
SequentialPosition(exponent) == (exponent - 1) \div 2

\* encode_batched, of up to N values; the missing ones are zero.
EncodeBatched(values, t, q) ==
    LET table == NttTable(Degree, t)
        sequential == [i \in Coeffs |->
            LET held == {j \in DOMAIN values : SequentialPosition(SlotExponent(j)) = i}
            IN  IF held = {} THEN 0 ELSE values[CHOOSE j \in held : TRUE] % t]
        coeffs == InverseTransform(sequential, table)
    IN  [i \in Coeffs |-> <<coeffs[i] % q>>]

\* decode_signed_residue
SignedResidue(coeff, q, t) ==
    IF coeff <= q \div 2 THEN coeff % t ELSE NegMod((q - coeff) % t, t)

\* decode_batched
DecodeBatched(plaintext, t, q) ==
    LET table == NttTable(Degree, t)
        coeffs == [i \in Coeffs |-> SignedResidue(plaintext[i][1], q, t)]
        values == Forward(coeffs, table)
    IN  [j \in Coeffs |-> values[SequentialPosition(SlotExponent(j))]]

\* BgvParams::rotation_element and row_swap_element, for apply_automorphism.
RotationElement(shift) == PowMod(5, shift % RowWidth, 2 * Degree)

RowSwapElement == 2 * Degree - 1

\* What the slots hold after a rotation and after a swap, as documented.
Rotated(slots, shift) ==
    [j \in Coeffs |->
        slots[RowWidth * (j \div RowWidth) + ((j + shift) % RowWidth)]]

RowsSwapped(slots) == [j \in Coeffs |-> slots[(j + RowWidth) % Degree]]
=============================================================================
