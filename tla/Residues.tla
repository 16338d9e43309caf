------------------------------ MODULE Residues ------------------------------
(***************************************************************************)
(* Scalar arithmetic on residues, phantom-ring/src/reduce/mod.rs.  Sums    *)
(* and products are taken in u128 there, twice the width of a residue, so  *)
(* they are exact here.                                                    *)
(***************************************************************************)
EXTENDS Integers

AddMod(a, b, q) == (a + b) % q

\* Mutated form of SubMod: adds the modulus without looking.
SubModUnchecked(a, b, q) == a + (q - b)

\* Only right for reduced operands, as in the code.
SubMod(a, b, q) == IF a >= b THEN a - b ELSE q - (b - a)

NegMod(a, q) == IF a = 0 THEN 0 ELSE q - a

MulMod(a, b, q) == (a * b) % q

\* The state of pow_mod's loop, and one turn of it: square and multiply from
\* the low bit.
PowState == [acc : Nat, base : Nat, exp : Nat]
PowTurn(s, q) == [acc |-> IF s.exp % 2 = 1 THEN MulMod(s.acc, s.base, q) ELSE s.acc,
                  base |-> MulMod(s.base, s.base, q),
                  exp |-> s.exp \div 2]

PowMod(base, exp, q) ==
    LET loop[s \in PowState] == IF s.exp = 0 THEN s.acc ELSE loop[PowTurn(s, q)]
    IN  loop[[acc |-> 1, base |-> base % q, exp |-> exp]]

\* Fermat's inverse: q is taken to be prime.
InvMod(a, q) == PowMod(a, q - 2, q)
=============================================================================
