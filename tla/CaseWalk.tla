------------------------------- MODULE CaseWalk -------------------------------
(***************************************************************************)
(* A walk through the inputs of pure functions: x takes the values 0 to    *)
(* Cases - 1 in turn, and the modules that extend this one state what      *)
(* their functions return for x, or for operands made from it.             *)
(***************************************************************************)
EXTENDS Integers

CONSTANT Cases

ASSUME CasesAssumption == Cases \in Nat \ {0}

VARIABLE x

Init == x = 0
Next == x' = (x + 1) % Cases
Spec == Init /\ [][Next]_x

\* Digit i of x in a base: how operands with several places are made from x.
Digit(base, i) == (x \div base^i) % base
=============================================================================
