------------------------------ MODULE RingPoly ------------------------------
(***************************************************************************)
(* Polynomials of Z_Q[X]/(X^N + 1) in a residue number system, the         *)
(* operations of phantom-ring/src/ring.rs that the schemes use.  The code  *)
(* stores a polynomial by modulus and then by coefficient; here it is a    *)
(* function from 0..N-1 to residue vectors.  Ring::mul takes one of two    *)
(* paths by the modulus; PolyMul is the schoolbook one, and module Ntt's   *)
(* product is checked against it.                                          *)
(***************************************************************************)
EXTENDS Rns

CONSTANT Degree  \* N, a power of two

ASSUME DegreeAssumption == Degree \in Nat \ {0} /\ \E n \in 0..Degree : Degree = Power(2, n)

Coeffs == 0..(Degree - 1)

\* The polynomial with integer coefficients f[i] in a basis.
FromIntegers(f, basis) == [i \in Coeffs |-> Decompose(f[i], basis)]

PolyZero(basis) == FromIntegers([i \in Coeffs |-> 0], basis)

PolyAdd(a, b, basis) ==
    [i \in Coeffs |-> [j \in DOMAIN basis |-> AddMod(a[i][j], b[i][j], basis[j])]]

PolySub(a, b, basis) ==
    [i \in Coeffs |-> [j \in DOMAIN basis |-> SubMod(a[i][j], b[i][j], basis[j])]]

PolyNeg(a, basis) ==
    [i \in Coeffs |-> [j \in DOMAIN basis |-> NegMod(a[i][j], basis[j])]]

PolyScale(a, k, basis) ==
    [i \in Coeffs |-> [j \in DOMAIN basis |-> MulMod(a[i][j], k % basis[j], basis[j])]]

\* Coefficient k of a negacyclic product of integer polynomials.
NegacyclicCoeff(f, g, k) ==
    SumFunctionOnSet([a \in Coeffs |-> IF a <= k THEN f[a] * g[k - a]
                                                 ELSE -(f[a] * g[k - a + Degree])], Coeffs)

\* The residues of a polynomial modulo one prime.
Component(p, j) == [i \in Coeffs |-> p[i][j]]

PolyMul(a, b, basis) ==
    [k \in Coeffs |-> [j \in DOMAIN basis |->
        NegacyclicCoeff(Component(a, j), Component(b, j), k) % basis[j]]]

\* apply_automorphism: X -> X^g for an odd g.  Coefficient i moves to i * g
\* modulo 2N; past N it comes back with the sign turned.
Automorphism(a, g, basis) ==
    [m \in Coeffs |->
        LET i == CHOOSE c \in Coeffs : (c * g) % Degree = m
        IN  IF (i * g) % (2 * Degree) = m
            THEN a[i]
            ELSE [j \in DOMAIN basis |-> NegMod(a[i][j], basis[j])]]
=============================================================================
