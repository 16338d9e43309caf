-------------------------------- MODULE Rlwe --------------------------------
(***************************************************************************)
(* The scheme-independent layer, phantom-lattice: ciphertexts as sequences *)
(* of polynomials, their evaluation at the secret, and the gadget          *)
(* decomposition (rgsw/decomposition.rs) that key switching works by.      *)
(* Every operator takes the basis of the ring its operands live in.        *)
(***************************************************************************)
EXTENDS RingPoly

CONSTANTS BaseLog,  \* the gadget base is 2^BaseLog
          Levels    \* digits per modulus

ASSUME GadgetAssumption == BaseLog \in Nat \ {0} /\ Levels \in Nat \ {0}

CtAdd(x, y, basis) == [c \in DOMAIN x |-> PolyAdd(x[c], y[c], basis)]

CtSub(x, y, basis) == [c \in DOMAIN x |-> PolySub(x[c], y[c], basis)]

CtNeg(x, basis) == [c \in DOMAIN x |-> PolyNeg(x[c], basis)]

CtAddPlain(x, p, basis) == [x EXCEPT ![1] = PolyAdd(@, p, basis)]

PolySum(s, basis) == FoldLeft(LAMBDA acc, p : PolyAdd(acc, p, basis), PolyZero(basis), s)

\* Evaluator::mul: the tensor product, not relinearized.
CtMul(x, y, basis) ==
    [c \in 1..(Len(x) + Len(y) - 1) |->
        PolySum([i \in 1..Len(x) |->
                    IF c - i + 1 \in DOMAIN y THEN PolyMul(x[i], y[c - i + 1], basis)
                                              ELSE PolyZero(basis)], basis)]

\* Decryptor::decrypt: c0 + c1 s + c2 s^2 + ...
Phase(x, s, basis) ==
    FoldLeft(LAMBDA acc, c : [sum |-> PolyAdd(acc.sum, PolyMul(c, acc.power, basis), basis),
                              power |-> PolyMul(acc.power, s, basis)],
             [sum |-> x[1], power |-> s], Tail(x)).sum

\* Encryptor::encrypt of the lattice layer, with a secret key (m - a s + e, a)
\* and with a public one (m + b u + e0, a u + e1).
EncryptUnder(s, m, a, e, basis) ==
    <<PolyAdd(PolySub(m, PolyMul(a, s, basis), basis), e, basis), a>>

EncryptWith(pk, m, u, e0, e1, basis) ==
    <<PolyAdd(PolyAdd(m, PolyMul(pk[1], u, basis), basis), e0, basis),
      PolyAdd(PolyMul(pk[2], u, basis), e1, basis)>>

\* KeyGenerator::generate_public_key: (-(a s + e), a).
RlwePublicKey(a, e, s, basis) ==
    <<PolyNeg(PolyAdd(PolyMul(a, s, basis), e, basis), basis), a>>

-----------------------------------------------------------------------------
\* GadgetDecomposition

Base == Power(2, BaseLog)
Weight(level) == Power(Base, level)

\* Digits are ordered by modulus, then by level.
RowCount(basis) == Len(basis) * Levels
Rows(basis) == 1..RowCount(basis)
RowModulus(row) == (row - 1) \div Levels + 1
RowLevel(row) == (row - 1) % Levels

\* decompose: a digit is cut out of the residue modulo one prime and embedded
\* in every component.
Digits(p, basis) ==
    [row \in Rows(basis) |->
        FromIntegers([i \in Coeffs |->
            (p[i][RowModulus(row)] \div Weight(RowLevel(row))) % Base], basis)]

\* Mutated form of ScaleForRow: right for one modulus, no lift for more.
ScaleForRowUnlifted(p, row, basis) ==
    [i \in Coeffs |-> [j \in DOMAIN basis |->
        MulMod(p[i][j], Weight(RowLevel(row)) % basis[j], basis[j])]]

\* scale_by_base_power_and_lift: B^level times the lift constant of the row's
\* modulus.
ScaleForRow(p, row, basis) ==
    LET lift == CrtLiftConstant(basis, RowModulus(row), basis)
    IN  [i \in Coeffs |-> [j \in DOMAIN basis |->
            MulMod(p[i][j],
                   MulMod(Weight(RowLevel(row)) % basis[j], lift[j], basis[j]),
                   basis[j])]]

\* recompose
Recompose(digits, basis) ==
    PolySum([row \in Rows(basis) |-> ScaleForRow(digits[row], row, basis)], basis)
=============================================================================
