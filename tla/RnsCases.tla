------------------------------- MODULE RnsCases -------------------------------
(***************************************************************************)
(* The functions of Rns against their integer definitions, for every value *)
(* an extended basis Q u P can hold.  The walk is through the values of    *)
(* one coefficient; x is the value, and every property relates what the    *)
(* code computes from the residues of x to x itself.                       *)
(***************************************************************************)
EXTENDS Rns, CaseWalk

CONSTANTS QBasis,  \* the ciphertext basis, its last modulus is switched away
          PBasis,  \* the auxiliary basis
          T        \* the plaintext modulus

ASSUME RnsAssumption ==
    /\ QBasis \in Seq(Nat) /\ Len(QBasis) > 1
    /\ PBasis \in Seq(Nat) /\ Len(PBasis) > 0
    /\ T \in Nat /\ T > 1
    /\ Cases = BasisProduct(QBasis \o PBasis)

QProduct == BasisProduct(QBasis)
PProduct == BasisProduct(PBasis)
QP == QBasis \o PBasis

\* The moduli of a context are distinct primes, and t is one more.
ASSUME PrimeAssumption ==
    /\ \A i \in DOMAIN QP : QP[i] > 1 /\ \A d \in 2..(QP[i] - 1) : QP[i] % d # 0
    /\ \A i, j \in DOMAIN QP : i # j => QP[i] # QP[j]
    /\ \A d \in 2..(T - 1) : T % d # 0
    /\ \A i \in DOMAIN QP : QP[i] # T

QLast == QBasis[Len(QBasis)]
QFirst == SubSeq(QBasis, 1, Len(QBasis) - 1)
Delta == TrueValue(FloorDivideResidues(QBasis, T), QBasis)

Abs(n) == IF n < 0 THEN -n ELSE n

\* The residues of x, and the value of x centred: the code's view of x.
Residues == Decompose(x, QP)
Centred == Centre(x, QProduct * PProduct)

-----------------------------------------------------------------------------

\* Residues determine the value (reconstruct_true_values), a centred value
\* survives the way into another basis (extend_basis_centered, which CKKS
\* bootstrapping raises the modulus with), and the lift constants weigh
\* residues so that they sum to the value (crt_lift_constant, which gadget
\* keys bake in).
RepresentationExact ==
    /\ TrueValue(Residues, QP) = x
    /\ CentredValue(Residues, QP) = Centred
    /\ x < QProduct =>
          LET c == Centre(x, QProduct)
          IN  CentredValue(ExtendBasisCentred(Decompose(x, QBasis), QBasis, QP), QP) = c
    /\ \A j \in DOMAIN QP :
          SumOf([i \in DOMAIN QP |-> CrtLiftConstant(QP, i, QP)[j] * Residues[i]])
              % QP[j] = Residues[j]

\* Key switching divides by P with mod_down: exactly the floor, computed from
\* residues alone.
ModDownIsFloor ==
    TrueValue(ModDown(Residues, QBasis, PBasis), QBasis) = x \div PProduct

\* What decryption after a BGV modulus switch rests on, from residues alone: the
\* result x' of modulus_switch_down is congruent to x modulo t and less than t
\* away from x / qLast, never below it.  (It is found modulo the remaining
\* product, which it may exceed by less than t.)  Which of the integers within t
\* of x / qLast the documentation promises is SwitchIsClosest.
SwitchKeepsResidueModT ==
    x < QProduct =>
    LET got == TrueValue(ModulusSwitchDown(Decompose(x, QBasis), QBasis, T), QFirst)
        F == BasisProduct(QFirst)
    IN  \E m \in 0..((F + T) \div F) :
            LET y == got + m * F
            IN  /\ y % T = x % T
                /\ QLast * y - x \in 0..(QLast * T - 1)

\* The documentation of modulus_switch_down (rescale.rs:101-102): "`X' = X (mod t)`
\* and `X'` the closest such integer to `X / q_L`", which is at most t / 2 away,
\* above or below.
SwitchIsClosest ==
    x < QProduct =>
    LET got == TrueValue(ModulusSwitchDown(Decompose(x, QBasis), QBasis, T), QFirst)
        F == BasisProduct(QFirst)
    IN  \E m \in -1..((F + T) \div F) :
            LET y == got + m * F
            IN  /\ y % T = x % T
                /\ 2 * Abs(QLast * y - x) <= QLast * T

\* BFV multiplication scales by t / Q and rounds to nearest
\* (rescale_and_round): modulo Q, which the scaled value may exceed.
RescaleIsNearest ==
    LET got == CentredValue(RescaleAndRound(Residues, QBasis, PBasis, T), QBasis)
        Q2 == QProduct * QProduct
        error == Centre((got * QProduct - Centred * T) % Q2, Q2)
    IN  2 * Abs(error) <= QProduct

\* BFV decoding (decode_scaled_value) finds the message next to Delta * m, as
\* long as the noise leaves a margin of t below Delta / 2.
DecodeFindsMessage ==
    x < QProduct =>
    \A m \in 0..(T - 1) :
        Abs(Centre((x - Delta * m) % QProduct, QProduct)) <= Delta \div 2 - T
        => DecodeScaledValue(Decompose(x, QBasis), QBasis, T) = m

=============================================================================
