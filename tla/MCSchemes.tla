------------------------------ MODULE MCSchemes ------------------------------
EXTENDS Schemes

P(a, b) == [i \in Coeffs |-> IF i = 0 THEN a ELSE b]

\* BGV: both moduli are congruent to 1 modulo 3, the second one small.
MCBgvModuli == <<8089, 43>>
\* BFV: the square of Q leaves room below QP / 2.
MCBfvModuli == <<101, 109>>
MCBfvPModuli == <<293, 313>>
\* CKKS: the first modulus is well above the default scale, the second one is
\* close to it.
MCCkksModuli == <<4093, 263>>
MCCkksPModuli == <<997>>

\* One sample of each kind: operations, not samples, vary the ciphertexts.
MCHolderSets == {<<P(1, -1)>>, <<P(1, -1), P(1, 0)>>}
MCRecipient == P(-1, 1)
MCMessages == {P(2, 1)}
MCSlots == {P(0, 1)}
MCMasks == {P(200411003, 1031777)}
MCErrors == {P(1, 1)}
MCTernaries == {P(1, -1)}

MCRowMasks == [row \in 1..12 |-> P(97003001 * row + 5, 1190494759 - 83047921 * row)]
MCRowErrors == <<P(1, -1), P(-1, -1), P(1, 1), P(-1, 1), P(1, 0)>>
MCRowTernaries == <<P(1, 1), P(-1, 1), P(0, -1)>>
MCSmudging == <<P(3, -2), P(-3, 3), P(2, -3)>>
=============================================================================
