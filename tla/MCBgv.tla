-------------------------------- MODULE MCBgv --------------------------------
EXTENDS Bgv

P(a, b) == [i \in Coeffs |-> IF i = 0 THEN a ELSE b]

\* The second modulus is congruent to 2 modulo 3.
MCOddModuli == <<8089, 41>>
\* The first modulus, the one that is decoded from, is the small one.
MCSmallFirst == <<43, 8089>>

\* One sample of each kind: operations, not samples, vary the ciphertexts.
MCOneHolder == {<<P(1, -1)>>}
MCRecipient == P(-1, 1)
MCMessages == {P(2, 1)}
MCMasks == {P(200411003, 1031777)}
MCErrors == {P(1, 1)}
MCTernaries == {P(1, -1)}

MCRowMasks == [row \in 1..12 |-> P(97003001 * row + 5, 1190494759 - 83047921 * row)]
MCRowErrors == <<P(1, -1), P(-1, -1), P(1, 1), P(-1, 1), P(1, 0)>>
MCRowTernaries == <<P(1, 1), P(-1, 1), P(0, -1)>>
MCSmudging == <<P(3, -2), P(-3, 3), P(2, -3)>>
=============================================================================
