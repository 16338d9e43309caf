-------------------------------- MODULE MCBfv --------------------------------
EXTENDS Bfv

P(a, b) == [i \in Coeffs |-> IF i = 0 THEN a ELSE b]

\* Their product, 4087, is congruent to T - 1 modulo T = 7.
MCModuli == <<61, 67>>
MCPModuli == <<181, 191>>

\* Both ciphertexts wrap around the product of the moduli, with errors that add
\* up instead of cancelling.
MCOneHolder == {<<P(1, -1)>>}
MCRecipient == P(-1, 1)
MCMessages == {P(6, 6)}
MCMasks == {P(3953, 3896)}
MCErrors == {P(-1, -1), P(1, -1)}
MCTernaries == {P(-1, -1)}

MCRowMasks == <<P(138, 3993)>>
MCRowErrors == <<P(1, 1)>>
MCRowTernaries == <<P(1, 1)>>
MCSmudging == <<P(3, -2)>>
=============================================================================
