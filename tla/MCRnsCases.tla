------------------------------ MODULE MCRnsCases ------------------------------
EXTENDS RnsCases, RingCases, SlotCases, CkksCircuitCases, WireCases

\* Two ciphertext moduli and one auxiliary one; the last ciphertext modulus is
\* not congruent to 1 modulo T.
MCQBasis == <<11, 7>>
MCPBasis == <<13>>

\* Twenty-nine moduli within two thousand of 2^30: the drift of five doublings
\* passes the tolerance.
MCDrifts == [l \in 1..29 |-> IF l % 3 = 0 THEN 25 ELSE 9]
=============================================================================
