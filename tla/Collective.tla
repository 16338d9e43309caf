------------------------------ MODULE Collective ------------------------------
(***************************************************************************)
(* The algebra of the collective protocols, phantom-multiparty: what one   *)
(* holder computes for a share, and what the shares of all holders add up  *)
(* to.  That every holder's share is in the sum exactly once is what       *)
(* ShareExchange is about.                                                 *)
(*                                                                         *)
(* k is the factor noise is scaled by: T in BGV, 1 in BFV and CKKS.  The   *)
(* common element a is the same for all holders                            *)
(* (derive_common_ring_element).                                           *)
(***************************************************************************)
EXTENDS SchemeState

Holders == DOMAIN holders

SumOverHolders(share(_), b) == PolySum([p \in Holders |-> share(p)], b)
SumOfPairs(share(_), b) ==
    <<SumOverHolders(LAMBDA p : share(p)[1], b), SumOverHolders(LAMBDA p : share(p)[2], b)>>

Scaled(e, k, b) == PolyScale(FromIntegers(e, b), k, b)

\* The error and the ternary sample a holder uses in a step of a protocol.
HolderError(p, step) == Cyclic(RowErrors, 3 * p + step)
HolderTernary(p, step) == Cyclic(RowTernaries, p + step)
HolderSmudge(p, step) == Cyclic(Smudging, p + step)
CommonElement(n, b) == FromIntegers(Cyclic(RowMasks, n), b)

-----------------------------------------------------------------------------
\* Key generation.

\* qp_ckg_contribution, and CollectiveKeyGen of each scheme: k e_i - a s_i.
KeyContribution(p, k, b) ==
    PolySub(Scaled(HolderError(p, 0), k, b),
            PolyMul(CommonElement(0, b), HolderSecret(p, b), b), b)

\* aggregate_qp_public_key: the b_i are summed, a is not.
AggregatePublicKey(k, b) ==
    <<SumOverHolders(LAMBDA p : KeyContribution(p, k, b), b), CommonElement(0, b)>>

\* gkg_row_contributions, b_j: scaled is the holder's rotated secret, scaled
\* for the row.
GaloisContribution(p, row, scaled, k, b) ==
    PolySub(PolyAdd(scaled, Scaled(HolderError(p, row), k, b), b),
            PolyMul(CommonElement(row, b), HolderSecret(p, b), b), b)

\* aggregate_keys: the common element of a row is compared, not summed.
CollectiveGaloisKey(scaled, k, b) ==
    [row \in DOMAIN scaled |->
        <<SumOverHolders(LAMBDA p : GaloisContribution(p, row, scaled[row][p], k, b), b),
          CommonElement(row, b)>>]

\* rkg_round1_row_contributions: an encryption of the scaled s_p under the
\* collective key.
Round1Contribution(p, row, scaled, pk, k, b) ==
    LET u == FromIntegers(HolderTernary(p, row), b)
    IN  <<PolyAdd(PolyAdd(PolyMul(pk[1], u, b), Scaled(HolderError(p, row), k, b), b),
                  scaled, b),
          PolyAdd(PolyMul(pk[2], u, b), Scaled(HolderError(p, row + 1), k, b), b)>>

\* Mutated form of Round2Contribution: the second component is folded without
\* the holder's secret.
Round2ContributionUnfolded(p, row, h, pk, k, b) ==
    LET v == FromIntegers(HolderTernary(p, row + 1), b)
        masked(c, e) == PolyAdd(PolyMul(pk[c], v, b), Scaled(e, k, b), b)
    IN  <<PolyAdd(PolyMul(HolderSecret(p, b), h[1], b), masked(1, HolderError(p, row)), b),
          PolyAdd(h[2], masked(2, HolderError(p, row + 2)), b)>>

\* rkg_round2_row_contributions: s_p times the aggregate of round 1, masked
\* again.
Round2Contribution(p, row, h, pk, k, b) ==
    LET v == FromIntegers(HolderTernary(p, row + 1), b)
        part(c, e) == PolyAdd(PolyMul(HolderSecret(p, b), h[c], b),
                              PolyAdd(PolyMul(pk[c], v, b), Scaled(e, k, b), b), b)
    IN  <<part(1, HolderError(p, row)), part(2, HolderError(p, row + 2))>>

\* The rows of round 1 are summed, handed to every holder for round 2, and
\* summed again.
CollectiveRelinKey(scaled, pk, k, b) ==
    [row \in DOMAIN scaled |->
        LET h == SumOfPairs(LAMBDA p : Round1Contribution(p, row, scaled[row][p], pk, k, b), b)
        IN  SumOfPairs(LAMBDA p : Round2Contribution(p, row, h, pk, k, b), b)]

\* The hybrid keys of BFV and CKKS over qs: rows over QP, one per modulus, from
\* one holder or from several.
NoKeys == [public |-> <<>>, relin |-> <<>>, galois |-> <<>>]

GeneratedHybridKeys(h, qs) ==
    LET masks == [j \in DOMAIN qs |-> Cyclic(RowMasks, j)]
        errors == [j \in DOMAIN qs |-> Cyclic(RowErrors, j)]
        s == SecretOf(h, qs)
    IN  [public |-> RlwePublicKey(CommonElement(1, qs), FromIntegers(Cyclic(RowErrors, 0), qs),
                                  s, qs),
         relin |-> HybridRelinKey(s, masks, errors, qs, PModuli),
         galois |-> HybridGaloisKey(s, Element, masks, errors, qs, PModuli)]

CollectiveHybridKeys(qs) ==
    LET qps == qs \o PModuli
        scaled(secret(_)) == [j \in DOMAIN qs |-> [p \in Holders |-> ScaleByHat(secret(p), j, qps)]]
        own(p) == HolderSecret(p, qps)
        rotated(p) == Automorphism(own(p), Element, qps)
    IN  [public |-> AggregatePublicKey(1, qs),
         relin |-> CollectiveRelinKey(scaled(own), AggregatePublicKey(1, qps), 1, qps),
         galois |-> CollectiveGaloisKey(scaled(rotated), 1, qps)]

HybridKeys(qs) ==
    IF Len(holders) = 1 THEN GeneratedHybridKeys(holders, qs) ELSE CollectiveHybridKeys(qs)

\* The noise of these keys in multiples of k: sums of n errors, times ternary
\* sums, times s.
CollectiveKeyNoise == Len(holders) * ErrorBound
Round1Noise ==
    LET n == Len(holders)
    IN  RingProductBound(n, n * ErrorBound) + n * ErrorBound
            + RingProductBound(n * ErrorBound, SecretBound)
RelinKeyNoise ==
    LET n == Len(holders)
    IN  IF n = 1 THEN ErrorBound
        ELSE RingProductBound(SecretBound, Round1Noise) + Round1Noise

-----------------------------------------------------------------------------
\* Decryption, re-encryption and refreshing.  All of them work on the first two
\* components of a ciphertext, whatever it has beside them.

\* PartialDecryptor: d_i = c1 s_i + k e_i, and c0 plus the sum of them.
DecryptShare(p, c1, k, b) ==
    PolyAdd(PolyMul(c1, HolderSecret(p, b), b), Scaled(HolderSmudge(p, 0), k, b), b)

JointPhase(parts, k, b) ==
    PolyAdd(parts[1], SumOverHolders(LAMBDA p : DecryptShare(p, parts[2], k, b), b), b)

\* ReEncryptor, for the recipient's public key pk: (u_i b_r + k e0_i + s_i c1, u_i a_r + k e1_i).
SwitchShare(p, c1, pk, k, b) ==
    LET u == FromIntegers(HolderTernary(p, 0), b)
    IN  <<PolyAdd(PolyAdd(PolyMul(u, pk[1], b), Scaled(HolderSmudge(p, 0), k, b), b),
                  PolyMul(HolderSecret(p, b), c1, b), b),
          PolyAdd(PolyMul(u, pk[2], b), Scaled(HolderSmudge(p, 1), k, b), b)>>

\* aggregate_ciphertext
ReEncrypted(parts, pk, k, b) ==
    LET h == SumOfPairs(LAMBDA p : SwitchShare(p, parts[2], pk, k, b), b)
    IN  <<PolyAdd(parts[1], h[1], b), h[2]>>

\* What re-encryption adds to the noise of c0 + c1 s.
ReEncryptNoise ==
    LET n == Len(holders)
    IN  RingProductBound(n, ErrorBound) + n * SmudgeBound
            + RingProductBound(n * SmudgeBound, 1)

\* InteractiveBootstrap: the share (c1 s_i + k e0_i - M_i, k e1_i - a s_i + M_i)
\* for an embedded mask M_i.
RefreshShare(p, c1, mask, k, b) ==
    LET s == HolderSecret(p, b)
    IN  <<PolySub(PolyAdd(PolyMul(c1, s, b), Scaled(HolderSmudge(p, 0), k, b), b), mask, b),
          PolyAdd(PolySub(Scaled(HolderError(p, 1), k, b),
                          PolyMul(CommonElement(2, b), s, b), b), mask, b)>>

\* aggregate_refreshed: c0 + h0, which still holds the masks, and h1.
MaskedSums(parts, masks, k, b) ==
    LET h == SumOfPairs(LAMBDA p : RefreshShare(p, parts[2], masks[p], k, b), b)
    IN  [masked |-> PolyAdd(parts[1], h[1], b), unmasking |-> h[2]]

\* revealed is what a scheme reads from the masked sum, encoded again.
Refreshed(revealed, sums, b) == <<PolyAdd(revealed, sums.unmasking, b), CommonElement(2, b)>>
=============================================================================
