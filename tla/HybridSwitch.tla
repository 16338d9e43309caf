---------------------------- MODULE HybridSwitch ----------------------------
(***************************************************************************)
(* RNS hybrid key switching, phantom-lattice/src/rlwe/keyswitch.rs, and    *)
(* what is built on it: relinearization and Galois automorphisms of BFV    *)
(* and CKKS ciphertexts.  A key has one row per modulus of Q, over the     *)
(* extended basis QP = qs \o ps.                                           *)
(***************************************************************************)
EXTENDS Rlwe

\* The true value in {-1, 0, 1} of a residue of the first modulus.
Ternary(v, q0) == IF v = q0 - 1 THEN -1 ELSE v

\* rebase_ternary_secret refuses any other coefficient.
IsTernary(s, q0) == \A i \in Coeffs : s[i][1] \in {0, 1, q0 - 1}

Rebase(s, q0, target) == FromIntegers([i \in Coeffs |-> Ternary(s[i][1], q0)], target)

\* scale_poly_per_component by crt_basis_constant: QP / q_j in every component.
ScaleByHat(p, j, qps) ==
    [i \in Coeffs |-> [k \in DOMAIN qps |->
        MulMod(p[i][k], Hat(qps, j) % qps[k], qps[k])]]

\* generate_key_switch_key: old and new over QP, masks[j] and errors[j] the
\* samples of row j.
KeySwitchKey(old, new, masks, errors, qs, ps) ==
    LET qps == qs \o ps
    IN  [j \in DOMAIN qs |->
            LET zero == EncryptUnder(new, PolyZero(qps), FromIntegers(masks[j], qps),
                                     FromIntegers(errors[j], qps), qps)
            IN  [zero EXCEPT ![1] = PolyAdd(@, ScaleByHat(old, j, qps), qps)]]

\* extend_basis and mod_down, one coefficient at a time.
PolyExtend(p, from, to) == [i \in Coeffs |-> ExtendBasis(p[i], from, to)]
PolyModDown(p, qs, ps) == [i \in Coeffs |-> ModDown(p[i], qs, ps)]

\* Mutated form of HybridDigit: the residue itself, not weighed by the inverse
\* of Q / q_j.
HybridDigitUnweighed(p, j, qs, qps) ==
    PolyExtend([i \in Coeffs |-> <<p[i][j]>>], <<qs[j]>>, qps)

\* d_j = p_j * (Q / q_j)^-1 modulo q_j, lifted to QP.
HybridDigit(p, j, qs, qps) ==
    PolyExtend([i \in Coeffs |-> <<MulMod(p[i][j], HatInverse(qs, j), qs[j])>>],
               <<qs[j]>>, qps)

\* key_switch of (0, p): digits against rows, then down by P.
HybridSwitched(p, key, qs, ps) ==
    LET qps == qs \o ps
        part(c) == PolySum([j \in DOMAIN qs |->
                       PolyMul(HybridDigit(p, j, qs, qps), key[j][c], qps)], qps)
    IN  <<PolyModDown(part(1), qs, ps), PolyModDown(part(2), qs, ps)>>

\* A key is refused unless it has one row per modulus.
KeyFits(key, qs) == Len(key) = Len(qs)

\* generate_hybrid_relinearization_key: s^2 is lifted uncentred.
HybridRelinKey(s, masks, errors, qs, ps) ==
    KeySwitchKey(PolyExtend(PolyMul(s, s, qs), qs, qs \o ps),
                 Rebase(s, qs[1], qs \o ps), masks, errors, qs, ps)

\* generate_hybrid_galois_key: the automorphism keeps s ternary.
HybridGaloisKey(s, g, masks, errors, qs, ps) ==
    KeySwitchKey(Rebase(Automorphism(s, g, qs), qs[1], qs \o ps),
                 Rebase(s, qs[1], qs \o ps), masks, errors, qs, ps)

\* Evaluator::relinearize, of three components.
HybridRelinearize(parts, key, qs, ps) ==
    CtAdd(SubSeq(parts, 1, 2), HybridSwitched(parts[3], key, qs, ps), qs)

\* Evaluator::apply_galois_automorphism, of two components.
HybridAutomorphism(parts, g, key, qs, ps) ==
    CtAddPlain(HybridSwitched(Automorphism(parts[2], g, qs), key, qs, ps),
               Automorphism(parts[1], g, qs), qs)

\* A bound on what a switch adds to c0 + c1 s: the digits times the row's noise,
\* divided by P, and two roundings down, one of them times s.  The code has no
\* function for it.
HybridNoise(rowNoise, secretBound, qs, ps) ==
    (Degree * SumOf(qs) * rowNoise) \div BasisProduct(ps) + 2 + Degree * secretBound
=============================================================================
