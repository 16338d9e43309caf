--------------------------------- MODULE Ckks ---------------------------------
(***************************************************************************)
(* Real CKKS, phantom-schemes/src/ckks, and its collective operations,     *)
(* phantom-multiparty/src/mpckks.  A ciphertext carries its scale, its     *)
(* level and an estimate of its precision; levels are per ciphertext.      *)
(*                                                                         *)
(* In a ring of degree 2 the one slot m0 + m1 i of a polynomial is its two *)
(* coefficients, so slots are Gaussian integers and the canonical          *)
(* embedding is exact.  slots is what the transparent evaluator computes,  *)
(* and here a ghost of the real ciphertext; so are noise, a bound on the e *)
(* of c0 + c1 s = scale * slots + e, wraps, a bound on the multiples of    *)
(* the first modulus beside it, counted, whether every step was one the    *)
(* estimate accounts for, and valid.                                       *)
(***************************************************************************)
EXTENDS Collective

CONSTANTS Moduli,      \* the ciphertext moduli of the top level
          DefaultScale,
          Slots,       \* slots to encrypt: Gaussian integers
          Unit,        \* the relative error that is no precision at all
          Tolerance,   \* scales within 1 + 1/Tolerance are compatible
          SmudgeFactor,\* smudging_std_dev: 2^(bits/2)
          ScaleCap     \* bound: no scale has a larger numerator or denominator

Top == Len(Moduli) - 1  \* initial_level

\* at_level
Level(l) == SubSeq(Moduli, 1, l + 1)

-----------------------------------------------------------------------------
\* Scales are quotients; errors of slots are in multiples of 1 / Unit.

CeilDiv(a, b) == (a + b - 1) \div b

\* Scale::compatible, a ratio of at most 1 + 1 / Tolerance.
Compatible(r, s) ==
    LET a == r.num * s.den
        b == s.num * r.den
    IN  Tolerance * Larger(a - b, b - a) <= (IF a < b THEN a ELSE b)

Default == [num |-> DefaultScale, den |-> 1]
ScaleProduct(r, s) == [num |-> r.num * s.num, den |-> r.den * s.den]

AtScale(k, r) == CeilDiv(k * r.num, r.den)
ScaleDrift(r, s) ==
    LET d == r.num * s.den - s.num * r.den
    IN  CeilDiv(Larger(d, -d), r.den * s.den)

\* precision_bits_from_noise is never negative: an error is at most one.
Clamped(error) == IF error > Unit THEN Unit ELSE error

\* precision_bits_from_noise
ErrorFromNoise(noise, scale) == Clamped(CeilDiv(Unit * Degree * noise * scale.den, scale.num))

\* noise_bound_from_precision
NoiseFromError(error, scale) == CeilDiv(error * scale.num, Unit * Degree * scale.den)

\* Precision::degrade by a bit count that is not negative, of the smaller of two
\* precisions.
Degraded(a, b, after) == Larger(Larger(a, b), Clamped(after))

\* Mutated form of AddError: one operand's noise.
AddErrorOneSided(a, r, b, s) == Degraded(a, b, Larger(a, b))

\* add_degrade_bits: b is scaled to a's scale.
AddError(a, r, b, s) ==
    Degraded(a, b, a + (IF r = s THEN b ELSE CeilDiv(b * s.num * r.den, s.den * r.num)))

\* mul_degrade_bits for messages of at most one, ASSUMED_REAL_MESSAGE_BOUND.
MulError(a, b) == Degraded(a, b, Degree * (a + b) + CeilDiv(a * b, Unit))

\* rescale_degrade_bits: one more unit of noise at the new scale.
RescaleError(a, newScale) ==
    Degraded(a, a, a + CeilDiv(Unit * Degree * newScale.den, newScale.num))

\* fresh_precision_bits, with the bounds of phantom-lattice/src/noise.rs.
FreshPublicKeyNoise == RingProductBound(1, ErrorBound) + RingProductBound(1, ErrorBound) + ErrorBound
FreshSecretKeyNoise == ErrorBound

\* What encoding costs: precision log2(scale).
EncodeError == Clamped(CeilDiv(Unit, DefaultScale))

-----------------------------------------------------------------------------
\* The transparent evaluator, one slot.

SlotAdd(z, w) == [i \in Coeffs |-> z[i] + w[i]]
SlotSub(z, w) == [i \in Coeffs |-> z[i] - w[i]]
SlotNeg(z) == [i \in Coeffs |-> -z[i]]
SlotMul(z, w) == [k \in Coeffs |-> NegacyclicCoeff(z, w, k)]
SlotConjugate(z) == [i \in Coeffs |-> IF i = 0 THEN z[0] ELSE -z[i]]

Magnitude(z) == LET m(i) == Larger(z[i], -z[i]) IN Larger(m(0), m(1))

\* encode_complex_real at a scale, rounded to the nearest integer.
Rounded(z, scale) ==
    [i \in Coeffs |-> (2 * z[i] * scale.num + scale.den) \div (2 * scale.den)]
Encode(z, l) == FromIntegers(Rounded(z, Default), Level(l))

-----------------------------------------------------------------------------
\* Operations.  A result replaces x.

\* generate_hybrid_*_key_at_level for one holder; mpckks generates collective
\* keys for the ring of its parameters, the top level, only.
LevelKeys ==
    [l \in 0..Top |->
        [own |-> IF Len(holders) = 1 \/ l = Top THEN HybridKeys(Level(l)) ELSE NoKeys,
         recipient |-> GeneratedHybridKeys(<<Recipient>>, Level(l))]]
HasKeys(l) == keys[l].own # NoKeys

Init ==
    /\ holders \in HolderSets
    /\ basis = Moduli
    /\ keys = LevelKeys
    /\ x = None /\ y = None
    /\ ops = 0

Ciphertext(parts, z, noise, estimate) ==
    [parts |-> parts, slots |-> z, scale |-> Default, level |-> Top, degree |-> 1,
     estimate |-> Larger(EncodeError, ErrorFromNoise(estimate, Default)),
     noise |-> noise, wraps |-> 0, counted |-> Len(holders) = 1, valid |-> TRUE]

\* encrypt_real with a secret key.
EncryptSecret(z, a, e) ==
    /\ ~Held(x) /\ Len(holders) = 1
    /\ x' = Ciphertext(EncryptUnder(Secret(Moduli), Encode(z, Top), Poly(a), Poly(e), Moduli),
                       z, ErrorBound, FreshSecretKeyNoise)
    /\ UNCHANGED y /\ KeepKeys

\* encrypt_real with a public key.  The code's bound takes the secret for
\* ternary and the key for one holder's.
EncryptPublic(z, u, e0, e1) ==
    Ciphertext(EncryptWith(keys[Top].own.public, Encode(z, Top), Poly(u), Poly(e0), Poly(e1),
                           Moduli),
               z, RingProductBound(1, CollectiveKeyNoise)
                      + RingProductBound(SecretBound, ErrorBound) + ErrorBound,
               FreshPublicKeyNoise)

EncryptX(z, u, e0, e1) ==
    /\ ~Held(x) /\ Len(holders) > 1
    /\ x' = EncryptPublic(z, u, e0, e1)
    /\ UNCHANGED y /\ KeepKeys

EncryptY(z, u, e0, e1) ==
    /\ ~Held(y)
    /\ y' = EncryptPublic(z, u, e0, e1)
    /\ UNCHANGED x /\ KeepKeys

\* check_binary compares the levels, add and sub the scales, and the ring layer
\* the number of components.
SameLevel == Held(x) /\ Held(y) /\ x.level = y.level
Summable == SameLevel /\ Len(x.parts) = Len(y.parts) /\ Compatible(x.scale, y.scale)

\* The result takes the scale of x, so what the scales differ by is noise.
Sum(parts, z) ==
    [parts |-> parts, slots |-> z, scale |-> x.scale, level |-> x.level,
     degree |-> Larger(x.degree, y.degree),
     estimate |-> AddError(x.estimate, x.scale, y.estimate, y.scale),
     noise |-> x.noise + y.noise + Magnitude(y.slots) * ScaleDrift(x.scale, y.scale),
     wraps |-> x.wraps + y.wraps,
     counted |-> x.counted /\ y.counted /\ x.scale = y.scale,
     valid |-> x.valid /\ y.valid]

Add ==
    /\ Step
    /\ Summable
    /\ x' = Sum(CtAdd(x.parts, y.parts, Level(x.level)), SlotAdd(x.slots, y.slots))
    /\ Keep

Sub ==
    /\ Step
    /\ Summable
    /\ x' = Sum(CtSub(x.parts, y.parts, Level(x.level)), SlotSub(x.slots, y.slots))
    /\ Keep

Neg ==
    /\ Step
    /\ Held(x)
    /\ x' = [x EXCEPT !.parts = CtNeg(@, Level(x.level)), !.slots = SlotNeg(@)]
    /\ Keep

\* A plaintext is encoded at the default scale, at the level it is used at.
AddPlain(z) ==
    /\ Step
    /\ Held(x) /\ Compatible(x.scale, Default)
    /\ x' = [x EXCEPT
                !.parts = CtAddPlain(@, Encode(z, x.level), Level(x.level)),
                !.slots = SlotAdd(@, z),
                !.estimate = AddError(@, x.scale, EncodeError, Default),
                !.noise = @ + Magnitude(z) * ScaleDrift(x.scale, Default),
                !.counted = @ /\ x.scale = Default]
    /\ Keep

\* (scale z + e) (scale' z' + e'): the noise of a product, of any slots.
ProductNoise(a, b) ==
    RingProductBound(AtScale(Magnitude(a.slots), a.scale) + 1, b.noise)
        + RingProductBound(AtScale(Magnitude(b.slots), b.scale) + 1, a.noise)
        + RingProductBound(a.noise, b.noise)

Multipliable(a, b) == ScaleProduct(a.scale, b.scale).num <= ScaleCap
UnitSlots(z) == Magnitude(z) <= 1 /\ z[0] * z[1] = 0

MulPlain(z) ==
    LET plain == [slots |-> z, scale |-> Default, noise |-> 0]
    IN  /\ Step
        /\ Held(x) /\ Multipliable(x, plain)
        /\ x' = [x EXCEPT
                    !.parts = CtMul(@, <<Encode(z, x.level)>>, Level(x.level)),
                    !.slots = SlotMul(@, z),
                    !.scale = ScaleProduct(@, Default),
                    !.estimate = MulError(@, EncodeError),
                    !.noise = ProductNoise(x, plain),
                    !.counted = @ /\ UnitSlots(x.slots) /\ UnitSlots(z),
                    !.valid = @ /\ x.wraps = 0]
        /\ Keep

\* mul_real needs no equal scales.
Mul ==
    /\ Step
    /\ SameLevel /\ Multipliable(x, y)
    /\ x' = [parts |-> CtMul(x.parts, y.parts, Level(x.level)),
             slots |-> SlotMul(x.slots, y.slots),
             scale |-> ScaleProduct(x.scale, y.scale), level |-> x.level,
             degree |-> x.degree + y.degree,
             estimate |-> MulError(x.estimate, y.estimate),
             noise |-> ProductNoise(x, y), wraps |-> 0,
             counted |-> x.counted /\ y.counted /\ UnitSlots(x.slots) /\ UnitSlots(y.slots),
             valid |-> x.valid /\ y.valid /\ x.wraps = 0 /\ y.wraps = 0]
    /\ Keep

SwitchNoise(rowNoise, l) == HybridNoise(rowNoise, SecretBound, Level(l), PModuli)

\* relinearize_real: exactly three components, and a key of the same level.
Relinearize ==
    /\ Step
    /\ Len(x.parts) = 3 /\ HasKeys(x.level)
    /\ x' = [x EXCEPT
                !.parts = HybridRelinearize(@, keys[x.level].own.relin, Level(x.level), PModuli),
                !.degree = 1,
                !.noise = @ + SwitchNoise(RelinKeyNoise, x.level), !.counted = FALSE]
    /\ Keep

\* rotate_real with the conjugation element 2 N - 1.
Conjugate ==
    /\ Step
    /\ Len(x.parts) = 2 /\ HasKeys(x.level)
    /\ x' = [x EXCEPT
                !.parts = HybridAutomorphism(@, Element, keys[x.level].own.galois,
                                             Level(x.level), PModuli),
                !.slots = SlotConjugate(@),
                !.noise = @ + SwitchNoise(CollectiveKeyNoise, x.level), !.counted = FALSE]
    /\ Keep

\* rescale_next_real: every component is divided by the last modulus, rounding
\* down, and so is the scale.
Rescaled(ct) ==
    LET lower == DropLast(Level(ct.level))
        last == Moduli[ct.level + 1]
        scale == [num |-> ct.scale.num, den |-> ct.scale.den * last]
    IN  [ct EXCEPT
            !.parts = [c \in DOMAIN @ |-> PolyModDown(@[c], lower, <<last>>)],
            !.scale = scale, !.level = @ - 1, !.estimate = RescaleError(@, scale),
            !.noise = CeilDiv(@, last)
                          + SumOf([c \in DOMAIN ct.parts |-> Power(Degree * SecretBound, c - 1)]),
            !.counted = FALSE, !.valid = @ /\ ct.wraps = 0]

Rescale ==
    /\ Step
    /\ Held(x) /\ x.level > 0
    /\ x.scale.den * Moduli[x.level + 1] <= ScaleCap
    /\ x' = Rescaled(x)
    /\ Keep

\* drop_level_real: the last residue of every component.
Dropped(ct) ==
    [ct EXCEPT !.parts = [c \in DOMAIN @ |-> [i \in Coeffs |-> DropLast(@[c][i])]],
               !.level = @ - 1]

DropLevel ==
    /\ Step
    /\ Held(x) /\ x.level > 0
    /\ x' = Dropped(x)
    /\ Keep

DropLevelY ==
    /\ Step
    /\ Held(y) /\ y.level > 0
    /\ y' = Dropped(y)
    /\ UNCHANGED <<holders, keys, basis, x>>

\* The documented bound: (h + 2) / 2 multiples of the first modulus, for a
\* secret whose coefficients add up to h.
SecretNorm ==
    LET s == [i \in Coeffs |-> CentredValue(Secret(Moduli)[i], Moduli)]
        size(i) == Larger(s[i], -s[i])
    IN  size(0) + size(1)
RaiseBound == (SecretNorm + 2) \div 2

\* Mutated form of Raised: the components are extended uncentred.
RaisedUncentred(ct, target) ==
    [ct EXCEPT !.parts = [c \in DOMAIN @ |-> PolyExtend(@[c], Level(0), Level(target))],
               !.level = target, !.wraps = RaiseBound, !.counted = FALSE,
               !.valid = @ /\ Len(ct.parts) = 2]

\* raise_level_real: the centred residues of level 0 at a higher level.
Raised(ct, target) ==
    [ct EXCEPT !.parts = [c \in DOMAIN @ |->
                    [i \in Coeffs |-> ExtendBasisCentred(@[c][i], Level(0), Level(target))]],
               !.level = target, !.wraps = RaiseBound, !.counted = FALSE,
               !.valid = @ /\ Len(ct.parts) = 2]

\* The message has to fit the first modulus, or there is nothing to raise.
Fits(ct, noise, modulus) ==
    2 * (AtScale(Magnitude(ct.slots), ct.scale) + noise + 1) < modulus

RaiseLevel(target) ==
    /\ Step
    /\ Held(x) /\ x.level = 0
    /\ x' = [Raised(x, target) EXCEPT
                !.valid = @ /\ x.wraps = 0 /\ Fits(x, x.noise, Moduli[1])]
    /\ Keep

-----------------------------------------------------------------------------
\* The collective operations of mpckks, at the ciphertext's level.

\* PartialDecryptor
JointlyDecrypted(ct) == JointPhase(ct.parts, 1, Level(ct.level))
JointNoise(e) == e + Len(holders) * SmudgeBound

\* ReEncryptor: scale, level, precision and degree are the input's.  The
\* recipient's public key is cut to the level.
ReEncrypt ==
    /\ Step
    /\ Held(x) /\ Len(holders) > 1
    /\ LET key == keys[Top].recipient.public
           truncated == [c \in 1..2 |-> [i \in Coeffs |->
                            SubSeq(key[c][i], 1, x.level + 1)]]
       IN  x' = [x EXCEPT
                    !.parts = ReEncrypted(@, truncated, 1, Level(x.level)),
                    !.noise = @ + ReEncryptNoise, !.counted = FALSE,
                    !.valid = @ /\ Len(x.parts) = 2 /\ x.wraps = 0]
    /\ y' = None
    /\ holders' = <<Recipient>>
    /\ keys' = [l \in 0..Top |-> [own |-> keys[l].recipient, recipient |-> NoKeys]]
    /\ UNCHANGED basis

\* InteractiveBootstrap: the masks are uniform and cancel, and the precision is
\* that of the smudging noise.
Refresh(masks) ==
    /\ Step
    /\ Held(x) /\ Len(holders) > 1
    /\ LET b == Level(x.level)
           smudge == SmudgeFactor * NoiseFromError(x.estimate, x.scale)
       IN  x' = [x EXCEPT
                    !.parts = LET sums == MaskedSums(@, [p \in Holders |-> FromIntegers(masks[p], b)],
                                                     1, b)
                              IN  Refreshed(sums.masked, sums, b),
                    !.estimate = ErrorFromNoise(smudge, x.scale),
                    !.noise = JointNoise(@) + Len(holders) * ErrorBound,
                    !.counted = FALSE,
                    !.valid = @ /\ Len(x.parts) = 2]
    /\ Keep

Next ==
    \/ \E z \in Slots, a \in Masks, e \in Errors : EncryptSecret(z, a, e)
    \/ \E z \in Slots, u \in Ternaries, e0, e1 \in Errors :
          EncryptX(z, u, e0, e1) \/ EncryptY(z, u, e0, e1)
    \/ Add \/ Sub \/ Neg \/ Mul \/ Relinearize \/ Conjugate \/ Rescale
    \/ DropLevel \/ DropLevelY
    \/ \E target \in 0..Top : RaiseLevel(target)
    \/ \E z \in Slots : AddPlain(z) \/ MulPlain(z)
    \/ ReEncrypt
    \/ \E masks \in [Holders -> Masks] : Refresh(masks)

Spec == Init /\ [][Next]_vars

-----------------------------------------------------------------------------
\* Properties.

CkksTypeOK ==
    /\ holders \in HolderSets \cup {<<Recipient>>}
    /\ \A l \in 0..Top : HasKeys(l) =>
          \A c \in 1..2 :
              /\ Reduced(keys[l].own.public[c], Level(l))
              /\ \A j \in 1..(l + 1) :
                    /\ Reduced(keys[l].own.relin[j][c], Level(l) \o PModuli)
                    /\ Reduced(keys[l].own.galois[j][c], Level(l) \o PModuli)
    /\ \A ct \in HeldCts :
          /\ ct.level \in 0..Top
          /\ \A c \in DOMAIN ct.parts : Reduced(ct.parts[c], Level(ct.level))
          /\ ct.scale.num \in Nat \ {0} /\ ct.scale.den \in Nat \ {0}
          /\ ct.estimate \in 1..Unit
          /\ ct.noise \in Nat /\ ct.wraps \in Nat
    /\ ops \in 0..MaxOps

\* The polynomial p at the level of ct, less the scaled slots.
Rest(p, ct) ==
    LET b == Level(ct.level)
        exact == Rounded(ct.slots, ct.scale)
    IN  [i \in Coeffs |-> Centre((TrueValue(p[i], b) - exact[i]) % BasisProduct(b),
                                 BasisProduct(b))]

Near(rest, ct, noise) ==
    \A i \in Coeffs :
        \E n \in (-ct.wraps)..(ct.wraps) :
            rest[i] - n * Moduli[1] \in (-noise - 1)..(noise + 1)

\* Every legal sequence of calls keeps the tracked scale and level true to the
\* ciphertext: it is the slots of the transparent evaluator times the tracked
\* scale, up to the noise, through products, rescaling by moduli that are not
\* the scale, sums of scales that have drifted apart, dropped levels and the
\* collective operations; and after a raise up to a multiple of the first
\* modulus that the documented bound allows.
Approximates ==
    \A ct \in HeldCts :
        ct.valid =>
        /\ Near(Rest(Phase(ct.parts, Secret(Level(ct.level)), Level(ct.level)), ct),
                ct, ct.noise)
        /\ Len(ct.parts) = 2 => Near(Rest(JointlyDecrypted(ct), ct), ct, JointNoise(ct.noise))

\* The precision estimate is never better than the truth for the steps it
\* accounts for, as long as it leaves any precision: encryption with one
\* holder's key, sums of equal scales, and products of slots of at most one.
EstimateSound ==
    \A ct \in HeldCts :
        ct.valid /\ ct.counted /\ ct.estimate < Unit =>
        LET rest == Rest(Phase(ct.parts, Secret(Level(ct.level)), Level(ct.level)), ct)
            noise == NoiseFromError(ct.estimate, ct.scale)
        IN  \A i \in Coeffs : rest[i] \in (-noise)..noise
=============================================================================
