--------------------------------- MODULE Bgv ---------------------------------
(***************************************************************************)
(* Real BGV, phantom-schemes/src/bgv: encryption with noise scaled by the  *)
(* plaintext modulus T, evaluation, relinearization and rotation through a *)
(* T-scaled gadget key, modulus switching, and decoding; and the same      *)
(* under a collective key, phantom-multiparty/src/mpbgv.                   *)
(*                                                                         *)
(* Each ciphertext has three ghosts beside its components: plain, what it  *)
(* should decrypt to, noise, the bound a caller computes with the          *)
(* functions of noise.rs, and valid, whether every step so far had the     *)
(* preconditions it does not check.                                        *)
(***************************************************************************)
EXTENDS Collective

CONSTANTS Moduli,    \* the ciphertext moduli of the first level
          NoiseCap   \* bound: no operand of a product is noisier

\* BgvParamsBuilder::build refuses repeated moduli and a modulus that T is not
\* coprime to; inv_mod and modulus_switch_down rely on the primes they are
\* documented to need, key switching on a gadget with digits enough.
ASSUME BgvAssumption ==
    /\ Moduli \in Seq(Nat) /\ Len(Moduli) > 0
    /\ \A i, j \in 1..Len(Moduli) : i # j => Moduli[i] # Moduli[j]
    /\ \A i \in 1..Len(Moduli) :
          /\ Moduli[i] > 2 /\ \A d \in 2..(Moduli[i] - 1) : Moduli[i] % d # 0
          /\ Moduli[i] % T # 0
          /\ Moduli[i] <= Weight(Levels)
    /\ \A d \in 2..(T - 1) : T % d # 0
    /\ NoiseCap \in Nat

-----------------------------------------------------------------------------
\* Encoding.

\* encode_u64
Encode(m) == Poly([i \in Coeffs |-> m[i] % T])

\* Mutated form of DecodeSignedResidue: the upper half is not negative.
DecodeUnsignedResidue(c, q) == c % T

\* decode_signed_residue: the value a residue stands for, modulo T.
DecodeSignedResidue(c, q) ==
    IF c <= q \div 2 THEN c % T
    ELSE LET magnitude == (q - c) % T
         IN  IF magnitude = 0 THEN 0 ELSE T - magnitude

\* decode_u64 reads the first component only.
Decode(p) == [i \in Coeffs |-> DecodeSignedResidue(p[i][1], basis[1])]

Decrypted(ct) == Decode(Phase(ct.parts, Secret(basis), basis))

-----------------------------------------------------------------------------
\* noise.rs: bounds on the e of c0 + c1 s = m + T e.

FreshSecretKeyNoise == ErrorBound

\* keyNoise is the bound on the error of the public key; the code's formula is
\* for one holder.
FreshPublicKeyNoise(keyNoise) ==
    RingProductBound(1, keyNoise) + RingProductBound(SecretBound, ErrorBound) + ErrorBound

MulNoiseBound(e) == 2 * RingProductBound(T, e) + T * RingProductBound(e, e)

RelinearizeNoiseBound(rows, e, keyNoise) ==
    e + rows * RingProductBound(Base - 1, keyNoise)

\* What the functions above leave to their caller: the e that a message takes
\* up when it is reduced modulo T again.
SumCarry == 1
ProductCarry == RingProductBound(T - 1, T - 1) \div T + 1

\* No function of the code bounds these two.
MulPlainNoise(e) == RingProductBound(T - 1, e) + ProductCarry
SwitchNoise(e, parts) ==
    (1 + e) \div basis[Len(basis)] + 2
        + SumOf([c \in DOMAIN parts |-> Power(Degree * SecretBound, c - 1)])

\* Decryption is sure to work while T (1 + e) stays below q / 2.
Margin(e, q) == 2 * T * (1 + e) < q

\* noise_budget_bits of at least one bit: 4 T e <= Q.
OneBitLeft(e, Q) == 4 * T * Larger(e, 1) <= Q

-----------------------------------------------------------------------------
\* Key material.

\* Mutated form of ZeroRow: raw noise, the generic RLWE key.
ZeroRowRaw(s, a, e, b) == <<PolySub(FromIntegers(e, b), PolyMul(a, s, b), b), a>>

\* A row (b, a) with b + a s = T e: a public key, and the noise of every row of
\* an evaluation key.
ZeroRow(s, a, e, b) == <<PolySub(Scaled(e, T, b), PolyMul(a, s, b), b), a>>

\* generate_keypair_real
PublicKey(s, b) == ZeroRow(s, CommonElement(1, b), HolderError(0, 0), b)

\* BgvRelinearizationKey::generate: row (j, i) encrypts B^i G_j times the old
\* secret.
GadgetKey(old, s, b) ==
    [row \in Rows(b) |->
        LET zero == ZeroRow(s, CommonElement(row, b), Cyclic(RowErrors, row), b)
        IN  [zero EXCEPT ![1] = PolyAdd(ScaleForRow(old, row, b), @, b)]]

RelinearizationKey(s, b) == GadgetKey(PolyMul(s, s, b), s, b)
RotationKey(s, b) == GadgetKey(Automorphism(s, Element, b), s, b)

\* key_switch: digits against rows.
KeySwitch(p, key) ==
    LET digits == Digits(p, basis)
        part(c) == PolySum([row \in Rows(basis) |->
                       PolyMul(digits[row], key[row][c], basis)], basis)
    IN  <<part(1), part(2)>>

GeneratedKeys(h, b) ==
    LET s == SecretOf(h, b)
    IN  [public |-> PublicKey(s, b), relin |-> RelinearizationKey(s, b),
         galois |-> RotationKey(s, b)]

\* mpbgv: the same rows, from shares of the holders.
CollectivePublicKey(b) == AggregatePublicKey(T, b)

CollectiveRotationKey(b) ==
    LET rotated(p) == Automorphism(HolderSecret(p, b), Element, b)
    IN  CollectiveGaloisKey(
            [row \in Rows(b) |-> [p \in Holders |-> ScaleForRow(rotated(p), row, b)]], T, b)

CollectiveRelinearizationKey(b) ==
    CollectiveRelinKey(
        [row \in Rows(b) |-> [p \in Holders |-> ScaleForRow(HolderSecret(p, b), row, b)]],
        CollectivePublicKey(b), T, b)

CollectiveKeys(b) ==
    [public |-> CollectivePublicKey(b), relin |-> CollectiveRelinearizationKey(b),
     galois |-> CollectiveRotationKey(b)]

Keys(b) ==
    IF Len(holders) = 1 THEN [own |-> GeneratedKeys(holders, b), recipient |-> NoKeys]
    ELSE [own |-> CollectiveKeys(b), recipient |-> GeneratedKeys(<<Recipient>>, b)]

-----------------------------------------------------------------------------
\* Operations.  A result replaces x.

BgvInit ==
    /\ holders \in HolderSets
    /\ basis = Moduli
    /\ keys = Keys(Moduli)
    /\ x = None /\ y = None
    /\ ops = 0

Ciphertext(parts, m, noise) ==
    [parts |-> parts, plain |-> m, noise |-> noise, valid |-> TRUE]

\* Encryptor::encrypt with a secret key: c0 = m + T e - a s, c1 = a.
EncryptSecret(m, a, e) ==
    /\ ~Held(x) /\ Len(holders) = 1
    /\ x' = Ciphertext(CtAddPlain(ZeroRow(Secret(basis), Poly(a), e, basis), Encode(m), basis),
                       m, FreshSecretKeyNoise)
    /\ UNCHANGED y /\ KeepKeys

\* Encryptor::encrypt with a public key: c0 = m + b u + T e0, c1 = a u + T e1.
EncryptPublic(m, u, e0, e1) ==
    LET masked(c, e) == PolyAdd(PolyMul(keys.own.public[c], Poly(u), basis),
                                Scaled(e, T, basis), basis)
    IN  Ciphertext(CtAddPlain(<<masked(1, e0), masked(2, e1)>>, Encode(m), basis),
                   m, FreshPublicKeyNoise(CollectiveKeyNoise))

EncryptX(m, u, e0, e1) ==
    /\ ~Held(x) /\ Len(holders) > 1
    /\ x' = EncryptPublic(m, u, e0, e1)
    /\ UNCHANGED y /\ KeepKeys

EncryptY(m, u, e0, e1) ==
    /\ ~Held(y)
    /\ y' = EncryptPublic(m, u, e0, e1)
    /\ UNCHANGED x /\ KeepKeys

\* Evaluator::add and Evaluator::sub refuse ciphertexts of different degrees.
SameShape == Held(x) /\ Held(y) /\ Len(x.parts) = Len(y.parts)

Add ==
    /\ Step
    /\ SameShape
    /\ x' = [parts |-> CtAdd(x.parts, y.parts, basis),
             plain |-> PlainAdd(x.plain, y.plain),
             noise |-> x.noise + y.noise + SumCarry, valid |-> x.valid /\ y.valid]
    /\ Keep

Sub ==
    /\ Step
    /\ SameShape
    /\ x' = [parts |-> CtSub(x.parts, y.parts, basis),
             plain |-> PlainSub(x.plain, y.plain),
             noise |-> x.noise + y.noise + SumCarry, valid |-> x.valid /\ y.valid]
    /\ Keep

Neg ==
    /\ Step
    /\ Held(x)
    /\ x' = [x EXCEPT !.parts = CtNeg(@, basis), !.plain = PlainSub(PlainZero, @),
                      !.noise = @ + SumCarry]
    /\ Keep

AddPlain(m) ==
    /\ Step
    /\ Held(x)
    /\ x' = [x EXCEPT !.parts = CtAddPlain(@, Encode(m), basis),
                      !.plain = PlainAdd(@, m), !.noise = @ + SumCarry]
    /\ Keep

\* mul_plain multiplies by a ciphertext of one component.
MulPlain(m) ==
    /\ Step
    /\ Held(x) /\ x.noise <= NoiseCap
    /\ x' = [x EXCEPT !.parts = CtMul(@, <<Encode(m)>>, basis),
                      !.plain = PlainMul(@, m), !.noise = MulPlainNoise(@)]
    /\ Keep

\* Evaluator::mul without evaluation keys.
Mul ==
    /\ Step
    /\ Held(x) /\ Held(y) /\ x.noise <= NoiseCap /\ y.noise <= NoiseCap
    /\ x' = [parts |-> CtMul(x.parts, y.parts, basis),
             plain |-> PlainMul(x.plain, y.plain),
             noise |-> MulNoiseBound(Larger(x.noise, y.noise)) + ProductCarry,
             valid |-> x.valid /\ y.valid]
    /\ Keep

\* relinearize_real: exactly three components.
Relinearize ==
    /\ Step
    /\ Len(x.parts) = 3
    /\ x' = [x EXCEPT
                !.parts = CtAdd(SubSeq(@, 1, 2), KeySwitch(@[3], keys.own.relin), basis),
                !.noise = RelinearizeNoiseBound(RowCount(basis), @, RelinKeyNoise)]
    /\ Keep

\* rotate_real: exactly two components.
Rotate ==
    /\ Step
    /\ Len(x.parts) = 2
    /\ LET sigma(p) == Automorphism(p, Element, basis)
           switched == KeySwitch(sigma(x.parts[2]), keys.own.galois)
       IN  x' = [x EXCEPT
                    !.parts = CtAddPlain(switched, sigma(x.parts[1]), basis),
                    !.plain = PlainRotate(@),
                    !.noise = RelinearizeNoiseBound(RowCount(basis), @, CollectiveKeyNoise)
                                  + SumCarry]
    /\ Keep

\* switch_next_real on every ciphertext, with next_params and
\* switch_secret_key; keys are generated anew for the smaller ring.
Switched(ct) ==
    IF ~Held(ct) THEN ct
    ELSE [ct EXCEPT
            !.parts = [c \in DOMAIN @ |->
                          [i \in Coeffs |-> ModulusSwitchDown(@[c][i], basis, T)]],
            !.noise = SwitchNoise(@, ct.parts)]

SwitchModulus ==
    /\ Step
    /\ Len(basis) > 1
    /\ basis' = DropLast(basis)
    /\ keys' = Keys(DropLast(basis))
    /\ x' = Switched(x) /\ y' = Switched(y)
    /\ UNCHANGED holders

-----------------------------------------------------------------------------
\* The collective operations of mpbgv.

\* PartialDecryptor, decoded.
JointlyDecrypted(ct) == Decode(JointPhase(ct.parts, T, basis))
JointNoise(e) == e + Len(holders) * SmudgeBound

\* ReEncryptor: from here on the recipient holds the key alone.  What else was
\* encrypted under the old one is gone.
ReEncrypt ==
    /\ Step
    /\ Held(x) /\ Len(holders) > 1
    /\ x' = [x EXCEPT !.parts = ReEncrypted(@, keys.recipient.public, T, basis),
                      !.noise = @ + ReEncryptNoise,
                      !.valid = @ /\ Len(x.parts) = 2]
    /\ y' = None
    /\ holders' = <<Recipient>>
    /\ keys' = [own |-> keys.recipient, recipient |-> NoKeys]
    /\ UNCHANGED basis

\* Mutated form of Reveal: the revealed sum is not reduced modulo T again, so
\* the noise of the input comes along.
RevealUnreduced(p) == p

\* decode_u64 of what the masks leave, encoded again.
Reveal(p) == Encode(Decode(p))

\* InteractiveBootstrap.  The masks add up to more than T: n carries.
RefreshNoise == Len(holders) * (ErrorBound + 1)

Refresh(masks) ==
    /\ Step
    /\ Held(x) /\ Len(holders) > 1
    /\ x' = [x EXCEPT
                !.parts = LET sums == MaskedSums(@, [p \in Holders |-> Encode(masks[p])], T, basis)
                          IN  Refreshed(Reveal(sums.masked), sums, basis),
                !.noise = RefreshNoise,
                !.valid = @ /\ Len(x.parts) = 2
                            /\ Margin(JointNoise(x.noise) + Len(holders), basis[1])]
    /\ Keep

BgvNext ==
    \/ \E m \in Messages, a \in Masks, e \in Errors : EncryptSecret(m, a, e)
    \/ \E m \in Messages, u \in Ternaries, e0, e1 \in Errors :
          EncryptX(m, u, e0, e1) \/ EncryptY(m, u, e0, e1)
    \/ Add \/ Sub \/ Neg \/ Mul \/ Relinearize \/ Rotate \/ SwitchModulus
    \/ \E m \in Messages : AddPlain(m) \/ MulPlain(m)
    \/ ReEncrypt
    \/ \E masks \in [Holders -> Messages] : Refresh(masks)

BgvSpec == BgvInit /\ [][BgvNext]_vars

-----------------------------------------------------------------------------
\* Properties.

BgvTypeOK ==
    /\ holders \in HolderSets \cup {<<Recipient>>}
    /\ \A c \in 1..2 :
          /\ Reduced(keys.own.public[c], basis)
          /\ \A row \in Rows(basis) :
                Reduced(keys.own.relin[row][c], basis) /\ Reduced(keys.own.galois[row][c], basis)
    /\ \A ct \in HeldCts :
          /\ \A c \in DOMAIN ct.parts : Reduced(ct.parts[c], basis)
          /\ ct.plain \in [Coeffs -> 0..(T - 1)]
          /\ ct.noise \in Nat /\ ct.valid \in BOOLEAN
    /\ ops \in 0..MaxOps

\* c0 + c1 s + ... - m as integers about zero: T e, if nothing wrapped around.
Residual(ct) ==
    LET p == Phase(ct.parts, Secret(basis), basis)
    IN  [i \in Coeffs |-> CentredValue(p[i], basis) - ct.plain[i]]

\* The relation that the mod-T decoding rests on survives every operation, key
\* switch, modulus switch, re-encryption and refresh, under keys generated by
\* one holder and by several: what is left of a ciphertext beside its message
\* is a multiple of T, within the bound that noise.rs computes.
BgvNoiseBounded ==
    \A ct \in HeldCts :
        ct.valid /\ Margin(ct.noise, BasisProduct(basis)) =>
        LET rest == Residual(ct)
        IN  \A i \in Coeffs :
                /\ rest[i] % T = 0
                /\ rest[i] \in (-T * ct.noise)..(T * ct.noise)

\* Whatever was computed, as long as the bound leaves a margin below the first
\* modulus, decrypting and decoding gives the plaintext of the computation: by
\* the holder of the key, or by the partial decryptions of all holders, whose
\* smudging noise has to fit too.
BgvDecrypts ==
    \A ct \in HeldCts :
        /\ ct.valid /\ Margin(ct.noise, basis[1]) => Decrypted(ct) = ct.plain
        /\ ct.valid /\ Len(ct.parts) = 2 /\ Margin(JointNoise(ct.noise), basis[1])
               => JointlyDecrypted(ct) = ct.plain

\* The digits of every component recompose to it, for rings of more than one
\* modulus too: what key switching relies on.
BgvDigitsRecompose ==
    \A ct \in HeldCts : \A c \in DOMAIN ct.parts :
        Recompose(Digits(ct.parts[c], basis), basis) = ct.parts[c]

\* What modulus_switch.rs promises: the message is unchanged by
\* switch_next_real.
SwitchKeepsMessage ==
    [][SwitchModulus /\ Held(x) /\ x.valid /\ Margin(x.noise', BasisProduct(basis'))
         => Decrypted(x)' = Decrypted(x)]_vars

\* What noise.rs says of noise_budget_bits: a positive budget, counted over the
\* whole modulus product, is margin left before decryption breaks.
BudgetDecrypts ==
    \A ct \in HeldCts :
        ct.valid /\ OneBitLeft(ct.noise, BasisProduct(basis)) => Decrypted(ct) = ct.plain

=============================================================================
