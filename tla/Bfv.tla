--------------------------------- MODULE Bfv ---------------------------------
(***************************************************************************)
(* Real BFV, phantom-schemes/src/bfv: the message is scaled by Delta =     *)
(* floor(Q / T) and the noise is raw.  Products are tensors over QP, scaled *)
(* by T / Q and rounded; keys are switched the RNS hybrid way.  The same   *)
(* under a collective key, phantom-multiparty/src/mpbfv.                   *)
(*                                                                         *)
(* There is one level: basis stays Moduli.  The ghosts of a ciphertext are *)
(* those of Bgv; noise bounds the e of c0 + c1 s = Delta m + e.            *)
(***************************************************************************)
EXTENDS Collective

CONSTANTS Moduli,    \* the ciphertext moduli
          NoiseCap   \* bound: no operand of a product is noisier

Q == BasisProduct(Moduli)
QP == Moduli \o PModuli
Delta == Q \div T
\* Delta T = Q - Excess: a message that passes T leaves this much noise.
Excess == Q % T

-----------------------------------------------------------------------------
\* Encoding and decoding.

\* Mutated form of ScaleByDelta: Q / T of each modulus, not of their product.
ScaleByDeltaPerModulus(m) ==
    [i \in Coeffs |-> [j \in DOMAIN basis |->
        MulMod(m[i] % basis[j], basis[j] \div T, basis[j])]]

\* encode_u64 and scale_by_delta; encode_u64_real.
ScaleByDelta(m) ==
    [i \in Coeffs |-> [j \in DOMAIN basis |->
        MulMod(m[i] % basis[j], FloorDivideResidues(basis, T)[j], basis[j])]]

Encode(m) == Poly([i \in Coeffs |-> m[i] % T])

\* decode_u64_real
Decode(p) == [i \in Coeffs |-> DecodeScaledValue(p[i], basis, T)]

Decrypted(ct) == Decode(Phase(ct.parts, Secret(basis), basis))

-----------------------------------------------------------------------------
\* noise.rs: bounds on the raw e.

FreshSecretKeyNoise == ErrorBound
FreshPublicKeyNoise ==
    RingProductBound(1, CollectiveKeyNoise) + RingProductBound(SecretBound, ErrorBound)
        + ErrorBound

\* What a sum and a product of messages leave when they are reduced modulo T.
SumCarry == Excess
ProductCarry == Excess * (RingProductBound(T - 1, T - 1) \div T + 1)

MulPlainNoise(e) == RingProductBound(T - 1, e) + ProductCarry

\* mul_noise_bound counts the messages and the errors.  It leaves out what c0
\* and c1, extended as residues in 0..Q-1, add to c0 + c1 s: up to Wraps times Q,
\* which the other operand's error and message multiply; and the rounding of the
\* parts that s and s^2 multiply.
Wraps == 1 + Degree * SecretBound
CodeMulNoiseBound(e) == RingProductBound(T + e, T + e) + 1
MulNoise(e, f) ==
    CodeMulNoiseBound(Larger(e, f))
        + RingProductBound(Wraps, T * (e + f) + 2 * Excess * (T - 1))
        + ProductCarry + (Degree * SecretBound) ^ 2

SwitchNoise(rowNoise) == HybridNoise(rowNoise, SecretBound, Moduli, PModuli)

\* DecodeScaledValue finds the message.
Margin(e) == e <= Delta \div 2 - T

-----------------------------------------------------------------------------
\* Operations.  A result replaces x.

Init ==
    /\ holders \in HolderSets
    /\ basis = Moduli
    /\ keys = [own |-> HybridKeys(Moduli), recipient |-> GeneratedHybridKeys(<<Recipient>>, Moduli)]
    /\ x = None /\ y = None
    /\ ops = 0

Ciphertext(parts, m, noise) ==
    [parts |-> parts, plain |-> m, noise |-> noise, valid |-> TRUE]

\* Encryptor::encrypt, RealSecretKey: c0 = Delta m + e - a s.
EncryptSecret(m, a, e) ==
    /\ ~Held(x) /\ Len(holders) = 1
    /\ x' = Ciphertext(EncryptUnder(Secret(basis), ScaleByDelta(m), Poly(a), Poly(e), basis),
                       m, FreshSecretKeyNoise)
    /\ UNCHANGED y /\ KeepKeys

\* RealPublicKey: c0 = Delta m + b u + e0.
EncryptPublic(m, u, e0, e1) ==
    Ciphertext(EncryptWith(keys.own.public, ScaleByDelta(m), Poly(u), Poly(e0), Poly(e1), basis),
               m, FreshPublicKeyNoise)

EncryptX(m, u, e0, e1) ==
    /\ ~Held(x) /\ Len(holders) > 1
    /\ x' = EncryptPublic(m, u, e0, e1)
    /\ UNCHANGED y /\ KeepKeys

EncryptY(m, u, e0, e1) ==
    /\ ~Held(y)
    /\ y' = EncryptPublic(m, u, e0, e1)
    /\ UNCHANGED x /\ KeepKeys

\* add and sub refuse ciphertexts of different degrees.
SameShape == Held(x) /\ Held(y) /\ Len(x.parts) = Len(y.parts)

Add ==
    /\ Step
    /\ SameShape
    /\ x' = [parts |-> CtAdd(x.parts, y.parts, basis),
             plain |-> PlainAdd(x.plain, y.plain),
             noise |-> x.noise + y.noise + SumCarry, valid |-> x.valid /\ y.valid]
    /\ Keep

Sub ==
    /\ Step
    /\ SameShape
    /\ x' = [parts |-> CtSub(x.parts, y.parts, basis),
             plain |-> PlainSub(x.plain, y.plain),
             noise |-> x.noise + y.noise + SumCarry, valid |-> x.valid /\ y.valid]
    /\ Keep

Neg ==
    /\ Step
    /\ Held(x)
    /\ x' = [x EXCEPT !.parts = CtNeg(@, basis), !.plain = PlainSub(PlainZero, @),
                      !.noise = @ + SumCarry]
    /\ Keep

\* add_plain_real scales the plaintext, mul_plain does not.
AddPlain(m) ==
    /\ Step
    /\ Held(x)
    /\ x' = [x EXCEPT !.parts = CtAddPlain(@, ScaleByDelta(m), basis),
                      !.plain = PlainAdd(@, m), !.noise = @ + SumCarry]
    /\ Keep

MulPlain(m) ==
    /\ Step
    /\ Held(x) /\ x.noise <= NoiseCap
    /\ x' = [x EXCEPT !.parts = CtMul(@, <<Encode(m)>>, basis),
                      !.plain = PlainMul(@, m), !.noise = MulPlainNoise(@)]
    /\ Keep

\* mul_real reads the first two components of its operands, whatever they have
\* beside them.
Extended(p) == PolyExtend(p, Moduli, QP)

Tensor(a, b) ==
    LET product == CtMul([c \in 1..2 |-> Extended(a[c])], [c \in 1..2 |-> Extended(b[c])], QP)
    IN  [c \in 1..3 |-> [i \in Coeffs |-> RescaleAndRound(product[c][i], Moduli, PModuli, T)]]

Mul ==
    /\ Step
    /\ Held(x) /\ Held(y) /\ x.noise <= NoiseCap /\ y.noise <= NoiseCap
    /\ x' = [parts |-> Tensor(x.parts, y.parts),
             plain |-> PlainMul(x.plain, y.plain),
             noise |-> MulNoise(x.noise, y.noise),
             valid |-> x.valid /\ y.valid /\ Len(x.parts) = 2 /\ Len(y.parts) = 2]
    /\ Keep

\* relinearize_real: exactly three components.
Relinearize ==
    /\ Step
    /\ Len(x.parts) = 3 /\ KeyFits(keys.own.relin, basis)
    /\ x' = [x EXCEPT !.parts = HybridRelinearize(@, keys.own.relin, Moduli, PModuli),
                      !.noise = @ + SwitchNoise(RelinKeyNoise)]
    /\ Keep

\* rotate_real: exactly two components.
Rotate ==
    /\ Step
    /\ Len(x.parts) = 2 /\ KeyFits(keys.own.galois, basis)
    /\ x' = [x EXCEPT !.parts = HybridAutomorphism(@, Element, keys.own.galois, Moduli, PModuli),
                      !.plain = PlainRotate(@),
                      !.noise = @ + SwitchNoise(CollectiveKeyNoise) + SumCarry]
    /\ Keep

-----------------------------------------------------------------------------
\* The collective operations of mpbfv.

\* PartialDecryptor, decoded.
JointlyDecrypted(ct) == Decode(JointPhase(ct.parts, 1, basis))
JointNoise(e) == e + Len(holders) * SmudgeBound

\* ReEncryptor, as in Bgv.
ReEncrypt ==
    /\ Step
    /\ Held(x) /\ Len(holders) > 1
    /\ x' = [x EXCEPT !.parts = ReEncrypted(@, keys.recipient.public, 1, basis),
                      !.noise = @ + ReEncryptNoise,
                      !.valid = @ /\ Len(x.parts) = 2]
    /\ y' = None
    /\ holders' = <<Recipient>>
    /\ keys' = [own |-> keys.recipient, recipient |-> NoKeys]
    /\ UNCHANGED basis

\* decode_u64_real of what the masks leave, encode_u64_real again.
Reveal(p) == ScaleByDelta(Decode(p))

\* InteractiveBootstrap.  The masks add up to more than T: n times Excess.
RefreshNoise == Len(holders) * (ErrorBound + Excess)

Refresh(masks) ==
    /\ Step
    /\ Held(x) /\ Len(holders) > 1
    /\ x' = [x EXCEPT
                !.parts = LET sums == MaskedSums(@, [p \in Holders |-> ScaleByDelta(masks[p])],
                                                 1, basis)
                          IN  Refreshed(Reveal(sums.masked), sums, basis),
                !.noise = RefreshNoise,
                !.valid = @ /\ Len(x.parts) = 2
                            /\ Margin(JointNoise(x.noise) + Len(holders) * Excess)]
    /\ Keep

Next ==
    \/ \E m \in Messages, a \in Masks, e \in Errors : EncryptSecret(m, a, e)
    \/ \E m \in Messages, u \in Ternaries, e0, e1 \in Errors :
          EncryptX(m, u, e0, e1) \/ EncryptY(m, u, e0, e1)
    \/ Add \/ Sub \/ Neg \/ Mul \/ Relinearize \/ Rotate
    \/ \E m \in Messages : AddPlain(m) \/ MulPlain(m)
    \/ ReEncrypt
    \/ \E masks \in [Holders -> Messages] : Refresh(masks)

Spec == Init /\ [][Next]_vars

-----------------------------------------------------------------------------
\* Properties.

BfvTypeOK ==
    /\ holders \in HolderSets \cup {<<Recipient>>}
    /\ \A c \in 1..2 :
          /\ Reduced(keys.own.public[c], Moduli)
          /\ \A j \in DOMAIN Moduli :
                Reduced(keys.own.relin[j][c], QP) /\ Reduced(keys.own.galois[j][c], QP)
    /\ \A ct \in HeldCts :
          /\ \A c \in DOMAIN ct.parts : Reduced(ct.parts[c], basis)
          /\ ct.plain \in [Coeffs -> 0..(T - 1)]
          /\ ct.noise \in Nat /\ ct.valid \in BOOLEAN
    /\ ops \in 0..MaxOps

\* c0 + c1 s + ... - Delta m about zero.
Residual(ct) ==
    LET p == Phase(ct.parts, Secret(basis), basis)
    IN  [i \in Coeffs |-> Centre((TrueValue(p[i], basis) - Delta * ct.plain[i]) % Q, Q)]

\* The scaled message survives every operation of every holder, with no more
\* noise beside it than the bounds say: the rescaled tensor, the hybrid key
\* switches with their two roundings, and the collective operations.
ScaledMessage ==
    \A ct \in HeldCts :
        ct.valid /\ Margin(ct.noise) =>
        LET rest == Residual(ct)
        IN  \A i \in Coeffs : rest[i] \in (-ct.noise)..(ct.noise)

\* noise.rs calls mul_noise_bound a sound closed form: what is beside the scaled
\* product of two ciphertexts whose noise the bound knows stays within it.
MulWithinCodeBound ==
    [][Mul /\ x'.valid =>
        LET rest == Residual(x')
            bound == CodeMulNoiseBound(Larger(x.noise, y.noise))
        IN  \A i \in Coeffs : rest[i] \in (-bound)..bound]_vars

\* As long as the bound leaves a margin below Delta / 2, decryption gives the
\* plaintext of the computation: by the holder of the key, or by the partial
\* decryptions of all holders.
BfvDecrypts ==
    \A ct \in HeldCts :
        /\ ct.valid /\ Margin(ct.noise) => Decrypted(ct) = ct.plain
        /\ ct.valid /\ Len(ct.parts) = 2 /\ Margin(JointNoise(ct.noise))
               => JointlyDecrypted(ct) = ct.plain
=============================================================================
