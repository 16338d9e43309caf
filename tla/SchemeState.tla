----------------------------- MODULE SchemeState -----------------------------
(***************************************************************************)
(* What the three schemes, BGV, BFV and CKKS, have in common: the samples  *)
(* randomness is taken from, and the state of a computation.               *)
(*                                                                         *)
(* A secret key is the sum of the ternary secrets of its holders: one for  *)
(* a single-key computation, several when the key was generated            *)
(* collectively and nobody knows the sum.  Two ciphertexts are carried     *)
(* along: x, which operations write to, and y, their second operand.       *)
(***************************************************************************)
EXTENDS HybridSwitch

CONSTANTS T,            \* the plaintext modulus of BGV and BFV
          HolderSets,   \* sequences of ternary secrets, as integer polynomials
          Recipient,    \* the ternary secret of a recipient outside the holders
          Messages,     \* plaintexts: polynomials with coefficients below T
          Masks,        \* samples of sample_uniform, as integer polynomials
          Errors,       \* samples of sample_discrete_gaussian
          ErrorBound,   \* fresh_error_bound: no such sample exceeds it
          Ternaries,    \* samples of sample_ternary
          RowMasks,     \* sequences the rows of evaluation keys and the holders
          RowErrors,    \*   of a collective operation take their samples from
          RowTernaries,
          Smudging,     \* a sequence of samples of sample_smudging_gaussian
          SmudgeBound,  \* the largest coefficient of them
          PModuli,      \* the auxiliary moduli of hybrid key switching
          Element,      \* the Galois element rotated by
          MaxOps        \* bound: operations in a behaviour

SmallPolys(b) == [Coeffs -> (-b)..b]
Small(p, b) == p \in SmallPolys(b)

ASSUME SampleAssumption ==
    /\ T \in Nat /\ T > 2
    /\ HolderSets \subseteq Seq(SmallPolys(1)) /\ \A h \in HolderSets : Len(h) > 0
    /\ Small(Recipient, 1)
    /\ \A m \in Messages : m \in [Coeffs -> 0..(T - 1)]
    /\ \A a \in Masks : a \in [Coeffs -> Int]
    /\ ErrorBound \in Nat /\ \A e \in Errors : Small(e, ErrorBound)
    /\ \A u \in Ternaries : Small(u, 1)
    /\ RowMasks \in Seq([Coeffs -> Int]) /\ Len(RowMasks) > 0
    /\ RowErrors \in Seq(SmallPolys(ErrorBound)) /\ Len(RowErrors) > 0
    /\ RowTernaries \in Seq(SmallPolys(1)) /\ Len(RowTernaries) > 0
    /\ SmudgeBound \in Nat /\ Smudging \in Seq(SmallPolys(SmudgeBound)) /\ Len(Smudging) > 0
    /\ Element \in Nat /\ Element % 2 = 1 /\ MaxOps \in Nat

VARIABLES
    holders,  \* the ternary secrets whose sum is the secret key
    keys,     \* public and evaluation keys, and those of the recipient
    basis,    \* the moduli of the current level
    x, y,     \* the two ciphertexts
    ops       \* operations on them so far, encryption aside

vars == <<holders, keys, basis, x, y, ops>>

PlainZero == [i \in Coeffs |-> 0]
None == [parts |-> <<>>, plain |-> PlainZero, noise |-> 0]
Held(ct) == ct.parts # <<>>

Poly(f) == FromIntegers(f, basis)

\* Sample number n of a sequence.
Cyclic(samples, n) == samples[(n % Len(samples)) + 1]

\* The secret key of holders h in a basis, and the largest coefficient it can
\* have.
SecretOf(h, b) == PolySum([p \in DOMAIN h |-> FromIntegers(h[p], b)], b)
HolderSecret(p, b) == FromIntegers(holders[p], b)
Secret(b) == SecretOf(holders, b)
SecretBound == Len(holders)

Step == ops < MaxOps /\ ops' = ops + 1

\* What an operation that writes to x leaves alone.
Keep == UNCHANGED <<holders, keys, basis, y>>

\* What encryption leaves alone.
KeepKeys == UNCHANGED <<holders, keys, basis, ops>>

HeldCts == {ct \in {x, y} : Held(ct)}

\* Polynomials of a ciphertext or a key are reduced and live in the ring of
\* their basis.
Reduced(p, b) ==
    \A i \in Coeffs :
        /\ DOMAIN p[i] = DOMAIN b
        /\ \A j \in DOMAIN b : p[i][j] \in 0..(b[j] - 1)

-----------------------------------------------------------------------------
\* Plaintexts of BGV and BFV: coefficients modulo T.

PlainAdd(a, b) == [i \in Coeffs |-> (a[i] + b[i]) % T]
PlainSub(a, b) == [i \in Coeffs |-> (a[i] - b[i]) % T]
PlainMul(a, b) ==
    [k \in Coeffs |-> NegacyclicCoeff(a, b, k) % T]
PlainRotate(a) ==
    LET p == Automorphism([i \in Coeffs |-> <<a[i]>>], Element, <<T>>)
    IN  [i \in Coeffs |-> p[i][1]]

RingProductBound(a, b) == Degree * a * b

Larger(a, b) == IF a > b THEN a ELSE b
=============================================================================
