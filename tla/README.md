# Phantom FHE in TLA+

This directory is a verification project for the Rust workspace `phantom-fhe`: TLA+ modules
translated from the source, TLC configurations that check them on small instances, and
theorems that TLAPS proves for every instance.

## The system

Phantom is a library: no threads, no I/O. A computation on one machine is sequential, so
what is hard there is arithmetic (word widths, representatives, rounding, what level and
scale a ciphertext is at). What is concurrent is `phantom-multiparty`: a protocol is run by
participants in processes of their own, over a transport the caller brings, towards one or
more combiners; the library's types have to hold up against delays, repetitions, failures
and restarts that no unit test arranges.

| component | state it keeps | operations | interacts with | hard | correct means |
|---|---|---|---|---|---|
| sessions, shares, aggregation (`multiparty/common`) | session id, protocol, round, threshold; the aggregator's map | `Share::new`, `add_share`, `is_ready`, `all_shares` | every protocol | late, repeated, foreign shares; thresholds | a result sums exactly one share of each member for this session, round, protocol and kind; results agree and are final |
| replay guard | set of used (session, round, protocol, participant) | `record_use` | every `create_share` | failed calls, restarts | one share per slot is ever released |
| relinearization key (`*/rkg.rs`) | none of its own; rounds by `advance_round` | two or three rounds | aggregation, guard | round n+1 uses what round n published | every share of a key folds the same round-1 aggregate |
| collective protocols (`mpbgv`, `mpbfv`, `mpckks`) | none | ckg, gkg, partial decryption, re-encryption, interactive bootstrap | schemes, ring | noise, masks, shared constants that must not be summed | the sum decrypts to the same plaintext under the collective key |
| verifiable secret sharing (`vss`) | polynomial, accumulator (sum, dealers seen) | sample, commit, verify, accumulate, finalize, reconstruct | - | damaged, repeated, misdirected shares; sign of the secret | checked final shares reconstruct the sum of the secrets |
| public transcript | ordered messages | `append`, `hash` | sessions | messages that never went through `new`; field boundaries | transcripts that differ hash differently |
| modular reduction, NTT, RNS (`phantom-ring`) | precomputed constants | Barrett, Montgomery, transforms, CRT, `mod_down`, `modulus_switch_down`, `rescale_and_round` | everything above | word width, representatives, rounding | equals the integer definition |
| RLWE, RGSW (`phantom-lattice`) | keys, rows | encrypt, decrypt, key switch, external product | schemes | gadget rows, noise | decrypts to the operand's function |
| BGV, BFV, CKKS (`phantom-schemes`) | ciphertexts with level and scale (CKKS) | encode, encrypt, add, mul, relinearize, rotate, modulus switch, rescale | circuits | noise, levels, scales | plaintext semantics preserved |
| circuits (`phantom-circuits`) | plans | BSGS transforms, Paterson-Stockmeyer | schemes | index arithmetic, depth | equals the direct evaluation |
| bootstrapping | keys, level budget | CKKS pipeline; BGV/BFV reserved | circuits | level budget | returns a fresh level |
| wire encodings, serialization | reader position | encode, decode | all | truncated or extended input, tags, what an encoding drops | what is read is what was written |

`PROJECT.json` lists every component with its sources, and the hazards with their lines.

## Modules

Sessions and protocols:

| module | models | state and actions |
|---|---|---|
| `ShareExchange` | one protocol run: guard, `create_share`, transport, `ShareAggregator` | `guard`, `saved`, `outbox` per process; `net`; `collected`, `result` per combiner. `CreateShare` is `record_use` and `Share::new` of one call, `CreateShareFails` a call that fails behind `record_use`; `AddShare` is `add_share` with `check_for_session`; `Aggregate` is `all_shares` in an aggregate method. `SaveGuard`, `Send`, `Restart`, `CombinerRestart` are the callers' steps (external) |
| `CollectiveResult` | what a protocol promises | a member commits once per session, a result is the family of all commitments |
| `Rkg` | the rounds of a collective relinearization key, on top of `ShareExchange` | `outputs`: every aggregate of each round ever handed out; `inputs`: the aggregates each share folded in. `CreateRoundShare` folds one aggregate of every earlier round, `AggregateRound` publishes one |
| `VssDkg` | dealing, `verify`, `ShareAccumulator`, `verify_combined`, `reconstruct_secret` | `poly` per dealer; `sum`, `seen`, `final` per recipient; `Deal`, `AddVerifiedShare`, `Finalize`, `VerifyCombined`, `Reconstruct`, and the transport's `Corrupt`. `finalize` itself asks for nothing; `MayFinalize` (external) is when its callers call it |
| `Wire` | shares, transcripts, payload polynomials and tagged encodings, with their decoders | operators only |

Schemes:

| module | models | state and actions |
|---|---|---|
| `Residues`, `Rns` | `reduce/mod.rs`; `rns/*.rs` for one coefficient | operators only |
| `RingPoly`, `Rlwe`, `HybridSwitch` | `ring.rs`; encryption, decryption, ciphertext arithmetic, gadget decomposition; `keyswitch.rs` and what uses it | operators only |
| `SchemeState` | what the three schemes have in common | `holders`: the secrets of one key holder or of several; `x`, `y`: two ciphertexts; `basis`, `keys`, `ops` |
| `Collective` | what a holder computes for a share of each protocol, and what the shares add up to (`common/hybrid.rs`, `mpbgv`, `mpbfv`, `mpckks`) | operators only |
| `Bgv`, `Bfv`, `Ckks` | the real paths of the schemes | one action per method of `Encryptor`, `Evaluator`, `ModulusSwitcher`; `ReEncrypt` and `Refresh` are the collective ones |
| `Schemes` | a computation under any of the three; it extends `Bgv` and instantiates the other two | `scheme`, chosen at the start |

Algorithms and circuits:

| module | models |
|---|---|
| `Words`, `Bignum` | Barrett and Montgomery reduction word by word; `BigUint` |
| `Ntt` | root search, tables, bit reversal, butterflies, both transforms, `Ring::mul` through them |
| `Slots` | BGV's batched encoding, slot exponents, rotation elements (BFV's is the same) |
| `SlotCircuits` | linear transforms and Horner evaluation on slots, the baby-step giant-step and Paterson-Stockmeyer schedules |
| `CkksCircuits` | the same with levels, scales and keys; CoeffsToSlots, EvalMod, SlotsToCoeffs, `bootstrap_real_wide` |
| `CaseWalk` | a counter `x` that walks through the cases; `RnsCases`, `RingCases`, `SlotCases`, `CkksCircuitCases` and `WireCases` make the inputs of each algorithm from `x` and state what must come out |

`ExchangeProofs`, `VssProofs`, `ArithmeticProofs`, `RnsProofs`, `CaseProofs`, `RingProofs`,
`BgvKeyProofs` and `BgvProofs` hold the theorems; the `MC...` modules give the constants of
the runs.

`ShareExchange` abstracts a payload to `draw`, the randomness one `create_share` call
consumed, and an aggregate to the family of shares it sums: that is all the session layer
looks at. Duplicates need no action: `net` keeps every share ever sent, and delivery never
removes one. A session's participant set and threshold are those of all sessions of a run.
`check_for_session` compares id, protocol and round; the model does the same, although two
records with equal fields are equal.

`VssDkg` replaces the group of 2^252 elements by a prime field of `L` elements, one
coordinate of the value vector (all coordinates and the blinding obey the same equations),
and takes commitments as binding: a commitment set is its dealer's coefficients.

`Rkg` instantiates nothing anew: it extends `ShareExchange` with what each round folds. A
round is a session (`RoundSession`), rounds follow `advance_round`, and an aggregate is
again the family of shares it sums. BGV has two rounds; BFV and CKKS put a round for the
extended public key before them.

A collective protocol is modelled in two halves. `ShareExchange` (and `Rkg`) say which
shares a result sums: with an n-of-n session, one of each member, all for the same session,
round and kind. `Collective` starts from there: it adds up one contribution of each holder,
and the scheme modules use the aggregated public, relinearization and rotation keys, the
joint decryption, re-encryption and refresh in the place of the single holder's. The same
properties are then asked of both.

`Bgv`, `Bfv` and `Ckks` keep residue vectors as the code does, so that a wrong lift constant
or a missing reduction shows. A polynomial is indexed by coefficient first (the code: by
modulus first). The ghosts `plain` (BGV, BFV) or `slots` (CKKS) and `noise` are what a caller
computes on the side: the plaintext of the computation, and the bounds of the `noise.rs`
files. Where those give no bound, or leave out a part (below), the modules add their own,
named apart (`SumCarry`, `ProductCarry`, `MulPlainNoise`, `SwitchNoise`, `Wraps`). In `Ckks`
scales are fractions, precision is counted in units of 1 / `Unit`, and `estimate` is the
precision the code tracks. Evaluation keys are regenerated per level, as the code requires.
`valid` marks ciphertexts whose message the code does not promise anymore, such as a BFV
product of an operand that was not relinearized, whose third component `mul_real` ignores;
the model still computes what the code computes.

`CkksCircuits` takes the slots' values from a prime field that has the roots of unity of the
embedding: a slot is a value with its conjugate, so that the matrices and the pipeline are
exact. Rounding and noise are `Ckks`'s. The sine and cosine approximations are replaced by
polynomials with as many coefficients that agree with a sine and a cosine of that field;
`Drifts` gives how far each modulus is from the default scale.

`Wire` writes an encoding as a sequence of fields: every field has a fixed width, so the
boundaries are the bytes'. A reader returns the set of what it read, empty for an error.

## Design remarks

What reading the code against the models showed, without contradicting a promise:

* Barrett reduction needs one correction at most; the code allows two. The Montgomery
  reducer is used by tests only.
* The refresh bounds ignore the carry of the masks; `fresh_public_key_noise_bound` assumes a
  ternary secret, which the sum of several is not. The modules' own parts cover these.
* `rescale_degrade_bits` counts 1 for the rounding, which the secret multiplies as well;
  relinearization, rotation and the tolerated drift of scales are not counted at all.
  `EstimateSound` is asked of the steps that are.
* Decoders of shares and messages refuse what follows the object; the tagged decoders of
  parameters, ciphertexts and keys ignore it. `Transcript::append` does not check that a
  decoded message's sender is a member; `decode_poly` checks shapes, not residues; an
  evaluation key comes back from its encoding as a placeholder, as documented.

One comment contradicts the code in a count of levels and has no run of its own: that of
`reduce_mod_q_real_complex_wide` (`eval_mod.rs:500-511`) adds up 21 levels and the doublings, taking the shared reduction's for 19 and the doublings. The comment on that reduction
(`eval_mod.rs:266`) and the code have 20, so the complex reduction takes 22 and the doublings.
`ComplexReducesParts`, a part of `CircuitsLand`, therefore states only how the two relate: one
level before and one after the real reduction, whose parts come out rejoined.

## Runs

| run | question | bounds |
|---|---|---|
| `exchange` | does an n-of-n session release one share per member; is each field of a session, and the kind, compared before a share is summed; do all results agree, cover everyone, stay final and implement `CollectiveResult`; does every aggregation come to an end? | 2 members, 1 process outside the set, 2 kinds; 2 combiners of the session and 1 each of three sessions that differ in id, protocol or round; the members and the session's two combiners restart once: enough for a share lost, remade or delivered to one combiner only. Fairness, hence no symmetry |
| `exchange_offline` (violation) | does an offline participant block the operation? | threshold 2 of 3 |
| `vss_safety` | do sums hold what was accepted, does every qualifying subset reconstruct the secret, and does a run without faults get there? | 2 dealers, 3 recipients, threshold 2, `L` = 7, one fault at most, fairness |
| `vss_dealer_count` (violation) | does `dealer_count` count accumulated dealers? | 1 dealer, 2 recipients, one damaged share |
| `rkg_rounds` | do all shares of a round fold the same complete aggregate; does a published key come from one chain of aggregates; do the rounds run to the key? | 2 members, 3 rounds, 2 combiners of the first round and 1 of each other; one member and one combiner of the first round restart; fairness. (With every process restarting, three rounds take TLC more than five minutes; the theorems below cover the safety properties for any restarts) |
| `rns_exact` | do the pure algorithms compute what they are defined to? One property per family: residues (5), words and big integers (2), transform, slots, slot circuits, CKKS circuits (3), encodings | every value of the basis 11, 7, 13 with plaintext modulus 3, no sampling; words of 5 bits with every modulus and every value up to 1000; degree 8 modulo 17; up to 5 doublings on 30 levels; the first 150, 15, 12 and 200 cases for whole polynomials, plaintexts, circuits and encodings |
| `rns_closest` (violation) | is the switched value the closest of its residue class? | basis 11, 7 with `T` = 3 |
| `wire_kinds` (violation) | does every kind and protocol of a share come back from its encoding? | named and custom ones with tags 1 to 9 |
| `schemes_compute` | does every computation, under each scheme, with one key holder or two, keep its message, its noise bound and its precision? | degree 2, `T` = 3; BGV modulo 8089 and 43, BFV modulo 101 and 109 extended by 293 and 313, CKKS modulo 4093 and 263 extended by 997 with default scale 256; one sample of each kind; 4 operations: a product that is relinearized, switched, refreshed or multiplied again |
| `bgv_switch` (violation) | is the message unchanged by modulus switching? | second modulus 41, which is 2 modulo 3 |
| `bgv_budget` (violation) | does a positive noise budget mean that decoding works? | first modulus 43, second 8089 |
| `bfv_mul_noise` (violation) | is `mul_noise_bound` a bound of a product's noise? | degree 2, `T` = 7, modulo 61 and 67 extended by 181 and 191; one product of two fresh ciphertexts |

The moduli of `schemes_compute` and `bgv_*` are as small as products allow: TLC's integers
have 32 bits, and a product of two reduced values must fit. Degree 2 is the smallest ring
where the sign of `X^N = -1` and a nontrivial automorphism exist; two moduli are the fewest
where lift constants, switching and rescaling matter; two holders are the fewest whose sum is
not one of them. `MaxOps` and the noise caps (no operand noisier than it is multiplied)
bound the behaviours. Properties about a message only speak where the noise bound leaves a
margin; in these instances that holds for fresh ciphertexts, first products and relinearized
ones, after a switch for second products as well, and for refreshed ones. Words of 5 bits
have every pattern of carries that the four partial products of a 64-bit word have; degree
8 is the smallest with two rows of more than two slots and a butterfly network of three
stages; with five doublings the drift of scales passes the tolerance.

`schemes_compute`, `bgv_*` and `bfv_mul_noise` have no deadlock check: a behaviour ends after `MaxOps`
operations. `vss_*` switch deadlock checking off: a dealing whose every slot is used up
really stops.

Fairness is that of the callers, the library has no scheduler: a member keeps trying
`create_share` with the kind its protocol uses or another, stores its guard and sends; a
combiner adds what arrives and aggregates. Nothing is fair about failing calls, restarts or
damage. `EventuallyDecided` therefore also admits a slot that was burned; without restarts
or failures the session publishes. It speaks of the combiners of the run's sessions: nobody
sends to those of the three others what they wait for. `RkgFairSpec` asks the same of every round, and
`KeyOrLostRound` admits the same exception.

## What the violations show

* `exchange_offline`: `all_shares` is gated by the session's threshold, and
  `SessionState::new` takes any threshold in 1..=n. `mpbgv/reencryption.rs` says that an
  offline participant blocks re-encryption; with the threshold 2 of 3 that the repository's
  own tests use, two shares of an additive n-of-n sum are published.
* `vss_dealer_count`: `add_verified_share` inserts the dealer before it verifies, so a
  damaged copy burns the dealer's slot and `dealer_count` counts it. `verify_combined` does
  catch the short sum (`VerifiedReconstruction`).
* `bgv_switch`: switching keeps the representative of each *component* modulo `t`. Decrypting
  subtracts `k Q` before and `k Q'` after, so the message becomes `m + k Q' (q_L - 1)`. It
  survives when `q_L` is 1 modulo `t`, as in the repository's tests (`schemes_compute` uses such
  a modulus); nothing in `BgvParams::new` or `switch_next_real` asks for it.
* `bgv_budget`: `decode_u64` looks at the first modulus only, `noise_budget_bits` at the
  product of all. `Decrypts` holds with the first modulus in the place of the product.
* `rns_closest`: the comments of `modulus_switch_down` promise the integer of the residue class
  closest to `X / q_L`. The code takes the correction in `[0, q_L t)` and so always rounds up:
  modulo 7 with `t` = 3, 2 is switched to 2 although -1 is closer. What does hold is
  `SwitchKeepsResidueModT`: the result is the first integer of the class at or above `X / q_L`,
  less than `t` away.
* `bfv_mul_noise`: `mul_noise_bound` is called sound, and has no term for the multiples of Q
  by which the operands' phases wrap: the product of one operand's multiple, the other's noise
  and `t` is part of the result. With a plaintext modulus of 7, the product of two fresh ciphertexts
  has noise 358 where the bound is 289. `MulNoise` adds what is missing, and
  `NoiseBounded`, `ScaledMessage` and `BfvDecrypts` hold with it.
* `wire_kinds`: `tag()` gives `Custom(1)` to `Custom(6)` the tags of the named kinds, and `from_tag`
  returns the named ones, for protocols as for kinds. A share of such a kind decodes as another's,
  which the serialization policy excludes. `EncodingsBind` states what is left: shares of all
  other kinds return, and transcripts hash equally iff they differ in nothing but that.

## Proofs

`ExchangeProofs` proves, for every finite nonempty set of members and every set of
sessions, kinds and combiners (those of foreign sessions included), that `IInv` is inductive. `IInv` adds to the properties the
chain a share passes: the stored guard knows no more than the guard (`SavedInGuard`), a
share in the outbox is recorded and alone in its session (`OutboxGuarded`), a released share
is recorded in the *stored* guard (`ReleasedSaved`), a waiting share is the released one if
there is one (`OutboxMatchesNet`), and an aggregator holds what `check_for_session` let in
(`CollectedBound`). Without `ReleasedSaved` a restart could forget a released share, without
`OutboxMatchesNet` a waiting share could differ from it. From it follow `TypeOK`,
`OneShareReleased` and `ResultBound` for every threshold, and for an n-of-n threshold
`ResultComplete`, `ResultsAgree`, `ResultFinal` and the refinement of `CollectiveResult`.
Assumptions are the named `ASSUME`s of `ShareExchange`, and `NofN` where stated.

Its second part first shows that every behaviour of the rounds is one of `ShareExchange`
(`RoundsAreExchanges`), so all of the above holds of each round. `RkgInv` then adds that a
combiner's published aggregates are complete and of released shares (`OutputsBound`) and
that every released share folded aggregates some combiner had published
(`InputsHanded`). Together with the uniqueness of released shares they give `OneChain` and
`RoundsInOrder` for any number of rounds, members and combiners, under `RkgAssumption` and
`NofN`. `KeyFromOneChain` needs one more fact: `inputs` records what was folded for exactly
the recorded slots (`RecordedInv`), so that a share in the outbox folded handed-out
aggregates as well, whether or not it is ever released. `RkgTypeCorrect` is the type
invariant, from the same parts.

`ArithmeticProofs` is the number theory all that follows rests on: quotients, congruences,
units, primes, what a fold over a sequence and a sum over a set compute, a polynomial's number
of roots, Fermat's little theorem, sums of distinct powers of two, and sums of the powers of
a root. Facts that need induction over data are stated with a
*set* in the place of a predicate (`InductionSet`: a set that holds 0 and every successor
holds every natural number; `SubsetInduction` the same for finite sets), and a fold is
described by the chain of its intermediate values (`FoldLeftChain`, `SumIsSum`). That is how
the recursive functions under `FoldLeft` and `SumFunctionOnSet` stay within reach.

`RnsProofs` proves the operators of `Rns` right for every basis of distinct primes and every
value. The argument is the Chinese remainder theorem: each hat `Q / q_i` is a unit modulo
`q_i`, the loop of `pow_mod` computes a power (`PowModPower`: its accumulator times the
power of the remaining base is invariant), that power inverts modulo a prime by `Fermat`
(`InvModInverts`), so that the reduced sum of `reconstruct_true_values` has the residues of
the value (`TrueValueExact`) and is the only number below `Q` that has (`CrtUnique`).

`CaseProofs` takes that to the properties of the walk. `RepresentationExact`,
`ModDownIsFloor`, `SwitchKeepsResidueModT`, `RescaleIsNearest` and `DecodeFindsMessage` hold
for every basis, auxiliary basis and plaintext modulus that satisfies `RnsAssumption` and
`PrimeAssumption`: what the constructors of `RnsBasis` check, and a plaintext modulus that is
another prime. The run's basis 11, 7, 13 is one instance. The same module proves Barrett
reduction exact for every word width: with `mu` the truncated reciprocal, the estimate `q` of
the quotient of `x` by `m` satisfies `q m <= x < (q + 2) m` (`BarrettEstimate`), so that one
subtraction at most remains. It rests on the exactness of the four-product high word
(`MulWideHighExact`, from `PartialProducts`); `2^WordBits` is known to be a natural number
above one from the cardinality of a power set (`WordType`). `BarrettAlways` is
`Spec => []BarrettExact`, for every number of cases and words of any width.

`WordsAlways` says the same of `WordsExact`, Montgomery's reducer and the big integers:

* each Newton step of `neg_inv_mod_pow2_64` squares the error (`NewtonStep`), so that the
  inverse is right to every bit of the word after the loop (`NewtonRight`, `NegInverse`). The
  sum that `redc` divides is then a multiple of the word (`RedcSum`) and fits a double word
  since the modulus is below `MONTGOMERY_MAX_MODULUS` (`RedcExact`). The word is a unit modulo
  an odd number, which takes `MontgomeryMul` to the product (`MontgomeryMulExact`);
* a big integer's value is described by its tails, `A[i] = limb i + Word * A[i + 1]`, unique by
  downward induction (`Downward`, `ValueIsTail`). Each loop keeps one equation about tails or
  heads: the carries of `add` and `mul_u64` (`CarriesValue`), the borrows of `sub`, of which
  none is left when the minuend is the larger (`BigSubExact`), the remainders of `divmod_u64`
  (`DivmodWordExact`). The binary long division of `divmod` keeps *dividend above the bit =
  quotient * divisor + remainder, remainder < divisor* (`DividedStep`), which uses that `shl`
  doubles, `bit` and `bit_length` read the bits (`BitAtExact`, `BitLengthExact`), and that the
  comparison is right only because no result has a leading zero limb (`BigLessExact`).

The theorems about the operators hold for numbers of any length. `BignumExact` makes its operands
from `x` in four limbs, which is why `RingCasesAssumption` bounds `Cases` by what they hold.

`NttAlways` is `Spec => []NttMultiplies`, for every degree `n` that is a power of two and every
prime `q` of a word that supports a transform; `NttExact` says it of any two polynomials:

* there is a number whose `n`-th power is -1, since `2n` divides `q - 1` and no exponent below
  `q - 1` takes all numbers to 1 (`NoSmallerExponent`: the differences of the powers below `q - 1`
  vanish, that of order `q - 1` does not). A square root of 1 that is not 1 is -1
  (`SquareRootOfOne`), so that the two powers `primitive_root_of_order` looks at are enough
  (`PsiFound`): whatever the search returns is such a root, once it returns. The search looks at
  the numbers up to `SEARCH_LIMIT`, then at powers of them by the cofactor, then gives up;
  that it does not is the part `RootFound` of `RingCasesAssumption`, which TLC evaluates for the
  run's modulus, and which `RootWithinLimit` proves for every prime up to the limit. This is where
  primality is used; the code leaves it to its callers (hazard `ntt/table.rs:143`);
* a transform over the places `c, c + k, c + 2k, ...` is made of those over the even and the odd
  ones of them (`PartHalves`). After the stage of blocks of `m` places, block `p` holds the
  transform over the places that start at `p` with its bits reversed (`Between`); a butterfly keeps it
  because the root's power half a period on is -1 (`ButterflyResidues`, `StageJoins`), and
  after the last stage it is the transform of all (`Radix2Transforms`);
* twisted by the powers of psi, that is the value at the odd powers of psi (`ForwardEvaluates`).
  Backward, the powers of a root other than 1 add up to zero over a period (`GeometricSum`),
  which leaves `n` times each coefficient (`InverseSums`, `InverseUndoes`);
* at a point where `X^n` is -1 the value of the negacyclic product is the product of the values
  (`WrappedMultiplies`), so that both paths of `Ring::mul` agree (`NttMulIs`).

`RingProofs` is the ring `Z[X]/(X^N + 1)`. A polynomial is extended to every integer index by
`X^N = -1` (`Ext`), a product of two extensions is periodic, and a sum over a period does not
depend on where the period starts (`PeriodSum`): commutativity, `MulAssociates` and `AutMul`
follow by moving the index of summation. `FromIntegers` takes sums, differences, products,
multiples and rotations to what the code computes on residues (`FIAdd`, ..., `FIMul`, `FIAut`),
`FIPhase` does the same for the loop of `decrypt`, and `ZPhaseProduct` says that the phase of
a tensor product is the product of the phases. `RecomposeDigits` says that the digits of
`decompose`, weighed by what the gadget's rows stand for, are the polynomial again.

`BgvKeyProofs` and `BgvProofs` prove of `Schemes`, for the computations that chose BGV, with one holder or any
number of them, and every chain of moduli that satisfies `BgvAssumption`, that `BgvInv` is
inductive. `BgvInv` says where the residues come from:

* a key row is made of residues of integer polynomials `k`, `a` with
  `k + a s = K + T e` and `e` within a bound, where `s` is the sum of the holders' secrets and
  `K` is 0, the square of `s` or the rotated `s`, times what the row stands for (`RowOf`,
  `GoodKeys`);
* the components of a ciphertext are residues of integer polynomials `c_0, c_1, ...` with
  `c_0 + c_1 s + ... = m + T e`, where `m` is the plaintext of the computation and `e` is
  within the noise bound the ciphertext carries (`GoodCt`).

The invariant of the run (`NoiseBounded`) only speaks of what can be read back modulo `Q`, which
no step preserves by itself: after a product it is the unreduced integer phase that is the
product. There is one lemma per operation (`EncryptSecretGood` to `RefreshGood`), and one
for each thing holders make together: `AggregatePublicParts`, `CollectiveGaloisGood` and
`RelinRowGood` for the keys, `SwitchSums`, `DecryptSums` and `RefreshSums` for what their
shares add up to. `DigitsAlwaysRecompose` and `BgvTyped` follow from the components' and rows'
being residues, without further assumptions. `NoiseAlwaysBounded` and `BgvAlwaysDecrypts` assume
`Aligned`, that every modulus after the first is 1 modulo `T`: `bgv_switch` shows that they
are false without it. The phase is claimed under that condition alone (`GoodCt`), so
`BgvInvariant` itself needs none. None of these proofs uses that the run's degree is 2: they
hold for every degree that is a power of two, every gadget base, and any samples within the
bounds of `SampleAssumption`.

`VssProofs` proves `TypeOK`, `AccumulatedIsSum` and `VerifiedReconstruction` for every number
of dealers and recipients, every threshold and every prime field, under `VssDkg`'s
assumptions: `L` is prime and the recipients' indices are distinct modulo it. `IInv` adds to
them that secrets stay small (`SecretsSmall`: the sum of what was dealt lies inside the range
that `RecoverCentered` undoes), that what was summed was seen before (`SummedAreSeen`), that
what passed the check against the combined commitments really lies on the combined polynomial
(`CheckedVerify`), and that a finished reconstruction was one of checked shares
(`OutcomeStands`). A recipient's sum is the combined polynomial's value because evaluation is
linear in the coefficients; reconstruction from any set of `Threshold` or more points returns
the constant term because the difference between the interpolating sum and the polynomial
would have more roots than its degree allows.

Not proved, and left to TLC: liveness under fairness (`EventuallyDecided`,
`HonestRunCompletes`, `KeyOrLostRound`) and ENABLED, which the prover does not support;
slots, circuits and encodings, and the BFV and CKKS computations of `Schemes`
(`ScaledMessage`, `BfvDecrypts`, `Approximates`, `EstimateSound`; `SchemesTypeOK` is proved
for BGV, as `BgvTyped`). That `Q` is larger than what is decoded, `Margin`, is a hypothesis of
the properties themselves: which computations stay within it is what the run shows.

## Plan

Done: sessions, rounds and secret sharing; the schemes with one holder and several; the
arithmetic below and the circuits above them; encodings; the theorems listed above. Left, in
this order:

1. BFV's `ScaledMessage` and `BfvDecrypts` as theorems, along `BgvProofs`: the phase is
   `(Q / T) m + e` instead of `m + T e`, and the product is rescaled by `rescale_and_round`.
   The ring's lemmas and the keys' are the same.
2. CKKS's `Approximates`: the same again, with scales that are fractions.
3. The external product of `rgsw`, on `Rlwe`'s decomposition, with its noise bound, and
   `repack`.
4. `SlotsIndependent` from `PsiFound` and `WrappedMultiplies`: slots are values at odd powers of a
   root, as the places of the transform are.
5. Longer computations in `schemes_compute`, as far as time allows: five operations, both
   ciphertexts refreshed.
6. The encodings of circuit plans and bootstrapping parameters.

## Not modelled

Samplers (distributions), SHA-256 (taken to have no collisions), the generator behind the
common element, floating-point statistics of noise and security, real-valued approximation
circuits in the clear, the transparent scaffolds that keep plaintexts unencrypted, circuit
plans' and bootstrapping parameters' encodings, parameter presets, packing, RGSW ciphertexts
with the external product, `repack`, examples and benchmarks. BGV and BFV bootstrapping are
interfaces that report that they are not implemented. `ShareAggregator::aggregate` (the first
`threshold` shares in order) is not called by any protocol. `CrtOverflow`, the error of a product
of moduli beyond 128 bits, is left out: TLC's bases are far below it, and the
theorems about `Rns` speak of the code for bases within it.
