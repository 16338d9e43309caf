-------------------------------- MODULE VssDkg --------------------------------
(***************************************************************************)
(* Distributed key generation with Pedersen verifiable secret sharing:     *)
(* phantom-multiparty's vss module as tests/vss_dkg.rs drives it.  Every   *)
(* dealer shares a small secret with every recipient, a recipient sums the *)
(* shares that verify, a combiner checks the sums against the combined     *)
(* commitments and interpolates the sum of the secrets from any Threshold  *)
(* of them.                                                                *)
(*                                                                         *)
(* Scalars are the prime field of L elements instead of Ristretto255's.    *)
(* The value vector and the blinding of a share obey the same two linear   *)
(* forms coordinate by coordinate, so one coordinate stands for all.  A    *)
(* commitment set is the dealer's coefficients: it opens to nothing else.  *)
(***************************************************************************)
EXTENDS Integers, FiniteSets, SequencesExt

CONSTANTS
    Dealers, Recipients,  \* participant ids: nonzero, distinct mod L
    Threshold,            \* coefficients of every dealer's polynomial
    L,                    \* order of the scalar field
    Small,                \* magnitudes below it fit small_magnitude (2^128)
    SecretBound,          \* a dealer's secret lies in -SecretBound..SecretBound
    Coefficients,         \* bound: the random coefficients a dealer may draw
    MaxFaults,            \* bound: shares damaged or checked against the wrong dealer
    NotYet, OutsideBound

ASSUME FieldAssumption ==
    /\ L \in Nat \ {0, 1} /\ \A k \in 2..(L - 1) : L % k # 0
    /\ \A i, j \in Recipients : i \in 1..(L - 1) /\ (i # j => i % L # j % L)

ASSUME SizeAssumption ==
    /\ IsFiniteSet(Dealers) /\ IsFiniteSet(Recipients)
    /\ Small \in Nat /\ SecretBound \in Nat
    /\ Threshold \in 1..Cardinality(Recipients)
    /\ Coefficients \subseteq 0..(L - 1) /\ MaxFaults \in Nat
    /\ 2 * Small < L /\ Cardinality(Dealers) * SecretBound < Small

Field == 0..(L - 1)

VssShare == [dealer : Dealers, recipient : Recipients, value : Field]

VARIABLES
    poly,       \* poly[d]: coefficients, constant term first; <<>> before Deal
    net,        \* shares sent, the damaged copies included
    sum,        \* sum[i]: sum_values of i's ShareAccumulator
    seen,       \* seen[i]: its dealers_seen
    summed,     \* the dealers whose share is in sum[i]
    final,      \* final[i]: what i disclosed with finalize
    checked,    \* recipients whose final share passed verify_combined
    outcome,    \* what reconstruct_secret answered last
    faults      \* how many faults have happened

vars == <<poly, net, sum, seen, summed, final, checked, outcome, faults>>

-----------------------------------------------------------------------------
(* The scalar arithmetic.                                                  *)

EmbedCentered(v) == v % L

\* VectorPolynomial::sample: the secret, then random coefficients.
Sample(secret, rest) == <<EmbedCentered(secret)>> \o rest

\* Mutated form of Evaluate: the last sum is not reduced.
EvaluateUnreduced(f, x) == FoldRight(LAMBDA c, acc : ((acc * x) % L) + c, f, 0)

\* Horner's method from the highest coefficient down.
Evaluate(f, x) == FoldRight(LAMBDA c, acc : (acc * x + c) % L, f, 0)

\* Mutated form of CommitmentAt: the powers start at x instead of 1.
CommitmentAtShifted(f, x) ==
    FoldLeft(LAMBDA acc, c : [rhs |-> (acc.rhs + c * acc.power) % L,
                              power |-> (acc.power * x) % L],
             [rhs |-> 0, power |-> x % L], f).rhs

\* The right-hand side of the verification identity: a running power of x.
CommitmentAt(f, x) ==
    FoldLeft(LAMBDA acc, c : [rhs |-> (acc.rhs + c * acc.power) % L,
                              power |-> (acc.power * x) % L],
             [rhs |-> 0, power |-> 1], f).rhs

VerifyEquation(x, value, commitments) ==
    commitments # <<>> /\ value = CommitmentAt(commitments, x)

\* VssCommitmentSet::combine over every dealer.
Combined ==
    [k \in 1..Threshold |-> SumFunctionOnSet([d \in Dealers |-> poly[d][k]], Dealers) % L]

Invert(v) == CHOOSE w \in Field : (v * w) % L = 1

ScalarProduct(f, points) ==
    FoldFunctionOnSet(LAMBDA v, acc : (acc * v) % L, 1, f, points)

LagrangeAtZero(i, points) ==
    (ScalarProduct([j \in points |-> -j], points \ {i})
        * Invert(ScalarProduct([j \in points |-> i - j], points \ {i}))) % L

RecoverCentered(v, bound) ==
    CASE v < Small /\ v <= bound -> v
      [] (-v) % L < Small /\ (-v) % L <= bound -> -((-v) % L)
      [] OTHER -> OutsideBound

\* reconstruct_secret refuses fewer than threshold shares (ThresholdNotMet).
EnoughShares(points) == points # {} /\ Cardinality(points) >= Threshold

ReconstructSecret(shares, points) ==
    RecoverCentered(
        SumFunctionOnSet([i \in points |-> LagrangeAtZero(i, points) * shares[i]], points) % L,
        Cardinality(Dealers) * SecretBound)

-----------------------------------------------------------------------------

TypeOK ==
    /\ poly \in [Dealers -> {<<>>} \cup [1..Threshold -> Field]]
    /\ net \subseteq VssShare
    /\ sum \in [Recipients -> Field]
    /\ seen \in [Recipients -> SUBSET Dealers]
    /\ summed \in [Recipients -> SUBSET Dealers]
    /\ final \in [Recipients -> Field \cup {NotYet}]
    /\ checked \subseteq Recipients
    /\ faults \in 0..MaxFaults

Init ==
    /\ poly = [d \in Dealers |-> <<>>]
    /\ net = {}
    /\ sum = [i \in Recipients |-> 0]
    /\ seen = [i \in Recipients |-> {}]
    /\ summed = [i \in Recipients |-> {}]
    /\ final = [i \in Recipients |-> NotYet]
    /\ checked = {}
    /\ outcome = NotYet
    /\ faults = 0

\* A dealer keeps the polynomial f it has sampled, broadcasts its commitments
\* (known from f) and sends one share to every recipient.
Deal(d, f) ==
    /\ poly[d] = <<>>
    /\ poly' = [poly EXCEPT ![d] = f]
    /\ net' = net \cup
          {[dealer |-> d, recipient |-> i, value |-> Evaluate(f, i)] : i \in Recipients}
    /\ UNCHANGED <<sum, seen, summed, final, checked, outcome, faults>>

\* The transport damages a copy of a share; the original arrives as well.
Corrupt(m) ==
    /\ faults < MaxFaults
    /\ faults' = faults + 1
    /\ net' = net \cup {[m EXCEPT !.value = (@ + 1) % L]}
    /\ UNCHANGED <<poly, sum, seen, summed, final, checked, outcome>>

\* VssShare::verify against the commitments the caller passes.
Verify(m, d) ==
    m.dealer = d /\ VerifyEquation(m.recipient, m.value, poly[d])

\* Mutated form of Unseen: a dealer may be accumulated twice.
UnseenAlways(i, d) == TRUE

\* dealers_seen.insert answers true (else DuplicateParticipant).
Unseen(i, d) == d \notin seen[i]

\* add_verified_share: the recipient check, the dealer recorded, then the
\* verification; only a share that verifies is added, the record stays.  The
\* commitments are those dealer d has published: to pass another dealer's than
\* m names is a caller's fault.
AddVerifiedShare(i, m, d) ==
    /\ poly[d] # <<>>
    /\ m.dealer # d => faults < MaxFaults
    /\ faults' = faults + (IF m.dealer = d THEN 0 ELSE 1)
    /\ m.recipient = i
    /\ Unseen(i, m.dealer)
    /\ seen' = [seen EXCEPT ![i] = @ \cup {m.dealer}]
    /\ IF Verify(m, d)
       THEN /\ sum' = [sum EXCEPT ![i] = (@ + m.value) % L]
            /\ summed' = [summed EXCEPT ![i] = @ \cup {m.dealer}]
       ELSE UNCHANGED <<sum, summed>>
    /\ UNCHANGED <<poly, net, final, checked, outcome>>

DealerCount(i) == Cardinality(seen[i])

\* finalize asks for nothing: it returns the sum as it stands.
Finalize(i) ==
    /\ final' = [final EXCEPT ![i] = sum[i]]
    /\ UNCHANGED <<poly, net, sum, seen, summed, checked, outcome, faults>>

\* The callers finalize once, when dealer_count has reached the
\* number of dealers.
MayFinalize(i) == final[i] = NotYet /\ DealerCount(i) = Cardinality(Dealers)

FinalizeComplete(i) == MayFinalize(i) /\ Finalize(i)

\* Mutated form of FinalVerifies: the combiner takes final shares unchecked.
FinalVerifiesAlways(i) == final[i] # NotYet

\* verify_combined against the sum of every dealer's commitments.
FinalVerifies(i) ==
    /\ final[i] # NotYet
    /\ VerifyEquation(i, final[i], Combined)

VerifyCombined(i) ==
    /\ \A d \in Dealers : poly[d] # <<>>
    /\ FinalVerifies(i)
    /\ checked' = checked \cup {i}
    /\ UNCHANGED <<poly, net, sum, seen, summed, final, outcome, faults>>

Reconstruct(points) ==
    /\ EnoughShares(points)
    /\ outcome' = ReconstructSecret(final, points)
    /\ UNCHANGED <<poly, net, sum, seen, summed, final, checked, faults>>

-----------------------------------------------------------------------------

Next ==
    \/ \E d \in Dealers, secret \in -SecretBound..SecretBound,
          rest \in [1..(Threshold - 1) -> Coefficients] :
          Deal(d, Sample(secret, rest))
    \/ \E m \in net : Corrupt(m)
    \/ \E i \in Recipients, m \in net, d \in Dealers : AddVerifiedShare(i, m, d)
    \/ \E i \in Recipients : FinalizeComplete(i) \/ VerifyCombined(i)
    \/ \E points \in SUBSET checked : Reconstruct(points)

Spec == Init /\ [][Next]_vars

\* The participants run the documented flow; a share is checked against the
\* commitments of the dealer it names.
Fairness ==
    /\ \A d \in Dealers : WF_vars(\E secret \in -SecretBound..SecretBound,
          rest \in [1..(Threshold - 1) -> Coefficients] :
          Deal(d, Sample(secret, rest)))
    /\ \A i \in Recipients :
          /\ WF_vars(\E m \in net : AddVerifiedShare(i, m, m.dealer))
          /\ WF_vars(FinalizeComplete(i)) /\ WF_vars(VerifyCombined(i))
    /\ WF_vars(\E points \in SUBSET checked : Reconstruct(points))

FairSpec == Spec /\ Fairness

-----------------------------------------------------------------------------
(* Properties.                                                             *)

Centered(v) == IF v < Small THEN v ELSE v - L

CollectiveSecret == SumFunctionOnSet([d \in Dealers |-> Centered(poly[d][1])], Dealers)

\* An accumulator holds exactly the shares of the dealers it accepted: none
\* twice, none damaged, none meant for somebody else.
AccumulatedIsSum ==
    \A i \in Recipients :
        sum[i] = SumFunctionOnSet([d \in Dealers |-> Evaluate(poly[d], i)], summed[i]) % L

\* Final shares that pass verify_combined reconstruct the sum of the
\* dealers' secrets, from every qualifying subset the same, whatever the
\* transport damaged.
VerifiedReconstruction ==
    outcome # NotYet => outcome = CollectiveSecret

\* Without damage everyone's final share passes and the secret is recovered.
HonestRunCompletes ==
    /\ <>(faults > 0 \/ checked = Recipients)
    /\ <>(faults > 0 \/ outcome # NotYet)

\* The comment on dealer_count: the number of distinct dealers accumulated.
DealerCountIsAccumulated ==
    \A i \in Recipients : DealerCount(i) = Cardinality(summed[i])
=============================================================================
