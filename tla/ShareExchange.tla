---------------------------- MODULE ShareExchange ----------------------------
(***************************************************************************)
(* One collective protocol run of phantom-multiparty, from create_share to *)
(* the aggregate, as every single-round protocol of mpbgv, mpbfv and       *)
(* mpckks performs it (ckg, gkg, partial_decrypt, reencryption,            *)
(* interactive_bootstrap) and as each round of rkg performs it.            *)
(*                                                                         *)
(* A participant runs in its own process with its own ReplayGuard.  The    *)
(* library does no I/O: the caller saves the guard, hands the share to a   *)
(* transport and feeds what the transport delivers to a ShareAggregator.   *)
(* Those caller steps (SaveGuard, Send, the restarts) are external; the    *)
(* transport may delay, reorder, repeat or never deliver a share, and may  *)
(* deliver it to an aggregator of another session or kind.                 *)
(*                                                                         *)
(* The payload is abstracted to draw, the identity of the randomness one   *)
(* create_share call consumed: two calls never return the same payload.    *)
(* The sum an aggregate method forms is a function of the shares summed,   *)
(* so a result is the family of those shares.                              *)
(***************************************************************************)
EXTENDS Naturals, FiniteSets

CONSTANTS
    Members,      \* the ParticipantSet of the sessions
    Strangers,    \* processes whose own configuration wrongly counts them in
    SessionIds, Protocols,
    Sessions,     \* the session states in use: id, protocol and round
    Kinds,        \* ShareKind
    Combiners,    \* processes that own a ShareAggregator
    SessionOf,    \* the session each combiner's aggregator was built for,
                  \* one of those or one that no share here is made for
    KindOf,       \* and its kind
    Threshold,    \* the threshold of the sessions
    MaxRestarts,  \* bound: how often each process restarts
    NoShare       \* an empty slot of an aggregator

Processes == Members \cup Strangers

Share == [participant : Processes, session : Sessions, kind : Kinds, draw : Nat]

Slots == [Members -> Share \cup {NoShare}]

Empty == [p \in Members |-> NoShare]

\* ParticipantSet::new: not empty; contains is set membership.
ValidParticipantSet(participants) == IsFiniteSet(participants) /\ participants # {}

\* SessionState::new: threshold in 1..=participant_count.
ValidThreshold(threshold, participants) == threshold \in 1..Cardinality(participants)

\* A session as it is compared: advance_round makes another one of it.
Session == [id : SessionIds, protocol : Protocols, round : Nat]

ASSUME MembersAssumption ==
    ValidParticipantSet(Members) /\ Members \cap Strangers = {}

ASSUME SessionsAssumption == Sessions \subseteq Session

ASSUME ThresholdAssumption == ValidThreshold(Threshold, Members)

ASSUME CombinersAssumption ==
    SessionOf \in [Combiners -> Session] /\ KindOf \in [Combiners -> Kinds]

ASSUME BoundAssumption == MaxRestarts \in [Processes \cup Combiners -> Nat]

ASSUME NoShareAssumption == NoShare \notin Share

VARIABLES
    guard,      \* guard[p]: the sessions recorded in p's ReplayGuard
    saved,      \* saved[p]: what p's caller has put in stable storage of it
    outbox,     \* outbox[p]: shares create_share returned to p's caller
    draws,      \* draws[p]: how many times p sampled fresh randomness
    restarts,   \* restarts[x]: how often process x has restarted
    net,        \* every share ever handed to the transport
    collected,  \* collected[c]: the map of c's ShareAggregator
    result      \* result[c]: what c's last successful aggregation summed

vars == <<guard, saved, outbox, draws, restarts, net, collected, result>>

participantVars == <<guard, saved, outbox, draws>>

TypeOK ==
    /\ guard \in [Processes -> SUBSET Sessions]
    /\ saved \in [Processes -> SUBSET Sessions]
    /\ outbox \in [Processes -> SUBSET Share]
    /\ draws \in [Processes -> Nat]
    /\ restarts \in [Processes \cup Combiners -> Nat]
    /\ \A x \in Processes \cup Combiners : restarts[x] <= MaxRestarts[x]
    /\ net \subseteq Share
    /\ collected \in [Combiners -> Slots]
    /\ result \in [Combiners -> Slots]

Init ==
    /\ guard = [p \in Processes |-> {}]
    /\ saved = [p \in Processes |-> {}]
    /\ outbox = [p \in Processes |-> {}]
    /\ draws = [p \in Processes |-> 0]
    /\ restarts = [x \in Processes \cup Combiners |-> 0]
    /\ net = {}
    /\ collected = [c \in Combiners |-> Empty]
    /\ result = [c \in Combiners |-> Empty]

-----------------------------------------------------------------------------
(* The participant's process.                                              *)

\* Mutated form of RecordUse: the answer of HashSet::insert is ignored.
RecordUseIgnoringAnswer(p, s) == guard' = [guard EXCEPT ![p] = @ \cup {s}]

\* ReplayGuard::record_use: refuses a session it has already recorded, with
\* no change; records it otherwise, before anything else is computed.
RecordUse(p, s) ==
    /\ s \notin guard[p]
    /\ guard' = [guard EXCEPT ![p] = @ \cup {s}]

\* Mutated form of NewShare: a share labelled with the round after its own.
NewShareOtherRound(p, s, k) ==
    [participant |-> p, session |-> [s EXCEPT !.round = @ + 1], kind |-> k,
     draw |-> draws[p]]

\* Share::new labels the payload with everything check_for_session compares.
NewShare(p, s, k) ==
    [participant |-> p, session |-> s, kind |-> k, draw |-> draws[p]]

\* A create_share call that succeeds.
CreateShare(p, s, k) ==
    /\ RecordUse(p, s)
    /\ outbox' = [outbox EXCEPT ![p] = @ \cup {NewShare(p, s, k)}]
    /\ draws' = [draws EXCEPT ![p] = @ + 1]
    /\ UNCHANGED <<saved, restarts, net, collected, result>>

\* A create_share call that fails after record_use: a ciphertext without a
\* second component or of another ring, a ring operation that reports an
\* error, a participant Share::new does not know.  The record stays.
CreateShareFails(p, s) ==
    /\ RecordUse(p, s)
    /\ UNCHANGED <<saved, outbox, draws, restarts, net, collected, result>>

\* The caller stores the guard.
SaveGuard(p) ==
    /\ saved' = [saved EXCEPT ![p] = guard[p]]
    /\ UNCHANGED <<guard, outbox, draws, restarts, net, collected, result>>

\* Mutated form of MaySend: the share leaves before the guard is stored.
MaySendUnsaved(p, m) == m \in outbox[p]

\* The caller releases a share only once the record of it is stored.
MaySend(p, m) == m \in outbox[p] /\ m.session \in saved[p]

Send(p, m) ==
    /\ MaySend(p, m)
    /\ net' = net \cup {m}
    /\ UNCHANGED <<participantVars, restarts, collected, result>>

\* Mutated form of Restored: the process comes back with ReplayGuard::new().
RestoredEmpty(p) == {}

\* The guard a restarted process works with.
Restored(p) == saved[p]

Restart(p) ==
    /\ restarts[p] < MaxRestarts[p]
    /\ restarts' = [restarts EXCEPT ![p] = @ + 1]
    /\ guard' = [guard EXCEPT ![p] = Restored(p)]
    /\ outbox' = [outbox EXCEPT ![p] = {}]
    /\ UNCHANGED <<saved, draws, net, collected, result>>

-----------------------------------------------------------------------------
(* The combiner.                                                           *)

\* Mutated forms of CheckForSession: a field of the session, or the kind, is
\* not compared, or membership is not checked.
CheckForSessionAnyRound(m, s, k) ==
    /\ m.session.id = s.id
    /\ m.session.protocol = s.protocol
    /\ m.kind = k
    /\ m.participant \in Members

CheckForSessionAnyKind(m, s, k) ==
    /\ m.session = s
    /\ m.participant \in Members

\* Share::check_for_session answers Ok: neither StaleShare, nor
\* MalformedMessage, nor UnknownParticipant.
CheckForSession(m, s, k) ==
    /\ m.session.id = s.id
    /\ m.session.protocol = s.protocol
    /\ m.session.round = s.round
    /\ m.kind = k
    /\ m.participant \in Members

\* add_share finds no share of this participant (else DuplicateParticipant).
Vacant(c, p) == collected[c][p] = NoShare

AddShare(c, m) ==
    /\ m \in net
    /\ CheckForSession(m, SessionOf[c], KindOf[c])
    /\ Vacant(c, m.participant)
    /\ collected' = [collected EXCEPT ![c][m.participant] = m]
    /\ UNCHANGED <<participantVars, restarts, net, result>>

Received(c) == {p \in Members : collected[c][p] # NoShare}

\* Mutated form of IsReady: off by one.
IsReadyEarly(c) == Cardinality(Received(c)) + 1 >= Threshold

\* Mutated form of IsReady: one share more than the threshold is awaited.
IsReadyLate(c) == Cardinality(Received(c)) > Threshold

IsReady(c) == Cardinality(Received(c)) >= Threshold

\* ShareAggregator::all_shares inside an aggregate method: ThresholdNotMet
\* below the threshold, every collected share from there on.
Aggregate(c) ==
    /\ IsReady(c)
    /\ result' = [result EXCEPT ![c] = collected[c]]
    /\ UNCHANGED <<participantVars, restarts, net, collected>>

\* The aggregator lives in memory; what was published stays published.
CombinerRestart(c) ==
    /\ restarts[c] < MaxRestarts[c]
    /\ restarts' = [restarts EXCEPT ![c] = @ + 1]
    /\ collected' = [collected EXCEPT ![c] = Empty]
    /\ UNCHANGED <<participantVars, net, result>>

-----------------------------------------------------------------------------

Next ==
    \/ \E p \in Processes, s \in Sessions :
          (\E k \in Kinds : CreateShare(p, s, k)) \/ CreateShareFails(p, s)
    \/ \E p \in Processes : SaveGuard(p) \/ Restart(p)
    \/ \E p \in Processes : \E m \in outbox[p] : Send(p, m)
    \/ \E c \in Combiners : \E m \in net : AddShare(c, m)
    \/ \E c \in Combiners : Aggregate(c) \/ CombinerRestart(c)

Spec == Init /\ [][Next]_vars

\* The callers run the documented flow to its end and the transport
\* delivers: the library itself has no scheduler.
Fairness ==
    /\ \A p \in Members, s \in Sessions :
          WF_vars(\E k \in Kinds : CreateShare(p, s, k))
    /\ \A p \in Members : WF_vars(SaveGuard(p))
    /\ \A p \in Members : WF_vars(\E m \in outbox[p] : Send(p, m))
    /\ \A c \in Combiners : WF_vars(\E m \in net : AddShare(c, m))
    /\ \A c \in Combiners : WF_vars(Aggregate(c))

FairSpec == Spec /\ Fairness

-----------------------------------------------------------------------------
(* Properties.                                                             *)

Published(c) == result[c] # Empty

\* A participant never exposes two different shares for one session and
\* round, whatever fails and restarts in between (replay_guard.rs: a second
\* exposure against the same public value would expose the secret).
OneShareReleased ==
    \A m1, m2 \in net :
        m1.participant = m2.participant /\ m1.session = m2.session => m1 = m2

\* Nothing made for another session, protocol, round or kind, and nothing
\* made by a process outside the participant set, is ever summed
\* (check_for_session and add_share).
ResultBound ==
    \A c \in Combiners, p \in Members :
        LET m == result[c][p] IN
        m # NoShare => /\ m \in net
                       /\ m.participant = p
                       /\ m.session = SessionOf[c]
                       /\ m.kind = KindOf[c]

\* The sum is the n-of-n one: a result exists only if every participant
\* contributed to it (mpbgv/ckg.rs: a public key must include every
\* participant).  Needs Threshold = Cardinality(Members).
ResultComplete ==
    \A c \in Combiners : Published(c) => \A p \in Members : result[c][p] # NoShare

\* Combiners that aggregate the same session and kind, in whatever order and
\* after whatever restarts, publish the same sum: one collective key, one
\* plaintext, one refreshed ciphertext.
ResultsAgree ==
    \A c1, c2 \in Combiners :
        /\ Published(c1) /\ Published(c2)
        /\ SessionOf[c1] = SessionOf[c2] /\ KindOf[c1] = KindOf[c2]
        => result[c1] = result[c2]

\* What a combiner published never changes when it aggregates again, also
\* after a restart that made it collect from the beginning.
ResultFinal ==
    [][\A c \in Combiners : Published(c) => result'[c] = result[c]]_vars

\* A participant's slot is lost: its guard has recorded the session and no
\* share of the kind exists that a combiner could still receive.
SlotLost(p, c) ==
    /\ SessionOf[c] \in guard[p]
    /\ ~\E m \in outbox[p] \cup net :
          m.participant = p /\ m.session = SessionOf[c] /\ m.kind = KindOf[c]

\* Every aggregation of a session in use comes to an end: it publishes, or some
\* participant lost its slot by a failed call, a wrong kind or a restart, after
\* which the session can only be abandoned for another one.
EventuallyDecided ==
    \A c \in Combiners : SessionOf[c] \in Sessions =>
        <>[](Published(c) \/ \E p \in Members : SlotLost(p, c))

\* The claim of mpbgv/reencryption.rs that a participant going offline
\* blocks the operation rather than being tolerated, for the threshold the
\* session was built with.
OfflineParticipantBlocks ==
    \A c \in Combiners : Published(c) =>
        \A p \in Members : \E m \in net :
            m.participant = p /\ m.session = SessionOf[c]

-----------------------------------------------------------------------------
(* Refinement of CollectiveResult: a participant is committed to the share *)
(* it released; a result is published as it is.                            *)

Released(s, p) == {m \in net : m.participant = p /\ m.session = s}

AnyOf(shares) == IF shares = {} THEN NoShare ELSE CHOOSE m \in shares : TRUE

Commitment == [s \in Sessions |-> [p \in Members |-> AnyOf(Released(s, p))]]

Promise == INSTANCE CollectiveResult WITH committed <- Commitment, published <- result

\* The whole exchange, with guards, crashes and an unreliable transport, is
\* indistinguishable from participants that commit once and results that are
\* the family of every commitment (n-of-n sessions).
ImplementsCollectiveResult == Promise!Spec
=============================================================================
