--------------------------- MODULE ExchangeProofs ----------------------------
(***************************************************************************)
(* Safety of ShareExchange for every set of members, sessions and          *)
(* combiners, and of the rounds of Rkg. A share's way is create_share ->   *)
(* guard -> stored guard -> transport -> aggregator -> result; the         *)
(* inductive invariant says that each stage holds only what the stage      *)
(* before it let through, and that a guard that has recorded a session     *)
(* admits one share of it at most. The rounds of Rkg are ShareExchanges    *)
(* (RoundsAreExchanges), so all of that holds of them; with n-of-n         *)
(* sessions all shares of a round fold one chain of aggregates.            *)
(***************************************************************************)
EXTENDS Rkg, FiniteSetTheorems, TLAPS

-----------------------------------------------------------------------------
(* Shares of one session                                                    *)

\* A stored guard never knows more than the guard in memory.
SavedInGuard == \A p \in Processes : saved[p] \subseteq guard[p]

\* A share waiting at its maker was recorded by the maker's guard, and no
\* other share of its session waits there.
OutboxGuarded ==
    \A p \in Processes : \A m \in outbox[p] :
        /\ m.participant = p
        /\ m.session \in guard[p]
        /\ \A m2 \in outbox[p] : m2.session = m.session => m2 = m

\* A released share is recorded in its maker's stored guard.
ReleasedSaved == \A m \in net : m.session \in saved[m.participant]

\* A share still waiting at its maker is the one already released, if any.
OutboxMatchesNet ==
    \A p \in Processes : \A m \in outbox[p], m2 \in net :
        m2.participant = p /\ m2.session = m.session => m2 = m

\* What an aggregator holds passed check_for_session.
CollectedBound ==
    \A c \in Combiners, p \in Members :
        LET m == collected[c][p] IN
        m # NoShare => /\ m \in net
                       /\ m.participant = p
                       /\ m.session = SessionOf[c]
                       /\ m.kind = KindOf[c]

\* The inductive invariant.
IInv ==
    /\ TypeOK
    /\ SavedInGuard
    /\ OutboxGuarded
    /\ ReleasedSaved
    /\ OutboxMatchesNet
    /\ OneShareReleased
    /\ CollectedBound
    /\ ResultBound

-----------------------------------------------------------------------------

\* The two sessions check_for_session compares field by field are the same.
LEMMA SameFieldsSameSession ==
    ASSUME NEW s1 \in Session, NEW s2 \in Session,
           s1.id = s2.id, s1.protocol = s2.protocol, s1.round = s2.round
    PROVE  s1 = s2
BY DEF Session

\* The invariant holds before anything has happened.
THEOREM InitInv == Init => IInv
<1> SUFFICES ASSUME Init PROVE IInv
    OBVIOUS
<1> USE DEF Init
<1>1. TypeOK
    BY BoundAssumption DEF TypeOK, Slots, Empty
<1>2. SavedInGuard /\ OutboxGuarded /\ ReleasedSaved /\ OutboxMatchesNet /\ OneShareReleased
    BY DEF SavedInGuard, OutboxGuarded, ReleasedSaved, OutboxMatchesNet, OneShareReleased
<1>3. CollectedBound /\ ResultBound
    BY DEF CollectedBound, ResultBound, Empty
<1> QED
    BY <1>1, <1>2, <1>3 DEF IInv

\* One step at a time: each action keeps the invariant.
LEMMA CreateShareInv ==
    ASSUME IInv, NEW p \in Processes, NEW s \in Sessions, NEW k \in Kinds,
           CreateShare(p, s, k)
    PROVE  IInv'
<1> DEFINE new == NewShare(p, s, k)
<1> USE DEF CreateShare, RecordUse, NewShare
<1>1. new \in Share
    BY DEF IInv, TypeOK, Share
<1>2. TypeOK'
    BY <1>1 DEF IInv, TypeOK
<1>3. SavedInGuard'
    BY DEF IInv, TypeOK, SavedInGuard
<1>4. OutboxGuarded'
    BY DEF IInv, TypeOK, OutboxGuarded
<1>5. s \notin saved[p]
    BY DEF IInv, SavedInGuard
<1>6. OutboxMatchesNet'
    BY <1>5 DEF IInv, TypeOK, OutboxMatchesNet, ReleasedSaved
<1>7. ReleasedSaved' /\ OneShareReleased' /\ CollectedBound' /\ ResultBound'
    BY DEF IInv, ReleasedSaved, OneShareReleased, CollectedBound, ResultBound
<1> QED
    BY <1>2, <1>3, <1>4, <1>6, <1>7 DEF IInv

\* A failed create_share only burns the session, which every part tolerates.
LEMMA CreateShareFailsInv ==
    ASSUME IInv, NEW p \in Processes, NEW s \in Sessions, CreateShareFails(p, s)
    PROVE  IInv'
<1> USE DEF CreateShareFails, RecordUse
<1>1. TypeOK'
    BY DEF IInv, TypeOK
<1>2. SavedInGuard' /\ OutboxGuarded'
    BY DEF IInv, TypeOK, SavedInGuard, OutboxGuarded
<1>3. ReleasedSaved' /\ OutboxMatchesNet' /\ OneShareReleased' /\ CollectedBound' /\ ResultBound'
    BY DEF IInv, ReleasedSaved, OutboxMatchesNet, OneShareReleased, CollectedBound, ResultBound
<1> QED
    BY <1>1, <1>2, <1>3 DEF IInv

\* Storing the guard raises saved to guard.
LEMMA SaveGuardInv ==
    ASSUME IInv, NEW p \in Processes, SaveGuard(p)
    PROVE  IInv'
<1> USE DEF SaveGuard
<1>1. TypeOK'
    BY DEF IInv, TypeOK
<1>2. SavedInGuard'
    BY DEF IInv, TypeOK, SavedInGuard
<1>3. ReleasedSaved'
    <2> SUFFICES ASSUME NEW m \in net PROVE m.session \in saved'[m.participant]
        BY DEF ReleasedSaved
    <2>1. m.participant \in Processes /\ m.session \in saved[m.participant]
        BY DEF IInv, TypeOK, Share, ReleasedSaved
    <2> QED
        BY <2>1 DEF IInv, TypeOK, SavedInGuard
<1>4. OutboxGuarded' /\ OutboxMatchesNet' /\ OneShareReleased' /\ CollectedBound' /\ ResultBound'
    BY DEF IInv, OutboxGuarded, OutboxMatchesNet, OneShareReleased, CollectedBound, ResultBound
<1> QED
    BY <1>1, <1>2, <1>3, <1>4 DEF IInv

\* Only the share the stored guard covers is released.
LEMMA SendInv ==
    ASSUME IInv, NEW p \in Processes, NEW m \in outbox[p], Send(p, m)
    PROVE  IInv'
<1> USE DEF Send, MaySend, participantVars
<1>1. m \in Share /\ m.participant = p
    BY DEF IInv, TypeOK, OutboxGuarded
<1>2. TypeOK'
    BY <1>1 DEF IInv, TypeOK
<1>3. SavedInGuard' /\ OutboxGuarded'
    BY DEF IInv, SavedInGuard, OutboxGuarded
<1>4. ReleasedSaved'
    BY <1>1 DEF IInv, ReleasedSaved
<1>5. OutboxMatchesNet'
    BY <1>1 DEF IInv, OutboxMatchesNet, OutboxGuarded
<1>6. OneShareReleased'
    BY <1>1 DEF IInv, OneShareReleased, OutboxMatchesNet
<1>7. CollectedBound' /\ ResultBound'
    BY DEF IInv, CollectedBound, ResultBound
<1> QED
    BY <1>2, <1>3, <1>4, <1>5, <1>6, <1>7 DEF IInv

\* No process restarts more often than its bound.
LEMMA RestartCounted ==
    ASSUME NEW x \in Processes \cup Combiners, TypeOK, restarts[x] < MaxRestarts[x],
           restarts' = [restarts EXCEPT ![x] = @ + 1]
    PROVE  /\ restarts' \in [Processes \cup Combiners -> Nat]
           /\ \A y \in Processes \cup Combiners : restarts'[y] <= MaxRestarts[y]
<1> DEFINE All == Processes \cup Combiners
<1>1. restarts \in [All -> Nat] /\ MaxRestarts \in [All -> Nat] /\ x \in All
    BY BoundAssumption DEF TypeOK
<1>2. \A y \in All : restarts[y] <= MaxRestarts[y]
    BY DEF TypeOK
<1> HIDE DEF All
<1>3. restarts'[x] = restarts[x] + 1 /\ restarts'[x] <= MaxRestarts[x]
    BY <1>1
<1>4. restarts' \in [All -> Nat] /\ \A y \in All : restarts'[y] <= MaxRestarts[y]
    BY <1>1, <1>2, <1>3
<1> QED
    BY <1>4 DEF All

\* A restart forgets the outbox and whatever the guard had not stored.
LEMMA RestartInv ==
    ASSUME IInv, NEW p \in Processes, Restart(p)
    PROVE  IInv'
<1> USE DEF Restart, Restored
<1>1. TypeOK'
    BY RestartCounted DEF IInv, TypeOK
<1>2. SavedInGuard' /\ OutboxGuarded' /\ OutboxMatchesNet'
    BY DEF IInv, TypeOK, SavedInGuard, OutboxGuarded, OutboxMatchesNet
<1>3. ReleasedSaved' /\ OneShareReleased' /\ CollectedBound' /\ ResultBound'
    BY DEF IInv, ReleasedSaved, OneShareReleased, CollectedBound, ResultBound
<1> QED
    BY <1>1, <1>2, <1>3 DEF IInv

\* add_share lets in what check_for_session accepts.
LEMMA AddShareInv ==
    ASSUME IInv, NEW c \in Combiners, NEW m \in net, AddShare(c, m)
    PROVE  IInv'
<1> USE DEF AddShare, participantVars
<1>1. m \in Share /\ m.participant \in Members
    BY DEF IInv, TypeOK, CheckForSession
<1>2. m.session = SessionOf[c] /\ m.kind = KindOf[c]
    BY <1>1, SameFieldsSameSession, SessionsAssumption, CombinersAssumption DEF CheckForSession, Share
<1>3. TypeOK'
    BY <1>1 DEF IInv, TypeOK, Slots
<1>4. CollectedBound'
    <2> SUFFICES ASSUME NEW d \in Combiners, NEW q \in Members, collected'[d][q] # NoShare
                 PROVE  /\ collected'[d][q] \in net
                        /\ collected'[d][q].participant = q
                        /\ collected'[d][q].session = SessionOf[d]
                        /\ collected'[d][q].kind = KindOf[d]
        BY DEF CollectedBound
    <2>1. collected'[d][q] = IF d = c /\ q = m.participant THEN m ELSE collected[d][q]
        BY <1>1 DEF IInv, TypeOK, Slots
    <2> QED
        BY <1>1, <1>2, <2>1 DEF IInv, CollectedBound
<1>5. SavedInGuard' /\ OutboxGuarded' /\ ReleasedSaved' /\ OutboxMatchesNet'
      /\ OneShareReleased' /\ ResultBound'
    BY DEF IInv, SavedInGuard, OutboxGuarded, ReleasedSaved, OutboxMatchesNet, OneShareReleased,
           ResultBound
<1> QED
    BY <1>3, <1>4, <1>5 DEF IInv

\* A result inherits the bound of what was collected.
LEMMA AggregateInv ==
    ASSUME IInv, NEW c \in Combiners, Aggregate(c)
    PROVE  IInv'
<1> USE DEF Aggregate, participantVars
<1>1. TypeOK'
    BY DEF IInv, TypeOK
<1>2. ResultBound'
    <2> SUFFICES ASSUME NEW d \in Combiners, NEW q \in Members, result'[d][q] # NoShare
                 PROVE  /\ result'[d][q] \in net
                        /\ result'[d][q].participant = q
                        /\ result'[d][q].session = SessionOf[d]
                        /\ result'[d][q].kind = KindOf[d]
        BY DEF ResultBound
    <2>1. CASE d = c
        BY <2>1 DEF IInv, TypeOK, CollectedBound
    <2>2. CASE d # c
        BY <2>2 DEF IInv, TypeOK, ResultBound
    <2> QED
        BY <2>1, <2>2
<1>3. SavedInGuard' /\ OutboxGuarded' /\ ReleasedSaved' /\ OutboxMatchesNet'
      /\ OneShareReleased' /\ CollectedBound'
    BY DEF IInv, SavedInGuard, OutboxGuarded, ReleasedSaved, OutboxMatchesNet, OneShareReleased,
           CollectedBound
<1> QED
    BY <1>1, <1>2, <1>3 DEF IInv

\* A combiner that restarts only empties its aggregator.
LEMMA CombinerRestartInv ==
    ASSUME IInv, NEW c \in Combiners, CombinerRestart(c)
    PROVE  IInv'
<1> USE DEF CombinerRestart, participantVars
<1>1. TypeOK'
    BY RestartCounted DEF IInv, TypeOK, Slots, Empty
<1>2. CollectedBound'
    BY DEF IInv, TypeOK, CollectedBound, Empty
<1>3. SavedInGuard' /\ OutboxGuarded' /\ ReleasedSaved' /\ OutboxMatchesNet'
      /\ OneShareReleased' /\ ResultBound'
    BY DEF IInv, SavedInGuard, OutboxGuarded, ReleasedSaved, OutboxMatchesNet, OneShareReleased,
           ResultBound
<1> QED
    BY <1>1, <1>2, <1>3 DEF IInv

\* Every step keeps the invariant.
THEOREM StepInv == IInv /\ [Next]_vars => IInv'
<1> SUFFICES ASSUME IInv, [Next]_vars PROVE IInv'
    OBVIOUS
<1>1. CASE UNCHANGED vars
    BY <1>1 DEF vars, IInv, TypeOK, SavedInGuard, OutboxGuarded, ReleasedSaved, OutboxMatchesNet,
                OneShareReleased, CollectedBound, ResultBound
<1>2. CASE Next
    BY <1>2, CreateShareInv, CreateShareFailsInv, SaveGuardInv, SendInv, RestartInv, AddShareInv,
       AggregateInv, CombinerRestartInv DEF Next
<1> QED
    BY <1>1, <1>2

\* IInv is an invariant of the exchange.
THEOREM InductiveInvariant == Spec => []IInv
BY InitInv, StepInv, PTL DEF Spec

-----------------------------------------------------------------------------
(* Corollaries for any threshold.                                          *)

\* Every variable keeps its type.
THEOREM TypeCorrect == Spec => []TypeOK
<1>1. IInv => TypeOK
    BY DEF IInv
<1> QED
    BY <1>1, InductiveInvariant, PTL

\* A participant releases one share per session and round at most, across
\* failed calls and restarts.
THEOREM OneShareReleasedAlways == Spec => []OneShareReleased
<1>1. IInv => OneShareReleased
    BY DEF IInv
<1> QED
    BY <1>1, InductiveInvariant, PTL

\* Only shares made by members for exactly this session and kind are summed.
THEOREM ResultBoundAlways == Spec => []ResultBound
<1>1. IInv => ResultBound
    BY DEF IInv
<1> QED
    BY <1>1, InductiveInvariant, PTL

-----------------------------------------------------------------------------
(* n-of-n sessions: the threshold is the number of participants, which is  *)
(* what the additive protocols need.                                       *)

NofN == Threshold = Cardinality(Members)

\* An aggregator that is ready holds a share of every member.
LEMMA ReadyHasEveryone ==
    ASSUME NofN, NEW c \in Combiners, IsReady(c)
    PROVE  \A p \in Members : collected[c][p] # NoShare
<1>1. IsFiniteSet(Members) /\ Received(c) \subseteq Members
    BY MembersAssumption DEF Received, ValidParticipantSet
<1>2. /\ Cardinality(Received(c)) \in Nat
      /\ Cardinality(Members) \in Nat
      /\ Cardinality(Received(c)) <= Cardinality(Members)
      /\ Cardinality(Received(c)) = Cardinality(Members) => Received(c) = Members
    BY <1>1, FS_Subset, FS_CardinalityType
<1>3. Received(c) = Members
    BY <1>2 DEF NofN, IsReady
<1> QED
    BY <1>3 DEF Received

\* With n-of-n sessions.
NInv == IInv /\ ResultComplete

\* Nothing is published initially.
LEMMA NInvInit == Init => NInv
BY InitInv DEF NInv, Init, ResultComplete, Published

\* With an n-of-n threshold a step publishes complete families only.
LEMMA NInvStep == ASSUME NofN PROVE NInv /\ [Next]_vars => NInv'
<1> SUFFICES ASSUME NInv, [Next]_vars PROVE ResultComplete'
    BY StepInv DEF NInv
<1>1. ASSUME NEW c \in Combiners, Aggregate(c) PROVE ResultComplete'
    BY <1>1, ReadyHasEveryone DEF Aggregate, NInv, IInv, TypeOK, ResultComplete, Published
<1>2. ASSUME UNCHANGED result PROVE ResultComplete'
    BY <1>2 DEF NInv, ResultComplete, Published
<1> QED
    BY <1>1, <1>2 DEF Next, vars, CreateShare, CreateShareFails, SaveGuard, Send, Restart,
                      AddShare, CombinerRestart

\* NInv is an invariant of n-of-n sessions.
LEMMA NofNInvariant == ASSUME NofN PROVE Spec => []NInv
BY NInvInit, NInvStep, PTL DEF Spec

\* No result leaves a participant out.
THEOREM ResultCompleteAlways == ASSUME NofN PROVE Spec => []ResultComplete
<1>1. NInv => ResultComplete
    BY DEF NInv
<1> QED
    BY <1>1, NofNInvariant, PTL

\* Two families bound to the same session are the same family.
LEMMA BoundFamiliesEqual ==
    ASSUME OneShareReleased, NEW s,
           NEW f \in Slots, NEW g \in Slots,
           \A p \in Members : f[p] \in net /\ f[p].participant = p /\ f[p].session = s,
           \A p \in Members : g[p] \in net /\ g[p].participant = p /\ g[p].session = s
    PROVE  f = g
<1>1. \A p \in Members : f[p] = g[p]
    BY DEF OneShareReleased
<1> QED
    BY <1>1 DEF Slots

\* Whoever aggregates a session publishes the same result.
THEOREM ResultsAgreeAlways == ASSUME NofN PROVE Spec => []ResultsAgree
<1>1. NInv => ResultsAgree
    <2> SUFFICES ASSUME NInv, NEW c1 \in Combiners, NEW c2 \in Combiners,
                        Published(c1), Published(c2), SessionOf[c1] = SessionOf[c2]
                 PROVE  result[c1] = result[c2]
        BY DEF ResultsAgree
    <2>1. result[c1] \in Slots /\ result[c2] \in Slots
        BY DEF NInv, IInv, TypeOK
    <2>2. \A p \in Members :
            /\ result[c1][p] \in net /\ result[c1][p].participant = p
            /\ result[c1][p].session = SessionOf[c1]
            /\ result[c2][p] \in net /\ result[c2][p].participant = p
            /\ result[c2][p].session = SessionOf[c1]
        BY DEF NInv, IInv, ResultBound, ResultComplete
    <2> QED
        BY <2>1, <2>2, BoundFamiliesEqual DEF NInv, IInv
<1> QED
    BY <1>1, NofNInvariant, PTL

\* A step that publishes publishes the family of every member's released
\* share, and one that was published before is published again unchanged.
LEMMA AggregateSame ==
    ASSUME NofN, NInv, NEW c \in Combiners, Aggregate(c), Published(c)
    PROVE  result' = result
<1>1. collected[c] \in Slots /\ result[c] \in Slots
    BY DEF NInv, IInv, TypeOK
<1>2. \A p \in Members :
        /\ collected[c][p] \in net /\ collected[c][p].participant = p
        /\ collected[c][p].session = SessionOf[c]
    BY ReadyHasEveryone DEF Aggregate, NInv, IInv, CollectedBound
<1>3. \A p \in Members :
        /\ result[c][p] \in net /\ result[c][p].participant = p
        /\ result[c][p].session = SessionOf[c]
    BY DEF NInv, IInv, ResultBound, ResultComplete
<1>4. collected[c] = result[c]
    BY <1>1, <1>2, <1>3, BoundFamiliesEqual DEF NInv, IInv
<1> QED
    BY <1>4 DEF Aggregate, NInv, IInv, TypeOK

\* A published result is final.
THEOREM ResultFinalAlways == ASSUME NofN PROVE Spec => ResultFinal
<1>1. NInv /\ [Next]_vars => [\A c \in Combiners : Published(c) => result'[c] = result[c]]_vars
    <2> SUFFICES ASSUME NInv, Next, NEW c \in Combiners, Published(c)
                 PROVE  result'[c] = result[c]
        OBVIOUS
    <2>1. ASSUME NEW d \in Combiners, Aggregate(d) PROVE result'[c] = result[c]
        BY <2>1, AggregateSame DEF Aggregate, NInv, IInv, TypeOK
    <2>2. ASSUME UNCHANGED result PROVE result'[c] = result[c]
        BY <2>2
    <2> QED
        BY <2>1, <2>2 DEF Next, CreateShare, CreateShareFails, SaveGuard, Send, Restart, AddShare,
                          CombinerRestart
<1> QED
    BY <1>1, NofNInvariant, PTL DEF Spec, ResultFinal

-----------------------------------------------------------------------------
(* n-of-n sessions implement CollectiveResult.                             *)

\* The choice in Commitment has one candidate.
LEMMA CommitmentIs ==
    ASSUME OneShareReleased, NEW m \in net, NEW s \in Sessions, NEW p \in Members,
           m.session = s, m.participant = p
    PROVE  Commitment[s][p] = m
<1>1. m \in Released(s, p)
    BY DEF Released
<1>2. \A m2 \in Released(s, p) : m2 = m
    BY DEF Released, OneShareReleased
<1>3. AnyOf(Released(s, p)) = m
    BY <1>1, <1>2 DEF AnyOf
<1> QED
    BY <1>3 DEF Commitment

\* If no member's released shares of a session change, neither does its
\* commitment.
LEMMA CommitmentKept ==
    ASSUME \A s \in Sessions, p \in Members : Released(s, p)' = Released(s, p)
    PROVE  Commitment' = Commitment
<1>1. \A s \in Sessions : [p \in Members |-> AnyOf(Released(s, p))]'
                        = [p \in Members |-> AnyOf(Released(s, p))]
    OBVIOUS
<1> QED
    BY <1>1 DEF Commitment

\* The first release of a member's share for a session is a commitment.
LEMMA SendCommits ==
    ASSUME IInv, NEW p \in Processes, NEW m \in outbox[p], Send(p, m)
    PROVE  Commitment' = Commitment \/ \E s \in Sessions, q \in Members : Promise!Commit(s, q)
<1> USE DEF Send, MaySend
<1>1. m \in Share /\ m.participant = p /\ m.session \in Sessions
    BY DEF IInv, TypeOK, OutboxGuarded, Share
<1>2. CASE m \in net
    <2>1. \A s \in Sessions, q \in Members : Released(s, q)' = Released(s, q)
        BY <1>2 DEF Released
    <2> QED
        BY <2>1, CommitmentKept
<1>3. CASE p \notin Members
    <2>1. \A s \in Sessions, q \in Members : Released(s, q)' = Released(s, q)
        BY <1>1, <1>3 DEF Released
    <2> QED
        BY <2>1, CommitmentKept
<1>4. CASE m \notin net /\ p \in Members
    <2> DEFINE s == m.session
    <2>1. Released(s, p) = {} /\ Released(s, p)' = {m}
        BY <1>1, <1>4 DEF Released, IInv, OutboxMatchesNet
    <2>2. \A t \in Sessions, q \in Members :
              t # s \/ q # p => Released(t, q)' = Released(t, q)
        BY <1>1 DEF Released
    <2>3. AnyOf({}) = NoShare /\ AnyOf({m}) = m
        BY DEF AnyOf
    <2>4. Commitment[s][p] = NoShare /\ Commitment'[s][p] = m
        BY <1>1, <1>4, <2>1, <2>3 DEF Commitment
    <2>5. Commitment'[s] = [Commitment[s] EXCEPT ![p] = m]
        BY <1>1, <2>1, <2>2, <2>3 DEF Commitment
    <2>6. \A t \in Sessions \ {s} : [q \in Members |-> AnyOf(Released(t, q))]'
                                 = [q \in Members |-> AnyOf(Released(t, q))]
        BY <2>2
    <2>7. \A t \in Sessions \ {s} : Commitment'[t] = Commitment[t]
        BY <2>6 DEF Commitment
    <2>8. Commitment' = [Commitment EXCEPT ![s][p] = m]
        BY <2>5, <2>7 DEF Commitment
    <2> QED
        BY <1>1, <1>4, <2>4, <2>8 DEF Promise!Commit
<1> QED
    BY <1>2, <1>3, <1>4

\* A successful aggregation publishes the members' commitments.
LEMMA AggregatePublishes ==
    ASSUME NofN, NInv, NEW c \in Combiners, Aggregate(c)
    PROVE  Promise!Publish(c)
<1>1. \A p \in Members :
        /\ collected[c][p] \in net /\ collected[c][p].participant = p
        /\ collected[c][p].session = SessionOf[c] /\ collected[c][p].kind = KindOf[c]
    BY ReadyHasEveryone DEF Aggregate, NInv, IInv, CollectedBound
<1>2. SessionOf[c] \in Sessions
    <2>1. PICK p \in Members : TRUE
        BY MembersAssumption DEF ValidParticipantSet
    <2> QED
        BY <1>1, <2>1 DEF NInv, IInv, TypeOK, Share
<1>3. \A p \in Members : Commitment[SessionOf[c]][p] = collected[c][p]
    BY <1>1, <1>2, CommitmentIs DEF NInv, IInv
<1>4. \A p \in Members : collected[c][p] # NoShare
    BY ReadyHasEveryone DEF Aggregate
<1>5. Commitment[SessionOf[c]] = [p \in Members |-> AnyOf(Released(SessionOf[c], p))]
    BY <1>2 DEF Commitment
<1>6. Commitment[SessionOf[c]] = collected[c]
    BY <1>3, <1>5 DEF NInv, IInv, TypeOK, Slots
<1>7. Commitment' = Commitment
    BY CommitmentKept DEF Aggregate, Released
<1> QED
    BY <1>1, <1>2, <1>4, <1>6, <1>7 DEF Promise!Publish, Aggregate

\* Every step of the exchange is a step of CollectiveResult or a stutter.
LEMMA StepSimulation ==
    ASSUME NofN
    PROVE  NInv /\ NInv' /\ [Next]_vars => [Promise!Next]_<<Commitment, result>>
<1> SUFFICES ASSUME NInv, NInv', [Next]_vars PROVE [Promise!Next]_<<Commitment, result>>
    OBVIOUS
<1>1. ASSUME NEW p \in Processes, NEW m \in outbox[p], Send(p, m)
      PROVE  [Promise!Next]_<<Commitment, result>>
    <2>1. UNCHANGED result
        BY <1>1 DEF Send
    <2> QED
        BY <1>1, <2>1, SendCommits DEF NInv, Promise!Next
<1>2. ASSUME NEW c \in Combiners, Aggregate(c)
      PROVE  [Promise!Next]_<<Commitment, result>>
    BY <1>2, AggregatePublishes DEF Promise!Next
<1>3. ASSUME UNCHANGED <<net, result>> PROVE [Promise!Next]_<<Commitment, result>>
    BY <1>3, CommitmentKept DEF Released
<1> QED
    BY <1>1, <1>2, <1>3 DEF Next, vars, CreateShare, CreateShareFails, SaveGuard, Restart,
                            AddShare, CombinerRestart

\* An n-of-n exchange, with its guards, restarts and transport, implements
\* the promise that every result is the family of one commitment per member.
THEOREM Implements == ASSUME NofN PROVE Spec => ImplementsCollectiveResult
<1>1. Init => Promise!Init
    <2> SUFFICES ASSUME Init PROVE Promise!Init
        OBVIOUS
    <2>1. \A s \in Sessions, p \in Members : AnyOf(Released(s, p)) = NoShare
        BY DEF Init, Released, AnyOf
    <2>2. Commitment = [s \in Sessions |-> Empty]
        BY <2>1 DEF Commitment, Empty
    <2> QED
        BY <2>2 DEF Init, Promise!Init, Empty, Promise!Empty
<1> QED
    BY <1>1, NofNInvariant, StepSimulation, PTL
       DEF Spec, ImplementsCollectiveResult, Promise!Spec

-----------------------------------------------------------------------------
(* Rounds                                                                   *)

\* Every aggregate handed out covers every member, with shares that were
\* released for exactly that round.
OutputsBound ==
    /\ outputs \in [Rounds -> SUBSET Slots]
    /\ \A r \in Rounds : \A h \in outputs[r] : \A p \in Members :
          /\ h[p] # NoShare
          /\ h[p] \in net
          /\ h[p].participant = p
          /\ h[p].session = RoundSession(r)

\* What a share folded was handed out for the rounds before its own.
InputsHanded ==
    \A i \in inputs : \E r \in Rounds :
        i.share.session = RoundSession(r) /\ i.folded \in Handed(r)

\* The inductive invariant of the rounds.
RkgInv == NInv /\ OutputsBound /\ InputsHanded

-----------------------------------------------------------------------------

\* The sessions of the rounds are in use, and tell the rounds apart.
LEMMA RoundSessions ==
    ASSUME NEW r \in Rounds
    PROVE  /\ RoundSession(r) \in Sessions
           /\ RoundSession(r).round = FirstSession.round + r
           /\ FirstSession.round \in Nat
           /\ r \in Nat
           /\ RoundSession(0) = FirstSession
BY RkgAssumption DEF RoundSession, Rounds, Session

\* Rounds with the same session are the same round.
LEMMA RoundsApart ==
    ASSUME NEW r \in Rounds, NEW k \in Rounds, RoundSession(r) = RoundSession(k)
    PROVE  r = k
<1>1. FirstSession.round + r = FirstSession.round + k
    BY RoundSessions
<1> QED
    BY <1>1, RoundSessions

\* A combiner's aggregate belongs to the round of its session.
LEMMA CombinerRound ==
    ASSUME NEW c \in Combiners
    PROVE  RoundOf(c) \in Rounds /\ RoundSession(RoundOf(c)) = SessionOf[c]
<1>1. PICK r \in Rounds : SessionOf[c] = RoundSession(r)
    BY RkgAssumption, CombinersAssumption
<1>2. RoundOf(c) = r
    BY <1>1, RoundSessions DEF RoundOf
<1> QED
    BY <1>1, <1>2

\* Every step of the rounds is a step of the exchange.
LEMMA RkgStepIsStep == [RkgNext]_rkgVars => [Next]_vars
<1> SUFFICES ASSUME [RkgNext]_rkgVars PROVE [Next]_vars
    OBVIOUS
<1>1. CASE UNCHANGED rkgVars
    BY <1>1 DEF rkgVars
<1>2. ASSUME NEW p \in Processes, NEW r \in Rounds, NEW f \in Handed(r), CreateRoundShare(p, r, f)
      PROVE  Next
    BY <1>2, RoundSessions, RkgAssumption DEF CreateRoundShare, Next
<1>3. ASSUME NEW p \in Processes, NEW r \in Rounds, RoundShareFails(p, r) PROVE Next
    BY <1>3, RoundSessions DEF RoundShareFails, Next
<1>4. ASSUME NEW c \in Combiners, AggregateRound(c) PROVE Next
    BY <1>4 DEF AggregateRound, Next
<1>5. CASE Exchange
    BY <1>5 DEF Exchange, Next
<1> QED
    BY <1>1, <1>2, <1>3, <1>4, <1>5 DEF RkgNext

\* The rounds are an exchange: every theorem about Spec is one about RkgSpec.
THEOREM RoundsAreExchanges == RkgSpec => Spec
<1>1. RkgInit => Init
    BY DEF RkgInit
<1> QED
    BY <1>1, RkgStepIsStep, PTL DEF RkgSpec, Spec

-----------------------------------------------------------------------------

\* Nothing handed out is ever taken back.
LEMMA HandedKept ==
    ASSUME OutputsBound, OutputsBound', NEW r \in Rounds, NEW f \in Handed(r),
           \A q \in Rounds : outputs[q] \subseteq outputs'[q]
    PROVE  f \in Handed(r)'
<1>1. DOMAIN f = 0..(r - 1) /\ f = [q \in 0..(r - 1) |-> f[q]]
    BY DEF Handed
<1>2. \A q \in 0..(r - 1) : q \in Rounds /\ f[q] \in outputs'[q]
    <2>1. \A q \in 0..(r - 1) : q \in Rounds
        BY RkgAssumption DEF Rounds
    <2>2. \A q \in DOMAIN f : f[q] \in outputs[q]
        BY DEF Handed
    <2> QED
        BY <1>1, <2>1, <2>2
<1>3. f \in [0..(r - 1) -> UNION {outputs'[q] : q \in Rounds}]
    BY <1>1, <1>2
<1> QED
    BY <1>1, <1>2, <1>3 DEF Handed

\* A round's step keeps the invariant.
LEMMA RkgInvStep == ASSUME NofN PROVE RkgInv /\ [RkgNext]_rkgVars => RkgInv'
<1> SUFFICES ASSUME RkgInv, [RkgNext]_rkgVars PROVE RkgInv'
    OBVIOUS
<1>1. NInv'
    BY RkgStepIsStep, NInvStep DEF RkgInv
<1>2. net \subseteq net'
    BY RkgStepIsStep DEF Next, vars, CreateShare, CreateShareFails, SaveGuard, Send, Restart,
                         AddShare, Aggregate, CombinerRestart
<1>3. CASE outputs' = outputs
    <2>1. OutputsBound'
        BY <1>2, <1>3 DEF RkgInv, OutputsBound
    <2>2. \A r \in Rounds : Handed(r)' = Handed(r)
        BY <1>3 DEF Handed
    <2>3. CASE inputs' = inputs
        BY <1>1, <2>1, <2>2, <2>3 DEF RkgInv, InputsHanded
    <2>4. ASSUME NEW p \in Processes, NEW r \in Rounds, NEW f \in Handed(r),
                 CreateRoundShare(p, r, f)
          PROVE  InputsHanded'
        BY <2>2, <2>4 DEF CreateRoundShare, NewShare, RkgInv, InputsHanded
    <2> QED
        BY <1>1, <2>1, <2>3, <2>4
           DEF RkgInv, RkgNext, rkgVars, RoundShareFails, AggregateRound, Exchange
<1>4. ASSUME NEW c \in Combiners, AggregateRound(c) PROVE RkgInv'
    <2>1. \A p \in Members :
            /\ collected[c][p] # NoShare /\ collected[c][p] \in net
            /\ collected[c][p].participant = p
            /\ collected[c][p].session = RoundSession(RoundOf(c))
        BY <1>4, ReadyHasEveryone, CombinerRound
           DEF AggregateRound, Aggregate, RkgInv, NInv, IInv, CollectedBound
    <2>2. collected[c] \in Slots /\ RoundOf(c) \in Rounds
        BY CombinerRound DEF RkgInv, NInv, IInv, TypeOK
    <2>3. OutputsBound'
        BY <1>2, <1>4, <2>1, <2>2 DEF AggregateRound, RkgInv, OutputsBound
    <2>4. \A q \in Rounds : outputs[q] \subseteq outputs'[q]
        BY <1>4, <2>2 DEF AggregateRound, RkgInv, OutputsBound
    <2>5. InputsHanded'
        BY <1>4, <2>3, <2>4, HandedKept DEF AggregateRound, RkgInv, InputsHanded
    <2> QED
        BY <1>1, <2>3, <2>5 DEF RkgInv
<1> QED
    BY <1>3, <1>4 DEF RkgNext, rkgVars, CreateRoundShare, RoundShareFails, Exchange

\* Nothing is handed out at the start.
LEMMA RkgInvInit == RkgInit => RkgInv
BY NInvInit DEF RkgInit, RkgInv, OutputsBound, InputsHanded

\* The invariant of the rounds.
LEMMA RkgInvariant == ASSUME NofN PROVE RkgSpec => []RkgInv
BY RkgInvInit, RkgInvStep, PTL DEF RkgSpec

\* A round has one output.
LEMMA OneOutput ==
    ASSUME RkgInv, NEW r \in Rounds, NEW f \in outputs[r], NEW g \in outputs[r]
    PROVE  f = g
<1>1. f \in Slots /\ g \in Slots
    BY DEF RkgInv, OutputsBound
<1>2. /\ \A p \in Members : f[p] \in net /\ f[p].participant = p /\ f[p].session = RoundSession(r)
      /\ \A p \in Members : g[p] \in net /\ g[p].participant = p /\ g[p].session = RoundSession(r)
    BY DEF RkgInv, OutputsBound
<1>3. OneShareReleased
    BY DEF RkgInv, NInv, IInv
<1> QED
    BY <1>1, <1>2, <1>3, BoundFamiliesEqual

\* All shares of a round fold the same aggregates, whichever combiner handed
\* them out and whatever restarted in between.
THEOREM OneChainAlways == ASSUME NofN PROVE RkgSpec => []OneChain
<1>1. RkgInv => OneChain
    <2> SUFFICES ASSUME RkgInv, NEW i \in inputs, NEW j \in inputs,
                        i.share.session = j.share.session
                 PROVE  i.folded = j.folded
        BY DEF OneChain
    <2>1. PICK r \in Rounds : i.share.session = RoundSession(r) /\ i.folded \in Handed(r)
        BY DEF RkgInv, InputsHanded
    <2>2. PICK k \in Rounds : j.share.session = RoundSession(k) /\ j.folded \in Handed(k)
        BY DEF RkgInv, InputsHanded
    <2>3. k = r
        BY <2>1, <2>2, RoundsApart
    <2>4. /\ i.folded = [q \in 0..(r - 1) |-> i.folded[q]]
          /\ j.folded = [q \in 0..(r - 1) |-> j.folded[q]]
          /\ \A q \in 0..(r - 1) : i.folded[q] \in outputs[q] /\ j.folded[q] \in outputs[q]
        BY <2>1, <2>2, <2>3 DEF Handed
    <2>5. \A q \in 0..(r - 1) : q \in Rounds
        BY RkgAssumption DEF Rounds
    <2>6. \A q \in 0..(r - 1) : i.folded[q] = j.folded[q]
        BY <2>4, <2>5, OneOutput
    <2> QED
        BY <2>4, <2>6
<1> QED
    BY <1>1, RkgInvariant, PTL

\* A share of a later round exists only after every member released its
\* share of the round before.
THEOREM RoundsInOrderAlways == ASSUME NofN PROVE RkgSpec => []RoundsInOrder
<1>1. RkgInv => RoundsInOrder
    <2> SUFFICES ASSUME RkgInv, NEW i \in inputs, i.share.session # FirstSession, NEW p \in Members
                 PROVE  \E m \in net :
                            m.participant = p /\ m.session.round = i.share.session.round - 1
        BY DEF RoundsInOrder
    <2>1. PICK r \in Rounds : i.share.session = RoundSession(r) /\ i.folded \in Handed(r)
        BY DEF RkgInv, InputsHanded
    <2>2. r - 1 \in Rounds /\ r - 1 \in 0..(r - 1)
        <3>1. r # 0
            BY <2>1, RoundSessions
        <3> QED
            BY <3>1, RkgAssumption DEF Rounds
    <2>3. i.folded[r - 1] \in outputs[r - 1]
        BY <2>1, <2>2 DEF Handed
    <2>4. LET m == i.folded[r - 1][p] IN
              m \in net /\ m.participant = p /\ m.session = RoundSession(r - 1)
        BY <2>2, <2>3 DEF RkgInv, OutputsBound
    <2>5. RoundSession(r - 1).round = RoundSession(r).round - 1
        BY <2>2, RoundSessions
    <2> QED
        BY <2>1, <2>4, <2>5
<1> QED
    BY <1>1, RkgInvariant, PTL

-----------------------------------------------------------------------------

\* What a share folded is known as long as the share exists.
InputsRecorded ==
    /\ \A i \in inputs : i.share \in Share
    /\ \A p \in Processes : \A m \in outbox[p] : \E i \in inputs : i.share = m
    /\ \A m \in net : \E i \in inputs : i.share = m

\* With the record of what was folded.
RecordedInv == RkgInv /\ InputsRecorded

\* Shares enter the exchange only where their inputs are recorded.
LEMMA RecordedInvStep == ASSUME NofN PROVE RecordedInv /\ [RkgNext]_rkgVars => RecordedInv'
<1> SUFFICES ASSUME RecordedInv, [RkgNext]_rkgVars PROVE InputsRecorded'
    BY RkgInvStep DEF RecordedInv
<1>1. CASE UNCHANGED rkgVars
    BY <1>1 DEF rkgVars, vars, RecordedInv, InputsRecorded
<1>2. ASSUME NEW p \in Processes, NEW r \in Rounds, NEW f \in Handed(r), CreateRoundShare(p, r, f)
      PROVE  InputsRecorded'
    <2> DEFINE m == NewShare(p, RoundSession(r), RlkKind)
    <2>1. m \in Share
        BY RoundSessions, RkgAssumption
           DEF NewShare, Share, RecordedInv, RkgInv, NInv, IInv, TypeOK
    <2>2. /\ outbox \in [Processes -> SUBSET Share]
          /\ outbox' = [outbox EXCEPT ![p] = @ \cup {m}] /\ UNCHANGED net
          /\ inputs' = inputs \cup {[share |-> m, folded |-> f]}
        BY <1>2 DEF CreateRoundShare, CreateShare, RecordedInv, RkgInv, NInv, IInv, TypeOK
    <2> DEFINE new == [share |-> m, folded |-> f]
    <2>3. new.share = m /\ new \in inputs' /\ inputs' = inputs \cup {new}
        BY <2>2
    <2> HIDE DEF m, new
    <2>4. \A i \in inputs' : i.share \in Share
        BY <2>1, <2>3 DEF RecordedInv, InputsRecorded
    <2>5. \A n \in net' : \E i \in inputs' : i.share = n
        BY <2>2, <2>3 DEF RecordedInv, InputsRecorded
    <2>6. \A k \in Processes : \A n \in outbox'[k] : n \in outbox[k] \/ n = m
        BY <2>2
    <2>7. \A k \in Processes : \A n \in outbox'[k] : \E i \in inputs' : i.share = n
        BY <2>3, <2>6 DEF RecordedInv, InputsRecorded
    <2> QED
        BY <2>4, <2>5, <2>7 DEF InputsRecorded
<1>3. ASSUME NEW p \in Processes, NEW r \in Rounds, RoundShareFails(p, r) PROVE InputsRecorded'
    BY <1>3 DEF RoundShareFails, CreateShareFails, RecordedInv, InputsRecorded
<1>4. ASSUME NEW c \in Combiners, AggregateRound(c) PROVE InputsRecorded'
    BY <1>4 DEF AggregateRound, Aggregate, participantVars, RecordedInv, InputsRecorded
<1>5. CASE Exchange
    <2>1. ASSUME NEW p \in Processes, Restart(p) PROVE InputsRecorded'
        BY <1>5, <2>1 DEF Exchange, Restart, RecordedInv, RkgInv, NInv, IInv, TypeOK, InputsRecorded
    <2>2. ASSUME NEW p \in Processes, NEW m \in outbox[p], Send(p, m) PROVE InputsRecorded'
        BY <1>5, <2>2 DEF Exchange, Send, participantVars, RecordedInv, InputsRecorded
    <2>3. ASSUME UNCHANGED <<outbox, net>> PROVE InputsRecorded'
        BY <1>5, <2>3 DEF Exchange, RecordedInv, InputsRecorded
    <2> QED
        BY <1>5, <2>1, <2>2, <2>3
           DEF Exchange, SaveGuard, AddShare, CombinerRestart, participantVars
<1> QED
    BY <1>1, <1>2, <1>3, <1>4, <1>5 DEF RkgNext

\* The strengthened invariant of the rounds.
LEMMA RecordedInvariant == ASSUME NofN PROVE RkgSpec => []RecordedInv
<1>1. RkgInit => RecordedInv
    BY RkgInvInit DEF RkgInit, Init, RecordedInv, InputsRecorded
<1> QED
    BY <1>1, RecordedInvStep, PTL DEF RkgSpec

\* A maker of a share of round r can have been handed one chain only.
LEMMA OneHanded ==
    ASSUME RkgInv, NEW r \in Rounds, NEW f \in Handed(r), NEW g \in Handed(r)
    PROVE  f = g
<1>1. /\ f = [q \in 0..(r - 1) |-> f[q]] /\ g = [q \in 0..(r - 1) |-> g[q]]
      /\ \A q \in 0..(r - 1) : f[q] \in outputs[q] /\ g[q] \in outputs[q]
    BY DEF Handed
<1>2. \A q \in 0..(r - 1) : q \in Rounds
    BY RkgAssumption DEF Rounds
<1>3. \A q \in 0..(r - 1) : f[q] = g[q]
    BY <1>1, <1>2, OneOutput
<1> QED
    BY <1>1, <1>3

\* What a released share of round r folded was handed out for round r.
LEMMA FoldedHanded ==
    ASSUME RecordedInv, NEW r \in Rounds, NEW m \in net, m.session = RoundSession(r)
    PROVE  Folded(m) \in Handed(r)
<1>1. \E i \in inputs : i.share = m
    BY DEF RecordedInv, InputsRecorded
<1>2. PICK i \in inputs : i.share = m /\ Folded(m) = i.folded
    BY <1>1 DEF Folded
<1>3. PICK k \in Rounds : i.share.session = RoundSession(k) /\ i.folded \in Handed(k)
    BY DEF RecordedInv, RkgInv, InputsHanded
<1>4. k = r
    BY <1>2, <1>3, RoundsApart
<1> QED
    BY <1>2, <1>3, <1>4

\* A published key comes from one chain of complete aggregates
\* (KeyFromOneChain), for any number of rounds, members and combiners,
\* whatever restarted, repeated or arrived late.
THEOREM KeyFromOneChainAlways == ASSUME NofN PROVE RkgSpec => []KeyFromOneChain
<1>1. RecordedInv => KeyFromOneChain
    <2> SUFFICES ASSUME RecordedInv, NEW c \in Combiners, NEW m1 \in Members, NEW m2 \in Members,
                        Published(c), RoundOf(c) = LastRound
                 PROVE  OneChainBehind(c, m1, m2)
        BY DEF KeyFromOneChain
    <2> DEFINE chain == Folded(result[c][m1])
    <2>1. LastRound \in Rounds /\ \A q \in 0..(LastRound - 1) : q \in Rounds
        BY RkgAssumption DEF Rounds
    <2>2. \A p \in Members : /\ result[c][p] # NoShare /\ result[c][p] \in net
                             /\ result[c][p].session = RoundSession(LastRound)
        BY CombinerRound DEF RecordedInv, RkgInv, NInv, IInv, ResultComplete, ResultBound
    <2>3. chain \in Handed(LastRound) /\ Folded(result[c][m2]) \in Handed(LastRound)
        BY <2>1, <2>2, FoldedHanded
    <2>4. Folded(result[c][m2]) = chain
        BY <2>1, <2>3, OneHanded DEF RecordedInv
    <2>5. /\ DOMAIN chain = 0..(LastRound - 1)
          /\ \A q \in 0..(LastRound - 1) : chain[q] \in outputs[q]
        BY <2>3 DEF Handed
    <2>6. ASSUME NEW q \in 0..(LastRound - 1)
          PROVE  /\ chain[q][m2] # NoShare
                 /\ chain[q][m2].session = RoundSession(q)
                 /\ Folded(chain[q][m2]) = [k \in 0..(q - 1) |-> chain[k]]
        <3>1. /\ chain[q][m2] # NoShare /\ chain[q][m2] \in net
              /\ chain[q][m2].session = RoundSession(q)
            BY <2>1, <2>5 DEF RecordedInv, RkgInv, OutputsBound
        <3>2. Folded(chain[q][m2]) \in Handed(q)
            BY <2>1, <3>1, FoldedHanded
        <3>3. \A k \in 0..(q - 1) : k \in 0..(LastRound - 1) /\ k \in Rounds
            BY <2>1, RkgAssumption
        <3>4. [k \in 0..(q - 1) |-> chain[k]] \in Handed(q)
            BY <2>5, <3>3 DEF Handed
        <3> QED
            BY <2>1, <3>1, <3>2, <3>4, OneHanded DEF RecordedInv
    <2> QED
        BY <2>2, <2>4, <2>5, <2>6 DEF OneChainBehind
<1> QED
    BY <1>1, RecordedInvariant, PTL

\* The types of the rounds' state (RkgTypeOK): a share of round r folded one
\* aggregate of every round before r, for n-of-n sessions of any size.
THEOREM RkgTypeCorrect == ASSUME NofN PROVE RkgSpec => []RkgTypeOK
<1>1. RecordedInv => RkgTypeOK
    <2> SUFFICES ASSUME RecordedInv, NEW i \in inputs
                 PROVE  DOMAIN i.folded = 0..(i.share.session.round - FirstSession.round - 1)
        BY DEF RkgTypeOK, RecordedInv, InputsRecorded, RkgInv, NInv, IInv, OutputsBound
    <2>1. PICK r \in Rounds : i.share.session = RoundSession(r) /\ i.folded \in Handed(r)
        BY DEF RecordedInv, RkgInv, InputsHanded
    <2>2. i.share.session.round - FirstSession.round = r
        BY <2>1, RoundSessions
    <2> QED
        BY <2>1, <2>2 DEF Handed
<1> QED
    BY <1>1, RecordedInvariant, PTL

=============================================================================
