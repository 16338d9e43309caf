--------------------------------- MODULE Rkg ---------------------------------
(***************************************************************************)
(* Collective relinearization-key generation: the rounds of                *)
(* mpbgv/rkg.rs (two) and of mpbfv/rkg.rs and mpckks/rkg.rs (three, the    *)
(* first one makes the collective public key over QP).  Every round is a   *)
(* ShareExchange of its own session; a share of a later round folds in     *)
(* the aggregates of all rounds before it, as its maker was handed them.   *)
(*                                                                         *)
(* All rounds use the kind RelinearizationKeyGen, so the round number      *)
(* alone keeps their shares apart.  An aggregate is a function of the      *)
(* family of shares it sums, so a round's output is that family.           *)
(***************************************************************************)
EXTENDS ShareExchange

CONSTANTS FirstSession,  \* the session the helper was built with
          RlkKind,       \* ShareKind::RelinearizationKeyGen
          LastRound      \* 1 for BGV, 2 for BFV and CKKS

\* round1_session and round2_session: the first session, advanced r times.
RoundSession(r) == [FirstSession EXCEPT !.round = @ + r]

Rounds == 0..LastRound

ASSUME RkgAssumption ==
    /\ LastRound \in Nat
    /\ FirstSession \in Session /\ RlkKind \in Kinds
    /\ Sessions = {RoundSession(r) : r \in Rounds}
    /\ \A c \in Combiners : SessionOf[c] \in Sessions /\ KindOf[c] = RlkKind

VARIABLES
    outputs,  \* outputs[r]: every aggregate of round r ever handed out
    inputs    \* the aggregates each created share folded in

rkgVars == <<vars, outputs, inputs>>

RoundOf(c) == SessionOf[c].round - FirstSession.round

RkgTypeOK ==
    /\ TypeOK
    /\ outputs \in [Rounds -> SUBSET Slots]
    /\ \A i \in inputs :
          /\ i.share \in Share
          /\ DOMAIN i.folded = 0..(i.share.session.round - FirstSession.round - 1)

RkgInit ==
    /\ Init
    /\ outputs = [r \in Rounds |-> {}]
    /\ inputs = {}

-----------------------------------------------------------------------------

\* What the maker of a round-r share may have been handed: one output of each
\* round before.  Round 0 takes no input.
Handed(r) ==
    {f \in [0..(r - 1) -> UNION {outputs[q] : q \in Rounds}] :
        \A q \in DOMAIN f : f[q] \in outputs[q]}

\* create_share_round1, create_share_round2 (create_qp_ckg_share in front of
\* them for BFV and CKKS).
CreateRoundShare(p, r, folded) ==
    /\ folded \in Handed(r)
    /\ CreateShare(p, RoundSession(r), RlkKind)
    /\ inputs' = inputs \cup
          {[share |-> NewShare(p, RoundSession(r), RlkKind), folded |-> folded]}
    /\ UNCHANGED outputs

\* A creation that fails behind record_use.
RoundShareFails(p, r) ==
    /\ CreateShareFails(p, RoundSession(r))
    /\ UNCHANGED <<outputs, inputs>>

\* aggregate_round1, aggregate_key (aggregate_qp_public_key): sum_rows over
\* all shares, handed to every participant.
AggregateRound(c) ==
    /\ Aggregate(c)
    /\ outputs' = [outputs EXCEPT ![RoundOf(c)] = @ \cup {collected[c]}]
    /\ UNCHANGED inputs

Exchange ==
    /\ \/ \E p \in Processes : SaveGuard(p) \/ Restart(p)
       \/ \E p \in Processes : \E m \in outbox[p] : Send(p, m)
       \/ \E c \in Combiners : \E m \in net : AddShare(c, m)
       \/ \E c \in Combiners : CombinerRestart(c)
    /\ UNCHANGED <<outputs, inputs>>

RkgNext ==
    \/ \E p \in Processes, r \in Rounds :
          (\E f \in Handed(r) : CreateRoundShare(p, r, f)) \/ RoundShareFails(p, r)
    \/ \E c \in Combiners : AggregateRound(c)
    \/ Exchange

RkgSpec == RkgInit /\ [][RkgNext]_rkgVars

\* The callers run every round to its end, as in ShareExchange.
RkgFairness ==
    /\ \A p \in Members, r \in Rounds :
          WF_rkgVars(\E f \in Handed(r) : CreateRoundShare(p, r, f))
    /\ \A p \in Members :
          /\ WF_rkgVars(SaveGuard(p) /\ UNCHANGED <<outputs, inputs>>)
          /\ WF_rkgVars((\E m \in outbox[p] : Send(p, m)) /\ UNCHANGED <<outputs, inputs>>)
    /\ \A c \in Combiners :
          /\ WF_rkgVars((\E m \in net : AddShare(c, m)) /\ UNCHANGED <<outputs, inputs>>)
          /\ WF_rkgVars(AggregateRound(c))

RkgFairSpec == RkgSpec /\ RkgFairness

-----------------------------------------------------------------------------
(* Properties.                                                             *)

Folded(m) == (CHOOSE i \in inputs : i.share = m).folded

\* All shares of a round that exist anywhere fold the same aggregates: the
\* quadratic key needs s_p * H of every participant with one and the same H.
OneChain ==
    \A i, j \in inputs :
        i.share.session = j.share.session => i.folded = j.folded

\* One chain of complete aggregates, each built on the ones before it, is what
\* the shares of m1 and m2 in c's result folded.
OneChainBehind(c, m1, m2) ==
    LET chain == Folded(result[c][m1]) IN
    /\ NoShare \notin {result[c][m1], result[c][m2]}
    /\ Folded(result[c][m2]) = chain
    /\ DOMAIN chain = 0..(LastRound - 1)
    /\ \A q \in 0..(LastRound - 1) :
          /\ chain[q][m2] # NoShare
          /\ chain[q][m2].session = RoundSession(q)
          /\ Folded(chain[q][m2]) = [k \in 0..(q - 1) |-> chain[k]]

\* A published key sums one share of every member, all of them made in the
\* last round from one chain of complete aggregates, and every aggregate of
\* that chain is built on the ones before it.
KeyFromOneChain ==
    \A c \in Combiners, m1, m2 \in Members :
        Published(c) /\ RoundOf(c) = LastRound => OneChainBehind(c, m1, m2)

\* The rounds run to the key, unless a participant burned its slot of some
\* round: no round waits for itself or for a later one.
KeyOrLostRound ==
    \A c \in Combiners : RoundOf(c) = LastRound =>
        <>[](Published(c) \/ \E p \in Members, d \in Combiners : SlotLost(p, d))

\* No participant reveals a share of a round before every member has
\* released its share of the round before.
RoundsInOrder ==
    \A i \in inputs : i.share.session # FirstSession =>
        \A p \in Members : \E m \in net :
            m.participant = p /\ m.session.round = i.share.session.round - 1
=============================================================================
