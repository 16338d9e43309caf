--------------------------- MODULE CollectiveResult ---------------------------
(***************************************************************************)
(* What a collective protocol promises, without guards, transport or       *)
(* aggregators: a participant commits to at most one contribution per      *)
(* session, and a published result is the whole family of the members'     *)
(* contributions to that session.                                          *)
(***************************************************************************)
CONSTANTS Members, Sessions, Combiners, SessionOf, KindOf, Share, NoShare

VARIABLES committed,  \* committed[s][p]: p's contribution to session s
          published   \* published[c]: the family combiner c published

Empty == [p \in Members |-> NoShare]

Init ==
    /\ committed = [s \in Sessions |-> Empty]
    /\ published = [c \in Combiners |-> Empty]

Commit(s, p) ==
    /\ committed[s][p] = NoShare
    /\ committed'[s][p] \in Share
    /\ committed'[s][p].session = s /\ committed'[s][p].participant = p
    /\ committed' = [committed EXCEPT ![s][p] = committed'[s][p]]
    /\ UNCHANGED published

Publish(c) ==
    LET family == committed[SessionOf[c]] IN
    /\ SessionOf[c] \in Sessions
    /\ \A p \in Members : family[p] # NoShare /\ family[p].kind = KindOf[c]
    /\ published' = [published EXCEPT ![c] = family]
    /\ UNCHANGED committed

Next ==
    \/ \E s \in Sessions, p \in Members : Commit(s, p)
    \/ \E c \in Combiners : Publish(c)

Spec == Init /\ [][Next]_<<committed, published>>
=============================================================================
