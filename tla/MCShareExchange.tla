--------------------------- MODULE MCShareExchange ---------------------------
(* Instances of ShareExchange for TLC. *)
EXTENDS ShareExchange

CONSTANTS p1, p2, p3, c1, c2, byRound, byId, byProtocol, ckg, gkg

\* A session and those with every field but one in common.
Base == [id |-> 1, protocol |-> ckg, round |-> 0]
NextRound == [Base EXCEPT !.round = 1]
OtherId == [Base EXCEPT !.id = 2]
OtherProtocol == [Base EXCEPT !.protocol = gkg]

TwoIds == {1, 2}
OneSession == {Base}

\* Two combiners await the shares that are made, three must not take them.
SessionOfEach ==
    [c \in Combiners |-> CASE c = byRound -> NextRound [] c = byId -> OtherId
                          [] c = byProtocol -> OtherProtocol [] OTHER -> Base]
SameKind == [c \in Combiners |-> ckg]

\* Members and the combiners of their session restart once.
RestartsOnce == [x \in Processes \cup Combiners |-> IF x \in Members \cup {c1, c2} THEN 1 ELSE 0]
NoRestarts == [x \in Processes \cup Combiners |-> 0]
=============================================================================
