-------------------------------- MODULE MCRkg --------------------------------
(* Instances of Rkg for TLC. *)
EXTENDS Rkg

CONSTANTS p1, p2, c0, c1, c2, c3, rlk

Base == [id |-> 1, protocol |-> rlk, round |-> 0]

OneId == {1}
ThreeRounds == {[Base EXCEPT !.round = r] : r \in 0..2}

\* Two combiners of the first round, one of each later one.
TwoInFirst == [c \in Combiners |-> [Base EXCEPT !.round =
                  CASE c = c2 -> 1 [] c = c3 -> 2 [] OTHER -> 0]]
RlkKinds == [c \in Combiners |-> rlk]

\* A member and one of the combiners whose aggregate it may have folded
\* restart once.
RestartsInFirst == [x \in Processes \cup Combiners |-> IF x \in {p1, c0} THEN 1 ELSE 0]
=============================================================================
