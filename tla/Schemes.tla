------------------------------- MODULE Schemes -------------------------------
(***************************************************************************)
(* One computation, under BGV, BFV or CKKS, with one key holder or with    *)
(* several: the crates' users choose the scheme, and everything below the  *)
(* scheme is shared.                                                       *)
(***************************************************************************)
EXTENDS Bgv

CONSTANTS BfvModuli, BfvPModuli, BfvNoiseCap,
          CkksModuli, CkksPModuli,
          DefaultScale, Slots, Unit, Tolerance, SmudgeFactor, ScaleCap

ASSUME SchemesAssumption ==
    /\ Degree = 2
    /\ DefaultScale \in Nat \ {0} /\ Unit \in Nat \ {0} /\ Tolerance \in Nat \ {0}
    /\ \A z \in Slots : Small(z, 1)

VARIABLE scheme

BFV == INSTANCE Bfv WITH Moduli <- BfvModuli, PModuli <- BfvPModuli,
                         NoiseCap <- BfvNoiseCap
CKKS == INSTANCE Ckks WITH Moduli <- CkksModuli, PModuli <- CkksPModuli

Init ==
    \/ scheme = "BGV" /\ BgvInit
    \/ scheme = "BFV" /\ BFV!Init
    \/ scheme = "CKKS" /\ CKKS!Init

Next ==
    /\ UNCHANGED scheme
    /\ \/ scheme = "BGV" /\ BgvNext
       \/ scheme = "BFV" /\ BFV!Next
       \/ scheme = "CKKS" /\ CKKS!Next

Spec == Init /\ [][Next]_<<vars, scheme>>

-----------------------------------------------------------------------------
\* The properties of the three modules.

\* Types: keys and components are reduced and live in the ring of their level.
SchemesTypeOK ==
    /\ scheme \in {"BGV", "BFV", "CKKS"}
    /\ scheme = "BGV" => BgvTypeOK
    /\ scheme = "BFV" => BFV!BfvTypeOK
    /\ scheme = "CKKS" => CKKS!CkksTypeOK

\* BgvNoiseBounded: what is beside a BGV message is a multiple of T within the
\* bound of noise.rs, after every operation of one holder or several.
NoiseBounded == scheme = "BGV" => BgvNoiseBounded

\* BgvDecrypts: within the margin, BGV decryption and joint decryption give
\* the plaintext of the computation.
Decrypts == scheme = "BGV" => BgvDecrypts

\* BgvDigitsRecompose: gadget digits recompose over several moduli, too.
DigitsRecompose == scheme = "BGV" => BgvDigitsRecompose

\* Bfv!ScaledMessage: the rescaled tensor, the hybrid key switches and the
\* collective operations keep Delta m with the noise they are said to have.
ScaledMessage == scheme = "BFV" => BFV!ScaledMessage

\* Bfv!BfvDecrypts: within the margin, BFV decryption and joint decryption give
\* the plaintext of the computation.
BfvDecrypts == scheme = "BFV" => BFV!BfvDecrypts

\* Ckks!Approximates: the tracked scale and level stay true to the ciphertext
\* through every legal sequence of calls.
Approximates == scheme = "CKKS" => CKKS!Approximates

\* Ckks!EstimateSound: the tracked precision is never better than the truth for
\* the steps it accounts for.
EstimateSound == scheme = "CKKS" => CKKS!EstimateSound
=============================================================================
