------------------------------- MODULE MCVssDkg -------------------------------
(* Instances of VssDkg for TLC. *)
EXTENDS VssDkg
=============================================================================
