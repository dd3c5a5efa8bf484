------------------------------ MODULE MCFraming ------------------------------
(***************************************************************************)
(* Instances of Framing for TLC.                                           *)
(***************************************************************************)
EXTENDS Framing

CONSTANTS c1, c2

TwoConns == {c1, c2}
NoneOrTwo == {0, 2}
=============================================================================
