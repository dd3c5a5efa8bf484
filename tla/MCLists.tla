------------------------------- MODULE MCLists -------------------------------
(***************************************************************************)
(* Instances of Lists for TLC.                                             *)
(***************************************************************************)
EXTENDS Lists, TLC

CONSTANTS u1, u2, u3, r1, r2

ThreeUsers == {u1, u2, u3}
TwoRooms == {r1, r2}
=============================================================================
