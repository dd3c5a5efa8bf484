---------------------------- MODULE FileDelivery ----------------------------
(***************************************************************************)
(* What the acknowledgements of a file transfer promise its sender, with no *)
(* processes, packets or connection: pieces of the file reach the copy in  *)
(* order, and the sender calls the transfer a success only when the copy   *)
(* has all the bytes that were announced; nothing is added afterwards.     *)
(***************************************************************************)
EXTENDS Integers

CONSTANTS
    Unknown,   \* the length of a file not announced, of a copy not begun
    Piece      \* the greatest number of bytes that arrive at a time

VARIABLES
    announced, \* the length of the file, once it has been announced
    copied,    \* the bytes of the file in the copy
    confirmed  \* the sender has called the transfer a success

vars == <<announced, copied, confirmed>>

Init == announced = Unknown /\ copied = 0 /\ confirmed = FALSE

Announce ==
    /\ announced = Unknown
    /\ announced' \in Nat
    /\ UNCHANGED <<copied, confirmed>>

Copy ==
    /\ announced # Unknown
    /\ ~confirmed
    /\ copied' - copied \in 1..Piece
    /\ UNCHANGED <<announced, confirmed>>

Confirm ==
    /\ ~confirmed
    /\ copied = announced
    /\ confirmed' = TRUE
    /\ UNCHANGED <<announced, copied>>

Next == Announce \/ Copy \/ Confirm

Spec == Init /\ [][Next]_vars
=============================================================================
