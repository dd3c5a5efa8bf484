---------------------------- MODULE RoomService ----------------------------
(***************************************************************************)
(* What the chatrooms of the server promise, with no lists, counters,      *)
(* flags or addresses: a user is in one room or in none, a room is there   *)
(* while somebody is in it, and what is said in a room is heard there and  *)
(* nowhere else.                                                           *)
(***************************************************************************)
CONSTANTS Conn, RoomName

VARIABLES
    where,  \* the room each connection is in: {} or a singleton
    heard   \* the connections that got the last step's room message

vars == <<where, heard>>

Rooms == UNION {where[c] : c \in Conn}
In(n) == {c \in Conn : n \in where[c]}

Init ==
    /\ where = [c \in Conn |-> {}]
    /\ heard = {}

Create(c, n) ==
    /\ n \notin Rooms
    /\ where' = [where EXCEPT ![c] = {n}]
    /\ heard' = {}

Join(c, n) ==
    /\ n \in Rooms \ where[c]
    /\ where' = [where EXCEPT ![c] = {n}]
    /\ heard' = {}

Leave(c) ==
    /\ where[c] # {}
    /\ where' = [where EXCEPT ![c] = {}]
    /\ heard' = {}

Speak(c) ==
    /\ \E n \in where[c] : heard' = In(n)
    /\ UNCHANGED where

Silent ==
    /\ heard' = {}
    /\ UNCHANGED where

Next ==
    \/ Silent
    \/ \E c \in Conn : Leave(c) \/ Speak(c)
    \/ \E c \in Conn, n \in RoomName : Create(c, n) \/ Join(c, n)

Spec == Init /\ [][Next]_vars
=============================================================================
