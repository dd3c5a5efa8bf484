----------------------------- MODULE MCRegistry -----------------------------
(***************************************************************************)
(* Instances of Registry for TLC.                                          *)
(***************************************************************************)
EXTENDS Registry, TLC

CONSTANTS c1, c2, c3, n1, n2, n3, r1, r2, a1, a2, m1

ThreeConns == {c1, c2, c3}
ThreeNicks == {n1, n2, n3}
OneRoom == {r1}
TwoRooms == {r1, r2}
OneNode == {a1}
TwoNodes == {a1, a2}
OneBody == {m1}

FileCommands == {"NICKNAME_NEW", "FILE_REQUEST", "FILE_ACCEPT", "FILE_REJECT"}

(* Bound: one client at a time has a file request to answer, and no room is  *)
(* open meanwhile.  The handlers of one part leave the variables of the      *)
(* other alone; both share the users, who come, go and rename throughout.    *)
RoomsApartFromFiles ==
    LET Asked == {c \in Conn : offers[c] # <<>>}
    IN  Asked # {} => chatrooms = {} /\ Cardinality(Asked) = 1

(* Permutations(RoomNode) too would cost more time than it saves.            *)
Symmetric == Permutations(Conn) \cup Permutations(Nick) \cup Permutations(RoomName)
=============================================================================
