---------------------------- MODULE MCChatServer ----------------------------
(***************************************************************************)
(* Instances of ChatServer for TLC.                                        *)
(***************************************************************************)
EXTENDS ChatServer, TLC

CONSTANTS c1, c2, c3, n1, n2, n3, r1, a1, a2, m1

TwoConns == {c1, c2}
ThreeConns == {c1, c2, c3}
TwoNicks == {n1, n2}
ThreeNicks == {n1, n2, n3}
OneRoom == {r1}
TwoNodes == {a1, a2}
OneBody == {m1}

BroadcastCommands == {"NICKNAME_NEW", "BROADCAST_SEND"}
RoomCommands == {"NICKNAME_NEW", "MULTICAST_CREATE", "MULTICAST_JOIN"}

Symmetric == Permutations(Conn) \cup Permutations(Nick) \cup Permutations(RoomNode)
=============================================================================
