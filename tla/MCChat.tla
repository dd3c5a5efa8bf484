------------------------------- MODULE MCChat -------------------------------
(***************************************************************************)
(* Instances of Chat for TLC.                                              *)
(***************************************************************************)
EXTENDS Chat, TLC

CONSTANTS c1, c2, n1, n2, r1, a1, f1, f2

TwoConns == {c1, c2}
TwoNicks == {n1, n2}
OneRoom == {r1}
OneNode == {a1}
OneFile == {f1}
TwoFiles == {f1, f2}
FilesAndAddresses == File \cup Conn

FileCommands == {"NICKNAME_NEW", "FILE_REQUEST", "FILE_ACCEPT", "FILE_REJECT"}
FileCommandsAndBroadcast == FileCommands \cup {"BROADCAST_SEND"}

Symmetric == Permutations(Conn) \cup Permutations(Nick) \cup Permutations(File)
=============================================================================
