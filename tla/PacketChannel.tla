---------------------------- MODULE PacketChannel ----------------------------
(***************************************************************************)
(* What packet_send and packet_rec promise the code that calls them: on    *)
(* each connection the packets that were sent are handed over one at a     *)
(* time, whole, in the order they were sent, and no others.                *)
(***************************************************************************)
EXTENDS Naturals, Sequences

CONSTANTS Conn, Packet

VARIABLES
    sent,      \* packets sent on each connection
    delivered  \* packets handed over

vars == <<sent, delivered>>

Init == sent = [c \in Conn |-> <<>>] /\ delivered = [c \in Conn |-> <<>>]

Send(c, p) ==
    /\ sent' = [sent EXCEPT ![c] = Append(@, p)]
    /\ UNCHANGED delivered

Deliver(c) ==
    /\ Len(delivered[c]) < Len(sent[c])
    /\ delivered' = [delivered EXCEPT ![c] = Append(@, sent[c][Len(@) + 1])]
    /\ UNCHANGED sent

Next == \E c \in Conn : Deliver(c) \/ \E p \in Packet : Send(c, p)

Spec == Init /\ [][Next]_vars
=============================================================================
