------------------------------- MODULE Framing -------------------------------
(***************************************************************************)
(* Packets on a stream of bytes: packet_send and packet_rec, the header and *)
(* the payload each with a send and a recv of its own, and the loop of the *)
(* server's main.c that calls packet_rec for many clients on one thread.   *)
(* The bytes of a packet arrive a few at a time; recv has the flag          *)
(* MSG_WAITALL, so it waits for all it asked for or for the end.            *)
(*                                                                         *)
(* What a packet says is left to Registry, and what the server writes and  *)
(* the slots of poll to ChatServer.                                        *)
(***************************************************************************)
EXTENDS Integers, Sequences

CONSTANTS
    Conn,
    NoConn,
    HeaderLen,  \* the bytes of a header, which begins with the length
    Lengths,    \* bound: the lengths of payloads
    MaxPackets, \* bound: packets each client sends
    Faults      \* what may go wrong: a subset of FaultKinds

FaultKinds ==
    {"cut",    \* a client is killed in the middle of a packet
     "reset"}  \* or its connection is reset

ASSUME FramingAssumption ==
    /\ NoConn \notin Conn
    /\ HeaderLen \in Nat \ {0}
    /\ Lengths \subseteq Nat
    /\ MaxPackets \in Nat
    /\ Faults \subseteq FaultKinds

VARIABLES
    sent,    \* the length of the payload of each packet a client has sent
    left,    \* bytes of the last one that have not arrived
    stream,  \* bytes arrived and not read: of which packet, and which one
    conn,    \* the state of each connection
    revents, \* what poll reported of those the for loop has not passed
    reading, \* the connection packet_rec is busy with, or NoConn
    part,    \* which of its two calls of recv it is in
    packet,  \* the bytes of the header and of the payload it has
    handled, \* the packets it has returned, as the bytes they are made of
    down     \* the server has left by exit

client == <<sent, left>>
vars == <<client, stream, conn, revents, reading, part, packet, handled, down>>

(* "closed" by the client, "reset", or "removed" by the server.              *)
ConnStates == {"open", "closed", "reset", "removed"}

Empty == [header |-> <<>>, payload |-> <<>>]

Total(c, n) == HeaderLen + sent[c][n]
Bytes(n, from, to) == [k \in 1..(to - from + 1) |-> <<n, from + k - 1>>]

-----------------------------------------------------------------------------
(* A client and the network.                                                *)

packet_send(c) ==
    /\ conn[c] = "open"
    /\ left[c] = 0
    /\ Len(sent[c]) < MaxPackets
    /\ \E len \in Lengths :
          /\ sent' = [sent EXCEPT ![c] = Append(@, len)]
          /\ left' = [left EXCEPT ![c] = HeaderLen + len]
    /\ UNCHANGED <<stream, conn, revents, reading, part, packet, handled, down>>

Arrive(c) ==
    /\ conn[c] = "open"
    /\ \E k \in 1..left[c] :
          LET n == Len(sent[c])
              from == Total(c, n) - left[c] + 1
          IN  /\ stream' = [stream EXCEPT ![c] = @ \o Bytes(n, from, from + k - 1)]
              /\ left' = [left EXCEPT ![c] = @ - k]
    /\ UNCHANGED <<sent, conn, revents, reading, part, packet, handled, down>>

Close(c) ==
    /\ conn[c] = "open"
    /\ \/ /\ left[c] = 0 \/ "cut" \in Faults
          /\ conn' = [conn EXCEPT ![c] = "closed"]
       \/ /\ "reset" \in Faults
          /\ conn' = [conn EXCEPT ![c] = "reset"]
    /\ UNCHANGED <<client, stream, revents, reading, part, packet, handled, down>>

-----------------------------------------------------------------------------
(* The loop of the server.                                                  *)

Nobody == [c \in Conn |-> "none"]
Report_Beyond(c) ==
    CASE conn[c] = "removed" -> "none"
      [] conn[c] = "reset" -> "hup"
      [] OTHER -> IF Len(stream[c]) > HeaderLen \/ conn[c] = "closed" THEN "in" ELSE "none"
Report(c) ==
    CASE conn[c] = "removed" -> "none"
      [] conn[c] = "reset" -> "hup"
      [] OTHER -> IF stream[c] # <<>> \/ conn[c] = "closed" THEN "in" ELSE "none"

poll ==
    /\ ~down
    /\ reading = NoConn
    /\ revents = Nobody
    /\ revents' = [c \in Conn |-> Report(c)]
    /\ UNCHANGED <<client, stream, conn, reading, part, packet, handled, down>>

Remove(c) ==
    /\ conn' = [conn EXCEPT ![c] = "removed"]
    /\ stream' = [stream EXCEPT ![c] = <<>>]

HangUp(c) ==
    /\ ~down
    /\ reading = NoConn
    /\ revents[c] = "hup"
    /\ Remove(c)
    /\ revents' = [revents EXCEPT ![c] = "none"]
    /\ UNCHANGED <<client, reading, part, packet, handled, down>>

Readable(c) ==
    /\ ~down
    /\ reading = NoConn
    /\ revents[c] = "in"
    /\ reading' = c
    /\ UNCHANGED <<client, stream, conn, revents, part, packet, handled, down>>

-----------------------------------------------------------------------------
(* packet_rec.  A header cut short has zeros after what has come, but the    *)
(* length is its first field.                                               *)

Lesser(m, n) == IF m < n THEN m ELSE n
len_payload_Capped ==
    IF packet.header = <<>> THEN 0 ELSE Lesser(1, sent[reading][packet.header[1][1]])
len_payload ==
    IF packet.header = <<>> THEN 0 ELSE sent[reading][packet.header[1][1]]

Want == IF part = "header" THEN HeaderLen ELSE len_payload

Taken_All == Len(stream[reading])
Taken == Lesser(Want - Len(packet[part]), Len(stream[reading]))

recv ==
    /\ ~down
    /\ reading # NoConn
    /\ Taken > 0
    /\ stream' = [stream EXCEPT ![reading] = SubSeq(@, Taken + 1, Len(@))]
    /\ packet' = [packet EXCEPT ![part] = @ \o SubSeq(stream[reading], 1, Taken)]
    /\ UNCHANGED <<client, conn, revents, reading, part, handled, down>>

(* It returns with all of it, or with what there was before the end.         *)
AtEnd == conn[reading] # "open" /\ stream[reading] = <<>>
Finished_AsComes == packet[part] # <<>> \/ AtEnd
Finished == Len(packet[part]) = Want \/ AtEnd
Fails == AtEnd /\ conn[reading] = "reset" /\ packet[part] = <<>>

Returns ==
    /\ ~down
    /\ reading # NoConn
    /\ Finished

(* recv returned -1: exit.                                                   *)
Exit ==
    /\ Returns
    /\ Fails
    /\ down' = TRUE
    /\ UNCHANGED <<client, stream, conn, revents, reading, part, packet, handled>>

header_rec ==
    /\ Returns
    /\ ~Fails
    /\ part = "header"
    /\ len_payload # 0
    /\ part' = "payload"
    /\ UNCHANGED <<client, stream, conn, revents, reading, packet, handled, down>>

(* The packet is handled, and its variable goes out of scope; or the client  *)
(* has gone, and is removed, and "break" leaves the for loop.                *)
packet_rec ==
    /\ Returns
    /\ ~Fails
    /\ part = "payload" \/ len_payload = 0
    /\ reading' = NoConn
    /\ part' = "header"
    /\ packet' = Empty
    /\ \/ /\ packet.header # <<>>
          /\ handled' = [handled EXCEPT ![reading] = Append(@, packet.header \o packet.payload)]
          /\ revents' = [revents EXCEPT ![reading] = "none"]
          /\ UNCHANGED <<stream, conn>>
       \/ /\ packet.header = <<>>
          /\ Remove(reading)
          /\ revents' = Nobody
          /\ UNCHANGED handled
    /\ UNCHANGED <<client, down>>

-----------------------------------------------------------------------------
Init ==
    /\ sent = [c \in Conn |-> <<>>]
    /\ left = [c \in Conn |-> 0]
    /\ stream = [c \in Conn |-> <<>>]
    /\ conn = [c \in Conn |-> "open"]
    /\ revents = Nobody
    /\ reading = NoConn
    /\ part = "header"
    /\ packet = Empty
    /\ handled = [c \in Conn |-> <<>>]
    /\ down = FALSE

Server ==
    \/ poll \/ recv \/ Exit \/ header_rec \/ packet_rec
    \/ \E c \in Conn : HangUp(c) \/ Readable(c)

Next == Server \/ \E c \in Conn : packet_send(c) \/ Arrive(c) \/ Close(c)

(* The server is one process the system schedules.                           *)
Spec == Init /\ [][Next]_vars /\ WF_vars(Server)

(* And a client that has begun a packet goes on with it, and so does the     *)
(* network.                                                                 *)
PromptSpec == Spec /\ \A c \in Conn : WF_vars(Arrive(c))

-----------------------------------------------------------------------------
(* Safety.                                                                  *)

Whole(c, n) == Bytes(n, 1, Total(c, n))
Unhandled(c) ==
    (IF reading = c THEN packet.header \o packet.payload ELSE <<>>) \o stream[c]

(* The server never loses its place in a stream: what it has not handled     *)
(* begins with the first byte of the packet after the last it handled.       *)
InStep ==
    \A c \in Conn :
        Unhandled(c) # <<>> => Head(Unhandled(c)) = <<Len(handled[c]) + 1, 1>>

-----------------------------------------------------------------------------
(* What packet_send and packet_rec promise.  A packet sent is a length here, *)
(* and what is handled is that packet when it is all of its bytes and no     *)
(* others; what is handled of a client that went in the middle of a packet,  *)
(* its last, is no packet.                                                  *)

IsCut(c, n) == handled[c][n] # Whole(c, n) /\ n = Len(sent[c]) /\ conn[c] # "open"
Garbled == -1
Delivered(c) ==
    [n \in {m \in DOMAIN handled[c] : ~IsCut(c, m)} |->
        IF handled[c][n] = Whole(c, n) THEN sent[c][n] ELSE Garbled]

Channel ==
    INSTANCE PacketChannel WITH
        Packet <- Lengths,
        delivered <- [c \in Conn |-> Delivered(c)]

(* Halves of packets, waits in the middle and clients that are killed or     *)
(* reset there implement a channel that hands over what was sent, whole and  *)
(* in order.                                                                *)
ImplementsChannel == Channel!Spec

-----------------------------------------------------------------------------
(* Liveness.                                                                *)

(* If those that are begun are finished, each packet is handled, but for     *)
(* those of a client that goes, and a server that a reset has ended.         *)
EveryPacketHandled ==
    \A c \in Conn : \A n \in 1..MaxPackets :
        Len(sent[c]) >= n ~> (Len(handled[c]) >= n \/ conn[c] # "open" \/ down)
=============================================================================
