---------------------------- MODULE FileTransfer ----------------------------
(***************************************************************************)
(* One file sent from client to client: peer.c, and its callers in         *)
(* client.c from the moment the answer FILE_ACCEPT is on its way.  Two     *)
(* processes talk over one TCP connection; either may be killed, and the   *)
(* file may change while it is read.                                       *)
(*                                                                         *)
(* A packet is two calls of send, the header and the payload, so it may    *)
(* arrive in half.  Bytes are counted, not looked into.                    *)
(***************************************************************************)
EXTENDS Integers, Sequences

CONSTANTS
    MSG_LEN,  \* the length of a block
    MaxSize,  \* bound: the length of the file
    Faults    \* what may go wrong: a subset of FaultKinds

FaultKinds ==
    {"kill",    \* a process is killed
     "resize"}  \* somebody changes the length of the file

ASSUME TransferAssumption ==
    /\ MSG_LEN \in Nat \ {0}
    /\ MaxSize \in Nat
    /\ Faults \subseteq FaultKinds

Peers == {"sender", "receiver"}
Other(p) == IF p = "sender" THEN "receiver" ELSE "sender"
Unknown == -1

VARIABLES
    at,     \* where each process is in its code
    file,   \* the length of the file to send, now
    size,   \* the variable "size" of each process, once it is set
    offset, \* the variable "offset" of each process
    ret,    \* the length of the block each process is busy with
    copied, \* bytes of the copy that came from the file
    wire,   \* pieces on their way to each process, or not read by it
    link,   \* what each process's kernel knows of the other end
    fds     \* descriptors of the transfer each process has open

vars == <<at, file, size, offset, ret, copied, wire, link, fds>>
counters == <<size, offset, ret, copied>>

Ended == {"success", "failed", "dead"}

(* "fin": the other end is closed; "poked": and has been written to since;   *)
(* "rst": the connection is reset.                                           *)
Links == {"none", "open", "fin", "poked", "rst"}

Header(type, len) == [part |-> "header", type |-> type, len |-> len]
Payload(value) == [part |-> "payload", type |-> "DEFAULT", len |-> value]
Pieces == [part : {"header", "payload"},
           type : {"DEFAULT", "FILE_SEND", "FILE_ACK", "FILENAME"}, len : Nat]

-----------------------------------------------------------------------------
(* Sockets and processes.                                                   *)

Go(p, where) == at' = [at EXCEPT ![p] = where]

(* p's end is closed.  With something unread in it, or not yet accepted, the *)
(* connection is reset, and what p sent last may be lost.                    *)
Unread(p) == wire[p] # <<>> \/ at[p] = "listening"
Closes(p) ==
    /\ wire' \in {[wire EXCEPT ![p] = <<>>, ![Other(p)] = SubSeq(@, 1, k)] :
                     k \in (IF Unread(p) THEN 0 ELSE Len(wire[Other(p)]))..Len(wire[Other(p)])}
    /\ link' = [link EXCEPT ![Other(p)] = IF @ = "none" THEN "none"
                                          ELSE IF Unread(p) THEN "rst" ELSE "fin"]

Dies(p) ==
    /\ Go(p, "dead")
    /\ fds' = [fds EXCEPT ![p] = {}]
    /\ Closes(p)

(* header_send, or the second send of packet_send: writing to a closed end   *)
(* is answered by a reset, writing to a reset connection ends the process.   *)
Sends(p, piece, next) ==
    \/ /\ link[p] = "open"
       /\ wire' = [wire EXCEPT ![Other(p)] = Append(@, piece)]
       /\ Go(p, next)
       /\ UNCHANGED <<link, fds>>
    \/ /\ link[p] \in {"fin", "poked"}
       /\ link' = [link EXCEPT ![p] = "poked"]
       /\ Go(p, next)
       /\ UNCHANGED <<wire, fds>>
    \/ /\ link[p] = "rst"
       /\ Dies(p)

Reads(p) ==
    /\ wire[p] # <<>>
    /\ wire' = [wire EXCEPT ![p] = Tail(@)]
    /\ UNCHANGED <<link, fds>>

(* recv returned 0, and nobody looks: the packet keeps the zeros of memset.  *)
ReadsNothing(p) ==
    /\ wire[p] = <<>>
    /\ link[p] \in {"fin", "poked", "rst"}
    /\ UNCHANGED <<wire, link, fds>>

(* recv failed: header_rec and packet_rec exit.                              *)
ReadFails(p) ==
    /\ wire[p] = <<>>
    /\ link[p] = "rst"
    /\ Dies(p)
    /\ UNCHANGED counters

-----------------------------------------------------------------------------
(* The sender: client_handle_file_accept_res and peer_send_file.            *)

Connect ==
    /\ at["sender"] = "called"
    /\ \/ /\ "listen" \in fds["receiver"]
          /\ Go("sender", "connected")
          /\ link' = [p \in Peers |-> "open"]
          /\ fds' = [fds EXCEPT !["sender"] = {"conn"}]
          /\ UNCHANGED wire
       \/ /\ "listen" \notin fds["receiver"]
          /\ Dies("sender")
    /\ UNCHANGED <<file, counters>>

(* stat and open: return 0 when the path leads to no regular file, exit when *)
(* the file cannot be opened for another reason.                             *)
OpenFile ==
    /\ at["sender"] = "connected"
    /\ \/ /\ Go("sender", "refuse")
          /\ UNCHANGED <<size, wire, link, fds>>
       \/ /\ Go("sender", "head")
          /\ size' = [size EXCEPT !["sender"] = file]
          /\ fds' = [fds EXCEPT !["sender"] = @ \cup {"file"}]
          /\ UNCHANGED <<wire, link>>
       \/ /\ Dies("sender")
          /\ UNCHANGED size
    /\ UNCHANGED <<file, offset, ret, copied>>

Announce_Now ==
    /\ \/ at["sender"] = "head" /\ Sends("sender", Header("FILE_SEND", 1), "size")
       \/ at["sender"] = "size" /\ Sends("sender", Payload(file), "loop")
    /\ UNCHANGED <<file, counters>>

(* The first packet holds the length, in digits: its payload is not empty.   *)
Announce ==
    /\ \/ at["sender"] = "head" /\ Sends("sender", Header("FILE_SEND", 1), "size")
       \/ at["sender"] = "size" /\ Sends("sender", Payload(size["sender"]), "loop")
    /\ UNCHANGED <<file, counters>>

Lesser(m, n) == IF m < n THEN m ELSE n
InBlock_Whole == IF offset["sender"] < file THEN file - offset["sender"] ELSE 0
InBlock == IF offset["sender"] < file THEN Lesser(MSG_LEN, file - offset["sender"]) ELSE 0

SendBlock_Break ==
    /\ \/ /\ at["sender"] = "loop"
          /\ offset["sender"] # size["sender"]
          /\ ret' = [ret EXCEPT !["sender"] = InBlock]
          /\ IF InBlock = 0
             THEN Go("sender", "success") /\ Closes("sender") /\ fds' = [fds EXCEPT !["sender"] = {}]
             ELSE Sends("sender", Header("FILE_SEND", InBlock), "block")
       \/ /\ at["sender"] = "block"
          /\ Sends("sender", Payload(ret["sender"]), "wait")
          /\ UNCHANGED ret
    /\ UNCHANGED <<file, size, offset, copied>>

(* At the end of the file, read returns 0: the file is closed twice, and the *)
(* second close fails and exits.                                             *)
SendBlock ==
    /\ \/ /\ at["sender"] = "loop"
          /\ offset["sender"] # size["sender"]
          /\ ret' = [ret EXCEPT !["sender"] = InBlock]
          /\ IF InBlock = 0 THEN Dies("sender")
             ELSE Sends("sender", Header("FILE_SEND", InBlock), "block")
       \/ /\ at["sender"] = "block"
          /\ Sends("sender", Payload(ret["sender"]), "wait")
          /\ UNCHANGED ret
    /\ UNCHANGED <<file, size, offset, copied>>

GetAck_Unchecked ==
    /\ at["sender"] = "wait"
    /\ \/ /\ Reads("sender") \/ ReadsNothing("sender")
          /\ offset' = [offset EXCEPT !["sender"] = @ + ret["sender"]]
          /\ Go("sender", "loop")
       \/ /\ ReadFails("sender")
    /\ UNCHANGED <<file, size, ret, copied>>

(* "Problem in reception": return 0 with the file open.                      *)
GetAck ==
    /\ at["sender"] = "wait"
    /\ \/ /\ Reads("sender")
          /\ offset' = [offset EXCEPT !["sender"] = @ + ret["sender"]]
          /\ Go("sender", "loop")
       \/ /\ ReadsNothing("sender")
          /\ Go("sender", "refuse")
          /\ UNCHANGED offset
       \/ /\ ReadFails("sender")
    /\ UNCHANGED <<file, size, ret, copied>>

(* peer_send_file returned 0: the caller says so in a FILENAME packet.       *)
Refuse ==
    /\ at["sender"] = "refuse"
    /\ Sends("sender", Header("FILENAME", 0), "close")
    /\ UNCHANGED <<file, counters>>

CloseSender ==
    /\ \/ at["sender"] = "close" /\ Go("sender", "failed")
       \/ /\ at["sender"] = "loop"
          /\ offset["sender"] = size["sender"]
          /\ Go("sender", "success")
    /\ fds' = [fds EXCEPT !["sender"] = IF at["sender"] = "loop" THEN {} ELSE @ \ {"conn"}]
    /\ Closes("sender")
    /\ UNCHANGED <<file, counters>>

-----------------------------------------------------------------------------
(* The receiver: file_accept_res and peer_receive_file.                     *)

(* The accepted socket takes the place of the listening one, which stays     *)
(* open.                                                                     *)
Accept ==
    /\ at["receiver"] = "listening"
    /\ link["receiver"] # "none"
    /\ Go("receiver", "accepted")
    /\ fds' = [fds EXCEPT !["receiver"] = @ \cup {"conn"}]
    /\ UNCHANGED <<file, counters, wire, link>>

(* A packet that did not come has no type and no payload: its length is 0.   *)
GetSize ==
    /\ \/ /\ at["receiver"] = "accepted"
          /\ \/ /\ Reads("receiver")
                /\ Go("receiver", IF Head(wire["receiver"]).type = "FILENAME" THEN "refused"
                                  ELSE "size")
                /\ UNCHANGED size
             \/ /\ ReadsNothing("receiver")
                /\ Go("receiver", "open")
                /\ size' = [size EXCEPT !["receiver"] = 0]
       \/ /\ at["receiver"] = "size"
          /\ Go("receiver", "open")
          /\ \/ /\ Reads("receiver")
                /\ size' = [size EXCEPT !["receiver"] = Head(wire["receiver"]).len]
             \/ /\ ReadsNothing("receiver")
                /\ size' = [size EXCEPT !["receiver"] = 0]
    /\ UNCHANGED <<file, offset, ret, copied>>

OpenCopy ==
    /\ at["receiver"] = "open"
    /\ \/ /\ Go("receiver", "loop")
          /\ copied' = 0
          /\ fds' = [fds EXCEPT !["receiver"] = @ \cup {"file"}]
          /\ UNCHANGED <<wire, link>>
       \/ /\ Dies("receiver")
          /\ UNCHANGED copied
    /\ UNCHANGED <<file, size, offset, ret>>

(* A header of length 0 has no payload to wait for, and one that did not     *)
(* come has length 0.                                                        *)
GetHeader ==
    /\ at["receiver"] = "loop"
    /\ offset["receiver"] # size["receiver"]
    /\ \/ /\ Reads("receiver")
          /\ ret' = [ret EXCEPT !["receiver"] = Head(wire["receiver"]).len]
          /\ Go("receiver", IF Head(wire["receiver"]).len = 0 THEN "ack" ELSE "block")
       \/ /\ ReadsNothing("receiver")
          /\ ret' = [ret EXCEPT !["receiver"] = 0]
          /\ Go("receiver", "ack")
    /\ UNCHANGED <<file, size, offset, copied>>

WriteBlock_Half ==
    /\ at["receiver"] = "block"
    /\ offset' = [offset EXCEPT !["receiver"] = @ + (ret["receiver"] + 1) \div 2]
    /\ Go("receiver", "ack")
    /\ \/ Reads("receiver") /\ copied' = copied + (ret["receiver"] + 1) \div 2
       \/ ReadsNothing("receiver") /\ UNCHANGED copied
    /\ UNCHANGED <<file, size, ret>>
WriteBlock_NoAck ==
    /\ at["receiver"] = "block"
    /\ offset' = [offset EXCEPT !["receiver"] = @ + ret["receiver"]]
    /\ Go("receiver", "loop")
    /\ \/ Reads("receiver") /\ copied' = copied + ret["receiver"]
       \/ ReadsNothing("receiver") /\ UNCHANGED copied
    /\ UNCHANGED <<file, size, ret>>

(* The block is written: the zeros of memset if its payload did not come.    *)
WriteBlock ==
    /\ at["receiver"] = "block"
    /\ offset' = [offset EXCEPT !["receiver"] = @ + ret["receiver"]]
    /\ Go("receiver", "ack")
    /\ \/ Reads("receiver") /\ copied' = copied + ret["receiver"]
       \/ ReadsNothing("receiver") /\ UNCHANGED copied
    /\ UNCHANGED <<file, size, ret>>

(* recv failed in packet_rec, or write did.                                  *)
ReceiverFails ==
    /\ \/ at["receiver"] \in {"accepted", "size", "block"}
       \/ at["receiver"] = "loop" /\ offset["receiver"] # size["receiver"]
    /\ \/ ReadFails("receiver")
       \/ /\ at["receiver"] = "block"
          /\ Dies("receiver")
          /\ UNCHANGED counters
    /\ UNCHANGED file

SendAck ==
    /\ at["receiver"] = "ack"
    /\ Sends("receiver", Header("FILE_ACK", 0), "loop")
    /\ UNCHANGED <<file, counters>>

FileReceived_KeepsFile ==
    /\ at["receiver"] = "loop"
    /\ offset["receiver"] = size["receiver"]
    /\ Go("receiver", "received")
    /\ UNCHANGED <<file, counters, wire, link, fds>>
FileReceived ==
    /\ at["receiver"] = "loop"
    /\ offset["receiver"] = size["receiver"]
    /\ Go("receiver", "received")
    /\ fds' = [fds EXCEPT !["receiver"] = @ \ {"file"}]
    /\ UNCHANGED <<file, counters, wire, link>>

(* recv of 0 bytes, which may or may not wait for something to read.         *)
CloseReceiver ==
    /\ \/ at["receiver"] = "refused" /\ Go("receiver", "failed")
       \/ at["receiver"] = "received" /\ Go("receiver", "success")
    /\ fds' = [fds EXCEPT !["receiver"] = @ \ {"conn"}]
    /\ Closes("receiver")
    /\ UNCHANGED <<file, counters>>

-----------------------------------------------------------------------------
(* The world.                                                               *)

ResetArrives(p) ==
    /\ link[p] = "poked"
    /\ link' = [link EXCEPT ![p] = "rst"]
    /\ UNCHANGED <<at, file, counters, wire, fds>>

Kill(p) ==
    /\ "kill" \in Faults
    /\ at[p] \notin Ended
    /\ Dies(p)
    /\ UNCHANGED <<file, counters>>

Resize ==
    /\ "resize" \in Faults
    /\ file' \in 0..MaxSize
    /\ UNCHANGED <<at, counters, wire, link, fds>>

Init ==
    /\ at = [p \in Peers |-> IF p = "sender" THEN "called" ELSE "listening"]
    /\ file \in 0..MaxSize
    /\ size = [p \in Peers |-> Unknown]
    /\ offset = [p \in Peers |-> 0]
    /\ ret = [p \in Peers |-> 0]
    /\ copied = Unknown
    /\ wire = [p \in Peers |-> <<>>]
    /\ link = [p \in Peers |-> "none"]
    /\ fds = [p \in Peers |-> IF p = "sender" THEN {} ELSE {"listen"}]

Sender == Connect \/ OpenFile \/ Announce \/ SendBlock \/ GetAck \/ Refuse \/ CloseSender
Receiver ==
    \/ Accept \/ GetSize \/ OpenCopy \/ GetHeader \/ WriteBlock \/ ReceiverFails
    \/ SendAck \/ FileReceived \/ CloseReceiver
Network == \E p \in Peers : ResetArrives(p)
World == Network \/ Resize \/ \E p \in Peers : Kill(p)

Next == Sender \/ Receiver \/ World

(* Each process is scheduled while it can go on, and a reset arrives.        *)
Spec ==
    Init /\ [][Next]_vars /\ WF_vars(Sender) /\ WF_vars(Receiver) /\ WF_vars(Network)

-----------------------------------------------------------------------------
(* Safety.                                                                  *)

Places ==
    {"called", "connected", "head", "size", "loop", "block", "wait", "refuse", "close",
     "listening", "accepted", "open", "ack", "refused", "received"} \cup Ended

(* Every variable of the transfer has its type.                              *)
TransferTypeOK ==
    /\ at \in [Peers -> Places]
    /\ file \in 0..MaxSize
    /\ size \in [Peers -> 0..MaxSize \cup {Unknown}]
    /\ offset \in [Peers -> Nat]
    /\ ret \in [Peers -> 0..MSG_LEN]
    /\ copied \in Nat \cup {Unknown}
    /\ wire \in [Peers -> Seq(Pieces)]
    /\ link \in [Peers -> Links]
    /\ fds \in [Peers -> SUBSET {"listen", "conn", "file"}]

(* Req 5.5, the sender's side: whoever was killed and whatever became of the *)
(* file, a sender that reports success for a file that is not empty has had  *)
(* every byte it announced stored, in blocks acknowledged after the write.   *)
ConfirmedIsCopied ==
    at["sender"] = "success" /\ size["sender"] > 0 => copied = size["sender"]

(* The two offsets, counted apart, never part by more than the block in      *)
(* flight, and the receiver is never behind: one block is sent per           *)
(* acknowledgement, and one acknowledgement per block.                       *)
Lockstep ==
    /\ offset["sender"] <= offset["receiver"]
    /\ offset["receiver"] <= offset["sender"] + ret["sender"]

(* Req 5.5, the receiver's side, as far as the code keeps it: if the sender  *)
(* is not killed, a receiver that was told a length and reports success has  *)
(* that length of the file, however the file changed meanwhile.              *)
ReceivedAnnounced ==
    at["receiver"] = "success" /\ size["receiver"] > 0 /\ at["sender"] # "dead"
    => copied = size["sender"] /\ size["receiver"] = size["sender"]

(* Req1.7, as far as the code keeps it: a client that goes on after a        *)
(* transfer, however it ended, has closed the connection; and the file too,  *)
(* if it reports success or never began to copy.                             *)
ConnectionClosed ==
    /\ \A p \in Peers : at[p] \in {"success", "failed"} => "conn" \notin fds[p]
    /\ \A p \in Peers : at[p] = "success" => "file" \notin fds[p]
    /\ at["receiver"] = "failed" => "file" \notin fds["receiver"]

Delivery ==
    INSTANCE FileDelivery WITH
        Piece <- MSG_LEN,
        announced <- size["sender"],
        copied <- IF copied = Unknown THEN 0 ELSE copied,
        confirmed <- at["sender"] = "success"

(* Offsets, blocks, acknowledgements and half packets implement the promise  *)
(* of FileDelivery to the sender, through every kill and change of length.   *)
ImplementsDelivery == Delivery!Spec

-----------------------------------------------------------------------------
(* Liveness.                                                                *)

(* Once the connection is made neither process can be left waiting for the   *)
(* other, whoever is killed and whatever becomes of the file.                *)
EndsOnceConnected ==
    link["receiver"] # "none" ~> \A p \in Peers : at[p] \in Ended

-----------------------------------------------------------------------------
(* A statement of README.md that the code does not keep.                    *)

(* README.md:84 and 137 (Req1.7): the descriptors of sockets and files are   *)
(* closed; a client that goes on after a transfer has none left of it.       *)
NothingLeftOpen ==
    \A p \in Peers : at[p] \in {"success", "failed"} => fds[p] = {}
=============================================================================
