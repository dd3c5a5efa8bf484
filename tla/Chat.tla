-------------------------------- MODULE Chat --------------------------------
(***************************************************************************)
(* The clients and the server together: what client.c and the client's     *)
(* main.c keep and do, the handlers of Registry, and between them two      *)
(* queues of packets for each connection, which hold so many and no more.  *)
(*                                                                         *)
(* The poll loop is cut down to the choice of a connection to serve, and   *)
(* the file transfer to its beginning and its end: ChatServer and          *)
(* FileTransfer are about those.  Of the commands, those that a client     *)
(* keeps something of, and one of the others, which go to the server and   *)
(* come back in the same way.                                              *)
(***************************************************************************)
EXTENDS Registry

CONSTANTS
    File,     \* files the clients may send, and the names they give of them
    NoFile,   \* the empty string in file_to_send and file_to_receive
    MaxQueue, \* packets that fit in one direction of a connection: at least
              \* as many as one of the handlers here writes to it, one
    MaxTyped, \* bound: commands a user types
    Habits    \* what users do: a subset of AllHabits

AllHabits ==
    {"hasty",  \* type a command before the first /nick is answered
     "rename", \* change nickname
     "resend", \* send a file before the last one is answered
     "spoil",  \* cut short a file being sent, or have no room for its copy
     "leave"}  \* type /quit, or kill the client

ASSUME ChatAssumption ==
    /\ File \subseteq Body
    /\ Conn \subseteq Body   \* the address of a client, in a FILE_ACCEPT, or what it says
    /\ NoFile \notin Body
    /\ MaxQueue \in Nat \ {0}
    /\ MaxTyped \in Nat
    /\ Habits \subseteq AllHabits

VARIABLES
    typed,    \* commands each user has typed
    due,      \* poll reports a packet, to be read before what is typed next
    mode,     \* where each client is in its code
    client,   \* struct client of each connection
    asker,    \* the nickname in the FILE_REQUEST a client is busy with
    peer,     \* the other end of the file transfer of each client
    blocked,  \* the packet each client cannot send yet, and what comes next
    requests, \* packets on their way to the server
    inbox,    \* packets on their way to each client
    serving,  \* the connection whose packet the server is busy with
    down      \* the server was killed by writing to a client that has gone

clientvars == <<typed, due, mode, client, asker, peer, blocked>>
vars == <<regvars, clientvars, requests, inbox, serving, down>>

(* "loop" is the for loop of main.c, "prompt" the getchar of                 *)
(* client_handle_file_request_res, "send" a send that waits, "accept" the    *)
(* accept of file_accept_res.                                                *)
Modes == {"off", "loop", "prompt", "send", "accept", "sending", "receiving", "gone"}
AnswerTypes == {"FILE_ACCEPT", "FILE_REJECT"}
Running(c) == mode[c] \notin {"off", "gone"}
Up == fault = "none" /\ ~down
NoClient == [nickname |-> Empty, file_to_send |-> NoFile, file_to_receive |-> NoFile]

-----------------------------------------------------------------------------
(* Clients: sending.                                                        *)

Req(c, type, infos, payload) ==
    [type |-> type, from |-> client[c].nickname, infos |-> infos, payload |-> payload]

(* packet_send to the server, then on to "next": it waits for room.          *)
SendsTo(c, q, next) ==
    \/ /\ Len(requests[c]) < MaxQueue
       /\ requests' = [requests EXCEPT ![c] = Append(@, q)]
       /\ mode' = [mode EXCEPT ![c] = next]
       /\ UNCHANGED blocked
    \/ /\ Len(requests[c]) = MaxQueue
       /\ mode' = [mode EXCEPT ![c] = "send"]
       /\ blocked' = [blocked EXCEPT ![c] = <<q, next>>]
       /\ UNCHANGED requests

Unblocks(c) ==
    /\ mode[c] = "send"
    /\ Len(requests[c]) < MaxQueue
    /\ requests' = [requests EXCEPT ![c] = Append(@, blocked[c][1])]
    /\ mode' = [mode EXCEPT ![c] = blocked[c][2]]
    /\ blocked' = [blocked EXCEPT ![c] = <<>>]
    /\ due' = [due EXCEPT ![c] = blocked[c][1].type \notin AnswerTypes /\ inbox[c] # <<>>]
    /\ UNCHANGED <<regvars, typed, client, asker, peer, inbox, serving, down>>

(* A command typed in the loop of main.c.  The next poll comes when it has   *)
(* been sent; a packet that is there by then is read before the next line.   *)
Types(c, type, infos, payload) ==
    /\ type \in Commands
    /\ mode[c] = "loop"
    /\ ~due[c]
    /\ type = "NICKNAME_NEW" \/ "hasty" \in Habits \/ client[c].nickname # Empty
    /\ typed[c] < MaxTyped
    /\ typed' = [typed EXCEPT ![c] = @ + 1]
    /\ due' = [due EXCEPT ![c] = inbox[c] # <<>>]
    /\ SendsTo(c, Req(c, type, infos, payload), "loop")
    /\ UNCHANGED <<regvars, asker, peer, inbox, serving, down>>

InFlight(c, type) == \E k \in DOMAIN requests[c] : requests[c][k].type = type

client_send_nickname_new_req_Early(c, n) ==
    /\ client' = [client EXCEPT ![c].nickname = n]
    /\ Types(c, "NICKNAME_NEW", n, NoFile)
client_send_nickname_new_req(c, n) ==
    /\ \/ "rename" \in Habits
       \/ ~user[c].is_logged_in /\ ~InFlight(c, "NICKNAME_NEW")
    /\ Types(c, "NICKNAME_NEW", n, NoFile)
    /\ UNCHANGED client

(* /msgall, for every command that does not change the client: what it says  *)
(* is whose it is.                                                          *)
client_send_broadcast_send_req(c) == Types(c, "BROADCAST_SEND", Empty, c) /\ UNCHANGED client

(* c has a request that nobody has answered, or has not read the answer.     *)
Unanswered(c) ==
    \/ InFlight(c, "FILE_REQUEST")
    \/ \E d \in Conn : \E k \in DOMAIN offers[d] : offers[d][k].by = c
    \/ \E k \in DOMAIN inbox[c] : inbox[c][k].type \in {"FILE_ACCEPT", "FILE_REJECT"}

(* /send: the path is kept until the answer comes.                           *)
client_send_file_req(c, n, f) ==
    /\ "resend" \in Habits \/ ~Unanswered(c)
    /\ client' = [client EXCEPT ![c].file_to_send = f]
    /\ Types(c, "FILE_REQUEST", n, f)

-----------------------------------------------------------------------------
(* Clients: the prompt of client_handle_file_request_res.                   *)

file_accept_res_Silent(c) ==
    /\ mode[c] = "prompt"
    /\ mode' = [mode EXCEPT ![c] = "accept"]
    /\ UNCHANGED <<regvars, typed, due, client, asker, peer, blocked, requests, inbox, serving, down>>

(* A listening socket, FILE_ACCEPT with its address, and accept.             *)
file_accept_res(c) ==
    /\ mode[c] = "prompt"
    /\ SendsTo(c, Req(c, "FILE_ACCEPT", asker[c], c), "accept")
    /\ UNCHANGED <<regvars, typed, due, client, asker, peer, inbox, serving, down>>

file_reject_res_ToSelf(c) ==
    /\ mode[c] = "prompt"
    /\ client' = [client EXCEPT ![c].file_to_send = NoFile]
    /\ SendsTo(c, Req(c, "FILE_REJECT", client[c].nickname, NoFile), "loop")
    /\ UNCHANGED <<regvars, typed, due, asker, peer, inbox, serving, down>>
file_reject_res(c) ==
    /\ mode[c] = "prompt"
    /\ client' = [client EXCEPT ![c].file_to_send = NoFile]
    /\ SendsTo(c, Req(c, "FILE_REJECT", asker[c], NoFile), "loop")
    /\ UNCHANGED <<regvars, typed, due, asker, peer, inbox, serving, down>>

-----------------------------------------------------------------------------
(* Clients: reading.                                                        *)

Exits(c) ==
    /\ mode' = [mode EXCEPT ![c] = "gone"]
    /\ blocked' = [blocked EXCEPT ![c] = <<>>]
    /\ inbox' = [inbox EXCEPT ![c] = <<>>]
    /\ UNCHANGED <<regvars, typed, due, client, asker, peer, serving, down>>

Takes(c) ==
    /\ inbox' = [inbox EXCEPT ![c] = Tail(@)]
    /\ due' = [due EXCEPT ![c] = FALSE]
Content(p) == CHOOSE m \in p.payload.about : TRUE

client_handle_nickname_new_res_Once(c, p) ==
    client' = [client EXCEPT ![c].nickname = IF @ = Empty THEN p.infos ELSE @]
client_handle_nickname_new_res(c, p) ==
    client' = [client EXCEPT ![c].nickname = p.infos]

(* The prompt, whose answer is another step.                                 *)
client_handle_file_request_res_Once(c, p) ==
    /\ client' = [client EXCEPT ![c].file_to_receive = IF @ = NoFile THEN Content(p) ELSE @]
    /\ asker' = [asker EXCEPT ![c] = p.infos]
    /\ mode' = [mode EXCEPT ![c] = "prompt"]
client_handle_file_request_res(c, p) ==
    /\ client' = [client EXCEPT ![c].file_to_receive = Content(p)]
    /\ asker' = [asker EXCEPT ![c] = p.infos]
    /\ mode' = [mode EXCEPT ![c] = "prompt"]

(* Connect to the address, or exit.           *)
client_handle_file_accept_res(c, d) ==
    \/ /\ mode[d] = "accept"
       /\ mode' = [mode EXCEPT ![c] = "sending", ![d] = "receiving"]
       /\ peer' = [peer EXCEPT ![c] = d, ![d] = c]
       /\ Takes(c)
       /\ UNCHANGED <<regvars, typed, client, asker, blocked, requests, serving, down>>
    \/ /\ mode[d] # "accept"
       /\ Exits(c)
       /\ UNCHANGED requests

Reads(c) ==
    /\ mode[c] = "loop"
    /\ inbox[c] # <<>>
    /\ LET p == Head(inbox[c])
       IN  \/ /\ p.type = "NICKNAME_NEW"
              /\ client_handle_nickname_new_res(c, p)
              /\ Takes(c)
              /\ UNCHANGED <<regvars, typed, mode, asker, peer, blocked, requests, serving, down>>
           \/ /\ p.type = "FILE_REQUEST"
              /\ client_handle_file_request_res(c, p)
              /\ Takes(c)
              /\ UNCHANGED <<regvars, typed, peer, blocked, requests, serving, down>>
           \/ p.type = "FILE_ACCEPT" /\ client_handle_file_accept_res(c, Content(p))
           \/ /\ p.type \notin {"NICKNAME_NEW", "FILE_REQUEST", "FILE_ACCEPT"}
              /\ Takes(c)
              /\ UNCHANGED <<regvars, typed, mode, client, asker, peer, blocked, requests, serving, down>>

(* "Connection lost with the server".                                       *)
ServerLost(c) ==
    /\ ~Up
    /\ mode[c] = "loop"
    /\ inbox[c] = <<>>
    /\ Exits(c)
    /\ UNCHANGED requests

(* A transfer under way ends for each of the two, in a verdict or in its own *)
(* end: for want of the other, or when it cannot read the file or write the  *)
(* copy, or closes the file twice.                                           *)
TransferEnds(c) ==
    /\ mode[c] \in {"sending", "receiving"}
    /\ \/ /\ mode' = [mode EXCEPT ![c] = "loop"]
          /\ UNCHANGED <<regvars, typed, due, client, asker, peer, blocked, inbox, serving, down>>
       \/ /\ "spoil" \in Habits \/ mode[peer[c]] = "gone"
          /\ Exits(c)
    /\ UNCHANGED requests

(* /quit, or the end of the process; what it sent last may be lost, but not  *)
(* what the server has read.                                                *)
Leave(c) ==
    /\ "leave" \in Habits
    /\ Running(c)
    /\ Exits(c)
    /\ \E k \in (IF serving = c THEN 1 ELSE 0)..Len(requests[c]) :
          requests' = [requests EXCEPT ![c] = SubSeq(@, 1, k)]

-----------------------------------------------------------------------------
(* The server.                                                              *)

(* What the handler just done sends; writing to a client that has gone may   *)
(* end the server.                                                           *)
Delivers ==
    /\ inbox' = [d \in Conn |-> IF Running(d) THEN inbox[d] \o sent'[d] ELSE inbox[d]]
    /\ \A d \in Conn : Running(d) /\ sent'[d] # <<>> => Len(inbox'[d]) <= MaxQueue
    /\ down' \in IF \E d \in Conn : sent'[d] # <<>> /\ ~Running(d) THEN BOOLEAN ELSE {FALSE}

Arrive(c) ==
    /\ Up
    /\ serving = NoConn
    /\ mode[c] = "off"
    /\ Admits
    /\ accept_user(c)
    /\ mode' = [mode EXCEPT ![c] = "loop"]
    /\ inbox' = [inbox EXCEPT ![c] = sent'[c]]
    /\ UNCHANGED <<typed, due, client, asker, peer, blocked, requests, serving, down>>

(* The loop has come to c, and read a packet.                                *)
Choose(c) ==
    /\ Up
    /\ serving = NoConn
    /\ requests[c] # <<>>
    /\ serving' = c
    /\ UNCHANGED <<regvars, clientvars, requests, inbox, down>>

Handles(u, q) ==
    \/ ~user[u].is_logged_in /\ q.type # "NICKNAME_NEW" /\ login_first(u)
    \/ q.type = "NICKNAME_NEW" /\ server_handle_nickname_new_req(u, q.infos)
    \/ q.type = "BROADCAST_SEND" /\ server_handle_broadcast_send_req(u, q.payload)
    \/ q.type = "FILE_REQUEST" /\ server_handle_file_req(u, q.from, q.infos, q.payload)
    \/ q.type = "FILE_ACCEPT" /\ server_handle_file_accept_res(u, q.from, q.payload)
    \/ q.type = "FILE_REJECT" /\ server_handle_file_reject_req(u)

(* The handler, which waits for room on every connection it writes to, with  *)
(* the whole server.                                                         *)
Serve ==
    /\ Up
    /\ serving # NoConn
    /\ Handles(serving, Head(requests[serving]))
    /\ requests' = [requests EXCEPT ![serving] = Tail(@)]
    /\ serving' = NoConn
    /\ Delivers
    /\ UNCHANGED clientvars

(* The connection of c is closed, and everything it sent is read.            *)
Departs(c) ==
    /\ Up
    /\ serving = NoConn
    /\ mode[c] = "gone"
    /\ c \in users
    /\ requests[c] = <<>>
    /\ server_disconnect_user(c)
    /\ Delivers
    /\ UNCHANGED <<clientvars, requests, serving>>

-----------------------------------------------------------------------------
Init ==
    /\ RegInit
    /\ typed = [c \in Conn |-> 0]
    /\ due = [c \in Conn |-> FALSE]
    /\ mode = [c \in Conn |-> "off"]
    /\ client = [c \in Conn |-> NoClient]
    /\ asker = [c \in Conn |-> Empty]
    /\ peer = [c \in Conn |-> NoConn]
    /\ blocked = [c \in Conn |-> <<>>]
    /\ requests = [c \in Conn |-> <<>>]
    /\ inbox = [c \in Conn |-> <<>>]
    /\ serving = NoConn
    /\ down = FALSE

Commanded(c) ==
    \/ \E n \in Nick : client_send_nickname_new_req(c, n)
    \/ client_send_broadcast_send_req(c)
    \/ \E n \in Nick, f \in File : client_send_file_req(c, n, f)
Answers(c) == file_accept_res(c) \/ file_reject_res(c)
Runs_AfterTyping(c) ==
    \/ Unblocks(c) \/ ServerLost(c) \/ TransferEnds(c)
    \/ (due[c] \/ client[c].nickname = Empty) /\ Reads(c)
Runs(c) == Unblocks(c) \/ Reads(c) \/ ServerLost(c) \/ TransferEnds(c)
Server == Serve \/ \E c \in Conn : Choose(c) \/ Departs(c)

Next ==
    \/ \E c \in Conn : Arrive(c) \/ Commanded(c) \/ Answers(c) \/ Runs(c) \/ Leave(c)
    \/ Server

Behaviour == Init /\ [][Next]_vars

(* The server is scheduled, and so is each client while it need not wait for *)
(* its user.                                                                *)
Fairness == WF_vars(Server) /\ \A c \in Conn : WF_vars(Runs(c))

(* Users answer the prompts they are shown.                                  *)
Attentive == \A c \in Conn : WF_vars(Answers(c))

Spec == Behaviour /\ Fairness /\ Attentive

-----------------------------------------------------------------------------
(* Safety.                                                                  *)

OfType(s, types) ==
    LET kept[k \in 0..Len(s)] ==
            IF k = 0 THEN <<>>
            ELSE IF s[k].type \in types THEN Append(kept[k - 1], s[k])
            ELSE kept[k - 1]
    IN  kept[Len(s)]
Infos(s) == [k \in DOMAIN s |-> s[k].infos]

(* A client knows its nickname late, but never wrong: the last change of     *)
(* nickname it has still to read, or what it has if there is none, is the    *)
(* nickname the server goes by.                                              *)
NicknamesFollow ==
    \A c \in users : Running(c) =>
        LET news == OfType(inbox[c], {"NICKNAME_NEW"})
        IN  user[c].nickname =
               IF news = <<>> THEN client[c].nickname ELSE news[Len(news)].infos

HeldBack(c) == IF blocked[c] = <<>> THEN <<>> ELSE OfType(<<blocked[c][1]>>, AnswerTypes)
AtPrompt(c) == IF mode[c] = "prompt" THEN <<asker[c]>> ELSE <<>>

(* Each file request the server has passed on is in one place, in order: an  *)
(* answer on its way back, the prompt, or not read yet.  So an answer, which *)
(* repeats the nickname of the request, is to the oldest open request.       *)
PromptsAccounted ==
    \A c \in users : Running(c) =>
        [k \in DOMAIN offers[c] |-> offers[c][k].name] =
            Infos(OfType(requests[c], AnswerTypes)) \o Infos(HeldBack(c))
                \o AtPrompt(c) \o Infos(OfType(inbox[c], {"FILE_REQUEST"}))

(* What Registry supposes of clients is what these clients do: each request  *)
(* comes under a nickname the client has had, if not the latest, and each    *)
(* answer is to the request that the client owes one to.                     *)
ClientsAsAssumed ==
    serving # NoConn =>
        LET q == Head(requests[serving])
        IN  /\ q.from \in aka[serving]
            /\ q.type \in AnswerTypes =>
                  offers[serving] # <<>> /\ Head(offers[serving]).name = q.infos

Transferring(c) ==
    mode[c] = "sending" /\ mode[peer[c]] = "receiving" /\ peer[peer[c]] = c

(* When users keep their nicknames, and wait for the answer to one file      *)
(* before they offer another, the file that is sent is the one accepted, or  *)
(* none, and it is sent by whoever the receiver accepted it from.            *)
TransfersAsAgreed ==
    \A c \in Conn : Transferring(c) =>
        /\ asker[peer[c]] = client[c].nickname
        /\ client[c].file_to_send \in {client[peer[c]].file_to_receive, NoFile}

-----------------------------------------------------------------------------
(* Liveness.                                                                *)

(* Clients that wait in accept for one another, in a circle.                 *)
Crossed ==
    \E S \in SUBSET Conn \ {{}} :
        \A c \in S : mode[c] = "accept" /\ \E d \in S : asker[c] = user[d].nickname

(* The server is stopped by a client that does not read.                     *)
Stopped == serving # NoConn /\ \E c \in Conn : mode[c] # "loop" /\ Len(inbox[c]) = MaxQueue

(* When nobody leaves or renames, whoever accepts a file is connected to,    *)
(* but for two reasons: a circle of clients that accept each other's files,  *)
(* and the server, stopped by a client that reads nothing while it waits.    *)
AcceptEndsUnlessStuck ==
    \A c \in Conn : mode[c] = "accept" ~> (mode[c] # "accept" \/ Crossed \/ Stopped)

(* A packet the server has taken up is dealt with, unless some client is not *)
(* reading: nobody else can hold the server.                                 *)
ServedUnlessStopped == serving # NoConn ~> (serving = NoConn \/ Stopped \/ ~Up)
=============================================================================
