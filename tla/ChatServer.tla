----------------------------- MODULE ChatServer -----------------------------
(***************************************************************************)
(* The poll loop of the server's main.c around the handlers of Registry:   *)
(* the array of pollfds, the listening socket, the connections and the     *)
(* clients at their other end, who come, send and go at any moment.        *)
(*                                                                         *)
(* A request is a token here: what it asks is chosen when it is read.      *)
(* A packet is read and written whole, but for one thing: packet_send is   *)
(* two calls of send, so the answer of a closed peer to the first can make *)
(* the second fail.                                                        *)
(***************************************************************************)
EXTENDS Registry

CONSTANTS
    MaxIn,    \* bound: requests of one client the server has not read yet
    Failures  \* system calls that may fail: a subset of {"accept"}

ASSUME ChatServerAssumption ==
    /\ MaxIn \in Nat \ {0}
    /\ Failures \subseteq {"accept"}

VARIABLES
    pollfds,  \* the connection in each slot but the first, NoConn for fd -1
    revents,  \* what poll reported of each slot the for loop has not passed
    backlog,  \* connections waiting in the listening socket
    sock,     \* the state of each connection, as the server's kernel has it
    inq,      \* requests received on each connection and not read
    down      \* the process was killed by SIGPIPE or left by exit

loopvars == <<pollfds, revents, backlog>>
netvars == <<sock, inq, down>>
vars == <<regvars, loopvars, netvars>>

Slots == 1..MaxUsers

(* "open"; "fin": the client closed its socket with nothing left to read;    *)
(* "poked": and the server has written to it since; "rst": the connection is *)
(* reset, by that or because the client closed it with data unread.          *)
SockStates == {"none", "open", "fin", "poked", "rst"}
Closed == {"fin", "poked"}
Gone == Closed \cup {"rst"}

Up == ~down /\ fault = "none"

-----------------------------------------------------------------------------
(* Clients.                                                                 *)

Connect(c) ==
    /\ sock[c] = "none"
    /\ sock' = [sock EXCEPT ![c] = "open"]
    /\ backlog' = Append(backlog, c)
    /\ UNCHANGED <<regvars, pollfds, revents, inq, down>>

Send(c) ==
    /\ sock[c] = "open"
    /\ inq[c] < MaxIn
    /\ inq' = [inq EXCEPT ![c] = @ + 1]
    /\ UNCHANGED <<regvars, loopvars, sock, down>>

(* /quit, or the end of the process.                                         *)
Leave(c) ==
    /\ sock[c] = "open"
    /\ \E s \in {"fin", "rst"} : sock' = [sock EXCEPT ![c] = s]
    /\ UNCHANGED <<regvars, loopvars, inq, down>>

ResetArrives(c) ==
    /\ sock[c] = "poked"
    /\ sock' = [sock EXCEPT ![c] = "rst"]
    /\ UNCHANGED <<regvars, loopvars, inq, down>>

-----------------------------------------------------------------------------
(* The effect on the sockets of a handler's packets: writing to a reset      *)
(* connection raises SIGPIPE or fails with ECONNRESET, on which header_send  *)
(* and packet_send exit; writing to a closed one may, by the second send.    *)
Written(sockets) ==
    LET to == {c \in Conn : sent'[c] # <<>>}
    IN  /\ sock' = [c \in Conn |-> IF c \in to /\ sockets[c] = "fin" THEN "poked" ELSE sockets[c]]
        /\ down' \in IF \E c \in to : sock[c] = "rst" THEN {TRUE}
                     ELSE IF \E c \in to : sock[c] \in Closed THEN BOOLEAN ELSE {FALSE}

Report(i) ==
    IF i = 0 THEN IF backlog # <<>> THEN "in" ELSE "none"
    ELSE IF pollfds[i] = NoConn THEN "none"
    ELSE IF sock[pollfds[i]] = "rst" THEN "hup"
    ELSE IF inq[pollfds[i]] > 0 \/ sock[pollfds[i]] \in Closed THEN "in" ELSE "none"

Idle == \A i \in 0..MaxUsers : revents[i] = "none"

(* The for loop is over, and poll waits until it has something to report.    *)
poll ==
    /\ Up
    /\ Idle
    /\ revents' = [i \in 0..MaxUsers |-> Report(i)]
    /\ \E i \in 0..MaxUsers : Report(i) # "none"
    /\ UNCHANGED <<regvars, pollfds, backlog, netvars>>

(* The for loop reaches slot i.                                              *)
At_FromLast(i) ==
    /\ Up
    /\ revents[i] # "none"
    /\ \A j \in (i + 1)..MaxUsers : revents[j] = "none"
At(i) ==
    /\ Up
    /\ revents[i] # "none"
    /\ \A j \in 0..(i - 1) : revents[j] = "none"

(* "break" leaves the for loop: what poll reported of later slots is lost.   *)
Break == revents' = [i \in 0..MaxUsers |-> "none"]
Passed_Breaks(i) == Break
Passed(i) == revents' = [revents EXCEPT ![i] = "none"]

(* The new connection goes to the first free slot, if there is one.          *)
Free == {j \in Slots : pollfds[j] = NoConn}
Store_InLastSlot(c) == pollfds' = [pollfds EXCEPT ![MaxUsers] = c]
Store(c) ==
    IF Free = {} THEN UNCHANGED pollfds
    ELSE \E j \in Free : /\ \A k \in Free : j <= k
                         /\ pollfds' = [pollfds EXCEPT ![j] = c]

Accept ==
    /\ At(0)
    /\ LET c == Head(backlog)
       IN  /\ accept_user(c)
           /\ \/ /\ Admits
                 /\ Store(c)
                 /\ Written(sock)
                 /\ UNCHANGED inq
              \/ /\ ~Admits
                 /\ Written([sock EXCEPT ![c] = "none"])
                 /\ inq' = [inq EXCEPT ![c] = 0]
                 /\ UNCHANGED pollfds
    /\ backlog' = Tail(backlog)
    /\ Passed(0)

(* accept returned -1, which is reported and then used as the descriptor of   *)
(* the new client: writing to it fails, and header_send exits.  The user      *)
(* added for it is seen by nobody, for the exit is in the same handler.      *)
AcceptFails ==
    /\ At(0)
    /\ "accept" \in Failures
    /\ down' = TRUE
    /\ UNCHANGED <<regvars, loopvars, sock, inq>>

Vacate_KeepsFd(i) == UNCHANGED pollfds
Vacate_Zeroes(i) == pollfds' = [pollfds EXCEPT ![i] = 0]
Vacate(i) == pollfds' = [pollfds EXCEPT ![i] = NoConn]

Disconnect(i) ==
    LET c == pollfds[i]
    IN  /\ server_disconnect_user(c)
        /\ Vacate(i)
        /\ Written([sock EXCEPT ![c] = "none"])
        /\ inq' = [inq EXCEPT ![c] = 0]
        /\ UNCHANGED backlog

HangUp(i) ==
    /\ At(i)
    /\ revents[i] = "hup"
    /\ Disconnect(i)
    /\ Passed(i)

(* recv returned 0.                                                          *)
EndOfFile(i) ==
    /\ At(i)
    /\ revents[i] = "in"
    /\ inq[pollfds[i]] = 0
    /\ Disconnect(i)
    /\ Break

Readable(i) ==
    /\ At(i)
    /\ revents[i] = "in"
    /\ inq[pollfds[i]] > 0
Read(i) ==
    /\ inq' = [inq EXCEPT ![pollfds[i]] = @ - 1]
    /\ Written(sock)
    /\ UNCHANGED <<pollfds, backlog>>

LoginFirst(i) ==
    /\ Readable(i)
    /\ login_first(pollfds[i])
    /\ Read(i)
    /\ Break

Serve(i) ==
    /\ Readable(i)
    /\ \E u \in {pollfds[i]} : Nicknames(u) \/ Messages(u) \/ Chatrooms(u) \/ Files(u)
    /\ Read(i)
    /\ Passed(i)

-----------------------------------------------------------------------------
Init ==
    /\ RegInit
    /\ pollfds = [i \in Slots |-> NoConn]
    /\ revents = [i \in 0..MaxUsers |-> "none"]
    /\ backlog = <<>>
    /\ sock = [c \in Conn |-> "none"]
    /\ inq = [c \in Conn |-> 0]
    /\ down = FALSE

Client == \E c \in Conn : Connect(c) \/ Send(c) \/ Leave(c) \/ ResetArrives(c)
Server ==
    \/ poll
    \/ Accept
    \/ AcceptFails
    \/ \E i \in Slots : HangUp(i) \/ EndOfFile(i) \/ LoginFirst(i) \/ Serve(i)

Next == Client \/ Server

(* The server is one process the system schedules: it goes on while it can.  *)
(* Nothing is assumed of the clients.                                        *)
Spec == Init /\ [][Next]_vars /\ WF_vars(Server)

-----------------------------------------------------------------------------
(* Every variable of the loop and of the connections has its type.           *)
LoopTypeOK ==
    /\ TypeOK
    /\ pollfds \in [Slots -> Conn \cup {NoConn}]
    /\ revents \in [0..MaxUsers -> {"none", "in", "hup"}]
    /\ backlog \in Seq(Conn)
    /\ sock \in [Conn -> SockStates]
    /\ inq \in [Conn -> 0..MaxIn]
    /\ down \in BOOLEAN

(* The two tables of connections agree, the list of users in server.c and    *)
(* the slots in main.c: each user has one slot and each slot in use is a      *)
(* user's, so accept always finds a free slot for a user it admits, and no    *)
(* slot leads to the NULL or freed user that main.c does not test for.        *)
SlotsMatchUsers ==
    /\ {pollfds[i] : i \in Slots} \ {NoConn} = users
    /\ \A i, j \in Slots : pollfds[i] = pollfds[j] /\ pollfds[i] # NoConn => i = j
    /\ \A c \in Conn : sock[c] # "none" <=>
          c \in users \/ \E k \in DOMAIN backlog : backlog[k] = c

(* The only thread never blocks in accept or recv: what poll reported is     *)
(* still there when the for loop comes to it, whatever the steps in between. *)
NeverBlocks ==
    /\ revents[0] # "none" => backlog # <<>>
    /\ \A i \in Slots : revents[i] # "none" =>
          /\ pollfds[i] # NoConn
          /\ inq[pollfds[i]] > 0 \/ sock[pollfds[i]] \in Gone

(* Removing a client that has gone, when no other has, is safe: none of the   *)
(* notices this sends goes to the client itself.                             *)
RemovalIsSafe ==
    [][\A c \in users \ users' :
          (\A d \in Conn : sock[d] \in Gone => d = c) => down' = down]_vars

-----------------------------------------------------------------------------
(* Whoever waits in the listening socket is accepted or turned away: slot 0   *)
(* comes first, so no break can put it off.                                  *)
BacklogDrains ==
    \A c \in Conn :
        (\E k \in DOMAIN backlog : backlog[k] = c)
        ~> ((\A k \in DOMAIN backlog : backlog[k] # c) \/ ~Up)

Pending(i) ==
    /\ pollfds[i] # NoConn
    /\ inq[pollfds[i]] > 0 \/ sock[pollfds[i]] \in Gone

(* A request is read, and a departure noticed, unless the breaks of lower     *)
(* slots go on for ever.                                                     *)
ServedUnlessCutOff ==
    \A i \in Slots :
        <>[][\A j \in 1..(i - 1) : ~EndOfFile(j) /\ ~LoginFirst(j)]_vars
        => (Pending(i) ~> (~Pending(i) \/ ~Up))

-----------------------------------------------------------------------------
(* A statement of README.md that the code does not keep.                    *)

(* README.md:137 (Req1.7): a client that quits has its own connection cut;   *)
(* README.md:129 (Req1.3): the server answers several clients, so it goes on *)
(* for the others.                                                           *)
SurvivesDepartures == ~down
=============================================================================
