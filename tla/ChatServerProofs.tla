-------------------------- MODULE ChatServerProofs --------------------------
(***************************************************************************)
(* Theorems about ChatServer, for any number of connections, any number of *)
(* slots and any requests: what the clients do and what poll reports may   *)
(* interleave in any way.                                                  *)
(***************************************************************************)
EXTENDS ChatServer, RegistryProofs

-----------------------------------------------------------------------------
(* The loop runs the handlers: every step of ChatServer is, for the tables   *)
(* of the server, a step of Registry or none.                                *)

(* The server starts with the tables of Registry empty.                      *)
LEMMA InitRegistry == Init => RegInit
BY DEF Init

(* The step of one slot calls one handler, for the user in the slot.         *)
LEMMA SlotCallsHandler ==
    ASSUME NEW i, HangUp(i) \/ EndOfFile(i) \/ LoginFirst(i) \/ Serve(i)
    PROVE  /\ pollfds[i] \in users
           /\ \/ server_disconnect_user(pollfds[i])
              \/ Handler(pollfds[i])
<1>1. CASE HangUp(i) \/ EndOfFile(i)
    BY <1>1 DEF HangUp, EndOfFile, Disconnect, server_disconnect_user
<1>2. CASE LoginFirst(i)
    BY <1>2 DEF LoginFirst, login_first, Handler
<1>3. CASE Serve(i)
    <2> DEFINE u == pollfds[i]
    <2>1. Nicknames(u) \/ Messages(u) \/ Chatrooms(u) \/ Files(u)
        BY <1>3 DEF Serve
    <2>2. u \in users
        <3>1. CASE Nicknames(u)
            BY <3>1 DEF Nicknames, Request, server_handle_nickname_new_req,
                        server_handle_nickname_list_req, server_handle_nickname_infos_req
        <3>2. CASE Messages(u)
            BY <3>2 DEF Messages, Request, server_handle_broadcast_send_req,
                        server_handle_unicast_send_req
        <3>3. CASE Chatrooms(u)
            BY <3>3 DEF Chatrooms, Request, server_handle_multicast_create_req,
                        server_handle_multicast_list_req, server_handle_multicast_join_req,
                        server_handle_multicast_quit_req, server_handle_multicast_send_req
        <3>4. CASE Files(u)
            BY <3>4 DEF Files, Request, Answer, server_handle_file_req,
                        server_handle_file_accept_res, server_handle_file_reject_req
        <3> QED  BY <2>1, <3>1, <3>2, <3>3, <3>4
    <2> QED  BY <2>1, <2>2 DEF Handler
<1> QED  BY <1>1, <1>2, <1>3

(* The new connection is one the network knows.                              *)
LEMMA AcceptCalls ==
    ASSUME LoopTypeOK, NeverBlocks, Accept
    PROVE  /\ backlog # <<>>
           /\ Head(backlog) \in Conn
           /\ accept_user(Head(backlog))
<1>1. backlog # <<>>
    BY DEF Accept, At, NeverBlocks
<1>2. backlog \in Seq(Conn)
    BY DEF LoopTypeOK
<1> QED  BY <1>1, <1>2 DEF Accept

(* Whatever the loop does, one slot at a time, is to the tables of the       *)
(* server a step of Registry, or leaves them as they are.                    *)
LEMMA StepIsRegistryStep ==
    ASSUME LoopTypeOK, NeverBlocks, [Next]_vars
    PROVE  [RegNext]_regvars
<1>1. CASE UNCHANGED vars
    BY <1>1 DEF vars
<1>2. CASE Client
    BY <1>2 DEF Client, Connect, Send, Leave, ResetArrives
<1>3. CASE poll \/ AcceptFails
    BY <1>3 DEF poll, AcceptFails
<1>4. CASE Accept
    BY <1>4, AcceptCalls DEF RegNext
<1>5. ASSUME NEW i \in Slots, HangUp(i) \/ EndOfFile(i) \/ LoginFirst(i) \/ Serve(i)
      PROVE  RegNext
    <2>1. pollfds[i] \in Conn
        BY <1>5, SlotCallsHandler DEF LoopTypeOK, TypeOK
    <2> QED  BY <1>5, <2>1, SlotCallsHandler DEF RegNext
<1> QED  BY <1>1, <1>2, <1>3, <1>4, <1>5 DEF Next, Server

-----------------------------------------------------------------------------
(* The inductive invariant: the tables are right, and the listening socket   *)
(* holds each connection once and none that has been accepted.               *)

Waiting(b, c) == \E k \in DOMAIN b : b[k] = c

BacklogDistinct ==
    /\ \A j, k \in DOMAIN backlog : backlog[j] = backlog[k] => j = k
    /\ \A c \in users : ~Waiting(backlog, c)

LoopInv == LoopTypeOK /\ IInv /\ SlotsMatchUsers /\ NeverBlocks /\ BacklogDistinct

(* Who waits once one has come, or one has been accepted.                    *)
LEMMA QueueEnds ==
    ASSUME NEW b \in Seq(Conn)
    PROVE  /\ \A c \in Conn : \A d : Waiting(Append(b, c), d) <=> Waiting(b, d) \/ d = c
           /\ b # <<>> /\ (\A j, k \in DOMAIN b : b[j] = b[k] => j = k) =>
                /\ \A d : Waiting(Tail(b), d) <=> Waiting(b, d) /\ d # Head(b)
                /\ \A j, k \in DOMAIN Tail(b) : Tail(b)[j] = Tail(b)[k] => j = k
                /\ Waiting(b, Head(b))
<1>1. ASSUME NEW c \in Conn, NEW d
      PROVE  Waiting(Append(b, c), d) <=> Waiting(b, d) \/ d = c
    <2>1. DOMAIN Append(b, c) = 1..(Len(b) + 1) /\ DOMAIN b = 1..Len(b) /\ Len(b) \in Nat
        OBVIOUS
    <2>2. \A k \in 1..Len(b) : Append(b, c)[k] = b[k]
        OBVIOUS
    <2>3. Append(b, c)[Len(b) + 1] = c
        OBVIOUS
    <2>4. ASSUME Waiting(Append(b, c), d) PROVE Waiting(b, d) \/ d = c
        <3>1. PICK k \in 1..(Len(b) + 1) : Append(b, c)[k] = d
            BY <2>1, <2>4 DEF Waiting
        <3>2. k \in 1..Len(b) \/ k = Len(b) + 1
            BY <2>1, <3>1
        <3> QED  BY <2>1, <2>2, <2>3, <3>1, <3>2 DEF Waiting
    <2>5. ASSUME Waiting(b, d) PROVE Waiting(Append(b, c), d)
        BY <2>1, <2>2, <2>5 DEF Waiting
    <2>6. Waiting(Append(b, c), c)
        BY <2>1, <2>3 DEF Waiting
    <2> QED  BY <2>4, <2>5, <2>6
<1>2. ASSUME b # <<>>, \A j, k \in DOMAIN b : b[j] = b[k] => j = k
      PROVE  /\ \A d : Waiting(Tail(b), d) <=> Waiting(b, d) /\ d # Head(b)
             /\ \A j, k \in DOMAIN Tail(b) : Tail(b)[j] = Tail(b)[k] => j = k
             /\ Waiting(b, Head(b))
    <2>1. /\ DOMAIN Tail(b) = 1..(Len(b) - 1) /\ DOMAIN b = 1..Len(b)
          /\ Len(b) \in Nat /\ Len(b) > 0 /\ Head(b) = b[1]
        BY <1>2
    <2>2. \A k \in 1..(Len(b) - 1) : Tail(b)[k] = b[k + 1]
        BY <1>2
    <2>3. Waiting(b, Head(b))
        BY <2>1 DEF Waiting
    <2>4. ASSUME NEW j \in DOMAIN Tail(b), NEW k \in DOMAIN Tail(b), Tail(b)[j] = Tail(b)[k]
          PROVE  j = k
        <3>1. b[j + 1] = b[k + 1] /\ j + 1 \in 1..Len(b) /\ k + 1 \in 1..Len(b)
            BY <2>1, <2>2, <2>4
        <3> QED  BY <1>2, <2>1, <2>4, <3>1
    <2>5. ASSUME NEW d, Waiting(Tail(b), d) PROVE Waiting(b, d) /\ d # Head(b)
        <3>1. PICK k \in 1..(Len(b) - 1) : b[k + 1] = d
            BY <2>1, <2>2, <2>5 DEF Waiting
        <3>2. k + 1 \in DOMAIN b /\ k + 1 # 1 /\ 1 \in DOMAIN b
            BY <2>1
        <3> QED  BY <1>2, <2>1, <3>1, <3>2 DEF Waiting
    <2>6. ASSUME NEW d, Waiting(b, d), d # Head(b) PROVE Waiting(Tail(b), d)
        <3>1. PICK k \in 1..Len(b) : b[k] = d
            BY <2>1, <2>6 DEF Waiting
        <3>2. k - 1 \in 1..(Len(b) - 1) /\ (k - 1) + 1 = k
            BY <2>1, <2>6, <3>1
        <3>3. Tail(b)[k - 1] = b[k]
            BY <2>2, <3>2
        <3> QED  BY <2>1, <3>1, <3>2, <3>3 DEF Waiting
    <2> QED  BY <2>3, <2>4, <2>5, <2>6
<1> QED  BY <1>1, <1>2

(* accept_user admits a user only when there is a free slot: each slot in    *)
(* use holds a user of its own.                                              *)
LEMMA AdmitsFindsSlot ==
    ASSUME LoopInv, Admits
    PROVE  Free # {}
<1> SUFFICES ASSUME Free = {} PROVE FALSE
    OBVIOUS
<1>1. MaxUsers \in Nat /\ NoConn \notin Conn
    BY RegistryAssumption
<1>2. \A i \in Slots : pollfds[i] # NoConn /\ pollfds[i] \in users
    BY DEF Free, LoopInv, SlotsMatchUsers
<1>3. pollfds \in [Slots -> users]
    BY <1>2 DEF LoopInv, LoopTypeOK
<1>4. IsFiniteSet(Slots) /\ Cardinality(Slots) = MaxUsers
    BY <1>1, FS_Interval DEF Slots
<1>5. IsFiniteSet(users) /\ Cardinality(users) < MaxUsers
    BY UsersFinite DEF LoopInv, IInv, Admits
<1>6. PICK i, j \in Slots : i # j /\ pollfds[i] = pollfds[j]
    BY <1>3, <1>4, <1>5, FS_PigeonHole
<1> QED  BY <1>2, <1>6 DEF LoopInv, SlotsMatchUsers

(* It is then the first of them that gets the connection.                    *)
LEMMA StoreFills ==
    ASSUME LoopTypeOK, Free # {}, NEW c \in Conn, Store(c)
    PROVE  \E j \in Slots : /\ pollfds[j] = NoConn
                            /\ pollfds' = [pollfds EXCEPT ![j] = c]
BY DEF Store, Free

(* Writing neither opens nor ends a connection, nor brings a client back.    *)
LEMMA WrittenSock ==
    ASSUME NEW s \in [Conn -> SockStates], Written(s)
    PROVE  /\ sock' \in [Conn -> SockStates]
           /\ down' \in BOOLEAN
           /\ \A c \in Conn : /\ sock'[c] = "none" <=> s[c] = "none"
                              /\ sock'[c] \in Gone <=> s[c] \in Gone
<1>1. sock' = [c \in Conn |-> IF sent'[c] # <<>> /\ s[c] = "fin" THEN "poked" ELSE s[c]]
    BY DEF Written
<1>2. down' \in BOOLEAN
    BY DEF Written
<1>3. \A c \in Conn : sock'[c] = s[c] \/ (sock'[c] = "poked" /\ s[c] = "fin")
    BY <1>1
<1>4. sock' \in [Conn -> SockStates]
    BY <1>1 DEF SockStates
<1> QED  BY <1>2, <1>3, <1>4 DEF Gone, Closed

(* What SlotsMatchUsers says of one connection.                              *)
Slotted(c) == \E i \in Slots : pollfds[i] = c

(* SlotsMatchUsers, said of one connection or one slot at a time.            *)
LEMMA SlotsSay ==
    ASSUME TypeOK
    PROVE  SlotsMatchUsers <=>
              /\ \A c \in Conn : c \in users <=> Slotted(c)
              /\ \A i \in Slots : pollfds[i] # NoConn => pollfds[i] \in Conn
              /\ \A i, j \in Slots : pollfds[i] = pollfds[j] /\ pollfds[i] # NoConn => i = j
              /\ \A c \in Conn : sock[c] # "none" <=> c \in users \/ Waiting(backlog, c)
<1>1. users \subseteq Conn /\ NoConn \notin Conn
    BY RegistryAssumption DEF TypeOK
<1>2. {pollfds[i] : i \in Slots} \ {NoConn} = users <=>
         /\ \A c \in Conn : c \in users <=> Slotted(c)
         /\ \A i \in Slots : pollfds[i] # NoConn => pollfds[i] \in Conn
    BY <1>1 DEF Slotted
<1> QED  BY <1>2 DEF SlotsMatchUsers, Waiting

-----------------------------------------------------------------------------
(* LoopInv is inductive: a step of the clients, of the loop, of each slot.   *)

(* The server starts with no user, and every slot but that of the listening  *)
(* socket free.                                                              *)
LEMMA InitLoopInv == Init => LoopInv
<1> SUFFICES ASSUME Init PROVE LoopInv
    OBVIOUS
<1>1. IInv /\ TypeOK
    BY InitIInv DEF Init, IInv
<1>2. LoopTypeOK
    <2>1. backlog \in Seq(Conn)
        BY DEF Init
    <2>2. inq \in [Conn -> 0..MaxIn]
        BY ChatServerAssumption DEF Init
    <2>3. /\ pollfds \in [Slots -> Conn \cup {NoConn}]
          /\ revents \in [0..MaxUsers -> {"none", "in", "hup"}]
          /\ sock \in [Conn -> SockStates]
          /\ down \in BOOLEAN
        BY DEF Init, SockStates
    <2> QED  BY <1>1, <2>1, <2>2, <2>3 DEF LoopTypeOK
<1>3. users = {} /\ backlog = <<>> /\ sock = [c \in Conn |-> "none"]
      /\ \A i \in Slots : pollfds[i] = NoConn
    BY DEF Init, RegInit
<1>4. SlotsMatchUsers
    BY <1>1, <1>3, SlotsSay, RegistryAssumption DEF Slotted, Waiting
<1>5. NeverBlocks
    BY RegistryAssumption DEF Init, NeverBlocks, Slots
<1>6. BacklogDistinct
    BY <1>3 DEF BacklogDistinct, Waiting
<1> QED  BY <1>1, <1>2, <1>4, <1>5, <1>6 DEF LoopInv

(* Whatever a client does, the server has nothing less to read, and none of  *)
(* its connections goes.                                                     *)
LEMMA ClientLoopInv ==
    ASSUME LoopInv, IInv', Client
    PROVE  LoopInv'
<1>u. UNCHANGED <<users, pollfds, revents>> /\ TypeOK /\ TypeOK'
    BY DEF Client, Connect, Send, Leave, ResetArrives, regvars, tables, loopvars, LoopInv, IInv
<1>t. LoopTypeOK
    BY DEF LoopInv
<1>s. SlotsMatchUsers
    BY DEF LoopInv
<1>n. NeverBlocks
    BY DEF LoopInv
<1>1. ASSUME NEW c \in Conn, Connect(c) PROVE LoopInv'
    <2>1. LoopTypeOK'
        BY <1>1, <1>t, <1>u DEF LoopTypeOK, Connect, SockStates
    <2>2. \A d : Waiting(backlog', d) <=> Waiting(backlog, d) \/ d = c
        BY <1>1, <1>t, QueueEnds DEF Connect, LoopTypeOK
    <2>3. c \notin users /\ ~Waiting(backlog, c)
        BY <1>1, <1>s, <1>u, SlotsSay DEF Connect
    <2>4. \A d \in Conn : sock'[d] # "none" <=> sock[d] # "none" \/ d = c
        BY <1>1, <1>t DEF Connect, LoopTypeOK
    <2>5. SlotsMatchUsers'
        BY <2>2, <2>4, <1>s, <1>u, SlotsSay DEF SlotsMatchUsers, Waiting
    <2>6. NeverBlocks'
        <3>1. \A d \in Conn : sock[d] \in Gone => sock'[d] \in Gone
            BY <1>1, <1>t DEF Connect, LoopTypeOK, Gone, Closed
        <3>2. backlog' # <<>> /\ inq' = inq
            BY <1>1, <1>t, QueueEnds, <2>2 DEF Connect, Waiting, LoopTypeOK
        <3>3. \A i \in Slots : pollfds[i] # NoConn => pollfds[i] \in Conn
            BY <1>s, <1>u, SlotsSay
        <3> QED  BY <3>1, <3>2, <3>3, <1>n, <1>u DEF NeverBlocks
    <2>7. BacklogDistinct'
        <3>1. \A d \in users' : ~Waiting(backlog', d)
            BY <2>2, <2>3, <1>u DEF BacklogDistinct, LoopInv
        <3>2. ASSUME NEW j \in DOMAIN backlog', NEW k \in DOMAIN backlog', backlog'[j] = backlog'[k]
              PROVE  j = k
            <4>1. backlog' = Append(backlog, c) /\ backlog \in Seq(Conn)
                BY <1>1, <1>t DEF Connect, LoopTypeOK
            <4>2. DOMAIN backlog' = 1..(Len(backlog) + 1) /\ Len(backlog) \in Nat
                  /\ DOMAIN backlog = 1..Len(backlog)
                BY <4>1
            <4>3. \A l \in DOMAIN backlog : backlog'[l] = backlog[l] /\ backlog[l] # c
                BY <4>1, <4>2, <2>3 DEF Waiting
            <4>4. backlog'[Len(backlog) + 1] = c
                BY <4>1
            <4>5. \A l \in DOMAIN backlog' : l \in DOMAIN backlog \/ l = Len(backlog) + 1
                BY <4>2
            <4>6. \A l, m \in DOMAIN backlog : backlog[l] = backlog[m] => l = m
                BY DEF LoopInv, BacklogDistinct
            <4> QED  BY <3>2, <4>3, <4>4, <4>5, <4>6
        <3> QED  BY <3>1, <3>2 DEF BacklogDistinct
    <2> QED  BY <2>1, <2>5, <2>6, <2>7 DEF LoopInv
<1>2. ASSUME NEW c \in Conn, Send(c) \/ Leave(c) \/ ResetArrives(c) PROVE LoopInv'
    <2>1. UNCHANGED backlog
        BY <1>2 DEF Send, Leave, ResetArrives, loopvars
    <2>2. LoopTypeOK'
        <3>1. inq' \in [Conn -> 0..MaxIn]
            <4>1. inq \in [Conn -> 0..MaxIn] /\ MaxIn \in Nat
                BY <1>t, ChatServerAssumption DEF LoopTypeOK
            <4>2. CASE inq' = [inq EXCEPT ![c] = @ + 1] /\ inq[c] < MaxIn
                BY <4>1, <4>2
            <4> QED  BY <1>2, <4>1, <4>2 DEF Send, Leave, ResetArrives
        <3>2. sock' \in [Conn -> SockStates] /\ down' \in BOOLEAN
            BY <1>2, <1>t DEF LoopTypeOK, Send, Leave, ResetArrives, SockStates
        <3> QED  BY <3>1, <3>2, <2>1, <1>t, <1>u DEF LoopTypeOK
    <2>3. \A d \in Conn : /\ sock'[d] = "none" <=> sock[d] = "none"
                          /\ sock[d] \in Gone => sock'[d] \in Gone
                          /\ inq[d] > 0 => inq'[d] > 0
        <3>1. \A d \in Conn : inq[d] > 0 => inq'[d] > 0
            <4>1. inq \in [Conn -> 0..MaxIn] /\ MaxIn \in Nat
                BY <1>t, ChatServerAssumption DEF LoopTypeOK
            <4>2. CASE inq' = [inq EXCEPT ![c] = @ + 1]
                BY <4>1, <4>2
            <4> QED  BY <1>2, <4>1, <4>2 DEF Send, Leave, ResetArrives
        <3>2. \A d \in Conn : /\ sock'[d] = "none" <=> sock[d] = "none"
                              /\ sock[d] \in Gone => sock'[d] \in Gone
            BY <1>2, <1>t DEF LoopTypeOK, Send, Leave, ResetArrives, Gone, Closed
        <3> QED  BY <3>1, <3>2
    <2>4. SlotsMatchUsers'
        BY <2>1, <2>3, <1>s, <1>u DEF SlotsMatchUsers
    <2>5. NeverBlocks'
        <3>1. \A i \in Slots : pollfds[i] # NoConn => pollfds[i] \in Conn
            BY <1>s, <1>u, SlotsSay
        <3> QED  BY <3>1, <2>1, <2>3, <1>n, <1>u DEF NeverBlocks
    <2>6. BacklogDistinct'
        BY <2>1, <1>u DEF BacklogDistinct, LoopInv
    <2> QED  BY <2>2, <2>4, <2>5, <2>6 DEF LoopInv
<1> QED  BY <1>1, <1>2 DEF Client

(* What poll reports is there.                                               *)
LEMMA PollLoopInv ==
    ASSUME LoopInv, IInv', poll
    PROVE  LoopInv'
<1>1. UNCHANGED <<users, pollfds, backlog, sock, inq, down>> /\ TypeOK'
    BY DEF poll, regvars, tables, netvars, IInv
<1>2. revents' = [i \in 0..MaxUsers |-> Report(i)]
    BY DEF poll
<1>3. revents' \in [0..MaxUsers -> {"none", "in", "hup"}]
    BY <1>2 DEF Report
<1>4. LoopTypeOK'
    BY <1>1, <1>3 DEF LoopTypeOK, LoopInv
<1>5. NeverBlocks'
    <2>1. 0 \in 0..MaxUsers /\ \A i \in Slots : i \in 0..MaxUsers /\ i # 0
        BY RegistryAssumption DEF Slots
    <2>2. revents'[0] # "none" => backlog # <<>>
        BY <2>1, <1>2 DEF Report
    <2>3. ASSUME NEW i \in Slots, revents'[i] # "none"
          PROVE  pollfds[i] # NoConn /\ (inq[pollfds[i]] > 0 \/ sock[pollfds[i]] \in Gone)
        BY <2>1, <2>3, <1>2 DEF Report, Gone
    <2> QED  BY <2>2, <2>3, <1>1 DEF NeverBlocks
<1>6. SlotsMatchUsers' /\ BacklogDistinct'
    BY <1>1 DEF LoopInv, SlotsMatchUsers, BacklogDistinct
<1> QED  BY <1>4, <1>5, <1>6 DEF LoopInv

(* What the for loop has passed, and what a break loses, is not reported.    *)
LEMMA Passing ==
    ASSUME LoopTypeOK, NEW i \in 0..MaxUsers, Passed(i) \/ Break
    PROVE  /\ revents' \in [0..MaxUsers -> {"none", "in", "hup"}]
           /\ revents'[i] = "none"
           /\ \A j \in 0..MaxUsers : revents'[j] # "none" => revents[j] # "none" /\ j # i
BY DEF LoopTypeOK, Passed, Break

(* Slot 0 is that of the listening socket, and no slot of a user.            *)
LEMMA SlotNumbers == 0 \in 0..MaxUsers /\ \A i \in Slots : i \in 0..MaxUsers /\ i # 0
BY RegistryAssumption DEF Slots

(* A slot poll has reported holds a user's connection.                       *)
LEMMA ReportedSlot ==
    ASSUME LoopInv, NEW i \in Slots, revents[i] # "none"
    PROVE  /\ pollfds[i] \in users
           /\ pollfds[i] \in Conn
<1>1. pollfds[i] \in Conn
    BY DEF LoopInv, NeverBlocks, LoopTypeOK
<1>2. pollfds[i] \in users
    BY <1>1, SlotsSay DEF LoopInv, LoopTypeOK, Slotted
<1> QED  BY <1>1, <1>2

(* Accept moves a connection from the listening socket to a free slot, or    *)
(* turns it away.                                                            *)
LEMMA AcceptLoopInv ==
    ASSUME LoopInv, IInv', Accept
    PROVE  LoopInv'
<1> DEFINE c == Head(backlog)
<1>t. LoopTypeOK /\ TypeOK /\ TypeOK'
    BY DEF LoopInv, IInv
<1>s. SlotsMatchUsers
    BY DEF LoopInv
<1>n. NeverBlocks
    BY DEF LoopInv
<1>c. c \in Conn /\ backlog # <<>> /\ accept_user(c)
    BY AcceptCalls DEF LoopInv
<1>b. /\ backlog' = Tail(backlog) /\ backlog' \in Seq(Conn) /\ Waiting(backlog, c)
      /\ \A d : Waiting(backlog', d) <=> Waiting(backlog, d) /\ d # c
      /\ \A j, k \in DOMAIN backlog' : backlog'[j] = backlog'[k] => j = k
    <2>1. backlog' = Tail(backlog) /\ backlog \in Seq(Conn)
        BY <1>t DEF Accept, LoopTypeOK
    <2>2. \A j, k \in DOMAIN backlog : backlog[j] = backlog[k] => j = k
        BY DEF LoopInv, BacklogDistinct
    <2>3. Tail(backlog) \in Seq(Conn)
        BY <2>1, <1>c
    <2> QED  BY <2>1, <2>2, <2>3, <1>c, QueueEnds
<1>u. c \notin users /\ \A d \in users : ~Waiting(backlog, d)
    BY <1>b DEF LoopInv, BacklogDistinct
<1>r. /\ revents' \in [0..MaxUsers -> {"none", "in", "hup"}]
      /\ revents'[0] = "none"
      /\ \A i \in Slots : revents'[i] # "none" => revents[i] # "none"
    BY <1>t, Passing, SlotNumbers DEF Accept
<1>p. \A i \in Slots : pollfds[i] # NoConn => pollfds[i] \in Conn /\ pollfds[i] # c
    BY <1>c, <1>s, <1>t, <1>u, SlotsSay DEF Slotted
<1>1. CASE /\ Admits
           /\ Store(c)
           /\ Written(sock)
           /\ UNCHANGED inq
    <2>1. users' = users \cup {c}
        BY <1>1, <1>c DEF accept_user
    <2>2. PICK j \in Slots : pollfds[j] = NoConn /\ pollfds' = [pollfds EXCEPT ![j] = c]
        BY <1>1, <1>c, <1>t, AdmitsFindsSlot, StoreFills
    <2>3. \A i \in Slots : pollfds'[i] = IF i = j THEN c ELSE pollfds[i]
        BY <2>2, <1>t DEF LoopTypeOK
    <2>4. /\ sock' \in [Conn -> SockStates] /\ down' \in BOOLEAN
          /\ \A d \in Conn : /\ sock'[d] = "none" <=> sock[d] = "none"
                             /\ sock'[d] \in Gone <=> sock[d] \in Gone
        BY <1>1, <1>t, WrittenSock DEF LoopTypeOK
    <2>5. LoopTypeOK'
        BY <1>1, <1>b, <1>c, <1>r, <1>t, <2>2, <2>4 DEF LoopTypeOK
    <2>6. SlotsMatchUsers'
        <3>1. \A d \in Conn : Slotted(d)' <=> Slotted(d) \/ d = c
            BY <2>2, <2>3, RegistryAssumption DEF Slotted
        <3>2. \A d \in Conn : d \in users' <=> Slotted(d)'
            BY <3>1, <2>1, <1>s, <1>t, SlotsSay
        <3>3. \A i \in Slots : pollfds'[i] # NoConn => pollfds'[i] \in Conn
            BY <2>3, <1>c, <1>p
        <3>4. \A i, k \in Slots : pollfds'[i] = pollfds'[k] /\ pollfds'[i] # NoConn => i = k
            BY <2>3, <1>p, <1>s DEF SlotsMatchUsers
        <3>5. \A d \in Conn : sock'[d] # "none" <=> d \in users' \/ Waiting(backlog', d)
            BY <2>1, <2>4, <1>b, <1>s, <1>t, SlotsSay
        <3>6. {pollfds'[i] : i \in Slots} \ {NoConn} = users'
            BY <3>2, <3>3, <1>t, RegistryAssumption DEF Slotted, TypeOK
        <3> QED  BY <3>4, <3>5, <3>6 DEF SlotsMatchUsers, Waiting
    <2>7. NeverBlocks'
        BY <1>1, <1>n, <1>p, <1>r, <2>2, <2>3, <2>4 DEF NeverBlocks
    <2>8. BacklogDistinct'
        BY <1>b, <1>u, <2>1 DEF BacklogDistinct
    <2> QED  BY <2>5, <2>6, <2>7, <2>8 DEF LoopInv
<1>2. CASE /\ ~Admits
           /\ Written([sock EXCEPT ![c] = "none"])
           /\ inq' = [inq EXCEPT ![c] = 0]
           /\ UNCHANGED pollfds
    <2>1. users' = users /\ pollfds' = pollfds
        BY <1>2, <1>c DEF accept_user
    <2>2. /\ [sock EXCEPT ![c] = "none"] \in [Conn -> SockStates]
          /\ \A d \in Conn : [sock EXCEPT ![c] = "none"][d] = IF d = c THEN "none" ELSE sock[d]
        BY <1>t DEF LoopTypeOK, SockStates
    <2>3. /\ sock' \in [Conn -> SockStates] /\ down' \in BOOLEAN
          /\ \A d \in Conn : /\ sock'[d] = "none" <=> d = c \/ sock[d] = "none"
                             /\ d # c => (sock'[d] \in Gone <=> sock[d] \in Gone)
        BY <1>2, <2>2, WrittenSock
    <2>4. inq' \in [Conn -> 0..MaxIn] /\ \A d \in Conn : d # c => inq'[d] = inq[d]
        <3>1. inq \in [Conn -> 0..MaxIn] /\ 0 \in 0..MaxIn
            BY <1>t, ChatServerAssumption DEF LoopTypeOK
        <3> QED  BY <3>1, <1>2
    <2>5. LoopTypeOK'
        BY <1>b, <1>r, <1>t, <2>1, <2>3, <2>4 DEF LoopTypeOK
    <2>6. SlotsMatchUsers'
        <3>1. \A d \in Conn : sock'[d] # "none" <=> d \in users \/ Waiting(backlog', d)
            <4>1. \A d \in Conn : sock[d] # "none" <=> d \in users \/ Waiting(backlog, d)
                BY <1>s, <1>t, SlotsSay
            <4> QED  BY <4>1, <2>3, <1>b, <1>u
        <3> QED  BY <3>1, <2>1, <1>s DEF SlotsMatchUsers, Waiting
    <2>7. NeverBlocks'
        BY <1>n, <1>p, <1>r, <2>1, <2>3, <2>4 DEF NeverBlocks
    <2>8. BacklogDistinct'
        BY <1>b, <1>u, <2>1 DEF BacklogDistinct
    <2> QED  BY <2>5, <2>6, <2>7, <2>8 DEF LoopInv
<1> QED  BY <1>1, <1>2 DEF Accept

(* The user of a slot is removed with it.                                    *)
LEMMA DisconnectLoopInv ==
    ASSUME LoopInv, IInv', NEW i \in Slots, revents[i] # "none", Disconnect(i),
           Passed(i) \/ Break
    PROVE  LoopInv'
<1> DEFINE c == pollfds[i]
<1>t. LoopTypeOK /\ TypeOK /\ TypeOK'
    BY DEF LoopInv, IInv
<1>s. SlotsMatchUsers
    BY DEF LoopInv
<1>n. NeverBlocks
    BY DEF LoopInv
<1>c. c \in Conn /\ c \in users /\ c # NoConn
    BY ReportedSlot, RegistryAssumption
<1>u. users' = users \ {c} /\ backlog' = backlog /\ ~Waiting(backlog, c)
    BY <1>c DEF Disconnect, server_disconnect_user, LoopInv, BacklogDistinct
<1>r. /\ revents' \in [0..MaxUsers -> {"none", "in", "hup"}]
      /\ revents'[0] # "none" => revents[0] # "none"
      /\ revents'[i] = "none"
      /\ \A j \in Slots : revents'[j] # "none" => revents[j] # "none"
    BY <1>t, Passing, SlotNumbers
<1>p. /\ \A j \in Slots : pollfds'[j] = IF j = i THEN NoConn ELSE pollfds[j]
      /\ pollfds' \in [Slots -> Conn \cup {NoConn}]
      /\ \A j \in Slots : pollfds[j] = c => j = i
    BY <1>t, <1>c, <1>s DEF Disconnect, Vacate, LoopTypeOK, SlotsMatchUsers
<1>q. inq' \in [Conn -> 0..MaxIn] /\ \A d \in Conn : d # c => inq'[d] = inq[d]
    <2>1. inq \in [Conn -> 0..MaxIn] /\ 0 \in 0..MaxIn
        BY <1>t, ChatServerAssumption DEF LoopTypeOK
    <2> QED  BY <2>1 DEF Disconnect
<1>k. /\ sock' \in [Conn -> SockStates] /\ down' \in BOOLEAN
      /\ \A d \in Conn : /\ sock'[d] = "none" <=> d = c \/ sock[d] = "none"
                         /\ d # c => (sock'[d] \in Gone <=> sock[d] \in Gone)
    <2>1. /\ [sock EXCEPT ![c] = "none"] \in [Conn -> SockStates]
          /\ \A d \in Conn : [sock EXCEPT ![c] = "none"][d] = IF d = c THEN "none" ELSE sock[d]
        BY <1>t DEF LoopTypeOK, SockStates
    <2>2. Written([sock EXCEPT ![c] = "none"])
        BY DEF Disconnect
    <2> QED  BY <2>1, <2>2, WrittenSock
<1>1. LoopTypeOK'
    BY <1>k, <1>p, <1>q, <1>r, <1>t, <1>u DEF LoopTypeOK
<1>2. SlotsMatchUsers'
    <2>1. \A d \in Conn : d \in users <=> Slotted(d)
        BY <1>s, <1>t, SlotsSay
    <2>2. {pollfds'[j] : j \in Slots} \ {NoConn} = users'
        <3>1. \A d \in Conn : (\E j \in Slots : pollfds'[j] = d) <=> Slotted(d) /\ d # c
            BY <1>p, RegistryAssumption DEF Slotted
        <3>2. \A j \in Slots : pollfds'[j] # NoConn => pollfds'[j] \in Conn
            BY <1>p
        <3>3. users' \subseteq Conn /\ NoConn \notin Conn
            BY <1>t, RegistryAssumption DEF TypeOK
        <3>4. \A d \in Conn : d \in users' <=> \E j \in Slots : pollfds'[j] = d
            BY <3>1, <2>1, <1>u
        <3> QED  BY <3>2, <3>3, <3>4
    <2>3. \A j, k \in Slots : pollfds'[j] = pollfds'[k] /\ pollfds'[j] # NoConn => j = k
        BY <1>p, <1>s DEF SlotsMatchUsers
    <2>4. \A d \in Conn : sock'[d] # "none" <=> d \in users' \/ Waiting(backlog', d)
        <3>1. \A d \in Conn : sock[d] # "none" <=> d \in users \/ Waiting(backlog, d)
            BY <1>s, <1>t, SlotsSay
        <3> QED  BY <3>1, <1>k, <1>u
    <2> QED  BY <2>2, <2>3, <2>4 DEF SlotsMatchUsers, Waiting
<1>3. NeverBlocks'
    <2>1. \A j \in Slots : pollfds[j] # NoConn => pollfds[j] \in Conn
        BY <1>s, <1>t, SlotsSay
    <2> QED  BY <2>1, <1>k, <1>n, <1>p, <1>q, <1>r, <1>u DEF NeverBlocks
<1>4. BacklogDistinct'
    BY <1>u DEF BacklogDistinct, LoopInv
<1> QED  BY <1>1, <1>2, <1>3, <1>4 DEF LoopInv

(* A request of the user of a slot is read and handled.                      *)
LEMMA ReadLoopInv ==
    ASSUME LoopInv, IInv', NEW i \in Slots, revents[i] # "none", inq[pollfds[i]] > 0,
           Read(i), UNCHANGED users, Passed(i) \/ Break
    PROVE  LoopInv'
<1> DEFINE c == pollfds[i]
<1>t. LoopTypeOK /\ TypeOK /\ TypeOK'
    BY DEF LoopInv, IInv
<1>s. SlotsMatchUsers
    BY DEF LoopInv
<1>n. NeverBlocks
    BY DEF LoopInv
<1>c. c \in Conn
    BY ReportedSlot
<1>u. users' = users /\ backlog' = backlog /\ pollfds' = pollfds
    BY DEF Read
<1>r. /\ revents' \in [0..MaxUsers -> {"none", "in", "hup"}]
      /\ revents'[0] # "none" => revents[0] # "none"
      /\ revents'[i] = "none"
      /\ \A j \in Slots : revents'[j] # "none" => revents[j] # "none"
    BY <1>t, Passing, SlotNumbers
<1>q. inq' \in [Conn -> 0..MaxIn] /\ \A d \in Conn : d # c => inq'[d] = inq[d]
    <2>1. inq \in [Conn -> 0..MaxIn] /\ MaxIn \in Nat /\ inq' = [inq EXCEPT ![c] = @ - 1]
        BY <1>t, ChatServerAssumption DEF LoopTypeOK, Read
    <2> QED  BY <2>1, <1>c
<1>k. /\ sock' \in [Conn -> SockStates] /\ down' \in BOOLEAN
      /\ \A d \in Conn : /\ sock'[d] = "none" <=> sock[d] = "none"
                         /\ sock'[d] \in Gone <=> sock[d] \in Gone
    BY <1>t, WrittenSock DEF Read, LoopTypeOK
<1>1. LoopTypeOK'
    BY <1>k, <1>q, <1>r, <1>t, <1>u DEF LoopTypeOK
<1>2. SlotsMatchUsers'
    BY <1>k, <1>s, <1>u DEF SlotsMatchUsers
<1>3. NeverBlocks'
    <2>1. \A j \in Slots : pollfds[j] # NoConn => pollfds[j] \in Conn
        BY <1>s, <1>t, SlotsSay
    <2>2. \A j \in Slots : pollfds[j] = c => j = i
        BY <1>c, <1>s, RegistryAssumption DEF SlotsMatchUsers
    <2> QED  BY <2>1, <2>2, <1>k, <1>n, <1>q, <1>r, <1>u DEF NeverBlocks
<1>4. BacklogDistinct'
    BY <1>u DEF BacklogDistinct, LoopInv
<1> QED  BY <1>1, <1>2, <1>3, <1>4 DEF LoopInv

(* No request connects or disconnects anybody.                               *)
LEMMA HandlerKeepsUsers ==
    ASSUME NEW u, Handler(u)
    PROVE  UNCHANGED users
<1>1. CASE login_first(u)
    BY <1>1 DEF login_first, tables
<1>2. CASE Nicknames(u)
    BY <1>2 DEF Nicknames, server_handle_nickname_new_req, server_handle_nickname_list_req,
                server_handle_nickname_infos_req, tables
<1>3. CASE Messages(u)
    BY <1>3 DEF Messages, server_handle_broadcast_send_req, server_handle_unicast_send_req, tables
<1>4. CASE Chatrooms(u)
    BY <1>4 DEF Chatrooms, server_handle_multicast_create_req, server_handle_multicast_list_req,
                server_handle_multicast_join_req, server_handle_multicast_quit_req,
                server_handle_multicast_send_req, tables
<1>5. CASE Files(u)
    BY <1>5 DEF Files, Answer, server_handle_file_req, server_handle_file_accept_res,
                server_handle_file_reject_req, tables
<1> QED  BY <1>1, <1>2, <1>3, <1>4, <1>5 DEF Handler

(* Every step of the loop, of the clients and of the network keeps LoopInv.  *)
LEMMA StepLoopInv ==
    ASSUME LoopInv, [Next]_vars
    PROVE  LoopInv'
<1>i. IInv'
    BY StepIsRegistryStep, StepIInv DEF LoopInv
<1>1. CASE UNCHANGED vars
    BY <1>i, <1>1 DEF vars, regvars, tables, loopvars, netvars, LoopInv, LoopTypeOK, SlotsMatchUsers,
                NeverBlocks, BacklogDistinct, IInv
<1>2. CASE Client
    BY <1>i, <1>2, ClientLoopInv
<1>3. CASE poll
    BY <1>i, <1>3, PollLoopInv
<1>4. CASE Accept
    BY <1>i, <1>4, AcceptLoopInv
<1>5. CASE AcceptFails
    BY <1>i, <1>5 DEF AcceptFails, regvars, tables, loopvars, LoopInv, LoopTypeOK, SlotsMatchUsers,
                NeverBlocks, BacklogDistinct, IInv
<1>6. ASSUME NEW i \in Slots, HangUp(i) \/ EndOfFile(i) PROVE LoopInv'
    BY <1>i, <1>6, DisconnectLoopInv DEF HangUp, EndOfFile, At
<1>7. ASSUME NEW i \in Slots, LoginFirst(i) \/ Serve(i) PROVE LoopInv'
    <2>1. revents[i] # "none" /\ inq[pollfds[i]] > 0 /\ Read(i) /\ (Passed(i) \/ Break)
        BY <1>7 DEF LoginFirst, Serve, Readable, At
    <2>2. UNCHANGED users
        BY <1>7, HandlerKeepsUsers DEF LoginFirst, Serve, Handler
    <2> QED  BY <1>i, <2>1, <2>2, ReadLoopInv
<1> QED  BY <1>1, <1>2, <1>3, <1>4, <1>5, <1>6, <1>7 DEF Next, Server

-----------------------------------------------------------------------------
(* The theorems.                                                            *)

(* The inductive invariant of the poll loop and the tables together.         *)
THEOREM ServerInvariant == Spec => []LoopInv
BY InitLoopInv, StepLoopInv, PTL DEF Spec

(* Type correctness of the loop, the connections and the tables.             *)
THEOREM ServerTypeCorrect == Spec => []LoopTypeOK
BY ServerInvariant, PTL DEF LoopInv

(* The slots of main.c and the list of users of server.c always agree, so    *)
(* accept finds a slot for each user it admits and no slot leads to a user   *)
(* who has been freed.                                                       *)
THEOREM ServerSlotsMatchUsers == Spec => []SlotsMatchUsers
BY ServerInvariant, PTL DEF LoopInv

(* The thread never blocks in accept or recv, whatever happens between poll  *)
(* and the slot it comes to.                                                 *)
THEOREM ServerNeverBlocks == Spec => []NeverBlocks
BY ServerInvariant, PTL DEF LoopInv

(* The loop only ever calls the handlers the way Registry has them called,   *)
(* so that whatever holds of Registry holds of the server.                   *)
THEOREM ServerRunsRegistry == Spec => RegSpec
<1>1. LoopInv /\ [Next]_vars => [RegNext]_regvars
    BY StepIsRegistryStep DEF LoopInv
<1> QED  BY <1>1, InitRegistry, ServerInvariant, PTL DEF Spec, RegSpec

(* The users never outnumber the slots, in the loop as well.                 *)
THEOREM ServerCapacity == Spec => []WithinCapacity
BY ServerRunsRegistry, RegistryCapacity, PTL

(* Who is told that a user has gone: others only.                            *)
LEMMA GoneAreNotTold ==
    ASSUME NEW u, server_disconnect_user(u)
    PROVE  \A c \in Conn : sent'[c] # <<>> => c # u
<1>1. CASE sent' = [c \in Conn |-> <<>>]
    BY <1>1
<1>2. CASE \E r \in server_get_chatroom_by_user(u) :
              sent' = SentTo(HasQuit(u, r, SERVER, "DEFAULT", Empty))
    BY <1>2 DEF SentTo, HasQuit, Remaining
<1> QED  BY <1>1, <1>2 DEF server_disconnect_user

(* Removing a client that has gone, when no other has, never ends the        *)
(* server: nothing is written to the connection that was lost.               *)
THEOREM ServerRemovalIsSafe == Spec => RemovalIsSafe
<1> DEFINE Safe == \A c \in users \ users' :
                      (\A d \in Conn : sock[d] \in Gone => d = c) => down' = down
<1>1. LoopInv /\ [Next]_vars => [Safe]_vars
    <2> SUFFICES ASSUME LoopInv, Next, NEW c \in users \ users',
                        \A d \in Conn : sock[d] \in Gone => d = c
                 PROVE  down' = down
        OBVIOUS
    <2>1. PICK i \in Slots : HangUp(i) \/ EndOfFile(i)
        <3>1. ~Client /\ ~poll /\ ~AcceptFails
            BY DEF Client, Connect, Send, Leave, ResetArrives, poll, AcceptFails, regvars, tables
        <3>2. ~Accept
            BY DEF Accept, accept_user
        <3>3. \A i \in Slots : ~LoginFirst(i) /\ ~Serve(i)
            BY HandlerKeepsUsers DEF LoginFirst, Serve, Handler
        <3> QED  BY <3>1, <3>2, <3>3 DEF Next, Server
    <2>2. /\ ~down
          /\ server_disconnect_user(pollfds[i])
          /\ Written([sock EXCEPT ![pollfds[i]] = "none"])
        BY <2>1 DEF HangUp, EndOfFile, At, Up, Disconnect
    <2>3. c = pollfds[i]
        BY <2>2 DEF server_disconnect_user
    <2>4. \A d \in Conn : sent'[d] # <<>> => sock[d] \notin Gone
        BY <2>2, <2>3, GoneAreNotTold
    <2>5. down' = FALSE
        BY <2>2, <2>4 DEF Written, Gone, Closed
    <2>6. down = FALSE
        BY <2>2 DEF LoopInv, LoopTypeOK
    <2> QED  BY <2>5, <2>6
<1> QED  BY <1>1, ServerInvariant, PTL DEF Spec, RemovalIsSafe
=============================================================================
