------------------------------ MODULE Registry ------------------------------
(***************************************************************************)
(* The state of the chat server (struct server, with its list of users and *)
(* its list of chatrooms) and the request handlers of server.c, one action *)
(* per handler.  A handler runs to completion in the single thread of the  *)
(* server, so it is one step; the order in which the poll loop calls the   *)
(* handlers, and the sockets, are the business of ChatServer.              *)
(*                                                                         *)
(* The intrusive lists are sets here.  Only one observation depends on the *)
(* order of a list: which of several users without a nickname a lookup of  *)
(* the empty name finds.  That lookup is nondeterministic.                 *)
(***************************************************************************)
EXTENDS Integers, Sequences, FiniteSets

CONSTANTS
    Conn,      \* connections: a socket and the struct user_node made for it
    NoConn,    \* the requester of a file offer who has left
    Nick,      \* nicknames that pass the checks of the client
    RoomName,  \* chatroom names that pass the checks of the client
    RoomNode,  \* addresses malloc may return for a struct chatroom_node
    Body,      \* message bodies, file names and addresses, never looked into
    MaxUsers,  \* NUM_MAX_USERS
    MaxOffers, \* bound: file requests one client has not answered yet
    Commands   \* the request types the clients of an instance send

Empty == ""    \* the empty string: no nickname, or no argument

RequestTypes ==
    {"NICKNAME_NEW", "NICKNAME_LIST", "NICKNAME_INFOS", "UNICAST_SEND",
     "BROADCAST_SEND", "MULTICAST_CREATE", "MULTICAST_LIST", "MULTICAST_JOIN",
     "MULTICAST_SEND", "MULTICAST_QUIT", "FILE_REQUEST", "FILE_ACCEPT",
     "FILE_REJECT"}

ASSUME RegistryAssumption ==
    /\ IsFiniteSet(Conn)
    /\ NoConn \notin Conn
    /\ Empty \notin Nick
    /\ Empty \notin RoomName
    /\ MaxUsers \in Nat
    /\ MaxOffers \in Nat
    /\ Commands \subseteq RequestTypes

VARIABLES
    users,         \* connections on the list server->user_head
    user,          \* struct user_node of each connection
    num_users,     \* server->num_users
    chatrooms,     \* nodes on the list server->chatroom_head
    room,          \* struct chatroom_node at each address
    num_chatrooms, \* server->num_chatrooms
    aka,           \* nicknames each client has had: client->nickname lags
    offers,        \* FILE_REQUESTs each client has still to answer, in order
    sent,          \* the packets the last step put on each socket
    fault          \* the NULL pointer the last step went through, or "none"

rooms == <<chatrooms, room, num_chatrooms>>
tables == <<users, user, num_users, rooms>>
regvars == <<tables, aka, offers, sent, fault>>

-----------------------------------------------------------------------------
(* Packets: header.h and packet.h.  "from" is a pair <<who, where>> for the *)
(* "who@where" the server prints; the payload is what it says and about     *)
(* whom.                                                                    *)

MessageTypes == RequestTypes \cup {"DEFAULT", "ECHO_SEND"}
Names == Nick \cup RoomName \cup {Empty}
Sources == (Nick \cup {Empty, "SERVER", "me"}) \X (RoomName \cup {Empty, "all"} \cup Nick)
Says == {"login", "full", "nick_used", "welcome", "renamed", "users", "unknown",
         "infos", "self", "no_user", "room_used", "quit", "has_quit",
         "destroyed", "created", "rooms", "no_rooms", "yet_in", "joined",
         "has_joined", "no_room", "not_in", "cancelled", "text"}
Payloads == [say : Says, about : SUBSET (Names \cup Body)]
Packets == [from : Sources, type : MessageTypes, infos : Names, payload : Payloads]

packet_init_Swapped(from, type, infos, payload) ==
    [from |-> infos, type |-> type, infos |-> from, payload |-> payload]
packet_init(from, type, infos, payload) ==
    [from |-> from, type |-> type, infos |-> infos, payload |-> payload]
Say(what, about) == [say |-> what, about |-> about]
Text(m) == Say("text", {m})
SERVER == <<"SERVER", Empty>>
SERVERat(r) == <<"SERVER", room[r].name>>
FromServer(type, infos, what, about) ==
    packet_init(SERVER, type, infos, Say(what, about))

(* What a step sends: others[c] to each c of a set, or that and "mine" to u.  *)
Nobody == [c \in {} |-> SERVER]
SentTo(others) == [c \in Conn |-> IF c \in DOMAIN others THEN <<others[c]>> ELSE <<>>]
Sent(u, mine, others) ==
    [c \in Conn |-> IF c = u THEN mine ELSE SentTo(others)[c]]
Reply(u, type, infos, what, about) ==
    sent' = Sent(u, <<FromServer(type, infos, what, about)>>, Nobody)

-----------------------------------------------------------------------------
(* user_node.c, chatroom_node.c and the list operations of server.c.        *)

user_node_init == [nickname |-> Empty, is_logged_in |-> FALSE, is_in_chatroom |-> FALSE]
chatroom_node_free == [name |-> Empty, members |-> {}, num_users |-> 0]
chatroom_node_init(n, u) == [name |-> n, members |-> {u}, num_users |-> 1]

chatroom_node_add_user_node_Miscounts(R, r, u) == [R EXCEPT ![r].members = @ \cup {u}]
chatroom_node_add_user_node(R, r, u) ==
    [R EXCEPT ![r] = [name |-> @.name, members |-> @.members \cup {u},
                      num_users |-> @.num_users + 1]]
chatroom_node_remove_user_node(R, r, u) ==
    [R EXCEPT ![r] = [name |-> @.name, members |-> @.members \ {u},
                      num_users |-> @.num_users - 1]]

(* What u leaves behind in r: the handlers destroy a chatroom whose counter  *)
(* has reached zero.                                                         *)
Deserted_OneLeft(r, u) == chatroom_node_remove_user_node(room, r, u)[r].num_users <= 1
Deserted(r, u) == chatroom_node_remove_user_node(room, r, u)[r].num_users = 0
RoomsWithout(r, u) == IF Deserted(r, u) THEN chatrooms \ {r} ELSE chatrooms
TableWithout(r, u) ==
    IF Deserted(r, u)
    THEN [chatroom_node_remove_user_node(room, r, u) EXCEPT ![r] = chatroom_node_free]
    ELSE chatroom_node_remove_user_node(room, r, u)
CountWithout(r, u) == IF Deserted(r, u) THEN num_chatrooms - 1 ELSE num_chatrooms
Remaining_Everybody(r, u) == room[r].members
Remaining(r, u) == room[r].members \ {u}

server_get_user_by_name(n) == {c \in users : user[c].nickname = n}
server_get_chatroom_by_name(n) == {r \in chatrooms : room[r].name = n}
server_get_chatroom_by_user(u) == {r \in chatrooms : u \in room[r].members}

-----------------------------------------------------------------------------
(* The handlers.  Each is called for a request of type "type" by user u,    *)
(* and the loop of main.c lets a user who has not logged in only choose a   *)
(* nickname.                                                                *)

Request(u, type) ==
    /\ fault = "none"
    /\ type \in Commands
    /\ u \in users
    /\ user[u].is_logged_in \/ type = "NICKNAME_NEW"

login_first(u) ==
    /\ fault = "none"
    /\ Commands \ {"NICKNAME_NEW"} # {}
    /\ u \in users
    /\ ~user[u].is_logged_in
    /\ Reply(u, "DEFAULT", Empty, "login", {})
    /\ UNCHANGED <<tables, aka, offers, fault>>

nickname_unused_Always(u, n) == TRUE
nickname_unused(u, n) == server_get_user_by_name(n) = {}

server_handle_nickname_new_req(u, n) ==
    /\ Request(u, "NICKNAME_NEW")
    /\ \/ /\ ~nickname_unused(u, n)
          /\ Reply(u, "DEFAULT", n, "nick_used", {})
          /\ UNCHANGED <<user, aka>>
       \/ /\ nickname_unused(u, n)
          /\ user' = [user EXCEPT ![u].nickname = n, ![u].is_logged_in = TRUE]
          /\ aka' = [aka EXCEPT ![u] = @ \cup {n}]
          /\ Reply(u, "NICKNAME_NEW", n,
                   IF user[u].is_logged_in THEN "renamed" ELSE "welcome", {n})
    /\ UNCHANGED <<users, num_users, rooms, offers, fault>>

server_handle_nickname_list_req(u) ==
    /\ Request(u, "NICKNAME_LIST")
    /\ Reply(u, "NICKNAME_LIST", Empty, "users", {user[c].nickname : c \in users})
    /\ UNCHANGED <<tables, aka, offers, fault>>

server_handle_nickname_infos_req(u, n) ==
    /\ Request(u, "NICKNAME_INFOS")
    /\ \/ /\ server_get_user_by_name(n) = {}
          /\ Reply(u, "NICKNAME_INFOS", n, "unknown", {})
       \/ /\ server_get_user_by_name(n) # {}
          /\ Reply(u, "NICKNAME_INFOS", n, "infos", {n})
    /\ UNCHANGED <<tables, aka, offers, fault>>

(* One copy for every user; the copies of those with the nickname of the     *)
(* sender go to the socket of the sender.                                    *)
server_handle_broadcast_send_req(u, m) ==
    /\ Request(u, "BROADCAST_SEND")
    /\ LET same == server_get_user_by_name(user[u].nickname)
           copy(who) == packet_init(<<who, "all">>, "BROADCAST_SEND", Empty, Text(m))
       IN  sent' = Sent(u, [k \in 1..Cardinality(same) |-> copy("me")],
                        [c \in users \ same |-> copy(user[u].nickname)])
    /\ UNCHANGED <<tables, aka, offers, fault>>

(* "from" is the nickname the packet of the client claims.                   *)
server_handle_unicast_send_req(u, from, n, m) ==
    /\ Request(u, "UNICAST_SEND")
    /\ \/ /\ server_get_user_by_name(n) = {}
          /\ Reply(u, "UNICAST_SEND", n, "no_user", {n})
       \/ /\ u \in server_get_user_by_name(n)
          /\ Reply(u, "DEFAULT", n, "self", {})
       \/ \E d \in server_get_user_by_name(n) \ {u} :
             LET copy(source) == packet_init(source, "UNICAST_SEND", n, Text(m))
             IN  sent' = Sent(u, <<copy(<<"me", n>>)>>, [c \in {d} |-> copy(<<from, Empty>>)])
    /\ UNCHANGED <<tables, aka, offers, fault>>

-----------------------------------------------------------------------------
(* Chatrooms.                                                               *)

(* What the others in r are told when u leaves it.                           *)
HasQuit_NamesReader(u, r, source, type, infos) ==
    [c \in Remaining(r, u) |->
        packet_init(source, type, infos, Say("has_quit", {user[c].nickname}))]
HasQuit(u, r, source, type, infos) ==
    [c \in Remaining(r, u) |->
        packet_init(source, type, infos, Say("has_quit", {user[u].nickname}))]

(* What u itself is told: the packets of /create, /join and /quit differ     *)
(* only in their type.                                                       *)
YouQuit(u, r, type, infos) ==
    <<FromServer(type, infos, "quit", {room[r].name})>> \o
    (IF Deserted(r, u) THEN <<FromServer(type, infos, "destroyed", {room[r].name})>>
     ELSE <<>>)

(* /create: the memory of the room just left may be the new room's.          *)
server_handle_multicast_create_req(u, n) ==
    /\ Request(u, "MULTICAST_CREATE")
    /\ \/ /\ server_get_chatroom_by_name(n) # {}
          /\ Reply(u, "MULTICAST_CREATE", n, "room_used", {})
          /\ UNCHANGED <<user, rooms>>
       \/ /\ server_get_chatroom_by_name(n) = {}
          /\ server_get_chatroom_by_user(u) = {}
          /\ \E a \in RoomNode \ chatrooms :
                /\ chatrooms' = chatrooms \cup {a}
                /\ room' = [room EXCEPT ![a] = chatroom_node_init(n, u)]
          /\ num_chatrooms' = num_chatrooms + 1
          /\ user' = [user EXCEPT ![u].is_in_chatroom = TRUE]
          /\ Reply(u, "MULTICAST_CREATE", n, "created", {n})
       \/ /\ server_get_chatroom_by_name(n) = {}
          /\ \E r \in server_get_chatroom_by_user(u) :
                /\ \E a \in RoomNode \ RoomsWithout(r, u) :
                      /\ chatrooms' = RoomsWithout(r, u) \cup {a}
                      /\ room' = [TableWithout(r, u) EXCEPT ![a] = chatroom_node_init(n, u)]
                /\ num_chatrooms' = CountWithout(r, u) + 1
                /\ sent' = Sent(u, Append(YouQuit(u, r, "MULTICAST_CREATE", n),
                                          FromServer("MULTICAST_CREATE", n, "created", {n})),
                                HasQuit(u, r, SERVERat(r), "MULTICAST_CREATE", n))
          /\ user' = [user EXCEPT ![u].is_in_chatroom = TRUE]
    /\ UNCHANGED <<users, num_users, aka, offers, fault>>

server_handle_multicast_list_req(u) ==
    /\ Request(u, "MULTICAST_LIST")
    /\ \/ /\ num_chatrooms # 0
          /\ Reply(u, "MULTICAST_LIST", Empty, "rooms", {room[r].name : r \in chatrooms})
       \/ /\ num_chatrooms = 0
          /\ Reply(u, "MULTICAST_LIST", Empty, "no_rooms", {})
    /\ UNCHANGED <<tables, aka, offers, fault>>

(* What /join tells everybody in t, u included, once u is in it.             *)
HasJoined_NamesRoom(u, t, infos) ==
    packet_init(SERVERat(t), "MULTICAST_JOIN", infos, Say("has_joined", {infos}))
HasJoined(u, t, infos) ==
    packet_init(SERVERat(t), "MULTICAST_JOIN", infos, Say("has_joined", {user[u].nickname}))
Arrival(u, t, infos) ==
    <<FromServer("MULTICAST_JOIN", infos, "joined", {infos}), HasJoined(u, t, infos)>>

(* /join and /quit look a name up only while the server counts a room.      *)
Known(n) == IF num_chatrooms = 0 THEN {} ELSE server_get_chatroom_by_name(n)

(* /join names to each user left behind not the one who went away but the    *)
(* user it is writing to: the loop variable hides the parameter "user".      *)
HasQuitMisnamed(c, r, infos) ==
    packet_init(SERVERat(r), "MULTICAST_JOIN", infos, Say("has_quit", {user[c].nickname}))

server_handle_multicast_join_req(u, n) ==
    /\ Request(u, "MULTICAST_JOIN")
    /\ \/ /\ Known(n) = {}
          /\ Reply(u, "MULTICAST_JOIN", n, "no_room", {n})
          /\ UNCHANGED <<user, rooms>>
       \/ /\ Known(n) \cap server_get_chatroom_by_user(u) # {}
          /\ Reply(u, "MULTICAST_JOIN", n, "yet_in", {})
          /\ UNCHANGED <<user, rooms>>
       \/ /\ server_get_chatroom_by_user(u) = {}
          /\ \E t \in Known(n) :
                /\ room' = chatroom_node_add_user_node(room, t, u)
                /\ sent' = Sent(u, Arrival(u, t, n),
                                [c \in room[t].members |-> HasJoined(u, t, n)])
          /\ user' = [user EXCEPT ![u].is_in_chatroom = TRUE]
          /\ UNCHANGED <<chatrooms, num_chatrooms>>
       \/ /\ \E t \in Known(n), r \in server_get_chatroom_by_user(u) :
                /\ r # t
                /\ chatrooms' = RoomsWithout(r, u)
                /\ num_chatrooms' = CountWithout(r, u)
                /\ room' = chatroom_node_add_user_node(TableWithout(r, u), t, u)
                /\ sent' = Sent(u, YouQuit(u, r, "MULTICAST_JOIN", n) \o Arrival(u, t, n),
                                [c \in room[t].members \cup Remaining(r, u) |->
                                    IF c \in room[t].members THEN HasJoined(u, t, n)
                                    ELSE HasQuitMisnamed(c, r, n)])
          /\ user' = [user EXCEPT ![u].is_in_chatroom = TRUE]
    /\ UNCHANGED <<users, num_users, aka, offers, fault>>

server_handle_multicast_quit_req(u, n) ==
    /\ Request(u, "MULTICAST_QUIT")
    /\ \/ /\ Known(n) = {}
          /\ Reply(u, "MULTICAST_QUIT", n, "no_room", {n})
          /\ UNCHANGED <<user, rooms>>
       \/ \E r \in Known(n) :
             /\ u \notin room[r].members
             /\ Reply(u, "MULTICAST_QUIT", n, "not_in", {n})
             /\ UNCHANGED <<user, rooms>>
       \/ \E r \in Known(n) :
             /\ u \in room[r].members
             /\ chatrooms' = RoomsWithout(r, u)
             /\ num_chatrooms' = CountWithout(r, u)
             /\ room' = TableWithout(r, u)
             /\ user' = [user EXCEPT ![u].is_in_chatroom = FALSE]
             /\ sent' = Sent(u, YouQuit(u, r, "MULTICAST_QUIT", n),
                             HasQuit(u, r, SERVERat(r), "MULTICAST_QUIT", n))
    /\ UNCHANGED <<users, num_users, aka, offers, fault>>

(* What going through the pointer a lookup returned does: the list has no    *)
(* such element exactly when the pointer is NULL.                            *)
Through(found, what) == fault' = IF found = {} THEN what ELSE "none"

(* One copy to each member; a member with the nickname of u reads "me".      *)
ToRoom_Everybody(u, r, m) ==
    [c \in Conn |-> IF c \notin users THEN <<>>
        ELSE <<packet_init(<<IF c = u THEN "me" ELSE user[u].nickname, room[r].name>>,
                           "MULTICAST_SEND", Empty, Text(m))>>]
ToRoom(u, r, m) ==
    [c \in Conn |->
        IF c \notin room[r].members THEN <<>>
        ELSE <<packet_init(<<IF user[c].nickname = user[u].nickname THEN "me"
                             ELSE user[u].nickname, room[r].name>>,
                           "MULTICAST_SEND", Empty, Text(m))>>]

(* The flag decides whether there is a room to look up.                      *)
server_handle_multicast_send_req(u, m) ==
    /\ Request(u, "MULTICAST_SEND")
    /\ \/ /\ ~user[u].is_in_chatroom
          /\ sent' = Sent(u, <<packet_init(SERVER, "ECHO_SEND", Empty, Text(m))>>, Nobody)
          /\ UNCHANGED fault
       \/ /\ user[u].is_in_chatroom
          /\ Through(server_get_chatroom_by_user(u), "chatroom")
          /\ IF server_get_chatroom_by_user(u) = {} THEN sent' = [c \in Conn |-> <<>>]
             ELSE \E r \in server_get_chatroom_by_user(u) : sent' = ToRoom(u, r, m)
    /\ UNCHANGED <<tables, aka, offers>>

-----------------------------------------------------------------------------
(* The negotiation of a file transfer.  The client of d stops at a prompt   *)
(* for each request it receives and answers them in order, to the nickname  *)
(* the request gave; "by" is who really asked.                              *)

Prompted(d, from, u) == [offers EXCEPT ![d] = Append(@, [name |-> from, by |-> u])]

server_handle_file_req(u, from, n, m) ==
    /\ Request(u, "FILE_REQUEST")
    /\ \/ /\ server_get_user_by_name(n) = {}
          /\ Reply(u, "DEFAULT", n, "no_user", {n})
          /\ UNCHANGED offers
       \/ /\ u \in server_get_user_by_name(n)
          /\ Reply(u, "DEFAULT", n, "self", {})
          /\ UNCHANGED offers
       \/ \E d \in server_get_user_by_name(n) \ {u} :
             /\ Len(offers[d]) < MaxOffers
             /\ sent' = Sent(d, <<packet_init(SERVER, "FILE_REQUEST", from, Text(m))>>, Nobody)
             /\ offers' = Prompted(d, from, u)
    /\ UNCHANGED <<tables, aka, fault>>

(* An answer goes to whoever has the nickname when it arrives; nobody may.   *)
Answer(u, type, packet) ==
    /\ Request(u, type)
    /\ offers[u] # <<>>
    /\ offers' = [offers EXCEPT ![u] = Tail(@)]
    /\ LET found == server_get_user_by_name(Head(offers[u]).name)
       IN  /\ Through(found, "requester")
           /\ \/ found = {} /\ sent' = [c \in Conn |-> <<>>]
              \/ \E d \in found : sent' = Sent(d, <<packet>>, Nobody)
    /\ UNCHANGED <<tables, aka>>

server_handle_file_accept_res(u, from, m) ==
    Answer(u, "FILE_ACCEPT",
           packet_init(<<from, Empty>>, "FILE_ACCEPT", Head(offers[u]).name, Text(m)))

server_handle_file_reject_req(u) ==
    Answer(u, "FILE_REJECT",
           FromServer("FILE_REJECT", Head(offers[u]).name, "cancelled", {user[u].nickname}))

-----------------------------------------------------------------------------
(* Arrival and departure: the calls main.c makes into server.c.             *)

Admits_OneMore == num_users <= MaxUsers
Admits == num_users < MaxUsers

accept_user(u) ==
    /\ fault = "none"
    /\ u \notin users
    /\ \/ /\ Admits
          /\ users' = users \cup {u}
          /\ user' = [user EXCEPT ![u] = user_node_init]
          /\ num_users' = num_users + 1
          /\ Reply(u, "DEFAULT", Empty, "login", {})
       \/ /\ ~Admits
          /\ Reply(u, "DEFAULT", Empty, "full", {})
          /\ UNCHANGED <<users, user, num_users>>
    /\ UNCHANGED <<rooms, aka, offers, fault>>

(* The prompts u leaves unanswered go with it, and what u asked of others is *)
(* nobody's any more.                                                        *)
Released(o, u) == [name |-> o.name, by |-> IF o.by = u THEN NoConn ELSE o.by]
Forget(u) ==
    [d \in Conn |-> IF d = u THEN <<>>
                    ELSE [k \in DOMAIN offers[d] |-> Released(offers[d][k], u)]]

server_disconnect_user(u) ==
    /\ fault = "none"
    /\ u \in users
    /\ users' = users \ {u}
    /\ user' = [user EXCEPT ![u] = user_node_init]
    /\ num_users' = num_users - 1
    /\ aka' = [aka EXCEPT ![u] = {Empty}]
    /\ offers' = Forget(u)
    /\ \/ /\ ~user[u].is_in_chatroom
          /\ sent' = [c \in Conn |-> <<>>]
          /\ UNCHANGED <<rooms, fault>>
       \/ /\ user[u].is_in_chatroom
          /\ Through(server_get_chatroom_by_user(u), "chatroom")
          /\ IF server_get_chatroom_by_user(u) = {}
             THEN sent' = [c \in Conn |-> <<>>] /\ UNCHANGED rooms
             ELSE \E r \in server_get_chatroom_by_user(u) :
                    /\ chatrooms' = RoomsWithout(r, u)
                    /\ num_chatrooms' = CountWithout(r, u)
                    /\ room' = TableWithout(r, u)
                    /\ sent' = SentTo(HasQuit(u, r, SERVER, "DEFAULT", Empty))

-----------------------------------------------------------------------------
RegInit ==
    /\ users = {}
    /\ user = [c \in Conn |-> user_node_init]
    /\ num_users = 0
    /\ chatrooms = {}
    /\ room = [r \in RoomNode |-> chatroom_node_free]
    /\ num_chatrooms = 0
    /\ aka = [c \in Conn |-> {Empty}]
    /\ offers = [c \in Conn |-> <<>>]
    /\ sent = [c \in Conn |-> <<>>]
    /\ fault = "none"

Nicknames(u) ==
    \/ \E n \in Nick : server_handle_nickname_new_req(u, n)
    \/ server_handle_nickname_list_req(u)
    \/ \E n \in Nick \cup {Empty} : server_handle_nickname_infos_req(u, n)

Messages(u) ==
    \/ \E m \in Body : server_handle_broadcast_send_req(u, m)
    \/ \E n \in Nick, from \in aka[u], m \in Body :
          server_handle_unicast_send_req(u, from, n, m)

Chatrooms(u) ==
    \/ \E n \in RoomName : server_handle_multicast_create_req(u, n)
    \/ server_handle_multicast_list_req(u)
    \/ \E n \in RoomName \cup {Empty} : server_handle_multicast_join_req(u, n)
    \/ \E n \in RoomName : server_handle_multicast_quit_req(u, n)
    \/ \E m \in Body : server_handle_multicast_send_req(u, m)

Files(u) ==
    \/ \E n \in Nick, from \in aka[u], m \in Body : server_handle_file_req(u, from, n, m)
    \/ \E from \in aka[u], m \in Body : server_handle_file_accept_res(u, from, m)
    \/ server_handle_file_reject_req(u)

Handler(u) ==
    login_first(u) \/ Nicknames(u) \/ Messages(u) \/ Chatrooms(u) \/ Files(u)

RegNext ==
    \E u \in Conn : accept_user(u) \/ server_disconnect_user(u) \/ Handler(u)

RegSpec == RegInit /\ [][RegNext]_regvars

-----------------------------------------------------------------------------
(* Invariants.                                                              *)

UserNodes == [nickname : Nick \cup {Empty}, is_logged_in : BOOLEAN, is_in_chatroom : BOOLEAN]
RoomNodes == [name : RoomName \cup {Empty}, members : SUBSET Conn, num_users : Int]
Offers == [name : Nick \cup {Empty}, by : Conn \cup {NoConn}]
Faults == {"none", "chatroom", "requester"}

(* Every variable of the server has its type.                               *)
TypeOK ==
    /\ users \subseteq Conn
    /\ user \in [Conn -> UserNodes]
    /\ num_users \in Int
    /\ chatrooms \subseteq RoomNode
    /\ room \in [RoomNode -> RoomNodes]
    /\ num_chatrooms \in Int
    /\ aka \in [Conn -> SUBSET (Nick \cup {Empty})]
    /\ offers \in [Conn -> Seq(Offers)]
    /\ sent \in [Conn -> Seq(Packets)]
    /\ fault \in Faults

CountsRight ==
    /\ num_users = Cardinality(users)
    /\ num_chatrooms = Cardinality(chatrooms)
    /\ \A r \in chatrooms : room[r].num_users = Cardinality(room[r].members)

NoneDeserted == \A r \in chatrooms : room[r].members # {}

RoomNamesUnique ==
    \A r, t \in chatrooms : room[r].name = room[t].name => r = t

OneRoomEach ==
    \A r, t \in chatrooms : room[r].members \cap room[t].members # {} => r = t

(* The tables agree whatever the order of the requests: the counters equal   *)
(* the lengths of the lists they stand for (the handlers destroy a room, and *)
(* look one up, by counters alone), no empty room outlives the step that     *)
(* emptied it, no two rooms share a name or a user, and rooms hold only      *)
(* connected users, so that no list runs through a freed struct user_node.   *)
RoomsConsistent ==
    /\ CountsRight
    /\ NoneDeserted
    /\ RoomNamesUnique
    /\ OneRoomEach
    /\ \A r \in chatrooms : room[r].members \subseteq users

(* server->num_users never exceeds the slots main.c has for connections.    *)
WithinCapacity == num_users <= MaxUsers

(* user->is_in_chatroom, which MULTICAST_SEND and a disconnection trust, is  *)
(* set exactly for the users on the list of some room, and those have logged *)
(* in.                                                                       *)
FlagMatchesMembership ==
    \A c \in users :
        /\ user[c].is_in_chatroom <=> server_get_chatroom_by_user(c) # {}
        /\ user[c].is_in_chatroom => user[c].is_logged_in

(* A lookup by nickname can only find one user: the nicknames of the users   *)
(* who have logged in are distinct and not empty, and the others have none.  *)
NicknamesUnique ==
    /\ \A c \in users : user[c].is_logged_in <=> user[c].nickname # Empty
    /\ \A c, d \in users :
          user[c].nickname = user[d].nickname /\ user[c].is_logged_in => c = d

(* MULTICAST_SEND and a disconnection go through the pointer to the user's   *)
(* room without a test; it is never NULL there.                              *)
NoRoomFault == fault # "chatroom"

-----------------------------------------------------------------------------
(* What a step may and may not do.                                          *)

Told(c, what, about) ==
    \E k \in DOMAIN sent'[c] : sent'[c][k].payload = Say(what, {about})

Stays(r) == room[r].members \cap room'[r].members

(* Req3.9, arrivals: a user who enters a room is named to everybody who was  *)
(* in it already.                                                            *)
ArrivalsAnnounced ==
    [][\A r \in chatrooms \cap chatrooms' : \A c \in room'[r].members \ room[r].members :
          \A m \in Stays(r) : Told(m, "has_joined", user[c].nickname)]_regvars

Switches(c, r) == \E t \in chatrooms \ {r} : c \in room'[t].members

(* Req3.9, departures: a user who leaves a room, by /quit, by /create or by  *)
(* disconnecting, is named to everybody left in it.                          *)
DeparturesAnnouncedUnlessSwitching ==
    [][\A r \in chatrooms \cap chatrooms' : \A c \in room[r].members \ room'[r].members :
          Switches(c, r) \/ \A m \in Stays(r) : Told(m, "has_quit", user[c].nickname)]_regvars

(* Req3.7: a room goes when its last user leaves it, and only then, and that *)
(* user, unless gone, is told in the same step; nobody else is.              *)
LastUserTold ==
    [][LET Gone == {room[r].name : r \in chatrooms} \ {room'[t].name : t \in chatrooms'}
       IN  \A c \in users', n \in RoomName :
              Told(c, "destroyed", n) <=>
                 \E r \in chatrooms : /\ room[r].name = n
                                      /\ n \in Gone
                                      /\ room[r].members = {c}]_regvars

Copies(c, type) == {k \in DOMAIN sent'[c] : sent'[c][k].type = type}
Hears(c) == Copies(c, "MULTICAST_SEND") # {}

(* Req3.8: a message said in a room reaches every user in the room, each     *)
(* once, and nobody else; exactly one of them, the speaker, reads "me".      *)
(* That the speaker gets a copy is what server.c:542 does; Req2.8 and the    *)
(* example of README.md:331 have none.                                       *)
MessagesStayInTheRoom ==
    [][\/ \A c \in Conn : ~Hears(c)
       \/ \E r \in chatrooms :
             /\ \A c \in Conn : Hears(c) <=> c \in room[r].members
             /\ \A c \in room[r].members :
                   Len(sent'[c]) = 1 /\ sent'[c][1].from[2] = room[r].name
             /\ \E s \in room[r].members : \A c \in room[r].members :
                   sent'[c][1].from[1] = IF c = s THEN "me" ELSE user[s].nickname]_regvars

(* Req2.7: a message to all reaches each connected user but its sender s     *)
(* once, under the nickname of s, and nobody who is not connected.  The      *)
(* handler tells the sender from the others by nickname, so this rests on    *)
(* nicknames staying unique through every login and renaming.  Nothing is    *)
(* said of s, to whom the code sends a copy too (Req2.8 asks for none).      *)
BroadcastsReachOthersOnce ==
    [][(\E c \in Conn : Copies(c, "BROADCAST_SEND") # {}) =>
          \E s \in users : \A c \in Conn \ {s} :
             /\ Cardinality(Copies(c, "BROADCAST_SEND")) = IF c \in users THEN 1 ELSE 0
             /\ \A k \in Copies(c, "BROADCAST_SEND") :
                   sent'[c][k].from[1] = user[s].nickname]_regvars

Answered(d) ==
    /\ offers[d] # <<>>
    /\ offers'[d] = Tail(offers[d])
    /\ d \in users'

(* The answer to a file request, however late, reaches the user who asked,   *)
(* and nobody else, as long as that user has kept the nickname the request   *)
(* gave.                                                                     *)
AnswersReturnUnlessRenamed ==
    [][\A d \in Conn : Answered(d) =>
          LET o == Head(offers[d])
          IN  o.by \in users /\ user[o.by].nickname = o.name
              => {c \in Conn : sent'[c] # <<>>} = {o.by}]_regvars

-----------------------------------------------------------------------------
(* The chatrooms the tables stand for.                                      *)

where == [c \in Conn |-> {room[r].name : r \in server_get_chatroom_by_user(c)}]
heard == {c \in Conn : \E k \in DOMAIN sent[c] : sent[c][k].type = "MULTICAST_SEND"}

Service == INSTANCE RoomService WITH where <- where, heard <- heard

(* The lists, counters, flags and recycled addresses of the server implement *)
(* the promise of RoomService, step by step.                                 *)
ImplementsRoomService == Service!Spec

-----------------------------------------------------------------------------
(* A statement of README.md that the code does not keep.                    *)

(* README.md:354 and 376 (Req 5.4): the answer to a file request reaches the *)
(* user who asked, if still connected; and if not, the server goes on with   *)
(* the others (Req1.3, README.md:129).                                       *)
AnswersReturnToRequester ==
    [][\A d \in Conn : Answered(d) =>
          LET by == Head(offers[d]).by
          IN  IF by \in users
              THEN \E type \in {"FILE_ACCEPT", "FILE_REJECT"} : Copies(by, type) # {}
              ELSE fault' # "requester"]_regvars
=============================================================================
