------------------------- MODULE RegistryStepProofs -------------------------
(***************************************************************************)
(* Theorems about the steps of Registry: what a request does to the        *)
(* chatrooms and whom it tells (the action properties of Registry), and    *)
(* that its lists, counters, flags and recycled addresses implement        *)
(* RoomService.                                                            *)
(***************************************************************************)
EXTENDS RegistryProofs, SequenceTheorems

-----------------------------------------------------------------------------
(* What a step of the server can be, as far as rooms and messages go.       *)

Quiet(p) == p.type \notin {"MULTICAST_SEND", "BROADCAST_SEND"} /\ p.payload.say # "destroyed"
AllQuiet(s) == \A k \in DOMAIN s : Quiet(s[k])

(* Nothing changes in the rooms, and nobody speaks.                          *)
Aside == UNCHANGED <<chatrooms, room>> /\ \A c \in Conn : AllQuiet(sent'[c])

Broadcasts(u, m) == server_handle_broadcast_send_req(u, m)

Speaks(u, r, m) ==
    /\ u \in users
    /\ user[u].is_logged_in
    /\ r \in server_get_chatroom_by_user(u)
    /\ sent' = ToRoom(u, r, m)
    /\ UNCHANGED <<chatrooms, room>>

Opens(u, n, a) ==
    /\ u \in users
    /\ server_get_chatroom_by_name(n) = {}
    /\ server_get_chatroom_by_user(u) = {}
    /\ a \in RoomNode \ chatrooms
    /\ chatrooms' = chatrooms \cup {a}
    /\ room' = [room EXCEPT ![a] = chatroom_node_init(n, u)]
    /\ Reply(u, "MULTICAST_CREATE", n, "created", {n})

Replaces(u, n, r, a) ==
    /\ u \in users'
    /\ server_get_chatroom_by_name(n) = {}
    /\ r \in server_get_chatroom_by_user(u)
    /\ a \in RoomNode \ RoomsWithout(r, u)
    /\ chatrooms' = RoomsWithout(r, u) \cup {a}
    /\ room' = [TableWithout(r, u) EXCEPT ![a] = chatroom_node_init(n, u)]
    /\ sent' = Sent(u, Append(YouQuit(u, r, "MULTICAST_CREATE", n),
                              FromServer("MULTICAST_CREATE", n, "created", {n})),
                    HasQuit(u, r, SERVERat(r), "MULTICAST_CREATE", n))

Enters(u, n, t) ==
    /\ server_get_chatroom_by_user(u) = {}
    /\ t \in Known(n)
    /\ chatrooms' = chatrooms
    /\ room' = chatroom_node_add_user_node(room, t, u)
    /\ sent' = Sent(u, Arrival(u, t, n), [c \in room[t].members |-> HasJoined(u, t, n)])

Moves(u, n, t, r) ==
    /\ u \in users'
    /\ t \in Known(n)
    /\ r \in server_get_chatroom_by_user(u) \ {t}
    /\ chatrooms' = RoomsWithout(r, u)
    /\ room' = chatroom_node_add_user_node(TableWithout(r, u), t, u)
    /\ sent' = Sent(u, YouQuit(u, r, "MULTICAST_JOIN", n) \o Arrival(u, t, n),
                    [c \in room[t].members \cup Remaining(r, u) |->
                        IF c \in room[t].members THEN HasJoined(u, t, n)
                        ELSE HasQuitMisnamed(c, r, n)])

Quits(u, n, r) ==
    /\ u \in users'
    /\ r \in server_get_chatroom_by_user(u)
    /\ chatrooms' = RoomsWithout(r, u)
    /\ room' = TableWithout(r, u)
    /\ sent' = Sent(u, YouQuit(u, r, "MULTICAST_QUIT", n),
                    HasQuit(u, r, SERVERat(r), "MULTICAST_QUIT", n))

Goes(u, r) ==
    /\ u \notin users'
    /\ r \in server_get_chatroom_by_user(u)
    /\ chatrooms' = RoomsWithout(r, u)
    /\ room' = TableWithout(r, u)
    /\ sent' = SentTo(HasQuit(u, r, SERVER, "DEFAULT", Empty))

Kind(u) ==
    \/ Aside
    \/ \E m \in Body : Broadcasts(u, m)
    \/ \E r \in RoomNode, m \in Body : Speaks(u, r, m)
    \/ \E n \in RoomName, a \in RoomNode : Opens(u, n, a)
    \/ \E n \in RoomName, r, a \in RoomNode : Replaces(u, n, r, a)
    \/ \E n \in RoomName \cup {Empty}, t \in RoomNode : Enters(u, n, t)
    \/ \E n \in RoomName \cup {Empty}, t, r \in RoomNode : Moves(u, n, t, r)
    \/ \E n \in RoomName, r \in RoomNode : Quits(u, n, r)
    \/ \E r \in RoomNode : Goes(u, r)

(* What each client gets of the packets of a handler.                        *)
LEMMA WhatIsSent ==
    ASSUME NEW u \in Conn, NEW mine, NEW others, NEW c \in Conn
    PROVE  /\ c = u => Sent(u, mine, others)[c] = mine
           /\ c # u /\ c \in DOMAIN others => Sent(u, mine, others)[c] = <<others[c]>>
           /\ c # u /\ c \notin DOMAIN others => Sent(u, mine, others)[c] = <<>>
BY DEF Sent, SentTo

(* Quiet answers and quiet copies make a quiet step.                         *)
LEMMA QuietSent ==
    ASSUME NEW u \in Conn, NEW mine, NEW others, AllQuiet(mine),
           \A c \in DOMAIN others : Quiet(others[c])
    PROVE  \A c \in Conn : AllQuiet(Sent(u, mine, others)[c])
<1> SUFFICES ASSUME NEW c \in Conn PROVE AllQuiet(Sent(u, mine, others)[c])
    OBVIOUS
<1>1. CASE c = u
    BY <1>1, WhatIsSent
<1>2. CASE c # u /\ c \in DOMAIN others
    <2>1. Sent(u, mine, others)[c] = <<others[c]>>
        BY <1>2, WhatIsSent
    <2> QED  BY <1>2, <2>1 DEF AllQuiet
<1>3. CASE c # u /\ c \notin DOMAIN others
    <2>1. Sent(u, mine, others)[c] = <<>>
        BY <1>3, WhatIsSent
    <2> QED  BY <2>1 DEF AllQuiet
<1> QED  BY <1>1, <1>2, <1>3

(* One packet to one client.                                                 *)
LEMMA QuietOne ==
    ASSUME NEW u \in Conn, NEW p, Quiet(p)
    PROVE  \A c \in Conn : AllQuiet(Sent(u, <<p>>, Nobody)[c])
<1>1. AllQuiet(<<p>>) /\ \A c \in DOMAIN Nobody : Quiet(Nobody[c])
    BY DEF AllQuiet, Nobody
<1> QED  BY <1>1, QuietSent

(* An answer that reports no destroyed room.                                 *)
LEMMA QuietReply ==
    ASSUME NEW u \in Conn, NEW type, NEW infos, NEW what, NEW about,
           Reply(u, type, infos, what, about),
           type \notin {"MULTICAST_SEND", "BROADCAST_SEND"}, what # "destroyed"
    PROVE  \A c \in Conn : AllQuiet(sent'[c])
<1>1. Quiet(FromServer(type, infos, what, about))
    BY DEF Quiet, FromServer, packet_init, Say
<1> QED  BY <1>1, QuietOne DEF Reply

(* Text other than a message to all or to a room.                            *)
LEMMA QuietText ==
    ASSUME NEW from, NEW type, NEW infos, NEW m,
           type \notin {"MULTICAST_SEND", "BROADCAST_SEND"}
    PROVE  Quiet(packet_init(from, type, infos, Text(m)))
BY DEF Quiet, packet_init, Text, Say

(* The handlers that only answer, and those of files, leave rooms alone.     *)
LEMMA AnswersAside ==
    ASSUME TypeOK, NEW u \in Conn, login_first(u) \/ Nicknames(u) \/ Files(u)
                             \/ server_handle_multicast_list_req(u)
    PROVE  Aside
<1>1. CASE login_first(u)
    BY <1>1, QuietReply DEF login_first, Aside, tables, rooms
<1>2. ASSUME NEW n \in Nick, server_handle_nickname_new_req(u, n)
      PROVE  Aside
    <2>1. PICK type \in {"DEFAULT", "NICKNAME_NEW"},
               what \in {"nick_used", "renamed", "welcome"}, about \in {{}, {n}} :
             Reply(u, type, n, what, about)
        BY <1>2 DEF server_handle_nickname_new_req
    <2> QED  BY <1>2, <2>1, QuietReply DEF server_handle_nickname_new_req, Aside, rooms
<1>3. CASE server_handle_nickname_list_req(u)
    BY <1>3, QuietReply DEF server_handle_nickname_list_req, Aside, tables, rooms
<1>4. ASSUME NEW n, server_handle_nickname_infos_req(u, n)
      PROVE  Aside
    <2>1. PICK what \in {"unknown", "infos"}, about \in {{}, {n}} :
             Reply(u, "NICKNAME_INFOS", n, what, about)
        BY <1>4 DEF server_handle_nickname_infos_req
    <2> QED  BY <1>4, <2>1, QuietReply DEF server_handle_nickname_infos_req, Aside, tables, rooms
<1>5. CASE server_handle_multicast_list_req(u)
    <2>1. PICK what \in {"rooms", "no_rooms"},
               about \in {{}, {room[r].name : r \in chatrooms}} :
             Reply(u, "MULTICAST_LIST", Empty, what, about)
        BY <1>5 DEF server_handle_multicast_list_req
    <2> QED  BY <1>5, <2>1, QuietReply DEF server_handle_multicast_list_req, Aside, tables, rooms
<1>6. ASSUME NEW n \in Nick, NEW from, NEW m, server_handle_file_req(u, from, n, m)
      PROVE  Aside
    <2>1. UNCHANGED <<chatrooms, room>>
        BY <1>6 DEF server_handle_file_req, tables, rooms
    <2>2. CASE \E what \in {"no_user", "self"}, about \in {{}, {n}} :
                  Reply(u, "DEFAULT", n, what, about)
        BY <2>1, <2>2, QuietReply DEF Aside
    <2>3. ASSUME NEW d \in Conn,
                 sent' = Sent(d, <<packet_init(SERVER, "FILE_REQUEST", from, Text(m))>>, Nobody)
          PROVE  Aside
        BY <2>1, <2>3, QuietOne, QuietText DEF Aside
    <2>4. \/ \E what \in {"no_user", "self"}, about \in {{}, {n}} :
                Reply(u, "DEFAULT", n, what, about)
          \/ \E d \in server_get_user_by_name(n) \ {u} :
                sent' = Sent(d, <<packet_init(SERVER, "FILE_REQUEST", from, Text(m))>>, Nobody)
        BY <1>6 DEF server_handle_file_req
    <2>5. server_get_user_by_name(n) \subseteq Conn
        BY DEF server_get_user_by_name, TypeOK
    <2> QED  BY <2>2, <2>3, <2>4, <2>5
<1>7. ASSUME NEW type, NEW packet, Quiet(packet), Answer(u, type, packet)
      PROVE  Aside
    <2>1. UNCHANGED <<chatrooms, room>>
        BY <1>7 DEF Answer, tables, rooms
    <2>2. server_get_user_by_name(Head(offers[u]).name) \subseteq Conn
        BY DEF server_get_user_by_name, TypeOK
    <2>3. CASE sent' = [c \in Conn |-> <<>>]
        BY <2>1, <2>3 DEF Aside, AllQuiet
    <2>4. CASE \E d \in Conn : sent' = Sent(d, <<packet>>, Nobody)
        BY <1>7, <2>1, <2>4, QuietOne DEF Aside
    <2> QED  BY <1>7, <2>2, <2>3, <2>4 DEF Answer
<1>8. CASE Nicknames(u)
    BY <1>2, <1>3, <1>4, <1>8 DEF Nicknames
<1>9. CASE Files(u)
    <2>1. ASSUME NEW from, NEW m, server_handle_file_accept_res(u, from, m)
          PROVE  Aside
        <3>1. Quiet(packet_init(<<from, Empty>>, "FILE_ACCEPT", Head(offers[u]).name, Text(m)))
            BY QuietText
        <3> QED  BY <1>7, <2>1, <3>1 DEF server_handle_file_accept_res
    <2>2. CASE server_handle_file_reject_req(u)
        <3>1. Quiet(FromServer("FILE_REJECT", Head(offers[u]).name, "cancelled",
                               {user[u].nickname}))
            BY DEF Quiet, FromServer, packet_init, Say
        <3> QED  BY <1>7, <2>2, <3>1 DEF server_handle_file_reject_req
    <2> QED  BY <1>6, <1>9, <2>1, <2>2 DEF Files
<1> QED  BY <1>1, <1>5, <1>8, <1>9

(* So do a private message and an arrival.                                   *)
LEMMA UnicastAside ==
    ASSUME TypeOK, NEW u \in Conn, NEW n \in Nick, NEW from, NEW m,
           server_handle_unicast_send_req(u, from, n, m)
    PROVE  Aside
<1>1. UNCHANGED <<chatrooms, room>>
    BY DEF server_handle_unicast_send_req, tables, rooms
<1>2. CASE \E type \in {"UNICAST_SEND", "DEFAULT"}, what \in {"no_user", "self"},
              about \in {{}, {n}} : Reply(u, type, n, what, about)
    BY <1>1, <1>2, QuietReply DEF Aside
<1>3. ASSUME NEW d,
             LET copy(source) == packet_init(source, "UNICAST_SEND", n, Text(m))
             IN  sent' = Sent(u, <<copy(<<"me", n>>)>>, [c \in {d} |-> copy(<<from, Empty>>)])
      PROVE  Aside
    <2> DEFINE copy(source) == packet_init(source, "UNICAST_SEND", n, Text(m))
    <2>1. \A source : Quiet(copy(source))
        BY QuietText
    <2>2. sent' = Sent(u, <<copy(<<"me", n>>)>>, [c \in {d} |-> copy(<<from, Empty>>)])
        BY <1>3
    <2> HIDE DEF copy
    <2>3. AllQuiet(<<copy(<<"me", n>>)>>)
        BY <2>1 DEF AllQuiet
    <2>4. \A c \in DOMAIN [c \in {d} |-> copy(<<from, Empty>>)] :
             Quiet([e \in {d} |-> copy(<<from, Empty>>)][c])
        BY <2>1
    <2> QED  BY <1>1, <2>2, <2>3, <2>4, QuietSent DEF Aside
<1> QED  BY <1>2, <1>3 DEF server_handle_unicast_send_req

(* A user that is accepted has no nickname and is in no room yet: no room    *)
(* changes.                                                                  *)
LEMMA AcceptAside ==
    ASSUME NEW u \in Conn, accept_user(u)
    PROVE  Aside
<1>1. \E what \in {"login", "full"} : Reply(u, "DEFAULT", Empty, what, {})
    BY DEF accept_user
<1> QED  BY <1>1, QuietReply DEF accept_user, Aside, rooms

(* The members of a room are connected.                                      *)
LEMMA MembersConnected ==
    ASSUME IInv, NEW r \in chatrooms
    PROVE  r \in RoomNode /\ room[r].members \subseteq users /\ users \subseteq Conn
BY DEF IInv, Consistent, TypeOK

(* /create opens a room, after the user has left another or not.             *)
LEMMA CreateKind ==
    ASSUME IInv, NEW u \in Conn, NEW n \in RoomName,
           server_handle_multicast_create_req(u, n)
    PROVE  Kind(u)
<1>u. u \in users /\ users' = users
    BY DEF server_handle_multicast_create_req, Request
<1>1. CASE Reply(u, "MULTICAST_CREATE", n, "room_used", {}) /\ UNCHANGED rooms
    BY <1>1, QuietReply DEF Kind, Aside, rooms
<1>2. ASSUME server_get_chatroom_by_name(n) = {}, server_get_chatroom_by_user(u) = {},
             NEW a \in RoomNode \ chatrooms,
             chatrooms' = chatrooms \cup {a},
             room' = [room EXCEPT ![a] = chatroom_node_init(n, u)],
             Reply(u, "MULTICAST_CREATE", n, "created", {n})
      PROVE  Kind(u)
    <2>1. Opens(u, n, a)
        BY <1>u, <1>2 DEF Opens
    <2> QED  BY <2>1 DEF Kind
<1>3. ASSUME server_get_chatroom_by_name(n) = {},
             NEW r \in server_get_chatroom_by_user(u), NEW a \in RoomNode \ RoomsWithout(r, u),
             chatrooms' = RoomsWithout(r, u) \cup {a},
             room' = [TableWithout(r, u) EXCEPT ![a] = chatroom_node_init(n, u)],
             sent' = Sent(u, Append(YouQuit(u, r, "MULTICAST_CREATE", n),
                                    FromServer("MULTICAST_CREATE", n, "created", {n})),
                          HasQuit(u, r, SERVERat(r), "MULTICAST_CREATE", n))
      PROVE  Kind(u)
    <2>1. Replaces(u, n, r, a)
        BY <1>u, <1>3 DEF Replaces
    <2>2. r \in RoomNode
        BY <1>3, RoomLookups, MembersConnected
    <2> QED  BY <2>1, <2>2 DEF Kind
<1> QED  BY <1>1, <1>2, <1>3 DEF server_handle_multicast_create_req

(* /join enters a room, after the user has left another or not.              *)
LEMMA JoinKind ==
    ASSUME IInv, NEW u \in Conn, NEW n \in RoomName \cup {Empty},
           server_handle_multicast_join_req(u, n)
    PROVE  Kind(u)
<1>u. u \in users /\ users' = users
    BY DEF server_handle_multicast_join_req, Request
<1>1. CASE (\E what \in {"no_room", "yet_in"}, about \in {{}, {n}} :
               Reply(u, "MULTICAST_JOIN", n, what, about)) /\ UNCHANGED rooms
    BY <1>1, QuietReply DEF Kind, Aside, rooms
<1>2. ASSUME server_get_chatroom_by_user(u) = {}, NEW t \in Known(n),
             room' = chatroom_node_add_user_node(room, t, u),
             sent' = Sent(u, Arrival(u, t, n), [c \in room[t].members |-> HasJoined(u, t, n)]),
             chatrooms' = chatrooms
      PROVE  Kind(u)
    <2>1. Enters(u, n, t)
        BY <1>2 DEF Enters
    <2>2. t \in RoomNode
        BY <1>2, RoomLookups, MembersConnected
    <2> QED  BY <2>1, <2>2 DEF Kind
<1>3. ASSUME NEW t \in Known(n), NEW r \in server_get_chatroom_by_user(u), r # t,
             chatrooms' = RoomsWithout(r, u),
             room' = chatroom_node_add_user_node(TableWithout(r, u), t, u),
             sent' = Sent(u, YouQuit(u, r, "MULTICAST_JOIN", n) \o Arrival(u, t, n),
                          [c \in room[t].members \cup Remaining(r, u) |->
                              IF c \in room[t].members THEN HasJoined(u, t, n)
                              ELSE HasQuitMisnamed(c, r, n)])
      PROVE  Kind(u)
    <2>1. Moves(u, n, t, r)
        BY <1>u, <1>3 DEF Moves
    <2>2. t \in RoomNode /\ r \in RoomNode
        BY <1>3, RoomLookups, MembersConnected
    <2> QED  BY <2>1, <2>2 DEF Kind
<1>4. \/ (\E what \in {"no_room", "yet_in"}, about \in {{}, {n}} :
             Reply(u, "MULTICAST_JOIN", n, what, about)) /\ UNCHANGED rooms
      \/ server_get_chatroom_by_user(u) = {} /\ \E t \in Known(n) :
             /\ room' = chatroom_node_add_user_node(room, t, u)
             /\ sent' = Sent(u, Arrival(u, t, n),
                             [c \in room[t].members |-> HasJoined(u, t, n)])
             /\ chatrooms' = chatrooms
      \/ \E t \in Known(n), r \in server_get_chatroom_by_user(u) :
             /\ r # t
             /\ chatrooms' = RoomsWithout(r, u)
             /\ room' = chatroom_node_add_user_node(TableWithout(r, u), t, u)
             /\ sent' = Sent(u, YouQuit(u, r, "MULTICAST_JOIN", n) \o Arrival(u, t, n),
                             [c \in room[t].members \cup Remaining(r, u) |->
                                 IF c \in room[t].members THEN HasJoined(u, t, n)
                                 ELSE HasQuitMisnamed(c, r, n)])
    BY DEF server_handle_multicast_join_req
<1> QED  BY <1>1, <1>2, <1>3, <1>4

(* /quit leaves a room.                                                      *)
LEMMA QuitKind ==
    ASSUME IInv, NEW u \in Conn, NEW n \in RoomName, server_handle_multicast_quit_req(u, n)
    PROVE  Kind(u)
<1>u. u \in users /\ users' = users
    BY DEF server_handle_multicast_quit_req, Request
<1>1. CASE (\E what \in {"no_room", "not_in"} : Reply(u, "MULTICAST_QUIT", n, what, {n}))
           /\ UNCHANGED rooms
    BY <1>1, QuietReply DEF Kind, Aside, rooms
<1>2. ASSUME NEW r \in Known(n), u \in room[r].members,
             chatrooms' = RoomsWithout(r, u), room' = TableWithout(r, u),
             sent' = Sent(u, YouQuit(u, r, "MULTICAST_QUIT", n),
                          HasQuit(u, r, SERVERat(r), "MULTICAST_QUIT", n))
      PROVE  Kind(u)
    <2>1. r \in server_get_chatroom_by_user(u) /\ r \in RoomNode
        BY <1>2, RoomLookups, MembersConnected DEF server_get_chatroom_by_user
    <2>2. Quits(u, n, r)
        BY <1>u, <1>2, <2>1 DEF Quits
    <2> QED  BY <2>1, <2>2 DEF Kind
<1> QED  BY <1>1, <1>2 DEF server_handle_multicast_quit_req

(* A message in a room is heard there, or echoed to a user in no room.       *)
LEMMA MulticastSendKind ==
    ASSUME IInv, NEW u \in Conn, NEW m \in Body, server_handle_multicast_send_req(u, m)
    PROVE  Kind(u)
<1>u. u \in users /\ user[u].is_logged_in /\ UNCHANGED <<chatrooms, room>>
    BY DEF server_handle_multicast_send_req, Request, tables, rooms
<1>1. CASE sent' = Sent(u, <<packet_init(SERVER, "ECHO_SEND", Empty, Text(m))>>, Nobody)
    <2>1. Quiet(packet_init(SERVER, "ECHO_SEND", Empty, Text(m)))
        BY QuietText
    <2> QED  BY <1>u, <1>1, <2>1, QuietOne DEF Kind, Aside
<1>2. CASE sent' = [c \in Conn |-> <<>>]
    BY <1>u, <1>2 DEF Kind, Aside, AllQuiet
<1>3. ASSUME NEW r \in server_get_chatroom_by_user(u), sent' = ToRoom(u, r, m)
      PROVE  Kind(u)
    <2>1. Speaks(u, r, m) /\ r \in RoomNode
        BY <1>u, <1>3, RoomLookups, MembersConnected DEF Speaks
    <2> QED  BY <2>1 DEF Kind
<1> QED  BY <1>1, <1>2, <1>3 DEF server_handle_multicast_send_req

(* A departure leaves a room, or touches none.                               *)
LEMMA DisconnectKind ==
    ASSUME IInv, NEW u \in Conn, server_disconnect_user(u)
    PROVE  Kind(u)
<1>1. CASE sent' = [c \in Conn |-> <<>>] /\ UNCHANGED rooms
    BY <1>1 DEF Kind, Aside, AllQuiet, rooms
<1>2. ASSUME NEW r \in server_get_chatroom_by_user(u),
             chatrooms' = RoomsWithout(r, u), room' = TableWithout(r, u),
             sent' = SentTo(HasQuit(u, r, SERVER, "DEFAULT", Empty))
      PROVE  Kind(u)
    <2>1. u \notin users'
        BY DEF server_disconnect_user
    <2>2. Goes(u, r) /\ r \in RoomNode
        BY <1>2, <2>1, RoomLookups, MembersConnected DEF Goes
    <2> QED  BY <2>2 DEF Kind
<1> QED  BY <1>1, <1>2 DEF server_disconnect_user

(* Every step of the server is of one of the kinds above.                    *)
LEMMA StepKind ==
    ASSUME IInv, RegNext
    PROVE  \E u \in Conn : Kind(u)
<1>1. PICK u \in Conn : accept_user(u) \/ server_disconnect_user(u) \/ Handler(u)
    BY DEF RegNext
<1>2. TypeOK
    BY DEF IInv
<1>3. CASE Aside
    BY <1>3 DEF Kind
<1>4. CASE accept_user(u) \/ login_first(u) \/ Nicknames(u) \/ Files(u)
           \/ server_handle_multicast_list_req(u)
    BY <1>2, <1>3, <1>4, AcceptAside, AnswersAside
<1>5. CASE Messages(u)
    <2>1. ASSUME NEW m \in Body, server_handle_broadcast_send_req(u, m)
          PROVE  Kind(u)
        BY <2>1 DEF Kind, Broadcasts
    <2> QED  BY <1>2, <1>3, <1>5, <2>1, UnicastAside DEF Messages
<1>6. CASE Chatrooms(u)
    BY <1>4, <1>6, CreateKind, JoinKind, QuitKind, MulticastSendKind DEF Chatrooms
<1>7. CASE server_disconnect_user(u)
    BY <1>7, DisconnectKind
<1> QED  BY <1>1, <1>4, <1>5, <1>6, <1>7 DEF Handler
-----------------------------------------------------------------------------
(* What each kind of step does to the rooms.                                *)

(* The room that is left goes exactly when nobody remains in it; the others  *)
(* keep their names and members.                                             *)
LEMMA RoomLeft ==
    ASSUME IInv, NEW u \in Conn, NEW r \in server_get_chatroom_by_user(u)
    PROVE  /\ RoomsWithout(r, u) \subseteq chatrooms
           /\ chatrooms \ {r} \subseteq RoomsWithout(r, u)
           /\ Deserted(r, u) <=> Remaining(r, u) = {}
           /\ r \in RoomsWithout(r, u) <=> Remaining(r, u) # {}
           /\ \A t \in RoomsWithout(r, u) :
                 /\ TableWithout(r, u)[t].name = room[t].name
                 /\ TableWithout(r, u)[t].members = Remaining(t, u)
           /\ TableWithout(r, u) \in [RoomNode -> RoomNodes]
<1>1. r \in chatrooms /\ u \in room[r].members
    BY RoomLookups
<1>2. Consistent(chatrooms, room, num_chatrooms, users)
    BY DEF IInv
<1>3. /\ Deserted(r, u) <=> Remaining(r, u) = {}
      /\ \A t \in RoomsWithout(r, u) : TableWithout(r, u)[t].name = room[t].name
      /\ TableWithout(r, u) \in [RoomNode -> RoomNodes]
    BY <1>1, <1>2, Leaving DEF Consistent
<1>4. /\ RoomsWithout(r, u) \subseteq chatrooms
      /\ chatrooms \ {r} \subseteq RoomsWithout(r, u)
      /\ r \in RoomsWithout(r, u) <=> ~Deserted(r, u)
    BY <1>1 DEF RoomsWithout
<1>5. \A t \in chatrooms \ {r} : u \notin room[t].members
    BY <1>1, <1>2 DEF Consistent
<1>6. \A t \in RoomsWithout(r, u) : TableWithout(r, u)[t].members = Remaining(t, u)
    <2>1. r \in RoomNode /\ room \in [RoomNode -> RoomNodes] /\ chatrooms \subseteq RoomNode
        BY <1>1, <1>2 DEF Consistent
    <2>2. ASSUME NEW t \in RoomsWithout(r, u), t # r
          PROVE  TableWithout(r, u)[t] = room[t]
        BY <2>1, <2>2, <1>4 DEF TableWithout, chatroom_node_remove_user_node
    <2>3. ASSUME ~Deserted(r, u)
          PROVE  TableWithout(r, u)[r].members = Remaining(r, u)
        BY <2>1, <2>3 DEF TableWithout, chatroom_node_remove_user_node, Remaining
    <2>4. \A t \in RoomsWithout(r, u) : t # r => Remaining(t, u) = room[t].members
        BY <1>4, <1>5 DEF Remaining
    <2> QED  BY <1>4, <2>2, <2>3, <2>4
<1> QED  BY <1>3, <1>4, <1>6

(* A room opened: the others are as they were.                               *)
LEMMA RoomOpened ==
    ASSUME IInv, NEW u \in Conn, NEW n \in RoomName, NEW a \in RoomNode, Opens(u, n, a)
    PROVE  /\ a \notin chatrooms /\ chatrooms' = chatrooms \cup {a}
           /\ room'[a].name = n /\ room'[a].members = {u}
           /\ \A t \in chatrooms : room'[t] = room[t]
<1>1. room \in [RoomNode -> RoomNodes] /\ chatrooms \subseteq RoomNode
    BY DEF IInv, Consistent
<1> QED  BY <1>1 DEF Opens, chatroom_node_init

(* A room left for a new one, perhaps at the address of the old.             *)
LEMMA RoomReplaced ==
    ASSUME IInv, NEW u \in Conn, NEW n \in RoomName, NEW r \in RoomNode, NEW a \in RoomNode,
           Replaces(u, n, r, a)
    PROVE  /\ r \in server_get_chatroom_by_user(u)
           /\ a \notin RoomsWithout(r, u) /\ chatrooms' = RoomsWithout(r, u) \cup {a}
           /\ room'[a].name = n /\ room'[a].members = {u}
           /\ \A t \in RoomsWithout(r, u) : /\ room'[t].name = room[t].name
                                            /\ room'[t].members = Remaining(t, u)
<1>1. r \in server_get_chatroom_by_user(u)
    BY DEF Replaces
<1>2. /\ TableWithout(r, u) \in [RoomNode -> RoomNodes]
      /\ RoomsWithout(r, u) \subseteq RoomNode
    BY <1>1, RoomLeft DEF IInv, Consistent
<1>3. /\ \A t \in RoomsWithout(r, u) : room'[t] = TableWithout(r, u)[t]
      /\ room'[a] = chatroom_node_init(n, u)
    BY <1>2 DEF Replaces
<1> QED  BY <1>1, <1>3, RoomLeft DEF Replaces, chatroom_node_init

(* A room entered.                                                           *)
LEMMA RoomEntered ==
    ASSUME IInv, NEW u \in Conn, NEW n, NEW t \in RoomNode, Enters(u, n, t)
    PROVE  /\ t \in chatrooms /\ room[t].name = n /\ chatrooms' = chatrooms
           /\ \A q \in chatrooms :
                 /\ room'[q].name = room[q].name
                 /\ room'[q].members = IF q = t THEN room[q].members \cup {u}
                                       ELSE room[q].members
<1>1. room \in [RoomNode -> RoomNodes] /\ chatrooms \subseteq RoomNode
    BY DEF IInv, Consistent
<1> QED  BY <1>1, RoomLookups DEF Enters, chatroom_node_add_user_node

(* What a step may make of the members of a room.                            *)
Gains(q, u) == room'[q].members = room[q].members \cup {u}
Loses(q, u) == room'[q].members = Remaining(q, u)

(* A room left for another.                                                  *)
LEMMA RoomChanged ==
    ASSUME IInv, NEW u \in Conn, NEW n, NEW t \in RoomNode, NEW r \in RoomNode,
           Moves(u, n, t, r)
    PROVE  /\ r \in server_get_chatroom_by_user(u) /\ r # t
           /\ t \in RoomsWithout(r, u) /\ room[t].name = n
           /\ chatrooms' = RoomsWithout(r, u)
           /\ \A q \in RoomsWithout(r, u) : room'[q].name = room[q].name
           /\ Gains(t, u)
           /\ \A q \in RoomsWithout(r, u) : q = t \/ Loses(q, u)
<1>1. r \in server_get_chatroom_by_user(u) /\ r # t
    BY DEF Moves
<1>2. t \in chatrooms /\ room[t].name = n
    BY RoomLookups DEF Moves
<1>3. /\ TableWithout(r, u) \in [RoomNode -> RoomNodes]
      /\ RoomsWithout(r, u) \subseteq RoomNode
      /\ t \in RoomsWithout(r, u)
    BY <1>1, <1>2, RoomLeft DEF IInv, Consistent
<1>4. \A q \in RoomsWithout(r, u) :
         /\ room'[q].name = TableWithout(r, u)[q].name
         /\ room'[q].members = IF q = t THEN TableWithout(r, u)[q].members \cup {u}
                               ELSE TableWithout(r, u)[q].members
    BY <1>3 DEF Moves, chatroom_node_add_user_node
<1>5. \A q \in RoomsWithout(r, u) :
         /\ TableWithout(r, u)[q].name = room[q].name
         /\ TableWithout(r, u)[q].members = Remaining(q, u)
    BY <1>1, RoomLeft
<1>6. chatrooms' = RoomsWithout(r, u)
    BY DEF Moves
<1>7. ASSUME NEW q \in RoomsWithout(r, u)
      PROVE  /\ room'[q].name = room[q].name
             /\ q = t => room'[q].members = room[q].members \cup {u}
             /\ q # t => room'[q].members = Remaining(q, u)
    <2>1. Remaining(q, u) \cup {u} = room[q].members \cup {u}
        BY DEF Remaining
    <2> QED  BY <1>4, <1>5, <2>1
<1> QED  BY <1>1, <1>2, <1>3, <1>6, <1>7 DEF Gains, Loses

-----------------------------------------------------------------------------
(* Arrivals and departures.                                                 *)

(* A user told of u's arrival.                                               *)
LEMMA Welcome ==
    ASSUME NEW u \in Conn, NEW t, NEW n, NEW mine, NEW others,
           NEW m \in Conn, m # u, m \in DOMAIN others, others[m] = HasJoined(u, t, n),
           sent' = Sent(u, mine, others)
    PROVE  Told(m, "has_joined", user[u].nickname)
<1>1. sent'[m] = <<HasJoined(u, t, n)>>
    BY WhatIsSent
<1>2. HasJoined(u, t, n).payload = Say("has_joined", {user[u].nickname})
    BY DEF HasJoined, packet_init
<1>3. 1 \in DOMAIN sent'[m] /\ sent'[m][1] = HasJoined(u, t, n)
    BY <1>1
<1> QED  BY <1>2, <1>3 DEF Told

(* Nobody but the user who changes rooms arrives anywhere.                   *)
LEMMA OneArrives ==
    ASSUME IInv, NEW u \in Conn, NEW n, NEW t \in RoomNode, NEW r \in RoomNode, Moves(u, n, t, r)
    PROVE  \A p \in chatrooms' : \A c \in room'[p].members \ room[p].members : p = t /\ c = u
<1>1. /\ chatrooms' = RoomsWithout(r, u) /\ Gains(t, u)
      /\ \A q \in RoomsWithout(r, u) : q = t \/ Loses(q, u)
    BY RoomChanged
<1> QED  BY <1>1 DEF Remaining, Gains, Loses

(* Everybody in a room is told of one who enters it.                         *)
LEMMA StepArrivals ==
    ASSUME IInv, RegNext, NEW p \in chatrooms \cap chatrooms',
           NEW c \in room'[p].members \ room[p].members, NEW m \in Stays(p)
    PROVE  Told(m, "has_joined", user[c].nickname)
<1>1. PICK u \in Conn : Kind(u)
    BY StepKind
<1>2. m \in room[p].members /\ m \in Conn
    BY MembersConnected DEF Stays
<1>3. c \in room'[p].members /\ c \notin room[p].members
    OBVIOUS
<1>4. CASE UNCHANGED room
    BY <1>3, <1>4
<1>5. ASSUME NEW n \in RoomName, NEW a \in RoomNode, Opens(u, n, a)
      PROVE  FALSE
    BY <1>3, <1>5, RoomOpened
<1>6. ASSUME NEW n \in RoomName, NEW q \in RoomNode, NEW a \in RoomNode, Replaces(u, n, q, a)
      PROVE  FALSE
    <2>1. CASE p \in RoomsWithout(q, u)
        BY <1>3, <1>6, <2>1, RoomReplaced DEF Remaining
    <2>2. CASE p = a
        <3>1. q \in server_get_chatroom_by_user(u) /\ a \notin RoomsWithout(q, u)
            BY <1>6, RoomReplaced
        <3>2. p = q /\ Remaining(q, u) = {}
            BY <2>2, <3>1, RoomLeft
        <3>3. room[p].members = {u}
            BY <3>1, <3>2, RoomLookups DEF Remaining
        <3>4. room'[p].members = {u}
            BY <1>6, <2>2, RoomReplaced
        <3> QED  BY <1>3, <3>3, <3>4
    <2> QED  BY <1>6, <2>1, <2>2, RoomReplaced
<1>7. ASSUME NEW n, NEW t \in RoomNode, Enters(u, n, t)
      PROVE  Told(m, "has_joined", user[c].nickname)
    <2>1. p \in chatrooms /\ room'[p].members = IF p = t THEN room[p].members \cup {u}
                                                ELSE room[p].members
        BY <1>7, RoomEntered
    <2>2. p = t /\ c = u
        BY <1>3, <2>1
    <2>3. m # u
        BY <1>2, <1>3, <2>2
    <2> QED  BY <1>2, <1>7, <2>2, <2>3, Welcome DEF Enters
<1>8. ASSUME NEW n, NEW t \in RoomNode, NEW q \in RoomNode, Moves(u, n, t, q)
      PROVE  Told(m, "has_joined", user[c].nickname)
    <2>2. p = t /\ c = u
        BY <1>8, OneArrives
    <2>3. m # u
        BY <1>2, <1>3, <2>2
    <2> QED  BY <1>2, <1>8, <2>2, <2>3, Welcome DEF Moves
<1>9. ASSUME NEW q \in RoomNode, NEW n, Quits(u, n, q) \/ Goes(u, q)
       PROVE  FALSE
    BY <1>3, <1>9, RoomLeft DEF Quits, Goes, Remaining
<1> QED  BY <1>1, <1>4, <1>5, <1>6, <1>7, <1>8, <1>9
            DEF Kind, Aside, Broadcasts, Speaks, server_handle_broadcast_send_req, tables, rooms

(* Req3.9, arrivals: everybody in a room is told of one who enters it, for   *)
(* any number of users, rooms and requests.                                  *)
THEOREM RoomArrivals == RegSpec => ArrivalsAnnounced
<1> DEFINE Announced == \A r \in chatrooms \cap chatrooms' :
                           \A c \in room'[r].members \ room[r].members :
                              \A m \in Stays(r) : Told(m, "has_joined", user[c].nickname)
<1>1. IInv /\ [RegNext]_regvars => [Announced]_regvars
    BY StepArrivals
<1> QED  BY <1>1, RegistryInvariant, PTL DEF RegSpec, ArrivalsAnnounced

(* A user told of u's departure.                                             *)
LEMMA Goodbye ==
    ASSUME NEW u \in Conn, NEW r, NEW source, NEW type, NEW infos, NEW mine,
           NEW m \in Conn, m \in Remaining(r, u),
           \/ sent' = Sent(u, mine, HasQuit(u, r, source, type, infos))
           \/ sent' = SentTo(HasQuit(u, r, source, type, infos))
    PROVE  Told(m, "has_quit", user[u].nickname)
<1> DEFINE p == packet_init(source, type, infos, Say("has_quit", {user[u].nickname}))
<1>1. sent'[m] = <<p>>
    BY DEF Remaining, HasQuit, Sent, SentTo
<1>2. p.payload = Say("has_quit", {user[u].nickname})
    BY DEF packet_init
<1> HIDE DEF p
<1>3. 1 \in DOMAIN sent'[m] /\ sent'[m][1] = p
    BY <1>1
<1> QED  BY <1>2, <1>3 DEF Told

(* A user is in one room at most.                                            *)
LEMMA OneRoom ==
    ASSUME IInv, NEW u, NEW r \in server_get_chatroom_by_user(u), NEW p \in chatrooms,
           u \in room[p].members
    PROVE  p = r
BY RoomLookups DEF IInv, Consistent

(* A user who changes rooms is in the new one, and the others stay put.      *)
LEMMA OneLeaves ==
    ASSUME IInv, NEW u \in Conn, NEW n, NEW t \in RoomNode, NEW r \in RoomNode,
           Moves(u, n, t, r)
    PROVE  /\ t \in chatrooms \ {r} /\ u \in room'[t].members
           /\ \A p \in RoomsWithout(r, u) : Remaining(p, u) \subseteq room'[p].members
<1>1. RoomsWithout(r, u) \subseteq chatrooms
    BY DEF RoomsWithout
<1>2. t \in RoomsWithout(r, u) /\ r # t
    BY RoomChanged
<1>5. Gains(t, u)
    BY RoomChanged
<1>6. \A q \in RoomsWithout(r, u) : q = t \/ Loses(q, u)
    BY RoomChanged
<1>3. u \in room'[t].members
    BY <1>2, <1>5 DEF Gains
<1>4. \A p \in RoomsWithout(r, u) : Remaining(p, u) \subseteq room'[p].members
    BY <1>5, <1>6 DEF Remaining, Gains, Loses
<1> QED  BY <1>1, <1>2, <1>3, <1>4

(* Nobody but the user who leaves a room is missing from any that is left.   *)
LEMMA OneDeparts ==
    ASSUME IInv, NEW u \in Conn, NEW r \in RoomNode,
           \/ \E n \in RoomName, a \in RoomNode : Replaces(u, n, r, a)
           \/ \E n : \E t \in RoomNode : Moves(u, n, t, r)
           \/ \E n : Quits(u, n, r)
           \/ Goes(u, r)
    PROVE  \A p \in chatrooms \cap chatrooms' : \A c \in room[p].members \ room'[p].members :
              p = r /\ c = u
<1> SUFFICES ASSUME NEW p \in chatrooms \cap chatrooms',
                    NEW c \in room[p].members \ room'[p].members
             PROVE  p = r /\ c = u
    OBVIOUS
<1>1. r \in server_get_chatroom_by_user(u)
    BY DEF Replaces, Moves, Quits, Goes
<1>2. CASE c = u
    BY <1>1, <1>2, OneRoom
<1>3. CASE p \in RoomsWithout(r, u) /\ c # u
    <2>1. \A n \in RoomName, a \in RoomNode : Replaces(u, n, r, a)
                                                 => room'[p].members = Remaining(p, u)
        BY <1>3, RoomReplaced
    <2>2. \A n : \A t \in RoomNode :
             Moves(u, n, t, r) => Remaining(p, u) \subseteq room'[p].members
        BY <1>3, OneLeaves
    <2>3. \A n : Quits(u, n, r) \/ Goes(u, r) => room'[p].members = Remaining(p, u)
        BY <1>1, <1>3, RoomLeft DEF Quits, Goes
    <2> QED  BY <1>3, <2>1, <2>2, <2>3 DEF Remaining
<1>4. CASE p \notin RoomsWithout(r, u)
    <2>1. p = r /\ Remaining(r, u) = {}
        BY <1>1, <1>4, RoomLeft
    <2>2. room[p].members = {u}
        BY <1>1, <2>1, RoomLookups DEF Remaining
    <2> QED  BY <2>1, <2>2
<1> QED  BY <1>2, <1>3, <1>4

(* Everybody left in a room is told of one who leaves it, unless that one    *)
(* has gone to another room.                                                 *)
LEMMA StepDepartures ==
    ASSUME IInv, RegNext, NEW p \in chatrooms \cap chatrooms',
           NEW c \in room[p].members \ room'[p].members
    PROVE  Switches(c, p) \/ \A m \in Stays(p) : Told(m, "has_quit", user[c].nickname)
<1>1. PICK u \in Conn : Kind(u)
    BY StepKind
<1>2. c \in room[p].members /\ c \notin room'[p].members
    OBVIOUS
<1>3. CASE UNCHANGED room
    BY <1>2, <1>3
<1>4. ASSUME NEW n \in RoomName, NEW a \in RoomNode, Opens(u, n, a)
      PROVE  FALSE
    BY <1>2, <1>4, RoomOpened
<1>5. ASSUME NEW n, NEW t \in RoomNode, Enters(u, n, t)
      PROVE  FALSE
    BY <1>2, <1>5, RoomEntered
<1>6. ASSUME NEW r \in RoomNode, p = r /\ c = u
      PROVE  \A m \in Stays(p) : m \in Conn /\ m \in Remaining(r, u)
    BY <1>2, <1>6, MembersConnected DEF Stays, Remaining
<1>7. ASSUME NEW n \in RoomName, NEW r \in RoomNode, NEW a \in RoomNode, Replaces(u, n, r, a)
      PROVE  \A m \in Stays(p) : Told(m, "has_quit", user[c].nickname)
    <2>1. p = r /\ c = u
        BY <1>7, OneDeparts
    <2> QED  BY <1>6, <1>7, <2>1, Goodbye DEF Replaces
<1>8. ASSUME NEW n, NEW r \in RoomNode, Quits(u, n, r) \/ Goes(u, r)
      PROVE  \A m \in Stays(p) : Told(m, "has_quit", user[c].nickname)
    <2>1. p = r /\ c = u
        BY <1>8, OneDeparts
    <2> QED  BY <1>6, <1>8, <2>1, Goodbye DEF Quits, Goes
<1>9. ASSUME NEW n, NEW t \in RoomNode, NEW r \in RoomNode, Moves(u, n, t, r)
      PROVE  Switches(c, p)
    <2>1. p = r /\ c = u
        BY <1>9, OneDeparts
    <2>2. t \in chatrooms \ {r} /\ u \in room'[t].members
        BY <1>9, OneLeaves
    <2> QED  BY <2>1, <2>2 DEF Switches
<1> QED  BY <1>1, <1>3, <1>4, <1>5, <1>7, <1>8, <1>9
            DEF Kind, Aside, Broadcasts, Speaks, server_handle_broadcast_send_req, tables, rooms

(* Req3.9, departures: everybody left in a room is told of one who leaves it *)
(* by /quit, /create or a disconnection, for any number of users and rooms.  *)
THEOREM RoomDepartures == RegSpec => DeparturesAnnouncedUnlessSwitching
<1> DEFINE Announced == \A r \in chatrooms \cap chatrooms' :
                           \A c \in room[r].members \ room'[r].members :
                              Switches(c, r) \/ \A m \in Stays(r) :
                                 Told(m, "has_quit", user[c].nickname)
<1>1. IInv /\ [RegNext]_regvars => [Announced]_regvars
    BY StepDepartures
<1> QED  BY <1>1, RegistryInvariant, PTL DEF RegSpec, DeparturesAnnouncedUnlessSwitching

-----------------------------------------------------------------------------
(* The end of a room.                                                       *)

Tells(s, what, about) == \E k \in DOMAIN s : s[k].payload = Say(what, {about})
Unspoken(s) == \A k \in DOMAIN s : s[k].type \notin {"MULTICAST_SEND", "BROADCAST_SEND"}

(* What a quiet sequence does not say.                                       *)
LEMMA QuietSays ==
    ASSUME NEW s, AllQuiet(s)
    PROVE  Unspoken(s) /\ \A n : ~Tells(s, "destroyed", n)
BY DEF AllQuiet, Quiet, Unspoken, Tells, Say

(* A sequence says what its parts say.                                       *)
LEMMA SaysBoth ==
    ASSUME NEW s \in Seq(Packets), NEW t \in Seq(Packets)
    PROVE  /\ Unspoken(s \o t) <=> Unspoken(s) /\ Unspoken(t)
           /\ \A what, n : Tells(s \o t, what, n) <=> Tells(s, what, n) \/ Tells(t, what, n)
<1>1. /\ Len(s \o t) = Len(s) + Len(t)
      /\ \A k \in 1..Len(s) + Len(t) : (s \o t)[k] = IF k <= Len(s) THEN s[k] ELSE t[k - Len(s)]
      /\ Len(s) \in Nat /\ Len(t) \in Nat /\ s \o t \in Seq(Packets)
    BY ConcatProperties, LenProperties
<1>2. \A k \in DOMAIN s : k \in DOMAIN (s \o t) /\ (s \o t)[k] = s[k]
    BY <1>1
<1>3. \A k \in DOMAIN t : Len(s) + k \in DOMAIN (s \o t) /\ (s \o t)[Len(s) + k] = t[k]
    BY <1>1
<1>4. ASSUME NEW k \in DOMAIN (s \o t)
      PROVE  \/ k \in DOMAIN s /\ (s \o t)[k] = s[k]
             \/ k - Len(s) \in DOMAIN t /\ (s \o t)[k] = t[k - Len(s)]
    BY <1>1
<1> HIDE <1>1
<1> DEFINE st == s \o t
           l == Len(s)
<1>5. /\ \A k \in DOMAIN s : k \in DOMAIN st /\ st[k] = s[k]
      /\ \A k \in DOMAIN t : l + k \in DOMAIN st /\ st[l + k] = t[k]
      /\ \A k \in DOMAIN st : \/ k \in DOMAIN s /\ st[k] = s[k]
                              \/ k - l \in DOMAIN t /\ st[k] = t[k - l]
    BY <1>2, <1>3, <1>4
<1> HIDE DEF st, l
<1>6. Unspoken(st) <=> Unspoken(s) /\ Unspoken(t)
    BY ONLY <1>5 DEF Unspoken
<1>7. \A what, n : Tells(st, what, n) <=> Tells(s, what, n) \/ Tells(t, what, n)
    <2> SUFFICES ASSUME NEW what, NEW n
                 PROVE  Tells(st, what, n) <=> Tells(s, what, n) \/ Tells(t, what, n)
        OBVIOUS
    <2> DEFINE x == Say(what, {n})
    <2> HIDE DEF x
    <2>1. (\E k \in DOMAIN st : st[k].payload = x)
             <=> (\E k \in DOMAIN s : s[k].payload = x) \/ \E k \in DOMAIN t : t[k].payload = x
        BY ONLY <1>5
    <2> QED  BY <2>1 DEF Tells, x
<1> QED  BY <1>6, <1>7 DEF st

(* The user who leaves is told of the end of the room exactly when nobody    *)
(* remains in it.                                                            *)
LEMMA YouQuitSays ==
    ASSUME TypeOK, NEW r \in chatrooms, NEW u \in Conn, NEW type \in MessageTypes,
           type \notin {"MULTICAST_SEND", "BROADCAST_SEND"}, NEW infos \in Names
    PROVE  /\ YouQuit(u, r, type, infos) \in Seq(Packets)
           /\ Unspoken(YouQuit(u, r, type, infos))
           /\ \A n : Tells(YouQuit(u, r, type, infos), "destroyed", n)
                        <=> Deserted(r, u) /\ n = room[r].name
<1> DEFINE quit == FromServer(type, infos, "quit", {room[r].name})
           end == FromServer(type, infos, "destroyed", {room[r].name})
<1>1. /\ quit.type = type /\ quit.payload = Say("quit", {room[r].name})
      /\ end.type = type /\ end.payload = Say("destroyed", {room[r].name})
    BY DEF FromServer, packet_init
<1>2. quit \in Packets /\ end \in Packets
    <2>1. {room[r].name} \in SUBSET (Names \cup Body)
        BY RoomNameType DEF TypeOK
    <2> QED  BY <2>1, FromServerType DEF Says
<1> DEFINE last == IF Deserted(r, u) THEN <<end>> ELSE <<>>
<1>3. YouQuit(u, r, type, infos) = <<quit>> \o last
    BY DEF YouQuit
<1> HIDE DEF quit, end
<1>4. <<quit>> \in Seq(Packets) /\ last \in Seq(Packets)
    BY <1>2
<1>5. Unspoken(<<quit>>) /\ \A n : ~Tells(<<quit>>, "destroyed", n)
    BY <1>1 DEF Unspoken, Tells, Say
<1>6. Unspoken(<<end>>) /\ Unspoken(<<>>) /\ \A n : ~Tells(<<>>, "destroyed", n)
    BY <1>1 DEF Unspoken, Tells
<1>7. \A n : Tells(<<end>>, "destroyed", n) <=> n = room[r].name
    <2>1. \A n : Tells(<<end>>, "destroyed", n) <=> end.payload = Say("destroyed", {n})
        BY DEF Tells
    <2>2. \A n : Say("destroyed", {n}) = Say("destroyed", {room[r].name}) <=> n = room[r].name
        BY DEF Say
    <2> QED  BY <1>1, <2>1, <2>2
<1>8. Unspoken(last) /\ \A n : Tells(last, "destroyed", n) <=> Deserted(r, u) /\ n = room[r].name
    BY <1>6, <1>7
<1> HIDE DEF last
<1>9. /\ <<quit>> \o last \in Seq(Packets)
      /\ Unspoken(<<quit>> \o last)
      /\ \A n : Tells(<<quit>> \o last, "destroyed", n) <=> Tells(last, "destroyed", n)
    <2> DEFINE first == <<quit>>
    <2>1. first \in Seq(Packets) /\ Unspoken(first) /\ \A n : ~Tells(first, "destroyed", n)
        BY <1>4, <1>5
    <2> HIDE DEF first
    <2>2. first \o last \in Seq(Packets)
        BY <1>4, <2>1
    <2>3. /\ Unspoken(first \o last) <=> Unspoken(first) /\ Unspoken(last)
          /\ \A what, n : Tells(first \o last, what, n)
                             <=> Tells(first, what, n) \/ Tells(last, what, n)
        BY <1>4, <2>1, SaysBoth
    <2>4. Unspoken(first \o last)
        BY <1>8, <2>1, <2>3
    <2>5. \A n : Tells(first \o last, "destroyed", n) <=> Tells(last, "destroyed", n)
        BY <2>1, <2>3
    <2> QED  BY <2>2, <2>4, <2>5 DEF first
<1> QED  BY <1>3, <1>8, <1>9

(* The farewell of the user who leaves, and whatever else is quiet.          *)
LEMMA Farewell ==
    ASSUME TypeOK, NEW r \in chatrooms, NEW u \in Conn, NEW type \in MessageTypes,
           type \notin {"MULTICAST_SEND", "BROADCAST_SEND"}, NEW infos \in Names,
           NEW rest \in Seq(Packets), AllQuiet(rest),
           NEW others, \A c \in DOMAIN others : Quiet(others[c]),
           sent' = Sent(u, YouQuit(u, r, type, infos) \o rest, others)
    PROVE  \A c \in Conn :
              /\ Unspoken(sent'[c])
              /\ \A n : Told(c, "destroyed", n)
                           <=> c = u /\ Deserted(r, u) /\ n = room[r].name
<1>1. SUFFICES ASSUME NEW c \in Conn
               PROVE  /\ Unspoken(sent'[c])
                      /\ \A n : Tells(sent'[c], "destroyed", n)
                                   <=> c = u /\ Deserted(r, u) /\ n = room[r].name
    BY DEF Told, Tells
<1>2. CASE c = u
    <2>1. sent'[c] = YouQuit(u, r, type, infos) \o rest
        BY <1>2 DEF Sent
    <2>2. Unspoken(rest) /\ \A n : ~Tells(rest, "destroyed", n)
        BY QuietSays
    <2>3. YouQuit(u, r, type, infos) \in Seq(Packets)
        BY YouQuitSays
    <2>4. /\ Unspoken(sent'[c]) <=> Unspoken(YouQuit(u, r, type, infos)) /\ Unspoken(rest)
          /\ \A n : Tells(sent'[c], "destroyed", n)
                       <=> \/ Tells(YouQuit(u, r, type, infos), "destroyed", n)
                           \/ Tells(rest, "destroyed", n)
        BY <2>1, <2>3, SaysBoth
    <2> QED  BY <1>2, <2>2, <2>4, YouQuitSays
<1>3. CASE c # u
    <2>1. AllQuiet(sent'[c])
        <3>1. CASE c \in DOMAIN others
            <4>1. sent'[c] = <<others[c]>>
                BY <1>3, <3>1, WhatIsSent
            <4> QED  BY <3>1, <4>1 DEF AllQuiet
        <3>2. CASE c \notin DOMAIN others
            <4>1. sent'[c] = <<>>
                BY <1>3, <3>2, WhatIsSent
            <4> QED  BY <4>1 DEF AllQuiet
        <3> QED  BY <3>1, <3>2
    <2> QED  BY <1>3, <2>1, QuietSays
<1> QED  BY <1>2, <1>3

(* Notices of departures and arrivals are quiet.                             *)
LEMMA QuietNotices ==
    ASSUME NEW u, NEW r
    PROVE  \A infos : /\ Quiet(HasJoined(u, r, infos))
                      /\ \A c : Quiet(HasQuitMisnamed(c, r, infos))
                      /\ AllQuiet(Arrival(u, r, infos))
<1>1. \A infos : /\ Quiet(HasJoined(u, r, infos))
                 /\ \A c : Quiet(HasQuitMisnamed(c, r, infos))
    BY DEF HasJoined, HasQuitMisnamed, Quiet, packet_init, Say
<1>2. \A infos : Quiet(FromServer("MULTICAST_JOIN", infos, "joined", {infos}))
    BY DEF FromServer, Quiet, packet_init, Say
<1>3. \A infos : AllQuiet(Arrival(u, r, infos))
    BY <1>1, <1>2 DEF Arrival, AllQuiet
<1> QED  BY <1>1, <1>3

(* So is a notice of a departure.                                            *)
LEMMA QuietHasQuit ==
    ASSUME NEW u, NEW r, NEW source, NEW type, NEW infos,
           type \notin {"MULTICAST_SEND", "BROADCAST_SEND"}
    PROVE  \A c \in DOMAIN HasQuit(u, r, source, type, infos) :
              Quiet(HasQuit(u, r, source, type, infos)[c])
BY DEF HasQuit, Quiet, packet_init, Say

(* Whoever leaves a room by a request hears of its end, and nobody speaks.   *)
LEMMA LeaverTold ==
    ASSUME IInv, NEW u \in Conn, NEW r \in RoomNode,
           \/ \E n \in RoomName, a \in RoomNode : Replaces(u, n, r, a)
           \/ \E n \in RoomName \cup {Empty} : \E t \in RoomNode : Moves(u, n, t, r)
           \/ \E n \in RoomName : Quits(u, n, r)
    PROVE  \A c \in Conn :
              /\ Unspoken(sent'[c])
              /\ \A n : Told(c, "destroyed", n)
                           <=> c = u /\ Deserted(r, u) /\ n = room[r].name
<1>1. TypeOK /\ r \in chatrooms
    BY RoomLookups DEF IInv, Replaces, Moves, Quits
<1>2. \A n \in RoomName \cup {Empty} : n \in Names
    BY DEF Names
<1>3. {"MULTICAST_CREATE", "MULTICAST_JOIN", "MULTICAST_QUIT"} \subseteq MessageTypes
    BY DEF MessageTypes, RequestTypes
<1>4. ASSUME NEW n \in RoomName, NEW a \in RoomNode, Replaces(u, n, r, a)
      PROVE  \A c \in Conn :
                /\ Unspoken(sent'[c])
                /\ \A x : Told(c, "destroyed", x) <=> c = u /\ Deserted(r, u) /\ x = room[r].name
    <2> DEFINE created == FromServer("MULTICAST_CREATE", n, "created", {n})
               told == HasQuit(u, r, SERVERat(r), "MULTICAST_CREATE", n)
               mine == YouQuit(u, r, "MULTICAST_CREATE", n)
    <2>1. sent' = Sent(u, Append(mine, created), told)
        BY <1>4 DEF Replaces
    <2>2. mine \in Seq(Packets)
        BY <1>1, <1>2, <1>3, YouQuitSays
    <2>3. created \in Packets /\ Quiet(created)
        <3>1. created \in Packets
            BY <1>2, <1>3, FromServerType DEF Says, Names
        <3> QED  BY <3>1 DEF Quiet, FromServer, packet_init, Say
    <2>4. \A c \in DOMAIN told : Quiet(told[c])
        BY QuietHasQuit
    <2> HIDE DEF created, told, mine
    <2>5. <<created>> \in Seq(Packets) /\ AllQuiet(<<created>>)
        BY <2>3 DEF AllQuiet
    <2>6. Append(mine, created) = mine \o <<created>>
        BY <2>2, <2>3, AppendIsConcat
    <2>7. sent' = Sent(u, YouQuit(u, r, "MULTICAST_CREATE", n) \o <<created>>, told)
        BY <2>1, <2>6 DEF mine
    <2> DEFINE rest == <<created>>
    <2>8. /\ rest \in Seq(Packets) /\ AllQuiet(rest)
          /\ sent' = Sent(u, YouQuit(u, r, "MULTICAST_CREATE", n) \o rest, told)
        BY <2>5, <2>7
    <2> HIDE DEF rest
    <2> QED  BY <1>1, <1>2, <1>3, <2>4, <2>8, Farewell
<1>5. ASSUME NEW n \in RoomName \cup {Empty}, NEW t \in RoomNode, Moves(u, n, t, r)
      PROVE  \A c \in Conn :
                /\ Unspoken(sent'[c])
                /\ \A x : Told(c, "destroyed", x) <=> c = u /\ Deserted(r, u) /\ x = room[r].name
    <2> DEFINE rest == Arrival(u, t, n)
               told == [c \in room[t].members \cup Remaining(r, u) |->
                           IF c \in room[t].members THEN HasJoined(u, t, n)
                           ELSE HasQuitMisnamed(c, r, n)]
    <2>1. sent' = Sent(u, YouQuit(u, r, "MULTICAST_JOIN", n) \o rest, told)
        BY <1>5 DEF Moves
    <2>2. t \in chatrooms
        BY <1>5, RoomLookups DEF Moves
    <2>3. rest \in Seq(Packets) /\ AllQuiet(rest)
        BY <1>1, <1>2, <2>2, ArrivalType, QuietNotices
    <2>4. \A c \in DOMAIN told : Quiet(told[c])
        <3>1. Quiet(HasJoined(u, t, n)) /\ \A c : Quiet(HasQuitMisnamed(c, r, n))
            BY QuietNotices
        <3> QED  BY <3>1
    <2> HIDE DEF rest, told
    <2> QED  BY <1>1, <1>2, <1>3, <2>1, <2>3, <2>4, Farewell
<1>6. ASSUME NEW n \in RoomName, Quits(u, n, r)
      PROVE  \A c \in Conn :
                /\ Unspoken(sent'[c])
                /\ \A x : Told(c, "destroyed", x) <=> c = u /\ Deserted(r, u) /\ x = room[r].name
    <2> DEFINE told == HasQuit(u, r, SERVERat(r), "MULTICAST_QUIT", n)
               mine == YouQuit(u, r, "MULTICAST_QUIT", n)
    <2>1. sent' = Sent(u, mine, told)
        BY <1>6 DEF Quits
    <2>2. mine \in Seq(Packets)
        BY <1>1, <1>2, <1>3, YouQuitSays
    <2>3. \A c \in DOMAIN told : Quiet(told[c])
        BY QuietHasQuit
    <2> HIDE DEF told, mine
    <2>4. mine = mine \o <<>>
        BY <2>2, ConcatEmptySeq
    <2>5. <<>> \in Seq(Packets) /\ AllQuiet(<<>>)
        BY DEF AllQuiet
    <2>6. sent' = Sent(u, YouQuit(u, r, "MULTICAST_QUIT", n) \o <<>>, told)
        BY <2>1, <2>4 DEF mine
    <2> QED  BY <1>1, <1>2, <1>3, <2>3, <2>5, <2>6, Farewell
<1> QED  BY <1>4, <1>5, <1>6

(* Other steps report the end of no room, and only two kinds speak.          *)
LEMMA NoneTold ==
    ASSUME NEW u \in Conn,
           \/ Aside
           \/ \E n, a : Opens(u, n, a)
           \/ \E n, t : Enters(u, n, t)
           \/ \E r : Goes(u, r)
    PROVE  \A c \in Conn : Unspoken(sent'[c]) /\ \A n : ~Told(c, "destroyed", n)
<1>1. \A c \in Conn : AllQuiet(sent'[c])
    <2>1. CASE Aside
        BY <2>1 DEF Aside
    <2>2. ASSUME NEW n, NEW a, Opens(u, n, a)
          PROVE  \A c \in Conn : AllQuiet(sent'[c])
        BY <2>2, QuietReply DEF Opens
    <2>3. ASSUME NEW n, NEW t, Enters(u, n, t)
          PROVE  \A c \in Conn : AllQuiet(sent'[c])
        <3> DEFINE told == [c \in room[t].members |-> HasJoined(u, t, n)]
        <3>1. AllQuiet(Arrival(u, t, n)) /\ \A c \in DOMAIN told : Quiet(told[c])
            BY QuietNotices
        <3>2. sent' = Sent(u, Arrival(u, t, n), told)
            BY <2>3 DEF Enters
        <3> HIDE DEF told
        <3> QED  BY <3>1, <3>2, QuietSent
    <2>4. ASSUME NEW r, Goes(u, r)
          PROVE  \A c \in Conn : AllQuiet(sent'[c])
        <3> DEFINE told == HasQuit(u, r, SERVER, "DEFAULT", Empty)
        <3>1. \A c \in DOMAIN told : Quiet(told[c])
            BY QuietHasQuit
        <3>2. sent' = SentTo(told)
            BY <2>4 DEF Goes
        <3> HIDE DEF told
        <3> QED  BY <3>1, <3>2 DEF SentTo, AllQuiet
    <2> QED  BY <2>1, <2>2, <2>3, <2>4
<1> QED  BY <1>1, QuietSays DEF Told, Tells

GoneNames == {room[r].name : r \in chatrooms} \ {room'[t].name : t \in chatrooms'}

(* Rooms that are all still there, by name.                                  *)
LEMMA NoneGone ==
    ASSUME \A p \in chatrooms : p \in chatrooms' /\ room'[p].name = room[p].name
    PROVE  GoneNames = {}
BY DEF GoneNames

(* The name that goes when u leaves r is that of r, when nobody remains.     *)
LEMMA OneGone ==
    ASSUME IInv, NEW u \in Conn, NEW r \in RoomNode,
           \/ \E n \in RoomName, a \in RoomNode : Replaces(u, n, r, a)
           \/ \E n : \E t \in RoomNode : Moves(u, n, t, r)
           \/ \E n : Quits(u, n, r)
           \/ Goes(u, r)
    PROVE  \A p \in chatrooms : room[p].name \in GoneNames <=> p = r /\ Deserted(r, u)
<1>1. r \in server_get_chatroom_by_user(u)
    BY DEF Replaces, Moves, Quits, Goes
<1>2. \A p, q \in chatrooms : room[p].name = room[q].name => p = q
    BY DEF IInv, Consistent
<1>3. \A t \in RoomsWithout(r, u) : t \in chatrooms' /\ room'[t].name = room[t].name
    <2>1. ASSUME NEW n \in RoomName, NEW a \in RoomNode, Replaces(u, n, r, a)
          PROVE  \A t \in RoomsWithout(r, u) : t \in chatrooms' /\ room'[t].name = room[t].name
        BY <2>1, RoomReplaced
    <2>2. ASSUME NEW n, NEW t \in RoomNode, Moves(u, n, t, r)
          PROVE  \A q \in RoomsWithout(r, u) : q \in chatrooms' /\ room'[q].name = room[q].name
        BY <2>2, RoomChanged
    <2>3. ASSUME NEW n, Quits(u, n, r) \/ Goes(u, r)
          PROVE  \A t \in RoomsWithout(r, u) : t \in chatrooms' /\ room'[t].name = room[t].name
        BY <1>1, <2>3, RoomLeft DEF Quits, Goes
    <2> QED  BY <2>1, <2>2, <2>3
<1>4. \A t \in chatrooms' : \/ t \in RoomsWithout(r, u)
                            \/ \A p \in chatrooms : room[p].name # room'[t].name
    <2>1. ASSUME NEW n \in RoomName, NEW a \in RoomNode, Replaces(u, n, r, a)
          PROVE  \A t \in chatrooms' : \/ t \in RoomsWithout(r, u)
                                       \/ \A p \in chatrooms : room[p].name # room'[t].name
        <3>1. chatrooms' = RoomsWithout(r, u) \cup {a} /\ room'[a].name = n
            BY <2>1, RoomReplaced
        <3>2. \A p \in chatrooms : room[p].name # n
            BY <2>1 DEF Replaces, server_get_chatroom_by_name
        <3> QED  BY <3>1, <3>2
    <2> QED  BY <2>1 DEF Moves, Quits, Goes
<1>5. /\ RoomsWithout(r, u) \subseteq chatrooms /\ chatrooms \ {r} \subseteq RoomsWithout(r, u)
      /\ r \in RoomsWithout(r, u) <=> ~Deserted(r, u)
    BY <1>1, RoomLeft
<1> SUFFICES ASSUME NEW p \in chatrooms
             PROVE  room[p].name \in GoneNames <=> p = r /\ Deserted(r, u)
    OBVIOUS
<1>6. room[p].name \in GoneNames <=> \A t \in chatrooms' : room'[t].name # room[p].name
    BY DEF GoneNames
<1>7. CASE p \in RoomsWithout(r, u)
    BY <1>3, <1>5, <1>6, <1>7
<1>8. CASE p \notin RoomsWithout(r, u)
    <2>1. p = r /\ Deserted(r, u)
        BY <1>5, <1>8
    <2>2. ASSUME NEW t \in chatrooms', room'[t].name = room[p].name
          PROVE  FALSE
        <3>1. t \in RoomsWithout(r, u)
            BY <1>4, <2>2
        <3>2. t = p
            BY <1>2, <1>3, <1>5, <2>2, <3>1
        <3> QED  BY <1>8, <3>1, <3>2
    <2> QED  BY <1>6, <2>1, <2>2
<1> QED  BY <1>7, <1>8

-----------------------------------------------------------------------------
(* Messages.                                                                *)

(* A lookup of the nickname of a user who has logged in finds that user.     *)
LEMMA OwnName ==
    ASSUME IInv, NEW u \in users, user[u].is_logged_in
    PROVE  server_get_user_by_name(user[u].nickname) = {u}
BY DEF IInv, NicknamesUnique, server_get_user_by_name

BroadcastCopy(u, c, m) ==
    packet_init(<<IF c = u THEN "me" ELSE user[u].nickname, "all">>, "BROADCAST_SEND", Empty,
                Text(m))
RoomCopy(u, c, r, m) ==
    packet_init(<<IF c = u THEN "me" ELSE user[u].nickname, room[r].name>>, "MULTICAST_SEND",
                Empty, Text(m))

(* A message to all is one copy for each user.                               *)
LEMMA BroadcastSent ==
    ASSUME IInv, NEW u \in Conn, NEW m, Broadcasts(u, m)
    PROVE  /\ u \in users /\ UNCHANGED <<chatrooms, room>>
           /\ \A c \in users : sent'[c] = <<BroadcastCopy(u, c, m)>>
           /\ \A c \in Conn \ users : sent'[c] = <<>>
<1>1. /\ u \in users /\ user[u].is_logged_in /\ UNCHANGED <<chatrooms, room>>
      /\ "BROADCAST_SEND" # "NICKNAME_NEW"
    BY DEF Broadcasts, server_handle_broadcast_send_req, Request, tables, rooms
<1>2. server_get_user_by_name(user[u].nickname) = {u} /\ Cardinality({u}) = 1
    BY <1>1, OwnName, FS_Singleton
<1> DEFINE copy(who) == packet_init(<<who, "all">>, "BROADCAST_SEND", Empty, Text(m))
<1>3. sent' = Sent(u, [k \in 1..1 |-> copy("me")],
                   [c \in users \ {u} |-> copy(user[u].nickname)])
    BY <1>2 DEF Broadcasts, server_handle_broadcast_send_req
<1>4. copy("me") = BroadcastCopy(u, u, m)
      /\ \A c \in users \ {u} : copy(user[u].nickname) = BroadcastCopy(u, c, m)
    BY DEF BroadcastCopy
<1>5. [k \in 1..1 |-> copy("me")] = <<copy("me")>>
    OBVIOUS
<1> HIDE DEF copy
<1>6. sent'[u] = <<BroadcastCopy(u, u, m)>>
    BY <1>3, <1>4, <1>5, WhatIsSent
<1>7. users \subseteq Conn
    BY DEF IInv, TypeOK
<1> DEFINE told == [c \in users \ {u} |-> copy(user[u].nickname)]
<1>8. \A c \in users \ {u} : c \in DOMAIN told /\ told[c] = BroadcastCopy(u, c, m)
    BY <1>4
<1>9. DOMAIN told = users \ {u}
    OBVIOUS
<1> HIDE DEF told
<1>10. sent' = Sent(u, [k \in 1..1 |-> copy("me")], told)
    BY <1>3 DEF told
<1>11. \A c \in users \ {u} : sent'[c] = <<BroadcastCopy(u, c, m)>>
    BY <1>7, <1>8, <1>10, WhatIsSent
<1>12. \A c \in Conn \ users : sent'[c] = <<>>
    BY <1>1, <1>9, <1>10, WhatIsSent
<1> QED  BY <1>1, <1>6, <1>11, <1>12

(* A message in a room is one copy for each user in it.                      *)
LEMMA SpeechSent ==
    ASSUME IInv, NEW u \in Conn, NEW r, NEW m, Speaks(u, r, m)
    PROVE  /\ r \in chatrooms /\ u \in room[r].members /\ UNCHANGED <<chatrooms, room>>
           /\ room[r].members \subseteq Conn
           /\ \A c \in room[r].members : sent'[c] = <<RoomCopy(u, c, r, m)>>
           /\ \A c \in Conn \ room[r].members : sent'[c] = <<>>
<1>1. /\ r \in chatrooms /\ u \in room[r].members /\ UNCHANGED <<chatrooms, room>>
      /\ u \in users /\ user[u].is_logged_in /\ sent' = ToRoom(u, r, m)
    BY RoomLookups DEF Speaks
<1>2. room[r].members \subseteq users /\ users \subseteq Conn
    BY <1>1, MembersConnected
<1>3. \A c \in users : user[c].nickname = user[u].nickname <=> c = u
    BY <1>1 DEF IInv, NicknamesUnique
<1>4. \A c \in room[r].members : sent'[c] = <<RoomCopy(u, c, r, m)>>
    BY <1>1, <1>2, <1>3 DEF ToRoom, RoomCopy
<1>5. \A c \in Conn \ room[r].members : sent'[c] = <<>>
    BY <1>1 DEF ToRoom
<1> QED  BY <1>1, <1>2, <1>4, <1>5

-----------------------------------------------------------------------------
(* The three properties of who is told what.                                *)

(* A room is reported destroyed to its last user, and only then.             *)
LEMMA StepLastUser ==
    ASSUME IInv, RegNext, NEW c \in users', c \in Conn, NEW n \in RoomName
    PROVE  Told(c, "destroyed", n) <=>
              \E r \in chatrooms : /\ room[r].name = n
                                   /\ n \in GoneNames
                                   /\ room[r].members = {c}
<1>1. PICK u \in Conn : Kind(u)
    BY StepKind
<1>2. CASE ~Told(c, "destroyed", n) /\ GoneNames = {}
    BY <1>2
<1>3. CASE Aside
    BY <1>2, <1>3, NoneTold, NoneGone DEF Aside
<1>4. ASSUME NEW m \in Body, Broadcasts(u, m) \/ \E r \in RoomNode : Speaks(u, r, m)
      PROVE  ~Told(c, "destroyed", n) /\ GoneNames = {}
    <2>1. \A k \in DOMAIN sent'[c] : sent'[c][k].payload = Text(m)
        <3>1. \A d : /\ BroadcastCopy(u, d, m).payload = Text(m)
                     /\ \A r : RoomCopy(u, d, r, m).payload = Text(m)
            BY DEF BroadcastCopy, RoomCopy, packet_init
        <3>2. CASE Broadcasts(u, m)
            <4>1. sent'[c] \in {<<>>, <<BroadcastCopy(u, c, m)>>}
                BY <3>2, BroadcastSent
            <4> QED  BY <3>1, <4>1
        <3>3. CASE \E r \in RoomNode : Speaks(u, r, m)
            <4>1. \E r : sent'[c] \in {<<>>, <<RoomCopy(u, c, r, m)>>}
                BY <3>3, SpeechSent
            <4> QED  BY <3>1, <4>1
        <3> QED  BY <1>4, <3>2, <3>3
    <2>2. Text(m) # Say("destroyed", {n})
        BY DEF Text, Say
    <2>3. UNCHANGED <<chatrooms, room>>
        BY <1>4 DEF Broadcasts, server_handle_broadcast_send_req, Speaks, tables, rooms
    <2> QED  BY <2>1, <2>2, <2>3, NoneGone DEF Told
<1>5. ASSUME NEW x \in RoomName, NEW a \in RoomNode, Opens(u, x, a)
      PROVE  ~Told(c, "destroyed", n) /\ GoneNames = {}
    <2>1. \A p \in chatrooms : p \in chatrooms' /\ room'[p].name = room[p].name
        BY <1>5, RoomOpened
    <2> QED  BY <1>5, <2>1, NoneTold, NoneGone
<1>6. ASSUME NEW x, NEW t \in RoomNode, Enters(u, x, t)
      PROVE  ~Told(c, "destroyed", n) /\ GoneNames = {}
    <2>1. \A p \in chatrooms : p \in chatrooms' /\ room'[p].name = room[p].name
        BY <1>6, RoomEntered
    <2> QED  BY <1>6, <2>1, NoneTold, NoneGone
<1>7. ASSUME NEW r \in RoomNode, r \in server_get_chatroom_by_user(u)
      PROVE  /\ r \in chatrooms
             /\ Deserted(r, u) <=> room[r].members = {u}
             /\ \A d : Deserted(r, u) /\ room[r].members = {d} => d = u
    <2>1. r \in chatrooms /\ u \in room[r].members
        BY <1>7, RoomLookups
    <2>2. Deserted(r, u) <=> Remaining(r, u) = {}
        BY <1>7, RoomLeft
    <2> QED  BY <2>1, <2>2 DEF Remaining
<1>8. ASSUME NEW r \in RoomNode, r \in server_get_chatroom_by_user(u),
             \A p \in chatrooms : room[p].name \in GoneNames <=> p = r /\ Deserted(r, u)
      PROVE  (\E p \in chatrooms : room[p].name = n /\ n \in GoneNames /\ room[p].members = {c})
                <=> c = u /\ Deserted(r, u) /\ n = room[r].name
    BY <1>7, <1>8
<1>9. ASSUME NEW r \in RoomNode,
             \/ \E x \in RoomName, a \in RoomNode : Replaces(u, x, r, a)
             \/ \E x \in RoomName \cup {Empty} : \E t \in RoomNode : Moves(u, x, t, r)
             \/ \E x \in RoomName : Quits(u, x, r)
      PROVE  Told(c, "destroyed", n) <=>
                \E p \in chatrooms : room[p].name = n /\ n \in GoneNames /\ room[p].members = {c}
    <2>1. Told(c, "destroyed", n) <=> c = u /\ Deserted(r, u) /\ n = room[r].name
        BY <1>9, LeaverTold
    <2>2. \A p \in chatrooms : room[p].name \in GoneNames <=> p = r /\ Deserted(r, u)
        BY <1>9, OneGone
    <2>3. r \in server_get_chatroom_by_user(u)
        BY <1>9 DEF Replaces, Moves, Quits
    <2> QED  BY <1>8, <2>1, <2>2, <2>3
<1>10. ASSUME NEW r \in RoomNode, Goes(u, r)
       PROVE  Told(c, "destroyed", n) <=>
                \E p \in chatrooms : room[p].name = n /\ n \in GoneNames /\ room[p].members = {c}
    <2>1. ~Told(c, "destroyed", n)
        BY <1>10, NoneTold
    <2>2. \A p \in chatrooms : room[p].name \in GoneNames <=> p = r /\ Deserted(r, u)
        BY <1>10, OneGone
    <2>3. r \in server_get_chatroom_by_user(u) /\ c # u
        BY <1>10 DEF Goes
    <2> QED  BY <1>8, <2>1, <2>2, <2>3
<1> QED  BY <1>1, <1>2, <1>3, <1>4, <1>5, <1>6, <1>9, <1>10 DEF Kind

(* Req3.7: a room is destroyed when its last user leaves it, and that user,  *)
(* if still connected, and nobody else, is told.                             *)
THEOREM RoomLastUser == RegSpec => LastUserTold
<1> DEFINE Last == LET Gone == {room[r].name : r \in chatrooms} \ {room'[t].name : t \in chatrooms'}
                   IN  \A c \in users', n \in RoomName :
                          Told(c, "destroyed", n) <=>
                             \E r \in chatrooms : /\ room[r].name = n
                                                  /\ n \in Gone
                                                  /\ room[r].members = {c}
<1>1. IInv /\ [RegNext]_regvars => [Last]_regvars
    <2> SUFFICES ASSUME IInv, RegNext PROVE Last
        OBVIOUS
    <2>1. users' \subseteq Conn
        BY StepType DEF IInv, TypeOK
    <2> QED  BY <2>1, StepLastUser DEF GoneNames
<1> QED  BY <1>1, RegistryInvariant, PTL DEF RegSpec, LastUserTold

(* The steps that are neither a message to all nor one to a room.            *)
LEMMA NobodySpeaks ==
    ASSUME IInv, NEW u \in Conn, Kind(u),
           \A m \in Body : ~Broadcasts(u, m) /\ \A r \in RoomNode : ~Speaks(u, r, m)
    PROVE  \A c \in Conn : Unspoken(sent'[c])
<1>1. ASSUME NEW r \in RoomNode,
             \/ \E n \in RoomName, a \in RoomNode : Replaces(u, n, r, a)
             \/ \E n \in RoomName \cup {Empty} : \E t \in RoomNode : Moves(u, n, t, r)
             \/ \E n \in RoomName : Quits(u, n, r)
      PROVE  \A c \in Conn : Unspoken(sent'[c])
    BY <1>1, LeaverTold
<1>2. CASE \/ Aside
           \/ \E n, a : Opens(u, n, a)
           \/ \E n, t : Enters(u, n, t)
           \/ \E r : Goes(u, r)
    BY <1>2, NoneTold
<1> QED  BY <1>1, <1>2 DEF Kind

(* A message in a room reaches the users in it, each once, and nobody else.  *)
LEMMA StepMessages ==
    ASSUME IInv, RegNext
    PROVE  \/ \A c \in Conn : ~Hears(c)
           \/ \E r \in chatrooms :
                 /\ \A c \in Conn : Hears(c) <=> c \in room[r].members
                 /\ \A c \in room[r].members :
                       Len(sent'[c]) = 1 /\ sent'[c][1].from[2] = room[r].name
                 /\ \E s \in room[r].members : \A c \in room[r].members :
                       sent'[c][1].from[1] = IF c = s THEN "me" ELSE user[s].nickname
<1>1. PICK u \in Conn : Kind(u)
    BY StepKind
<1>2. CASE \A c \in Conn : Unspoken(sent'[c])
    BY <1>2 DEF Unspoken, Hears, Copies
<1>3. ASSUME NEW m \in Body, Broadcasts(u, m)
      PROVE  \A c \in Conn : ~Hears(c)
    <2>1. \A c \in Conn : sent'[c] \in {<<>>, <<BroadcastCopy(u, c, m)>>}
        BY <1>3, BroadcastSent
    <2>2. \A c : BroadcastCopy(u, c, m).type # "MULTICAST_SEND"
        BY DEF BroadcastCopy, packet_init
    <2> QED  BY <2>1, <2>2 DEF Hears, Copies
<1>4. ASSUME NEW m \in Body, NEW r \in RoomNode, Speaks(u, r, m)
      PROVE  /\ r \in chatrooms
             /\ \A c \in Conn : Hears(c) <=> c \in room[r].members
             /\ \A c \in room[r].members :
                   Len(sent'[c]) = 1 /\ sent'[c][1].from[2] = room[r].name
             /\ \E s \in room[r].members : \A c \in room[r].members :
                   sent'[c][1].from[1] = IF c = s THEN "me" ELSE user[s].nickname
    <2>1. /\ r \in chatrooms /\ u \in room[r].members
          /\ \A c \in room[r].members : sent'[c] = <<RoomCopy(u, c, r, m)>>
          /\ \A c \in Conn \ room[r].members : sent'[c] = <<>>
        BY <1>4, SpeechSent
    <2>2. \A c : /\ RoomCopy(u, c, r, m).type = "MULTICAST_SEND"
                 /\ RoomCopy(u, c, r, m).from = <<IF c = u THEN "me" ELSE user[u].nickname,
                                                 room[r].name>>
        BY DEF RoomCopy, packet_init
    <2>3. \A c \in room[r].members : Len(sent'[c]) = 1 /\ sent'[c][1] = RoomCopy(u, c, r, m)
        <3> SUFFICES ASSUME NEW c \in room[r].members
                     PROVE  Len(sent'[c]) = 1 /\ sent'[c][1] = RoomCopy(u, c, r, m)
            OBVIOUS
        <3> DEFINE p == RoomCopy(u, c, r, m)
                   s == sent'[c]
        <3>1. s = <<p>>
            BY <2>1
        <3> HIDE DEF p, s
        <3>2. Len(s) = 1 /\ s[1] = p
            BY <3>1
        <3> QED  BY <3>2 DEF p, s
    <2>4. \A c \in Conn : Hears(c) <=> c \in room[r].members
        <3>1. ASSUME NEW c \in room[r].members PROVE Hears(c)
            <4>1. 1 \in DOMAIN sent'[c] /\ sent'[c][1].type = "MULTICAST_SEND"
                BY <2>1, <2>2
            <4> QED  BY <4>1 DEF Hears, Copies
        <3>2. ASSUME NEW c \in Conn \ room[r].members PROVE ~Hears(c)
            BY <2>1 DEF Hears, Copies
        <3> QED  BY <3>1, <3>2
    <2>5. \A c \in room[r].members : sent'[c][1].from[2] = room[r].name
        BY <2>2, <2>3
    <2>6. \A c \in room[r].members :
             sent'[c][1].from[1] = IF c = u THEN "me" ELSE user[u].nickname
        BY <2>2, <2>3
    <2> QED  BY <2>1, <2>3, <2>4, <2>5, <2>6
<1>5. CASE \A m \in Body : ~Broadcasts(u, m) /\ \A r \in RoomNode : ~Speaks(u, r, m)
    BY <1>1, <1>2, <1>5, NobodySpeaks
<1> QED  BY <1>3, <1>4, <1>5

(* Req3.8: a message in a room reaches every user in it once, and nobody     *)
(* else, and only the speaker reads "me".                                    *)
THEOREM RoomMessages == RegSpec => MessagesStayInTheRoom
<1> DEFINE Heard == \/ \A c \in Conn : ~Hears(c)
                    \/ \E r \in chatrooms :
                          /\ \A c \in Conn : Hears(c) <=> c \in room[r].members
                          /\ \A c \in room[r].members :
                                Len(sent'[c]) = 1 /\ sent'[c][1].from[2] = room[r].name
                          /\ \E s \in room[r].members : \A c \in room[r].members :
                                sent'[c][1].from[1] = IF c = s THEN "me" ELSE user[s].nickname
<1>1. IInv /\ [RegNext]_regvars => [Heard]_regvars
    BY StepMessages
<1> QED  BY <1>1, RegistryInvariant, PTL DEF RegSpec, MessagesStayInTheRoom

(* A message to all reaches each user but the sender once.                   *)
LEMMA StepBroadcast ==
    ASSUME IInv, RegNext, \E c \in Conn : Copies(c, "BROADCAST_SEND") # {}
    PROVE  \E s \in users : \A c \in Conn \ {s} :
              /\ Cardinality(Copies(c, "BROADCAST_SEND")) = IF c \in users THEN 1 ELSE 0
              /\ \A k \in Copies(c, "BROADCAST_SEND") :
                    sent'[c][k].from[1] = user[s].nickname
<1>1. PICK u \in Conn : Kind(u)
    BY StepKind
<1>2. CASE \A c \in Conn : Unspoken(sent'[c])
    BY <1>2 DEF Unspoken, Copies
<1>3. ASSUME NEW m \in Body, NEW r \in RoomNode, Speaks(u, r, m)
      PROVE  FALSE
    <2>1. \A c \in Conn : sent'[c] = <<>> \/ sent'[c] = <<RoomCopy(u, c, r, m)>>
        <3>1. \A c \in room[r].members : sent'[c] = <<RoomCopy(u, c, r, m)>>
            BY <1>3, SpeechSent
        <3>2. \A c \in Conn \ room[r].members : sent'[c] = <<>>
            BY <1>3, SpeechSent
        <3> QED  BY <3>1, <3>2
    <2>2. \A c : RoomCopy(u, c, r, m).type # "BROADCAST_SEND"
        BY DEF RoomCopy, packet_init
    <2> QED  BY <2>1, <2>2 DEF Copies
<1>4. ASSUME NEW m \in Body, Broadcasts(u, m), NEW c \in Conn \ {u}
      PROVE  /\ Cardinality(Copies(c, "BROADCAST_SEND")) = IF c \in users THEN 1 ELSE 0
             /\ \A k \in Copies(c, "BROADCAST_SEND") :
                   sent'[c][k].from[1] = user[u].nickname
    <2>1. /\ BroadcastCopy(u, c, m).type = "BROADCAST_SEND"
          /\ BroadcastCopy(u, c, m).from[1] = user[u].nickname
        BY DEF BroadcastCopy, packet_init
    <2>2. CASE c \in users
        <3>1. sent'[c] = <<BroadcastCopy(u, c, m)>>
            BY <1>4, <2>2, BroadcastSent
        <3>2. Copies(c, "BROADCAST_SEND") = {1}
            BY <2>1, <3>1 DEF Copies
        <3>3. sent'[c][1] = BroadcastCopy(u, c, m)
            BY <3>1
        <3>4. Cardinality(Copies(c, "BROADCAST_SEND")) = 1
            BY <3>2, FS_Singleton
        <3>5. \A k \in Copies(c, "BROADCAST_SEND") : sent'[c][k] = BroadcastCopy(u, c, m)
            BY <3>2, <3>3
        <3> QED  BY <2>1, <2>2, <3>4, <3>5
    <2>3. CASE c \notin users
        <3>1. sent'[c] = <<>>
            BY <1>4, <2>3, BroadcastSent
        <3>2. Copies(c, "BROADCAST_SEND") = {}
            BY <3>1 DEF Copies
        <3> QED  BY <2>3, <3>2, FS_EmptySet
    <2> QED  BY <2>2, <2>3
<1>5. CASE \A m \in Body : ~Broadcasts(u, m) /\ \A r \in RoomNode : ~Speaks(u, r, m)
    BY <1>1, <1>2, <1>5, NobodySpeaks
<1>6. ASSUME NEW m \in Body, Broadcasts(u, m) PROVE u \in users
    BY <1>6, BroadcastSent
<1> QED  BY <1>3, <1>4, <1>5, <1>6

(* Req2.7: a message to all reaches each connected user but its sender once, *)
(* signed by the sender.                                                     *)
THEOREM RegistryBroadcasts == RegSpec => BroadcastsReachOthersOnce
<1> DEFINE Reach == (\E c \in Conn : Copies(c, "BROADCAST_SEND") # {}) =>
          \E s \in users : \A c \in Conn \ {s} :
             /\ Cardinality(Copies(c, "BROADCAST_SEND")) = IF c \in users THEN 1 ELSE 0
             /\ \A k \in Copies(c, "BROADCAST_SEND") :
                   sent'[c][k].from[1] = user[s].nickname
<1>1. IInv /\ [RegNext]_regvars => [Reach]_regvars
    BY StepBroadcast
<1> QED  BY <1>1, RegistryInvariant, PTL DEF RegSpec, BroadcastsReachOthersOnce

-----------------------------------------------------------------------------
(* The server implements RoomService.  A room on the list has a name that   *)
(* passes the checks of the client: Consistent says nothing of names but    *)
(* that they differ.                                                        *)

RoomsNamed == \A r \in chatrooms : room[r].name \in RoomName

(* Rooms keep their names, and a new one has the name asked for.             *)
LEMMA StepNamed ==
    ASSUME IInv, RoomsNamed, [RegNext]_regvars
    PROVE  RoomsNamed'
<1>1. CASE UNCHANGED <<chatrooms, room>>
    BY <1>1 DEF RoomsNamed
<1>2. ASSUME NEW u \in Conn, Kind(u)
      PROVE  RoomsNamed'
    <2>1. ASSUME NEW n \in RoomName, NEW a \in RoomNode, Opens(u, n, a)
          PROVE  RoomsNamed'
        BY <2>1, RoomOpened DEF RoomsNamed
    <2>2. ASSUME NEW r \in RoomNode, r \in server_get_chatroom_by_user(u)
          PROVE  RoomsWithout(r, u) \subseteq chatrooms
        BY DEF RoomsWithout
    <2>3. ASSUME NEW n \in RoomName, NEW r \in RoomNode, NEW a \in RoomNode, Replaces(u, n, r, a)
          PROVE  RoomsNamed'
        BY <2>2, <2>3, RoomReplaced DEF RoomsNamed
    <2>4. ASSUME NEW n, NEW t \in RoomNode, Enters(u, n, t)
          PROVE  RoomsNamed'
        BY <2>4, RoomEntered DEF RoomsNamed
    <2>5. ASSUME NEW n, NEW t \in RoomNode, NEW r \in RoomNode, Moves(u, n, t, r)
          PROVE  RoomsNamed'
        BY <2>2, <2>5, RoomChanged DEF RoomsNamed
    <2>6. ASSUME NEW n, NEW r \in RoomNode, Quits(u, n, r) \/ Goes(u, r)
          PROVE  RoomsNamed'
        BY <2>6, RoomLeft DEF RoomsNamed, Quits, Goes
    <2>7. ASSUME NEW m \in Body, Broadcasts(u, m) \/ \E r \in RoomNode : Speaks(u, r, m)
          PROVE  RoomsNamed'
        BY <1>1, <2>7, BroadcastSent, SpeechSent
    <2> QED  BY <1>1, <1>2, <2>1, <2>3, <2>4, <2>5, <2>6, <2>7 DEF Kind, Aside
<1> QED  BY <1>1, <1>2, StepKind DEF regvars, tables, rooms

InRoom(C, R, c, n) == \E r \in C : c \in R[r].members /\ R[r].name = n

(* Where a connection is, by the lists.                                      *)
LEMMA WhereIs ==
    \A c \in Conn : \A n : n \in where[c] <=> InRoom(chatrooms, room, c, n)
BY DEF where, InRoom, server_get_chatroom_by_user

(* A user goes to a room or to none, and everybody else stays.               *)
LEMMA Relocated ==
    ASSUME NEW u \in Conn, NEW N,
           \A c \in Conn : \A n : InRoom(chatrooms', room', c, n)
                                 <=> IF c = u THEN n \in N ELSE InRoom(chatrooms, room, c, n)
    PROVE  where' = [where EXCEPT ![u] = N]
<1>1. \A c \in Conn : \A n : n \in where'[c] <=> IF c = u THEN n \in N ELSE n \in where[c]
    <2>1. \A c \in Conn : \A n : n \in where'[c] <=> InRoom(chatrooms', room', c, n)
        BY DEF where, InRoom, server_get_chatroom_by_user
    <2> QED  BY <2>1, WhereIs
<1>2. where'[u] = N
    BY <1>1
<1>3. \A c \in Conn \ {u} : where'[c] = where[c]
    BY <1>1
<1>4. DOMAIN where = Conn /\ DOMAIN where' = Conn /\ where = [c \in DOMAIN where |-> where[c]]
      /\ where' = [c \in DOMAIN where' |-> where'[c]]
    BY DEF where
<1> QED  BY <1>2, <1>3, <1>4

(* What RoomService says of the rooms, by the lists.                         *)
LEMMA ServiceRooms ==
    \A n : n \in Service!Rooms <=> \E c \in Conn : InRoom(chatrooms, room, c, n)
BY WhereIs DEF Service!Rooms

(* A user in no room opens one.                                              *)
LEMMA OpensWhere ==
    ASSUME IInv, NEW u \in Conn, NEW n \in RoomName, NEW a \in RoomNode, Opens(u, n, a)
    PROVE  where' = [where EXCEPT ![u] = {n}]
<1>1. \A r \in chatrooms : u \notin room[r].members
    BY DEF Opens, server_get_chatroom_by_user
<1>2. \A c \in Conn : \A x : InRoom(chatrooms', room', c, x)
                            <=> IF c = u THEN x \in {n} ELSE InRoom(chatrooms, room, c, x)
    BY <1>1, RoomOpened DEF InRoom
<1> QED  BY <1>2, Relocated

(* A user in no room enters one.                                             *)
LEMMA EntersWhere ==
    ASSUME IInv, NEW u \in Conn, NEW n, NEW t \in RoomNode, Enters(u, n, t)
    PROVE  where' = [where EXCEPT ![u] = {n}]
<1>1. \A r \in chatrooms : u \notin room[r].members
    BY DEF Enters, server_get_chatroom_by_user
<1>2. \A c \in Conn : \A x : InRoom(chatrooms', room', c, x)
                            <=> IF c = u THEN x \in {n} ELSE InRoom(chatrooms, room, c, x)
    <2>1. t \in chatrooms /\ room[t].name = n /\ chatrooms' = chatrooms
        BY RoomEntered
    <2>2. \A q \in chatrooms : room'[q].name = room[q].name
        BY RoomEntered
    <2>3. \A q \in chatrooms : \A c :
             c \in room'[q].members <=> c \in room[q].members \/ (q = t /\ c = u)
        <3>1. \A q \in chatrooms : room'[q].members = IF q = t THEN room[q].members \cup {u}
                                                      ELSE room[q].members
            BY RoomEntered
        <3> QED  BY <3>1
    <2> QED  BY <1>1, <2>1, <2>2, <2>3 DEF InRoom
<1> QED  BY <1>2, Relocated

(* Whoever is in a room with somebody who leaves it stays in it.             *)
LEMMA OthersStay ==
    ASSUME IInv, NEW u \in Conn, NEW r \in server_get_chatroom_by_user(u)
    PROVE  \A p \in chatrooms : \A c \in room[p].members : c # u => p \in RoomsWithout(r, u)
BY RoomLeft DEF Remaining

(* A user leaves a room and opens another.                                   *)
LEMMA ReplacesWhere ==
    ASSUME IInv, NEW u \in Conn, NEW n \in RoomName, NEW r \in RoomNode, NEW a \in RoomNode,
           Replaces(u, n, r, a)
    PROVE  where' = [where EXCEPT ![u] = {n}]
<1>1. /\ r \in server_get_chatroom_by_user(u)
      /\ a \notin RoomsWithout(r, u) /\ chatrooms' = RoomsWithout(r, u) \cup {a}
      /\ room'[a].name = n /\ room'[a].members = {u}
    BY RoomReplaced
<1>2. \A t \in RoomsWithout(r, u) :
         room'[t].name = room[t].name /\ room'[t].members = Remaining(t, u)
    BY RoomReplaced
<1>3. RoomsWithout(r, u) \subseteq chatrooms
    BY DEF RoomsWithout
<1>4. \A p \in chatrooms : \A c \in room[p].members : c # u => p \in RoomsWithout(r, u)
    BY <1>1, OthersStay
<1>5. \A c \in Conn : \A x : InRoom(chatrooms', room', c, x)
                            <=> IF c = u THEN x \in {n} ELSE InRoom(chatrooms, room, c, x)
    <2> SUFFICES ASSUME NEW c \in Conn, NEW x
                 PROVE  InRoom(chatrooms', room', c, x)
                           <=> IF c = u THEN x \in {n} ELSE InRoom(chatrooms, room, c, x)
        OBVIOUS
    <2>1. CASE c = u
        BY <1>1, <1>2, <2>1 DEF InRoom, Remaining
    <2>2. CASE c # u
        <3>1. InRoom(chatrooms', room', c, x) => InRoom(chatrooms, room, c, x)
            BY <1>1, <1>2, <1>3, <2>2 DEF InRoom, Remaining
        <3>2. ASSUME NEW p \in chatrooms, c \in room[p].members, room[p].name = x
              PROVE  InRoom(chatrooms', room', c, x)
            <4>1. p \in RoomsWithout(r, u) /\ c \in Remaining(p, u)
                BY <1>4, <2>2, <3>2 DEF Remaining
            <4> QED  BY <1>1, <1>2, <3>2, <4>1 DEF InRoom
        <3> QED  BY <2>2, <3>1, <3>2 DEF InRoom
    <2> QED  BY <2>1, <2>2
<1> QED  BY <1>5, Relocated

(* A user leaves a room for another.                                         *)
LEMMA MovesWhere ==
    ASSUME IInv, NEW u \in Conn, NEW n, NEW t \in RoomNode, NEW r \in RoomNode,
           Moves(u, n, t, r)
    PROVE  where' = [where EXCEPT ![u] = {n}]
<1>1. /\ r \in server_get_chatroom_by_user(u) /\ r # t
      /\ t \in RoomsWithout(r, u) /\ room[t].name = n
      /\ chatrooms' = RoomsWithout(r, u) /\ Gains(t, u)
    BY RoomChanged
<1>2. \A q \in RoomsWithout(r, u) : room'[q].name = room[q].name /\ (q = t \/ Loses(q, u))
    BY RoomChanged
<1>3. RoomsWithout(r, u) \subseteq chatrooms
    BY DEF RoomsWithout
<1>4. \A p \in chatrooms : \A c \in room[p].members : c # u => p \in RoomsWithout(r, u)
    BY <1>1, OthersStay
<1>5. \A q \in RoomsWithout(r, u) : \A c :
         c \in room'[q].members <=> IF c = u THEN q = t ELSE c \in room[q].members
    <2>1. \A c : c \in room'[t].members <=> c = u \/ c \in room[t].members
        BY <1>1 DEF Gains
    <2>2. \A q \in RoomsWithout(r, u) : q # t =>
             \A c : c \in room'[q].members <=> c # u /\ c \in room[q].members
        BY <1>2 DEF Loses, Remaining
    <2> QED  BY <2>1, <2>2
<1>6. \A c \in Conn : \A x : InRoom(chatrooms', room', c, x)
                            <=> IF c = u THEN x \in {n} ELSE InRoom(chatrooms, room, c, x)
    <2> SUFFICES ASSUME NEW c \in Conn, NEW x
                 PROVE  InRoom(chatrooms', room', c, x)
                           <=> IF c = u THEN x \in {n} ELSE InRoom(chatrooms, room, c, x)
        OBVIOUS
    <2>1. CASE c = u
        BY <1>1, <1>2, <1>5, <2>1 DEF InRoom
    <2>2. CASE c # u
        BY <1>1, <1>2, <1>3, <1>4, <1>5, <2>2 DEF InRoom
    <2> QED  BY <2>1, <2>2
<1> QED  BY <1>6, Relocated

(* A user leaves a room for none.                                            *)
LEMMA LeavesWhere ==
    ASSUME IInv, NEW u \in Conn, NEW r \in RoomNode, (\E n : Quits(u, n, r)) \/ Goes(u, r)
    PROVE  where' = [where EXCEPT ![u] = {}]
<1>1. /\ r \in server_get_chatroom_by_user(u)
      /\ chatrooms' = RoomsWithout(r, u) /\ room' = TableWithout(r, u)
    BY DEF Quits, Goes
<1>2. \A t \in RoomsWithout(r, u) :
         room'[t].name = room[t].name /\ room'[t].members = Remaining(t, u)
    BY <1>1, RoomLeft
<1>3. RoomsWithout(r, u) \subseteq chatrooms
    BY DEF RoomsWithout
<1>4. \A p \in chatrooms : \A c \in room[p].members : c # u => p \in RoomsWithout(r, u)
    BY <1>1, OthersStay
<1>5. \A c \in Conn : \A x : InRoom(chatrooms', room', c, x)
                            <=> IF c = u THEN x \in {} ELSE InRoom(chatrooms, room, c, x)
    BY <1>1, <1>2, <1>3, <1>4 DEF InRoom, Remaining
<1> QED  BY <1>5, Relocated

(* A step in which nobody speaks in a room is heard by nobody.               *)
LEMMA NotHeard ==
    ASSUME \A c \in Conn : Unspoken(sent'[c])
    PROVE  heard' = {}
BY DEF heard, Unspoken

(* A name looked up in vain is the name of no room.                          *)
LEMMA NotInUse ==
    ASSUME NEW n, server_get_chatroom_by_name(n) = {}
    PROVE  n \notin Service!Rooms
BY ServiceRooms DEF server_get_chatroom_by_name, InRoom

(* A room on the list has somebody in it.                                    *)
LEMMA InUse ==
    ASSUME IInv, NEW t \in chatrooms
    PROVE  room[t].name \in Service!Rooms
<1>1. PICK c \in room[t].members : TRUE
    BY DEF IInv, Consistent
<1>2. c \in Conn
    BY MembersConnected
<1> QED  BY <1>1, <1>2, ServiceRooms DEF InRoom

(* Every step of the server is a step of RoomService.                        *)
LEMMA StepService ==
    ASSUME IInv, RoomsNamed, [RegNext]_regvars
    PROVE  [Service!Next]_<<where, heard>>
<1>1. CASE UNCHANGED regvars
    BY <1>1 DEF regvars, tables, rooms, where, heard, server_get_chatroom_by_user
<1>2. ASSUME NEW u \in Conn, Kind(u)
      PROVE  Service!Next
    <2>1. CASE UNCHANGED <<chatrooms, room>> /\ \A c \in Conn : Unspoken(sent'[c])
        <3>1. UNCHANGED where
            BY <2>1 DEF where, server_get_chatroom_by_user
        <3> QED  BY <2>1, <3>1, NotHeard DEF Service!Next, Service!Silent
    <2>2. CASE Aside
        BY <2>1, <2>2, NoneTold DEF Aside
    <2>3. ASSUME NEW m \in Body, Broadcasts(u, m)
          PROVE  Service!Next
        <3>1. UNCHANGED <<chatrooms, room>>
            BY <2>3, BroadcastSent
        <3>2. \A c \in Conn : sent'[c] = <<>> \/ sent'[c] = <<BroadcastCopy(u, c, m)>>
            BY <2>3, BroadcastSent
        <3>3. \A c : BroadcastCopy(u, c, m).type # "MULTICAST_SEND"
            BY DEF BroadcastCopy, packet_init
        <3>4. heard' = {}
            BY <3>2, <3>3 DEF heard
        <3>5. UNCHANGED where
            BY <3>1 DEF where, server_get_chatroom_by_user
        <3> QED  BY <3>4, <3>5 DEF Service!Next, Service!Silent
    <2>4. ASSUME NEW m \in Body, NEW r \in RoomNode, Speaks(u, r, m)
          PROVE  Service!Next
        <3>1. /\ r \in chatrooms /\ u \in room[r].members /\ UNCHANGED <<chatrooms, room>>
              /\ \A c \in room[r].members : c \in Conn /\ sent'[c] = <<RoomCopy(u, c, r, m)>>
              /\ \A c \in Conn \ room[r].members : sent'[c] = <<>>
            BY <2>4, SpeechSent
        <3>2. \A c : RoomCopy(u, c, r, m).type = "MULTICAST_SEND"
            BY DEF RoomCopy, packet_init
        <3>3. \A c \in room[r].members : \E k \in DOMAIN sent'[c] :
                 sent'[c][k].type = "MULTICAST_SEND"
            <4> SUFFICES ASSUME NEW c \in room[r].members
                         PROVE  \E k \in DOMAIN sent'[c] : sent'[c][k].type = "MULTICAST_SEND"
                OBVIOUS
            <4>1. 1 \in DOMAIN sent'[c] /\ sent'[c][1].type = "MULTICAST_SEND"
                BY <3>1, <3>2
            <4> QED  BY <4>1
        <3>4. heard' = room[r].members
            BY <3>1, <3>3 DEF heard
        <3>5. \A c \in Conn : room[r].name \in where[c] <=> c \in room[r].members
            <4>1. \A p \in chatrooms : room[p].name = room[r].name => p = r
                BY <3>1 DEF IInv, Consistent
            <4> QED  BY <3>1, <4>1, WhereIs DEF InRoom
        <3>6. heard' = Service!In(room[r].name)
            BY <3>1, <3>4, <3>5 DEF Service!In
        <3>7. UNCHANGED where
            BY <3>1 DEF where, server_get_chatroom_by_user
        <3>8. Service!Speak(u)
            BY <3>1, <3>5, <3>6, <3>7 DEF Service!Speak
        <3> QED  BY <3>8 DEF Service!Next
    <2>5. ASSUME NEW n \in RoomName, NEW a \in RoomNode, Opens(u, n, a)
          PROVE  Service!Next
        <3>1. Service!Create(u, n)
            <4>1. heard' = {}
                BY <2>5, NoneTold, NotHeard
            <4>2. n \notin Service!Rooms
                BY <2>5, NotInUse DEF Opens
            <4> QED  BY <2>5, <4>1, <4>2, OpensWhere DEF Service!Create
        <3> QED  BY <3>1 DEF Service!Next
    <2>6. ASSUME NEW n \in RoomName, NEW r \in RoomNode, NEW a \in RoomNode, Replaces(u, n, r, a)
          PROVE  Service!Next
        <3>1. Service!Create(u, n)
            <4>1. heard' = {}
                BY <2>6, LeaverTold, NotHeard
            <4>2. n \notin Service!Rooms
                BY <2>6, NotInUse DEF Replaces
            <4> QED  BY <2>6, <4>1, <4>2, ReplacesWhere DEF Service!Create
        <3> QED  BY <3>1 DEF Service!Next
    <2>7. ASSUME NEW n \in RoomName \cup {Empty}, NEW t \in RoomNode, Enters(u, n, t)
          PROVE  Service!Next
        <3>1. n \in RoomName /\ n \in Service!Rooms
            BY <2>7, RoomEntered, InUse DEF RoomsNamed
        <3>2. n \notin where[u]
            BY <2>7, WhereIs DEF Enters, server_get_chatroom_by_user, InRoom
        <3>3. heard' = {}
            BY <2>7, NoneTold, NotHeard
        <3>4. Service!Join(u, n)
            BY <2>7, <3>1, <3>2, <3>3, EntersWhere DEF Service!Join
        <3> QED  BY <3>1, <3>4 DEF Service!Next
    <2>8. ASSUME NEW n \in RoomName \cup {Empty}, NEW t \in RoomNode, NEW r \in RoomNode,
                 Moves(u, n, t, r)
          PROVE  Service!Next
        <3>1. /\ r \in server_get_chatroom_by_user(u) /\ r # t
              /\ t \in RoomsWithout(r, u) /\ room[t].name = n
            BY <2>8, RoomChanged
        <3>2. t \in chatrooms
            BY <3>1 DEF RoomsWithout
        <3>3. n \in RoomName /\ n \in Service!Rooms
            BY <3>1, <3>2, InUse DEF RoomsNamed
        <3>4. n \notin where[u]
            <4>1. \A p \in chatrooms : u \in room[p].members => p = r
                BY <3>1, OneRoom
            <4>2. \A p \in chatrooms : room[p].name = n => p = t
                BY <3>1, <3>2 DEF IInv, Consistent
            <4> QED  BY <3>1, <4>1, <4>2, WhereIs DEF InRoom
        <3>5. heard' = {}
            BY <2>8, LeaverTold, NotHeard
        <3>6. Service!Join(u, n)
            BY <2>8, <3>3, <3>4, <3>5, MovesWhere DEF Service!Join
        <3> QED  BY <3>3, <3>6 DEF Service!Next
    <2>9. ASSUME NEW r \in RoomNode, (\E n \in RoomName : Quits(u, n, r)) \/ Goes(u, r)
          PROVE  Service!Next
        <3>1. heard' = {}
            BY <2>9, LeaverTold, NoneTold, NotHeard
        <3>2. where[u] # {}
            <4>1. r \in server_get_chatroom_by_user(u)
                BY <2>9 DEF Quits, Goes
            <4> QED  BY <4>1 DEF where
        <3>3. where' = [where EXCEPT ![u] = {}]
            BY <2>9, LeavesWhere
        <3>4. Service!Leave(u)
            BY <3>1, <3>2, <3>3 DEF Service!Leave
        <3> QED  BY <3>4 DEF Service!Next
    <2> QED  BY <1>2, <2>2, <2>3, <2>4, <2>5, <2>6, <2>7, <2>8, <2>9 DEF Kind
<1> QED  BY <1>1, <1>2, StepKind

(* The empty server is the empty service.                                    *)
LEMMA InitService == RegInit => RoomsNamed /\ Service!Init
BY DEF RegInit, RoomsNamed, Service!Init, where, heard, server_get_chatroom_by_user

(* The lists, counters, flags and recycled addresses of the server implement *)
(* RoomService: a user is in one room or in none, a room is there while      *)
(* somebody is in it, and what is said in a room is heard there only.        *)
THEOREM RegistryImplementsRoomService == RegSpec => ImplementsRoomService
<1>1. RegInit => RoomsNamed /\ Service!Init
    BY InitService
<1>2. IInv /\ RoomsNamed /\ [RegNext]_regvars => RoomsNamed' /\ [Service!Next]_Service!vars
    BY StepNamed, StepService DEF Service!vars
<1> QED  BY <1>1, <1>2, RegistryInvariant, PTL DEF RegSpec, ImplementsRoomService, Service!Spec

-----------------------------------------------------------------------------
(* Answers to file requests.  A client answers to a nickname, long after it  *)
(* was asked; whoever asked is still connected and logged in, or is nobody.  *)

AskersKnown ==
    \A d \in Conn : \A k \in DOMAIN offers[d] :
       offers[d][k].by \in Conn
          => offers[d][k].by \in users /\ user[offers[d][k].by].is_logged_in

(* Prompts stay with users who stay logged in.                               *)
LEMMA OffersKept ==
    ASSUME AskersKnown, offers' = offers,
           \A c \in users : user[c].is_logged_in => c \in users' /\ user'[c].is_logged_in
    PROVE  AskersKnown'
BY DEF AskersKnown

(* A new prompt is that of a user who has logged in.                         *)
LEMMA OfferAdded ==
    ASSUME TypeOK, AskersKnown, UNCHANGED tables, NEW d \in Conn,
           NEW from \in Nick \cup {Empty}, NEW u \in users, user[u].is_logged_in,
           offers' = Prompted(d, from, u)
    PROVE  AskersKnown'
<1> DEFINE o == [name |-> from, by |-> u]
<1>1. offers \in [Conn -> Seq(Offers)] /\ o \in Offers /\ o.by = u
    BY DEF TypeOK, Offers
<1>2. offers' = [offers EXCEPT ![d] = Append(@, o)]
    BY DEF Prompted
<1> HIDE DEF o
<1>3. ASSUME NEW e \in Conn, NEW k \in DOMAIN offers'[e]
      PROVE  offers'[e][k] = o \/ (k \in DOMAIN offers[e] /\ offers'[e][k] = offers[e][k])
    <2>1. CASE e = d
        <3>1. offers'[e] = Append(offers[e], o) /\ offers[e] \in Seq(Offers)
            BY <1>1, <1>2, <2>1
        <3>2. DOMAIN offers'[e] = 1..Len(offers[e]) + 1
            BY <1>1, <3>1
        <3> QED  BY <1>1, <3>1, <3>2
    <2>2. CASE e # d
        BY <1>1, <1>2, <2>2
    <2> QED  BY <2>1, <2>2
<1>4. users' = users /\ user' = user
    BY DEF tables
<1>5. ASSUME NEW e \in Conn, NEW k \in DOMAIN offers'[e], offers'[e][k].by \in Conn
      PROVE  offers'[e][k].by \in users /\ user[offers'[e][k].by].is_logged_in
    <2>1. CASE offers'[e][k] = o
        <3>1. offers'[e][k].by = u
            BY <1>1, <2>1
        <3> QED  BY <3>1
    <2>2. CASE k \in DOMAIN offers[e] /\ offers'[e][k] = offers[e][k]
        <3>1. offers[e][k].by \in Conn
            BY <1>5, <2>2
        <3>2. offers[e][k].by \in users /\ user[offers[e][k].by].is_logged_in
            BY <2>2, <3>1 DEF AskersKnown
        <3> QED  BY <2>2, <3>2
    <2> QED  BY <1>3, <2>1, <2>2
<1> QED  BY <1>4, <1>5 DEF AskersKnown

(* The user who answers forgets the prompt.                                  *)
LEMMA OfferAnswered ==
    ASSUME TypeOK, AskersKnown, UNCHANGED tables, NEW d \in Conn, offers[d] # <<>>,
           offers' = [offers EXCEPT ![d] = Tail(@)]
    PROVE  AskersKnown'
<1>1. offers \in [Conn -> Seq(Offers)]
    BY DEF TypeOK
<1>2. ASSUME NEW e \in Conn, NEW k \in DOMAIN offers'[e]
      PROVE  \E j \in DOMAIN offers[e] : offers'[e][k] = offers[e][j]
    <2>1. CASE e = d
        <3>1. offers'[e] = Tail(offers[e]) /\ offers[e] \in Seq(Offers) /\ offers[e] # <<>>
            BY <1>1, <2>1
        <3> DEFINE s == offers[e]
        <3>2. s \in Seq(Offers) /\ s # <<>> /\ offers'[e] = Tail(s)
            BY <3>1
        <3> HIDE DEF s
        <3>3. /\ Len(s) \in Nat /\ DOMAIN s = 1..Len(s)
              /\ DOMAIN Tail(s) = 1..Len(s) - 1
              /\ \A i \in 1..Len(s) - 1 : Tail(s)[i] = s[i + 1]
            BY <3>2, LenProperties, HeadTailProperties
        <3>4. k + 1 \in DOMAIN s /\ offers'[e][k] = s[k + 1]
            BY <3>2, <3>3
        <3> QED  BY <3>4 DEF s
    <2>2. CASE e # d
        BY <1>1, <2>2
    <2> QED  BY <2>1, <2>2
<1> QED  BY <1>2 DEF AskersKnown, tables

(* What a user who goes has asked of others is nobody's any more.            *)
LEMMA OffersForgotten ==
    ASSUME TypeOK, AskersKnown, NEW u \in Conn, server_disconnect_user(u)
    PROVE  AskersKnown'
<1>1. offers \in [Conn -> Seq(Offers)] /\ NoConn \notin Conn
    BY RegistryAssumption DEF TypeOK
<1>2. /\ \A c \in users \ {u} : c \in users' /\ user'[c] = user[c]
      /\ offers' = Forget(u)
    BY DEF server_disconnect_user, TypeOK
<1>3. ASSUME NEW d \in Conn, NEW k \in DOMAIN offers'[d], offers'[d][k].by \in Conn
      PROVE  k \in DOMAIN offers[d] /\ offers'[d][k].by = offers[d][k].by /\ offers[d][k].by # u
    <2>1. d # u /\ k \in DOMAIN offers[d]
        BY <1>2, <1>3 DEF Forget
    <2>2. offers'[d][k] = Released(offers[d][k], u)
        BY <1>2, <2>1 DEF Forget
    <2> QED  BY <1>1, <1>3, <2>1, <2>2 DEF Released
<1> QED  BY <1>2, <1>3 DEF AskersKnown

(* Logging in, or entering or leaving a room, logs nobody out.               *)
LEMMA StillLoggedIn ==
    ASSUME TypeOK, NEW u \in Conn, NEW n, NEW b \in BOOLEAN,
           \/ user' = user
           \/ user' = [user EXCEPT ![u].nickname = n, ![u].is_logged_in = TRUE]
           \/ user' = [user EXCEPT ![u].is_in_chatroom = b]
    PROVE  \A c \in Conn : user[c].is_logged_in => user'[c].is_logged_in
<1>1. user \in [Conn -> UserNodes]
    BY DEF TypeOK
<1>2. CASE user' = user
    BY <1>2
<1>3. CASE user' = [user EXCEPT ![u].nickname = n, ![u].is_logged_in = TRUE]
    BY <1>1, <1>3 DEF UserNodes
<1>4. CASE user' = [user EXCEPT ![u].is_in_chatroom = b]
    BY <1>1, <1>4 DEF UserNodes
<1> QED  BY <1>2, <1>3, <1>4

(* What a step does to the prompts: FILE_REQUEST adds one, an answer takes   *)
(* one away, a departure forgets, and the others leave them as they are.     *)
LEMMA OfferSteps ==
    ASSUME TypeOK, NEW u \in Conn, accept_user(u) \/ server_disconnect_user(u) \/ Handler(u)
    PROVE  \/ /\ offers' = offers
              /\ \A c \in users : user[c].is_logged_in => c \in users' /\ user'[c].is_logged_in
           \/ /\ UNCHANGED tables /\ u \in users /\ user[u].is_logged_in
              /\ \E d \in Conn, from \in Nick \cup {Empty} : offers' = Prompted(d, from, u)
           \/ \E type, packet : Answer(u, type, packet)
           \/ server_disconnect_user(u)
<1> DEFINE Kept == /\ offers' = offers
                   /\ \A c \in users : user[c].is_logged_in => c \in users' /\ user'[c].is_logged_in
<1>1. users \subseteq Conn
    BY DEF TypeOK
<1>2. CASE accept_user(u)
    <2>1. offers' = offers /\ users \subseteq users' /\ \A c \in users : user'[c] = user[c]
        BY <1>1, <1>2 DEF accept_user, TypeOK
    <2> QED  BY <2>1
<1>3. ASSUME offers' = offers, users' = users,
             \/ user' = user
             \/ \E n : user' = [user EXCEPT ![u].nickname = n, ![u].is_logged_in = TRUE]
             \/ \E b \in BOOLEAN : user' = [user EXCEPT ![u].is_in_chatroom = b]
      PROVE  Kept
    <2>1. \A c \in Conn : user[c].is_logged_in => user'[c].is_logged_in
        BY <1>3, StillLoggedIn
    <2> QED  BY <1>1, <1>3, <2>1
<1>4. CASE UNCHANGED <<tables, offers>>
    BY <1>3, <1>4 DEF tables
<1>5. CASE login_first(u) \/ Messages(u) \/ server_handle_multicast_list_req(u)
           \/ \E m \in Body : server_handle_multicast_send_req(u, m)
    BY <1>4, <1>5 DEF login_first, Messages, server_handle_broadcast_send_req,
                      server_handle_unicast_send_req, server_handle_multicast_list_req,
                      server_handle_multicast_send_req
<1>6. CASE Nicknames(u)
    <2>1. ASSUME NEW n \in Nick, server_handle_nickname_new_req(u, n)
          PROVE  Kept
        BY <1>3, <2>1 DEF server_handle_nickname_new_req
    <2> QED  BY <1>4, <1>6, <2>1 DEF Nicknames, server_handle_nickname_list_req,
                                      server_handle_nickname_infos_req
<1>7. CASE Chatrooms(u)
    <2>1. ASSUME NEW n, server_handle_multicast_create_req(u, n)
          PROVE  Kept
        BY <1>3, <2>1 DEF server_handle_multicast_create_req
    <2>2. ASSUME NEW n, server_handle_multicast_join_req(u, n)
          PROVE  Kept
        BY <1>3, <2>2 DEF server_handle_multicast_join_req
    <2>3. ASSUME NEW n, server_handle_multicast_quit_req(u, n)
          PROVE  Kept
        BY <1>3, <2>3 DEF server_handle_multicast_quit_req
    <2> QED  BY <1>5, <1>7, <2>1, <2>2, <2>3 DEF Chatrooms
<1>8. ASSUME NEW n \in Nick, NEW from \in aka[u], NEW m, server_handle_file_req(u, from, n, m)
      PROVE  \/ Kept
             \/ /\ UNCHANGED tables /\ u \in users /\ user[u].is_logged_in
                /\ \E d \in Conn, f \in Nick \cup {Empty} : offers' = Prompted(d, f, u)
    <2>1. from \in Nick \cup {Empty} /\ server_get_user_by_name(n) \subseteq Conn
        BY DEF TypeOK, server_get_user_by_name
    <2>2. u \in users /\ user[u].is_logged_in
        BY <1>8 DEF server_handle_file_req, Request
    <2>3. UNCHANGED tables
        BY <1>8 DEF server_handle_file_req
    <2>4. offers' = offers \/ \E d \in server_get_user_by_name(n) : offers' = Prompted(d, from, u)
        BY <1>8 DEF server_handle_file_req
    <2>5. CASE offers' = offers
        <3>1. Kept
            BY <1>3, <2>3, <2>5 DEF tables
        <3> QED  BY <3>1
    <2>6. ASSUME NEW d \in server_get_user_by_name(n), offers' = Prompted(d, from, u)
          PROVE  \E e \in Conn, f \in Nick \cup {Empty} : offers' = Prompted(e, f, u)
        BY <2>1, <2>6
    <2> HIDE DEF Kept
    <2> QED  BY <2>2, <2>3, <2>4, <2>5, <2>6
<1>9. CASE Files(u)
    BY <1>8, <1>9 DEF Files, server_handle_file_accept_res, server_handle_file_reject_req
<1> QED  BY <1>2, <1>5, <1>6, <1>7, <1>9 DEF Handler

(* Every step keeps what is known of the askers.                             *)
LEMMA StepAskers ==
    ASSUME IInv, AskersKnown, [RegNext]_regvars
    PROVE  AskersKnown'
<1>t. TypeOK
    BY DEF IInv
<1>1. CASE UNCHANGED regvars
    BY <1>1, OffersKept DEF regvars, tables
<1>2. ASSUME NEW u \in Conn, accept_user(u) \/ server_disconnect_user(u) \/ Handler(u)
      PROVE  AskersKnown'
    <2>1. ASSUME NEW type, NEW packet, Answer(u, type, packet)
          PROVE  AskersKnown'
        BY <1>t, <2>1, OfferAnswered DEF Answer
    <2> QED  BY <1>t, <1>2, <2>1, OfferSteps, OffersKept, OfferAdded, OffersForgotten
<1> QED  BY <1>1, <1>2 DEF RegNext

(* Only an answer makes the prompts of a user who stays fewer.               *)
LEMMA AnsweredByAnswer ==
    ASSUME TypeOK, RegNext, NEW d \in Conn, Answered(d)
    PROVE  \E type, packet : Answer(d, type, packet)
<1>1. PICK u \in Conn : accept_user(u) \/ server_disconnect_user(u) \/ Handler(u)
    BY DEF RegNext
<1> DEFINE s == offers[d]
<1>2. s \in Seq(Offers) /\ s # <<>> /\ offers'[d] = Tail(s) /\ offers \in [Conn -> Seq(Offers)]
    BY DEF TypeOK, Answered
<1> HIDE DEF s
<1>3. Len(s) \in DOMAIN s /\ Len(s) \notin DOMAIN Tail(s)
    <2>1. Len(s) \in Nat /\ DOMAIN s = 1..Len(s) /\ DOMAIN Tail(s) = 1..Len(s) - 1
        BY <1>2, LenProperties, HeadTailProperties
    <2>2. Len(s) # 0
        BY <1>2, EmptySeq
    <2> QED  BY <2>1, <2>2
<1>4. CASE DOMAIN s \subseteq DOMAIN offers'[d]
    BY <1>2, <1>3, <1>4
<1>5. CASE offers' = offers
    BY <1>4, <1>5 DEF s
<1>6. ASSUME NEW e \in Conn, NEW from \in Nick \cup {Empty}, offers' = Prompted(e, from, u)
      PROVE  DOMAIN s \subseteq DOMAIN offers'[d]
    <2> DEFINE o == [name |-> from, by |-> u]
    <2>1. offers' = [offers EXCEPT ![e] = Append(@, o)] /\ o \in Offers
        BY <1>6 DEF Prompted, Offers
    <2> HIDE DEF o
    <2>2. CASE e = d
        <3>1. offers'[d] = Append(s, o)
            BY <1>2, <2>1, <2>2 DEF s
        <3>2. Append(s, o) \in Seq(Offers) /\ Len(Append(s, o)) = Len(s) + 1 /\ Len(s) \in Nat
            BY <1>2, <2>1, AppendProperties, LenProperties
        <3> QED  BY <1>2, <3>1, <3>2, LenProperties
    <2>3. CASE e # d
        BY <1>2, <2>1, <2>3 DEF s
    <2> QED  BY <2>2, <2>3
<1>7. CASE server_disconnect_user(u)
    <2>1. d # u
        BY <1>7 DEF server_disconnect_user, Answered
    <2>2. DOMAIN offers'[d] = DOMAIN s
        BY <1>7, <2>1 DEF server_disconnect_user, Forget, s
    <2> QED  BY <1>4, <2>2
<1>8. ASSUME NEW type, NEW packet, Answer(u, type, packet)
      PROVE  \E t, p : Answer(d, t, p)
    <2>1. CASE u = d
        BY <1>8, <2>1
    <2>2. CASE u # d
        <3>1. offers'[d] = s
            BY <1>2, <1>8, <2>2 DEF Answer, s
        <3> QED  BY <1>4, <3>1
    <2> QED  BY <2>1, <2>2
<1> QED  BY <1>1, <1>4, <1>5, <1>6, <1>7, <1>8, OfferSteps

(* An answer reaches the user who asked, and nobody else, if that user has   *)
(* kept the nickname.                                                        *)
LEMMA StepAnswers ==
    ASSUME IInv, AskersKnown, RegNext, NEW d \in Conn, Answered(d),
           Head(offers[d]).by \in users,
           user[Head(offers[d]).by].nickname = Head(offers[d]).name
    PROVE  {c \in Conn : sent'[c] # <<>>} = {Head(offers[d]).by}
<1> DEFINE o == Head(offers[d])
<1>t. TypeOK
    BY DEF IInv
<1>1. PICK type, packet : Answer(d, type, packet)
    BY <1>t, AnsweredByAnswer
<1>2. o.by \in users /\ o.by \in Conn /\ user[o.by].nickname = o.name
    BY <1>t DEF TypeOK
<1>3. user[o.by].is_logged_in
    <2> DEFINE s == offers[d]
    <2>1. s \in Seq(Offers) /\ s # <<>>
        BY <1>t DEF TypeOK, Answered
    <2>2. o = s[1]
        OBVIOUS
    <2> HIDE DEF s
    <2>3. 1 \in DOMAIN s
        BY <2>1
    <2> QED  BY <1>2, <2>2, <2>3 DEF AskersKnown, s
<1> HIDE DEF o
<1>4. server_get_user_by_name(o.name) = {o.by}
    BY <1>2, <1>3, OwnName
<1>5. sent' = Sent(o.by, <<packet>>, Nobody)
    BY <1>1, <1>4 DEF Answer, o
<1>6. \A c \in Conn : sent'[c] # <<>> <=> c = o.by
    BY <1>2, <1>5 DEF Sent, SentTo, Nobody
<1> QED  BY <1>2, <1>6 DEF o

(* The empty server has no prompts.                                          *)
LEMMA InitAskers == RegInit => AskersKnown
BY DEF RegInit, AskersKnown

(* Req5.4, as far as the code keeps it: the answer to a file request,        *)
(* however late, reaches the user who asked, and nobody else, as long as     *)
(* that user is connected and has kept the nickname the request gave.        *)
THEOREM RegistryAnswers == RegSpec => AnswersReturnUnlessRenamed
<1> DEFINE Returned == \A d \in Conn : Answered(d) =>
                          LET o == Head(offers[d])
                          IN  o.by \in users /\ user[o.by].nickname = o.name
                              => {c \in Conn : sent'[c] # <<>>} = {o.by}
<1>1. IInv /\ AskersKnown /\ [RegNext]_regvars => [Returned]_regvars
    BY StepAnswers
<1>2. IInv /\ AskersKnown /\ [RegNext]_regvars => AskersKnown'
    BY StepAskers
<1> QED  BY <1>1, <1>2, InitAskers, RegistryInvariant, PTL DEF RegSpec, AnswersReturnUnlessRenamed
=============================================================================
