--------------------------- MODULE RegistryProofs ---------------------------
(***************************************************************************)
(* Theorems about Registry, for any number of connections, names, rooms    *)
(* and message bodies, and any request types in use.                       *)
(***************************************************************************)
EXTENDS Registry, FiniteSetTheorems, TLAPS

-----------------------------------------------------------------------------
(* Types of the packets and of what a step sends.                           *)

(* packet_init makes packets.                                                *)
LEMMA PacketType ==
    ASSUME NEW from \in Sources, NEW type \in MessageTypes, NEW infos \in Names,
           NEW payload \in Payloads
    PROVE  packet_init(from, type, infos, payload) \in Packets
BY DEF packet_init, Packets

(* What the server says in its own name is a packet.                         *)
LEMMA FromServerType ==
    ASSUME NEW type \in MessageTypes, NEW infos \in Names, NEW what \in Says,
           NEW about \in SUBSET (Names \cup Body)
    PROVE  FromServer(type, infos, what, about) \in Packets
<1>1. SERVER \in Sources
    BY DEF SERVER, Sources
<1>2. Say(what, about) \in Payloads
    BY DEF Say, Payloads
<1> QED  BY <1>1, <1>2, PacketType DEF FromServer

(* One packet for each member of a set.                                      *)
LEMMA SentToType ==
    ASSUME NEW others, \A c \in DOMAIN others : others[c] \in Packets
    PROVE  SentTo(others) \in [Conn -> Seq(Packets)]
BY DEF SentTo

(* A handler's own answers and what it tells others.                         *)
LEMMA SentType ==
    ASSUME NEW u \in Conn, NEW mine \in Seq(Packets), NEW others,
           \A c \in DOMAIN others : others[c] \in Packets
    PROVE  Sent(u, mine, others) \in [Conn -> Seq(Packets)]
BY SentToType DEF Sent

(* Telling nobody else.                                                      *)
LEMMA NobodyType == \A c \in DOMAIN Nobody : Nobody[c] \in Packets
BY DEF Nobody

(* One packet to one client.                                                 *)
LEMMA OneSentType ==
    ASSUME NEW u \in Conn, NEW packet \in Packets
    PROVE  Sent(u, <<packet>>, Nobody) \in [Conn -> Seq(Packets)]
<1>1. <<packet>> \in Seq(Packets)
    OBVIOUS
<1> QED  BY <1>1, NobodyType, SentType

(* The common answer: one packet to the user who asked.                      *)
LEMMA ReplyType ==
    ASSUME NEW u \in Conn, NEW type \in MessageTypes, NEW infos \in Names, NEW what \in Says,
           NEW about \in SUBSET (Names \cup Body), Reply(u, type, infos, what, about)
    PROVE  sent' \in [Conn -> Seq(Packets)]
<1>1. FromServer(type, infos, what, about) \in Packets
    BY FromServerType
<1> QED  BY <1>1, OneSentType DEF Reply

-----------------------------------------------------------------------------
(* TypeOK is inductive.  First the handlers that only answer.               *)

(* Names that lookups and requests yield.                                    *)
LEMMA NickType ==
    ASSUME TypeOK, NEW c \in Conn
    PROVE  user[c].nickname \in Names
BY DEF TypeOK, UserNodes, Names

(* Names of rooms, and notices sent in a room's name.                        *)
LEMMA RoomNameType ==
    ASSUME TypeOK, NEW r \in RoomNode
    PROVE  room[r].name \in Names /\ SERVERat(r) \in Sources
BY DEF TypeOK, RoomNodes, Names, Sources, SERVERat

(* A step that only sends keeps the types of the rest.                       *)
LEMMA OnlySent ==
    ASSUME TypeOK, UNCHANGED <<tables, aka, offers, fault>>,
           sent' \in [Conn -> Seq(Packets)]
    PROVE  TypeOK'
BY DEF TypeOK, tables, rooms

(* The handlers that change nothing and answer one packet.                   *)
LEMMA AnswersType ==
    ASSUME TypeOK, NEW u \in Conn,
           \/ login_first(u)
           \/ server_handle_nickname_list_req(u)
           \/ \E n \in Nick \cup {Empty} : server_handle_nickname_infos_req(u, n)
           \/ server_handle_multicast_list_req(u)
    PROVE  TypeOK'
<1>1. CASE login_first(u)
    <2>1. sent' \in [Conn -> Seq(Packets)]
        <3>1. Reply(u, "DEFAULT", Empty, "login", {})
            BY <1>1 DEF login_first
        <3> QED  BY <3>1, ReplyType DEF MessageTypes, Names, Says
    <2> QED  BY <1>1, <2>1, OnlySent DEF login_first
<1>2. CASE server_handle_nickname_list_req(u)
    <2>1. {user[c].nickname : c \in users} \in SUBSET (Names \cup Body)
        BY NickType DEF TypeOK
    <2>2. sent' \in [Conn -> Seq(Packets)]
        <3>1. Reply(u, "NICKNAME_LIST", Empty, "users", {user[c].nickname : c \in users})
            BY <1>2 DEF server_handle_nickname_list_req
        <3> QED  BY <2>1, <3>1, ReplyType DEF MessageTypes, RequestTypes, Names, Says
    <2> QED  BY <1>2, <2>2, OnlySent DEF server_handle_nickname_list_req
<1>3. CASE \E n \in Nick \cup {Empty} : server_handle_nickname_infos_req(u, n)
    <2>1. PICK n \in Nick \cup {Empty} : server_handle_nickname_infos_req(u, n)
        BY <1>3
    <2>2. sent' \in [Conn -> Seq(Packets)]
        <3>1. PICK what \in {"unknown", "infos"}, about \in {{}, {n}} :
                 Reply(u, "NICKNAME_INFOS", n, what, about)
            BY <2>1 DEF server_handle_nickname_infos_req
        <3>2. n \in Names /\ what \in Says /\ about \in SUBSET (Names \cup Body)
            BY <3>1 DEF Names, Says
        <3> QED  BY <3>1, <3>2, ReplyType DEF MessageTypes, RequestTypes
    <2> QED  BY <2>1, <2>2, OnlySent DEF server_handle_nickname_infos_req
<1>4. CASE server_handle_multicast_list_req(u)
    <2>1. {room[r].name : r \in chatrooms} \in SUBSET (Names \cup Body)
        BY RoomNameType DEF TypeOK
    <2>2. sent' \in [Conn -> Seq(Packets)]
        <3>1. PICK what \in {"rooms", "no_rooms"},
                   about \in {{}, {room[r].name : r \in chatrooms}} :
                 Reply(u, "MULTICAST_LIST", Empty, what, about)
            BY <1>4 DEF server_handle_multicast_list_req
        <3>2. what \in Says /\ about \in SUBSET (Names \cup Body)
            BY <2>1, <3>1 DEF Says
        <3> QED  BY <3>1, <3>2, ReplyType DEF MessageTypes, RequestTypes, Names
    <2> QED  BY <1>4, <2>2, OnlySent DEF server_handle_multicast_list_req
<1> QED  BY <1>1, <1>2, <1>3, <1>4

(* NICKNAME_NEW writes a user's nickname and login flag.                     *)
LEMMA NicknameNewType ==
    ASSUME TypeOK, NEW u \in Conn, NEW n \in Nick, server_handle_nickname_new_req(u, n)
    PROVE  TypeOK'
<1>1. sent' \in [Conn -> Seq(Packets)]
    <2>1. PICK type \in {"DEFAULT", "NICKNAME_NEW"},
               what \in {"nick_used", "renamed", "welcome"}, about \in {{}, {n}} :
             Reply(u, type, n, what, about)
        BY DEF server_handle_nickname_new_req
    <2>2. /\ type \in MessageTypes /\ n \in Names /\ what \in Says
          /\ about \in SUBSET (Names \cup Body)
        BY <2>1 DEF MessageTypes, RequestTypes, Names, Says
    <2> QED  BY <2>1, <2>2, ReplyType
<1>2. user' \in [Conn -> UserNodes] /\ aka' \in [Conn -> SUBSET (Nick \cup {Empty})]
    <2>1. CASE UNCHANGED <<user, aka>>
        BY <2>1 DEF TypeOK
    <2>2. CASE /\ user' = [user EXCEPT ![u].nickname = n, ![u].is_logged_in = TRUE]
               /\ aka' = [aka EXCEPT ![u] = @ \cup {n}]
        BY <2>2 DEF TypeOK, UserNodes
    <2> QED  BY <2>1, <2>2 DEF server_handle_nickname_new_req
<1> QED  BY <1>1, <1>2 DEF server_handle_nickname_new_req, TypeOK, rooms

(* Texts of users and who they come from.                                    *)
LEMMA TextType ==
    ASSUME NEW source \in Sources, NEW type \in MessageTypes, NEW infos \in Names, NEW m \in Body
    PROVE  packet_init(source, type, infos, Text(m)) \in Packets
<1>1. Text(m) \in Payloads
    BY DEF Text, Say, Payloads, Says
<1> QED  BY <1>1, PacketType

(* BROADCAST_SEND and UNICAST_SEND only send.                                *)
LEMMA MessagesType ==
    ASSUME TypeOK, NEW u \in Conn, Messages(u)
    PROVE  TypeOK'
<1>1. CASE \E m \in Body : server_handle_broadcast_send_req(u, m)
    <2>1. PICK m \in Body : server_handle_broadcast_send_req(u, m)
        BY <1>1
    <2> DEFINE same == server_get_user_by_name(user[u].nickname)
               copy(who) == packet_init(<<who, "all">>, "BROADCAST_SEND", Empty, Text(m))
    <2>2. copy("me") \in Packets /\ copy(user[u].nickname) \in Packets
        <3>1. <<"me", "all">> \in Sources /\ <<user[u].nickname, "all">> \in Sources
            BY DEF Sources, TypeOK, UserNodes
        <3> QED  BY <3>1, TextType DEF MessageTypes, RequestTypes, Names
    <2>3. Cardinality(same) \in Nat
        BY RegistryAssumption, FS_Subset, FS_CardinalityType
           DEF TypeOK, server_get_user_by_name
    <2>4. [k \in 1..Cardinality(same) |-> copy("me")] \in Seq(Packets)
        BY <2>2, <2>3
    <2>5. sent' = Sent(u, [k \in 1..Cardinality(same) |-> copy("me")],
                          [c \in users \ same |-> copy(user[u].nickname)])
        BY <2>1 DEF server_handle_broadcast_send_req
    <2>6. sent' \in [Conn -> Seq(Packets)]
        BY <2>2, <2>4, <2>5, SentType
    <2> QED  BY <2>1, <2>6, OnlySent DEF server_handle_broadcast_send_req
<1>2. CASE \E n \in Nick, from \in aka[u], m \in Body :
              server_handle_unicast_send_req(u, from, n, m)
    <2>1. PICK n \in Nick, from \in aka[u], m \in Body :
              server_handle_unicast_send_req(u, from, n, m)
        BY <1>2
    <2> DEFINE copy(source) == packet_init(source, "UNICAST_SEND", n, Text(m))
    <2>2. copy(<<"me", n>>) \in Packets /\ copy(<<from, Empty>>) \in Packets
        <3>1. <<"me", n>> \in Sources /\ <<from, Empty>> \in Sources
            BY DEF Sources, TypeOK
        <3> QED  BY <3>1, TextType DEF MessageTypes, RequestTypes, Names
    <2>3. sent' \in [Conn -> Seq(Packets)]
        <3>1. CASE \E type \in {"UNICAST_SEND", "DEFAULT"}, what \in {"no_user", "self"},
                      about \in {{}, {n}} : Reply(u, type, n, what, about)
            <4>1. PICK type \in {"UNICAST_SEND", "DEFAULT"}, what \in {"no_user", "self"},
                       about \in {{}, {n}} : Reply(u, type, n, what, about)
                BY <3>1
            <4>2. /\ type \in MessageTypes /\ n \in Names /\ what \in Says
                  /\ about \in SUBSET (Names \cup Body)
                BY <4>1 DEF MessageTypes, RequestTypes, Names, Says
            <4> QED  BY <4>1, <4>2, ReplyType
        <3>2. CASE \E d \in server_get_user_by_name(n) \ {u} :
                      sent' = Sent(u, <<copy(<<"me", n>>)>>, [c \in {d} |-> copy(<<from, Empty>>)])
            <4>1. PICK d \in Conn :
                     sent' = Sent(u, <<copy(<<"me", n>>)>>, [c \in {d} |-> copy(<<from, Empty>>)])
                BY <3>2 DEF server_get_user_by_name, TypeOK
            <4>2. <<copy(<<"me", n>>)>> \in Seq(Packets)
                BY <2>2
            <4> QED  BY <2>2, <4>1, <4>2, SentType
        <3> QED  BY <2>1, <3>1, <3>2 DEF server_handle_unicast_send_req
    <2> QED  BY <2>1, <2>3, OnlySent DEF server_handle_unicast_send_req
<1> QED  BY <1>1, <1>2 DEF Messages

-----------------------------------------------------------------------------
(* The chatroom handlers keep TypeOK.                                       *)

(* Linking and unlinking a user keep the type of a room.                     *)
LEMMA NodeTypes ==
    ASSUME NEW R \in [RoomNode -> RoomNodes], NEW r \in RoomNode, NEW u \in Conn
    PROVE  /\ chatroom_node_add_user_node(R, r, u) \in [RoomNode -> RoomNodes]
           /\ chatroom_node_remove_user_node(R, r, u) \in [RoomNode -> RoomNodes]
<1>1. chatroom_node_add_user_node(R, r, u) \in [RoomNode -> RoomNodes]
    BY DEF chatroom_node_add_user_node, RoomNodes
<1>2. chatroom_node_remove_user_node(R, r, u) \in [RoomNode -> RoomNodes]
    BY DEF chatroom_node_remove_user_node, RoomNodes
<1> QED  BY <1>1, <1>2

(* A new room and a freed one.                                               *)
LEMMA NewNodeTypes ==
    ASSUME NEW u \in Conn, NEW n \in RoomName
    PROVE  chatroom_node_free \in RoomNodes /\ chatroom_node_init(n, u) \in RoomNodes
BY DEF chatroom_node_free, chatroom_node_init, RoomNodes

(* The rooms once u has left r.                                              *)
LEMMA WithoutTypes ==
    ASSUME TypeOK, NEW r \in chatrooms, NEW u \in Conn
    PROVE  /\ RoomsWithout(r, u) \subseteq chatrooms
           /\ TableWithout(r, u) \in [RoomNode -> RoomNodes]
           /\ CountWithout(r, u) \in Int
           /\ Remaining(r, u) \subseteq Conn
<1>1. r \in RoomNode /\ room \in [RoomNode -> RoomNodes] /\ num_chatrooms \in Int
    BY DEF TypeOK
<1>2. chatroom_node_remove_user_node(room, r, u) \in [RoomNode -> RoomNodes]
    BY <1>1, NodeTypes
<1>3. [chatroom_node_remove_user_node(room, r, u) EXCEPT ![r] = chatroom_node_free]
         \in [RoomNode -> RoomNodes]
    BY <1>1, <1>2 DEF chatroom_node_free, RoomNodes
<1>4. Remaining(r, u) \subseteq Conn
    BY <1>1 DEF Remaining, RoomNodes
<1> QED  BY <1>1, <1>2, <1>3, <1>4 DEF RoomsWithout, TableWithout, CountWithout

(* The notices to those left in a room.                                      *)
LEMMA HasQuitType ==
    ASSUME TypeOK, NEW r \in chatrooms, NEW u \in Conn, NEW source \in Sources,
           NEW type \in MessageTypes, NEW infos \in Names
    PROVE  \A c \in DOMAIN HasQuit(u, r, source, type, infos) :
              HasQuit(u, r, source, type, infos)[c] \in Packets
<1>1. Say("has_quit", {user[u].nickname}) \in Payloads
    BY NickType DEF Say, Payloads, Says
<1>2. packet_init(source, type, infos, Say("has_quit", {user[u].nickname})) \in Packets
    BY <1>1, PacketType
<1> QED  BY <1>2 DEF HasQuit

(* The notices to the one who leaves it.                                     *)
LEMMA YouQuitType ==
    ASSUME TypeOK, NEW r \in chatrooms, NEW u \in Conn,
           NEW type \in MessageTypes, NEW infos \in Names
    PROVE  YouQuit(u, r, type, infos) \in Seq(Packets)
<1>1. {room[r].name} \in SUBSET (Names \cup Body)
    BY RoomNameType DEF TypeOK
<1>2. \A what \in {"quit", "destroyed"} : FromServer(type, infos, what, {room[r].name}) \in Packets
    BY <1>1, FromServerType DEF Says
<1>3. /\ <<FromServer(type, infos, "quit", {room[r].name})>> \in Seq(Packets)
      /\ <<FromServer(type, infos, "destroyed", {room[r].name})>> \in Seq(Packets)
    BY <1>2
<1> DEFINE last == IF Deserted(r, u) THEN <<FromServer(type, infos, "destroyed", {room[r].name})>>
                   ELSE <<>>
<1>4. last \in Seq(Packets)
    BY <1>3
<1> HIDE DEF last
<1>5. <<FromServer(type, infos, "quit", {room[r].name})>> \o last \in Seq(Packets)
    BY <1>3, <1>4
<1> QED  BY <1>5 DEF YouQuit, last

(* The notices of an arrival.                                                *)
LEMMA ArrivalType ==
    ASSUME TypeOK, NEW t \in chatrooms, NEW u \in Conn, NEW infos \in Names
    PROVE  HasJoined(u, t, infos) \in Packets /\ Arrival(u, t, infos) \in Seq(Packets)
<1>1. Say("has_joined", {user[u].nickname}) \in Payloads
    BY NickType DEF Say, Payloads, Says
<1>2. HasJoined(u, t, infos) \in Packets
    BY <1>1, PacketType, RoomNameType DEF HasJoined, MessageTypes, RequestTypes, TypeOK
<1>3. FromServer("MULTICAST_JOIN", infos, "joined", {infos}) \in Packets
    BY FromServerType DEF MessageTypes, RequestTypes, Says
<1> QED  BY <1>2, <1>3 DEF Arrival

(* Writing a user's flag.                                                    *)
LEMMA InChatroomType ==
    ASSUME TypeOK, NEW u \in Conn, NEW b \in BOOLEAN,
           user' = [user EXCEPT ![u].is_in_chatroom = b]
    PROVE  user' \in [Conn -> UserNodes]
BY DEF TypeOK, UserNodes

(* /create, with or without a room to leave first.                           *)
LEMMA CreateType ==
    ASSUME TypeOK, NEW u \in Conn, NEW n \in RoomName, server_handle_multicast_create_req(u, n)
    PROVE  TypeOK'
<1>u. UNCHANGED <<users, num_users, aka, offers, fault>>
    BY DEF server_handle_multicast_create_req
<1>1. n \in Names /\ "MULTICAST_CREATE" \in MessageTypes
    BY DEF Names, MessageTypes, RequestTypes
<1>2. CASE Reply(u, "MULTICAST_CREATE", n, "room_used", {}) /\ UNCHANGED <<user, rooms>>
    <2>1. sent' \in [Conn -> Seq(Packets)]
        BY <1>1, <1>2, ReplyType DEF Says
    <2> QED  BY <1>u, <1>2, <2>1 DEF TypeOK, rooms
<1>3. ASSUME NEW a \in RoomNode \ chatrooms,
             chatrooms' = chatrooms \cup {a},
             room' = [room EXCEPT ![a] = chatroom_node_init(n, u)],
             num_chatrooms' = num_chatrooms + 1,
             user' = [user EXCEPT ![u].is_in_chatroom = TRUE],
             Reply(u, "MULTICAST_CREATE", n, "created", {n})
      PROVE  TypeOK'
    <2>1. sent' \in [Conn -> Seq(Packets)]
        BY <1>1, <1>3, ReplyType DEF Says
    <2>2. user' \in [Conn -> UserNodes]
        BY <1>3, InChatroomType
    <2>3. chatrooms' \subseteq RoomNode /\ num_chatrooms' \in Int
          /\ room' \in [RoomNode -> RoomNodes]
        BY <1>3, NewNodeTypes DEF TypeOK
    <2> QED  BY <1>u, <2>1, <2>2, <2>3 DEF TypeOK
<1>4. ASSUME NEW r \in chatrooms, NEW a \in RoomNode,
             chatrooms' = RoomsWithout(r, u) \cup {a},
             room' = [TableWithout(r, u) EXCEPT ![a] = chatroom_node_init(n, u)],
             num_chatrooms' = CountWithout(r, u) + 1,
             user' = [user EXCEPT ![u].is_in_chatroom = TRUE],
             sent' = Sent(u, Append(YouQuit(u, r, "MULTICAST_CREATE", n),
                                    FromServer("MULTICAST_CREATE", n, "created", {n})),
                             HasQuit(u, r, SERVERat(r), "MULTICAST_CREATE", n))
      PROVE  TypeOK'
    <2>1. sent' \in [Conn -> Seq(Packets)]
        <3>1. FromServer("MULTICAST_CREATE", n, "created", {n}) \in Packets
            BY <1>1, FromServerType DEF Says
        <3>2. YouQuit(u, r, "MULTICAST_CREATE", n) \in Seq(Packets)
            BY <1>1, YouQuitType
        <3>3. Append(YouQuit(u, r, "MULTICAST_CREATE", n),
                     FromServer("MULTICAST_CREATE", n, "created", {n})) \in Seq(Packets)
            BY <3>1, <3>2
        <3>4. r \in RoomNode
            BY DEF TypeOK
        <3>5. SERVERat(r) \in Sources
            BY <3>4, RoomNameType
        <3>6. \A c \in DOMAIN HasQuit(u, r, SERVERat(r), "MULTICAST_CREATE", n) :
                 HasQuit(u, r, SERVERat(r), "MULTICAST_CREATE", n)[c] \in Packets
            BY <1>1, <3>5, HasQuitType
        <3> QED  BY <1>4, <3>3, <3>6, SentType
    <2>2. user' \in [Conn -> UserNodes]
        BY <1>4, InChatroomType
    <2>3. chatrooms' \subseteq RoomNode /\ num_chatrooms' \in Int
        BY <1>4, WithoutTypes DEF TypeOK
    <2>4. room' \in [RoomNode -> RoomNodes]
        BY <1>4, WithoutTypes, NewNodeTypes DEF TypeOK
    <2> QED  BY <1>u, <2>1, <2>2, <2>3, <2>4 DEF TypeOK
<1> QED  BY <1>2, <1>3, <1>4 DEF server_handle_multicast_create_req, server_get_chatroom_by_user

(* /join, with or without a room to leave first.                             *)
LEMMA JoinType ==
    ASSUME TypeOK, NEW u \in Conn, NEW n \in RoomName \cup {Empty},
           server_handle_multicast_join_req(u, n)
    PROVE  TypeOK'
<1>u. UNCHANGED <<users, num_users, aka, offers, fault>>
    BY DEF server_handle_multicast_join_req
<1>1. n \in Names /\ "MULTICAST_JOIN" \in MessageTypes
    BY DEF Names, MessageTypes, RequestTypes
<1>2. \A t \in Known(n) : t \in chatrooms
    BY DEF Known, server_get_chatroom_by_name
<1>3. \A r \in chatrooms : r \in RoomNode
    BY DEF TypeOK
<1>4. ASSUME NEW what \in {"no_room", "yet_in"}, NEW about \in {{}, {n}},
             Reply(u, "MULTICAST_JOIN", n, what, about), UNCHANGED <<user, rooms>>
      PROVE  TypeOK'
    <2>1. what \in Says /\ about \in SUBSET (Names \cup Body)
        BY <1>1 DEF Says
    <2>2. sent' \in [Conn -> Seq(Packets)]
        BY <1>1, <1>4, <2>1, ReplyType
    <2> QED  BY <1>u, <1>4, <2>2 DEF TypeOK, rooms
<1>5. ASSUME NEW t \in chatrooms,
             room' = chatroom_node_add_user_node(room, t, u),
             sent' = Sent(u, Arrival(u, t, n), [c \in room[t].members |-> HasJoined(u, t, n)]),
             user' = [user EXCEPT ![u].is_in_chatroom = TRUE],
             UNCHANGED <<chatrooms, num_chatrooms>>
      PROVE  TypeOK'
    <2>1. sent' \in [Conn -> Seq(Packets)]
        BY <1>1, <1>5, ArrivalType, SentType
    <2>2. user' \in [Conn -> UserNodes]
        BY <1>5, InChatroomType
    <2>3. room' \in [RoomNode -> RoomNodes]
        BY <1>3, <1>5, NodeTypes DEF TypeOK
    <2> QED  BY <1>u, <1>5, <2>1, <2>2, <2>3 DEF TypeOK
<1>6. ASSUME NEW t \in chatrooms, NEW r \in chatrooms,
             chatrooms' = RoomsWithout(r, u),
             num_chatrooms' = CountWithout(r, u),
             room' = chatroom_node_add_user_node(TableWithout(r, u), t, u),
             sent' = Sent(u, YouQuit(u, r, "MULTICAST_JOIN", n) \o Arrival(u, t, n),
                             [c \in room[t].members \cup Remaining(r, u) |->
                                 IF c \in room[t].members THEN HasJoined(u, t, n)
                                 ELSE HasQuitMisnamed(c, r, n)]),
             user' = [user EXCEPT ![u].is_in_chatroom = TRUE]
      PROVE  TypeOK'
    <2>1. sent' \in [Conn -> Seq(Packets)]
        <3>1. YouQuit(u, r, "MULTICAST_JOIN", n) \in Seq(Packets)
              /\ Arrival(u, t, n) \in Seq(Packets) /\ HasJoined(u, t, n) \in Packets
            BY <1>1, YouQuitType, ArrivalType
        <3>2. YouQuit(u, r, "MULTICAST_JOIN", n) \o Arrival(u, t, n) \in Seq(Packets)
            BY <3>1
        <3>3. ASSUME NEW c \in Remaining(r, u)
              PROVE  HasQuitMisnamed(c, r, n) \in Packets
            <4>1. c \in Conn
                BY WithoutTypes
            <4>2. Say("has_quit", {user[c].nickname}) \in Payloads
                BY <4>1, NickType DEF Say, Payloads, Says
            <4>3. SERVERat(r) \in Sources
                BY <1>3, RoomNameType
            <4> QED  BY <1>1, <4>2, <4>3, PacketType DEF HasQuitMisnamed
        <3> DEFINE others == [c \in room[t].members \cup Remaining(r, u) |->
                                 IF c \in room[t].members THEN HasJoined(u, t, n)
                                 ELSE HasQuitMisnamed(c, r, n)]
        <3>4. \A c \in DOMAIN others : others[c] \in Packets
            BY <3>1, <3>3
        <3>5. sent' = Sent(u, YouQuit(u, r, "MULTICAST_JOIN", n) \o Arrival(u, t, n), others)
            BY <1>6
        <3> HIDE DEF others
        <3> QED  BY <3>2, <3>4, <3>5, SentType
    <2>2. user' \in [Conn -> UserNodes]
        BY <1>6, InChatroomType
    <2>3. chatrooms' \subseteq RoomNode /\ num_chatrooms' \in Int
        BY <1>6, WithoutTypes DEF TypeOK
    <2>4. room' \in [RoomNode -> RoomNodes]
        BY <1>3, <1>6, WithoutTypes, NodeTypes
    <2> QED  BY <1>u, <2>1, <2>2, <2>3, <2>4 DEF TypeOK
<1> QED  BY <1>2, <1>4, <1>5, <1>6
         DEF server_handle_multicast_join_req, server_get_chatroom_by_user

(* /quit of a room.                                                          *)
LEMMA QuitType ==
    ASSUME TypeOK, NEW u \in Conn, NEW n \in RoomName, server_handle_multicast_quit_req(u, n)
    PROVE  TypeOK'
<1>u. UNCHANGED <<users, num_users, aka, offers, fault>>
    BY DEF server_handle_multicast_quit_req
<1>1. n \in Names /\ "MULTICAST_QUIT" \in MessageTypes
    BY DEF Names, MessageTypes, RequestTypes
<1>2. \A t \in Known(n) : t \in chatrooms /\ t \in RoomNode
    BY DEF Known, server_get_chatroom_by_name, TypeOK
<1>3. ASSUME NEW what \in {"no_room", "not_in"},
             Reply(u, "MULTICAST_QUIT", n, what, {n}), UNCHANGED <<user, rooms>>
      PROVE  TypeOK'
    <2>1. sent' \in [Conn -> Seq(Packets)]
        BY <1>1, <1>3, ReplyType DEF Says
    <2> QED  BY <1>u, <1>3, <2>1 DEF TypeOK, rooms
<1>4. ASSUME NEW r \in Known(n),
             chatrooms' = RoomsWithout(r, u),
             num_chatrooms' = CountWithout(r, u),
             room' = TableWithout(r, u),
             user' = [user EXCEPT ![u].is_in_chatroom = FALSE],
             sent' = Sent(u, YouQuit(u, r, "MULTICAST_QUIT", n),
                             HasQuit(u, r, SERVERat(r), "MULTICAST_QUIT", n))
      PROVE  TypeOK'
    <2>1. SERVERat(r) \in Sources
        BY <1>2, RoomNameType
    <2>2. sent' \in [Conn -> Seq(Packets)]
        BY <1>1, <1>2, <1>4, <2>1, YouQuitType, HasQuitType, SentType
    <2>3. user' \in [Conn -> UserNodes]
        BY <1>4, InChatroomType
    <2>4. /\ chatrooms' \subseteq RoomNode /\ num_chatrooms' \in Int
          /\ room' \in [RoomNode -> RoomNodes]
        BY <1>2, <1>4, WithoutTypes DEF TypeOK
    <2> QED  BY <1>u, <2>2, <2>3, <2>4 DEF TypeOK
<1> QED  BY <1>3, <1>4 DEF server_handle_multicast_quit_req

(* A message in a room, or its echo.                                         *)
LEMMA MulticastSendType ==
    ASSUME TypeOK, NEW u \in Conn, NEW m \in Body, server_handle_multicast_send_req(u, m)
    PROVE  TypeOK'
<1>1. fault' \in Faults
    BY DEF server_handle_multicast_send_req, Through, TypeOK, Faults
<1>2. CASE sent' = Sent(u, <<packet_init(SERVER, "ECHO_SEND", Empty, Text(m))>>, Nobody)
    <2>1. packet_init(SERVER, "ECHO_SEND", Empty, Text(m)) \in Packets
        BY TextType DEF SERVER, Sources, MessageTypes, Names
    <2>2. sent' \in [Conn -> Seq(Packets)]
        BY <1>2, <2>1, OneSentType
    <2> QED  BY <1>1, <2>2 DEF TypeOK, server_handle_multicast_send_req, tables, rooms
<1>3. CASE sent' = [c \in Conn |-> <<>>]
    BY <1>1, <1>3 DEF TypeOK, server_handle_multicast_send_req, tables, rooms
<1>4. ASSUME NEW r \in chatrooms, sent' = ToRoom(u, r, m)
      PROVE  TypeOK'
    <2>1. room[r].name \in RoomName \cup {Empty}
        BY DEF TypeOK, RoomNodes
    <2>2. \A c \in Conn :
             packet_init(<<IF user[c].nickname = user[u].nickname THEN "me"
                           ELSE user[u].nickname, room[r].name>>,
                         "MULTICAST_SEND", Empty, Text(m)) \in Packets
        <3>1. \A c \in Conn : <<IF user[c].nickname = user[u].nickname THEN "me"
                                ELSE user[u].nickname, room[r].name>> \in Sources
            BY <2>1 DEF Sources, TypeOK, UserNodes
        <3> QED  BY <3>1, TextType DEF MessageTypes, RequestTypes, Names
    <2>3. sent' \in [Conn -> Seq(Packets)]
        BY <1>4, <2>2 DEF ToRoom
    <2> QED  BY <1>1, <2>3 DEF TypeOK, server_handle_multicast_send_req, tables, rooms
<1> QED  BY <1>2, <1>3, <1>4
         DEF server_handle_multicast_send_req, server_get_chatroom_by_user

-----------------------------------------------------------------------------
(* The negotiation of files, arrivals and departures keep TypeOK.           *)

(* FILE_REQUEST adds an offer to those of the receiver.                      *)
LEMMA FileRequestType ==
    ASSUME TypeOK, NEW u \in Conn, NEW n \in Nick, NEW from \in aka[u], NEW m \in Body,
           server_handle_file_req(u, from, n, m)
    PROVE  TypeOK'
<1>1. from \in Nick \cup {Empty}
    BY DEF TypeOK
<1>2. ASSUME NEW what \in {"no_user", "self"}, NEW about \in {{}, {n}},
             Reply(u, "DEFAULT", n, what, about), UNCHANGED offers
      PROVE  TypeOK'
    <2>1. n \in Names /\ what \in Says /\ about \in SUBSET (Names \cup Body)
        BY DEF Names, Says
    <2>2. sent' \in [Conn -> Seq(Packets)]
        BY <1>2, <2>1, ReplyType DEF MessageTypes
    <2> QED  BY <1>2, <2>2 DEF TypeOK, server_handle_file_req, tables, rooms
<1>3. ASSUME NEW d \in Conn,
             sent' = Sent(d, <<packet_init(SERVER, "FILE_REQUEST", from, Text(m))>>, Nobody),
             offers' = Prompted(d, from, u)
      PROVE  TypeOK'
    <2>1. packet_init(SERVER, "FILE_REQUEST", from, Text(m)) \in Packets
        BY <1>1, TextType DEF SERVER, Sources, MessageTypes, RequestTypes, Names
    <2>2. sent' \in [Conn -> Seq(Packets)]
        BY <1>3, <2>1, OneSentType
    <2>3. [name |-> from, by |-> u] \in Offers
        BY <1>1 DEF Offers
    <2>4. offers' \in [Conn -> Seq(Offers)]
        BY <1>3, <2>3 DEF Prompted, TypeOK
    <2> QED  BY <2>2, <2>4 DEF TypeOK, server_handle_file_req, tables, rooms
<1> QED  BY <1>2, <1>3 DEF server_handle_file_req, server_get_user_by_name, TypeOK

(* An answer takes the oldest offer away.                                    *)
LEMMA AnswerType ==
    ASSUME TypeOK, NEW u \in Conn, NEW type, NEW packet, Answer(u, type, packet),
           packet \in Packets
    PROVE  TypeOK'
<1>1. fault' \in Faults
    BY DEF Answer, Through, TypeOK, Faults
<1>2. offers' \in [Conn -> Seq(Offers)]
    BY DEF Answer, TypeOK
<1>3. sent' \in [Conn -> Seq(Packets)]
    <2>1. CASE sent' = [c \in Conn |-> <<>>]
        BY <2>1
    <2>2. ASSUME NEW d \in Conn, sent' = Sent(d, <<packet>>, Nobody)
          PROVE  sent' \in [Conn -> Seq(Packets)]
        BY <2>2, OneSentType
    <2> QED  BY <2>1, <2>2 DEF Answer, server_get_user_by_name, TypeOK
<1> QED  BY <1>1, <1>2, <1>3 DEF Answer, TypeOK, tables, rooms

(* The oldest offer names a nickname.                                        *)
LEMMA HeadOffer ==
    ASSUME TypeOK, NEW u \in Conn, offers[u] # <<>>
    PROVE  Head(offers[u]) \in Offers
BY DEF TypeOK

(* The three requests of a file negotiation.                                 *)
LEMMA FilesType ==
    ASSUME TypeOK, NEW u \in Conn, Files(u)
    PROVE  TypeOK'
<1>1. ASSUME NEW n \in Nick, NEW from \in aka[u], NEW m \in Body,
             server_handle_file_req(u, from, n, m)
      PROVE  TypeOK'
    BY <1>1, FileRequestType
<1>2. ASSUME NEW from \in aka[u], NEW m \in Body, server_handle_file_accept_res(u, from, m)
      PROVE  TypeOK'
    <2>1. Head(offers[u]).name \in Names
        BY <1>2, HeadOffer DEF server_handle_file_accept_res, Answer, Offers, Names
    <2>2. <<from, Empty>> \in Sources
        BY DEF TypeOK, Sources
    <2>3. packet_init(<<from, Empty>>, "FILE_ACCEPT", Head(offers[u]).name, Text(m)) \in Packets
        BY <2>1, <2>2, TextType DEF MessageTypes, RequestTypes
    <2> QED  BY <1>2, <2>3, AnswerType DEF server_handle_file_accept_res
<1>3. ASSUME server_handle_file_reject_req(u)
      PROVE  TypeOK'
    <2>1. Head(offers[u]).name \in Names
        BY <1>3, HeadOffer DEF server_handle_file_reject_req, Answer, Offers, Names
    <2>2. {user[u].nickname} \in SUBSET (Names \cup Body)
        BY NickType
    <2>3. FromServer("FILE_REJECT", Head(offers[u]).name, "cancelled", {user[u].nickname})
             \in Packets
        BY <2>1, <2>2, FromServerType DEF MessageTypes, RequestTypes, Says
    <2> QED  BY <1>3, <2>3, AnswerType DEF server_handle_file_reject_req
<1> QED  BY <1>1, <1>2, <1>3 DEF Files

(* accept adds a user or turns it away.                                      *)
LEMMA AcceptType ==
    ASSUME TypeOK, NEW u \in Conn, accept_user(u)
    PROVE  TypeOK'
<1>1. sent' \in [Conn -> Seq(Packets)]
    <2>1. PICK what \in {"login", "full"} : Reply(u, "DEFAULT", Empty, what, {})
        BY DEF accept_user
    <2>2. what \in Says
        BY <2>1 DEF Says
    <2> QED  BY <2>1, <2>2, ReplyType DEF MessageTypes, Names
<1>2. users' \subseteq Conn /\ num_users' \in Int
    BY DEF accept_user, TypeOK
<1>3. user' \in [Conn -> UserNodes]
    <2>1. user_node_init \in UserNodes
        BY DEF user_node_init, UserNodes
    <2> QED  BY <2>1 DEF accept_user, TypeOK
<1> QED  BY <1>1, <1>2, <1>3 DEF accept_user, TypeOK, rooms

(* The offers once u has gone.                                               *)
LEMMA ForgetType ==
    ASSUME TypeOK, NEW u \in Conn
    PROVE  Forget(u) \in [Conn -> Seq(Offers)]
<1> SUFFICES ASSUME NEW d \in Conn
             PROVE  Forget(u)[d] \in Seq(Offers)
    BY DEF Forget
<1>1. CASE d = u
    BY <1>1 DEF Forget
<1>2. CASE d # u
    <2>1. offers[d] \in Seq(Offers)
        BY DEF TypeOK
    <2>2. ASSUME NEW k \in 1..Len(offers[d])
          PROVE  Released(offers[d][k], u) \in Offers
        <3>1. offers[d][k] \in Offers
            BY <2>1
        <3> QED  BY <3>1 DEF Released, Offers
    <2>3. [k \in 1..Len(offers[d]) |-> Released(offers[d][k], u)] \in Seq(Offers)
        BY <2>1, <2>2
    <2>4. DOMAIN offers[d] = 1..Len(offers[d])
        BY <2>1
    <2>5. Forget(u)[d] = [k \in DOMAIN offers[d] |-> Released(offers[d][k], u)]
        BY <1>2 DEF Forget
    <2> QED  BY <2>3, <2>4, <2>5
<1> QED  BY <1>1, <1>2

(* A disconnection removes a user from everything.                           *)
LEMMA DisconnectType ==
    ASSUME TypeOK, NEW u \in Conn, server_disconnect_user(u)
    PROVE  TypeOK'
<1>1. users' \subseteq Conn /\ num_users' \in Int /\ fault' \in Faults
    BY DEF server_disconnect_user, Through, TypeOK, Faults
<1>2. user' \in [Conn -> UserNodes]
    <2>1. user_node_init \in UserNodes
        BY DEF user_node_init, UserNodes
    <2> QED  BY <2>1 DEF server_disconnect_user, TypeOK
<1>3. aka' \in [Conn -> SUBSET (Nick \cup {Empty})]
    BY DEF server_disconnect_user, TypeOK
<1>4. offers' \in [Conn -> Seq(Offers)]
    BY ForgetType DEF server_disconnect_user
<1>5. CASE sent' = [c \in Conn |-> <<>>] /\ UNCHANGED rooms
    BY <1>1, <1>2, <1>3, <1>4, <1>5 DEF TypeOK, rooms
<1>6. ASSUME NEW r \in chatrooms,
             chatrooms' = RoomsWithout(r, u),
             num_chatrooms' = CountWithout(r, u),
             room' = TableWithout(r, u),
             sent' = SentTo(HasQuit(u, r, SERVER, "DEFAULT", Empty))
      PROVE  TypeOK'
    <2>1. /\ chatrooms' \subseteq RoomNode /\ num_chatrooms' \in Int
          /\ room' \in [RoomNode -> RoomNodes]
        BY <1>6, WithoutTypes DEF TypeOK
    <2>2. SERVER \in Sources /\ "DEFAULT" \in MessageTypes /\ Empty \in Names
        BY DEF SERVER, Sources, MessageTypes, Names
    <2>3. sent' \in [Conn -> Seq(Packets)]
        <3>1. \A c \in DOMAIN HasQuit(u, r, SERVER, "DEFAULT", Empty) :
                 HasQuit(u, r, SERVER, "DEFAULT", Empty)[c] \in Packets
            BY <2>2, HasQuitType
        <3> QED  BY <1>6, <3>1, SentToType
    <2> QED  BY <1>1, <1>2, <1>3, <1>4, <2>1, <2>3 DEF TypeOK
<1> QED  BY <1>5, <1>6 DEF server_disconnect_user, server_get_chatroom_by_user

-----------------------------------------------------------------------------
(* The server starts with the right types.                                   *)
LEMMA InitType == RegInit => TypeOK
BY DEF RegInit, TypeOK, user_node_init, UserNodes, chatroom_node_free, RoomNodes, Faults

(* Every step keeps them.                                                    *)
LEMMA StepType ==
    ASSUME TypeOK, [RegNext]_regvars
    PROVE  TypeOK'
<1>1. CASE UNCHANGED regvars
    BY <1>1 DEF regvars, tables, rooms, TypeOK
<1>2. ASSUME NEW u \in Conn, accept_user(u) \/ server_disconnect_user(u) \/ Handler(u)
      PROVE  TypeOK'
    <2>1. CASE accept_user(u)
        BY <2>1, AcceptType
    <2>2. CASE server_disconnect_user(u)
        BY <2>2, DisconnectType
    <2>3. CASE login_first(u)
        BY <2>3, AnswersType
    <2>4. CASE Nicknames(u)
        BY <2>4, AnswersType, NicknameNewType DEF Nicknames
    <2>5. CASE Messages(u)
        BY <2>5, MessagesType
    <2>6. CASE Chatrooms(u)
        BY <2>6, AnswersType, CreateType, JoinType, QuitType, MulticastSendType DEF Chatrooms
    <2>7. CASE Files(u)
        BY <2>7, FilesType
    <2> QED  BY <1>2, <2>1, <2>2, <2>3, <2>4, <2>5, <2>6, <2>7 DEF Handler
<1> QED  BY <1>1, <1>2 DEF RegNext

(* Whatever the requests and their order, every variable of the server keeps *)
(* its type: each handler of server.c writes only what the lists and packets *)
(* are declared to hold.                                                     *)
THEOREM RegistryTypeCorrect == RegSpec => []TypeOK
BY InitType, StepType, PTL DEF RegSpec

-----------------------------------------------------------------------------
(* The tables agree.  RoomsConsistent speaks of the variables; its inductive *)
(* core is about any list C of rooms with contents R, counter N and          *)
(* connected users U, so that the steps of a handler that leaves one room    *)
(* and enters another can be taken one at a time.                            *)

Consistent(C, R, N, U) ==
    /\ C \subseteq RoomNode
    /\ IsFiniteSet(C)
    /\ N = Cardinality(C)
    /\ R \in [RoomNode -> RoomNodes]
    /\ \A r \in C : /\ R[r].num_users = Cardinality(R[r].members)
                    /\ R[r].members # {}
                    /\ R[r].members \subseteq U
    /\ \A r, t \in C : R[r].name = R[t].name => r = t
    /\ \A r, t \in C : R[r].members \cap R[t].members # {} => r = t

InSome(C, R, c) == \E r \in C : c \in R[r].members

(* Rooms hold finitely many users.                                           *)
LEMMA MembersFinite ==
    ASSUME NEW R \in [RoomNode -> RoomNodes], NEW r \in RoomNode
    PROVE  IsFiniteSet(R[r].members)
<1>1. R[r].members \subseteq Conn
    BY DEF RoomNodes
<1> QED  BY <1>1, RegistryAssumption, FS_Subset

(* chatroom_node_init and server_add_chatroom_node.                          *)
LEMMA Opening ==
    ASSUME NEW C, NEW R, NEW N, NEW U, Consistent(C, R, N, U),
           NEW a \in RoomNode \ C, NEW n \in RoomName, NEW u \in Conn, u \in U,
           \A r \in C : R[r].name # n, ~InSome(C, R, u)
    PROVE  LET S == [R EXCEPT ![a] = chatroom_node_init(n, u)]
           IN  /\ Consistent(C \cup {a}, S, N + 1, U)
               /\ \A c : InSome(C \cup {a}, S, c) <=> c = u \/ InSome(C, R, c)
<1> DEFINE S == [R EXCEPT ![a] = chatroom_node_init(n, u)]
<1>1. S \in [RoomNode -> RoomNodes]
    BY NewNodeTypes DEF Consistent
<1>2. \A r \in C : S[r] = R[r]
    BY DEF Consistent
<1>3. S[a].name = n /\ S[a].members = {u} /\ S[a].num_users = 1
    BY DEF Consistent, chatroom_node_init
<1> HIDE DEF S
<1>4. IsFiniteSet(C \cup {a}) /\ Cardinality(C \cup {a}) = N + 1
    BY FS_AddElement DEF Consistent
<1>5. S[a].num_users = Cardinality(S[a].members)
    BY <1>3, FS_Singleton
<1>6. \A r \in C : u \notin R[r].members
    BY DEF InSome
<1>7. Consistent(C \cup {a}, S, N + 1, U)
    <2>1. \A r \in C \cup {a} : /\ S[r].num_users = Cardinality(S[r].members)
                                /\ S[r].members # {}
                                /\ S[r].members \subseteq U
        BY <1>2, <1>3, <1>5 DEF Consistent
    <2>2. \A r, t \in C \cup {a} : S[r].name = S[t].name => r = t
        BY <1>2, <1>3 DEF Consistent
    <2>3. \A r, t \in C \cup {a} : S[r].members \cap S[t].members # {} => r = t
        BY <1>2, <1>3, <1>6 DEF Consistent
    <2>4. C \cup {a} \subseteq RoomNode
        BY DEF Consistent
    <2> QED  BY <1>1, <1>4, <2>1, <2>2, <2>3, <2>4 DEF Consistent
<1>8. \A c : InSome(C \cup {a}, S, c) <=> c = u \/ InSome(C, R, c)
    BY <1>2, <1>3 DEF InSome
<1> QED  BY <1>7, <1>8 DEF S

(* chatroom_node_add_user_node.                                              *)
LEMMA Entering ==
    ASSUME NEW C, NEW R, NEW N, NEW U, Consistent(C, R, N, U),
           NEW t \in C, NEW u \in Conn, u \in U, ~InSome(C, R, u)
    PROVE  LET S == chatroom_node_add_user_node(R, t, u)
           IN  /\ Consistent(C, S, N, U)
               /\ \A c : InSome(C, S, c) <=> c = u \/ InSome(C, R, c)
<1> DEFINE S == chatroom_node_add_user_node(R, t, u)
<1>0. t \in RoomNode
    BY DEF Consistent
<1>1. S \in [RoomNode -> RoomNodes]
    BY <1>0, NodeTypes DEF Consistent
<1>2. \A r \in C \ {t} : S[r] = R[r]
    BY DEF Consistent, chatroom_node_add_user_node
<1>3. /\ S[t].name = R[t].name
      /\ S[t].members = R[t].members \cup {u}
      /\ S[t].num_users = R[t].num_users + 1
    BY <1>0 DEF Consistent, chatroom_node_add_user_node
<1> HIDE DEF S
<1>4. \A r \in C : u \notin R[r].members
    BY DEF InSome
<1>5. S[t].num_users = Cardinality(S[t].members)
    <2>1. IsFiniteSet(R[t].members) /\ R[t].num_users = Cardinality(R[t].members)
        BY <1>0, MembersFinite DEF Consistent
    <2>2. Cardinality(R[t].members \cup {u}) = Cardinality(R[t].members) + 1
        BY <1>4, <2>1, FS_AddElement
    <2> QED  BY <1>3, <2>1, <2>2
<1>6. Consistent(C, S, N, U)
    <2>1. \A r \in C : /\ S[r].num_users = Cardinality(S[r].members)
                      /\ S[r].members # {}
                      /\ S[r].members \subseteq U
        BY <1>2, <1>3, <1>5 DEF Consistent
    <2>2. \A r, q \in C : S[r].name = S[q].name => r = q
        BY <1>2, <1>3 DEF Consistent
    <2>3. \A r, q \in C : S[r].members \cap S[q].members # {} => r = q
        BY <1>2, <1>3, <1>4 DEF Consistent
    <2> QED  BY <1>1, <2>1, <2>2, <2>3 DEF Consistent
<1>7. \A c : InSome(C, S, c) <=> c = u \/ InSome(C, R, c)
    BY <1>2, <1>3 DEF InSome
<1> QED  BY <1>6, <1>7 DEF S

(* What u leaves behind in r: the room goes exactly when nobody is left.     *)
LEMMA Leaving ==
    ASSUME NEW r \in chatrooms, NEW u \in Conn, u \in room[r].members,
           NEW U, Consistent(chatrooms, room, num_chatrooms, U)
    PROVE  /\ Consistent(RoomsWithout(r, u), TableWithout(r, u), CountWithout(r, u), U \ {u})
           /\ \A c : InSome(RoomsWithout(r, u), TableWithout(r, u), c)
                        <=> c # u /\ InSome(chatrooms, room, c)
           /\ Deserted(r, u) <=> Remaining(r, u) = {}
           /\ \A t \in RoomsWithout(r, u) : TableWithout(r, u)[t].name = room[t].name
<1> DEFINE S == chatroom_node_remove_user_node(room, r, u)
<1>1. r \in RoomNode /\ S \in [RoomNode -> RoomNodes]
    BY NodeTypes DEF Consistent
<1>2. \A t \in chatrooms \ {r} : S[t] = room[t]
    BY DEF Consistent, chatroom_node_remove_user_node
<1>3. /\ S[r].name = room[r].name
      /\ S[r].members = Remaining(r, u)
      /\ S[r].num_users = room[r].num_users - 1
    BY <1>1 DEF Consistent, chatroom_node_remove_user_node, Remaining
<1>4. Deserted(r, u) <=> S[r].num_users = 0
    BY DEF Deserted
<1> HIDE DEF S
<1>5. S[r].num_users = Cardinality(S[r].members) /\ IsFiniteSet(S[r].members)
    <2>1. IsFiniteSet(room[r].members) /\ room[r].num_users = Cardinality(room[r].members)
        BY <1>1, MembersFinite DEF Consistent
    <2>2. /\ IsFiniteSet(room[r].members \ {u})
          /\ Cardinality(room[r].members \ {u}) = Cardinality(room[r].members) - 1
        BY <2>1, FS_RemoveElement
    <2> QED  BY <1>3, <2>1, <2>2 DEF Remaining
<1>6. Deserted(r, u) <=> Remaining(r, u) = {}
    BY <1>3, <1>4, <1>5, FS_EmptySet
<1>7. \A t \in chatrooms \ {r} : u \notin room[t].members
    BY DEF Consistent
<1>8. \A t \in RoomsWithout(r, u) : TableWithout(r, u)[t] = S[t]
    BY <1>1 DEF RoomsWithout, TableWithout, S
<1>9. RoomsWithout(r, u) \subseteq chatrooms
    BY DEF RoomsWithout
<1>10. \A t \in RoomsWithout(r, u) : t # r \/ Remaining(r, u) # {}
    BY <1>6 DEF RoomsWithout
<1>11. Consistent(RoomsWithout(r, u), TableWithout(r, u), CountWithout(r, u), U \ {u})
    <2>1. /\ IsFiniteSet(RoomsWithout(r, u))
          /\ CountWithout(r, u) = Cardinality(RoomsWithout(r, u))
        BY FS_RemoveElement DEF RoomsWithout, CountWithout, Consistent
    <2>2. TableWithout(r, u) \in [RoomNode -> RoomNodes]
        <3>1. chatroom_node_free \in RoomNodes
            BY DEF chatroom_node_free, RoomNodes
        <3>2. [S EXCEPT ![r] = chatroom_node_free] \in [RoomNode -> RoomNodes]
            BY <1>1, <3>1
        <3> QED  BY <1>1, <3>2 DEF TableWithout, S
    <2>3. \A t \in RoomsWithout(r, u) : /\ S[t].num_users = Cardinality(S[t].members)
                                        /\ S[t].members # {}
                                        /\ S[t].members \subseteq U \ {u}
        <3>1. \A t \in RoomsWithout(r, u) \ {r} : /\ S[t].num_users = Cardinality(S[t].members)
                                                  /\ S[t].members # {}
                                                  /\ S[t].members \subseteq U \ {u}
            BY <1>2, <1>7, <1>9 DEF Consistent
        <3>2. Remaining(r, u) \subseteq U \ {u}
            BY DEF Consistent, Remaining
        <3>3. S[r].num_users = Cardinality(S[r].members) /\ S[r].members = Remaining(r, u)
            BY <1>3, <1>5
        <3> QED  BY <1>10, <3>1, <3>2, <3>3
    <2>4. \A t, q \in RoomsWithout(r, u) : S[t].name = S[q].name => t = q
        BY <1>2, <1>3, <1>9 DEF Consistent
    <2>5. \A t, q \in RoomsWithout(r, u) : S[t].members \cap S[q].members # {} => t = q
        BY <1>2, <1>3, <1>9 DEF Consistent, Remaining
    <2>6. RoomsWithout(r, u) \subseteq RoomNode
        BY <1>9 DEF Consistent
    <2> QED  BY <1>8, <2>1, <2>2, <2>3, <2>4, <2>5, <2>6 DEF Consistent
<1>12. \A c : InSome(RoomsWithout(r, u), TableWithout(r, u), c)
                 <=> c # u /\ InSome(chatrooms, room, c)
    <2>1. \A c : InSome(RoomsWithout(r, u), TableWithout(r, u), c)
                    => c # u /\ InSome(chatrooms, room, c)
        BY <1>2, <1>3, <1>7, <1>8, <1>9 DEF InSome, Remaining
    <2>2. ASSUME NEW c, c # u, NEW t \in chatrooms, c \in room[t].members
          PROVE  t \in RoomsWithout(r, u) /\ c \in S[t].members
        BY <1>2, <1>3, <1>6, <2>2 DEF RoomsWithout, Remaining
    <2> QED  BY <1>8, <2>1, <2>2 DEF InSome
<1>13. \A t \in RoomsWithout(r, u) : TableWithout(r, u)[t].name = room[t].name
    BY <1>2, <1>3, <1>8, <1>9
<1> QED  BY <1>6, <1>11, <1>12, <1>13

-----------------------------------------------------------------------------
(* The inductive invariant: the named invariants of Registry, with the       *)
(* finiteness of the list of rooms.                                          *)

IInv ==
    /\ TypeOK
    /\ Consistent(chatrooms, room, num_chatrooms, users)
    /\ num_users = Cardinality(users)
    /\ WithinCapacity
    /\ FlagMatchesMembership
    /\ NicknamesUnique
    /\ NoRoomFault

(* The flags in terms of membership of some room.                            *)
LEMMA Flags ==
    FlagMatchesMembership <=>
        \A c \in users : /\ user[c].is_in_chatroom <=> InSome(chatrooms, room, c)
                         /\ user[c].is_in_chatroom => user[c].is_logged_in
BY DEF FlagMatchesMembership, InSome, server_get_chatroom_by_user

(* The inductive invariant implies the invariants the runs check.            *)
LEMMA IInvImplies ==
    ASSUME IInv
    PROVE  /\ RoomsConsistent /\ WithinCapacity /\ FlagMatchesMembership
           /\ NicknamesUnique /\ NoRoomFault
BY DEF IInv, Consistent, RoomsConsistent, CountsRight, NoneDeserted, RoomNamesUnique, OneRoomEach

(* So does the server.                                                       *)
LEMMA UsersFinite == ASSUME TypeOK PROVE IsFiniteSet(users)
BY RegistryAssumption, FS_Subset DEF TypeOK

(* Steps that leave the tables alone.                                        *)
LEMMA TablesAlone ==
    ASSUME IInv, TypeOK', UNCHANGED tables, NoRoomFault'
    PROVE  IInv'
BY DEF IInv, Consistent, WithinCapacity, FlagMatchesMembership, server_get_chatroom_by_user,
       NicknamesUnique, tables, rooms

(* The empty server satisfies the inductive invariant.                       *)
LEMMA InitIInv == RegInit => IInv
<1> SUFFICES ASSUME RegInit PROVE IInv
    OBVIOUS
<1>1. TypeOK
    BY InitType
<1>2. Consistent(chatrooms, room, num_chatrooms, users)
    BY <1>1, FS_EmptySet DEF RegInit, Consistent, TypeOK
<1>3. num_users = Cardinality(users) /\ WithinCapacity
    BY FS_EmptySet, RegistryAssumption DEF RegInit, WithinCapacity
<1>4. FlagMatchesMembership /\ NicknamesUnique /\ NoRoomFault
    BY DEF RegInit, FlagMatchesMembership, NicknamesUnique, NoRoomFault
<1> QED  BY <1>1, <1>2, <1>3, <1>4 DEF IInv

(* NICKNAME_NEW: a free nickname stays its user's alone.                     *)
LEMMA NicknameNewIInv ==
    ASSUME IInv, TypeOK', NEW u \in Conn, NEW n \in Nick, server_handle_nickname_new_req(u, n)
    PROVE  IInv'
<1>1. CASE UNCHANGED user
    BY <1>1, TablesAlone DEF server_handle_nickname_new_req, tables, NoRoomFault, IInv
<1>2. CASE /\ nickname_unused(u, n)
           /\ user' = [user EXCEPT ![u].nickname = n, ![u].is_logged_in = TRUE]
    <2>1. UNCHANGED <<users, num_users, chatrooms, room, num_chatrooms, fault>>
        BY DEF server_handle_nickname_new_req, rooms
    <2>2. /\ user'[u].nickname = n /\ user'[u].is_logged_in
          /\ user'[u].is_in_chatroom = user[u].is_in_chatroom
          /\ \A c \in Conn \ {u} : user'[c] = user[c]
        BY <1>2 DEF IInv, TypeOK, UserNodes
    <2>3. \A c \in users : user[c].nickname # n
        BY <1>2 DEF nickname_unused, server_get_user_by_name
    <2>4. NicknamesUnique'
        <3>1. n # Empty
            BY RegistryAssumption
        <3>u. users' = users /\ users \subseteq Conn /\ NicknamesUnique
            BY <2>1 DEF IInv, TypeOK
        <3>2. \A c \in users' : user'[c].is_logged_in <=> user'[c].nickname # Empty
            BY <2>2, <3>u, <3>1 DEF NicknamesUnique
        <3>3. ASSUME NEW c \in users', NEW d \in users',
                     user'[c].nickname = user'[d].nickname, user'[c].is_logged_in
              PROVE  c = d
            <4>1. CASE c = u \/ d = u
                BY <2>2, <2>3, <3>u, <3>3, <4>1
            <4>2. CASE c # u /\ d # u
                BY <2>2, <3>u, <3>3, <4>2 DEF NicknamesUnique
            <4> QED  BY <4>1, <4>2
        <3> QED  BY <3>2, <3>3 DEF NicknamesUnique
    <2>5. \A c \in Conn : /\ user'[c].is_in_chatroom = user[c].is_in_chatroom
                          /\ user[c].is_logged_in => user'[c].is_logged_in
        BY <2>2
    <2>6. \A c \in users : /\ user[c].is_in_chatroom <=> server_get_chatroom_by_user(c) # {}
                           /\ user[c].is_in_chatroom => user[c].is_logged_in
        BY DEF IInv, FlagMatchesMembership
    <2>7. \A c : server_get_chatroom_by_user(c)' = server_get_chatroom_by_user(c)
        BY <2>1 DEF server_get_chatroom_by_user
    <2>8. users' = users /\ users \subseteq Conn
        BY <2>1 DEF IInv, TypeOK
    <2>9. FlagMatchesMembership'
        <3> SUFFICES ASSUME NEW c \in users'
                     PROVE  /\ user'[c].is_in_chatroom <=> server_get_chatroom_by_user(c)' # {}
                            /\ user'[c].is_in_chatroom => user'[c].is_logged_in
            BY DEF FlagMatchesMembership
        <3> QED  BY <2>5, <2>6, <2>7, <2>8
    <2> QED  BY <2>1, <2>4, <2>9 DEF IInv, WithinCapacity, NoRoomFault, Consistent
<1> QED  BY <1>1, <1>2 DEF server_handle_nickname_new_req

(* A user enters or leaves a room, and its flag follows.                     *)
LEMMA Moving ==
    ASSUME IInv, TypeOK', NEW u \in Conn, NEW b \in BOOLEAN, user[u].is_logged_in,
           user' = [user EXCEPT ![u].is_in_chatroom = b],
           UNCHANGED <<users, num_users, fault>>,
           Consistent(chatrooms', room', num_chatrooms', users),
           \A c : InSome(chatrooms', room', c)
                    <=> IF c = u THEN b ELSE InSome(chatrooms, room, c)
    PROVE  IInv'
<1>1. /\ user'[u].nickname = user[u].nickname /\ user'[u].is_logged_in = user[u].is_logged_in
      /\ user'[u].is_in_chatroom = b
      /\ \A c \in Conn \ {u} : user'[c] = user[c]
    <2>1. user \in [Conn -> UserNodes]
        BY DEF IInv, TypeOK
    <2>2. user'[u] = [user[u] EXCEPT !.is_in_chatroom = b]
        BY <2>1
    <2>3. user[u] \in UserNodes
        BY <2>1
    <2> QED  BY <2>1, <2>2, <2>3 DEF UserNodes
<1>2. NicknamesUnique'
    <2>1. \A c \in Conn : /\ user'[c].nickname = user[c].nickname
                          /\ user'[c].is_logged_in = user[c].is_logged_in
        BY <1>1
    <2>2. users' \subseteq Conn
        BY DEF IInv, TypeOK
    <2>3. NicknamesUnique
        BY DEF IInv
    <2> QED  BY <2>1, <2>2, <2>3 DEF NicknamesUnique
<1>3. \A c \in users : user[c].is_in_chatroom <=> InSome(chatrooms, room, c)
    BY Flags DEF IInv
<1>4. \A c \in users' : /\ user'[c].is_in_chatroom <=> InSome(chatrooms', room', c)
                        /\ user'[c].is_in_chatroom => user'[c].is_logged_in
    BY <1>1, <1>3, Flags DEF IInv, TypeOK
<1>5. FlagMatchesMembership'
    BY <1>4 DEF FlagMatchesMembership, InSome, server_get_chatroom_by_user
<1>6. Consistent(chatrooms, room, num_chatrooms, users)'
    BY DEF Consistent
<1> QED  BY <1>2, <1>5, <1>6 DEF IInv, WithinCapacity, NoRoomFault

(* accept: a new user is in no room and has no nickname.                     *)
LEMMA AcceptIInv ==
    ASSUME IInv, TypeOK', NEW u \in Conn, accept_user(u)
    PROVE  IInv'
<1>1. CASE UNCHANGED <<users, user, num_users>>
    BY <1>1, TablesAlone DEF accept_user, tables, NoRoomFault, IInv
<1>2. CASE Admits /\ users' = users \cup {u} /\ user' = [user EXCEPT ![u] = user_node_init]
           /\ num_users' = num_users + 1
    <2>1. UNCHANGED <<chatrooms, room, num_chatrooms, fault>> /\ u \notin users
        BY DEF accept_user, rooms
    <2>2. num_users' = Cardinality(users') /\ WithinCapacity'
        <3>1. Cardinality(users \cup {u}) = Cardinality(users) + 1
            BY <2>1, UsersFinite, FS_AddElement DEF IInv
        <3>2. num_users \in Int /\ MaxUsers \in Nat
            BY RegistryAssumption DEF IInv, TypeOK
        <3> QED  BY <1>2, <3>1, <3>2 DEF IInv, WithinCapacity, Admits
    <2>3. Consistent(chatrooms, room, num_chatrooms, users)'
        BY <1>2, <2>1 DEF IInv, Consistent
    <2>4. /\ user'[u].nickname = Empty /\ ~user'[u].is_logged_in /\ ~user'[u].is_in_chatroom
          /\ \A c \in users : user'[c] = user[c]
        BY <1>2, <2>1 DEF IInv, TypeOK, user_node_init
    <2>5. NicknamesUnique'
        BY <1>2, <2>4 DEF IInv, NicknamesUnique
    <2>6. ~InSome(chatrooms, room, u)
        BY <2>1 DEF IInv, Consistent, InSome
    <2>7. \A c \in users' : /\ user'[c].is_in_chatroom <=> InSome(chatrooms, room, c)
                            /\ user'[c].is_in_chatroom => user'[c].is_logged_in
        BY <1>2, <2>4, <2>6, Flags DEF IInv
    <2>8. FlagMatchesMembership'
        BY <2>1, <2>7 DEF FlagMatchesMembership, InSome, server_get_chatroom_by_user
    <2> QED  BY <2>1, <2>2, <2>3, <2>5, <2>8 DEF IInv, NoRoomFault
<1> QED  BY <1>1, <1>2 DEF accept_user

(* What the two lookups of a room return.                                    *)
LEMMA RoomLookups ==
    ASSUME NEW u
    PROVE  /\ server_get_chatroom_by_user(u) = {} <=> ~InSome(chatrooms, room, u)
           /\ \A r \in server_get_chatroom_by_user(u) : r \in chatrooms /\ u \in room[r].members
           /\ \A n : \A t \in Known(n) : t \in chatrooms /\ room[t].name = n
BY DEF server_get_chatroom_by_user, InSome, Known, server_get_chatroom_by_name

(* Rooms of users of U are rooms of users of a larger set.                   *)
LEMMA Widening ==
    ASSUME NEW C, NEW R, NEW N, NEW U, NEW V, Consistent(C, R, N, U), U \subseteq V
    PROVE  Consistent(C, R, N, V)
BY DEF Consistent

(* /create: a room is opened, after another has been left or not.            *)
LEMMA CreateIInv ==
    ASSUME IInv, TypeOK', NEW u \in Conn, NEW n \in RoomName,
           server_handle_multicast_create_req(u, n)
    PROVE  IInv'
<1>u. /\ UNCHANGED <<users, num_users, fault>> /\ u \in users
      /\ "MULTICAST_CREATE" # "NICKNAME_NEW" /\ user[u].is_logged_in
    BY DEF server_handle_multicast_create_req, Request
<1>1. CASE UNCHANGED <<user, rooms>>
    BY <1>u, <1>1, TablesAlone DEF tables, NoRoomFault, IInv
<1>2. ASSUME server_get_chatroom_by_name(n) = {}, server_get_chatroom_by_user(u) = {},
             NEW a \in RoomNode \ chatrooms,
             chatrooms' = chatrooms \cup {a},
             room' = [room EXCEPT ![a] = chatroom_node_init(n, u)],
             num_chatrooms' = num_chatrooms + 1,
             user' = [user EXCEPT ![u].is_in_chatroom = TRUE]
      PROVE  IInv'
    <2>1. \A r \in chatrooms : room[r].name # n
        BY <1>2 DEF server_get_chatroom_by_name
    <2>2. ~InSome(chatrooms, room, u)
        BY <1>2, RoomLookups
    <2>3. /\ Consistent(chatrooms', room', num_chatrooms', users)
          /\ \A c : InSome(chatrooms', room', c) <=> c = u \/ InSome(chatrooms, room, c)
        BY <1>u, <1>2, <2>1, <2>2, Opening DEF IInv
    <2>m. \A c : InSome(chatrooms', room', c)
                   <=> IF c = u THEN TRUE ELSE InSome(chatrooms, room, c)
        BY <2>3
    <2> QED  BY <1>u, <1>2, <2>3, <2>m, Moving
<1>3. ASSUME server_get_chatroom_by_name(n) = {},
             NEW r \in server_get_chatroom_by_user(u), NEW a \in RoomNode \ RoomsWithout(r, u),
             chatrooms' = RoomsWithout(r, u) \cup {a},
             room' = [TableWithout(r, u) EXCEPT ![a] = chatroom_node_init(n, u)],
             num_chatrooms' = CountWithout(r, u) + 1,
             user' = [user EXCEPT ![u].is_in_chatroom = TRUE]
      PROVE  IInv'
    <2> DEFINE C == RoomsWithout(r, u)
               R == TableWithout(r, u)
               N == CountWithout(r, u)
    <2>1. r \in chatrooms /\ u \in room[r].members
        BY <1>3, RoomLookups
    <2>2. /\ Consistent(C, R, N, users \ {u})
          /\ \A c : InSome(C, R, c) <=> c # u /\ InSome(chatrooms, room, c)
          /\ \A t \in C : R[t].name = room[t].name
        BY <2>1, Leaving DEF IInv
    <2>3. Consistent(C, R, N, users)
        BY <2>2, Widening
    <2>4. \A t \in C : R[t].name # n
        BY <1>3, <2>2 DEF server_get_chatroom_by_name, RoomsWithout
    <2>5. ~InSome(C, R, u)
        BY <2>2
    <2> HIDE DEF C, R, N
    <2>6. LET S == [R EXCEPT ![a] = chatroom_node_init(n, u)]
          IN  /\ Consistent(C \cup {a}, S, N + 1, users)
              /\ \A c : InSome(C \cup {a}, S, c) <=> c = u \/ InSome(C, R, c)
        BY <1>u, <1>3, <2>3, <2>4, <2>5, Opening DEF C
    <2>7. /\ Consistent(chatrooms', room', num_chatrooms', users)
          /\ \A c : InSome(chatrooms', room', c) <=> c = u \/ InSome(chatrooms, room, c)
        BY <1>3, <2>2, <2>6 DEF C, R, N
    <2>m. \A c : InSome(chatrooms', room', c)
                   <=> IF c = u THEN TRUE ELSE InSome(chatrooms, room, c)
        BY <2>7
    <2> QED  BY <1>u, <1>3, <2>7, <2>m, Moving
<1> QED  BY <1>1, <1>2, <1>3 DEF server_handle_multicast_create_req

(* /join: a room is entered, after another has been left or not.             *)
LEMMA JoinIInv ==
    ASSUME IInv, TypeOK', NEW u \in Conn, NEW n, server_handle_multicast_join_req(u, n)
    PROVE  IInv'
<1>u. /\ UNCHANGED <<users, num_users, fault>> /\ u \in users
      /\ "MULTICAST_JOIN" # "NICKNAME_NEW" /\ user[u].is_logged_in
    BY DEF server_handle_multicast_join_req, Request
<1>1. CASE UNCHANGED <<user, rooms>>
    BY <1>u, <1>1, TablesAlone DEF tables, NoRoomFault, IInv
<1>2. ASSUME server_get_chatroom_by_user(u) = {}, NEW t \in Known(n),
             room' = chatroom_node_add_user_node(room, t, u),
             user' = [user EXCEPT ![u].is_in_chatroom = TRUE],
             UNCHANGED <<chatrooms, num_chatrooms>>
      PROVE  IInv'
    <2>1. t \in chatrooms /\ ~InSome(chatrooms, room, u)
        BY <1>2, RoomLookups
    <2>2. /\ Consistent(chatrooms', room', num_chatrooms', users)
          /\ \A c : InSome(chatrooms', room', c) <=> c = u \/ InSome(chatrooms, room, c)
        BY <1>u, <1>2, <2>1, Entering DEF IInv
    <2>m. \A c : InSome(chatrooms', room', c)
                   <=> IF c = u THEN TRUE ELSE InSome(chatrooms, room, c)
        BY <2>2
    <2> QED  BY <1>u, <1>2, <2>2, <2>m, Moving
<1>3. ASSUME NEW t \in Known(n), NEW r \in server_get_chatroom_by_user(u), r # t,
             chatrooms' = RoomsWithout(r, u),
             num_chatrooms' = CountWithout(r, u),
             room' = chatroom_node_add_user_node(TableWithout(r, u), t, u),
             user' = [user EXCEPT ![u].is_in_chatroom = TRUE]
      PROVE  IInv'
    <2> DEFINE C == RoomsWithout(r, u)
               R == TableWithout(r, u)
               N == CountWithout(r, u)
    <2>1. t \in chatrooms /\ r \in chatrooms /\ u \in room[r].members
        BY <1>3, RoomLookups
    <2>2. /\ Consistent(C, R, N, users \ {u})
          /\ \A c : InSome(C, R, c) <=> c # u /\ InSome(chatrooms, room, c)
        BY <2>1, Leaving DEF IInv
    <2>3. Consistent(C, R, N, users)
        BY <2>2, Widening
    <2>4. t \in C /\ ~InSome(C, R, u)
        BY <1>3, <2>1, <2>2 DEF RoomsWithout
    <2> HIDE DEF C, R, N
    <2>5. LET S == chatroom_node_add_user_node(R, t, u)
          IN  /\ Consistent(C, S, N, users)
              /\ \A c : InSome(C, S, c) <=> c = u \/ InSome(C, R, c)
        BY <1>u, <2>3, <2>4, Entering
    <2>6. /\ Consistent(chatrooms', room', num_chatrooms', users)
          /\ \A c : InSome(chatrooms', room', c) <=> c = u \/ InSome(chatrooms, room, c)
        BY <1>3, <2>2, <2>5 DEF C, R, N
    <2>m. \A c : InSome(chatrooms', room', c)
                   <=> IF c = u THEN TRUE ELSE InSome(chatrooms, room, c)
        BY <2>6
    <2> QED  BY <1>u, <1>3, <2>6, <2>m, Moving
<1> QED  BY <1>1, <1>2, <1>3 DEF server_handle_multicast_join_req

(* /quit: a room is left.                                                    *)
LEMMA QuitIInv ==
    ASSUME IInv, TypeOK', NEW u \in Conn, NEW n, server_handle_multicast_quit_req(u, n)
    PROVE  IInv'
<1>u. /\ UNCHANGED <<users, num_users, fault>> /\ u \in users
      /\ "MULTICAST_QUIT" # "NICKNAME_NEW" /\ user[u].is_logged_in
    BY DEF server_handle_multicast_quit_req, Request
<1>1. CASE UNCHANGED <<user, rooms>>
    BY <1>u, <1>1, TablesAlone DEF tables, NoRoomFault, IInv
<1>2. ASSUME NEW r \in Known(n), u \in room[r].members,
             chatrooms' = RoomsWithout(r, u),
             num_chatrooms' = CountWithout(r, u),
             room' = TableWithout(r, u),
             user' = [user EXCEPT ![u].is_in_chatroom = FALSE]
      PROVE  IInv'
    <2>1. /\ Consistent(chatrooms', room', num_chatrooms', users \ {u})
          /\ \A c : InSome(chatrooms', room', c) <=> c # u /\ InSome(chatrooms, room, c)
        BY <1>2, RoomLookups, Leaving DEF IInv
    <2>2. Consistent(chatrooms', room', num_chatrooms', users)
        BY <2>1, Widening
    <2>m. \A c : InSome(chatrooms', room', c)
                   <=> IF c = u THEN FALSE ELSE InSome(chatrooms, room, c)
        BY <2>1
    <2> QED  BY <1>u, <1>2, <2>2, <2>m, Moving
<1> QED  BY <1>1, <1>2 DEF server_handle_multicast_quit_req

(* A message goes through the pointer to the room only when there is one.    *)
LEMMA MulticastSendIInv ==
    ASSUME IInv, TypeOK', NEW u \in Conn, NEW m, server_handle_multicast_send_req(u, m)
    PROVE  IInv'
<1>1. u \in users
    BY DEF server_handle_multicast_send_req, Request
<1>2. user[u].is_in_chatroom => server_get_chatroom_by_user(u) # {}
    BY <1>1 DEF IInv, FlagMatchesMembership
<1>3. NoRoomFault'
    BY <1>2 DEF server_handle_multicast_send_req, Through, NoRoomFault, IInv
<1> QED  BY <1>3, TablesAlone DEF server_handle_multicast_send_req

(* A disconnection leaves the room, if any, before the user is freed.        *)
LEMMA DisconnectIInv ==
    ASSUME IInv, TypeOK', NEW u \in Conn, server_disconnect_user(u)
    PROVE  IInv'
<1>u. /\ u \in users /\ users' = users \ {u} /\ num_users' = num_users - 1
      /\ user' = [user EXCEPT ![u] = user_node_init]
    BY DEF server_disconnect_user
<1>1. num_users' = Cardinality(users') /\ WithinCapacity'
    <2>1. Cardinality(users \ {u}) = Cardinality(users) - 1
        BY <1>u, UsersFinite, FS_RemoveElement DEF IInv
    <2>2. num_users \in Int /\ MaxUsers \in Nat
        BY RegistryAssumption DEF IInv, TypeOK
    <2> QED  BY <1>u, <2>1, <2>2 DEF IInv, WithinCapacity
<1>2. \A c \in users' : user'[c] = user[c]
    BY <1>u DEF IInv, TypeOK
<1>3. NicknamesUnique'
    BY <1>u, <1>2 DEF IInv, NicknamesUnique
<1>4. user[u].is_in_chatroom <=> InSome(chatrooms, room, u)
    BY <1>u, Flags DEF IInv
<1>5. /\ NoRoomFault'
      /\ Consistent(chatrooms', room', num_chatrooms', users')
      /\ \A c : InSome(chatrooms', room', c) <=> c # u /\ InSome(chatrooms, room, c)
    <2>1. CASE ~user[u].is_in_chatroom
        <3>1. UNCHANGED <<chatrooms, room, num_chatrooms, fault>>
            BY <2>1 DEF server_disconnect_user, rooms
        <3>2. \A r \in chatrooms : u \notin room[r].members
            BY <1>4, <2>1 DEF InSome
        <3>3. Consistent(chatrooms', room', num_chatrooms', users')
            BY <1>u, <3>1, <3>2 DEF IInv, Consistent
        <3> QED  BY <3>1, <3>2, <3>3 DEF IInv, NoRoomFault, InSome
    <2>2. CASE user[u].is_in_chatroom
        <3>1. server_get_chatroom_by_user(u) # {}
            BY <1>4, <2>2, RoomLookups
        <3>2. PICK r \in server_get_chatroom_by_user(u) :
                 /\ chatrooms' = RoomsWithout(r, u)
                 /\ num_chatrooms' = CountWithout(r, u)
                 /\ room' = TableWithout(r, u)
            BY <2>2, <3>1 DEF server_disconnect_user
        <3>3. NoRoomFault'
            BY <2>2, <3>1 DEF server_disconnect_user, Through, NoRoomFault
        <3> QED  BY <1>u, <3>2, <3>3, RoomLookups, Leaving DEF IInv
    <2> QED  BY <2>1, <2>2
<1>6. \A c \in users' : /\ user'[c].is_in_chatroom <=> InSome(chatrooms', room', c)
                        /\ user'[c].is_in_chatroom => user'[c].is_logged_in
    BY <1>u, <1>2, <1>5, Flags DEF IInv
<1>7. FlagMatchesMembership'
    BY <1>6 DEF FlagMatchesMembership, InSome, server_get_chatroom_by_user
<1>8. Consistent(chatrooms, room, num_chatrooms, users)'
    BY <1>5 DEF Consistent
<1> QED  BY <1>1, <1>3, <1>5, <1>7, <1>8 DEF IInv

(* Every step keeps the inductive invariant.                                 *)
LEMMA StepIInv ==
    ASSUME IInv, [RegNext]_regvars
    PROVE  IInv'
<1>t. TypeOK'
    BY StepType DEF IInv
<1>1. CASE UNCHANGED regvars
    BY <1>t, <1>1, TablesAlone DEF regvars, NoRoomFault, IInv
<1>2. ASSUME NEW u \in Conn, accept_user(u) \/ server_disconnect_user(u) \/ Handler(u)
      PROVE  IInv'
    <2>1. CASE accept_user(u)
        BY <1>t, <2>1, AcceptIInv
    <2>2. CASE server_disconnect_user(u)
        BY <1>t, <2>2, DisconnectIInv
    <2>3. CASE UNCHANGED <<tables, fault>>
        BY <1>t, <2>3, TablesAlone DEF NoRoomFault, IInv
    <2>4. CASE login_first(u)
        BY <2>3, <2>4 DEF login_first
    <2>5. CASE Nicknames(u)
        BY <1>t, <2>3, <2>5, NicknameNewIInv
           DEF Nicknames, server_handle_nickname_list_req, server_handle_nickname_infos_req
    <2>6. CASE Messages(u)
        BY <2>3, <2>6 DEF Messages, server_handle_broadcast_send_req,
                          server_handle_unicast_send_req
    <2>7. CASE Chatrooms(u)
        BY <1>t, <2>3, <2>7, CreateIInv, JoinIInv, QuitIInv, MulticastSendIInv
           DEF Chatrooms, server_handle_multicast_list_req
    <2>8. CASE Files(u)
        <3>1. CASE \E n \in Nick, from \in aka[u], m \in Body :
                      server_handle_file_req(u, from, n, m)
            BY <2>3, <3>1 DEF server_handle_file_req
        <3>2. ASSUME NEW type, NEW packet, Answer(u, type, packet)
              PROVE  IInv'
            <4>1. UNCHANGED tables /\ NoRoomFault'
                BY <3>2 DEF Answer, Through, NoRoomFault
            <4> QED  BY <1>t, <4>1, TablesAlone
        <3> QED  BY <2>8, <3>1, <3>2 DEF Files, server_handle_file_accept_res,
                                        server_handle_file_reject_req
    <2> QED  BY <1>2, <2>1, <2>2, <2>4, <2>5, <2>6, <2>7, <2>8 DEF Handler
<1> QED  BY <1>1, <1>2 DEF RegNext

(* The inductive invariant holds in every reachable state.                   *)
THEOREM RegistryInvariant == RegSpec => []IInv
BY InitIInv, StepIInv, PTL DEF RegSpec

(* The counters, lists and rooms of the server agree after any requests in   *)
(* any order, so a lookup that trusts a counter never goes wrong and no list *)
(* runs through a freed user.                                                *)
THEOREM RegistryConsistent == RegSpec => []RoomsConsistent
BY RegistryInvariant, IInvImplies, PTL

(* The flag that MULTICAST_SEND and a disconnection trust is never wrong.    *)
THEOREM RegistryFlags == RegSpec => []FlagMatchesMembership
BY RegistryInvariant, IInvImplies, PTL

(* No two users who have logged in ever share a nickname.                    *)
THEOREM RegistryNicknames == RegSpec => []NicknamesUnique
BY RegistryInvariant, IInvImplies, PTL

(* The users never outnumber the slots main.c has for them.                  *)
THEOREM RegistryCapacity == RegSpec => []WithinCapacity
BY RegistryInvariant, IInvImplies, PTL

(* The pointers of a user's room that the code does not test are never NULL. *)
THEOREM RegistryNoRoomFault == RegSpec => []NoRoomFault
BY RegistryInvariant, IInvImplies, PTL

=============================================================================
