-------------------------------- MODULE Lists --------------------------------
(***************************************************************************)
(* The server's tables as the lists they are: user_node and chatroom_node  *)
(* in memory that malloc gives out and free takes back, linked through     *)
(* their own fields, a user through one field in the list of the server    *)
(* and through another in that of a room.                                  *)
(*                                                                         *)
(* A handler of server.c is here the calls it makes into the lists, and of *)
(* /who and /channel_list the text they print of a list, whose characters  *)
(* are counted, not looked into.  Names and packets are in Registry.       *)
(***************************************************************************)
EXTENDS Naturals, FiniteSets, Sequences, SequencesExt

CONSTANTS
    UserNode,  \* addresses of struct user_node
    RoomNode,  \* addresses of struct chatroom_node
    NULL,
    MSG_LEN,   \* the length of the array a list is printed in
    Heading,   \* characters of the heading
    NameLen    \* the length of the longest name

ASSUME ListsAssumption ==
    /\ NameLen \in Nat
    /\ Heading \in Nat \ {0}
    /\ MSG_LEN \in Nat /\ Heading < MSG_LEN - 1
    /\ IsFiniteSet(UserNode) /\ IsFiniteSet(RoomNode)
    /\ NULL \notin UserNode \cup RoomNode
    /\ UserNode \cap RoomNode = {}

VARIABLES
    server, \* struct server, its lists and counts
    user,   \* the fields of each struct user_node
    room,   \* the fields of each struct chatroom_node
    heap    \* the addresses in use

vars == <<server, user, room, heap>>
memory == [server |-> server, user |-> user, room |-> room, heap |-> heap]

(* A node that malloc has not given out holds anything: what it was.         *)
Fresh == [is_in_chatroom |-> 0, next_in_server |-> NULL, next_in_chatroom |-> NULL]
NoRoom == [user_head |-> NULL, num_users |-> 0, next |-> NULL]

-----------------------------------------------------------------------------
(* Lists.  The nodes of a list in order; with a cycle in it, more than there *)
(* are addresses.                                                           *)

Chain(head, next) ==
    LET walk[k \in 0..Cardinality(DOMAIN next)] ==
            IF k = 0 THEN IF head = NULL THEN <<>> ELSE <<head>>
            ELSE LET s == walk[k - 1]
                 IN  IF s = <<>> \/ Len(s) # k \/ next[Last(s)] = NULL THEN s
                     ELSE Append(s, next[Last(s)])
    IN  walk[Cardinality(DOMAIN next)]

UsersIn(m) == Chain(m.server.user_head, [u \in UserNode |-> m.user[u].next_in_server])
RoomsIn(m) == Chain(m.server.chatroom_head, [r \in RoomNode |-> m.room[r].next])
Members(m, r) == Chain(m.room[r].user_head, [u \in UserNode |-> m.user[u].next_in_chatroom])

(* The node whose link leads to x, for the loops that look for one.          *)
Before(s, x) == {s[k] : k \in {j \in 1..(Len(s) - 1) : s[j + 1] = x}}

-----------------------------------------------------------------------------
(* The functions of server.c and chatroom_node.c on the lists, from memory   *)
(* to memory.                                                               *)

Freed(m, x) == [m EXCEPT !.heap = @ \ {x}]

server_add_user_node(m, u) ==
    [m EXCEPT !.user[u].next_in_server = m.server.user_head,
              !.server.user_head = u,
              !.server.num_users = @ + 1]

server_remove_user_node(m, u) ==
    IF m.server.user_head = u
    THEN Freed([m EXCEPT !.server.user_head = m.user[u].next_in_server,
                         !.server.num_users = @ - 1], u)
    ELSE IF Before(UsersIn(m), u) = {} THEN m
    ELSE LET current == CHOOSE v \in Before(UsersIn(m), u) : TRUE
         IN  Freed([m EXCEPT !.user[current].next_in_server = m.user[u].next_in_server,
                             !.server.num_users = @ - 1], u)

server_add_chatroom_node(m, r) ==
    [m EXCEPT !.room[r].next = m.server.chatroom_head,
              !.server.chatroom_head = r,
              !.server.num_chatrooms = @ + 1]

server_remove_chatroom_node(m, r) ==
    IF m.server.chatroom_head = r
    THEN Freed([m EXCEPT !.server.chatroom_head = m.room[r].next,
                         !.server.num_chatrooms = @ - 1], r)
    ELSE IF Before(RoomsIn(m), r) = {} THEN m
    ELSE LET current == CHOOSE a \in Before(RoomsIn(m), r) : TRUE
         IN  Freed([m EXCEPT !.room[current].next = m.room[r].next,
                             !.server.num_chatrooms = @ - 1], r)

chatroom_node_add_user_node(m, r, u) ==
    [m EXCEPT !.user[u].next_in_chatroom = m.room[r].user_head,
              !.room[r].user_head = u,
              !.room[r].num_users = @ + 1,
              !.user[u].is_in_chatroom = 1]

chatroom_node_remove_user_node_HeadOnly(m, r, u) ==
    [m EXCEPT !.room[r].user_head = m.user[u].next_in_chatroom,
              !.room[r].num_users = @ - 1,
              !.user[u].is_in_chatroom = 0]
chatroom_node_remove_user_node(m, r, u) ==
    IF m.room[r].user_head = u
    THEN [m EXCEPT !.room[r].user_head = m.user[u].next_in_chatroom,
                   !.room[r].num_users = @ - 1,
                   !.user[u].is_in_chatroom = 0]
    ELSE IF Before(Members(m, r), u) = {} THEN m
    ELSE LET current == CHOOSE v \in Before(Members(m, r), u) : TRUE
         IN  [m EXCEPT !.user[current].next_in_chatroom = m.user[u].next_in_chatroom,
                       !.room[r].num_users = @ - 1,
                       !.user[u].is_in_chatroom = 0]

(* memset, the first user, and num_users = 1 whatever it was.                *)
chatroom_node_init_Again(m, r, u) ==
    LET n == chatroom_node_add_user_node(
                 [m EXCEPT !.room[r] = NoRoom, !.heap = @ \cup {r}], r, u)
    IN  [n EXCEPT !.room[r].num_users = @ + 1]
chatroom_node_init(m, r, u) ==
    LET n == chatroom_node_add_user_node(
                 [m EXCEPT !.room[r] = NoRoom, !.heap = @ \cup {r}], r, u)
    IN  [n EXCEPT !.room[r].num_users = 1]

user_node_init(m, u) == [m EXCEPT !.user[u] = Fresh, !.heap = @ \cup {u}]

server_get_chatroom_by_user(m, u) == {r \in ToSet(RoomsIn(m)) : u \in ToSet(Members(m, r))}

(* Out of r, which is destroyed if that leaves it empty.                     *)
Leaves(m, r, u) ==
    LET n == chatroom_node_remove_user_node(m, r, u)
    IN  IF n.room[r].num_users = 0 THEN server_remove_chatroom_node(n, r) ELSE n

(* Out of the room u is in, if it is in one.                                 *)
LeavesAny(m, u) ==
    LET found == server_get_chatroom_by_user(m, u)
    IN  IF found = {} THEN m ELSE Leaves(m, CHOOSE r \in found : TRUE, u)

-----------------------------------------------------------------------------
(* The text of a list.                                                      *)

Lesser(m, n) == IF m < n THEN m ELSE n

(* "- ", the name, and the end of the line.                                  *)
Line(name) == name + 3

(* What snprintf(payload + strlen, MSG_LEN - strlen, ...) adds to strlen.     *)
Printed_NoEnd(strlen, line) == Lesser(line, MSG_LEN - strlen)
Printed_Less(strlen, line) == Lesser(line, MSG_LEN - 2 - strlen)
Printed(strlen, line) == Lesser(line, MSG_LEN - 1 - strlen)

(* The heading, a line for each name, given its length, and the last         *)
(* character away.                                                          *)
Listing(names) ==
    LET strlen[k \in 0..Len(names)] ==
            IF k = 0 THEN Heading
            ELSE strlen[k - 1] + Printed(strlen[k - 1], Line(names[k]))
    IN  strlen[Len(names)] - 1

-----------------------------------------------------------------------------
(* The handlers.                                                            *)

Becomes(m) ==
    /\ server' = m.server
    /\ user' = m.user
    /\ room' = m.room
    /\ heap' = m.heap

Connected == ToSet(UsersIn(memory))
Rooms == ToSet(RoomsIn(memory))

accept_user(u) ==
    /\ u \notin heap
    /\ Becomes(server_add_user_node(user_node_init(memory, u), u))

server_handle_multicast_create_req(u, r) ==
    /\ u \in Connected
    /\ LET m == LeavesAny(memory, u)
       IN  /\ r \notin m.heap
           /\ Becomes(server_add_chatroom_node(chatroom_node_init(m, r, u), r))

server_handle_multicast_join_req(u, r) ==
    /\ u \in Connected
    /\ server.num_chatrooms # 0
    /\ r \in Rooms
    /\ server_get_chatroom_by_user(memory, u) # {r}
    /\ Becomes(chatroom_node_add_user_node(LeavesAny(memory, u), r, u))

server_handle_multicast_quit_req(u, r) ==
    /\ u \in Connected
    /\ server.num_chatrooms # 0
    /\ r \in Rooms
    /\ u \in ToSet(Members(memory, r))
    /\ Becomes(Leaves(memory, r, u))

server_disconnect_user_Only(u) ==
    /\ u \in Connected
    /\ Becomes(server_remove_user_node(memory, u))
server_disconnect_user(u) ==
    /\ u \in Connected
    /\ Becomes(server_remove_user_node(
           IF user[u].is_in_chatroom = 1 THEN LeavesAny(memory, u) ELSE memory, u))

Init ==
    /\ server = [user_head |-> NULL, num_users |-> 0, chatroom_head |-> NULL, num_chatrooms |-> 0]
    /\ user = [u \in UserNode |-> Fresh]
    /\ room = [r \in RoomNode |-> NoRoom]
    /\ heap = {}

Next ==
    \E u \in UserNode :
        \/ accept_user(u)
        \/ server_disconnect_user(u)
        \/ \E r \in RoomNode :
              \/ server_handle_multicast_create_req(u, r)
              \/ server_handle_multicast_join_req(u, r)
              \/ server_handle_multicast_quit_req(u, r)

Spec == Init /\ [][Next]_vars

-----------------------------------------------------------------------------
(* No list has a cycle or a freed node, and none goes on into another room   *)
(* through what is left in a link; nothing is allocated that no list holds;  *)
(* and the counts and flags that the handlers test tell the same as the      *)
(* lists.                                                                   *)
ListsSound ==
    /\ IsInjective(UsersIn(memory)) /\ IsInjective(RoomsIn(memory))
    /\ heap = Connected \cup Rooms
    /\ server.num_users = Len(UsersIn(memory))
    /\ server.num_chatrooms = Len(RoomsIn(memory))
    /\ \A r \in Rooms :
          /\ IsInjective(Members(memory, r))
          /\ ToSet(Members(memory, r)) \subseteq Connected
          /\ room[r].num_users = Len(Members(memory, r))
          /\ room[r].num_users > 0
    /\ \A r, s \in Rooms :
          ToSet(Members(memory, r)) \cap ToSet(Members(memory, s)) # {} => r = s
    /\ \A u \in Connected :
          user[u].is_in_chatroom = 1 <=> \E r \in Rooms : u \in ToSet(Members(memory, r))

(* The length of the text that there would be without an end to the array.   *)
Whole(names) ==
    LET length[k \in 0..Len(names)] ==
            IF k = 0 THEN Heading ELSE length[k - 1] + Line(names[k])
    IN  length[Len(names)]

(* However long the names are, the text of the list of users, or of rooms,   *)
(* ends within its array, and it is all of the text exactly when that fits   *)
(* with the end of line that is then taken away.                             *)
ListedIfItFits ==
    \A list \in {UsersIn(memory), RoomsIn(memory)} :
        \A names \in [DOMAIN list -> 0..NameLen] :
            LET text == Listing(names)
                whole == Whole(names)
            IN  text < MSG_LEN - 1 /\ (text = whole - 1 <=> whole < MSG_LEN)

(* The lists are the tables: each handler does to the sets of their nodes     *)
(* what it is meant to do, and nothing to those of other users.              *)
Sets ==
    INSTANCE Tables WITH
        User <- UserNode,
        Room <- RoomNode,
        users <- Connected,
        chatrooms <- Rooms,
        members <- [r \in RoomNode |-> IF r \in Rooms THEN ToSet(Members(memory, r)) ELSE {}]

ImplementsTables == Sets!Spec
=============================================================================
