-------------------------------- MODULE Tables --------------------------------
(***************************************************************************)
(* The server's tables of users and of chatrooms as sets: who is connected, *)
(* which rooms there are and who is in each.  A user is in one room at      *)
(* most, and a room is gone when its last user has left it.                 *)
(***************************************************************************)
CONSTANTS User, Room

VARIABLES
    users,     \* the users connected
    chatrooms, \* the rooms there are
    members    \* the users in each, none in the others

vars == <<users, chatrooms, members>>

Init ==
    /\ users = {}
    /\ chatrooms = {}
    /\ members = [r \in Room |-> {}]

Without(u) == [r \in Room |-> members[r] \ {u}]
Standing(u) == {r \in chatrooms : members[r] # {u}}

Accept(u) ==
    /\ u \notin users
    /\ users' = users \cup {u}
    /\ UNCHANGED <<chatrooms, members>>

Create(u, r) ==
    /\ u \in users
    /\ r \notin Standing(u)
    /\ chatrooms' = Standing(u) \cup {r}
    /\ members' = [Without(u) EXCEPT ![r] = {u}]
    /\ UNCHANGED users

Join(u, r) ==
    /\ u \in users
    /\ r \in chatrooms
    /\ u \notin members[r]
    /\ chatrooms' = Standing(u)
    /\ members' = [Without(u) EXCEPT ![r] = @ \cup {u}]
    /\ UNCHANGED users

Quit(u) ==
    /\ \E r \in chatrooms : u \in members[r]
    /\ chatrooms' = Standing(u)
    /\ members' = Without(u)
    /\ UNCHANGED users

Disconnect(u) ==
    /\ u \in users
    /\ users' = users \ {u}
    /\ chatrooms' = Standing(u)
    /\ members' = Without(u)

Next ==
    \E u \in User :
        \/ Accept(u) \/ Quit(u) \/ Disconnect(u)
        \/ \E r \in Room : Create(u, r) \/ Join(u, r)

Spec == Init /\ [][Next]_vars
=============================================================================
