# A formal model of TCP-Messaging-App

TCP-Messaging-App is a chat service in C: one server process, any number of
clients, private, general and room messages, and files sent from client to
client.  This directory holds TLA+ modules translated from its source, TLC
configurations that check them on small instances, and theorems that TLAPS
proves for every instance.  Paths and lines are those of the repository
(`server.c` is `src/src/server/server.c`, and so on); `PROJECT.json` gives, for
each definition, the lines it stands for.

## The system

| component | source | state | operations | works with |
|---|---|---|---|---|
| registry of users | `server/server.c`, `user_node.c` | list of `user_node` (nickname, `is_logged_in`, `is_in_chatroom`), `num_users` | arrival, departure, `/nick`, `/who`, `/whois` | called by the poll loop; its users are linked into rooms |
| chatrooms | `server.c`, `chatroom_node.c` | list of `chatroom_node` (name, users, `num_users`), `num_chatrooms` | `/create`, `/join`, `/quit <room>`, `/channel_list`, a message in a room | share the `user_node`s with the registry, by pointer |
| intrusive lists | `server.c`, `chatroom_node.c` | the links `next_in_server`, `next_in_chatroom`, `next` inside the nodes; the heap | add, remove, find, print | every handler of the two above |
| message routing | `server.c` | none of its own | `/msg`, `/msgall`, room messages | looks users up by nickname |
| poll loop | `server/main.c` | `pollfds`, one slot per connection | accept, hang-up, end of file, dispatch | calls the registry; the only thread |
| packets | `packet/packet.c`, `header.c` | none | `packet_init`, `packet_set`, `packet_send`, `packet_rec` | every send and receive; a failing one ends the process |
| file negotiation | `server.c`, `client/client.c` | the prompt of the receiving client, `file_to_send`, `file_to_receive` | `FILE_REQUEST`, `FILE_ACCEPT`, `FILE_REJECT` | the answer finds the requester by the nickname of the request |
| client | `client/main.c`, `client.c` | nickname, two `pollfds`, the buffer of stdio, file names | commands, answers, the prompt | one connection to the server, one keyboard |
| file transfer | `client/peer.c`, its callers in `client.c` | sockets, the file, an offset and a size on each side | size, blocks and acknowledgements | between two clients, without the server |

A handler of the server runs to its end in the only thread, so two handlers
never interleave.  What does interleave is the outside: clients connect, send,
close and reset their connections between any two steps of the `for` loop that
goes through what one call of `poll` reported; bytes of a packet arrive between
two calls of `recv`; what a client sends was decided on the state it knew, which
a rename, a departure or a packet still in a queue may have changed; and two
clients that send a file die, each at any point of the other's code.

What is hard to get right, and what makes each component correct:

* **Rooms.**  A user can leave a room in four ways, each with its own copy of
  "unlink, notify, test the counter, free".  Counters and lists must agree
  (the code destroys a room, and looks one up, by counters alone), a user is in
  one room, no empty room stays, nobody is left out of a notice.
* **Flags.**  `is_in_chatroom` is written in `chatroom_node.c` and trusted in
  `server_disconnect_user` and `MULTICAST_SEND`, which then use a looked-up
  room without a NULL test.
* **Links.**  They are not cleared when a node is unlinked, and an address that
  was freed comes back: an old link may lead from one list into another.
* **Nicknames.**  Routing compares nicknames, so they must stay unique through
  every login and rename; a file answer, or the sender a client writes in its
  own packets, is about an older state.
* **Slots.**  The array of `pollfds` and the list of users record the same
  connections twice; when they part, a slot leads to the NULL user that
  `main.c:140` does not test for.
* **The single thread.**  It must not block in `accept` or `recv`, must come
  round to everybody, and must survive writing to a client that has gone.  Its
  `send` waits for room in the client's connection.
* **Packets.**  Two calls of `recv` for each; one length misread and every
  later packet of the connection is.
* **The client's two ears.**  `poll` watches a descriptor, `getchar` reads
  through a buffer, and the prompt takes lines from under the loop.
* **The transfer.**  Two offsets counted apart, compared with two sizes by
  equality only, and results of `recv` that nobody looks at.

`PROJECT.json` lists these hazards, each at its line, with the properties that
watch it, or a note where none does: a failing `accept`, a second `/send`, file
names and lines that are undefined behaviour, cut names, short writes and empty
files are things the code does, or that the model leaves out, and no property
denies them (points 9, 11, 14 and 18 below).

## The modules

Abstract specifications are in italics.

* **`Registry`** is `struct server` and every handler of `server.c`, one action
  per handler, with the two calls `main.c` makes on arrival and departure.  The
  names are the source's.  A handler is one step; its packets are the value of
  `sent`, a sequence for each connection, so that properties can speak of who
  was told what *in the step* that changed a room.  A dereference of a NULL
  pointer sets `fault` and stops everything.
* *`RoomService`* is what the rooms promise: for each connection the room it is
  in, if any, and who heard the last message.  `Registry!ImplementsRoomService`
  says that lists, counters, flags and recycled `malloc` addresses implement it,
  through the mapping `where`, `heard`.
* **`ChatServer`** extends `Registry` with `main.c`: slots, `revents`, the
  listening socket, and the connections with their clients at the other end.
  Each branch of the `for` loop is an action that calls the handlers of
  `Registry`.  `poll`, `Accept`, `AcceptFails`, `HangUp`, `EndOfFile`,
  `LoginFirst` and `Serve` are the server; `Connect`, `Send`, `Leave` and
  `ResetArrives` are the world.
* **`Chat`** extends `Registry` with the clients: `client.c` and the client's
  `main.c` as far as they keep something, the prompt, and two bounded queues for
  each connection.  A client waits in `send` when its queue is full, in
  `getchar` at the prompt, in `accept` after a `FILE_ACCEPT`; the server waits
  in `send`, and then nobody is served.  It replaces the freedom `Registry`
  gives to clients (`aka`, `offers`) by what clients do, and `ClientsAsAssumed`
  shows that the two agree.
* **`ClientLoop`** is the client's `main.c` for one client: `poll`, the two
  slots, each typed line through the stdio buffer, what each command makes of
  it with every kind of argument, and the prompt on the same keyboard.
* **`FileTransfer`** is one transfer between two clients: `peer.c` and its
  callers, one action for each call that may wait or fail, pieces of packets on
  the connection, and what each kernel knows of the other end.  Processes may be
  killed at any step and the file may change length.
* *`FileDelivery`* is what the acknowledgements promise the sender;
  `FileTransfer!ImplementsDelivery`.
* **`Framing`** is `packet_send` and `packet_rec` on streams of bytes, each
  byte known by its packet and its place in it, with the server's loop that
  calls `packet_rec` for many clients.
* *`PacketChannel`* is a queue of whole packets; `Framing!ImplementsChannel`.
* **`Lists`** is the lists with their links, the heap, and the text that
  `/who` and `/channel_list` print of a list.  Each function of the code is an
  operator from memory to memory.
* *`Tables`* is the sets that `Registry` takes them for;
  `Lists!ImplementsTables`.
* **`MCRegistry`**, **`MCChatServer`**, **`MCChat`**, **`MCClientLoop`**,
  **`MCFraming`**, **`MCLists`** name the values TLC uses.
* **`RegistryProofs`**, **`RegistryStepProofs`** (what a step of the registry
  does and says), **`ChatServerProofs`**, **`ChatProofs`**, **`ClientLoopProofs`**,
  **`FramingProofs`**, **`ListsProofs`** and **`FileTransferProofs`** hold the
  theorems.

How state corresponds:

| model | code |
|---|---|
| *Registry* `users`, `chatrooms` | the lists at `user_head`, `chatroom_head`, as sets |
| `user[c]`, `room[a]` | the `user_node` of connection `c`, the `chatroom_node` at address `a` |
| `num_users`, `num_chatrooms`, `room[a].num_users` | the counters, kept apart from the sets so that they can disagree |
| `aka[c]` | nicknames the client may write in its packets: `client->nickname` follows a rename only when the answer is read |
| `offers[d]` | the file requests client `d` has still to answer, in order; `by` remembers who asked, which the code does not |
| `sent` | what the step passed to `packet_send` |
| *ChatServer* `pollfds[i]`, `revents[i]` | slot `i`; `NoConn` is descriptor -1 |
| `sock[c]`, `inq[c]`, `backlog` | the server kernel's view of the connection: open, closed by the client (`fin`), closed and written to (`poked`), reset (`rst`); requests not read; connections not accepted |
| `down` | the process ended by SIGPIPE or `exit` |
| *Chat* `client[c]` | `struct client`: `nickname`, `file_to_send`, `file_to_receive` |
| `mode[c]`, `blocked[c]`, `due[c]` | where the client waits, the packet it cannot send yet, whether `poll` has reported the server |
| `asker[c]` | the nickname in the request at the prompt, which the answer repeats |
| `requests[c]`, `inbox[c]`, `serving` | the two directions of the connection, the connection the server is busy with |
| *ClientLoop* `terminal`, `buffer` | what the descriptor holds, and what stdio has taken from it and not given out |
| `revents`, `at` | the client's two `pollfds`, and the place in `main.c` or `client.c` |
| `used`, `did` | the number of the last line taken, and what came of it, until the next `poll` |
| *FileTransfer* `at`, `size`, `offset`, `ret` | the place and the variables of that name in `peer_send_file` and `peer_receive_file` |
| `copied` | bytes of the copy that came from the file and not from a `memset`; the code has no such variable |
| `wire`, `link`, `fds` | headers and payloads on their way, the kernels' views, open descriptors |
| *Framing* `stream`, `part`, `packet` | bytes to read, which `recv` of `packet_rec` is on, what it has |
| *Lists* `server`, `user`, `room`, `heap` | the structures with their links, and the addresses in use |

A definition whose name is another's with a suffix (`Deserted_OneLeft`,
`Vacate_KeepsFd`, `SendBlock_Break`...) is a *mutant*: what a plausible bug
would make of the definition of that name.  No action uses it.  `PROJECT.json`
says which property each one breaks, so that every property is known to be able
to fail.

### Abstractions

* In `Registry` lists are sets; that they may be is what `Lists` shows.  One
  observation of the code depends on list order: which of several users
  *without* a nickname `/whois` with an empty name finds.
* Texts, dates, addresses and file names are single values; a packet keeps its
  type, its sender, its `infos` field, what the payload says and about whom.
  Where lengths matter they are counted: names and lists of more than `MSG_LEN`
  characters in `Lists`, kinds of arguments in `ClientLoop`.
* Packets are whole in `Registry`, `Chat` and `ClientLoop`; `Framing` shows
  what that supposes.  In `ChatServer` a packet is written by two calls of
  `send`, so the first may draw the reset that the second fails on; in
  `FileTransfer` the two are separate steps.
* `Chat` has the commands a client keeps something of (`/nick`, `/send`), their
  answers, and `/msgall` for all the others, which go to the server and come
  back in the same way.  The poll loop is the choice of a connection, the
  transfer its beginning and its end.
* A queue of `Chat` holds at least the packets one handler writes to one
  connection, one for these commands, so that a handler that waits is a step
  that waits.
* A connection closed by the server can be used again in `Registry` and
  `ChatServer`: it is then a new client.
* `write` stores whole blocks, as it does on a regular file with room, or fails.
  In `recv(fd, buf, 0, ...)`, the payload of an empty packet, nothing is read.
* A handler of `Chat` that writes to several clients waits until there is room at
  all of them, and is then one step.  The code writes to each in turn, so those
  before the one it waits for have their packet earlier (`packet.c:29`); who is
  waited for, and that the server serves nobody meanwhile, is the same.
* `accept` of the server may fail; `poll` does not.  `AcceptFails` ends the server
  and leaves the tables alone: the user added for descriptor -1 exists only inside
  the handler that exits, where nobody sees it.

## The runs

`tlc -config X.cfg M` in this directory.  Symmetry over connections, names and
addresses is used where no liveness is checked.

| run | question | instance |
|---|---|---|
| `registry` | do tables, flags and notices stay right through every order of logins, renames, room commands, messages and departures? is `RoomService` implemented? does a general message reach every other user once? when does an answer to a file request go astray? | 3 clients, 3 nicknames, 2 room names, 2 addresses, 1 file request pending, while no room is open |
| `server_slots` | do slots and users match at every point of the loop? can the loop block? does removing the client that went kill the server? | 3 clients for 2 slots, 1 unread request each; `accept` may fail |
| `server_liveness` | is everybody accepted, and served? | 2 clients, 2 slots |
| `chat_names` | do clients and server agree on nicknames and open requests, through queues that fill? do clients do what `Registry` supposes? | 2 clients with 3 commands each, every habit, queues of 1 |
| `chat_liveness` | is the file sent the one accepted? does whoever accepts get connected to? is each packet dealt with? | 2 clients with 3 commands each, 2 files, queues of 1, users who wait for answers |
| `transfer` | what do the two verdicts on a transfer mean, is the connection closed, does it end? is `FileDelivery` implemented? | blocks of 2, files of 0 to 5; kills and changes of length |
| `client_loop` | is every line used once, in turn? are requests well formed? is the server heard? | 2 lines of 9 kinds, one of them too long, 2 packets, a terminal or a pipe |
| `framing` | does the server keep its place in each stream? is `PacketChannel` implemented? | 2 clients with 2 packets each, headers of 2 bytes, payloads of 0 or 2; cuts and resets |
| `lists` | are the lists sound, their texts within bounds? is `Tables` implemented? | 3 users, 2 rooms; a text of 16, names up to 3 |
| `registry_answers`, `server_departures`, `transfer_leaks` | statements of the repository's `README.md` that the code does not keep (below) | as above; `transfer_leaks` without any fault |

Why these bounds are enough to be of interest:

* Three clients make a room that one leaves while two stay (one to be told, one
  to be compared with), and let a third take a nickname or a slot that another
  gave up.  Two rooms make a change of room; two addresses let the new room's
  memory be fresh or recycled.  Three clients for two slots make the server
  refuse one and re-use a slot.  Three nicknames leave one free to rename to.
  One unread request suffices because the loop reads one per report.
* `registry` has all handlers, but not rooms and a pending file request at once
  (`RoomsApartFromFiles`): the handlers of rooms neither read nor write `offers`,
  those of files neither read nor write rooms, and the users they share are
  connected, renamed and removed in both halves.  The theorems about `Registry`
  have no such bound.
* Queues of 1 are the hardest case for whoever waits: each packet fills one.
  Three commands let a client log in, rename or ask, and ask again before the
  answer.  Two clients make the circle of two that accept each other's files; a
  circle of three needs one more but no other step.
* Files of 0 to 5 with blocks of 2 are empty, shorter than a block, a block, and
  several with and without a remainder; the length may change to any of these
  at any step.
* The nine kinds of lines are an empty one, the two answers (messages, to the
  loop), `/who`, `/quit`, `/nick` with a good name and with one too long, `/send`
  with a file name of one character, and a line longer than the array, which may
  be parsed as any command with any arguments and so stands for those not listed.
* Two lines and two packets make one line that the prompt takes from the loop,
  one that is left in the buffer, and one report that is out of date.
* A header of 2 bytes can be cut in the middle; a payload of 0 leaves out the
  second call of `recv`; a second packet would be out of step if the first were
  misread; a second client waits while the server reads the first.
* Three users give a list a head, a middle and an end; two rooms give an old
  link somewhere to lead; with 16 characters some lists fit, some fit but for
  the last character and some do not.

The bounds are `MaxUsers` (a parameter of the code itself), `MaxOffers`,
`MaxIn`, `MaxQueue`, `MaxTyped`, `MaxSize`, `MaxLines`, `MaxPackets`, `Lengths`,
`NameLen`, and `RoomsApartFromFiles` of `MCRegistry`.

Deadlock is checked in `lists`, where somebody can always arrive, leave or ask.
Elsewhere the system may really stop: a NULL dereference ends the server
(`registry`, `registry_answers`), or a failed write does (`server_*`, `framing`);
every client may have left and typed all it types (`chat_*`); a transfer ends
(`transfer`, `transfer_leaks`), and so does a client (`client_loop`).

**Fairness.**  It is assumed of processes, which the system schedules while they
have something to do, and never of single branches, which the code decides, nor
of users, except where said:

* `ChatServer!Spec`: `WF(Server)`.  So `BacklogDrains` rests on slot 0 coming
  first in the loop, before any `break`; `ServedUnlessCutOff` is about any slot,
  under the hypothesis that the breaks of lower slots end.
* `Chat!Spec`: `WF(Server)`, `WF(Runs(c))` for what client `c` does without its
  user, and `Attentive`, users who answer the prompt before them.
* `FileTransfer!Spec`: `WF(Sender)`, `WF(Receiver)`, and `WF(Network)` for a
  reset that the other end's kernel has sent.
* `ClientLoop!Spec`: `WF(Client)`; nothing of its user, the server or the other
  client.
* `Framing!PromptSpec`: `WF(Server)`, and `WF(Arrive(c))`: the rest of a packet
  begun arrives.  `EveryPacketHandled` needs it, for the server waits for it.

### Where the code and what is said of it part

Three statements of the repository's `README.md` are checked as they stand and
refuted, in the runs named:

1. The answer to a file request is addressed to the nickname the request carries
   (`server.c:591`, `598`).  If the requester has renamed itself or gone, or its
   request was signed before it had read its latest nickname or its first, the
   pointer is NULL and the server dies on it, or the answer goes to whoever has
   that nickname (Req 5.4, `README.md:376`, Req1.3, `README.md:129`;
   `registry_answers`).
2. Writing to a client that has closed its connection, before the loop comes to
   it, ends the server for all (`header.c:30`, `packet.c:29`; Req1.7, Req1.3,
   `README.md:137`, `129`; `server_departures`).
3. Descriptors stay open after a transfer: the listening socket of every file
   accepted (`client.c:246` overwrites it), and the sender's file when an
   acknowledgement does not come (`peer.c:258`) (`README.md:84`, Req1.7,
   `README.md:137`; `transfer_leaks`).  `ConnectionClosed` says what *is* closed.

The others show in the conditions under which the properties of the passing runs
hold, which TLC found false without them, or in what the actions do:

4. `/join` from one room to another tells each user left behind that *they* have
   quit: the loop variable of `server.c:419` hides the parameter `user`
   (Req3.9, `README.md:320`; `DeparturesAnnouncedUnlessSwitching`).
5. The `break` of `main.c:158` leaves the loop over the slots: a client that
   keeps sending without logging in, in a low slot, starves the higher ones
   (Req1.3; `ServedUnlessCutOff`).
6. A private message carries the nickname its client believed it had
   (`server.c:272`), which may meanwhile be another user's; a client's own copy
   is late, and empty before the first answer (`NicknamesFollow` says how late,
   `ClientsAsAssumed` that it was once right).
7. A client at the prompt (`client.c:297`) or in `accept` does not read, and the
   server's `send` waits for it with all the others behind (Req1.3; `Stopped` in
   `ServedUnlessStopped` and `AcceptEndsUnlessStuck`).
8. Two clients that accept each other's files wait for each other in `accept`
   for good (`client.c:246`, Req 5.3, `README.md:374`; `Crossed`), and so does a
   client whose sender has gone (`EndsOnceConnected` begins at the connection).
9. A second `/send` before the first answer replaces the path that the first
   acceptance will send (`client.c:198`, Req 5.2, `README.md:372`): habit
   `resend`, left out of `chat_liveness`.  A client that refuses a file forgets
   the one it offers itself (`client.c:273`): `NoFile` in `TransfersAsAgreed`.
10. The prompt takes the line that `poll` reported of the keyboard, and the loop
    then waits in `getchar` on the old report (`main.c:43`, `50`; Req1.5,
    `README.md:133`; `TakenByPrompt`, `Asking`).  It takes a line typed before
    the question, too.  A line left in the buffer of stdio is not reported, and
    waits for the next key (`EveryLineInTurn` says in which order lines are used,
    not that they are).
11. `/msgall` with nothing after it, a file name of one character, and a line of
    `MSG_LEN` characters are undefined behaviour (`client.c:125`, `196`,
    `main.c:50`): the outcomes are the members of `Command`, a crash among them.
    The long line has no end in the array, so `strtok` may find any command in
    it; the character read when the array is full is lost, and the rest of the
    line is read as another (`Overrun`, `Rest`).  Names of rooms are cut in `header_set` without a word (`header.c:23`;
    `RequestsWellFormed` promises a name, not the whole of it).
12. A packet cut short by the end of its connection is handled as a whole one,
    with zeros for the rest (`packet.c:49`, Req2.0, `README.md:226`; `IsCut`); a
    connection reset while it is read ends the server (`packet.c:44`; `down`); a
    client that stops inside a packet holds everybody (`header.c:41`;
    `PromptSpec`).
13. A sender that is killed, or goes on an error, before it has said a length
    leaves the receiver with length 0 and the message that the file was received
    (`peer.c:75`, `102`, `141`); one that is killed between a header and its
    block leaves a block of zeros (`peer.c:107`).  Hence `size > 0` and
    `at["sender"] # "dead"` in `ReceivedAnnounced` (Req 5.5, `README.md:378`).
14. An empty file is a success before the receiver has answered anything
    (`peer.c:234`; `size > 0` in `ConfirmedIsCopied`).
15. A file that ends before the size that was announced is closed twice, and the
    second `close` ends the client (`peer.c:246`, `279`; in `SendBlock`).
16. A list that does not fit in 1024 characters is cut (`server.c:215`, Req2.5,
    `README.md:241`; `ListedIfItFits`).
17. The sender gets a copy of its own message, general (`server.c:246`), private
    (`server.c:283`) or to a room (`server.c:542`), signed `me@...`, against Req2.8
    (`README.md:267`) and, for rooms, the example at `README.md:331`, where only
    the others are shown the message.  The packets of `Registry` have the copy.
    `BroadcastsReachOthersOnce` speaks of the others only; `MessagesStayInTheRoom`
    and `RoomService` count the speaker, a member, among those who hear what is
    said in the room: they describe the code here, not that requirement.
18. A failing `accept` is reported and its -1 used: a user is added for it, and
    the write to descriptor -1 ends the server in the same handler (`main.c:76`;
    `AcceptFails`).

## What is proved

`tlapm M.tla` for each module M below.  What is assumed of the constants is the
`ASSUME` of the component's module and no more: the sets of connections
(`Registry`) and of addresses (`Lists`) are finite, the special values differ
from the others, bounds and lengths are natural numbers, a header and a block
have at least one byte, the heading of a list fits in its array.  No bound is put on
the numbers of nicknames, rooms, addresses, bodies, lines or packets, on the size
of queues and files, or on what is typed or requested.

Each component has an inductive invariant, because none of its properties is
inductive alone: a step that keeps one of them does so because the others hold.
The invariants are:

| module | invariant | what it adds to the properties | theorems from it |
|---|---|---|---|
| `RegistryProofs` | `IInv` | types, `NoRoomFault`, finiteness | `RoomsConsistent`, `FlagMatchesMembership`, `NicknamesUnique`, `WithinCapacity` |
| `RegistryStepProofs` | `IInv`, with `RoomsNamed` and `AskersKnown` | rooms have names that were asked for; a requester on record is connected and has logged in | `ArrivalsAnnounced`, `DeparturesAnnouncedUnlessSwitching`, `LastUserTold`, `MessagesStayInTheRoom`, `BroadcastsReachOthersOnce`, `AnswersReturnUnlessRenamed`, `ImplementsRoomService` |
| `ChatServerProofs` | `LoopInv` | `Registry`'s `IInv`, and that the listening socket holds each connection once and none accepted | `LoopTypeOK`, `SlotsMatchUsers`, `NeverBlocks`, `WithinCapacity`, `RemovalIsSafe`; `Spec => RegSpec` |
| `ChatProofs` | `ChatInv` | `Registry`'s `IInv`; what each client and its two queues may hold | `NicknamesFollow`, `PromptsAccounted`, `ClientsAsAssumed`; `Behaviour => RegSpec` |
| `ChatProofs`, when `Habits = {}` | `ChatInv` with `FileInv` | what the two ends of a transfer know of each other at every stage of asking | `TransfersAsAgreed`; `NobodyGoes` |
| `ClientLoopProofs` | `ClientInv` | only the first line left may be half used; what `poll` reported | `EveryLineInTurn`, `RequestsWellFormed`, `KeyboardNeverBlocks` |
| `FramingProofs` | `FrameInv` | where every unread byte is | `InStep`, `ImplementsChannel` |
| `ListsProofs` | `LInv` | each list is a sequence of distinct nodes joined by its links | `ListsSound`, `ImplementsTables`, `ListedIfItFits` |
| `FileTransferProofs` | `IInv` | what is on the connection | `Lockstep`, `ConfirmedIsCopied`, `ReceivedAnnounced`, `ConnectionClosed`, `ImplementsDelivery` |

Each of the properties is also checked by a run, except `NoRoomFault` and
`NobodyGoes`; and the types of `FileTransfer`, `Framing` and `ClientLoop`, which are stated where they
are proved.

### The registry: `RegistryProofs`, `RegistryStepProofs`

That the lookup of a disconnection finds a room (`NoRoomFault`) needs the flag to
match membership; that leaving a room clears the flag rightly needs the user to
be in *no other* room; that a room is destroyed exactly when it is empty needs
its counter to be the number of its users.  So `IInv` is their conjunction, with
the types and the finiteness of the lists.  The part about rooms is stated as
`Consistent(C, R, N, U)`, of *any* list `C` with contents `R`, counter `N` and
connected users `U`, because `/create` and `/join` pass through a list that no
variable ever holds: the one after the old room has been left.  Three lemmas
carry it: `Opening` (a new room), `Entering` (one more user), `Leaving` (one
user less, and the room destroyed if it was the last).  `Moving` adds the flag
of the user concerned.  Each handler is then a composition: `/quit` and a
disconnection are `Leaving`, `/join` is `Entering` or `Leaving` and `Entering`,
`/create` is `Opening` or `Leaving` and `Opening`.

What a step says and to whom follows from which of nine kinds of step it is.
`Kind` lists them (`Opens`, `Replaces`, `Enters`, `Moves`, `Quits`, `Goes`,
`Speaks`, `Broadcasts`, and `Aside` for all that leaves rooms alone and says
nothing of them), and `StepKind` shows that every handler is one of them; each
theorem then has one case for each kind.  `BroadcastsReachOthersOnce` and
`MessagesStayInTheRoom` use that nicknames are unique, `LastUserTold` that the
names of rooms are, and `ImplementsRoomService` that a user is in one room.

### The poll loop: `ChatServerProofs`

`StepIsRegistryStep`: for the tables of the server each step of the loop is a
step of `Registry` or none, so `ServerRunsRegistry` says that *all* that is
proved of `Registry` is true of the loop.  The step needs `NeverBlocks`, for a
slot that is reported has a user.  `SlotsMatchUsers` and `NeverBlocks` hold each
other up: a slot of a user who has been removed must not be reported any more,
and what was reported stays true because only the step of that slot takes it
away.  That `Accept` finds a free slot is a matter of counting: if none is free,
slots and users are one to one, so `num_users` is `MaxUsers` and the user was
not admitted.

### The chat: `ChatProofs`

`ChatInv` says, for each client: the nicknames it writes are nicknames it has
had, wherever they are (`OwnNicknames`); the last `NICKNAME_NEW` it has not read,
or its own copy if there is none, is the server's (`KnowsName`); the open
requests are, in order, those of its answers on the way, the answer that waits
for room, the prompt, and what it has not read (`Accounted`); and when it has
gone, the answers it leaves in the queue are still the first of its open
requests (`Front`), for the server goes on reading them.  Each step moves one
nickname from one place to the next; the lemmas from `Places` to `TailOfCons`
say that this leaves the row as it was.

`ChatRunsRegistry` closes a gap that the model of the server has by itself:
`Registry` lets clients send any request under a name they have had, and answer
only requests they have open.  `ChatAssumed` proves that the clients' code does
no more, so the theorems about `Registry` hold of server and clients together.

`ChatTransfers` is about users without the habits of `chat_names`: they type
nothing before they have a nickname, keep it, have one file open at a time and
stay, and nothing is wrong with the file or with its copy.  `Habits = {}` is a
hypothesis of the theorem, as it is the value of the run.  With any one of
`hasty`, `rename`, `resend` and `leave` TLC finds `TransfersAsAgreed` violated when
there are three clients (two are enough for `resend`).  A nickname given up by
renaming or leaving is taken by a client that offers another file (point 1), a
second offer replaces the first (point 9), and a request sent before the first
nickname is known carries the empty one, which every newcomer answers to.  With
`spoil`, which ends a client during a transfer, TLC finds no violation among three
clients with two commands each; it is left out because the proof rests on nobody
going. Its invariant `FileInv` has three groups of parts.
*Who is who*: a client asks for a nickname while the server has none for it, and
afterwards both have the same for good (`NameFixed`); so an open request gives
the nickname of the one that made it (`OfferTrue`), nicknames being unique.
*Which file*: what a client has asked to send is what it will send, or nothing,
wherever the request is: in its queue (`AskTrue`), in the other's (`AskedTrue`),
at the prompt or accepted (`EngagedTrue`). This holds because a client whose
request is *open* types no other `/send` (`Owner`, `NotOpen`), and that a
request is open follows from `Accounted` of `ChatInv`. *Who connects to whom*: a
client waits in `accept` for as long as its one `FILE_ACCEPT` is held back, with
the server, or unread by the client that asked, and no other is about
(`AcceptTrue`, `AcceptedTrue`, `OnItsWay`), so whoever reads it finds the one it
names waiting for it. `CalmAccord` does the steps that touch none of this; the
rest has a lemma for each: naming, asking, the prompt, accepting, the
connection, and the server's part in each of them (`NameAgreed`, `AskAgreed`,
`AcceptancePassed`, `RejectionAgreed`). On the way the invariant finds that
nobody goes (`ChatGoesOn`): the server's lookup of the requester succeeds
(`AnswerFinds`), and no client takes the `exit` of a refused connection.

Queues are cut down to packets of one type by a recursive function, and the
theorem that what is kept of two sequences in a row is what is kept of each
(`OfTypeConcat`) is an induction on length.  The library states induction for a
predicate, which these provers cannot instantiate; `SetInduction` states it for
a set of numbers, from the well-foundedness of `<`, and `RecursionExists` derives
from it that a function defined by recursion exists.

### The client: `ClientLoopProofs`

The lines in the buffer and in the terminal are one sequence to the invariant
(`InTurn`), whether a keyboard gives one line at a time or a pipe all of them;
`GetLine` takes its first line, or what was left of it when it was longer than
the line buffer; what is left is the head of the sequence, with the number of the
line and marked `begun`, whatever line it is then read as (`RestOfLine`).  `StillThere` follows the report of `poll` from slot 0 to the
keyboard: it can become untrue only in the prompt, and then the answer given
there is the last thing the client did.

### Framing: `FramingProofs`

`InPlace` says of the bytes of a connection not yet handled that there is a
function `at`, the offset where each packet begins, counted from the first of
them: byte `k` is the byte `k - at[n]` of the packet `n` it falls in.  A packet
begun (`SendInPlace`), bytes that come (`ArriveInPlace`) and a packet handled
keep it.  It tells what `packet_rec` has when it returns (`WhatReturns`): the
whole of the next packet, or the part that came before its client went, which is
then the last.  `InStep` is the case of the first byte; `ImplementsChannel`
follows because what is delivered is the whole of the next packet.

### The lists: `ListsProofs`

`List(head, next, s, N)` says that the nodes of the sequence `s` are distinct,
that each links to the next and the last to NULL; `HasList` that there is such a
sequence with a given set and number of nodes.  `ChainOfList` proves, along the
links, that the loops over a list visit just `s` and stop.  From there on lists
are sets: `ListAdd`, `ListRemoveHead` and `ListRemoveLater` say what relinking
does to them, and `ListAside` that links of other nodes do not matter, which is
why a list of users and a list of members can run through the same nodes.

`Holds(m, U, R, M)` says that memory `m` holds the users `U`, the rooms `R` and
in each room `r` the users `M[r]`, each in one room at most, with the counts and
flags that go with them and nothing else allocated.  Every function of the code
on lists has a lemma that it takes one `Holds` to another (`MemberOut`,
`MemberIn`, `RoomOut`, `RoomIn`, `UserOut`, `AcceptHolds`); in the middle of a
handler a room may be empty, so `Holds` allows it and `Stands`, which is true
between handlers, does not.  A handler composes them, and as the sets are
explicit the same lemma shows the step of `Tables`: `LInv` is `Stands` for the
sets that the loops find.

The text of a list is the text of its names cut at the end of the array
(`TextsCropped`, by `SetInduction`), because one `snprintf` cuts where the next
would have begun (`PrintedCrops`).

### The file transfer: `FileTransferProofs`

The properties speak of two processes that have only the connection in common, so
the invariant must say what is on it.  It does so without a case for each pair of
places in the code: there is one conversation, fixed by the announced size and
the offsets (header and length, then header and data for each block), and *what
the receiver has not read is the part of it that it should read next*, up to
`SentSoFar`, what the sender has said of it.  `OnWire` is this, with `Piece`,
`NextPiece` and `Conversation`.  Three lemmas say that a piece read takes the
conversation on by one (`ConversationMoves`), that a piece sent adds one
(`ConversationGrows`), and that losing the end of what was in flight keeps a
beginning of it (`ConversationCut`), which is what happens when a process closes
or dies.  The rest of `IInv` is small: the kernels' views match the places
(`Linked`), descriptors are those of the place (`SenderFds`, `ReceiverFds`), the
receiver has what the sender announced while the sender lives (`Exact`), a
refusal is the last thing said (`Refusing`), offsets and acknowledgements are in
step (`Offsets`, `Acks`), the sizes agree (`Sizes`), and `copied` follows the
receiver's offset until a piece failed to come (`Copied`).  One lemma for each
action shows that it keeps all of this; `SenderDies` and `ReceiverEnds` are
shared by the many ways to end.

TLC found each of these invariants true of the instances of the runs, or of
smaller ones, before it was proved; but `FrameInv`, whose `at` it cannot look for,
only by what follows from it.

### Only model-checked

Liveness (`BacklogDrains`, `ServedUnlessCutOff`, `AcceptEndsUnlessStuck`,
`ServedUnlessStopped`, `EndsOnceConnected`, `HeardUnlessAsking`,
`EveryPacketHandled`): it rests on fairness and `ENABLED`, which this prover
does not reach.  Every other property of a passing run, be it an invariant, an
action property or a refinement, is stated by a theorem.

## What is not modelled

Left out for good, as they change no state the service depends on: start-up
(`getaddrinfo`, `bind`, `listen`, arguments), help and display.  Not modelled
either: a `write` or `send` that stores part of what it was given; a failing
`poll`, which the code reports and otherwise ignores; the end of the keyboard's
input (`getchar` returning EOF).
