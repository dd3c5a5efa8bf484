----------------------------- MODULE ClientLoop -----------------------------
(***************************************************************************)
(* The client's main.c: poll on the server and the keyboard, the command   *)
(* each typed line becomes (the client_send_* functions of client.c), and   *)
(* the prompt for a file, which reads the same keyboard through the same    *)
(* buffer of stdio.  What the server does with requests is in Registry, and *)
(* what becomes of the file in Chat and FileTransfer.                       *)
(***************************************************************************)
EXTENDS Integers, Sequences

CONSTANTS
    Keyboards,  \* what the keyboard may be: a subset of KeyboardKinds
    Lines,      \* the lines the user of an instance types
    Incoming,   \* the types of packets the server sends to it
    MaxLines,   \* bound: lines typed
    MaxPackets  \* bound: packets the server sends

(* A line: its first word and, as far as the code cares, what follows.       *)
Words == {"", "/nick", "/help", "/who", "/whois", "/msgall", "/msg", "/create",
          "/channel_list", "/join", "/quit", "/send", "Y", "N", "hello"}
Args == {"none",    \* nothing
         "name",    \* letters and digits, fewer than NICK_LEN
         "long",    \* letters and digits, too many
         "odd"}     \* other characters
Rests == {"none", "text",
          "quoted", \* a file name in quotes
          "bare",   \* a file name without
          "single"} \* one character
Typeable == [word : Words, arg : Args, rest : Rests]

(* A line of MSG_LEN characters or more, whatever is in it.                  *)
Endless == [word |-> "endless", arg |-> "none", rest |-> "none"]

KeyboardKinds ==
    {"terminal", \* gives a line at a time
     "pipe"}     \* all there is

PacketKinds == {"NICKNAME_NEW", "FILE_REQUEST", "FILE_ACCEPT", "DEFAULT"}

ASSUME LoopAssumption ==
    /\ Keyboards \subseteq KeyboardKinds
    /\ Lines \subseteq Typeable \cup {Endless}
    /\ Incoming \subseteq PacketKinds
    /\ MaxLines \in Nat
    /\ MaxPackets \in Nat

VARIABLES
    tty,      \* the keyboard is a terminal
    at,       \* where the client is in its code
    revents,  \* what poll reported of the server (0) and the keyboard (1)
    inbox,    \* packets from the server, not read
    closed,   \* the server has closed the connection
    terminal, \* lines typed and not read, each with its number
    buffer,   \* lines in the buffer of stdin, the first of them perhaps begun
    typed,    \* lines typed so far
    used,     \* the number of the last line used
    did,      \* what the last line read since poll came to
    received  \* packets sent by the server so far

keyboard == <<tty, terminal, typed>>
server == <<inbox, closed, received>>
vars == <<at, revents, server, keyboard, buffer, used, did>>

Stopped == {"exited", "crashed"}

-----------------------------------------------------------------------------
(* What a command does.                                                     *)

Nothing == [does |-> "nothing", type |-> "DEFAULT", infos |-> "none", payload |-> "none"]
Crash == [Nothing EXCEPT !.does = "crash"]
Disconnect == [Nothing EXCEPT !.does = "leave"]
Send(type, infos, payload) ==
    [does |-> "send", type |-> type, infos |-> infos, payload |-> payload]

(* header_set: the infos field holds INFOS_LEN - 1 characters, and stays     *)
(* empty for NULL.                                                          *)
InfosOf(arg) == CASE arg = "long" -> "cut" [] arg = "none" -> "empty" [] OTHER -> arg

(* The file name loses its first and its last character, quotes or not; of   *)
(* a single character it loses one before the array, and strtok finds none.  *)
FileRequests(arg, rest) ==
    LET Request(file) == Send("FILE_REQUEST", InfosOf(arg), file)
    IN  CASE rest = "quoted"           -> {Request("file")}
          [] rest \in {"text", "bare"} -> {Request("cut")}
          [] rest = "single"           -> {Request("null"), Crash}

client_send_nickname_new_req_AnyLength(arg) ==
    IF arg \in {"none", "odd"} THEN Nothing ELSE Send("NICKNAME_NEW", InfosOf(arg), "none")
client_send_nickname_new_req(arg) ==
    IF arg \in {"none", "long", "odd"} THEN Nothing ELSE Send("NICKNAME_NEW", InfosOf(arg), "none")

client_send_broadcast_send_req(arg) ==
    IF arg = "none" THEN Crash ELSE Send("BROADCAST_SEND", "none", "text")

client_send_unicast_send_req(arg, rest) ==
    IF arg = "none" \/ rest = "none" THEN Nothing ELSE Send("UNICAST_SEND", InfosOf(arg), "text")

client_send_multicast_create_req(arg) ==
    IF arg \in {"none", "odd"} THEN Nothing ELSE Send("MULTICAST_CREATE", InfosOf(arg), "none")

client_send_file_req(arg, rest) ==
    IF arg = "none" \/ rest = "none" THEN {Nothing} ELSE FileRequests(arg, rest)

Parsed(line) ==
    LET w == line.word
    IN  CASE w = "/nick"         -> {client_send_nickname_new_req(line.arg)}
          [] w = "/who"          -> {Send("NICKNAME_LIST", "none", "none")}
          [] w = "/whois"        -> {Send("NICKNAME_INFOS", InfosOf(line.arg), "none")}
          [] w = "/msgall"       -> {client_send_broadcast_send_req(line.arg)}
          [] w = "/msg"          -> {client_send_unicast_send_req(line.arg, line.rest)}
          [] w = "/create"       -> {client_send_multicast_create_req(line.arg)}
          [] w = "/channel_list" -> {Send("MULTICAST_LIST", "none", "none")}
          [] w = "/join"         -> {Send("MULTICAST_JOIN", InfosOf(line.arg), "none")}
          [] w = "/quit"         -> {IF line.arg = "none" THEN Disconnect
                                     ELSE Send("MULTICAST_QUIT", InfosOf(line.arg), "none")}
          [] w = "/send"         -> client_send_file_req(line.arg, line.rest)
          [] w \in {"", "/help"} -> {Nothing}
          [] w \in {"Y", "N", "hello"} -> {Send("MULTICAST_SEND", "none", "text")}

(* An array full of characters has no end, and strtok runs past it: it may   *)
(* find any command there.                                                  *)
Overrun == {Crash} \cup UNION {Parsed(line) : line \in Typeable}
Command(line) == IF line = Endless THEN Overrun ELSE Parsed(line)

-----------------------------------------------------------------------------
(* getchar, up to the end of a line or of the array.                        *)

Typed(line) == [line |-> line, n |-> typed + 1, begun |-> FALSE]

(* What getchar finds, once it has filled the buffer: a line of a terminal,  *)
(* or all there is in a pipe.                                                *)
Filled == IF buffer # <<>> THEN buffer
          ELSE IF tty THEN SubSeq(terminal, 1, 1) ELSE terminal
Kept == IF buffer # <<>> THEN terminal
        ELSE IF tty THEN Tail(terminal) ELSE <<>>
Available == buffer # <<>> \/ terminal # <<>>

(* What is left of a line.  The character read when n is MSG_LEN is lost; if *)
(* it was not the end of the line, the rest is read as a line of its own.    *)
Rest(l) ==
    {<<>>} \cup
    {<<[line |-> line, n |-> l.n, begun |-> TRUE]>> :
        line \in IF l.line = Endless THEN Lines ELSE {}}

GetLine_Flushing(l) ==
    /\ Available
    /\ l = Head(Filled)
    /\ buffer' \in Rest(l)
    /\ terminal' = Kept
    /\ used' = l.n
    /\ UNCHANGED <<tty, typed>>
GetLine(l) ==
    /\ Available
    /\ l = Head(Filled)
    /\ \E rest \in Rest(l) : buffer' = rest \o Tail(Filled)
    /\ terminal' = Kept
    /\ used' = l.n
    /\ UNCHANGED <<tty, typed>>

(* The lines there are to get: one, or none.                                 *)
NextLine == {Head(Filled) : k \in IF Available THEN {1} ELSE {}}

-----------------------------------------------------------------------------
(* The loop.                                                                *)

poll_Typing ==
    /\ at = "poll"
    /\ terminal # <<>>
    /\ revents' = [i \in 0..1 |-> IF i = 0 THEN inbox # <<>> \/ closed ELSE terminal # <<>>]
    /\ at' = "slot 0"
    /\ did' = Nothing
    /\ UNCHANGED <<server, keyboard, buffer, used>>
poll ==
    /\ at = "poll"
    /\ inbox # <<>> \/ closed \/ terminal # <<>>
    /\ revents' = [i \in 0..1 |-> IF i = 0 THEN inbox # <<>> \/ closed ELSE terminal # <<>>]
    /\ at' = "slot 0"
    /\ did' = Nothing
    /\ UNCHANGED <<server, keyboard, buffer, used>>

Receive ==
    /\ at = "slot 0"
    /\ \/ ~revents[0] /\ at' = "slot 1" /\ UNCHANGED inbox
       \/ revents[0] /\ inbox = <<>> /\ at' = "exited" /\ UNCHANGED inbox
       \/ /\ revents[0]
          /\ inbox # <<>>
          /\ inbox' = Tail(inbox)
          /\ at' = CASE Head(inbox) = "FILE_REQUEST" -> "prompt"
                     [] Head(inbox) = "FILE_ACCEPT" -> "transfer"
                     [] OTHER -> "slot 1"
    /\ UNCHANGED <<revents, closed, received, keyboard, buffer, used, did>>

ToKeyboard_Always ==
    /\ at = "slot 1"
    /\ at' = "keyboard"
    /\ UNCHANGED <<revents, server, keyboard, buffer, used, did>>
ToKeyboard ==
    /\ at = "slot 1"
    /\ at' = IF revents[1] THEN "keyboard" ELSE "poll"
    /\ UNCHANGED <<revents, server, keyboard, buffer, used, did>>

(* A client that sends to a closed connection may be killed.                 *)
After(c, next) ==
    CASE c.does = "crash" -> {"crashed"}
      [] c.does = "leave" -> {"exited"}
      [] c.does = "send" /\ closed -> {next, "exited"}
      [] OTHER -> {next}

Execute ==
    /\ at = "keyboard"
    /\ \E l \in NextLine :
          /\ GetLine(l)
          /\ \E c \in Command(l.line) :
                /\ did' = c
                /\ at' \in After(c, "poll")
    /\ UNCHANGED <<revents, server>>

(* client_handle_file_request_res, one turn of its loop.                     *)
Answer ==
    /\ at = "prompt"
    /\ \E l \in NextLine :
          /\ GetLine(l)
          /\ LET says(w) == l.line = [word |-> w, arg |-> "none", rest |-> "none"]
             IN  \/ /\ says("Y")
                    /\ did' = Send("FILE_ACCEPT", "name", "address")
                    /\ at' \in After(did', "accept")
                 \/ /\ says("N")
                    /\ did' = Send("FILE_REJECT", "name", "none")
                    /\ at' \in After(did', "slot 1")
                 \/ /\ ~says("Y")
                    /\ ~says("N")
                    /\ did' = Nothing
                    /\ UNCHANGED at
    /\ UNCHANGED <<revents, server>>

-----------------------------------------------------------------------------
(* The world.                                                               *)

(* The other client connects, and the file is sent; or the transfer ends     *)
(* the client.                                                               *)
FileDone ==
    /\ at \in {"accept", "transfer"}
    /\ at' \in {"slot 1", "exited"}
    /\ UNCHANGED <<revents, server, keyboard, buffer, used, did>>

Type ==
    /\ typed < MaxLines
    /\ \E line \in Lines : terminal' = Append(terminal, Typed(line))
    /\ typed' = typed + 1
    /\ UNCHANGED <<tty, at, revents, server, buffer, used, did>>

ServerSends ==
    /\ ~closed
    /\ received < MaxPackets
    /\ \E p \in Incoming : inbox' = Append(inbox, p)
    /\ received' = received + 1
    /\ UNCHANGED <<at, revents, closed, keyboard, buffer, used, did>>

ServerCloses ==
    /\ ~closed
    /\ closed' = TRUE
    /\ UNCHANGED <<at, revents, inbox, received, keyboard, buffer, used, did>>

Init ==
    /\ tty \in {kind = "terminal" : kind \in Keyboards}
    /\ at = "poll"
    /\ revents = [i \in 0..1 |-> FALSE]
    /\ inbox = <<>>
    /\ closed = FALSE
    /\ terminal = <<>>
    /\ buffer = <<>>
    /\ typed = 0
    /\ used = 0
    /\ did = Nothing
    /\ received = 0

Client == poll \/ Receive \/ ToKeyboard \/ Execute \/ Answer
World == FileDone \/ Type \/ ServerSends \/ ServerCloses
Next == Client \/ World

(* The client is one process the system schedules; nothing is assumed of its *)
(* user, of the server or of the other client.                               *)
Spec == Init /\ [][Next]_vars /\ WF_vars(Client)
-----------------------------------------------------------------------------
(* Safety.                                                                  *)

(* The loop and the prompt read one keyboard through one buffer, and between *)
(* them miss no line and read none twice or out of turn: what has been typed *)
(* and not used follows on from what has been, the rest of a line too long   *)
(* for the array before all others.                                          *)
EveryLineInTurn ==
    LET left == buffer \o terminal
        again == IF left # <<>> /\ Head(left).begun THEN 1 ELSE 0
    IN  /\ \A k \in DOMAIN left : left[k].n = used + k - again
        /\ used + Len(left) - again = typed

(* What the server may suppose of a packet from this program: a nickname     *)
(* asked for is one the user struct can hold, what is to be created or        *)
(* written to has a name, and a message has a text.                          *)
RequestsWellFormed ==
    did.does = "send" =>
        /\ did.type = "NICKNAME_NEW" => did.infos = "name"
        /\ did.type \in {"UNICAST_SEND", "MULTICAST_CREATE", "FILE_REQUEST"} =>
              did.infos # "empty"
        /\ did.type \in {"BROADCAST_SEND", "UNICAST_SEND"} => did.payload = "text"

(* getchar is called in the loop only when it has something to return, so    *)
(* that the loop waits nowhere but in poll; except that what poll reported   *)
(* may since have been the answer to a prompt.                              *)
TakenByPrompt == did.type \in {"FILE_ACCEPT", "FILE_REJECT"}
KeyboardNeverBlocks == at = "keyboard" => Available \/ TakenByPrompt

-----------------------------------------------------------------------------
(* Liveness.                                                                *)

(* Whatever the user does or fails to do, each packet from the server is     *)
(* read, unless the client waits for the answer to a prompt, for a transfer  *)
(* to begin or end, or for a line that the prompt took, or has stopped.      *)
Asking == at \in {"prompt", "accept", "transfer"} \/ (at = "keyboard" /\ ~Available)
HeardUnlessAsking ==
    \A n \in 1..MaxPackets :
        received >= n ~> (received - Len(inbox) >= n \/ Asking \/ at \in Stopped)
=============================================================================
