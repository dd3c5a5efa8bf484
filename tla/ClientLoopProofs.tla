-------------------------- MODULE ClientLoopProofs --------------------------
(***************************************************************************)
(* Theorems about ClientLoop, for any lines its user types, any packets the *)
(* server sends, and a terminal or a pipe for a keyboard.                   *)
(***************************************************************************)
EXTENDS ClientLoop, SequenceTheorems, TLAPS

Line == Typeable \cup {Endless}
Numbered == [line : Line, n : Nat, begun : BOOLEAN]

Types == {"DEFAULT", "NICKNAME_NEW", "NICKNAME_LIST", "NICKNAME_INFOS", "BROADCAST_SEND",
          "UNICAST_SEND", "MULTICAST_CREATE", "MULTICAST_LIST", "MULTICAST_JOIN",
          "MULTICAST_QUIT", "MULTICAST_SEND", "FILE_REQUEST", "FILE_ACCEPT", "FILE_REJECT"}
Deeds == [does : {"nothing", "crash", "leave", "send"}, type : Types,
          infos : {"none", "empty", "name", "cut", "odd"},
          payload : {"none", "text", "null", "file", "cut", "address"}]

Places == {"poll", "slot 0", "slot 1", "keyboard", "prompt", "accept", "transfer"} \cup Stopped

(* Every variable of the client has its type.                                *)
ClientTypeOK ==
    /\ tty \in BOOLEAN
    /\ at \in Places
    /\ revents \in [0..1 -> BOOLEAN]
    /\ inbox \in Seq(PacketKinds)
    /\ closed \in BOOLEAN
    /\ terminal \in Seq(Numbered)
    /\ buffer \in Seq(Numbered)
    /\ typed \in Nat
    /\ used \in Nat
    /\ did \in Deeds
    /\ received \in Nat

-----------------------------------------------------------------------------
(* The inductive invariant.                                                 *)

(* Of the lines L that are left, only the first may have been begun.         *)
Again(L) == IF L # <<>> /\ Head(L).begun THEN 1 ELSE 0
OnlyFirstBegun(L) == \A k \in 1..Len(L) : k > 1 => ~L[k].begun

(* After line u, of t lines.                                                 *)
InTurn(L, u, t) ==
    /\ \A k \in 1..Len(L) : L[k].n = u + k - Again(L)
    /\ u + Len(L) - Again(L) = t

WellFormed(d) ==
    d.does = "send" =>
        /\ d.type = "NICKNAME_NEW" => d.infos = "name"
        /\ d.type \in {"UNICAST_SEND", "MULTICAST_CREATE", "FILE_REQUEST"} =>
              d.infos # "empty"
        /\ d.type \in {"BROADCAST_SEND", "UNICAST_SEND"} => d.payload = "text"

(* What poll reported of the keyboard is still so, unless a prompt has had   *)
(* it, and once a prompt is answered that is what the client did last.       *)
StillThere ==
    /\ at = "keyboard" => revents[1]
    /\ at = "accept" => TakenByPrompt
    /\ at \in {"slot 0", "slot 1", "transfer", "keyboard"} /\ revents[1] =>
          Available \/ TakenByPrompt

ClientInv ==
    /\ ClientTypeOK
    /\ OnlyFirstBegun(buffer \o terminal)
    /\ InTurn(buffer \o terminal, used, typed)
    /\ WellFormed(did)
    /\ StillThere

-----------------------------------------------------------------------------
(* Lemmas about the operators of the model.                                 *)

(* What a command does is one of the deeds, and if it is to send a packet,   *)
(* the packet is well formed.                                                *)
LEMMA ParsedDoes ==
    ASSUME NEW line \in Typeable, NEW c \in Parsed(line)
    PROVE  c \in Deeds /\ WellFormed(c)
<1>1. \A a \in Args : InfosOf(a) \in {"empty", "name", "cut", "odd"} /\ (a # "none" => InfosOf(a) # "empty")
    BY DEF Args, InfosOf
<1>2. /\ \A a \in Args : line.arg \in Args
      /\ line.arg \in Args /\ line.rest \in Rests
      /\ line.word \in Words
    BY DEF Typeable
<1>3. CASE line.word = "/nick"
    <2>1. c = client_send_nickname_new_req(line.arg)
        BY <1>3 DEF Parsed
    <2>2. InfosOf("name") = "name"
        BY DEF InfosOf
    <2>3. c = Nothing \/ c = Send("NICKNAME_NEW", "name", "none")
        BY <2>1, <2>2, <1>2 DEF client_send_nickname_new_req, Args
    <2> QED  BY <2>3 DEF Nothing, Send, Deeds, Types, WellFormed
<1>4. CASE line.word \in {"/who", "/channel_list"}
    <2>1. \E type \in {"NICKNAME_LIST", "MULTICAST_LIST"} : c = Send(type, "none", "none")
        BY <1>4 DEF Parsed
    <2>2. c \in Deeds
        BY <2>1 DEF Send, Deeds, Types
    <2>3. WellFormed(c)
        BY <2>1 DEF Send, WellFormed
    <2> QED  BY <2>2, <2>3
<1>5. CASE line.word \in {"/whois", "/join"}
    <2>1. \E type \in {"NICKNAME_INFOS", "MULTICAST_JOIN"} : c = Send(type, InfosOf(line.arg), "none")
        BY <1>5 DEF Parsed
    <2>2. c \in Deeds
        BY <2>1, <1>1, <1>2 DEF Send, Deeds, Types
    <2>3. WellFormed(c)
        BY <2>1 DEF Send, WellFormed
    <2> QED  BY <2>2, <2>3
<1>6. CASE line.word = "/quit"
    BY <1>6, <1>1, <1>2 DEF Parsed, Send, Nothing, Disconnect, Deeds, Types, WellFormed
<1>7. CASE line.word = "/msgall"
    BY <1>7 DEF Parsed, client_send_broadcast_send_req, Nothing, Crash, Send, Deeds, Types, WellFormed
<1>8. CASE line.word = "/msg"
    BY <1>8, <1>1, <1>2 DEF Parsed, client_send_unicast_send_req, Nothing, Send, Deeds, Types, WellFormed
<1>9. CASE line.word = "/create"
    BY <1>9, <1>1, <1>2 DEF Parsed, client_send_multicast_create_req, Nothing, Send, Deeds, Types, WellFormed
<1>10. CASE line.word = "/send"
    <2>1. c \in client_send_file_req(line.arg, line.rest)
        BY <1>10 DEF Parsed
    <2>2. CASE line.arg = "none" \/ line.rest = "none"
        BY <2>1, <2>2 DEF client_send_file_req, Nothing, Deeds, Types, WellFormed
    <2>3. CASE ~(line.arg = "none" \/ line.rest = "none")
        <3>1. c \in FileRequests(line.arg, line.rest)
            BY <2>1, <2>3 DEF client_send_file_req
        <3>2. c \in {Send("FILE_REQUEST", InfosOf(line.arg), f) : f \in {"file", "cut", "null"}} \cup {Crash}
            BY <3>1, <2>3, <1>2 DEF FileRequests, Rests
        <3> QED  BY <3>2, <2>3, <1>1, <1>2 DEF Send, Crash, Nothing, Deeds, Types, WellFormed
    <2> QED  BY <2>2, <2>3
<1>11. CASE line.word \in {"", "/help"}
    <2>1. c = Nothing
        BY <1>11 DEF Parsed
    <2> QED  BY <2>1 DEF Nothing, Deeds, Types, WellFormed
<1>12. CASE line.word \in {"Y", "N", "hello"}
    <2>1. c = Send("MULTICAST_SEND", "none", "text")
        BY <1>12 DEF Parsed
    <2>2. c \in Deeds
        BY <2>1 DEF Send, Deeds, Types
    <2>3. WellFormed(c)
        BY <2>1 DEF Send, WellFormed
    <2> QED  BY <2>2, <2>3
<1> QED  BY <1>2, <1>3, <1>4, <1>5, <1>6, <1>7, <1>8, <1>9, <1>10, <1>11, <1>12 DEF Words

(* The same of a line without an end, which may be any command.              *)
LEMMA CommandDoes ==
    ASSUME NEW line \in Line, NEW c \in Command(line)
    PROVE  c \in Deeds /\ WellFormed(c)
<1>1. CASE c = Crash
    BY <1>1 DEF Crash, Nothing, Deeds, Types, WellFormed
<1>2. CASE \E l \in Typeable : c \in Parsed(l)
    BY <1>2, ParsedDoes
<1> QED  BY <1>1, <1>2 DEF Command, Overrun, Line

(* What is left of a line is nothing, or one line that has been begun.       *)
LEMMA RestOfLine ==
    ASSUME NEW l \in Numbered, NEW rest \in Rest(l)
    PROVE  /\ rest \in Seq(Numbered)
           /\ rest = <<>> \/ \E x \in Numbered : rest = <<x>> /\ x.begun /\ x.n = l.n
<1>1. CASE rest = <<>>
    BY <1>1, EmptySeq
<1>2. ASSUME rest # <<>>
      PROVE  \E x \in Numbered : rest = <<x>> /\ x.begun /\ x.n = l.n
    <2>1. PICK line \in Lines : rest = <<[line |-> line, n |-> l.n, begun |-> TRUE]>>
        BY <1>2 DEF Rest
    <2>2. line \in Line /\ l.n \in Nat
        BY LoopAssumption DEF Line, Numbered
    <2>3. PICK x : x = [line |-> line, n |-> l.n, begun |-> TRUE]
        OBVIOUS
    <2>4. x \in Numbered /\ x.begun /\ x.n = l.n
        BY <2>2, <2>3 DEF Numbered
    <2> QED  BY <2>1, <2>3, <2>4
<1>3. \A x \in Numbered : <<x>> \in Seq(Numbered)
    OBVIOUS
<1> QED  BY <1>1, <1>2, <1>3

(* The library's facts about the head and the tail of a sequence.            *)
LEMMA FirstAndRest ==
    ASSUME NEW S, NEW s \in Seq(S), s # <<>>
    PROVE  /\ Len(s) \in Nat /\ Len(s) > 0
           /\ Head(s) \in S /\ Head(s) = s[1]
           /\ Tail(s) \in Seq(S) /\ Len(Tail(s)) = Len(s) - 1
           /\ \A k \in 1..(Len(s) - 1) : Tail(s)[k] = s[k + 1]
           /\ s = <<Head(s)>> \o Tail(s)
<1>1. Len(s) \in Nat /\ Len(s) > 0
    BY EmptySeq, LenProperties
<1>2. Head(s) \in S /\ Tail(s) \in Seq(S) /\ Len(Tail(s)) = Len(s) - 1
    BY HeadTailProperties
<1>3. Head(s) = s[1]
    BY <1>1
<1>4. \A k \in 1..(Len(s) - 1) : Tail(s)[k] = s[k + 1]
    BY <1>1
<1>5. s = <<Head(s)>> \o Tail(s)
    <2> DEFINE t == <<Head(s)>> \o Tail(s)
    <2>1. <<Head(s)>> \in Seq(S) /\ Len(<<Head(s)>>) = 1 /\ <<Head(s)>>[1] = Head(s)
        BY <1>2
    <2>2. /\ t \in Seq(S) /\ Len(t) = 1 + (Len(s) - 1)
          /\ \A k \in 1..(1 + (Len(s) - 1)) :
                t[k] = IF k <= 1 THEN <<Head(s)>>[k] ELSE Tail(s)[k - 1]
        BY <1>2, <2>1, ConcatProperties
    <2> HIDE DEF t
    <2>3. Len(t) = Len(s)
        BY <1>1, <2>2
    <2>4. \A k \in 1..Len(s) : s[k] = t[k]
        BY <1>1, <1>3, <1>4, <2>1, <2>2
    <2>5. s = t
        BY <2>2, <2>3, <2>4, SeqEqual
    <2> QED  BY <2>5 DEF t
<1> QED  BY <1>1, <1>2, <1>3, <1>4, <1>5

(* A line is taken from the front of those that are left, or only begun.     *)
LEMMA TakeInTurn ==
    ASSUME NEW L \in Seq(Numbered), L # <<>>, NEW u \in Nat, NEW t \in Nat,
           OnlyFirstBegun(L), InTurn(L, u, t), NEW rest \in Rest(Head(L))
    PROVE  /\ OnlyFirstBegun(rest \o Tail(L))
           /\ InTurn(rest \o Tail(L), Head(L).n, t)
<1>1. /\ Len(L) \in Nat /\ Len(L) > 0
      /\ Head(L) \in Numbered /\ Head(L) = L[1]
      /\ Tail(L) \in Seq(Numbered) /\ Len(Tail(L)) = Len(L) - 1
      /\ \A k \in 1..(Len(L) - 1) : Tail(L)[k] = L[k + 1]
    BY FirstAndRest
<1> DEFINE m == Len(L)
           a == Again(L)
           T == Tail(L)
<1>2. /\ m \in Nat /\ m > 0 /\ a \in {0, 1}
      /\ \A k \in 1..m : L[k].n = u + k - a
      /\ u + m - a = t
      /\ \A k \in 1..m : k > 1 => ~L[k].begun
      /\ a = 1 <=> L[1].begun
    BY <1>1 DEF InTurn, OnlyFirstBegun, Again
<1>3. /\ T \in Seq(Numbered) /\ Len(T) = m - 1
      /\ \A k \in 1..(m - 1) : T[k] = L[k + 1]
    BY <1>1
<1>4. Head(L).n = u + 1 - a /\ Head(L).n \in Nat
    BY <1>1, <1>2 DEF Numbered
<1>r. rest = <<>> \/ \E x \in Numbered : rest = <<x>> /\ x.begun /\ x.n = Head(L).n
    BY <1>1, RestOfLine
<1> HIDE DEF m, a, T
<1>5. CASE rest = <<>>
    <2>1. rest \o T = T
        BY <1>3, <1>5, ConcatEmptySeq
    <2>2. \A k \in 1..(m - 1) : ~T[k].begun /\ T[k].n = u + (k + 1) - a
        <3> TAKE k \in 1..(m - 1)
        <3>1. k + 1 \in 1..m /\ k + 1 > 1
            BY <1>2
        <3> QED  BY <3>1, <1>2, <1>3
    <2>3. OnlyFirstBegun(T)
        BY <1>3, <2>2 DEF OnlyFirstBegun
    <2>4. Again(T) = 0
        <3>1. CASE T # <<>>
            <4>1. Len(T) > 0 /\ Head(T) = T[1]
                BY <1>3, <3>1, FirstAndRest
            <4> QED  BY <4>1, <1>2, <1>3, <2>2 DEF Again
        <3> QED  BY <3>1 DEF Again
    <2>5. InTurn(T, Head(L).n, t)
        BY <1>2, <1>3, <1>4, <2>2, <2>4 DEF InTurn
    <2> QED  BY <2>1, <2>3, <2>5 DEF T
<1>6. CASE \E x \in Numbered : rest = <<x>> /\ x.begun /\ x.n = Head(L).n
    <2>1. PICK x \in Numbered : rest = <<x>> /\ x.begun /\ x.n = Head(L).n
        BY <1>6
    <2> DEFINE R == <<x>> \o T
    <2>2. x.begun /\ x.n = u + 1 - a
        BY <1>4, <2>1
    <2>3. rest \o T = R
        BY <2>1
    <2>4. <<x>> \in Seq(Numbered) /\ Len(<<x>>) = 1 /\ <<x>>[1] = x
        BY <2>2
    <2>5. /\ R \in Seq(Numbered) /\ Len(R) = 1 + (m - 1)
          /\ \A k \in 1..(1 + (m - 1)) : R[k] = IF k <= 1 THEN <<x>>[k] ELSE T[k - 1]
        BY <1>3, <2>4, ConcatProperties
    <2> HIDE DEF R
    <2>6. Len(R) = m /\ R[1] = x /\ \A k \in 2..m : R[k] = L[k]
        <3>1. Len(R) = m /\ 1 \in 1..m
            BY <1>2, <2>5
        <3>2. ASSUME NEW k \in 2..m PROVE R[k] = L[k]
            <4>1. k \in 1..(1 + (m - 1)) /\ ~(k <= 1) /\ k - 1 \in 1..(m - 1) /\ (k - 1) + 1 = k
                BY <1>2
            <4> QED  BY <4>1, <1>3, <2>5
        <3>3. R[1] = x
            BY <1>2, <2>4, <2>5
        <3> QED  BY <3>1, <3>2, <3>3
    <2>7. R # <<>> /\ Head(R) = x
        BY <1>2, <2>5, <2>6, EmptySeq
    <2>8. Again(R) = 1
        BY <2>2, <2>7 DEF Again
    <2>9. OnlyFirstBegun(R)
        <3>1. ASSUME NEW k \in 1..m, k > 1 PROVE ~R[k].begun
            <4>1. k \in 2..m
                BY <3>1, <1>2
            <4> QED  BY <4>1, <3>1, <1>2, <2>6
        <3> QED  BY <3>1, <2>6 DEF OnlyFirstBegun
    <2>10. \A k \in 1..m : R[k].n = u + k - a
        <3> TAKE k \in 1..m
        <3>1. CASE k = 1
            BY <2>2, <2>6, <3>1
        <3>2. CASE k \in 2..m
            BY <1>2, <2>6, <3>2
        <3> QED  BY <3>1, <3>2
    <2>11. InTurn(R, Head(L).n, t)
        <3> DEFINE v == Head(L).n
        <3>1. v = u + 1 - a
            BY <1>4
        <3> HIDE DEF v
        <3>2. \A k \in 1..m : R[k].n = v + k - 1
            BY <3>1, <1>2, <2>10
        <3>3. v + m - 1 = t
            BY <3>1, <1>2
        <3> QED  BY <3>2, <3>3, <2>6, <2>8 DEF InTurn, v
    <2> QED  BY <2>3, <2>9, <2>11 DEF T
<1> QED  BY <1>r, <1>5, <1>6

(* What is left once GetLine has returned line l.                            *)
LEMMA GetLineLeaves ==
    ASSUME ClientTypeOK, NEW l \in NextLine, GetLine(l)
    PROVE  /\ l = Head(buffer \o terminal)
           /\ buffer \o terminal \in Seq(Numbered) /\ buffer \o terminal # <<>>
           /\ \E rest \in Rest(l) : buffer' \o terminal' = rest \o Tail(buffer \o terminal)
           /\ buffer' \in Seq(Numbered) /\ terminal' \in Seq(Numbered)
           /\ used' = l.n /\ used' \in Nat /\ l \in Numbered
           /\ UNCHANGED <<tty, typed>>
<1>1. /\ buffer \in Seq(Numbered) /\ terminal \in Seq(Numbered) /\ tty \in BOOLEAN
      /\ <<>> \in Seq(Numbered)
    BY EmptySeq DEF ClientTypeOK
<1>2. /\ Available /\ l = Head(Filled)
      /\ terminal' = Kept
      /\ used' = l.n /\ UNCHANGED <<tty, typed>>
    BY DEF GetLine
<1>r. PICK rest \in Rest(l) : buffer' = rest \o Tail(Filled)
    BY DEF GetLine
<1>3. /\ Filled \in Seq(Numbered) /\ Kept \in Seq(Numbered) /\ Filled # <<>>
      /\ Filled \o Kept = buffer \o terminal
    <2>1. CASE buffer # <<>>
        BY <2>1, <1>1 DEF Filled, Kept
    <2>2. CASE buffer = <<>> /\ tty
        <3>1. terminal # <<>>
            BY <1>2, <2>2 DEF Available
        <3>2. /\ Head(terminal) \in Numbered /\ Tail(terminal) \in Seq(Numbered)
              /\ Len(terminal) \in Nat /\ Len(terminal) > 0 /\ Head(terminal) = terminal[1]
              /\ terminal = <<Head(terminal)>> \o Tail(terminal)
            BY <1>1, <3>1, FirstAndRest
        <3>3. SubSeq(terminal, 1, 1) = <<Head(terminal)>>
            <4> DEFINE x == terminal
            <4>1. x \in Seq(Numbered) /\ Len(x) > 0 /\ Head(terminal) = x[1]
                BY <1>1, <3>2
            <4> HIDE DEF x
            <4>2. SubSeq(x, 1, 1) = <<x[1]>>
                <5>1. x[1] \in Numbered
                    BY <4>1, <3>2 DEF x
                <5>2. \A i \in 1..1 : x[i] \in Numbered
                    BY <5>1
                <5>3. /\ SubSeq(x, 1, 1) \in Seq(Numbered)
                      /\ Len(SubSeq(x, 1, 1)) = 1
                      /\ SubSeq(x, 1, 1)[1] = x[1]
                    BY <5>2, SubSeqProperties
                <5>4. <<x[1]>> \in Seq(Numbered) /\ Len(<<x[1]>>) = 1 /\ <<x[1]>>[1] = x[1]
                    BY <5>1
                <5> DEFINE p == SubSeq(x, 1, 1)
                           q == <<x[1]>>
                <5>5. /\ p \in Seq(Numbered) /\ q \in Seq(Numbered) /\ Len(p) = Len(q)
                      /\ \A i \in 1..Len(p) : p[i] = q[i]
                    BY <5>3, <5>4
                <5> HIDE DEF p, q
                <5>6. p = q
                    BY <5>5, SeqEqual
                <5> QED  BY <5>6 DEF p, q
            <4> QED  BY <4>1, <4>2 DEF x
        <3>4. Filled = <<Head(terminal)>> /\ Kept = Tail(terminal)
            BY <2>2, <3>3 DEF Filled, Kept
        <3>5. <<>> \o terminal = terminal
            BY <1>1, ConcatEmptySeq
        <3> QED  BY <2>2, <3>2, <3>4, <3>5
    <2>3. CASE buffer = <<>> /\ ~tty
        <3>1. terminal # <<>>
            BY <1>2, <2>3 DEF Available
        <3>2. Filled = terminal /\ Kept = <<>>
            BY <2>3 DEF Filled, Kept
        <3>3. <<>> \o terminal = terminal /\ terminal \o <<>> = terminal
            BY <1>1, ConcatEmptySeq
        <3> QED  BY <2>3, <1>1, <3>1, <3>2, <3>3
    <2> QED  BY <2>1, <2>2, <2>3, <1>1
<1>4. /\ Head(Filled) \in Numbered /\ Tail(Filled) \in Seq(Numbered)
      /\ Filled = <<Head(Filled)>> \o Tail(Filled)
    BY <1>3, FirstAndRest
<1> DEFINE H == Head(Filled)
           T == Tail(Filled)
           K == Kept
           L == buffer \o terminal
<1>5. L \in Seq(Numbered) /\ L = (<<H>> \o T) \o K /\ <<H>> \in Seq(Numbered)
      /\ T \in Seq(Numbered) /\ K \in Seq(Numbered) /\ H \in Numbered /\ l = H
    <2>1. L \in Seq(Numbered)
        BY <1>1, ConcatProperties
    <2>2. L = (<<H>> \o T) \o K
        BY <1>3, <1>4
    <2>3. H \in Numbered /\ T \in Seq(Numbered) /\ K \in Seq(Numbered) /\ l = H
        BY <1>2, <1>3, <1>4
    <2>4. <<H>> \in Seq(Numbered)
        BY <2>3
    <2> QED  BY <2>1, <2>2, <2>3, <2>4
<1>6. rest \in Seq(Numbered)
    BY <1>5, <1>r, RestOfLine
<1>7. buffer' = rest \o T /\ terminal' = K
    BY <1>2, <1>r
<1> HIDE DEF H, T, K, L
<1>8. L = <<H>> \o (T \o K) /\ T \o K \in Seq(Numbered)
    <2>1. (<<H>> \o T) \o K = <<H>> \o (T \o K)
        BY <1>5, ConcatAssociative, SMTT(30)
    <2>2. T \o K \in Seq(Numbered)
        BY <1>5, ConcatProperties
    <2> QED  BY <1>5, <2>1, <2>2
<1>9. L # <<>> /\ Head(L) = H /\ Tail(L) = T \o K
    <2> DEFINE R == T \o K
    <2>1. R \in Seq(Numbered) /\ L = <<H>> \o R
        BY <1>8
    <2> HIDE DEF R
    <2>2. L # <<>> /\ Head(L) = H /\ Tail(L) = R
        BY <2>1, <1>5
    <2> QED  BY <2>2 DEF R
<1>10. (rest \o T) \o K = rest \o (T \o K)
    BY <1>5, <1>6, ConcatAssociative, SMTT(30)
<1>11. rest \o T \in Seq(Numbered)
    BY <1>5, <1>6, ConcatProperties
<1>12. used' = l.n /\ used' \in Nat
    BY <1>2, <1>5 DEF Numbered
<1> QED  BY <1>2, <1>r, <1>5, <1>7, <1>9, <1>10, <1>11, <1>12 DEF L

(* A line that is typed comes last.                                          *)
LEMMA TypeInTurn ==
    ASSUME NEW L \in Seq(Numbered), NEW u \in Nat, NEW t \in Nat,
           OnlyFirstBegun(L), InTurn(L, u, t),
           NEW x \in Numbered, ~x.begun, x.n = t + 1
    PROVE  OnlyFirstBegun(Append(L, x)) /\ InTurn(Append(L, x), u, t + 1)
<1> DEFINE m == Len(L)
           a == Again(L)
           T == Append(L, x)
<1>1. /\ m \in Nat /\ a \in {0, 1}
      /\ \A k \in 1..m : L[k].n = u + k - a
      /\ u + m - a = t
      /\ \A k \in 1..m : k > 1 => ~L[k].begun
    BY LenProperties DEF InTurn, OnlyFirstBegun, Again
<1>2. /\ T \in Seq(Numbered) /\ Len(T) = m + 1 /\ T[m + 1] = x
      /\ \A k \in 1..m : T[k] = L[k]
    BY AppendProperties
<1>3. Again(T) = a
    <2>1. CASE L = <<>>
        <3>1. m = 0
            BY <2>1
        <3>2. Head(T) = x
            BY <1>2, <3>1
        <3> QED  BY <2>1, <3>2 DEF Again
    <2>2. CASE L # <<>>
        <3>1. m > 0 /\ Head(L) = L[1]
            BY <2>2, FirstAndRest
        <3>2. T # <<>> /\ Head(T) = T[1] /\ T[1] = L[1]
            <4>1. T # <<>>
                BY <1>1, <1>2, EmptySeq
            <4> QED  BY <1>1, <1>2, <3>1, <4>1, FirstAndRest
        <3> QED  BY <2>2, <3>1, <3>2 DEF Again
    <2> QED  BY <2>1, <2>2
<1> HIDE DEF m, a, T
<1>4. \A k \in 1..(m + 1) : /\ T[k].n = u + k - a
                            /\ k > 1 => ~T[k].begun
    <2> TAKE k \in 1..(m + 1)
    <2>1. CASE k = m + 1
        <3>1. T[k] = x
            BY <2>1, <1>2, Zenon
        <3>2. T[k].n = t + 1 /\ ~T[k].begun
            BY <3>1, Zenon
        <3>3. m \in Nat /\ a \in {0, 1} /\ u + m - a = t
            BY <1>1, Zenon
        <3>4. t + 1 = u + k - a
            BY <2>1, <3>3
        <3> QED  BY <3>2, <3>4, Zenon
    <2>2. CASE k \in 1..m
        BY <2>2, <1>1, <1>2
    <2> QED  BY <2>1, <2>2, <1>1
<1>5. u + (m + 1) - a = t + 1
    BY <1>1
<1>6. OnlyFirstBegun(T) /\ InTurn(T, u, t + 1)
    BY <1>2, <1>3, <1>4, <1>5 DEF OnlyFirstBegun, InTurn
<1> QED  BY <1>6 DEF T

-----------------------------------------------------------------------------
(* ClientInv is inductive.                                                  *)

(* The client starts at poll, with nothing typed and nothing to read.        *)
LEMMA InitClientInv == Init => ClientInv
<1> SUFFICES ASSUME Init PROVE ClientInv
    OBVIOUS
<1>1. \A S : <<>> \in Seq(S)
    BY EmptySeq
<1>2. ClientTypeOK
    BY <1>1 DEF Init, ClientTypeOK, Places, Nothing, Deeds, Types
<1>3. buffer \o terminal = <<>>
    BY <1>1, ConcatEmptySeq DEF Init
<1>4. OnlyFirstBegun(<<>>) /\ InTurn(<<>>, 0, 0)
    <2>1. Len(<<>>) = 0 /\ Again(<<>>) = 0
        BY DEF Again
    <2> QED  BY <2>1 DEF OnlyFirstBegun, InTurn
<1>5. WellFormed(did) /\ StillThere
    BY DEF Init, Nothing, WellFormed, StillThere
<1> QED  BY <1>2, <1>3, <1>4, <1>5 DEF Init, ClientInv

(* A step that takes no line and does nothing keeps the lines in turn.       *)
LEMMA NoLineTaken ==
    ASSUME ClientInv, UNCHANGED <<keyboard, buffer, used>>, did' \in {did, Nothing},
           at' \in Places, revents' \in [0..1 -> BOOLEAN], inbox' \in Seq(PacketKinds),
           closed' \in BOOLEAN, received' \in Nat, StillThere'
    PROVE  ClientInv'
<1>1. Nothing \in Deeds /\ WellFormed(Nothing)
    BY DEF Nothing, Deeds, Types, WellFormed
<1>2. ClientTypeOK'
    BY <1>1 DEF ClientInv, ClientTypeOK, keyboard
<1>3. WellFormed(did)'
    BY <1>1 DEF ClientInv, WellFormed
<1> QED  BY <1>2, <1>3 DEF ClientInv, keyboard

(* poll returns with the slots that have something.                          *)
LEMMA PollClientInv ==
    ASSUME ClientInv, poll
    PROVE  ClientInv'
<1>1. UNCHANGED <<keyboard, buffer, used>> /\ did' = Nothing /\ UNCHANGED server
    BY DEF poll
<1>2. at' = "slot 0" /\ revents' \in [0..1 -> BOOLEAN] /\ (revents'[1] => terminal # <<>>)
    <2> DEFINE e(i) == IF i = 0 THEN inbox # <<>> \/ closed ELSE terminal # <<>>
    <2>1. revents' = [i \in 0..1 |-> e(i)] /\ at' = "slot 0"
        BY DEF poll
    <2>2. \A i \in 0..1 : e(i) \in BOOLEAN
        BY Zenon DEF ClientInv, ClientTypeOK
    <2>3. e(1) = (terminal # <<>>) /\ 1 \in 0..1
        OBVIOUS
    <2> HIDE DEF e
    <2>4. revents' \in [0..1 -> BOOLEAN] /\ revents'[1] = e(1)
        BY <2>1, <2>2, <2>3
    <2> QED  BY <2>1, <2>3, <2>4
<1>3. StillThere'
    BY <1>1, <1>2 DEF StillThere, Available, keyboard
<1> QED  BY <1>1, <1>2, <1>3, NoLineTaken DEF server, Places, ClientInv, ClientTypeOK

(* A packet of the server is read, shown, and may lead to a prompt.          *)
LEMMA ReceiveClientInv ==
    ASSUME ClientInv, Receive
    PROVE  ClientInv'
<1>1. UNCHANGED <<keyboard, buffer, used, did>> /\ UNCHANGED <<revents, closed, received>>
      /\ at = "slot 0"
    BY DEF Receive
<1>2. at' \in {"slot 1", "exited", "prompt", "transfer"}
    BY DEF Receive
<1>3. inbox' \in Seq(PacketKinds)
    BY HeadTailProperties DEF Receive, ClientInv, ClientTypeOK
<1>4. StillThere'
    BY <1>1, <1>2 DEF ClientInv, StillThere, Available, TakenByPrompt, keyboard
<1>5. revents' \in [0..1 -> BOOLEAN] /\ closed' \in BOOLEAN /\ received' \in Nat /\ at' \in Places
    BY <1>1, <1>2 DEF ClientInv, ClientTypeOK, Places, Stopped
<1> QED  BY <1>1, <1>3, <1>4, <1>5, NoLineTaken

(* The loop goes on from slot 0 to the keyboard.                             *)
LEMMA ToKeyboardClientInv ==
    ASSUME ClientInv, ToKeyboard
    PROVE  ClientInv'
<1>1. UNCHANGED <<keyboard, buffer, used, did>> /\ UNCHANGED <<revents, server>> /\ at = "slot 1"
    BY DEF ToKeyboard
<1>2. (at' = "keyboard" /\ revents[1]) \/ at' = "poll"
    BY DEF ToKeyboard
<1>3. StillThere'
    BY <1>1, <1>2 DEF ClientInv, StillThere, Available, TakenByPrompt, keyboard
<1> QED  BY <1>1, <1>2, <1>3, NoLineTaken DEF server, Places, ClientInv, ClientTypeOK

(* A transfer ends, and the loop goes on.                                    *)
LEMMA FileDoneClientInv ==
    ASSUME ClientInv, FileDone
    PROVE  ClientInv'
<1>1. UNCHANGED <<keyboard, buffer, used, did>> /\ UNCHANGED <<revents, server>>
      /\ at \in {"accept", "transfer"} /\ at' \in {"slot 1", "exited"}
    BY DEF FileDone
<1>2. StillThere'
    BY <1>1 DEF ClientInv, StillThere, Available, TakenByPrompt, keyboard
<1>3. at' \in Places
    BY <1>1 DEF Places, Stopped
<1> QED  BY <1>1, <1>2, <1>3, NoLineTaken DEF server, ClientInv, ClientTypeOK

(* The server sends a packet, or closes the connection.                      *)
LEMMA ServerClientInv ==
    ASSUME ClientInv, ServerSends \/ ServerCloses
    PROVE  ClientInv'
<1>1. UNCHANGED <<keyboard, buffer, used, did>> /\ UNCHANGED <<at, revents>>
    BY DEF ServerSends, ServerCloses
<1>2. inbox' \in Seq(PacketKinds) /\ closed' \in BOOLEAN /\ received' \in Nat
    <2>1. CASE ServerSends
        <3>1. PICK p \in PacketKinds : inbox' = Append(inbox, p)
            BY <2>1, LoopAssumption DEF ServerSends
        <3> QED  BY <2>1, <3>1, AppendProperties DEF ServerSends, ClientInv, ClientTypeOK
    <2>2. CASE ServerCloses
        BY <2>2 DEF ServerCloses, ClientInv, ClientTypeOK
    <2> QED  BY <2>1, <2>2
<1>3. StillThere'
    BY <1>1 DEF ClientInv, StillThere, Available, TakenByPrompt, keyboard
<1> QED  BY <1>1, <1>2, <1>3, NoLineTaken DEF ClientInv, ClientTypeOK

(* The user types a line, of a command or without an end.                    *)
LEMMA TypeClientInv ==
    ASSUME ClientInv, Type
    PROVE  ClientInv'
<1>1. UNCHANGED <<tty, at, revents, server, buffer, used, did>> /\ typed' = typed + 1
    BY DEF Type
<1>2. PICK x \in Numbered : /\ ~x.begun /\ x.n = typed + 1
                           /\ terminal' = Append(terminal, x)
    <2>1. PICK line \in Lines : terminal' = Append(terminal, Typed(line))
        BY DEF Type
    <2>2. line \in Line
        BY LoopAssumption DEF Line
    <2>3. typed + 1 \in Nat
        BY DEF ClientInv, ClientTypeOK
    <2>4. Typed(line) \in Numbered /\ ~Typed(line).begun /\ Typed(line).n = typed + 1
        BY <2>2, <2>3 DEF Typed, Numbered
    <2> QED  BY <2>1, <2>2, <2>4
<1>3. /\ buffer \in Seq(Numbered) /\ terminal \in Seq(Numbered)
      /\ typed \in Nat /\ used \in Nat
    BY DEF ClientInv, ClientTypeOK
<1>4. terminal' \in Seq(Numbered) /\ terminal' # <<>>
    BY <1>2, <1>3, AppendProperties, EmptySeq
<1>5. ClientTypeOK'
    BY <1>1, <1>3, <1>4 DEF ClientInv, ClientTypeOK, server
<1>6. buffer' \o terminal' = Append(buffer \o terminal, x)
    BY <1>1, <1>2, <1>3
<1>7. OnlyFirstBegun(buffer \o terminal)' /\ InTurn(buffer \o terminal, used, typed)'
    <2> DEFINE L == buffer \o terminal
    <2>1. L \in Seq(Numbered) /\ OnlyFirstBegun(L) /\ InTurn(L, used, typed)
        BY <1>3, ConcatProperties DEF ClientInv
    <2> HIDE DEF L
    <2>2. OnlyFirstBegun(Append(L, x)) /\ InTurn(Append(L, x), used, typed + 1)
        BY <1>2, <1>3, <2>1, TypeInTurn
    <2> QED  BY <1>1, <1>6, <2>2 DEF L
<1>8. StillThere'
    BY <1>1, <1>4 DEF ClientInv, StillThere, Available, TakenByPrompt
<1>9. WellFormed(did)'
    BY <1>1 DEF ClientInv, WellFormed
<1> QED  BY <1>5, <1>7, <1>8, <1>9 DEF ClientInv

(* A step that takes a line.                                                 *)
LEMMA LineTaken ==
    ASSUME ClientInv, NEW l \in NextLine, GetLine(l), UNCHANGED <<revents, server>>,
           at' \in Places, did' \in Deeds, WellFormed(did)', StillThere'
    PROVE  ClientInv'
<1> DEFINE L == buffer \o terminal
<1>1. /\ l = Head(L)
      /\ L \in Seq(Numbered) /\ L # <<>>
      /\ \E rest \in Rest(l) : buffer' \o terminal' = rest \o Tail(L)
      /\ buffer' \in Seq(Numbered) /\ terminal' \in Seq(Numbered)
      /\ used' = l.n /\ used' \in Nat
      /\ UNCHANGED <<tty, typed>>
    BY GetLineLeaves DEF ClientInv
<1>2. ClientTypeOK'
    BY <1>1 DEF ClientInv, ClientTypeOK, server
<1>3. /\ OnlyFirstBegun(L) /\ InTurn(L, used, typed) /\ used \in Nat /\ typed \in Nat
    BY DEF ClientInv, ClientTypeOK
<1>4. OnlyFirstBegun(L)' /\ InTurn(L, used, typed)'
    <2> HIDE DEF L
    <2>0. PICK rest \in Rest(Head(L)) : buffer' \o terminal' = rest \o Tail(L)
        BY <1>1
    <2>1. OnlyFirstBegun(rest \o Tail(L)) /\ InTurn(rest \o Tail(L), Head(L).n, typed)
        BY <1>1, <1>3, TakeInTurn
    <2>2. OnlyFirstBegun(buffer' \o terminal') /\ InTurn(buffer' \o terminal', used', typed')
        BY <1>1, <2>0, <2>1
    <2> QED  BY <2>2 DEF L
<1> QED  BY <1>2, <1>4 DEF ClientInv

(* A line is read at the keyboard and carried out as a command.              *)
LEMMA ExecuteClientInv ==
    ASSUME ClientInv, Execute
    PROVE  ClientInv'
<1>1. PICK l \in NextLine : GetLine(l) /\ \E c \in Command(l.line) : did' = c /\ at' \in After(c, "poll")
    BY DEF Execute
<1>2. PICK c \in Command(l.line) : did' = c /\ at' \in After(c, "poll")
    BY <1>1
<1>3. l \in Numbered
    BY <1>1, GetLineLeaves DEF ClientInv
<1>4. l.line \in Line
    BY <1>3 DEF Numbered
<1>5. did' \in Deeds /\ WellFormed(did)'
    <2>1. c \in Deeds /\ WellFormed(c)
        BY <1>2, <1>4, CommandDoes
    <2> QED  BY <1>2, <2>1 DEF WellFormed
<1>6. at' \in {"poll", "exited", "crashed"}
    BY <1>2 DEF After
<1>7. StillThere' /\ at' \in Places
    BY <1>6 DEF StillThere, Places, Stopped
<1>8. UNCHANGED <<revents, server>>
    BY DEF Execute
<1> QED  BY <1>1, <1>5, <1>7, <1>8, LineTaken

(* A line is read at the prompt and taken as the answer to it.               *)
LEMMA AnswerClientInv ==
    ASSUME ClientInv, Answer
    PROVE  ClientInv'
<1>1. PICK l \in NextLine :
         /\ GetLine(l)
         /\ \/ did' = Send("FILE_ACCEPT", "name", "address") /\ at' \in After(did', "accept")
            \/ did' = Send("FILE_REJECT", "name", "none") /\ at' \in After(did', "slot 1")
            \/ did' = Nothing /\ UNCHANGED at
    BY DEF Answer
<1>2. at = "prompt" /\ UNCHANGED <<revents, server>>
    BY DEF Answer
<1>3. CASE did' = Send("FILE_ACCEPT", "name", "address") /\ at' \in After(did', "accept")
    <2>1. did' \in Deeds /\ WellFormed(did)' /\ TakenByPrompt'
        BY <1>3 DEF Send, Deeds, Types, WellFormed, TakenByPrompt
    <2>2. at' \in {"accept", "crashed", "exited"}
        BY <1>3 DEF After
    <2>3. StillThere' /\ at' \in Places
        BY <2>1, <2>2 DEF StillThere, Places, Stopped
    <2> QED  BY <1>1, <1>2, <2>1, <2>3, LineTaken
<1>4. CASE did' = Send("FILE_REJECT", "name", "none") /\ at' \in After(did', "slot 1")
    <2>1. did' \in Deeds /\ WellFormed(did)' /\ TakenByPrompt'
        BY <1>4 DEF Send, Deeds, Types, WellFormed, TakenByPrompt
    <2>2. at' \in {"slot 1", "crashed", "exited"}
        BY <1>4 DEF After
    <2>3. StillThere' /\ at' \in Places
        BY <2>1, <2>2 DEF StillThere, Places, Stopped
    <2> QED  BY <1>1, <1>2, <2>1, <2>3, LineTaken
<1>5. CASE did' = Nothing /\ UNCHANGED at
    <2>1. did' \in Deeds /\ WellFormed(did)'
        BY <1>5 DEF Nothing, Deeds, Types, WellFormed
    <2>2. StillThere' /\ at' \in Places
        BY <1>2, <1>5 DEF StillThere, Places
    <2> QED  BY <1>1, <1>2, <2>1, <2>2, LineTaken
<1> QED  BY <1>1, <1>3, <1>4, <1>5

(* Every step keeps the inductive invariant, one lemma for each action.      *)
LEMMA StepClientInv == ClientInv /\ [Next]_vars => ClientInv'
<1> SUFFICES ASSUME ClientInv, [Next]_vars PROVE ClientInv'
    OBVIOUS
<1>1. CASE UNCHANGED vars
    <2>1. UNCHANGED <<keyboard, buffer, used, did>> /\ UNCHANGED <<at, revents, server>>
        BY <1>1 DEF vars
    <2>2. StillThere'
        BY <2>1 DEF ClientInv, StillThere, Available, TakenByPrompt, keyboard
    <2> QED  BY <2>1, <2>2, NoLineTaken DEF server, ClientInv, ClientTypeOK
<1>2. CASE Client
    BY <1>2, PollClientInv, ReceiveClientInv, ToKeyboardClientInv, ExecuteClientInv,
       AnswerClientInv DEF Client
<1>3. CASE World
    BY <1>3, FileDoneClientInv, TypeClientInv, ServerClientInv DEF World
<1> QED  BY <1>1, <1>2, <1>3 DEF Next

-----------------------------------------------------------------------------
(* The theorems.                                                            *)

(* The inductive invariant holds in every behaviour.                         *)
THEOREM ClientInvariant == Spec => []ClientInv
<1>1. Init => ClientInv
    BY InitClientInv
<1>2. ClientInv /\ [Next]_vars => ClientInv'
    BY StepClientInv
<1> QED  BY <1>1, <1>2, PTL DEF Spec

(* Every variable keeps its type.                                            *)
THEOREM ClientTypeCorrect == Spec => []ClientTypeOK
<1>1. ClientInv => ClientTypeOK
    BY DEF ClientInv
<1> QED  BY <1>1, ClientInvariant, PTL

(* The loop of the client and the prompt for a file, which call getchar on   *)
(* the same stdin, use the lines typed one after another, each once and      *)
(* whole, but for the end of a line too long for the array, which is next.   *)
THEOREM ClientLinesInTurn == Spec => []EveryLineInTurn
<1>1. ClientInv => EveryLineInTurn
    <2> SUFFICES ASSUME ClientInv PROVE EveryLineInTurn
        OBVIOUS
    <2> DEFINE L == buffer \o terminal
    <2>1. L \in Seq(Numbered) /\ InTurn(L, used, typed)
        BY ConcatProperties DEF ClientInv, ClientTypeOK
    <2>2. DOMAIN L = 1..Len(L)
        BY <2>1, LenProperties
    <2> QED  BY <2>1, <2>2 DEF EveryLineInTurn, InTurn, Again
<1> QED  BY <1>1, ClientInvariant, PTL

(* Whatever is typed, what client_send_* sends has the name or the text that *)
(* the server reads from it.                                                 *)
THEOREM ClientRequestsWellFormed == Spec => []RequestsWellFormed
<1>1. ClientInv => RequestsWellFormed
    BY DEF ClientInv, RequestsWellFormed, WellFormed
<1> QED  BY <1>1, ClientInvariant, PTL

(* The loop calls getchar when there is a line to get, or when a prompt has  *)
(* taken the line that poll reported: never otherwise.                       *)
THEOREM ClientKeyboardNeverBlocks == Spec => []KeyboardNeverBlocks
<1>1. ClientInv => KeyboardNeverBlocks
    BY DEF ClientInv, StillThere, KeyboardNeverBlocks
<1> QED  BY <1>1, ClientInvariant, PTL
=============================================================================
