----------------------------- MODULE ChatProofs -----------------------------
(***************************************************************************)
(* Theorems about Chat, the clients and the server together, for any set    *)
(* of connections, nicknames, rooms and files: a client knows the nickname  *)
(* the server keeps for it, every open request for a file is in one place,  *)
(* the clients do what Registry supposes of them, so that Registry's        *)
(* theorems are true of the whole, and, when users do one thing at a time,  *)
(* the file that is sent is the one that was accepted.                      *)
(***************************************************************************)
EXTENDS Chat, RegistryProofs, SequenceTheorems, WellFoundedInduction

(* Induction over the natural numbers, for a set and not a predicate.        *)
Below == {p \in Nat \X Nat : p[1] < p[2]}

(* Less than, as a set of pairs, is well founded on the natural numbers.     *)
LEMMA BelowWellFounded == IsWellFoundedOn(Below, Nat)
<1>1. OpToRel(<, Nat) = Below
    BY DEF OpToRel, Below
<1> QED  BY <1>1, NatLessThanWellFounded

(* A set with 0 and the next of each of its numbers has them all.            *)
LEMMA SetInduction ==
    ASSUME NEW T \in SUBSET Nat, 0 \in T, \A n \in T : n + 1 \in T
    PROVE  T = Nat
<1> SUFFICES ASSUME Nat \ T # {} PROVE FALSE
    OBVIOUS
<1>1. \E x \in Nat \ T : \A y \in Nat \ T : <<y, x>> \notin Below
    BY BelowWellFounded, WFMin
<1>2. PICK x \in Nat \ T : \A y \in Nat \ T : ~ (y < x)
    BY <1>1 DEF Below
<1> QED  BY <1>2

(* A function given by its value at 0 and, from each number to the next, by  *)
(* a function: there is one, and OfType is the value of one.                 *)
Follows(g, n, c, D) == g[0] = c /\ \A k \in 1..n : g[k] = D[k][g[k - 1]]

(* The function there is, up to any number.                                  *)
LEMMA RecursionExists ==
    ASSUME NEW S, NEW c \in S, NEW D \in [Nat -> [S -> S]], NEW n \in Nat
    PROVE  \E g \in [0..n -> S] : Follows(g, n, c, D)
<1> DEFINE T == {m \in Nat : \E g \in [0..m -> S] : Follows(g, m, c, D)}
<1>1. 0 \in T
    <2>1. [k \in 0..0 |-> c] \in [0..0 -> S] /\ Follows([k \in 0..0 |-> c], 0, c, D)
        BY DEF Follows
    <2> QED  BY <2>1
<1>2. ASSUME NEW m \in T
      PROVE  m + 1 \in T
    <2>1. PICK g \in [0..m -> S] : Follows(g, m, c, D)
        BY <1>2
    <2> DEFINE h == [k \in 0..(m + 1) |-> IF k = m + 1 THEN D[m + 1][g[m]] ELSE g[k]]
    <2>2. m \in Nat /\ D[m + 1][g[m]] \in S
        OBVIOUS
    <2>3. h \in [0..(m + 1) -> S]
        BY <2>2
    <2>4. h[0] = c /\ \A k \in 1..m : h[k] = D[k][h[k - 1]]
        BY <2>1, <2>2 DEF Follows
    <2>5. h[m + 1] = D[m + 1][h[m]]
        BY <2>2
    <2> HIDE DEF h
    <2>6. \A k \in 1..(m + 1) : k \in 1..m \/ k = m + 1
        BY <2>2
    <2>7. m + 1 - 1 = m
        BY <2>2
    <2>8. Follows(h, m + 1, c, D)
        BY <2>4, <2>5, <2>6, <2>7 DEF Follows
    <2> QED  BY <2>2, <2>3, <2>8
<1> HIDE DEF T
<1>3. T = Nat
    BY <1>1, <1>2, SetInduction DEF T
<1> QED  BY <1>3 DEF T

(* The recursion of OfType has a solution, and only one.                     *)
Kept(g, s, types) ==
    /\ g[0] = <<>>
    /\ \A k \in 1..Len(s) :
          g[k] = IF s[k].type \in types THEN Append(g[k - 1], s[k]) ELSE g[k - 1]

SameFront(s, t, n) ==
    n <= Len(s) /\ n <= Len(t) /\ \A k \in 1..n : s[k] = t[k]

(* Two such recursions over sequences that begin alike agree that far.       *)
LEMMA KeptAgree ==
    ASSUME NEW s, NEW t, NEW types, NEW n \in Nat, Len(s) \in Nat, Len(t) \in Nat,
           SameFront(s, t, n),
           NEW g, NEW h, Kept(g, s, types), Kept(h, t, types)
    PROVE  g[n] = h[n]
<1> DEFINE T == {m \in Nat : m <= n => g[m] = h[m]}
<1>1. 0 \in T
    BY DEF Kept
<1>2. ASSUME NEW m \in T
      PROVE  m + 1 \in T
    <2> SUFFICES ASSUME m + 1 <= n PROVE g[m + 1] = h[m + 1]
        OBVIOUS
    <2>1. g[m] = h[m] /\ m + 1 \in 1..n /\ m + 1 \in 1..Len(s) /\ m + 1 \in 1..Len(t)
          /\ m + 1 - 1 = m
        BY DEF SameFront
    <2>2. s[m + 1] = t[m + 1]
        BY <2>1 DEF SameFront
    <2> QED  BY <2>1, <2>2 DEF Kept
<1> HIDE DEF T
<1>3. T = Nat
    BY <1>1, <1>2, SetInduction DEF T
<1> QED  BY <1>3 DEF T

(* OfType is the last value of the recursion it is defined by.               *)
LEMMA OfTypeKept ==
    ASSUME NEW P, NEW s \in Seq(P), NEW types
    PROVE  \E g \in [0..Len(s) -> Seq(P)] :
              Kept(g, s, types) /\ OfType(s, types) = g[Len(s)]
<1>1. Len(s) \in Nat /\ <<>> \in Seq(P) /\ \A k \in 1..Len(s) : s[k] \in P
    OBVIOUS
<1> DEFINE D == [k \in Nat |-> [v \in Seq(P) |->
                   IF k \in 1..Len(s) /\ s[k].type \in types THEN Append(v, s[k]) ELSE v]]
<1>2. D \in [Nat -> [Seq(P) -> Seq(P)]]
    BY <1>1
<1>3. PICK g \in [0..Len(s) -> Seq(P)] : Follows(g, Len(s), <<>>, D)
    <2> HIDE DEF D
    <2> QED  BY <1>1, <1>2, RecursionExists
<1>4. Kept(g, s, types)
    <2>1. ASSUME NEW k \in 1..Len(s)
          PROVE  g[k] = IF s[k].type \in types THEN Append(g[k - 1], s[k]) ELSE g[k - 1]
        <3>1. k - 1 \in 0..Len(s) /\ k \in Nat
            BY <1>1
        <3>a. g[k - 1] \in Seq(P)
            BY <1>3, <3>1
        <3>2. g[k] = D[k][g[k - 1]]
            BY <1>3 DEF Follows
        <3> QED  BY <3>1, <3>a, <3>2
    <2> QED  BY <1>3, <2>1 DEF Kept, Follows
<1> DEFINE F(e) == [k \in 0..Len(s) |->
                      IF k = 0 THEN <<>>
                      ELSE IF s[k].type \in types THEN Append(e[k - 1], s[k]) ELSE e[k - 1]]
<1>5. g = F(g)
    <2>1. ASSUME NEW k \in 0..Len(s)
          PROVE  g[k] = F(g)[k]
        <3>1. k = 0 \/ k \in 1..Len(s)
            BY <1>1
        <3>2. CASE k = 0
            BY <1>1, <1>4, <3>2 DEF Kept
        <3>3. CASE k \in 1..Len(s)
            BY <1>1, <1>4, <3>3 DEF Kept
        <3> QED  BY <3>1, <3>2, <3>3
    <2>2. g = [k \in 0..Len(s) |-> g[k]]
        BY <1>3
    <2>3. F(g) = [k \in 0..Len(s) |-> F(g)[k]]
        OBVIOUS
    <2> HIDE DEF F
    <2> QED  BY <2>1, <2>2, <2>3
<1> DEFINE kept == CHOOSE e : e = F(e)
<1>6. kept = F(kept)
    <2> HIDE DEF F
    <2> QED  BY <1>5
<1>7. OfType(s, types) = kept[Len(s)]
    BY DEF OfType
<1> HIDE DEF kept
<1>8. Kept(kept, s, types)
    <2>1. \A k \in 0..Len(s) : kept[k] = F(kept)[k]
        BY <1>6
    <2>2. kept[0] = <<>>
        BY <1>1, <2>1
    <2>3. ASSUME NEW k \in 1..Len(s)
          PROVE  kept[k] = IF s[k].type \in types THEN Append(kept[k - 1], s[k]) ELSE kept[k - 1]
        <3>1. k \in 0..Len(s) /\ k # 0
            BY <1>1
        <3> QED  BY <2>1, <3>1
    <2> QED  BY <2>2, <2>3 DEF Kept
<1>9. kept[Len(s)] = g[Len(s)]
    <2>1. SameFront(s, s, Len(s))
        BY <1>1 DEF SameFront
    <2> QED  BY <1>1, <1>4, <1>8, <2>1, KeptAgree
<1> QED  BY <1>3, <1>4, <1>7, <1>9

(* OfType on what sequences are built of.                                    *)
LEMMA OfTypeType ==
    ASSUME NEW P, NEW s \in Seq(P), NEW types
    PROVE  OfType(s, types) \in Seq(P)
<1>1. Len(s) \in Nat
    OBVIOUS
<1>2. Len(s) \in 0..Len(s)
    BY <1>1
<1> QED  BY <1>2, OfTypeKept

(* Nothing is kept of a sequence that has nothing of the types.              *)
LEMMA OfTypeNone ==
    ASSUME NEW P, NEW s \in Seq(P), NEW types, \A k \in DOMAIN s : s[k].type \notin types
    PROVE  OfType(s, types) = <<>>
<1>1. Len(s) \in Nat /\ DOMAIN s = 1..Len(s)
    OBVIOUS
<1> DEFINE h == [k \in 0..Len(s) |-> <<>>]
<1>2. Kept(h, s, types)
    BY <1>1 DEF Kept
<1>3. h[Len(s)] = <<>>
    BY <1>1
<1> HIDE DEF h
<1>4. PICK g \in [0..Len(s) -> Seq(P)] : Kept(g, s, types) /\ OfType(s, types) = g[Len(s)]
    BY OfTypeKept
<1>5. g[Len(s)] = h[Len(s)]
    <2>1. SameFront(s, s, Len(s))
        BY <1>1 DEF SameFront
    <2> QED  BY <1>1, <1>2, <1>4, <2>1, KeptAgree
<1> QED  BY <1>3, <1>4, <1>5

(* What is kept grows by the last element, when that has a type kept.        *)
LEMMA OfTypeAppend ==
    ASSUME NEW P, NEW s \in Seq(P), NEW e \in P, NEW types
    PROVE  OfType(Append(s, e), types) =
              IF e.type \in types THEN Append(OfType(s, types), e) ELSE OfType(s, types)
<1> DEFINE t == Append(s, e)
<1>1. Len(s) \in Nat /\ t \in Seq(P) /\ Len(t) = Len(s) + 1 /\ t[Len(s) + 1] = e
      /\ \A k \in 1..Len(s) : t[k] = s[k]
    BY AppendProperties
<1> HIDE DEF t
<1>2. PICK g \in [0..Len(s) -> Seq(P)] : Kept(g, s, types) /\ OfType(s, types) = g[Len(s)]
    BY OfTypeKept
<1>3. PICK h \in [0..Len(t) -> Seq(P)] : Kept(h, t, types) /\ OfType(t, types) = h[Len(t)]
    BY <1>1, OfTypeKept
<1>4. SameFront(s, t, Len(s))
    <2> DEFINE n == Len(s)
    <2>1. n <= Len(s) /\ n <= Len(t) /\ \A k \in 1..n : s[k] = t[k]
        BY <1>1
    <2> HIDE DEF n
    <2>2. SameFront(s, t, n)
        BY <2>1 DEF SameFront
    <2> QED  BY <2>2 DEF n
<1>5. g[Len(s)] = h[Len(s)]
    BY <1>1, <1>2, <1>3, <1>4, KeptAgree
<1>6. Len(t) \in 1..Len(t) /\ Len(t) - 1 = Len(s) /\ t[Len(t)] = e
    BY <1>1
<1>7. h[Len(t)] = IF e.type \in types THEN Append(h[Len(s)], e) ELSE h[Len(s)]
    BY <1>3, <1>6 DEF Kept
<1> QED  BY <1>2, <1>3, <1>5, <1>7 DEF t

(* What is kept of two sequences in a row is what is kept of each.           *)
LEMMA OfTypeConcat ==
    ASSUME NEW P, NEW s \in Seq(P), NEW t \in Seq(P), NEW types
    PROVE  OfType(s \o t, types) = OfType(s, types) \o OfType(t, types)
<1> DEFINE front(m) == SubSeq(t, 1, m)
           T == {m \in Nat : m <= Len(t) =>
                    OfType(s \o front(m), types) = OfType(s, types) \o OfType(front(m), types)}
<1>1. Len(t) \in Nat /\ OfType(s, types) \in Seq(P)
    BY OfTypeType
<1>2. 0 \in T
    <2>1. front(0) = <<>> /\ <<>> \in Seq(P)
        BY SubSeqEmpty
    <2>2. OfType(<<>>, types) = <<>>
        <3>1. DOMAIN <<>> = {}
            OBVIOUS
        <3> QED  BY <2>1, <3>1, OfTypeNone
    <2>3. s \o <<>> = s /\ OfType(s, types) \o <<>> = OfType(s, types)
        BY <1>1, ConcatEmptySeq
    <2> QED  BY <2>1, <2>2, <2>3
<1>3. ASSUME NEW m \in T
      PROVE  m + 1 \in T
    <2> SUFFICES ASSUME m + 1 <= Len(t)
                 PROVE  OfType(s \o front(m + 1), types)
                           = OfType(s, types) \o OfType(front(m + 1), types)
        OBVIOUS
    <2> DEFINE a == front(m)
               e == t[m + 1]
               o == OfType(s, types)
               p == OfType(a, types)
    <2>1. m \in Nat /\ m <= Len(t) /\ OfType(s \o a, types) = o \o p
        BY <1>1
    <2>2. e \in P /\ a \in Seq(P) /\ front(m + 1) = Append(a, e)
        <3>1. m + 1 \in 1..Len(t)
            BY <1>1, <2>1
        <3>2. e \in P
            BY <3>1, ElementOfSeq
        <3>3. a \in Seq(P)
            BY <1>1, <2>1, SubSeqProperties
        <3>4. front(m + 1) = Append(a, e)
            BY <1>1, <2>1
        <3> QED  BY <3>2, <3>3, <3>4
    <2> HIDE DEF a, e, o, T
    <2>3. s \o a \in Seq(P) /\ s \o Append(a, e) = Append(s \o a, e)
        BY <2>2
    <2>4. p \in Seq(P) /\ o \in Seq(P)
        BY <1>1, <2>2, OfTypeType DEF o
    <2>5. OfType(Append(s \o a, e), types) =
             IF e.type \in types THEN Append(o \o p, e) ELSE o \o p
        BY <2>1, <2>2, <2>3, OfTypeAppend
    <2>6. OfType(Append(a, e), types) = IF e.type \in types THEN Append(p, e) ELSE p
        BY <2>2, OfTypeAppend
    <2> HIDE DEF p
    <2>7. o \o Append(p, e) = Append(o \o p, e)
        BY <2>2, <2>4
    <2>8. OfType(s \o front(m + 1), types) = o \o OfType(front(m + 1), types)
        BY <2>2, <2>3, <2>5, <2>6, <2>7
    <2> QED  BY <2>8 DEF o
<1> HIDE DEF T
<1>4. T = Nat
    BY <1>2, <1>3, SetInduction DEF T
<1>5. front(Len(t)) = t
    BY SubSeqFull
<1>6. Len(t) \in T /\ Len(t) <= Len(t)
    BY <1>1, <1>4
<1>7. OfType(s \o front(Len(t)), types) = OfType(s, types) \o OfType(front(Len(t)), types)
    <2> HIDE DEF front
    <2> QED  BY <1>6 DEF T
<1> HIDE DEF front
<1> QED  BY <1>5, <1>7

-----------------------------------------------------------------------------
(* What a connection holds, as sequences of nicknames: the open requests,    *)
(* and the places each of them may be in.                                    *)

Picked(s, types) == Infos(OfType(s, types))

Owed(c) == [k \in DOMAIN offers[c] |-> offers[c][k].name]
Returning(c) == Picked(requests[c], AnswerTypes)
Held(c) ==
    IF blocked[c] # <<>> /\ blocked[c][1].type \in AnswerTypes
    THEN <<blocked[c][1].infos>> ELSE <<>>
Unread(c) == Picked(inbox[c], {"FILE_REQUEST"})
News(c) == Picked(inbox[c], {"NICKNAME_NEW"})

LastOf(s, x) == IF s = <<>> THEN x ELSE s[Len(s)]
Front(a, s) == Len(a) <= Len(s) /\ \A k \in 1..Len(a) : s[k] = a[k]

Accounted(c) == Owed(c) = Returning(c) \o Held(c) \o AtPrompt(c) \o Unread(c)
KnowsName(c) == user[c].nickname = LastOf(News(c), client[c].nickname)

-----------------------------------------------------------------------------
(* The inductive invariant.                                                  *)

Reqs ==
    {q \in [type : RequestTypes, from : Nick \cup {Empty}, infos : Nick \cup {Empty},
            payload : Body \cup {NoFile}] :
        /\ q.type \in {"NICKNAME_NEW", "FILE_REQUEST"} => q.infos \in Nick
        /\ q.type \in {"BROADCAST_SEND", "FILE_REQUEST"} => q.payload \in Body
        /\ q.type = "FILE_ACCEPT" => q.payload \in Conn}

Mail ==
    {p \in Packets :
        /\ p.type = "NICKNAME_NEW" => p.infos \in Nick
        /\ p.type = "FILE_REQUEST" => /\ p.infos \in Nick \cup {Empty}
                                      /\ \E m \in Body : p.payload.about = {m}
        /\ p.type = "FILE_ACCEPT" => \E d \in Conn : p.payload.about = {d}}

Clients == [nickname : Nick \cup {Empty}, file_to_send : File \cup {NoFile},
            file_to_receive : Body \cup {NoFile}]

ChatTypeOK ==
    /\ mode \in [Conn -> Modes]
    /\ client \in [Conn -> Clients]
    /\ asker \in [Conn -> Nick \cup {Empty}]
    /\ blocked \in [Conn -> {<<>>} \cup (Reqs \X {"loop", "accept"})]
    /\ requests \in [Conn -> Seq(Reqs)]
    /\ inbox \in [Conn -> Seq(Mail)]
    /\ serving \in Conn \cup {NoConn}

(* A client that is not there has nothing of its own anywhere.               *)
Present(c) ==
    /\ blocked[c] = <<>> <=> mode[c] # "send"
    /\ Running(c) => c \in users
    /\ mode[c] = "off" => c \notin users /\ client[c].nickname = Empty
    /\ c \notin users => requests[c] = <<>> /\ offers[c] = <<>>
    /\ Empty \in aka[c]

(* A client speaks under a nickname it has had.                              *)
OwnNicknames(c) ==
    /\ client[c].nickname \in aka[c]
    /\ blocked[c] # <<>> => blocked[c][1].from \in aka[c]
    /\ \A k \in DOMAIN requests[c] : requests[c][k].from \in aka[c]
    /\ \A k \in DOMAIN inbox[c] :
          inbox[c][k].type = "NICKNAME_NEW" => inbox[c][k].infos \in aka[c]

(* The answers on their way are to the oldest requests, even when the client *)
(* has gone.                                                                 *)
Sound(c) ==
    /\ Present(c)
    /\ c \in users =>
          /\ offers[c] # <<>> => user[c].is_logged_in
          /\ OwnNicknames(c)
          /\ Front(Returning(c), Owed(c))
          /\ Running(c) => KnowsName(c) /\ Accounted(c)

ChatInv ==
    /\ IInv
    /\ ChatTypeOK
    /\ serving # NoConn => requests[serving] # <<>>
    /\ \A c \in Conn : Sound(c)

(* What is picked out of the sequences a queue is made of.                   *)
LEMMA InfosType ==
    ASSUME NEW P, \A p \in P : p.infos \in Names, NEW s \in Seq(P)
    PROVE  Infos(s) \in Seq(Names) /\ Len(Infos(s)) = Len(s)
           /\ \A k \in 1..Len(s) : Infos(s)[k] = s[k].infos
<1>1. Len(s) \in Nat /\ DOMAIN s = 1..Len(s) /\ \A k \in 1..Len(s) : s[k] \in P
    OBVIOUS
<1>2. Infos(s) = [k \in 1..Len(s) |-> s[k].infos]
    BY <1>1 DEF Infos
<1>3. \A k \in 1..Len(s) : s[k].infos \in Names
    BY <1>1
<1> QED  BY <1>1, <1>2, <1>3

(* The infos of two sequences in a row.                                      *)
LEMMA InfosConcat ==
    ASSUME NEW P, \A p \in P : p.infos \in Names, NEW s \in Seq(P), NEW t \in Seq(P)
    PROVE  Infos(s \o t) = Infos(s) \o Infos(t)
<1> DEFINE a == Infos(s) \o Infos(t)
           b == Infos(s \o t)
<1>1. s \o t \in Seq(P) /\ Len(s \o t) = Len(s) + Len(t)
    BY ConcatProperties
<1>2. b \in Seq(Names) /\ Len(b) = Len(s) + Len(t)
      /\ \A k \in 1..(Len(s) + Len(t)) : b[k] = (s \o t)[k].infos
    BY <1>1, InfosType
<1>3. /\ Infos(s) \in Seq(Names) /\ Len(Infos(s)) = Len(s)
      /\ \A k \in 1..Len(s) : Infos(s)[k] = s[k].infos
    BY InfosType
<1>4. /\ Infos(t) \in Seq(Names) /\ Len(Infos(t)) = Len(t)
      /\ \A k \in 1..Len(t) : Infos(t)[k] = t[k].infos
    BY InfosType
<1>5. a \in Seq(Names) /\ Len(a) = Len(s) + Len(t)
    BY <1>3, <1>4, ConcatProperties
<1>6. ASSUME NEW k \in 1..(Len(s) + Len(t))
      PROVE  a[k] = b[k]
    <2>1. Len(s) \in Nat /\ Len(t) \in Nat
        OBVIOUS
    <2>2. CASE k <= Len(s)
        <3>1. (s \o t)[k] = s[k] /\ k \in 1..Len(s)
            BY <2>1, <2>2
        <3>2. a[k] = Infos(s)[k]
            BY <1>3, <1>4, <2>1, <2>2
        <3> QED  BY <1>2, <1>3, <3>1, <3>2
    <2>3. CASE k > Len(s)
        <3>1. (s \o t)[k] = t[k - Len(s)] /\ k - Len(s) \in 1..Len(t)
            BY <2>1, <2>3
        <3>2. a[k] = Infos(t)[k - Len(s)]
            BY <1>3, <1>4, <2>1, <2>3
        <3> QED  BY <1>2, <1>4, <3>1, <3>2
    <2> HIDE DEF a, b
    <2>4. k <= Len(s) \/ k > Len(s)
        BY <2>1
    <2> QED  BY <2>2, <2>3, <2>4
<1> HIDE DEF a, b
<1>7. a = b
    BY <1>2, <1>5, <1>6, SeqEqual
<1> QED  BY <1>7 DEF a, b

(* What is picked is a sequence of names.                                    *)
LEMMA PickedType ==
    ASSUME NEW P, \A p \in P : p.infos \in Names, NEW s \in Seq(P), NEW types
    PROVE  Picked(s, types) \in Seq(Names)
BY OfTypeType, InfosType DEF Picked

(* What is picked of two sequences in a row is what is picked of each.       *)
LEMMA PickedConcat ==
    ASSUME NEW P, \A p \in P : p.infos \in Names, NEW s \in Seq(P), NEW t \in Seq(P), NEW types
    PROVE  Picked(s \o t, types) = Picked(s, types) \o Picked(t, types)
<1>1. OfType(s, types) \in Seq(P) /\ OfType(t, types) \in Seq(P)
    BY OfTypeType
<1>2. OfType(s \o t, types) = OfType(s, types) \o OfType(t, types)
    BY OfTypeConcat
<1> QED  BY <1>1, <1>2, InfosConcat DEF Picked

(* The infos of nothing.                                                     *)
LEMMA InfosEmpty == Infos(<<>>) = <<>>
BY DEF Infos

(* Nothing is picked of a sequence that has nothing of the types.            *)
LEMMA PickedNone ==
    ASSUME NEW P, NEW s \in Seq(P), NEW types, \A k \in DOMAIN s : s[k].type \notin types
    PROVE  Picked(s, types) = <<>>
BY OfTypeNone, InfosEmpty DEF Picked

(* Nothing is picked of nothing.                                             *)
LEMMA PickedEmpty == \A types : Picked(<<>>, types) = <<>>
<1>1. <<>> \in Seq({}) /\ DOMAIN <<>> = {}
    OBVIOUS
<1> QED  BY <1>1, PickedNone

(* What is picked of one packet.                                             *)
LEMMA PickedOne ==
    ASSUME NEW P, NEW e \in P, NEW types
    PROVE  Picked(<<e>>, types) = IF e.type \in types THEN <<e.infos>> ELSE <<>>
<1>1. <<>> \in Seq(P) /\ Append(<<>>, e) = <<e>> /\ DOMAIN <<>> = {}
    OBVIOUS
<1>2. OfType(<<>>, types) = <<>>
    BY <1>1, OfTypeNone
<1>3. OfType(<<e>>, types) = IF e.type \in types THEN <<e>> ELSE <<>>
    <2> DEFINE s == <<>>
    <2>1. s \in Seq(P) /\ OfType(s, types) = <<>> /\ Append(s, e) = <<e>> /\ Append(<<>>, e) = <<e>>
        BY <1>1, <1>2
    <2> HIDE DEF s
    <2>2. OfType(Append(s, e), types) =
             IF e.type \in types THEN Append(OfType(s, types), e) ELSE OfType(s, types)
        BY <2>1, OfTypeAppend
    <2> QED  BY <2>1, <2>2
<1>4. Infos(<<e>>) = <<e.infos>>
    BY DEF Infos
<1> QED  BY <1>3, <1>4, InfosEmpty DEF Picked

(* What is picked when one more packet comes.                                *)
LEMMA PickedAppend ==
    ASSUME NEW P, \A p \in P : p.infos \in Names, NEW s \in Seq(P), NEW e \in P, NEW types
    PROVE  Picked(Append(s, e), types) =
              Picked(s, types) \o (IF e.type \in types THEN <<e.infos>> ELSE <<>>)
<1>1. <<e>> \in Seq(P) /\ Append(s, e) = s \o <<e>>
    BY AppendIsConcat
<1> DEFINE t == <<e>>
<1>2. t \in Seq(P)
    BY <1>1
<1>3. Picked(t, types) = IF e.type \in types THEN <<e.infos>> ELSE <<>>
    BY PickedOne
<1> HIDE DEF t
<1>4. Picked(s \o t, types) = Picked(s, types) \o Picked(t, types)
    BY <1>2, PickedConcat
<1>5. Append(s, e) = s \o t
    BY <1>1 DEF t
<1> QED  BY <1>3, <1>4, <1>5

(* What is picked is that of the first packet, then that of the rest.        *)
LEMMA PickedTail ==
    ASSUME NEW P, \A p \in P : p.infos \in Names, NEW s \in Seq(P), s # <<>>, NEW types
    PROVE  Picked(s, types) =
              (IF Head(s).type \in types THEN <<Head(s).infos>> ELSE <<>>)
                 \o Picked(Tail(s), types)
<1>1. Head(s) \in P /\ Tail(s) \in Seq(P) /\ <<Head(s)>> \in Seq(P) /\ s = <<Head(s)>> \o Tail(s)
    BY HeadTailProperties
<1> DEFINE a == <<Head(s)>>
           b == Tail(s)
<1>2. a \in Seq(P) /\ b \in Seq(P) /\ s = a \o b
    BY <1>1
<1>3. Picked(a, types) = IF Head(s).type \in types THEN <<Head(s).infos>> ELSE <<>>
    BY <1>1, PickedOne
<1> HIDE DEF a, b
<1>4. Picked(a \o b, types) = Picked(a, types) \o Picked(b, types)
    BY <1>2, PickedConcat
<1>5. Picked(s, types) = Picked(a, types) \o Picked(b, types)
    BY <1>2, <1>4
<1> QED  BY <1>3, <1>5 DEF b

(* A sequence begins with what it was put together from.                     *)
LEMMA FrontOf ==
    ASSUME NEW S, NEW a \in Seq(S), NEW b \in Seq(S)
    PROVE  Front(a, a \o b)
BY ConcatProperties DEF Front

(* What is picked of the beginning of a queue is the beginning of what is    *)
(* picked of the queue.                                                      *)
LEMMA PickedFront ==
    ASSUME NEW P, \A p \in P : p.infos \in Names, NEW s \in Seq(P), NEW k \in 0..Len(s), NEW types
    PROVE  Front(Picked(SubSeq(s, 1, k), types), Picked(s, types))
<1> DEFINE a == SubSeq(s, 1, k)
           b == SubSeq(s, k + 1, Len(s))
<1> DEFINE n == Len(s)
<1>n. n \in Nat /\ \A i \in 1..n : s[i] \in P
    OBVIOUS
<1>a. a \in Seq(P) /\ b \in Seq(P)
    <2> HIDE DEF n
    <2>1. k \in Int /\ 1 \in Int /\ k + 1 \in Int /\ n \in Int
        BY <1>n DEF n
    <2>2. (\A i \in 1..k : s[i] \in P) /\ (\A i \in (k + 1)..n : s[i] \in P)
        BY <1>n DEF n
    <2> QED  BY <2>1, <2>2, SubSeqProperties DEF n
<1>b. a \o b = SubSeq(s, 1, Len(s))
    <2>1. 1 \in 1..Len(s) + 1 /\ k \in 1 - 1..Len(s) /\ Len(s) \in k..Len(s)
        BY <1>n
    <2> QED  BY <2>1, ConcatAdjacentSubSeq
<1>1. a \in Seq(P) /\ b \in Seq(P) /\ s = a \o b
    <2>1. SubSeq(s, 1, Len(s)) = s
        BY SubSeqFull
    <2> HIDE DEF a, b
    <2> QED  BY <1>a, <1>b, <2>1
<1> HIDE DEF a, b
<1>2. Picked(s, types) = Picked(a, types) \o Picked(b, types)
    BY <1>1, PickedConcat
<1>3. Picked(a, types) \in Seq(Names) /\ Picked(b, types) \in Seq(Names)
    BY <1>1, PickedType
<1>4. Front(Picked(a, types), Picked(s, types))
    BY <1>2, <1>3, FrontOf
<1> QED  BY <1>4 DEF a

(* The order of the places does not matter to an open request that moves     *)
(* from one to the next.                                                     *)
LEMMA Places ==
    ASSUME NEW S, NEW r \in Seq(S), NEW u \in Seq(S), NEW x \in S
    PROVE  /\ r \o <<>> \o <<x>> \o u = r \o <<x>> \o u
           /\ r \o <<x>> \o <<>> \o u = r \o <<x>> \o u
           /\ (r \o <<x>>) \o <<>> \o <<>> \o u = r \o <<x>> \o u
           /\ r \o <<>> \o <<>> \o (<<x>> \o u) = r \o <<x>> \o u
<1> DEFINE y == <<x>>
<1>1. y \in Seq(S) /\ <<>> \in Seq(S)
    OBVIOUS
<1> HIDE DEF y
<1>2. r \o <<>> = r /\ (r \o y) \o <<>> = r \o y /\ r \o y \in Seq(S)
    BY <1>1, ConcatEmptySeq, ConcatProperties
<1>3. r \o (y \o u) = r \o y \o u
    BY <1>1, ConcatAssociative, SMTT(30)
<1>4. /\ r \o <<>> \o y \o u = r \o y \o u
      /\ r \o y \o <<>> \o u = r \o y \o u
      /\ (r \o y) \o <<>> \o <<>> \o u = r \o y \o u
      /\ r \o <<>> \o <<>> \o (y \o u) = r \o y \o u
    BY <1>2, <1>3
<1> QED  BY <1>4 DEF y

Along(r, h, a, u) == r \o h \o a \o u
Then(u, y) == u \o y

(* An open request that has just been passed on is in the last place.        *)
LEMMA LastPlace ==
    ASSUME NEW S, NEW r \in Seq(S), NEW h \in Seq(S), NEW a \in Seq(S), NEW u \in Seq(S),
           NEW y \in Seq(S)
    PROVE  Then(Along(r, h, a, u), y) = Along(r, h, a, Then(u, y))
<1> DEFINE f == r \o h \o a
<1>1. f \in Seq(S)
    BY ConcatProperties
<1> HIDE DEF f
<1>2. (f \o u) \o y = f \o (u \o y)
    BY <1>1, ConcatAssociative, SMTT(30)
<1> QED  BY <1>2 DEF f, Along, Then

(* An open request that is about to be closed is in the first place.         *)
LEMMA FirstPlace ==
    ASSUME NEW S, NEW r \in Seq(S), NEW h \in Seq(S), NEW a \in Seq(S), NEW u \in Seq(S),
           NEW y \in Seq(S)
    PROVE  Along(Then(y, r), h, a, u) = Then(y, Along(r, h, a, u))
<1> DEFINE f == r \o h
           g == f \o a
           w == g \o u
<1>1. f \in Seq(S) /\ g \in Seq(S)
    BY ConcatProperties
<1> HIDE DEF f, g, w
<1>2. (y \o r) \o h = y \o f
    BY ConcatAssociative, SMTT(30) DEF f
<1>3. (y \o f) \o a = y \o g
    BY <1>1, ConcatAssociative, SMTT(30) DEF g
<1>4. (y \o g) \o u = y \o w
    BY <1>1, ConcatAssociative, SMTT(30) DEF w
<1> QED  BY <1>2, <1>3, <1>4 DEF w, g, f, Along, Then

(* What is left when the first is taken.                                     *)
LEMMA TailOfCons ==
    ASSUME NEW S, NEW x \in S, NEW w \in Seq(S)
    PROVE  Tail(<<x>> \o w) = w
OBVIOUS

(* The infos of requests and of mail are names.                              *)
LEMMA InfosOfQueues ==
    /\ \A q \in Reqs : q.infos \in Names
    /\ \A p \in Mail : p.infos \in Names
BY DEF Reqs, Mail, Packets, Names

(* What is in each of the places is a sequence of names.                     *)
LEMMA PlaceTypes ==
    /\ \A s \in Seq(Offers) : [k \in DOMAIN s |-> s[k].name] \in Seq(Names)
    /\ \A s \in Seq(Reqs) : Picked(s, AnswerTypes) \in Seq(Names)
    /\ \A s \in Seq(Mail) : \A types : Picked(s, types) \in Seq(Names)
    /\ \A n \in Nick \cup {Empty} : <<n>> \in Seq(Names)
    /\ \A b \in {<<>>} \cup (Reqs \X {"loop", "accept"}) : b # <<>> => <<b[1].infos>> \in Seq(Names)
    /\ <<>> \in Seq(Names)
<1>1. ASSUME NEW s \in Seq(Offers)
      PROVE  [k \in DOMAIN s |-> s[k].name] \in Seq(Names)
    <2>1. \A o \in Offers : o.name \in Names
        BY DEF Offers, Names
    <2>2. Len(s) \in Nat /\ DOMAIN s = 1..Len(s) /\ \A k \in 1..Len(s) : s[k].name \in Names
        BY <2>1
    <2> QED  BY <2>2
<1>2. \A s \in Seq(Reqs) : Picked(s, AnswerTypes) \in Seq(Names)
    BY InfosOfQueues, PickedType
<1>3. \A s \in Seq(Mail) : \A types : Picked(s, types) \in Seq(Names)
    BY InfosOfQueues, PickedType
<1>4. \A n \in Nick \cup {Empty} : <<n>> \in Seq(Names)
    BY DEF Names
<1>5. ASSUME NEW b \in Reqs \X {"loop", "accept"} PROVE <<b[1].infos>> \in Seq(Names)
    <2>1. b[1] \in Reqs
        OBVIOUS
    <2> QED  BY <2>1, InfosOfQueues
<1> QED  BY <1>1, <1>2, <1>3, <1>4, <1>5

(* So it is for each connection,                                             *)
LEMMA PlacesType ==
    ASSUME TypeOK, ChatTypeOK, NEW c \in Conn
    PROVE  /\ Owed(c) \in Seq(Names)
           /\ Returning(c) \in Seq(Names)
           /\ Held(c) \in Seq(Names)
           /\ AtPrompt(c) \in Seq(Names)
           /\ Unread(c) \in Seq(Names)
           /\ News(c) \in Seq(Names)
BY PlaceTypes DEF TypeOK, ChatTypeOK, Owed, Returning, Held, AtPrompt, Unread, News

(* and after each step.                                                      *)
LEMMA PlacesTypeNext ==
    ASSUME ChatTypeOK', NEW c \in Conn
    PROVE  /\ Returning(c)' \in Seq(Names)
           /\ Held(c)' \in Seq(Names)
           /\ AtPrompt(c)' \in Seq(Names)
           /\ Unread(c)' \in Seq(Names)
           /\ News(c)' \in Seq(Names)
BY PlaceTypes DEF ChatTypeOK, Returning, Held, AtPrompt, Unread, News

-----------------------------------------------------------------------------
(* Steps of the clients.  Another client keeps what it has.                  *)

Same(e) ==
    /\ mode'[e] = mode[e] /\ client'[e] = client[e] /\ asker'[e] = asker[e]
    /\ blocked'[e] = blocked[e] /\ requests'[e] = requests[e] /\ inbox'[e] = inbox[e]

(* A connection whose client keeps what it has, and the server too, stays    *)
(* sound.                                                                    *)
LEMMA SameSound ==
    ASSUME NEW e, Sound(e), UNCHANGED regvars, Same(e)
    PROVE  Sound(e)'
<1>1. users' = users /\ user' = user /\ aka' = aka /\ offers' = offers
    BY DEF regvars, tables
<1>2. /\ Owed(e)' = Owed(e) /\ Returning(e)' = Returning(e) /\ Held(e)' = Held(e)
      /\ AtPrompt(e)' = AtPrompt(e) /\ Unread(e)' = Unread(e) /\ News(e)' = News(e)
      /\ Running(e)' = Running(e)
    BY <1>1 DEF Same, Owed, Returning, Held, AtPrompt, Unread, News, Running
<1>3. Present(e)'
    <2>1. Present(e)
        BY DEF Sound
    <2> QED  BY <1>1, <1>2, <2>1 DEF Same, Present
<1>4. OwnNicknames(e) => OwnNicknames(e)'
    BY <1>1 DEF Same, OwnNicknames
<1>5. (KnowsName(e) => KnowsName(e)') /\ (Accounted(e) => Accounted(e)')
    BY <1>1, <1>2 DEF Same, KnowsName, Accounted
<1> QED  BY <1>1, <1>2, <1>3, <1>4, <1>5 DEF Sound

(* A client that waits in accept is connected to.                            *)
LEMMA AcceptedSound ==
    ASSUME NEW e, Sound(e), UNCHANGED regvars, mode[e] = "accept", mode'[e] = "receiving",
           client'[e] = client[e], asker'[e] = asker[e], blocked'[e] = blocked[e],
           requests'[e] = requests[e], inbox'[e] = inbox[e]
    PROVE  Sound(e)'
<1>1. users' = users /\ user' = user /\ aka' = aka /\ offers' = offers
    BY DEF regvars, tables
<1>2. /\ Owed(e)' = Owed(e) /\ Returning(e)' = Returning(e) /\ Held(e)' = Held(e)
      /\ AtPrompt(e)' = AtPrompt(e) /\ Unread(e)' = Unread(e) /\ News(e)' = News(e)
      /\ Running(e)' /\ Running(e)
    BY <1>1 DEF Owed, Returning, Held, AtPrompt, Unread, News, Running
<1>3. Present(e)'
    <2>1. Present(e)
        BY DEF Sound
    <2> QED  BY <1>1, <1>2, <2>1 DEF Present
<1>4. OwnNicknames(e) => OwnNicknames(e)'
    BY <1>1 DEF OwnNicknames
<1>5. (KnowsName(e) => KnowsName(e)') /\ (Accounted(e) => Accounted(e)')
    BY <1>1, <1>2 DEF KnowsName, Accounted
<1> QED  BY <1>1, <1>2, <1>3, <1>4, <1>5 DEF Sound

(* The answers on their way are the first of the open requests.              *)
LEMMA AccountedFront ==
    ASSUME NEW S, NEW r \in Seq(S), NEW h \in Seq(S), NEW a \in Seq(S), NEW u \in Seq(S)
    PROVE  Front(r, r \o h \o a \o u)
<1> DEFINE g == r \o h
           f == g \o a
           w == f \o u
<1>1. g \in Seq(S) /\ Len(g) = Len(r) + Len(h)
    BY ConcatProperties
<1>2. Front(r, g)
    BY FrontOf
<1> HIDE DEF g
<1>3. f \in Seq(S) /\ Front(g, f)
    BY <1>1, ConcatProperties, FrontOf
<1> HIDE DEF f
<1>4. w \in Seq(S) /\ Front(f, w)
    BY <1>3, ConcatProperties, FrontOf
<1> HIDE DEF w
<1>5. Len(r) \in Nat /\ Len(g) \in Nat /\ Len(f) \in Nat /\ Len(w) \in Nat
    BY <1>1, <1>3, <1>4, LenProperties
<1>6. Len(r) <= Len(w)
    BY <1>2, <1>3, <1>4, <1>5 DEF Front
<1>7. ASSUME NEW k \in 1..Len(r) PROVE w[k] = r[k]
    <2>1. k \in 1..Len(g) /\ k \in 1..Len(f)
        BY <1>2, <1>3, <1>5 DEF Front
    <2> QED  BY <1>2, <1>3, <1>4, <1>7, <2>1 DEF Front
<1> QED  BY <1>6, <1>7 DEF Front, w, f, g

(* A client that is there goes on to another place in its code: what it has  *)
(* to show is that it knows its nickname and has lost no open request.       *)
LEMMA StillSound ==
    ASSUME ChatTypeOK', NEW c \in Conn, Sound(c), UNCHANGED regvars, Running(c), mode'[c] \notin {"off", "gone"},
           blocked'[c] = <<>> <=> mode'[c] # "send",
           OwnNicknames(c)', KnowsName(c)', Accounted(c)'
    PROVE  Sound(c)'
<1>1. users' = users /\ user' = user /\ aka' = aka /\ offers' = offers
    BY DEF regvars, tables
<1>2. Owed(c)' = Owed(c) /\ c \in users
    BY <1>1 DEF Owed, Sound, Present
<1>3. Present(c)'
    BY <1>1, <1>2 DEF Sound, Present, Running
<1>4. offers'[c] # <<>> => user'[c].is_logged_in
    BY <1>1, <1>2 DEF Sound
<1>5. Front(Returning(c)', Owed(c)')
    BY PlacesTypeNext, AccountedFront DEF Accounted
<1> QED  BY <1>1, <1>2, <1>3, <1>4, <1>5 DEF Sound

(* Nobody is told anything when a client goes; what it still has to say is   *)
(* what it had, or the beginning of it.                                      *)
LEMMA GoneSound ==
    ASSUME TypeOK, ChatTypeOK, NEW c \in Conn, Sound(c), Running(c), UNCHANGED regvars,
           mode'[c] = "gone", blocked'[c] = <<>>, inbox'[c] = <<>>, client'[c] = client[c],
           NEW k \in 0..Len(requests[c]), requests'[c] = SubSeq(requests[c], 1, k)
    PROVE  Sound(c)'
<1>1. users' = users /\ user' = user /\ aka' = aka /\ offers' = offers /\ c \in users
    BY DEF regvars, tables, Sound, Present
<1>2. Owed(c)' = Owed(c) /\ ~Running(c)'
    BY <1>1 DEF Owed, Running
<1>3. Present(c)'
    BY <1>1, <1>2 DEF Sound, Present
<1>4. OwnNicknames(c)'
    <2>1. OwnNicknames(c)
        BY <1>1 DEF Sound
    <2>2. requests[c] \in Seq(Reqs)
        BY DEF ChatTypeOK
    <2>3. DOMAIN requests'[c] = 1..k /\ \A j \in 1..k : requests'[c][j] = requests[c][j]
        BY <2>2
    <2>4. 1..k \subseteq DOMAIN requests[c]
        BY <2>2
    <2>5. DOMAIN inbox'[c] = {}
        OBVIOUS
    <2> QED  BY <1>1, <2>1, <2>3, <2>4, <2>5 DEF OwnNicknames
<1>5. Front(Returning(c)', Owed(c))
    <2>1. Front(Returning(c)', Returning(c))
        <3>1. requests[c] \in Seq(Reqs)
            BY DEF ChatTypeOK
        <3> QED  BY <3>1, InfosOfQueues, PickedFront DEF Returning
    <2>2. Front(Returning(c), Owed(c))
        BY <1>1 DEF Sound
    <2>3. /\ Returning(c) \in Seq(Names) /\ Owed(c) \in Seq(Names)
          /\ Returning(c)' \in Seq(Names)
        <3>1. requests[c] \in Seq(Reqs)
            BY DEF ChatTypeOK
        <3>2. requests'[c] \in Seq(Reqs)
            BY <3>1
        <3>3. Returning(c)' \in Seq(Names)
            BY <3>2, InfosOfQueues, PickedType DEF Returning
        <3> QED  BY <3>3, PlacesType
    <2>4. /\ Len(Returning(c)) \in Nat /\ Len(Owed(c)) \in Nat
          /\ Len(Returning(c)') \in Nat
        BY <2>3, LenProperties
    <2> QED  BY <2>1, <2>2, <2>4 DEF Front
<1> QED  BY <1>1, <1>2, <1>3, <1>4, <1>5 DEF Sound

(* packet_send: the packet is on its way, or held back.                      *)
LEMMA SendsToSays ==
    ASSUME ChatTypeOK, NEW c \in Conn, Present(c), mode[c] \in {"loop", "prompt"},
           NEW q \in Reqs, NEW next \in {"loop", "accept"}, SendsTo(c, q, next)
    PROVE  /\ mode' \in [Conn -> Modes]
           /\ blocked' \in [Conn -> {<<>>} \cup (Reqs \X {"loop", "accept"})]
           /\ requests' \in [Conn -> Seq(Reqs)]
           /\ mode'[c] \in {"send", "loop", "accept"}
           /\ blocked'[c] = <<>> <=> mode'[c] # "send"
           /\ blocked'[c] # <<>> => blocked'[c][1] = q
           /\ requests'[c] \in {requests[c], Append(requests[c], q)}
           /\ \A e \in Conn \ {c} : /\ mode'[e] = mode[e] /\ blocked'[e] = blocked[e]
                                    /\ requests'[e] = requests[e]
<1>1. blocked[c] = <<>> /\ Modes = Modes \cup {"send", "loop", "accept"}
    BY DEF Present, Modes
<1>2. CASE Len(requests[c]) < MaxQueue
    <2>1. /\ requests' = [requests EXCEPT ![c] = Append(@, q)]
          /\ mode' = [mode EXCEPT ![c] = next]
          /\ blocked' = blocked
        BY <1>2, ChatAssumption DEF SendsTo
    <2>2. Append(requests[c], q) \in Seq(Reqs)
        BY AppendProperties DEF ChatTypeOK
    <2>3. requests' \in [Conn -> Seq(Reqs)] /\ mode' \in [Conn -> Modes]
        BY <1>1, <2>1, <2>2 DEF ChatTypeOK
    <2> QED  BY <1>1, <2>1, <2>3 DEF ChatTypeOK
<1>3. CASE ~ (Len(requests[c]) < MaxQueue)
    <2>1. /\ requests' = requests
          /\ mode' = [mode EXCEPT ![c] = "send"]
          /\ blocked' = [blocked EXCEPT ![c] = <<q, next>>]
        BY <1>3 DEF SendsTo
    <2>2. <<q, next>> # <<>> /\ <<q, next>>[1] = q
        OBVIOUS
    <2> DEFINE b == <<q, next>>
    <2>3. b \in Reqs \X {"loop", "accept"} /\ b # <<>> /\ b[1] = q
        BY <2>2
    <2>4. blocked' = [blocked EXCEPT ![c] = b]
        BY <2>1
    <2> HIDE DEF b
    <2>5. blocked' \in [Conn -> {<<>>} \cup (Reqs \X {"loop", "accept"})] /\ mode' \in [Conn -> Modes]
        BY <1>1, <2>1, <2>3, <2>4 DEF ChatTypeOK
    <2>6. blocked'[c] = b /\ \A e \in Conn \ {c} : blocked'[e] = blocked[e]
        BY <2>4 DEF ChatTypeOK
    <2>7. mode'[c] = "send" /\ \A e \in Conn \ {c} : mode'[e] = mode[e]
        BY <2>1 DEF ChatTypeOK
    <2> QED  BY <2>1, <2>3, <2>5, <2>6, <2>7 DEF ChatTypeOK
<1> QED  BY <1>2, <1>3

(* Where an answer is after packet_send, and that other packets are not.     *)
LEMMA SendsToPlaces ==
    ASSUME TypeOK, ChatTypeOK, NEW c \in Conn, Present(c), mode[c] \in {"loop", "prompt"},
           NEW q \in Reqs, NEW next \in {"loop", "accept"}, SendsTo(c, q, next)
    PROVE  /\ AtPrompt(c)' = <<>> /\ Held(c) = <<>>
           /\ q.type \notin AnswerTypes => Returning(c)' = Returning(c) /\ Held(c)' = <<>>
           /\ q.type \in AnswerTypes =>
                 \/ Returning(c)' = Returning(c) \o <<q.infos>> /\ Held(c)' = <<>>
                 \/ Returning(c)' = Returning(c) /\ Held(c)' = <<q.infos>>
<1>1. /\ mode'[c] \in {"send", "loop", "accept"}
      /\ blocked'[c] = <<>> <=> mode'[c] # "send"
      /\ blocked'[c] # <<>> => blocked'[c][1] = q
    BY SendsToSays
<1>2. AtPrompt(c)' = <<>> /\ Held(c) = <<>>
    BY <1>1 DEF AtPrompt, Held, Present
<1>3. requests[c] \in Seq(Reqs) /\ requests \in [Conn -> Seq(Reqs)] /\ blocked[c] = <<>>
    BY DEF ChatTypeOK, Present
<1>4. Picked(Append(requests[c], q), AnswerTypes) =
         Returning(c) \o (IF q.type \in AnswerTypes THEN <<q.infos>> ELSE <<>>)
    BY <1>3, InfosOfQueues, PickedAppend DEF Returning
<1>5. Returning(c) \o <<>> = Returning(c)
    BY PlacesType, ConcatEmptySeq
<1>6. CASE requests' = [requests EXCEPT ![c] = Append(@, q)] /\ blocked' = blocked
    <2>1. Returning(c)' = Picked(Append(requests[c], q), AnswerTypes)
        BY <1>3, <1>6 DEF Returning
    <2>2. Held(c)' = <<>>
        BY <1>3, <1>6 DEF Held
    <2> QED  BY <1>2, <1>4, <1>5, <2>1, <2>2
<1>7. CASE requests' = requests /\ blocked'[c] # <<>>
    <2>1. Returning(c)' = Returning(c)
        BY <1>7 DEF Returning
    <2>2. Held(c)' = IF q.type \in AnswerTypes THEN <<q.infos>> ELSE <<>>
        BY <1>1, <1>7 DEF Held
    <2> QED  BY <1>2, <2>1, <2>2
<1>8. \/ requests' = [requests EXCEPT ![c] = Append(@, q)] /\ blocked' = blocked
      \/ requests' = requests /\ mode' = [mode EXCEPT ![c] = "send"]
    BY DEF SendsTo
<1>9. CASE requests' = requests /\ mode' = [mode EXCEPT ![c] = "send"]
    <2>1. mode'[c] = "send"
        BY <1>9 DEF ChatTypeOK
    <2> QED  BY <1>1, <1>7, <1>9, <2>1
<1> QED  BY <1>6, <1>8, <1>9

(* A packet speaks under a nickname the client has had, and so do all.       *)
LEMMA SendsToNames ==
    ASSUME ChatTypeOK, NEW c \in Conn, Present(c), mode[c] \in {"loop", "prompt"},
           NEW q \in Reqs, NEW next \in {"loop", "accept"}, SendsTo(c, q, next),
           OwnNicknames(c), q.from \in aka[c], aka' = aka, inbox' = inbox,
           client'[c].nickname = client[c].nickname
    PROVE  OwnNicknames(c)'
<1>1. /\ blocked'[c] # <<>> => blocked'[c][1] = q
      /\ requests'[c] \in {requests[c], Append(requests[c], q)}
    BY SendsToSays
<1>2. ASSUME NEW k \in DOMAIN requests'[c]
      PROVE  requests'[c][k].from \in aka[c]
    <2>1. CASE requests'[c] = requests[c]
        BY <2>1 DEF OwnNicknames
    <2>2. CASE requests'[c] = Append(requests[c], q)
        <3> DEFINE s == requests[c]
        <3>1. s \in Seq(Reqs) /\ requests'[c] = Append(s, q)
            BY <2>2 DEF ChatTypeOK
        <3>2. \A j \in DOMAIN s : s[j].from \in aka[c]
            BY DEF OwnNicknames
        <3> HIDE DEF s
        <3>3. k \in 1..(Len(s) + 1) /\ Len(s) \in Nat /\ DOMAIN s = 1..Len(s)
            BY <3>1
        <3>4. CASE k = Len(s) + 1
            <4>1. requests'[c][k] = q
                BY <3>1, <3>3, <3>4
            <4> QED  BY <4>1
        <3>5. CASE k \in DOMAIN s
            <4>1. requests'[c][k] = s[k]
                BY <3>1, <3>3, <3>5
            <4> QED  BY <3>2, <3>5, <4>1
        <3> QED  BY <3>3, <3>4, <3>5
    <2> QED  BY <1>1, <2>1, <2>2
<1> QED  BY <1>1, <1>2 DEF OwnNicknames

-----------------------------------------------------------------------------
(* A step of a client changes nothing of the server's.                       *)
LEMMA ClientKeeps ==
    ASSUME ChatInv, NEW c \in Conn, UNCHANGED regvars, serving' = serving, ChatTypeOK',
           Sound(c)', \A e \in Conn \ {c} : Sound(e)' /\ requests'[e] = requests[e],
           requests[c] # <<>> /\ serving = c => requests'[c] # <<>>
    PROVE  ChatInv'
<1>1. IInv'
    BY StepIInv DEF ChatInv
<1>2. serving' # NoConn => requests'[serving'] # <<>>
    BY DEF ChatInv, ChatTypeOK
<1> QED  BY <1>1, <1>2 DEF ChatInv

(* What a client sends: a command from the loop, or at the prompt the answer *)
(* to whoever the prompt names.                                              *)
LEMMA SendKeeps ==
    ASSUME ChatInv, NEW c \in Conn, NEW q \in Reqs, NEW next \in {"loop", "accept"},
           SendsTo(c, q, next), q.from = client[c].nickname,
           \/ mode[c] = "loop" /\ q.type \notin AnswerTypes
           \/ mode[c] = "prompt" /\ q.type \in AnswerTypes /\ q.infos = asker[c],
           NEW f \in File \cup {NoFile}, client' \in {client, [client EXCEPT ![c].file_to_send = f]},
           UNCHANGED <<regvars, asker, inbox, serving>>
    PROVE  ChatInv'
<1>1. TypeOK /\ ChatTypeOK /\ Sound(c) /\ Present(c)
    BY DEF ChatInv, IInv, Sound
<1>2. mode[c] \in {"loop", "prompt"}
    OBVIOUS
<1>4. /\ mode' \in [Conn -> Modes]
      /\ blocked' \in [Conn -> {<<>>} \cup (Reqs \X {"loop", "accept"})]
      /\ requests' \in [Conn -> Seq(Reqs)]
      /\ mode'[c] \in {"send", "loop", "accept"}
      /\ blocked'[c] = <<>> <=> mode'[c] # "send"
      /\ requests'[c] \in {requests[c], Append(requests[c], q)}
      /\ \A e \in Conn \ {c} : /\ mode'[e] = mode[e] /\ blocked'[e] = blocked[e]
                               /\ requests'[e] = requests[e]
    BY <1>1, <1>2, SendsToSays
<1>5. /\ client' \in [Conn -> Clients]
      /\ client'[c].nickname = client[c].nickname
      /\ \A e \in Conn \ {c} : client'[e] = client[e]
    <2>1. client \in [Conn -> Clients]
        BY <1>1 DEF ChatTypeOK
    <2>2. CASE client' = client
        BY <2>1, <2>2
    <2>3. CASE client' = [client EXCEPT ![c].file_to_send = f]
        <3> DEFINE g == [client[c] EXCEPT !.file_to_send = f]
        <3>1. client' = [client EXCEPT ![c] = g]
            BY <2>3
        <3>2. g \in Clients /\ g.nickname = client[c].nickname
            BY <2>1 DEF Clients
        <3> HIDE DEF g
        <3> QED  BY <2>1, <3>1, <3>2
    <2> QED  BY <2>2, <2>3
<1>6. ChatTypeOK'
    BY <1>1, <1>2, <1>4, <1>5 DEF ChatTypeOK
<1>7. Running(c) /\ c \in users
    BY <1>1, <1>2 DEF Running, Present
<1>10. users' = users /\ user' = user /\ aka' = aka /\ offers' = offers
    BY <1>2 DEF regvars, tables
<1>11. Unread(c)' = Unread(c) /\ News(c)' = News(c) /\ Owed(c)' = Owed(c)
    BY <1>2, <1>10 DEF Unread, News, Owed
<1>12. KnowsName(c)'
    BY <1>1, <1>5, <1>7, <1>10, <1>11 DEF Sound, KnowsName
<1>8. Accounted(c)'
    <2>1. Accounted(c)
        BY <1>1, <1>7 DEF Sound
    <2>2. /\ AtPrompt(c)' = <<>> /\ Held(c) = <<>>
          /\ q.type \notin AnswerTypes => Returning(c)' = Returning(c) /\ Held(c)' = <<>>
          /\ q.type \in AnswerTypes =>
                \/ Returning(c)' = Returning(c) \o <<q.infos>> /\ Held(c)' = <<>>
                \/ Returning(c)' = Returning(c) /\ Held(c)' = <<q.infos>>
        BY <1>1, <1>2, SendsToPlaces
    <2>3. CASE mode[c] = "loop" /\ q.type \notin AnswerTypes
        <3>1. AtPrompt(c) = <<>>
            BY <2>3 DEF AtPrompt
        <3> QED  BY <1>11, <2>1, <2>2, <2>3, <3>1 DEF Accounted
    <2>4. CASE mode[c] = "prompt" /\ q.type \in AnswerTypes /\ q.infos = asker[c]
        <3>1. AtPrompt(c) = <<q.infos>> /\ q.infos \in Names
            BY <2>4, InfosOfQueues DEF AtPrompt
        <3>2. Returning(c) \in Seq(Names) /\ Unread(c) \in Seq(Names)
            BY <1>1, PlacesType
        <3>3. Owed(c) = Returning(c) \o <<q.infos>> \o Unread(c)
            BY <2>1, <2>2, <3>1, <3>2, Places DEF Accounted
        <3>4. CASE Returning(c)' = Returning(c) \o <<q.infos>> /\ Held(c)' = <<>>
            BY <1>11, <2>2, <3>1, <3>2, <3>3, <3>4, Places DEF Accounted
        <3>5. CASE Returning(c)' = Returning(c) /\ Held(c)' = <<q.infos>>
            BY <1>11, <2>2, <3>1, <3>2, <3>3, <3>5, Places DEF Accounted
        <3> QED  BY <2>2, <2>4, <3>4, <3>5
    <2> QED  BY <2>3, <2>4
<1>13. OwnNicknames(c)'
    BY <1>1, <1>2, <1>5, <1>7, <1>10, SendsToNames DEF Sound, OwnNicknames
<1>14. Sound(c)'
    <2>1. mode'[c] \notin {"off", "gone"}
        BY <1>4
    <2> QED  BY <1>1, <1>4, <1>6, <1>7, <1>8, <1>12, <1>13, <2>1, StillSound
<1>15. \A e \in Conn \ {c} : Sound(e)'
    BY <1>4, <1>5, SameSound DEF ChatInv, Same
<1>16. requests[c] # <<>> => requests'[c] # <<>>
    <2> DEFINE s == requests[c]
    <2>1. Append(s, q) # <<>>
        <3>1. s \in Seq(Reqs)
            BY <1>1 DEF ChatTypeOK
        <3> HIDE DEF s
        <3> QED  BY <3>1, AppendProperties
    <2> QED  BY <1>4, <2>1
<1> QED  BY <1>4, <1>6, <1>14, <1>15, <1>16, ClientKeeps

(* The commands.                                                             *)
LEMMA TypesKeeps ==
    ASSUME ChatInv, NEW c \in Conn, NEW type, NEW infos, NEW payload,
           Req(c, type, infos, payload) \in Reqs, type \notin AnswerTypes,
           Types(c, type, infos, payload),
           NEW f \in File \cup {NoFile}, client' \in {client, [client EXCEPT ![c].file_to_send = f]}
    PROVE  ChatInv'
<1> DEFINE q == Req(c, type, infos, payload)
<1>1. /\ mode[c] = "loop" /\ SendsTo(c, q, "loop")
      /\ UNCHANGED <<regvars, asker, inbox, serving>>
    BY DEF Types
<1>2. q \in Reqs /\ q.type = type /\ q.from = client[c].nickname
    BY DEF Req
<1> HIDE DEF q
<1> QED  BY <1>1, <1>2, SendKeeps

(* A user types a command that sends a packet or none.                       *)
LEMMA CommandedKeeps ==
    ASSUME ChatInv, NEW c \in Conn, Commanded(c)
    PROVE  ChatInv'
<1>1. client[c].nickname \in Nick \cup {Empty}
    BY DEF ChatInv, ChatTypeOK, Clients
<1>2. ASSUME NEW n \in Nick, client_send_nickname_new_req(c, n) PROVE ChatInv'
    <2>1. Req(c, "NICKNAME_NEW", n, NoFile) \in Reqs
        BY <1>1 DEF Req, Reqs, RequestTypes
    <2> QED  BY <1>2, <2>1, TypesKeeps DEF client_send_nickname_new_req, AnswerTypes
<1>3. ASSUME client_send_broadcast_send_req(c) PROVE ChatInv'
    <2>1. Req(c, "BROADCAST_SEND", Empty, c) \in Reqs
        BY <1>1, ChatAssumption DEF Req, Reqs, RequestTypes
    <2> QED  BY <1>3, <2>1, TypesKeeps DEF client_send_broadcast_send_req, AnswerTypes
<1>4. ASSUME NEW n \in Nick, NEW f \in File, client_send_file_req(c, n, f) PROVE ChatInv'
    <2>1. Req(c, "FILE_REQUEST", n, f) \in Reqs
        BY <1>1, ChatAssumption DEF Req, Reqs, RequestTypes
    <2> QED  BY <1>4, <2>1, TypesKeeps DEF client_send_file_req, AnswerTypes
<1> QED  BY <1>2, <1>3, <1>4 DEF Commanded

(* The answers.                                                              *)
LEMMA AnswersKeeps ==
    ASSUME ChatInv, NEW c \in Conn, Answers(c)
    PROVE  ChatInv'
<1>1. client[c].nickname \in Nick \cup {Empty} /\ asker[c] \in Nick \cup {Empty}
    BY DEF ChatInv, ChatTypeOK, Clients
<1>2. CASE file_accept_res(c)
    <2> DEFINE q == Req(c, "FILE_ACCEPT", asker[c], c)
    <2>1. /\ mode[c] = "prompt" /\ SendsTo(c, q, "accept") /\ client' = client
          /\ UNCHANGED <<regvars, asker, inbox, serving>>
        BY <1>2 DEF file_accept_res
    <2>2. /\ q \in Reqs /\ q.type \in AnswerTypes /\ q.infos = asker[c]
          /\ q.from = client[c].nickname
        BY <1>1, ChatAssumption DEF Req, Reqs, RequestTypes, AnswerTypes
    <2> HIDE DEF q
    <2> QED  BY <2>1, <2>2, SendKeeps
<1>3. CASE file_reject_res(c)
    <2> DEFINE q == Req(c, "FILE_REJECT", asker[c], NoFile)
    <2>1. /\ mode[c] = "prompt" /\ SendsTo(c, q, "loop")
          /\ client' = [client EXCEPT ![c].file_to_send = NoFile]
          /\ UNCHANGED <<regvars, asker, inbox, serving>>
        BY <1>3 DEF file_reject_res
    <2>2. /\ q \in Reqs /\ q.type \in AnswerTypes /\ q.infos = asker[c]
          /\ q.from = client[c].nickname
        BY <1>1, ChatAssumption DEF Req, Reqs, RequestTypes, AnswerTypes
    <2> HIDE DEF q
    <2> QED  BY <2>1, <2>2, SendKeeps
<1> QED  BY <1>2, <1>3 DEF Answers

(* A packet held back is sent.                                               *)
LEMMA UnblocksKeeps ==
    ASSUME ChatInv, NEW c \in Conn, Unblocks(c)
    PROVE  ChatInv'
<1> DEFINE q == blocked[c][1]
           next == blocked[c][2]
<1>1. TypeOK /\ ChatTypeOK /\ Sound(c) /\ Present(c)
    BY DEF ChatInv, IInv, Sound
<1>2. /\ mode[c] = "send" /\ blocked[c] # <<>>
      /\ requests' = [requests EXCEPT ![c] = Append(@, q)]
      /\ mode' = [mode EXCEPT ![c] = next]
      /\ blocked' = [blocked EXCEPT ![c] = <<>>]
      /\ UNCHANGED <<regvars, client, asker, inbox, serving>>
    BY <1>1 DEF Unblocks, Present
<1>3. q \in Reqs /\ next \in {"loop", "accept"}
    <2>1. blocked[c] \in Reqs \X {"loop", "accept"}
        BY <1>1, <1>2 DEF ChatTypeOK
    <2> QED  BY <2>1
<1>4. Held(c) = IF q.type \in AnswerTypes THEN <<q.infos>> ELSE <<>>
    BY <1>2 DEF Held
<1>n. Running(c) /\ c \in users
    BY <1>1, <1>2 DEF Running, Present
<1>5. q.from \in aka[c] /\ OwnNicknames(c)
    BY <1>1, <1>2, <1>n DEF Sound, OwnNicknames
<1> HIDE DEF q, next
<1> DEFINE s == requests[c]
<1>6. s \in Seq(Reqs) /\ Append(s, q) \in Seq(Reqs) /\ Append(s, q) # <<>>
    <2>1. s \in Seq(Reqs)
        BY <1>1 DEF ChatTypeOK
    <2> HIDE DEF s
    <2> QED  BY <1>3, <2>1, AppendProperties
<1>7. requests'[c] = Append(s, q) /\ mode'[c] = next /\ blocked'[c] = <<>>
    BY <1>1, <1>2 DEF ChatTypeOK
<1>8. ChatTypeOK'
    <2>1. {"loop", "accept"} \subseteq Modes
        BY DEF Modes
    <2> HIDE DEF s
    <2>2. requests' \in [Conn -> Seq(Reqs)]
        BY <1>1, <1>2, <1>6 DEF s, ChatTypeOK
    <2>3. blocked' \in [Conn -> {<<>>} \cup (Reqs \X {"loop", "accept"})]
        BY <1>1, <1>2 DEF ChatTypeOK
    <2>4. mode' \in [Conn -> Modes]
        BY <1>1, <1>2, <1>3, <2>1 DEF ChatTypeOK
    <2> QED  BY <1>1, <1>2, <2>2, <2>3, <2>4 DEF ChatTypeOK
<1>9. users' = users /\ user' = user /\ aka' = aka /\ offers' = offers
    BY <1>2 DEF regvars, tables
<1>10. /\ Unread(c)' = Unread(c) /\ News(c)' = News(c) /\ Owed(c)' = Owed(c)
       /\ AtPrompt(c) = <<>> /\ AtPrompt(c)' = <<>> /\ Held(c)' = <<>>
    BY <1>2, <1>3, <1>7, <1>9 DEF Unread, News, Owed, AtPrompt, Held
<1>11. Returning(c)' = Returning(c) \o Held(c)
    <2> HIDE DEF s
    <2>1. Picked(Append(s, q), AnswerTypes) =
             Picked(s, AnswerTypes) \o (IF q.type \in AnswerTypes THEN <<q.infos>> ELSE <<>>)
        BY <1>3, <1>6, InfosOfQueues, PickedAppend
    <2> QED  BY <1>4, <1>7, <2>1 DEF Returning, s
<1>12. KnowsName(c)'
    BY <1>1, <1>2, <1>n, <1>9, <1>10 DEF Sound, KnowsName
<1>13. Accounted(c)'
    <2>1. /\ Returning(c) \in Seq(Names) /\ Held(c) \in Seq(Names)
          /\ Unread(c) \in Seq(Names)
        BY <1>1, PlacesType
    <2> DEFINE r == Returning(c) \o Held(c)
    <2>2. r \in Seq(Names)
        BY <2>1, ConcatProperties
    <2>3. Owed(c) = r \o <<>> \o Unread(c)
        BY <1>1, <1>n, <1>10 DEF Sound, Accounted
    <2> HIDE DEF r
    <2>4. r \o <<>> = r /\ (r \o <<>>) \o <<>> = r
        BY <2>2, ConcatEmptySeq
    <2>5. Owed(c)' = r \o <<>> \o <<>> \o Unread(c)
        BY <1>10, <2>3, <2>4
    <2> QED  BY <1>10, <1>11, <2>5 DEF Accounted, r
<1>14. OwnNicknames(c)'
    <2>1. ASSUME NEW k \in DOMAIN Append(s, q) PROVE Append(s, q)[k].from \in aka[c]
        <3>1. \A j \in DOMAIN s : s[j].from \in aka[c]
            BY <1>5 DEF OwnNicknames
        <3> HIDE DEF s
        <3>2. k \in 1..(Len(s) + 1) /\ Len(s) \in Nat /\ DOMAIN s = 1..Len(s)
            BY <1>6
        <3>3. CASE k = Len(s) + 1
            <4>1. Append(s, q)[k] = q
                BY <1>6, <3>2, <3>3
            <4> QED  BY <1>5, <4>1
        <3>4. CASE k \in DOMAIN s
            <4>1. Append(s, q)[k] = s[k]
                BY <1>6, <3>2, <3>4
            <4> QED  BY <3>1, <3>4, <4>1
        <3> QED  BY <3>2, <3>3, <3>4
    <2> HIDE DEF s
    <2> QED  BY <1>2, <1>5, <1>7, <1>9, <2>1 DEF OwnNicknames
<1>15. Sound(c)'
    <2>1. mode'[c] \notin {"off", "gone"} /\ (blocked'[c] = <<>> <=> mode'[c] # "send")
        BY <1>3, <1>7
    <2> QED  BY <1>1, <1>2, <1>8, <1>n, <1>12, <1>13, <1>14, <2>1, StillSound
<1>16. \A e \in Conn \ {c} : /\ mode'[e] = mode[e] /\ blocked'[e] = blocked[e]
                              /\ requests'[e] = requests[e]
    BY <1>1, <1>2 DEF ChatTypeOK
<1>17. \A e \in Conn \ {c} : Sound(e)'
    BY <1>2, <1>16, SameSound DEF ChatInv, Same
<1> QED  BY <1>2, <1>6, <1>7, <1>8, <1>15, <1>16, <1>17, ClientKeeps

-----------------------------------------------------------------------------
(* A client goes.                                                            *)
LEMMA ExitsKeeps ==
    ASSUME ChatInv, NEW c \in Conn, Running(c), Exits(c), NEW k \in 0..Len(requests[c]),
           requests' = [requests EXCEPT ![c] = SubSeq(@, 1, k)], serving = c => k # 0
    PROVE  ChatInv'
<1>1. TypeOK /\ ChatTypeOK /\ Sound(c)
    BY DEF ChatInv, IInv
<1>2. /\ mode' = [mode EXCEPT ![c] = "gone"]
      /\ blocked' = [blocked EXCEPT ![c] = <<>>]
      /\ inbox' = [inbox EXCEPT ![c] = <<>>]
      /\ UNCHANGED <<regvars, client, asker, serving>>
    BY DEF Exits
<1> DEFINE s == requests[c]
<1>3. s \in Seq(Reqs)
    BY <1>1 DEF ChatTypeOK
<1>4. SubSeq(s, 1, k) \in Seq(Reqs) /\ (k # 0 => SubSeq(s, 1, k) # <<>>)
    <2> HIDE DEF s
    <2>1. k \in Nat /\ k <= Len(s) /\ \A i \in 1..k : s[i] \in Reqs
        BY <1>3 DEF s
    <2>2. SubSeq(s, 1, k) \in Seq(Reqs) /\ Len(SubSeq(s, 1, k)) = IF 1 <= k THEN k - 1 + 1 ELSE 0
        BY <2>1, SubSeqProperties
    <2> QED  BY <2>1, <2>2
<1>5. requests'[c] = SubSeq(s, 1, k) /\ mode'[c] = "gone" /\ blocked'[c] = <<>> /\ inbox'[c] = <<>>
    BY <1>1, <1>2 DEF ChatTypeOK
<1>6. ChatTypeOK'
    <2>1. "gone" \in Modes /\ <<>> \in Seq(Mail)
        BY DEF Modes
    <2> HIDE DEF s
    <2>2. requests' \in [Conn -> Seq(Reqs)]
        BY <1>1, <1>4 DEF s, ChatTypeOK
    <2>3. blocked' \in [Conn -> {<<>>} \cup (Reqs \X {"loop", "accept"})]
        BY <1>1, <1>2 DEF ChatTypeOK
    <2>4. inbox' \in [Conn -> Seq(Mail)] /\ mode' \in [Conn -> Modes]
        BY <1>1, <1>2, <2>1 DEF ChatTypeOK
    <2> QED  BY <1>1, <1>2, <2>2, <2>3, <2>4 DEF ChatTypeOK
<1>7. Sound(c)'
    BY <1>1, <1>2, <1>5, GoneSound
<1>8. \A e \in Conn \ {c} : /\ mode'[e] = mode[e] /\ blocked'[e] = blocked[e]
                            /\ requests'[e] = requests[e] /\ inbox'[e] = inbox[e]
    BY <1>1, <1>2 DEF ChatTypeOK
<1>9. \A e \in Conn \ {c} : Sound(e)'
    BY <1>2, <1>8, SameSound DEF ChatInv, Same
<1> QED  BY <1>2, <1>4, <1>5, <1>6, <1>7, <1>8, <1>9, ClientKeeps

(* A client exits, and all it has sent is still to come.                     *)
LEMMA ExitsAlone ==
    ASSUME ChatInv, NEW c \in Conn, Running(c), Exits(c), requests' = requests
    PROVE  ChatInv'
<1> DEFINE s == requests[c]
           k == Len(s)
<1>1. requests \in [Conn -> Seq(Reqs)] /\ s \in Seq(Reqs)
    BY DEF ChatInv, ChatTypeOK
<1>2. k \in 0..Len(s) /\ SubSeq(s, 1, k) = s /\ (s # <<>> => k # 0)
    <2> HIDE DEF s
    <2> QED  BY <1>1, SubSeqFull, EmptySeq
<1>3. requests' = [requests EXCEPT ![c] = SubSeq(@, 1, k)]
    <2>1. [requests EXCEPT ![c] = s] = requests
        BY <1>1
    <2> QED  BY <1>2, <2>1
<1>4. serving = c => k # 0
    BY <1>2, RegistryAssumption DEF ChatInv
<1> HIDE DEF k
<1> QED  BY <1>2, <1>3, <1>4, ExitsKeeps

(* A client is closed, and of what it has sent some may be lost.             *)
LEMMA LeaveKeeps ==
    ASSUME ChatInv, NEW c \in Conn, Leave(c)
    PROVE  ChatInv'
<1>1. PICK k \in (IF serving = c THEN 1 ELSE 0)..Len(requests[c]) :
         requests' = [requests EXCEPT ![c] = SubSeq(@, 1, k)]
    BY DEF Leave
<1>2. Len(requests[c]) \in Nat
    BY DEF ChatInv, ChatTypeOK
<1>3. k \in 0..Len(requests[c]) /\ (serving = c => k # 0)
    BY <1>1, <1>2
<1> QED  BY <1>1, <1>3, ExitsKeeps DEF Leave

(* The packet a client reads, and what is left to read.                      *)
LEMMA TakesSays ==
    ASSUME ChatTypeOK, NEW c \in Conn, inbox[c] # <<>>, inbox' = [inbox EXCEPT ![c] = Tail(@)]
    PROVE  /\ Head(inbox[c]) \in Mail
           /\ inbox' \in [Conn -> Seq(Mail)]
           /\ \A e \in Conn \ {c} : inbox'[e] = inbox[e]
           /\ Unread(c) = (IF Head(inbox[c]).type = "FILE_REQUEST"
                           THEN <<Head(inbox[c]).infos>> ELSE <<>>) \o Unread(c)'
           /\ News(c) = (IF Head(inbox[c]).type = "NICKNAME_NEW"
                         THEN <<Head(inbox[c]).infos>> ELSE <<>>) \o News(c)'
           /\ \A k \in DOMAIN inbox'[c] : \E j \in DOMAIN inbox[c] : inbox'[c][k] = inbox[c][j]
           /\ \E j \in DOMAIN inbox[c] : Head(inbox[c]) = inbox[c][j]
<1> DEFINE s == inbox[c]
<1>1. s \in Seq(Mail) /\ s # <<>> /\ inbox \in [Conn -> Seq(Mail)]
    BY DEF ChatTypeOK
<1>2. inbox'[c] = Tail(s)
    BY <1>1
<1> HIDE DEF s
<1>3. Head(s) \in Mail /\ Tail(s) \in Seq(Mail)
    BY <1>1, HeadTailProperties
<1>4. inbox' \in [Conn -> Seq(Mail)] /\ \A e \in Conn \ {c} : inbox'[e] = inbox[e]
    BY <1>1, <1>3 DEF s
<1>5. Picked(s, {"FILE_REQUEST"}) =
         (IF Head(s).type \in {"FILE_REQUEST"} THEN <<Head(s).infos>> ELSE <<>>)
            \o Picked(Tail(s), {"FILE_REQUEST"})
    BY <1>1, InfosOfQueues, PickedTail
<1>6. Picked(s, {"NICKNAME_NEW"}) =
         (IF Head(s).type \in {"NICKNAME_NEW"} THEN <<Head(s).infos>> ELSE <<>>)
            \o Picked(Tail(s), {"NICKNAME_NEW"})
    BY <1>1, InfosOfQueues, PickedTail
<1>7. Unread(c) = (IF Head(s).type = "FILE_REQUEST" THEN <<Head(s).infos>> ELSE <<>>) \o Unread(c)'
    BY <1>2, <1>5 DEF Unread, s
<1>8. News(c) = (IF Head(s).type = "NICKNAME_NEW" THEN <<Head(s).infos>> ELSE <<>>) \o News(c)'
    BY <1>2, <1>6 DEF News, s
<1>9. /\ Len(s) \in Nat /\ DOMAIN s = 1..Len(s) /\ 1 \in DOMAIN s /\ Head(s) = s[1]
      /\ DOMAIN Tail(s) = 1..Len(s) - 1
      /\ \A i \in 1..Len(s) - 1 : Tail(s)[i] = s[i + 1]
    BY <1>1, LenProperties, HeadTailProperties
<1>10. \A k \in DOMAIN Tail(s) : k + 1 \in DOMAIN s /\ Tail(s)[k] = s[k + 1]
    BY <1>9
<1> QED  BY <1>2, <1>3, <1>4, <1>7, <1>8, <1>9, <1>10 DEF s

(* The last of a sequence that starts with x, or x.                          *)
LEMMA LastOfCons ==
    ASSUME NEW S, NEW s \in Seq(S), NEW x \in S, NEW y
    PROVE  LastOf(<<x>> \o s, y) = LastOf(s, x)
<1> DEFINE a == <<x>>
           b == a \o s
<1>1. a \in Seq(S) /\ Len(a) = 1 /\ a[1] = x
    OBVIOUS
<1> HIDE DEF a
<1>2. /\ Len(b) = 1 + Len(s) /\ b \in Seq(S)
      /\ \A i \in 1..1 + Len(s) : b[i] = IF i <= 1 THEN a[i] ELSE s[i - 1]
    BY <1>1, ConcatProperties
<1> HIDE DEF b
<1>3. Len(s) \in Nat /\ (s = <<>> <=> Len(s) = 0) /\ b # <<>>
    BY <1>2, LenProperties, EmptySeq
<1>4. CASE s = <<>>
    BY <1>1, <1>2, <1>3, <1>4 DEF LastOf, a, b
<1>5. CASE s # <<>>
    <2>1. 1 + Len(s) \in 1..1 + Len(s) /\ ~ (1 + Len(s) <= 1) /\ 1 + Len(s) - 1 = Len(s)
        BY <1>3, <1>5
    <2>2. b[1 + Len(s)] = s[Len(s)]
        BY <1>2, <2>1
    <2> QED  BY <1>2, <1>3, <1>5, <2>2 DEF LastOf, a, b
<1> QED  BY <1>4, <1>5

(* What a client in the loop has read: the nickname it takes up, or the      *)
(* prompt it stops at.                                                       *)
LEMMA ReadSound ==
    ASSUME ChatInv, NEW c \in Conn, mode[c] = "loop", inbox[c] # <<>>,
           NEW p, p = Head(inbox[c]), inbox' = [inbox EXCEPT ![c] = Tail(@)],
           UNCHANGED <<regvars, requests, blocked, serving>>,
           mode' \in [Conn -> Modes], mode'[c] \in {"loop", "prompt", "sending"},
           client' \in [Conn -> Clients], asker' \in [Conn -> Nick \cup {Empty}],
           client'[c].nickname = IF p.type = "NICKNAME_NEW" THEN p.infos ELSE client[c].nickname,
           AtPrompt(c)' = IF p.type = "FILE_REQUEST" THEN <<p.infos>> ELSE <<>>
    PROVE  ChatTypeOK' /\ Sound(c)'
<1>1. TypeOK /\ ChatTypeOK /\ Sound(c) /\ Present(c)
    BY DEF ChatInv, IInv, Sound
<1>2. Running(c) /\ c \in users
    BY <1>1 DEF Running, Present
<1>3. KnowsName(c) /\ Accounted(c) /\ OwnNicknames(c) /\ blocked[c] = <<>>
    BY <1>1, <1>2 DEF Sound, Present
<1>4. /\ p \in Mail
      /\ inbox' \in [Conn -> Seq(Mail)]
      /\ Unread(c) = (IF p.type = "FILE_REQUEST" THEN <<p.infos>> ELSE <<>>) \o Unread(c)'
      /\ News(c) = (IF p.type = "NICKNAME_NEW" THEN <<p.infos>> ELSE <<>>) \o News(c)'
      /\ \A k \in DOMAIN inbox'[c] : \E j \in DOMAIN inbox[c] : inbox'[c][k] = inbox[c][j]
      /\ \E j \in DOMAIN inbox[c] : p = inbox[c][j]
    BY <1>1, TakesSays
<1>5. ChatTypeOK'
    BY <1>1, <1>4 DEF ChatTypeOK
<1>6. /\ Unread(c)' \in Seq(Names) /\ News(c)' \in Seq(Names) /\ p.infos \in Names
      /\ Returning(c) \in Seq(Names)
    BY <1>1, <1>4, <1>5, PlacesType, PlacesTypeNext, InfosOfQueues
<1>7. users' = users /\ user' = user /\ aka' = aka /\ offers' = offers
    BY DEF regvars, tables
<1>8. /\ Returning(c)' = Returning(c) /\ Owed(c)' = Owed(c)
      /\ Held(c) = <<>> /\ Held(c)' = <<>> /\ AtPrompt(c) = <<>>
    BY <1>3, <1>7 DEF Returning, Owed, Held, AtPrompt
<1>9. KnowsName(c)'
    <2>1. user[c].nickname = LastOf(News(c), client[c].nickname)
        BY <1>3 DEF KnowsName
    <2>2. CASE p.type = "NICKNAME_NEW"
        <3>1. News(c) = <<p.infos>> \o News(c)' /\ client'[c].nickname = p.infos
            BY <1>4, <2>2
        <3>2. LastOf(News(c), client[c].nickname) = LastOf(News(c)', p.infos)
            BY <1>6, <3>1, LastOfCons
        <3> QED  BY <1>7, <2>1, <3>1, <3>2 DEF KnowsName
    <2>3. CASE p.type # "NICKNAME_NEW"
        <3>1. News(c) = <<>> \o News(c)' /\ client'[c].nickname = client[c].nickname
            BY <1>4, <2>3
        <3>2. News(c) = News(c)'
            BY <1>6, <3>1, ConcatEmptySeq
        <3> QED  BY <1>7, <2>1, <3>1, <3>2 DEF KnowsName
    <2> QED  BY <2>2, <2>3
<1>10. Accounted(c)'
    <2>1. Owed(c) = Returning(c) \o <<>> \o <<>> \o Unread(c)
        BY <1>3, <1>8 DEF Accounted
    <2>2. CASE p.type = "FILE_REQUEST"
        <3> DEFINE x == p.infos
        <3>1. Unread(c) = <<x>> \o Unread(c)' /\ AtPrompt(c)' = <<x>>
            BY <1>4, <2>2
        <3> HIDE DEF x
        <3>2. /\ Returning(c) \o <<>> \o <<>> \o (<<x>> \o Unread(c)')
                    = Returning(c) \o <<x>> \o Unread(c)'
              /\ Returning(c) \o <<>> \o <<x>> \o Unread(c)'
                    = Returning(c) \o <<x>> \o Unread(c)'
            BY <1>6, Places DEF x
        <3> QED  BY <1>8, <2>1, <3>1, <3>2 DEF Accounted
    <2>3. CASE p.type # "FILE_REQUEST"
        <3>1. Unread(c) = <<>> \o Unread(c)' /\ AtPrompt(c)' = <<>>
            BY <1>4, <2>3
        <3>2. Unread(c) = Unread(c)'
            BY <1>6, <3>1, ConcatEmptySeq
        <3> QED  BY <1>8, <2>1, <3>1, <3>2 DEF Accounted
    <2> QED  BY <2>2, <2>3
<1>11. OwnNicknames(c)'
    <2>1. client'[c].nickname \in aka[c]
        BY <1>3, <1>4 DEF OwnNicknames
    <2>2. \A k \in DOMAIN inbox'[c] :
             inbox'[c][k].type = "NICKNAME_NEW" => inbox'[c][k].infos \in aka[c]
        BY <1>3, <1>4 DEF OwnNicknames
    <2> QED  BY <1>3, <1>7, <2>1, <2>2 DEF OwnNicknames
<1>12. Sound(c)'
    <2>1. mode'[c] \notin {"off", "gone"} /\ (blocked'[c] = <<>> <=> mode'[c] # "send")
        BY <1>3
    <2> QED  BY <1>1, <1>2, <1>5, <1>9, <1>10, <1>11, <2>1, StillSound
<1> QED  BY <1>5, <1>12

(* What a client takes out of a packet it reads.                             *)
LEMMA MailContents ==
    ASSUME NEW p \in Mail
    PROVE  /\ p.type = "NICKNAME_NEW" => p.infos \in Nick
           /\ p.type = "FILE_REQUEST" => p.infos \in Nick \cup {Empty} /\ Content(p) \in Body
           /\ p.type = "FILE_ACCEPT" => Content(p) \in Conn
<1>1. ASSUME NEW S, NEW x \in S, p.payload.about = {x}
      PROVE  Content(p) \in S
    BY <1>1 DEF Content
<1> QED  BY <1>1 DEF Mail

(* What a client reads makes it take up a nickname, stop at a prompt,        *)
(* connect to the client that accepted its file, or go.                      *)
LEMMA ReadsKeeps ==
    ASSUME ChatInv, NEW c \in Conn, Reads(c)
    PROVE  ChatInv'
<1> DEFINE p == Head(inbox[c])
<1>1. mode[c] = "loop" /\ inbox[c] # <<>> /\ Running(c)
    BY DEF Reads, Running
<1>2. ChatTypeOK /\ p \in Mail
    BY <1>1, TakesSays, HeadTailProperties DEF ChatInv, ChatTypeOK
<1>3. /\ p.type = "NICKNAME_NEW" => p.infos \in Nick
      /\ p.type = "FILE_REQUEST" => p.infos \in Nick \cup {Empty} /\ Content(p) \in Body
      /\ p.type = "FILE_ACCEPT" => Content(p) \in Conn
    BY <1>2, MailContents
<1>4. {"loop", "prompt", "sending", "receiving"} \subseteq Modes
    BY DEF Modes
<1>5. ASSUME Takes(c), UNCHANGED <<regvars, requests, blocked, serving>>,
             mode' \in [Conn -> Modes], mode'[c] \in {"loop", "prompt", "sending"},
             client' \in [Conn -> Clients], asker' \in [Conn -> Nick \cup {Empty}],
             client'[c].nickname =
                IF p.type = "NICKNAME_NEW" THEN p.infos ELSE client[c].nickname,
             AtPrompt(c)' = IF p.type = "FILE_REQUEST" THEN <<p.infos>> ELSE <<>>,
             \A e \in Conn \ {c} : Sound(e)'
      PROVE  ChatInv'
    <2>1. inbox' = [inbox EXCEPT ![c] = Tail(@)]
        BY <1>5 DEF Takes
    <2> HIDE DEF p
    <2>2. ChatTypeOK' /\ Sound(c)'
        BY <1>1, <1>5, <2>1, ReadSound DEF p
    <2> QED  BY <1>5, <2>2, ClientKeeps
<1>6. ASSUME Takes(c), UNCHANGED <<regvars, requests, blocked, serving>>,
             \A e \in Conn \ {c} : mode'[e] = mode[e] /\ client'[e] = client[e] /\ asker'[e] = asker[e]
      PROVE  \A e \in Conn \ {c} : Sound(e)'
    <2>1. \A e \in Conn \ {c} : inbox'[e] = inbox[e]
        BY <1>2, <1>6 DEF Takes, ChatTypeOK
    <2> QED  BY <1>6, <2>1, SameSound DEF ChatInv, Same
<1>7. CASE p.type = "NICKNAME_NEW" /\ client_handle_nickname_new_res(c, p)
    <2>1. /\ client' = [client EXCEPT ![c].nickname = p.infos]
          /\ Takes(c) /\ UNCHANGED <<regvars, requests, blocked, serving, mode, asker>>
        BY <1>7 DEF Reads, client_handle_nickname_new_res
    <2> HIDE DEF p
    <2> DEFINE g == [client[c] EXCEPT !.nickname = p.infos]
    <2>2. client' = [client EXCEPT ![c] = g]
        BY <2>1
    <2>3. client[c] \in Clients /\ client \in [Conn -> Clients]
        BY <1>2 DEF ChatTypeOK
    <2>4. g \in Clients /\ g.nickname = p.infos
        BY <1>3, <1>7, <2>3 DEF Clients
    <2> HIDE DEF g
    <2>5. /\ client' \in [Conn -> Clients] /\ client'[c].nickname = p.infos
          /\ \A e \in Conn \ {c} : client'[e] = client[e]
        BY <2>2, <2>3, <2>4
    <2>6. AtPrompt(c)' = <<>>
        BY <1>1, <2>1 DEF AtPrompt
    <2>7. mode' \in [Conn -> Modes] /\ asker' \in [Conn -> Nick \cup {Empty}] /\ mode'[c] = "loop"
        BY <1>1, <1>2, <2>1 DEF ChatTypeOK
    <2>8. \A e \in Conn \ {c} : Sound(e)'
        BY <1>6, <2>1, <2>5
    <2> QED  BY <1>5, <1>7, <2>1, <2>5, <2>6, <2>7, <2>8
<1>8. CASE p.type = "FILE_REQUEST"
    <2>1. /\ client' = [client EXCEPT ![c].file_to_receive = Content(p)]
          /\ asker' = [asker EXCEPT ![c] = p.infos]
          /\ mode' = [mode EXCEPT ![c] = "prompt"]
          /\ Takes(c) /\ UNCHANGED <<regvars, requests, blocked, serving>>
        BY <1>8 DEF Reads, client_handle_file_request_res
    <2> HIDE DEF p
    <2> DEFINE g == [client[c] EXCEPT !.file_to_receive = Content(p)]
    <2>2. client' = [client EXCEPT ![c] = g]
        BY <2>1
    <2>3. client[c] \in Clients /\ client \in [Conn -> Clients]
        BY <1>2 DEF ChatTypeOK
    <2>4. g \in Clients /\ g.nickname = client[c].nickname
        BY <1>3, <1>8, <2>3 DEF Clients
    <2> HIDE DEF g
    <2>5. /\ client' \in [Conn -> Clients] /\ client'[c].nickname = client[c].nickname
          /\ \A e \in Conn \ {c} : client'[e] = client[e]
        BY <2>2, <2>3, <2>4
    <2>6. /\ mode' \in [Conn -> Modes] /\ mode'[c] = "prompt"
          /\ asker' \in [Conn -> Nick \cup {Empty}] /\ asker'[c] = p.infos
          /\ \A e \in Conn \ {c} : mode'[e] = mode[e] /\ asker'[e] = asker[e]
        BY <1>2, <1>3, <1>4, <1>8, <2>1 DEF ChatTypeOK
    <2>7. AtPrompt(c)' = <<p.infos>>
        BY <2>6 DEF AtPrompt
    <2>8. \A e \in Conn \ {c} : Sound(e)'
        BY <1>6, <2>1, <2>5, <2>6
    <2> QED  BY <1>5, <1>8, <2>1, <2>5, <2>6, <2>7, <2>8
<1>9. CASE p.type = "FILE_ACCEPT"
    <2>1. PICK d \in Conn : client_handle_file_accept_res(c, d)
        BY <1>3, <1>9 DEF Reads
    <2>2. CASE mode[d] = "accept"
        <3>1. /\ mode' = [mode EXCEPT ![c] = "sending", ![d] = "receiving"]
              /\ Takes(c) /\ UNCHANGED <<regvars, requests, blocked, serving, client, asker>>
            BY <2>1, <2>2 DEF client_handle_file_accept_res
        <3>2. d # c
            BY <1>1, <2>2
        <3>3. /\ mode' \in [Conn -> Modes] /\ mode'[c] = "sending" /\ mode'[d] = "receiving"
              /\ \A e \in Conn \ {c, d} : mode'[e] = mode[e]
            BY <1>2, <1>4, <2>1, <3>1, <3>2 DEF ChatTypeOK
        <3>4. \A e \in Conn \ {c} : inbox'[e] = inbox[e]
            BY <1>2, <3>1 DEF Takes, ChatTypeOK
        <3>5. Sound(d)'
            <4>1. /\ Sound(d) /\ UNCHANGED regvars /\ mode[d] = "accept" /\ mode'[d] = "receiving"
                  /\ client'[d] = client[d] /\ asker'[d] = asker[d] /\ blocked'[d] = blocked[d]
                  /\ requests'[d] = requests[d] /\ inbox'[d] = inbox[d]
                BY <2>1, <2>2, <3>1, <3>2, <3>3, <3>4 DEF ChatInv
            <4> QED  BY <4>1, AcceptedSound
        <3>6. \A e \in Conn \ {c, d} : Sound(e)'
            BY <3>1, <3>3, <3>4, SameSound DEF ChatInv, Same
        <3>7. AtPrompt(c)' = <<>>
            BY <3>3 DEF AtPrompt
        <3>8. client' \in [Conn -> Clients] /\ asker' \in [Conn -> Nick \cup {Empty}]
            BY <1>2, <3>1 DEF ChatTypeOK
        <3>9. ASSUME NEW e \in Conn \ {c} PROVE Sound(e)'
            <4>1. CASE e = d
                BY <3>5, <4>1
            <4>2. CASE e # d
                BY <3>6, <4>2
            <4> QED  BY <4>1, <4>2
        <3> HIDE DEF p
        <3> QED  BY <1>5, <1>9, <3>1, <3>3, <3>7, <3>8, <3>9
    <2>3. CASE mode[d] # "accept"
        BY <1>1, <2>1, <2>3, ExitsAlone DEF client_handle_file_accept_res
    <2> QED  BY <2>2, <2>3
<1>10. CASE p.type \notin {"NICKNAME_NEW", "FILE_REQUEST", "FILE_ACCEPT"}
    <2>1. Takes(c) /\ UNCHANGED <<regvars, requests, blocked, serving, mode, client, asker>>
        BY <1>10 DEF Reads
    <2>2. /\ client' \in [Conn -> Clients] /\ asker' \in [Conn -> Nick \cup {Empty}]
          /\ mode' \in [Conn -> Modes] /\ mode'[c] = "loop"
        BY <1>1, <1>2, <2>1 DEF ChatTypeOK
    <2>3. AtPrompt(c)' = <<>>
        BY <2>2 DEF AtPrompt
    <2>4. \A e \in Conn \ {c} : Sound(e)'
        BY <1>6, <2>1
    <2> HIDE DEF p
    <2> QED  BY <1>5, <1>10, <2>1, <2>2, <2>3, <2>4
<1> QED  BY <1>7, <1>8, <1>9, <1>10 DEF Reads

(* A client that is told the server is gone, or that has done with a file.   *)
LEMMA RunsKeeps ==
    ASSUME ChatInv, NEW c \in Conn, Runs(c)
    PROVE  ChatInv'
<1>1. CASE ServerLost(c)
    BY <1>1, ExitsAlone DEF ServerLost, Running
<1>2. CASE TransferEnds(c)
    <2>1. mode[c] \in {"sending", "receiving"} /\ requests' = requests /\ Running(c)
        BY <1>2 DEF TransferEnds, Running
    <2>2. CASE Exits(c)
        BY <2>1, <2>2, ExitsAlone
    <2>3. CASE /\ mode' = [mode EXCEPT ![c] = "loop"]
               /\ UNCHANGED <<regvars, typed, due, client, asker, peer, blocked, inbox, serving, down>>
        <3>1. TypeOK /\ ChatTypeOK /\ Sound(c) /\ Present(c)
            BY DEF ChatInv, IInv, Sound
        <3>2. "loop" \in Modes
            BY DEF Modes
        <3>3. /\ mode' \in [Conn -> Modes] /\ mode'[c] = "loop"
              /\ \A e \in Conn \ {c} : mode'[e] = mode[e]
            BY <2>3, <3>1, <3>2 DEF ChatTypeOK
        <3>4. ChatTypeOK'
            BY <2>1, <2>3, <3>1, <3>3 DEF ChatTypeOK
        <3>5. users' = users /\ user' = user /\ aka' = aka /\ offers' = offers
            BY <2>3 DEF regvars, tables
        <3>6. c \in users /\ KnowsName(c) /\ Accounted(c) /\ OwnNicknames(c) /\ blocked[c] = <<>>
            BY <2>1, <3>1 DEF Sound, Present
        <3>7. /\ Returning(c)' = Returning(c) /\ Owed(c)' = Owed(c) /\ Held(c)' = Held(c)
              /\ AtPrompt(c) = <<>> /\ AtPrompt(c)' = <<>>
              /\ Unread(c)' = Unread(c) /\ News(c)' = News(c)
            BY <2>1, <2>3, <3>3, <3>5 DEF Returning, Owed, Held, AtPrompt, Unread, News
        <3>8. KnowsName(c)' /\ Accounted(c)' /\ OwnNicknames(c)'
            BY <2>1, <2>3, <3>5, <3>6, <3>7 DEF KnowsName, Accounted, OwnNicknames
        <3>9. Sound(c)'
            BY <2>1, <2>3, <3>1, <3>3, <3>4, <3>6, <3>8, StillSound
        <3>10. \A e \in Conn \ {c} : Sound(e)'
            BY <2>1, <2>3, <3>3, SameSound DEF ChatInv, Same
        <3> QED  BY <2>1, <2>3, <3>4, <3>9, <3>10, ClientKeeps
    <2> QED  BY <1>2, <2>2, <2>3 DEF TransferEnds
<1> QED  BY <1>1, <1>2, ReadsKeeps, UnblocksKeeps DEF Runs

-----------------------------------------------------------------------------
(* Steps of the server: what they do to the sequences of nicknames.          *)

(* The front of a sequence that grows at its end, or loses its head.         *)
LEMMA FrontGrows ==
    ASSUME NEW S, NEW r \in Seq(S), NEW o \in Seq(S), NEW a \in Seq(S), Front(r, o)
    PROVE  Front(r, o \o a)
<1> DEFINE b == o \o a
<1>1. /\ Len(b) = Len(o) + Len(a)
      /\ \A i \in 1..Len(o) + Len(a) : b[i] = IF i <= Len(o) THEN o[i] ELSE a[i - Len(o)]
    BY ConcatProperties
<1> HIDE DEF b
<1>2. Len(r) \in Nat /\ Len(o) \in Nat /\ Len(a) \in Nat
    BY LenProperties
<1>3. Front(r, b)
    BY <1>1, <1>2 DEF Front
<1> QED  BY <1>3 DEF b

(* The first of a sequence is the first of its front, and the rest goes with *)
(* the rest.                                                                 *)
LEMMA FrontTail ==
    ASSUME NEW S, NEW r \in Seq(S), NEW o \in Seq(S), NEW x \in S, Front(<<x>> \o r, o)
    PROVE  o # <<>> /\ Head(o) = x /\ Front(r, Tail(o))
<1> DEFINE y == <<x>>
           b == y \o r
<1>1. y \in Seq(S) /\ Len(y) = 1 /\ y[1] = x
    OBVIOUS
<1> HIDE DEF y
<1>2. /\ Len(b) = 1 + Len(r)
      /\ \A i \in 1..1 + Len(r) : b[i] = IF i <= 1 THEN y[i] ELSE r[i - 1]
    <2>1. /\ Len(b) = Len(y) + Len(r)
          /\ \A i \in 1..Len(y) + Len(r) : b[i] = IF i <= Len(y) THEN y[i] ELSE r[i - Len(y)]
        BY <1>1, ConcatProperties
    <2> QED  BY <1>1, <2>1
<1>3. Front(b, o)
    BY DEF y
<1> HIDE DEF b
<1>4. Len(r) \in Nat /\ Len(o) \in Nat /\ 1 + Len(r) <= Len(o)
    BY <1>2, <1>3, LenProperties DEF Front
<1>5. /\ o # <<>> /\ Head(o) = o[1] /\ Len(Tail(o)) = Len(o) - 1
      /\ \A i \in 1..Len(o) - 1 : Tail(o)[i] = o[i + 1]
    BY <1>4, HeadTailProperties
<1>6. o[1] = x
    <2>1. 1 \in 1..1 + Len(r) /\ 1 \in 1..Len(b) /\ 1 <= 1
        BY <1>2, <1>4
    <2> QED  BY <1>1, <1>2, <1>3, <2>1 DEF Front
<1>7. ASSUME NEW k \in 1..Len(r) PROVE Tail(o)[k] = r[k]
    <2>1. k + 1 \in 1..1 + Len(r) /\ k + 1 \in 1..Len(b) /\ ~ (k + 1 <= 1) /\ k + 1 - 1 = k
          /\ k \in 1..Len(o) - 1
        BY <1>2, <1>4
    <2>2. o[k + 1] = b[k + 1] /\ b[k + 1] = r[k]
        BY <1>2, <1>3, <2>1 DEF Front
    <2> QED  BY <1>5, <2>1, <2>2
<1>8. Len(r) <= Len(Tail(o))
    BY <1>4, <1>5
<1> QED  BY <1>5, <1>6, <1>7, <1>8 DEF Front

(* The last of a sequence that ends with x is x.                             *)
LEMMA LastOfLast ==
    ASSUME NEW S, NEW s \in Seq(S), NEW x \in S, NEW y
    PROVE  LastOf(s \o <<x>>, y) = x
<1> DEFINE a == <<x>>
           b == s \o a
<1>1. a \in Seq(S) /\ Len(a) = 1 /\ a[1] = x
    OBVIOUS
<1> HIDE DEF a
<1>2. /\ Len(b) = Len(s) + 1 /\ b \in Seq(S)
      /\ \A i \in 1..Len(s) + 1 : b[i] = IF i <= Len(s) THEN s[i] ELSE a[i - Len(s)]
    <2>1. /\ Len(b) = Len(s) + Len(a) /\ b \in Seq(S)
          /\ \A i \in 1..Len(s) + Len(a) : b[i] = IF i <= Len(s) THEN s[i] ELSE a[i - Len(s)]
        BY <1>1, ConcatProperties
    <2> QED  BY <1>1, <2>1
<1> HIDE DEF b
<1>3. Len(s) \in Nat /\ b # <<>>
    BY <1>2, LenProperties, EmptySeq
<1>4. Len(s) + 1 \in 1..Len(s) + 1 /\ ~ (Len(s) + 1 <= Len(s)) /\ Len(s) + 1 - Len(s) = 1
    BY <1>3
<1> QED  BY <1>1, <1>2, <1>3, <1>4 DEF LastOf, a, b

(* The nicknames of the open requests, as one is added or answered.          *)
NamesOf(s) == [k \in DOMAIN s |-> s[k].name]

(* The names of open requests, as a sequence.                                *)
LEMMA NamesOfType ==
    ASSUME NEW s \in Seq(Offers)
    PROVE  NamesOf(s) \in Seq(Names) /\ Len(NamesOf(s)) = Len(s)
           /\ \A k \in 1..Len(s) : NamesOf(s)[k] = s[k].name
<1>1. \A o \in Offers : o.name \in Names
    BY DEF Offers, Names
<1>2. Len(s) \in Nat /\ DOMAIN s = 1..Len(s) /\ \A k \in 1..Len(s) : s[k].name \in Names
    BY <1>1
<1> QED  BY <1>2 DEF NamesOf

(* One more open request comes last.                                         *)
LEMMA NamesOfAppend ==
    ASSUME NEW s \in Seq(Offers), NEW o \in Offers
    PROVE  NamesOf(Append(s, o)) = NamesOf(s) \o <<o.name>>
<1> DEFINE t == Append(s, o)
           n == NamesOf(s)
           a == Append(n, o.name)
           b == NamesOf(t)
<1>1. /\ t \in Seq(Offers) /\ Len(t) = Len(s) + 1 /\ t[Len(s) + 1] = o
      /\ \A k \in 1..Len(s) : t[k] = s[k]
    BY AppendProperties
<1>2. n \in Seq(Names) /\ Len(n) = Len(s) /\ \A k \in 1..Len(s) : n[k] = s[k].name
    BY NamesOfType
<1>3. o.name \in Names
    BY DEF Offers, Names
<1> HIDE DEF t, n
<1>4. b \in Seq(Names) /\ Len(b) = Len(t) /\ \A k \in 1..Len(t) : b[k] = t[k].name
    BY <1>1, NamesOfType
<1>5. /\ a \in Seq(Names) /\ Len(a) = Len(n) + 1 /\ a[Len(n) + 1] = o.name
      /\ \A k \in 1..Len(n) : a[k] = n[k]
    BY <1>2, <1>3, AppendProperties
<1> HIDE DEF a, b
<1>6. Len(s) \in Nat
    BY LenProperties
<1>7. ASSUME NEW k \in 1..Len(a) PROVE a[k] = b[k]
    <2>1. k \in 1..Len(s) \/ k = Len(s) + 1
        BY <1>2, <1>5, <1>6
    <2>2. CASE k \in 1..Len(s)
        BY <1>1, <1>2, <1>4, <1>5, <1>6, <2>2
    <2>3. CASE k = Len(s) + 1
        BY <1>1, <1>2, <1>4, <1>5, <1>6, <2>3
    <2> QED  BY <2>1, <2>2, <2>3
<1>8. a = b
    <2>1. Len(a) = Len(b)
        BY <1>1, <1>2, <1>4, <1>5
    <2> QED  BY <1>4, <1>5, <1>7, <2>1, SeqEqual
<1>9. a = n \o <<o.name>>
    BY <1>2, <1>3, AppendIsConcat DEF a
<1> QED  BY <1>8, <1>9 DEF a, b, t, n

(* The first open request is answered.                                       *)
LEMMA NamesOfTail ==
    ASSUME NEW s \in Seq(Offers), s # <<>>
    PROVE  NamesOf(Tail(s)) = Tail(NamesOf(s)) /\ Head(NamesOf(s)) = Head(s).name
<1> DEFINE t == Tail(s)
           n == NamesOf(s)
           a == Tail(n)
           b == NamesOf(t)
<1>1. /\ t \in Seq(Offers) /\ Len(t) = Len(s) - 1 /\ Head(s) = s[1]
      /\ \A k \in 1..Len(s) - 1 : t[k] = s[k + 1]
    BY HeadTailProperties
<1>2. n \in Seq(Names) /\ Len(n) = Len(s) /\ \A k \in 1..Len(s) : n[k] = s[k].name
    BY NamesOfType
<1>3. Len(s) \in Nat /\ Len(s) >= 1
    BY LenProperties, EmptySeq
<1> HIDE DEF t, n
<1>4. b \in Seq(Names) /\ Len(b) = Len(t) /\ \A k \in 1..Len(t) : b[k] = t[k].name
    BY <1>1, NamesOfType
<1>5. n # <<>>
    BY <1>2, <1>3, EmptySeq
<1>6. /\ a \in Seq(Names) /\ Len(a) = Len(n) - 1 /\ Head(n) = n[1]
      /\ \A k \in 1..Len(n) - 1 : a[k] = n[k + 1]
    BY <1>2, <1>5, HeadTailProperties
<1> HIDE DEF a, b
<1>7. ASSUME NEW k \in 1..Len(a) PROVE a[k] = b[k]
    <2>1. k \in 1..Len(s) - 1 /\ k + 1 \in 1..Len(s) /\ k \in 1..Len(t)
        BY <1>1, <1>2, <1>3, <1>6
    <2> QED  BY <1>1, <1>2, <1>4, <1>6, <2>1
<1>8. a = b
    <2>1. Len(a) = Len(b)
        BY <1>1, <1>2, <1>4, <1>6
    <2> QED  BY <1>4, <1>6, <1>7, <2>1, SeqEqual
<1>9. Head(n) = s[1].name
    BY <1>2, <1>3, <1>6
<1> QED  BY <1>1, <1>8, <1>9 DEF a, b, t, n

(* What each client is sent comes after what it has still to read.           *)
Unheard(s) ==
    /\ Picked(s, {"FILE_REQUEST"}) = <<>>
    /\ Picked(s, {"NICKNAME_NEW"}) = <<>>
    /\ \A k \in DOMAIN s : s[k].type # "NICKNAME_NEW"

Plain(s) ==
    \A k \in DOMAIN s : s[k].type \notin {"NICKNAME_NEW", "FILE_REQUEST", "FILE_ACCEPT"}

(* Packets that are not of those types are mail a client need not keep       *)
(* account of.                                                               *)
LEMMA PlainMail ==
    ASSUME NEW s \in Seq(Packets), Plain(s)
    PROVE  s \in Seq(Mail) /\ Unheard(s)
<1>1. Len(s) \in Nat /\ DOMAIN s = 1..Len(s) /\ \A k \in 1..Len(s) : s[k] \in Packets
    OBVIOUS
<1>2. \A k \in 1..Len(s) : s[k] \in Mail
    BY <1>1 DEF Plain, Mail
<1>3. s \in Seq(Mail)
    BY <1>1, <1>2
<1>4. /\ \A k \in DOMAIN s : s[k].type \notin {"FILE_REQUEST"}
      /\ \A k \in DOMAIN s : s[k].type \notin {"NICKNAME_NEW"}
    BY DEF Plain
<1>5. Picked(s, {"FILE_REQUEST"}) = <<>> /\ Picked(s, {"NICKNAME_NEW"}) = <<>>
    BY <1>3, <1>4, PickedNone
<1> QED  BY <1>3, <1>4, <1>5 DEF Unheard

(* An element of two sequences in a row is one of either.                    *)
LEMMA ConcatElements ==
    ASSUME NEW S, NEW s \in Seq(S), NEW t \in Seq(S), NEW k \in DOMAIN (s \o t)
    PROVE  \/ \E j \in DOMAIN s : (s \o t)[k] = s[j]
           \/ \E j \in DOMAIN t : (s \o t)[k] = t[j]
<1> DEFINE b == s \o t
<1>1. /\ b \in Seq(S) /\ Len(b) = Len(s) + Len(t)
      /\ \A i \in 1..Len(s) + Len(t) : b[i] = IF i <= Len(s) THEN s[i] ELSE t[i - Len(s)]
    BY ConcatProperties
<1>2. k \in DOMAIN b
    OBVIOUS
<1> HIDE DEF b
<1>3. /\ Len(s) \in Nat /\ Len(t) \in Nat /\ DOMAIN s = 1..Len(s) /\ DOMAIN t = 1..Len(t)
      /\ DOMAIN b = 1..Len(b)
    BY <1>1, LenProperties
<1>4. k \in 1..Len(s) + Len(t)
    BY <1>1, <1>2, <1>3
<1>5. CASE k <= Len(s)
    <2>1. k \in DOMAIN s /\ b[k] = s[k]
        BY <1>1, <1>3, <1>4, <1>5
    <2> QED  BY <2>1 DEF b
<1>6. CASE ~ (k <= Len(s))
    <2>1. k - Len(s) \in DOMAIN t /\ b[k] = t[k - Len(s)]
        BY <1>1, <1>3, <1>4, <1>6
    <2> QED  BY <2>1 DEF b
<1> QED  BY <1>5, <1>6

Delivered == inbox' = [d \in Conn |-> IF Running(d) THEN inbox[d] \o sent'[d] ELSE inbox[d]]

(* A delivery adds to what is unread and to the news, and to nothing else.   *)
LEMMA HeardSays ==
    ASSUME ChatTypeOK, sent' \in [Conn -> Seq(Mail)], Delivered, NEW e \in Conn
    PROVE  /\ inbox'[e] \in Seq(Mail)
           /\ Running(e) => /\ Unread(e)' = Unread(e) \o Picked(sent'[e], {"FILE_REQUEST"})
                            /\ News(e)' = News(e) \o Picked(sent'[e], {"NICKNAME_NEW"})
           /\ \A k \in DOMAIN inbox'[e] :
                 \/ \E j \in DOMAIN inbox[e] : inbox'[e][k] = inbox[e][j]
                 \/ \E j \in DOMAIN sent'[e] : inbox'[e][k] = sent'[e][j]
<1> DEFINE s == inbox[e]
<1>1. PICK t : t = sent'[e]
    OBVIOUS
<1>2. s \in Seq(Mail) /\ t \in Seq(Mail)
    BY <1>1 DEF ChatTypeOK
<1>3. inbox'[e] = IF Running(e) THEN s \o t ELSE s
    BY <1>1 DEF Delivered
<1> HIDE DEF s
<1>4. s \o t \in Seq(Mail)
    BY <1>2, ConcatProperties
<1>5. CASE Running(e)
    <2>1. inbox'[e] = s \o t
        BY <1>3, <1>5
    <2>a. ASSUME NEW types PROVE Picked(s \o t, types) = Picked(s, types) \o Picked(t, types)
        <3>1. (\A m \in Mail : m.infos \in Names) /\ s \in Seq(Mail) /\ t \in Seq(Mail)
            BY <1>2, InfosOfQueues
        <3> QED  BY ONLY <3>1, PickedConcat
    <2>2. Picked(s \o t, {"FILE_REQUEST"}) = Picked(s, {"FILE_REQUEST"}) \o Picked(t, {"FILE_REQUEST"})
        BY <2>a
    <2>3. Picked(s \o t, {"NICKNAME_NEW"}) = Picked(s, {"NICKNAME_NEW"}) \o Picked(t, {"NICKNAME_NEW"})
        BY <2>a
    <2>4. \A k \in DOMAIN (s \o t) : \/ \E j \in DOMAIN s : (s \o t)[k] = s[j]
                                     \/ \E j \in DOMAIN t : (s \o t)[k] = t[j]
        BY <1>2, ConcatElements
    <2>5. Unread(e)' = Picked(inbox'[e], {"FILE_REQUEST"}) /\ News(e)' = Picked(inbox'[e], {"NICKNAME_NEW"})
        BY DEF Unread, News
    <2>6. Unread(e) = Picked(s, {"FILE_REQUEST"}) /\ News(e) = Picked(s, {"NICKNAME_NEW"})
        BY DEF Unread, News, s
    <2>7. /\ Unread(e)' = Unread(e) \o Picked(t, {"FILE_REQUEST"})
          /\ News(e)' = News(e) \o Picked(t, {"NICKNAME_NEW"})
        BY <2>1, <2>2, <2>3, <2>5, <2>6
    <2>8. inbox'[e] \in Seq(Mail) /\ s = inbox[e]
        BY <1>4, <2>1 DEF s
    <2>9. /\ Unread(e)' = Unread(e) \o Picked(sent'[e], {"FILE_REQUEST"})
          /\ News(e)' = News(e) \o Picked(sent'[e], {"NICKNAME_NEW"})
        BY <1>1, <2>7
    <2> DEFINE w == s \o t
    <2>10. inbox'[e] = w /\ \A k \in DOMAIN w : \/ \E j \in DOMAIN s : w[k] = s[j]
                                              \/ \E j \in DOMAIN t : w[k] = t[j]
        BY <2>1, <2>4
    <2> HIDE DEF w
    <2>11. \A k \in DOMAIN inbox'[e] : \/ \E j \in DOMAIN inbox[e] : inbox'[e][k] = inbox[e][j]
                                      \/ \E j \in DOMAIN sent'[e] : inbox'[e][k] = sent'[e][j]
        BY <1>1, <2>8, <2>10
    <2> QED  BY <2>8, <2>9, <2>11
<1>6. CASE ~ Running(e)
    BY <1>2, <1>3, <1>6 DEF s
<1> QED  BY <1>5, <1>6

(* What a step of the server has to show of each connection.                 *)
LEMMA ServedSound ==
    ASSUME ChatTypeOK, sent' \in [Conn -> Seq(Mail)], Delivered, UNCHANGED clientvars,
           NEW e \in Conn, Sound(e),
           e \in users' <=> e \in users,
           aka[e] \subseteq aka'[e],
           e \notin users => requests'[e] = requests[e] /\ offers'[e] = offers[e],
           \A k \in DOMAIN requests'[e] : \E j \in DOMAIN requests[e] : requests'[e][k] = requests[e][j],
           \A k \in DOMAIN sent'[e] : sent'[e][k].type = "NICKNAME_NEW" => sent'[e][k].infos \in aka'[e],
           e \in users => /\ offers'[e] # <<>> => user'[e].is_logged_in
                          /\ Front(Returning(e)', Owed(e)')
                          /\ Running(e) => KnowsName(e)' /\ Accounted(e)'
    PROVE  Sound(e)'
<1>1. mode' = mode /\ blocked' = blocked /\ client' = client
    BY DEF clientvars
<1>2. Present(e)'
    <2>1. Present(e)
        BY DEF Sound
    <2> QED  BY <1>1, <2>1 DEF Present, Running
<1>3. OwnNicknames(e)' \/ e \notin users
    <2>1. CASE e \in users
        <3>1. OwnNicknames(e)
            BY <2>1 DEF Sound
        <3>2. \A k \in DOMAIN inbox'[e] :
                 \/ \E j \in DOMAIN inbox[e] : inbox'[e][k] = inbox[e][j]
                 \/ \E j \in DOMAIN sent'[e] : inbox'[e][k] = sent'[e][j]
            BY HeardSays
        <3>3. \A k \in DOMAIN inbox'[e] :
                 inbox'[e][k].type = "NICKNAME_NEW" => inbox'[e][k].infos \in aka'[e]
            BY <3>1, <3>2 DEF OwnNicknames
        <3>4. \A k \in DOMAIN requests'[e] : requests'[e][k].from \in aka'[e]
            BY <3>1 DEF OwnNicknames
        <3> QED  BY <1>1, <3>1, <3>3, <3>4 DEF OwnNicknames
    <2> QED  BY <2>1
<1>4. Running(e)' <=> Running(e)
    BY <1>1 DEF Running
<1> QED  BY <1>2, <1>3, <1>4 DEF Sound

(* A connection the step is not about.                                       *)
LEMMA RestSound ==
    ASSUME TypeOK, ChatTypeOK, sent' \in [Conn -> Seq(Mail)], Delivered, UNCHANGED clientvars,
           NEW e \in Conn, Sound(e),
           e \in users' <=> e \in users,
           user'[e] = user[e], aka'[e] = aka[e],
           Owed(e)' = Owed(e), offers[e] = <<>> => offers'[e] = <<>>,
           Returning(e)' = Returning(e),
           e \notin users => requests'[e] = requests[e],
           \A k \in DOMAIN requests'[e] : \E j \in DOMAIN requests[e] : requests'[e][k] = requests[e][j],
           Unheard(sent'[e])
    PROVE  Sound(e)'
<1>1. mode' = mode /\ blocked' = blocked /\ client' = client /\ asker' = asker
    BY DEF clientvars
<1>2. e \notin users => offers[e] = <<>> /\ offers'[e] = <<>>
    BY DEF Sound, Present
<1>3. \A k \in DOMAIN sent'[e] : sent'[e][k].type = "NICKNAME_NEW" => sent'[e][k].infos \in aka'[e]
    BY DEF Unheard
<1>4. ASSUME e \in users PROVE Front(Returning(e)', Owed(e)')
    BY <1>4 DEF Sound
<1>5. ASSUME e \in users, Running(e) PROVE KnowsName(e)' /\ Accounted(e)'
    <2>1. KnowsName(e) /\ Accounted(e)
        BY <1>5 DEF Sound
    <2>2. Unread(e)' = Unread(e) \o Picked(sent'[e], {"FILE_REQUEST"})
          /\ News(e)' = News(e) \o Picked(sent'[e], {"NICKNAME_NEW"})
        BY <1>5, HeardSays
    <2>3. Unread(e)' = Unread(e) \o <<>> /\ News(e)' = News(e) \o <<>>
        BY <2>2 DEF Unheard
    <2>4. Unread(e)' = Unread(e) /\ News(e)' = News(e)
        BY <2>3, PlacesType, ConcatEmptySeq
    <2>5. Held(e)' = Held(e) /\ AtPrompt(e)' = AtPrompt(e)
        BY <1>1 DEF Held, AtPrompt
    <2> QED  BY <1>1, <2>1, <2>4, <2>5 DEF KnowsName, Accounted
<1>6. e \in users /\ offers'[e] # <<>> => user'[e].is_logged_in
    BY DEF Sound
<1>7. aka[e] \subseteq aka'[e]
    OBVIOUS
<1> QED  BY <1>2, <1>3, <1>4, <1>5, <1>6, <1>7, ServedSound

(* The request the server is busy with: it comes under a nickname its client *)
(* has had, and an answer is to the oldest request its client has to answer. *)
LEMMA RequestSays ==
    ASSUME ChatInv, NEW u \in Conn, serving = u, NEW q, q = Head(requests[u])
    PROVE  /\ requests[u] # <<>> /\ q \in Reqs /\ u \in users /\ q.from \in aka[u]
           /\ Returning(u) = (IF q.type \in AnswerTypes THEN <<q.infos>> ELSE <<>>)
                                \o Picked(Tail(requests[u]), AnswerTypes)
           /\ Tail(requests[u]) \in Seq(Reqs)
           /\ \A k \in DOMAIN Tail(requests[u]) :
                 \E j \in DOMAIN requests[u] : Tail(requests[u])[k] = requests[u][j]
           /\ q.type \in AnswerTypes =>
                 /\ user[u].is_logged_in
                 /\ offers[u] # <<>> /\ Head(offers[u]).name = q.infos
                 /\ Front(Picked(Tail(requests[u]), AnswerTypes), Tail(Owed(u)))
<1> DEFINE s == requests[u]
<1>1. TypeOK /\ ChatTypeOK /\ Sound(u)
    BY DEF ChatInv, IInv
<1>2. s # <<>> /\ s \in Seq(Reqs)
    BY <1>1, RegistryAssumption DEF ChatInv, ChatTypeOK
<1>3. u \in users /\ OwnNicknames(u) /\ Front(Returning(u), Owed(u))
      /\ (offers[u] # <<>> => user[u].is_logged_in)
    BY <1>1, <1>2 DEF Sound, Present
<1> HIDE DEF s
<1>4. /\ Len(s) \in Nat /\ DOMAIN s = 1..Len(s) /\ 1 \in DOMAIN s /\ Head(s) = s[1]
      /\ Head(s) \in Reqs /\ Tail(s) \in Seq(Reqs)
      /\ DOMAIN Tail(s) = 1..Len(s) - 1
      /\ \A i \in 1..Len(s) - 1 : Tail(s)[i] = s[i + 1]
    BY <1>2, LenProperties, HeadTailProperties
<1>5. \A k \in DOMAIN Tail(s) : \E j \in DOMAIN s : Tail(s)[k] = s[j]
    <2>1. \A k \in DOMAIN Tail(s) : k + 1 \in DOMAIN s /\ Tail(s)[k] = s[k + 1]
        BY <1>4
    <2> QED  BY <2>1
<1>6. q.from \in aka[u]
    BY <1>3, <1>4 DEF OwnNicknames, s
<1>7. Picked(s, AnswerTypes) = (IF Head(s).type \in AnswerTypes THEN <<Head(s).infos>> ELSE <<>>)
                                  \o Picked(Tail(s), AnswerTypes)
    BY <1>2, InfosOfQueues, PickedTail
<1>8. Returning(u) = (IF q.type \in AnswerTypes THEN <<q.infos>> ELSE <<>>)
                        \o Picked(Tail(s), AnswerTypes)
    BY <1>7 DEF Returning, s
<1>9. ASSUME q.type \in AnswerTypes
      PROVE  /\ offers[u] # <<>> /\ Head(offers[u]).name = q.infos
             /\ Front(Picked(Tail(s), AnswerTypes), Tail(Owed(u)))
    <2> DEFINE r == Picked(Tail(s), AnswerTypes)
    <2>1. r \in Seq(Names) /\ Owed(u) \in Seq(Names) /\ q.infos \in Names
        <3>1. r \in Seq(Names)
            BY <1>4, InfosOfQueues, PickedType
        <3>2. q.infos \in Names
            BY <1>4, InfosOfQueues DEF s
        <3> QED  BY <1>1, <3>1, <3>2, PlacesType
    <2>2. Front(<<q.infos>> \o r, Owed(u))
        BY <1>3, <1>8, <1>9
    <2> HIDE DEF r
    <2>3. Owed(u) # <<>> /\ Head(Owed(u)) = q.infos /\ Front(r, Tail(Owed(u)))
        BY <2>1, <2>2, FrontTail
    <2>4. Owed(u) = NamesOf(offers[u]) /\ offers[u] \in Seq(Offers)
        BY <1>1 DEF Owed, NamesOf, TypeOK
    <2>5. offers[u] # <<>>
        <3>1. Len(Owed(u)) = Len(offers[u])
            BY <2>4, NamesOfType
        <3> QED  BY <2>1, <2>3, <2>4, <3>1, EmptySeq
    <2>6. Head(Owed(u)) = Head(offers[u]).name
        BY <2>4, <2>5, NamesOfTail
    <2> QED  BY <2>3, <2>5, <2>6 DEF r
<1> QED  BY <1>2, <1>3, <1>4, <1>5, <1>6, <1>8, <1>9 DEF s

(* What the handler of a request does to the connections.                    *)
HandledPlainly == UNCHANGED <<users, user, aka, offers>> /\ \A e \in Conn : Plain(sent'[e])

HandledName(u, n) ==
    /\ UNCHANGED <<users, offers>>
    /\ user' = [user EXCEPT ![u].nickname = n, ![u].is_logged_in = TRUE]
    /\ aka' = [aka EXCEPT ![u] = @ \cup {n}]
    /\ \E p \in Packets : /\ p.type = "NICKNAME_NEW" /\ p.infos = n
                          /\ \A e \in Conn : sent'[e] = IF e = u THEN <<p>> ELSE <<>>

HandledAsk(u, from, d, m) ==
    /\ UNCHANGED <<users, user, aka>>
    /\ offers' = Prompted(d, from, u)
    /\ d \in users /\ user[d].is_logged_in
    /\ \E p \in Packets : /\ p.type = "FILE_REQUEST" /\ p.infos = from /\ p.payload.about = {m}
                          /\ \A e \in Conn : sent'[e] = IF e = d THEN <<p>> ELSE <<>>

HandledAnswer(u) ==
    /\ UNCHANGED <<users, user, aka>>
    /\ offers' = [offers EXCEPT ![u] = Tail(@)]
    /\ \A e \in Conn : sent'[e] \in Seq(Mail) /\ Unheard(sent'[e])

(* A reply is sent to the one that asked.                                    *)
LEMMA AloneSent ==
    ASSUME NEW u, NEW mine, NEW e \in Conn
    PROVE  Sent(u, mine, Nobody)[e] = IF e = u THEN mine ELSE <<>>
BY DEF Sent, SentTo, Nobody

(* One packet of another type, or none.                                      *)
LEMMA PlainOne ==
    ASSUME NEW p, p.type \notin {"NICKNAME_NEW", "FILE_REQUEST", "FILE_ACCEPT"}
    PROVE  Plain(<<p>>) /\ Plain(<<>>)
BY DEF Plain

(* A reply of type DEFAULT gives nobody a nickname or a file to think of.    *)
LEMMA PlainReply ==
    ASSUME NEW u, NEW infos, NEW what, NEW about, Reply(u, "DEFAULT", infos, what, about)
    PROVE  \A e \in Conn : Plain(sent'[e])
<1> DEFINE p == FromServer("DEFAULT", infos, what, about)
<1>1. p.type = "DEFAULT"
    BY DEF FromServer, packet_init
<1>2. sent' = Sent(u, <<p>>, Nobody)
    BY DEF Reply
<1> HIDE DEF p
<1>3. Plain(<<p>>) /\ Plain(<<>>)
    BY <1>1, PlainOne
<1>4. \A e \in Conn : sent'[e] = IF e = u THEN <<p>> ELSE <<>>
    BY <1>2, AloneSent
<1> QED  BY <1>3, <1>4

(* A nickname is given to its user, or refused in a reply.                   *)
LEMMA NicknameHandled ==
    ASSUME TypeOK, NEW u \in Conn, NEW n \in Nick, server_handle_nickname_new_req(u, n)
    PROVE  HandledPlainly \/ HandledName(u, n)
<1>1. CASE Reply(u, "DEFAULT", n, "nick_used", {}) /\ UNCHANGED <<user, aka>>
    BY <1>1, PlainReply DEF server_handle_nickname_new_req, HandledPlainly
<1>2. CASE /\ user' = [user EXCEPT ![u].nickname = n, ![u].is_logged_in = TRUE]
           /\ aka' = [aka EXCEPT ![u] = @ \cup {n}]
           /\ Reply(u, "NICKNAME_NEW", n,
                    IF user[u].is_logged_in THEN "renamed" ELSE "welcome", {n})
    <2> DEFINE w == IF user[u].is_logged_in THEN "renamed" ELSE "welcome"
    <2>1. PICK p : p = FromServer("NICKNAME_NEW", n, w, {n})
        OBVIOUS
    <2>2. p \in Packets
        <3>1. w \in Says /\ {n} \in SUBSET (Names \cup Body) /\ n \in Names
              /\ "NICKNAME_NEW" \in MessageTypes
            BY DEF Says, Names, MessageTypes, RequestTypes
        <3> HIDE DEF w
        <3> QED  BY <2>1, <3>1, FromServerType
    <2>3. p.type = "NICKNAME_NEW" /\ p.infos = n
        BY <2>1 DEF FromServer, packet_init
    <2>4. sent' = Sent(u, <<p>>, Nobody)
        BY <1>2, <2>1 DEF Reply
    <2>5. \A e \in Conn : sent'[e] = IF e = u THEN <<p>> ELSE <<>>
        BY <2>4, AloneSent
    <2>6. UNCHANGED <<users, offers>>
        BY DEF server_handle_nickname_new_req
    <2> QED  BY <1>2, <2>2, <2>3, <2>5, <2>6 DEF HandledName
<1> QED  BY <1>1, <1>2 DEF server_handle_nickname_new_req

(* A message changes nothing the clients keep account of.                    *)
LEMMA BroadcastHandled ==
    ASSUME NEW u \in Conn, NEW m, server_handle_broadcast_send_req(u, m)
    PROVE  HandledPlainly
<1> DEFINE same == server_get_user_by_name(user[u].nickname)
           copy(who) == packet_init(<<who, "all">>, "BROADCAST_SEND", Empty, Text(m))
           mine == [k \in 1..Cardinality(same) |-> copy("me")]
           others == [c \in users \ same |-> copy(user[u].nickname)]
<1>1. sent' = Sent(u, mine, others)
    BY DEF server_handle_broadcast_send_req
<1>2. \A who : copy(who).type = "BROADCAST_SEND"
    BY DEF packet_init
<1>3. Plain(mine)
    BY <1>2 DEF Plain
<1>4. \A c \in DOMAIN others : Plain(<<others[c]>>) /\ Plain(<<>>)
    <2> HIDE DEF copy
    <2> QED  BY <1>2, PlainOne
<1>5. Plain(<<>>)
    BY DEF Plain
<1> HIDE DEF mine, others
<1>6. \A e \in Conn : \/ sent'[e] = mine \/ sent'[e] = <<>>
                      \/ \E c \in DOMAIN others : sent'[e] = <<others[c]>>
    BY <1>1 DEF Sent, SentTo
<1>7. \A e \in Conn : Plain(sent'[e])
    BY <1>3, <1>4, <1>5, <1>6
<1> QED  BY <1>7 DEF server_handle_broadcast_send_req, HandledPlainly, tables

(* A request for a file is passed on to a client that is logged in, or       *)
(* refused in a reply.                                                       *)
LEMMA AskHandled ==
    ASSUME IInv, NEW u \in Conn, NEW from \in Nick \cup {Empty}, NEW n \in Nick, NEW m \in Body,
           server_handle_file_req(u, from, n, m)
    PROVE  HandledPlainly \/ \E d \in Conn \ {u} : HandledAsk(u, from, d, m)
<1>0. UNCHANGED <<users, user, aka>>
    BY DEF server_handle_file_req, tables
<1>1. CASE UNCHANGED offers /\ (\/ Reply(u, "DEFAULT", n, "no_user", {n})
                                \/ Reply(u, "DEFAULT", n, "self", {}))
    BY <1>0, <1>1, PlainReply DEF HandledPlainly
<1>2. ASSUME NEW d \in server_get_user_by_name(n) \ {u},
             sent' = Sent(d, <<packet_init(SERVER, "FILE_REQUEST", from, Text(m))>>, Nobody),
             offers' = Prompted(d, from, u)
      PROVE  d \in Conn \ {u} /\ HandledAsk(u, from, d, m)
    <2>1. PICK p : p = packet_init(SERVER, "FILE_REQUEST", from, Text(m))
        OBVIOUS
    <2>2. d \in users /\ user[d].nickname = n /\ d # u /\ d \in Conn
        BY <1>2 DEF server_get_user_by_name, IInv, TypeOK
    <2>3. user[d].is_logged_in
        BY <2>2, RegistryAssumption DEF IInv, NicknamesUnique
    <2>4. p.type = "FILE_REQUEST" /\ p.infos = from /\ p.payload.about = {m}
        BY <2>1 DEF packet_init, Text, Say
    <2>5. p \in Packets
        BY <2>1 DEF packet_init, Packets, Sources, SERVER, MessageTypes, RequestTypes, Names,
            Payloads, Text, Say, Says
    <2>6. sent' = Sent(d, <<p>>, Nobody)
        BY <1>2, <2>1
    <2>7. \A e \in Conn : sent'[e] = IF e = d THEN <<p>> ELSE <<>>
        BY <2>6, AloneSent
    <2> QED  BY <1>0, <1>2, <2>2, <2>3, <2>4, <2>5, <2>7 DEF HandledAsk
<1> QED  BY <1>1, <1>2 DEF server_handle_file_req

(* An answer closes the oldest open request of the client that gave it.      *)
LEMMA AnswerHandled ==
    ASSUME NEW u \in Conn, NEW type, NEW packet \in Mail,
           packet.type \notin {"NICKNAME_NEW", "FILE_REQUEST"}, Answer(u, type, packet)
    PROVE  HandledAnswer(u)
<1>1. /\ UNCHANGED <<users, user, aka>>
      /\ offers' = [offers EXCEPT ![u] = Tail(@)]
      /\ \/ sent' = [c \in Conn |-> <<>>]
         \/ \E d : sent' = Sent(d, <<packet>>, Nobody)
    BY DEF Answer, tables
<1>2. \A e \in Conn : sent'[e] \in {<<>>, <<packet>>}
    BY <1>1, AloneSent
<1>3. <<packet>> \in Seq(Mail) /\ <<>> \in Seq(Mail)
    OBVIOUS
<1>4. Unheard(<<>>)
    BY PickedEmpty DEF Unheard
<1>5. Unheard(<<packet>>)
    <2>1. Picked(<<packet>>, {"FILE_REQUEST"}) = <<>> /\ Picked(<<packet>>, {"NICKNAME_NEW"}) = <<>>
        BY PickedOne
    <2> QED  BY <2>1 DEF Unheard
<1> QED  BY <1>1, <1>2, <1>3, <1>4, <1>5 DEF HandledAnswer

(* Each request is dealt with by a handler of the server, in one of four     *)
(* ways; only an answer takes a request off the list.                        *)
LEMMA HandlesSays ==
    ASSUME IInv, NEW u \in Conn, NEW q \in Reqs, q.from \in aka[u], Handles(u, q),
           q.type \in AnswerTypes => user[u].is_logged_in
    PROVE  /\ Handler(u)
           /\ \/ q.type \notin AnswerTypes /\ HandledPlainly
              \/ q.type \notin AnswerTypes /\ \E n \in Nick : HandledName(u, n)
              \/ q.type \notin AnswerTypes /\ \E d \in Conn \ {u}, m \in Body : HandledAsk(u, q.from, d, m)
              \/ q.type \in AnswerTypes /\ HandledAnswer(u)
<1>1. TypeOK /\ q.from \in Nick \cup {Empty}
    BY DEF IInv, TypeOK
<1>2. CASE ~user[u].is_logged_in /\ login_first(u)
    <2>1. HandledPlainly
        BY <1>2, PlainReply DEF login_first, HandledPlainly, tables
    <2> QED  BY <1>2, <2>1 DEF Handler
<1>3. CASE q.type = "NICKNAME_NEW" /\ server_handle_nickname_new_req(u, q.infos)
    <2>1. q.infos \in Nick /\ q.type \notin AnswerTypes
        BY <1>3 DEF Reqs, AnswerTypes
    <2>2. Handler(u)
        BY <1>3, <2>1 DEF Handler, Nicknames
    <2> QED  BY <1>1, <1>3, <2>1, <2>2, NicknameHandled
<1>4. CASE q.type = "BROADCAST_SEND" /\ server_handle_broadcast_send_req(u, q.payload)
    <2>1. q.payload \in Body /\ q.type \notin AnswerTypes
        BY <1>4 DEF Reqs, AnswerTypes
    <2>2. Handler(u)
        BY <1>4, <2>1 DEF Handler, Messages
    <2> QED  BY <1>4, <2>1, <2>2, BroadcastHandled
<1>5. CASE q.type = "FILE_REQUEST" /\ server_handle_file_req(u, q.from, q.infos, q.payload)
    <2>1. q.infos \in Nick /\ q.payload \in Body /\ q.type \notin AnswerTypes
        BY <1>5 DEF Reqs, AnswerTypes
    <2>2. Handler(u)
        BY <1>5, <2>1 DEF Handler, Files
    <2> QED  BY <1>1, <1>5, <2>1, <2>2, AskHandled
<1>6. CASE q.type = "FILE_ACCEPT" /\ server_handle_file_accept_res(u, q.from, q.payload)
    <2>1. q.payload \in Conn /\ q.payload \in Body /\ q.type \in AnswerTypes
        BY <1>6, ChatAssumption DEF Reqs, AnswerTypes
    <2>2. Handler(u)
        BY <1>6, <2>1 DEF Handler, Files
    <2>3. PICK p : p = packet_init(<<q.from, Empty>>, "FILE_ACCEPT", Head(offers[u]).name, Text(q.payload))
        OBVIOUS
    <2>4. Answer(u, "FILE_ACCEPT", p)
        BY <1>6, <2>3 DEF server_handle_file_accept_res
    <2>5. p \in Packets
        <3>1. Head(offers[u]).name \in Names
            BY <1>1, <2>4, HeadOffer DEF Answer, Offers, Names
        <3>2. <<q.from, Empty>> \in Sources
            BY <1>1 DEF Sources
        <3>3. Text(q.payload) \in Payloads
            BY <2>1 DEF Text, Say, Says, Payloads
        <3> QED  BY <2>3, <3>1, <3>2, <3>3, PacketType DEF MessageTypes, RequestTypes
    <2>6. p.type = "FILE_ACCEPT" /\ p.payload.about = {q.payload}
        BY <2>3 DEF packet_init, Text, Say
    <2>7. p \in Mail
        BY <2>1, <2>5, <2>6 DEF Mail
    <2> QED  BY <2>1, <2>2, <2>4, <2>6, <2>7, AnswerHandled
<1>7. CASE q.type = "FILE_REJECT" /\ server_handle_file_reject_req(u)
    <2>1. q.type \in AnswerTypes /\ Handler(u)
        BY <1>7 DEF AnswerTypes, Handler, Files
    <2>2. PICK p : p = FromServer("FILE_REJECT", Head(offers[u]).name, "cancelled", {user[u].nickname})
        OBVIOUS
    <2>3. Answer(u, "FILE_REJECT", p)
        BY <1>7, <2>2 DEF server_handle_file_reject_req
    <2>4. p \in Packets
        <3>1. Head(offers[u]).name \in Names
            BY <1>1, <2>3, HeadOffer DEF Answer, Offers, Names
        <3>2. {user[u].nickname} \in SUBSET (Names \cup Body)
            BY <1>1, NickType
        <3> QED  BY <2>2, <3>1, <3>2, FromServerType DEF MessageTypes, RequestTypes, Says
    <2>5. p.type = "FILE_REJECT"
        BY <2>2 DEF FromServer, packet_init
    <2>6. p \in Mail
        BY <2>4, <2>5 DEF Mail
    <2> QED  BY <2>1, <2>3, <2>5, <2>6, AnswerHandled
<1> QED  BY <1>2, <1>3, <1>4, <1>5, <1>6, <1>7 DEF Handles

(* What the four ways leave each connection with.                            *)
Served(u, q) ==
    /\ Delivered
    /\ UNCHANGED clientvars
    /\ requests' = [requests EXCEPT ![u] = Tail(@)]

(* The request served is the first of its client's and no other changes.     *)
LEMMA ServedRequests ==
    ASSUME ChatInv, NEW u \in Conn, serving = u, NEW q, q = Head(requests[u]), Served(u, q),
           NEW e \in Conn
    PROVE  /\ e \notin users => requests'[e] = requests[e]
           /\ \A k \in DOMAIN requests'[e] : \E j \in DOMAIN requests[e] : requests'[e][k] = requests[e][j]
           /\ e # u \/ q.type \notin AnswerTypes => Returning(e)' = Returning(e)
           /\ Returning(e)' \in Seq(Names)
<1>1. requests \in [Conn -> Seq(Reqs)] /\ requests' = [requests EXCEPT ![u] = Tail(@)]
    BY DEF ChatInv, ChatTypeOK, Served
<1>2. /\ u \in users
      /\ Returning(u) = (IF q.type \in AnswerTypes THEN <<q.infos>> ELSE <<>>)
                           \o Picked(Tail(requests[u]), AnswerTypes)
      /\ Tail(requests[u]) \in Seq(Reqs)
      /\ \A k \in DOMAIN Tail(requests[u]) :
            \E j \in DOMAIN requests[u] : Tail(requests[u])[k] = requests[u][j]
    BY RequestSays
<1>3. CASE e # u
    <2>1. requests'[e] = requests[e]
        BY <1>1, <1>3
    <2>2. Returning(e)' = Returning(e)
        BY <2>1 DEF Returning
    <2>3. Returning(e) \in Seq(Names)
        BY PlacesType DEF ChatInv, IInv
    <2> QED  BY <2>1, <2>2, <2>3
<1>4. CASE e = u
    <2>a. /\ Returning(e) = (IF q.type \in AnswerTypes THEN <<q.infos>> ELSE <<>>)
                                \o Picked(Tail(requests[e]), AnswerTypes)
          /\ e \in users
        BY <1>2, <1>4
    <2>b. /\ Tail(requests[e]) \in Seq(Reqs)
          /\ \A k \in DOMAIN Tail(requests[e]) :
                \E j \in DOMAIN requests[e] : Tail(requests[e])[k] = requests[e][j]
        BY <1>2, <1>4
    <2>1. requests'[e] = Tail(requests[e])
        BY <1>1, <1>4
    <2>2. Returning(e)' = Picked(Tail(requests[e]), AnswerTypes)
        BY <2>1 DEF Returning
    <2>3. Returning(e)' \in Seq(Names)
        BY <2>b, <2>2, InfosOfQueues, PickedType
    <2>4. q.type \notin AnswerTypes => Returning(e)' = Returning(e)
        BY <2>a, <2>2, <2>3, ConcatEmptySeq
    <2> QED  BY <1>4, <2>a, <2>b, <2>1, <2>3, <2>4
<1> QED  BY <1>3, <1>4

(* Nothing sent is nothing heard.                                            *)
LEMMA UnheardNothing == <<>> \in Seq(Mail) /\ Unheard(<<>>)
BY PickedEmpty DEF Unheard

(* A connection that is not the one served, or that keeps its place in every *)
(* account, stays sound.                                                     *)
LEMMA ServedElse ==
    ASSUME ChatInv, NEW u \in Conn, serving = u, NEW q, q = Head(requests[u]), Served(u, q),
           sent' \in [Conn -> Seq(Mail)], users' = users,
           NEW e \in Conn, e # u \/ q.type \notin AnswerTypes,
           user'[e] = user[e], aka'[e] = aka[e], offers'[e] = offers[e], Unheard(sent'[e])
    PROVE  Sound(e)'
<1>1. TypeOK /\ ChatTypeOK /\ Sound(e) /\ Delivered /\ UNCHANGED clientvars
    BY DEF ChatInv, IInv, Served
<1>2. Owed(e)' = Owed(e)
    BY DEF Owed
<1>3. /\ e \notin users => requests'[e] = requests[e]
      /\ \A k \in DOMAIN requests'[e] : \E j \in DOMAIN requests[e] : requests'[e][k] = requests[e][j]
      /\ Returning(e)' = Returning(e)
    BY ServedRequests
<1> QED  BY <1>1, <1>2, <1>3, RestSound

(* A request that changes no account.                                        *)
LEMMA PlainServed ==
    ASSUME ChatInv, TypeOK', NEW u \in Conn, serving = u, NEW q, q = Head(requests[u]),
           Served(u, q), q.type \notin AnswerTypes, HandledPlainly
    PROVE  sent' \in [Conn -> Seq(Mail)] /\ \A e \in Conn : Sound(e)'
<1>1. sent' \in [Conn -> Seq(Packets)]
    BY DEF TypeOK
<1>2. ASSUME NEW e \in Conn PROVE sent'[e] \in Seq(Mail) /\ Unheard(sent'[e])
    <2>1. PICK s : s = sent'[e]
        OBVIOUS
    <2>2. s \in Seq(Packets) /\ Plain(s)
        BY <1>1, <2>1 DEF HandledPlainly
    <2>3. s \in Seq(Mail) /\ Unheard(s)
        BY <2>2, PlainMail
    <2> QED  BY <2>1, <2>3
<1>3. sent' \in [Conn -> Seq(Mail)]
    BY <1>1, <1>2
<1>4. ASSUME NEW e \in Conn PROVE Sound(e)'
    BY <1>2, <1>3, ServedElse DEF HandledPlainly
<1> QED  BY <1>3, <1>4

(* The nickname changes, and the client will read it last.                   *)
LEMMA NameServed ==
    ASSUME ChatInv, TypeOK', NEW u \in Conn, serving = u, NEW q, q = Head(requests[u]),
           Served(u, q), q.type \notin AnswerTypes, NEW n \in Nick, HandledName(u, n)
    PROVE  sent' \in [Conn -> Seq(Mail)] /\ \A e \in Conn : Sound(e)'
<1>1. PICK p \in Packets : /\ p.type = "NICKNAME_NEW" /\ p.infos = n
                           /\ \A e \in Conn : sent'[e] = IF e = u THEN <<p>> ELSE <<>>
    BY DEF HandledName
<1>2. p \in Mail
    BY <1>1 DEF Mail
<1>3. sent' \in [Conn -> Seq(Mail)]
    <2>1. sent' \in [Conn -> Seq(Packets)]
        BY DEF TypeOK
    <2>2. <<p>> \in Seq(Mail) /\ <<>> \in Seq(Mail)
        BY <1>2
    <2> QED  BY <1>1, <2>1, <2>2
<1>4. TypeOK /\ ChatTypeOK /\ Sound(u) /\ Delivered /\ UNCHANGED clientvars
    BY DEF ChatInv, IInv, Served
<1>5. /\ users' = users /\ offers' = offers
      /\ user' = [user EXCEPT ![u].nickname = n, ![u].is_logged_in = TRUE]
      /\ aka' = [aka EXCEPT ![u] = @ \cup {n}]
    BY DEF HandledName
<1>6. /\ user'[u].nickname = n /\ user'[u].is_logged_in /\ aka'[u] = aka[u] \cup {n}
      /\ \A e \in Conn \ {u} : user'[e] = user[e] /\ aka'[e] = aka[e]
    <2>1. user \in [Conn -> UserNodes] /\ aka \in [Conn -> SUBSET (Nick \cup {Empty})]
        BY <1>4 DEF TypeOK
    <2> QED  BY <1>5, <2>1 DEF UserNodes
<1>7. ASSUME NEW e \in Conn \ {u} PROVE Sound(e)'
    <2>1. sent'[e] = <<>>
        BY <1>1
    <2>2. Unheard(sent'[e])
        BY <2>1, UnheardNothing
    <2> QED  BY <1>3, <1>5, <1>6, <2>2, ServedElse
<1>8. u \in users
    BY RequestSays
<1>9. /\ \A k \in DOMAIN requests'[u] : \E j \in DOMAIN requests[u] : requests'[u][k] = requests[u][j]
      /\ Returning(u)' = Returning(u)
    BY ServedRequests
<1>10. sent'[u] = <<p>>
    BY <1>1
<1>11. Owed(u)' = Owed(u)
    BY <1>5 DEF Owed
<1>12. ASSUME Running(u) PROVE KnowsName(u)' /\ Accounted(u)'
    <2>1. Accounted(u)
        BY <1>4, <1>8, <1>12 DEF Sound
    <2>2. Picked(<<p>>, {"FILE_REQUEST"}) = <<>> /\ Picked(<<p>>, {"NICKNAME_NEW"}) = <<n>>
        BY <1>1, <1>2, PickedOne
    <2>3. /\ Unread(u)' = Unread(u) \o Picked(sent'[u], {"FILE_REQUEST"})
          /\ News(u)' = News(u) \o Picked(sent'[u], {"NICKNAME_NEW"})
        BY <1>3, <1>4, <1>12, HeardSays
    <2>4. Unread(u)' = Unread(u) \o <<>> /\ News(u)' = News(u) \o <<n>>
        BY <1>10, <2>2, <2>3
    <2>5. Unread(u) \in Seq(Names) /\ News(u) \in Seq(Names) /\ n \in Names
        BY <1>4, PlacesType DEF Names
    <2>6. Unread(u)' = Unread(u)
        BY <2>4, <2>5, ConcatEmptySeq
    <2>7. LastOf(News(u)', client'[u].nickname) = n
        <3>1. PICK y : y = client'[u].nickname
            OBVIOUS
        <3>2. LastOf(News(u) \o <<n>>, y) = n
            BY <2>5, LastOfLast
        <3> QED  BY <2>4, <3>1, <3>2
    <2>8. Held(u)' = Held(u) /\ AtPrompt(u)' = AtPrompt(u)
        BY <1>4 DEF clientvars, Held, AtPrompt
    <2> QED  BY <1>6, <1>9, <1>11, <2>1, <2>6, <2>7, <2>8 DEF KnowsName, Accounted
<1>13. Front(Returning(u)', Owed(u)')
    BY <1>4, <1>8, <1>9, <1>11 DEF Sound
<1>14. \A k \in DOMAIN sent'[u] : sent'[u][k].type = "NICKNAME_NEW" => sent'[u][k].infos \in aka'[u]
    BY <1>1, <1>6, <1>10
<1>15. Sound(u)'
    BY <1>3, <1>4, <1>5, <1>6, <1>8, <1>9, <1>12, <1>13, <1>14, ServedSound
<1>16. ASSUME NEW e \in Conn PROVE Sound(e)'
    BY <1>7, <1>15
<1> QED  BY <1>3, <1>16

(* A file request goes to another client, at the end of those it has to      *)
(* answer and of those it has to read.                                       *)
LEMMA AskServed ==
    ASSUME ChatInv, TypeOK', NEW u \in Conn, serving = u, NEW q, q = Head(requests[u]),
           Served(u, q), q.type \notin AnswerTypes,
           NEW d \in Conn \ {u}, NEW m \in Body, HandledAsk(u, q.from, d, m)
    PROVE  sent' \in [Conn -> Seq(Mail)] /\ \A e \in Conn : Sound(e)'
<1>1. PICK from \in Nick \cup {Empty} : q.from = from
    BY RequestSays DEF ChatInv, IInv, TypeOK
<1>2. PICK p \in Packets : /\ p.type = "FILE_REQUEST" /\ p.infos = from /\ p.payload.about = {m}
                           /\ \A e \in Conn : sent'[e] = IF e = d THEN <<p>> ELSE <<>>
    BY <1>1 DEF HandledAsk
<1>3. p \in Mail
    BY <1>1, <1>2 DEF Mail
<1>4. sent' \in [Conn -> Seq(Mail)]
    <2>1. sent' \in [Conn -> Seq(Packets)]
        BY DEF TypeOK
    <2>2. <<p>> \in Seq(Mail) /\ <<>> \in Seq(Mail)
        BY <1>3
    <2> QED  BY <1>2, <2>1, <2>2
<1>5. TypeOK /\ ChatTypeOK /\ Sound(d) /\ Delivered /\ UNCHANGED clientvars
    BY DEF ChatInv, IInv, Served
<1>6. /\ users' = users /\ user' = user /\ aka' = aka /\ d \in users /\ user[d].is_logged_in
      /\ offers' = Prompted(d, from, u)
    BY <1>1 DEF HandledAsk
<1>7. PICK o : o = [name |-> from, by |-> u]
    OBVIOUS
<1>8. o \in Offers /\ o.name = from
    BY <1>7 DEF Offers
<1>9. /\ offers'[d] = Append(offers[d], o) /\ offers[d] \in Seq(Offers)
      /\ \A e \in Conn \ {d} : offers'[e] = offers[e]
    <2>1. offers \in [Conn -> Seq(Offers)] /\ offers' = [offers EXCEPT ![d] = Append(@, o)]
        BY <1>5, <1>6, <1>7 DEF TypeOK, Prompted
    <2> QED  BY <2>1
<1>10. ASSUME NEW e \in Conn \ {d} PROVE Sound(e)'
    <2>1. sent'[e] = <<>>
        BY <1>2
    <2>2. Unheard(sent'[e])
        BY <2>1, UnheardNothing
    <2> QED  BY <1>4, <1>6, <1>9, <2>2, ServedElse
<1>11. /\ \A k \in DOMAIN requests'[d] : \E j \in DOMAIN requests[d] : requests'[d][k] = requests[d][j]
       /\ Returning(d)' = Returning(d)
    BY ServedRequests
<1>12. sent'[d] = <<p>>
    BY <1>2
<1>13. Owed(d)' = Owed(d) \o <<from>> /\ Owed(d) \in Seq(Names) /\ from \in Names
    <2>1. Owed(d)' = NamesOf(offers'[d]) /\ Owed(d) = NamesOf(offers[d])
        BY DEF Owed, NamesOf
    <2>2. NamesOf(Append(offers[d], o)) = NamesOf(offers[d]) \o <<from>>
        BY <1>8, <1>9, NamesOfAppend
    <2> QED  BY <1>5, <1>9, <2>1, <2>2, PlacesType DEF Names
<1>14. Front(Returning(d)', Owed(d)')
    <2>1. Front(Returning(d), Owed(d)) /\ Returning(d) \in Seq(Names)
        BY <1>5, <1>6, PlacesType DEF Sound
    <2>2. PICK a : a = <<from>>
        OBVIOUS
    <2>3. a \in Seq(Names)
        BY <1>13, <2>2
    <2>4. Front(Returning(d), Owed(d) \o a)
        BY <1>13, <2>1, <2>3, FrontGrows
    <2> QED  BY <1>11, <1>13, <2>2, <2>4
<1>15. ASSUME Running(d) PROVE KnowsName(d)' /\ Accounted(d)'
    <2>1. Accounted(d) /\ KnowsName(d)
        BY <1>5, <1>6, <1>15 DEF Sound
    <2>2. Picked(<<p>>, {"FILE_REQUEST"}) = <<from>> /\ Picked(<<p>>, {"NICKNAME_NEW"}) = <<>>
        BY <1>2, <1>3, PickedOne
    <2>3. /\ Unread(d)' = Unread(d) \o Picked(sent'[d], {"FILE_REQUEST"})
          /\ News(d)' = News(d) \o Picked(sent'[d], {"NICKNAME_NEW"})
        BY <1>4, <1>5, <1>15, HeardSays
    <2>4. Unread(d)' = Unread(d) \o <<from>> /\ News(d)' = News(d) \o <<>>
        BY <1>12, <2>2, <2>3
    <2>5. /\ Unread(d) \in Seq(Names) /\ News(d) \in Seq(Names) /\ Returning(d) \in Seq(Names)
          /\ Held(d) \in Seq(Names) /\ AtPrompt(d) \in Seq(Names)
        BY <1>5, PlacesType
    <2>6. News(d)' = News(d)
        BY <2>4, <2>5, ConcatEmptySeq
    <2>7. Held(d)' = Held(d) /\ AtPrompt(d)' = AtPrompt(d) /\ client' = client
        BY <1>5 DEF clientvars, Held, AtPrompt
    <2>f. PICK y : y = <<from>>
        OBVIOUS
    <2>8. Then(Along(Returning(d), Held(d), AtPrompt(d), Unread(d)), y)
             = Along(Returning(d), Held(d), AtPrompt(d), Then(Unread(d), y))
        <3>1. /\ Returning(d) \in Seq(Names) /\ Held(d) \in Seq(Names) /\ AtPrompt(d) \in Seq(Names)
              /\ Unread(d) \in Seq(Names) /\ y \in Seq(Names)
            BY <1>13, <2>5, <2>f
        <3> QED  BY <3>1, LastPlace
    <2>9. Owed(d)' = Returning(d) \o Held(d) \o AtPrompt(d) \o (Unread(d) \o <<from>>)
        BY <1>13, <2>1, <2>8, <2>f DEF Accounted, Along, Then
    <2>10. Accounted(d)'
        BY <1>11, <2>4, <2>7, <2>9 DEF Accounted
    <2> QED  BY <1>6, <2>1, <2>6, <2>7, <2>10 DEF KnowsName
<1>16. \A k \in DOMAIN sent'[d] : sent'[d][k].type = "NICKNAME_NEW" => sent'[d][k].infos \in aka'[d]
    BY <1>2, <1>12
<1>17. Sound(d)'
    BY <1>4, <1>5, <1>6, <1>11, <1>14, <1>15, <1>16, ServedSound
<1>18. ASSUME NEW e \in Conn PROVE Sound(e)'
    BY <1>10, <1>17
<1> QED  BY <1>4, <1>18

(* An answer takes the oldest of the requests its client has to answer.      *)
LEMMA AnswerServed ==
    ASSUME ChatInv, NEW u \in Conn, serving = u, NEW q, q = Head(requests[u]),
           Served(u, q), q.type \in AnswerTypes, HandledAnswer(u), sent' \in [Conn -> Seq(Packets)]
    PROVE  sent' \in [Conn -> Seq(Mail)] /\ \A e \in Conn : Sound(e)'
<1>1. sent' \in [Conn -> Seq(Mail)] /\ \A e \in Conn : Unheard(sent'[e])
    BY DEF HandledAnswer
<1>2. TypeOK /\ ChatTypeOK /\ Sound(u) /\ Delivered /\ UNCHANGED clientvars
    BY DEF ChatInv, IInv, Served
<1>3. /\ users' = users /\ user' = user /\ aka' = aka
      /\ offers'[u] = Tail(offers[u]) /\ offers[u] \in Seq(Offers)
      /\ \A e \in Conn \ {u} : offers'[e] = offers[e]
    <2>1. offers \in [Conn -> Seq(Offers)] /\ offers' = [offers EXCEPT ![u] = Tail(@)]
        BY <1>2 DEF TypeOK, HandledAnswer
    <2> QED  BY <2>1 DEF HandledAnswer
<1>4. ASSUME NEW e \in Conn \ {u} PROVE Sound(e)'
    BY <1>1, <1>3, ServedElse
<1>5. /\ u \in users /\ q \in Reqs
      /\ Returning(u) = <<q.infos>> \o Picked(Tail(requests[u]), AnswerTypes)
      /\ user[u].is_logged_in /\ offers[u] # <<>>
      /\ Front(Picked(Tail(requests[u]), AnswerTypes), Tail(Owed(u)))
    BY RequestSays
<1>6. /\ \A k \in DOMAIN requests'[u] : \E j \in DOMAIN requests[u] : requests'[u][k] = requests[u][j]
      /\ Returning(u)' \in Seq(Names)
    BY ServedRequests
<1>7. Returning(u)' = Picked(Tail(requests[u]), AnswerTypes)
    <2>1. requests'[u] = Tail(requests[u])
        BY <1>2 DEF Served, ChatTypeOK
    <2> QED  BY <2>1 DEF Returning
<1>8. Owed(u)' = Tail(Owed(u))
    <2>1. Owed(u)' = NamesOf(offers'[u]) /\ Owed(u) = NamesOf(offers[u])
        BY DEF Owed, NamesOf
    <2> QED  BY <1>3, <1>5, <2>1, NamesOfTail
<1>9. Front(Returning(u)', Owed(u)')
    BY <1>5, <1>7, <1>8
<1>10. ASSUME Running(u) PROVE KnowsName(u)' /\ Accounted(u)'
    <2>1. Accounted(u) /\ KnowsName(u)
        BY <1>2, <1>5, <1>10 DEF Sound
    <2>2. /\ Unread(u)' = Unread(u) \o Picked(sent'[u], {"FILE_REQUEST"})
          /\ News(u)' = News(u) \o Picked(sent'[u], {"NICKNAME_NEW"})
        BY <1>1, <1>2, <1>10, HeardSays
    <2>3. Unread(u)' = Unread(u) \o <<>> /\ News(u)' = News(u) \o <<>>
        BY <1>1, <2>2 DEF Unheard
    <2>4. /\ Unread(u) \in Seq(Names) /\ News(u) \in Seq(Names) /\ q.infos \in Names
          /\ Held(u) \in Seq(Names) /\ AtPrompt(u) \in Seq(Names)
        BY <1>2, <1>5, PlacesType, InfosOfQueues
    <2>5. Unread(u)' = Unread(u) /\ News(u)' = News(u)
        BY <2>3, <2>4, ConcatEmptySeq
    <2>6. Held(u)' = Held(u) /\ AtPrompt(u)' = AtPrompt(u) /\ client' = client
        BY <1>2 DEF clientvars, Held, AtPrompt
    <2>7. PICK r : r = Returning(u)'
        OBVIOUS
    <2>f. PICK y : y = <<q.infos>>
        OBVIOUS
    <2>8. Along(Then(y, r), Held(u), AtPrompt(u), Unread(u))
             = Then(y, Along(r, Held(u), AtPrompt(u), Unread(u)))
        <3>1. /\ r \in Seq(Names) /\ Held(u) \in Seq(Names) /\ AtPrompt(u) \in Seq(Names)
              /\ Unread(u) \in Seq(Names) /\ y \in Seq(Names)
            BY <1>6, <2>4, <2>7, <2>f
        <3> QED  BY <3>1, FirstPlace
    <2>9. PICK w : w = r \o Held(u) \o AtPrompt(u) \o Unread(u)
        OBVIOUS
    <2>w. w \in Seq(Names)
        BY <1>6, <2>4, <2>7, <2>9, ConcatProperties
    <2>v. Owed(u) = <<q.infos>> \o w
        <3>1. Owed(u) = (y \o r) \o Held(u) \o AtPrompt(u) \o Unread(u)
            BY <1>5, <1>7, <2>1, <2>7, <2>f DEF Accounted
        <3> QED  BY <2>8, <2>9, <2>f, <3>1 DEF Along, Then
    <2>10. Owed(u)' = r \o Held(u) \o AtPrompt(u) \o Unread(u)
        <3>1. Tail(<<q.infos>> \o w) = w
            BY <2>4, <2>w, TailOfCons
        <3> QED  BY <1>8, <2>9, <2>v, <3>1
    <2>11. Accounted(u)'
        BY <2>5, <2>6, <2>7, <2>10 DEF Accounted
    <2> QED  BY <1>3, <2>1, <2>5, <2>6, <2>11 DEF KnowsName
<1>11. \A k \in DOMAIN sent'[u] : sent'[u][k].type = "NICKNAME_NEW" => sent'[u][k].infos \in aka'[u]
    BY <1>1 DEF Unheard
<1>12. Sound(u)'
    BY <1>1, <1>2, <1>3, <1>5, <1>6, <1>9, <1>10, <1>11, ServedSound
<1>13. ASSUME NEW e \in Conn PROVE Sound(e)'
    BY <1>4, <1>12
<1> QED  BY <1>1, <1>13

(* The server deals with the packet it has read.                             *)
LEMMA ServeKeeps ==
    ASSUME ChatInv, Serve
    PROVE  ChatInv'
<1>1. PICK u \in Conn : serving = u
    BY DEF Serve, ChatInv, ChatTypeOK
<1>2. PICK q : q = Head(requests[u])
    OBVIOUS
<1>3. /\ Handles(u, q) /\ Served(u, q) /\ serving' = NoConn
    BY <1>1, <1>2 DEF Serve, Served, Delivers, Delivered
<1>4. /\ q \in Reqs /\ q.from \in aka[u] /\ Tail(requests[u]) \in Seq(Reqs)
      /\ (q.type \in AnswerTypes => user[u].is_logged_in)
    BY <1>1, <1>2, RequestSays
<1>5. IInv /\ ChatTypeOK
    BY DEF ChatInv
<1>6. /\ Handler(u)
      /\ \/ q.type \notin AnswerTypes /\ HandledPlainly
         \/ q.type \notin AnswerTypes /\ \E n \in Nick : HandledName(u, n)
         \/ q.type \notin AnswerTypes /\ \E d \in Conn \ {u}, m \in Body : HandledAsk(u, q.from, d, m)
         \/ q.type \in AnswerTypes /\ HandledAnswer(u)
    BY <1>3, <1>4, <1>5, HandlesSays
<1>7. IInv' /\ TypeOK'
    <2>1. RegNext
        BY <1>6 DEF RegNext
    <2> QED  BY <1>5, <2>1, StepIInv DEF IInv
<1>8. sent' \in [Conn -> Seq(Mail)] /\ \A e \in Conn : Sound(e)'
    <2>1. CASE q.type \notin AnswerTypes /\ HandledPlainly
        BY <1>1, <1>2, <1>3, <1>7, <2>1, PlainServed
    <2>2. CASE q.type \notin AnswerTypes /\ \E n \in Nick : HandledName(u, n)
        BY <1>1, <1>2, <1>3, <1>7, <2>2, NameServed
    <2>3. CASE q.type \notin AnswerTypes /\ \E d \in Conn \ {u}, m \in Body : HandledAsk(u, q.from, d, m)
        BY <1>1, <1>2, <1>3, <1>7, <2>3, AskServed
    <2>4. CASE q.type \in AnswerTypes /\ HandledAnswer(u)
        <3>1. sent' \in [Conn -> Seq(Packets)]
            BY <1>7 DEF TypeOK
        <3> QED  BY <1>1, <1>2, <1>3, <2>4, <3>1, AnswerServed
    <2> QED  BY <1>6, <2>1, <2>2, <2>3, <2>4
<1>9. ChatTypeOK'
    <2>1. UNCHANGED <<mode, client, asker, blocked>>
        BY <1>3 DEF Served, clientvars
    <2>2. requests' \in [Conn -> Seq(Reqs)]
        BY <1>3, <1>4, <1>5 DEF Served, ChatTypeOK
    <2>3. inbox' \in [Conn -> Seq(Mail)]
        <3>1. inbox' = [d \in Conn |-> inbox'[d]]
            BY <1>3 DEF Served, Delivered
        <3>2. ASSUME NEW d \in Conn PROVE inbox'[d] \in Seq(Mail)
            BY <1>3, <1>5, <1>8, HeardSays DEF Served
        <3> QED  BY <3>1, <3>2
    <2> QED  BY <1>3, <1>5, <2>1, <2>2, <2>3 DEF ChatTypeOK
<1> QED  BY <1>3, <1>7, <1>8, <1>9 DEF ChatInv

(* A connection the server has no step of, whoever it adds to its list.      *)
LEMMA AsideSound ==
    ASSUME NEW e, Sound(e), Same(e), user'[e] = user[e], aka'[e] = aka[e],
           offers'[e] = offers[e], e \in users' <=> e \in users
    PROVE  Sound(e)'
<1>1. /\ Owed(e)' = Owed(e) /\ Returning(e)' = Returning(e) /\ Held(e)' = Held(e)
      /\ AtPrompt(e)' = AtPrompt(e) /\ Unread(e)' = Unread(e) /\ News(e)' = News(e)
      /\ Running(e)' = Running(e)
    BY DEF Same, Owed, Returning, Held, AtPrompt, Unread, News, Running
<1>2. Present(e)'
    <2>1. Present(e)
        BY DEF Sound
    <2> QED  BY <1>1, <2>1 DEF Same, Present
<1>3. OwnNicknames(e) => OwnNicknames(e)'
    BY DEF Same, OwnNicknames
<1>4. (KnowsName(e) => KnowsName(e)') /\ (Accounted(e) => Accounted(e)')
    BY <1>1 DEF Same, KnowsName, Accounted
<1> QED  BY <1>1, <1>2, <1>3, <1>4 DEF Sound

(* A client arrives: it has nothing yet, and nor has the server of it.       *)
LEMMA ArriveKeeps ==
    ASSUME ChatInv, NEW c \in Conn, Arrive(c)
    PROVE  ChatInv'
<1>1. IInv /\ TypeOK /\ ChatTypeOK /\ Sound(c) /\ Present(c)
    BY DEF ChatInv, IInv, Sound
<1>2. /\ mode[c] = "off" /\ mode' = [mode EXCEPT ![c] = "loop"]
      /\ inbox' = [inbox EXCEPT ![c] = sent'[c]] /\ serving = NoConn
      /\ UNCHANGED <<client, asker, blocked, requests, serving>>
      /\ accept_user(c) /\ Admits
    BY DEF Arrive
<1>3. /\ users' = users \cup {c} /\ user' = [user EXCEPT ![c] = user_node_init]
      /\ Reply(c, "DEFAULT", Empty, "login", {}) /\ aka' = aka /\ offers' = offers
    BY <1>2 DEF accept_user
<1>4. IInv'
    <2>1. RegNext
        BY <1>2 DEF RegNext
    <2> QED  BY <1>1, <2>1, StepIInv
<1>5. PICK s \in Seq(Packets) : sent'[c] = s
    BY <1>4 DEF IInv, TypeOK
<1>6. s \in Seq(Mail) /\ Unheard(s)
    <2>1. Plain(s)
        BY <1>3, <1>5, PlainReply
    <2> QED  BY <2>1, PlainMail
<1>7. /\ inbox'[c] = s /\ inbox' \in [Conn -> Seq(Mail)] /\ mode'[c] = "loop"
      /\ mode' \in [Conn -> Modes] /\ user'[c] = user_node_init
      /\ \A e \in Conn \ {c} : mode'[e] = mode[e] /\ inbox'[e] = inbox[e] /\ user'[e] = user[e]
    <2>1. "loop" \in Modes
        BY DEF Modes
    <2>2. inbox' = [inbox EXCEPT ![c] = s]
        BY <1>2, <1>5
    <2> QED  BY <1>1, <1>2, <1>3, <1>6, <2>1, <2>2 DEF ChatTypeOK, TypeOK
<1>8. ChatTypeOK'
    BY <1>1, <1>2, <1>7 DEF ChatTypeOK
<1>9. ASSUME NEW e \in Conn \ {c} PROVE Sound(e)'
    <2>1. Sound(e)
        BY DEF ChatInv
    <2>2. Same(e)
        BY <1>2, <1>7 DEF Same
    <2> QED  BY <1>3, <1>7, <2>1, <2>2, AsideSound
<1>10. Sound(c)'
    <2>1. /\ c \notin users /\ requests[c] = <<>> /\ offers[c] = <<>> /\ blocked[c] = <<>>
          /\ client[c].nickname = Empty /\ Empty \in aka[c]
        BY <1>1, <1>2 DEF Present
    <2>2. Returning(c)' = <<>>
        BY <1>2, <2>1, PickedEmpty DEF Returning
    <2>3. Owed(c)' = <<>> /\ Held(c)' = <<>> /\ AtPrompt(c)' = <<>>
        BY <1>2, <1>3, <1>7, <2>1 DEF Owed, Held, AtPrompt
    <2>4. Unread(c)' = <<>> /\ News(c)' = <<>>
        BY <1>6, <1>7 DEF Unread, News, Unheard
    <2>5. <<>> \o <<>> \o <<>> \o <<>> = <<>>
        OBVIOUS
    <2>6. Accounted(c)'
        BY <2>2, <2>3, <2>4, <2>5 DEF Accounted
    <2>7. KnowsName(c)'
        BY <1>2, <1>7, <2>1, <2>4 DEF KnowsName, LastOf, user_node_init
    <2>8. OwnNicknames(c)'
        BY <1>2, <1>3, <1>6, <1>7, <2>1 DEF OwnNicknames, Unheard
    <2>9. Present(c)'
        BY <1>2, <1>3, <1>7, <2>1 DEF Present, Running
    <2>10. Front(Returning(c)', Owed(c)')
        BY <2>2, <2>3 DEF Front
    <2> QED  BY <1>3, <2>1, <2>6, <2>7, <2>8, <2>9, <2>10 DEF Sound
<1>11. ASSUME NEW e \in Conn PROVE Sound(e)'
    BY <1>9, <1>10
<1> QED  BY <1>2, <1>4, <1>8, <1>11 DEF ChatInv

(* The server takes up a packet.                                             *)
LEMMA ChooseKeeps ==
    ASSUME ChatInv, NEW c \in Conn, Choose(c)
    PROVE  ChatInv'
<1>1. /\ requests[c] # <<>> /\ serving' = c
      /\ UNCHANGED <<regvars, mode, client, asker, blocked, requests, inbox>>
    BY DEF Choose, clientvars
<1>2. IInv'
    BY <1>1, StepIInv DEF ChatInv
<1>3. ChatTypeOK'
    BY <1>1 DEF ChatInv, ChatTypeOK
<1>4. ASSUME NEW e \in Conn PROVE Sound(e)'
    BY <1>1, SameSound DEF ChatInv, Same
<1> QED  BY <1>1, <1>2, <1>3, <1>4 DEF ChatInv

(* The server notices that a client has gone.                                *)
LEMMA DepartsPlainly ==
    ASSUME TypeOK', NEW u \in Conn, server_disconnect_user(u)
    PROVE  \A e \in Conn : sent'[e] \in Seq(Mail) /\ Unheard(sent'[e])
<1>1. CASE sent' = [c \in Conn |-> <<>>]
    BY <1>1, UnheardNothing
<1>2. ASSUME NEW r, sent' = SentTo(HasQuit(u, r, SERVER, "DEFAULT", Empty)), NEW e \in Conn
      PROVE  sent'[e] \in Seq(Mail) /\ Unheard(sent'[e])
    <2>1. PICK s : s = sent'[e]
        OBVIOUS
    <2>2. s \in Seq(Packets)
        BY <2>1 DEF TypeOK
    <2>3. Plain(s)
        <3>1. s = <<>> \/ \E p : p.type = "DEFAULT" /\ s = <<p>>
            BY <1>2, <2>1 DEF SentTo, HasQuit, packet_init
        <3>2. Plain(<<>>)
            BY DEF Plain
        <3> QED  BY <3>1, <3>2, PlainOne
    <2> QED  BY <2>1, <2>2, <2>3, PlainMail
<1>3. sent' = [c \in Conn |-> <<>>] \/ \E r : sent' = SentTo(HasQuit(u, r, SERVER, "DEFAULT", Empty))
    BY DEF server_disconnect_user
<1> QED  BY <1>1, <1>2, <1>3

(* A client that has gone leaves the tables of the server.                   *)
LEMMA DepartsKeeps ==
    ASSUME ChatInv, NEW c \in Conn, Departs(c)
    PROVE  ChatInv'
<1>1. IInv /\ TypeOK /\ ChatTypeOK /\ Sound(c) /\ Present(c)
    BY DEF ChatInv, IInv, Sound
<1>2. /\ mode[c] = "gone" /\ c \in users /\ requests[c] = <<>> /\ serving = NoConn
      /\ server_disconnect_user(c) /\ Delivered
      /\ UNCHANGED <<clientvars, requests, serving>>
    BY DEF Departs, Delivers, Delivered
<1>3. IInv'
    <2>1. RegNext
        BY <1>2 DEF RegNext
    <2> QED  BY <1>1, <2>1, StepIInv
<1>4. \A e \in Conn : sent'[e] \in Seq(Mail) /\ Unheard(sent'[e])
    BY <1>2, <1>3, DepartsPlainly DEF IInv
<1>5. sent' \in [Conn -> Seq(Mail)]
    BY <1>3, <1>4 DEF IInv, TypeOK
<1>6. /\ users' = users \ {c} /\ offers' = Forget(c)
      /\ user' = [user EXCEPT ![c] = user_node_init] /\ aka' = [aka EXCEPT ![c] = {Empty}]
    BY <1>2 DEF server_disconnect_user
<1>7. /\ aka'[c] = {Empty} /\ offers'[c] = <<>>
      /\ \A e \in Conn \ {c} : user'[e] = user[e] /\ aka'[e] = aka[e]
    BY <1>1, <1>6 DEF TypeOK, Forget
<1>8. UNCHANGED <<mode, client, asker, blocked>>
    BY <1>2 DEF clientvars
<1>9. ChatTypeOK'
    <2>1. inbox' = [d \in Conn |-> inbox'[d]]
        BY <1>2 DEF Delivered
    <2>2. ASSUME NEW d \in Conn PROVE inbox'[d] \in Seq(Mail)
        BY <1>1, <1>2, <1>5, HeardSays
    <2>3. inbox' \in [Conn -> Seq(Mail)]
        BY <2>1, <2>2
    <2> QED  BY <1>1, <1>2, <1>8, <2>3 DEF ChatTypeOK
<1>10. ASSUME NEW e \in Conn \ {c} PROVE Sound(e)'
    <2>1. offers'[e] = [k \in DOMAIN offers[e] |-> Released(offers[e][k], c)]
        BY <1>6 DEF Forget
    <2>2. Owed(e)' = Owed(e)
        BY <2>1 DEF Owed, Released
    <2>3. offers[e] = <<>> => offers'[e] = <<>>
        BY <2>1
    <2>4. Returning(e)' = Returning(e)
        BY <1>2 DEF Returning
    <2>5. requests'[e] = requests[e] /\ (e \in users' <=> e \in users) /\ Sound(e)
        BY <1>2, <1>6 DEF ChatInv
    <2>6. \A k \in DOMAIN requests'[e] : \E j \in DOMAIN requests[e] : requests'[e][k] = requests[e][j]
        BY <2>5
    <2> QED  BY <1>1, <1>2, <1>4, <1>5, <1>7, <2>2, <2>3, <2>4, <2>5, <2>6, RestSound
<1>11. Sound(c)'
    BY <1>1, <1>2, <1>6, <1>7, <1>8 DEF Sound, Present, Running
<1>12. ASSUME NEW e \in Conn PROVE Sound(e)'
    BY <1>10, <1>11
<1> QED  BY <1>2, <1>3, <1>9, <1>12 DEF ChatInv

-----------------------------------------------------------------------------

(* No client has connected, and the server has nothing of any.               *)
LEMMA InitChatInv == Init => ChatInv
<1> SUFFICES ASSUME Init PROVE ChatInv
    OBVIOUS
<1>1. IInv
    BY InitIInv DEF Init
<1>2. ChatTypeOK
    <2>1. "off" \in Modes /\ NoClient \in Clients
        BY DEF Modes, NoClient, Clients
    <2> QED  BY <2>1 DEF Init, ChatTypeOK
<1>3. ASSUME NEW c \in Conn PROVE Sound(c)
    <2>1. mode[c] = "off" /\ client[c] = NoClient /\ blocked[c] = <<>> /\ requests[c] = <<>>
        BY DEF Init
    <2>2. users = {} /\ offers[c] = <<>> /\ aka[c] = {Empty}
        BY DEF Init, RegInit
    <2> QED  BY <2>1, <2>2 DEF Sound, Present, Running, NoClient
<1>4. serving = NoConn
    BY DEF Init
<1> QED  BY <1>1, <1>2, <1>3, <1>4 DEF ChatInv

(* Every step of a client, of the network and of the server keeps ChatInv.   *)
LEMMA StepChatInv ==
    ASSUME ChatInv, [Next]_vars
    PROVE  ChatInv'
<1>1. CASE UNCHANGED vars
    <2>1. UNCHANGED <<regvars, mode, client, asker, blocked, requests, inbox, serving>>
        BY <1>1 DEF vars, clientvars
    <2>2. IInv'
        BY <2>1, StepIInv DEF ChatInv
    <2>3. ChatTypeOK'
        BY <2>1 DEF ChatInv, ChatTypeOK
    <2>4. ASSUME NEW e \in Conn PROVE Sound(e)'
        BY <2>1, SameSound DEF ChatInv, Same
    <2> QED  BY <2>1, <2>2, <2>3, <2>4 DEF ChatInv
<1>2. ASSUME NEW c \in Conn, Arrive(c) \/ Commanded(c) \/ Answers(c) \/ Runs(c) \/ Leave(c)
      PROVE  ChatInv'
    BY <1>2, ArriveKeeps, CommandedKeeps, AnswersKeeps, RunsKeeps, LeaveKeeps
<1>3. CASE Server
    BY <1>3, ServeKeeps, ChooseKeeps, DepartsKeeps DEF Server
<1> QED  BY <1>1, <1>2, <1>3 DEF Next

(* The inductive invariant holds of the clients and the server together, in  *)
(* every state they can be in.                                               *)
THEOREM ChatInvariant == Behaviour => []ChatInv
BY InitChatInv, StepChatInv, PTL DEF Behaviour

-----------------------------------------------------------------------------
(* What it is good for.                                                      *)

(* A client knows its nickname late but never wrong: the packets it has      *)
(* still to read say the nickname that server.c keeps for it.                *)
THEOREM ChatNicknames == Behaviour => []NicknamesFollow
<1>1. ChatInv => NicknamesFollow
    <2> SUFFICES ASSUME ChatInv, NEW c \in users, Running(c)
                 PROVE  LET news == OfType(inbox[c], {"NICKNAME_NEW"})
                        IN  user[c].nickname =
                               IF news = <<>> THEN client[c].nickname
                               ELSE news[Len(news)].infos
        BY DEF NicknamesFollow
    <2>1. c \in Conn /\ inbox[c] \in Seq(Mail)
        BY DEF ChatInv, IInv, TypeOK, ChatTypeOK
    <2>2. PICK news \in Seq(Mail) : news = OfType(inbox[c], {"NICKNAME_NEW"})
        BY <2>1, OfTypeType
    <2>3. user[c].nickname = LastOf(Infos(news), client[c].nickname)
        BY <2>1, <2>2 DEF ChatInv, Sound, KnowsName, News, Picked
    <2>4. /\ Infos(news) \in Seq(Names) /\ Len(Infos(news)) = Len(news)
          /\ \A k \in 1..Len(news) : Infos(news)[k] = news[k].infos
        BY InfosOfQueues, InfosType
    <2>5. /\ Len(news) \in Nat /\ (news = <<>> <=> Len(news) = 0)
          /\ (Infos(news) = <<>> <=> Len(Infos(news)) = 0)
        BY <2>4, LenProperties, EmptySeq
    <2>6. user[c].nickname = IF news = <<>> THEN client[c].nickname ELSE news[Len(news)].infos
        <3>1. CASE news = <<>>
            BY <2>3, <2>4, <2>5, <3>1 DEF LastOf
        <3>2. CASE news # <<>>
            <4>1. Len(news) \in 1..Len(news) /\ Infos(news) # <<>>
                BY <2>4, <2>5, <3>2
            <4> QED  BY <2>3, <2>4, <3>2, <4>1 DEF LastOf
        <3> QED  BY <3>1, <3>2
    <2> QED  BY <2>2, <2>6
<1> QED  BY <1>1, ChatInvariant, PTL

(* Each request for a file that server.c has passed on is in one place, in   *)
(* order: an answer on its way, the prompt of client.c, or not read yet.     *)
THEOREM ChatPrompts == Behaviour => []PromptsAccounted
<1>1. ChatInv => PromptsAccounted
    <2> SUFFICES ASSUME ChatInv, NEW c \in users, Running(c)
                 PROVE  [k \in DOMAIN offers[c] |-> offers[c][k].name] =
                           Infos(OfType(requests[c], AnswerTypes)) \o Infos(HeldBack(c))
                              \o AtPrompt(c) \o Infos(OfType(inbox[c], {"FILE_REQUEST"}))
        BY DEF PromptsAccounted
    <2>1. c \in Conn /\ ChatTypeOK
        BY DEF ChatInv, IInv, TypeOK
    <2>2. Owed(c) = Returning(c) \o Held(c) \o AtPrompt(c) \o Unread(c)
        BY <2>1 DEF ChatInv, Sound, Accounted
    <2>3. Infos(HeldBack(c)) = Held(c)
        <3>1. CASE blocked[c] = <<>>
            BY <3>1, InfosEmpty DEF HeldBack, Held
        <3>2. CASE blocked[c] # <<>>
            <4>1. blocked[c][1] \in Reqs
                BY <2>1, <3>2 DEF ChatTypeOK
            <4>2. Picked(<<blocked[c][1]>>, AnswerTypes) =
                     IF blocked[c][1].type \in AnswerTypes THEN <<blocked[c][1].infos>> ELSE <<>>
                BY <4>1, PickedOne
            <4> QED  BY <3>2, <4>2 DEF Picked, HeldBack, Held
        <3> QED  BY <3>1, <3>2
    <2> QED  BY <2>2, <2>3 DEF Owed, Returning, Unread, Picked
<1> QED  BY <1>1, ChatInvariant, PTL

(* What Registry supposes of the clients, the code of the clients does.      *)
THEOREM ChatAssumed == Behaviour => []ClientsAsAssumed
<1>1. ChatInv => ClientsAsAssumed
    <2> SUFFICES ASSUME ChatInv, serving # NoConn PROVE ClientsAsAssumed
        BY DEF ClientsAsAssumed
    <2>1. PICK u \in Conn : serving = u
        BY DEF ChatInv, ChatTypeOK
    <2>2. PICK q : q = Head(requests[u])
        OBVIOUS
    <2>3. /\ q.from \in aka[u]
          /\ q.type \in AnswerTypes => offers[u] # <<>> /\ Head(offers[u]).name = q.infos
        BY <2>1, <2>2, RequestSays
    <2> QED  BY <2>1, <2>2, <2>3 DEF ClientsAsAssumed
<1> QED  BY <1>1, ChatInvariant, PTL

(* So with these clients the server does nothing that Registry does not, and *)
(* whatever is proved of Registry is true of the whole chat.                 *)
THEOREM ChatRunsRegistry == Behaviour => RegSpec
<1>1. Init => RegInit
    BY DEF Init
<1>2. ChatInv /\ [Next]_vars => [RegNext]_regvars
    <2> SUFFICES ASSUME ChatInv, [Next]_vars PROVE [RegNext]_regvars
        OBVIOUS
    <2>1. CASE UNCHANGED vars
        BY <2>1 DEF vars
    <2>2. ASSUME NEW c \in Conn, Arrive(c) PROVE [RegNext]_regvars
        BY <2>2 DEF Arrive, RegNext
    <2>3. ASSUME NEW c \in Conn, Commanded(c) PROVE UNCHANGED regvars
        BY <2>3 DEF Commanded, client_send_nickname_new_req, client_send_broadcast_send_req,
            client_send_file_req, Types
    <2>4. ASSUME NEW c \in Conn, Answers(c) PROVE UNCHANGED regvars
        BY <2>4 DEF Answers, file_accept_res, file_reject_res
    <2>5. ASSUME NEW c \in Conn, Runs(c) PROVE UNCHANGED regvars
        BY <2>5 DEF Runs, Unblocks, Reads, ServerLost, TransferEnds, Exits,
            client_handle_file_accept_res
    <2>6. ASSUME NEW c \in Conn, Leave(c) PROVE UNCHANGED regvars
        BY <2>6 DEF Leave, Exits
    <2>7. CASE Serve
        <3>1. PICK u \in Conn : serving = u
            BY <2>7 DEF Serve, ChatInv, ChatTypeOK
        <3>2. PICK q : q = Head(requests[u])
            OBVIOUS
        <3>3. /\ q \in Reqs /\ q.from \in aka[u]
              /\ (q.type \in AnswerTypes => user[u].is_logged_in)
            BY <3>1, <3>2, RequestSays
        <3>4. Handles(u, q) /\ IInv
            BY <2>7, <3>1, <3>2 DEF Serve, ChatInv
        <3>5. Handler(u)
            BY <3>3, <3>4, HandlesSays
        <3> QED  BY <3>5 DEF RegNext
    <2>8. ASSUME NEW c \in Conn, Choose(c) PROVE UNCHANGED regvars
        BY <2>8 DEF Choose
    <2>9. ASSUME NEW c \in Conn, Departs(c) PROVE [RegNext]_regvars
        BY <2>9 DEF Departs, RegNext
    <2> QED  BY <2>1, <2>2, <2>3, <2>4, <2>5, <2>6, <2>7, <2>8, <2>9 DEF Next, Server
<1> QED  BY <1>1, <1>2, ChatInvariant, PTL DEF Behaviour, RegSpec

-----------------------------------------------------------------------------
(* More about what is picked out of queues.                                  *)

Has(s, x) == \E k \in DOMAIN s : s[k] = x
Holds(o, s, types) ==
    /\ \A k \in DOMAIN o : o[k].type \in types /\ Has(s, o[k])
    /\ \A j \in DOMAIN s : s[j].type \in types => Has(o, s[j])

Adds(t, s, e) ==
    /\ \A x : Has(t, x) <=> Has(s, x) \/ x = e
    /\ \A k \in DOMAIN t : t[k] = e \/ Has(s, t[k])

(* What a sequence has, with one more.                                       *)
LEMMA AppendHas ==
    ASSUME NEW P, NEW s \in Seq(P), NEW e \in P, NEW t, t = Append(s, e)
    PROVE  Adds(t, s, e)
<1>1. /\ Len(s) \in Nat /\ DOMAIN s = 1..Len(s) /\ DOMAIN t = 1..(Len(s) + 1)
      /\ t[Len(s) + 1] = e /\ \A k \in 1..Len(s) : t[k] = s[k]
    BY AppendProperties
<1>2. \A k \in DOMAIN t : k = Len(s) + 1 \/ k \in DOMAIN s
    BY <1>1
<1>3. Len(s) + 1 \in DOMAIN t /\ DOMAIN s \subseteq DOMAIN t
    BY <1>1
<1>4. \A k \in DOMAIN t : t[k] = e \/ Has(s, t[k])
    BY <1>1, <1>2 DEF Has
<1>5. \A x : Has(t, x) <=> Has(s, x) \/ x = e
    BY <1>1, <1>2, <1>3 DEF Has
<1> QED  BY <1>4, <1>5 DEF Adds

(* What two sequences have in a row.                                         *)
LEMMA ConcatHas ==
    ASSUME NEW P, NEW s \in Seq(P), NEW t \in Seq(P), NEW x
    PROVE  Has(s \o t, x) <=> Has(s, x) \/ Has(t, x)
<1> DEFINE b == s \o t
<1>1. /\ b \in Seq(P) /\ Len(b) = Len(s) + Len(t)
      /\ \A i \in 1..Len(s) + Len(t) : b[i] = IF i <= Len(s) THEN s[i] ELSE t[i - Len(s)]
    BY ConcatProperties
<1>2. \A k \in DOMAIN b : \/ \E j \in DOMAIN s : b[k] = s[j]
                          \/ \E j \in DOMAIN t : b[k] = t[j]
    BY ConcatElements
<1> HIDE DEF b
<1>3. /\ Len(s) \in Nat /\ Len(t) \in Nat /\ DOMAIN s = 1..Len(s) /\ DOMAIN t = 1..Len(t)
      /\ DOMAIN b = 1..Len(b)
    BY <1>1, LenProperties
<1>4. \A j \in DOMAIN s : j \in DOMAIN b /\ b[j] = s[j]
    BY <1>1, <1>3
<1>5. \A j \in DOMAIN t : j + Len(s) \in DOMAIN b /\ b[j + Len(s)] = t[j]
    BY <1>1, <1>3
<1> QED  BY <1>2, <1>4, <1>5 DEF Has, b

(* What is kept of a sequence is all that it has of the types, and no more.  *)
LEMMA OfTypeHolds ==
    ASSUME NEW P, NEW s \in Seq(P), NEW types
    PROVE  Holds(OfType(s, types), s, types)
<1> DEFINE front(m) == SubSeq(s, 1, m)
           T == {m \in Nat : m <= Len(s) => Holds(OfType(front(m), types), front(m), types)}
<1>1. Len(s) \in Nat
    OBVIOUS
<1>2. 0 \in T
    <2>1. front(0) = <<>> /\ <<>> \in Seq(P) /\ DOMAIN <<>> = {}
        BY SubSeqEmpty
    <2>2. OfType(<<>>, types) = <<>>
        BY <2>1, OfTypeNone
    <2>3. Holds(<<>>, <<>>, types)
        BY <2>1 DEF Holds
    <2> QED  BY <2>1, <2>2, <2>3
<1>3. ASSUME NEW m \in T
      PROVE  m + 1 \in T
    <2> SUFFICES ASSUME m + 1 <= Len(s)
                 PROVE  Holds(OfType(front(m + 1), types), front(m + 1), types)
        OBVIOUS
    <2>1. m \in Nat /\ Holds(OfType(front(m), types), front(m), types)
        BY <1>1
    <2>2. PICK a \in Seq(P) : a = front(m)
        <3>1. front(m) \in Seq(P)
            BY <1>1, <2>1, SubSeqProperties
        <3> QED  BY <3>1
    <2>3. PICK e \in P : e = s[m + 1]
        <3>1. m + 1 \in 1..Len(s)
            BY <1>1, <2>1
        <3> QED  BY <3>1, ElementOfSeq
    <2>4. front(m + 1) = Append(a, e)
        BY <1>1, <2>1, <2>2, <2>3
    <2>5. PICK o \in Seq(P) : o = OfType(a, types)
        BY OfTypeType
    <2>6. OfType(Append(a, e), types) = IF e.type \in types THEN Append(o, e) ELSE o
        BY <2>5, OfTypeAppend
    <2>7. Holds(o, a, types)
        BY <2>1, <2>2, <2>5
    <2>8. Holds(IF e.type \in types THEN Append(o, e) ELSE o, Append(a, e), types)
        <3>a. PICK ao : ao = Append(o, e) /\ Adds(ao, o, e)
            BY AppendHas
        <3>b. PICK aa : aa = Append(a, e) /\ Adds(aa, a, e)
            BY AppendHas
        <3>c. /\ \A x : Has(o, x) => x.type \in types /\ Has(a, x)
              /\ \A x : Has(a, x) /\ x.type \in types => Has(o, x)
            BY <2>7 DEF Holds, Has
        <3>1. CASE e.type \in types
            <4>1. \A k \in DOMAIN ao : ao[k].type \in types /\ Has(aa, ao[k])
                BY <3>1, <3>a, <3>b, <3>c DEF Adds
            <4>2. \A j \in DOMAIN aa : aa[j].type \in types => Has(ao, aa[j])
                BY <3>a, <3>b, <3>c DEF Adds
            <4> QED  BY <3>1, <3>a, <3>b, <4>1, <4>2 DEF Holds
        <3>2. CASE e.type \notin types
            <4>1. \A k \in DOMAIN o : o[k].type \in types /\ Has(aa, o[k])
                BY <2>7, <3>b, <3>c DEF Holds, Adds
            <4>2. \A j \in DOMAIN aa : aa[j].type \in types => Has(o, aa[j])
                BY <3>2, <3>b, <3>c DEF Adds
            <4> QED  BY <3>2, <3>b, <4>1, <4>2 DEF Holds
        <3> QED  BY <3>1, <3>2
    <2> QED  BY <2>4, <2>6, <2>8
<1> HIDE DEF T
<1>4. T = Nat
    BY <1>2, <1>3, SetInduction DEF T
<1>5. front(Len(s)) = s
    BY SubSeqFull
<1>6. Len(s) \in T /\ Len(s) <= Len(s)
    BY <1>1, <1>4
<1>7. Holds(OfType(front(Len(s)), types), front(Len(s)), types)
    <2> HIDE DEF front
    <2> QED  BY <1>6 DEF T
<1> HIDE DEF front
<1> QED  BY <1>5, <1>7

(* What is kept of one packet,                                               *)
LEMMA OfTypeOne ==
    ASSUME NEW P, NEW e \in P, NEW types
    PROVE  OfType(<<e>>, types) = IF e.type \in types THEN <<e>> ELSE <<>>
<1>1. PICK s : s = <<>>
    OBVIOUS
<1>2. s \in Seq(P) /\ DOMAIN s = {} /\ Append(s, e) = <<e>> /\ Append(<<>>, e) = <<e>>
    BY <1>1
<1>3. OfType(s, types) = <<>>
    BY <1>2, OfTypeNone
<1>4. OfType(Append(s, e), types) =
         IF e.type \in types THEN Append(OfType(s, types), e) ELSE OfType(s, types)
    BY <1>2, OfTypeAppend
<1> QED  BY <1>2, <1>3, <1>4

(* and of the first of a queue and the rest.                                 *)
LEMMA OfTypeTail ==
    ASSUME NEW P, NEW s \in Seq(P), s # <<>>, NEW types
    PROVE  /\ Head(s).type \in types => OfType(s, types) = <<Head(s)>> \o OfType(Tail(s), types)
           /\ Head(s).type \notin types => OfType(s, types) = OfType(Tail(s), types)
<1>1. PICK a : a = <<Head(s)>>
    OBVIOUS
<1>2. PICK b : b = Tail(s)
    OBVIOUS
<1>3. Head(s) \in P /\ a \in Seq(P) /\ b \in Seq(P) /\ s = a \o b
    BY <1>1, <1>2, HeadTailProperties
<1>4. OfType(a \o b, types) = OfType(a, types) \o OfType(b, types)
    BY <1>3, OfTypeConcat
<1>5. OfType(a, types) = IF Head(s).type \in types THEN <<Head(s)>> ELSE <<>>
    BY <1>1, <1>3, OfTypeOne
<1>6. OfType(b, types) \in Seq(P)
    BY <1>3, OfTypeType
<1>7. <<>> \o OfType(b, types) = OfType(b, types)
    BY <1>6, ConcatEmptySeq
<1> QED  BY <1>2, <1>3, <1>4, <1>5, <1>7
-----------------------------------------------------------------------------
(* Clients that do one thing at a time, stay, and keep their nickname: what  *)
(* is agreed between the two ends of a transfer.                             *)

(* Every packet of c that the server has not served, the one held back last. *)
Waits(c) == IF blocked[c] = <<>> THEN <<>> ELSE <<blocked[c][1]>>
Queued(c) == requests[c] \o Waits(c)

Naming(c) == OfType(Queued(c), {"NICKNAME_NEW"})
Asking(c) == OfType(Queued(c), {"FILE_REQUEST"})
Accepting(c) == OfType(Queued(c), {"FILE_ACCEPT"})
Named(c) == OfType(inbox[c], {"NICKNAME_NEW"})
Asked(c) == OfType(inbox[c], {"FILE_REQUEST"})
Accepted(c) == OfType(inbox[c], {"FILE_ACCEPT"})

(* The client has accepted, or is about to; or has still to decide.          *)
Waiting(c) == mode[c] = "accept" \/ (mode[c] = "send" /\ blocked[c][2] = "accept")
Engaged(c) == mode[c] = "prompt" \/ Waiting(c)

(* Nobody goes, and the server does not fail.                                *)
Steady ==
    /\ Up
    /\ peer \in [Conn -> Conn \cup {NoConn}]
    /\ \A c \in Conn : /\ mode[c] # "gone"
                       /\ mode[c] = "off" => inbox[c] = <<>>
                       /\ mode[c] \in {"sending", "receiving"} => peer[c] \in Conn

(* A client asks for a nickname until it has one, which is the server's.     *)
NameFixed(c) ==
    /\ Naming(c) = <<>> \/ (~user[c].is_logged_in /\ \E q \in Reqs : Naming(c) = <<q>>)
    /\ client[c].nickname # Empty =>
          c \in users /\ user[c].is_logged_in /\ user[c].nickname = client[c].nickname
    /\ \A k \in DOMAIN Named(c) :
          user[c].is_logged_in /\ Named(c)[k].infos = user[c].nickname

(* An open request is by the client whose nickname it gives.                 *)
OfferTrue(d) ==
    \A k \in DOMAIN offers[d] : LET o == offers[d][k] IN
        o.name # Empty /\ o.by \in Conn /\ client[o.by].nickname = o.name

(* The file a client has asked to send is the one it will.                   *)
AskTrue(c) ==
    \/ Asking(c) = <<>>
    \/ \E q \in Reqs : /\ Asking(c) = <<q>>
                       /\ q.from = client[c].nickname /\ q.from # Empty
                       /\ client[c].file_to_send \in {q.payload, NoFile}

(* Whoever has the nickname n is to send f, or nothing.                      *)
WillSend(n, f) ==
    \A c \in Conn : client[c].nickname = n => client[c].file_to_send \in {f, NoFile}
AskedTrue(d) ==
    \A k \in DOMAIN Asked(d) : WillSend(Asked(d)[k].infos, Content(Asked(d)[k]))
EngagedTrue(d) == Engaged(d) => WillSend(asker[d], client[d].file_to_receive)

(* A client that has accepted has said so once, to the one that asked, and   *)
(* that is on its way until the other connects.                              *)
BlockedRight(d) ==
    blocked[d] # <<>> => (blocked[d][2] = "accept" <=> blocked[d][1].type = "FILE_ACCEPT")
AcceptTrue(d) ==
    \/ Accepting(d) = <<>>
    \/ Waiting(d) /\ \E q \in Reqs : Accepting(d) = <<q>> /\ q.infos = asker[d] /\ q.payload = d
AcceptedTrue(c) ==
    /\ \A k \in DOMAIN Accepted(c) : LET d == Content(Accepted(c)[k]) IN
          /\ Waiting(d) /\ Accepting(d) = <<>>
          /\ asker[d] = client[c].nickname /\ asker[d] # Empty
    /\ \A j, k \in DOMAIN Accepted(c) :
          Content(Accepted(c)[j]) = Content(Accepted(c)[k]) => j = k
OnItsWay(d) ==
    Waiting(d) => \/ Accepting(d) # <<>>
                  \/ \E c \in Conn : \E k \in DOMAIN Accepted(c) : Content(Accepted(c)[k]) = d

TransferTrue(c) ==
    Transferring(c) =>
        /\ asker[peer[c]] = client[c].nickname
        /\ client[c].file_to_send \in {client[peer[c]].file_to_receive, NoFile}

Accord(c) ==
    /\ NameFixed(c) /\ OfferTrue(c) /\ AskTrue(c) /\ AskedTrue(c) /\ EngagedTrue(c)
    /\ AcceptTrue(c) /\ AcceptedTrue(c) /\ OnItsWay(c)
Agreement(c) == Accord(c) /\ BlockedRight(c) /\ TransferTrue(c)
FileInv == Steady /\ \A c \in Conn : Agreement(c)

-----------------------------------------------------------------------------
(* The types of the queues in parts.                                         *)

(* What c has queued.                                                        *)
LEMMA QueuedType ==
    ASSUME ChatTypeOK, NEW c \in Conn
    PROVE  /\ Waits(c) \in Seq(Reqs) /\ Queued(c) \in Seq(Reqs)
           /\ Naming(c) \in Seq(Reqs) /\ Asking(c) \in Seq(Reqs) /\ Accepting(c) \in Seq(Reqs)
<1>1. requests[c] \in Seq(Reqs) /\ blocked[c] \in {<<>>} \cup (Reqs \X {"loop", "accept"})
    BY DEF ChatTypeOK
<1>2. Waits(c) \in Seq(Reqs)
    <2>1. blocked[c] # <<>> => blocked[c][1] \in Reqs
        BY <1>1
    <2> QED  BY <2>1 DEF Waits
<1>3. Queued(c) \in Seq(Reqs)
    BY <1>1, <1>2, ConcatProperties DEF Queued
<1> QED  BY <1>2, <1>3, OfTypeType DEF Naming, Asking, Accepting

(* What c has still to read, and what such a packet holds.                   *)
LEMMA InboxType ==
    ASSUME ChatTypeOK, NEW c \in Conn
    PROVE  /\ Named(c) \in Seq(Mail) /\ Asked(c) \in Seq(Mail) /\ Accepted(c) \in Seq(Mail)
           /\ \A k \in DOMAIN Asked(c) :
                 Asked(c)[k].type = "FILE_REQUEST" /\ Asked(c)[k].infos \in Nick \cup {Empty}
           /\ \A k \in DOMAIN Accepted(c) :
                 /\ Accepted(c)[k].type = "FILE_ACCEPT" /\ Content(Accepted(c)[k]) \in Conn
                 /\ Has(inbox[c], Accepted(c)[k])
<1>1. inbox[c] \in Seq(Mail)
    BY DEF ChatTypeOK
<1>2. Named(c) \in Seq(Mail) /\ Asked(c) \in Seq(Mail) /\ Accepted(c) \in Seq(Mail)
    BY <1>1, OfTypeType DEF Named, Asked, Accepted
<1>3. ASSUME NEW k \in DOMAIN Asked(c)
      PROVE  Asked(c)[k].type = "FILE_REQUEST" /\ Asked(c)[k].infos \in Nick \cup {Empty}
    <2>1. PICK s : s = Asked(c)
        OBVIOUS
    <2>2. Holds(s, inbox[c], {"FILE_REQUEST"})
        BY <1>1, <2>1, OfTypeHolds DEF Asked
    <2>3. s[k] \in Mail
        BY <1>2, <2>1
    <2> QED  BY <2>1, <2>2, <2>3 DEF Holds, Mail
<1>4. ASSUME NEW k \in DOMAIN Accepted(c)
      PROVE  /\ Accepted(c)[k].type = "FILE_ACCEPT" /\ Content(Accepted(c)[k]) \in Conn
             /\ Has(inbox[c], Accepted(c)[k])
    <2>1. PICK s : s = Accepted(c)
        OBVIOUS
    <2>2. Holds(s, inbox[c], {"FILE_ACCEPT"})
        BY <1>1, <2>1, OfTypeHolds DEF Accepted
    <2>3. s[k] \in Mail /\ s[k].type = "FILE_ACCEPT"
        BY <1>2, <2>1, <2>2 DEF Holds
    <2>4. Content(s[k]) \in Conn
        BY <2>3 DEF Mail, Content
    <2> QED  BY <2>1, <2>2, <2>3, <2>4 DEF Holds
<1> QED  BY <1>2, <1>3, <1>4

-----------------------------------------------------------------------------
(* Who has asked.                                                            *)

(* A file request that is somewhere on its way is one that its client owes   *)
(* an answer to.                                                             *)
LEMMA OwedHas ==
    ASSUME ChatInv, NEW d \in Conn, Running(d), NEW n,
           Has(Returning(d), n) \/ Has(Held(d), n) \/ Has(AtPrompt(d), n) \/ Has(Unread(d), n)
    PROVE  \E k \in DOMAIN offers[d] : offers[d][k].name = n
<1>1. TypeOK /\ ChatTypeOK /\ Accounted(d)
    BY DEF ChatInv, IInv, Sound, Present
<1>2. PICK r \in Seq(Names) : r = Returning(d)
    BY <1>1, PlacesType
<1>3. PICK h \in Seq(Names) : h = Held(d)
    BY <1>1, PlacesType
<1>4. PICK a \in Seq(Names) : a = AtPrompt(d)
    BY <1>1, PlacesType
<1>5. PICK u \in Seq(Names) : u = Unread(d)
    BY <1>1, PlacesType
<1>6. PICK f \in Seq(Names) : f = r \o h
    BY ConcatProperties
<1>7. PICK g \in Seq(Names) : g = f \o a
    BY ConcatProperties
<1>8. Owed(d) = g \o u
    BY <1>1, <1>2, <1>3, <1>4, <1>5, <1>6, <1>7 DEF Accounted
<1>9. Has(f, n) <=> Has(r, n) \/ Has(h, n)
    BY <1>6, ConcatHas
<1>10. Has(g, n) <=> Has(f, n) \/ Has(a, n)
    BY <1>7, ConcatHas
<1>11. Has(g \o u, n) <=> Has(g, n) \/ Has(u, n)
    BY ConcatHas
<1>12. Has(Owed(d), n)
    BY <1>2, <1>3, <1>4, <1>5, <1>8, <1>9, <1>10, <1>11
<1> QED  BY <1>12 DEF Has, Owed

(* A nickname somebody is to answer, or has answered.                        *)
Open(n) ==
    \E d \in Conn : \/ Engaged(d) /\ asker[d] = n
                    \/ \E k \in DOMAIN Asked(d) : Asked(d)[k].infos = n

(* It is the nickname of a client that waits for the answer.                 *)
LEMMA Owner ==
    ASSUME ChatInv, FileInv, NEW n, Open(n)
    PROVE  n # Empty /\ \E c \in Conn : client[c].nickname = n /\ Unanswered(c)
<1>1. ChatTypeOK /\ \A c \in Conn : Agreement(c)
    BY DEF ChatInv, FileInv
<1>2. ASSUME NEW d \in Conn, NEW k \in DOMAIN offers[d], offers[d][k].name = n
      PROVE  n # Empty /\ \E c \in Conn : client[c].nickname = n /\ Unanswered(c)
    <2>1. OfferTrue(d)
        BY <1>1 DEF Agreement, Accord
    <2> QED  BY <1>2, <2>1 DEF OfferTrue, Unanswered
<1>3. ASSUME NEW d \in Conn, NEW k \in DOMAIN Asked(d), Asked(d)[k].infos = n
      PROVE  n # Empty /\ \E c \in Conn : client[c].nickname = n /\ Unanswered(c)
    <2>1. PICK s : s = Asked(d)
        OBVIOUS
    <2>2. s \in Seq(Mail)
        BY <1>1, <2>1, InboxType
    <2>3. Running(d)
        <3>1. inbox[d] # <<>>
            <4>1. Holds(s, inbox[d], {"FILE_REQUEST"})
                BY <1>1, <2>1, OfTypeHolds DEF Asked, ChatTypeOK
            <4>2. Has(inbox[d], s[k])
                BY <1>3, <2>1, <4>1 DEF Holds
            <4> QED  BY <4>2 DEF Has
        <3> QED  BY <3>1 DEF FileInv, Steady, Running
    <2>4. Has(Unread(d), n)
        <3>1. /\ Infos(s) \in Seq(Names) /\ Len(Infos(s)) = Len(s)
              /\ \A i \in 1..Len(s) : Infos(s)[i] = s[i].infos
            BY <2>2, InfosOfQueues, InfosType
        <3>2. k \in DOMAIN Infos(s) /\ Infos(s)[k] = n
            BY <1>3, <2>1, <2>2, <3>1
        <3>3. Unread(d) = Infos(s)
            BY <2>1 DEF Unread, Picked, Asked
        <3> QED  BY <3>2, <3>3 DEF Has
    <2>5. \E i \in DOMAIN offers[d] : offers[d][i].name = n
        BY <2>3, <2>4, OwedHas
    <2> QED  BY <1>2, <2>5
<1>4. ASSUME NEW d \in Conn, mode[d] = "prompt", asker[d] = n
      PROVE  n # Empty /\ \E c \in Conn : client[c].nickname = n /\ Unanswered(c)
    <2>1. Running(d) /\ AtPrompt(d) = <<n>>
        BY <1>4 DEF Running, AtPrompt
    <2>2. Has(AtPrompt(d), n)
        BY <2>1 DEF Has
    <2>3. \E i \in DOMAIN offers[d] : offers[d][i].name = n
        BY <2>1, <2>2, OwedHas
    <2> QED  BY <1>2, <2>3
<1>5. ASSUME NEW d \in Conn, Waiting(d), asker[d] = n
      PROVE  n # Empty /\ \E c \in Conn : client[c].nickname = n /\ Unanswered(c)
    <2>1. AcceptTrue(d) /\ OnItsWay(d) /\ Running(d)
        BY <1>1, <1>5 DEF Agreement, Accord, Waiting, Running
    <2>2. CASE Accepting(d) # <<>>
        <3>1. PICK q \in Reqs : Accepting(d) = <<q>> /\ q.infos = n
            BY <1>5, <2>1, <2>2 DEF AcceptTrue
        <3>2. requests[d] \in Seq(Reqs) /\ Waits(d) \in Seq(Reqs) /\ Queued(d) \in Seq(Reqs)
            BY <1>1, QueuedType DEF ChatTypeOK
        <3>3. Has(Queued(d), q) /\ q.type = "FILE_ACCEPT"
            <4>1. Holds(Accepting(d), Queued(d), {"FILE_ACCEPT"})
                BY <3>2, OfTypeHolds DEF Accepting
            <4>2. PICK o : o = Accepting(d)
                OBVIOUS
            <4>3. 1 \in DOMAIN o /\ o[1] = q
                BY <3>1, <4>2
            <4> QED  BY <4>1, <4>2, <4>3 DEF Holds
        <3>4. Has(requests[d], q) \/ Has(Waits(d), q)
            BY <3>2, <3>3, ConcatHas DEF Queued
        <3>5. CASE Has(requests[d], q)
            <4>1. PICK o \in Seq(Reqs) : o = OfType(requests[d], AnswerTypes)
                BY <3>2, OfTypeType
            <4>2. Has(o, q)
                <5>1. Holds(o, requests[d], AnswerTypes)
                    BY <3>2, <4>1, OfTypeHolds
                <5> QED  BY <3>3, <3>5, <5>1 DEF Holds, Has, AnswerTypes
            <4>3. /\ Infos(o) \in Seq(Names) /\ Len(Infos(o)) = Len(o)
                  /\ \A i \in 1..Len(o) : Infos(o)[i] = o[i].infos
                BY InfosOfQueues, InfosType
            <4>4. Has(Infos(o), n)
                <5>1. PICK i \in DOMAIN o : o[i] = q
                    BY <4>2 DEF Has
                <5>2. i \in DOMAIN Infos(o) /\ Infos(o)[i] = n
                    BY <3>1, <4>3, <5>1
                <5> QED  BY <5>2 DEF Has
            <4>5. Has(Returning(d), n)
                BY <4>1, <4>4 DEF Returning, Picked
            <4>6. \E i \in DOMAIN offers[d] : offers[d][i].name = n
                BY <2>1, <4>5, OwedHas
            <4> QED  BY <1>2, <4>6
        <3>6. CASE Has(Waits(d), q)
            <4>1. blocked[d] # <<>> /\ blocked[d][1] = q
                BY <3>6 DEF Has, Waits
            <4>2. Held(d) = <<n>>
                BY <3>1, <3>3, <4>1 DEF Held, AnswerTypes
            <4>3. Has(Held(d), n)
                BY <4>2 DEF Has
            <4>4. \E i \in DOMAIN offers[d] : offers[d][i].name = n
                BY <2>1, <4>3, OwedHas
            <4> QED  BY <1>2, <4>4
        <3> QED  BY <3>4, <3>5, <3>6
    <2>3. ASSUME NEW c \in Conn, NEW k \in DOMAIN Accepted(c), Content(Accepted(c)[k]) = d
          PROVE  n # Empty /\ \E e \in Conn : client[e].nickname = n /\ Unanswered(e)
        <3>1. AcceptedTrue(c)
            BY <1>1 DEF Agreement, Accord
        <3>2. n # Empty /\ client[c].nickname = n
            BY <1>5, <2>3, <3>1 DEF AcceptedTrue
        <3>3. Accepted(c)[k].type = "FILE_ACCEPT" /\ Has(inbox[c], Accepted(c)[k])
            BY <1>1, <2>3, InboxType
        <3>4. Unanswered(c)
            BY <3>3 DEF Unanswered, Has
        <3> QED  BY <3>2, <3>4
    <2> QED  BY <1>5, <2>1, <2>2, <2>3 DEF OnItsWay
<1> QED  BY <1>3, <1>4, <1>5 DEF Open, Engaged

(* No two clients have a nickname.                                           *)
LEMMA OneOwner ==
    ASSUME ChatInv, FileInv, NEW c \in users, NEW d \in Conn, NEW n, n # Empty,
           user[c].nickname = n, client[d].nickname = n
    PROVE  c = d
<1>1. d \in users /\ user[d].nickname = n /\ user[d].is_logged_in
    BY DEF FileInv, Agreement, Accord, NameFixed
<1> QED  BY <1>1 DEF ChatInv, IInv, NicknamesUnique

(* A client that waits for no answer has nobody busy with a file of its own. *)
LEMMA NotOpen ==
    ASSUME ChatInv, FileInv, NEW c \in Conn, ~Unanswered(c), NEW n, Open(n)
    PROVE  client[c].nickname # n
<1>1. PICK e \in Conn : client[e].nickname = n /\ Unanswered(e)
    BY Owner
<1>2. n # Empty
    BY Owner
<1>3. client[c].nickname = n => c = e
    <2> SUFFICES ASSUME client[c].nickname = n PROVE c = e
        OBVIOUS
    <2>1. c \in users /\ user[c].nickname = n
        BY <1>2 DEF FileInv, Agreement, Accord, NameFixed
    <2> QED  BY <1>1, <1>2, <2>1, OneOwner
<1> QED  BY <1>1, <1>3

-----------------------------------------------------------------------------
(* What each part of the agreement keeps by.                                 *)

NickKept(c) == client[c].nickname # Empty => client'[c].nickname = client[c].nickname
SendKept(c) == client'[c].file_to_send \in {client[c].file_to_send, NoFile}
Settled(n) == \A c \in Conn : client'[c].nickname = n => client[c].nickname = n /\ SendKept(c)

(* The nicknames of clients and users stay.                                  *)
LEMMA NameFixedKept ==
    ASSUME NEW c, NameFixed(c), user'[c] = user[c], c \in users => c \in users',
           client'[c].nickname = client[c].nickname,
           Naming(c)' = Naming(c) \/ Naming(c)' = <<>>, Named(c)' = Named(c)
    PROVE  NameFixed(c)'
BY DEF NameFixed

(* No open request is added, and no nickname lost.                           *)
LEMMA OfferTrueKept ==
    ASSUME NEW d, OfferTrue(d), \A k \in DOMAIN offers'[d] : Has(offers[d], offers'[d][k]),
           \A c \in Conn : NickKept(c)
    PROVE  OfferTrue(d)'
<1> SUFFICES ASSUME NEW k \in DOMAIN offers'[d]
             PROVE  /\ offers'[d][k].name # Empty /\ offers'[d][k].by \in Conn
                    /\ client'[offers'[d][k].by].nickname = offers'[d][k].name
    BY DEF OfferTrue
<1>1. PICK o : o = offers'[d][k]
    OBVIOUS
<1>2. o.name # Empty /\ o.by \in Conn /\ client[o.by].nickname = o.name
    BY <1>1 DEF OfferTrue, Has
<1> QED  BY <1>1, <1>2 DEF NickKept

(* The client asks for no other file.                                        *)
LEMMA AskTrueKept ==
    ASSUME NEW c, AskTrue(c), NickKept(c), SendKept(c),
           Asking(c)' = Asking(c) \/ Asking(c)' = <<>>
    PROVE  AskTrue(c)'
BY DEF AskTrue, NickKept, SendKept

(* Whoever has the nickname has it already, and is to send the same.         *)
LEMMA WillSendKept ==
    ASSUME NEW n, NEW f, WillSend(n, f), Settled(n)
    PROVE  WillSend(n, f)'
BY DEF WillSend, Settled, SendKept

(* No request is added to those the client has to read.                      *)
LEMMA AskedTrueKept ==
    ASSUME NEW d, AskedTrue(d), \A k \in DOMAIN Asked(d)' : Has(Asked(d), Asked(d)'[k]),
           \A k \in DOMAIN Asked(d) : Settled(Asked(d)[k].infos)
    PROVE  AskedTrue(d)'
<1> SUFFICES ASSUME NEW k \in DOMAIN Asked(d)', NEW c \in Conn,
                    client'[c].nickname = Asked(d)'[k].infos
             PROVE  client'[c].file_to_send \in {Content(Asked(d)'[k]), NoFile}
    BY DEF AskedTrue, WillSend, Content
<1>1. PICK p : p = Asked(d)'[k]
    OBVIOUS
<1>2. Settled(p.infos) /\ WillSend(p.infos, Content(p))
    BY <1>1 DEF AskedTrue, Has
<1> QED  BY <1>1, <1>2 DEF Settled, SendKept, WillSend

(* The client is busy with the same file, or not any more.                   *)
LEMMA EngagedTrueKept ==
    ASSUME NEW d, EngagedTrue(d), Engaged(d)' => Engaged(d),
           Engaged(d)' => /\ asker'[d] = asker[d]
                          /\ client'[d].file_to_receive = client[d].file_to_receive
                          /\ Settled(asker[d])
    PROVE  EngagedTrue(d)'
<1> SUFFICES ASSUME Engaged(d)', NEW c \in Conn, client'[c].nickname = asker'[d]
             PROVE  client'[c].file_to_send \in {client'[d].file_to_receive, NoFile}
    BY DEF EngagedTrue, WillSend
<1>1. PICK n : n = asker[d]
    OBVIOUS
<1>2. WillSend(n, client[d].file_to_receive) /\ Settled(n) /\ client'[c].nickname = n
    BY <1>1 DEF EngagedTrue
<1> QED  BY <1>2 DEF Settled, SendKept, WillSend

(* The client has accepted, and said so, or not, as before.                  *)
LEMMA AcceptTrueKept ==
    ASSUME NEW d, AcceptTrue(d), Waiting(d)' <=> Waiting(d), asker'[d] = asker[d],
           Accepting(d)' = Accepting(d)
    PROVE  AcceptTrue(d)'
BY DEF AcceptTrue

(* No acceptance is added to those the client has to read, and those who     *)
(* have accepted wait on.                                                    *)
LEMMA AcceptedTrueKept ==
    ASSUME ChatTypeOK, NEW c \in Conn, AcceptedTrue(c), NickKept(c), Accepted(c)' = Accepted(c),
           \A k \in DOMAIN Accepted(c) : LET d == Content(Accepted(c)[k]) IN
              Waiting(d)' /\ Accepting(d)' = Accepting(d) /\ asker'[d] = asker[d]
    PROVE  AcceptedTrue(c)'
<1>1. PICK s : s = Accepted(c)
    OBVIOUS
<1>2. Accepted(c)' = s
    BY <1>1
<1>3. ASSUME NEW k \in DOMAIN s, NEW d \in Conn, d = Content(s[k])
      PROVE  /\ Waiting(d)' /\ Accepting(d)' = <<>>
             /\ asker'[d] = client'[c].nickname /\ asker'[d] # Empty
    BY <1>1, <1>3 DEF AcceptedTrue, NickKept
<1>4. \A k \in DOMAIN s : Content(s[k]) \in Conn
    BY <1>1, InboxType
<1>5. \A j, k \in DOMAIN s : Content(s[j]) = Content(s[k]) => j = k
    BY <1>1 DEF AcceptedTrue
<1> QED  BY <1>2, <1>3, <1>4, <1>5 DEF AcceptedTrue

(* Who waits goes on waiting for the same packet.                            *)
LEMMA OnItsWayKept ==
    ASSUME NEW d, OnItsWay(d), Waiting(d)' => Waiting(d),
           Accepting(d) # <<>> => Accepting(d)' # <<>>,
           \A c \in Conn : \A k \in DOMAIN Accepted(c) :
              Content(Accepted(c)[k]) = d => Has(Accepted(c)', Accepted(c)[k])
    PROVE  OnItsWay(d)'
<1> SUFFICES ASSUME Waiting(d)', Accepting(d)' = <<>>
             PROVE  \E c \in Conn : \E k \in DOMAIN Accepted(c)' : Content(Accepted(c)'[k]) = d
    BY DEF OnItsWay, Content
<1>1. PICK c \in Conn : \E k \in DOMAIN Accepted(c) : Content(Accepted(c)[k]) = d
    BY DEF OnItsWay
<1>2. PICK k \in DOMAIN Accepted(c) : Content(Accepted(c)[k]) = d
    BY <1>1
<1>3. Has(Accepted(c)', Accepted(c)[k])
    BY <1>2
<1> QED  BY <1>2, <1>3 DEF Has

(* A transfer begins only when the sender connects.                          *)
LEMMA TransferTrueKept ==
    ASSUME Steady, NEW c \in Conn, TransferTrue(c),
           mode'[c] = "sending" => mode[c] = "sending" /\ client'[c] = client[c] /\ peer'[c] = peer[c],
           \A d \in Conn : mode'[d] = "receiving" => mode[d] = "receiving" /\ peer'[d] = peer[d]
               /\ asker'[d] = asker[d] /\ client'[d].file_to_receive = client[d].file_to_receive
    PROVE  TransferTrue(c)'
<1> SUFFICES ASSUME mode'[c] = "sending", mode'[peer'[c]] = "receiving", peer'[peer'[c]] = c
             PROVE  /\ asker'[peer'[c]] = client'[c].nickname
                    /\ client'[c].file_to_send \in {client'[peer'[c]].file_to_receive, NoFile}
    BY DEF TransferTrue, Transferring
<1>1. mode[c] = "sending" /\ client'[c] = client[c] /\ peer'[c] = peer[c]
    OBVIOUS
<1>2. PICK d \in Conn : peer[c] = d
    BY <1>1 DEF Steady
<1>3. mode'[d] = "receiving" /\ peer'[d] = c
    BY <1>1, <1>2
<1>4. /\ mode[d] = "receiving" /\ peer[d] = c /\ asker'[d] = asker[d]
      /\ client'[d].file_to_receive = client[d].file_to_receive
    BY <1>3
<1>5. asker[d] = client[c].nickname /\ client[c].file_to_send \in {client[d].file_to_receive, NoFile}
    BY <1>1, <1>2, <1>4 DEF TransferTrue, Transferring
<1> QED  BY <1>1, <1>2, <1>4, <1>5

(* What a step leaves alone of a client, the queues that other steps fill    *)
(* and what it is busy with, and what Accord keeps by then.                  *)
Calm(e) ==
    /\ Accepting(e)' = Accepting(e) /\ Asked(e)' = Asked(e) /\ Accepted(e)' = Accepted(e)
    /\ asker'[e] = asker[e] /\ client'[e].file_to_receive = client[e].file_to_receive
    /\ Waiting(e)' <=> Waiting(e)
    /\ Engaged(e)' => Engaged(e)

Unmoved(e) ==
    /\ Calm(e) /\ client'[e] = client[e]
    /\ Naming(e)' = Naming(e) /\ Asking(e)' = Asking(e) /\ Named(e)' = Named(e)

(* The elements of a sequence are in it.                                     *)
LEMMA HasOwn == ASSUME NEW s PROVE \A k \in DOMAIN s : Has(s, s[k])
BY DEF Has

(* Nothing happens to a client that keeps what it has.                       *)
LEMMA SameUnmoved ==
    ASSUME NEW e, Same(e)
    PROVE  Unmoved(e)
<1>1. Queued(e)' = Queued(e)
    BY DEF Same, Queued, Waits
<1>2. Naming(e)' = Naming(e) /\ Asking(e)' = Asking(e) /\ Accepting(e)' = Accepting(e)
    BY <1>1 DEF Naming, Asking, Accepting
<1>3. Named(e)' = Named(e) /\ Asked(e)' = Asked(e) /\ Accepted(e)' = Accepted(e)
    BY DEF Same, Named, Asked, Accepted
<1>4. (Waiting(e)' <=> Waiting(e)) /\ (Engaged(e)' <=> Engaged(e))
    BY DEF Same, Waiting, Engaged
<1> QED  BY <1>2, <1>3, <1>4 DEF Same, Unmoved, Calm

(* Nicknames and files stay: so does what is open.                           *)
LEMMA AllSettled ==
    ASSUME \A e \in Conn : client'[e].nickname = client[e].nickname /\ SendKept(e)
    PROVE  \A n : Settled(n)
BY DEF Settled

(* No request is opened.                                                     *)
NoneAsked == \A d \in Conn : \A k \in DOMAIN offers'[d] : Has(offers[d], offers'[d][k])

(* The names and the requests of the clients have to be looked at; the rest  *)
(* follows when no nickname that is open moves.                              *)
LEMMA CalmAccord ==
    ASSUME ChatInv, FileInv, NoneAsked, \A n : Open(n) => Settled(n),
           \A e \in Conn : NameFixed(e)' /\ AskTrue(e)' /\ NickKept(e) /\ Calm(e)
    PROVE  \A e \in Conn : Accord(e)'
<1> SUFFICES ASSUME NEW e \in Conn PROVE Accord(e)'
    OBVIOUS
<1>1. ChatTypeOK /\ Accord(e) /\ Calm(e)
    BY DEF ChatInv, FileInv, Agreement
<1>2. OfferTrue(e)'
    BY <1>1, OfferTrueKept DEF Accord, NoneAsked
<1>3. AskedTrue(e)'
    <2>1. \A k \in DOMAIN Asked(e) : Settled(Asked(e)[k].infos)
        BY DEF Open
    <2>2. \A k \in DOMAIN Asked(e)' : Has(Asked(e), Asked(e)'[k])
        BY <1>1, HasOwn DEF Calm
    <2> QED  BY <1>1, <2>1, <2>2, AskedTrueKept DEF Accord
<1>4. EngagedTrue(e)'
    <2>1. Engaged(e)' => Settled(asker[e])
        BY <1>1 DEF Open, Calm
    <2> QED  BY <1>1, <2>1, EngagedTrueKept DEF Accord, Calm
<1>5. AcceptTrue(e)'
    BY <1>1, AcceptTrueKept DEF Accord, Calm
<1>6. AcceptedTrue(e)'
    <2>1. ASSUME NEW k \in DOMAIN Accepted(e), NEW d, d = Content(Accepted(e)[k])
          PROVE  Waiting(d)' /\ Accepting(d)' = Accepting(d) /\ asker'[d] = asker[d]
        <3>1. d \in Conn
            BY <1>1, <2>1, InboxType
        <3>2. Waiting(d)
            BY <1>1, <2>1 DEF Accord, AcceptedTrue
        <3> QED  BY <3>1, <3>2 DEF Calm
    <2> QED  BY <1>1, <2>1, AcceptedTrueKept DEF Accord, Calm
<1>7. OnItsWay(e)'
    <2>1. \A c \in Conn : \A k \in DOMAIN Accepted(c) : Has(Accepted(c)', Accepted(c)[k])
        BY HasOwn DEF Calm
    <2> QED  BY <1>1, <2>1, OnItsWayKept DEF Accord, Calm
<1> QED  BY <1>2, <1>3, <1>4, <1>5, <1>6, <1>7 DEF Accord

(* A client is the only one that moves.                                      *)
Moves(c) ==
    /\ UNCHANGED <<regvars, peer, down>>
    /\ mode'[c] \notin {"off", "gone", "sending", "receiving"}
    /\ \A e \in Conn \ {c} : Same(e)

(* Then nobody goes, and no transfer begins.                                 *)
LEMMA MovesKept ==
    ASSUME FileInv, NEW c \in Conn, Moves(c), BlockedRight(c)'
    PROVE  Steady' /\ \A e \in Conn : BlockedRight(e)' /\ TransferTrue(e)'
<1>1. fault' = fault /\ down' = down /\ peer' = peer
    BY DEF Moves, regvars
<1>2. Steady'
    <2>1. ASSUME NEW e \in Conn
          PROVE  /\ mode'[e] # "gone"
                 /\ mode'[e] = "off" => inbox'[e] = <<>>
                 /\ mode'[e] \in {"sending", "receiving"} => peer'[e] \in Conn
        <3>1. CASE e = c
            BY <3>1 DEF Moves
        <3>2. CASE e # c
            BY <1>1, <3>2 DEF Moves, Same, FileInv, Steady
        <3> QED  BY <3>1, <3>2
    <2> QED  BY <1>1, <2>1 DEF FileInv, Steady, Up
<1>3. ASSUME NEW e \in Conn PROVE BlockedRight(e)'
    <2>1. CASE e # c
        BY <2>1 DEF Moves, Same, FileInv, Agreement, BlockedRight
    <2> QED  BY <2>1
<1>4. ASSUME NEW e \in Conn PROVE TransferTrue(e)'
    <2>1. TransferTrue(e) /\ Steady
        BY DEF FileInv, Agreement
    <2>2. mode'[e] = "sending" => mode[e] = "sending" /\ client'[e] = client[e] /\ peer'[e] = peer[e]
        BY <1>1 DEF Moves, Same
    <2>3. \A d \in Conn : mode'[d] = "receiving" =>
             /\ mode[d] = "receiving" /\ peer'[d] = peer[d] /\ asker'[d] = asker[d]
             /\ client'[d].file_to_receive = client[d].file_to_receive
        BY <1>1 DEF Moves, Same
    <2> QED  BY <2>1, <2>2, <2>3, TransferTrueKept
<1> QED  BY <1>2, <1>3, <1>4

(* The parts of the agreement put together.                                  *)
LEMMA FileInvKept ==
    ASSUME Steady', \A e \in Conn : Accord(e)' /\ BlockedRight(e)' /\ TransferTrue(e)'
    PROVE  FileInv'
BY DEF FileInv, Agreement

-----------------------------------------------------------------------------
(* The client sends.                                                         *)

(* packet_send adds to what is queued, whether it waits or not.              *)
LEMMA SendsToQueued ==
    ASSUME ChatTypeOK, NEW c \in Conn, Present(c), mode[c] \in {"loop", "prompt"},
           NEW q \in Reqs, NEW next \in {"loop", "accept"}, SendsTo(c, q, next)
    PROVE  /\ Queued(c) = requests[c] /\ Queued(c)' = Append(Queued(c), q)
           /\ ~Waiting(c) /\ (Waiting(c)' <=> next = "accept")
           /\ mode'[c] \notin {"off", "gone", "sending", "receiving", "prompt"}
           /\ blocked'[c] # <<>> => blocked'[c] = <<q, next>>
<1>1. blocked[c] = <<>> /\ requests[c] \in Seq(Reqs) /\ ~Waiting(c)
    BY DEF Present, Waiting, ChatTypeOK
<1>2. Queued(c) = requests[c]
    BY <1>1, ConcatEmptySeq DEF Queued, Waits
<1>3. CASE Len(requests[c]) < MaxQueue
    <2>1. /\ requests' = [requests EXCEPT ![c] = Append(@, q)]
          /\ mode' = [mode EXCEPT ![c] = next]
          /\ blocked' = blocked
        BY <1>3, ChatAssumption DEF SendsTo
    <2>2. PICK s \in Seq(Reqs) : s = Append(requests[c], q)
        BY <1>1, AppendProperties
    <2>3. requests'[c] = s /\ mode'[c] = next /\ blocked'[c] = <<>>
        BY <1>1, <2>1, <2>2 DEF ChatTypeOK
    <2>4. Queued(c)' = s
        BY <2>2, <2>3, ConcatEmptySeq DEF Queued, Waits
    <2> QED  BY <1>1, <1>2, <2>2, <2>3, <2>4 DEF Waiting
<1>4. CASE ~ (Len(requests[c]) < MaxQueue)
    <2>1. PICK b : b = <<q, next>>
        OBVIOUS
    <2>2. /\ requests' = requests
          /\ mode' = [mode EXCEPT ![c] = "send"]
          /\ blocked' = [blocked EXCEPT ![c] = b]
        BY <1>4, <2>1 DEF SendsTo
    <2>3. requests'[c] = requests[c] /\ mode'[c] = "send" /\ blocked'[c] = b
        BY <2>2 DEF ChatTypeOK
    <2>4. b # <<>> /\ b[1] = q /\ b[2] = next
        BY <2>1
    <2>5. Queued(c)' = requests[c] \o <<q>>
        BY <2>3, <2>4 DEF Queued, Waits
    <2>6. requests[c] \o <<q>> = Append(requests[c], q)
        BY <1>1, AppendIsConcat
    <2> QED  BY <1>1, <1>2, <2>1, <2>3, <2>4, <2>5, <2>6 DEF Waiting
<1> QED  BY <1>3, <1>4

(* Each part of what is queued grows by what has its type.                   *)
LEMMA QueuedParts ==
    ASSUME ChatTypeOK, NEW c \in Conn, NEW q \in Reqs, Queued(c)' = Append(Queued(c), q)
    PROVE  /\ Naming(c)' = IF q.type = "NICKNAME_NEW" THEN Append(Naming(c), q) ELSE Naming(c)
           /\ Asking(c)' = IF q.type = "FILE_REQUEST" THEN Append(Asking(c), q) ELSE Asking(c)
           /\ Accepting(c)' = IF q.type = "FILE_ACCEPT" THEN Append(Accepting(c), q) ELSE Accepting(c)
<1>1. PICK s \in Seq(Reqs) : s = Queued(c)
    BY QueuedType
<1>2. ASSUME NEW types
      PROVE  OfType(Append(s, q), types) =
                IF q.type \in types THEN Append(OfType(s, types), q) ELSE OfType(s, types)
    BY OfTypeAppend
<1>3. OfType(Append(s, q), {"NICKNAME_NEW"}) =
         IF q.type = "NICKNAME_NEW" THEN Append(OfType(s, {"NICKNAME_NEW"}), q)
         ELSE OfType(s, {"NICKNAME_NEW"})
    BY <1>2
<1>4. OfType(Append(s, q), {"FILE_REQUEST"}) =
         IF q.type = "FILE_REQUEST" THEN Append(OfType(s, {"FILE_REQUEST"}), q)
         ELSE OfType(s, {"FILE_REQUEST"})
    BY <1>2
<1>5. OfType(Append(s, q), {"FILE_ACCEPT"}) =
         IF q.type = "FILE_ACCEPT" THEN Append(OfType(s, {"FILE_ACCEPT"}), q)
         ELSE OfType(s, {"FILE_ACCEPT"})
    BY <1>2
<1> QED  BY <1>1, <1>3, <1>4, <1>5 DEF Naming, Asking, Accepting

(* A client that sends leaves the others alone, and reads nothing.           *)
LEMMA SendsAlone ==
    ASSUME ChatInv, FileInv, NEW c \in Conn, mode[c] \in {"loop", "prompt"},
           NEW q \in Reqs, NEW next \in {"loop", "accept"}, SendsTo(c, q, next),
           next = "accept" <=> q.type = "FILE_ACCEPT",
           UNCHANGED <<regvars, asker, peer, inbox, down>>,
           \A e \in Conn \ {c} : client'[e] = client[e]
    PROVE  /\ Moves(c) /\ BlockedRight(c)' /\ \A e \in Conn \ {c} : Unmoved(e)
           /\ Named(c)' = Named(c) /\ Asked(c)' = Asked(c) /\ Accepted(c)' = Accepted(c)
<1>1. ChatTypeOK /\ Present(c)
    BY DEF ChatInv, Sound
<1>2. ASSUME NEW e \in Conn \ {c} PROVE Same(e)
    BY <1>1, SendsToSays DEF Same
<1>3. Moves(c)
    BY <1>1, <1>2, SendsToQueued DEF Moves
<1>4. BlockedRight(c)'
    <2>1. blocked'[c] # <<>> => blocked'[c] = <<q, next>>
        BY <1>1, SendsToQueued
    <2> QED  BY <2>1 DEF BlockedRight
<1>5. Named(c)' = Named(c) /\ Asked(c)' = Asked(c) /\ Accepted(c)' = Accepted(c)
    BY DEF Named, Asked, Accepted
<1> QED  BY <1>2, <1>3, <1>4, <1>5, SameUnmoved

(* When one client moves, neither takes up a file nor drops one it waits     *)
(* for, and all keep their nicknames, they agree as before but for what the  *)
(* client asks for.                                                          *)
LEMMA MovesCalm ==
    ASSUME ChatInv, FileInv, NEW c \in Conn, Moves(c), BlockedRight(c)',
           \A e \in Conn \ {c} : Unmoved(e),
           Calm(c), NickKept(c),
           NameFixed(c)', AskTrue(c)', \A n : Open(n) => Settled(n)
    PROVE  FileInv'
<1>1. user' = user /\ users' = users /\ offers' = offers
    BY DEF Moves, regvars, tables
<1>2. ASSUME NEW e \in Conn
      PROVE  NameFixed(e)' /\ AskTrue(e)' /\ NickKept(e) /\ Calm(e)
    <2>1. CASE e = c
        BY <2>1
    <2>2. CASE e # c
        <3>1. NameFixed(e) /\ AskTrue(e) /\ Unmoved(e)
            BY <2>2 DEF FileInv, Agreement, Accord
        <3>2. NameFixed(e)'
            BY <1>1, <3>1, NameFixedKept DEF Unmoved
        <3>3. NickKept(e) /\ SendKept(e)
            BY <3>1 DEF Unmoved, NickKept, SendKept
        <3>4. AskTrue(e)'
            BY <3>1, <3>3, AskTrueKept DEF Unmoved
        <3> QED  BY <3>1, <3>2, <3>3, <3>4 DEF Unmoved
    <2> QED  BY <2>1, <2>2
<1>3. NoneAsked
    BY <1>1, HasOwn DEF NoneAsked
<1>4. \A e \in Conn : Accord(e)'
    BY <1>2, <1>3, CalmAccord
<1> QED  BY <1>4, MovesKept, FileInvKept

(* In the loop nothing is held back, and nothing is being answered.          *)
LEMMA LoopQueue ==
    ASSUME ChatInv, NEW c \in Conn, mode[c] \in {"loop", "prompt"}
    PROVE  Queued(c) = requests[c] /\ ~Waiting(c) /\ (mode[c] = "loop" => ~Engaged(c))
<1>1. blocked[c] = <<>> /\ requests[c] \in Seq(Reqs)
    BY DEF ChatInv, Sound, Present, ChatTypeOK
<1> QED  BY <1>1, ConcatEmptySeq DEF Queued, Waits, Waiting, Engaged

(* Nothing of a type is in flight.                                           *)
LEMMA NotInFlight ==
    ASSUME ChatInv, NEW c \in Conn, mode[c] \in {"loop", "prompt"}
    PROVE  /\ ~InFlight(c, "NICKNAME_NEW") => Naming(c) = <<>>
           /\ ~InFlight(c, "FILE_REQUEST") => Asking(c) = <<>>
<1>1. Queued(c) = requests[c] /\ requests[c] \in Seq(Reqs)
    BY LoopQueue DEF ChatInv, ChatTypeOK
<1>2. ASSUME NEW type, ~InFlight(c, type) PROVE OfType(requests[c], {type}) = <<>>
    <2>1. \A k \in DOMAIN requests[c] : requests[c][k].type \notin {type}
        BY <1>2 DEF InFlight
    <2> QED  BY <1>1, <2>1, OfTypeNone
<1> QED  BY <1>1, <1>2 DEF Naming, Asking

(* A command is typed: what it queues, and what it leaves.                   *)
LEMMA TypedSays ==
    ASSUME Habits = {}, ChatInv, FileInv, NEW c \in Conn,
           NEW type \in {"NICKNAME_NEW", "BROADCAST_SEND", "FILE_REQUEST"},
           NEW infos, NEW payload, NEW q \in Reqs, q = Req(c, type, infos, payload),
           Types(c, type, infos, payload), \A e \in Conn \ {c} : client'[e] = client[e],
           client'[c].file_to_receive = client[c].file_to_receive
    PROVE  /\ mode[c] = "loop" /\ q.type = type
           /\ type # "NICKNAME_NEW" => client[c].nickname # Empty
           /\ Moves(c) /\ BlockedRight(c)' /\ (\A e \in Conn \ {c} : Unmoved(e))
           /\ Calm(c) /\ Named(c)' = Named(c)
           /\ Naming(c)' = IF type = "NICKNAME_NEW" THEN Append(Naming(c), q) ELSE Naming(c)
           /\ Asking(c)' = IF type = "FILE_REQUEST" THEN Append(Asking(c), q) ELSE Asking(c)
           /\ user'[c] = user[c] /\ users' = users
<1>1. /\ mode[c] = "loop" /\ SendsTo(c, q, "loop")
      /\ type = "NICKNAME_NEW" \/ client[c].nickname # Empty
      /\ UNCHANGED <<regvars, asker, peer, inbox, down>>
    BY DEF Types
<1>2. q.type = type /\ q.type # "FILE_ACCEPT"
    BY DEF Req
<1>3. /\ Moves(c) /\ BlockedRight(c)' /\ \A e \in Conn \ {c} : Unmoved(e)
      /\ Named(c)' = Named(c) /\ Asked(c)' = Asked(c) /\ Accepted(c)' = Accepted(c)
    BY <1>1, <1>2, SendsAlone
<1>4. /\ Queued(c)' = Append(Queued(c), q) /\ ~Waiting(c) /\ ~Waiting(c)'
      /\ mode'[c] # "prompt"
    BY <1>1, SendsToQueued DEF ChatInv, Sound
<1>5. /\ Naming(c)' = IF q.type = "NICKNAME_NEW" THEN Append(Naming(c), q) ELSE Naming(c)
      /\ Asking(c)' = IF q.type = "FILE_REQUEST" THEN Append(Asking(c), q) ELSE Asking(c)
      /\ Accepting(c)' = Accepting(c)
    BY <1>2, <1>4, QueuedParts DEF ChatInv
<1>6. Calm(c)
    BY <1>1, <1>3, <1>4, <1>5 DEF Calm, Engaged
<1>7. user' = user /\ users' = users
    BY <1>1 DEF regvars, tables
<1> QED  BY <1>1, <1>2, <1>3, <1>5, <1>6, <1>7

(* A packet the client makes is a request.                                   *)
LEMMA ReqType ==
    ASSUME ChatTypeOK, NEW c \in Conn, NEW type \in RequestTypes,
           NEW infos \in Nick \cup {Empty}, NEW payload \in Body \cup {NoFile},
           type \in {"NICKNAME_NEW", "FILE_REQUEST"} => infos \in Nick,
           type \in {"BROADCAST_SEND", "FILE_REQUEST"} => payload \in Body,
           type = "FILE_ACCEPT" => payload \in Conn
    PROVE  Req(c, type, infos, payload) \in Reqs
<1>1. client[c].nickname \in Nick \cup {Empty}
    BY DEF ChatTypeOK, Clients
<1> QED  BY <1>1 DEF Req, Reqs

(* /nick, once.                                                              *)
LEMMA NickTyped ==
    ASSUME Habits = {}, ChatInv, FileInv, NEW c \in Conn, NEW n \in Nick,
           client_send_nickname_new_req(c, n)
    PROVE  FileInv'
<1>1. /\ ~user[c].is_logged_in /\ ~InFlight(c, "NICKNAME_NEW")
      /\ Types(c, "NICKNAME_NEW", n, NoFile) /\ client' = client
    BY DEF client_send_nickname_new_req
<1>2. PICK q \in Reqs : q = Req(c, "NICKNAME_NEW", n, NoFile)
    BY ReqType DEF ChatInv, RequestTypes
<1>3. /\ mode[c] = "loop" /\ Moves(c) /\ BlockedRight(c)' /\ (\A e \in Conn \ {c} : Unmoved(e))
      /\ Calm(c) /\ Named(c)' = Named(c) /\ Naming(c)' = Append(Naming(c), q)
      /\ Asking(c)' = Asking(c) /\ user'[c] = user[c] /\ users' = users
    BY <1>1, <1>2, TypedSays
<1>4. NameFixed(c) /\ AskTrue(c)
    BY DEF FileInv, Agreement, Accord
<1>5. NameFixed(c)'
    <2>1. Naming(c) = <<>>
        BY <1>1, <1>3, NotInFlight
    <2>2. Naming(c)' = <<q>>
        BY <1>3, <2>1
    <2> QED  BY <1>1, <1>3, <1>4, <2>2 DEF NameFixed
<1>6. \A e \in Conn : client'[e].nickname = client[e].nickname /\ SendKept(e)
    BY <1>1 DEF SendKept
<1>7. AskTrue(c)'
    BY <1>3, <1>4, <1>6, AskTrueKept DEF NickKept
<1>8. \A m : Settled(m)
    BY <1>6, AllSettled
<1> QED  BY <1>3, <1>5, <1>6, <1>7, <1>8, MovesCalm DEF NickKept

(* /msgall.                                                                  *)
LEMMA BroadcastTyped ==
    ASSUME Habits = {}, ChatInv, FileInv, NEW c \in Conn, client_send_broadcast_send_req(c)
    PROVE  FileInv'
<1>1. Types(c, "BROADCAST_SEND", Empty, c) /\ client' = client
    BY DEF client_send_broadcast_send_req
<1>2. PICK q \in Reqs : q = Req(c, "BROADCAST_SEND", Empty, c)
    BY ChatAssumption, ReqType DEF ChatInv, RequestTypes
<1>3. /\ Moves(c) /\ BlockedRight(c)' /\ (\A e \in Conn \ {c} : Unmoved(e))
      /\ Calm(c) /\ Named(c)' = Named(c) /\ Naming(c)' = Naming(c)
      /\ Asking(c)' = Asking(c) /\ user'[c] = user[c] /\ users' = users
    BY <1>1, <1>2, TypedSays
<1>4. NameFixed(c) /\ AskTrue(c)
    BY DEF FileInv, Agreement, Accord
<1>5. \A e \in Conn : client'[e].nickname = client[e].nickname /\ SendKept(e)
    BY <1>1 DEF SendKept
<1>6. NameFixed(c)'
    BY <1>3, <1>4, <1>5, NameFixedKept
<1>7. AskTrue(c)'
    BY <1>3, <1>4, <1>5, AskTrueKept DEF NickKept
<1>8. \A m : Settled(m)
    BY <1>5, AllSettled
<1> QED  BY <1>3, <1>5, <1>6, <1>7, <1>8, MovesCalm DEF NickKept

(* /send: nobody is busy with another file of this client.                   *)
LEMMA SendTyped ==
    ASSUME Habits = {}, ChatInv, FileInv, NEW c \in Conn, NEW n \in Nick, NEW f \in File,
           client_send_file_req(c, n, f)
    PROVE  FileInv'
<1>1. /\ ~Unanswered(c) /\ client' = [client EXCEPT ![c].file_to_send = f]
      /\ Types(c, "FILE_REQUEST", n, f)
    BY DEF client_send_file_req
<1>2. PICK q \in Reqs : q = Req(c, "FILE_REQUEST", n, f)
    BY ChatAssumption, ReqType DEF ChatInv, RequestTypes
<1>3. /\ client'[c].file_to_send = f /\ client'[c].nickname = client[c].nickname
      /\ client'[c].file_to_receive = client[c].file_to_receive
      /\ \A e \in Conn \ {c} : client'[e] = client[e]
    BY <1>1 DEF ChatInv, ChatTypeOK, Clients
<1>4. /\ mode[c] = "loop" /\ Moves(c) /\ BlockedRight(c)' /\ (\A e \in Conn \ {c} : Unmoved(e))
      /\ Calm(c) /\ Named(c)' = Named(c) /\ Naming(c)' = Naming(c)
      /\ Asking(c)' = Append(Asking(c), q) /\ user'[c] = user[c] /\ users' = users
      /\ client[c].nickname # Empty
    BY <1>1, <1>2, <1>3, TypedSays
<1>5. NameFixed(c)'
    BY <1>3, <1>4, NameFixedKept DEF FileInv, Agreement, Accord
<1>6. AskTrue(c)'
    <2>1. Asking(c) = <<>>
        BY <1>1, <1>4, NotInFlight DEF Unanswered
    <2>2. Asking(c)' = <<q>>
        BY <1>4, <2>1
    <2>3. q.from = client[c].nickname /\ q.payload = f
        BY <1>2 DEF Req
    <2> QED  BY <1>3, <1>4, <2>2, <2>3 DEF AskTrue
<1>7. ASSUME NEW m, Open(m) PROVE Settled(m)
    <2>1. client[c].nickname # m
        BY <1>1, <1>7, NotOpen
    <2> QED  BY <1>3, <2>1 DEF Settled, SendKept
<1> QED  BY <1>3, <1>4, <1>5, <1>6, <1>7, MovesCalm DEF NickKept

-----------------------------------------------------------------------------
(* The answers.                                                              *)

(* file_accept_res: the client waits from now on, and has said so once.      *)
LEMMA AcceptAgreed ==
    ASSUME ChatInv, FileInv, NEW c \in Conn, file_accept_res(c)
    PROVE  FileInv'
<1>1. ChatTypeOK /\ mode[c] = "prompt" /\ client' = client /\ asker' = asker /\ inbox' = inbox
    BY DEF file_accept_res, ChatInv
<1>2. PICK q \in Reqs : q = Req(c, "FILE_ACCEPT", asker[c], c)
    BY <1>1, ChatAssumption, ReqType DEF RequestTypes, ChatTypeOK
<1>3. /\ q.type = "FILE_ACCEPT" /\ q.infos = asker[c] /\ q.payload = c
      /\ SendsTo(c, q, "accept") /\ UNCHANGED <<regvars, asker, peer, inbox, down>>
    BY <1>2 DEF Req, file_accept_res
<1>4. /\ Moves(c) /\ BlockedRight(c)' /\ \A e \in Conn \ {c} : Unmoved(e)
      /\ Named(c)' = Named(c) /\ Asked(c)' = Asked(c) /\ Accepted(c)' = Accepted(c)
    BY <1>1, <1>3, SendsAlone
<1>5. Queued(c)' = Append(Queued(c), q) /\ ~Waiting(c) /\ Waiting(c)'
    BY <1>1, <1>3, SendsToQueued DEF ChatInv, Sound
<1>6. \A e \in Conn : Accord(e)
    BY DEF FileInv, Agreement
<1>7. Accepting(c)' = <<q>>
    <2>1. Accepting(c) = <<>>
        BY <1>5, <1>6 DEF Accord, AcceptTrue
    <2>2. Accepting(c)' = Append(Accepting(c), q)
        BY <1>1, <1>3, <1>5, QueuedParts
    <2> QED  BY <2>1, <2>2
<1>8. Naming(c)' = Naming(c) /\ Asking(c)' = Asking(c)
    BY <1>1, <1>3, <1>5, QueuedParts
<1>9. ASSUME NEW e \in Conn
      PROVE  /\ Naming(e)' = Naming(e) /\ Asking(e)' = Asking(e) /\ Named(e)' = Named(e)
             /\ Asked(e)' = Asked(e) /\ Accepted(e)' = Accepted(e)
             /\ Engaged(e)' => Engaged(e)
    <2>1. CASE e = c
        BY <1>1, <1>4, <1>8, <2>1 DEF Engaged
    <2>2. CASE e # c
        BY <1>4, <2>2 DEF Unmoved, Calm
    <2> QED  BY <2>1, <2>2
<1>10. /\ user' = user /\ users' = users /\ offers' = offers
       /\ \A n : Settled(n)
       /\ \A e \in Conn : NickKept(e) /\ SendKept(e)
    BY <1>1, <1>3 DEF Settled, NickKept, SendKept, regvars, tables
<1>11. ASSUME NEW e \in Conn PROVE Accord(e)'
    <2>1. Accord(e)
        BY <1>6
    <2>2. NameFixed(e)'
        BY <1>1, <1>9, <1>10, <2>1, NameFixedKept DEF Accord
    <2>3. OfferTrue(e)'
        BY <1>10, <2>1, HasOwn, OfferTrueKept DEF Accord
    <2>4. AskTrue(e)'
        BY <1>9, <1>10, <2>1, AskTrueKept DEF Accord
    <2>5. AskedTrue(e)'
        <3>1. \A k \in DOMAIN Asked(e)' : Has(Asked(e), Asked(e)'[k])
            BY <1>9, HasOwn
        <3>2. \A k \in DOMAIN Asked(e) : Settled(Asked(e)[k].infos)
            BY <1>10
        <3> QED  BY <2>1, <3>1, <3>2, AskedTrueKept DEF Accord
    <2>6. EngagedTrue(e)'
        <3>1. Settled(asker[e])
            BY <1>10
        <3> QED  BY <1>1, <1>9, <2>1, <3>1, EngagedTrueKept DEF Accord
    <2>7. AcceptTrue(e)'
        <3>1. CASE e = c
            BY <1>1, <1>3, <1>5, <1>7, <3>1 DEF AcceptTrue
        <3>2. CASE e # c
            <4>1. Unmoved(e)
                BY <1>4, <3>2
            <4> QED  BY <2>1, <4>1, AcceptTrueKept DEF Unmoved, Calm, Accord
        <3> QED  BY <3>1, <3>2
    <2>8. AcceptedTrue(e)'
        <3>1. ASSUME NEW k \in DOMAIN Accepted(e), NEW d, d = Content(Accepted(e)[k])
              PROVE  Waiting(d)' /\ Accepting(d)' = Accepting(d) /\ asker'[d] = asker[d]
            <4>1. d \in Conn /\ Waiting(d)
                BY <1>1, <2>1, <3>1, InboxType DEF Accord, AcceptedTrue
            <4>2. d # c
                BY <1>5, <4>1
            <4> QED  BY <1>4, <4>1, <4>2 DEF Unmoved, Calm
        <3> QED  BY <1>1, <1>9, <1>10, <2>1, <3>1, AcceptedTrueKept DEF Accord
    <2>9. OnItsWay(e)'
        <3>1. CASE e = c
            BY <1>7, <3>1 DEF OnItsWay
        <3>2. CASE e # c
            <4>1. Unmoved(e)
                BY <1>4, <3>2
            <4>2. \A b \in Conn : \A k \in DOMAIN Accepted(b) : Has(Accepted(b)', Accepted(b)[k])
                BY <1>9, HasOwn
            <4> QED  BY <2>1, <4>1, <4>2, OnItsWayKept DEF Unmoved, Calm, Accord
        <3> QED  BY <3>1, <3>2
    <2> QED  BY <2>2, <2>3, <2>4, <2>5, <2>6, <2>7, <2>8, <2>9 DEF Accord
<1> QED  BY <1>4, <1>11, MovesKept, FileInvKept

(* file_reject_res: the client has no file to send any more.                 *)
LEMMA RejectAgreed ==
    ASSUME ChatInv, FileInv, NEW c \in Conn, file_reject_res(c)
    PROVE  FileInv'
<1>1. /\ ChatTypeOK /\ mode[c] = "prompt" /\ asker' = asker /\ inbox' = inbox
      /\ client' = [client EXCEPT ![c].file_to_send = NoFile]
    BY DEF file_reject_res, ChatInv
<1>2. PICK q \in Reqs : q = Req(c, "FILE_REJECT", asker[c], NoFile)
    BY <1>1, ReqType DEF RequestTypes, ChatTypeOK
<1>3. /\ q.type = "FILE_REJECT"
      /\ SendsTo(c, q, "loop") /\ UNCHANGED <<regvars, asker, peer, inbox, down>>
    BY <1>2 DEF Req, file_reject_res
<1>4. /\ client'[c].file_to_send = NoFile /\ client'[c].nickname = client[c].nickname
      /\ client'[c].file_to_receive = client[c].file_to_receive
      /\ \A e \in Conn \ {c} : client'[e] = client[e]
    BY <1>1 DEF ChatTypeOK, Clients
<1>5. /\ Moves(c) /\ BlockedRight(c)' /\ (\A e \in Conn \ {c} : Unmoved(e))
      /\ Named(c)' = Named(c) /\ Asked(c)' = Asked(c) /\ Accepted(c)' = Accepted(c)
    BY <1>1, <1>3, <1>4, SendsAlone
<1>6. Queued(c)' = Append(Queued(c), q) /\ ~Waiting(c) /\ ~Waiting(c)'
    BY <1>1, <1>3, SendsToQueued DEF ChatInv, Sound
<1>7. Naming(c)' = Naming(c) /\ Asking(c)' = Asking(c) /\ Accepting(c)' = Accepting(c)
    BY <1>1, <1>3, <1>6, QueuedParts
<1>8. Calm(c)
    BY <1>1, <1>4, <1>5, <1>6, <1>7 DEF Calm, Engaged
<1>9. \A e \in Conn : client'[e].nickname = client[e].nickname /\ SendKept(e)
    BY <1>4 DEF SendKept
<1>10. NameFixed(c) /\ AskTrue(c) /\ user' = user /\ users' = users
    BY <1>3 DEF FileInv, Agreement, Accord, regvars, tables
<1>11. NameFixed(c)'
    BY <1>4, <1>5, <1>7, <1>10, NameFixedKept
<1>12. AskTrue(c)'
    BY <1>7, <1>9, <1>10, AskTrueKept DEF NickKept
<1>13. \A n : Settled(n)
    BY <1>9, AllSettled
<1> QED  BY <1>4, <1>5, <1>8, <1>11, <1>12, <1>13, MovesCalm DEF NickKept

-----------------------------------------------------------------------------
(* The client goes on.                                                       *)

(* The packet that was held back is queued: what the client has to say is    *)
(* the same.                                                                 *)
LEMMA UnblocksAgreed ==
    ASSUME ChatInv, FileInv, NEW c \in Conn, Unblocks(c)
    PROVE  FileInv'
<1>1. ChatTypeOK /\ mode[c] = "send" /\ blocked[c] # <<>>
    BY DEF Unblocks, ChatInv, Sound, Present
<1>2. PICK q \in Reqs : q = blocked[c][1]
    BY <1>1 DEF ChatTypeOK
<1>3. PICK next \in {"loop", "accept"} : next = blocked[c][2]
    BY <1>1 DEF ChatTypeOK
<1>4. /\ requests' = [requests EXCEPT ![c] = Append(@, q)]
      /\ mode' = [mode EXCEPT ![c] = next]
      /\ blocked' = [blocked EXCEPT ![c] = <<>>]
      /\ UNCHANGED <<regvars, client, asker, peer, inbox, serving, down>>
    BY <1>2, <1>3 DEF Unblocks
<1>5. requests[c] \in Seq(Reqs)
    BY <1>1 DEF ChatTypeOK
<1>6. PICK s \in Seq(Reqs) : s = Append(requests[c], q)
    BY <1>5, AppendProperties
<1>7. requests' = [requests EXCEPT ![c] = s]
    BY <1>4, <1>6
<1>8. /\ requests'[c] = s /\ mode'[c] = next /\ blocked'[c] = <<>>
      /\ \A e \in Conn \ {c} : requests'[e] = requests[e] /\ mode'[e] = mode[e]
                               /\ blocked'[e] = blocked[e]
    BY <1>1, <1>4, <1>7 DEF ChatTypeOK
<1>9. \A e \in Conn \ {c} : Same(e)
    BY <1>4, <1>8 DEF Same
<1>10. Queued(c)' = Queued(c)
    <2>1. Queued(c)' = s
        BY <1>6, <1>8, ConcatEmptySeq DEF Queued, Waits
    <2>2. Queued(c) = requests[c] \o <<q>>
        BY <1>1, <1>2 DEF Queued, Waits
    <2> QED  BY <1>5, <1>6, <2>1, <2>2, AppendIsConcat
<1>11. Naming(c)' = Naming(c) /\ Asking(c)' = Asking(c) /\ Accepting(c)' = Accepting(c)
    BY <1>10 DEF Naming, Asking, Accepting
<1>12. Named(c)' = Named(c) /\ Asked(c)' = Asked(c) /\ Accepted(c)' = Accepted(c)
    BY <1>4 DEF Named, Asked, Accepted
<1>13. (Waiting(c)' <=> Waiting(c)) /\ (Engaged(c)' <=> Engaged(c))
    BY <1>1, <1>3, <1>8 DEF Waiting, Engaged
<1>14. Calm(c) /\ Moves(c) /\ BlockedRight(c)'
    BY <1>4, <1>8, <1>9, <1>11, <1>12, <1>13 DEF Calm, Moves, BlockedRight
<1>15. \A e \in Conn : client'[e].nickname = client[e].nickname /\ SendKept(e)
    BY <1>4 DEF SendKept
<1>16. NameFixed(c) /\ AskTrue(c) /\ user' = user /\ users' = users
    BY <1>4 DEF FileInv, Agreement, Accord, regvars, tables
<1>17. NameFixed(c)'
    BY <1>11, <1>12, <1>15, <1>16, NameFixedKept
<1>18. AskTrue(c)'
    BY <1>11, <1>15, <1>16, AskTrueKept DEF NickKept
<1>19. \A n : Settled(n)
    BY <1>15, AllSettled
<1> QED  BY <1>9, <1>14, <1>15, <1>17, <1>18, <1>19, SameUnmoved, MovesCalm DEF NickKept

-----------------------------------------------------------------------------
(* The client reads.                                                         *)

(* A sequence with one more at its head.                                     *)
Heads(s, p, t) ==
    /\ \A x : Has(s, x) <=> x = p \/ Has(t, x)
    /\ 1 \in DOMAIN s /\ s[1] = p
    /\ \A k \in DOMAIN t : k # 0 /\ k + 1 \in DOMAIN s /\ s[k + 1] = t[k]

(* What it has.                                                              *)
LEMMA ConsHeads ==
    ASSUME NEW P, NEW p \in P, NEW t \in Seq(P), NEW s, s = <<p>> \o t
    PROVE  Heads(s, p, t)
<1>1. PICK a : a = <<p>>
    OBVIOUS
<1>2. a \in Seq(P) /\ Len(a) = 1 /\ DOMAIN a = {1} /\ a[1] = p
    BY <1>1
<1>3. /\ s \in Seq(P) /\ Len(s) = Len(a) + Len(t)
      /\ \A i \in 1..Len(a) + Len(t) : s[i] = IF i <= Len(a) THEN a[i] ELSE t[i - Len(a)]
    BY <1>1, <1>2, ConcatProperties
<1>4. PICK m \in Nat : m = Len(t)
    OBVIOUS
<1>5. /\ DOMAIN t = 1..m /\ DOMAIN s = 1..(1 + m)
      /\ \A i \in 1..(1 + m) : s[i] = IF i <= 1 THEN a[i] ELSE t[i - 1]
    BY <1>2, <1>3, <1>4
<1>6. 1 \in DOMAIN s /\ s[1] = p
    BY <1>2, <1>5
<1>7. \A k \in DOMAIN t : k # 0 /\ k + 1 \in DOMAIN s /\ s[k + 1] = t[k]
    BY <1>5
<1>8. \A x : Has(a, x) <=> x = p
    BY <1>2 DEF Has
<1>9. \A x : Has(s, x) <=> Has(a, x) \/ Has(t, x)
    BY <1>1, <1>2, ConcatHas
<1> QED  BY <1>6, <1>7, <1>8, <1>9 DEF Heads

(* The packet a client reads is the first of those of its type.              *)
LEMMA TakenParts ==
    ASSUME ChatTypeOK, NEW c \in Conn, inbox[c] # <<>>, Takes(c), NEW p, p = Head(inbox[c])
    PROVE  /\ p \in Mail /\ \A e \in Conn \ {c} : inbox'[e] = inbox[e]
           /\ p.type = "NICKNAME_NEW" => Heads(Named(c), p, Named(c)')
           /\ p.type # "NICKNAME_NEW" => Named(c)' = Named(c)
           /\ p.type = "FILE_REQUEST" => Heads(Asked(c), p, Asked(c)')
           /\ p.type # "FILE_REQUEST" => Asked(c)' = Asked(c)
           /\ p.type = "FILE_ACCEPT" => Heads(Accepted(c), p, Accepted(c)')
           /\ p.type # "FILE_ACCEPT" => Accepted(c)' = Accepted(c)
<1>1. inbox' = [inbox EXCEPT ![c] = Tail(@)]
    BY DEF Takes
<1>2. p \in Mail /\ \A e \in Conn \ {c} : inbox'[e] = inbox[e]
    BY <1>1, TakesSays
<1>3. PICK s \in Seq(Mail) : s = inbox[c]
    BY DEF ChatTypeOK
<1>4. PICK t \in Seq(Mail) : t = Tail(s)
    BY <1>3, HeadTailProperties
<1>5. inbox'[c] = t /\ p = Head(s) /\ s # <<>>
    BY <1>1, <1>3, <1>4 DEF ChatTypeOK
<1>6. ASSUME NEW types, NEW a, a = OfType(s, types), NEW b, b = OfType(t, types)
      PROVE  /\ p.type \in types => Heads(a, p, b)
             /\ p.type \notin types => b = a
    <2>1. b \in Seq(Mail)
        BY <1>6, OfTypeType
    <2>2. p.type \in types => a = <<p>> \o b
        BY <1>4, <1>5, <1>6, OfTypeTail
    <2>3. p.type \notin types => b = a
        BY <1>4, <1>5, <1>6, OfTypeTail
    <2> QED  BY <1>2, <2>1, <2>2, <2>3, ConsHeads
<1>7. /\ p.type = "NICKNAME_NEW" => Heads(Named(c), p, Named(c)')
      /\ p.type # "NICKNAME_NEW" => Named(c)' = Named(c)
    <2>1. Named(c) = OfType(s, {"NICKNAME_NEW"}) /\ Named(c)' = OfType(t, {"NICKNAME_NEW"})
        BY <1>3, <1>5 DEF Named
    <2> QED  BY <1>6, <2>1
<1>8. /\ p.type = "FILE_REQUEST" => Heads(Asked(c), p, Asked(c)')
      /\ p.type # "FILE_REQUEST" => Asked(c)' = Asked(c)
    <2>1. Asked(c) = OfType(s, {"FILE_REQUEST"}) /\ Asked(c)' = OfType(t, {"FILE_REQUEST"})
        BY <1>3, <1>5 DEF Asked
    <2> QED  BY <1>6, <2>1
<1>9. /\ p.type = "FILE_ACCEPT" => Heads(Accepted(c), p, Accepted(c)')
      /\ p.type # "FILE_ACCEPT" => Accepted(c)' = Accepted(c)
    <2>1. Accepted(c) = OfType(s, {"FILE_ACCEPT"}) /\ Accepted(c)' = OfType(t, {"FILE_ACCEPT"})
        BY <1>3, <1>5 DEF Accepted
    <2> QED  BY <1>6, <2>1
<1> QED  BY <1>2, <1>7, <1>8, <1>9

(* A client that reads keeps what it has queued.                             *)
LEMMA ReadQueued ==
    ASSUME NEW e, requests'[e] = requests[e], blocked'[e] = blocked[e]
    PROVE  Naming(e)' = Naming(e) /\ Asking(e)' = Asking(e) /\ Accepting(e)' = Accepting(e)
<1>1. Queued(e)' = Queued(e)
    BY DEF Queued, Waits
<1> QED  BY <1>1 DEF Naming, Asking, Accepting

(* The client takes up its nickname, which nobody goes by but itself.        *)
LEMMA NicknameRead ==
    ASSUME ChatInv, FileInv, NEW c \in Conn, mode[c] = "loop", inbox[c] # <<>>,
           NEW p, p = Head(inbox[c]), p.type = "NICKNAME_NEW",
           client_handle_nickname_new_res(c, p), Takes(c),
           UNCHANGED <<regvars, mode, asker, peer, blocked, requests, down>>
    PROVE  FileInv'
<1>1. ChatTypeOK /\ NameFixed(c) /\ AskTrue(c) /\ c \in users
    BY DEF ChatInv, Sound, Present, Running, FileInv, Agreement, Accord
<1>2. /\ p \in Mail /\ Heads(Named(c), p, Named(c)')
      /\ Asked(c)' = Asked(c) /\ Accepted(c)' = Accepted(c)
      /\ \A e \in Conn \ {c} : inbox'[e] = inbox[e]
    BY <1>1, TakenParts
<1>3. /\ client'[c].nickname = p.infos /\ client'[c].file_to_send = client[c].file_to_send
      /\ client'[c].file_to_receive = client[c].file_to_receive
      /\ \A e \in Conn \ {c} : client'[e] = client[e]
    BY <1>1 DEF ChatTypeOK, Clients, client_handle_nickname_new_res
<1>4. user[c].is_logged_in /\ p.infos = user[c].nickname
    BY <1>1, <1>2 DEF NameFixed, Heads
<1>5. NickKept(c)
    BY <1>1, <1>3, <1>4 DEF NameFixed, NickKept
<1>6. user' = user /\ users' = users
    BY DEF regvars, tables
<1>7. Naming(c)' = Naming(c) /\ Asking(c)' = Asking(c) /\ Accepting(c)' = Accepting(c)
    BY ReadQueued
<1>8. NameFixed(c)'
    <2>1. \A k \in DOMAIN Named(c)' : Named(c)'[k].infos = user'[c].nickname
        <3>1. PICK s : s = Named(c)
            OBVIOUS
        <3>2. PICK t : t = Named(c)'
            OBVIOUS
        <3>3. \A k \in DOMAIN s : s[k].infos = user[c].nickname
            BY <1>1, <3>1 DEF NameFixed
        <3>4. \A k \in DOMAIN t : t[k].infos = user[c].nickname
            BY <1>2, <3>1, <3>2, <3>3 DEF Heads
        <3> QED  BY <1>6, <3>2, <3>4
    <2>2. Naming(c)' = <<>> \/ (~user'[c].is_logged_in /\ \E q \in Reqs : Naming(c)' = <<q>>)
        BY <1>1, <1>4, <1>7 DEF NameFixed
    <2> QED  BY <1>1, <1>3, <1>4, <1>6, <2>1, <2>2 DEF NameFixed
<1>9. SendKept(c)
    BY <1>3 DEF SendKept
<1>10. AskTrue(c)'
    BY <1>1, <1>5, <1>7, <1>9, AskTrueKept
<1>11. ASSUME NEW n, Open(n) PROVE Settled(n)
    <2>1. PICK e \in Conn : n # Empty /\ client[e].nickname = n
        BY <1>11, Owner
    <2>2. client'[c].nickname = n => client[c].nickname = n
        BY <1>1, <1>3, <1>4, <2>1, OneOwner
    <2> QED  BY <1>3, <1>9, <2>2 DEF Settled, SendKept
<1>12. \A e \in Conn \ {c} : Same(e)
    BY <1>2, <1>3 DEF Same
<1>13. \A e \in Conn \ {c} : Unmoved(e)
    BY <1>12, SameUnmoved
<1>14. Moves(c) /\ BlockedRight(c)'
    BY <1>12 DEF Moves, BlockedRight, FileInv, Agreement
<1>15. Calm(c)
    BY <1>2, <1>3, <1>7 DEF Calm, Waiting, Engaged
<1> QED  BY <1>5, <1>8, <1>10, <1>11, <1>13, <1>14, <1>15, MovesCalm

(* A packet that is only shown, or the end of a transfer: the client is in   *)
(* the loop.                                                                 *)
LEMMA LoopAgreed ==
    ASSUME ChatInv, FileInv, NEW c \in Conn, mode[c] \in {"loop", "sending", "receiving"},
           mode'[c] = "loop", Named(c)' = Named(c), Asked(c)' = Asked(c), Accepted(c)' = Accepted(c),
           \A e \in Conn \ {c} : mode'[e] = mode[e] /\ inbox'[e] = inbox[e],
           UNCHANGED <<regvars, client, asker, peer, blocked, requests, down>>
    PROVE  FileInv'
<1>1. NameFixed(c) /\ AskTrue(c) /\ user' = user /\ users' = users
    BY DEF FileInv, Agreement, Accord, regvars, tables
<1>2. Naming(c)' = Naming(c) /\ Asking(c)' = Asking(c) /\ Accepting(c)' = Accepting(c)
    BY ReadQueued
<1>3. \A e \in Conn : client'[e].nickname = client[e].nickname /\ SendKept(e)
    BY DEF SendKept
<1>4. NameFixed(c)'
    BY <1>1, <1>2, <1>3, NameFixedKept
<1>5. AskTrue(c)'
    BY <1>1, <1>2, <1>3, AskTrueKept DEF NickKept
<1>6. \A n : Settled(n)
    BY <1>3, AllSettled
<1>7. \A e \in Conn \ {c} : Same(e)
    BY DEF Same
<1>8. \A e \in Conn \ {c} : Unmoved(e)
    BY <1>7, SameUnmoved
<1>9. Moves(c) /\ BlockedRight(c)'
    BY <1>7 DEF Moves, BlockedRight, FileInv, Agreement
<1>10. Calm(c)
    BY <1>2 DEF Calm, Waiting, Engaged
<1> QED  BY <1>3, <1>4, <1>5, <1>6, <1>8, <1>9, <1>10, MovesCalm DEF NickKept

(* The client stops at the prompt: the file it is asked to take is the one   *)
(* that whoever asks is to send.                                             *)
LEMMA RequestRead ==
    ASSUME ChatInv, FileInv, NEW c \in Conn, mode[c] = "loop", inbox[c] # <<>>,
           NEW p, p = Head(inbox[c]), p.type = "FILE_REQUEST",
           client_handle_file_request_res(c, p), Takes(c),
           UNCHANGED <<regvars, peer, blocked, requests, down>>
    PROVE  FileInv'
<1>1. ChatTypeOK /\ (\A e \in Conn : Accord(e)) /\ ~Waiting(c)
    BY LoopQueue DEF ChatInv, FileInv, Agreement
<1>2. /\ p \in Mail /\ Heads(Asked(c), p, Asked(c)')
      /\ Named(c)' = Named(c) /\ Accepted(c)' = Accepted(c)
      /\ \A e \in Conn \ {c} : inbox'[e] = inbox[e]
    BY <1>1, TakenParts
<1>3. /\ client'[c].file_to_receive = Content(p) /\ client'[c].nickname = client[c].nickname
      /\ client'[c].file_to_send = client[c].file_to_send
      /\ \A e \in Conn \ {c} : client'[e] = client[e]
    BY <1>1 DEF ChatTypeOK, Clients, client_handle_file_request_res
<1>4. /\ mode'[c] = "prompt" /\ asker'[c] = p.infos
      /\ \A e \in Conn \ {c} : mode'[e] = mode[e] /\ asker'[e] = asker[e]
    BY <1>1 DEF ChatTypeOK, client_handle_file_request_res
<1>5. \A e \in Conn \ {c} : Same(e)
    BY <1>2, <1>3, <1>4 DEF Same
<1>6. \A e \in Conn \ {c} : Unmoved(e)
    BY <1>5, SameUnmoved
<1>7. Moves(c) /\ BlockedRight(c)'
    BY <1>4, <1>5 DEF Moves, BlockedRight, FileInv, Agreement
<1>8. ~Waiting(c)'
    BY <1>4 DEF Waiting
<1>9. /\ user' = user /\ users' = users /\ offers' = offers
      /\ \A e \in Conn : client'[e].nickname = client[e].nickname /\ NickKept(e) /\ SendKept(e)
    BY <1>3 DEF NickKept, SendKept, regvars, tables
<1>10. \A n : Settled(n)
    BY <1>9, AllSettled
<1>11. ASSUME NEW e \in Conn
       PROVE  /\ Naming(e)' = Naming(e) /\ Asking(e)' = Asking(e) /\ Accepting(e)' = Accepting(e)
              /\ Named(e)' = Named(e) /\ Accepted(e)' = Accepted(e)
    <2>1. CASE e = c
        BY <1>2, <2>1, ReadQueued
    <2>2. CASE e # c
        BY <1>6, <2>2 DEF Unmoved, Calm
    <2> QED  BY <2>1, <2>2
<1>12. ASSUME NEW e \in Conn PROVE Accord(e)'
    <2>1. Accord(e)
        BY <1>1
    <2>2. NameFixed(e)'
        BY <1>9, <1>11, <2>1, NameFixedKept DEF Accord
    <2>3. OfferTrue(e)'
        BY <1>9, <2>1, HasOwn, OfferTrueKept DEF Accord
    <2>4. AskTrue(e)'
        BY <1>9, <1>11, <2>1, AskTrueKept DEF Accord
    <2>5. AskedTrue(e)'
        <3>1. \A k \in DOMAIN Asked(e)' : Has(Asked(e), Asked(e)'[k])
            <4>1. CASE e = c
                <5>1. PICK s : s = Asked(c)
                    OBVIOUS
                <5>2. PICK t : t = Asked(c)'
                    OBVIOUS
                <5>3. \A k \in DOMAIN t : Has(s, t[k])
                    BY <1>2, <5>1, <5>2, HasOwn DEF Heads
                <5> QED  BY <4>1, <5>1, <5>2, <5>3
            <4>2. CASE e # c
                BY <1>6, <4>2, HasOwn DEF Unmoved, Calm
            <4> QED  BY <4>1, <4>2
        <3>2. \A k \in DOMAIN Asked(e) : Settled(Asked(e)[k].infos)
            BY <1>10
        <3> QED  BY <2>1, <3>1, <3>2, AskedTrueKept DEF Accord
    <2>6. EngagedTrue(e)'
        <3>1. CASE e = c
            <4>1. WillSend(p.infos, Content(p))
                BY <1>1, <1>2 DEF Accord, AskedTrue, Heads
            <4>2. PICK n : n = p.infos
                OBVIOUS
            <4>3. PICK f : f = Content(p)
                OBVIOUS
            <4>4. Settled(n)
                BY <1>10
            <4>5. WillSend(n, f)'
                BY <4>1, <4>2, <4>3, <4>4, WillSendKept
            <4> QED  BY <1>3, <1>4, <3>1, <4>2, <4>3, <4>5 DEF EngagedTrue, WillSend
        <3>2. CASE e # c
            <4>1. Unmoved(e) /\ Settled(asker[e])
                BY <1>6, <1>10, <3>2
            <4> QED  BY <2>1, <4>1, EngagedTrueKept DEF Unmoved, Calm, Accord
        <3> QED  BY <3>1, <3>2
    <2>7. AcceptTrue(e)'
        <3>1. CASE e = c
            BY <1>1, <1>11, <3>1 DEF AcceptTrue, Accord
        <3>2. CASE e # c
            <4>1. Unmoved(e)
                BY <1>6, <3>2
            <4> QED  BY <2>1, <4>1, AcceptTrueKept DEF Unmoved, Calm, Accord
        <3> QED  BY <3>1, <3>2
    <2>8. AcceptedTrue(e)'
        <3>1. ASSUME NEW k \in DOMAIN Accepted(e), NEW d, d = Content(Accepted(e)[k])
              PROVE  Waiting(d)' /\ Accepting(d)' = Accepting(d) /\ asker'[d] = asker[d]
            <4>1. d \in Conn /\ Waiting(d)
                BY <1>1, <2>1, <3>1, InboxType DEF Accord, AcceptedTrue
            <4>2. d # c
                BY <1>1, <4>1
            <4> QED  BY <1>6, <4>1, <4>2 DEF Unmoved, Calm
        <3> QED  BY <1>1, <1>9, <1>11, <2>1, <3>1, AcceptedTrueKept DEF Accord
    <2>9. OnItsWay(e)'
        <3>1. CASE e = c
            BY <1>8, <3>1 DEF OnItsWay
        <3>2. CASE e # c
            <4>1. Unmoved(e)
                BY <1>6, <3>2
            <4>2. \A b \in Conn : \A k \in DOMAIN Accepted(b) : Has(Accepted(b)', Accepted(b)[k])
                BY <1>11, HasOwn
            <4> QED  BY <2>1, <4>1, <4>2, OnItsWayKept DEF Unmoved, Calm, Accord
        <3> QED  BY <3>1, <3>2
    <2> QED  BY <2>2, <2>3, <2>4, <2>5, <2>6, <2>7, <2>8, <2>9 DEF Accord
<1> QED  BY <1>7, <1>12, MovesKept, FileInvKept

(* A client whose acceptance the server has served is in accept, and not     *)
(* still trying to send it.                                                  *)
LEMMA InAccept ==
    ASSUME ChatInv, FileInv, NEW d \in Conn, Waiting(d), Accepting(d) = <<>>
    PROVE  mode[d] = "accept"
<1>1. ChatTypeOK /\ BlockedRight(d)
    BY DEF ChatInv, FileInv, Agreement
<1> SUFFICES ASSUME mode[d] = "send", blocked[d][2] = "accept" PROVE FALSE
    BY DEF Waiting
<1>2. blocked[d] # <<>>
    BY DEF ChatInv, Sound, Present
<1>3. PICK q : q = blocked[d][1]
    OBVIOUS
<1>4. q.type = "FILE_ACCEPT"
    BY <1>1, <1>2, <1>3 DEF BlockedRight
<1>5. requests[d] \in Seq(Reqs) /\ Waits(d) \in Seq(Reqs) /\ Queued(d) \in Seq(Reqs)
    BY <1>1, QueuedType DEF ChatTypeOK
<1>6. PICK w : w = Waits(d)
    OBVIOUS
<1>7. w = <<q>>
    BY <1>2, <1>3, <1>6 DEF Waits
<1>8. Has(w, q)
    BY <1>7 DEF Has
<1>9. Has(Queued(d), q)
    BY <1>5, <1>6, <1>8, ConcatHas DEF Queued
<1>10. Holds(Accepting(d), Queued(d), {"FILE_ACCEPT"})
    BY <1>5, OfTypeHolds DEF Accepting
<1>11. Has(Accepting(d), q)
    BY <1>4, <1>9, <1>10 DEF Holds, Has
<1>12. PICK o : o = Accepting(d)
    OBVIOUS
<1>13. DOMAIN o = {}
    BY <1>12
<1> QED  BY <1>11, <1>12, <1>13 DEF Has

(* The acceptance a client reads is by a client that waits for it.           *)
LEMMA AcceptanceTrue ==
    ASSUME ChatInv, FileInv, NEW c \in Conn, inbox[c] # <<>>,
           NEW p, p = Head(inbox[c]), p.type = "FILE_ACCEPT", NEW d, d = Content(p)
    PROVE  /\ d \in Conn /\ mode[d] = "accept" /\ Accepting(d) = <<>>
           /\ asker[d] = client[c].nickname /\ asker[d] # Empty
<1>1. AcceptedTrue(c)
    BY DEF FileInv, Agreement, Accord
<1>2. PICK i \in Seq(Mail) : i = inbox[c]
    BY DEF ChatInv, ChatTypeOK
<1>3. p \in Mail /\ Has(i, p)
    BY <1>2, HeadTailProperties DEF Has
<1>4. d \in Conn
    BY <1>3, MailContents
<1>5. PICK s : s = Accepted(c)
    OBVIOUS
<1>6. Holds(s, i, {"FILE_ACCEPT"})
    BY <1>2, <1>5, OfTypeHolds DEF Accepted
<1>7. Has(s, p)
    BY <1>3, <1>6 DEF Holds, Has
<1>8. Waiting(d) /\ Accepting(d) = <<>> /\ asker[d] = client[c].nickname /\ asker[d] # Empty
    BY <1>1, <1>5, <1>7 DEF AcceptedTrue, Has
<1> QED  BY <1>4, <1>8, InAccept

(* It is the only one from there that any client has to read.                *)
LEMMA AcceptanceSays ==
    ASSUME ChatInv, FileInv, NEW c \in Conn, inbox[c] # <<>>, Takes(c),
           NEW p, p = Head(inbox[c]), p.type = "FILE_ACCEPT", NEW d, d = Content(p)
    PROVE  /\ \A e \in Conn : \A k \in DOMAIN Accepted(e)' :
                 Has(Accepted(e), Accepted(e)'[k]) /\ Content(Accepted(e)'[k]) # d
           /\ \A e \in Conn : \A k \in DOMAIN Accepted(e) :
                 Content(Accepted(e)[k]) # d => Has(Accepted(e)', Accepted(e)[k])
<1>1. /\ ChatTypeOK /\ AcceptedTrue(c) /\ NameFixed(c)
      /\ \A e \in Conn : AcceptedTrue(e)
    BY DEF ChatInv, FileInv, Agreement, Accord
<1>2. PICK s : s = Accepted(c)
    OBVIOUS
<1>3. PICK t : t = Accepted(c)'
    OBVIOUS
<1>4. p \in Mail /\ Heads(s, p, t) /\ \A e \in Conn \ {c} : inbox'[e] = inbox[e]
    BY <1>1, <1>2, <1>3, TakenParts
<1>5. d \in Conn /\ asker[d] = client[c].nickname /\ asker[d] # Empty
    BY AcceptanceTrue
<1>6. 1 \in DOMAIN s /\ s[1] = p
    BY <1>4 DEF Heads
<1>7. \A e \in Conn \ {c} : Accepted(e)' = Accepted(e)
    BY <1>4 DEF Accepted
<1>8. ASSUME NEW e \in Conn \ {c}, NEW k \in DOMAIN Accepted(e)
       PROVE  Content(Accepted(e)[k]) # d
    <2> SUFFICES ASSUME Content(Accepted(e)[k]) = d PROVE FALSE
        OBVIOUS
    <2>1. PICK n : n = asker[d]
        OBVIOUS
    <2>2. client[e].nickname = n /\ n # Empty /\ client[c].nickname = n
        BY <1>1, <1>5, <2>1, <1>8 DEF AcceptedTrue
    <2>3. c \in users /\ user[c].nickname = n
        BY <1>1, <2>2 DEF NameFixed
    <2>4. c = e
        BY <2>2, <2>3, OneOwner
    <2> QED  BY <2>4
<1>9. ASSUME NEW k \in DOMAIN t
       PROVE  Has(s, t[k]) /\ Content(t[k]) # d
    <2>1. k # 0 /\ k + 1 \in DOMAIN s /\ s[k + 1] = t[k]
        BY <1>4 DEF Heads
    <2>2. k \in Nat
        <3>1. t \in Seq(Mail)
            <4>1. OfType(Tail(inbox[c]), {"FILE_ACCEPT"}) \in Seq(Mail)
                BY <1>1, OfTypeType, HeadTailProperties DEF ChatTypeOK
            <4>2. inbox'[c] = Tail(inbox[c])
                BY <1>1 DEF Takes, ChatTypeOK
            <4> QED  BY <1>3, <4>1, <4>2 DEF Accepted
        <3> QED  BY <3>1
    <2>3. Content(s[k + 1]) = Content(s[1]) => k + 1 = 1
        BY <1>1, <1>2, <1>6, <2>1 DEF AcceptedTrue
    <2>4. k + 1 # 1
        BY <2>1, <2>2
    <2> QED  BY <1>6, <2>1, <2>3, <2>4 DEF Has
<1>10. \A e \in Conn : \A k \in DOMAIN Accepted(e)' :
          Has(Accepted(e), Accepted(e)'[k]) /\ Content(Accepted(e)'[k]) # d
    <2> SUFFICES ASSUME NEW e \in Conn, NEW k \in DOMAIN Accepted(e)'
                 PROVE  Has(Accepted(e), Accepted(e)'[k]) /\ Content(Accepted(e)'[k]) # d
        BY DEF Content
    <2>1. CASE e = c
        BY <1>2, <1>3, <1>9, <2>1 DEF Content
    <2>2. CASE e # c
        BY <1>7, <1>8, <2>2, HasOwn DEF Content
    <2> QED  BY <2>1, <2>2
<1>11. \A e \in Conn : \A k \in DOMAIN Accepted(e) :
          Content(Accepted(e)[k]) # d => Has(Accepted(e)', Accepted(e)[k])
    <2> SUFFICES ASSUME NEW e \in Conn, NEW k \in DOMAIN Accepted(e), Content(Accepted(e)[k]) # d
                 PROVE  Has(Accepted(e)', Accepted(e)[k])
        OBVIOUS
    <2>1. CASE e = c
        <3>1. Has(s, s[k])
            BY <1>2, <2>1, HasOwn
        <3>2. s[k] = p \/ Has(t, s[k])
            BY <1>4, <3>1 DEF Heads
        <3>3. s[k] # p
            BY <1>2, <2>1
        <3> QED  BY <1>2, <1>3, <2>1, <3>2, <3>3
    <2>2. CASE e # c
        BY <1>7, <2>2, HasOwn
    <2> QED  BY <2>1, <2>2
<1> QED  BY <1>10, <1>11


(* Those that are left are apart.                                            *)
LEMMA AcceptanceApart ==
    ASSUME ChatTypeOK, NEW c \in Conn, AcceptedTrue(c), inbox[c] # <<>>, Takes(c),
           Head(inbox[c]).type = "FILE_ACCEPT", NEW t, t = Accepted(c)'
    PROVE  \A j, k \in DOMAIN t : Content(t[j]) = Content(t[k]) => j = k
<1>1. PICK s : s = Accepted(c)
    OBVIOUS
<1>2. PICK p : p = Head(inbox[c])
    OBVIOUS
<1>3. Heads(s, p, t)
    BY <1>1, <1>2, TakenParts
<1>4. DOMAIN t \subseteq Nat
    <2>1. OfType(Tail(inbox[c]), {"FILE_ACCEPT"}) \in Seq(Mail)
        BY OfTypeType, HeadTailProperties DEF ChatTypeOK
    <2>2. inbox'[c] = Tail(inbox[c])
        BY DEF Takes, ChatTypeOK
    <2>3. t \in Seq(Mail)
        BY <2>1, <2>2 DEF Accepted
    <2> QED  BY <2>3
<1> SUFFICES ASSUME NEW j \in DOMAIN t, NEW k \in DOMAIN t, Content(t[j]) = Content(t[k])
             PROVE  j = k
    OBVIOUS
<1>5. /\ j + 1 \in DOMAIN s /\ s[j + 1] = t[j]
      /\ k + 1 \in DOMAIN s /\ s[k + 1] = t[k]
    BY <1>3 DEF Heads
<1>6. \A l, m \in DOMAIN s : Content(s[l]) = Content(s[m]) => l = m
    BY <1>1 DEF AcceptedTrue
<1>7. j + 1 = k + 1
    BY <1>5, <1>6
<1> QED  BY <1>4, <1>7

(* The two connect: the file to send is the one that was accepted.           *)
LEMMA AcceptanceRead ==
    ASSUME ChatInv, FileInv, NEW c \in Conn, mode[c] = "loop", inbox[c] # <<>>,
           NEW p, p = Head(inbox[c]), p.type = "FILE_ACCEPT", NEW d, d = Content(p),
           client_handle_file_accept_res(c, d)
    PROVE  FileInv'
<1>1. ChatTypeOK /\ (\A e \in Conn : Accord(e)) /\ ~Waiting(c) /\ Steady
    BY LoopQueue DEF ChatInv, FileInv, Agreement
<1>2. /\ d \in Conn /\ mode[d] = "accept" /\ Accepting(d) = <<>> /\ d # c
      /\ asker[d] = client[c].nickname
    BY AcceptanceTrue
<1>3. /\ mode' = [mode EXCEPT ![c] = "sending", ![d] = "receiving"]
      /\ peer' = [peer EXCEPT ![c] = d, ![d] = c]
      /\ Takes(c)
      /\ UNCHANGED <<regvars, client, asker, blocked, requests, down>>
    BY <1>2 DEF client_handle_file_accept_res
<1>4. /\ mode'[c] = "sending" /\ mode'[d] = "receiving"
      /\ \A e \in Conn \ {c, d} : mode'[e] = mode[e]
    BY <1>1, <1>2, <1>3 DEF ChatTypeOK
<1>5. /\ peer'[c] = d /\ peer'[d] = c /\ peer' \in [Conn -> Conn \cup {NoConn}]
      /\ \A e \in Conn \ {c, d} : peer'[e] = peer[e]
    BY <1>1, <1>2, <1>3 DEF Steady
<1>6. /\ Named(c)' = Named(c) /\ Asked(c)' = Asked(c)
      /\ \A e \in Conn \ {c} : inbox'[e] = inbox[e]
    BY <1>1, <1>3, TakenParts
<1>7. /\ \A e \in Conn : \A k \in DOMAIN Accepted(e)' :
            Has(Accepted(e), Accepted(e)'[k]) /\ Content(Accepted(e)'[k]) # d
      /\ \A e \in Conn : \A k \in DOMAIN Accepted(e) :
            Content(Accepted(e)[k]) # d => Has(Accepted(e)', Accepted(e)[k])
    BY <1>3, AcceptanceSays
<1>8. ASSUME NEW e \in Conn
      PROVE  /\ Naming(e)' = Naming(e) /\ Asking(e)' = Asking(e) /\ Accepting(e)' = Accepting(e)
             /\ Named(e)' = Named(e) /\ Asked(e)' = Asked(e)
             /\ Engaged(e)' => Engaged(e)
             /\ e # d => (Waiting(e)' <=> Waiting(e))
    <2>1. Naming(e)' = Naming(e) /\ Asking(e)' = Asking(e) /\ Accepting(e)' = Accepting(e)
        BY <1>3, ReadQueued
    <2>2. Named(e)' = Named(e) /\ Asked(e)' = Asked(e)
        BY <1>6 DEF Named, Asked
    <2>3. /\ Engaged(e)' => Engaged(e)
          /\ e # d => (Waiting(e)' <=> Waiting(e))
        BY <1>1, <1>3, <1>4 DEF Engaged, Waiting
    <2> QED  BY <2>1, <2>2, <2>3
<1>9. ~Waiting(d)'
    BY <1>4 DEF Waiting
<1>10. /\ client' = client /\ asker' = asker
       /\ user' = user /\ users' = users /\ offers' = offers
       /\ \A n : Settled(n)
       /\ \A e \in Conn : NickKept(e) /\ SendKept(e)
    BY <1>3 DEF Settled, NickKept, SendKept, regvars, tables
<1>11. ASSUME NEW e \in Conn PROVE Accord(e)'
    <2>1. Accord(e)
        BY <1>1
    <2>2. NameFixed(e)'
        BY <1>8, <1>10, <2>1, NameFixedKept DEF Accord
    <2>3. OfferTrue(e)'
        BY <1>10, <2>1, HasOwn, OfferTrueKept DEF Accord
    <2>4. AskTrue(e)'
        BY <1>8, <1>10, <2>1, AskTrueKept DEF Accord
    <2>5. AskedTrue(e)'
        <3>1. \A k \in DOMAIN Asked(e)' : Has(Asked(e), Asked(e)'[k])
            BY <1>8, HasOwn
        <3>2. \A k \in DOMAIN Asked(e) : Settled(Asked(e)[k].infos)
            BY <1>10
        <3> QED  BY <2>1, <3>1, <3>2, AskedTrueKept DEF Accord
    <2>6. EngagedTrue(e)'
        <3>1. Settled(asker[e])
            BY <1>10
        <3> QED  BY <1>8, <1>10, <2>1, <3>1, EngagedTrueKept DEF Accord
    <2>7. AcceptTrue(e)'
        <3>1. CASE e = d
            BY <1>2, <1>8, <3>1 DEF AcceptTrue
        <3>2. CASE e # d
            BY <1>8, <1>10, <2>1, <3>2, AcceptTrueKept DEF Accord
        <3> QED  BY <3>1, <3>2
    <2>8. AcceptedTrue(e)'
        <3>1. PICK s : s = Accepted(e)
            OBVIOUS
        <3>2. PICK t : t = Accepted(e)'
            OBVIOUS
        <3>3. ASSUME NEW k \in DOMAIN t, NEW b, b = Content(t[k])
              PROVE  /\ Waiting(b)' /\ Accepting(b)' = <<>>
                     /\ asker'[b] = client'[e].nickname /\ asker'[b] # Empty
            <4>1. Has(s, t[k]) /\ b # d
                BY <1>7, <3>1, <3>2, <3>3 DEF Content
            <4>2. PICK j \in DOMAIN s : s[j] = t[k]
                BY <4>1 DEF Has
            <4>3. /\ Waiting(b) /\ Accepting(b) = <<>>
                  /\ asker[b] = client[e].nickname /\ asker[b] # Empty
                BY <2>1, <3>1, <3>3, <4>2 DEF Accord, AcceptedTrue
            <4>4. b \in Conn
                BY <1>1, <3>1, <3>3, <4>2, InboxType
            <4> QED  BY <1>8, <1>10, <4>1, <4>3, <4>4
        <3>4. \A j, k \in DOMAIN t : Content(t[j]) = Content(t[k]) => j = k
            <4>1. CASE e = c
                BY <1>1, <1>3, <2>1, <3>2, <4>1, AcceptanceApart DEF Accord
            <4>2. CASE e # c
                BY <1>6, <2>1, <3>2, <4>2 DEF Accord, AcceptedTrue, Accepted
            <4> QED  BY <4>1, <4>2
        <3> QED  BY <3>2, <3>3, <3>4 DEF AcceptedTrue, Content
    <2>9. OnItsWay(e)'
        <3>1. CASE e = d
            BY <1>9, <3>1 DEF OnItsWay
        <3>2. CASE e # d
            <4>1. \A b \in Conn : \A k \in DOMAIN Accepted(b) :
                     Content(Accepted(b)[k]) = e => Has(Accepted(b)', Accepted(b)[k])
                BY <1>7, <3>2
            <4> QED  BY <1>8, <2>1, <3>2, <4>1, OnItsWayKept DEF Accord
        <3> QED  BY <3>1, <3>2
    <2> QED  BY <2>2, <2>3, <2>4, <2>5, <2>6, <2>7, <2>8, <2>9 DEF Accord
<1>12. Steady'
    <2>1. ASSUME NEW e \in Conn
          PROVE  /\ mode'[e] # "gone"
                 /\ mode'[e] = "off" => inbox'[e] = <<>>
                 /\ mode'[e] \in {"sending", "receiving"} => peer'[e] \in Conn
        <3>1. CASE e \in {c, d}
            BY <1>2, <1>4, <1>5, <3>1
        <3>2. CASE e \notin {c, d}
            BY <1>1, <1>4, <1>5, <1>6, <3>2 DEF Steady
        <3> QED  BY <3>1, <3>2
    <2>2. Up'
        BY <1>1, <1>3 DEF Steady, Up, regvars
    <2> QED  BY <1>5, <2>1, <2>2 DEF Steady
<1>13. \A e \in Conn : BlockedRight(e)'
    BY <1>3 DEF BlockedRight, FileInv, Agreement
<1>14. ASSUME NEW e \in Conn PROVE TransferTrue(e)'
    <2>1. CASE e = c
        <3>1. PICK n : n = asker[d]
            OBVIOUS
        <3>2. client[c].file_to_send \in {client[d].file_to_receive, NoFile}
            <4>1. EngagedTrue(d) /\ Engaged(d)
                BY <1>1, <1>2 DEF Accord, Engaged, Waiting
            <4> QED  BY <1>2, <4>1 DEF EngagedTrue, WillSend
        <3> QED  BY <1>2, <1>5, <1>10, <2>1, <3>2 DEF TransferTrue
    <2>2. CASE e = d
        BY <1>4, <2>2 DEF TransferTrue, Transferring
    <2>3. CASE e \notin {c, d}
        <3> SUFFICES ASSUME mode'[e] = "sending", mode'[peer'[e]] = "receiving", peer'[peer'[e]] = e
                     PROVE  /\ asker'[peer'[e]] = client'[e].nickname
                            /\ client'[e].file_to_send \in {client'[peer'[e]].file_to_receive, NoFile}
            BY DEF TransferTrue, Transferring
        <3>1. mode[e] = "sending" /\ peer'[e] = peer[e]
            BY <1>4, <1>5, <2>3
        <3>2. PICK b \in Conn : peer[e] = b
            BY <1>1, <3>1 DEF Steady
        <3>3. mode'[b] = "receiving" /\ peer'[b] = e
            BY <3>1, <3>2
        <3>4. b \notin {c, d}
            BY <1>4, <1>5, <2>3, <3>3
        <3>5. mode[b] = "receiving" /\ peer[b] = e
            BY <1>4, <1>5, <3>3, <3>4
        <3>6. asker[b] = client[e].nickname /\ client[e].file_to_send \in {client[b].file_to_receive, NoFile}
            BY <3>1, <3>2, <3>5 DEF TransferTrue, Transferring, FileInv, Agreement
        <3> QED  BY <1>10, <3>1, <3>2, <3>6
    <2> QED  BY <2>1, <2>2, <2>3
<1> QED  BY <1>11, <1>12, <1>13, <1>14, FileInvKept

(* What a client reads leaves the clients in agreement.                      *)
LEMMA ReadsAgreed ==
    ASSUME ChatInv, FileInv, NEW c \in Conn, Reads(c)
    PROVE  FileInv'
<1>1. ChatTypeOK /\ mode[c] = "loop" /\ inbox[c] # <<>>
    BY DEF Reads, ChatInv
<1>2. PICK p : p = Head(inbox[c])
    OBVIOUS
<1>3. CASE p.type = "NICKNAME_NEW"
    <2>1. /\ client_handle_nickname_new_res(c, p) /\ Takes(c)
          /\ UNCHANGED <<regvars, mode, asker, peer, blocked, requests, down>>
        BY <1>2, <1>3 DEF Reads
    <2> QED  BY <1>1, <1>2, <1>3, <2>1, NicknameRead
<1>4. CASE p.type = "FILE_REQUEST"
    <2>1. /\ client_handle_file_request_res(c, p) /\ Takes(c)
          /\ UNCHANGED <<regvars, peer, blocked, requests, down>>
        BY <1>2, <1>4 DEF Reads
    <2> QED  BY <1>1, <1>2, <1>4, <2>1, RequestRead
<1>5. CASE p.type = "FILE_ACCEPT"
    <2>1. client_handle_file_accept_res(c, Content(p))
        BY <1>2, <1>5 DEF Reads
    <2> QED  BY <1>1, <1>2, <1>5, <2>1, AcceptanceRead
<1>6. CASE p.type \notin {"NICKNAME_NEW", "FILE_REQUEST", "FILE_ACCEPT"}
    <2>1. Takes(c) /\ UNCHANGED <<regvars, mode, client, asker, peer, blocked, requests, down>>
        BY <1>2, <1>6 DEF Reads
    <2>2. /\ Named(c)' = Named(c) /\ Asked(c)' = Asked(c) /\ Accepted(c)' = Accepted(c)
          /\ \A e \in Conn \ {c} : inbox'[e] = inbox[e]
        BY <1>1, <1>2, <1>6, <2>1, TakenParts
    <2> QED  BY <1>1, <2>1, <2>2, LoopAgreed
<1> QED  BY <1>3, <1>4, <1>5, <1>6

(* So does all that a client does without its user: nobody goes.             *)
LEMMA RunsAgreed ==
    ASSUME Habits = {}, ChatInv, FileInv, NEW c \in Conn, Runs(c)
    PROVE  FileInv'
<1>1. CASE Unblocks(c)
    BY <1>1, UnblocksAgreed
<1>2. CASE Reads(c)
    BY <1>2, ReadsAgreed
<1>3. CASE ServerLost(c)
    BY <1>3 DEF ServerLost, FileInv, Steady
<1>4. CASE TransferEnds(c)
    <2>1. ChatTypeOK /\ mode[c] \in {"sending", "receiving"} /\ mode[peer[c]] # "gone"
        BY <1>4 DEF TransferEnds, FileInv, Steady, ChatInv
    <2>2. /\ mode' = [mode EXCEPT ![c] = "loop"]
          /\ UNCHANGED <<regvars, client, asker, peer, blocked, inbox, requests, down>>
        BY <1>4, <2>1 DEF TransferEnds
    <2>3. mode'[c] = "loop" /\ \A e \in Conn \ {c} : mode'[e] = mode[e] /\ inbox'[e] = inbox[e]
        BY <2>1, <2>2 DEF ChatTypeOK
    <2>4. Named(c)' = Named(c) /\ Asked(c)' = Asked(c) /\ Accepted(c)' = Accepted(c)
        BY <2>2 DEF Named, Asked, Accepted
    <2> QED  BY <2>1, <2>2, <2>3, <2>4, LoopAgreed
<1> QED  BY <1>1, <1>2, <1>3, <1>4 DEF Runs

(* And all that its user does, who types no other commands.                  *)
LEMMA TypedAgreed ==
    ASSUME Habits = {}, ChatInv, FileInv, NEW c \in Conn, Commanded(c) \/ Answers(c)
    PROVE  FileInv'
BY NickTyped, BroadcastTyped, SendTyped, AcceptAgreed, RejectAgreed DEF Commanded, Answers

-----------------------------------------------------------------------------
(* The server.                                                               *)

(* A plain packet is none of those that count.                               *)
LEMMA PlainParts ==
    ASSUME NEW s \in Seq(Mail), Plain(s)
    PROVE  /\ OfType(s, {"NICKNAME_NEW"}) = <<>> /\ OfType(s, {"FILE_REQUEST"}) = <<>>
           /\ OfType(s, {"FILE_ACCEPT"}) = <<>>
BY OfTypeNone DEF Plain

(* A client that arrives has nothing to say or to read but a welcome.        *)
LEMMA ArriveAgreed ==
    ASSUME ChatInv, ChatInv', FileInv, NEW c \in Conn, Arrive(c)
    PROVE  FileInv'
<1>1. /\ mode[c] = "off" /\ mode' = [mode EXCEPT ![c] = "loop"]
      /\ inbox' = [inbox EXCEPT ![c] = sent'[c]]
      /\ UNCHANGED <<client, asker, peer, blocked, requests, down>>
      /\ accept_user(c) /\ Admits
    BY DEF Arrive
<1>2. /\ users' = users \cup {c} /\ user' = [user EXCEPT ![c] = user_node_init]
      /\ Reply(c, "DEFAULT", Empty, "login", {}) /\ offers' = offers /\ fault' = fault
    BY <1>1 DEF accept_user
<1>3. ChatTypeOK /\ TypeOK /\ TypeOK' /\ Present(c) /\ Steady /\ \A e \in Conn : Agreement(e)
    BY DEF ChatInv, IInv, Sound, FileInv
<1>4. inbox[c] = <<>> /\ client[c].nickname = Empty /\ requests[c] = <<>> /\ blocked[c] = <<>>
    BY <1>1, <1>3 DEF Present, Steady
<1>5. PICK s \in Seq(Packets) : s = sent'[c]
    BY <1>3 DEF TypeOK
<1>6. Plain(s) /\ s \in Seq(Mail)
    BY <1>2, <1>5, PlainReply, PlainMail
<1>7. /\ mode'[c] = "loop" /\ inbox'[c] = s
      /\ \A e \in Conn \ {c} : mode'[e] = mode[e] /\ inbox'[e] = inbox[e] /\ user'[e] = user[e]
    BY <1>1, <1>2, <1>3, <1>5 DEF ChatTypeOK, TypeOK
<1>8. Named(c)' = <<>> /\ Asked(c)' = <<>> /\ Accepted(c)' = <<>>
    BY <1>6, <1>7, PlainParts DEF Named, Asked, Accepted
<1>9. Asked(c) = <<>> /\ Accepted(c) = <<>>
    <2>1. <<>> \in Seq(Mail) /\ Plain(<<>>)
        BY DEF Plain
    <2> QED  BY <1>4, <2>1, PlainParts DEF Asked, Accepted
<1>10. \A e \in Conn \ {c} : Same(e)
    BY <1>1, <1>7 DEF Same
<1>11. \A e \in Conn \ {c} : Unmoved(e)
    BY <1>10, SameUnmoved
<1>12. Naming(c)' = Naming(c) /\ Asking(c)' = Asking(c) /\ Accepting(c)' = Accepting(c)
    BY <1>1, ReadQueued
<1>13. Calm(c)
    BY <1>1, <1>7, <1>8, <1>9, <1>12 DEF Calm, Waiting, Engaged
<1>14. \A e \in Conn : client'[e].nickname = client[e].nickname /\ NickKept(e) /\ SendKept(e)
    BY <1>1 DEF NickKept, SendKept
<1>15. ASSUME NEW e \in Conn
       PROVE  NameFixed(e)' /\ AskTrue(e)' /\ NickKept(e) /\ Calm(e)
    <2>1. NameFixed(e) /\ AskTrue(e)
        BY <1>3 DEF Agreement, Accord
    <2>2. NickKept(e) /\ Calm(e)
        BY <1>11, <1>13, <1>14 DEF Unmoved
    <2>3. Asking(e)' = Asking(e)
        BY <1>11, <1>12 DEF Unmoved
    <2>4. AskTrue(e)'
        BY <1>14, <2>1, <2>3, AskTrueKept
    <2>5. NameFixed(e)'
        <3>1. CASE e = c
            <4>1. Naming(c)' = <<>>
                <5>1. <<>> \in Seq(Reqs) /\ <<>> \o <<>> = <<>>
                    OBVIOUS
                <5>2. Queued(c)' = <<>>
                    BY <1>1, <1>4, <5>1 DEF Queued, Waits
                <5>3. OfType(<<>>, {"NICKNAME_NEW"}) = <<>>
                    <6>1. PICK z : z = <<>>
                        OBVIOUS
                    <6>2. z \in Seq(Reqs) /\ \A k \in DOMAIN z : z[k].type \notin {"NICKNAME_NEW"}
                        BY <6>1
                    <6> QED  BY <6>1, <6>2, OfTypeNone
                <5> QED  BY <5>2, <5>3 DEF Naming
            <4>2. \A k \in DOMAIN Named(c)' : user'[c].is_logged_in /\ Named(c)'[k].infos = user'[c].nickname
                <5>1. PICK t : t = Named(c)'
                    OBVIOUS
                <5>2. DOMAIN t = {}
                    BY <1>8, <5>1
                <5> QED  BY <5>1, <5>2
            <4> QED  BY <1>1, <1>4, <3>1, <4>1, <4>2 DEF NameFixed
        <3>2. CASE e # c
            <4>1. Unmoved(e) /\ user'[e] = user[e] /\ (e \in users => e \in users')
                BY <1>2, <1>7, <1>11, <3>2
            <4> QED  BY <2>1, <4>1, NameFixedKept DEF Unmoved
        <3> QED  BY <3>1, <3>2
    <2> QED  BY <2>2, <2>4, <2>5
<1>16. NoneAsked
    BY <1>2, HasOwn DEF NoneAsked
<1>17. \A n : Settled(n)
    BY <1>14, AllSettled
<1>18. \A e \in Conn : Accord(e)'
    BY <1>15, <1>16, <1>17, CalmAccord
<1>19. Steady'
    <2>1. Up' /\ peer' \in [Conn -> Conn \cup {NoConn}]
        BY <1>1, <1>2, <1>3 DEF Steady, Up
    <2>2. \A e \in Conn : /\ mode'[e] # "gone"
                          /\ mode'[e] = "off" => inbox'[e] = <<>>
                          /\ mode'[e] \in {"sending", "receiving"} => peer'[e] \in Conn
        BY <1>1, <1>3, <1>7 DEF Steady
    <2> QED  BY <2>1, <2>2 DEF Steady
<1>20. ASSUME NEW e \in Conn PROVE BlockedRight(e)' /\ TransferTrue(e)'
    <2>1. BlockedRight(e) /\ TransferTrue(e)
        BY <1>3 DEF Agreement
    <2>2. BlockedRight(e)'
        BY <1>1, <2>1 DEF BlockedRight
    <2>3. mode'[e] = "sending" => mode[e] = "sending" /\ client'[e] = client[e] /\ peer'[e] = peer[e]
        BY <1>1, <1>7
    <2>4. \A d \in Conn : mode'[d] = "receiving" =>
             /\ mode[d] = "receiving" /\ peer'[d] = peer[d] /\ asker'[d] = asker[d]
             /\ client'[d].file_to_receive = client[d].file_to_receive
        BY <1>1, <1>7
    <2> QED  BY <1>3, <2>1, <2>2, <2>3, <2>4, TransferTrueKept
<1> QED  BY <1>18, <1>19, <1>20, FileInvKept

-----------------------------------------------------------------------------
(* A request is served.                                                      *)

ToUsers == \A e \in Conn : sent'[e] # <<>> => e \in users

(* The requester of a file finds the answer of u, if it has kept its name.   *)
HandledReturn(u, q) ==
    LET found == server_get_user_by_name(Head(offers[u]).name) IN
    /\ UNCHANGED <<users, user, aka>>
    /\ offers' = [offers EXCEPT ![u] = Tail(@)]
    /\ Through(found, "requester")
    /\ \/ found = {} /\ \A e \in Conn : sent'[e] = <<>>
       \/ \E d \in found, p \in Mail :
             /\ p.type = q.type /\ (q.type = "FILE_ACCEPT" => p.payload.about = {q.payload})
             /\ \A e \in Conn : sent'[e] = IF e = d THEN <<p>> ELSE <<>>

(* A reply goes to a user.                                                   *)
LEMMA ReplyToUsers ==
    ASSUME NEW u \in users, NEW type, NEW infos, NEW what, NEW about,
           Reply(u, type, infos, what, about)
    PROVE  ToUsers
<1>1. PICK p : p = <<FromServer(type, infos, what, about)>>
    OBVIOUS
<1>2. \A e \in Conn : sent'[e] = IF e = u THEN p ELSE <<>>
    BY <1>1, AloneSent DEF Reply
<1> QED  BY <1>2 DEF ToUsers

(* What the server says, it says to its users; what becomes of each request; *)
(* and only an answer may fail.                                              *)
LEMMA HandlesTrue ==
    ASSUME IInv, NEW u \in Conn, NEW q \in Reqs, q.from \in aka[u], Handles(u, q),
           q.type \in AnswerTypes => user[u].is_logged_in
    PROVE  /\ ToUsers
           /\ \/ q.type \notin AnswerTypes /\ HandledPlainly /\ fault' = fault
              \/ q.type = "NICKNAME_NEW" /\ HandledName(u, q.infos) /\ fault' = fault
              \/ /\ q.type = "FILE_REQUEST" /\ fault' = fault
                 /\ \E d \in Conn \ {u} : HandledAsk(u, q.from, d, q.payload)
              \/ q.type \in AnswerTypes /\ HandledReturn(u, q)
<1>1. TypeOK /\ q.from \in Nick \cup {Empty}
    BY DEF IInv, TypeOK
<1>2. CASE ~user[u].is_logged_in /\ login_first(u)
    <2>1. HandledPlainly /\ fault' = fault
        BY <1>2, PlainReply DEF login_first, HandledPlainly, tables
    <2>2. ToUsers
        BY <1>2, ReplyToUsers DEF login_first
    <2> QED  BY <1>2, <2>1, <2>2
<1>3. CASE q.type = "NICKNAME_NEW" /\ server_handle_nickname_new_req(u, q.infos)
    <2>1. q.infos \in Nick /\ q.type \notin AnswerTypes
        BY <1>3 DEF Reqs, AnswerTypes
    <2>2. HandledPlainly \/ HandledName(u, q.infos)
        BY <1>1, <1>3, <2>1, NicknameHandled
    <2>3. ToUsers /\ fault' = fault
        BY <1>3, ReplyToUsers DEF server_handle_nickname_new_req, Request
    <2> QED  BY <1>3, <2>1, <2>2, <2>3
<1>4. CASE q.type = "BROADCAST_SEND" /\ server_handle_broadcast_send_req(u, q.payload)
    <2>1. q.type \notin AnswerTypes
        BY <1>4 DEF AnswerTypes
    <2>2. HandledPlainly /\ fault' = fault
        BY <1>4, BroadcastHandled DEF server_handle_broadcast_send_req
    <2>3. ToUsers
        <3> DEFINE same == server_get_user_by_name(user[u].nickname)
                   copy(who) == packet_init(<<who, "all">>, "BROADCAST_SEND", Empty, Text(q.payload))
        <3>1. PICK mine : mine = [k \in 1..Cardinality(same) |-> copy("me")]
            OBVIOUS
        <3>2. PICK others : others = [c \in users \ same |-> copy(user[u].nickname)]
            OBVIOUS
        <3>3. sent' = Sent(u, mine, others) /\ u \in users
            BY <1>4, <3>1, <3>2 DEF server_handle_broadcast_send_req, Request
        <3>4. DOMAIN others \subseteq users
            BY <3>2
        <3> QED  BY <3>3, <3>4 DEF Sent, SentTo, ToUsers
    <2> QED  BY <2>1, <2>2, <2>3
<1>5. CASE q.type = "FILE_REQUEST" /\ server_handle_file_req(u, q.from, q.infos, q.payload)
    <2>1. q.infos \in Nick /\ q.payload \in Body /\ q.type \notin AnswerTypes
        BY <1>5 DEF Reqs, AnswerTypes
    <2>2. fault' = fault /\ u \in users
        BY <1>5 DEF server_handle_file_req, Request
    <2>3. HandledPlainly \/ \E d \in Conn \ {u} : HandledAsk(u, q.from, d, q.payload)
        BY <1>1, <1>5, <2>1, AskHandled
    <2>4. ToUsers
        <3>1. CASE \/ Reply(u, "DEFAULT", q.infos, "no_user", {q.infos})
                   \/ Reply(u, "DEFAULT", q.infos, "self", {})
            BY <2>2, <3>1, ReplyToUsers
        <3>2. ASSUME NEW d \in server_get_user_by_name(q.infos) \ {u}, NEW p,
                     sent' = Sent(d, <<p>>, Nobody)
              PROVE  ToUsers
            <4>1. d \in users
                BY <3>2 DEF server_get_user_by_name
            <4> QED  BY <3>2, <4>1, AloneSent DEF ToUsers
        <3> QED  BY <1>5, <3>1, <3>2 DEF server_handle_file_req
    <2> QED  BY <1>5, <2>1, <2>2, <2>3, <2>4
<1>6. ASSUME NEW packet \in Mail, packet.type = q.type, q.type \in AnswerTypes,
             q.type = "FILE_ACCEPT" => packet.payload.about = {q.payload},
             Answer(u, q.type, packet)
      PROVE  ToUsers /\ HandledReturn(u, q)
    <2> DEFINE found == server_get_user_by_name(Head(offers[u]).name)
    <2>1. /\ UNCHANGED <<users, user, aka>>
          /\ offers' = [offers EXCEPT ![u] = Tail(@)]
          /\ Through(found, "requester")
          /\ \/ found = {} /\ sent' = [c \in Conn |-> <<>>]
             \/ \E d \in found : sent' = Sent(d, <<packet>>, Nobody)
        BY <1>6 DEF Answer, tables
    <2>2. found \subseteq users
        BY DEF server_get_user_by_name
    <2> HIDE DEF found
    <2>3. CASE found = {} /\ sent' = [c \in Conn |-> <<>>]
        <3>1. \A e \in Conn : sent'[e] = <<>>
            BY <2>3
        <3> QED  BY <2>1, <2>3, <3>1 DEF HandledReturn, ToUsers, found
    <2>4. ASSUME NEW d \in found, sent' = Sent(d, <<packet>>, Nobody)
          PROVE  ToUsers /\ HandledReturn(u, q)
        <3>1. \A e \in Conn : sent'[e] = IF e = d THEN <<packet>> ELSE <<>>
            BY <2>4, AloneSent
        <3>2. ToUsers
            BY <2>2, <2>4, <3>1 DEF ToUsers
        <3> QED  BY <1>6, <2>1, <2>4, <3>1, <3>2 DEF HandledReturn, found
    <2> QED  BY <2>1, <2>3, <2>4
<1>7. CASE q.type = "FILE_ACCEPT" /\ server_handle_file_accept_res(u, q.from, q.payload)
    <2>1. q.payload \in Conn /\ q.payload \in Body /\ q.type \in AnswerTypes
        BY <1>7, ChatAssumption DEF Reqs, AnswerTypes
    <2>2. PICK p : p = packet_init(<<q.from, Empty>>, "FILE_ACCEPT", Head(offers[u]).name, Text(q.payload))
        OBVIOUS
    <2>3. Answer(u, "FILE_ACCEPT", p)
        BY <1>7, <2>2 DEF server_handle_file_accept_res
    <2>4. p \in Packets
        <3>1. Head(offers[u]).name \in Names
            BY <1>1, <2>3, HeadOffer DEF Answer, Offers, Names
        <3>2. <<q.from, Empty>> \in Sources
            BY <1>1 DEF Sources
        <3>3. Text(q.payload) \in Payloads
            BY <2>1 DEF Text, Say, Says, Payloads
        <3> QED  BY <2>2, <3>1, <3>2, <3>3, PacketType DEF MessageTypes, RequestTypes
    <2>5. p.type = "FILE_ACCEPT" /\ p.payload.about = {q.payload}
        BY <2>2 DEF packet_init, Text, Say
    <2>6. p \in Mail
        BY <2>1, <2>4, <2>5 DEF Mail
    <2> QED  BY <1>6, <1>7, <2>1, <2>3, <2>5, <2>6
<1>8. CASE q.type = "FILE_REJECT" /\ server_handle_file_reject_req(u)
    <2>1. q.type \in AnswerTypes
        BY <1>8 DEF AnswerTypes
    <2>2. PICK p : p = FromServer("FILE_REJECT", Head(offers[u]).name, "cancelled", {user[u].nickname})
        OBVIOUS
    <2>3. Answer(u, "FILE_REJECT", p)
        BY <1>8, <2>2 DEF server_handle_file_reject_req
    <2>4. p \in Packets
        <3>1. Head(offers[u]).name \in Names
            BY <1>1, <2>3, HeadOffer DEF Answer, Offers, Names
        <3>2. {user[u].nickname} \in SUBSET (Names \cup Body)
            BY <1>1, NickType
        <3> QED  BY <2>2, <3>1, <3>2, FromServerType DEF MessageTypes, RequestTypes, Says
    <2>5. p.type = "FILE_REJECT"
        BY <2>2 DEF FromServer, packet_init
    <2>6. p \in Mail
        BY <2>4, <2>5 DEF Mail
    <2> QED  BY <1>6, <1>8, <2>1, <2>3, <2>5, <2>6
<1> QED  BY <1>2, <1>3, <1>4, <1>5, <1>7, <1>8 DEF Handles

(* The head of a sequence of one is all there is.                            *)
LEMMA OneHead ==
    ASSUME NEW P, NEW t \in Seq(P), NEW x, NEW s, s = <<x>>, NEW p, Heads(s, p, t)
    PROVE  x = p /\ t = <<>>
<1>1. DOMAIN s = {1} /\ s[1] = x
    OBVIOUS
<1>2. x = p
    BY <1>1 DEF Heads
<1>3. DOMAIN t = {}
    <2> SUFFICES ASSUME NEW k \in DOMAIN t PROVE FALSE
        OBVIOUS
    <2>1. k \in Nat /\ k # 0 /\ k + 1 = 1
        BY <1>1 DEF Heads
    <2> QED  BY <2>1
<1>4. t = <<>>
    BY <1>3
<1> QED  BY <1>2, <1>4

Alone(a, e) == a = <<e>>

(* What is kept of a queue, and of what comes after its first packet.        *)
LEMMA ConsParts ==
    ASSUME NEW P, NEW e \in P, NEW t \in Seq(P), NEW a \in Seq(P), Alone(a, e), NEW types
    PROVE  /\ e.type \in types => Heads(OfType(a \o t, types), e, OfType(t, types))
           /\ e.type \notin types => OfType(a \o t, types) = OfType(t, types)
           /\ OfType(t, types) \in Seq(P)
<1>1. PICK n \in Seq(P) : n = OfType(t, types)
    BY OfTypeType
<1>2. OfType(a \o t, types) = OfType(a, types) \o OfType(t, types)
    <2>1. ASSUME NEW b \in Seq(P)
          PROVE  OfType(b \o t, types) = OfType(b, types) \o OfType(t, types)
        BY OfTypeConcat
    <2> QED  BY <2>1
<1>3. OfType(a, types) = IF e.type \in types THEN <<e>> ELSE <<>>
    BY OfTypeOne DEF Alone
<1>4. <<>> \o n = n
    BY ConcatEmptySeq
<1>5. e.type \in types => OfType(a \o t, types) = <<e>> \o n
    BY <1>1, <1>2, <1>3
<1>6. e.type \notin types => OfType(a \o t, types) = n
    BY <1>1, <1>2, <1>3, <1>4
<1> QED  BY <1>1, <1>5, <1>6, ConsHeads

(* The request served was the first of its type, and of the types that a     *)
(* client sends one at a time there is none left.                            *)
LEMMA ServedQueue ==
    ASSUME ChatInv, FileInv, NEW u \in Conn, serving = u, NEW q, q = Head(requests[u]), Served(u, q)
    PROVE  /\ \A e \in Conn \ {u} :
                 Naming(e)' = Naming(e) /\ Asking(e)' = Asking(e) /\ Accepting(e)' = Accepting(e)
           /\ Naming(u)' = IF q.type = "NICKNAME_NEW" THEN <<>> ELSE Naming(u)
           /\ Asking(u)' = IF q.type = "FILE_REQUEST" THEN <<>> ELSE Asking(u)
           /\ Accepting(u)' = IF q.type = "FILE_ACCEPT" THEN <<>> ELSE Accepting(u)
           /\ q.type = "NICKNAME_NEW" => Naming(u) = <<q>>
           /\ q.type = "FILE_REQUEST" => Asking(u) = <<q>>
           /\ q.type = "FILE_ACCEPT" => Accepting(u) = <<q>>
<1>1. ChatTypeOK /\ requests[u] # <<>> /\ q \in Reqs
    BY RequestSays DEF ChatInv
<1>2. requests' = [requests EXCEPT ![u] = Tail(@)] /\ blocked' = blocked
    BY DEF Served, clientvars
<1>3. requests'[u] = Tail(requests[u]) /\ \A e \in Conn \ {u} : requests'[e] = requests[e]
    BY <1>1, <1>2 DEF ChatTypeOK
<1>4. \A e \in Conn \ {u} :
         Naming(e)' = Naming(e) /\ Asking(e)' = Asking(e) /\ Accepting(e)' = Accepting(e)
    BY <1>2, <1>3, ReadQueued
<1>5. PICK s \in Seq(Reqs) : s = requests[u]
    BY <1>1 DEF ChatTypeOK
<1>6. PICK r \in Seq(Reqs) : r = Tail(s)
    BY <1>1, <1>5, HeadTailProperties
<1>7. PICK w \in Seq(Reqs) : w = Waits(u)
    BY <1>1, QueuedType
<1>8. PICK a \in Seq(Reqs) : a = <<q>>
    <2>1. <<q>> \in Seq(Reqs)
        BY <1>1
    <2> QED  BY <2>1
<1>9. PICK t \in Seq(Reqs) : t = r \o w
    BY ConcatProperties
<1>10. Queued(u)' = t
    BY <1>2, <1>3, <1>5, <1>6, <1>7, <1>9 DEF Queued, Waits
<1>11. s = a \o r
    BY <1>1, <1>5, <1>6, <1>8, HeadTailProperties
<1>12. Queued(u) = a \o t
    <2>1. (a \o r) \o w = a \o (r \o w)
        BY ConcatAssociative, SMTT(30)
    <2> QED  BY <1>5, <1>7, <1>9, <1>11, <2>1 DEF Queued
<1>13. Alone(a, q)
    BY <1>8 DEF Alone
<1>14. ASSUME NEW types
      PROVE  /\ q.type \in types => Heads(OfType(a \o t, types), q, OfType(t, types))
             /\ q.type \notin types => OfType(a \o t, types) = OfType(t, types)
             /\ OfType(t, types) \in Seq(Reqs)
    BY <1>1, <1>13, ConsParts
<1>15. ASSUME NEW types, NEW o, o = OfType(Queued(u), types), NEW n, n = OfType(t, types)
       PROVE  /\ q.type \in types => Heads(o, q, n)
              /\ q.type \notin types => n = o
              /\ n \in Seq(Reqs)
    BY <1>12, <1>15, <1>14
<1>16. ASSUME NEW types, NEW o, o = OfType(Queued(u), types), NEW n, n = OfType(t, types),
              o = <<>> \/ \E x : o = <<x>>, q.type \in types
       PROVE  o = <<q>> /\ n = <<>>
    <2>1. Heads(o, q, n) /\ n \in Seq(Reqs)
        BY <1>15, <1>16
    <2>2. o # <<>>
        <3> SUFFICES ASSUME o = <<>> PROVE FALSE
            OBVIOUS
        <3>1. DOMAIN o = {}
            OBVIOUS
        <3> QED  BY <2>1, <3>1 DEF Heads
    <2>3. PICK x : o = <<x>>
        BY <1>16, <2>2
    <2>4. x = q /\ n = <<>>
        BY <2>1, <2>3, OneHead
    <2> QED  BY <2>3, <2>4
<1>17. /\ Naming(u) = <<>> \/ \E x : Naming(u) = <<x>>
       /\ Asking(u) = <<>> \/ \E x : Asking(u) = <<x>>
       /\ Accepting(u) = <<>> \/ \E x : Accepting(u) = <<x>>
    BY DEF FileInv, Agreement, Accord, NameFixed, AskTrue, AcceptTrue
<1>18. /\ Naming(u)' = IF q.type = "NICKNAME_NEW" THEN <<>> ELSE Naming(u)
       /\ q.type = "NICKNAME_NEW" => Naming(u) = <<q>>
    <2>1. PICK types : types = {"NICKNAME_NEW"}
        OBVIOUS
    <2>2. PICK o : o = Naming(u)
        OBVIOUS
    <2>3. PICK n : n = Naming(u)'
        OBVIOUS
    <2>4. o = OfType(Queued(u), types) /\ n = OfType(t, types)
        BY <1>10, <2>1, <2>2, <2>3 DEF Naming
    <2> QED  BY <1>15, <1>16, <1>17, <2>1, <2>2, <2>3, <2>4
<1>19. /\ Asking(u)' = IF q.type = "FILE_REQUEST" THEN <<>> ELSE Asking(u)
       /\ q.type = "FILE_REQUEST" => Asking(u) = <<q>>
    <2>1. PICK types : types = {"FILE_REQUEST"}
        OBVIOUS
    <2>2. PICK o : o = Asking(u)
        OBVIOUS
    <2>3. PICK n : n = Asking(u)'
        OBVIOUS
    <2>4. o = OfType(Queued(u), types) /\ n = OfType(t, types)
        BY <1>10, <2>1, <2>2, <2>3 DEF Asking
    <2> QED  BY <1>15, <1>16, <1>17, <2>1, <2>2, <2>3, <2>4
<1>20. /\ Accepting(u)' = IF q.type = "FILE_ACCEPT" THEN <<>> ELSE Accepting(u)
       /\ q.type = "FILE_ACCEPT" => Accepting(u) = <<q>>
    <2>1. PICK types : types = {"FILE_ACCEPT"}
        OBVIOUS
    <2>2. PICK o : o = Accepting(u)
        OBVIOUS
    <2>3. PICK n : n = Accepting(u)'
        OBVIOUS
    <2>4. o = OfType(Queued(u), types) /\ n = OfType(t, types)
        BY <1>10, <2>1, <2>2, <2>3 DEF Accepting
    <2> QED  BY <1>15, <1>16, <1>17, <2>1, <2>2, <2>3, <2>4
<1> QED  BY <1>4, <1>18, <1>19, <1>20

(* Those the server writes to are all there.                                 *)
LEMMA UsersRun ==
    ASSUME ChatInv, FileInv, NEW e \in users
    PROVE  e \in Conn /\ Running(e)
<1>1. e \in Conn
    BY DEF ChatInv, IInv, TypeOK
<1> QED  BY <1>1 DEF ChatInv, Sound, Present, FileInv, Steady, Running

(* What is sent comes after what a client has still to read.                 *)
LEMMA ServedInbox ==
    ASSUME ChatInv, FileInv, Delivered, sent' \in [Conn -> Seq(Mail)], ToUsers, NEW e \in Conn
    PROVE  /\ Named(e)' = Named(e) \o OfType(sent'[e], {"NICKNAME_NEW"})
           /\ Asked(e)' = Asked(e) \o OfType(sent'[e], {"FILE_REQUEST"})
           /\ Accepted(e)' = Accepted(e) \o OfType(sent'[e], {"FILE_ACCEPT"})
           /\ ~Running(e) => inbox'[e] = inbox[e]
<1>1. PICK i \in Seq(Mail) : i = inbox[e]
    BY DEF ChatInv, ChatTypeOK
<1>2. PICK s \in Seq(Mail) : s = sent'[e]
    OBVIOUS
<1>3. inbox'[e] = i \o s
    <2>1. CASE Running(e)
        BY <1>1, <1>2, <2>1 DEF Delivered
    <2>2. CASE ~Running(e)
        <3>1. s = <<>>
            BY <1>2, <2>2, UsersRun DEF ToUsers
        <3>2. inbox'[e] = i
            BY <1>1, <2>2 DEF Delivered
        <3> QED  BY <3>1, <3>2, ConcatEmptySeq
    <2> QED  BY <2>1, <2>2
<1>4. ASSUME NEW types PROVE OfType(i \o s, types) = OfType(i, types) \o OfType(s, types)
    BY OfTypeConcat
<1>5. Named(e)' = Named(e) \o OfType(sent'[e], {"NICKNAME_NEW"})
    BY <1>1, <1>2, <1>3, <1>4 DEF Named
<1>6. Asked(e)' = Asked(e) \o OfType(sent'[e], {"FILE_REQUEST"})
    BY <1>1, <1>2, <1>3, <1>4 DEF Asked
<1>7. Accepted(e)' = Accepted(e) \o OfType(sent'[e], {"FILE_ACCEPT"})
    BY <1>1, <1>2, <1>3, <1>4 DEF Accepted
<1> QED  BY <1>5, <1>6, <1>7 DEF Delivered

(* A client that is sent nothing that counts, or one packet that does.       *)
LEMMA ServedPlainly ==
    ASSUME ChatInv, FileInv, Delivered, sent' \in [Conn -> Seq(Mail)], ToUsers, NEW e \in Conn,
           Plain(sent'[e])
    PROVE  Named(e)' = Named(e) /\ Asked(e)' = Asked(e) /\ Accepted(e)' = Accepted(e)
<1>1. PICK s \in Seq(Mail) : s = sent'[e]
    OBVIOUS
<1>2. /\ Named(e)' = Named(e) \o <<>> /\ Asked(e)' = Asked(e) \o <<>>
      /\ Accepted(e)' = Accepted(e) \o <<>>
    BY <1>1, PlainParts, ServedInbox
<1>3. Named(e) \in Seq(Mail) /\ Asked(e) \in Seq(Mail) /\ Accepted(e) \in Seq(Mail)
    BY InboxType DEF ChatInv
<1> QED  BY <1>2, <1>3, ConcatEmptySeq

(* One packet comes last of those of its type.                               *)
LEMMA ServedOne ==
    ASSUME ChatInv, FileInv, Delivered, sent' \in [Conn -> Seq(Mail)], ToUsers, NEW e \in Conn,
           NEW p \in Mail, sent'[e] = <<p>>
    PROVE  /\ Named(e)' = IF p.type = "NICKNAME_NEW" THEN Append(Named(e), p) ELSE Named(e)
           /\ Asked(e)' = IF p.type = "FILE_REQUEST" THEN Append(Asked(e), p) ELSE Asked(e)
           /\ Accepted(e)' = IF p.type = "FILE_ACCEPT" THEN Append(Accepted(e), p) ELSE Accepted(e)
<1>1. ASSUME NEW types PROVE OfType(<<p>>, types) = IF p.type \in types THEN <<p>> ELSE <<>>
    BY OfTypeOne
<1>2. ASSUME NEW types, NEW s \in Seq(Mail), NEW t, t = s \o OfType(<<p>>, types)
      PROVE  t = IF p.type \in types THEN Append(s, p) ELSE s
    BY <1>1, <1>2, AppendIsConcat, ConcatEmptySeq
<1>3. Named(e) \in Seq(Mail) /\ Asked(e) \in Seq(Mail) /\ Accepted(e) \in Seq(Mail)
    BY InboxType DEF ChatInv
<1>4. /\ Named(e)' = Named(e) \o OfType(<<p>>, {"NICKNAME_NEW"})
      /\ Asked(e)' = Asked(e) \o OfType(<<p>>, {"FILE_REQUEST"})
      /\ Accepted(e)' = Accepted(e) \o OfType(<<p>>, {"FILE_ACCEPT"})
    BY ServedInbox
<1>5. Named(e)' = IF p.type = "NICKNAME_NEW" THEN Append(Named(e), p) ELSE Named(e)
    <2>1. Named(e)' = IF p.type \in {"NICKNAME_NEW"} THEN Append(Named(e), p) ELSE Named(e)
        BY <1>2, <1>3, <1>4
    <2> QED  BY <2>1
<1>6. Asked(e)' = IF p.type = "FILE_REQUEST" THEN Append(Asked(e), p) ELSE Asked(e)
    <2>1. Asked(e)' = IF p.type \in {"FILE_REQUEST"} THEN Append(Asked(e), p) ELSE Asked(e)
        BY <1>2, <1>3, <1>4
    <2> QED  BY <2>1
<1>7. Accepted(e)' = IF p.type = "FILE_ACCEPT" THEN Append(Accepted(e), p) ELSE Accepted(e)
    <2>1. Accepted(e)' = IF p.type \in {"FILE_ACCEPT"} THEN Append(Accepted(e), p) ELSE Accepted(e)
        BY <1>2, <1>3, <1>4
    <2> QED  BY <2>1
<1> QED  BY <1>5, <1>6, <1>7

(* The clients are not asked anything while a request is served.             *)
LEMMA ServedClients ==
    ASSUME UNCHANGED clientvars
    PROVE  /\ \A e \in Conn : /\ (Waiting(e)' <=> Waiting(e)) /\ (Engaged(e)' <=> Engaged(e))
                              /\ asker'[e] = asker[e] /\ client'[e] = client[e]
                              /\ NickKept(e) /\ SendKept(e)
           /\ \A n : Settled(n)
<1>1. \A e \in Conn : client'[e].nickname = client[e].nickname /\ NickKept(e) /\ SendKept(e)
    BY DEF clientvars, NickKept, SendKept
<1>2. \A n : Settled(n)
    BY <1>1, AllSettled
<1> QED  BY <1>1, <1>2 DEF clientvars, Waiting, Engaged

(* The server goes on, and no transfer begins.                               *)
LEMMA ServedSteady ==
    ASSUME ChatInv, FileInv, UNCHANGED clientvars, Delivered, sent' \in [Conn -> Seq(Mail)], ToUsers,
           fault' = "none", down' \in IF \E d \in Conn : sent'[d] # <<>> /\ ~Running(d) THEN BOOLEAN ELSE {FALSE}
    PROVE  Steady' /\ \A e \in Conn : BlockedRight(e)' /\ TransferTrue(e)'
<1>1. UNCHANGED <<mode, client, asker, peer, blocked>> /\ Steady /\ \A e \in Conn : Agreement(e)
    BY DEF clientvars, FileInv
<1>2. Up'
    <2>1. down' = FALSE
        BY UsersRun DEF ToUsers
    <2> QED  BY <2>1 DEF Up
<1>3. \A e \in Conn : mode[e] = "off" => inbox'[e] = inbox[e]
    BY DEF Delivered, Running
<1>4. Steady'
    BY <1>1, <1>2, <1>3 DEF Steady
<1>5. \A e \in Conn : BlockedRight(e)' /\ TransferTrue(e)'
    BY <1>1 DEF Agreement, BlockedRight, TransferTrue, Transferring
<1> QED  BY <1>4, <1>5

(* A step of the server that gives nobody a nickname: what of the agreement  *)
(* follows from the clients alone.                                           *)
LEMMA ServedRest ==
    ASSUME ChatInv, FileInv, NEW u \in Conn, serving = u, NEW q, q = Head(requests[u]), Served(u, q),
           UNCHANGED <<users, user>>, NEW e \in Conn, Named(e)' = Named(e)
    PROVE  NameFixed(e)' /\ AskTrue(e)' /\ EngagedTrue(e)'
<1>1. UNCHANGED clientvars /\ NameFixed(e) /\ AskTrue(e) /\ EngagedTrue(e)
    BY DEF Served, FileInv, Agreement, Accord
<1>2. /\ Naming(e)' = Naming(e) \/ Naming(e)' = <<>>
      /\ Asking(e)' = Asking(e) \/ Asking(e)' = <<>>
    <2>1. CASE e = u
        BY <2>1, ServedQueue
    <2>2. CASE e # u
        BY <2>2, ServedQueue
    <2> QED  BY <2>1, <2>2
<1>3. /\ Engaged(e)' <=> Engaged(e)
      /\ asker'[e] = asker[e] /\ client'[e] = client[e] /\ NickKept(e) /\ SendKept(e)
      /\ Settled(asker[e])
    BY <1>1, ServedClients
<1>4. NameFixed(e)'
    BY <1>1, <1>2, <1>3, NameFixedKept
<1>5. AskTrue(e)'
    BY <1>1, <1>2, <1>3, AskTrueKept
<1>6. EngagedTrue(e)'
    BY <1>1, <1>3, EngagedTrueKept
<1> QED  BY <1>4, <1>5, <1>6

(* Nobody is told of a nickname, a file or an acceptance.                    *)
LEMMA PlainAgreed ==
    ASSUME ChatInv, FileInv, NEW u \in Conn, serving = u, NEW q, q = Head(requests[u]), Served(u, q),
           ToUsers, sent' \in [Conn -> Seq(Mail)], UNCHANGED <<users, user>>, NoneAsked,
           q.type # "FILE_ACCEPT", \A e \in Conn : Plain(sent'[e])
    PROVE  \A e \in Conn : Accord(e)'
<1>1. UNCHANGED clientvars /\ Delivered
    BY DEF Served
<1>2. ASSUME NEW e \in Conn
      PROVE  Named(e)' = Named(e) /\ Asked(e)' = Asked(e) /\ Accepted(e)' = Accepted(e)
    BY <1>1, ServedPlainly
<1>3. ASSUME NEW e \in Conn PROVE NameFixed(e)' /\ AskTrue(e)'
    BY <1>2, ServedRest
<1>4. ASSUME NEW e \in Conn PROVE Accepting(e)' = Accepting(e)
    <2>1. CASE e = u
        BY <2>1, ServedQueue
    <2>2. CASE e # u
        BY <2>2, ServedQueue
    <2> QED  BY <2>1, <2>2
<1>5. ASSUME NEW e \in Conn PROVE NickKept(e) /\ Calm(e)
    <2>1. (Waiting(e)' <=> Waiting(e)) /\ (Engaged(e)' <=> Engaged(e))
          /\ asker'[e] = asker[e] /\ client'[e] = client[e] /\ NickKept(e)
        BY <1>1, ServedClients
    <2> QED  BY <1>2, <1>4, <2>1 DEF Calm
<1>6. \A n : Settled(n)
    BY <1>1, ServedClients
<1> QED  BY <1>3, <1>5, <1>6, CalmAccord

(* A client is given the nickname it asked for, its first.                   *)
LEMMA NameAgreed ==
    ASSUME ChatInv, ChatInv', FileInv, NEW u \in Conn, serving = u, NEW q, q = Head(requests[u]), Served(u, q),
           ToUsers, sent' \in [Conn -> Seq(Mail)], q.type = "NICKNAME_NEW", HandledName(u, q.infos)
    PROVE  \A e \in Conn : Accord(e)'
<1>1. UNCHANGED clientvars /\ Delivered
    BY DEF Served
<1>2. PICK p \in Packets : /\ p.type = "NICKNAME_NEW" /\ p.infos = q.infos
                           /\ \A e \in Conn : sent'[e] = IF e = u THEN <<p>> ELSE <<>>
    BY DEF HandledName
<1>3. p \in Mail
    <2>1. PICK s \in Seq(Mail) : s = sent'[u]
        OBVIOUS
    <2>2. s = <<p>>
        BY <1>2, <2>1
    <2> QED  BY <2>1, <2>2
<1>4. /\ Named(u)' = Append(Named(u), p) /\ Asked(u)' = Asked(u) /\ Accepted(u)' = Accepted(u)
    BY <1>1, <1>2, <1>3, ServedOne
<1>5. ASSUME NEW e \in Conn \ {u}
      PROVE  Named(e)' = Named(e) /\ Asked(e)' = Asked(e) /\ Accepted(e)' = Accepted(e)
    <2>1. Plain(sent'[e])
        BY <1>2 DEF Plain
    <2> QED  BY <1>1, <2>1, ServedPlainly
<1>6. /\ users' = users /\ offers' = offers /\ user' \in [Conn -> UserNodes] /\ user \in [Conn -> UserNodes]
      /\ user' = [user EXCEPT ![u].nickname = q.infos, ![u].is_logged_in = TRUE]
    BY DEF HandledName, ChatInv, IInv, TypeOK
<1>7. /\ user'[u].nickname = q.infos /\ user'[u].is_logged_in
      /\ \A e \in Conn \ {u} : user'[e] = user[e]
    BY <1>6 DEF UserNodes
<1>8. ASSUME NEW e \in Conn
      PROVE  /\ (Waiting(e)' <=> Waiting(e)) /\ (Engaged(e)' <=> Engaged(e))
             /\ asker'[e] = asker[e] /\ client'[e] = client[e] /\ NickKept(e) /\ SendKept(e)
    BY <1>1, ServedClients
<1>9. NameFixed(u)'
    <2>1. NameFixed(u) /\ Naming(u) = <<q>> /\ Naming(u)' = <<>>
        BY ServedQueue DEF FileInv, Agreement, Accord
    <2>2. ~user[u].is_logged_in
        BY <2>1 DEF NameFixed
    <2>3. client'[u].nickname = Empty /\ DOMAIN Named(u) = {}
        BY <1>8, <2>1, <2>2 DEF NameFixed
    <2>4. PICK a \in Seq(Mail) : a = Named(u)
        BY InboxType DEF ChatInv
    <2>5. PICK t : t = Append(a, p)
        OBVIOUS
    <2>6. Adds(t, a, p)
        BY <1>3, <2>5, AppendHas
    <2>7. \A k \in DOMAIN t : t[k] = p
        BY <2>3, <2>4, <2>6 DEF Adds, Has
    <2>8. Named(u)' = t
        BY <1>4, <2>4, <2>5
    <2>9. \A k \in DOMAIN Named(u)' : user'[u].is_logged_in /\ Named(u)'[k].infos = user'[u].nickname
        BY <1>2, <1>7, <2>7, <2>8
    <2> QED  BY <2>1, <2>3, <2>9 DEF NameFixed
<1>10. ASSUME NEW e \in Conn PROVE NameFixed(e)' /\ AskTrue(e)'
    <2>1. NameFixed(e) /\ AskTrue(e)
        BY DEF FileInv, Agreement, Accord
    <2>2. (e # u => Naming(e)' = Naming(e)) /\ Asking(e)' = Asking(e)
        BY ServedQueue
    <2>3. AskTrue(e)'
        BY <1>8, <2>1, <2>2, AskTrueKept
    <2>4. CASE e # u
        BY <1>5, <1>6, <1>7, <1>8, <2>1, <2>2, <2>3, <2>4, NameFixedKept
    <2> QED  BY <1>9, <2>3, <2>4
<1>11. ASSUME NEW e \in Conn PROVE NickKept(e) /\ Calm(e)
    <2>1. Accepting(e)' = Accepting(e)
        BY ServedQueue
    <2>2. Asked(e)' = Asked(e) /\ Accepted(e)' = Accepted(e)
        BY <1>4, <1>5
    <2> QED  BY <1>8, <2>1, <2>2 DEF Calm
<1>12. NoneAsked
    BY <1>6, HasOwn DEF NoneAsked
<1>13. \A n : Settled(n)
    BY <1>1, ServedClients
<1> QED  BY <1>10, <1>11, <1>12, <1>13, CalmAccord

(* A request for a file is passed on, and says who asks, and for what.       *)
LEMMA AskAgreed ==
    ASSUME ChatInv, FileInv, NEW u \in Conn, serving = u, NEW q, q = Head(requests[u]), Served(u, q),
           ToUsers, sent' \in [Conn -> Seq(Mail)], q.type = "FILE_REQUEST",
           NEW d \in Conn \ {u}, HandledAsk(u, q.from, d, q.payload)
    PROVE  \A e \in Conn : Accord(e)'
<1>1. UNCHANGED clientvars /\ Delivered /\ UNCHANGED <<users, user>> /\ ChatTypeOK
    BY DEF Served, HandledAsk, ChatInv
<1>2. PICK p \in Packets : /\ p.type = "FILE_REQUEST" /\ p.infos = q.from /\ p.payload.about = {q.payload}
                           /\ \A e \in Conn : sent'[e] = IF e = d THEN <<p>> ELSE <<>>
    BY DEF HandledAsk
<1>3. p \in Mail
    <2>1. PICK s \in Seq(Mail) : s = sent'[d]
        OBVIOUS
    <2>2. s = <<p>>
        BY <1>2, <2>1
    <2> QED  BY <2>1, <2>2
<1>4. Named(d)' = Named(d) /\ Asked(d)' = Append(Asked(d), p) /\ Accepted(d)' = Accepted(d)
    BY <1>1, <1>2, <1>3, ServedOne
<1>5. ASSUME NEW e \in Conn \ {d}
      PROVE  Named(e)' = Named(e) /\ Asked(e)' = Asked(e) /\ Accepted(e)' = Accepted(e)
    <2>1. Plain(sent'[e])
        BY <1>2 DEF Plain
    <2> QED  BY <1>1, <2>1, ServedPlainly
<1>6. ASSUME NEW e \in Conn
      PROVE  /\ (Waiting(e)' <=> Waiting(e)) /\ (Engaged(e)' <=> Engaged(e))
             /\ asker'[e] = asker[e] /\ client'[e] = client[e] /\ NickKept(e) /\ SendKept(e)
    BY <1>1, ServedClients
<1>7. \A n : Settled(n)
    BY <1>1, ServedClients
<1>8. ASSUME NEW e \in Conn PROVE Accepting(e)' = Accepting(e)
    <2>1. CASE e = u
        BY <2>1, ServedQueue
    <2>2. CASE e # u
        BY <2>2, ServedQueue
    <2> QED  BY <2>1, <2>2
<1>9. Accord(u) /\ Accord(d) /\ Asking(u) = <<q>>
    BY ServedQueue DEF FileInv, Agreement
<1>10. q.from = client[u].nickname /\ q.from # Empty /\ client[u].file_to_send \in {q.payload, NoFile}
    BY <1>9 DEF Accord, AskTrue
<1>11. u \in users /\ user[u].nickname = q.from
    BY <1>9, <1>10 DEF Accord, NameFixed
<1>12. WillSend(q.from, q.payload)
    <2> SUFFICES ASSUME NEW c \in Conn, client[c].nickname = q.from
                 PROVE  client[c].file_to_send \in {q.payload, NoFile}
        BY DEF WillSend
    <2>1. PICK n : n = q.from
        OBVIOUS
    <2>2. n # Empty /\ user[u].nickname = n /\ client[c].nickname = n
        BY <1>10, <1>11, <2>1
    <2>3. u = c
        BY <1>11, <2>2, OneOwner
    <2> QED  BY <1>10, <2>3
<1>13. AskedTrue(d)'
    <2>1. PICK a \in Seq(Mail) : a = Asked(d)
        BY <1>1, InboxType
    <2>2. PICK t : t = Append(a, p)
        OBVIOUS
    <2>3. Adds(t, a, p) /\ Asked(d)' = t
        BY <1>3, <1>4, <2>1, <2>2, AppendHas
    <2>4. ASSUME NEW n, NEW f, WillSend(n, f) PROVE WillSend(n, f)'
        BY <1>7, <2>4, WillSendKept
    <2>5. Content(p) = q.payload
        BY <1>2 DEF Content
    <2>6. ASSUME NEW k \in DOMAIN t
          PROVE  WillSend(t[k].infos, Content(t[k]))
        <3>1. CASE t[k] = p
            BY <1>2, <1>12, <2>5, <3>1
        <3>2. CASE Has(a, t[k])
            <4>1. PICK j \in DOMAIN a : a[j] = t[k]
                BY <3>2 DEF Has
            <4> QED  BY <1>9, <2>1, <4>1 DEF Accord, AskedTrue
        <3> QED  BY <2>3, <3>1, <3>2 DEF Adds
    <2>7. ASSUME NEW k \in DOMAIN t
          PROVE  WillSend(t[k].infos, Content(t[k]))'
        <3>1. PICK n : n = t[k].infos
            OBVIOUS
        <3>2. PICK f : f = Content(t[k])
            OBVIOUS
        <3>3. WillSend(n, f)'
            BY <2>4, <2>6, <3>1, <3>2
        <3> QED  BY <3>1, <3>2, <3>3 DEF Content
    <2> QED  BY <2>3, <2>7 DEF AskedTrue
<1>14. ASSUME NEW e \in Conn PROVE AskedTrue(e)'
    <2>1. CASE e # d
        <3>1. AskedTrue(e) /\ \A k \in DOMAIN Asked(e)' : Has(Asked(e), Asked(e)'[k])
            BY <1>5, <2>1, HasOwn DEF FileInv, Agreement, Accord
        <3> QED  BY <1>7, <3>1, AskedTrueKept
    <2> QED  BY <1>13, <2>1
<1>15. PICK o : o = [name |-> q.from, by |-> u]
    OBVIOUS
<1>16. o.name = q.from /\ o.by = u
    BY <1>15
<1>17. offers' = [offers EXCEPT ![d] = Append(@, o)] /\ offers \in [Conn -> Seq(Offers)]
    BY <1>15 DEF HandledAsk, Prompted, ChatInv, IInv, TypeOK
<1>18. ASSUME NEW e \in Conn PROVE OfferTrue(e)'
    <2>1. OfferTrue(e)
        BY DEF FileInv, Agreement, Accord
    <2>2. CASE e # d
        <3>1. offers'[e] = offers[e]
            BY <1>17, <2>2
        <3>2. \A k \in DOMAIN offers'[e] : Has(offers[e], offers'[e][k])
            BY <3>1, HasOwn
        <3> QED  BY <1>6, <2>1, <3>2, OfferTrueKept
    <2>3. CASE e = d
        <3>1. PICK a \in Seq(Offers) : a = offers[d]
            BY <1>17
        <3>2. PICK t : t = Append(a, o)
            OBVIOUS
        <3>3. offers'[d] = t
            BY <1>17, <3>1, <3>2
        <3>4. o \in Offers
            <4>1. o.name \in Nick \cup {Empty} /\ o.by \in Conn
                BY <1>10, <1>1, <1>16 DEF ChatTypeOK, Clients
            <4> QED  BY <1>15, <1>16, <4>1 DEF Offers
        <3>5. Adds(t, a, o)
            BY <3>2, <3>4, AppendHas
        <3>6. ASSUME NEW k \in DOMAIN t
              PROVE  /\ t[k].name # Empty /\ t[k].by \in Conn
                     /\ client'[t[k].by].nickname = t[k].name
            <4>1. CASE t[k] = o
                BY <1>6, <1>10, <1>16, <4>1
            <4>2. CASE Has(a, t[k])
                <5>1. PICK j \in DOMAIN a : a[j] = t[k]
                    BY <4>2 DEF Has
                <5>2. /\ t[k].name # Empty /\ t[k].by \in Conn
                      /\ client[t[k].by].nickname = t[k].name
                    BY <2>1, <2>3, <3>1, <5>1 DEF OfferTrue
                <5> QED  BY <1>6, <5>2
            <4> QED  BY <3>5, <4>1, <4>2 DEF Adds
        <3> QED  BY <2>3, <3>3, <3>6 DEF OfferTrue
    <2> QED  BY <2>2, <2>3
<1>19. ASSUME NEW e \in Conn PROVE NameFixed(e)' /\ AskTrue(e)' /\ EngagedTrue(e)'
    BY <1>1, <1>4, <1>5, ServedRest
<1>20. ASSUME NEW e \in Conn PROVE Accepted(e)' = Accepted(e)
    BY <1>4, <1>5
<1>21. ASSUME NEW e \in Conn PROVE AcceptTrue(e)' /\ AcceptedTrue(e)' /\ OnItsWay(e)'
    <2>1. AcceptTrue(e) /\ AcceptedTrue(e) /\ OnItsWay(e)
        BY DEF FileInv, Agreement, Accord
    <2>2. AcceptTrue(e)'
        BY <1>6, <1>8, <2>1, AcceptTrueKept
    <2>3. ASSUME NEW k \in DOMAIN Accepted(e), NEW x, x = Content(Accepted(e)[k])
          PROVE  Waiting(x)' /\ Accepting(x)' = Accepting(x) /\ asker'[x] = asker[x]
        <3>1. x \in Conn /\ Waiting(x)
            BY <1>1, <2>1, <2>3, InboxType DEF AcceptedTrue
        <3> QED  BY <1>6, <1>8, <3>1
    <2>4. AcceptedTrue(e)'
        BY <1>1, <1>6, <1>20, <2>1, <2>3, AcceptedTrueKept
    <2>5. \A c \in Conn : \A k \in DOMAIN Accepted(c) : Has(Accepted(c)', Accepted(c)[k])
        BY <1>20, HasOwn
    <2>6. OnItsWay(e)'
        BY <1>6, <1>8, <2>1, <2>5, OnItsWayKept
    <2> QED  BY <2>2, <2>4, <2>6
<1> QED  BY <1>14, <1>18, <1>19, <1>21 DEF Accord

(* An answer finds the one that asked: it has kept its nickname, and is the  *)
(* only one to have it.                                                      *)
LEMMA AnswerFinds ==
    ASSUME ChatInv, FileInv, NEW u \in Conn, serving = u, NEW q, q = Head(requests[u]),
           q.type \in AnswerTypes
    PROVE  /\ server_get_user_by_name(Head(offers[u]).name) # {}
           /\ \A x \in server_get_user_by_name(Head(offers[u]).name) :
                 x \in Conn /\ client[x].nickname = q.infos /\ q.infos # Empty
<1>1. offers[u] # <<>> /\ Head(offers[u]).name = q.infos /\ offers[u] \in Seq(Offers)
    BY RequestSays DEF ChatInv, IInv, TypeOK
<1>2. PICK s \in Seq(Offers) : s = offers[u]
    BY <1>1
<1>3. 1 \in DOMAIN s /\ Head(s) = s[1]
    BY <1>1, <1>2
<1>4. PICK n : n = q.infos
    OBVIOUS
<1>5. PICK o : o = s[1]
    OBVIOUS
<1>6. n # Empty /\ o.by \in Conn /\ client[o.by].nickname = n
    <2>1. OfferTrue(u)
        BY DEF FileInv, Agreement, Accord
    <2>2. s[1].name = n
        BY <1>1, <1>2, <1>3, <1>4
    <2> QED  BY <1>2, <1>3, <1>5, <2>1, <2>2 DEF OfferTrue
<1>7. PICK y \in Conn : y = o.by
    BY <1>6
<1>8. y \in users /\ user[y].nickname = n
    BY <1>6, <1>7 DEF FileInv, Agreement, Accord, NameFixed
<1>9. ASSUME NEW x \in users, user[x].nickname = n
      PROVE  x \in Conn /\ client[x].nickname = n
    <2>1. x = y
        BY <1>6, <1>7, <1>9, OneOwner
    <2> QED  BY <1>6, <1>7, <2>1
<1> QED  BY <1>1, <1>4, <1>6, <1>8, <1>9 DEF server_get_user_by_name

(* The request that is answered is taken off the list.                       *)
LEMMA ClosedOne ==
    ASSUME NEW u \in Conn, offers \in [Conn -> Seq(Offers)], offers[u] # <<>>,
           offers' = [offers EXCEPT ![u] = Tail(@)]
    PROVE  NoneAsked
<1> SUFFICES ASSUME NEW d \in Conn, NEW k \in DOMAIN offers'[d]
             PROVE  Has(offers[d], offers'[d][k])
    BY DEF NoneAsked
<1>1. CASE d # u
    <2>1. offers'[d] = offers[d]
        BY <1>1
    <2> QED  BY <2>1, HasOwn
<1>2. CASE d = u
    <2>1. PICK s \in Seq(Offers) : s = offers[u]
        OBVIOUS
    <2>2. offers'[d] = Tail(s)
        BY <1>2, <2>1
    <2>3. k \in Nat /\ k + 1 \in DOMAIN s /\ Tail(s)[k] = s[k + 1]
        BY <2>1, <2>2
    <2> QED  BY <1>2, <2>1, <2>2, <2>3 DEF Has
<1> QED  BY <1>1, <1>2

(* A refusal is plain.                                                       *)
LEMMA RejectionAgreed ==
    ASSUME ChatInv, FileInv, NEW u \in Conn, serving = u, NEW q, q = Head(requests[u]), Served(u, q),
           ToUsers, sent' \in [Conn -> Seq(Mail)], q.type = "FILE_REJECT", HandledReturn(u, q)
    PROVE  \A e \in Conn : Accord(e)'
<1>1. \A e \in Conn : Plain(sent'[e])
    <2>1. CASE \A e \in Conn : sent'[e] = <<>>
        BY <2>1 DEF Plain
    <2>2. ASSUME NEW d, NEW p \in Mail, p.type = q.type,
                 \A e \in Conn : sent'[e] = IF e = d THEN <<p>> ELSE <<>>
          PROVE  \A e \in Conn : Plain(sent'[e])
        <3>1. Plain(<<p>>) /\ Plain(<<>>)
            BY <2>2, PlainOne
        <3> QED  BY <2>2, <3>1
    <2> QED  BY <2>1, <2>2 DEF HandledReturn
<1>2. NoneAsked
    <2>1. offers' = [offers EXCEPT ![u] = Tail(@)] /\ offers[u] # <<>> /\ offers \in [Conn -> Seq(Offers)]
        BY RequestSays DEF HandledReturn, ChatInv, IInv, TypeOK, AnswerTypes
    <2> QED  BY <2>1, ClosedOne
<1>3. UNCHANGED <<users, user>>
    BY DEF HandledReturn
<1> QED  BY <1>1, <1>2, <1>3, PlainAgreed

(* An acceptance is passed on to the one that asked: it is on its way, and   *)
(* no other is from the same client.                                         *)
LEMMA AcceptancePassed ==
    ASSUME ChatInv, FileInv, NEW u \in Conn, serving = u, NEW q, q = Head(requests[u]), Served(u, q),
           ToUsers, sent' \in [Conn -> Seq(Mail)], q.type = "FILE_ACCEPT", HandledReturn(u, q)
    PROVE  \A e \in Conn : Accord(e)'
<1>1. UNCHANGED clientvars /\ Delivered /\ UNCHANGED <<users, user>> /\ ChatTypeOK
    BY DEF Served, HandledReturn, ChatInv
<1>2. q.type \in AnswerTypes
    BY DEF AnswerTypes
<1>3. PICK x \in server_get_user_by_name(Head(offers[u]).name), p \in Mail :
         /\ p.type = "FILE_ACCEPT" /\ p.payload.about = {q.payload}
         /\ \A e \in Conn : sent'[e] = IF e = x THEN <<p>> ELSE <<>>
    BY <1>2, AnswerFinds DEF HandledReturn
<1>4. x \in Conn /\ client[x].nickname = q.infos /\ q.infos # Empty
    BY <1>2, AnswerFinds
<1>5. Named(x)' = Named(x) /\ Asked(x)' = Asked(x) /\ Accepted(x)' = Append(Accepted(x), p)
    BY <1>1, <1>3, <1>4, ServedOne
<1>6. ASSUME NEW e \in Conn \ {x}
      PROVE  Named(e)' = Named(e) /\ Asked(e)' = Asked(e) /\ Accepted(e)' = Accepted(e)
    <2>1. Plain(sent'[e])
        BY <1>3 DEF Plain
    <2> QED  BY <1>1, <2>1, ServedPlainly
<1>7. ASSUME NEW e \in Conn
      PROVE  /\ (Waiting(e)' <=> Waiting(e)) /\ (Engaged(e)' <=> Engaged(e))
             /\ asker'[e] = asker[e] /\ client'[e] = client[e] /\ NickKept(e) /\ SendKept(e)
    BY <1>1, ServedClients
<1>8. \A n : Settled(n)
    BY <1>1, ServedClients
<1>9. /\ Accepting(u) = <<q>> /\ Accepting(u)' = <<>>
      /\ \A e \in Conn \ {u} : Accepting(e)' = Accepting(e)
    BY ServedQueue
<1>10. Waiting(u) /\ q.infos = asker[u] /\ q.payload = u
    <2>1. AcceptTrue(u)
        BY DEF FileInv, Agreement, Accord
    <2> QED  BY <1>9, <2>1 DEF AcceptTrue
<1>11. Content(p) = u
    BY <1>3, <1>10 DEF Content
<1>12. PICK a \in Seq(Mail) : a = Accepted(x)
    BY <1>1, <1>4, InboxType
<1>13. PICK t : t = Append(a, p)
    OBVIOUS
<1>14. Accepted(x)' = t /\ Adds(t, a, p)
    BY <1>5, <1>12, <1>13, AppendHas
<1>15. ASSUME NEW e \in Conn, NEW k \in DOMAIN Accepted(e), NEW d, d = Content(Accepted(e)[k])
       PROVE  /\ d \in Conn /\ d # u /\ Waiting(d)' /\ Accepting(d)' = <<>> /\ Accepting(d) = <<>>
              /\ asker'[d] = asker[d] /\ asker[d] = client[e].nickname /\ asker[d] # Empty
    <2>1. AcceptedTrue(e)
        BY DEF FileInv, Agreement, Accord
    <2>2. d \in Conn
        BY <1>1, <1>15, InboxType
    <2>3. Waiting(d) /\ Accepting(d) = <<>> /\ asker[d] = client[e].nickname /\ asker[d] # Empty
        BY <1>15, <2>1 DEF AcceptedTrue
    <2>4. d # u
        <3>1. Accepting(u) = <<q>>
            BY <1>9
        <3>2. Accepting(u) # <<>>
            BY <3>1
        <3>3. Accepting(d) = <<>>
            BY <2>3
        <3> QED  BY <3>2, <3>3
    <2>5. Waiting(d)' /\ asker'[d] = asker[d]
        BY <1>7, <2>2, <2>3
    <2>6. Accepting(d)' = <<>>
        BY <1>9, <2>2, <2>3, <2>4
    <2> QED  BY <2>2, <2>3, <2>4, <2>5, <2>6
<1>16. AcceptedTrue(x)'
    <2>1. ASSUME NEW k \in DOMAIN t, NEW d \in Conn, d = Content(t[k])
          PROVE  /\ Waiting(d)' /\ Accepting(d)' = <<>>
                 /\ asker'[d] = client'[x].nickname /\ asker'[d] # Empty
        <3>1. CASE t[k] = p
            BY <1>4, <1>7, <1>9, <1>10, <1>11, <2>1, <3>1
        <3>2. CASE Has(a, t[k])
            <4>1. PICK j \in DOMAIN a : a[j] = t[k]
                BY <3>2 DEF Has
            <4> QED  BY <1>4, <1>7, <1>12, <1>15, <2>1, <4>1
        <3> QED  BY <1>14, <3>1, <3>2 DEF Adds
    <2>2. PICK m \in Nat : m = Len(a)
        OBVIOUS
    <2>3. DOMAIN t = 1..(m + 1) /\ DOMAIN a = 1..m /\ t[m + 1] = p /\ \A i \in 1..m : t[i] = a[i]
        BY <1>13, <2>2, AppendProperties
    <2>4. \A i \in 1..m : Content(a[i]) # u
        BY <1>4, <1>12, <1>15, <2>3
    <2>5. \A i, j \in 1..m : Content(a[i]) = Content(a[j]) => i = j
        BY <1>4, <1>12, <2>3 DEF FileInv, Agreement, Accord, AcceptedTrue
    <2>6. \A j, k \in DOMAIN t : Content(t[j]) = Content(t[k]) => j = k
        <3> SUFFICES ASSUME NEW j \in DOMAIN t, NEW k \in DOMAIN t, Content(t[j]) = Content(t[k])
                     PROVE  j = k
            OBVIOUS
        <3>1. (j \in 1..m \/ j = m + 1) /\ (k \in 1..m \/ k = m + 1)
            BY <2>3
        <3>2. CASE j \in 1..m /\ k \in 1..m
            BY <2>3, <2>5, <3>2
        <3>3. CASE j = m + 1 /\ k \in 1..m
            BY <1>11, <2>3, <2>4, <3>3
        <3>4. CASE j \in 1..m /\ k = m + 1
            BY <1>11, <2>3, <2>4, <3>4
        <3> QED  BY <3>1, <3>2, <3>3, <3>4
    <2>7. \A k \in DOMAIN t : Content(t[k]) \in Conn
        <3>1. \A j \in DOMAIN a : Content(a[j]) \in Conn
            BY <1>1, <1>4, <1>12, InboxType
        <3>2. \A k \in DOMAIN t : t[k] = p \/ \E j \in DOMAIN a : a[j] = t[k]
            BY <1>14 DEF Adds, Has
        <3> QED  BY <1>11, <3>1, <3>2
    <2> QED  BY <1>14, <2>1, <2>6, <2>7 DEF AcceptedTrue
<1>17. ASSUME NEW e \in Conn PROVE AcceptedTrue(e)'
    <2>1. CASE e # x
        <3>1. ASSUME NEW k \in DOMAIN Accepted(e), NEW d, d = Content(Accepted(e)[k])
              PROVE  Waiting(d)' /\ Accepting(d)' = Accepting(d) /\ asker'[d] = asker[d]
            BY <1>15, <3>1
        <3>2. AcceptedTrue(e) /\ Accepted(e)' = Accepted(e) /\ NickKept(e)
            BY <1>6, <1>7, <2>1 DEF FileInv, Agreement, Accord
        <3> QED  BY <1>1, <3>1, <3>2, AcceptedTrueKept
    <2> QED  BY <1>16, <2>1
<1>18. ASSUME NEW e \in Conn PROVE AcceptTrue(e)'
    <2>1. CASE e # u
        <3>1. AcceptTrue(e) /\ (Waiting(e)' <=> Waiting(e)) /\ asker'[e] = asker[e] /\ Accepting(e)' = Accepting(e)
            BY <1>7, <1>9, <2>1 DEF FileInv, Agreement, Accord
        <3> QED  BY <3>1, AcceptTrueKept
    <2> QED  BY <1>9, <2>1 DEF AcceptTrue
<1>19. ASSUME NEW c \in Conn PROVE \A k \in DOMAIN Accepted(c) : Has(Accepted(c)', Accepted(c)[k])
    <2>1. CASE c # x
        BY <1>6, <2>1, HasOwn
    <2>2. CASE c = x
        <3>1. \A k \in DOMAIN a : Has(t, a[k])
            BY <1>14, HasOwn DEF Adds
        <3> QED  BY <1>12, <1>14, <2>2, <3>1
    <2> QED  BY <2>1, <2>2
<1>20. ASSUME NEW e \in Conn PROVE OnItsWay(e)'
    <2>1. CASE e # u
        <3>1. OnItsWay(e) /\ (Waiting(e)' <=> Waiting(e)) /\ Accepting(e)' = Accepting(e)
            BY <1>7, <1>9, <2>1 DEF FileInv, Agreement, Accord
        <3> QED  BY <1>19, <3>1, OnItsWayKept
    <2>2. CASE e = u
        <3>1. Has(t, p)
            BY <1>14 DEF Adds
        <3>2. PICK k \in DOMAIN t : t[k] = p
            BY <3>1 DEF Has
        <3>3. \E i \in DOMAIN t : Content(t[i]) = u
            BY <1>11, <3>2
        <3> QED  BY <1>4, <1>14, <2>2, <3>3 DEF OnItsWay, Content
    <2> QED  BY <2>1, <2>2
<1>21. NoneAsked
    <2>1. offers' = [offers EXCEPT ![u] = Tail(@)] /\ offers[u] # <<>> /\ offers \in [Conn -> Seq(Offers)]
        BY <1>2, RequestSays DEF HandledReturn, ChatInv, IInv, TypeOK
    <2> QED  BY <2>1, ClosedOne
<1>22. ASSUME NEW e \in Conn PROVE OfferTrue(e)' /\ AskedTrue(e)'
    <2>1. OfferTrue(e) /\ AskedTrue(e)
        BY DEF FileInv, Agreement, Accord
    <2>2. OfferTrue(e)'
        BY <1>7, <1>21, <2>1, OfferTrueKept DEF NoneAsked
    <2>3. Asked(e)' = Asked(e)
        BY <1>5, <1>6
    <2>4. \A k \in DOMAIN Asked(e)' : Has(Asked(e), Asked(e)'[k])
        BY <2>3, HasOwn
    <2>5. AskedTrue(e)'
        BY <1>8, <2>1, <2>4, AskedTrueKept
    <2> QED  BY <2>2, <2>5
<1>23. ASSUME NEW e \in Conn PROVE NameFixed(e)' /\ AskTrue(e)' /\ EngagedTrue(e)'
    BY <1>1, <1>5, <1>6, ServedRest
<1> QED  BY <1>17, <1>18, <1>20, <1>22, <1>23 DEF Accord

(* The server deals with a packet, and leaves the clients in agreement.      *)
LEMMA ServeAgreed ==
    ASSUME ChatInv, FileInv, Serve
    PROVE  FileInv'
<1>1. PICK u \in Conn : u = serving
    BY DEF Serve, ChatInv, ChatTypeOK
<1>2. PICK q : q = Head(requests[u])
    OBVIOUS
<1>3. serving = u /\ Handles(u, q) /\ Served(u, q) /\ Delivers
    BY <1>1, <1>2 DEF Serve, Served, Delivers, Delivered
<1>4. q \in Reqs /\ q.from \in aka[u] /\ (q.type \in AnswerTypes => user[u].is_logged_in)
    BY <1>2, <1>3, RequestSays
<1>5. IInv /\ ChatInv' /\ ChatTypeOK /\ Steady
    BY ServeKeeps DEF ChatInv, FileInv
<1>6. /\ ToUsers
      /\ \/ q.type \notin AnswerTypes /\ HandledPlainly /\ fault' = fault
         \/ q.type = "NICKNAME_NEW" /\ HandledName(u, q.infos) /\ fault' = fault
         \/ /\ q.type = "FILE_REQUEST" /\ fault' = fault
            /\ \E d \in Conn \ {u} : HandledAsk(u, q.from, d, q.payload)
         \/ q.type \in AnswerTypes /\ HandledReturn(u, q)
    BY <1>3, <1>4, <1>5, HandlesTrue
<1>7. sent' \in [Conn -> Seq(Mail)]
    <2>1. sent' \in [Conn -> Seq(Packets)] /\ TypeOK'
        BY <1>5 DEF ChatInv, IInv, TypeOK
    <2>2. ASSUME NEW e \in Conn PROVE sent'[e] \in Seq(Mail)
        <3>1. CASE HandledPlainly
            BY <2>1, <3>1, PlainMail DEF HandledPlainly
        <3>2. CASE q.type \notin AnswerTypes /\ ~HandledPlainly
            <4>1. CASE q.type = "NICKNAME_NEW" /\ HandledName(u, q.infos)
                <5>1. q.infos \in Nick
                    BY <1>4, <4>1 DEF Reqs
                <5> QED  BY <1>2, <1>3, <2>1, <3>2, <4>1, <5>1, NameServed
            <4>2. ASSUME q.type = "FILE_REQUEST", NEW d \in Conn \ {u}, HandledAsk(u, q.from, d, q.payload)
                  PROVE  sent'[e] \in Seq(Mail)
                <5>1. q.payload \in Body
                    BY <1>4, <4>2 DEF Reqs
                <5> QED  BY <1>2, <1>3, <2>1, <3>2, <4>2, <5>1, AskServed
            <4> QED  BY <1>6, <3>2, <4>1, <4>2
        <3>3. CASE HandledReturn(u, q)
            <4>1. CASE \A c \in Conn : sent'[c] = <<>>
                BY <4>1, UnheardNothing
            <4>2. ASSUME NEW x, NEW p \in Mail, \A c \in Conn : sent'[c] = IF c = x THEN <<p>> ELSE <<>>
                  PROVE  sent'[e] \in Seq(Mail)
                <5>1. <<p>> \in Seq(Mail)
                    OBVIOUS
                <5> QED  BY <4>2, <5>1, UnheardNothing
            <4>3. \/ \A c \in Conn : sent'[c] = <<>>
                  \/ \E x : \E p \in Mail : \A c \in Conn : sent'[c] = IF c = x THEN <<p>> ELSE <<>>
                BY <3>3 DEF HandledReturn
            <4> QED  BY <4>1, <4>2, <4>3
        <3> QED  BY <1>6, <3>1, <3>2, <3>3 DEF AnswerTypes
    <2> QED  BY <2>1, <2>2
<1>8. fault' = "none"
    <2>1. CASE fault' = fault
        BY <1>5, <2>1 DEF Steady, Up
    <2>2. CASE q.type \in AnswerTypes /\ HandledReturn(u, q)
        <3>1. server_get_user_by_name(Head(offers[u]).name) # {}
            BY <1>2, <1>3, <2>2, AnswerFinds
        <3> QED  BY <2>2, <3>1 DEF HandledReturn, Through
    <2> QED  BY <1>6, <2>1, <2>2
<1>9. \A e \in Conn : Accord(e)'
    <2>1. CASE q.type \notin AnswerTypes /\ HandledPlainly
        <3>1. q.type # "FILE_ACCEPT" /\ UNCHANGED <<users, user>> /\ offers' = offers /\ \A e \in Conn : Plain(sent'[e])
            BY <2>1 DEF HandledPlainly, AnswerTypes
        <3>2. NoneAsked
            BY <3>1, HasOwn DEF NoneAsked
        <3> QED  BY <1>2, <1>3, <1>6, <1>7, <3>1, <3>2, PlainAgreed
    <2>2. CASE q.type = "NICKNAME_NEW" /\ HandledName(u, q.infos)
        BY <1>2, <1>3, <1>5, <1>6, <1>7, <2>2, NameAgreed
    <2>3. ASSUME q.type = "FILE_REQUEST", NEW d \in Conn \ {u}, HandledAsk(u, q.from, d, q.payload)
          PROVE  \A e \in Conn : Accord(e)'
        BY <1>2, <1>3, <1>6, <1>7, <2>3, AskAgreed
    <2>4. CASE q.type = "FILE_REJECT" /\ HandledReturn(u, q)
        BY <1>2, <1>3, <1>6, <1>7, <2>4, RejectionAgreed
    <2>5. CASE q.type = "FILE_ACCEPT" /\ HandledReturn(u, q)
        BY <1>2, <1>3, <1>6, <1>7, <2>5, AcceptancePassed
    <2>6. q.type \in AnswerTypes => q.type = "FILE_ACCEPT" \/ q.type = "FILE_REJECT"
        BY DEF AnswerTypes
    <2> QED  BY <1>6, <2>1, <2>2, <2>3, <2>4, <2>5, <2>6
<1>10. Steady' /\ \A e \in Conn : BlockedRight(e)' /\ TransferTrue(e)'
    <2>1. UNCHANGED clientvars /\ Delivered
        BY <1>3 DEF Served
    <2>2. down' \in IF \E d \in Conn : sent'[d] # <<>> /\ ~Running(d) THEN BOOLEAN ELSE {FALSE}
        BY <1>3 DEF Delivers
    <2> QED  BY <1>6, <1>7, <1>8, <2>1, <2>2, ServedSteady
<1> QED  BY <1>9, <1>10, FileInvKept

-----------------------------------------------------------------------------
(* The whole.                                                                *)

(* A step that leaves all this alone.                                        *)
LEMMA StillAgreed ==
    ASSUME ChatInv, FileInv, UNCHANGED <<regvars, mode, client, asker, peer, blocked, requests, inbox, down>>
    PROVE  FileInv'
<1>1. \A e \in Conn : Same(e) /\ Unmoved(e)
    BY SameUnmoved DEF Same
<1>2. user' = user /\ users' = users /\ offers' = offers /\ fault' = fault
    BY DEF regvars, tables
<1>3. \A e \in Conn : client'[e].nickname = client[e].nickname /\ NickKept(e) /\ SendKept(e)
    BY DEF NickKept, SendKept
<1>4. \A n : Settled(n)
    BY <1>3, AllSettled
<1>5. NoneAsked
    BY <1>2, HasOwn DEF NoneAsked
<1>6. ASSUME NEW e \in Conn PROVE NameFixed(e)' /\ AskTrue(e)'
    <2>1. NameFixed(e) /\ AskTrue(e) /\ Unmoved(e)
        BY <1>1 DEF FileInv, Agreement, Accord
    <2>2. NameFixed(e)'
        BY <1>2, <1>3, <2>1, NameFixedKept DEF Unmoved
    <2>3. AskTrue(e)'
        BY <1>3, <2>1, AskTrueKept DEF Unmoved
    <2> QED  BY <2>2, <2>3
<1>7. \A e \in Conn : NickKept(e) /\ Calm(e)
    BY <1>1, <1>3 DEF Unmoved
<1>8. \A e \in Conn : Accord(e)'
    BY <1>4, <1>5, <1>6, <1>7, CalmAccord
<1>9. Steady'
    BY <1>2 DEF FileInv, Steady, Up
<1>10. \A e \in Conn : BlockedRight(e)' /\ TransferTrue(e)'
    BY DEF FileInv, Agreement, BlockedRight, TransferTrue, Transferring
<1> QED  BY <1>8, <1>9, <1>10, FileInvKept

(* At first nobody has anything of anybody.                                  *)
LEMMA InitFileInv == Init => FileInv
<1> SUFFICES ASSUME Init PROVE FileInv
    OBVIOUS
<1>1. /\ mode = [c \in Conn |-> "off"] /\ client = [c \in Conn |-> NoClient]
      /\ peer = [c \in Conn |-> NoConn] /\ blocked = [c \in Conn |-> <<>>]
      /\ requests = [c \in Conn |-> <<>>] /\ inbox = [c \in Conn |-> <<>>]
      /\ offers = [c \in Conn |-> <<>>] /\ fault = "none" /\ down = FALSE
    BY DEF Init, RegInit
<1>2. Steady
    BY <1>1 DEF Steady, Up
<1>3. ASSUME NEW c \in Conn
      PROVE  /\ mode[c] = "off" /\ client[c].nickname = Empty /\ blocked[c] = <<>> /\ requests[c] = <<>>
             /\ inbox[c] = <<>> /\ offers[c] = <<>>
    BY <1>1 DEF NoClient
<1>4. ASSUME NEW c \in Conn PROVE Queued(c) = <<>>
    <2>1. <<>> \o <<>> = <<>>
        OBVIOUS
    <2> QED  BY <1>3, <2>1 DEF Queued, Waits
<1>5. ASSUME NEW types PROVE OfType(<<>>, types) = <<>>
    <2>1. PICK z : z = <<>>
        OBVIOUS
    <2>2. z \in Seq(Reqs) /\ \A k \in DOMAIN z : z[k].type \notin types
        BY <2>1
    <2> QED  BY <2>1, <2>2, OfTypeNone
<1>6. PICK z : z = <<>> /\ DOMAIN z = {}
    OBVIOUS
<1>7. ASSUME NEW c \in Conn
      PROVE  /\ Naming(c) = z /\ Asking(c) = z /\ Accepting(c) = z
             /\ Named(c) = z /\ Asked(c) = z /\ Accepted(c) = z /\ offers[c] = z /\ blocked[c] = z
             /\ ~Waiting(c) /\ ~Engaged(c) /\ ~Transferring(c)
    BY <1>3, <1>4, <1>5, <1>6 DEF Naming, Asking, Accepting, Named, Asked, Accepted, Waiting, Engaged, Transferring
<1>8. ASSUME NEW c \in Conn PROVE Agreement(c)
    <2>1. Accord(c)
        BY <1>3, <1>6, <1>7 DEF Accord, NameFixed, OfferTrue, AskTrue, AskedTrue, EngagedTrue,
                                AcceptTrue, AcceptedTrue, OnItsWay
    <2>2. BlockedRight(c) /\ TransferTrue(c)
        BY <1>6, <1>7 DEF BlockedRight, TransferTrue
    <2> QED  BY <2>1, <2>2 DEF Agreement
<1> QED  BY <1>2, <1>8 DEF FileInv

(* And every step keeps the agreement, when users have no other habits.      *)
LEMMA StepFileInv ==
    ASSUME Habits = {}, ChatInv, FileInv, [Next]_vars
    PROVE  FileInv'
<1>1. ChatInv'
    BY StepChatInv
<1>2. ASSUME NEW c \in Conn, Arrive(c) PROVE FileInv'
    BY <1>1, <1>2, ArriveAgreed
<1>3. ASSUME NEW c \in Conn, Commanded(c) \/ Answers(c) PROVE FileInv'
    BY <1>3, TypedAgreed
<1>4. ASSUME NEW c \in Conn, Runs(c) PROVE FileInv'
    BY <1>4, RunsAgreed
<1>5. ASSUME NEW c \in Conn PROVE ~Leave(c)
    BY DEF Leave
<1>6. CASE Serve
    BY <1>6, ServeAgreed
<1>7. ASSUME NEW c \in Conn, Choose(c) PROVE FileInv'
    BY <1>7, StillAgreed DEF Choose, clientvars
<1>8. ASSUME NEW c \in Conn PROVE ~Departs(c)
    BY DEF Departs, FileInv, Steady
<1>9. CASE UNCHANGED vars
    BY <1>9, StillAgreed DEF vars, clientvars
<1> QED  BY <1>2, <1>3, <1>4, <1>5, <1>6, <1>7, <1>8, <1>9 DEF Next, Server

(* When users type nothing before they have a nickname, keep it, wait for    *)
(* the answer to one file before they offer another, and stay, the clients   *)
(* agree all along on what is asked, accepted and sent.                      *)
THEOREM ChatAgreement ==
    ASSUME Habits = {}
    PROVE  Behaviour => []FileInv
<1>1. Init => ChatInv /\ FileInv
    BY InitChatInv, InitFileInv
<1>2. ChatInv /\ FileInv /\ [Next]_vars => (ChatInv /\ FileInv)'
    BY StepChatInv, StepFileInv
<1> QED  BY <1>1, <1>2, PTL DEF Behaviour

(* So the file that client.c sends is the one that was accepted, or none,    *)
(* and it is sent by whoever the receiver accepted it from.                  *)
THEOREM ChatTransfers ==
    ASSUME Habits = {}
    PROVE  Behaviour => []TransfersAsAgreed
<1>1. FileInv => TransfersAsAgreed
    BY DEF FileInv, Agreement, TransferTrue, TransfersAsAgreed
<1> QED  BY <1>1, ChatAgreement, PTL

NobodyGoes == Up /\ \A c \in Conn : mode[c] # "gone"

(* And nobody goes: server.c finds the requester of every answer, nothing is *)
(* written to a client that has gone, and whoever connects to a client that  *)
(* has accepted its file is let in (client.c), so that no client exits.      *)
THEOREM ChatGoesOn ==
    ASSUME Habits = {}
    PROVE  Behaviour => []NobodyGoes
<1>1. FileInv => NobodyGoes
    BY DEF FileInv, Steady, NobodyGoes
<1> QED  BY <1>1, ChatAgreement, PTL
=============================================================================
