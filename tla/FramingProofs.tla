---------------------------- MODULE FramingProofs ----------------------------
(***************************************************************************)
(* Theorems about Framing, for any number of clients, any lengths of the    *)
(* header and of payloads and any number of packets: however the bytes      *)
(* come, and whatever the clients that are cut off leave behind.            *)
(***************************************************************************)
EXTENDS Framing, SequenceTheorems, TLAPS

Byte == Nat \X Nat

(* Every variable of the clients and of the server has its type.             *)
FrameTypeOK ==
    /\ sent \in [Conn -> Seq(Nat)]
    /\ left \in [Conn -> Nat]
    /\ stream \in [Conn -> Seq(Byte)]
    /\ conn \in [Conn -> ConnStates]
    /\ revents \in [Conn -> {"none", "in", "hup"}]
    /\ reading \in Conn \cup {NoConn}
    /\ part \in {"header", "payload"}
    /\ packet \in [header : Seq(Byte), payload : Seq(Byte)]
    /\ handled \in [Conn -> Seq(Seq(Byte))]
    /\ down \in BOOLEAN

-----------------------------------------------------------------------------
(* Where packets begin.  Of N packets of lengths s, h have been handled; M    *)
(* bytes U came after those and l are still to come.  The first byte of      *)
(* packet n is byte at[n] + 1 of U, or was before it, or will be after it.   *)

Begins(N, s, h, at) ==
    /\ h <= N
    /\ at \in [1..(N + 1) -> Int]
    /\ at[h + 1] = 0
    /\ \A n \in 1..N : at[n + 1] = at[n] + HeaderLen + s[n]
    /\ \A m, n \in 1..(N + 1) : m < n => at[m] < at[n]

Follows(N, M, U, at) ==
    \A k \in 1..M :
        \E n \in 1..N : at[n] < k /\ k <= at[n + 1] /\ U[k] = <<n, k - at[n]>>

Outstanding(N, s, M, l, at) ==
    /\ M = at[N + 1] - l
    /\ N > 0 => l <= HeaderLen + s[N]
    /\ N = 0 => l = 0

InPlace(N, s, h, M, U, l) ==
    \E at : Begins(N, s, h, at) /\ Follows(N, M, U, at) /\ Outstanding(N, s, M, l, at)

(* Nothing sent, nothing handled.                                            *)
LEMMA NothingInPlace == \A s, U : InPlace(0, s, 0, 0, U, 0)
<1> TAKE s, U
<1> DEFINE at == [n \in 1..1 |-> 0]
<1>1. Begins(0, s, 0, at)
    BY DEF Begins
<1>2. Follows(0, 0, U, at)
    BY DEF Follows
<1>3. Outstanding(0, s, 0, 0, at)
    BY DEF Outstanding
<1> QED  BY <1>1, <1>2, <1>3 DEF InPlace

(* A packet is begun when the one before has come.                           *)
LEMMA SendInPlace ==
    ASSUME NEW N \in Nat, NEW s, \A n \in 1..N : s[n] \in Nat,
           NEW h \in Nat, NEW M \in Nat, NEW U, NEW len \in Nat,
           InPlace(N, s, h, M, U, 0),
           NEW t, t[N + 1] = len, \A n \in 1..N : t[n] = s[n]
    PROVE  InPlace(N + 1, t, h, M, U, HeaderLen + len)
<1>h. HeaderLen \in Nat /\ HeaderLen > 0
    BY FramingAssumption
<1>1. PICK at : Begins(N, s, h, at) /\ Follows(N, M, U, at) /\ Outstanding(N, s, M, 0, at)
    BY DEF InPlace
<1>3. /\ h <= N
      /\ at \in [1..(N + 1) -> Int]
      /\ at[h + 1] = 0
      /\ \A n \in 1..N : at[n + 1] = at[n] + HeaderLen + s[n]
      /\ \A m, n \in 1..(N + 1) : m < n => at[m] < at[n]
    BY <1>1 DEF Begins
<1> DEFINE bt == [n \in 1..(N + 2) |-> IF n = N + 2 THEN at[N + 1] + HeaderLen + len ELSE at[n]]
<1>4. /\ bt \in [1..(N + 2) -> Int]
      /\ \A n \in 1..(N + 1) : bt[n] = at[n]
      /\ bt[N + 2] = at[N + 1] + HeaderLen + len
    BY <1>h, <1>3
<1> HIDE DEF bt
<1>5. Begins(N + 1, t, h, bt)
    <2>1. h <= N + 1 /\ bt[h + 1] = 0
        BY <1>3, <1>4
    <2>2. ASSUME NEW n \in 1..(N + 1) PROVE bt[n + 1] = bt[n] + HeaderLen + t[n]
        <3>1. CASE n = N + 1
            BY <3>1, <1>4
        <3>2. CASE n \in 1..N
            BY <3>2, <1>3, <1>4
        <3> QED  BY <3>1, <3>2
    <2>3. ASSUME NEW m \in 1..(N + 2), NEW n \in 1..(N + 2), m < n
          PROVE  bt[m] < bt[n]
        <3>1. CASE n = N + 2
            <4>1. m \in 1..(N + 1) /\ N + 1 \in 1..(N + 1) /\ at[m] \in Int /\ at[N + 1] \in Int
                BY <3>1, <2>3, <1>3
            <4>2. m = N + 1 \/ at[m] < at[N + 1]
                BY <4>1, <1>3
            <4>3. at[m] <= at[N + 1]
                BY <4>1, <4>2
            <4> QED  BY <3>1, <4>1, <4>3, <1>4, <1>h
        <3>2. CASE n \in 1..(N + 1)
            BY <3>2, <2>3, <1>3, <1>4
        <3> QED  BY <3>1, <3>2
    <2> QED  BY <2>1, <2>2, <2>3, <1>4 DEF Begins
<1>6. Follows(N + 1, M, U, bt)
    <2> SUFFICES ASSUME NEW k \in 1..M
                 PROVE  \E n \in 1..(N + 1) :
                           bt[n] < k /\ k <= bt[n + 1] /\ U[k] = <<n, k - bt[n]>>
        BY DEF Follows
    <2>1. PICK n \in 1..N : at[n] < k /\ k <= at[n + 1] /\ U[k] = <<n, k - at[n]>>
        BY <1>1 DEF Follows
    <2>2. n + 1 \in 1..(N + 1) /\ n \in 1..(N + 1)
        OBVIOUS
    <2> QED  BY <2>1, <2>2, <1>4
<1>7. Outstanding(N + 1, t, M, HeaderLen + len, bt)
    <2>1. M = at[N + 1]
        BY <1>1, <1>3 DEF Outstanding
    <2>2. M = bt[(N + 1) + 1] - (HeaderLen + len)
        BY <2>1, <1>h, <1>4
    <2> QED  BY <2>2, <1>h DEF Outstanding
<1> QED  BY <1>5, <1>6, <1>7 DEF InPlace

(* More of the last packet comes.                                            *)
LEMMA ArriveInPlace ==
    ASSUME NEW N \in Nat, NEW s, \A n \in 1..N : s[n] \in Nat,
           NEW h \in Nat, NEW M \in Nat, NEW U, NEW l \in Nat,
           InPlace(N, s, h, M, U, l), NEW j \in 1..l,
           NEW V, \A k \in 1..M : V[k] = U[k],
           \A k \in 1..j : V[M + k] = <<N, HeaderLen + s[N] - l + k>>
    PROVE  InPlace(N, s, h, M + j, V, l - j)
<1>h. HeaderLen \in Nat /\ HeaderLen > 0
    BY FramingAssumption
<1>1. PICK at : Begins(N, s, h, at) /\ Follows(N, M, U, at) /\ Outstanding(N, s, M, l, at)
    BY DEF InPlace
<1>2. N > 0 /\ l <= HeaderLen + s[N] /\ s[N] \in Nat
    BY <1>1 DEF Outstanding
<1>3. /\ at[N] \in Int
      /\ at[N + 1] = at[N] + HeaderLen + s[N]
      /\ M = at[N + 1] - l
    BY <1>1, <1>2 DEF Begins, Outstanding
<1>5. Follows(N, M + j, V, at)
    <2> SUFFICES ASSUME NEW k \in 1..(M + j)
                 PROVE  \E n \in 1..N : at[n] < k /\ k <= at[n + 1] /\ V[k] = <<n, k - at[n]>>
        BY DEF Follows
    <2>1. CASE k \in 1..M
        <3>1. PICK n \in 1..N : at[n] < k /\ k <= at[n + 1] /\ U[k] = <<n, k - at[n]>>
            BY <1>1, <2>1 DEF Follows
        <3> QED  BY <3>1, <2>1
    <2>2. CASE k - M \in 1..j
        <3>1. V[M + (k - M)] = <<N, HeaderLen + s[N] - l + (k - M)>>
            BY <2>2
        <3>2. HeaderLen + s[N] - l + (k - M) = k - at[N] /\ M + (k - M) = k
            BY <1>h, <1>2, <1>3
        <3>3. at[N] < k /\ k <= at[N + 1]
            BY <2>2, <1>h, <1>2, <1>3
        <3>4. V[k] = <<N, k - at[N]>>
            BY <3>1, <3>2
        <3> QED  BY <3>3, <3>4, <1>2
    <2> QED  BY <2>1, <2>2
<1>6. Outstanding(N, s, M + j, l - j, at)
    BY <1>h, <1>2, <1>3 DEF Outstanding
<1> QED  BY <1>1, <1>5, <1>6 DEF InPlace

(* The first of M bytes U are those of packet n, of which there are len.     *)
StartsWith(M, U, n, len) == \A k \in 1..M : k <= len => U[k] = <<n, k>>

(* What is not handled begins with the first byte of the next packet, and    *)
(* goes on with the rest of it.                                              *)
LEMMA NextPacket ==
    ASSUME NEW N \in Nat, NEW s, \A n \in 1..N : s[n] \in Nat,
           NEW h \in Nat, NEW M \in Nat, NEW U, NEW l \in Nat,
           InPlace(N, s, h, M, U, l), M > 0
    PROVE  /\ h + 1 \in 1..N
           /\ StartsWith(M, U, h + 1, HeaderLen + s[h + 1])
           /\ M < HeaderLen + s[h + 1] => N = h + 1
<1>h. HeaderLen \in Nat /\ HeaderLen > 0
    BY FramingAssumption
<1>1. PICK at : Begins(N, s, h, at) /\ Follows(N, M, U, at) /\ Outstanding(N, s, M, l, at)
    BY DEF InPlace
<1>2. /\ h <= N
      /\ \A n \in 1..(N + 1) : at[n] \in Int
      /\ at[h + 1] = 0
      /\ \A n \in 1..N : at[n + 1] = at[n] + HeaderLen + s[n]
      /\ \A m, n \in 1..(N + 1) : m < n => at[m] < at[n]
    BY <1>1 DEF Begins
<1>m. \A m, n \in 1..(N + 1) : at[m] < at[n] => m < n
    BY <1>2
<1>3. h + 1 \in 1..N
    <2>1. PICK n \in 1..N : at[n] < 1 /\ 1 <= at[n + 1]
        BY <1>1 DEF Follows
    <2>2. n + 1 \in 1..(N + 1) /\ h + 1 \in 1..(N + 1)
        BY <1>2
    <2>3. at[h + 1] < at[n + 1]
        BY <2>1, <2>2, <1>2
    <2>4. h + 1 < n + 1
        BY <2>2, <2>3, <1>m
    <2> QED  BY <2>4
<1>4. at[(h + 1) + 1] = HeaderLen + s[h + 1] /\ s[h + 1] \in Nat
    BY <1>2, <1>3, <1>h
<1>5. ASSUME NEW k \in 1..M, k <= HeaderLen + s[h + 1]
      PROVE  U[k] = <<h + 1, k>>
    <2>1. PICK n \in 1..N : at[n] < k /\ k <= at[n + 1] /\ U[k] = <<n, k - at[n]>>
        BY <1>1 DEF Follows
    <2>2. n \in 1..(N + 1) /\ n + 1 \in 1..(N + 1) /\ h + 1 \in 1..(N + 1)
          /\ (h + 1) + 1 \in 1..(N + 1)
        BY <1>3
    <2>3. at[h + 1] < at[n + 1] /\ at[n] < at[(h + 1) + 1]
        <3>1. at[n] \in Int /\ at[n + 1] \in Int
            BY <2>2, <1>2
        <3> QED  BY <3>1, <2>1, <1>2, <1>4, <1>5, <1>h
    <2>4. h + 1 < n + 1 /\ n < (h + 1) + 1
        BY <2>2, <2>3, <1>m
    <2>5. n = h + 1
        BY <2>4
    <2> QED  BY <2>1, <2>5, <1>2
<1>6. ASSUME M < HeaderLen + s[h + 1] PROVE N = h + 1
    <2>1. N > 0 /\ M = at[N + 1] - l /\ l <= HeaderLen + s[N]
        BY <1>1, <1>3 DEF Outstanding
    <2>2. /\ N \in 1..(N + 1) /\ N + 1 \in 1..(N + 1) /\ N \in 1..N
          /\ (h + 1) + 1 \in 1..(N + 1)
        BY <2>1, <1>3
    <2>3. at[N + 1] = at[N] + HeaderLen + s[N] /\ at[N] \in Int /\ s[N] \in Nat
        BY <2>2, <1>2
    <2>4. at[N] < at[(h + 1) + 1]
        BY <2>1, <2>3, <1>4, <1>6, <1>h
    <2>5. N < (h + 1) + 1
        BY <2>2, <2>4, <1>m
    <2> QED  BY <2>5, <1>3
<1> QED  BY <1>3, <1>5, <1>6 DEF StartsWith

(* Once it is handled, what follows is in place.                             *)
LEMMA HandleInPlace ==
    ASSUME NEW N \in Nat, NEW s, \A n \in 1..N : s[n] \in Nat,
           NEW h \in Nat, NEW M \in Nat, NEW U, NEW l \in Nat,
           InPlace(N, s, h, M + HeaderLen + s[h + 1], U, l), h + 1 \in 1..N,
           NEW V, \A k \in 1..M : V[k] = U[HeaderLen + s[h + 1] + k]
    PROVE  InPlace(N, s, h + 1, M, V, l)
<1> DEFINE taken == HeaderLen + s[h + 1]
<1>h. HeaderLen \in Nat /\ HeaderLen > 0
    BY FramingAssumption
<1>k. taken \in Nat /\ \A k \in 1..M : V[k] = U[taken + k]
    BY <1>h
<1>1. PICK at : /\ Begins(N, s, h, at) /\ Follows(N, M + taken, U, at)
                /\ Outstanding(N, s, M + taken, l, at)
    <2>1. M + HeaderLen + s[h + 1] = M + taken
        BY <1>h
    <2> QED  BY <2>1 DEF InPlace
<1>2. /\ \A n \in 1..(N + 1) : at[n] \in Int
      /\ at[h + 1] = 0
      /\ \A n \in 1..N : at[n + 1] = at[n] + HeaderLen + s[n]
      /\ \A m, n \in 1..(N + 1) : m < n => at[m] < at[n]
    BY <1>1 DEF Begins
<1>t. at[(h + 1) + 1] = taken
    BY <1>2, <1>h
<1> HIDE DEF taken
<1> DEFINE bt == [n \in 1..(N + 1) |-> at[n] - taken]
<1>3. bt \in [1..(N + 1) -> Int] /\ \A n \in 1..(N + 1) : bt[n] = at[n] - taken
    BY <1>2, <1>k
<1> HIDE DEF bt
<1>4. Begins(N, s, h + 1, bt)
    <2>1. bt[(h + 1) + 1] = 0 /\ h + 1 <= N
        BY <1>t, <1>3, <1>k
    <2>2. ASSUME NEW n \in 1..N
          PROVE  bt[n + 1] = bt[n] + HeaderLen + s[n]
        <3>1. n \in 1..(N + 1) /\ n + 1 \in 1..(N + 1) /\ s[n] \in Nat
            OBVIOUS
        <3>2. /\ at[n] \in Int /\ at[n + 1] = at[n] + HeaderLen + s[n]
              /\ bt[n] = at[n] - taken /\ bt[n + 1] = at[n + 1] - taken
            BY <3>1, <1>2, <1>3
        <3> QED  BY <3>1, <3>2, <1>h, <1>k
    <2>3. ASSUME NEW m \in 1..(N + 1), NEW n \in 1..(N + 1), m < n
          PROVE  bt[m] < bt[n]
        <3>1. /\ at[m] \in Int /\ at[n] \in Int /\ at[m] < at[n]
              /\ bt[m] = at[m] - taken /\ bt[n] = at[n] - taken
            BY <2>3, <1>2, <1>3
        <3> QED  BY <3>1, <1>k
    <2> QED  BY <2>1, <2>2, <2>3, <1>3 DEF Begins
<1>5. Follows(N, M, V, bt)
    <2> SUFFICES ASSUME NEW k \in 1..M
                 PROVE  \E n \in 1..N : bt[n] < k /\ k <= bt[n + 1] /\ V[k] = <<n, k - bt[n]>>
        BY DEF Follows
    <2>1. PICK j \in 1..(M + taken) : j = taken + k
        BY <1>k
    <2>2. PICK n \in 1..N : at[n] < j /\ j <= at[n + 1] /\ U[j] = <<n, j - at[n]>>
        BY <1>1 DEF Follows
    <2>3. n \in 1..(N + 1) /\ n + 1 \in 1..(N + 1)
        OBVIOUS
    <2>4. at[n] \in Int /\ at[n + 1] \in Int /\ bt[n] = at[n] - taken /\ bt[n + 1] = at[n + 1] - taken
        BY <2>3, <1>2, <1>3
    <2>5. j - at[n] = k - bt[n] /\ bt[n] < k /\ k <= bt[n + 1]
        BY <2>1, <2>2, <2>4, <1>k
    <2>6. V[k] = <<n, k - bt[n]>>
        BY <2>1, <2>2, <2>5, <1>k
    <2> QED  BY <2>5, <2>6
<1>6. Outstanding(N, s, M, l, bt)
    <2>1. N + 1 \in 1..(N + 1) /\ at[N + 1] \in Int
        BY <1>2
    <2>2. M = bt[N + 1] - l
        <3>1. M + taken = at[N + 1] - l
            BY <1>1 DEF Outstanding
        <3>2. bt[N + 1] = at[N + 1] - taken
            BY <2>1, <1>3
        <3> QED  BY <3>1, <3>2, <2>1, <1>k
    <2> QED  BY <2>2, <1>1 DEF Outstanding
<1> QED  BY <1>4, <1>5, <1>6 DEF InPlace

-----------------------------------------------------------------------------
(* The inductive invariant.                                                 *)

HeaderComplete == Len(packet.header) = HeaderLen

(* What packet_rec holds: a header and then its payload, never more of       *)
(* either than it is to have; a header that is not complete is followed by   *)
(* nothing.                                                                  *)
PacketOK ==
    /\ reading = NoConn => packet = Empty /\ part = "header"
    /\ reading # NoConn =>
          /\ Len(packet.header) <= HeaderLen
          /\ part = "header" => packet.payload = <<>>
          /\ part = "payload" => packet.header # <<>> /\ (HeaderComplete \/ AtEnd)
          /\ packet.payload # <<>> => HeaderComplete /\ Len(packet.payload) <= len_payload

(* What is not handled is in its place, or there is no more and there will   *)
(* be none.                                                                  *)
Placed(c) ==
    \/ conn[c] # "open" /\ Unhandled(c) = <<>>
    \/ InPlace(Len(sent[c]), sent[c], Len(handled[c]), Len(Unhandled(c)), Unhandled(c), left[c])

(* What was handled is what was sent, but for the last packet of a client    *)
(* that went in the middle of it.                                            *)
HandledWhole(c) ==
    /\ Len(handled[c]) <= Len(sent[c])
    /\ \A n \in 1..Len(handled[c]) :
          handled[c][n] = Whole(c, n) \/ (n = Len(sent[c]) /\ conn[c] # "open")

FrameInv ==
    /\ FrameTypeOK
    /\ PacketOK
    /\ \A c \in Conn : Placed(c) /\ HandledWhole(c)

-----------------------------------------------------------------------------
(* Lemmas about the bytes of one client.                                    *)

(* The lengths that the other lemmas count with are numbers.                 *)
LEMMA LengthsOfPackets ==
    ASSUME FrameTypeOK, NEW c \in Conn
    PROVE  /\ Len(sent[c]) \in Nat
           /\ \A n \in 1..Len(sent[c]) : sent[c][n] \in Nat
           /\ Len(handled[c]) \in Nat
           /\ left[c] \in Nat
<1>1. sent[c] \in Seq(Nat) /\ handled[c] \in Seq(Seq(Byte)) /\ left[c] \in Nat
    BY DEF FrameTypeOK
<1> QED  BY <1>1, ElementOfSeq, LenProperties

(* Two pieces joined.                                                        *)
LEMMA Joined ==
    ASSUME NEW S, NEW p \in Seq(S), NEW q \in Seq(S)
    PROVE  /\ p \o q \in Seq(S)
           /\ Len(p) \in Nat /\ Len(q) \in Nat /\ Len(p \o q) \in Nat
           /\ Len(p \o q) = Len(p) + Len(q)
           /\ \A k \in 1..Len(p) : (p \o q)[k] = p[k]
           /\ \A k \in 1..Len(q) : (p \o q)[Len(p) + k] = q[k]
           /\ Len(p) > 0 => Len(p \o q) > 0 /\ (p \o q)[1] = p[1]
<1> DEFINE m == Len(p)
           n == Len(q)
           r == p \o q
<1>1. m \in Nat /\ n \in Nat
    BY LenProperties
<1>2. /\ r \in Seq(S)
      /\ Len(r) = m + n
      /\ \A k \in 1..(m + n) : r[k] = IF k <= m THEN p[k] ELSE q[k - m]
    BY ConcatProperties
<1> HIDE DEF m, n, r
<1>3. \A k \in 1..m : r[k] = p[k]
    BY <1>1, <1>2
<1>4. ASSUME NEW k \in 1..n PROVE r[m + k] = q[k]
    <2>1. m + k \in 1..(m + n) /\ ~(m + k <= m) /\ (m + k) - m = k
        BY <1>1
    <2> QED  BY <2>1, <1>2
<1>5. m > 0 => Len(r) > 0 /\ r[1] = p[1]
    BY <1>1, <1>2, <1>3
<1>6. Len(r) \in Nat
    BY <1>1, <1>2
<1> QED  BY <1>1, <1>2, <1>3, <1>4, <1>5, <1>6 DEF m, n, r

(* What has not been handled of a connection is a sequence of bytes.         *)
LEMMA UnhandledType ==
    ASSUME FrameTypeOK, NEW c \in Conn
    PROVE  Unhandled(c) \in Seq(Byte) /\ Len(Unhandled(c)) \in Nat
<1>1. /\ packet.header \in Seq(Byte) /\ packet.payload \in Seq(Byte) /\ stream[c] \in Seq(Byte)
    BY DEF FrameTypeOK
<1>2. packet.header \o packet.payload \in Seq(Byte) /\ <<>> \in Seq(Byte)
    BY <1>1, ConcatProperties, EmptySeq
<1>3. Unhandled(c) \in Seq(Byte)
    BY <1>1, <1>2, ConcatProperties DEF Unhandled
<1> QED  BY <1>3, LenProperties

(* A step that neither adds bytes nor handles any keeps them in place.       *)
LEMMA StillPlaced ==
    ASSUME NEW c \in Conn, Placed(c), HandledWhole(c),
           sent'[c] = sent[c], left'[c] = left[c], handled'[c] = handled[c],
           Unhandled(c)' = Unhandled(c),
           conn[c] # "open" => conn'[c] # "open"
    PROVE  Placed(c)' /\ HandledWhole(c)'
BY DEF Placed, HandledWhole, Whole, Total

(* The header packet_rec holds is that of the next packet.                   *)
LEMMA NextHeader ==
    ASSUME FrameTypeOK, NEW c \in Conn, Placed(c), reading = c, packet.header # <<>>
    PROVE  /\ InPlace(Len(sent[c]), sent[c], Len(handled[c]), Len(Unhandled(c)), Unhandled(c), left[c])
           /\ Len(handled[c]) + 1 \in 1..Len(sent[c])
           /\ StartsWith(Len(Unhandled(c)), Unhandled(c), Len(handled[c]) + 1,
                         HeaderLen + sent[c][Len(handled[c]) + 1])
           /\ Len(Unhandled(c)) < HeaderLen + sent[c][Len(handled[c]) + 1]
                 => Len(sent[c]) = Len(handled[c]) + 1
           /\ packet.header[1] = <<Len(handled[c]) + 1, 1>>
           /\ len_payload = sent[c][Len(handled[c]) + 1]
           /\ len_payload \in Nat
<1>1. /\ packet.header \in Seq(Byte) /\ packet.payload \in Seq(Byte) /\ stream[c] \in Seq(Byte)
    BY DEF FrameTypeOK
<1>2. packet.header \o packet.payload \in Seq(Byte)
    BY <1>1, ConcatProperties
<1>3. /\ Len(packet.header) \in Nat /\ Len(packet.header) > 0
      /\ Len(packet.payload) \in Nat /\ Len(stream[c]) \in Nat
    BY <1>1, EmptySeq, LenProperties
<1>4. /\ Len(Unhandled(c)) > 0
      /\ Unhandled(c)[1] = packet.header[1]
    <2>1. /\ Len(packet.header \o packet.payload) > 0
          /\ (packet.header \o packet.payload)[1] = packet.header[1]
        BY <1>1, <1>3, Joined
    <2> DEFINE got == packet.header \o packet.payload
    <2>2. Unhandled(c) = got \o stream[c]
        BY DEF Unhandled
    <2>3. got \in Seq(Byte) /\ Len(got) > 0 /\ got[1] = packet.header[1]
        BY <1>2, <2>1
    <2> HIDE DEF got
    <2> QED  BY <1>1, <2>2, <2>3, Joined
<1>5. Unhandled(c) # <<>>
    BY <1>4, EmptySeq
<1>6. InPlace(Len(sent[c]), sent[c], Len(handled[c]), Len(Unhandled(c)), Unhandled(c), left[c])
    BY <1>5 DEF Placed
<1>7. /\ Len(handled[c]) + 1 \in 1..Len(sent[c])
      /\ StartsWith(Len(Unhandled(c)), Unhandled(c), Len(handled[c]) + 1,
                    HeaderLen + sent[c][Len(handled[c]) + 1])
      /\ Len(Unhandled(c)) < HeaderLen + sent[c][Len(handled[c]) + 1]
            => Len(sent[c]) = Len(handled[c]) + 1
    <2>1. Len(sent[c]) \in Nat /\ \A n \in 1..Len(sent[c]) : sent[c][n] \in Nat
        BY LengthsOfPackets
    <2>2. Len(handled[c]) \in Nat /\ left[c] \in Nat /\ Len(Unhandled(c)) \in Nat
        BY LengthsOfPackets, UnhandledType
    <2> QED  BY <1>4, <1>6, <2>1, <2>2, NextPacket, Zenon
<1>8. sent[c][Len(handled[c]) + 1] \in Nat
    BY <1>7, LengthsOfPackets
<1>9. Unhandled(c)[1] = <<Len(handled[c]) + 1, 1>>
    <2>1. HeaderLen \in Nat /\ HeaderLen > 0
        BY FramingAssumption
    <2>2. 1 \in 1..Len(Unhandled(c))
        BY <1>4, UnhandledType
    <2> QED  BY <2>1, <2>2, <1>7, <1>8 DEF StartsWith
<1>10. len_payload = sent[c][Len(handled[c]) + 1]
    BY <1>4, <1>9 DEF len_payload
<1> QED  BY <1>4, <1>6, <1>7, <1>8, <1>9, <1>10

(* The library's ConcatAssociative, of three sequences of its own.           *)
LEMMA Regrouped ==
    ASSUME NEW S, NEW p \in Seq(S), NEW q \in Seq(S), NEW r \in Seq(S)
    PROVE  p \o (q \o r) = (p \o q) \o r
BY ConcatAssociative, SMTT(30)

(* recv moves bytes from the socket to the packet, in order.                 *)
LEMMA Moved ==
    ASSUME NEW S, NEW p \in Seq(S), NEW s \in Seq(S), NEW j \in 1..Len(s)
    PROVE  (p \o SubSeq(s, 1, j)) \o SubSeq(s, j + 1, Len(s)) = p \o s
<1> DEFINE a == SubSeq(s, 1, j)
           b == SubSeq(s, j + 1, Len(s))
<1>1. Len(s) \in Nat /\ \A k \in 1..Len(s) : s[k] \in S
    BY LenProperties, ElementOfSeq
<1>2. a \in Seq(S) /\ b \in Seq(S)
    <2>1. \A k \in 1..j : s[k] \in S
        BY <1>1
    <2>2. \A k \in (j + 1)..Len(s) : s[k] \in S
        BY <1>1
    <2> QED  BY <1>1, <2>1, <2>2, SubSeqProperties
<1>3. a \o b = s
    <2>1. 1 \in 1..(Len(s) + 1) /\ j \in (1 - 1)..Len(s) /\ Len(s) \in j..Len(s)
        BY <1>1
    <2>2. a \o b = SubSeq(s, 1, Len(s))
        BY <2>1, ConcatAdjacentSubSeq
    <2> QED  BY <2>2, SubSeqFull
<1> HIDE DEF a, b
<1>4. (p \o a) \o b = p \o (a \o b)
    BY <1>2, ConcatAssociative, SMTT(30)
<1>5. (p \o a) \o b = p \o s
    BY <1>3, <1>4
<1> QED  BY <1>5 DEF a, b

-----------------------------------------------------------------------------
(* FrameInv is inductive.                                                   *)

(* At the start nothing is sent and nothing is read.                         *)
LEMMA InitFrameInv == Init => FrameInv
<1> SUFFICES ASSUME Init PROVE FrameInv
    OBVIOUS
<1>e. \A S : <<>> \in Seq(S)
    BY EmptySeq
<1>1. FrameTypeOK
    BY <1>e DEF Init, FrameTypeOK, Empty, Nobody, ConnStates
<1>2. PacketOK
    BY DEF Init, PacketOK
<1>3. ASSUME NEW c \in Conn PROVE Placed(c) /\ HandledWhole(c)
    <2>1. /\ sent[c] = <<>> /\ handled[c] = <<>> /\ left[c] = 0 /\ stream[c] = <<>>
          /\ reading # c
        BY FramingAssumption DEF Init
    <2>2. Unhandled(c) = <<>>
        BY <2>1, <1>e, ConcatEmptySeq DEF Unhandled
    <2>3. Len(sent[c]) = 0 /\ Len(handled[c]) = 0 /\ Len(Unhandled(c)) = 0
        BY <2>1, <2>2
    <2>4. Placed(c)
        BY <2>1, <2>3, NothingInPlace DEF Placed
    <2>5. HandledWhole(c)
        BY <2>3 DEF HandledWhole
    <2> QED  BY <2>4, <2>5
<1> QED  BY <1>1, <1>2, <1>3 DEF FrameInv

(* Steps that move no bytes in or out.                                       *)
LEMMA NoBytesPass ==
    ASSUME FrameInv, FrameTypeOK', PacketOK', UNCHANGED <<sent, left, handled>>,
           \A d \in Conn : Unhandled(d)' = Unhandled(d),
           \A d \in Conn : conn[d] # "open" => conn'[d] # "open"
    PROVE  FrameInv'
<1>1. ASSUME NEW c \in Conn PROVE Placed(c)' /\ HandledWhole(c)'
    <2>1. sent'[c] = sent[c] /\ left'[c] = left[c] /\ handled'[c] = handled[c]
        OBVIOUS
    <2>2. Unhandled(c)' = Unhandled(c)
        BY DEF Unhandled
    <2>3. conn[c] # "open" => conn'[c] # "open"
        OBVIOUS
    <2>4. Placed(c) /\ HandledWhole(c)
        BY DEF FrameInv
    <2> QED  BY <2>1, <2>2, <2>3, <2>4, StillPlaced, Zenon
<1> QED  BY <1>1 DEF FrameInv

(* poll returns, or the server stops: no byte moves.                         *)
LEMMA PollFrameInv ==
    ASSUME FrameInv, poll \/ Exit
    PROVE  FrameInv'
<1>u. UNCHANGED <<client, stream, conn, reading, part, packet, handled>>
    BY DEF poll, Exit
<1>1. FrameTypeOK'
    <2>1. \A c \in Conn : Report(c) \in {"none", "in", "hup"}
        BY DEF Report
    <2>2. revents' \in [Conn -> {"none", "in", "hup"}] /\ down' \in BOOLEAN
        BY <2>1 DEF poll, Exit, FrameInv, FrameTypeOK
    <2> QED  BY <1>u, <2>2 DEF client, FrameInv, FrameTypeOK
<1>2. PacketOK'
    BY <1>u DEF client, FrameInv, PacketOK, HeaderComplete, AtEnd, len_payload
<1> QED  BY <1>u, <1>1, <1>2, NoBytesPass DEF client, Unhandled

(* A client goes, in the middle of a packet or not.                          *)
LEMMA CloseFrameInv ==
    ASSUME FrameInv, NEW c \in Conn, Close(c)
    PROVE  FrameInv'
<1>u. UNCHANGED <<client, stream, revents, reading, part, packet, handled, down>>
    BY DEF Close
<1>1. \A d \in Conn : conn[d] # "open" => conn'[d] # "open"
    BY DEF Close, FrameInv, FrameTypeOK
<1>2. FrameTypeOK'
    <2>1. conn' \in [Conn -> ConnStates]
        BY DEF Close, FrameInv, FrameTypeOK, ConnStates
    <2> QED  BY <1>u, <2>1 DEF client, FrameInv, FrameTypeOK
<1>3. PacketOK'
    <2>1. reading # NoConn => reading \in Conn
        BY DEF FrameInv, FrameTypeOK
    <2> QED  BY <1>u, <1>1, <2>1 DEF client, FrameInv, PacketOK, HeaderComplete, AtEnd, len_payload
<1> QED  BY <1>u, <1>1, <1>2, <1>3, NoBytesPass DEF client, Unhandled

(* The server turns to a connection, and starts with a header.               *)
LEMMA ReadableFrameInv ==
    ASSUME FrameInv, NEW c \in Conn, Readable(c)
    PROVE  FrameInv'
<1>u. /\ UNCHANGED <<client, stream, conn, revents, part, packet, handled, down>>
      /\ reading' = c /\ reading = NoConn /\ packet = Empty /\ part = "header"
    BY DEF Readable, FrameInv, PacketOK
<1>1. FrameTypeOK'
    BY <1>u DEF client, FrameInv, FrameTypeOK
<1>2. PacketOK'
    BY <1>u, FramingAssumption DEF PacketOK, Empty
<1>3. ASSUME NEW d \in Conn PROVE Unhandled(d)' = Unhandled(d)
    <2>1. stream[d] \in Seq(Byte) /\ <<>> \in Seq(Byte)
        BY EmptySeq DEF FrameInv, FrameTypeOK
    <2>2. <<>> \o <<>> = <<>> /\ <<>> \o stream[d] = stream[d]
        BY <2>1, ConcatEmptySeq
    <2>3. Unhandled(d) = stream[d]
        BY <1>u, <2>2, FramingAssumption DEF Unhandled
    <2>4. Unhandled(d)' = stream[d]
        BY <1>u, <2>2 DEF Unhandled, Empty
    <2> QED  BY <2>3, <2>4
<1> QED  BY <1>u, <1>1, <1>2, <1>3, NoBytesPass DEF client

(* The header has come whole: header_rec goes on to the payload.             *)
LEMMA HeaderRecFrameInv ==
    ASSUME FrameInv, header_rec
    PROVE  FrameInv'
<1>u. UNCHANGED <<client, stream, conn, revents, reading, packet, handled, down>> /\ part' = "payload"
    BY DEF header_rec
<1>1. FrameTypeOK'
    BY <1>u DEF client, FrameInv, FrameTypeOK
<1>2. PacketOK'
    <2>1. /\ reading # NoConn /\ part = "header" /\ len_payload # 0
          /\ Len(packet[part]) = Want \/ AtEnd
        BY DEF header_rec, Returns, Finished
    <2>2. HeaderComplete \/ AtEnd
        BY <2>1 DEF Want, HeaderComplete
    <2>3. packet.header # <<>>
        BY <2>1 DEF len_payload
    <2>4. packet.payload = <<>> /\ Len(packet.header) <= HeaderLen
        BY <2>1 DEF FrameInv, PacketOK
    <2>5. (HeaderComplete \/ AtEnd)'
        BY <1>u, <2>2 DEF HeaderComplete, AtEnd
    <2> QED  BY <1>u, <2>1, <2>3, <2>4, <2>5 DEF PacketOK
<1> QED  BY <1>u, <1>1, <1>2, NoBytesPass DEF client, Unhandled

(* One recv takes some of the bytes that are there, or the end of the        *)
(* stream.                                                                   *)
LEMMA RecvFrameInv ==
    ASSUME FrameInv, recv, NEW c \in Conn, reading = c
    PROVE  FrameInv'
<1> DEFINE s == stream[c]
<1>c. c # NoConn
    BY FramingAssumption
<1>u. UNCHANGED <<client, conn, revents, reading, part, handled, down>>
    BY DEF recv
<1>t. /\ s \in Seq(Byte) /\ packet.header \in Seq(Byte) /\ packet.payload \in Seq(Byte)
      /\ part \in {"header", "payload"}
      /\ packet \in [header : Seq(Byte), payload : Seq(Byte)]
      /\ Len(s) \in Nat /\ Len(packet.header) \in Nat /\ Len(packet.payload) \in Nat
    BY <1>c, LenProperties DEF FrameInv, FrameTypeOK
<1>n. packet.header # <<>> => len_payload \in Nat
    BY <1>c, NextHeader DEF FrameInv
<1>w. Want \in Nat /\ Len(packet[part]) \in Nat
    <2>1. HeaderLen \in Nat
        BY FramingAssumption
    <2>2. part = "payload" => packet.header # <<>>
        BY <1>c DEF FrameInv, PacketOK
    <2> QED  BY <1>n, <1>t, <2>1, <2>2 DEF Want
<1>k. Taken \in 1..Len(s) /\ Taken <= Want - Len(packet[part])
    <2> DEFINE m == Len(s)
               n == Want - Len(packet[part])
    <2>1. m \in Nat /\ n \in Int
        BY <1>t, <1>w
    <2>2. Taken = IF n < m THEN n ELSE m
        BY DEF Taken, Lesser
    <2>3. Taken > 0
        BY DEF recv
    <2> HIDE DEF m, n
    <2>4. Taken \in 1..m /\ Taken <= n
        BY <2>1, <2>2, <2>3
    <2> QED  BY <2>4 DEF m, n
<1> DEFINE piece == SubSeq(s, 1, Taken)
           rest == SubSeq(s, Taken + 1, Len(s))
<1>p. piece \in Seq(Byte) /\ Len(piece) = Taken /\ rest \in Seq(Byte) /\ Taken \in Nat
    <2>1. \A k \in 1..Len(s) : s[k] \in Byte
        BY <1>t, ElementOfSeq
    <2>2. \A k \in 1..Taken : s[k] \in Byte
        BY <1>k, <1>t, <2>1
    <2>3. \A k \in (Taken + 1)..Len(s) : s[k] \in Byte
        BY <1>k, <1>t, <2>1
    <2> QED  BY <1>k, <1>t, <2>2, <2>3, SubSeqProperties
<1>s. stream' = [stream EXCEPT ![c] = rest] /\ packet' = [packet EXCEPT ![part] = @ \o piece]
    BY DEF recv
<1> HIDE DEF piece, rest
<1>1. FrameTypeOK'
    <2>1. stream' \in [Conn -> Seq(Byte)]
        BY <1>c, <1>p, <1>s DEF FrameInv, FrameTypeOK
    <2>2. packet.header \o piece \in Seq(Byte) /\ packet.payload \o piece \in Seq(Byte)
        BY <1>p, <1>t, ConcatProperties
    <2>3. packet' \in [header : Seq(Byte), payload : Seq(Byte)]
        BY <1>s, <1>t, <2>2
    <2> QED  BY <1>u, <2>1, <2>3 DEF client, FrameInv, FrameTypeOK
<1>2. CASE part = "header"
    <2>1. packet.payload = <<>>
        BY <1>2, <1>c DEF FrameInv, PacketOK
    <2>2. packet'.header = packet.header \o piece /\ packet'.payload = <<>>
        BY <1>2, <1>s, <1>t, <2>1
    <2>3. Len(packet.header \o piece) <= HeaderLen
        <3>1. Len(packet.header \o piece) = Len(packet.header) + Taken
            BY <1>p, <1>t, ConcatProperties
        <3> QED  BY <3>1, <1>2, <1>k, <1>p, <1>t, FramingAssumption DEF Want
    <2>4. PacketOK'
        BY <1>2, <1>c, <1>u, <2>2, <2>3 DEF PacketOK
    <2>5. ASSUME NEW d \in Conn PROVE Unhandled(d)' = Unhandled(d)
        <3>1. CASE d = c
            <4>1. packet.header \o <<>> = packet.header
                BY <1>t, ConcatEmptySeq
            <4>2. Unhandled(c) = packet.header \o s
                BY <2>1, <4>1 DEF Unhandled
            <4>3. (packet.header \o piece) \o <<>> = packet.header \o piece
                BY <1>p, <1>t, ConcatProperties, ConcatEmptySeq
            <4>4. stream'[c] = rest
                BY <1>c, <1>s DEF FrameInv, FrameTypeOK
            <4>5. Unhandled(c)' = (packet.header \o piece) \o rest
                BY <1>u, <2>2, <4>3, <4>4 DEF Unhandled
            <4>6. (packet.header \o piece) \o rest = packet.header \o s
                BY <1>k, <1>t, Moved DEF piece, rest
            <4> QED  BY <3>1, <4>2, <4>5, <4>6 DEF Unhandled
        <3>2. CASE d # c
            <4>1. stream'[d] = stream[d]
                BY <3>2, <1>s DEF FrameInv, FrameTypeOK
            <4> QED  BY <3>2, <4>1, <1>u DEF Unhandled
        <3> QED  BY <3>1, <3>2
    <2> QED  BY <1>1, <1>u, <2>4, <2>5, NoBytesPass DEF client
<1>3. CASE part = "payload"
    <2>1. packet.header # <<>> /\ HeaderComplete /\ Len(packet.header) <= HeaderLen
        <3>1. ~AtEnd
            BY <1>k, <1>t DEF AtEnd
        <3> QED  BY <3>1, <1>3, <1>c DEF FrameInv, PacketOK
    <2>2. packet'.header = packet.header /\ packet'.payload = packet.payload \o piece
        BY <1>3, <1>s, <1>t
    <2>3. Len(packet.payload \o piece) <= len_payload
        <3>1. Len(packet.payload \o piece) = Len(packet.payload) + Taken
            BY <1>p, <1>t, ConcatProperties
        <3> QED  BY <3>1, <1>3, <1>k, <1>n, <1>p, <1>t, <2>1 DEF Want
    <2>4. PacketOK'
        <3>1. len_payload' = len_payload
            BY <1>u, <2>2 DEF len_payload, client
        <3>2. HeaderComplete'
            BY <2>1, <2>2 DEF HeaderComplete
        <3> QED  BY <3>1, <3>2, <1>3, <1>c, <1>u, <2>1, <2>2, <2>3 DEF PacketOK
    <2>5. ASSUME NEW d \in Conn PROVE Unhandled(d)' = Unhandled(d)
        <3>1. CASE d = c
            <4>1. Unhandled(c) = (packet.header \o packet.payload) \o s
                BY DEF Unhandled
            <4>2. packet.header \o packet.payload \in Seq(Byte)
                BY <1>t, ConcatProperties
            <4>3. packet.header \o (packet.payload \o piece) = (packet.header \o packet.payload) \o piece
                <5> DEFINE x == packet.header
                           y == packet.payload
                <5>1. x \in Seq(Byte) /\ y \in Seq(Byte)
                    BY <1>t
                <5> HIDE DEF x, y
                <5>2. x \o (y \o piece) = (x \o y) \o piece
                    BY <1>p, <5>1, Regrouped
                <5> QED  BY <5>2 DEF x, y
            <4>4. stream'[c] = rest
                BY <1>c, <1>s DEF FrameInv, FrameTypeOK
            <4>5. Unhandled(c)' = ((packet.header \o packet.payload) \o piece) \o rest
                BY <1>u, <2>2, <4>3, <4>4 DEF Unhandled
            <4>6. ((packet.header \o packet.payload) \o piece) \o rest
                     = (packet.header \o packet.payload) \o s
                BY <1>k, <1>t, <4>2, Moved DEF piece, rest
            <4> QED  BY <3>1, <4>1, <4>5, <4>6 DEF Unhandled
        <3>2. CASE d # c
            <4>1. stream'[d] = stream[d]
                BY <3>2, <1>s DEF FrameInv, FrameTypeOK
            <4> QED  BY <3>2, <4>1, <1>u DEF Unhandled
        <3> QED  BY <3>1, <3>2
    <2> QED  BY <1>1, <1>u, <2>4, <2>5, NoBytesPass DEF client
<1> QED  BY <1>2, <1>3, <1>t

(* A connection that is removed takes with it what was not handled.          *)
LEMMA HangUpFrameInv ==
    ASSUME FrameInv, NEW c \in Conn, HangUp(c)
    PROVE  FrameInv'
<1>u. UNCHANGED <<sent, left, reading, part, packet, handled, down>> /\ reading = NoConn
    BY DEF HangUp, client
<1>1. /\ conn' \in [Conn -> ConnStates] /\ conn'[c] = "removed"
      /\ stream' \in [Conn -> Seq(Byte)] /\ stream'[c] = <<>>
      /\ \A d \in Conn : d # c => conn'[d] = conn[d] /\ stream'[d] = stream[d]
    <2>1. <<>> \in Seq(Byte)
        BY EmptySeq
    <2> QED  BY <2>1 DEF HangUp, Remove, FrameInv, FrameTypeOK, ConnStates
<1>2. FrameTypeOK'
    <2>1. revents' \in [Conn -> {"none", "in", "hup"}]
        BY DEF HangUp, FrameInv, FrameTypeOK
    <2> QED  BY <1>u, <1>1, <2>1 DEF FrameInv, FrameTypeOK
<1>3. PacketOK'
    BY <1>u DEF FrameInv, PacketOK
<1>4. Unhandled(c)' = <<>>
    <2>1. <<>> \o <<>> = <<>>
        BY EmptySeq, ConcatEmptySeq
    <2>2. reading' # c
        BY <1>u, FramingAssumption
    <2> QED  BY <1>1, <2>1, <2>2 DEF Unhandled
<1>5. ASSUME NEW d \in Conn PROVE Placed(d)' /\ HandledWhole(d)'
    <2>1. sent'[d] = sent[d] /\ left'[d] = left[d] /\ handled'[d] = handled[d]
        BY <1>u
    <2>2. conn[d] # "open" => conn'[d] # "open"
        BY <1>1
    <2>3. Placed(d) /\ HandledWhole(d)
        BY DEF FrameInv
    <2>4. CASE d = c
        <3>1. Placed(c)'
            BY <1>1, <1>4 DEF Placed
        <3>2. HandledWhole(d)'
            BY <2>1, <2>2, <2>3 DEF HandledWhole, Whole, Total
        <3> QED  BY <2>4, <3>1, <3>2 DEF Placed, Unhandled
    <2>5. CASE d # c
        <3>1. Unhandled(d)' = Unhandled(d)
            BY <1>u, <1>1, <2>5 DEF Unhandled
        <3> QED  BY <2>1, <2>2, <2>3, <3>1, StillPlaced, Zenon
    <2> QED  BY <2>4, <2>5
<1> QED  BY <1>2, <1>3, <1>5 DEF FrameInv

(* A packet is begun.                                                        *)
LEMMA SendFrameInv ==
    ASSUME FrameInv, NEW c \in Conn, packet_send(c)
    PROVE  FrameInv'
<1>u. /\ UNCHANGED <<stream, conn, revents, reading, part, packet, handled, down>>
      /\ conn[c] = "open" /\ left[c] = 0
    BY DEF packet_send
<1>1. PICK len \in Nat : /\ sent' = [sent EXCEPT ![c] = Append(@, len)]
                         /\ left' = [left EXCEPT ![c] = HeaderLen + len]
    BY FramingAssumption DEF packet_send
<1> DEFINE s == sent[c]
           N == Len(s)
           t == Append(s, len)
<1>2. /\ s \in Seq(Nat) /\ N \in Nat /\ \A n \in 1..N : s[n] \in Nat
      /\ sent'[c] = t /\ left'[c] = HeaderLen + len /\ handled'[c] = handled[c]
    BY <1>u, <1>1, LengthsOfPackets DEF FrameInv, FrameTypeOK
<1>3. /\ t \in Seq(Nat) /\ Len(t) = N + 1 /\ t[N + 1] = len
      /\ \A n \in 1..N : t[n] = s[n]
    BY <1>2, AppendProperties
<1> HIDE DEF t
<1>4. ASSUME NEW d \in Conn, d # c
      PROVE  sent'[d] = sent[d] /\ left'[d] = left[d]
    BY <1>1, <1>4 DEF FrameInv, FrameTypeOK
<1>5. FrameTypeOK'
    <2>1. sent' \in [Conn -> Seq(Nat)]
        BY <1>1, <1>3 DEF FrameInv, FrameTypeOK, t
    <2>2. HeaderLen + len \in Nat
        BY FramingAssumption
    <2>3. left' \in [Conn -> Nat]
        BY <1>1, <2>2 DEF FrameInv, FrameTypeOK
    <2> QED  BY <1>u, <2>1, <2>3 DEF FrameInv, FrameTypeOK
<1>6. PacketOK'
    <2> SUFFICES ASSUME reading # NoConn, packet.payload # <<>>
                 PROVE  len_payload' = len_payload
        BY <1>u DEF FrameInv, PacketOK, HeaderComplete, AtEnd
    <2> DEFINE d == reading
    <2>1. d \in Conn /\ packet.header # <<>>
        <3>1. HeaderLen > 0 /\ Len(<<>>) = 0
            BY FramingAssumption
        <3> QED  BY <3>1 DEF FrameInv, FrameTypeOK, PacketOK, HeaderComplete
    <2>2. /\ packet.header[1][1] = Len(handled[d]) + 1
          /\ Len(handled[d]) + 1 \in 1..Len(sent[d])
        BY <2>1, NextHeader DEF FrameInv
    <2>3. sent'[d][Len(handled[d]) + 1] = sent[d][Len(handled[d]) + 1]
        BY <2>1, <2>2, <1>2, <1>3, <1>4
    <2> QED  BY <1>u, <2>2, <2>3 DEF len_payload
<1>7. Placed(c)'
    <2>1. InPlace(N, s, Len(handled[c]), Len(Unhandled(c)), Unhandled(c), 0)
        BY <1>u DEF FrameInv, Placed
    <2>2. Len(handled[c]) \in Nat /\ Len(Unhandled(c)) \in Nat
        BY LengthsOfPackets, UnhandledType DEF FrameInv
    <2>3. InPlace(N + 1, t, Len(handled[c]), Len(Unhandled(c)), Unhandled(c), HeaderLen + len)
        BY <2>1, <2>2, <1>2, <1>3, SendInPlace, Zenon
    <2>4. Unhandled(c)' = Unhandled(c)
        BY <1>u DEF Unhandled
    <2> QED  BY <2>3, <2>4, <1>2, <1>3 DEF Placed
<1>8. HandledWhole(c)'
    <2>1. Len(handled[c]) \in Nat /\ Len(handled[c]) <= N
        BY LengthsOfPackets DEF FrameInv, HandledWhole
    <2>2. ASSUME NEW n \in 1..Len(handled[c])
          PROVE  handled[c][n] = Whole(c, n)'
        <3>1. handled[c][n] = Whole(c, n)
            BY <1>u DEF FrameInv, HandledWhole
        <3>2. n \in 1..N
            BY <1>2, <2>1
        <3>3. t[n] = s[n]
            BY <1>3, <3>2
        <3> QED  BY <1>2, <3>1, <3>3 DEF Whole, Total
    <2> QED  BY <1>2, <1>3, <2>1, <2>2 DEF HandledWhole
<1>9. ASSUME NEW d \in Conn PROVE Placed(d)' /\ HandledWhole(d)'
    <2>1. CASE d = c
        <3>1. Placed(d)'
            BY <1>7, <2>1 DEF Placed, Unhandled
        <3>2. HandledWhole(d)'
            BY <1>8, <2>1 DEF HandledWhole, Whole, Total
        <3> QED  BY <3>1, <3>2
    <2>2. CASE d # c
        <3>1. sent'[d] = sent[d] /\ left'[d] = left[d] /\ handled'[d] = handled[d]
            BY <1>u, <1>4, <2>2
        <3>2. Unhandled(d)' = Unhandled(d)
            BY <1>u DEF Unhandled
        <3>3. conn[d] # "open" => conn'[d] # "open"
            BY <1>u
        <3>4. Placed(d) /\ HandledWhole(d)
            BY DEF FrameInv
        <3> QED  BY <3>1, <3>2, <3>3, <3>4, StillPlaced, Zenon
    <2> QED  BY <2>1, <2>2
<1> QED  BY <1>5, <1>6, <1>9 DEF FrameInv

(* Bytes are still to come only of a packet that was begun, its last.        *)
LEMMA StillToCome ==
    ASSUME NEW N \in Nat, NEW s, NEW h, NEW M, NEW U, NEW l \in Nat,
           InPlace(N, s, h, M, U, l), l > 0
    PROVE  N > 0 /\ l <= HeaderLen + s[N]
BY DEF InPlace, Outstanding

(* The bytes of a packet from one to another.                                *)
LEMMA SomeBytes ==
    ASSUME NEW n \in Nat, NEW b \in Nat, NEW k \in Nat
    PROVE  /\ Bytes(n, b + 1, (b + 1) + k - 1) \in Seq(Byte)
           /\ Len(Bytes(n, b + 1, (b + 1) + k - 1)) = k
           /\ \A j \in 1..k : Bytes(n, b + 1, (b + 1) + k - 1)[j] = <<n, b + j>>
<1>1. ((b + 1) + k - 1) - (b + 1) + 1 = k /\ \A j \in 1..k : (b + 1) + j - 1 = b + j
    OBVIOUS
<1> DEFINE B == [j \in 1..k |-> <<n, b + j>>]
<1>2. Bytes(n, b + 1, (b + 1) + k - 1) = B
    BY <1>1 DEF Bytes
<1>3. \A j \in 1..k : <<n, b + j>> \in Byte
    BY DEF Byte
<1>4. B \in Seq(Byte) /\ Len(B) = k
    BY <1>3
<1> QED  BY <1>2, <1>4

(* More of a packet comes.                                                   *)
LEMMA ArriveFrameInv ==
    ASSUME FrameInv, NEW c \in Conn, Arrive(c)
    PROVE  FrameInv'
<1>u. /\ UNCHANGED <<sent, conn, revents, reading, part, packet, handled, down>>
      /\ conn[c] = "open"
    BY DEF Arrive
<1> DEFINE s == sent[c]
           N == Len(s)
           l == left[c]
           M == Len(Unhandled(c))
<1>1. /\ s \in Seq(Nat) /\ N \in Nat /\ (\A n \in 1..N : s[n] \in Nat) /\ l \in Nat
      /\ Len(handled[c]) \in Nat /\ M \in Nat /\ Unhandled(c) \in Seq(Byte)
      /\ stream[c] \in Seq(Byte)
    BY LengthsOfPackets, UnhandledType DEF FrameInv, FrameTypeOK
<1>2. InPlace(N, s, Len(handled[c]), M, Unhandled(c), l)
    BY <1>u DEF FrameInv, Placed
<1>3. PICK k \in 1..l :
         /\ stream' = [stream EXCEPT ![c] =
                          @ \o Bytes(N, (Total(c, N) - l) + 1, ((Total(c, N) - l) + 1) + k - 1)]
         /\ left' = [left EXCEPT ![c] = @ - k]
    BY DEF Arrive
<1>4. N > 0 /\ l <= HeaderLen + s[N] /\ k \in Nat
    BY <1>1, <1>2, StillToCome
<1> DEFINE b == Total(c, N) - l
<1>5. b \in Nat /\ b = HeaderLen + s[N] - l /\ HeaderLen + s[N] \in Nat
    BY <1>1, <1>4, FramingAssumption DEF Total
<1>7. stream' = [stream EXCEPT ![c] = @ \o Bytes(N, b + 1, (b + 1) + k - 1)]
    BY <1>3
<1> HIDE DEF b
<1> DEFINE B == Bytes(N, b + 1, (b + 1) + k - 1)
<1>6. B \in Seq(Byte) /\ Len(B) = k /\ \A j \in 1..k : B[j] = <<N, b + j>>
    <2>1. N \in Nat /\ b \in Nat /\ k \in Nat
        BY <1>1, <1>4, <1>5
    <2> HIDE DEF N
    <2>2. /\ B \in Seq(Byte)
          /\ Len(B) = k
          /\ \A j \in 1..k : B[j] = <<N, b + j>>
        BY <2>1, SomeBytes
    <2> QED  BY <2>2
<1> HIDE DEF B
<1>8. stream[c] \o B \in Seq(Byte)
    BY <1>1, <1>6, ConcatProperties
<1>9. FrameTypeOK'
    <2>1. stream' \in [Conn -> Seq(Byte)]
        BY <1>7, <1>8 DEF FrameInv, FrameTypeOK, B
    <2>2. l - k \in Nat
        BY <1>1
    <2>3. left' \in [Conn -> Nat]
        BY <1>3, <2>2 DEF FrameInv, FrameTypeOK
    <2> QED  BY <1>u, <2>1, <2>3 DEF FrameInv, FrameTypeOK
<1>10. \A d \in Conn : d # c => stream'[d] = stream[d] /\ left'[d] = left[d]
    BY <1>3 DEF FrameInv, FrameTypeOK
<1>11. PacketOK'
    <2> SUFFICES ASSUME reading # NoConn, AtEnd PROVE AtEnd'
        BY <1>u DEF FrameInv, PacketOK, HeaderComplete, len_payload
    <2>1. reading \in Conn /\ reading # c
        BY <1>u DEF FrameInv, FrameTypeOK, AtEnd
    <2> QED  BY <1>u, <1>10, <2>1 DEF AtEnd
<1>12. Unhandled(c)' = Unhandled(c) \o B
    <2> DEFINE g == IF reading = c THEN packet.header \o packet.payload ELSE <<>>
    <2>1. g \in Seq(Byte)
        <3>1. packet.header \o packet.payload \in Seq(Byte) /\ <<>> \in Seq(Byte)
            BY ConcatProperties, EmptySeq DEF FrameInv, FrameTypeOK
        <3> QED  BY <3>1
    <2>2. Unhandled(c) = g \o stream[c]
        BY DEF Unhandled
    <2>3. Unhandled(c)' = g \o (stream[c] \o B)
        <3>1. stream'[c] = stream[c] \o B
            BY <1>7 DEF FrameInv, FrameTypeOK, B
        <3> QED  BY <1>u, <3>1 DEF Unhandled
    <2> DEFINE x == stream[c]
    <2>4. x \in Seq(Byte)
        BY <1>1
    <2> HIDE DEF g, x
    <2>5. g \o (x \o B) = (g \o x) \o B
        BY <2>1, <2>4, <1>6, Regrouped
    <2> QED  BY <2>2, <2>3, <2>5 DEF x
<1>13. Placed(c)'
    <2> DEFINE U == Unhandled(c)
               V == U \o B
    <2>0. U \in Seq(Byte) /\ M = Len(U)
        BY <1>1
    <2>2. V = Unhandled(c)'
        BY <1>12
    <2> HIDE DEF U, M
    <2>1. /\ Len(V) = M + k /\ \A j \in 1..M : V[j] = U[j]
          /\ \A j \in 1..k : V[M + j] = B[j]
        <3>1. B \in Seq(Byte) /\ Len(B) = k
            BY <1>6
        <3>2. /\ Len(V) = Len(U) + Len(B)
              /\ \A j \in 1..Len(U) : V[j] = U[j]
              /\ \A j \in 1..Len(B) : V[Len(U) + j] = B[j]
            <4>1. U \in Seq(Byte) /\ B \in Seq(Byte)
                BY <2>0, <3>1
            <4> QED  BY <4>1, Joined
        <3> QED  BY <2>0, <3>1, <3>2, Zenon
    <2> HIDE DEF V
    <2>3. \A j \in 1..k : V[M + j] = <<N, HeaderLen + s[N] - l + j>>
        BY <2>1, <1>5, <1>6
    <2>4. InPlace(N, s, Len(handled[c]), M, U, l)
        BY <1>2 DEF U
    <2>5. InPlace(N, s, Len(handled[c]), M + k, V, l - k)
        BY <2>1, <2>3, <2>4, <1>1, ArriveInPlace, Zenon
    <2>6. left'[c] = l - k
        BY <1>3 DEF FrameInv, FrameTypeOK
    <2>7. Placed(c)' = (\/ (conn[c] # "open" /\ V = <<>>)
                        \/ InPlace(N, s, Len(handled[c]), Len(V), V, l - k))
        BY <1>u, <2>2, <2>6 DEF Placed
    <2> QED  BY <2>1, <2>5, <2>7
<1>14. ASSUME NEW d \in Conn PROVE Placed(d)' /\ HandledWhole(d)'
    <2>1. CASE d = c
        <3>1. Placed(d)'
            BY <1>13, <2>1 DEF Placed, Unhandled
        <3>2. HandledWhole(d)'
            BY <1>u DEF FrameInv, HandledWhole, Whole, Total
        <3> QED  BY <3>1, <3>2
    <2>2. CASE d # c
        <3>1. sent'[d] = sent[d] /\ left'[d] = left[d] /\ handled'[d] = handled[d]
            BY <1>u, <1>10, <2>2
        <3>2. Unhandled(d)' = Unhandled(d)
            BY <1>u, <1>10, <2>2 DEF Unhandled
        <3>3. conn[d] # "open" => conn'[d] # "open"
            BY <1>u
        <3>4. Placed(d) /\ HandledWhole(d)
            BY DEF FrameInv
        <3> QED  BY <3>1, <3>2, <3>3, <3>4, StillPlaced, Zenon
    <2> QED  BY <2>1, <2>2
<1> QED  BY <1>9, <1>11, <1>14 DEF FrameInv

(* What packet_rec holds when it returns is all of the next packet, or what  *)
(* there was of the last packet of a client that went in the middle of it.   *)
got == packet.header \o packet.payload

(* The packet that packet_rec returns is the next one its client sent,       *)
(* whole, or the part of its last one that came before the client went.      *)
LEMMA WhatReturns ==
    ASSUME FrameInv, packet_rec, packet.header # <<>>, NEW c \in Conn, reading = c
    PROVE  /\ got \in Seq(Byte)
           /\ Len(handled[c]) + 1 \in 1..Len(sent[c])
           /\ \/ /\ got = Whole(c, Len(handled[c]) + 1)
                 /\ InPlace(Len(sent[c]), sent[c], Len(handled[c]) + 1,
                            Len(stream[c]), stream[c], left[c])
              \/ /\ conn[c] # "open"
                 /\ stream[c] = <<>>
                 /\ Len(sent[c]) = Len(handled[c]) + 1
<1> DEFINE s == sent[c]
           N == Len(s)
           h == Len(handled[c])
           U == Unhandled(c)
           M == Len(U)
           l == left[c]
           total == HeaderLen + s[h + 1]
<1>1. /\ packet.header \in Seq(Byte) /\ packet.payload \in Seq(Byte) /\ stream[c] \in Seq(Byte)
      /\ part \in {"header", "payload"}
    BY DEF FrameInv, FrameTypeOK
<1>2. /\ N \in Nat /\ (\A n \in 1..N : s[n] \in Nat) /\ h \in Nat /\ l \in Nat /\ M \in Nat
    BY LengthsOfPackets, UnhandledType DEF FrameInv
<1>3. FrameTypeOK /\ Placed(c)
    BY DEF FrameInv
<1>4. /\ InPlace(N, s, h, M, U, l)
      /\ h + 1 \in 1..N
      /\ StartsWith(M, U, h + 1, total)
      /\ M < total => N = h + 1
      /\ len_payload = s[h + 1] /\ len_payload \in Nat
    BY <1>3, NextHeader
<1>h. HeaderLen \in Nat /\ HeaderLen > 0
    BY FramingAssumption
<1>t. total \in Nat /\ total = HeaderLen + len_payload
    BY <1>4, <1>h
<1> HIDE DEF total
<1>5. /\ got \in Seq(Byte)
      /\ Len(got) = Len(packet.header) + Len(packet.payload)
      /\ Len(packet.header) \in Nat /\ Len(packet.payload) \in Nat /\ Len(got) \in Nat
    <2> DEFINE x == packet.header
               y == packet.payload
    <2>1. x \in Seq(Byte) /\ y \in Seq(Byte)
        BY <1>1
    <2> HIDE DEF x, y
    <2>2. /\ x \o y \in Seq(Byte)
          /\ Len(x \o y) = Len(x) + Len(y)
          /\ Len(x) \in Nat /\ Len(y) \in Nat /\ Len(x \o y) \in Nat
        BY <2>1, Joined
    <2> QED  BY <2>2 DEF x, y, got
<1>6. U = got \o stream[c]
    BY DEF Unhandled, got
<1>7. /\ Len(stream[c]) \in Nat
      /\ M = Len(got) + Len(stream[c])
      /\ \A k \in 1..Len(got) : U[k] = got[k]
      /\ \A k \in 1..Len(stream[c]) : U[Len(got) + k] = stream[c][k]
    <2> DEFINE x == stream[c]
    <2>1. x \in Seq(Byte)
        BY <1>1
    <2> HIDE DEF x
    <2>0. got \in Seq(Byte)
        BY <1>5
    <2>2. /\ Len(x) \in Nat
          /\ Len(got \o x) = Len(got) + Len(x)
          /\ \A k \in 1..Len(got) : (got \o x)[k] = got[k]
          /\ \A k \in 1..Len(x) : (got \o x)[Len(got) + k] = x[k]
        BY <2>0, <2>1, Joined
    <2>3. U = got \o x
        BY <1>6 DEF x
    <2> QED  BY <2>2, <2>3 DEF x
<1>8. reading # NoConn
    BY FramingAssumption
<1>9. Len(got) <= total
    <2>1. Len(packet.header) <= HeaderLen /\ Len(packet.payload) <= len_payload
        <3>1. Len(<<>>) = 0
            OBVIOUS
        <3> QED  BY <1>4, <1>8, <3>1 DEF FrameInv, PacketOK
    <2> DEFINE a == Len(packet.header)
               b == Len(packet.payload)
    <2>2. a \in Nat /\ b \in Nat /\ a <= HeaderLen /\ b <= len_payload /\ Len(got) = a + b
        BY <2>1, <1>5
    <2> DEFINE w == len_payload
    <2>3. w \in Nat /\ b <= w /\ total = HeaderLen + w
        BY <1>4, <1>t, <2>2
    <2> HIDE DEF a, b, w
    <2>4. a + b <= HeaderLen + w
        BY <2>2, <2>3, <1>h
    <2> QED  BY <2>2, <2>3, <2>4
<1>10. Len(got) = total \/ AtEnd
    <2>1. Len(packet[part]) = Want \/ AtEnd
        BY DEF packet_rec, Returns, Finished
    <2>2. part = "payload" \/ len_payload = 0
        BY DEF packet_rec
    <2>3. CASE part = "payload"
        BY <2>1, <2>3, <1>5, <1>8, <1>t DEF Want, HeaderComplete, FrameInv, PacketOK
    <2>4. CASE part = "header"
        <3>1. packet.payload = <<>> /\ Len(<<>>) = 0
            BY <2>4, <1>8 DEF FrameInv, PacketOK
        <3> QED  BY <2>1, <2>2, <2>4, <3>1, <1>4, <1>5, <1>h, <1>t DEF Want
    <2> QED  BY <2>3, <2>4, <1>1
<1>11. CASE Len(got) = total
    <2>1. got = Whole(c, h + 1)
        <3>1. \A k \in 1..total : got[k] = <<h + 1, k>>
            <4> SUFFICES ASSUME NEW k \in 1..total PROVE got[k] = <<h + 1, k>>
                OBVIOUS
            <4>1. k \in 1..Len(got) /\ k \in 1..M /\ k <= total
                <5> DEFINE m == Len(stream[c])
                <5>1. m \in Nat /\ M = total + m
                    BY <1>11, <1>7
                <5> HIDE DEF M, m
                <5>2. k \in 1..M /\ k <= total
                    BY <5>1, <1>t
                <5> QED  BY <5>2, <1>11
            <4>2. U[k] = <<h + 1, k>>
                BY <4>1, <1>4 DEF StartsWith
            <4> QED  BY <4>1, <4>2, <1>7
        <3>2. Whole(c, h + 1) = [k \in 1..total |-> <<h + 1, k>>]
            <4>1. total - 1 + 1 = total /\ \A k \in 1..total : 1 + k - 1 = k
                BY <1>t
            <4> QED  BY <4>1 DEF Whole, Bytes, Total, total
        <3>3. got = [k \in 1..total |-> got[k]]
            <4>1. got \in [1..Len(got) -> Byte]
                BY <1>5, LenProperties
            <4>2. got \in [1..total -> Byte]
                BY <4>1, <1>11
            <4> HIDE DEF got
            <4> QED  BY <4>2
        <3> QED  BY <3>1, <3>2, <3>3
    <2>2. InPlace(N, s, h + 1, Len(stream[c]), stream[c], l)
        <3> DEFINE m == Len(stream[c])
                   V == stream[c]
        <3>1. m \in Nat /\ InPlace(N, s, h, m + HeaderLen + s[h + 1], U, l)
            <4>1. M = m + HeaderLen + s[h + 1]
                <5>1. m \in Nat /\ M = total + m
                    BY <1>11, <1>7
                <5>2. total = HeaderLen + s[h + 1] /\ s[h + 1] \in Nat
                    BY <1>4 DEF total
                <5> HIDE DEF M, m, s, h
                <5> QED  BY <5>1, <5>2, <1>h
            <4> QED  BY <4>1, <1>4, <1>7
        <3>2. \A k \in 1..m : V[k] = U[HeaderLen + s[h + 1] + k]
            BY <1>7, <1>11 DEF total
        <3> HIDE DEF N, s, h, l, U, m, V
        <3>3. InPlace(N, s, h + 1, m, V, l)
            BY <1>2, <1>4, <3>1, <3>2, HandleInPlace, Zenon
        <3> QED  BY <3>3 DEF N, s, h, l, m, V
    <2> QED  BY <2>1, <2>2, <1>4, <1>5
<1>12. CASE Len(got) # total
    <2>1. conn[c] # "open" /\ stream[c] = <<>>
        BY <1>10, <1>12 DEF AtEnd
    <2>2. M < total
        <3>1. Len(stream[c]) = 0
            BY <2>1
        <3> DEFINE g == Len(got)
        <3>2. g \in Nat /\ M = g + 0 /\ g <= total /\ g # total
            BY <3>1, <1>5, <1>7, <1>9, <1>12
        <3> HIDE DEF M, g
        <3> QED  BY <3>2, <1>t
    <2> QED  BY <2>1, <2>2, <1>4, <1>5
<1> QED  BY <1>11, <1>12

(* And with nothing it returns only when there will be no more.              *)
LEMMA NothingReturns ==
    ASSUME FrameInv, packet_rec, packet.header = <<>>, NEW c \in Conn, reading = c
    PROVE  conn[c] # "open"
<1>1. part = "header"
    BY FramingAssumption DEF FrameInv, FrameTypeOK, PacketOK
<1>2. Len(packet[part]) # Want
    BY <1>1, FramingAssumption DEF Want
<1> QED  BY <1>2 DEF packet_rec, Returns, Finished, AtEnd

(* The packet is handled, or the client is removed.                          *)
LEMMA PacketRecFrameInv ==
    ASSUME FrameInv, packet_rec, NEW c \in Conn, reading = c
    PROVE  FrameInv'
<1>u. /\ UNCHANGED <<sent, left, down>>
      /\ reading' = NoConn /\ part' = "header" /\ packet' = Empty /\ c # NoConn
    BY FramingAssumption DEF packet_rec, client
<1>e. \A S : <<>> \in Seq(S)
    BY EmptySeq
<1>1. PacketOK'
    BY <1>u DEF PacketOK
<1>2. \A d \in Conn : Unhandled(d)' = stream'[d]
    <2> SUFFICES ASSUME NEW d \in Conn, stream' \in [Conn -> Seq(Byte)]
                 PROVE  Unhandled(d)' = stream'[d]
        <3>1. stream' \in [Conn -> Seq(Byte)]
            BY <1>e DEF packet_rec, Remove, FrameInv, FrameTypeOK
        <3> QED  BY <3>1
    <2>1. <<>> \o stream'[d] = stream'[d]
        BY ConcatEmptySeq
    <2>2. reading' # d
        BY <1>u, FramingAssumption
    <2> QED  BY <2>1, <2>2 DEF Unhandled
<1>3. ASSUME NEW d \in Conn, d # c
      PROVE  Unhandled(d) = stream[d]
    <2>1. stream[d] \in Seq(Byte)
        BY DEF FrameInv, FrameTypeOK
    <2> QED  BY <1>3, <2>1, ConcatEmptySeq DEF Unhandled
<1>4. CASE /\ packet.header # <<>>
           /\ handled' = [handled EXCEPT ![c] = Append(@, got)]
           /\ revents' = [revents EXCEPT ![c] = "none"]
           /\ UNCHANGED <<stream, conn>>
    <2> DEFINE h == Len(handled[c])
               new == Append(handled[c], got)
    <2>1. /\ got \in Seq(Byte)
          /\ h + 1 \in 1..Len(sent[c])
          /\ \/ /\ got = Whole(c, h + 1)
                /\ InPlace(Len(sent[c]), sent[c], h + 1, Len(stream[c]), stream[c], left[c])
             \/ /\ conn[c] # "open"
                /\ stream[c] = <<>>
                /\ Len(sent[c]) = h + 1
        BY <1>4, WhatReturns
    <2>2. handled[c] \in Seq(Seq(Byte)) /\ h \in Nat
        BY LengthsOfPackets DEF FrameInv, FrameTypeOK
    <2>3. /\ new \in Seq(Seq(Byte)) /\ Len(new) = h + 1 /\ new[h + 1] = got
          /\ \A n \in 1..h : new[n] = handled[c][n]
        BY <2>1, <2>2, AppendProperties
    <2> HIDE DEF new
    <2>4. /\ handled' \in [Conn -> Seq(Seq(Byte))] /\ handled'[c] = new
          /\ \A d \in Conn : d # c => handled'[d] = handled[d]
        BY <1>4, <2>3 DEF FrameInv, FrameTypeOK, new
    <2>5. FrameTypeOK'
        <3>1. revents' \in [Conn -> {"none", "in", "hup"}]
            BY <1>4 DEF FrameInv, FrameTypeOK
        <3> QED  BY <1>4, <1>u, <1>e, <2>4, <3>1 DEF FrameInv, FrameTypeOK, Empty
    <2>6. Placed(c)'
        <3>1. Placed(c)' = (\/ (conn[c] # "open" /\ stream[c] = <<>>)
                            \/ InPlace(Len(sent[c]), sent[c], Len(new), Len(stream[c]), stream[c], left[c]))
            <4>1. Unhandled(c)' = stream[c]
                BY <1>2, <1>4
            <4> QED  BY <4>1, <1>4, <1>u, <2>4 DEF Placed
        <3> QED  BY <2>1, <2>3, <3>1
    <2>7. HandledWhole(c)'
        <3>1. Len(new) <= Len(sent[c])
            BY <2>1, <2>3
        <3>2. ASSUME NEW n \in 1..Len(new)
              PROVE  new[n] = Whole(c, n) \/ (n = Len(sent[c]) /\ conn[c] # "open")
            <4>1. CASE n = h + 1
                BY <4>1, <2>1, <2>3
            <4>2. CASE n \in 1..h
                BY <4>2, <2>3 DEF FrameInv, HandledWhole
            <4> QED  BY <4>1, <4>2, <2>2, <2>3
        <3> QED  BY <3>1, <3>2, <1>4, <1>u, <2>4 DEF HandledWhole, Whole, Total
    <2>8. ASSUME NEW d \in Conn PROVE Placed(d)' /\ HandledWhole(d)'
        <3>1. CASE d = c
            <4>1. Placed(d)'
                BY <2>6, <3>1 DEF Placed, Unhandled
            <4>2. HandledWhole(d)'
                BY <2>7, <3>1 DEF HandledWhole, Whole, Total
            <4> QED  BY <4>1, <4>2
        <3>2. CASE d # c
            <4>1. sent'[d] = sent[d] /\ left'[d] = left[d] /\ handled'[d] = handled[d]
                BY <1>u, <2>4, <3>2
            <4>2. Unhandled(d)' = Unhandled(d)
                BY <1>2, <1>3, <1>4, <3>2
            <4>3. conn[d] # "open" => conn'[d] # "open"
                BY <1>4
            <4>4. Placed(d) /\ HandledWhole(d)
                BY DEF FrameInv
            <4> QED  BY <4>1, <4>2, <4>3, <4>4, StillPlaced, Zenon
        <3> QED  BY <3>1, <3>2
    <2> QED  BY <1>1, <2>5, <2>8 DEF FrameInv
<1>5. CASE packet.header = <<>> /\ Remove(c) /\ revents' = Nobody /\ UNCHANGED handled
    <2>1. /\ conn' \in [Conn -> ConnStates] /\ conn'[c] = "removed"
          /\ stream' \in [Conn -> Seq(Byte)] /\ stream'[c] = <<>>
          /\ \A d \in Conn : d # c => conn'[d] = conn[d] /\ stream'[d] = stream[d]
        BY <1>5, <1>e DEF Remove, FrameInv, FrameTypeOK, ConnStates
    <2>2. FrameTypeOK'
        BY <1>5, <1>u, <1>e, <2>1 DEF FrameInv, FrameTypeOK, Empty, Nobody
    <2>3. ASSUME NEW d \in Conn PROVE Placed(d)' /\ HandledWhole(d)'
        <3>1. sent'[d] = sent[d] /\ left'[d] = left[d] /\ handled'[d] = handled[d]
            BY <1>u, <1>5
        <3>2. conn[d] # "open" => conn'[d] # "open"
            BY <2>1
        <3>3. Placed(d) /\ HandledWhole(d)
            BY DEF FrameInv
        <3>4. CASE d = c
            <4>1. conn'[d] # "open" /\ Unhandled(d)' = <<>>
                BY <1>2, <2>1, <3>4
            <4>2. HandledWhole(d)'
                BY <3>1, <3>2, <3>3 DEF HandledWhole, Whole, Total
            <4> QED  BY <4>1, <4>2 DEF Placed
        <3>5. CASE d # c
            <4>1. Unhandled(d)' = Unhandled(d)
                BY <1>2, <1>3, <2>1, <3>5
            <4> QED  BY <3>1, <3>2, <3>3, <4>1, StillPlaced, Zenon
        <3> QED  BY <3>4, <3>5
    <2> QED  BY <1>1, <2>2, <2>3 DEF FrameInv
<1> QED  BY <1>4, <1>5 DEF packet_rec, got

(* Every step keeps the inductive invariant, one lemma for each action.      *)
LEMMA StepFrameInv == FrameInv /\ [Next]_vars => FrameInv'
<1> SUFFICES ASSUME FrameInv, [Next]_vars PROVE FrameInv'
    OBVIOUS
<1>r. reading # NoConn => reading \in Conn
    BY DEF FrameInv, FrameTypeOK
<1>1. CASE UNCHANGED vars
    <2>1. UNCHANGED <<sent, left, stream, conn, revents, reading, part, packet, handled, down>>
        BY <1>1 DEF vars, client
    <2>2. FrameTypeOK'
        BY <2>1 DEF FrameInv, FrameTypeOK
    <2>3. PacketOK'
        BY <2>1 DEF FrameInv, PacketOK, HeaderComplete, AtEnd, len_payload
    <2> QED  BY <2>1, <2>2, <2>3, NoBytesPass DEF Unhandled
<1>2. CASE poll
    BY <1>2, PollFrameInv
<1>3. CASE Exit
    BY <1>3, PollFrameInv
<1>4. CASE recv
    BY <1>4, <1>r, RecvFrameInv DEF recv
<1>5. CASE header_rec
    BY <1>5, HeaderRecFrameInv
<1>6. CASE packet_rec
    BY <1>6, <1>r, PacketRecFrameInv DEF packet_rec, Returns
<1>7. ASSUME NEW c \in Conn, HangUp(c) PROVE FrameInv'
    BY <1>7, HangUpFrameInv
<1>8. ASSUME NEW c \in Conn, Readable(c) PROVE FrameInv'
    BY <1>8, ReadableFrameInv
<1>9. ASSUME NEW c \in Conn, packet_send(c) PROVE FrameInv'
    BY <1>9, SendFrameInv
<1>10. ASSUME NEW c \in Conn, Arrive(c) PROVE FrameInv'
    BY <1>10, ArriveFrameInv
<1>11. ASSUME NEW c \in Conn, Close(c) PROVE FrameInv'
    BY <1>11, CloseFrameInv
<1> QED  BY <1>1, <1>2, <1>3, <1>4, <1>5, <1>6, <1>7, <1>8, <1>9, <1>10, <1>11 DEF Next, Server

-----------------------------------------------------------------------------
(* The theorems.                                                            *)

(* The inductive invariant holds in every behaviour.                         *)
THEOREM FramingInvariant == Spec => []FrameInv
<1>1. Init => FrameInv
    BY InitFrameInv
<1>2. FrameInv /\ [Next]_vars => FrameInv'
    BY StepFrameInv
<1> QED  BY <1>1, <1>2, PTL DEF Spec

(* Every variable keeps its type.                                            *)
THEOREM FramingTypeCorrect == Spec => []FrameTypeOK
<1>1. FrameInv => FrameTypeOK
    BY DEF FrameInv
<1> QED  BY <1>1, FramingInvariant, PTL

(* What is in its place is in step.                                          *)
LEMMA PlacedInStep == FrameInv => InStep
<1> SUFFICES ASSUME FrameInv, NEW c \in Conn, Unhandled(c) # <<>>
             PROVE  Head(Unhandled(c)) = <<Len(handled[c]) + 1, 1>>
    BY DEF InStep
<1> DEFINE U == Unhandled(c)
           M == Len(U)
           s == sent[c]
           N == Len(s)
           h == Len(handled[c])
           l == left[c]
<1>1. /\ N \in Nat /\ (\A n \in 1..N : s[n] \in Nat) /\ h \in Nat /\ l \in Nat
      /\ U \in Seq(Byte) /\ M \in Nat
    BY LengthsOfPackets, UnhandledType DEF FrameInv
<1>2. M > 0 /\ Head(U) = U[1]
    BY <1>1, EmptySeq
<1>3. InPlace(N, s, h, M, U, l)
    BY DEF FrameInv, Placed
<1> HIDE DEF U, M, s, N, h, l
<1>4. h + 1 \in 1..N /\ StartsWith(M, U, h + 1, HeaderLen + s[h + 1])
    BY <1>1, <1>2, <1>3, NextPacket, Zenon
<1>5. 1 \in 1..M /\ 1 <= HeaderLen + s[h + 1]
    BY <1>1, <1>2, <1>4, FramingAssumption
<1>6. U[1] = <<h + 1, 1>>
    BY <1>4, <1>5 DEF StartsWith
<1> QED  BY <1>2, <1>6 DEF U, h

(* However the bytes of a packet come, and whatever its header says of its   *)
(* length, the two calls of recv in packet_rec take from the socket what is  *)
(* the packet's: the next call begins where the next packet does.            *)
THEOREM FramingInStep == Spec => []InStep
<1>1. FrameInv => InStep
    BY PlacedInStep
<1> QED  BY <1>1, FramingInvariant, PTL

-----------------------------------------------------------------------------
(* packet_send and packet_rec implement PacketChannel.                      *)

(* What was handled whole.                                                   *)
Entire(c) ==
    [n \in {m \in 1..Len(handled[c]) : handled[c][m] = Whole(c, m)} |-> sent[c][n]]

(* Under the invariant what is delivered is what was handled whole: nothing  *)
(* is garbled.                                                               *)
LEMMA DeliveredIsEntire == FrameInv => \A c \in Conn : Delivered(c) = Entire(c)
<1> SUFFICES ASSUME FrameInv, NEW c \in Conn PROVE Delivered(c) = Entire(c)
    OBVIOUS
<1>1. DOMAIN handled[c] = 1..Len(handled[c])
    <2>1. handled[c] \in Seq(Seq(Byte))
        BY DEF FrameInv, FrameTypeOK
    <2> QED  BY <2>1, LenProperties
<1>2. \A n \in 1..Len(handled[c]) :
         handled[c][n] = Whole(c, n) \/ (n = Len(sent[c]) /\ conn[c] # "open")
    BY DEF FrameInv, HandledWhole
<1>3. \A n \in 1..Len(handled[c]) : ~IsCut(c, n) <=> handled[c][n] = Whole(c, n)
    BY <1>2 DEF IsCut
<1>4. {m \in DOMAIN handled[c] : ~IsCut(c, m)}
         = {m \in 1..Len(handled[c]) : handled[c][m] = Whole(c, m)}
    BY <1>1, <1>3
<1> QED  BY <1>4, <1>3 DEF Delivered, Entire

(* A step that sends nothing and handles nothing.                            *)
LEMMA NothingDelivered ==
    ASSUME NEW c \in Conn, sent'[c] = sent[c], handled'[c] = handled[c]
    PROVE  Entire(c)' = Entire(c)
BY DEF Entire, Whole, Total

(* Of a connection with packets sent and not yet handled, all that were      *)
(* handled were handled whole.                                               *)
LEMMA AllEntire ==
    ASSUME FrameInv, NEW c \in Conn,
           conn[c] = "open" \/ Len(handled[c]) < Len(sent[c])
    PROVE  /\ \A n \in 1..Len(handled[c]) : handled[c][n] = Whole(c, n)
           /\ Entire(c) = [n \in 1..Len(handled[c]) |-> sent[c][n]]
<1>1. Len(handled[c]) \in Nat /\ Len(sent[c]) \in Nat
    BY LengthsOfPackets DEF FrameInv
<1>2. \A n \in 1..Len(handled[c]) : handled[c][n] = Whole(c, n)
    BY <1>1 DEF FrameInv, HandledWhole
<1>3. {m \in 1..Len(handled[c]) : handled[c][m] = Whole(c, m)} = 1..Len(handled[c])
    BY <1>2
<1> QED  BY <1>2, <1>3 DEF Entire

(* The sequence of the packets delivered on each connection.                 *)
entire == [c \in Conn |-> Entire(c)]

(* The server starts with nothing sent and nothing delivered.                *)
LEMMA InitChannel == Init => sent = [c \in Conn |-> <<>>] /\ entire = [c \in Conn |-> <<>>]
<1> SUFFICES ASSUME Init, NEW c \in Conn PROVE Entire(c) = <<>>
    BY DEF Init, entire
<1>1. handled[c] = <<>>
    BY DEF Init
<1>2. 1..Len(handled[c]) = {}
    BY <1>1
<1>3. Entire(c) = [n \in {} |-> sent[c][n]]
    BY <1>2 DEF Entire
<1> QED  BY <1>3

(* What packet_send adds to what was sent changes nothing of what was        *)
(* delivered.                                                                *)
LEMMA SendIsSend ==
    ASSUME FrameInv, NEW c \in Conn, packet_send(c)
    PROVE  /\ \E len \in Lengths : sent' = [sent EXCEPT ![c] = Append(@, len)]
           /\ entire' = entire
<1>u. UNCHANGED handled /\ conn[c] = "open"
    BY DEF packet_send
<1>1. PICK len \in Lengths : sent' = [sent EXCEPT ![c] = Append(@, len)]
    BY DEF packet_send
<1> DEFINE h == Len(handled[c])
<1>2. /\ sent[c] \in Seq(Nat) /\ Len(sent[c]) \in Nat /\ h \in Nat
      /\ h <= Len(sent[c]) /\ len \in Nat
    BY LengthsOfPackets, FramingAssumption DEF FrameInv, FrameTypeOK, HandledWhole
<1>3. \A n \in 1..h : sent'[c][n] = sent[c][n]
    <2>1. sent'[c] = Append(sent[c], len)
        BY <1>1 DEF FrameInv, FrameTypeOK
    <2>2. \A n \in 1..Len(sent[c]) : Append(sent[c], len)[n] = sent[c][n]
        BY <1>2, AppendProperties
    <2>3. \A n \in 1..h : n \in 1..Len(sent[c])
        BY <1>2
    <2> QED  BY <2>1, <2>2, <2>3
<1>4. /\ \A n \in 1..h : handled[c][n] = Whole(c, n)
      /\ Entire(c) = [n \in 1..h |-> sent[c][n]]
    BY <1>u, AllEntire
<1>5. \A n \in 1..h : Whole(c, n)' = Whole(c, n)
    BY <1>3 DEF Whole, Total
<1>6. Entire(c)' = [n \in 1..h |-> sent[c][n]]
    <2>1. Entire(c)' = [n \in {m \in 1..h : handled[c][m] = Whole(c, m)'} |-> sent'[c][n]]
        BY <1>u DEF Entire
    <2>2. {m \in 1..h : handled[c][m] = Whole(c, m)'} = 1..h
        BY <1>4, <1>5
    <2> QED  BY <2>1, <2>2, <1>3
<1>7. ASSUME NEW d \in Conn PROVE Entire(d)' = Entire(d)
    <2>1. CASE d = c
        BY <1>4, <1>6, <2>1 DEF Entire, Whole, Total
    <2>2. CASE d # c
        <3>1. sent'[d] = sent[d] /\ handled'[d] = handled[d]
            BY <1>u, <1>1, <2>2 DEF FrameInv, FrameTypeOK
        <3> QED  BY <3>1, NothingDelivered, Zenon
    <2> QED  BY <2>1, <2>2
<1> QED  BY <1>1, <1>7 DEF entire

(* packet_rec delivers the next packet of one connection, or nothing.        *)
LEMMA RecIsDeliver ==
    ASSUME FrameInv, packet_rec, NEW c \in Conn, reading = c
    PROVE  /\ sent' = sent
           /\ \/ entire' = entire
              \/ /\ Len(entire[c]) < Len(sent[c])
                 /\ entire' = [entire EXCEPT ![c] = Append(@, sent[c][Len(@) + 1])]
<1>u. UNCHANGED sent
    BY DEF packet_rec, client
<1>1. CASE packet.header = <<>>
    <2>1. UNCHANGED handled
        BY <1>1 DEF packet_rec
    <2>2. \A d \in Conn : Entire(d)' = Entire(d)
        BY <1>u, <2>1 DEF Entire, Whole, Total
    <2> QED  BY <1>u, <2>2 DEF entire
<1>2. CASE packet.header # <<>>
    <2> DEFINE h == Len(handled[c])
               new == Append(handled[c], got)
    <2>1. handled' = [handled EXCEPT ![c] = new]
        BY <1>2 DEF packet_rec, got
    <2>2. /\ got \in Seq(Byte)
          /\ h + 1 \in 1..Len(sent[c])
        BY <1>2, WhatReturns
    <2>3. handled[c] \in Seq(Seq(Byte)) /\ h \in Nat /\ Len(sent[c]) \in Nat
        BY LengthsOfPackets DEF FrameInv, FrameTypeOK
    <2>4. /\ Len(new) = h + 1 /\ new[h + 1] = got
          /\ \A n \in 1..h : new[n] = handled[c][n]
        BY <2>2, <2>3, AppendProperties
    <2> HIDE DEF new
    <2>5. /\ \A n \in 1..h : handled[c][n] = Whole(c, n)
          /\ Entire(c) = [n \in 1..h |-> sent[c][n]]
        <3>1. h < Len(sent[c])
            BY <2>2, <2>3
        <3> QED  BY <3>1, AllEntire
    <2>6. handled'[c] = new
        BY <2>1 DEF FrameInv, FrameTypeOK
    <2>7. Entire(c)' = [n \in {m \in 1..(h + 1) : new[m] = Whole(c, m)} |-> sent[c][n]]
        BY <1>u, <2>4, <2>6 DEF Entire, Whole, Total
    <2>8. ASSUME NEW d \in Conn, d # c PROVE Entire(d)' = Entire(d)
        <3>1. sent'[d] = sent[d] /\ handled'[d] = handled[d]
            BY <1>u, <2>1, <2>8 DEF FrameInv, FrameTypeOK
        <3> QED  BY <3>1, NothingDelivered, Zenon
    <2>9. CASE got # Whole(c, h + 1)
        <3>1. {m \in 1..(h + 1) : new[m] = Whole(c, m)} = 1..h
            BY <2>3, <2>4, <2>5, <2>9
        <3>2. Entire(c)' = Entire(c)
            BY <2>5, <2>7, <3>1
        <3>3. \A d \in Conn : Entire(d)' = Entire(d)
            <4> TAKE d \in Conn
            <4>1. CASE d = c
                BY <3>2, <4>1 DEF Entire, Whole, Total
            <4> QED  BY <4>1, <2>8
        <3> QED  BY <1>u, <3>3 DEF entire
    <2>10. CASE got = Whole(c, h + 1)
        <3>1. {m \in 1..(h + 1) : new[m] = Whole(c, m)} = 1..(h + 1)
            <4>1. ASSUME NEW m \in 1..(h + 1) PROVE new[m] = Whole(c, m)
                <5>1. CASE m = h + 1
                    BY <5>1, <2>4, <2>10
                <5>2. CASE m \in 1..h
                    BY <5>2, <2>4, <2>5
                <5> QED  BY <5>1, <5>2, <2>3
            <4> QED  BY <4>1
        <3>2. Entire(c)' = [n \in 1..(h + 1) |-> sent[c][n]]
            BY <2>7, <3>1
        <3>3. Len(Entire(c)) = h /\ Len(Entire(c)) < Len(sent[c])
            BY <2>2, <2>3, <2>5
        <3>4. Entire(c)' = Append(Entire(c), sent[c][h + 1])
            <4> DEFINE x == sent[c]
            <4>1. Entire(c) = [n \in 1..h |-> x[n]] /\ Entire(c)' = [n \in 1..(h + 1) |-> x[n]]
                BY <2>5, <3>2
            <4> HIDE DEF x
            <4> QED  BY <2>3, <4>1 DEF x
        <3>5. entire[c] = Entire(c) /\ entire'[c] = Entire(c)'
            BY DEF entire
        <3>6. entire' = [entire EXCEPT ![c] = Append(Entire(c), sent[c][h + 1])]
            <4>1. \A d \in Conn : d # c => entire'[d] = entire[d]
                BY <2>8 DEF entire
            <4>2. entire'[c] = Append(Entire(c), sent[c][h + 1])
                BY <3>4, <3>5
            <4> QED  BY <4>1, <4>2 DEF entire
        <3> QED  BY <1>u, <3>3, <3>5, <3>6
    <2> QED  BY <2>9, <2>10
<1> QED  BY <1>1, <1>2

(* Every other step delivers nothing.                                        *)
LEMMA OthersDeliverNothing ==
    ASSUME UNCHANGED <<sent, handled>>
    PROVE  entire' = entire
BY DEF entire, Entire, Whole, Total

(* Each step sends a packet, delivers the oldest undelivered one whole, or   *)
(* does neither.                                                             *)
LEMMA StepChannel ==
    FrameInv /\ [Next]_vars =>
        \/ UNCHANGED <<sent, entire>>
        \/ \E c \in Conn :
              \/ /\ Len(entire[c]) < Len(sent[c])
                 /\ entire' = [entire EXCEPT ![c] = Append(@, sent[c][Len(@) + 1])]
                 /\ UNCHANGED sent
              \/ \E len \in Lengths :
                    /\ sent' = [sent EXCEPT ![c] = Append(@, len)]
                    /\ UNCHANGED entire
<1> SUFFICES ASSUME FrameInv, [Next]_vars
             PROVE  \/ UNCHANGED <<sent, entire>>
                    \/ \E c \in Conn :
                          \/ /\ Len(entire[c]) < Len(sent[c])
                             /\ entire' = [entire EXCEPT ![c] = Append(@, sent[c][Len(@) + 1])]
                             /\ UNCHANGED sent
                          \/ \E len \in Lengths :
                                /\ sent' = [sent EXCEPT ![c] = Append(@, len)]
                                /\ UNCHANGED entire
    OBVIOUS
<1>1. CASE packet_rec
    <2>1. PICK c \in Conn : c = reading
        BY <1>1 DEF packet_rec, Returns, FrameInv, FrameTypeOK
    <2> QED  BY <1>1, <2>1, RecIsDeliver
<1>2. ASSUME NEW c \in Conn, packet_send(c)
      PROVE  \E len \in Lengths :
                /\ sent' = [sent EXCEPT ![c] = Append(@, len)]
                /\ UNCHANGED entire
    BY <1>2, SendIsSend
<1>3. CASE UNCHANGED <<sent, handled>>
    BY <1>3, OthersDeliverNothing
<1>4. packet_rec \/ (\E c \in Conn : packet_send(c)) \/ UNCHANGED <<sent, handled>>
    <2>1. CASE UNCHANGED vars
        BY <2>1 DEF vars, client
    <2>2. CASE poll \/ recv \/ Exit \/ header_rec
        BY <2>2 DEF poll, recv, Exit, header_rec, client
    <2>3. ASSUME NEW c \in Conn, HangUp(c) \/ Readable(c) \/ Arrive(c) \/ Close(c)
          PROVE  UNCHANGED <<sent, handled>>
        BY <2>3 DEF HangUp, Readable, Arrive, Close, client
    <2> QED  BY <2>1, <2>2, <2>3 DEF Next, Server
<1> QED  BY <1>1, <1>2, <1>3, <1>4

(* Under the invariant the mapping of the refinement is the sequence entire. *)
LEMMA DeliveredIs == FrameInv => entire = [c \in Conn |-> Delivered(c)]
BY DeliveredIsEntire DEF entire

(* Framing implements PacketChannel: the code that calls packet_rec is       *)
(* handed, on each connection, the packets that were sent, each whole and    *)
(* once, in the order they were sent, for any number of clients, whatever    *)
(* the pieces their bytes come in; a client that goes in the middle of a     *)
(* packet is the only one of which something else is handled, as its last.   *)
THEOREM FramingImplementsChannel == Spec => ImplementsChannel
<1>1. Init => FrameInv
    BY InitFrameInv
<1>2. Init /\ FrameInv => Channel!Init
    BY InitChannel, DeliveredIs DEF Channel!Init
<1>3. FrameInv => entire = [c \in Conn |-> Delivered(c)]
    BY DeliveredIs
<1>4. ASSUME FrameInv, FrameInv', entire = [c \in Conn |-> Delivered(c)],
             (entire = [c \in Conn |-> Delivered(c)])', [Next]_vars
      PROVE  [Channel!Next]_(Channel!vars)
    <2>1. \/ UNCHANGED <<sent, entire>>
          \/ \E c \in Conn :
                \/ /\ Len(entire[c]) < Len(sent[c])
                   /\ entire' = [entire EXCEPT ![c] = Append(@, sent[c][Len(@) + 1])]
                   /\ UNCHANGED sent
                \/ \E len \in Lengths :
                      /\ sent' = [sent EXCEPT ![c] = Append(@, len)]
                      /\ UNCHANGED entire
        BY <1>4, StepChannel
    <2> DEFINE D == [c \in Conn |-> Delivered(c)]
    <2>2. entire = D /\ entire' = D'
        BY <1>4
    <2> HIDE DEF D
    <2>3. \/ UNCHANGED <<sent, D>>
          \/ \E c \in Conn :
                \/ /\ Len(D[c]) < Len(sent[c])
                   /\ D' = [D EXCEPT ![c] = Append(@, sent[c][Len(@) + 1])]
                   /\ UNCHANGED sent
                \/ \E len \in Lengths :
                      /\ sent' = [sent EXCEPT ![c] = Append(@, len)]
                      /\ UNCHANGED D
        BY <2>1, <2>2
    <2> QED  BY <2>3 DEF D, Channel!Next, Channel!Send, Channel!Deliver, Channel!vars
<1>5. Spec => []FrameInv
    BY FramingInvariant
<1> QED  BY <1>2, <1>3, <1>4, <1>5, PTL DEF Spec, ImplementsChannel, Channel!Spec
=============================================================================
