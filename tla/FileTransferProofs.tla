------------------------- MODULE FileTransferProofs -------------------------
(***************************************************************************)
(* Theorems about FileTransfer, for every block length and file length,    *)
(* with and without kills and changes of the file.                         *)
(*                                                                         *)
(* The argument: what the receiver has not read is a piece of one fixed    *)
(* conversation (header and length, then header and data of one block at a *)
(* time), so the place of each process in its code tells where the other   *)
(* can be.                                                                 *)
(***************************************************************************)
EXTENDS FileTransfer, TLAPS

-----------------------------------------------------------------------------
(* The inductive invariant.                                                *)

(* The places of each process, and those where the receiver may yet read.  *)
SenderPlaces ==
    {"called", "connected", "head", "size", "loop", "block", "wait", "refuse", "close"}
        \cup Ended
Reading == {"listening", "accepted", "size", "open", "loop", "block", "ack"}
ReceiverPlaces == Reading \cup {"refused", "received"} \cup Ended

(* Every variable has its type, and each process is in its own code.       *)
Typed == TransferTypeOK /\ at["sender"] \in SenderPlaces /\ at["receiver"] \in ReceiverPlaces

(* What a kernel knows once the other end is closed.                       *)
Gone == {"fin", "poked", "rst"}

(* The kernels and the processes agree: an end is known closed exactly     *)
(* when its process has ended, and nothing is left for a process that has. *)
Linked ==
    /\ link["sender"] = "none" <=> link["receiver"] = "none"
    /\ link["sender"] = "none" =>
          /\ at["sender"] \in {"called", "dead"}
          /\ at["receiver"] \in {"listening", "dead"}
    /\ at["sender"] = "called" => link["sender"] = "none"
    /\ link["sender"] = "open" => at["receiver"] \notin Ended
    /\ link["receiver"] = "open" => at["sender"] \notin Ended
    /\ link["sender"] \in Gone => at["receiver"] \in Ended
    /\ link["receiver"] \in Gone => at["sender"] \in Ended
    /\ at["sender"] \in Ended => wire["sender"] = <<>>
    /\ at["receiver"] \in Ended => wire["receiver"] = <<>>
    /\ link["sender"] = "none" => wire["receiver"] = <<>>

(* The descriptors each process has open, by its place.                    *)
SenderFds ==
    /\ at["sender"] \in {"called", "dead", "success"} => fds["sender"] = {}
    /\ "listen" \notin fds["sender"]
    /\ at["sender"] = "failed" => "conn" \notin fds["sender"]
ReceiverFds ==
    fds["receiver"] =
        {fd \in {"listen"} : at["receiver"] # "dead"}
            \cup {fd \in {"conn"} : at["receiver"] \notin Ended \cup {"listening"}}
            \cup {fd \in {"file"} : at["receiver"] \in {"loop", "block", "ack"}}

(* The conversation: the k-th piece the sender says, of a file of that     *)
(* length and a block of that length.                                      *)
Piece(k, length, block) ==
    IF k = 1 THEN Header("FILE_SEND", 1)
    ELSE IF k = 2 THEN Payload(length)
    ELSE IF k = 3 THEN Header("FILE_SEND", block)
    ELSE Payload(block)

(* Pieces said since the last acknowledged block, counted from the start   *)
(* of the conversation: at the loop, the two of the length.                *)
SentSoFar ==
    IF at["sender"] \in {"called", "connected", "head"} THEN 0
    ELSE IF at["sender"] = "size" THEN 1
    ELSE IF at["sender"] \in {"loop", "success"} THEN 2
    ELSE IF at["sender"] = "block" THEN 3
    ELSE 4

(* The piece the receiver will read next; after a block it is the          *)
(* acknowledgement's turn, and there is none.                              *)
NextPiece ==
    IF at["receiver"] \in {"listening", "accepted"} THEN 1
    ELSE IF at["receiver"] = "size" THEN 2
    ELSE IF at["receiver"] = "open" THEN 3
    ELSE IF at["receiver"] = "block" THEN 4
    ELSE IF at["receiver"] = "loop" /\ offset["receiver"] = offset["sender"] THEN 3
    ELSE 5

(* The FILENAME packet of a sender that could not read the file.           *)
Refusal ==
    /\ at["receiver"] \in {"listening", "accepted"}
    /\ Len(wire["receiver"]) = 1
    /\ wire["receiver"][1].type = "FILENAME"
    /\ at["sender"] \in {"close", "failed", "dead"}

(* What the receiver has not read is what it should read next, in order.   *)
Conversation ==
    \A k \in 1..Len(wire["receiver"]) :
        /\ NextPiece + k - 1 <= SentSoFar
        /\ wire["receiver"][k] = Piece(NextPiece + k - 1, size["sender"], ret["sender"])
        /\ NextPiece + k - 1 > 1 => size["sender"] # Unknown
        /\ NextPiece + k - 1 > 2 => ret["sender"] > 0

(* Nothing else ever waits for the receiver ...                            *)
OnWire == at["receiver"] \in Reading => Refusal \/ Conversation

(* ... and while the sender is there, nothing of it is missing.            *)
Exact ==
    /\ link["receiver"] # "none"
    /\ at["receiver"] \in Reading
    /\ at["sender"] \notin Ended \cup {"refuse", "close"}
    => NextPiece + Len(wire["receiver"]) = SentSoFar + 1

(* A sender that gives up before the first block leaves a receiver with    *)
(* nothing.                                                                *)
Refusing ==
    /\ at["receiver"] = "refused" => at["sender"] \in {"close", "failed", "dead"}
    /\ at["receiver"] = "received" =>
           at["sender"] \in {"loop", "block", "wait", "success", "failed", "dead"}
    /\ at["sender"] \in {"refuse", "close", "failed"} /\ at["receiver"] \notin Ended =>
           /\ offset["receiver"] = 0
           /\ \/ at["receiver"] \in {"listening", "accepted"} /\ (wire["receiver"] = <<>> \/ Refusal)
              \/ at["receiver"] = "refused"
              \/ /\ at["sender"] = "failed"
                 /\ at["receiver"] \in {"open", "loop", "received"}
                 /\ wire["receiver"] = <<>>
                 /\ size["receiver"] = 0
           /\ at["sender"] = "refuse" => wire["receiver"] = <<>>

(* Where the two offsets can be apart, and by how much.                    *)
Offsets ==
    /\ Lockstep
    /\ at["sender"] \in {"called", "connected", "head", "size", "loop", "block", "success"} =>
          offset["receiver"] = offset["sender"]
    /\ at["sender"] \in {"called", "connected", "head", "size"} => offset["sender"] = 0
    /\ at["sender"] = "wait" =>
          offset["receiver"] \in {offset["sender"], offset["sender"] + ret["sender"]}
    /\ at["sender"] \in {"block", "wait"} => ret["sender"] > 0
    /\ at["sender"] = "success" => offset["sender"] = size["sender"] /\ at["receiver"] # "block"
    /\ at["receiver"] \in {"listening", "accepted", "size", "open"} => offset["receiver"] = 0
    /\ at["receiver"] = "block" =>
          /\ offset["receiver"] = offset["sender"]
          /\ ret["receiver"] = ret["sender"]
          /\ ret["sender"] > 0
          /\ size["sender"] # Unknown
    /\ at["receiver"] = "ack" /\ link["receiver"] = "open" =>
          offset["receiver"] = offset["sender"] + ret["sender"]

(* At most one acknowledgement is on its way, and it is for the block the  *)
(* sender waits for.                                                       *)
Acks ==
    wire["sender"] # <<>> =>
        /\ at["sender"] = "wait"
        /\ at["receiver"] \notin {"block", "ack"}
        /\ offset["receiver"] = offset["sender"] + ret["sender"]
        /\ Len(wire["sender"]) = 1

(* The two lengths: unknown, equal, or the zero of a packet that did not   *)
(* come.                                                                   *)
Sizes ==
    /\ at["sender"] \in {"called", "connected"} <=>
         size["sender"] = Unknown /\ at["sender"] \notin Ended \cup {"refuse", "close"}
    /\ size["receiver"] \in {Unknown, 0, size["sender"]}
    /\ at["receiver"] \in {"received", "success"} => offset["receiver"] = size["receiver"]

(* The copy has what the receiver counts, unless the sender was killed.    *)
Copied ==
    /\ copied = Unknown => offset["receiver"] = 0
    /\ at["receiver"] \in {"listening", "accepted", "size", "open"} => copied = Unknown
    /\ at["receiver"] \in {"loop", "block", "ack", "received", "success"} => copied # Unknown
    /\ copied # Unknown /\ at["sender"] # "dead" => copied = offset["receiver"]

IInv ==
    /\ Typed /\ Linked /\ SenderFds /\ ReceiverFds /\ OnWire /\ Exact /\ Refusing
    /\ Offsets /\ Acks /\ Sizes /\ Copied

-----------------------------------------------------------------------------
(* Sequences.                                                              *)

(* Append adds one item at the end.                                        *)
LEMMA AppendItems ==
    ASSUME NEW S, NEW s \in Seq(S), NEW e \in S
    PROVE  /\ Append(s, e) \in Seq(S)
           /\ Len(Append(s, e)) = Len(s) + 1
           /\ Append(s, e) # <<>>
           /\ \A k \in 1..Len(s) : Append(s, e)[k] = s[k]
           /\ Append(s, e)[Len(s) + 1] = e
OBVIOUS

(* Head and Tail take the first item off.                                  *)
LEMMA TailItems ==
    ASSUME NEW S, NEW s \in Seq(S), s # <<>>
    PROVE  /\ Tail(s) \in Seq(S)
           /\ Len(s) > 0
           /\ Len(Tail(s)) = Len(s) - 1
           /\ Len(s) = 1 => Tail(s) = <<>>
           /\ Head(s) = s[1]
           /\ Head(s) \in S
           /\ \A k \in 1..Len(s) - 1 : Tail(s)[k] = s[k + 1]
OBVIOUS

(* A prefix keeps the items it has.                                        *)
LEMMA PrefixItems ==
    ASSUME NEW S, NEW s \in Seq(S), NEW n \in 0..Len(s)
    PROVE  /\ SubSeq(s, 1, n) \in Seq(S)
           /\ Len(SubSeq(s, 1, n)) = n
           /\ n = 0 => SubSeq(s, 1, n) = <<>>
           /\ \A k \in 1..n : SubSeq(s, 1, n)[k] = s[k]
OBVIOUS

(* A sequence is empty exactly when its length is zero.                    *)
LEMMA EmptyOrNot ==
    ASSUME NEW S, NEW s \in Seq(S)
    PROVE  /\ Len(s) \in Nat
           /\ s = <<>> <=> Len(s) = 0
           /\ \A k \in 1..Len(s) : s[k] \in S
OBVIOUS

-----------------------------------------------------------------------------
(* The operators of the module.                                            *)

(* Before the connection, the invariant holds.                             *)
LEMMA InitHolds == Init => IInv
<1> SUFFICES ASSUME Init PROVE IInv
    OBVIOUS
<1> USE TransferAssumption DEF Init, Peers, Unknown
<1>1. Typed
    BY DEF Typed, TransferTypeOK, Places, Ended, Links, SenderPlaces, ReceiverPlaces, Reading
<1>2. Linked
    BY DEF Linked, Ended, Gone
<1>3. SenderFds /\ ReceiverFds
    BY DEF SenderFds, ReceiverFds
<1>4. OnWire /\ Exact
    BY DEF OnWire, Exact, Conversation, NextPiece, SentSoFar, Ended, Reading
<1>5. Refusing /\ Offsets
    BY DEF Refusing, Offsets, Lockstep
<1>6. Acks /\ Sizes /\ Copied
    BY DEF Acks, Sizes, Copied, Ended
<1> QED  BY <1>1, <1>2, <1>3, <1>4, <1>5, <1>6 DEF IInv

(* What closing an end does: its own queue is lost, the other's loses at   *)
(* most its end, and the other kernel, if connected, learns of it.         *)
LEMMA CloseCuts ==
    ASSUME TransferTypeOK, NEW p \in Peers, Closes(p)
    PROVE  /\ wire' \in [Peers -> Seq(Pieces)]
           /\ wire'[p] = <<>>
           /\ Len(wire'[Other(p)]) \in 0..Len(wire[Other(p)])
           /\ \A k \in 1..Len(wire'[Other(p)]) : wire'[Other(p)][k] = wire[Other(p)][k]
           /\ link' \in [Peers -> Links]
           /\ link'[p] = link[p]
           /\ link[Other(p)] = "none" => link'[Other(p)] = "none"
           /\ link[Other(p)] # "none" => link'[Other(p)] \in {"fin", "rst"}
<1> DEFINE q == Other(p)
<1>1. q \in Peers /\ q # p
    BY DEF Peers, Other
<1>2. wire \in [Peers -> Seq(Pieces)] /\ link \in [Peers -> Links]
    BY DEF TransferTypeOK
<1>3. PICK k \in 0..Len(wire[q]) : wire' = [wire EXCEPT ![p] = <<>>, ![q] = SubSeq(@, 1, k)]
  <2>1. PICK k \in (IF Unread(p) THEN 0 ELSE Len(wire[q]))..Len(wire[q]) :
           wire' = [wire EXCEPT ![p] = <<>>, ![q] = SubSeq(@, 1, k)]
      BY DEF Closes
  <2>2. Len(wire[q]) \in Nat
      BY <1>1, <1>2, EmptyOrNot
  <2>3. (IF Unread(p) THEN 0 ELSE Len(wire[q]))..Len(wire[q]) \subseteq 0..Len(wire[q])
      BY <2>2
  <2> QED  BY <2>1, <2>3
<1>4. wire[q] \in Seq(Pieces) /\ <<>> \in Seq(Pieces)
    BY <1>1, <1>2
<1>5. /\ SubSeq(wire[q], 1, k) \in Seq(Pieces)
      /\ Len(SubSeq(wire[q], 1, k)) = k
      /\ \A i \in 1..k : SubSeq(wire[q], 1, k)[i] = wire[q][i]
    BY <1>3, <1>4, PrefixItems
<1>6. wire'[p] = <<>> /\ wire'[q] = SubSeq(wire[q], 1, k) /\ wire' \in [Peers -> Seq(Pieces)]
    BY <1>1, <1>2, <1>3, <1>4, <1>5
<1>7. link' = [link EXCEPT ![q] = IF @ = "none" THEN "none"
                                  ELSE IF Unread(p) THEN "rst" ELSE "fin"]
    BY DEF Closes
<1>8. /\ link' \in [Peers -> Links]
      /\ link'[p] = link[p]
      /\ link[q] = "none" => link'[q] = "none"
      /\ link[q] # "none" => link'[q] \in {"fin", "rst"}
    BY <1>1, <1>2, <1>7 DEF Links
<1>9. Len(wire[q]) \in Nat
    BY <1>4, EmptyOrNot
<1> QED  BY <1>3, <1>5, <1>6, <1>8, <1>9

(* read returns at most a block.                                           *)
LEMMA InBlockType ==
    ASSUME TransferTypeOK
    PROVE  /\ InBlock \in 0..MSG_LEN
           /\ offset["sender"] + InBlock \in Nat
<1>1. offset["sender"] \in Nat /\ file \in Nat
    BY TransferAssumption DEF TransferTypeOK, Peers
<1> QED  BY <1>1, TransferAssumption DEF InBlock, Lesser

(* Both counts of pieces are small numbers.                                *)
LEMMA Counting ==
    /\ NextPiece \in 1..5
    /\ SentSoFar \in 0..4
    /\ SentSoFar' \in 0..4
BY DEF NextPiece, SentSoFar

(* A piece depends on the length from the second on, on the block from the *)
(* third.                                                                  *)
LEMMA SamePiece ==
    ASSUME NEW k \in Nat \ {0}, NEW l1, NEW l2, NEW b1, NEW b2,
           k > 1 => l1 = l2, k > 2 => b1 = b2
    PROVE  Piece(k, l1, b1) = Piece(k, l2, b2)
BY DEF Piece, Header, Payload

(* A conversation with its end lost is still one.                          *)
LEMMA ConversationCut ==
    ASSUME Conversation, TransferTypeOK, NEW m \in 0..Len(wire["receiver"]),
           Len(wire'["receiver"]) = m,
           \A k \in 1..m : wire'["receiver"][k] = wire["receiver"][k],
           NextPiece' = NextPiece,
           SentSoFar <= SentSoFar',
           SentSoFar > 1 => size'["sender"] = size["sender"],
           SentSoFar > 2 => ret'["sender"] = ret["sender"]
    PROVE  Conversation'
<1>1. Len(wire["receiver"]) \in Nat
    BY EmptyOrNot DEF TransferTypeOK, Peers
<1>2. /\ NextPiece \in 1..5 /\ SentSoFar \in 0..4 /\ SentSoFar' \in 0..4
    BY Counting
<1>3. ASSUME NEW k \in 1..m
      PROVE  /\ NextPiece + k - 1 <= SentSoFar'
             /\ wire'["receiver"][k] = Piece(NextPiece + k - 1, size'["sender"], ret'["sender"])
             /\ NextPiece + k - 1 > 1 => size'["sender"] # Unknown
             /\ NextPiece + k - 1 > 2 => ret'["sender"] > 0
  <2>1. k \in 1..Len(wire["receiver"]) /\ NextPiece + k - 1 \in Nat \ {0}
      BY <1>1, <1>2
  <2>2. /\ NextPiece + k - 1 <= SentSoFar
        /\ wire["receiver"][k] = Piece(NextPiece + k - 1, size["sender"], ret["sender"])
        /\ NextPiece + k - 1 > 1 => size["sender"] # Unknown
        /\ NextPiece + k - 1 > 2 => ret["sender"] > 0
      BY <2>1 DEF Conversation
  <2>3. /\ NextPiece + k - 1 > 1 => size'["sender"] = size["sender"]
        /\ NextPiece + k - 1 > 2 => ret'["sender"] = ret["sender"]
      BY <2>1, <2>2, <1>2
  <2>4. Piece(NextPiece + k - 1, size'["sender"], ret'["sender"])
           = Piece(NextPiece + k - 1, size["sender"], ret["sender"])
      BY <2>1, <2>3, SamePiece
  <2> QED  BY <1>2, <2>1, <2>2, <2>3, <2>4
<1> QED  BY <1>3 DEF Conversation

(* The next piece said keeps the conversation, and misses nothing.         *)
LEMMA ConversationGrows ==
    ASSUME Conversation, TransferTypeOK, wire \in [Peers -> Seq(Pieces)],
           NextPiece + Len(wire["receiver"]) = SentSoFar + 1,
           NEW piece \in Pieces,
           wire'["receiver"] = Append(wire["receiver"], piece),
           NextPiece' = NextPiece,
           SentSoFar' = SentSoFar + 1,
           piece = Piece(SentSoFar', size'["sender"], ret'["sender"]),
           SentSoFar' > 1 => size'["sender"] # Unknown,
           SentSoFar' > 2 => ret'["sender"] > 0,
           SentSoFar > 1 => size'["sender"] = size["sender"],
           SentSoFar > 2 => ret'["sender"] = ret["sender"]
    PROVE  Conversation' /\ NextPiece' + Len(wire'["receiver"]) = SentSoFar' + 1
<1> DEFINE len == Len(wire["receiver"])
<1>1. /\ len \in Nat
      /\ wire'["receiver"][len + 1] = piece
      /\ Len(wire'["receiver"]) = len + 1
      /\ \A k \in 1..len : wire'["receiver"][k] = wire["receiver"][k]
    BY EmptyOrNot, AppendItems DEF TransferTypeOK, Peers
<1>2. NextPiece \in 1..5 /\ SentSoFar \in 0..4 /\ SentSoFar' \in 0..4
    BY Counting
<1>3. ASSUME NEW k \in 1..len + 1
      PROVE  /\ NextPiece + k - 1 <= SentSoFar'
             /\ wire'["receiver"][k] = Piece(NextPiece + k - 1, size'["sender"], ret'["sender"])
             /\ NextPiece + k - 1 > 1 => size'["sender"] # Unknown
             /\ NextPiece + k - 1 > 2 => ret'["sender"] > 0
  <2>1. CASE k = len + 1
    <3>1. NextPiece + k - 1 = SentSoFar'
        BY <1>1, <1>2, <2>1
    <3> QED  BY <1>1, <1>2, <2>1, <3>1
  <2>2. CASE k \in 1..len
    <3>1. NextPiece + k - 1 \in Nat \ {0}
        BY <1>1, <1>2
    <3>2. /\ NextPiece + k - 1 <= SentSoFar
          /\ wire["receiver"][k] = Piece(NextPiece + k - 1, size["sender"], ret["sender"])
          /\ NextPiece + k - 1 > 1 => size["sender"] # Unknown
          /\ NextPiece + k - 1 > 2 => ret["sender"] > 0
        BY <2>2 DEF Conversation
    <3>3. /\ NextPiece + k - 1 > 1 => size'["sender"] = size["sender"]
          /\ NextPiece + k - 1 > 2 => ret'["sender"] = ret["sender"]
        BY <3>1, <3>2, <1>2
    <3>4. Piece(NextPiece + k - 1, size'["sender"], ret'["sender"])
             = Piece(NextPiece + k - 1, size["sender"], ret["sender"])
        BY <3>1, <3>3, SamePiece
    <3> QED  BY <1>1, <1>2, <2>2, <3>1, <3>2, <3>3, <3>4
  <2> QED  BY <1>1, <2>1, <2>2
<1>4. Conversation'
    BY <1>1, <1>3 DEF Conversation
<1> QED  BY <1>1, <1>2, <1>4

(* The next piece read keeps the conversation.                             *)
LEMMA ConversationMoves ==
    ASSUME Conversation, TransferTypeOK, wire["receiver"] # <<>>,
           wire'["receiver"] = Tail(wire["receiver"]),
           NextPiece' = NextPiece + 1,
           SentSoFar' = SentSoFar,
           size'["sender"] = size["sender"],
           ret'["sender"] = ret["sender"]
    PROVE  Conversation'
<1> DEFINE len == Len(wire["receiver"])
<1>1. /\ len \in Nat
      /\ Len(wire'["receiver"]) = len - 1
      /\ \A k \in 1..len - 1 : wire'["receiver"][k] = wire["receiver"][k + 1]
    BY EmptyOrNot, TailItems DEF TransferTypeOK, Peers
<1>2. NextPiece \in 1..5 /\ NextPiece' \in Nat
    BY Counting
<1>3. ASSUME NEW k \in 1..len - 1
      PROVE  /\ NextPiece' + k - 1 <= SentSoFar'
             /\ wire'["receiver"][k] = Piece(NextPiece' + k - 1, size'["sender"], ret'["sender"])
             /\ NextPiece' + k - 1 > 1 => size'["sender"] # Unknown
             /\ NextPiece' + k - 1 > 2 => ret'["sender"] > 0
  <2>1. k + 1 \in 1..len /\ NextPiece' + k - 1 = NextPiece + (k + 1) - 1
      BY <1>1, <1>2
  <2>2. /\ NextPiece + (k + 1) - 1 <= SentSoFar
        /\ wire["receiver"][k + 1]
              = Piece(NextPiece + (k + 1) - 1, size["sender"], ret["sender"])
        /\ NextPiece + (k + 1) - 1 > 1 => size["sender"] # Unknown
        /\ NextPiece + (k + 1) - 1 > 2 => ret["sender"] > 0
      BY <2>1 DEF Conversation
  <2> QED  BY <1>1, <2>1, <2>2
<1> QED  BY <1>1, <1>3 DEF Conversation

(* The next piece to be read, and what it says.                            *)
LEMMA HeadOfConversation ==
    ASSUME Conversation, TransferTypeOK, wire["receiver"] # <<>>
    PROVE  /\ Head(wire["receiver"]) = Piece(NextPiece, size["sender"], ret["sender"])
           /\ NextPiece <= SentSoFar
           /\ NextPiece > 1 => size["sender"] # Unknown
           /\ NextPiece > 2 => ret["sender"] > 0
<1>1. 1 \in 1..Len(wire["receiver"]) /\ Head(wire["receiver"]) = wire["receiver"][1]
    BY EmptyOrNot, TailItems DEF TransferTypeOK, Peers
<1>2. NextPiece \in 1..5 /\ NextPiece + 1 - 1 = NextPiece
    BY Counting
<1>3. /\ wire["receiver"][1] = Piece(NextPiece + 1 - 1, size["sender"], ret["sender"])
      /\ NextPiece + 1 - 1 <= SentSoFar
      /\ NextPiece + 1 - 1 > 1 => size["sender"] # Unknown
      /\ NextPiece + 1 - 1 > 2 => ret["sender"] > 0
    BY <1>1 DEF Conversation
<1> QED  BY <1>1, <1>2, <1>3

-----------------------------------------------------------------------------
(* The steps of the processes.                                             *)

(* What the invariant says of the wire and the counters, taken apart.      *)
Counted ==
    /\ wire["sender"] \in Seq(Pieces) /\ wire["receiver"] \in Seq(Pieces)
    /\ Len(wire["sender"]) \in Nat /\ Len(wire["receiver"]) \in Nat
    /\ wire["sender"] = <<>> <=> Len(wire["sender"]) = 0
    /\ wire["receiver"] = <<>> <=> Len(wire["receiver"]) = 0
    /\ offset["sender"] \in Nat /\ offset["receiver"] \in Nat
    /\ ret["sender"] \in 0..MSG_LEN /\ ret["receiver"] \in 0..MSG_LEN
    /\ size["sender"] \in 0..MaxSize \cup {Unknown}
    /\ size["receiver"] \in 0..MaxSize \cup {Unknown}

(* The invariant implies them.                                             *)
LEMMA Counts == IInv => TransferTypeOK /\ Counted
<1>1. IInv => TransferTypeOK
    BY DEF IInv, Typed
<1>2. TransferTypeOK => Counted
    BY EmptyOrNot DEF TransferTypeOK, Peers, Counted
<1> QED  BY <1>1, <1>2

(* The sender may die anywhere, in the middle of a packet or of a block.   *)
LEMMA SenderDies ==
    ASSUME IInv, Dies("sender"), UNCHANGED <<size, offset, copied>>, file' \in 0..MaxSize,
           at["sender"] \notin Ended,
           \/ ret' = ret
           \/ at["sender"] = "loop" /\ ret' = [ret EXCEPT !["sender"] = InBlock]
    PROVE  IInv'
<1>1. TransferTypeOK /\ Counted
    BY Counts
<1>2. "sender" \in Peers /\ Other("sender") = "receiver" /\ "receiver" \in Peers
    BY DEF Peers, Other
<1>3. /\ wire' \in [Peers -> Seq(Pieces)]
      /\ wire'["sender"] = <<>>
      /\ Len(wire'["receiver"]) \in 0..Len(wire["receiver"])
      /\ \A k \in 1..Len(wire'["receiver"]) : wire'["receiver"][k] = wire["receiver"][k]
      /\ link' \in [Peers -> Links]
      /\ link'["sender"] = link["sender"]
      /\ link["receiver"] = "none" => link'["receiver"] = "none"
      /\ link["receiver"] # "none" => link'["receiver"] \in {"fin", "rst"}
    BY <1>1, <1>2, CloseCuts DEF Dies
<1>4. /\ at' \in [Peers -> Places]
      /\ at'["sender"] = "dead" /\ at'["receiver"] = at["receiver"]
      /\ fds' \in [Peers -> SUBSET {"listen", "conn", "file"}]
      /\ fds'["sender"] = {} /\ fds'["receiver"] = fds["receiver"]
    BY <1>1, <1>2 DEF Dies, Go, TransferTypeOK, Places, Ended
<1>5. /\ ret' \in [Peers -> 0..MSG_LEN]
      /\ ret'["receiver"] = ret["receiver"]
      /\ at["sender"] # "loop" => ret' = ret
    BY <1>1, <1>2, InBlockType DEF TransferTypeOK
<1>6. /\ Len(wire'["receiver"]) \in Nat
      /\ wire'["receiver"] = <<>> <=> Len(wire'["receiver"]) = 0
    BY <1>2, <1>3, EmptyOrNot
<1>10. Typed'
    BY <1>1, <1>3, <1>4, <1>5 DEF IInv, Typed, TransferTypeOK, SenderPlaces, Ended
<1>11. Linked'
    BY <1>3, <1>4, <1>6, <1>1 DEF IInv, Linked, Ended, Gone, Counted
<1>12. SenderFds' /\ ReceiverFds'
    BY <1>4 DEF IInv, SenderFds, ReceiverFds
<1>13. OnWire'
  <2>1. SUFFICES ASSUME at["receiver"] \in Reading, Len(wire'["receiver"]) > 0
                 PROVE  Refusal' \/ Conversation'
      BY <1>4, <1>6 DEF OnWire, Conversation
  <2>2. CASE Refusal
    <3>1. Len(wire["receiver"]) = 1
        BY <2>2 DEF Refusal
    <3>2. Len(wire'["receiver"]) \in 0..1
        BY <1>3, <3>1
    <3>3. Len(wire'["receiver"]) = 1
        BY <2>1, <3>2
    <3>4. wire'["receiver"][1] = wire["receiver"][1]
        BY <1>3, <3>3
    <3> QED  BY <1>4, <2>2, <3>3, <3>4 DEF Refusal
  <2>3. CASE Conversation
    <3>1. NextPiece' = NextPiece
        BY <1>4 DEF NextPiece
    <3>2. SentSoFar <= SentSoFar' /\ (SentSoFar > 2 => at["sender"] # "loop")
        BY <1>4 DEF SentSoFar
    <3>3. Len(wire'["receiver"]) \in 0..Len(wire["receiver"])
        BY <1>1, <1>3, <1>6 DEF Counted
    <3> QED  BY <1>1, <1>3, <1>5, <2>3, <3>1, <3>2, <3>3, ConversationCut
  <2> QED  BY <2>1, <2>2, <2>3 DEF IInv, OnWire
<1>14. Exact'
    BY <1>4 DEF Exact, Ended
<1>15. Refusing'
    BY <1>4 DEF IInv, Refusing
<1>16. Offsets'
  <2>1. at["sender"] = "loop" => at["receiver"] \notin {"block", "ack"}
    <3>1. at["sender"] = "loop" => SentSoFar = 2 /\ link["receiver"] # "none"
        BY DEF IInv, Linked, SentSoFar
    <3>2. at["receiver"] \in {"block", "ack"} => NextPiece >= 4
        BY DEF NextPiece
    <3> QED  BY <3>1, <3>2, Counting, <1>1 DEF IInv, Exact, Ended, Reading, Counted
  <2>2. Lockstep'
      BY <1>1, <1>2, <1>5, InBlockType DEF IInv, Offsets, Lockstep, Counted, TransferTypeOK
  <2> QED  BY <1>3, <1>4, <1>5, <2>1, <2>2 DEF IInv, Offsets
<1>17. Acks' /\ Sizes' /\ Copied'
    BY <1>3, <1>4 DEF IInv, Acks, Sizes, Copied, Ended
<1> QED  BY <1>10, <1>11, <1>12, <1>13, <1>14, <1>15, <1>16, <1>17 DEF IInv

(* The receiver may die anywhere, or end where its code does.              *)
LEMMA ReceiverEnds ==
    ASSUME IInv, NEW how \in Ended, Closes("receiver"), Go("receiver", how),
           fds' = [fds EXCEPT !["receiver"] = IF how = "dead" THEN {} ELSE {"listen"}],
           at["receiver"] \notin Ended,
           how = "success" => at["receiver"] = "received",
           how = "failed" => at["receiver"] = "refused",
           UNCHANGED <<file, counters>>
    PROVE  IInv'
<1>1. TransferTypeOK /\ Counted
    BY Counts
<1>2. "sender" \in Peers /\ Other("receiver") = "sender" /\ "receiver" \in Peers
    BY DEF Peers, Other
<1>3. /\ wire' \in [Peers -> Seq(Pieces)]
      /\ wire'["receiver"] = <<>>
      /\ Len(wire'["sender"]) \in 0..Len(wire["sender"])
      /\ link' \in [Peers -> Links]
      /\ link'["receiver"] = link["receiver"]
      /\ link["sender"] = "none" => link'["sender"] = "none"
      /\ link["sender"] # "none" => link'["sender"] \in {"fin", "rst"}
    BY <1>1, <1>2, CloseCuts
<1>4. /\ at' \in [Peers -> Places]
      /\ at'["receiver"] = how /\ at'["sender"] = at["sender"]
      /\ fds' \in [Peers -> SUBSET {"listen", "conn", "file"}]
      /\ fds'["receiver"] = (IF how = "dead" THEN {} ELSE {"listen"})
      /\ fds'["sender"] = fds["sender"]
    BY <1>1, <1>2 DEF Go, TransferTypeOK, Places, Ended
<1>5. /\ Len(wire'["sender"]) \in Nat
      /\ wire'["sender"] = <<>> <=> Len(wire'["sender"]) = 0
    BY <1>2, <1>3, EmptyOrNot
<1>6. UNCHANGED <<file, size, offset, ret, copied>>
    BY DEF counters
<1>10. Typed'
    BY <1>1, <1>3, <1>4, <1>6 DEF IInv, Typed, TransferTypeOK, ReceiverPlaces, Ended
<1>11. Linked'
    BY <1>3, <1>4, <1>5, <1>1 DEF IInv, Linked, Ended, Gone, Counted
<1>12. SenderFds' /\ ReceiverFds'
    BY <1>4 DEF IInv, SenderFds, ReceiverFds, Ended
<1>13. OnWire' /\ Exact' /\ Refusing'
    BY <1>4 DEF IInv, OnWire, Exact, Refusing, Reading, Ended
<1>14. Offsets'
    BY <1>4, <1>6 DEF IInv, Offsets, Lockstep, Ended
<1>15. Acks'
  <2>1. wire'["sender"] # <<>> => wire["sender"] # <<>> /\ Len(wire'["sender"]) >= 1
      BY <1>1, <1>3, <1>5 DEF Counted
  <2>2. wire["sender"] # <<>> => Len(wire["sender"]) = 1
      BY DEF IInv, Acks
  <2>3. ASSUME wire'["sender"] # <<>> PROVE Len(wire'["sender"]) = 1
    <3>1. Len(wire["sender"]) = 1 /\ Len(wire'["sender"]) # 0
        BY <1>5, <2>1, <2>2, <2>3
    <3>2. Len(wire'["sender"]) \in 0..1
        BY <1>3, <3>1
    <3> QED  BY <3>1, <3>2
  <2> QED  BY <1>4, <1>6, <2>1, <2>3 DEF IInv, Acks, Ended
<1>16. Sizes' /\ Copied'
    BY <1>4, <1>6 DEF IInv, Sizes, Copied, Ended
<1> QED  BY <1>10, <1>11, <1>12, <1>13, <1>14, <1>15, <1>16 DEF IInv

(* The case of its death.                                                  *)
LEMMA ReceiverDies ==
    ASSUME IInv, Dies("receiver"), UNCHANGED <<file, counters>>, at["receiver"] \notin Ended
    PROVE  IInv'
BY ReceiverEnds DEF Dies, Ended

(* What a send to an open connection, or to a closed one, changes.         *)
LEMMA SendCases ==
    ASSUME TransferTypeOK, NEW p \in Peers, NEW piece \in Pieces, NEW next \in Places,
           Sends(p, piece, next), ~Dies(p)
    PROVE  /\ at' \in [Peers -> Places] /\ at'[p] = next /\ at'[Other(p)] = at[Other(p)]
           /\ fds' = fds
           /\ wire' \in [Peers -> Seq(Pieces)] /\ wire'[p] = wire[p]
           /\ link' \in [Peers -> Links] /\ link'[Other(p)] = link[Other(p)]
           /\ \/ link[p] = "open" /\ link' = link /\ wire'[Other(p)] = Append(wire[Other(p)], piece)
              \/ link[p] \in {"fin", "poked"} /\ link'[p] = "poked" /\ wire' = wire
<1>1. Other(p) \in Peers /\ Other(p) # p
    BY DEF Peers, Other
<1>2. /\ at' \in [Peers -> Places] /\ at'[p] = next /\ at'[Other(p)] = at[Other(p)]
      /\ fds' = fds
    BY <1>1 DEF Sends, Go, TransferTypeOK
<1>3. Append(wire[Other(p)], piece) \in Seq(Pieces)
    BY <1>1, AppendItems DEF TransferTypeOK
<1>4. CASE link[p] = "open"
    BY <1>1, <1>2, <1>3, <1>4 DEF Sends, TransferTypeOK
<1>5. CASE link[p] \in {"fin", "poked"}
    BY <1>1, <1>2, <1>5 DEF Sends, TransferTypeOK, Links
<1> QED  BY <1>4, <1>5 DEF Sends

(* The sender says the next piece.                                         *)
LEMMA SenderSays ==
    ASSUME IInv, NEW next \in {"size", "loop", "block", "wait"},
           NEW piece, piece = Piece(SentSoFar + 1, size["sender"], ret'["sender"]),
           Sends("sender", piece, next),
           ~Dies("sender"),
           at["sender"] \in {"head", "size", "loop", "block"},
           SentSoFar' = SentSoFar + 1,
           UNCHANGED <<file, size, offset, copied>>,
           \/ ret' = ret
           \/ at["sender"] = "loop" /\ ret' = [ret EXCEPT !["sender"] = InBlock],
           SentSoFar' > 2 => ret'["sender"] > 0
    PROVE  IInv'
<1>1. TransferTypeOK /\ Counted
    BY Counts
<1>2. "sender" \in Peers /\ Other("sender") = "receiver" /\ "receiver" \in Peers
    BY DEF Peers, Other
<1>3. /\ ret' \in [Peers -> 0..MSG_LEN]
      /\ ret'["receiver"] = ret["receiver"]
      /\ at["sender"] # "loop" => ret' = ret
  <2>1. InBlock \in 0..MSG_LEN
      BY <1>1, InBlockType
  <2>2. ret \in [Peers -> 0..MSG_LEN]
      BY <1>1 DEF TransferTypeOK
  <2>3. CASE ret' = ret
      BY <2>2, <2>3
  <2>4. CASE at["sender"] = "loop" /\ ret' = [ret EXCEPT !["sender"] = InBlock]
      BY <1>2, <2>1, <2>2, <2>4
  <2> QED  BY <2>3, <2>4
<1>4. size["sender"] \in Nat
    BY <1>1, TransferAssumption DEF IInv, Sizes, Ended, Counted
<1>5. piece \in Pieces
    BY <1>2, <1>3, <1>4, TransferAssumption DEF Piece, Header, Payload, Pieces
<1>6. /\ at' \in [Peers -> Places] /\ at'["sender"] = next /\ at'["receiver"] = at["receiver"]
      /\ fds' = fds
      /\ wire' \in [Peers -> Seq(Pieces)] /\ wire'["sender"] = wire["sender"]
      /\ link' \in [Peers -> Links] /\ link'["receiver"] = link["receiver"]
      /\ \/ /\ link["sender"] = "open" /\ link' = link
            /\ wire'["receiver"] = Append(wire["receiver"], piece)
         \/ /\ link["sender"] \in {"fin", "poked"} /\ link'["sender"] = "poked"
            /\ wire' = wire
  <2>1. next \in Places
      BY DEF Places
  <2> QED  BY <1>1, <1>2, <1>5, <2>1, SendCases
<1>7. \/ link["sender"] = "open" /\ at["receiver"] \in Reading
      \/ link["sender"] = "open" /\ at["receiver"] = "received" /\ at["sender"] \in {"loop", "block"}
      \/ link["sender"] \in Gone /\ at["receiver"] \in Ended
    BY <1>6 DEF IInv, Typed, Linked, Refusing, Gone, ReceiverPlaces
<1>8. at["receiver"] # "ack" /\ (at["sender"] = "loop" => at["receiver"] # "block")
  <2>1. SentSoFar <= 3 /\ (at["sender"] = "loop" => SentSoFar = 2) /\ link["receiver"] # "none"
      BY DEF IInv, Linked, SentSoFar
  <2>2. /\ at["receiver"] = "block" => NextPiece = 4
        /\ at["receiver"] = "ack" => NextPiece = 5
      BY DEF NextPiece
  <2> QED  BY <1>1, <2>1, <2>2, Counting DEF IInv, Exact, Ended, Reading, Counted
<1>9. at["sender"] \in {"loop", "block"} => next \in {"block", "wait"}
    BY <1>6 DEF SentSoFar
<1>10. Typed'
    BY <1>1, <1>3, <1>6 DEF IInv, Typed, TransferTypeOK, SenderPlaces
<1>11. Linked'
    BY <1>6, <1>7 DEF IInv, Linked, Ended, Gone, Reading
<1>12. SenderFds' /\ ReceiverFds'
    BY <1>6 DEF IInv, SenderFds, ReceiverFds
<1>13. OnWire' /\ Exact'
  <2>1. CASE at["receiver"] \in Ended \cup {"received"}
      BY <1>6, <2>1 DEF OnWire, Exact, Reading, Ended
  <2>2. CASE link["sender"] = "open" /\ at["receiver"] \in Reading
    <3>1. Conversation
        BY <2>2 DEF IInv, OnWire, Refusal
    <3>2. NextPiece + Len(wire["receiver"]) = SentSoFar + 1
        BY <2>2 DEF IInv, Exact, Linked, Ended
    <3>3. NextPiece' = NextPiece
        BY <1>6 DEF NextPiece
    <3>4. size'["sender"] # Unknown
        BY <1>4 DEF Unknown
    <3>5. SentSoFar > 2 => ret'["sender"] = ret["sender"]
        BY <1>3 DEF SentSoFar
    <3>6. Conversation' /\ NextPiece' + Len(wire'["receiver"]) = SentSoFar' + 1
        BY <1>1, <1>5, <1>6, <2>2, <3>1, <3>2, <3>3, <3>4, <3>5, ConversationGrows
           DEF TransferTypeOK
    <3> QED  BY <3>6 DEF OnWire, Exact
  <2> QED  BY <1>7, <2>1, <2>2
<1>14. Refusing'
    BY <1>6, <1>7, <1>9 DEF Refusing, Reading, Ended
<1>15. Offsets'
  <2>1. Lockstep' /\ offset["receiver"] = offset["sender"]
      BY <1>1, <1>2, <1>3 DEF IInv, Offsets, Lockstep, Counted, TransferTypeOK
  <2>2. at'["sender"] \in {"block", "wait"} => ret'["sender"] > 0
      BY <1>6 DEF SentSoFar
  <2>3. at'["sender"] = "size" => offset["sender"] = 0
      BY <1>6 DEF IInv, Offsets, SentSoFar
  <2> QED  BY <1>3, <1>6, <1>8, <2>1, <2>2, <2>3 DEF IInv, Offsets
<1>16. Acks' /\ Sizes' /\ Copied'
    BY <1>6 DEF IInv, Acks, Sizes, Copied, Ended
<1> QED  BY <1>10, <1>11, <1>12, <1>13, <1>14, <1>15, <1>16 DEF IInv

(* connect of client_handle_file_accept_res.                               *)
LEMMA ConnectKeeps == ASSUME IInv, Connect PROVE IInv'
<1>1. TransferTypeOK /\ Counted
    BY Counts
<1>2. at["sender"] = "called" /\ UNCHANGED <<file, size, offset, ret, copied>>
    BY DEF Connect, counters
<1>3. CASE Dies("sender")
  <2>1. file \in 0..MaxSize
      BY <1>1 DEF TransferTypeOK
  <2> QED  BY <1>2, <1>3, <2>1, SenderDies DEF Ended
<1>4. CASE /\ "listen" \in fds["receiver"] /\ Go("sender", "connected")
           /\ link' = [p \in Peers |-> "open"]
           /\ fds' = [fds EXCEPT !["sender"] = {"conn"}]
           /\ UNCHANGED wire
  <2>1. /\ at["receiver"] = "listening" /\ wire["receiver"] = <<>> /\ wire["sender"] = <<>>
        /\ link["sender"] = "none"
      BY <1>2, <1>4 DEF IInv, Linked, ReceiverFds, Acks
  <2>2. /\ at' \in [Peers -> Places] /\ at'["sender"] = "connected" /\ at'["receiver"] = "listening"
        /\ link' \in [Peers -> Links] /\ link'["sender"] = "open" /\ link'["receiver"] = "open"
        /\ fds' \in [Peers -> SUBSET {"listen", "conn", "file"}]
        /\ fds'["sender"] = {"conn"} /\ fds'["receiver"] = fds["receiver"]
      BY <1>1, <1>4, <2>1 DEF Go, TransferTypeOK, Peers, Places, Links
  <2>10. Typed'
      BY <1>1, <1>2, <1>4, <2>2 DEF Typed, TransferTypeOK, SenderPlaces, ReceiverPlaces, Reading
  <2>11. Linked' /\ SenderFds' /\ ReceiverFds'
      BY <1>4, <2>1, <2>2 DEF IInv, Linked, SenderFds, ReceiverFds, Gone, Ended
  <2>12. OnWire' /\ Exact'
      BY <1>1, <1>4, <2>1, <2>2 DEF OnWire, Conversation, Exact, NextPiece, SentSoFar, Counted
  <2>13. Refusing' /\ Offsets'
      BY <1>2, <1>4, <2>1, <2>2 DEF IInv, Refusing, Offsets, Lockstep
  <2>14. Acks' /\ Sizes' /\ Copied'
      BY <1>2, <1>4, <2>1, <2>2 DEF IInv, Acks, Sizes, Copied, Ended
  <2> QED  BY <2>10, <2>11, <2>12, <2>13, <2>14 DEF IInv
<1> QED  BY <1>3, <1>4 DEF Connect

(* stat and open of peer_send_file.                                        *)
LEMMA OpenFileKeeps == ASSUME IInv, OpenFile PROVE IInv'
<1>1. TransferTypeOK /\ Counted
    BY Counts
<1>2. at["sender"] = "connected" /\ UNCHANGED <<file, offset, ret, copied>>
    BY DEF OpenFile
<1>3. file \in 0..MaxSize
    BY <1>1 DEF TransferTypeOK
<1>4. CASE Dies("sender") /\ UNCHANGED size
    BY <1>2, <1>3, <1>4, SenderDies DEF Ended
<1>5. CASE /\ Go("sender", "refuse")
           /\ UNCHANGED <<size, wire, link, fds>>
  <2>1. /\ at' \in [Peers -> Places] /\ at'["sender"] = "refuse" /\ at'["receiver"] = at["receiver"]
      BY <1>1, <1>5 DEF Go, TransferTypeOK, Peers, Places
  <2>2. at["receiver"] \in Reading => wire["receiver"] = <<>> /\ NextPiece = 1
    <3>1. SentSoFar = 0 /\ link["receiver"] # "none"
        BY <1>2 DEF IInv, Linked, SentSoFar
    <3>2. at["receiver"] \in Reading => NextPiece + Len(wire["receiver"]) = 1
        BY <1>2, <3>1 DEF IInv, Exact, Ended
    <3> QED  BY <1>1, <3>2, Counting DEF Counted
  <2>3. at["receiver"] \in {"listening", "accepted"} \cup Ended
      BY <1>2, <2>2 DEF IInv, Typed, Refusing, ReceiverPlaces, Reading, NextPiece
  <2>10. Typed'
      BY <1>1, <1>2, <1>5, <2>1 DEF IInv, Typed, TransferTypeOK, SenderPlaces
  <2>11. Linked' /\ SenderFds' /\ ReceiverFds'
      BY <1>2, <1>5, <2>1 DEF IInv, Linked, SenderFds, ReceiverFds, Gone, Ended
  <2>12. OnWire' /\ Exact'
      BY <1>1, <1>5, <2>1, <2>2 DEF OnWire, Conversation, Exact, Counted
  <2>13. Refusing'
      BY <1>2, <1>5, <2>1, <2>2, <2>3 DEF IInv, Refusing, Offsets, Reading, Ended
  <2>14. Offsets'
      BY <1>2, <1>5, <2>1, <2>3 DEF IInv, Offsets, Lockstep, Ended
  <2>15. Acks' /\ Sizes' /\ Copied'
      BY <1>2, <1>5, <2>1 DEF IInv, Acks, Sizes, Copied, Ended
  <2> QED  BY <2>10, <2>11, <2>12, <2>13, <2>14, <2>15 DEF IInv
<1>6. CASE /\ Go("sender", "head")
           /\ size' = [size EXCEPT !["sender"] = file]
           /\ fds' = [fds EXCEPT !["sender"] = @ \cup {"file"}]
           /\ UNCHANGED <<wire, link>>
  <2>1. /\ at' \in [Peers -> Places] /\ at'["sender"] = "head" /\ at'["receiver"] = at["receiver"]
        /\ size' \in [Peers -> 0..MaxSize \cup {Unknown}]
        /\ size'["sender"] = file /\ size'["receiver"] = size["receiver"]
        /\ fds' \in [Peers -> SUBSET {"listen", "conn", "file"}]
        /\ fds'["sender"] = fds["sender"] \cup {"file"} /\ fds'["receiver"] = fds["receiver"]
      BY <1>1, <1>3, <1>6 DEF Go, TransferTypeOK, Peers, Places
  <2>2. size["sender"] = Unknown /\ file # Unknown
      BY <1>2, <1>3, TransferAssumption DEF IInv, Sizes, Unknown
  <2>3. SentSoFar = 0 /\ SentSoFar' = 0 /\ NextPiece' = NextPiece
      BY <1>2, <2>1 DEF SentSoFar, NextPiece
  <2>4. at["receiver"] # "block"
    <3>1. at["receiver"] = "block" => NextPiece = 4 /\ at["receiver"] \in Reading
        BY DEF NextPiece, Reading
    <3> QED  BY <1>1, <1>2, <2>3, <3>1 DEF IInv, Exact, Linked, Ended, Counted
  <2>10. Typed'
      BY <1>1, <1>2, <1>6, <2>1 DEF IInv, Typed, TransferTypeOK, SenderPlaces
  <2>11. Linked' /\ SenderFds' /\ ReceiverFds'
      BY <1>2, <1>6, <2>1 DEF IInv, Linked, SenderFds, ReceiverFds, Gone, Ended
  <2>12. OnWire'
    <3>1. at["receiver"] \in Reading => Conversation
        BY <1>2 DEF IInv, OnWire, Refusal
    <3>2. ASSUME Conversation PROVE Conversation'
      <4>1. Len(wire["receiver"]) \in 0..Len(wire["receiver"])
          BY <1>1 DEF Counted
      <4> QED  BY <1>1, <1>2, <1>6, <2>3, <3>2, <4>1, ConversationCut
    <3> QED  BY <2>1, <3>1, <3>2 DEF OnWire
  <2>13. Exact'
      BY <1>2, <1>6, <2>1, <2>3 DEF IInv, Exact, Ended
  <2>14. Refusing' /\ Offsets'
      BY <1>2, <1>6, <2>1, <2>4 DEF IInv, Refusing, Offsets, Lockstep
  <2>15. Acks' /\ Copied'
      BY <1>2, <1>6, <2>1 DEF IInv, Acks, Copied
  <2>16. Sizes'
      BY <1>2, <2>1, <2>2 DEF IInv, Sizes, Ended
  <2> QED  BY <2>10, <2>11, <2>12, <2>13, <2>14, <2>15, <2>16 DEF IInv
<1> QED  BY <1>4, <1>5, <1>6 DEF OpenFile

(* The packet with the length.                                             *)
LEMMA AnnounceKeeps == ASSUME IInv, Announce PROVE IInv'
<1>1. UNCHANGED <<file, size, offset, ret, copied>>
    BY DEF Announce, counters
<1>2. file \in 0..MaxSize
    BY DEF IInv, Typed, TransferTypeOK
<1>3. at["sender"] \in {"head", "size"}
    BY DEF Announce
<1>4. CASE Dies("sender")
    BY <1>1, <1>2, <1>3, <1>4, SenderDies DEF Ended
<1>5. CASE ~Dies("sender")
  <2> DEFINE piece == Piece(SentSoFar + 1, size["sender"], ret'["sender"])
  <2>1. \E next \in {"size", "loop", "block", "wait"} :
           /\ Sends("sender", piece, next) /\ Go("sender", next)
           /\ SentSoFar' = SentSoFar + 1 /\ SentSoFar' <= 2
    <3>1. CASE at["sender"] = "head" /\ Sends("sender", Header("FILE_SEND", 1), "size")
      <4>1. piece = Header("FILE_SEND", 1)
          BY <3>1 DEF SentSoFar, Piece
      <4>2. Go("sender", "size")
          BY <1>5, <3>1 DEF Sends
      <4>3. SentSoFar = 0 /\ SentSoFar' = 1
          BY <3>1, <4>2 DEF SentSoFar, Go, IInv, Typed, TransferTypeOK, Peers
      <4> QED  BY <3>1, <4>1, <4>2, <4>3
    <3>2. CASE at["sender"] = "size" /\ Sends("sender", Payload(size["sender"]), "loop")
      <4>1. piece = Payload(size["sender"])
          BY <3>2 DEF SentSoFar, Piece
      <4>2. Go("sender", "loop")
          BY <1>5, <3>2 DEF Sends
      <4>3. SentSoFar = 1 /\ SentSoFar' = 2
          BY <3>2, <4>2 DEF SentSoFar, Go, IInv, Typed, TransferTypeOK, Peers
      <4> QED  BY <3>2, <4>1, <4>2, <4>3
    <3> QED  BY <3>1, <3>2 DEF Announce
  <2>2. SentSoFar' \in Nat
      BY Counting
  <2> HIDE DEF piece
  <2>3. PICK next \in {"size", "loop", "block", "wait"} :
           /\ Sends("sender", piece, next)
           /\ SentSoFar' = SentSoFar + 1 /\ ~(SentSoFar' > 2)
      BY <2>1, <2>2
  <2> QED  BY <1>1, <1>3, <1>5, <2>3, SenderSays DEF piece
<1> QED  BY <1>4, <1>5

(* A block, whatever part of the file is left to read.                     *)
LEMMA SendBlockKeeps == ASSUME IInv, SendBlock PROVE IInv'
<1>1. TransferTypeOK /\ Counted /\ InBlock \in 0..MSG_LEN
    BY Counts, InBlockType
<1>2. at["sender"] \in {"loop", "block"} /\ UNCHANGED <<file, size, offset, copied>>
    BY DEF SendBlock
<1>3. \/ ret' = ret
      \/ at["sender"] = "loop" /\ ret' = [ret EXCEPT !["sender"] = InBlock]
    BY DEF SendBlock
<1>4. CASE Dies("sender")
  <2>1. file \in 0..MaxSize
      BY <1>1 DEF TransferTypeOK
  <2> QED  BY <1>2, <1>3, <1>4, <2>1, SenderDies DEF Ended
<1>5. CASE ~Dies("sender")
  <2> DEFINE piece == Piece(SentSoFar + 1, size["sender"], ret'["sender"])
  <2>1. \E next \in {"size", "loop", "block", "wait"} :
           Sends("sender", piece, next) /\ SentSoFar' = SentSoFar + 1 /\ ret'["sender"] > 0
    <3>1. CASE /\ at["sender"] = "loop"
               /\ ret' = [ret EXCEPT !["sender"] = InBlock]
               /\ IF InBlock = 0 THEN Dies("sender")
                  ELSE Sends("sender", Header("FILE_SEND", InBlock), "block")
      <4>1. ret'["sender"] = InBlock /\ InBlock > 0
          BY <1>1, <1>5, <3>1 DEF TransferTypeOK, Peers
      <4>2. Sends("sender", Header("FILE_SEND", InBlock), "block")
          BY <3>1, <4>1
      <4>3. piece = Header("FILE_SEND", InBlock)
          BY <3>1, <4>1 DEF SentSoFar, Piece
      <4>4. Go("sender", "block")
          BY <1>5, <4>2 DEF Sends
      <4>5. SentSoFar = 2 /\ SentSoFar' = 3
          BY <1>1, <3>1, <4>4 DEF SentSoFar, Go, TransferTypeOK, Peers
      <4> QED  BY <4>1, <4>2, <4>3, <4>5
    <3>2. CASE /\ at["sender"] = "block"
               /\ Sends("sender", Payload(ret["sender"]), "wait")
               /\ UNCHANGED ret
      <4>1. piece = Payload(ret["sender"]) /\ ret'["sender"] > 0
          BY <3>2 DEF SentSoFar, Piece, IInv, Offsets
      <4>2. Go("sender", "wait")
          BY <1>5, <3>2 DEF Sends
      <4>3. SentSoFar = 3 /\ SentSoFar' = 4
          BY <1>1, <3>2, <4>2 DEF SentSoFar, Go, TransferTypeOK, Peers
      <4> QED  BY <3>2, <4>1, <4>2, <4>3
    <3> QED  BY <3>1, <3>2 DEF SendBlock
  <2> HIDE DEF piece
  <2>2. PICK next \in {"size", "loop", "block", "wait"} :
           Sends("sender", piece, next) /\ SentSoFar' = SentSoFar + 1 /\ ret'["sender"] > 0
      BY <2>1
  <2> QED  BY <1>2, <1>3, <1>5, <2>2, SenderSays DEF piece
<1> QED  BY <1>4, <1>5

(* The acknowledgement, or its absence.                                    *)
LEMMA GetAckKeeps == ASSUME IInv, GetAck PROVE IInv'
<1>1. TransferTypeOK /\ Counted
    BY Counts
<1>2. at["sender"] = "wait" /\ UNCHANGED <<file, size, ret, copied>>
    BY DEF GetAck
<1>3. link["sender"] # "none" /\ link["receiver"] # "none"
    BY <1>2 DEF IInv, Linked
<1>4. CASE /\ Reads("sender")
           /\ offset' = [offset EXCEPT !["sender"] = @ + ret["sender"]]
           /\ Go("sender", "loop")
  <2>1. /\ at' \in [Peers -> Places] /\ at'["sender"] = "loop" /\ at'["receiver"] = at["receiver"]
        /\ offset' \in [Peers -> Nat]
        /\ offset'["sender"] = offset["sender"] + ret["sender"]
        /\ offset'["receiver"] = offset["receiver"]
    <3>1. offset["sender"] + ret["sender"] \in Nat
        BY <1>1, TransferAssumption DEF Counted
    <3> QED  BY <1>1, <1>4, <3>1 DEF Go, TransferTypeOK, Peers, Places
  <2>2. /\ at["receiver"] \notin {"block", "ack"}
        /\ offset["receiver"] = offset["sender"] + ret["sender"]
        /\ ret["sender"] > 0
        /\ Len(wire["sender"]) = 1
      BY <1>2, <1>4 DEF IInv, Acks, Offsets, Reads
  <2>3. /\ wire' \in [Peers -> Seq(Pieces)]
        /\ wire'["sender"] = <<>> /\ wire'["receiver"] = wire["receiver"]
    <3>1. Tail(wire["sender"]) = <<>>
        BY <1>1, <1>4, <2>2, TailItems DEF Counted, Reads
    <3> QED  BY <1>1, <1>4, <3>1 DEF Reads, TransferTypeOK, Peers
  <2>4. at["receiver"] \in Reading => at["receiver"] = "loop" /\ wire["receiver"] = <<>>
    <3>1. at["receiver"] \notin {"listening", "accepted", "size", "open"}
        BY <1>1, <2>2, TransferAssumption DEF IInv, Offsets, Counted
    <3>2. at["receiver"] = "loop" => NextPiece = 5
        BY <1>1, <2>2, TransferAssumption DEF NextPiece, Counted
    <3>3. SentSoFar = 4
        BY <1>2 DEF SentSoFar
    <3>4. at["receiver"] = "loop" => NextPiece + Len(wire["receiver"]) = SentSoFar + 1
        BY <1>2, <1>3 DEF IInv, Exact, Reading, Ended
    <3> QED  BY <1>1, <2>2, <3>1, <3>2, <3>3, <3>4 DEF Reading, Counted
  <2>10. Typed'
      BY <1>1, <1>2, <1>4, <2>1, <2>3 DEF IInv, Typed, TransferTypeOK, SenderPlaces, Reads
  <2>11. Linked' /\ SenderFds' /\ ReceiverFds'
      BY <1>2, <1>3, <1>4, <2>1, <2>3 DEF IInv, Linked, SenderFds, ReceiverFds, Gone, Ended, Reads
  <2>12. OnWire' /\ Exact'
    <3>1. at["receiver"] = "loop" => NextPiece' = 3
        BY <2>1, <2>2 DEF NextPiece
    <3>2. SentSoFar' = 2
        BY <2>1 DEF SentSoFar
    <3> QED  BY <1>1, <2>1, <2>3, <2>4, <3>1, <3>2 DEF OnWire, Exact, Conversation, Counted
  <2>13. Refusing'
      BY <1>2, <2>1 DEF IInv, Refusing
  <2>14. Offsets'
      BY <1>1, <1>2, <2>1, <2>2, TransferAssumption DEF IInv, Offsets, Lockstep, Counted
  <2>15. Acks' /\ Sizes' /\ Copied'
      BY <1>2, <2>1, <2>3 DEF IInv, Acks, Sizes, Copied, Ended
  <2> QED  BY <2>10, <2>11, <2>12, <2>13, <2>14, <2>15 DEF IInv
<1>5. CASE /\ ReadsNothing("sender")
           /\ Go("sender", "refuse")
           /\ UNCHANGED offset
  <2>1. at' \in [Peers -> Places] /\ at'["sender"] = "refuse" /\ at'["receiver"] = at["receiver"]
      BY <1>1, <1>5 DEF Go, TransferTypeOK, Peers, Places
  <2>2. at["receiver"] \in Ended /\ wire["sender"] = <<>>
      BY <1>5 DEF IInv, Linked, Gone, ReadsNothing
  <2>3. UNCHANGED <<wire, link, fds>>
      BY <1>5 DEF ReadsNothing
  <2>10. Typed'
      BY <1>1, <1>2, <1>5, <2>1, <2>3 DEF IInv, Typed, TransferTypeOK, SenderPlaces
  <2>11. Linked' /\ SenderFds' /\ ReceiverFds'
      BY <1>2, <1>3, <2>1, <2>3 DEF IInv, Linked, SenderFds, ReceiverFds, Gone, Ended
  <2>12. OnWire' /\ Exact' /\ Refusing'
      BY <2>1, <2>2 DEF OnWire, Exact, Refusing, Reading, Ended
  <2>13. Offsets'
      BY <1>2, <1>5, <2>1, <2>2, <2>3 DEF IInv, Offsets, Lockstep, Ended
  <2>14. Acks' /\ Sizes' /\ Copied'
      BY <1>2, <1>5, <2>1, <2>2, <2>3 DEF IInv, Acks, Sizes, Copied, Ended
  <2> QED  BY <2>10, <2>11, <2>12, <2>13, <2>14 DEF IInv
<1>6. CASE ReadFails("sender")
  <2>1. file \in 0..MaxSize
      BY <1>1 DEF TransferTypeOK
  <2> QED  BY <1>2, <1>6, <2>1, SenderDies DEF ReadFails, counters, Ended
<1> QED  BY <1>4, <1>5, <1>6 DEF GetAck

(* The FILENAME packet.                                                    *)
LEMMA RefuseKeeps == ASSUME IInv, Refuse PROVE IInv'
<1>1. TransferTypeOK /\ Counted
    BY Counts
<1>2. at["sender"] = "refuse" /\ UNCHANGED <<file, size, offset, ret, copied>>
    BY DEF Refuse, counters
<1>3. CASE Dies("sender")
  <2>1. file \in 0..MaxSize
      BY <1>1 DEF TransferTypeOK
  <2> QED  BY <1>2, <1>3, <2>1, SenderDies DEF Ended
<1>4. CASE ~Dies("sender")
  <2>1. Header("FILENAME", 0) \in Pieces /\ "close" \in Places
      BY DEF Header, Pieces, Places
  <2>2. /\ at' \in [Peers -> Places] /\ at'["sender"] = "close" /\ at'["receiver"] = at["receiver"]
        /\ fds' = fds
        /\ wire' \in [Peers -> Seq(Pieces)] /\ wire'["sender"] = wire["sender"]
        /\ link' \in [Peers -> Links] /\ link'["receiver"] = link["receiver"]
        /\ \/ /\ link["sender"] = "open" /\ link' = link
              /\ wire'["receiver"] = Append(wire["receiver"], Header("FILENAME", 0))
           \/ /\ link["sender"] \in {"fin", "poked"} /\ link'["sender"] = "poked"
              /\ wire' = wire
      BY <1>1, <1>4, <2>1, SendCases DEF Refuse, Peers, Other
  <2>3. CASE link["sender"] = "open"
    <3>1. /\ at["receiver"] \in {"listening", "accepted"} /\ wire["receiver"] = <<>>
          /\ offset["receiver"] = 0 /\ wire["sender"] = <<>>
        BY <1>2, <2>3 DEF IInv, Linked, Refusing, Acks
    <3>2. Refusal'
      <4>1. wire'["receiver"] = <<Header("FILENAME", 0)>>
          BY <2>2, <2>3, <3>1
      <4>2. Len(wire'["receiver"]) = 1 /\ wire'["receiver"][1].type = "FILENAME"
          BY <4>1 DEF Header
      <4> QED  BY <2>2, <3>1, <4>2 DEF Refusal
    <3>10. Typed'
        BY <1>1, <1>2, <2>2 DEF IInv, Typed, TransferTypeOK, SenderPlaces
    <3>11. Linked' /\ SenderFds' /\ ReceiverFds'
        BY <1>2, <2>2, <2>3, <3>1 DEF IInv, Linked, SenderFds, ReceiverFds, Gone, Ended
    <3>12. OnWire' /\ Exact' /\ Refusing'
        BY <1>2, <2>2, <3>1, <3>2 DEF OnWire, Exact, Refusing
    <3>13. Offsets'
        BY <1>2, <2>2, <3>1 DEF IInv, Offsets, Lockstep
    <3>14. Acks' /\ Sizes' /\ Copied'
        BY <1>2, <2>2, <3>1 DEF IInv, Acks, Sizes, Copied, Ended
    <3> QED  BY <3>10, <3>11, <3>12, <3>13, <3>14 DEF IInv
  <2>4. CASE link["sender"] \in {"fin", "poked"}
    <3>1. at["receiver"] \in Ended /\ wire["sender"] = <<>> /\ wire' = wire
        BY <1>2, <2>2, <2>4 DEF IInv, Linked, Gone, Acks
    <3>10. Typed'
        BY <1>1, <1>2, <2>2 DEF IInv, Typed, TransferTypeOK, SenderPlaces
    <3>11. Linked' /\ SenderFds' /\ ReceiverFds'
        BY <1>2, <2>2, <2>4, <3>1 DEF IInv, Linked, SenderFds, ReceiverFds, Gone, Ended
    <3>12. OnWire' /\ Exact' /\ Refusing'
        BY <2>2, <3>1 DEF OnWire, Exact, Refusing, Reading, Ended
    <3>13. Offsets'
        BY <1>2, <2>2, <3>1 DEF IInv, Offsets, Lockstep, Ended
    <3>14. Acks' /\ Sizes' /\ Copied'
        BY <1>2, <2>2, <3>1 DEF IInv, Acks, Sizes, Copied, Ended
    <3> QED  BY <3>10, <3>11, <3>12, <3>13, <3>14 DEF IInv
  <2> QED  BY <2>2, <2>3, <2>4
<1> QED  BY <1>3, <1>4

(* The end of the sender, well or not.                                     *)
LEMMA CloseSenderKeeps == ASSUME IInv, CloseSender PROVE IInv'
<1>1. TransferTypeOK /\ Counted
    BY Counts
<1>2. UNCHANGED <<file, size, offset, ret, copied>>
    BY DEF CloseSender, counters
<1>3. \/ at["sender"] = "close" /\ at'["sender"] = "failed"
      \/ /\ at["sender"] = "loop" /\ at'["sender"] = "success"
         /\ offset["sender"] = size["sender"]
    BY <1>1 DEF CloseSender, Go, TransferTypeOK, Peers
<1>4. /\ at' \in [Peers -> Places] /\ at'["receiver"] = at["receiver"]
      /\ fds' \in [Peers -> SUBSET {"listen", "conn", "file"}]
      /\ fds'["sender"] = (IF at["sender"] = "loop" THEN {} ELSE fds["sender"] \ {"conn"})
      /\ fds'["receiver"] = fds["receiver"]
    BY <1>1 DEF CloseSender, Go, TransferTypeOK, Peers, Places, Ended
<1>5. /\ wire' \in [Peers -> Seq(Pieces)]
      /\ wire'["sender"] = <<>>
      /\ Len(wire'["receiver"]) \in 0..Len(wire["receiver"])
      /\ \A k \in 1..Len(wire'["receiver"]) : wire'["receiver"][k] = wire["receiver"][k]
      /\ link' \in [Peers -> Links]
      /\ link'["sender"] = link["sender"]
      /\ link["receiver"] = "none" => link'["receiver"] = "none"
      /\ link["receiver"] # "none" => link'["receiver"] \in {"fin", "rst"}
    BY <1>1, CloseCuts DEF CloseSender, Peers, Other
<1>6. /\ wire'["receiver"] = <<>> <=> Len(wire'["receiver"]) = 0
      /\ wire["receiver"] = <<>> => wire'["receiver"] = <<>>
    BY <1>1, <1>5, EmptyOrNot DEF Counted, Peers
<1>7. at["sender"] = "loop" => at["receiver"] # "block"
  <2>1. at["sender"] = "loop" => SentSoFar = 2 /\ link["receiver"] # "none"
      BY DEF IInv, Linked, SentSoFar
  <2>2. at["receiver"] = "block" => NextPiece = 4
      BY DEF NextPiece
  <2> QED  BY <1>1, <2>1, <2>2 DEF IInv, Exact, Ended, Reading, Counted
<1>8. ASSUME Refusal PROVE wire'["receiver"] = <<>> \/ Refusal'
  <2>1. Len(wire'["receiver"]) \in 0..1
      BY <1>5, <1>8 DEF Refusal
  <2>2. CASE Len(wire'["receiver"]) = 0
      BY <1>6, <2>2
  <2>3. CASE Len(wire'["receiver"]) = 1
    <3>1. wire'["receiver"][1] = wire["receiver"][1]
        BY <1>5, <2>3
    <3> QED  BY <1>3, <1>4, <1>8, <2>3, <3>1 DEF Refusal
  <2> QED  BY <2>1, <2>2, <2>3
<1>10. Typed'
    BY <1>1, <1>2, <1>3, <1>4, <1>5 DEF IInv, Typed, TransferTypeOK, SenderPlaces, Ended
<1>11. Linked'
    BY <1>3, <1>4, <1>5, <1>6 DEF IInv, Linked, Ended, Gone
<1>12. SenderFds' /\ ReceiverFds'
    BY <1>3, <1>4 DEF IInv, SenderFds, ReceiverFds
<1>13. OnWire'
  <2>1. CASE Refusal
      BY <1>5, <1>8, <2>1 DEF OnWire, Conversation
  <2>2. CASE Conversation
    <3>1. NextPiece' = NextPiece /\ SentSoFar <= SentSoFar'
        BY <1>2, <1>3, <1>4 DEF NextPiece, SentSoFar
    <3>2. Conversation'
        BY <1>1, <1>2, <1>5, <2>2, <3>1, ConversationCut
    <3> QED  BY <3>2 DEF OnWire
  <2> QED  BY <1>4, <2>1, <2>2 DEF IInv, OnWire
<1>14. Exact'
    BY <1>3 DEF Exact, Ended
<1>15. Refusing'
    BY <1>2, <1>3, <1>4, <1>6, <1>8 DEF IInv, Refusing
<1>16. Offsets'
    BY <1>2, <1>3, <1>4, <1>5, <1>7 DEF IInv, Offsets, Lockstep, Linked, Ended, Gone
<1>17. Acks' /\ Sizes' /\ Copied'
    BY <1>2, <1>3, <1>4, <1>5 DEF IInv, Acks, Sizes, Copied, Ended
<1> QED  BY <1>10, <1>11, <1>12, <1>13, <1>14, <1>15, <1>16, <1>17 DEF IInv

(* What reading one piece changes, and what it leaves on the wire.         *)
LEMMA ReceiverReads ==
    ASSUME IInv, Reads("receiver"), Go("receiver", at'["receiver"]),
           at'["receiver"] \in Places
    PROVE  /\ at' \in [Peers -> Places] /\ at'["sender"] = at["sender"]
           /\ wire' \in [Peers -> Seq(Pieces)]
           /\ wire'["sender"] = wire["sender"]
           /\ wire'["receiver"] = Tail(wire["receiver"])
           /\ Len(wire["receiver"]) >= 1
           /\ Len(wire'["receiver"]) = Len(wire["receiver"]) - 1
           /\ wire'["receiver"] = <<>> <=> Len(wire["receiver"]) = 1
           /\ at["receiver"] \notin Ended /\ link["sender"] # "none" /\ link["receiver"] # "none"
           /\ UNCHANGED <<link, fds>>
<1>1. TransferTypeOK /\ Counted
    BY Counts
<1>2. /\ at' \in [Peers -> Places] /\ at'["sender"] = at["sender"]
      /\ UNCHANGED <<link, fds>> /\ wire["receiver"] # <<>>
    BY <1>1 DEF Go, TransferTypeOK, Peers, Reads
<1>3. /\ Tail(wire["receiver"]) \in Seq(Pieces)
      /\ Len(wire["receiver"]) >= 1
      /\ Len(Tail(wire["receiver"])) = Len(wire["receiver"]) - 1
    BY <1>1, <1>2, TailItems DEF Counted
<1>4. /\ wire' \in [Peers -> Seq(Pieces)] /\ wire'["sender"] = wire["sender"]
      /\ wire'["receiver"] = Tail(wire["receiver"])
    BY <1>1, <1>3 DEF Reads, TransferTypeOK, Peers
<1>5. Tail(wire["receiver"]) = <<>> <=> Len(Tail(wire["receiver"])) = 0
    BY <1>3, EmptyOrNot
<1>6. wire'["receiver"] = <<>> <=> Len(wire["receiver"]) = 1
    BY <1>1, <1>3, <1>4, <1>5 DEF Counted
<1>7. at["receiver"] \notin Ended /\ link["sender"] # "none" /\ link["receiver"] # "none"
    BY <1>2 DEF IInv, Linked
<1> QED  BY <1>2, <1>3, <1>4, <1>6, <1>7

(* A read that finds nothing finds the sender gone.                        *)
LEMMA ReceiverReadsNothing ==
    ASSUME IInv, ReadsNothing("receiver")
    PROVE  /\ wire["receiver"] = <<>> /\ wire["sender"] = <<>>
           /\ at["sender"] \in Ended
           /\ link["receiver"] \in Gone
           /\ UNCHANGED <<wire, link, fds>>
BY DEF ReadsNothing, IInv, Linked, Gone

(* accept of file_accept_res.                                              *)
LEMMA AcceptKeeps == ASSUME IInv, Accept PROVE IInv'
<1>1. TransferTypeOK /\ Counted
    BY Counts
<1>2. /\ at["receiver"] = "listening" /\ link["receiver"] # "none"
      /\ UNCHANGED <<file, size, offset, ret, copied, wire, link>>
    BY DEF Accept, counters
<1>3. /\ at' \in [Peers -> Places] /\ at'["sender"] = at["sender"] /\ at'["receiver"] = "accepted"
      /\ fds' \in [Peers -> SUBSET {"listen", "conn", "file"}]
      /\ fds'["sender"] = fds["sender"] /\ fds'["receiver"] = fds["receiver"] \cup {"conn"}
    BY <1>1 DEF Accept, Go, TransferTypeOK, Peers, Places
<1>4. NextPiece' = NextPiece /\ SentSoFar' = SentSoFar
    BY <1>2, <1>3 DEF NextPiece, SentSoFar
<1>5. ASSUME Conversation PROVE Conversation'
  <2>1. Len(wire["receiver"]) \in 0..Len(wire["receiver"]) /\ SentSoFar <= SentSoFar'
      BY <1>1, <1>4, Counting DEF Counted
  <2> QED  BY <1>1, <1>2, <1>4, <1>5, <2>1, ConversationCut
<1>6. ASSUME Refusal PROVE Refusal'
    BY <1>2, <1>3, <1>6 DEF Refusal
<1>10. Typed'
    BY <1>1, <1>2, <1>3 DEF IInv, Typed, TransferTypeOK, ReceiverPlaces, Reading
<1>11. Linked'
    BY <1>2, <1>3 DEF IInv, Linked, Ended, Gone
<1>12. SenderFds' /\ ReceiverFds'
    BY <1>2, <1>3 DEF IInv, SenderFds, ReceiverFds, Ended
<1>13. OnWire' /\ Exact'
    BY <1>2, <1>3, <1>4, <1>5, <1>6 DEF IInv, OnWire, Exact, Reading
<1>14. Refusing'
    BY <1>2, <1>3, <1>6 DEF IInv, Refusing, Ended
<1>15. Offsets' /\ Acks'
    BY <1>2, <1>3 DEF IInv, Offsets, Lockstep, Acks
<1>16. Sizes' /\ Copied'
    BY <1>2, <1>3 DEF IInv, Sizes, Copied
<1> QED  BY <1>10, <1>11, <1>12, <1>13, <1>14, <1>15, <1>16 DEF IInv

(* The first packet at the receiver: a length, a refusal or nothing.       *)
LEMMA GetSizeKeeps == ASSUME IInv, GetSize PROVE IInv'
<1>1. TransferTypeOK /\ Counted
    BY Counts
<1>2. UNCHANGED <<file, offset, ret, copied>> /\ at["receiver"] \in {"accepted", "size"}
    BY DEF GetSize
<1>3. CASE /\ at["receiver"] = "accepted"
           /\ Reads("receiver")
           /\ Go("receiver", IF Head(wire["receiver"]).type = "FILENAME" THEN "refused" ELSE "size")
           /\ UNCHANGED size
  <2>1. /\ at'["receiver"] = IF Head(wire["receiver"]).type = "FILENAME" THEN "refused" ELSE "size"
        /\ at'["receiver"] \in Places /\ Go("receiver", at'["receiver"])
      BY <1>1, <1>3 DEF Go, TransferTypeOK, Peers, Places
  <2>2. /\ at' \in [Peers -> Places] /\ at'["sender"] = at["sender"]
        /\ wire' \in [Peers -> Seq(Pieces)]
        /\ wire'["sender"] = wire["sender"]
        /\ wire'["receiver"] = Tail(wire["receiver"])
        /\ Len(wire["receiver"]) >= 1
        /\ Len(wire'["receiver"]) = Len(wire["receiver"]) - 1
        /\ wire'["receiver"] = <<>> <=> Len(wire["receiver"]) = 1
        /\ link["sender"] # "none" /\ link["receiver"] # "none"
        /\ UNCHANGED <<link, fds>>
      BY <1>3, <2>1, ReceiverReads
  <2>3. wire["receiver"] # <<>> /\ Head(wire["receiver"]) = wire["receiver"][1]
      BY <1>1, <1>3, TailItems DEF Reads, Counted
  <2>4. \/ /\ Refusal /\ at'["receiver"] = "refused"
           /\ at["sender"] \in {"close", "failed", "dead"} /\ wire'["receiver"] = <<>>
        \/ Conversation /\ at'["receiver"] = "size"
    <3>1. CASE Refusal
        BY <2>1, <2>2, <2>3, <3>1 DEF Refusal
    <3>2. CASE Conversation
      <4>1. Head(wire["receiver"]) = Header("FILE_SEND", 1)
          BY <1>1, <1>3, <2>3, <3>2, HeadOfConversation DEF NextPiece, Piece
      <4> QED  BY <2>1, <3>2, <4>1 DEF Header
    <3> QED  BY <1>3, <3>1, <3>2 DEF IInv, OnWire, Reading
  <2>5. at'["receiver"] = "size" => NextPiece = 1 /\ NextPiece' = 2
      BY <1>3 DEF NextPiece
  <2>6. SentSoFar' = SentSoFar
      BY <2>2 DEF SentSoFar
  <2>7. Conversation /\ at'["receiver"] = "size" => Conversation'
      BY <1>1, <1>2, <1>3, <2>2, <2>3, <2>5, <2>6, ConversationMoves
  <2>10. Typed'
      BY <1>1, <1>2, <1>3, <2>2, <2>4 DEF IInv, Typed, TransferTypeOK, ReceiverPlaces, Reading
  <2>11. Linked' /\ SenderFds' /\ ReceiverFds'
      BY <1>3, <2>2, <2>4 DEF IInv, Linked, SenderFds, ReceiverFds, Ended, Gone
  <2>12. OnWire'
      BY <2>4, <2>7 DEF OnWire, Reading
  <2>13. Exact'
      BY <1>1, <1>3, <2>2, <2>4, <2>5, <2>6 DEF IInv, Exact, Reading, Counted
  <2>14. Refusing'
    <3>1. at["sender"] \in {"refuse", "close", "failed"} => Refusal
        BY <1>3, <2>3 DEF IInv, Refusing, Ended
    <3>2. Refusal => at'["receiver"] = "refused"
        BY <2>1, <2>3 DEF Refusal
    <3>3. Refusal => at["sender"] # "refuse"
        BY DEF Refusal
    <3> QED  BY <1>2, <1>3, <2>2, <2>4, <3>1, <3>2, <3>3 DEF IInv, Refusing, Offsets
  <2>15. Offsets'
      BY <1>2, <1>3, <2>2, <2>4 DEF IInv, Offsets, Lockstep
  <2>16. Acks' /\ Sizes' /\ Copied'
      BY <1>2, <1>3, <2>2, <2>4 DEF IInv, Acks, Sizes, Copied, Ended
  <2> QED  BY <2>10, <2>11, <2>12, <2>13, <2>14, <2>15, <2>16 DEF IInv
<1>4. CASE /\ ReadsNothing("receiver") /\ Go("receiver", "open")
           /\ size' = [size EXCEPT !["receiver"] = 0]
  <2>1. /\ at' \in [Peers -> Places] /\ at'["sender"] = at["sender"] /\ at'["receiver"] = "open"
        /\ size' \in [Peers -> 0..MaxSize \cup {Unknown}]
        /\ size'["sender"] = size["sender"] /\ size'["receiver"] = 0
      BY <1>1, <1>4, TransferAssumption DEF Go, TransferTypeOK, Peers, Places
  <2>2. /\ wire["receiver"] = <<>> /\ wire["sender"] = <<>>
        /\ at["sender"] \in Ended
        /\ link["receiver"] \in Gone
        /\ UNCHANGED <<wire, link, fds>>
      BY <1>4, ReceiverReadsNothing
  <2>10. Typed'
      BY <1>1, <1>2, <2>1, <2>2 DEF IInv, Typed, TransferTypeOK, ReceiverPlaces, Reading
  <2>11. Linked' /\ SenderFds' /\ ReceiverFds'
      BY <1>2, <2>1, <2>2 DEF IInv, Linked, SenderFds, ReceiverFds, Ended, Gone
  <2>12. OnWire' /\ Exact'
      BY <1>1, <2>1, <2>2 DEF OnWire, Conversation, Exact, Counted
  <2>13. Refusing'
      BY <1>2, <2>1, <2>2 DEF IInv, Refusing, Offsets, Ended
  <2>14. Offsets'
      BY <1>2, <2>1, <2>2 DEF IInv, Offsets, Lockstep
  <2>15. Acks' /\ Sizes' /\ Copied'
      BY <1>2, <2>1, <2>2 DEF IInv, Acks, Sizes, Copied, Ended
  <2> QED  BY <2>10, <2>11, <2>12, <2>13, <2>14, <2>15 DEF IInv
<1>5. CASE /\ at["receiver"] = "size"
           /\ Reads("receiver") /\ Go("receiver", "open")
           /\ size' = [size EXCEPT !["receiver"] = Head(wire["receiver"]).len]
  <2>1. at'["receiver"] = "open" /\ at'["receiver"] \in Places /\ Go("receiver", at'["receiver"])
      BY <1>1, <1>5 DEF Go, TransferTypeOK, Peers, Places
  <2>2. /\ at' \in [Peers -> Places] /\ at'["sender"] = at["sender"]
        /\ wire' \in [Peers -> Seq(Pieces)]
        /\ wire'["sender"] = wire["sender"]
        /\ wire'["receiver"] = Tail(wire["receiver"])
        /\ Len(wire["receiver"]) >= 1
        /\ Len(wire'["receiver"]) = Len(wire["receiver"]) - 1
        /\ wire'["receiver"] = <<>> <=> Len(wire["receiver"]) = 1
        /\ link["sender"] # "none" /\ link["receiver"] # "none"
        /\ UNCHANGED <<link, fds>>
      BY <1>5, <2>1, ReceiverReads
  <2>3. Conversation /\ wire["receiver"] # <<>>
      BY <1>5 DEF IInv, OnWire, Reading, Refusal, Reads
  <2>4. NextPiece = 2 /\ NextPiece' = 3 /\ SentSoFar' = SentSoFar
      BY <1>5, <2>1, <2>2 DEF NextPiece, SentSoFar
  <2>5. Head(wire["receiver"]).len = size["sender"] /\ size["sender"] # Unknown
    <3>1. Head(wire["receiver"]) = Piece(2, size["sender"], ret["sender"]) /\ size["sender"] # Unknown
        BY <1>1, <2>3, <2>4, HeadOfConversation
    <3> QED  BY <3>1 DEF Piece, Payload
  <2>6. /\ size' \in [Peers -> 0..MaxSize \cup {Unknown}]
        /\ size'["sender"] = size["sender"] /\ size'["receiver"] = size["sender"]
      BY <1>1, <1>5, <2>5 DEF TransferTypeOK, Peers
  <2>7. Conversation'
      BY <1>1, <1>2, <2>2, <2>3, <2>4, <2>6, ConversationMoves
  <2>10. Typed'
      BY <1>1, <1>2, <2>1, <2>2, <2>6 DEF IInv, Typed, TransferTypeOK, ReceiverPlaces, Reading
  <2>11. Linked' /\ SenderFds' /\ ReceiverFds'
      BY <1>5, <2>1, <2>2 DEF IInv, Linked, SenderFds, ReceiverFds, Ended, Gone
  <2>12. OnWire'
      BY <2>7 DEF OnWire
  <2>13. Exact'
      BY <1>1, <1>5, <2>2, <2>4 DEF IInv, Exact, Reading, Counted
  <2>14. Refusing'
      BY <1>5, <2>1, <2>2 DEF IInv, Refusing, Ended
  <2>15. Offsets'
      BY <1>2, <1>5, <2>1, <2>2, <2>6 DEF IInv, Offsets, Lockstep
  <2>16. Acks' /\ Sizes' /\ Copied'
      BY <1>2, <1>5, <2>1, <2>2, <2>6 DEF IInv, Acks, Sizes, Copied, Ended
  <2> QED  BY <2>10, <2>11, <2>12, <2>13, <2>14, <2>15, <2>16 DEF IInv
<1> QED  BY <1>3, <1>4, <1>5 DEF GetSize

(* open of the copy.                                                       *)
LEMMA OpenCopyKeeps == ASSUME IInv, OpenCopy PROVE IInv'
<1>1. TransferTypeOK /\ Counted
    BY Counts
<1>2. at["receiver"] = "open" /\ UNCHANGED <<file, size, offset, ret>>
    BY DEF OpenCopy
<1>3. CASE Dies("receiver") /\ UNCHANGED copied
    BY <1>2, <1>3, ReceiverDies DEF counters, Ended
<1>4. CASE /\ Go("receiver", "loop")
           /\ copied' = 0
           /\ fds' = [fds EXCEPT !["receiver"] = @ \cup {"file"}]
           /\ UNCHANGED <<wire, link>>
  <2>1. /\ at' \in [Peers -> Places] /\ at'["sender"] = at["sender"] /\ at'["receiver"] = "loop"
        /\ fds' \in [Peers -> SUBSET {"listen", "conn", "file"}]
        /\ fds'["sender"] = fds["sender"] /\ fds'["receiver"] = fds["receiver"] \cup {"file"}
      BY <1>1, <1>4 DEF Go, TransferTypeOK, Peers, Places
  <2>2. offset["receiver"] = 0 /\ offset["sender"] = 0
      BY <1>1, <1>2 DEF IInv, Offsets, Lockstep, Counted
  <2>3. NextPiece' = NextPiece /\ SentSoFar' = SentSoFar
      BY <1>2, <2>1, <2>2 DEF NextPiece, SentSoFar
  <2>4. Conversation'
    <3>1. Conversation
        BY <1>2 DEF IInv, OnWire, Reading, Refusal
    <3>2. Len(wire["receiver"]) \in 0..Len(wire["receiver"]) /\ SentSoFar <= SentSoFar'
        BY <1>1, <2>3, Counting DEF Counted
    <3> QED  BY <1>1, <1>2, <1>4, <2>3, <3>1, <3>2, ConversationCut
  <2>10. Typed'
      BY <1>1, <1>2, <1>4, <2>1 DEF IInv, Typed, TransferTypeOK, ReceiverPlaces, Reading
  <2>11. Linked' /\ SenderFds' /\ ReceiverFds'
      BY <1>2, <1>4, <2>1 DEF IInv, Linked, SenderFds, ReceiverFds, Ended, Gone
  <2>12. OnWire' /\ Exact'
      BY <1>2, <1>4, <2>1, <2>3, <2>4 DEF IInv, OnWire, Exact, Reading
  <2>13. Refusing'
      BY <1>2, <1>4, <2>1 DEF IInv, Refusing, Ended
  <2>14. Offsets' /\ Acks'
      BY <1>2, <1>4, <2>1 DEF IInv, Offsets, Lockstep, Acks
  <2>15. Sizes' /\ Copied'
      BY <1>2, <1>4, <2>1, <2>2 DEF IInv, Sizes, Copied, Unknown
  <2> QED  BY <2>10, <2>11, <2>12, <2>13, <2>14, <2>15 DEF IInv
<1> QED  BY <1>3, <1>4 DEF OpenCopy

(* The header of a block, or nothing.                                      *)
LEMMA GetHeaderKeeps == ASSUME IInv, GetHeader PROVE IInv'
<1>1. TransferTypeOK /\ Counted
    BY Counts
<1>2. /\ at["receiver"] = "loop" /\ offset["receiver"] # size["receiver"]
      /\ UNCHANGED <<file, size, offset, copied>>
    BY DEF GetHeader
<1>3. CASE /\ Reads("receiver")
           /\ Go("receiver", IF Head(wire["receiver"]).len = 0 THEN "ack" ELSE "block")
           /\ ret' = [ret EXCEPT !["receiver"] = Head(wire["receiver"]).len]
  <2>. Head(wire["receiver"]).len # 0
    <3>1. Conversation /\ wire["receiver"] # <<>>
        BY <1>2, <1>3 DEF IInv, OnWire, Reading, Refusal, Reads
    <3>2. /\ Head(wire["receiver"]) = Piece(NextPiece, size["sender"], ret["sender"])
          /\ NextPiece <= SentSoFar
          /\ NextPiece > 2 => ret["sender"] > 0
        BY <1>1, <3>1, HeadOfConversation
    <3>3. NextPiece = 3
        BY <1>2, <3>2, Counting DEF NextPiece
    <3> QED  BY <1>1, <3>2, <3>3 DEF Piece, Header, TransferTypeOK, Peers
  <2>1. at'["receiver"] = "block" /\ at'["receiver"] \in Places /\ Go("receiver", at'["receiver"])
      BY <1>1, <1>3 DEF Go, TransferTypeOK, Peers, Places
  <2>2. /\ at' \in [Peers -> Places] /\ at'["sender"] = at["sender"]
        /\ wire' \in [Peers -> Seq(Pieces)]
        /\ wire'["sender"] = wire["sender"]
        /\ wire'["receiver"] = Tail(wire["receiver"])
        /\ Len(wire["receiver"]) >= 1
        /\ Len(wire'["receiver"]) = Len(wire["receiver"]) - 1
        /\ wire'["receiver"] = <<>> <=> Len(wire["receiver"]) = 1
        /\ link["sender"] # "none" /\ link["receiver"] # "none"
        /\ UNCHANGED <<link, fds>>
      BY <1>3, <2>1, ReceiverReads
  <2>3. Conversation /\ wire["receiver"] # <<>>
      BY <1>2, <1>3 DEF IInv, OnWire, Reading, Refusal, Reads
  <2>4. /\ Head(wire["receiver"]) = Piece(NextPiece, size["sender"], ret["sender"])
        /\ NextPiece <= SentSoFar
        /\ NextPiece > 1 => size["sender"] # Unknown
        /\ NextPiece > 2 => ret["sender"] > 0
      BY <1>1, <2>3, HeadOfConversation
  <2>5. offset["receiver"] = offset["sender"] /\ NextPiece = 3 /\ NextPiece' = 4
      BY <1>2, <2>1, <2>4, Counting DEF NextPiece
  <2>6. SentSoFar' = SentSoFar /\ SentSoFar >= 3
      BY <2>2, <2>4, <2>5, Counting DEF SentSoFar
  <2>7. /\ ret' \in [Peers -> 0..MSG_LEN]
        /\ ret'["sender"] = ret["sender"] /\ ret'["receiver"] = ret["sender"]
        /\ ret["sender"] > 0 /\ size["sender"] # Unknown
    <3>1. Head(wire["receiver"]).len = ret["sender"]
        BY <2>4, <2>5 DEF Piece, Header
    <3> QED  BY <1>1, <1>3, <2>4, <2>5, <3>1 DEF TransferTypeOK, Peers
  <2>8. Conversation'
      BY <1>1, <1>2, <2>2, <2>3, <2>5, <2>6, <2>7, ConversationMoves
  <2>9. wire["sender"] = <<>>
      BY <1>1, <2>5, <2>7 DEF IInv, Acks, Counted
  <2>10. Typed'
      BY <1>1, <1>2, <2>1, <2>2, <2>7 DEF IInv, Typed, TransferTypeOK, ReceiverPlaces, Reading
  <2>11. Linked' /\ SenderFds' /\ ReceiverFds'
      BY <1>2, <2>1, <2>2 DEF IInv, Linked, SenderFds, ReceiverFds, Ended, Gone
  <2>12. OnWire'
      BY <2>8 DEF OnWire
  <2>13. Exact'
      BY <1>1, <1>2, <2>2, <2>5, <2>6 DEF IInv, Exact, Reading, Counted
  <2>14. Refusing'
      BY <1>2, <2>1, <2>2, <2>3 DEF IInv, Refusing, Ended
  <2>15. Offsets'
    <3>1. at["sender"] # "success"
        BY <2>6 DEF SentSoFar
    <3> QED  BY <1>2, <2>1, <2>2, <2>5, <2>7, <3>1 DEF IInv, Offsets, Lockstep
  <2>16. Acks' /\ Sizes' /\ Copied'
      BY <1>2, <2>1, <2>2, <2>9 DEF IInv, Acks, Sizes, Copied, Ended
  <2> QED  BY <2>10, <2>11, <2>12, <2>13, <2>14, <2>15, <2>16 DEF IInv
<1>4. CASE /\ ReadsNothing("receiver") /\ Go("receiver", "ack")
           /\ ret' = [ret EXCEPT !["receiver"] = 0]
  <2>1. /\ at' \in [Peers -> Places] /\ at'["sender"] = at["sender"] /\ at'["receiver"] = "ack"
        /\ ret' \in [Peers -> 0..MSG_LEN]
        /\ ret'["sender"] = ret["sender"]
      BY <1>1, <1>4, TransferAssumption DEF Go, TransferTypeOK, Peers, Places
  <2>2. /\ wire["receiver"] = <<>> /\ wire["sender"] = <<>>
        /\ at["sender"] \in Ended
        /\ link["receiver"] \in Gone
        /\ UNCHANGED <<wire, link, fds>>
      BY <1>4, ReceiverReadsNothing
  <2>3. at["sender"] # "failed"
      BY <1>2, <2>2 DEF IInv, Refusing, Ended
  <2>10. Typed'
      BY <1>1, <1>2, <2>1, <2>2 DEF IInv, Typed, TransferTypeOK, ReceiverPlaces, Reading
  <2>11. Linked' /\ SenderFds' /\ ReceiverFds'
      BY <1>2, <2>1, <2>2 DEF IInv, Linked, SenderFds, ReceiverFds, Ended, Gone
  <2>12. OnWire' /\ Exact'
      BY <1>1, <2>1, <2>2 DEF OnWire, Conversation, Exact, Counted
  <2>13. Refusing'
      BY <2>1, <2>2, <2>3 DEF Refusing, Ended
  <2>14. Offsets'
      BY <1>2, <2>1, <2>2 DEF IInv, Offsets, Lockstep, Gone
  <2>15. Acks' /\ Sizes' /\ Copied'
      BY <1>2, <2>1, <2>2 DEF IInv, Acks, Sizes, Copied, Ended
  <2> QED  BY <2>10, <2>11, <2>12, <2>13, <2>14, <2>15 DEF IInv
<1> QED  BY <1>3, <1>4 DEF GetHeader

(* Whatever becomes of the payload, the offset moves by the block.         *)
LEMMA WriteBlockKeeps == ASSUME IInv, WriteBlock PROVE IInv'
<1>1. TransferTypeOK /\ Counted
    BY Counts
<1>2. /\ at["receiver"] = "block"
      /\ offset' = [offset EXCEPT !["receiver"] = @ + ret["receiver"]]
      /\ Go("receiver", "ack")
      /\ UNCHANGED <<file, size, ret>>
    BY DEF WriteBlock
<1>3. /\ offset["receiver"] = offset["sender"] /\ ret["receiver"] = ret["sender"]
      /\ ret["sender"] > 0 /\ copied # Unknown
      /\ wire["sender"] = <<>>
      /\ link["sender"] # "none" /\ link["receiver"] # "none"
      /\ at["sender"] \notin {"refuse", "close", "failed", "success"}
    BY <1>2 DEF IInv, Offsets, Copied, Acks, Linked, Refusing, Ended
<1>4. /\ at' \in [Peers -> Places] /\ at'["sender"] = at["sender"] /\ at'["receiver"] = "ack"
      /\ offset' \in [Peers -> Nat]
      /\ offset'["sender"] = offset["sender"]
      /\ offset'["receiver"] = offset["sender"] + ret["sender"]
  <2>1. offset["sender"] + ret["sender"] \in Nat
      BY <1>1, TransferAssumption DEF Counted
  <2> QED  BY <1>1, <1>2, <1>3, <2>1 DEF Go, TransferTypeOK, Peers, Places
<1>5. copied \in Nat
    BY <1>1, <1>3 DEF TransferTypeOK
<1>6. CASE Reads("receiver") /\ copied' = copied + ret["receiver"]
  <2>1. at'["receiver"] \in Places /\ Go("receiver", at'["receiver"])
      BY <1>2, <1>4 DEF Places
  <2>2. /\ wire' \in [Peers -> Seq(Pieces)]
        /\ wire'["sender"] = wire["sender"]
        /\ wire'["receiver"] = Tail(wire["receiver"])
        /\ Len(wire["receiver"]) >= 1
        /\ Len(wire'["receiver"]) = Len(wire["receiver"]) - 1
        /\ wire'["receiver"] = <<>> <=> Len(wire["receiver"]) = 1
        /\ UNCHANGED <<link, fds>>
      BY <1>6, <2>1, ReceiverReads
  <2>3. Conversation /\ wire["receiver"] # <<>>
      BY <1>2, <1>6 DEF IInv, OnWire, Reading, Refusal, Reads
  <2>4. NextPiece = 4 /\ NextPiece' = 5 /\ SentSoFar' = SentSoFar
      BY <1>2, <1>4 DEF NextPiece, SentSoFar
  <2>5. at["sender"] \in {"wait", "dead"}
    <3>1. SentSoFar >= 4
        BY <1>1, <2>3, <2>4, HeadOfConversation, Counting
    <3> QED  BY <1>3, <3>1 DEF SentSoFar, IInv, Typed, SenderPlaces, Ended
  <2>6. copied' \in Nat /\ (at["sender"] # "dead" => copied' = offset'["receiver"])
      BY <1>1, <1>3, <1>4, <1>5, <1>6, TransferAssumption DEF IInv, Copied, Counted
  <2>7. Conversation'
      BY <1>1, <1>2, <2>2, <2>3, <2>4, ConversationMoves
  <2>10. Typed'
      BY <1>1, <1>2, <1>4, <2>2, <2>6 DEF IInv, Typed, TransferTypeOK, ReceiverPlaces, Reading
  <2>11. Linked' /\ SenderFds' /\ ReceiverFds'
      BY <1>2, <1>3, <1>4, <2>2 DEF IInv, Linked, SenderFds, ReceiverFds, Ended, Gone
  <2>12. OnWire'
      BY <2>7 DEF OnWire
  <2>13. Exact'
      BY <1>1, <1>2, <1>3, <1>4, <2>2, <2>4 DEF IInv, Exact, Reading, Counted
  <2>14. Refusing'
      BY <1>3, <1>4 DEF Refusing
  <2>15. Offsets'
      BY <1>1, <1>2, <1>3, <1>4, <2>5, TransferAssumption DEF IInv, Offsets, Lockstep, Counted
  <2>16. Acks' /\ Sizes'
      BY <1>2, <1>3, <1>4, <2>2 DEF IInv, Acks, Sizes, Ended
  <2>17. Copied'
      BY <1>4, <2>6 DEF Copied, Unknown
  <2> QED  BY <2>10, <2>11, <2>12, <2>13, <2>14, <2>15, <2>16, <2>17 DEF IInv
<1>7. CASE ReadsNothing("receiver") /\ UNCHANGED copied
  <2>1. /\ wire["receiver"] = <<>> /\ wire["sender"] = <<>>
        /\ at["sender"] = "dead"
        /\ link["receiver"] \in Gone
        /\ UNCHANGED <<wire, link, fds>>
      BY <1>3, <1>7, ReceiverReadsNothing DEF Ended
  <2>10. Typed'
      BY <1>1, <1>2, <1>4, <1>7, <2>1 DEF IInv, Typed, TransferTypeOK, ReceiverPlaces, Reading
  <2>11. Linked' /\ SenderFds' /\ ReceiverFds'
      BY <1>2, <1>4, <2>1 DEF IInv, Linked, SenderFds, ReceiverFds, Ended, Gone
  <2>12. OnWire' /\ Exact' /\ Refusing'
      BY <1>1, <1>4, <2>1 DEF OnWire, Conversation, Exact, Refusing, Counted, Ended
  <2>13. Offsets'
      BY <1>1, <1>2, <1>4, <2>1, TransferAssumption DEF IInv, Offsets, Lockstep, Counted, Gone
  <2>14. Acks' /\ Sizes' /\ Copied'
      BY <1>2, <1>3, <1>4, <1>7, <2>1 DEF IInv, Acks, Sizes, Copied, Ended
  <2> QED  BY <2>10, <2>11, <2>12, <2>13, <2>14 DEF IInv
<1> QED  BY <1>6, <1>7 DEF WriteBlock

(* A failing recv or write.                                                *)
LEMMA ReceiverFailsKeeps == ASSUME IInv, ReceiverFails PROVE IInv'
<1>1. at["receiver"] \notin Ended /\ UNCHANGED <<file, counters>> /\ Dies("receiver")
    BY DEF ReceiverFails, ReadFails, Ended
<1> QED  BY <1>1, ReceiverDies

(* The acknowledgement of the receiver.                                    *)
LEMMA SendAckKeeps == ASSUME IInv, SendAck PROVE IInv'
<1>1. TransferTypeOK /\ Counted
    BY Counts
<1>2. at["receiver"] = "ack" /\ UNCHANGED <<file, size, offset, ret, copied>>
    BY DEF SendAck, counters
<1>3. CASE Dies("receiver")
    BY <1>2, <1>3, ReceiverDies DEF counters, Ended
<1>4. CASE ~Dies("receiver")
  <2>1. Header("FILE_ACK", 0) \in Pieces /\ "loop" \in Places
      BY DEF Header, Pieces, Places
  <2>2. /\ at' \in [Peers -> Places] /\ at'["receiver"] = "loop" /\ at'["sender"] = at["sender"]
        /\ fds' = fds
        /\ wire' \in [Peers -> Seq(Pieces)] /\ wire'["receiver"] = wire["receiver"]
        /\ link' \in [Peers -> Links] /\ link'["sender"] = link["sender"]
        /\ \/ /\ link["receiver"] = "open" /\ link' = link
              /\ wire'["sender"] = Append(wire["sender"], Header("FILE_ACK", 0))
           \/ /\ link["receiver"] \in {"fin", "poked"} /\ link'["receiver"] = "poked"
              /\ wire' = wire
      BY <1>1, <1>4, <2>1, SendCases DEF SendAck, Peers, Other
  <2>3. /\ wire["sender"] = <<>> /\ wire["receiver"] = <<>>
        /\ at["sender"] \notin {"refuse", "close", "failed"}
        /\ link["sender"] # "none" /\ link["receiver"] # "none"
    <3>1. Conversation /\ NextPiece = 5
        BY <1>2 DEF IInv, OnWire, Refusal, Reading, NextPiece
    <3>2. wire["receiver"] = <<>>
        BY <1>1, <3>1, HeadOfConversation, Counting
    <3> QED  BY <1>2, <3>2 DEF IInv, Acks, Refusing, Linked, Ended
  <2>4. CASE link["receiver"] = "open"
    <3>1. at["sender"] = "wait"
      <4>1. at["sender"] \notin Ended
          BY <2>4 DEF IInv, Linked
      <4>2. NextPiece + Len(wire["receiver"]) = SentSoFar + 1 /\ NextPiece = 5
          BY <1>2, <2>3, <4>1 DEF IInv, Exact, Reading, NextPiece
      <4>3. SentSoFar = 4
          BY <1>1, <2>3, <4>2, Counting DEF Counted
      <4> QED  BY <2>3, <4>1, <4>3 DEF SentSoFar, IInv, Typed, SenderPlaces
    <3>2. offset["receiver"] = offset["sender"] + ret["sender"] /\ ret["sender"] > 0
        BY <1>2, <2>4, <3>1 DEF IInv, Offsets
    <3>3. offset["receiver"] # offset["sender"]
        BY <1>1, <3>2, TransferAssumption DEF Counted
    <3>4. Len(wire'["sender"]) = 1
      <4>1. wire'["sender"] = Append(wire["sender"], Header("FILE_ACK", 0))
          BY <2>2, <2>4
      <4>2. Len(wire["sender"]) = 0
          BY <1>1, <2>3 DEF Counted
      <4> QED  BY <1>1, <2>1, <4>1, <4>2, AppendItems DEF Counted
    <3>10. Typed'
        BY <1>1, <1>2, <2>2 DEF IInv, Typed, TransferTypeOK, ReceiverPlaces, Reading
    <3>11. Linked' /\ SenderFds' /\ ReceiverFds'
        BY <1>2, <2>2, <2>3, <2>4, <3>1 DEF IInv, Linked, SenderFds, ReceiverFds, Ended, Gone
    <3>12. OnWire' /\ Exact'
      <4>1. NextPiece' = 5 /\ SentSoFar' = 4
          BY <1>2, <2>2, <3>1, <3>3 DEF NextPiece, SentSoFar
      <4> QED  BY <1>1, <2>2, <2>3, <4>1 DEF OnWire, Conversation, Exact, Counted
    <3>13. Refusing' /\ Acks'
        BY <1>2, <2>2, <3>1, <3>2, <3>4 DEF Refusing, Acks
    <3>14. Offsets'
        BY <1>2, <2>2, <3>1 DEF IInv, Offsets, Lockstep
    <3>15. Sizes' /\ Copied'
        BY <1>2, <2>2 DEF IInv, Sizes, Copied, Ended
    <3> QED  BY <3>10, <3>11, <3>12, <3>13, <3>14, <3>15 DEF IInv
  <2>5. CASE link["receiver"] \in {"fin", "poked"}
    <3>1. at["sender"] \in Ended /\ wire' = wire
        BY <2>2, <2>5 DEF IInv, Linked, Gone
    <3>10. Typed'
        BY <1>1, <1>2, <2>2 DEF IInv, Typed, TransferTypeOK, ReceiverPlaces, Reading
    <3>11. Linked' /\ SenderFds' /\ ReceiverFds'
        BY <1>2, <2>2, <2>3, <2>5, <3>1 DEF IInv, Linked, SenderFds, ReceiverFds, Ended, Gone
    <3>12. OnWire' /\ Exact' /\ Refusing'
        BY <1>1, <2>2, <2>3, <3>1 DEF OnWire, Conversation, Exact, Refusing, Counted, Ended
    <3>13. Offsets' /\ Acks'
        BY <1>2, <2>2, <2>3, <3>1 DEF IInv, Offsets, Lockstep, Acks
    <3>14. Sizes' /\ Copied'
        BY <1>2, <2>2 DEF IInv, Sizes, Copied, Ended
    <3> QED  BY <3>10, <3>11, <3>12, <3>13, <3>14 DEF IInv
  <2> QED  BY <2>2, <2>4, <2>5
<1> QED  BY <1>3, <1>4

(* The end of the receiver's loop.                                         *)
LEMMA FileReceivedKeeps == ASSUME IInv, FileReceived PROVE IInv'
<1>1. TransferTypeOK /\ Counted
    BY Counts
<1>2. /\ at["receiver"] = "loop" /\ offset["receiver"] = size["receiver"]
      /\ UNCHANGED <<file, size, offset, ret, copied, wire, link>>
    BY DEF FileReceived, counters
<1>3. /\ at' \in [Peers -> Places] /\ at'["sender"] = at["sender"] /\ at'["receiver"] = "received"
      /\ fds' \in [Peers -> SUBSET {"listen", "conn", "file"}]
      /\ fds'["sender"] = fds["sender"] /\ fds'["receiver"] = fds["receiver"] \ {"file"}
    BY <1>1 DEF FileReceived, Go, TransferTypeOK, Peers, Places
<1>4. at["sender"] \in {"loop", "block", "wait", "success", "failed", "dead"}
  <2>1. CASE at["sender"] \in {"called", "connected", "head", "size"}
    <3>1. NextPiece >= 3 /\ SentSoFar <= 1
        BY <1>2, <2>1 DEF NextPiece, SentSoFar
    <3>2. NextPiece + Len(wire["receiver"]) = SentSoFar + 1
        BY <1>2, <2>1 DEF IInv, Exact, Linked, Reading, Ended
    <3> QED  BY <1>1, <3>1, <3>2, Counting DEF Counted
  <2>2. CASE at["sender"] \in {"refuse", "close"}
      BY <1>2, <2>2 DEF IInv, Refusing, Ended
  <2> QED  BY <2>1, <2>2 DEF IInv, Typed, SenderPlaces, Ended
<1>10. Typed'
    BY <1>1, <1>2, <1>3 DEF IInv, Typed, TransferTypeOK, ReceiverPlaces
<1>11. Linked' /\ SenderFds' /\ ReceiverFds'
    BY <1>2, <1>3 DEF IInv, Linked, SenderFds, ReceiverFds, Ended, Gone
<1>12. OnWire' /\ Exact'
    BY <1>3 DEF OnWire, Exact, Reading
<1>13. Refusing'
    BY <1>2, <1>3, <1>4 DEF IInv, Refusing, Ended
<1>14. Offsets' /\ Acks'
    BY <1>2, <1>3 DEF IInv, Offsets, Lockstep, Acks
<1>15. Sizes' /\ Copied'
    BY <1>2, <1>3 DEF IInv, Sizes, Copied
<1> QED  BY <1>10, <1>11, <1>12, <1>13, <1>14, <1>15 DEF IInv

(* The end of the receiver.                                                *)
LEMMA CloseReceiverKeeps == ASSUME IInv, CloseReceiver PROVE IInv'
<1>1. \E how \in {"failed", "success"} :
         /\ Go("receiver", how)
         /\ how = "success" => at["receiver"] = "received"
         /\ how = "failed" => at["receiver"] = "refused"
         /\ at["receiver"] \in {"refused", "received"}
    BY DEF CloseReceiver
<1>2. /\ fds' = [fds EXCEPT !["receiver"] = @ \ {"conn"}]
      /\ Closes("receiver") /\ UNCHANGED <<file, counters>>
    BY DEF CloseReceiver
<1>3. fds["receiver"] \ {"conn"} = {"listen"}
    BY <1>1 DEF IInv, ReceiverFds, Ended
<1>4. fds' = [fds EXCEPT !["receiver"] = {"listen"}]
    BY <1>2, <1>3 DEF IInv, Typed, TransferTypeOK, Peers
<1> QED  BY <1>1, <1>2, <1>4, ReceiverEnds DEF Ended

(* A reset that arrives tells nothing new.                                 *)
LEMMA ResetKeeps == ASSUME IInv, NEW p \in Peers, ResetArrives(p) PROVE IInv'
<1>1. TransferTypeOK /\ Counted
    BY Counts
<1>2. UNCHANGED <<at, file, size, offset, ret, copied, wire, fds>>
    BY DEF ResetArrives, counters
<1>3. /\ link' \in [Peers -> Links] /\ link[p] = "poked" /\ link'[p] = "rst"
      /\ \A q \in Peers : q # p => link'[q] = link[q]
    BY <1>1 DEF ResetArrives, TransferTypeOK, Links
<1>4. \A q \in Peers : /\ link'[q] = "none" <=> link[q] = "none"
                       /\ link'[q] = "open" <=> link[q] = "open"
                       /\ link'[q] \in Gone <=> link[q] \in Gone
    BY <1>3 DEF Gone
<1>5. "sender" \in Peers /\ "receiver" \in Peers
    BY DEF Peers
<1>10. Typed'
    BY <1>1, <1>2, <1>3 DEF IInv, Typed, TransferTypeOK
<1>11. Linked' /\ SenderFds' /\ ReceiverFds'
    BY <1>2, <1>4, <1>5 DEF IInv, Linked, SenderFds, ReceiverFds
<1>12. OnWire'
    BY <1>2 DEF IInv, OnWire, Refusal, Conversation, NextPiece, SentSoFar
<1>13. Exact'
    BY <1>2, <1>4, <1>5 DEF IInv, Exact, NextPiece, SentSoFar
<1>14. Refusing' /\ Offsets'
    BY <1>2, <1>4, <1>5 DEF IInv, Refusing, Refusal, Offsets, Lockstep
<1>15. Acks' /\ Sizes' /\ Copied'
    BY <1>2 DEF IInv, Acks, Sizes, Copied
<1> QED  BY <1>10, <1>11, <1>12, <1>13, <1>14, <1>15 DEF IInv

(* A process is killed.                                                    *)
LEMMA KillKeeps == ASSUME IInv, NEW p \in Peers, Kill(p) PROVE IInv'
<1>1. at[p] \notin Ended /\ Dies(p) /\ UNCHANGED <<file, counters>>
    BY DEF Kill
<1>2. file \in 0..MaxSize
    BY DEF IInv, Typed, TransferTypeOK
<1>3. CASE p = "sender"
    BY <1>1, <1>2, <1>3, SenderDies DEF counters
<1>4. CASE p = "receiver"
    BY <1>1, <1>4, ReceiverDies
<1> QED  BY <1>3, <1>4 DEF Peers

(* The invariant does not look at the file, beyond its type.               *)
LEMMA FileKeeps ==
    ASSUME IInv, file' \in 0..MaxSize, UNCHANGED <<at, counters, wire, link, fds>>
    PROVE  IInv'
<1>1. UNCHANGED <<at, size, offset, ret, copied, wire, link, fds>>
    BY DEF counters
<1>2. Typed'
    BY <1>1 DEF IInv, Typed, TransferTypeOK
<1>3. Linked' /\ SenderFds' /\ ReceiverFds'
    BY <1>1 DEF IInv, Linked, SenderFds, ReceiverFds
<1>4. OnWire' /\ Exact'
    BY <1>1 DEF IInv, OnWire, Refusal, Conversation, Exact, NextPiece, SentSoFar
<1>5. Refusing' /\ Offsets'
    BY <1>1 DEF IInv, Refusing, Refusal, Offsets, Lockstep
<1>6. Acks' /\ Sizes' /\ Copied'
    BY <1>1 DEF IInv, Acks, Sizes, Copied
<1> QED  BY <1>2, <1>3, <1>4, <1>5, <1>6 DEF IInv

(* Every step keeps the invariant.                                         *)
LEMMA StepKeeps == IInv /\ [Next]_vars => IInv'
<1> SUFFICES ASSUME IInv, [Next]_vars PROVE IInv'
    OBVIOUS
<1>1. CASE Sender
    BY <1>1, ConnectKeeps, OpenFileKeeps, AnnounceKeeps, SendBlockKeeps, GetAckKeeps,
       RefuseKeeps, CloseSenderKeeps DEF Sender
<1>2. CASE Receiver
    BY <1>2, AcceptKeeps, GetSizeKeeps, OpenCopyKeeps, GetHeaderKeeps, WriteBlockKeeps,
       ReceiverFailsKeeps, SendAckKeeps, FileReceivedKeeps, CloseReceiverKeeps DEF Receiver
<1>3. CASE World
    BY <1>3, ResetKeeps, KillKeeps, FileKeeps DEF World, Network, Resize
<1>4. CASE UNCHANGED vars
  <2>1. file \in 0..MaxSize
      BY DEF IInv, Typed, TransferTypeOK
  <2> QED  BY <1>4, <2>1, FileKeeps DEF vars, counters
<1> QED  BY <1>1, <1>2, <1>3, <1>4 DEF Next

-----------------------------------------------------------------------------
(* The theorems.                                                           *)

(* The strengthening the theorems below rest on, for every execution of    *)
(* the two processes of peer.c.                                            *)
THEOREM TransferInvariant == Spec => []IInv
BY InitHolds, StepKeeps, PTL DEF Spec

(* Every variable of a transfer keeps its type, and no counter goes below  *)
(* zero or a block above MSG_LEN.                                          *)
THEOREM TransferTypes == Spec => []TransferTypeOK
<1>1. IInv => TransferTypeOK
    BY DEF IInv, Typed
<1> QED  BY <1>1, TransferInvariant, PTL

(* peer_send_file and peer_receive_file never part by more than the block  *)
(* in flight.                                                              *)
THEOREM TransferLockstep == Spec => []Lockstep
<1>1. IInv => Lockstep
    BY DEF IInv, Offsets
<1> QED  BY <1>1, TransferInvariant, PTL

(* A sender that reports success for a file that is not empty has had      *)
(* every announced byte stored, for every length of file and block and     *)
(* whoever is killed.                                                      *)
THEOREM TransferConfirms == Spec => []ConfirmedIsCopied
<1>1. IInv => ConfirmedIsCopied
  <2> SUFFICES ASSUME IInv, at["sender"] = "success", size["sender"] > 0
               PROVE  copied = size["sender"]
      BY DEF ConfirmedIsCopied
  <2>1. TransferTypeOK /\ Counted
      BY Counts
  <2>2. offset["sender"] = size["sender"] /\ offset["receiver"] = offset["sender"]
      BY DEF IInv, Offsets
  <2>3. copied # Unknown
      BY <2>1, <2>2 DEF IInv, Copied, Counted
  <2> QED  BY <2>2, <2>3 DEF IInv, Copied
<1> QED  BY <1>1, TransferInvariant, PTL

(* A receiver that was told a length and reports success has that length   *)
(* of the file, unless the sender was killed.                              *)
THEOREM TransferReceived == Spec => []ReceivedAnnounced
<1>1. IInv => ReceivedAnnounced
  <2> SUFFICES ASSUME IInv, at["receiver"] = "success", size["receiver"] > 0, at["sender"] # "dead"
               PROVE  copied = size["sender"] /\ size["receiver"] = size["sender"]
      BY DEF ReceivedAnnounced
  <2>1. size["receiver"] = size["sender"]
      BY DEF IInv, Sizes, Unknown
  <2>2. offset["receiver"] = size["receiver"] /\ copied # Unknown
      BY DEF IInv, Sizes, Copied
  <2> QED  BY <2>1, <2>2 DEF IInv, Copied
<1> QED  BY <1>1, TransferInvariant, PTL

(* A client that lives on has closed the connection, and its file if all  *)
(* went well.                                                              *)
THEOREM TransferConnections == Spec => []ConnectionClosed
<1>1. IInv => ConnectionClosed
  <2> SUFFICES ASSUME IInv PROVE ConnectionClosed
      OBVIOUS
  <2>1. /\ at["sender"] = "success" => fds["sender"] = {}
        /\ at["sender"] = "failed" => "conn" \notin fds["sender"]
      BY DEF IInv, SenderFds
  <2>2. at["receiver"] \in {"success", "failed"} => fds["receiver"] = {"listen"}
      BY DEF IInv, ReceiverFds, Ended
  <2> QED  BY <2>1, <2>2 DEF ConnectionClosed, Peers
<1> QED  BY <1>1, TransferInvariant, PTL

-----------------------------------------------------------------------------
(* The refinement of FileDelivery.                                         *)

(* What a step must leave alone to be a stutter of FileDelivery.           *)
Still ==
    /\ size'["sender"] = size["sender"]
    /\ copied' = copied
    /\ at'["sender"] = "success" <=> at["sender"] = "success"

(* Such a step is one.                                                     *)
LEMMA StillStutters == Still => UNCHANGED Delivery!vars
BY DEF Still, Delivery!vars

(* Moving one process does not touch the success of the sender.            *)
LEMMA Going ==
    ASSUME TransferTypeOK, NEW p \in Peers, NEW next, Go(p, next),
           p = "sender" => at["sender"] # "success" /\ next # "success"
    PROVE  at'["sender"] = "success" <=> at["sender"] = "success"
BY DEF Go, TransferTypeOK, Peers

(* A send moves its process on, or ends it.                                *)
LEMMA Sending ==
    ASSUME NEW p, NEW piece, NEW next, Sends(p, piece, next)
    PROVE  Go(p, next) \/ Go(p, "dead")
BY DEF Sends, Dies

(* The sender's steps: opening the file announces, ending well confirms,   *)
(* all others stutter.                                                     *)
LEMMA SenderDelivers ==
    ASSUME IInv, Sender
    PROVE  Delivery!Next \/ UNCHANGED Delivery!vars
<1>1. TransferTypeOK /\ Counted /\ "sender" \in Peers
    BY Counts DEF Peers
<1>2. ASSUME NEW next, Go("sender", next), next # "success", at["sender"] # "success",
             size'["sender"] = size["sender"], copied' = copied
      PROVE  UNCHANGED Delivery!vars
    BY <1>1, <1>2, Going, StillStutters DEF Still
<1>3. CASE Connect
    BY <1>2, <1>3 DEF Connect, Dies, counters
<1>4. CASE OpenFile
  <2>1. CASE Go("sender", "head") /\ size' = [size EXCEPT !["sender"] = file]
    <3>1. size["sender"] = Unknown /\ size'["sender"] = file /\ file \in Nat
        BY <1>1, <1>4, <2>1, TransferAssumption DEF OpenFile, IInv, Sizes, TransferTypeOK
    <3>2. copied' = copied /\ (at'["sender"] = "success" <=> at["sender"] = "success")
        BY <1>1, <1>4, <2>1, Going DEF OpenFile
    <3> QED  BY <3>1, <3>2 DEF Delivery!Next, Delivery!Announce
  <2>2. CASE (Go("sender", "refuse") \/ Go("sender", "dead")) /\ UNCHANGED size
      BY <1>2, <1>4, <2>2 DEF OpenFile
  <2> QED  BY <1>4, <2>1, <2>2 DEF OpenFile, Dies
<1>5. CASE Announce
    BY <1>2, <1>5, Sending DEF Announce, counters
<1>6. CASE SendBlock
    BY <1>2, <1>6, Sending DEF SendBlock, Dies
<1>7. CASE GetAck
    BY <1>2, <1>7 DEF GetAck, ReadFails, Dies
<1>8. CASE Refuse
    BY <1>2, <1>8, Sending DEF Refuse, counters
<1>9. CASE CloseSender
  <2>1. CASE at["sender"] = "close" /\ Go("sender", "failed")
      BY <1>2, <1>9, <2>1 DEF CloseSender, counters
  <2>2. CASE /\ at["sender"] = "loop" /\ offset["sender"] = size["sender"]
             /\ Go("sender", "success")
    <3>1. at'["sender"] = "success" /\ UNCHANGED <<size, copied>>
        BY <1>1, <1>9, <2>2 DEF CloseSender, counters, Go, TransferTypeOK
    <3>2. (IF copied = Unknown THEN 0 ELSE copied) = size["sender"]
        BY <2>2 DEF IInv, Offsets, Copied
    <3> QED  BY <2>2, <3>1, <3>2 DEF Delivery!Next, Delivery!Confirm
  <2> QED  BY <1>9, <2>1, <2>2 DEF CloseSender
<1> QED  BY <1>3, <1>4, <1>5, <1>6, <1>7, <1>8, <1>9 DEF Sender

(* The receiver's steps: a block written copies, all others stutter.       *)
LEMMA ReceiverDelivers ==
    ASSUME IInv, Receiver
    PROVE  Delivery!Next \/ UNCHANGED Delivery!vars
<1>1. TransferTypeOK /\ Counted /\ "receiver" \in Peers
    BY Counts DEF Peers
<1>2. ASSUME NEW next, Go("receiver", next),
             size'["sender"] = size["sender"], copied' = copied
      PROVE  UNCHANGED Delivery!vars
    BY <1>1, <1>2, Going, StillStutters DEF Still
<1>3. CASE Accept
    BY <1>2, <1>3 DEF Accept, counters
<1>4. CASE GetSize
    BY <1>1, <1>2, <1>4 DEF GetSize, TransferTypeOK, Peers
<1>5. CASE OpenCopy
  <2>1. CASE Go("receiver", "loop") /\ copied' = 0
    <3>1. copied = Unknown /\ size' = size
        BY <1>5 DEF OpenCopy, IInv, Copied
    <3>2. at'["sender"] = "success" <=> at["sender"] = "success"
        BY <1>1, <2>1, Going
    <3> QED  BY <2>1, <3>1, <3>2 DEF Delivery!vars, Unknown
  <2>2. CASE Go("receiver", "dead") /\ UNCHANGED copied
      BY <1>2, <1>5, <2>2 DEF OpenCopy
  <2> QED  BY <1>5, <2>1, <2>2 DEF OpenCopy, Dies
<1>6. CASE GetHeader
    BY <1>2, <1>6 DEF GetHeader
<1>7. CASE WriteBlock
  <2>1. CASE copied' = copied + ret["receiver"]
    <3>1. /\ ret["receiver"] \in 1..MSG_LEN /\ copied \in Nat
          /\ size["sender"] # Unknown /\ at["sender"] # "success"
      <4>1. ret["receiver"] = ret["sender"] /\ ret["sender"] > 0
          BY <1>7 DEF WriteBlock, IInv, Offsets
      <4>2. ret["receiver"] \in 1..MSG_LEN
          BY <1>1, <4>1, TransferAssumption DEF Counted
      <4> QED  BY <1>1, <1>7, <4>2 DEF WriteBlock, IInv, Offsets, Copied, TransferTypeOK
    <3>2. /\ size' = size
          /\ at'["sender"] = "success" <=> at["sender"] = "success"
        BY <1>1, <1>7, Going DEF WriteBlock
    <3>3. copied' \in Nat /\ copied' - copied = ret["receiver"]
        BY <2>1, <3>1, TransferAssumption
    <3>4. copied # Unknown /\ copied' # Unknown
        BY <3>1, <3>3 DEF Unknown
    <3> QED  BY <3>1, <3>2, <3>3, <3>4 DEF Delivery!Next, Delivery!Copy
  <2>2. CASE copied' = copied
      BY <1>2, <1>7, <2>2 DEF WriteBlock
  <2> QED  BY <1>7, <2>1, <2>2 DEF WriteBlock
<1>8. CASE ReceiverFails
    BY <1>2, <1>8 DEF ReceiverFails, ReadFails, Dies, counters
<1>9. CASE SendAck
    BY <1>2, <1>9, Sending DEF SendAck, counters
<1>10. CASE FileReceived
    BY <1>2, <1>10 DEF FileReceived, counters
<1>11. CASE CloseReceiver
    BY <1>2, <1>11 DEF CloseReceiver, counters
<1> QED  BY <1>3, <1>4, <1>5, <1>6, <1>7, <1>8, <1>9, <1>10, <1>11 DEF Receiver

(* The two processes of peer.c implement the promise of FileDelivery to    *)
(* the sender, through every kill and change of length, for every length   *)
(* of block.                                                               *)
THEOREM TransferImplements == Spec => ImplementsDelivery
<1>1. Init => Delivery!Init
    BY DEF Init, Delivery!Init, Peers
<1>2. IInv /\ [Next]_vars => [Delivery!Next]_Delivery!vars
  <2> SUFFICES ASSUME IInv, [Next]_vars PROVE Delivery!Next \/ UNCHANGED Delivery!vars
      OBVIOUS
  <2>1. CASE Sender
      BY <2>1, SenderDelivers
  <2>2. CASE Receiver
      BY <2>2, ReceiverDelivers
  <2>3. CASE World
    <3>1. UNCHANGED <<at, counters>> => UNCHANGED Delivery!vars
        BY StillStutters DEF counters, Still
    <3>2. ASSUME NEW p \in Peers, Kill(p) PROVE UNCHANGED Delivery!vars
      <4>1. at[p] # "success" /\ Go(p, "dead") /\ UNCHANGED <<size, copied>> /\ TransferTypeOK
          BY <3>2, Counts DEF Kill, Dies, counters, Ended
      <4> QED  BY <3>2, <4>1, Going, StillStutters DEF Still
    <3> QED  BY <2>3, <3>1, <3>2 DEF World, Network, ResetArrives, Resize
  <2>4. CASE UNCHANGED vars
      BY <2>4, StillStutters DEF vars, counters, Still
  <2> QED  BY <2>1, <2>2, <2>3, <2>4 DEF Next
<1> QED  BY <1>1, <1>2, TransferInvariant, PTL DEF Spec, ImplementsDelivery, Delivery!Spec
====
