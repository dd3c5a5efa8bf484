---------------------------- MODULE ListsProofs ----------------------------
(***************************************************************************)
(* Theorems about Lists, for any finite sets of addresses and any lengths   *)
(* of names and of the array a list is printed in: the links join the nodes *)
(* they should and no others, and the handlers do to the sets of nodes what *)
(* Tables promises.                                                         *)
(***************************************************************************)
EXTENDS Lists, FiniteSetTheorems, SequenceTheorems, TLAPS

(* Less than, as a set of pairs.                                             *)
Below == {p \in Nat \X Nat : p[1] < p[2]}

(* It is well founded on the natural numbers.                                *)
LEMMA BelowWellFounded == IsWellFoundedOn(Below, Nat)
<1>1. OpToRel(<, Nat) = Below
    BY DEF OpToRel, Below
<1> QED  BY <1>1, NatLessThanWellFounded

(* Induction over the natural numbers, for a set and not a predicate: a set  *)
(* with 0 and the next of each of its numbers has them all.                  *)
LEMMA SetInduction ==
    ASSUME NEW T \in SUBSET Nat, 0 \in T, \A n \in T : n + 1 \in T
    PROVE  T = Nat
<1> SUFFICES ASSUME Nat \ T # {} PROVE FALSE
    OBVIOUS
<1>1. \E x \in Nat \ T : \A y \in Nat \ T : <<y, x>> \notin Below
    BY BelowWellFounded, WFMin
<1>2. PICK x \in Nat \ T : \A y \in Nat \ T : ~ (y < x)
    BY <1>1 DEF Below
<1> QED  BY <1>2

-----------------------------------------------------------------------------
(* A list: the nodes of s in order, from head along the links.               *)

Distinct(s) == \A i, j \in 1..Len(s) : s[i] = s[j] => i = j

Linked(head, next, s) ==
    /\ head = IF s = <<>> THEN NULL ELSE s[1]
    /\ \A k \in 1..(Len(s) - 1) : next[s[k]] = s[k + 1]
    /\ s # <<>> => next[s[Len(s)]] = NULL

List(head, next, s, N) == s \in Seq(N) /\ Distinct(s) /\ Linked(head, next, s)

(* A list has no more nodes than there are addresses.                        *)
LEMMA ListShort ==
    ASSUME NEW N, IsFiniteSet(N), NEW s \in Seq(N), Distinct(s)
    PROVE  Len(s) \in Nat /\ Cardinality(N) \in Nat /\ Len(s) <= Cardinality(N)
<1>1. Len(s) \in Nat /\ s \in [1..Len(s) -> N]
    OBVIOUS
<1>2. s \in Injection(1..Len(s), N)
    BY <1>1 DEF Distinct, Injection, IsInjective
<1>3. Cardinality(1..Len(s)) <= Cardinality(N)
    BY <1>2, FS_Injection
<1>4. Cardinality(1..Len(s)) = Len(s)
    BY <1>1, FS_Interval
<1> QED  BY <1>1, <1>3, <1>4, FS_CardinalityType

(* What the loops over a list have come to after k links.                    *)
Walked(s, k) == IF k < Len(s) THEN SubSeq(s, 1, k + 1) ELSE s

Walks(g, head, next, n) ==
    /\ g[0] = IF head = NULL THEN <<>> ELSE <<head>>
    /\ \A k \in 1..n :
          g[k] = IF g[k - 1] = <<>> \/ Len(g[k - 1]) # k \/ next[Last(g[k - 1])] = NULL
                 THEN g[k - 1] ELSE Append(g[k - 1], next[Last(g[k - 1])])

(* It starts with the head,                                                  *)
LEMMA WalkStarts ==
    ASSUME NEW N, NULL \notin N, NEW head, NEW next, NEW s, List(head, next, s, N)
    PROVE  Walked(s, 0) = IF head = NULL THEN <<>> ELSE <<head>>
<1>1. CASE s = <<>>
    BY <1>1 DEF List, Linked, Walked
<1>2. CASE s # <<>>
    <2>1. s \in Seq(N) /\ Len(s) \in Nat /\ Len(s) > 0 /\ s[1] \in N /\ head = s[1]
        BY <1>2 DEF List, Linked
    <2>2. PICK t : t = SubSeq(s, 1, 1)
        OBVIOUS
    <2>3. t \in Seq(N) /\ Len(t) = 1 /\ t[1] = s[1]
        BY <2>1, <2>2, SubSeqProperties
    <2>4. t = <<s[1]>>
        BY <2>3
    <2> QED  BY <2>1, <2>2, <2>4 DEF Walked
<1> QED  BY <1>1, <1>2

(* and goes on by one node for each link.                                    *)
LEMMA WalkGoesOn ==
    ASSUME NEW N, NULL \notin N, NEW head, NEW next, NEW s, List(head, next, s, N),
           NEW k \in Nat \ {0}, NEW w, w = Walked(s, k - 1)
    PROVE  Walked(s, k) = IF w = <<>> \/ Len(w) # k \/ next[Last(w)] = NULL
                          THEN w ELSE Append(w, next[Last(w)])
<1>1. s \in Seq(N) /\ Len(s) \in Nat
    BY DEF List
<1>2. CASE k < Len(s)
    <2>1. w = SubSeq(s, 1, k) /\ Walked(s, k) = SubSeq(s, 1, k + 1)
        BY <1>1, <1>2 DEF Walked
    <2>2. w \in Seq(N) /\ Len(w) = k /\ w[k] = s[k]
        BY <1>1, <1>2, <2>1, SubSeqProperties
    <2>3. next[s[k]] = s[k + 1] /\ s[k + 1] \in N
        BY <1>1, <1>2 DEF List, Linked
    <2>4. SubSeq(s, 1, k + 1) = Append(SubSeq(s, 1, k), s[k + 1])
        BY <1>1, <1>2
    <2> QED  BY <2>1, <2>2, <2>3, <2>4 DEF Last
<1>3. CASE k >= Len(s)
    <2>1. w = s /\ Walked(s, k) = s
        <3>1. CASE k - 1 < Len(s)
            <4>1. k = Len(s)
                BY <1>1, <1>3, <3>1
            <4> QED  BY <1>1, <4>1, SubSeqFull DEF Walked
        <3>2. CASE ~ (k - 1 < Len(s))
            BY <1>1, <1>3, <3>2 DEF Walked
        <3> QED  BY <3>1, <3>2
    <2>2. s # <<>> /\ Len(s) = k => next[Last(s)] = NULL
        BY <1>1 DEF List, Linked, Last
    <2> QED  BY <2>1, <2>2
<1> QED  BY <1>1, <1>2, <1>3

(* So the loops find the nodes of the list and stop.                         *)
LEMMA WalkIs ==
    ASSUME NEW N, NULL \notin N, NEW head, NEW next, NEW s, List(head, next, s, N),
           NEW n \in Nat, NEW g, Walks(g, head, next, n)
    PROVE  g[n] = Walked(s, n)
<1> DEFINE T == {k \in Nat : k <= n => g[k] = Walked(s, k)}
<1>1. 0 \in T
    BY WalkStarts DEF Walks
<1>2. ASSUME NEW k \in T PROVE k + 1 \in T
    <2>1. CASE k + 1 <= n
        <3>1. k \in Nat /\ g[k] = Walked(s, k) /\ k + 1 \in 1..n /\ (k + 1) - 1 = k
            BY <2>1
        <3>2. g[k + 1] = IF g[k] = <<>> \/ Len(g[k]) # k + 1 \/ next[Last(g[k])] = NULL
                         THEN g[k] ELSE Append(g[k], next[Last(g[k])])
            BY <3>1 DEF Walks
        <3>3. Walked(s, k + 1) = g[k + 1]
            <4>1. PICK j \in Nat \ {0} : j = k + 1
                BY <3>1
            <4>2. PICK w : w = g[k]
                OBVIOUS
            <4>3. w = Walked(s, j - 1)
                BY <3>1, <4>1, <4>2
            <4>4. Walked(s, j) = IF w = <<>> \/ Len(w) # j \/ next[Last(w)] = NULL
                                 THEN w ELSE Append(w, next[Last(w)])
                BY <4>3, WalkGoesOn
            <4> QED  BY <3>2, <4>1, <4>2, <4>4
        <3> QED  BY <3>1, <3>3
    <2>2. CASE ~ (k + 1 <= n)
        BY <2>2
    <2> QED  BY <2>1, <2>2
<1> HIDE DEF T
<1>3. T = Nat
    <2>1. T \in SUBSET Nat
        BY DEF T
    <2> QED  BY <1>1, <1>2, <2>1, SetInduction
<1> QED  BY <1>3 DEF T

(* Chain finds the nodes of a list, in order.                                *)
LEMMA ChainOfList ==
    ASSUME NEW N, IsFiniteSet(N), NULL \notin N, NEW head, NEW next, DOMAIN next = N,
           NEW s, List(head, next, s, N)
    PROVE  Chain(head, next) = s
<1> DEFINE n == Cardinality(N)
           W(g) == [k \in 0..n |->
                      IF k = 0 THEN IF head = NULL THEN <<>> ELSE <<head>>
                      ELSE LET t == g[k - 1]
                           IN  IF t = <<>> \/ Len(t) # k \/ next[Last(t)] = NULL THEN t
                               ELSE Append(t, next[Last(t)])]
           f == [k \in 0..n |-> Walked(s, k)]
           h == CHOOSE g : g = W(g)
<1>1. n \in Nat /\ Len(s) \in Nat /\ Len(s) <= n
    BY ListShort DEF List
<1>2. f = W(f)
    <2>1. f[0] = IF head = NULL THEN <<>> ELSE <<head>>
        BY <1>1, WalkStarts
    <2>2. ASSUME NEW k \in 1..n
          PROVE  f[k] = IF f[k - 1] = <<>> \/ Len(f[k - 1]) # k \/ next[Last(f[k - 1])] = NULL
                        THEN f[k - 1] ELSE Append(f[k - 1], next[Last(f[k - 1])])
        <3>1. k \in Nat \ {0} /\ f[k] = Walked(s, k) /\ f[k - 1] = Walked(s, k - 1)
            BY <1>1
        <3> HIDE DEF f, W, h, n
        <3>2. PICK w : w = f[k - 1]
            OBVIOUS
        <3>3. w = Walked(s, k - 1)
            BY <3>1, <3>2
        <3>4. Walked(s, k) = IF w = <<>> \/ Len(w) # k \/ next[Last(w)] = NULL
                             THEN w ELSE Append(w, next[Last(w)])
            BY <3>1, <3>3, WalkGoesOn
        <3> QED  BY <3>1, <3>2, <3>4
    <2>3. \A k \in 0..n : k = 0 \/ k \in 1..n
        BY <1>1
    <2> DEFINE a == W(f)
    <2>4. \A k \in 0..n : f[k] = a[k]
        BY <2>1, <2>2, <2>3
    <2>5. f = [k \in 0..n |-> f[k]] /\ a = [k \in 0..n |-> a[k]]
        OBVIOUS
    <2> HIDE DEF f, a
    <2>6. f = a
        BY <2>4, <2>5
    <2> QED  BY <2>6 DEF a
<1>3. h = W(h)
    <2> HIDE DEF W
    <2> QED  BY <1>2
<1>4. Chain(head, next) = h[n]
    BY DEF Chain
<1>5. Walks(h, head, next, n)
    <2> HIDE DEF h
    <2> DEFINE b == W(h)
    <2>1. b[0] = IF head = NULL THEN <<>> ELSE <<head>>
        BY <1>1
    <2>2. ASSUME NEW k \in 1..n
          PROVE  b[k] = IF h[k - 1] = <<>> \/ Len(h[k - 1]) # k \/ next[Last(h[k - 1])] = NULL
                        THEN h[k - 1] ELSE Append(h[k - 1], next[Last(h[k - 1])])
        BY <1>1
    <2> HIDE DEF b
    <2>3. h = b
        BY <1>3 DEF b
    <2> QED  BY <2>1, <2>2, <2>3 DEF Walks
<1> HIDE DEF h, n
<1>6. h[n] = Walked(s, n)
    BY <1>1, <1>5, WalkIs
<1> QED  BY <1>1, <1>4, <1>6 DEF Walked

-----------------------------------------------------------------------------
(* A list with the nodes S, n of them.                                       *)

Nodes(s) == {s[k] : k \in 1..Len(s)}

HasList(head, next, S, n, N) ==
    \E s : List(head, next, s, N) /\ S = Nodes(s) /\ n = Len(s)

(* Its nodes are addresses, and a count of 0 says there is none.             *)
LEMMA ListCounts ==
    ASSUME NEW head, NEW next, NEW S, NEW n, NEW N, HasList(head, next, S, n, N)
    PROVE  S \subseteq N /\ n \in Nat /\ (n = 0 <=> S = {}) /\ (head = NULL \/ head \in S)
<1>1. PICK s : List(head, next, s, N) /\ S = Nodes(s) /\ n = Len(s)
    BY DEF HasList
<1>2. s \in Seq(N) /\ Len(s) \in Nat /\ (s = <<>> <=> Len(s) = 0)
    BY <1>1, EmptySeq DEF List
<1>3. S \subseteq N
    BY <1>1, <1>2, ElementOfSeq DEF Nodes
<1>4. n = 0 <=> S = {}
    <2>1. Len(s) # 0 => s[1] \in Nodes(s)
        BY <1>2 DEF Nodes
    <2>2. Len(s) = 0 => Nodes(s) = {}
        BY DEF Nodes
    <2> QED  BY <1>1, <2>1, <2>2
<1>5. head = NULL \/ head \in S
    BY <1>1, <1>2 DEF List, Linked, Nodes
<1> QED  BY <1>1, <1>2, <1>3, <1>4, <1>5

(* Chain finds them, each once.                                              *)
LEMMA ChainHas ==
    ASSUME NEW N, IsFiniteSet(N), NULL \notin N, NEW head, NEW next, DOMAIN next = N,
           NEW S, NEW n, HasList(head, next, S, n, N), NEW s, s = Chain(head, next)
    PROVE  List(head, next, s, N) /\ Nodes(s) = S /\ Len(s) = n
<1>1. PICK t : List(head, next, t, N) /\ S = Nodes(t) /\ n = Len(t)
    BY DEF HasList
<1>2. Chain(head, next) = t
    BY <1>1, ChainOfList
<1> QED  BY <1>1, <1>2

(* No list is empty by its head.                                             *)
LEMMA EmptyList ==
    ASSUME NEW next, NEW N
    PROVE  HasList(NULL, next, {}, 0, N)
<1>1. List(NULL, next, <<>>, N)
    BY DEF List, Distinct, Linked
<1>2. Nodes(<<>>) = {} /\ Len(<<>>) = 0
    BY DEF Nodes
<1> QED  BY <1>1, <1>2 DEF HasList

(* Links of other nodes do not matter.                                       *)
LEMMA ListAside ==
    ASSUME NEW head, NEW next, NEW S, NEW n, NEW N, HasList(head, next, S, n, N),
           NEW other, \A x \in S : other[x] = next[x]
    PROVE  HasList(head, other, S, n, N)
<1>1. PICK s : List(head, next, s, N) /\ S = Nodes(s) /\ n = Len(s)
    BY DEF HasList
<1>2. s \in Seq(N) /\ Len(s) \in Nat /\ (s = <<>> <=> Len(s) = 0)
    BY <1>1, EmptySeq DEF List
<1>3. \A k \in 1..Len(s) : other[s[k]] = next[s[k]]
    BY <1>1 DEF Nodes
<1>4. Linked(head, other, s)
    BY <1>1, <1>2, <1>3 DEF List, Linked
<1>5. List(head, other, s, N)
    BY <1>1, <1>4 DEF List
<1> QED  BY <1>1, <1>5 DEF HasList

(* A node is put before the head.                                            *)
LEMMA ListAdd ==
    ASSUME NEW head, NEW next, NEW S, NEW n, NEW N, HasList(head, next, S, n, N),
           NULL \notin N, NEW x \in N, x \notin S,
           NEW other, other[x] = head, \A y \in S : other[y] = next[y]
    PROVE  HasList(x, other, S \cup {x}, n + 1, N)
<1>1. HasList(head, other, S, n, N)
    BY ListAside
<1>2. PICK s : List(head, other, s, N) /\ S = Nodes(s) /\ n = Len(s)
    BY <1>1 DEF HasList
<1>3. s \in Seq(N) /\ Len(s) \in Nat /\ (s = <<>> <=> Len(s) = 0)
    BY <1>2, EmptySeq DEF List
<1>4. PICK t : t = <<x>> \o s
    OBVIOUS
<1>5. t \in Seq(N) /\ Len(t) = Len(s) + 1 /\ t # <<>> /\ t[1] = x
      /\ \A k \in 1..Len(s) : t[k + 1] = s[k]
    BY <1>3, <1>4
<1>6. Nodes(t) = Nodes(s) \cup {x}
    <2>1. \A k \in 1..Len(t) : k = 1 \/ (k - 1 \in 1..Len(s) /\ t[k] = s[k - 1])
        BY <1>3, <1>5
    <2>2. \A k \in 1..Len(s) : k + 1 \in 1..Len(t)
        BY <1>3, <1>5
    <2>3. 1 \in 1..Len(t)
        BY <1>3, <1>5
    <2>4. ASSUME NEW k \in 1..Len(t) PROVE t[k] = x \/ t[k] \in Nodes(s)
        BY <1>5, <2>1 DEF Nodes
    <2>5. ASSUME NEW k \in 1..Len(s) PROVE s[k] \in Nodes(t)
        BY <1>5, <2>2 DEF Nodes
    <2>6. x \in Nodes(t)
        BY <1>5, <2>3 DEF Nodes
    <2>7. Nodes(t) \subseteq Nodes(s) \cup {x}
        BY <2>4 DEF Nodes
    <2>8. Nodes(s) \subseteq Nodes(t)
        BY <2>5 DEF Nodes
    <2> QED  BY <2>6, <2>7, <2>8
<1>7. Distinct(t)
    <2> SUFFICES ASSUME NEW i \in 1..Len(t), NEW j \in 1..Len(t), t[i] = t[j]
                 PROVE  i = j
        BY DEF Distinct
    <2>1. \A k \in 1..Len(t) : k = 1 \/ (k - 1 \in 1..Len(s) /\ t[k] = s[k - 1])
        BY <1>3, <1>5
    <2>2. \A k \in 1..Len(s) : s[k] # x
        BY <1>2 DEF Nodes
    <2>3. \A k, l \in 1..Len(s) : s[k] = s[l] => k = l
        BY <1>2 DEF List, Distinct
    <2>4. i \in Int /\ j \in Int
        OBVIOUS
    <2>5. CASE i = 1 \/ j = 1
        BY <1>5, <2>1, <2>2, <2>4, <2>5
    <2>6. CASE i # 1 /\ j # 1
        <3>1. i - 1 \in 1..Len(s) /\ j - 1 \in 1..Len(s) /\ s[i - 1] = s[j - 1]
            BY <2>1, <2>6
        <3>2. i - 1 = j - 1
            BY <3>1, <2>3
        <3> QED  BY <3>2, <2>4
    <2> QED  BY <2>5, <2>6
<1>8. Linked(x, other, t)
    <2>1. head = IF s = <<>> THEN NULL ELSE s[1]
        BY <1>2 DEF List, Linked
    <2>2. ASSUME NEW k \in 1..(Len(t) - 1) PROVE other[t[k]] = t[k + 1]
        <3>1. CASE k = 1
            <4>1. s # <<>> /\ t[2] = s[1]
                BY <1>3, <1>5, <3>1
            <4> QED  BY <1>5, <2>1, <3>1, <4>1
        <3>2. CASE k # 1
            <4>1. k - 1 \in 1..(Len(s) - 1) /\ k \in 1..Len(s) /\ k - 1 \in 1..Len(s)
                BY <1>3, <1>5, <3>2
            <4>2. t[k] = s[k - 1] /\ t[k + 1] = s[k]
                <5>1. t[(k - 1) + 1] = s[k - 1]
                    BY <4>1, <1>5
                <5> QED  BY <4>1, <5>1, <1>5
            <4>3. other[s[k - 1]] = s[(k - 1) + 1]
                BY <1>2, <4>1 DEF List, Linked
            <4> QED  BY <4>1, <4>2, <4>3
        <3> QED  BY <3>1, <3>2
    <2>3. other[t[Len(t)]] = NULL
        <3>1. CASE s = <<>>
            BY <1>3, <1>5, <2>1, <3>1
        <3>2. CASE s # <<>>
            <4>1. Len(s) \in 1..Len(s) /\ other[s[Len(s)]] = NULL
                BY <1>2, <1>3, <3>2 DEF List, Linked
            <4> QED  BY <1>5, <4>1
        <3> QED  BY <3>1, <3>2
    <2> QED  BY <1>5, <2>2, <2>3 DEF Linked
<1>9. List(x, other, t, N)
    BY <1>5, <1>7, <1>8 DEF List
<1> QED  BY <1>2, <1>5, <1>6, <1>9 DEF HasList

(* A sequence without its element j.                                         *)
Cut(s, j) == [k \in 1..(Len(s) - 1) |-> IF k < j THEN s[k] ELSE s[k + 1]]

(* The other nodes stay, each once.                                          *)
LEMMA CutIs ==
    ASSUME NEW N, NEW s \in Seq(N), Distinct(s), NEW j \in 1..Len(s), NEW t, t = Cut(s, j)
    PROVE  /\ t \in Seq(N) /\ Len(t) = Len(s) - 1
           /\ \A k \in 1..(Len(s) - 1) : t[k] = IF k < j THEN s[k] ELSE s[k + 1]
           /\ Distinct(t) /\ Nodes(t) = Nodes(s) \ {s[j]}
<1>1. Len(s) \in Nat /\ s \in [1..Len(s) -> N] /\ Len(s) - 1 \in Nat
    OBVIOUS
<1>2. \A k \in 1..(Len(s) - 1) : k \in 1..Len(s) /\ k + 1 \in 1..Len(s)
    BY <1>1
<1>3. t \in [1..(Len(s) - 1) -> N]
    BY <1>1, <1>2 DEF Cut
<1>4. t \in Seq(N) /\ Len(t) = Len(s) - 1
    <2>1. PICK m \in Nat : m = Len(s) - 1
        BY <1>1
    <2>2. t \in [1..m -> N]
        BY <1>3, <2>1
    <2>3. t \in Seq(N) /\ Len(t) = m
        BY <2>2
    <2> QED  BY <2>1, <2>3
<1>5. \A k \in 1..(Len(s) - 1) : t[k] = IF k < j THEN s[k] ELSE s[k + 1]
    BY DEF Cut
<1>6. \A a, b \in 1..Len(s) : s[a] = s[b] => a = b
    BY DEF Distinct
<1>7. Distinct(t)
    <2> SUFFICES ASSUME NEW a \in 1..(Len(s) - 1), NEW b \in 1..(Len(s) - 1), t[a] = t[b]
                 PROVE  a = b
        BY <1>4 DEF Distinct
    <2>1. a \in 1..Len(s) /\ a + 1 \in 1..Len(s) /\ b \in 1..Len(s) /\ b + 1 \in 1..Len(s)
        BY <1>2
    <2>2. t[a] = (IF a < j THEN s[a] ELSE s[a + 1]) /\ t[b] = (IF b < j THEN s[b] ELSE s[b + 1])
        BY <1>5
    <2>3. CASE a < j /\ b < j
        BY <2>1, <2>2, <2>3, <1>6
    <2>4. CASE a < j /\ ~ (b < j)
        <3>1. s[a] = s[b + 1]
            BY <2>2, <2>4
        <3>2. a = b + 1
            BY <2>1, <3>1, <1>6
        <3> QED  BY <2>1, <2>4, <3>2
    <2>5. CASE ~ (a < j) /\ b < j
        <3>1. s[a + 1] = s[b]
            BY <2>2, <2>5
        <3>2. a + 1 = b
            BY <2>1, <3>1, <1>6
        <3> QED  BY <2>1, <2>5, <3>2
    <2>6. CASE ~ (a < j) /\ ~ (b < j)
        <3>1. s[a + 1] = s[b + 1]
            BY <2>2, <2>6
        <3>2. a + 1 = b + 1
            BY <2>1, <3>1, <1>6
        <3> QED  BY <2>1, <3>2
    <2> QED  BY <2>3, <2>4, <2>5, <2>6
<1>8. Nodes(t) \subseteq Nodes(s) \ {s[j]}
    <2>1. ASSUME NEW k \in 1..(Len(s) - 1)
          PROVE  t[k] \in Nodes(s) /\ t[k] # s[j]
        <3>1. CASE k < j
            <4>1. t[k] = s[k] /\ k \in 1..Len(s) /\ k # j
                BY <1>1, <1>2, <1>5, <3>1
            <4> QED  BY <4>1, <1>6 DEF Nodes
        <3>2. CASE ~ (k < j)
            <4>1. t[k] = s[k + 1] /\ k + 1 \in 1..Len(s) /\ k + 1 # j
                BY <1>1, <1>2, <1>5, <3>2
            <4> QED  BY <4>1, <1>6 DEF Nodes
        <3> QED  BY <3>1, <3>2
    <2>2. Nodes(t) = {t[k] : k \in 1..(Len(s) - 1)}
        BY <1>4 DEF Nodes
    <2> QED  BY <2>1, <2>2
<1>9. Nodes(s) \ {s[j]} \subseteq Nodes(t)
    <2>1. ASSUME NEW k \in 1..Len(s), s[k] # s[j]
          PROVE  s[k] \in Nodes(t)
        <3>1. k # j /\ k \in Int /\ j \in Int
            BY <2>1
        <3>2. CASE k < j
            <4>1. k \in 1..Len(t) /\ t[k] = s[k]
                BY <1>1, <1>4, <1>5, <3>1, <3>2
            <4> QED  BY <4>1 DEF Nodes
        <3>3. CASE k > j
            <4>1. k - 1 \in 1..(Len(s) - 1) /\ ~ (k - 1 < j) /\ (k - 1) + 1 = k
                BY <1>1, <3>1, <3>3
            <4>2. t[k - 1] = s[(k - 1) + 1]
                BY <1>5, <4>1
            <4>3. t[k - 1] = s[k] /\ k - 1 \in 1..Len(t)
                BY <1>4, <4>1, <4>2
            <4> QED  BY <4>3 DEF Nodes
        <3> QED  BY <3>1, <3>2, <3>3
    <2>2. Nodes(s) = {s[k] : k \in 1..Len(s)}
        BY DEF Nodes
    <2> QED  BY <2>1, <2>2
<1> QED  BY <1>4, <1>5, <1>7, <1>8, <1>9

(* The head is taken off: the next node is the head.                         *)
LEMMA ListRemoveHead ==
    ASSUME NEW x, NEW next, NEW S, NEW n, NEW N, HasList(x, next, S, n, N), x # NULL
    PROVE  HasList(next[x], next, S \ {x}, n - 1, N)
<1>1. PICK s : List(x, next, s, N) /\ S = Nodes(s) /\ n = Len(s)
    BY DEF HasList
<1>2. s \in Seq(N) /\ Len(s) \in Nat /\ s # <<>> /\ Len(s) > 0 /\ 1 \in 1..Len(s) /\ s[1] = x /\ Distinct(s)
    BY <1>1 DEF List, Linked
<1>3. PICK j \in 1..Len(s) : j = 1
    BY <1>2
<1>4. PICK t : t = Cut(s, j)
    OBVIOUS
<1>5. /\ t \in Seq(N) /\ Len(t) = Len(s) - 1
      /\ \A k \in 1..(Len(s) - 1) : t[k] = s[k + 1]
      /\ Distinct(t) /\ Nodes(t) = Nodes(s) \ {x}
    <2>1. /\ t \in Seq(N) /\ Len(t) = Len(s) - 1
          /\ \A k \in 1..(Len(s) - 1) : t[k] = IF k < j THEN s[k] ELSE s[k + 1]
          /\ Distinct(t) /\ Nodes(t) = Nodes(s) \ {s[j]}
        <3>1. s \in Seq(N) /\ Distinct(s)
            BY <1>2
        <3> QED  BY <3>1, <1>4, CutIs
    <2>2. \A k \in 1..(Len(s) - 1) : ~ (k < j)
        BY <1>2, <1>3
    <2> QED  BY <1>2, <1>3, <2>1, <2>2
<1>6. Linked(next[x], next, t)
    <2>1. \A k \in 1..(Len(s) - 1) : next[s[k]] = s[k + 1]
        BY <1>1 DEF List, Linked
    <2>2. next[s[Len(s)]] = NULL
        BY <1>1, <1>2 DEF List, Linked
    <2>3. t = <<>> <=> Len(s) = 1
        BY <1>2, <1>5, EmptySeq
    <2>4. next[x] = IF t = <<>> THEN NULL ELSE t[1]
        <3>1. CASE Len(s) = 1
            BY <1>2, <2>2, <2>3, <3>1
        <3>2. CASE Len(s) # 1
            <4>1. 1 \in 1..(Len(s) - 1)
                <5>1. PICK m \in Nat : m = Len(s)
                    BY <1>2
                <5>2. m > 0 /\ m # 1
                    BY <1>2, <3>2, <5>1
                <5>3. m - 1 >= 1 /\ m - 1 \in Nat
                    BY <5>2
                <5>4. 1 \in 1..(m - 1)
                    BY <5>3
                <5> QED  BY <5>1, <5>4
            <4>2. t[1] = s[1 + 1] /\ next[s[1]] = s[1 + 1]
                BY <1>5, <2>1, <4>1
            <4> QED  BY <1>2, <2>3, <3>2, <4>2
        <3> QED  BY <3>1, <3>2
    <2>5. ASSUME NEW k \in 1..(Len(t) - 1) PROVE next[t[k]] = t[k + 1]
        <3>1. k \in 1..(Len(s) - 1) /\ k + 1 \in 1..(Len(s) - 1)
            BY <1>2, <1>5
        <3>2. t[k] = s[k + 1] /\ t[k + 1] = s[(k + 1) + 1] /\ next[s[k + 1]] = s[(k + 1) + 1]
            BY <1>5, <2>1, <3>1
        <3> QED  BY <3>2
    <2>6. t # <<>> => next[t[Len(t)]] = NULL
        <3>1. ASSUME t # <<>> PROVE next[t[Len(t)]] = NULL
            <4>1. Len(t) \in 1..(Len(s) - 1) /\ Len(t) + 1 = Len(s)
                BY <1>2, <1>5, <2>3, <3>1
            <4>2. t[Len(t)] = s[Len(t) + 1]
                BY <1>5, <4>1
            <4> QED  BY <2>2, <4>1, <4>2
        <3> QED  BY <3>1
    <2> QED  BY <2>4, <2>5, <2>6 DEF Linked
<1>7. List(next[x], next, t, N)
    BY <1>5, <1>6 DEF List
<1> QED  BY <1>1, <1>5, <1>7 DEF HasList

TakenOut(head, next, S, n, x, p, N) ==
    \A other : other[p] = next[x] /\ (\A y \in S \ {p} : other[y] = next[y])
                  => HasList(head, other, S \ {x}, n - 1, N)

(* Another node is taken out: the one before it leads to the one after it,   *)
(* and it is the one the loop finds.                                         *)
LEMMA ListRemoveLater ==
    ASSUME NEW head, NEW next, NEW s, NEW N, List(head, next, s, N), NEW x \in Nodes(s), head # x
    PROVE  \E p \in Nodes(s) \ {x} :
              /\ Before(s, x) = {p}
              /\ TakenOut(head, next, Nodes(s), Len(s), x, p, N)
<1>1. s \in Seq(N) /\ Len(s) \in Nat /\ Distinct(s) /\ (s = <<>> <=> Len(s) = 0)
    BY EmptySeq DEF List
<1>2. PICK j \in 1..Len(s) : s[j] = x
    BY DEF Nodes
<1>3. head = s[1] /\ s # <<>>
    BY <1>1, <1>2 DEF List, Linked
<1>4. j > 1 /\ j - 1 \in 1..(Len(s) - 1) /\ j - 1 \in 1..Len(s) /\ j \in Int
    <2>1. j # 1
        BY <1>2, <1>3
    <2> QED  BY <1>1, <2>1
<1>5. \A a, b \in 1..Len(s) : s[a] = s[b] => a = b
    BY <1>1 DEF Distinct
<1>6. PICK p : p = s[j - 1]
    OBVIOUS
<1>7. p \in Nodes(s) \ {x}
    <2>1. j - 1 # j
        BY <1>4
    <2>2. p # x
        BY <1>2, <1>4, <1>5, <1>6, <2>1
    <2> QED  BY <1>4, <1>6, <2>2 DEF Nodes
<1>8. Before(s, x) = {p}
    <2>1. {i \in 1..(Len(s) - 1) : s[i + 1] = x} = {j - 1}
        <3>1. ASSUME NEW i \in 1..(Len(s) - 1), s[i + 1] = x PROVE i = j - 1
            <4>1. i + 1 \in 1..Len(s) /\ i \in Int
                BY <1>1
            <4>2. i + 1 = j
                BY <1>2, <1>5, <3>1, <4>1
            <4> QED  BY <1>4, <4>1, <4>2
        <3>2. s[(j - 1) + 1] = x
            <4>1. (j - 1) + 1 = j
                BY <1>4
            <4> QED  BY <1>2, <4>1
        <3> QED  BY <1>4, <3>1, <3>2
    <2>2. Before(s, x) = {s[k] : k \in {j - 1}}
        BY <2>1 DEF Before
    <2> QED  BY <1>6, <2>2
<1>9. ASSUME NEW other, other[p] = next[x], \A y \in Nodes(s) \ {p} : other[y] = next[y]
      PROVE  HasList(head, other, Nodes(s) \ {x}, Len(s) - 1, N)
    <2>1. PICK t : t = Cut(s, j)
        OBVIOUS
    <2>2. /\ t \in Seq(N) /\ Len(t) = Len(s) - 1
          /\ \A k \in 1..(Len(s) - 1) : t[k] = IF k < j THEN s[k] ELSE s[k + 1]
          /\ Distinct(t) /\ Nodes(t) = Nodes(s) \ {x}
        <3>1. /\ t \in Seq(N) /\ Len(t) = Len(s) - 1
              /\ \A k \in 1..(Len(s) - 1) : t[k] = IF k < j THEN s[k] ELSE s[k + 1]
              /\ Distinct(t) /\ Nodes(t) = Nodes(s) \ {s[j]}
            BY <1>1, <2>1, CutIs
        <3> QED  BY <1>2, <3>1
    <2>3. \A k \in 1..(Len(s) - 1) : next[s[k]] = s[k + 1]
        BY DEF List, Linked
    <2>4. next[s[Len(s)]] = NULL
        BY <1>3 DEF List, Linked
    <2>5. \A k \in 1..Len(s) : k # j - 1 => other[s[k]] = next[s[k]]
        <3>1. ASSUME NEW k \in 1..Len(s), k # j - 1 PROVE other[s[k]] = next[s[k]]
            <4>1. s[k] # p
                BY <1>4, <1>5, <1>6, <3>1
            <4>2. s[k] \in Nodes(s)
                BY DEF Nodes
            <4> QED  BY <1>9, <4>1, <4>2
        <3> QED  BY <3>1
    <2>6. other[s[j - 1]] = next[s[j]]
        BY <1>2, <1>6, <1>9
    <2>7. t # <<>> /\ t[1] = s[1]
        <3>1. Len(s) - 1 > 0 /\ 1 \in 1..(Len(s) - 1) /\ 1 < j
            BY <1>1, <1>4
        <3> QED  BY <2>2, <3>1, EmptySeq
    <2>8. ASSUME NEW k \in 1..(Len(t) - 1) PROVE other[t[k]] = t[k + 1]
        <3>1. k \in Int /\ k \in 1..(Len(s) - 1) /\ k + 1 \in 1..(Len(s) - 1) /\ k \in 1..Len(s) /\ k + 1 \in 1..Len(s)
            BY <1>1, <2>2
        <3>2. CASE k + 1 < j
            <4>1. t[k] = s[k] /\ t[k + 1] = s[k + 1] /\ k # j - 1
                BY <1>4, <2>2, <3>1, <3>2
            <4>2. other[s[k]] = next[s[k]] /\ next[s[k]] = s[k + 1]
                BY <2>3, <2>5, <3>1, <4>1
            <4> QED  BY <4>1, <4>2
        <3>3. CASE k + 1 = j
            <4>1. t[k] = s[k] /\ t[k + 1] = s[(k + 1) + 1] /\ k = j - 1
                BY <1>4, <2>2, <3>1, <3>3
            <4>2. next[s[k + 1]] = s[(k + 1) + 1]
                BY <2>3, <3>1
            <4> QED  BY <2>6, <3>3, <4>1, <4>2
        <3>4. CASE k + 1 > j
            <4>1. t[k] = s[k + 1] /\ t[k + 1] = s[(k + 1) + 1] /\ k + 1 # j - 1
                BY <1>4, <2>2, <3>1, <3>4
            <4>2. other[s[k + 1]] = next[s[k + 1]] /\ next[s[k + 1]] = s[(k + 1) + 1]
                BY <2>3, <2>5, <3>1, <4>1
            <4> QED  BY <4>1, <4>2
        <3> QED  BY <1>4, <3>1, <3>2, <3>3, <3>4
    <2>9. other[t[Len(t)]] = NULL
        <3>1. Len(t) \in 1..(Len(s) - 1) /\ Len(t) + 1 = Len(s)
            BY <1>1, <1>4, <2>2
        <3>2. CASE j = Len(s)
            <4>1. Len(t) < j /\ Len(t) = j - 1
                BY <1>4, <3>1, <3>2
            <4>2. t[Len(t)] = s[j - 1]
                BY <2>2, <3>1, <4>1
            <4> QED  BY <2>4, <2>6, <3>2, <4>2
        <3>3. CASE j # Len(s)
            <4>1. ~ (Len(t) < j) /\ Len(s) # j - 1 /\ Len(s) \in 1..Len(s)
                BY <1>1, <1>4, <3>1, <3>3
            <4>2. t[Len(t)] = s[Len(t) + 1]
                BY <2>2, <3>1, <4>1
            <4> QED  BY <2>4, <2>5, <3>1, <4>1, <4>2
        <3> QED  BY <3>2, <3>3
    <2>10. Linked(head, other, t)
        BY <1>3, <2>7, <2>8, <2>9 DEF Linked
    <2>11. List(head, other, t, N)
        BY <2>2, <2>10 DEF List
    <2> QED  BY <2>2, <2>11 DEF HasList
<1>10. TakenOut(head, next, Nodes(s), Len(s), x, p, N)
    BY <1>9 DEF TakenOut
<1> QED  BY <1>7, <1>8, <1>10

-----------------------------------------------------------------------------
(* Memory, and what a memory m holds: the users U, the rooms R, and in each  *)
(* room r the users M[r].                                                    *)

UserLink == UserNode \cup {NULL}
RoomLink == RoomNode \cup {NULL}

Servers == [user_head : UserLink, num_users : Int, chatroom_head : RoomLink, num_chatrooms : Int]
UserFields == [is_in_chatroom : {0, 1}, next_in_server : UserLink, next_in_chatroom : UserLink]
RoomFields == [user_head : UserLink, num_users : Int, next : RoomLink]
Memory ==
    [server : Servers, user : [UserNode -> UserFields], room : [RoomNode -> RoomFields],
     heap : SUBSET (UserNode \cup RoomNode)]

NextUser(m) == [u \in UserNode |-> m.user[u].next_in_server]
NextMember(m) == [u \in UserNode |-> m.user[u].next_in_chatroom]
NextRoom(m) == [r \in RoomNode |-> m.room[r].next]

UsersHeld(m, U) == HasList(m.server.user_head, NextUser(m), U, m.server.num_users, UserNode)
RoomsHeld(m, R) ==
    HasList(m.server.chatroom_head, NextRoom(m), R, m.server.num_chatrooms, RoomNode)
MembersHeld(m, r, S) ==
    HasList(m.room[r].user_head, NextMember(m), S, m.room[r].num_users, UserNode)

(* A user is in one room at most.                                            *)
Apart(U, R, M) ==
    /\ M \in [RoomNode -> SUBSET UserNode]
    /\ \A r \in R : M[r] \subseteq U
    /\ \A r, t \in R : \A u \in M[r] : u \in M[t] => r = t

Flags(m, U, R, M) ==
    \A u \in U : m.user[u].is_in_chatroom = 1 <=> \E r \in R : u \in M[r]

Holds(m, U, R, M) ==
    /\ m \in Memory
    /\ UsersHeld(m, U)
    /\ RoomsHeld(m, R)
    /\ \A r \in R : MembersHeld(m, r, M[r])
    /\ m.heap = U \cup R
    /\ Apart(U, R, M)
    /\ Flags(m, U, R, M)

(* What is said of the addresses.                                            *)
LEMMA Addresses ==
    /\ NULL \notin UserNode /\ NULL \notin RoomNode
    /\ IsFiniteSet(UserNode) /\ IsFiniteSet(RoomNode)
    /\ UserNode \cap RoomNode = {}
BY ListsAssumption

(* The lists hold addresses.                                                 *)
LEMMA HoldsAddresses ==
    ASSUME NEW m, NEW U, NEW R, NEW M, Holds(m, U, R, M)
    PROVE  U \subseteq UserNode /\ R \subseteq RoomNode
BY ListCounts DEF Holds, UsersHeld, RoomsHeld

(* Lists that go through other links, or other nodes, are what they were.    *)
LEMMA RoomsAside ==
    ASSUME NEW m, NEW n, NEW R, RoomsHeld(m, R),
           n.server.chatroom_head = m.server.chatroom_head,
           n.server.num_chatrooms = m.server.num_chatrooms,
           \A r \in R : NextRoom(n)[r] = NextRoom(m)[r]
    PROVE  RoomsHeld(n, R)
BY ListAside DEF RoomsHeld

(* So it is for users,                                                       *)
LEMMA UsersAside ==
    ASSUME NEW m, NEW n, NEW U, UsersHeld(m, U),
           n.server.user_head = m.server.user_head,
           n.server.num_users = m.server.num_users,
           \A u \in U : NextUser(n)[u] = NextUser(m)[u]
    PROVE  UsersHeld(n, U)
BY ListAside DEF UsersHeld

(* and for the users of a room.                                              *)
LEMMA MembersAside ==
    ASSUME NEW m, NEW n, NEW r, NEW S, MembersHeld(m, r, S),
           n.room[r].user_head = m.room[r].user_head,
           n.room[r].num_users = m.room[r].num_users,
           \A u \in S : NextMember(n)[u] = NextMember(m)[u]
    PROVE  MembersHeld(n, r, S)
BY ListAside DEF MembersHeld

-----------------------------------------------------------------------------
(* The functions on lists.                                                   *)

(* What each of them does to the fields of a memory.  malloc and memset, for *)
(* a user.                                                                   *)
LEMMA UserInitDoes ==
    ASSUME NEW m \in Memory, NEW u \in UserNode, NEW n, n = user_node_init(m, u)
    PROVE  /\ n \in Memory /\ n.server = m.server /\ n.room = m.room
           /\ n.user = [m.user EXCEPT ![u] = Fresh] /\ n.heap = m.heap \cup {u}
BY DEF user_node_init, Fresh, Memory, UserFields, UserLink

(* A user is put before the head.                                            *)
LEMMA AddUserDoes ==
    ASSUME NEW m \in Memory, NEW u \in UserNode, NEW n, n = server_add_user_node(m, u)
    PROVE  /\ n \in Memory /\ n.room = m.room /\ n.heap = m.heap
           /\ n.server.user_head = u /\ n.server.num_users = m.server.num_users + 1
           /\ n.server.chatroom_head = m.server.chatroom_head
           /\ n.server.num_chatrooms = m.server.num_chatrooms
           /\ n.user = [m.user EXCEPT ![u].next_in_server = m.server.user_head]
<1>1. /\ n.room = m.room /\ n.heap = m.heap
      /\ n.server = [m.server EXCEPT !.user_head = u, !.num_users = @ + 1]
      /\ n.user = [m.user EXCEPT ![u].next_in_server = m.server.user_head]
    BY DEF server_add_user_node, Memory
<1>2. n = [server |-> n.server, user |-> n.user, room |-> n.room, heap |-> n.heap]
    BY DEF server_add_user_node, Memory
<1>3. m.server \in Servers /\ m.user \in [UserNode -> UserFields] /\ m.server.user_head \in UserLink
    BY DEF Memory, Servers
<1>4. n.server \in Servers
    <2>1. PICK i \in Int : i = m.server.num_users + 1
        BY <1>3 DEF Servers
    <2>2. n.server = [m.server EXCEPT !.user_head = u, !.num_users = i]
        BY <1>1, <2>1
    <2> QED  BY <1>3, <2>2 DEF Servers, UserLink
<1>5. n.user \in [UserNode -> UserFields]
    BY <1>1, <1>3 DEF UserFields
<1>6. n \in Memory
    BY <1>1, <1>2, <1>4, <1>5 DEF Memory
<1> QED  BY <1>1, <1>3, <1>6 DEF Servers

(* accept_user: one more user, in no room.                                   *)
LEMMA AcceptHolds ==
    ASSUME NEW m, NEW U, NEW R, NEW M, Holds(m, U, R, M), NEW u \in UserNode, u \notin m.heap
    PROVE  Holds(server_add_user_node(user_node_init(m, u), u), U \cup {u}, R, M)
<1>1. m \in Memory /\ m.heap = U \cup R /\ u \notin U /\ U \subseteq UserNode /\ R \subseteq RoomNode
    BY HoldsAddresses DEF Holds
<1>2. PICK k : k = user_node_init(m, u)
    OBVIOUS
<1>3. /\ k \in Memory /\ k.server = m.server /\ k.room = m.room
      /\ k.user = [m.user EXCEPT ![u] = Fresh] /\ k.heap = m.heap \cup {u}
    BY <1>1, <1>2, UserInitDoes
<1>4. PICK n : n = server_add_user_node(k, u)
    OBVIOUS
<1>5. /\ n \in Memory /\ n.room = m.room /\ n.heap = m.heap \cup {u}
      /\ n.server.user_head = u /\ n.server.num_users = m.server.num_users + 1
      /\ n.server.chatroom_head = m.server.chatroom_head
      /\ n.server.num_chatrooms = m.server.num_chatrooms
      /\ n.user = [k.user EXCEPT ![u].next_in_server = m.server.user_head]
    BY <1>3, <1>4, AddUserDoes
<1>6. /\ n.user[u].next_in_server = m.server.user_head /\ n.user[u].is_in_chatroom = 0
      /\ \A v \in UserNode \ {u} : n.user[v] = m.user[v]
    BY <1>1, <1>3, <1>5 DEF Memory, Fresh
<1>7. /\ NextUser(n)[u] = m.server.user_head
      /\ \A v \in UserNode \ {u} : NextUser(n)[v] = NextUser(m)[v] /\ NextMember(n)[v] = NextMember(m)[v]
    BY <1>6 DEF NextUser, NextMember
<1>8. UsersHeld(n, U \cup {u})
    <2>1. HasList(m.server.user_head, NextUser(m), U, m.server.num_users, UserNode)
        BY DEF Holds, UsersHeld
    <2>2. NULL \notin UserNode /\ \A v \in U : NextUser(n)[v] = NextUser(m)[v]
        BY <1>1, <1>7, Addresses
    <2>3. HasList(u, NextUser(n), U \cup {u}, m.server.num_users + 1, UserNode)
        BY <1>1, <1>7, <2>1, <2>2, ListAdd
    <2> QED  BY <1>5, <2>3 DEF UsersHeld
<1>9. RoomsHeld(n, R)
    BY <1>5, RoomsAside DEF Holds, NextRoom
<1>10. Apart(U \cup {u}, R, M)
    BY DEF Holds, Apart
<1>11. ASSUME NEW r \in R PROVE MembersHeld(n, r, M[r])
    <2>1. M[r] \subseteq UserNode \ {u}
        BY <1>1 DEF Holds, Apart
    <2>2. \A v \in M[r] : NextMember(n)[v] = NextMember(m)[v]
        BY <1>7, <2>1
    <2> QED  BY <1>5, <2>2, MembersAside DEF Holds
<1>12. Flags(n, U \cup {u}, R, M)
    BY <1>1, <1>6 DEF Holds, Flags, Apart
<1>13. Holds(n, U \cup {u}, R, M)
    <2>1. n.heap = (U \cup {u}) \cup R
        BY <1>1, <1>5
    <2> QED  BY <1>5, <1>8, <1>9, <1>10, <1>11, <1>12, <2>1 DEF Holds
<1> QED  BY <1>2, <1>4, <1>13

(* The loops over the lists find the nodes that are held.                    *)
LEMMA UsersFound ==
    ASSUME NEW m, NEW U, UsersHeld(m, U), NEW s, s = UsersIn(m)
    PROVE  List(m.server.user_head, NextUser(m), s, UserNode) /\ Nodes(s) = U
           /\ Len(s) = m.server.num_users
BY ChainHas, Addresses DEF UsersHeld, UsersIn, NextUser

(* The same of rooms,                                                        *)
LEMMA RoomsFound ==
    ASSUME NEW m, NEW R, RoomsHeld(m, R), NEW s, s = RoomsIn(m)
    PROVE  List(m.server.chatroom_head, NextRoom(m), s, RoomNode) /\ Nodes(s) = R
           /\ Len(s) = m.server.num_chatrooms
BY ChainHas, Addresses DEF RoomsHeld, RoomsIn, NextRoom

(* and of the users of a room.                                               *)
LEMMA MembersFound ==
    ASSUME NEW m, NEW r, NEW S, MembersHeld(m, r, S), NEW s, s = Members(m, r)
    PROVE  List(m.room[r].user_head, NextMember(m), s, UserNode) /\ Nodes(s) = S
           /\ Len(s) = m.room[r].num_users
BY ChainHas, Addresses DEF MembersHeld, Members, NextMember

(* From m to n, the list of users is without u and the others are the same.  *)
UserTaken(m, n, U, u) ==
    /\ n \in Memory /\ n.room = m.room /\ n.heap = m.heap \ {u}
    /\ n.server.chatroom_head = m.server.chatroom_head
    /\ n.server.num_chatrooms = m.server.num_chatrooms
    /\ \A v \in UserNode : /\ NextMember(n)[v] = NextMember(m)[v]
                           /\ n.user[v].is_in_chatroom = m.user[v].is_in_chatroom
    /\ UsersHeld(n, U \ {u})

(* server_remove_user_node takes a user out of the list of users, if it is   *)
(* on it, and changes no other list.                                         *)
LEMMA RemoveUserDoes ==
    ASSUME NEW m \in Memory, NEW U, U \subseteq UserNode, UsersHeld(m, U), NEW u \in U,
           NEW n, n = server_remove_user_node(m, u)
    PROVE  UserTaken(m, n, U, u)
<1>1. m.server \in Servers /\ m.user \in [UserNode -> UserFields] /\ m.room \in [RoomNode -> RoomFields]
      /\ m.heap \in SUBSET (UserNode \cup RoomNode) /\ u \in UserNode
    BY DEF Memory
<1>2. PICK i \in Int : i = m.server.num_users - 1
    BY <1>1 DEF Servers
<1>3. PICK link \in UserLink : link = m.user[u].next_in_server
    BY <1>1 DEF UserFields
<1>4. CASE m.server.user_head = u
    <2>1. n = Freed([m EXCEPT !.server.user_head = link, !.server.num_users = i], u)
        BY <1>2, <1>3, <1>4 DEF server_remove_user_node
    <2>2. /\ n.room = m.room /\ n.heap = m.heap \ {u} /\ n.user = m.user
          /\ n.server = [m.server EXCEPT !.user_head = link, !.num_users = i]
          /\ n = [server |-> n.server, user |-> n.user, room |-> n.room, heap |-> n.heap]
        BY <2>1 DEF Freed, Memory
    <2>3. n.server \in Servers /\ n.server.user_head = link /\ n.server.num_users = i
          /\ n.server.chatroom_head = m.server.chatroom_head
          /\ n.server.num_chatrooms = m.server.num_chatrooms
        BY <1>1, <2>2 DEF Servers
    <2>4. n \in Memory
        BY <1>1, <2>2, <2>3 DEF Memory
    <2>5. NextUser(n) = NextUser(m) /\ NextMember(n) = NextMember(m) /\ NextUser(m)[u] = link
        BY <1>1, <1>3, <2>2 DEF NextUser, NextMember
    <2>6. HasList(u, NextUser(m), U, m.server.num_users, UserNode) /\ u # NULL
        BY <1>1, <1>4, Addresses DEF UsersHeld
    <2>7. HasList(link, NextUser(n), U \ {u}, i, UserNode)
        BY <1>2, <2>5, <2>6, ListRemoveHead
    <2>8. UsersHeld(n, U \ {u})
        BY <2>3, <2>7 DEF UsersHeld
    <2> QED  BY <2>2, <2>3, <2>4, <2>5, <2>8 DEF UserTaken
<1>5. CASE m.server.user_head # u
    <2>1. PICK s : s = UsersIn(m)
        OBVIOUS
    <2>2. List(m.server.user_head, NextUser(m), s, UserNode) /\ Nodes(s) = U /\ Len(s) = m.server.num_users
        BY <2>1, UsersFound
    <2>3. PICK p \in U \ {u} :
             /\ Before(s, u) = {p}
             /\ TakenOut(m.server.user_head, NextUser(m), U, Len(s), u, p, UserNode)
        BY <1>5, <2>2, ListRemoveLater
    <2>4. n = Freed([m EXCEPT !.user[p].next_in_server = link, !.server.num_users = i], u)
        <3>1. Before(UsersIn(m), u) = {p}
            BY <2>1, <2>3
        <3>2. (CHOOSE v \in {p} : TRUE) = p
            OBVIOUS
        <3> QED  BY <1>2, <1>3, <1>5, <3>1, <3>2 DEF server_remove_user_node
    <2>5. /\ n.room = m.room /\ n.heap = m.heap \ {u}
          /\ n.user = [m.user EXCEPT ![p].next_in_server = link]
          /\ n.server = [m.server EXCEPT !.num_users = i]
          /\ n = [server |-> n.server, user |-> n.user, room |-> n.room, heap |-> n.heap]
        BY <2>4 DEF Freed, Memory
    <2>6. n.server \in Servers /\ n.server.user_head = m.server.user_head /\ n.server.num_users = i
          /\ n.server.chatroom_head = m.server.chatroom_head
          /\ n.server.num_chatrooms = m.server.num_chatrooms
        BY <1>1, <2>5 DEF Servers
    <2>7. n.user \in [UserNode -> UserFields]
        BY <1>1, <2>5 DEF UserFields
    <2>8. n \in Memory
        BY <1>1, <2>5, <2>6, <2>7 DEF Memory
    <2>9. \A v \in UserNode : /\ n.user[v].next_in_chatroom = m.user[v].next_in_chatroom
                              /\ n.user[v].is_in_chatroom = m.user[v].is_in_chatroom
                              /\ n.user[v].next_in_server = IF v = p THEN link ELSE m.user[v].next_in_server
        BY <1>1, <2>5 DEF UserFields
    <2>10. \A v \in UserNode : /\ NextMember(n)[v] = NextMember(m)[v]
                               /\ NextUser(n)[v] = IF v = p THEN link ELSE NextUser(m)[v]
        BY <2>9 DEF NextMember, NextUser
    <2>11. NextUser(m)[u] = link /\ p \in UserNode
        BY <1>1, <1>3, <2>3 DEF NextUser
    <2>12. NextUser(n)[p] = NextUser(m)[u] /\ \A y \in U \ {p} : NextUser(n)[y] = NextUser(m)[y]
        BY <2>10, <2>11
    <2>13. HasList(m.server.user_head, NextUser(n), U \ {u}, Len(s) - 1, UserNode)
        BY <2>3, <2>12 DEF TakenOut
    <2>14. UsersHeld(n, U \ {u})
        BY <1>2, <2>2, <2>6, <2>13 DEF UsersHeld
    <2> QED  BY <2>5, <2>6, <2>8, <2>9, <2>10, <2>14 DEF UserTaken
<1> QED  BY <1>4, <1>5

(* server_remove_chatroom_node does the same to the list of rooms.           *)
LEMMA RemoveRoomDoes ==
    ASSUME NEW m \in Memory, NEW R, R \subseteq RoomNode, RoomsHeld(m, R), NEW r \in R,
           NEW n, n = server_remove_chatroom_node(m, r)
    PROVE  /\ n \in Memory /\ n.user = m.user /\ n.heap = m.heap \ {r}
           /\ n.server.user_head = m.server.user_head
           /\ n.server.num_users = m.server.num_users
           /\ \A t \in RoomNode : /\ n.room[t].user_head = m.room[t].user_head
                                  /\ n.room[t].num_users = m.room[t].num_users
           /\ RoomsHeld(n, R \ {r})
<1>1. m.server \in Servers /\ m.user \in [UserNode -> UserFields] /\ m.room \in [RoomNode -> RoomFields]
      /\ m.heap \in SUBSET (UserNode \cup RoomNode) /\ r \in RoomNode
    BY DEF Memory
<1>2. PICK i \in Int : i = m.server.num_chatrooms - 1
    BY <1>1 DEF Servers
<1>3. PICK link \in RoomLink : link = m.room[r].next
    BY <1>1 DEF RoomFields
<1>4. CASE m.server.chatroom_head = r
    <2>1. n = Freed([m EXCEPT !.server.chatroom_head = link, !.server.num_chatrooms = i], r)
        BY <1>2, <1>3, <1>4 DEF server_remove_chatroom_node
    <2>2. /\ n.room = m.room /\ n.heap = m.heap \ {r} /\ n.user = m.user
          /\ n.server = [m.server EXCEPT !.chatroom_head = link, !.num_chatrooms = i]
          /\ n = [server |-> n.server, user |-> n.user, room |-> n.room, heap |-> n.heap]
        BY <2>1 DEF Freed, Memory
    <2>3. n.server \in Servers /\ n.server.chatroom_head = link /\ n.server.num_chatrooms = i
          /\ n.server.user_head = m.server.user_head
          /\ n.server.num_users = m.server.num_users
        BY <1>1, <2>2 DEF Servers
    <2>4. n \in Memory
        BY <1>1, <2>2, <2>3 DEF Memory
    <2>5. NextRoom(n) = NextRoom(m) /\ NextRoom(m)[r] = link
        BY <1>1, <1>3, <2>2 DEF NextRoom
    <2>6. HasList(r, NextRoom(m), R, m.server.num_chatrooms, RoomNode) /\ r # NULL
        BY <1>1, <1>4, Addresses DEF RoomsHeld
    <2>7. HasList(link, NextRoom(n), R \ {r}, i, RoomNode)
        BY <1>2, <2>5, <2>6, ListRemoveHead
    <2>8. RoomsHeld(n, R \ {r})
        BY <2>3, <2>7 DEF RoomsHeld
    <2> QED  BY <2>2, <2>3, <2>4, <2>8
<1>5. CASE m.server.chatroom_head # r
    <2>1. PICK s : s = RoomsIn(m)
        OBVIOUS
    <2>2. List(m.server.chatroom_head, NextRoom(m), s, RoomNode) /\ Nodes(s) = R
          /\ Len(s) = m.server.num_chatrooms
        BY <2>1, RoomsFound
    <2>3. PICK p \in R \ {r} :
             /\ Before(s, r) = {p}
             /\ TakenOut(m.server.chatroom_head, NextRoom(m), R, Len(s), r, p, RoomNode)
        BY <1>5, <2>2, ListRemoveLater
    <2>4. n = Freed([m EXCEPT !.room[p].next = link, !.server.num_chatrooms = i], r)
        <3>1. Before(RoomsIn(m), r) = {p}
            BY <2>1, <2>3
        <3>2. (CHOOSE v \in {p} : TRUE) = p
            OBVIOUS
        <3> QED  BY <1>2, <1>3, <1>5, <3>1, <3>2 DEF server_remove_chatroom_node
    <2>5. /\ n.user = m.user /\ n.heap = m.heap \ {r}
          /\ n.room = [m.room EXCEPT ![p].next = link]
          /\ n.server = [m.server EXCEPT !.num_chatrooms = i]
          /\ n = [server |-> n.server, user |-> n.user, room |-> n.room, heap |-> n.heap]
        BY <2>4 DEF Freed, Memory
    <2>6. n.server \in Servers /\ n.server.chatroom_head = m.server.chatroom_head
          /\ n.server.num_chatrooms = i
          /\ n.server.user_head = m.server.user_head
          /\ n.server.num_users = m.server.num_users
        BY <1>1, <2>5 DEF Servers
    <2>7. n.room \in [RoomNode -> RoomFields]
        BY <1>1, <2>5 DEF RoomFields
    <2>8. n \in Memory
        BY <1>1, <2>5, <2>6, <2>7 DEF Memory
    <2>9. \A t \in RoomNode : /\ n.room[t].user_head = m.room[t].user_head
                              /\ n.room[t].num_users = m.room[t].num_users
                              /\ n.room[t].next = IF t = p THEN link ELSE m.room[t].next
        BY <1>1, <2>5 DEF RoomFields
    <2>10. \A t \in RoomNode : NextRoom(n)[t] = IF t = p THEN link ELSE NextRoom(m)[t]
        BY <2>9 DEF NextRoom
    <2>11. NextRoom(m)[r] = link /\ p \in RoomNode
        BY <1>1, <1>3, <2>3 DEF NextRoom
    <2>12. NextRoom(n)[p] = NextRoom(m)[r] /\ \A y \in R \ {p} : NextRoom(n)[y] = NextRoom(m)[y]
        BY <2>10, <2>11
    <2>13. HasList(m.server.chatroom_head, NextRoom(n), R \ {r}, Len(s) - 1, RoomNode)
        BY <2>3, <2>12 DEF TakenOut
    <2>14. RoomsHeld(n, R \ {r})
        BY <1>2, <2>2, <2>6, <2>13 DEF RoomsHeld
    <2> QED  BY <2>5, <2>6, <2>8, <2>9, <2>14
<1> QED  BY <1>4, <1>5

(* chatroom_node_remove_user_node takes a user out of a room, through links  *)
(* of users of that room only.                                               *)
LEMMA RemoveMemberDoes ==
    ASSUME NEW m \in Memory, NEW r \in RoomNode, NEW S, S \subseteq UserNode,
           MembersHeld(m, r, S), NEW u \in S,
           NEW n, n = chatroom_node_remove_user_node(m, r, u)
    PROVE  /\ n \in Memory /\ n.server = m.server /\ n.heap = m.heap
           /\ \A v \in UserNode : /\ NextUser(n)[v] = NextUser(m)[v]
                                  /\ v \notin S => NextMember(n)[v] = NextMember(m)[v]
                                  /\ n.user[v].is_in_chatroom =
                                        IF v = u THEN 0 ELSE m.user[v].is_in_chatroom
           /\ \A t \in RoomNode : /\ NextRoom(n)[t] = NextRoom(m)[t]
                                  /\ t # r => n.room[t] = m.room[t]
           /\ MembersHeld(n, r, S \ {u})
<1>1. m.server \in Servers /\ m.user \in [UserNode -> UserFields] /\ m.room \in [RoomNode -> RoomFields]
      /\ m.heap \in SUBSET (UserNode \cup RoomNode) /\ u \in UserNode
    BY DEF Memory
<1>2. PICK i \in Int : i = m.room[r].num_users - 1
    BY <1>1 DEF RoomFields
<1>3. PICK link \in UserLink : link = m.user[u].next_in_chatroom
    BY <1>1 DEF UserFields
<1>4. CASE m.room[r].user_head = u
    <2>1. n = [m EXCEPT !.room[r].user_head = link, !.room[r].num_users = i,
                        !.user[u].is_in_chatroom = 0]
        BY <1>2, <1>3, <1>4 DEF chatroom_node_remove_user_node
    <2>2. /\ n.server = m.server /\ n.heap = m.heap
          /\ n.user = [m.user EXCEPT ![u].is_in_chatroom = 0]
          /\ n.room = [m.room EXCEPT ![r].user_head = link, ![r].num_users = i]
          /\ n = [server |-> n.server, user |-> n.user, room |-> n.room, heap |-> n.heap]
        BY <2>1 DEF Memory
    <2>3. n.room \in [RoomNode -> RoomFields] /\ n.room[r].user_head = link /\ n.room[r].num_users = i
          /\ \A t \in RoomNode : n.room[t].next = m.room[t].next /\ (t # r => n.room[t] = m.room[t])
        BY <1>1, <2>2 DEF RoomFields
    <2>4. n.user \in [UserNode -> UserFields]
          /\ \A v \in UserNode : /\ n.user[v].next_in_chatroom = m.user[v].next_in_chatroom
                                 /\ n.user[v].next_in_server = m.user[v].next_in_server
                                 /\ n.user[v].is_in_chatroom =
                                       IF v = u THEN 0 ELSE m.user[v].is_in_chatroom
        BY <1>1, <2>2 DEF UserFields
    <2>5. n \in Memory
        BY <1>1, <2>2, <2>3, <2>4 DEF Memory
    <2>6. NextUser(n) = NextUser(m) /\ NextMember(n) = NextMember(m) /\ NextRoom(n) = NextRoom(m)
          /\ NextMember(m)[u] = link
        BY <1>1, <1>3, <2>3, <2>4 DEF NextUser, NextMember, NextRoom
    <2>7. HasList(u, NextMember(m), S, m.room[r].num_users, UserNode) /\ u # NULL
        BY <1>1, <1>4, Addresses DEF MembersHeld
    <2>8. HasList(link, NextMember(n), S \ {u}, i, UserNode)
        BY <1>2, <2>6, <2>7, ListRemoveHead
    <2>9. MembersHeld(n, r, S \ {u})
        BY <2>3, <2>8 DEF MembersHeld
    <2> QED  BY <2>2, <2>3, <2>4, <2>5, <2>6, <2>9
<1>5. CASE m.room[r].user_head # u
    <2>1. PICK s : s = Members(m, r)
        OBVIOUS
    <2>2. List(m.room[r].user_head, NextMember(m), s, UserNode) /\ Nodes(s) = S
          /\ Len(s) = m.room[r].num_users
        BY <2>1, MembersFound
    <2>3. PICK p \in S \ {u} :
             /\ Before(s, u) = {p}
             /\ TakenOut(m.room[r].user_head, NextMember(m), S, Len(s), u, p, UserNode)
        BY <1>5, <2>2, ListRemoveLater
    <2>4. n = [m EXCEPT !.user[p].next_in_chatroom = link, !.room[r].num_users = i,
                        !.user[u].is_in_chatroom = 0]
        <3>1. Before(Members(m, r), u) = {p}
            BY <2>1, <2>3
        <3>2. (CHOOSE v \in {p} : TRUE) = p
            OBVIOUS
        <3> QED  BY <1>2, <1>3, <1>5, <3>1, <3>2 DEF chatroom_node_remove_user_node
    <2>5. /\ n.server = m.server /\ n.heap = m.heap
          /\ n.user = [m.user EXCEPT ![p].next_in_chatroom = link, ![u].is_in_chatroom = 0]
          /\ n.room = [m.room EXCEPT ![r].num_users = i]
          /\ n = [server |-> n.server, user |-> n.user, room |-> n.room, heap |-> n.heap]
        BY <2>4 DEF Memory
    <2>6. n.room \in [RoomNode -> RoomFields] /\ n.room[r].user_head = m.room[r].user_head
          /\ n.room[r].num_users = i
          /\ \A t \in RoomNode : n.room[t].next = m.room[t].next /\ (t # r => n.room[t] = m.room[t])
        BY <1>1, <2>5 DEF RoomFields
    <2>7. n.user \in [UserNode -> UserFields]
          /\ \A v \in UserNode : /\ n.user[v].next_in_chatroom =
                                       IF v = p THEN link ELSE m.user[v].next_in_chatroom
                                 /\ n.user[v].next_in_server = m.user[v].next_in_server
                                 /\ n.user[v].is_in_chatroom =
                                       IF v = u THEN 0 ELSE m.user[v].is_in_chatroom
        <3>1. PICK f : f = [m.user EXCEPT ![p].next_in_chatroom = link]
            OBVIOUS
        <3>2. n.user = [f EXCEPT ![u].is_in_chatroom = 0]
            BY <2>5, <3>1
        <3>3. f \in [UserNode -> UserFields]
              /\ \A v \in UserNode : /\ f[v].next_in_chatroom =
                                           IF v = p THEN link ELSE m.user[v].next_in_chatroom
                                     /\ f[v].next_in_server = m.user[v].next_in_server
                                     /\ f[v].is_in_chatroom = m.user[v].is_in_chatroom
            BY <1>1, <3>1 DEF UserFields
        <3> QED  BY <1>1, <3>2, <3>3 DEF UserFields
    <2>8. n \in Memory
        BY <1>1, <2>5, <2>6, <2>7 DEF Memory
    <2>9. NextUser(n) = NextUser(m) /\ NextRoom(n) = NextRoom(m)
          /\ \A v \in UserNode : NextMember(n)[v] = IF v = p THEN link ELSE NextMember(m)[v]
        BY <2>6, <2>7 DEF NextUser, NextMember, NextRoom
    <2>10. NextMember(m)[u] = link /\ p \in UserNode
        BY <1>1, <1>3, <2>3 DEF NextMember
    <2>11. NextMember(n)[p] = NextMember(m)[u] /\ \A y \in S \ {p} : NextMember(n)[y] = NextMember(m)[y]
        BY <2>9, <2>10
    <2>12. HasList(m.room[r].user_head, NextMember(n), S \ {u}, Len(s) - 1, UserNode)
        BY <2>3, <2>11 DEF TakenOut
    <2>13. MembersHeld(n, r, S \ {u})
        BY <1>2, <2>2, <2>6, <2>12 DEF MembersHeld
    <2>14. \A v \in UserNode : v \notin S => NextMember(n)[v] = NextMember(m)[v]
        BY <2>3, <2>9
    <2> QED  BY <2>5, <2>6, <2>7, <2>8, <2>9, <2>13, <2>14
<1> QED  BY <1>4, <1>5

(* chatroom_node_add_user_node puts a user before the others of a room.      *)
LEMMA AddMemberDoes ==
    ASSUME NEW m \in Memory, NEW r \in RoomNode, NEW S, S \subseteq UserNode,
           MembersHeld(m, r, S), NEW u \in UserNode, u \notin S,
           NEW n, n = chatroom_node_add_user_node(m, r, u)
    PROVE  /\ n \in Memory /\ n.server = m.server /\ n.heap = m.heap
           /\ \A v \in UserNode : /\ NextUser(n)[v] = NextUser(m)[v]
                                  /\ v # u => NextMember(n)[v] = NextMember(m)[v]
                                  /\ n.user[v].is_in_chatroom =
                                        IF v = u THEN 1 ELSE m.user[v].is_in_chatroom
           /\ \A t \in RoomNode : /\ NextRoom(n)[t] = NextRoom(m)[t]
                                  /\ t # r => n.room[t] = m.room[t]
           /\ n.room[r].num_users = m.room[r].num_users + 1
           /\ MembersHeld(n, r, S \cup {u})
<1>1. m.server \in Servers /\ m.user \in [UserNode -> UserFields] /\ m.room \in [RoomNode -> RoomFields]
      /\ m.heap \in SUBSET (UserNode \cup RoomNode)
    BY DEF Memory
<1>2. PICK i \in Int : i = m.room[r].num_users + 1
    BY <1>1 DEF RoomFields
<1>3. PICK head \in UserLink : head = m.room[r].user_head
    BY <1>1 DEF RoomFields
<1>4. n = [m EXCEPT !.user[u].next_in_chatroom = head, !.room[r].user_head = u,
                    !.room[r].num_users = i, !.user[u].is_in_chatroom = 1]
    BY <1>1, <1>2, <1>3 DEF chatroom_node_add_user_node, Memory
<1>5. /\ n.server = m.server /\ n.heap = m.heap
      /\ n.user = [m.user EXCEPT ![u].next_in_chatroom = head, ![u].is_in_chatroom = 1]
      /\ n.room = [m.room EXCEPT ![r].user_head = u, ![r].num_users = i]
      /\ n = [server |-> n.server, user |-> n.user, room |-> n.room, heap |-> n.heap]
    BY <1>4 DEF Memory
<1>6. u \in UserLink
    BY DEF UserLink
<1>7. n.room \in [RoomNode -> RoomFields] /\ n.room[r].user_head = u /\ n.room[r].num_users = i
      /\ \A t \in RoomNode : n.room[t].next = m.room[t].next /\ (t # r => n.room[t] = m.room[t])
    <2>1. PICK f : f = [m.room EXCEPT ![r].user_head = u]
        OBVIOUS
    <2>2. n.room = [f EXCEPT ![r].num_users = i]
        BY <1>5, <2>1
    <2>3. f \in [RoomNode -> RoomFields] /\ f[r].user_head = u
          /\ \A t \in RoomNode : f[t].next = m.room[t].next /\ (t # r => f[t] = m.room[t])
        BY <1>1, <1>6, <2>1 DEF RoomFields
    <2> QED  BY <2>2, <2>3 DEF RoomFields
<1>8. n.user \in [UserNode -> UserFields]
      /\ \A v \in UserNode : /\ n.user[v].next_in_chatroom =
                                   IF v = u THEN head ELSE m.user[v].next_in_chatroom
                             /\ n.user[v].next_in_server = m.user[v].next_in_server
                             /\ n.user[v].is_in_chatroom =
                                   IF v = u THEN 1 ELSE m.user[v].is_in_chatroom
    BY <1>1, <1>5 DEF UserFields
<1>9. n \in Memory
    BY <1>1, <1>5, <1>7, <1>8 DEF Memory
<1>10. NextUser(n) = NextUser(m) /\ NextRoom(n) = NextRoom(m)
       /\ \A v \in UserNode : NextMember(n)[v] = IF v = u THEN head ELSE NextMember(m)[v]
    BY <1>7, <1>8 DEF NextUser, NextMember, NextRoom
<1>11. HasList(head, NextMember(m), S, m.room[r].num_users, UserNode) /\ NULL \notin UserNode
    BY <1>3, Addresses DEF MembersHeld
<1>12. NextMember(n)[u] = head /\ \A y \in S : NextMember(n)[y] = NextMember(m)[y]
    BY <1>10
<1>13. HasList(u, NextMember(n), S \cup {u}, m.room[r].num_users + 1, UserNode)
    BY <1>11, <1>12, ListAdd
<1>14. MembersHeld(n, r, S \cup {u})
    BY <1>2, <1>7, <1>13 DEF MembersHeld
<1> QED  BY <1>2, <1>5, <1>7, <1>8, <1>9, <1>10, <1>14

(* server_add_chatroom_node puts a room before the others.                   *)
LEMMA AddRoomDoes ==
    ASSUME NEW m \in Memory, NEW R, R \subseteq RoomNode, RoomsHeld(m, R),
           NEW r \in RoomNode, r \notin R, NEW n, n = server_add_chatroom_node(m, r)
    PROVE  /\ n \in Memory /\ n.user = m.user /\ n.heap = m.heap
           /\ n.server.user_head = m.server.user_head
           /\ n.server.num_users = m.server.num_users
           /\ \A t \in RoomNode : /\ n.room[t].user_head = m.room[t].user_head
                                  /\ n.room[t].num_users = m.room[t].num_users
           /\ RoomsHeld(n, R \cup {r})
<1>1. m.server \in Servers /\ m.user \in [UserNode -> UserFields] /\ m.room \in [RoomNode -> RoomFields]
      /\ m.heap \in SUBSET (UserNode \cup RoomNode)
    BY DEF Memory
<1>2. PICK i \in Int : i = m.server.num_chatrooms + 1
    BY <1>1 DEF Servers
<1>3. PICK head \in RoomLink : head = m.server.chatroom_head
    BY <1>1 DEF Servers
<1>4. n = [m EXCEPT !.room[r].next = head, !.server.chatroom_head = r, !.server.num_chatrooms = i]
    BY <1>1, <1>2, <1>3 DEF server_add_chatroom_node, Memory
<1>5. /\ n.user = m.user /\ n.heap = m.heap
      /\ n.room = [m.room EXCEPT ![r].next = head]
      /\ n.server = [m.server EXCEPT !.chatroom_head = r, !.num_chatrooms = i]
      /\ n = [server |-> n.server, user |-> n.user, room |-> n.room, heap |-> n.heap]
    BY <1>4 DEF Memory
<1>6. r \in RoomLink
    BY DEF RoomLink
<1>7. n.server \in Servers /\ n.server.chatroom_head = r /\ n.server.num_chatrooms = i
      /\ n.server.user_head = m.server.user_head /\ n.server.num_users = m.server.num_users
    BY <1>1, <1>5, <1>6 DEF Servers
<1>8. n.room \in [RoomNode -> RoomFields]
      /\ \A t \in RoomNode : /\ n.room[t].user_head = m.room[t].user_head
                             /\ n.room[t].num_users = m.room[t].num_users
                             /\ n.room[t].next = IF t = r THEN head ELSE m.room[t].next
    BY <1>1, <1>5 DEF RoomFields
<1>9. n \in Memory
    BY <1>1, <1>5, <1>7, <1>8 DEF Memory
<1>10. \A t \in RoomNode : NextRoom(n)[t] = IF t = r THEN head ELSE NextRoom(m)[t]
    BY <1>8 DEF NextRoom
<1>11. HasList(head, NextRoom(m), R, m.server.num_chatrooms, RoomNode) /\ NULL \notin RoomNode
    BY <1>3, Addresses DEF RoomsHeld
<1>12. NextRoom(n)[r] = head /\ \A y \in R : NextRoom(n)[y] = NextRoom(m)[y]
    BY <1>10
<1>13. HasList(r, NextRoom(n), R \cup {r}, m.server.num_chatrooms + 1, RoomNode)
    BY <1>11, <1>12, ListAdd
<1>14. RoomsHeld(n, R \cup {r})
    BY <1>2, <1>7, <1>13 DEF RoomsHeld
<1> QED  BY <1>5, <1>7, <1>8, <1>9, <1>14

(* malloc and chatroom_node_init make a room of its first user.              *)
LEMMA RoomInitDoes ==
    ASSUME NEW m \in Memory, NEW r \in RoomNode, NEW u \in UserNode,
           NEW n, n = chatroom_node_init(m, r, u)
    PROVE  /\ n \in Memory /\ n.server = m.server /\ n.heap = m.heap \cup {r}
           /\ \A v \in UserNode : /\ NextUser(n)[v] = NextUser(m)[v]
                                  /\ v # u => NextMember(n)[v] = NextMember(m)[v]
                                  /\ n.user[v].is_in_chatroom =
                                        IF v = u THEN 1 ELSE m.user[v].is_in_chatroom
           /\ \A t \in RoomNode \ {r} : n.room[t] = m.room[t]
           /\ MembersHeld(n, r, {u})
<1>1. PICK k : k = [m EXCEPT !.room[r] = NoRoom, !.heap = @ \cup {r}]
    OBVIOUS
<1>2. /\ k \in Memory /\ k.server = m.server /\ k.user = m.user /\ k.heap = m.heap \cup {r}
      /\ k.room[r].user_head = NULL /\ k.room[r].num_users = 0
      /\ \A t \in RoomNode \ {r} : k.room[t] = m.room[t]
    <2>1. k.server = m.server /\ k.user = m.user /\ k.heap = m.heap \cup {r}
          /\ k.room = [m.room EXCEPT ![r] = NoRoom]
          /\ k = [server |-> k.server, user |-> k.user, room |-> k.room, heap |-> k.heap]
        BY <1>1 DEF Memory
    <2>2. NoRoom \in RoomFields /\ NoRoom.user_head = NULL /\ NoRoom.num_users = 0
        BY DEF NoRoom, RoomFields, UserLink, RoomLink
    <2>3. m.room \in [RoomNode -> RoomFields]
        BY DEF Memory
    <2>4. k.room \in [RoomNode -> RoomFields] /\ k.room[r] = NoRoom
          /\ \A t \in RoomNode \ {r} : k.room[t] = m.room[t]
        BY <2>1, <2>2, <2>3
    <2>5. k \in Memory
        BY <2>1, <2>4 DEF Memory
    <2> QED  BY <2>1, <2>2, <2>4, <2>5
<1>3. MembersHeld(k, r, {})
    BY <1>2, EmptyList DEF MembersHeld
<1>4. PICK l : l = chatroom_node_add_user_node(k, r, u)
    OBVIOUS
<1>5. n = [l EXCEPT !.room[r].num_users = 1]
    BY <1>1, <1>4 DEF chatroom_node_init
<1>6. /\ l \in Memory /\ l.server = k.server /\ l.heap = k.heap
      /\ \A v \in UserNode : /\ NextUser(l)[v] = NextUser(k)[v]
                             /\ v # u => NextMember(l)[v] = NextMember(k)[v]
                             /\ l.user[v].is_in_chatroom =
                                   IF v = u THEN 1 ELSE k.user[v].is_in_chatroom
      /\ \A t \in RoomNode : t # r => l.room[t] = k.room[t]
      /\ l.room[r].num_users = k.room[r].num_users + 1
      /\ MembersHeld(l, r, {} \cup {u})
    <2>1. PICK S : S = {}
        OBVIOUS
    <2>2. k \in Memory /\ S \subseteq UserNode /\ MembersHeld(k, r, S) /\ u \notin S
        BY <1>2, <1>3, <2>1
    <2>3. /\ l \in Memory /\ l.server = k.server /\ l.heap = k.heap
          /\ \A v \in UserNode : /\ NextUser(l)[v] = NextUser(k)[v]
                                 /\ v # u => NextMember(l)[v] = NextMember(k)[v]
                                 /\ l.user[v].is_in_chatroom =
                                       IF v = u THEN 1 ELSE k.user[v].is_in_chatroom
          /\ \A t \in RoomNode : /\ NextRoom(l)[t] = NextRoom(k)[t]
                                 /\ t # r => l.room[t] = k.room[t]
          /\ l.room[r].num_users = k.room[r].num_users + 1
          /\ MembersHeld(l, r, S \cup {u})
        BY <1>4, <2>2, AddMemberDoes
    <2> QED  BY <2>1, <2>3
<1>7. n = l
    <2>1. l.room[r].num_users = 1 /\ l.room \in [RoomNode -> RoomFields]
        BY <1>2, <1>6 DEF Memory
    <2>2. [l.room EXCEPT ![r].num_users = 1] = l.room
        BY <2>1 DEF RoomFields
    <2> QED  BY <1>5, <1>6, <2>2 DEF Memory
<1>8. NextUser(k) = NextUser(m) /\ NextMember(k) = NextMember(m)
    BY <1>2 DEF NextUser, NextMember
<1>9. {} \cup {u} = {u}
    OBVIOUS
<1> QED  BY <1>2, <1>6, <1>7, <1>8, <1>9

-----------------------------------------------------------------------------
(* What is held after each of them.                                          *)

InNone(u, R, M) == \A r \in R : u \notin M[r]

(* A user out of a room.                                                     *)
LEMMA MemberOut ==
    ASSUME NEW m, NEW U, NEW R, NEW M, Holds(m, U, R, M), NEW r \in R, NEW u \in M[r],
           NEW n, n = chatroom_node_remove_user_node(m, r, u)
    PROVE  Holds(n, U, R, [M EXCEPT ![r] = M[r] \ {u}])
<1>1. m \in Memory /\ m.heap = U \cup R /\ U \subseteq UserNode /\ R \subseteq RoomNode
    BY HoldsAddresses DEF Holds
<1>2. PICK S : S = M[r]
    OBVIOUS
<1>3. M \in [RoomNode -> SUBSET UserNode] /\ S \subseteq U /\ r \in RoomNode
    BY <1>1, <1>2 DEF Holds, Apart
<1>4. S \subseteq UserNode /\ MembersHeld(m, r, S) /\ u \in S
    BY <1>1, <1>2, <1>3 DEF Holds
<1>5. /\ n \in Memory /\ n.server = m.server /\ n.heap = m.heap
      /\ \A v \in UserNode : /\ NextUser(n)[v] = NextUser(m)[v]
                             /\ v \notin S => NextMember(n)[v] = NextMember(m)[v]
                             /\ n.user[v].is_in_chatroom =
                                   IF v = u THEN 0 ELSE m.user[v].is_in_chatroom
      /\ \A t \in RoomNode : /\ NextRoom(n)[t] = NextRoom(m)[t]
                             /\ t # r => n.room[t] = m.room[t]
      /\ MembersHeld(n, r, S \ {u})
    BY <1>1, <1>3, <1>4, RemoveMemberDoes
<1>6. PICK K : K = [M EXCEPT ![r] = S \ {u}]
    OBVIOUS
<1>7. K \in [RoomNode -> SUBSET UserNode] /\ K[r] = S \ {u} /\ \A t \in RoomNode \ {r} : K[t] = M[t]
    BY <1>3, <1>4, <1>6
<1>8. UsersHeld(n, U)
    BY <1>1, <1>5, UsersAside DEF Holds
<1>9. RoomsHeld(n, R)
    BY <1>1, <1>5, RoomsAside DEF Holds
<1>10. ASSUME NEW t \in R PROVE MembersHeld(n, t, K[t])
    <2>1. CASE t = r
        BY <1>5, <1>7, <2>1
    <2>2. CASE t # r
        <3>1. K[t] = M[t] /\ n.room[t] = m.room[t] /\ MembersHeld(m, t, M[t])
            BY <1>1, <1>5, <1>7, <2>2 DEF Holds
        <3>2. \A v \in M[t] : v \in UserNode /\ v \notin S
            BY <1>1, <1>2, <2>2 DEF Holds, Apart
        <3>3. \A v \in M[t] : NextMember(n)[v] = NextMember(m)[v]
            BY <1>5, <3>2
        <3> QED  BY <3>1, <3>3, MembersAside
    <2> QED  BY <2>1, <2>2
<1>11. Apart(U, R, K)
    <2>1. ASSUME NEW t \in R PROVE K[t] \subseteq M[t]
        BY <1>1, <1>2, <1>7
    <2> QED  BY <1>7, <2>1 DEF Holds, Apart
<1>12. Flags(n, U, R, K)
    <2>1. \A v \in U \ {u} : \A t \in R : v \in K[t] <=> v \in M[t]
        BY <1>1, <1>2, <1>7
    <2>2. \A t \in R : u \notin K[t]
        BY <1>1, <1>2, <1>7 DEF Holds, Apart
    <2>3. \A v \in U \ {u} : n.user[v].is_in_chatroom = m.user[v].is_in_chatroom
        BY <1>1, <1>5
    <2>4. u \in UserNode /\ n.user[u].is_in_chatroom = 0
        BY <1>4, <1>5
    <2> QED  BY <2>1, <2>2, <2>3, <2>4 DEF Holds, Flags
<1>13. Holds(n, U, R, K)
    BY <1>1, <1>5, <1>8, <1>9, <1>10, <1>11, <1>12 DEF Holds
<1> QED  BY <1>2, <1>6, <1>13

(* A user, who is in none, into a room.                                      *)
LEMMA MemberIn ==
    ASSUME NEW m, NEW U, NEW R, NEW M, Holds(m, U, R, M), NEW r \in R, NEW u \in U,
           InNone(u, R, M),
           NEW n, n = chatroom_node_add_user_node(m, r, u)
    PROVE  Holds(n, U, R, [M EXCEPT ![r] = M[r] \cup {u}])
<1>1. m \in Memory /\ m.heap = U \cup R /\ U \subseteq UserNode /\ R \subseteq RoomNode
    BY HoldsAddresses DEF Holds
<1>2. PICK S : S = M[r]
    OBVIOUS
<1>3. M \in [RoomNode -> SUBSET UserNode] /\ S \subseteq U /\ r \in RoomNode /\ u \in UserNode
    BY <1>1, <1>2 DEF Holds, Apart
<1>4. S \subseteq UserNode /\ MembersHeld(m, r, S) /\ u \notin S
    BY <1>1, <1>2, <1>3 DEF Holds, InNone
<1>5. /\ n \in Memory /\ n.server = m.server /\ n.heap = m.heap
      /\ \A v \in UserNode : /\ NextUser(n)[v] = NextUser(m)[v]
                             /\ v # u => NextMember(n)[v] = NextMember(m)[v]
                             /\ n.user[v].is_in_chatroom =
                                   IF v = u THEN 1 ELSE m.user[v].is_in_chatroom
      /\ \A t \in RoomNode : /\ NextRoom(n)[t] = NextRoom(m)[t]
                             /\ t # r => n.room[t] = m.room[t]
      /\ n.room[r].num_users = m.room[r].num_users + 1
      /\ MembersHeld(n, r, S \cup {u})
    <2>1. m \in Memory /\ r \in RoomNode /\ S \subseteq UserNode /\ MembersHeld(m, r, S)
          /\ u \in UserNode /\ u \notin S
        BY <1>1, <1>3, <1>4
    <2> QED  BY <2>1, AddMemberDoes
<1>6. PICK K : K = [M EXCEPT ![r] = S \cup {u}]
    OBVIOUS
<1>7. K \in [RoomNode -> SUBSET UserNode] /\ K[r] = S \cup {u} /\ \A t \in RoomNode \ {r} : K[t] = M[t]
    BY <1>3, <1>4, <1>6
<1>8. UsersHeld(n, U)
    BY <1>1, <1>5, UsersAside DEF Holds
<1>9. RoomsHeld(n, R)
    BY <1>1, <1>5, RoomsAside DEF Holds
<1>10. ASSUME NEW t \in R PROVE MembersHeld(n, t, K[t])
    <2>1. CASE t = r
        BY <1>5, <1>7, <2>1
    <2>2. CASE t # r
        <3>1. K[t] = M[t] /\ n.room[t] = m.room[t] /\ MembersHeld(m, t, M[t])
            BY <1>1, <1>5, <1>7, <2>2 DEF Holds
        <3>2. \A v \in M[t] : v \in UserNode /\ v # u
            BY <1>1 DEF Holds, Apart, InNone
        <3>3. \A v \in M[t] : NextMember(n)[v] = NextMember(m)[v]
            BY <1>5, <3>2
        <3> QED  BY <3>1, <3>3, MembersAside
    <2> QED  BY <2>1, <2>2
<1>11. \A v \in U \ {u} : \A t \in R : v \in K[t] <=> v \in M[t]
    BY <1>1, <1>2, <1>7
<1>12. \A t \in R : u \in K[t] <=> t = r
    BY <1>1, <1>7 DEF InNone
<1>13. Apart(U, R, K)
    <2>1. ASSUME NEW t \in R PROVE K[t] \subseteq U
        BY <1>1, <1>3, <1>7 DEF Holds, Apart
    <2>2. ASSUME NEW t \in R, NEW w \in R, NEW v \in K[t], v \in K[w] PROVE t = w
        BY <1>11, <1>12, <2>1, <2>2 DEF Holds, Apart
    <2> QED  BY <1>7, <2>1, <2>2 DEF Apart
<1>14. Flags(n, U, R, K)
    <2>1. \A v \in U \ {u} : n.user[v].is_in_chatroom = m.user[v].is_in_chatroom
        BY <1>1, <1>5
    <2>2. n.user[u].is_in_chatroom = 1
        BY <1>3, <1>5
    <2> QED  BY <1>11, <1>12, <2>1, <2>2 DEF Holds, Flags
<1>15. Holds(n, U, R, K)
    BY <1>1, <1>5, <1>8, <1>9, <1>10, <1>13, <1>14 DEF Holds
<1> QED  BY <1>2, <1>6, <1>15

(* A room without users is gone.                                             *)
LEMMA RoomOut ==
    ASSUME NEW m, NEW U, NEW R, NEW M, Holds(m, U, R, M), NEW r \in R, M[r] = {},
           NEW n, n = server_remove_chatroom_node(m, r)
    PROVE  Holds(n, U, R \ {r}, M)
<1>1. m \in Memory /\ m.heap = U \cup R /\ U \subseteq UserNode /\ R \subseteq RoomNode /\ RoomsHeld(m, R)
    BY HoldsAddresses DEF Holds
<1>2. /\ n \in Memory /\ n.user = m.user /\ n.heap = m.heap \ {r}
      /\ n.server.user_head = m.server.user_head
      /\ n.server.num_users = m.server.num_users
      /\ \A t \in RoomNode : /\ n.room[t].user_head = m.room[t].user_head
                             /\ n.room[t].num_users = m.room[t].num_users
      /\ RoomsHeld(n, R \ {r})
    <2>1. m \in Memory /\ R \subseteq RoomNode /\ RoomsHeld(m, R) /\ r \in R
        BY <1>1
    <2> QED  BY <2>1, RemoveRoomDoes
<1>3. NextUser(n) = NextUser(m) /\ NextMember(n) = NextMember(m)
    BY <1>2 DEF NextUser, NextMember
<1>4. UsersHeld(n, U)
    BY <1>2, <1>3, UsersAside DEF Holds
<1>5. ASSUME NEW t \in R \ {r} PROVE MembersHeld(n, t, M[t])
    <2>1. MembersHeld(m, t, M[t]) /\ t \in RoomNode
        BY <1>1 DEF Holds
    <2> QED  BY <1>2, <1>3, <2>1, MembersAside
<1>6. Apart(U, R \ {r}, M)
    BY DEF Holds, Apart
<1>7. Flags(n, U, R \ {r}, M)
    BY <1>2 DEF Holds, Flags
<1>8. n.heap = U \cup (R \ {r})
    BY <1>1, <1>2, Addresses
<1> QED  BY <1>2, <1>4, <1>5, <1>6, <1>7, <1>8 DEF Holds

(* A new room, with a user who is in none.                                   *)
LEMMA RoomIn ==
    ASSUME NEW m, NEW U, NEW R, NEW M, Holds(m, U, R, M), NEW r \in RoomNode, r \notin m.heap,
           NEW u \in U, InNone(u, R, M),
           NEW n, n = server_add_chatroom_node(chatroom_node_init(m, r, u), r)
    PROVE  Holds(n, U, R \cup {r}, [M EXCEPT ![r] = {u}])
<1>1. /\ m \in Memory /\ m.heap = U \cup R /\ U \subseteq UserNode /\ R \subseteq RoomNode
      /\ u \in UserNode /\ r \notin R /\ M \in [RoomNode -> SUBSET UserNode]
    BY HoldsAddresses DEF Holds, Apart
<1>2. PICK k : k = chatroom_node_init(m, r, u)
    OBVIOUS
<1>3. /\ k \in Memory /\ k.server = m.server /\ k.heap = m.heap \cup {r}
      /\ \A v \in UserNode : /\ NextUser(k)[v] = NextUser(m)[v]
                             /\ v # u => NextMember(k)[v] = NextMember(m)[v]
                             /\ k.user[v].is_in_chatroom =
                                   IF v = u THEN 1 ELSE m.user[v].is_in_chatroom
      /\ \A t \in RoomNode \ {r} : k.room[t] = m.room[t]
      /\ MembersHeld(k, r, {u})
    BY <1>1, <1>2, RoomInitDoes
<1>4. \A t \in R : NextRoom(k)[t] = NextRoom(m)[t]
    BY <1>1, <1>3 DEF NextRoom
<1>5. RoomsHeld(k, R)
    BY <1>3, <1>4, RoomsAside DEF Holds
<1>6. n = server_add_chatroom_node(k, r)
    BY <1>2
<1>7. /\ n \in Memory /\ n.user = k.user /\ n.heap = k.heap
      /\ n.server.user_head = k.server.user_head
      /\ n.server.num_users = k.server.num_users
      /\ \A t \in RoomNode : /\ n.room[t].user_head = k.room[t].user_head
                             /\ n.room[t].num_users = k.room[t].num_users
      /\ RoomsHeld(n, R \cup {r})
    BY <1>1, <1>3, <1>5, <1>6, AddRoomDoes
<1>8. NextUser(n) = NextUser(k) /\ NextMember(n) = NextMember(k)
    BY <1>7 DEF NextUser, NextMember
<1>9. UsersHeld(n, U)
    <2>1. \A v \in U : NextUser(n)[v] = NextUser(m)[v]
        BY <1>1, <1>3, <1>8
    <2> QED  BY <1>3, <1>7, <2>1, UsersAside DEF Holds
<1>10. PICK K : K = [M EXCEPT ![r] = {u}]
    OBVIOUS
<1>11. K \in [RoomNode -> SUBSET UserNode] /\ K[r] = {u} /\ \A t \in R : K[t] = M[t]
    BY <1>1, <1>10
<1>12. ASSUME NEW t \in R \cup {r} PROVE MembersHeld(n, t, K[t])
    <2>1. CASE t = r
        <3>1. MembersHeld(n, r, {u})
            <4>1. \A v \in {u} : NextMember(n)[v] = NextMember(k)[v]
                BY <1>8
            <4>2. n.room[r].user_head = k.room[r].user_head /\ n.room[r].num_users = k.room[r].num_users
                BY <1>7
            <4> QED  BY <1>3, <4>1, <4>2, MembersAside
        <3> QED  BY <1>11, <2>1, <3>1
    <2>2. CASE t # r
        <3>1. t \in R /\ t \in RoomNode
            BY <1>1, <2>2
        <3>2. K[t] = M[t] /\ MembersHeld(m, t, M[t])
              /\ n.room[t].user_head = m.room[t].user_head /\ n.room[t].num_users = m.room[t].num_users
            BY <1>3, <1>7, <1>11, <2>2, <3>1 DEF Holds
        <3>3. \A v \in M[t] : v \in UserNode /\ v # u
            BY <1>1, <3>1 DEF Holds, Apart, InNone
        <3>4. \A v \in M[t] : NextMember(n)[v] = NextMember(m)[v]
            BY <1>3, <1>8, <3>3
        <3> QED  BY <3>2, <3>4, MembersAside
    <2> QED  BY <2>1, <2>2
<1>13. Apart(U, R \cup {r}, K)
    <2>1. ASSUME NEW t \in R \cup {r} PROVE K[t] \subseteq U
        BY <1>11 DEF Holds, Apart
    <2>2. ASSUME NEW t \in R \cup {r}, NEW w \in R \cup {r}, NEW v \in K[t], v \in K[w] PROVE t = w
        BY <1>11, <2>2 DEF Holds, Apart, InNone
    <2> QED  BY <1>11, <2>1, <2>2 DEF Apart
<1>14. Flags(n, U, R \cup {r}, K)
    <2>1. \A v \in U : n.user[v].is_in_chatroom = IF v = u THEN 1 ELSE m.user[v].is_in_chatroom
        BY <1>1, <1>3, <1>7
    <2>2. \A v \in U \ {u} : (\E t \in R \cup {r} : v \in K[t]) <=> \E t \in R : v \in M[t]
        BY <1>11
    <2>3. \E t \in R \cup {r} : u \in K[t]
        BY <1>11
    <2> QED  BY <2>1, <2>2, <2>3 DEF Holds, Flags
<1>15. n.heap = U \cup (R \cup {r})
    BY <1>1, <1>3, <1>7
<1>16. Holds(n, U, R \cup {r}, K)
    BY <1>7, <1>9, <1>12, <1>13, <1>14, <1>15 DEF Holds
<1> QED  BY <1>10, <1>16

(* A user, who is in no room, is gone.                                       *)
LEMMA UserOut ==
    ASSUME NEW m, NEW U, NEW R, NEW M, Holds(m, U, R, M), NEW u \in U,
           InNone(u, R, M),
           NEW n, n = server_remove_user_node(m, u)
    PROVE  Holds(n, U \ {u}, R, M)
<1>1. m \in Memory /\ m.heap = U \cup R /\ U \subseteq UserNode /\ R \subseteq RoomNode /\ UsersHeld(m, U)
    BY HoldsAddresses DEF Holds
<1>2. /\ n \in Memory /\ n.room = m.room /\ n.heap = m.heap \ {u}
      /\ n.server.chatroom_head = m.server.chatroom_head
      /\ n.server.num_chatrooms = m.server.num_chatrooms
      /\ \A v \in UserNode : /\ NextMember(n)[v] = NextMember(m)[v]
                             /\ n.user[v].is_in_chatroom = m.user[v].is_in_chatroom
      /\ UsersHeld(n, U \ {u})
    <2>1. m \in Memory /\ U \subseteq UserNode /\ UsersHeld(m, U) /\ u \in U
        BY <1>1
    <2>2. UserTaken(m, n, U, u)
        BY <2>1, RemoveUserDoes
    <2> QED  BY <2>2 DEF UserTaken
<1>3. RoomsHeld(n, R)
    BY <1>2, RoomsAside DEF Holds, NextRoom
<1>4. ASSUME NEW t \in R PROVE MembersHeld(n, t, M[t])
    <2>1. MembersHeld(m, t, M[t])
        BY DEF Holds
    <2>2. M[t] \subseteq UserNode
        BY <1>1 DEF Holds, Apart
    <2>3. \A v \in M[t] : NextMember(n)[v] = NextMember(m)[v]
        BY <1>2, <2>2
    <2> QED  BY <1>2, <2>1, <2>3, MembersAside
<1>5. Apart(U \ {u}, R, M)
    BY DEF Holds, Apart, InNone
<1>6. Flags(n, U \ {u}, R, M)
    BY <1>1, <1>2 DEF Holds, Flags
<1>7. n.heap = (U \ {u}) \cup R
    BY <1>1, <1>2, Addresses
<1> QED  BY <1>2, <1>3, <1>4, <1>5, <1>6, <1>7 DEF Holds

-----------------------------------------------------------------------------
(* Leaving a room.                                                           *)

(* What the lists say between two handlers: rooms are those with users.      *)
Stands(m, U, R, M) == Holds(m, U, R, M) /\ \A r \in RoomNode : r \in R <=> M[r] # {}

Gone(M, u) == [r \in RoomNode |-> M[r] \ {u}]
Left(R, M, u) == {r \in R : M[r] # {u}}

(* What Stands says of the sets alone.                                       *)
LEMMA StandsSets ==
    ASSUME NEW m, NEW U, NEW R, NEW M, Stands(m, U, R, M)
    PROVE  /\ U \subseteq UserNode /\ R \subseteq RoomNode
           /\ M \in [RoomNode -> SUBSET UserNode]
           /\ \A r \in R : M[r] \subseteq U
           /\ \A r, t \in RoomNode : \A u \in M[r] : u \in M[t] => r = t
           /\ \A r \in RoomNode : r \in R <=> M[r] # {}
<1>1. Holds(m, U, R, M) /\ Apart(U, R, M) /\ \A r \in RoomNode : r \in R <=> M[r] # {}
    BY DEF Stands, Holds
<1>2. U \subseteq UserNode /\ R \subseteq RoomNode
    BY <1>1, HoldsAddresses
<1> QED  BY <1>1, <1>2 DEF Apart

(* The rooms left are those with users left.                                 *)
LEMMA LeftHaveUsers ==
    ASSUME NEW m, NEW U, NEW R, NEW M, Stands(m, U, R, M), NEW u
    PROVE  /\ Gone(M, u) \in [RoomNode -> SUBSET UserNode]
           /\ \A r \in RoomNode : r \in Left(R, M, u) <=> Gone(M, u)[r] # {}
BY StandsSets DEF Gone, Left

(* A user who is in no room leaves none.                                     *)
LEMMA NoneLeft ==
    ASSUME NEW m, NEW U, NEW R, NEW M, Stands(m, U, R, M), NEW u, InNone(u, R, M)
    PROVE  Left(R, M, u) = R /\ Gone(M, u) = M
<1>1. /\ R \subseteq RoomNode /\ M \in [RoomNode -> SUBSET UserNode]
      /\ \A r \in RoomNode : r \in R <=> M[r] # {}
    BY StandsSets
<1>2. \A r \in RoomNode : u \notin M[r]
    BY <1>1 DEF InNone
<1>3. Gone(M, u) = M
    BY <1>1, <1>2 DEF Gone
<1>4. Left(R, M, u) = R
    BY <1>1, <1>2 DEF Left
<1> QED  BY <1>3, <1>4

(* A user who left is in no room.                                            *)
LEMMA GoneIsInNone ==
    ASSUME NEW R, NEW M, NEW u, R \subseteq RoomNode
    PROVE  InNone(u, Left(R, M, u), Gone(M, u))
BY DEF InNone, Left, Gone

(* Leaves does what it should: the user is gone, and the room with her if    *)
(* she was the last in it.                                                   *)
LEMMA LeavesHolds ==
    ASSUME NEW m, NEW U, NEW R, NEW M, Stands(m, U, R, M), NEW r \in R, NEW u \in M[r],
           NEW n, n = Leaves(m, r, u)
    PROVE  Stands(n, U, Left(R, M, u), Gone(M, u))
<1>1. /\ U \subseteq UserNode /\ R \subseteq RoomNode /\ r \in RoomNode
      /\ M \in [RoomNode -> SUBSET UserNode]
      /\ \A t \in RoomNode \ {r} : u \notin M[t]
    BY StandsSets
<1>2. PICK k : k = chatroom_node_remove_user_node(m, r, u)
    OBVIOUS
<1>3. PICK G : G = Gone(M, u)
    OBVIOUS
<1>4. [M EXCEPT ![r] = M[r] \ {u}] = G
    BY <1>1, <1>3 DEF Gone
<1>5. Holds(m, U, R, M)
    BY DEF Stands
<1>6. Holds(k, U, R, [M EXCEPT ![r] = M[r] \ {u}])
    BY <1>2, <1>5, MemberOut
<1>7. Holds(k, U, R, G)
    BY <1>4, <1>6
<1>8. k.room[r].num_users = 0 <=> G[r] = {}
    <2>1. MembersHeld(k, r, G[r])
        BY <1>7 DEF Holds
    <2> QED  BY <2>1, ListCounts DEF MembersHeld
<1>9. G[r] = {} <=> M[r] = {u}
    BY <1>1, <1>3 DEF Gone
<1>10. \A t \in R \ {r} : M[t] # {u}
    BY <1>1
<1>11. n = IF k.room[r].num_users = 0 THEN server_remove_chatroom_node(k, r) ELSE k
    BY <1>2 DEF Leaves
<1>12. Holds(n, U, Left(R, M, u), G)
    <2>1. CASE G[r] = {}
        <3>1. n = server_remove_chatroom_node(k, r)
            BY <1>8, <1>11, <2>1
        <3>2. Holds(n, U, R \ {r}, G)
            BY <1>7, <2>1, <3>1, RoomOut
        <3>3. Left(R, M, u) = R \ {r}
            BY <1>9, <1>10, <2>1 DEF Left
        <3> QED  BY <3>2, <3>3
    <2>2. CASE G[r] # {}
        <3>1. n = k
            BY <1>8, <1>11, <2>2
        <3>2. Left(R, M, u) = R
            BY <1>9, <1>10, <2>2 DEF Left
        <3> QED  BY <1>7, <3>1, <3>2
    <2> QED  BY <2>1, <2>2
<1>13. \A t \in RoomNode : t \in Left(R, M, u) <=> G[t] # {}
    BY <1>3, LeftHaveUsers
<1> QED  BY <1>3, <1>12, <1>13 DEF Stands

(* The sets of a list's nodes.                                               *)
LEMMA ToSetIs ==
    ASSUME NEW N, NEW s \in Seq(N)
    PROVE  ToSet(s) = Nodes(s)
BY DEF ToSet, Nodes

(* The handlers find the users and rooms there are,                          *)
LEMMA Seen ==
    ASSUME NEW m, NEW U, NEW R, NEW M, Holds(m, U, R, M)
    PROVE  /\ ToSet(UsersIn(m)) = U
           /\ ToSet(RoomsIn(m)) = R
           /\ \A r \in R : ToSet(Members(m, r)) = M[r]
<1>1. ToSet(UsersIn(m)) = U
    <2>1. UsersIn(m) \in Seq(UserNode) /\ Nodes(UsersIn(m)) = U
        BY UsersFound DEF Holds, List
    <2> QED  BY <2>1, ToSetIs
<1>2. ToSet(RoomsIn(m)) = R
    <2>1. RoomsIn(m) \in Seq(RoomNode) /\ Nodes(RoomsIn(m)) = R
        BY RoomsFound DEF Holds, List
    <2> QED  BY <2>1, ToSetIs
<1>3. ASSUME NEW r \in R PROVE ToSet(Members(m, r)) = M[r]
    <2>1. Members(m, r) \in Seq(UserNode) /\ Nodes(Members(m, r)) = M[r]
        BY MembersFound DEF Holds, List
    <2> QED  BY <2>1, ToSetIs
<1> QED  BY <1>1, <1>2, <1>3

(* and the room of a user.                                                   *)
LEMMA RoomFound ==
    ASSUME NEW m, NEW U, NEW R, NEW M, Holds(m, U, R, M), NEW u
    PROVE  server_get_chatroom_by_user(m, u) = {r \in R : u \in M[r]}
BY Seen DEF server_get_chatroom_by_user

(* LeavesAny does what it should, whether or not there is a room to leave.   *)
LEMMA LeavesAnyHolds ==
    ASSUME NEW m, NEW U, NEW R, NEW M, Stands(m, U, R, M), NEW u,
           NEW n, n = LeavesAny(m, u)
    PROVE  Stands(n, U, Left(R, M, u), Gone(M, u))
<1>1. PICK found : found = {r \in R : u \in M[r]}
    OBVIOUS
<1>2. found = server_get_chatroom_by_user(m, u)
    BY <1>1, RoomFound DEF Stands
<1>3. CASE found = {}
    <2>1. n = m
        BY <1>2, <1>3 DEF LeavesAny
    <2>2. InNone(u, R, M)
        BY <1>1, <1>3 DEF InNone
    <2> QED  BY <2>1, <2>2, NoneLeft
<1>4. CASE found # {}
    <2>1. PICK r \in R : u \in M[r]
        BY <1>1, <1>4
    <2>2. found = {r}
        BY <1>1, <2>1, StandsSets
    <2>3. (CHOOSE t \in {r} : TRUE) = r
        OBVIOUS
    <2>4. n = Leaves(m, r, u)
        BY <1>2, <2>2, <2>3 DEF LeavesAny
    <2> QED  BY <2>1, <2>4, LeavesHolds
<1> QED  BY <1>3, <1>4

-----------------------------------------------------------------------------
(* The handlers.                                                             *)

(* The users in each room there is.                                          *)
InEach(m) == [r \in RoomNode |-> IF r \in ToSet(RoomsIn(m)) THEN ToSet(Members(m, r)) ELSE {}]

(* The lists are right: the inductive invariant.                             *)
LInv == Stands(memory, Connected, Rooms, InEach(memory))

(* The sets that the lists say are the only ones they can say.               *)
LEMMA Mapped ==
    ASSUME NEW m, NEW U, NEW R, NEW M, Stands(m, U, R, M)
    PROVE  ToSet(UsersIn(m)) = U /\ ToSet(RoomsIn(m)) = R /\ InEach(m) = M
<1>1. /\ ToSet(UsersIn(m)) = U
      /\ ToSet(RoomsIn(m)) = R
      /\ \A r \in R : ToSet(Members(m, r)) = M[r]
    BY Seen DEF Stands
<1>2. M \in [RoomNode -> SUBSET UserNode] /\ \A r \in RoomNode : r \in R <=> M[r] # {}
    BY StandsSets
<1>3. InEach(m) = M
    BY <1>1, <1>2 DEF InEach
<1> QED  BY <1>1, <1>3

(* The variables are what a handler makes of memory.                         *)
LEMMA BecomesIt ==
    ASSUME NEW m \in Memory, Becomes(m)
    PROVE  memory' = m
BY DEF Becomes, memory, Memory

(* So the lists are right after it.                                          *)
LEMMA StandsAfter ==
    ASSUME NEW m, NEW U, NEW R, NEW M, Stands(m, U, R, M), Becomes(m)
    PROVE  LInv' /\ Connected' = U /\ Rooms' = R /\ InEach(memory)' = M
<1>1. m \in Memory
    BY DEF Stands, Holds
<1>2. memory' = m
    BY <1>1, BecomesIt
<1>3. ToSet(UsersIn(m)) = U /\ ToSet(RoomsIn(m)) = R /\ InEach(m) = M
    BY Mapped
<1>4. Connected' = U /\ Rooms' = R /\ InEach(memory)' = M
    BY <1>2, <1>3 DEF Connected, Rooms
<1>5. LInv'
    BY <1>2, <1>4 DEF LInv
<1> QED  BY <1>4, <1>5

(* The sets of the refinement.                                               *)
LEMMA SetsAre ==
    /\ Sets!vars = <<Connected, Rooms, InEach(memory)>>
    /\ Sets!vars' = <<Connected', Rooms', InEach(memory)'>>
BY DEF Sets!vars, InEach, Rooms, Connected

(* accept_user: a new user, in no room.                                      *)
LEMMA AcceptStep ==
    ASSUME LInv, NEW u \in UserNode, accept_user(u)
    PROVE  LInv' /\ Sets!Accept(u)
<1>1. PICK m, U, R, M : m = memory /\ U = Connected /\ R = Rooms /\ M = InEach(memory)
    OBVIOUS
<1>2. Stands(m, U, R, M) /\ u \notin m.heap
    BY <1>1 DEF LInv, accept_user, memory
<1>3. PICK n : n = server_add_user_node(user_node_init(m, u), u)
    OBVIOUS
<1>4. Becomes(n)
    BY <1>1, <1>3 DEF accept_user
<1>5. Stands(n, U \cup {u}, R, M)
    BY <1>2, <1>3, AcceptHolds DEF Stands
<1>6. LInv' /\ Connected' = U \cup {u} /\ Rooms' = R /\ InEach(memory)' = M
    BY <1>4, <1>5, StandsAfter
<1>7. u \notin U
    BY <1>2 DEF Stands, Holds
<1>8. Sets!Accept(u)
    BY <1>1, <1>6, <1>7 DEF Sets!Accept, InEach, Rooms
<1> QED  BY <1>6, <1>8

(* A request to create a room: the user leaves the one she is in, and a room *)
(* that is not in use, which may be that one, has her alone.                 *)
LEMMA CreateStep ==
    ASSUME LInv, NEW u \in UserNode, NEW r \in RoomNode, server_handle_multicast_create_req(u, r)
    PROVE  LInv' /\ Sets!Create(u, r)
<1>1. PICK m, U, R, M : m = memory /\ U = Connected /\ R = Rooms /\ M = InEach(memory)
    OBVIOUS
<1>2. Stands(m, U, R, M) /\ u \in U
    BY <1>1 DEF LInv, server_handle_multicast_create_req
<1>3. PICK k : k = LeavesAny(m, u)
    OBVIOUS
<1>4. PICK n : n = server_add_chatroom_node(chatroom_node_init(k, r, u), r)
    OBVIOUS
<1>5. r \notin k.heap /\ Becomes(n)
    BY <1>1, <1>3, <1>4 DEF server_handle_multicast_create_req
<1>6. PICK Q, G : Q = Left(R, M, u) /\ G = Gone(M, u)
    OBVIOUS
<1>7. Stands(k, U, Q, G)
    BY <1>2, <1>3, <1>6, LeavesAnyHolds
<1>8. InNone(u, Q, G)
    BY <1>2, <1>6, StandsSets, GoneIsInNone
<1>9. r \notin Q
    BY <1>5, <1>7 DEF Stands, Holds
<1>10. PICK K : K = [G EXCEPT ![r] = {u}]
    OBVIOUS
<1>11. Stands(n, U, Q \cup {r}, K)
    <2>1. Holds(n, U, Q \cup {r}, K)
        BY <1>2, <1>4, <1>5, <1>7, <1>8, <1>10, RoomIn DEF Stands
    <2>2. \A t \in RoomNode : t \in Q \cup {r} <=> K[t] # {}
        BY <1>7, <1>10, StandsSets
    <2> QED  BY <2>1, <2>2 DEF Stands
<1>12. LInv' /\ Connected' = U /\ Rooms' = Q \cup {r} /\ InEach(memory)' = K
    BY <1>5, <1>11, StandsAfter
<1>13. Sets!Standing(u) = Q /\ Sets!Without(u) = G
    BY <1>1, <1>6 DEF Sets!Standing, Sets!Without, Left, Gone, InEach, Rooms
<1>14. Sets!Create(u, r)
    BY <1>1, <1>2, <1>9, <1>10, <1>12, <1>13 DEF Sets!Create, InEach, Rooms
<1> QED  BY <1>12, <1>14

(* A request to join a room: the user leaves the one she is in, which is     *)
(* another.                                                                  *)
LEMMA JoinStep ==
    ASSUME LInv, NEW u \in UserNode, NEW r \in RoomNode, server_handle_multicast_join_req(u, r)
    PROVE  LInv' /\ Sets!Join(u, r)
<1>1. PICK m, U, R, M : m = memory /\ U = Connected /\ R = Rooms /\ M = InEach(memory)
    OBVIOUS
<1>2. Stands(m, U, R, M) /\ u \in U /\ r \in R
    BY <1>1 DEF LInv, server_handle_multicast_join_req
<1>3. PICK k : k = LeavesAny(m, u)
    OBVIOUS
<1>4. PICK n : n = chatroom_node_add_user_node(k, r, u)
    OBVIOUS
<1>5. server_get_chatroom_by_user(m, u) # {r} /\ Becomes(n)
    BY <1>1, <1>3, <1>4 DEF server_handle_multicast_join_req
<1>6. PICK Q, G : Q = Left(R, M, u) /\ G = Gone(M, u)
    OBVIOUS
<1>7. Stands(k, U, Q, G)
    BY <1>2, <1>3, <1>6, LeavesAnyHolds
<1>8. InNone(u, Q, G)
    BY <1>2, <1>6, StandsSets, GoneIsInNone
<1>9. u \notin M[r]
    <2>1. {t \in R : u \in M[t]} # {r}
        BY <1>2, <1>5, RoomFound DEF Stands
    <2>2. \A t \in R : u \in M[t] /\ u \in M[r] => t = r
        BY <1>2, StandsSets
    <2> QED  BY <1>2, <2>1, <2>2
<1>10. r \in Q
    BY <1>2, <1>6, <1>9 DEF Left
<1>11. PICK K : K = [G EXCEPT ![r] = G[r] \cup {u}]
    OBVIOUS
<1>12. Stands(n, U, Q, K)
    <2>1. Holds(n, U, Q, K)
        BY <1>2, <1>4, <1>7, <1>8, <1>10, <1>11, MemberIn DEF Stands
    <2>2. \A t \in RoomNode : t \in Q <=> K[t] # {}
        BY <1>7, <1>10, <1>11, StandsSets
    <2> QED  BY <2>1, <2>2 DEF Stands
<1>13. LInv' /\ Connected' = U /\ Rooms' = Q /\ InEach(memory)' = K
    BY <1>5, <1>12, StandsAfter
<1>14. Sets!Standing(u) = Q /\ Sets!Without(u) = G
    BY <1>1, <1>6 DEF Sets!Standing, Sets!Without, Left, Gone, InEach, Rooms
<1>15. Sets!Join(u, r)
    BY <1>1, <1>2, <1>9, <1>11, <1>13, <1>14 DEF Sets!Join, InEach, Rooms
<1> QED  BY <1>13, <1>15

(* A request to quit a room the user is in.                                  *)
LEMMA QuitStep ==
    ASSUME LInv, NEW u \in UserNode, NEW r \in RoomNode, server_handle_multicast_quit_req(u, r)
    PROVE  LInv' /\ Sets!Quit(u)
<1>1. PICK m, U, R, M : m = memory /\ U = Connected /\ R = Rooms /\ M = InEach(memory)
    OBVIOUS
<1>2. Stands(m, U, R, M) /\ r \in R /\ u \in ToSet(Members(m, r))
    BY <1>1 DEF LInv, server_handle_multicast_quit_req
<1>3. u \in M[r]
    BY <1>2, Seen DEF Stands
<1>4. PICK n : n = Leaves(m, r, u)
    OBVIOUS
<1>5. Becomes(n)
    BY <1>1, <1>4 DEF server_handle_multicast_quit_req
<1>6. PICK Q, G : Q = Left(R, M, u) /\ G = Gone(M, u)
    OBVIOUS
<1>7. Stands(n, U, Q, G)
    BY <1>2, <1>3, <1>4, <1>6, LeavesHolds
<1>8. LInv' /\ Connected' = U /\ Rooms' = Q /\ InEach(memory)' = G
    BY <1>5, <1>7, StandsAfter
<1>9. Sets!Standing(u) = Q /\ Sets!Without(u) = G
    BY <1>1, <1>6 DEF Sets!Standing, Sets!Without, Left, Gone, InEach, Rooms
<1>10. Sets!Quit(u)
    BY <1>1, <1>2, <1>3, <1>8, <1>9 DEF Sets!Quit, InEach, Rooms
<1> QED  BY <1>8, <1>10

(* A user who is disconnected leaves the room she is in before she is gone.  *)
LEMMA DisconnectStep ==
    ASSUME LInv, NEW u \in UserNode, server_disconnect_user(u)
    PROVE  LInv' /\ Sets!Disconnect(u)
<1>1. PICK m, U, R, M : m = memory /\ U = Connected /\ R = Rooms /\ M = InEach(memory)
    OBVIOUS
<1>2. Stands(m, U, R, M) /\ u \in U
    BY <1>1 DEF LInv, server_disconnect_user
<1>3. PICK k : k = IF m.user[u].is_in_chatroom = 1 THEN LeavesAny(m, u) ELSE m
    OBVIOUS
<1>4. PICK n : n = server_remove_user_node(k, u)
    OBVIOUS
<1>5. Becomes(n)
    BY <1>1, <1>3, <1>4 DEF server_disconnect_user, memory
<1>6. PICK Q, G : Q = Left(R, M, u) /\ G = Gone(M, u)
    OBVIOUS
<1>7. Stands(k, U, Q, G)
    <2>1. CASE m.user[u].is_in_chatroom = 1
        BY <1>2, <1>3, <1>6, <2>1, LeavesAnyHolds
    <2>2. CASE m.user[u].is_in_chatroom # 1
        <3>1. k = m /\ InNone(u, R, M)
            BY <1>2, <1>3, <2>2 DEF Stands, Holds, Flags, InNone
        <3>2. Q = R /\ G = M
            BY <1>2, <1>6, <3>1, NoneLeft
        <3> QED  BY <1>2, <3>1, <3>2
    <2> QED  BY <2>1, <2>2
<1>8. InNone(u, Q, G)
    BY <1>2, <1>6, StandsSets, GoneIsInNone
<1>9. Stands(n, U \ {u}, Q, G)
    BY <1>2, <1>4, <1>7, <1>8, UserOut DEF Stands
<1>10. LInv' /\ Connected' = U \ {u} /\ Rooms' = Q /\ InEach(memory)' = G
    BY <1>5, <1>9, StandsAfter
<1>11. Sets!Standing(u) = Q /\ Sets!Without(u) = G
    BY <1>1, <1>6 DEF Sets!Standing, Sets!Without, Left, Gone, InEach, Rooms
<1>12. Sets!Disconnect(u)
    BY <1>1, <1>2, <1>10, <1>11 DEF Sets!Disconnect, InEach, Rooms
<1> QED  BY <1>10, <1>12

(* Before any handler there are no nodes.                                    *)
LEMMA InitStands ==
    ASSUME Init
    PROVE  LInv /\ Sets!Init
<1>1. PICK m : m = memory
    OBVIOUS
<1>2. m \in Memory /\ m.server.user_head = NULL /\ m.server.num_users = 0
      /\ m.server.chatroom_head = NULL /\ m.server.num_chatrooms = 0 /\ m.heap = {}
    BY <1>1 DEF Init, memory, Memory, Servers, UserFields, RoomFields, UserLink, RoomLink, Fresh, NoRoom
<1>3. UsersHeld(m, {}) /\ RoomsHeld(m, {})
    BY <1>2, EmptyList DEF UsersHeld, RoomsHeld
<1>4. PICK M : M = [r \in RoomNode |-> {}]
    OBVIOUS
<1>5. Stands(m, {}, {}, M)
    BY <1>2, <1>3, <1>4 DEF Stands, Holds, Apart, Flags
<1>6. Connected = {} /\ Rooms = {} /\ InEach(memory) = M
    BY <1>1, <1>5, Mapped DEF Connected, Rooms
<1>7. LInv
    BY <1>1, <1>5, <1>6 DEF LInv
<1>8. Sets!Init
    BY <1>4, <1>6 DEF Sets!Init, InEach, Rooms
<1> QED  BY <1>7, <1>8

(* A handler keeps the lists right, and does to their sets what Tables says. *)
LEMMA NextStands ==
    ASSUME LInv, Next
    PROVE  LInv' /\ Sets!Next
<1>1. PICK u \in UserNode :
         \/ accept_user(u)
         \/ server_disconnect_user(u)
         \/ \E r \in RoomNode : \/ server_handle_multicast_create_req(u, r)
                                \/ server_handle_multicast_join_req(u, r)
                                \/ server_handle_multicast_quit_req(u, r)
    BY DEF Next
<1>2. CASE accept_user(u)
    BY <1>2, AcceptStep DEF Sets!Next
<1>3. CASE server_disconnect_user(u)
    BY <1>3, DisconnectStep DEF Sets!Next
<1>4. CASE \E r \in RoomNode : \/ server_handle_multicast_create_req(u, r)
                               \/ server_handle_multicast_join_req(u, r)
                               \/ server_handle_multicast_quit_req(u, r)
    <2>1. PICK r \in RoomNode : \/ server_handle_multicast_create_req(u, r)
                                \/ server_handle_multicast_join_req(u, r)
                                \/ server_handle_multicast_quit_req(u, r)
        BY <1>4
    <2>2. LInv' /\ (Sets!Create(u, r) \/ Sets!Join(u, r) \/ Sets!Quit(u))
        BY <2>1, CreateStep, JoinStep, QuitStep
    <2> QED  BY <2>2 DEF Sets!Next
<1> QED  BY <1>1, <1>2, <1>3, <1>4

(* Nothing happens to the lists when nothing is done.                        *)
LEMMA StutterStands ==
    ASSUME UNCHANGED vars
    PROVE  (LInv => LInv') /\ Sets!vars' = Sets!vars
<1>1. memory' = memory
    BY DEF vars, memory
<1>2. Connected' = Connected /\ Rooms' = Rooms /\ InEach(memory)' = InEach(memory)
    BY <1>1 DEF Connected, Rooms
<1>3. LInv => LInv'
    BY <1>1, <1>2 DEF LInv
<1> QED  BY <1>2, <1>3, SetsAre

(* The lists are right whatever handlers run, in any order.                  *)
THEOREM ListsInvariant == Spec => []LInv
<1>1. Init => LInv
    BY InitStands
<1>2. LInv /\ [Next]_vars => LInv'
    BY NextStands, StutterStands
<1> QED  BY <1>1, <1>2, PTL DEF Spec

(* The lists are the tables: links, counts and memory that handlers change   *)
(* do to the sets of users and rooms just what Tables says.                  *)
THEOREM ListsImplementTables == Spec => ImplementsTables
<1>1. Init => Sets!Init
    BY InitStands
<1>2. LInv /\ [Next]_vars => [Sets!Next]_(Sets!vars)
    BY NextStands, StutterStands
<1> QED  BY <1>1, <1>2, ListsInvariant, PTL DEF Spec, ImplementsTables, Sets!Spec

-----------------------------------------------------------------------------
(* No list has a cycle or a freed node, none goes on into another, and the   *)
(* counts and flags tell the same as the lists.                              *)
LEMMA LInvSound ==
    ASSUME LInv
    PROVE  ListsSound
<1>1. PICK m, U, R, M : m = memory /\ U = Connected /\ R = Rooms /\ M = InEach(memory)
    OBVIOUS
<1>2. Stands(m, U, R, M) /\ Holds(m, U, R, M)
    BY <1>1 DEF LInv, Stands
<1>3. server = m.server /\ user = m.user /\ room = m.room /\ heap = m.heap
    BY <1>1 DEF memory
<1>4. ASSUME NEW N, NEW s \in Seq(N), Distinct(s) PROVE IsInjective(s)
    BY <1>4 DEF Distinct, IsInjective
<1>5. IsInjective(UsersIn(m)) /\ Len(UsersIn(m)) = m.server.num_users
    BY <1>2, <1>4, UsersFound DEF Holds, List
<1>6. IsInjective(RoomsIn(m)) /\ Len(RoomsIn(m)) = m.server.num_chatrooms
    BY <1>2, <1>4, RoomsFound DEF Holds, List
<1>7. ASSUME NEW r \in R
      PROVE  /\ IsInjective(Members(m, r)) /\ ToSet(Members(m, r)) = M[r] /\ M[r] \subseteq U
             /\ m.room[r].num_users = Len(Members(m, r)) /\ m.room[r].num_users > 0
    <2>1. MembersHeld(m, r, M[r])
        BY <1>2 DEF Holds
    <2>2. IsInjective(Members(m, r)) /\ m.room[r].num_users = Len(Members(m, r))
        BY <1>4, <2>1, MembersFound DEF List
    <2>3. M[r] # {} /\ M[r] \subseteq U
        BY <1>2, StandsSets
    <2>4. m.room[r].num_users \in Nat /\ m.room[r].num_users # 0
        BY <2>1, <2>3, ListCounts DEF MembersHeld
    <2>5. ToSet(Members(m, r)) = M[r]
        BY <1>2, Seen
    <2> QED  BY <2>2, <2>3, <2>4, <2>5
<1>8. \A r, s \in R : M[r] \cap M[s] # {} => r = s
    BY <1>2, StandsSets
<1>9. m.heap = U \cup R /\ \A u \in U : m.user[u].is_in_chatroom = 1 <=> \E r \in R : u \in M[r]
    BY <1>2 DEF Holds, Flags
<1> QED  BY <1>1, <1>3, <1>5, <1>6, <1>7, <1>8, <1>9 DEF ListsSound

(* So it is whatever handlers run, in any order.                             *)
THEOREM ListsAreSound == Spec => []ListsSound
BY ListsInvariant, LInvSound, PTL

-----------------------------------------------------------------------------
(* The text of a list.                                                       *)

Lengths(g, names) ==
    g[0] = Heading /\ \A k \in 1..Len(names) : g[k] = g[k - 1] + Line(names[k])

LengthsTo(g, names, n) ==
    g[0] = Heading /\ \A k \in 1..n : g[k] = g[k - 1] + Line(names[k])

Texts(h, names) ==
    /\ h[0] = Heading
    /\ \A k \in 1..Len(names) : h[k] = h[k - 1] + Printed(h[k - 1], Line(names[k]))

(* The lengths grow from that of the heading.                                *)
LEMMA LengthsGrow ==
    ASSUME NEW names \in Seq(Nat), NEW g, Lengths(g, names)
    PROVE  \A k \in 0..Len(names) : g[k] \in Nat /\ g[k] >= Heading
<1>1. Len(names) \in Nat /\ \A k \in 1..Len(names) : names[k] \in Nat
    OBVIOUS
<1> DEFINE T == {k \in Nat : k <= Len(names) => g[k] \in Nat /\ g[k] >= Heading}
<1>2. 0 \in T
    BY ListsAssumption DEF Lengths
<1>3. ASSUME NEW k \in T PROVE k + 1 \in T
    <2> SUFFICES ASSUME k + 1 <= Len(names) PROVE g[k + 1] \in Nat /\ g[k + 1] >= Heading
        OBVIOUS
    <2>1. k \in Nat /\ g[k] \in Nat /\ g[k] >= Heading /\ k + 1 \in 1..Len(names) /\ (k + 1) - 1 = k
        BY <1>1
    <2>2. PICK j \in 1..Len(names) : j = k + 1
        BY <2>1
    <2>3. g[j] = g[k] + (names[j] + 3) /\ names[j] \in Nat
        BY <1>1, <2>1, <2>2 DEF Lengths, Line
    <2> QED  BY <2>1, <2>2, <2>3, ListsAssumption
<1> HIDE DEF T
<1>4. T = Nat
    BY <1>2, <1>3, SetInduction DEF T
<1> QED  BY <1>1, <1>4 DEF T

(* There are such lengths,                                                   *)
LEMMA LengthsExist ==
    ASSUME NEW names \in Seq(Nat)
    PROVE  \E g \in [0..Len(names) -> Nat] : Lengths(g, names)
<1>1. Len(names) \in Nat /\ \A k \in 1..Len(names) : names[k] \in Nat
    OBVIOUS
<1> DEFINE Some(n) == \E g \in [0..n -> Nat] : LengthsTo(g, names, n)
           T == {n \in Nat : n <= Len(names) => Some(n)}
<1> HIDE DEF Some
<1>2. 0 \in T
    <2>1. [k \in 0..0 |-> Heading] \in [0..0 -> Nat] /\ LengthsTo([k \in 0..0 |-> Heading], names, 0)
        BY ListsAssumption DEF LengthsTo
    <2> QED  BY <2>1 DEF Some
<1>3. ASSUME NEW n \in T PROVE n + 1 \in T
    <2>1. n \in Nat /\ (n <= Len(names) => Some(n))
        OBVIOUS
    <2> SUFFICES ASSUME n + 1 <= Len(names) PROVE Some(n + 1)
        BY <2>1
    <2>2. Some(n)
        BY <1>1, <2>1
    <2>3. PICK g \in [0..n -> Nat] : LengthsTo(g, names, n)
        BY <2>2 DEF Some
    <2>4. PICK j \in 1..Len(names) : j = n + 1
        BY <1>1, <2>1
    <2>5. n \in Nat /\ g[n] \in Nat /\ names[j] \in Nat
        BY <1>1
    <2>6. PICK i \in Nat : i = g[n] + Line(names[j])
        BY <2>5 DEF Line
    <2> DEFINE h == [k \in 0..j |-> IF k = j THEN i ELSE g[k]]
    <2>7. h \in [0..j -> Nat]
        BY <2>4, <2>5
    <2>8. h[0] = Heading
        BY <2>3, <2>4, <2>5 DEF LengthsTo
    <2>9. ASSUME NEW k \in 1..j PROVE h[k] = h[k - 1] + Line(names[k])
        <3>1. CASE k = j
            BY <2>4, <2>5, <2>6, <3>1
        <3>2. CASE k # j
            <4>1. k \in 1..n /\ h[k] = g[k] /\ h[k - 1] = g[k - 1]
                BY <2>4, <2>5, <3>2
            <4> QED  BY <2>3, <4>1 DEF LengthsTo
        <3> QED  BY <3>1, <3>2
    <2> HIDE DEF h
    <2>10. LengthsTo(h, names, j)
        BY <2>8, <2>9 DEF LengthsTo
    <2> QED  BY <2>4, <2>7, <2>10 DEF Some
<1> HIDE DEF T
<1>4. T = Nat
    BY <1>2, <1>3, SetInduction DEF T
<1>5. \E g \in [0..Len(names) -> Nat] : LengthsTo(g, names, Len(names))
    BY <1>1, <1>4 DEF T, Some
<1> QED  BY <1>5 DEF Lengths, LengthsTo

(* and Whole is the last of some.                                            *)
LEMMA WholeIs ==
    ASSUME NEW names \in Seq(Nat)
    PROVE  \E g : Lengths(g, names) /\ Whole(names) = g[Len(names)]
<1>1. Len(names) \in Nat
    OBVIOUS
<1> DEFINE F(e) == [k \in 0..Len(names) |->
                      IF k = 0 THEN Heading ELSE e[k - 1] + Line(names[k])]
           length == CHOOSE e : e = F(e)
<1>2. PICK g \in [0..Len(names) -> Nat] : Lengths(g, names)
    BY LengthsExist
<1>3. g = F(g)
    <2>1. ASSUME NEW k \in 0..Len(names)
          PROVE  g[k] = IF k = 0 THEN Heading ELSE g[k - 1] + Line(names[k])
        <3>1. k = 0 \/ k \in 1..Len(names)
            BY <1>1
        <3> QED  BY <1>1, <1>2, <3>1 DEF Lengths
    <2> QED  BY <2>1
<1>4. length = F(length)
    <2> HIDE DEF F
    <2> QED  BY <1>3
<1>5. Whole(names) = length[Len(names)]
    BY DEF Whole
<1> HIDE DEF length
<1>6. Lengths(length, names)
    <2>1. \A k \in 0..Len(names) : length[k] = F(length)[k]
        BY <1>4
    <2>2. length[0] = Heading
        BY <1>1, <2>1
    <2>3. ASSUME NEW k \in 1..Len(names) PROVE length[k] = length[k - 1] + Line(names[k])
        <3>1. k \in 0..Len(names) /\ k # 0
            BY <1>1
        <3> QED  BY <2>1, <3>1
    <2> QED  BY <2>2, <2>3 DEF Lengths
<1> QED  BY <1>5, <1>6

Cropped(x) == Lesser(x, MSG_LEN - 1)

(* snprintf stops one short of the array's end: what is printed is the text, *)
(* or as much of it as the array has room for.                               *)
LEMMA PrintedCrops ==
    ASSUME NEW x \in Nat, NEW line \in Nat
    PROVE  Cropped(x) + Printed(Cropped(x), line) = Cropped(x + line)
BY ListsAssumption DEF Cropped, Printed, Lesser

(* So it is after each name,                                                 *)
LEMMA TextsCropped ==
    ASSUME NEW names \in Seq(Nat), NEW g, Lengths(g, names), NEW h, Texts(h, names)
    PROVE  \A k \in 0..Len(names) : h[k] = Cropped(g[k])
<1>1. Len(names) \in Nat /\ \A k \in 1..Len(names) : names[k] \in Nat
    OBVIOUS
<1> DEFINE T == {k \in Nat : k <= Len(names) => h[k] = Cropped(g[k])}
<1>2. 0 \in T
    BY ListsAssumption DEF Lengths, Texts, Cropped, Lesser
<1>3. ASSUME NEW k \in T PROVE k + 1 \in T
    <2> SUFFICES ASSUME k + 1 <= Len(names) PROVE h[k + 1] = Cropped(g[k + 1])
        OBVIOUS
    <2>1. k \in Nat /\ h[k] = Cropped(g[k]) /\ k + 1 \in 1..Len(names) /\ (k + 1) - 1 = k
        BY <1>1
    <2>2. PICK j \in 1..Len(names) : j = k + 1
        BY <2>1
    <2>3. PICK line \in Nat : line = Line(names[j])
        BY <1>1 DEF Line
    <2>4. g[k] \in Nat
        BY <1>1, <2>1, <2>2, LengthsGrow
    <2>5. g[j] = g[k] + line
        BY <2>1, <2>2, <2>3 DEF Lengths
    <2>6. h[j] = h[k] + Printed(h[k], line)
        BY <2>1, <2>2, <2>3 DEF Texts
    <2> QED  BY <2>1, <2>2, <2>4, <2>5, <2>6, PrintedCrops
<1> HIDE DEF T
<1>4. T = Nat
    BY <1>2, <1>3, SetInduction DEF T
<1> QED  BY <1>1, <1>4 DEF T

(* and Listing is that without its last character.                           *)
LEMMA ListingIs ==
    ASSUME NEW names \in Seq(Nat), NEW g, Lengths(g, names)
    PROVE  Listing(names) = Cropped(g[Len(names)]) - 1
<1>1. Len(names) \in Nat /\ \A k \in 1..Len(names) : names[k] \in Nat
    OBVIOUS
<1> DEFINE F(e) == [k \in 0..Len(names) |->
                      IF k = 0 THEN Heading ELSE e[k - 1] + Printed(e[k - 1], Line(names[k]))]
           f == [k \in 0..Len(names) |-> Cropped(g[k])]
           strlen == CHOOSE e : e = F(e)
<1>2. f = F(f)
    <2>1. ASSUME NEW k \in 1..Len(names)
          PROVE  f[k] = f[k - 1] + Printed(f[k - 1], Line(names[k]))
        <3>1. PICK j \in 0..Len(names) : j = k - 1
            BY <1>1
        <3>2. PICK line \in Nat : line = Line(names[k])
            BY <1>1 DEF Line
        <3>3. g[j] \in Nat
            BY LengthsGrow
        <3>4. g[k] = g[j] + line
            BY <3>1, <3>2 DEF Lengths
        <3>5. f[k] = Cropped(g[k]) /\ f[k - 1] = Cropped(g[j])
            BY <1>1, <3>1
        <3> QED  BY <3>2, <3>3, <3>4, <3>5, PrintedCrops
    <2>2. f[0] = Heading
        BY <1>1, ListsAssumption DEF Lengths, Cropped, Lesser
    <2> HIDE DEF f
    <2>3. \A k \in 0..Len(names) : k = 0 \/ k \in 1..Len(names)
        BY <1>1
    <2>4. \A k \in 0..Len(names) : f[k] = F(f)[k]
        BY <2>1, <2>2, <2>3
    <2>5. f = [k \in 0..Len(names) |-> f[k]]
        BY DEF f
    <2> QED  BY <2>4, <2>5
<1>3. strlen = F(strlen)
    <2> HIDE DEF F, f
    <2> QED  BY <1>2
<1>4. Listing(names) = strlen[Len(names)] - 1
    BY DEF Listing
<1> HIDE DEF strlen
<1>5. Texts(strlen, names)
    <2>1. \A k \in 0..Len(names) : strlen[k] = F(strlen)[k]
        BY <1>3
    <2>2. strlen[0] = Heading
        BY <1>1, <2>1
    <2>3. ASSUME NEW k \in 1..Len(names)
          PROVE  strlen[k] = strlen[k - 1] + Printed(strlen[k - 1], Line(names[k]))
        <3>1. k \in 0..Len(names) /\ k # 0
            BY <1>1
        <3> QED  BY <2>1, <3>1
    <2> QED  BY <2>2, <2>3 DEF Texts
<1>6. strlen[Len(names)] = Cropped(g[Len(names)])
    BY <1>1, <1>5, TextsCropped
<1> QED  BY <1>4, <1>6

(* A list's text ends within the array, and is all of the text exactly when  *)
(* that fits with the end of line that is then taken away.                   *)
LEMMA ListingFits ==
    ASSUME NEW names \in Seq(Nat)
    PROVE  /\ Listing(names) < MSG_LEN - 1
           /\ Listing(names) = Whole(names) - 1 <=> Whole(names) < MSG_LEN
<1>1. PICK g : Lengths(g, names) /\ Whole(names) = g[Len(names)]
    BY WholeIs
<1>2. PICK n \in Nat : n = Len(names)
    OBVIOUS
<1>3. PICK x \in Nat : x = g[n]
    BY <1>1, <1>2, LengthsGrow
<1>4. Whole(names) = x /\ Listing(names) = Cropped(x) - 1
    BY <1>1, <1>2, <1>3, ListingIs
<1> QED  BY <1>4, ListsAssumption DEF Cropped, Lesser

(* So it is for the lists of the server, whatever handlers run.              *)
THEOREM ListsFit == Spec => []ListedIfItFits
<1>1. ASSUME LInv
      PROVE  ListedIfItFits
    <2>1. ASSUME NEW list \in {UsersIn(memory), RoomsIn(memory)},
                 NEW names \in [DOMAIN list -> 0..NameLen]
          PROVE  names \in Seq(Nat)
        <3>1. Holds(memory, Connected, Rooms, InEach(memory))
            BY <1>1 DEF LInv, Stands
        <3>2. list \in Seq(UserNode) \/ list \in Seq(RoomNode)
            BY <2>1, <3>1, UsersFound, RoomsFound DEF Holds, List
        <3>3. PICK n \in Nat : DOMAIN list = 1..n
            BY <3>2
        <3>4. names \in [1..n -> Nat]
            BY <2>1, <3>3, ListsAssumption
        <3> QED  BY <3>4
    <2> QED  BY <2>1, ListingFits DEF ListedIfItFits
<1> QED  BY <1>1, ListsInvariant, PTL
=============================================================================
