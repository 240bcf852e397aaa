----------------------------- MODULE FloodProofs -----------------------------
(***************************************************************************)
(* Theorems about BlockFlood: Agreement in every network that is connected *)
(* and in which a block's hops cover the longest way without a cycle.      *)
(***************************************************************************)
EXTENDS BlockFlood, SequenceTheorems, FiniteSetTheorems, TLAPS

\* No set of nodes but all of them is left by no link.
Connected ==
    \A S \in SUBSET Node : S # {} /\ (\A n \in S : Neighbours[n] \subseteq S) => S = Node

\* The longest way without a cycle goes through all nodes.
HopsSuffice == IsFiniteSet(Node) /\ Cardinality(Node) - 1 <= BlockHopLimit

-----------------------------------------------------------------------------
(* The stores of all nodes, B, in this state or the next. *)

Stored == Block \ {Genesis}

Packet == [tx : Names, hops : Nat] \cup [block : Stored, hops : Nat]

Links == [Node -> [Node -> Seq(Packet)]]

RootsOf(S) == {b \in S : Parent(b) \notin S}

\* What a node keeps: finitely many blocks, the ones without a parent lowest.
StoreOK(S) ==
    /\ S \subseteq Stored /\ IsFiniteSet(S)
    /\ S # {} => RootsOf(S) # {}
    /\ \A r \in RootsOf(S), b \in S : Len(r) <= Len(b)

OneRoot(B) == \A n, p \in Node : \A r \in RootsOf(B[n]), q \in RootsOf(B[p]) : r = q

Distinct(B) ==
    \A n, p \in Node : \A b \in B[n], c \in B[p] :
        b # c => ClaimsOf(b) \cap ClaimsOf(c) = {}

Holders(B, b) == {n \in Node : b \in B[n]}

\* A first block that came after another first block: no node will take it.
Late(B, b) == Parent(b) = Genesis /\ \E q \in Node : B[q] # {} /\ b \notin B[q]

Carries(packet, b) == "block" \in DOMAIN packet /\ packet.block = b

\* The sender of b stores it, b has hops for all nodes that do not, and its
\* parent is there before it.
Due(B, n, p, s, i) ==
    LET b == s[i].block
    IN  /\ b \in B[n]
        /\ BlockHopLimit <= s[i].hops + Cardinality(Holders(B, b))
        /\ \/ b \in RootsOf(B[n])
           \/ Parent(b) \in B[p]
           \/ \E j \in 1 .. i - 1 : Carries(s[j], Parent(b))

\* Of the packets s on the link from n to p.
Ordered(B, n, p, s) ==
    \A i \in 1 .. Len(s) :
        "block" \in DOMAIN s[i] => Late(B, s[i].block) \/ Due(B, n, p, s, i)

\* What n stores, p stores or is being sent.
Complete(B, n, p, s) ==
    \A b \in B[n] : b \in B[p] \/ \E i \in 1 .. Len(s) : Carries(s[i], b)

\* Mains, names and miners go by the blocks their node stores.
NodesInv ==
    /\ \A n \in Node : StoreOK(blocks[n])
    /\ \A n \in Node : main[n] \in blocks[n] \cup {Genesis}
    /\ \A n \in Node : names[n] \subseteq NamesIn(blocks[n])
    /\ \A n \in Node : mining[n].parent \in blocks[n] \cup {Genesis}
    /\ links \in Links

FlowInv ==
    OneRoot(blocks) /\ Distinct(blocks) =>
        \A n, p \in Node :
            /\ Ordered(blocks, n, p, links[n][p])
            /\ p \in Neighbours[n] => Complete(blocks, n, p, links[n][p])

FloodInv == TypeOK /\ NodesInv /\ FlowInv

-----------------------------------------------------------------------------
(* Types. *)

\* A read takes the first packet off one link.
LEMMA ReadIs ==
    ASSUME links \in Links, NEW n \in Node, NEW from \in Node, links[from][n] # <<>>
    PROVE  /\ Read(n, from) \in Links
           /\ \A i, j \in Node : Read(n, from)[i][j] =
                 IF i = from /\ j = n THEN Tail(links[from][n]) ELSE links[i][j]
           /\ Head(links[from][n]) \in Packet
<1>1. /\ Tail(links[from][n]) \in Seq(Packet)
      /\ Head(links[from][n]) \in Packet
  BY HeadTailProperties DEF Links
<1> QED
  BY <1>1 DEF Read, Links

\* A broadcast adds one packet to some of a node's links.
LEMMA BroadcastIs ==
    ASSUME NEW left \in Links, NEW n \in Node, NEW packet \in Packet, NEW except,
           Broadcast(left, n, packet, except)
    PROVE  /\ links' \in Links
           /\ \A i, j \in Node : links'[i][j] =
                 IF i = n /\ j \in Neighbours[n] \ except
                 THEN Append(left[i][j], packet) ELSE left[i][j]
<1>1. \A j \in Node : Append(left[n][j], packet) \in Seq(Packet)
  BY DEF Links
<1> QED
  BY <1>1 DEF Broadcast, Links

\* Hops left for another hop are a number after it.
LEMMA HopsType ==
    ASSUME NEW hops \in Nat, MayForward(hops)
    PROVE  OneHopLess(hops) \in Nat
  BY DEF MayForward, OneHopLess

-----------------------------------------------------------------------------
(* Blocks as sequences. *)

\* All elements of a sequence but the last are a sequence.
LEMMA AllButLast ==
    ASSUME NEW P, NEW s \in Seq(P), s # <<>>
    PROVE  /\ SubSeq(s, 1, Len(s) - 1) \in Seq(P)
           /\ Len(SubSeq(s, 1, Len(s) - 1)) = Len(s) - 1
           /\ Len(s) \in Nat \ {0}
           /\ s[Len(s)] \in P
<1>1. Len(s) \in Nat \ {0}
  BY EmptySeq
<1> DEFINE k == Len(s) - 1
<1>2. k \in Nat /\ \A i \in 1 .. k : s[i] \in P
  BY <1>1
<1>3. s[Len(s)] \in P
  BY <1>1
<1>4. SubSeq(s, 1, k) \in Seq(P) /\ Len(SubSeq(s, 1, k)) = k
  <2> HIDE DEF k
  <2>1. k \in Int /\ 1 \in Int
    BY <1>2
  <2>2. /\ SubSeq(s, 1, k) \in Seq(P)
        /\ Len(SubSeq(s, 1, k)) = IF 1 <= k THEN k - 1 + 1 ELSE 0
    BY <1>2, <2>1, SubSeqProperties
  <2> QED
    BY <1>2, <2>2
<1> QED
  BY <1>1, <1>3, <1>4

\* What is appended to is all but the last.
LEMMA AllButAppended ==
    ASSUME NEW P, NEW s \in Seq(P), NEW x \in P
    PROVE  /\ Append(s, x) \in Seq(P) \ {<<>>}
           /\ SubSeq(Append(s, x), 1, Len(Append(s, x)) - 1) = s
<1> DEFINE t == Append(s, x)
<1>1. /\ Len(s) \in Nat
      /\ t \in Seq(P) /\ Len(t) = Len(s) + 1
      /\ \A i \in 1 .. Len(s) : t[i] = s[i] /\ t[i] \in P
  OBVIOUS
<1> HIDE DEF t
<1>2. t # <<>>
  BY <1>1, EmptySeq
<1>3. /\ SubSeq(t, 1, Len(s)) \in Seq(P)
      /\ Len(SubSeq(t, 1, Len(s))) = Len(s)
      /\ \A i \in 1 .. Len(s) : SubSeq(t, 1, Len(s))[i] = t[i]
  <2>1. Len(s) \in Int /\ 1 \in Int /\ Len(s) - 1 + 1 = Len(s)
    BY <1>1
  <2>2. /\ SubSeq(t, 1, Len(s)) \in Seq(P)
        /\ Len(SubSeq(t, 1, Len(s))) = IF 1 <= Len(s) THEN Len(s) - 1 + 1 ELSE 0
        /\ \A i \in 1 .. Len(s) - 1 + 1 : SubSeq(t, 1, Len(s))[i] = t[1 + i - 1]
    BY <1>1, <2>1, SubSeqProperties
  <2> QED
    BY <1>1, <2>1, <2>2
<1>4. SubSeq(t, 1, Len(s)) = s
  BY <1>1, <1>3, SeqEqual
<1>5. Len(t) - 1 = Len(s)
  BY <1>1
<1> QED
  BY <1>1, <1>2, <1>4, <1>5 DEF t

\* The parent of a block is one payload shorter.
LEMMA ParentIs ==
    ASSUME NEW b \in Stored
    PROVE  /\ Parent(b) \in Block
           /\ Len(b) \in Nat \ {0} /\ Len(Parent(b)) = Len(b) - 1
           /\ Parent(b) # b
           /\ ClaimsOf(b) \subseteq Names
<1> DEFINE P == [nonce : Nat, claims : SUBSET Names]
<1>1. b \in Seq(P) /\ b # <<>> /\ Block = Seq(P)
  BY DEF Stored, Block, Genesis
<1>2. \A x \in P : x.claims \subseteq Names
  OBVIOUS
<1> HIDE DEF P
<1>3. /\ Parent(b) \in Seq(P)
      /\ Len(Parent(b)) = Len(b) - 1 /\ Len(b) \in Nat \ {0}
      /\ b[Len(b)] \in P
  BY <1>1, AllButLast DEF Parent
<1> QED
  BY <1>1, <1>2, <1>3 DEF ClaimsOf

\* A mined block is one payload on top of its parent.
LEMMA MinedIs ==
    ASSUME NEW p \in Block, NEW x \in [nonce : Nat, claims : SUBSET Names]
    PROVE  Append(p, x) \in Stored /\ Parent(Append(p, x)) = p
  BY AllButAppended DEF Parent, Stored, Block, Genesis

\* What is on a branch is stored.
LEMMA BranchStored ==
    ASSUME NEW n \in Node, NEW b
    PROVE  Branch(n, b) \subseteq blocks[n]
  BY DEF Branch

-----------------------------------------------------------------------------
(* The stores. *)

\* A block with a place keeps a store in order: the lowest blocks stay.
LEMMA StoreGrows ==
    ASSUME NEW S, StoreOK(S), NEW b \in Stored, b \notin S,
           Parent(b) \in S \/ S = {}
    PROVE  /\ StoreOK(S \cup {b})
           /\ RootsOf(S) \subseteq RootsOf(S \cup {b})
           /\ S = {} => b \in RootsOf(S \cup {b})
<1>1. S \cup {b} \subseteq Stored /\ IsFiniteSet(S \cup {b})
  BY FS_AddElement DEF StoreOK
<1>2. /\ Parent(b) \in Block /\ Parent(b) # b
      /\ Len(b) \in Nat \ {0} /\ Len(Parent(b)) = Len(b) - 1
  BY ParentIs
<1>3. CASE S = {}
  <2>1. RootsOf(S \cup {b}) = {b}
    BY <1>2, <1>3 DEF RootsOf
  <2> QED
    BY <1>1, <1>2, <1>3, <2>1 DEF StoreOK, RootsOf
<1>4. CASE Parent(b) \in S
  <2>1. ASSUME NEW r \in RootsOf(S)
        PROVE  r \in RootsOf(S \cup {b}) /\ Len(r) <= Len(Parent(b))
    <3>1. r \in Stored /\ r \in S /\ Parent(r) \notin S
      BY DEF RootsOf, StoreOK
    <3>2. Len(r) \in Nat \ {0} /\ Len(Parent(r)) = Len(r) - 1
      BY <3>1, ParentIs
    <3>3. Len(r) <= Len(Parent(b))
      BY <1>4 DEF StoreOK
    <3>4. Parent(r) # b
      BY <1>2, <3>2, <3>3
    <3> QED
      BY <3>1, <3>3, <3>4 DEF RootsOf
  <2>2. RootsOf(S \cup {b}) = RootsOf(S)
    BY <1>4, <2>1 DEF RootsOf
  <2>3. \A r \in RootsOf(S) : Len(r) <= Len(b)
    <3> TAKE r \in RootsOf(S)
    <3>1. r \in Stored
      BY DEF RootsOf, StoreOK
    <3>2. Len(r) \in Nat
      BY <3>1, ParentIs
    <3> QED
      BY <1>2, <2>1, <3>2
  <2>4. RootsOf(S) # {}
    BY <1>4 DEF StoreOK
  <2>5. \A r \in RootsOf(S), c \in S \cup {b} : Len(r) <= Len(c)
    BY <2>3 DEF StoreOK
  <2> QED
    BY <1>1, <1>4, <2>2, <2>4, <2>5 DEF StoreOK
<1> QED
  BY <1>3, <1>4

\* What a step of a node does to the stores: nothing, or one block finds a place.
Taken(B, C, n, b) ==
    /\ b \notin B[n]
    /\ Parent(b) \in B[n] \/ B[n] = {}
    /\ C = [B EXCEPT ![n] = @ \cup {b}]

\* A block that arrives is taken if it is news and finds a place; the rest of the
\* node follows.
LEMMA HandleStores ==
    ASSUME TypeOK, NodesInv, NEW n \in Node, NEW b \in Stored,
           NEW hops, NEW left, NEW from,
           HandleNewBlockArrival(n, b, hops, left, from)
    PROVE  /\ blocks' \in [Node -> SUBSET Block]
           /\ main' \in [Node -> Block]
           /\ names' \in [Node -> SUBSET Names]
           /\ blocks' = blocks \/ Taken(blocks, blocks', n, b)
           /\ \A p \in Node : blocks[p] \subseteq blocks'[p]
           /\ \A p \in Node : StoreOK(blocks'[p])
           /\ \A p \in Node : main'[p] \in blocks'[p] \cup {Genesis}
           /\ \A p \in Node : names'[p] \subseteq NamesIn(blocks'[p])
<1>1. CASE ~(IsNews(n, b) /\ HasPlace(n, b))
  <2>1. UNCHANGED storeVars
    BY <1>1 DEF HandleNewBlockArrival, Store
  <2> QED
    BY <2>1 DEF storeVars, TypeOK, NodesInv
<1>2. CASE IsNews(n, b) /\ HasPlace(n, b)
  <2>1. /\ blocks' = [blocks EXCEPT ![n] = @ \cup {b}]
        /\ main' = [main EXCEPT ![n] = NewMain(n, b)]
        /\ names' = [names EXCEPT ![n] = NewNames(n, b)]
    BY <1>2 DEF HandleNewBlockArrival, Store
  <2>2. Taken(blocks, blocks', n, b)
    BY <1>2, <2>1 DEF Taken, IsNews, HasPlace
  <2>3. /\ blocks'[n] = blocks[n] \cup {b}
        /\ \A p \in Node \ {n} : blocks'[p] = blocks[p]
        /\ b \in Block
    BY <2>1 DEF TypeOK, Stored
  <2>4. StoreOK(blocks'[n])
    <3>1. StoreOK(blocks[n])
      BY DEF NodesInv
    <3>2. b \notin blocks[n] /\ (Parent(b) \in blocks[n] \/ blocks[n] = {})
      BY <1>2 DEF IsNews, HasPlace
    <3>3. StoreOK(blocks[n] \cup {b})
      BY <3>1, <3>2, StoreGrows
    <3> QED
      BY <2>3, <3>3
  <2>5. NewMain(n, b) \in {b, main[n]}
    BY DEF NewMain
  <2>6. NewNames(n, b) \subseteq NamesIn(blocks'[n])
    <3>1. NewNames(n, b) \subseteq names[n] \cup NamesIn(Branch(n, b) \cup {b})
      BY DEF NewNames, NamesIn
    <3>2. NamesIn(Branch(n, b) \cup {b}) \subseteq NamesIn(blocks'[n])
      BY <2>3, BranchStored DEF NamesIn
    <3>3. NamesIn(blocks[n]) \subseteq NamesIn(blocks'[n])
      BY <2>3 DEF NamesIn
    <3> QED
      BY <3>1, <3>2, <3>3 DEF NodesInv
  <2>7. NamesIn(blocks'[n]) \subseteq Names
    <3>1. \A c \in blocks'[n] : ClaimsOf(c) \subseteq Names
      BY <2>4, ParentIs DEF StoreOK
    <3> QED
      BY <3>1 DEF NamesIn
  <2>8. /\ main'[n] \in blocks'[n] \cup {Genesis}
        /\ \A p \in Node \ {n} : main'[p] = main[p]
        /\ main' \in [Node -> Block]
    BY <2>1, <2>3, <2>5 DEF TypeOK, NodesInv
  <2>9. /\ names'[n] \subseteq NamesIn(blocks'[n])
        /\ \A p \in Node \ {n} : names'[p] = names[p]
        /\ names' \in [Node -> SUBSET Names]
    BY <2>1, <2>6, <2>7 DEF TypeOK
  <2>10. /\ blocks' \in [Node -> SUBSET Block]
         /\ \A p \in Node : blocks[p] \subseteq blocks'[p]
    BY <2>1, <2>3 DEF TypeOK
  <2>11. ASSUME NEW p \in Node
         PROVE  /\ StoreOK(blocks'[p])
                /\ main'[p] \in blocks'[p] \cup {Genesis}
                /\ names'[p] \subseteq NamesIn(blocks'[p])
    <3>1. CASE p = n
      BY <2>4, <2>8, <2>9, <3>1
    <3>2. CASE p # n
      BY <2>3, <2>8, <2>9, <3>2 DEF NodesInv
    <3> QED
      BY <3>1, <3>2
  <2> QED
    BY <2>2, <2>8, <2>9, <2>10, <2>11
<1> QED
  BY <1>1, <1>2

\* A block that arrives is passed on to all peers but its sender, or to none.
LEMMA HandleLinks ==
    ASSUME NEW n \in Node, NEW b \in Stored, NEW hops \in Nat,
           NEW left \in Links, NEW from,
           HandleNewBlockArrival(n, b, hops, left, from)
    PROVE  links' \in Links
<1>1. CASE links' = left
  BY <1>1
<1>2. CASE links' # left
  <2>1. /\ MayForward(hops)
        /\ Broadcast(left, n, [block |-> b, hops |-> OneHopLess(hops)], from)
    BY <1>2 DEF HandleNewBlockArrival
  <2>2. [block |-> b, hops |-> OneHopLess(hops)] \in Packet
    BY <2>1, HopsType DEF Packet
  <2> QED
    BY <2>1, <2>2, BroadcastIs
<1> QED
  BY <1>1, <1>2

\* A packet with a block is one with a stored block, and one with a name.
LEMMA PacketIs ==
    ASSUME NEW packet \in Packet
    PROVE  /\ packet.hops \in Nat
           /\ "block" \in DOMAIN packet => packet.block \in Stored
           /\ "tx" \in DOMAIN packet =>
                 packet.tx \in Names /\ packet \in [tx : Names, hops : Nat]
  BY DEF Packet

\* Every step keeps the types, and each node's variables together.
LEMMA NodesInvStep == TypeOK /\ NodesInv /\ [Next]_vars => TypeOK' /\ NodesInv'
<1> SUFFICES ASSUME TypeOK, NodesInv, [Next]_vars
             PROVE  TypeOK' /\ NodesInv'
  OBVIOUS
<1>a. links \in Links
  BY DEF NodesInv
<1>b. ASSUME links' \in Links
      PROVE  links' \in [Node -> [Node -> Seq([tx : Names, hops : Nat]
                                       \cup [block : Block, hops : Nat])]]
  <2>1. Packet \subseteq [tx : Names, hops : Nat] \cup [block : Block, hops : Nat]
    BY DEF Packet, Stored
  <2>2. Seq(Packet) \subseteq Seq([tx : Names, hops : Nat]
                                       \cup [block : Block, hops : Nat])
    BY <2>1, SeqMonotonic
  <2> QED
    BY <1>b, <2>2 DEF Links
<1>1. ASSUME NEW n \in Clients, NEW x \in Names, Share(n, x)
      PROVE  TypeOK' /\ NodesInv'
  <2>1. [tx |-> x, hops |-> TxHopLimit] \in Packet /\ n \in Node
    BY NetworkAssumption DEF Packet
  <2>2. links' \in Links
    BY <1>1, <1>a, <2>1, BroadcastIs DEF Share
  <2>3. links' \in [Node -> [Node -> Seq([tx : Names, hops : Nat]
                                       \cup [block : Block, hops : Nat])]]
    BY <1>b, <2>2
  <2>4. /\ UNCHANGED <<blocks, main, names, mining, mined>>
        /\ pool' = [pool EXCEPT ![n] = @ \cup {x}]
        /\ shared' = shared + 1 /\ shared < MaxShared
    BY <1>1 DEF Share, storeVars
  <2>5. shared' \in 0 .. MaxShared /\ pool' \in [Node -> SUBSET Names]
    BY <2>1, <2>4, NetworkAssumption DEF TypeOK
  <2> QED
    BY <2>2, <2>3, <2>4, <2>5 DEF TypeOK, NodesInv
<1>2. ASSUME NEW n \in Node, NEW from \in Node, Receive(n, from)
      PROVE  TypeOK' /\ NodesInv'
  <2> DEFINE packet == Head(links[from][n])
  <2>1. packet \in Packet /\ Read(n, from) \in Links
    BY <1>2, <1>a, ReadIs DEF Receive
  <2>2. CASE "tx" \in DOMAIN packet /\ ReceiveTx(n, from, packet)
    <3>1. packet.tx \in Names /\ packet \in [tx : Names, hops : Nat]
      BY <2>1, <2>2, PacketIs
    <3> HIDE DEF packet
    <3>2. /\ UNCHANGED <<blocks, main, names, mining, mined, shared>>
          /\ pool' = pool \/ pool' = [pool EXCEPT ![n] = @ \cup {packet.tx}]
      BY <2>2 DEF ReceiveTx, storeVars
    <3>3. links' \in Links
      <4>1. CASE links' = Read(n, from)
        BY <2>1, <4>1
      <4>2. CASE links' # Read(n, from)
        <5>1. /\ MayForward(packet.hops)
              /\ Broadcast(Read(n, from), n,
                        [packet EXCEPT !.hops = OneHopLess(@)], {from})
          BY <2>2, <4>2 DEF ReceiveTx
        <5>2. [packet EXCEPT !.hops = OneHopLess(@)] \in Packet
          BY <3>1, <5>1, HopsType DEF Packet
        <5> QED
          BY <2>1, <5>1, <5>2, BroadcastIs
      <4> QED
        BY <4>1, <4>2
    <3>4. pool' \in [Node -> SUBSET Names]
      <4>1. pool \in [Node -> SUBSET Names]
        BY DEF TypeOK
      <4>2. pool[n] \cup {packet.tx} \in SUBSET Names
        BY <3>1, <4>1
      <4> QED
        BY <3>2, <4>1, <4>2
    <3> QED
      BY <1>b, <3>2, <3>3, <3>4 DEF TypeOK, NodesInv
  <2>3. CASE "block" \in DOMAIN packet /\ ReceiveBlock(n, from, packet)
    <3>1. packet.block \in Stored /\ packet.hops \in Nat
      BY <2>1, <2>3, PacketIs
    <3> HIDE DEF packet
    <3>2. /\ HandleNewBlockArrival(n, packet.block, packet.hops, Read(n, from), {from})
          /\ UNCHANGED <<pool, mining, mined, shared>>
      BY <2>3 DEF ReceiveBlock
    <3>3. links' \in Links
      BY <2>1, <3>1, <3>2, HandleLinks
    <3>4. /\ blocks' \in [Node -> SUBSET Block]
          /\ main' \in [Node -> Block]
          /\ names' \in [Node -> SUBSET Names]
          /\ \A p \in Node : blocks[p] \subseteq blocks'[p]
          /\ \A p \in Node : StoreOK(blocks'[p])
          /\ \A p \in Node : main'[p] \in blocks'[p] \cup {Genesis}
          /\ \A p \in Node : names'[p] \subseteq NamesIn(blocks'[p])
      BY <3>1, <3>2, HandleStores
    <3>5. TypeOK'
      BY <1>b, <3>2, <3>3, <3>4 DEF TypeOK
    <3>6. \A p \in Node : mining'[p].parent \in blocks'[p] \cup {Genesis}
      BY <3>2, <3>4 DEF NodesInv
    <3>7. (\A p \in Node : names[p] \subseteq NamesIn(blocks[p]))'
      BY <3>4 DEF NamesIn
    <3> QED
      BY <3>3, <3>4, <3>5, <3>6, <3>7 DEF NodesInv
  <2> QED
    BY <1>2, <2>2, <2>3 DEF Receive
<1>3. ASSUME NEW n \in Miners, StartMining(n)
      PROVE  TypeOK' /\ NodesInv'
  <2>1. n \in Node
    BY NetworkAssumption
  <2>2. /\ UNCHANGED <<blocks, main, names, links, mined, shared>>
        /\ mining' = [mining EXCEPT ![n] =
                     [parent |-> main[n], claims |-> pool[n], busy |-> TRUE]]
        /\ pool' = [pool EXCEPT ![n] = {}]
    BY <1>3 DEF StartMining, storeVars
  <2>3. /\ mining' \in [Node -> [parent : Block, claims : SUBSET Names, busy : BOOLEAN]]
        /\ pool' \in [Node -> SUBSET Names]
    BY <2>1, <2>2 DEF TypeOK
  <2>4. \A p \in Node : mining'[p].parent \in blocks[p] \cup {Genesis}
    BY <2>1, <2>2 DEF TypeOK, NodesInv
  <2> QED
    BY <2>2, <2>3, <2>4 DEF TypeOK, NodesInv
<1>4. ASSUME NEW n \in Miners, FinishMining(n)
      PROVE  TypeOK' /\ NodesInv'
  <2> DEFINE payload == [nonce |-> mined, claims |-> mining[n].claims]
             b == Append(mining[n].parent, payload)
  <2>1. n \in Node
    BY NetworkAssumption
  <2>2. mining[n].parent \in Block /\ payload \in [nonce : Nat, claims : SUBSET Names]
    BY <2>1, NetworkAssumption DEF TypeOK
  <2>3. b \in Stored
    BY <2>2, MinedIs
  <2>4. /\ HandleNewBlockArrival(n, b, BlockHopLimit, links, {})
        /\ mining' = [mining EXCEPT ![n] = Idle]
        /\ mined' = mined + 1 /\ mined < MaxMined
        /\ UNCHANGED <<pool, shared>>
    BY <1>4 DEF FinishMining
  <2> HIDE DEF b, payload
  <2>5. links' \in Links
    BY <1>a, <2>1, <2>3, <2>4, HandleLinks, NetworkAssumption
  <2>6. /\ blocks' \in [Node -> SUBSET Block]
        /\ main' \in [Node -> Block]
        /\ names' \in [Node -> SUBSET Names]
        /\ \A p \in Node : blocks[p] \subseteq blocks'[p]
        /\ \A p \in Node : StoreOK(blocks'[p])
        /\ \A p \in Node : main'[p] \in blocks'[p] \cup {Genesis}
        /\ \A p \in Node : names'[p] \subseteq NamesIn(blocks'[p])
    BY <2>1, <2>3, <2>4, HandleStores
  <2>7. mined' \in 0 .. MaxMined
    BY <2>4, NetworkAssumption DEF TypeOK
  <2>8. mining' \in [Node -> [parent : Block, claims : SUBSET Names, busy : BOOLEAN]]
    BY <2>4, EmptySeq DEF TypeOK, Idle, Genesis, Block
  <2>9. TypeOK'
    BY <1>b, <2>4, <2>5, <2>6, <2>7, <2>8 DEF TypeOK
  <2>10. \A p \in Node : mining'[p].parent \in blocks'[p] \cup {Genesis}
    BY <2>4, <2>6 DEF NodesInv, Idle, TypeOK
  <2>11. (\A p \in Node : names[p] \subseteq NamesIn(blocks[p]))'
    BY <2>6 DEF NamesIn
  <2> QED
    BY <2>5, <2>6, <2>9, <2>10, <2>11 DEF NodesInv
<1>5. CASE UNCHANGED vars
  BY <1>5 DEF vars, TypeOK, NodesInv, NamesIn
<1> QED
  BY <1>1, <1>2, <1>3, <1>4, <1>5 DEF Next

\* Initially nothing is stored.
LEMMA NodesInvInit == Init => TypeOK /\ NodesInv
<1> SUFFICES ASSUME Init
             PROVE  TypeOK /\ NodesInv
  OBVIOUS
<1>1. <<>> \in Block /\ \A S : <<>> \in Seq(S)
  BY EmptySeq DEF Block
<1>2. StoreOK({})
  BY FS_EmptySet DEF StoreOK, RootsOf
<1>3. TypeOK
  BY <1>1, NetworkAssumption DEF Init, TypeOK, Genesis, Idle
<1> QED
  BY <1>1, <1>2, <1>3 DEF Init, NodesInv, Links, Idle, NamesIn

\* Every variable of the network keeps its type; hop counts never fall below zero.
THEOREM FloodTypeCorrect == Spec => []TypeOK
  BY NodesInvInit, NodesInvStep, PTL DEF Spec

-----------------------------------------------------------------------------
(* What stays true of packets when stores grow. *)

\* Stores that grow keep their roots, and the blocks that came too late.
GrowTo(B, C) ==
    \A p \in Node :
        /\ B[p] \subseteq C[p]
        /\ RootsOf(B[p]) \subseteq RootsOf(C[p])
        /\ \A x \in Stored : Late(B, x) => Late(C, x)

\* A block that is taken lets the stores grow.
LEMMA TakenGrows ==
    ASSUME NEW B \in [Node -> SUBSET Block], \A p \in Node : StoreOK(B[p]),
           NEW n \in Node, NEW b \in Stored, NEW C, Taken(B, C, n, b)
    PROVE  /\ GrowTo(B, C)
           /\ C[n] = B[n] \cup {b}
           /\ \A p \in Node \ {n} : C[p] = B[p]
           /\ B[n] = {} => b \in RootsOf(C[n])
<1>1. /\ C[n] = B[n] \cup {b}
      /\ \A p \in Node \ {n} : C[p] = B[p]
  BY DEF Taken
<1>2. /\ RootsOf(B[n]) \subseteq RootsOf(C[n])
      /\ B[n] = {} => b \in RootsOf(C[n])
  <2>1. StoreOK(B[n]) /\ b \notin B[n] /\ (Parent(b) \in B[n] \/ B[n] = {})
    BY DEF Taken
  <2>2. /\ RootsOf(B[n]) \subseteq RootsOf(B[n] \cup {b})
        /\ B[n] = {} => b \in RootsOf(B[n] \cup {b})
    BY <2>1, StoreGrows
  <2> QED
    BY <1>1, <2>2
<1>3. ASSUME NEW x \in Stored, Late(B, x)
      PROVE  Late(C, x)
  <2>1. PICK q \in Node : B[q] # {} /\ x \notin B[q]
    BY <1>3 DEF Late
  <2>2. Parent(x) = Genesis /\ Genesis \notin B[n]
    BY <1>3 DEF Late, StoreOK, Stored
  <2>3. q = n => x # b
    BY <2>1, <2>2 DEF Taken
  <2>4. C[q] # {} /\ x \notin C[q]
    BY <1>1, <2>1, <2>3
  <2> QED
    BY <2>2, <2>4 DEF Late
<1>4. \A p \in Node : B[p] \subseteq C[p] /\ RootsOf(B[p]) \subseteq RootsOf(C[p])
  BY <1>1, <1>2
<1> QED
  BY <1>1, <1>2, <1>3, <1>4 DEF GrowTo

\* Stores that have one root, and no name twice, had so when they were smaller.
LEMMA OneRootBefore ==
    ASSUME NEW B, NEW C, GrowTo(B, C)
    PROVE  /\ OneRoot(C) => OneRoot(B)
           /\ Distinct(C) => Distinct(B)
  BY DEF GrowTo, OneRoot, Distinct

\* Holders only get more.
LEMMA HoldersGrow ==
    ASSUME IsFiniteSet(Node), NEW B, NEW C, GrowTo(B, C), NEW b
    PROVE  /\ Cardinality(Holders(B, b)) \in Nat
           /\ Cardinality(Holders(C, b)) \in Nat
           /\ Cardinality(Holders(B, b)) <= Cardinality(Holders(C, b))
<1>1. IsFiniteSet(Holders(B, b)) /\ IsFiniteSet(Holders(C, b))
  BY FS_Subset DEF Holders
<1>2. Holders(B, b) \subseteq Holders(C, b)
  BY DEF Holders, GrowTo
<1> QED
  BY <1>1, <1>2, FS_Subset, FS_CardinalityType

\* Packets stay due when the stores grow.
LEMMA OrderedStays ==
    ASSUME IsFiniteSet(Node), NEW B, NEW C, GrowTo(B, C),
           NEW n \in Node, NEW p \in Node, NEW s \in Seq(Packet),
           Ordered(B, n, p, s)
    PROVE  Ordered(C, n, p, s)
<1> SUFFICES ASSUME NEW i \in 1 .. Len(s), "block" \in DOMAIN s[i],
                    ~Late(C, s[i].block)
             PROVE  Due(C, n, p, s, i)
  BY DEF Ordered
<1> DEFINE b == s[i].block
<1>1. s[i] \in Packet
  OBVIOUS
<1>2. b \in Stored /\ s[i].hops \in Nat
  BY <1>1, PacketIs
<1>3. Due(B, n, p, s, i)
  BY <1>2 DEF Ordered, GrowTo
<1>4. /\ b \in B[n]
      /\ BlockHopLimit <= s[i].hops + Cardinality(Holders(B, b))
      /\ \/ b \in RootsOf(B[n])
         \/ Parent(b) \in B[p]
         \/ \E j \in 1 .. i - 1 : Carries(s[j], Parent(b))
  BY <1>3 DEF Due
<1> HIDE DEF b
<1>5. BlockHopLimit <= s[i].hops + Cardinality(Holders(C, b))
  BY <1>2, <1>4, HoldersGrow, NetworkAssumption
<1>6. /\ b \in C[n]
      /\ \/ b \in RootsOf(C[n])
         \/ Parent(b) \in C[p]
         \/ \E j \in 1 .. i - 1 : Carries(s[j], Parent(b))
  BY <1>4 DEF GrowTo
<1> QED
  BY <1>5, <1>6 DEF Due, b

\* When the first packet has been handled, the others are due.
LEMMA OrderedTail ==
    ASSUME NEW B, NEW n \in Node, NEW p \in Node,
           NEW s \in Seq(Packet), s # <<>>, Ordered(B, n, p, s),
           \A b \in B[n] : Carries(Head(s), b) => b \in B[p]
    PROVE  Ordered(B, n, p, Tail(s))
<1> DEFINE t == Tail(s)
<1>1. /\ t \in Seq(Packet) /\ Len(t) \in Nat /\ Len(s) \in Nat
      /\ Len(t) = Len(s) - 1
      /\ \A i \in 1 .. Len(t) : t[i] = s[i + 1] /\ i + 1 \in 1 .. Len(s)
      /\ Head(s) = s[1]
  BY HeadTailProperties
<1> HIDE DEF t
<1> SUFFICES ASSUME NEW i \in 1 .. Len(t), "block" \in DOMAIN t[i],
                    ~Late(B, t[i].block)
             PROVE  Due(B, n, p, t, i)
  BY DEF Ordered, t
<1> DEFINE b == t[i].block
<1>2. i + 1 \in 1 .. Len(s) /\ t[i] = s[i + 1]
  BY <1>1
<1>3. Due(B, n, p, s, i + 1)
  BY <1>2 DEF Ordered
<1>4. /\ b \in B[n]
      /\ BlockHopLimit <= t[i].hops + Cardinality(Holders(B, b))
      /\ \/ b \in RootsOf(B[n])
         \/ Parent(b) \in B[p]
         \/ \E j \in 1 .. i + 1 - 1 : Carries(s[j], Parent(b))
  BY <1>2, <1>3 DEF Due
<1> HIDE DEF b
<1>5. ASSUME NEW j \in 1 .. i + 1 - 1, Carries(s[j], Parent(b)),
             b \notin RootsOf(B[n])
      PROVE  Parent(b) \in B[p] \/ \E k \in 1 .. i - 1 : Carries(t[k], Parent(b))
  <2>1. CASE j = 1
    <3>1. Parent(b) \in B[n]
      BY <1>4, <1>5 DEF RootsOf
    <3> QED
      BY <1>1, <1>5, <2>1, <3>1
  <2>2. CASE j # 1
    <3>1. j - 1 \in 1 .. i - 1 /\ j - 1 \in 1 .. Len(t) /\ j - 1 + 1 = j
      BY <1>1, <2>2
    <3>2. t[j - 1] = s[j]
      BY <1>1, <3>1
    <3> QED
      BY <1>5, <3>1, <3>2
  <2> QED
    BY <2>1, <2>2
<1>6. \/ b \in RootsOf(B[n])
      \/ Parent(b) \in B[p]
      \/ \E j \in 1 .. i - 1 : Carries(t[j], Parent(b))
  BY <1>4, <1>5
<1> QED
  BY <1>4, <1>6 DEF Due, b

\* A packet is added that is due, comes too late, or has no block.
LEMMA OrderedAppend ==
    ASSUME NEW B, NEW n \in Node, NEW p \in Node,
           NEW s \in Seq(Packet), NEW k \in Packet, Ordered(B, n, p, s),
           "block" \in DOMAIN k => \/ Late(B, k.block)
                                   \/ Due(B, n, p, Append(s, k), Len(s) + 1)
    PROVE  Ordered(B, n, p, Append(s, k))
<1> DEFINE t == Append(s, k)
<1>1. /\ Len(s) \in Nat /\ Len(t) = Len(s) + 1
      /\ \A i \in 1 .. Len(s) : t[i] = s[i]
      /\ t[Len(s) + 1] = k
  OBVIOUS
<1>2. "block" \in DOMAIN k => Late(B, k.block) \/ Due(B, n, p, t, Len(s) + 1)
  OBVIOUS
<1> HIDE DEF t
<1> SUFFICES ASSUME NEW i \in 1 .. Len(t), "block" \in DOMAIN t[i],
                    ~Late(B, t[i].block)
             PROVE  Due(B, n, p, t, i)
  BY DEF Ordered, t
<1>3. CASE i = Len(s) + 1
  BY <1>1, <1>2, <1>3
<1>4. CASE i \in 1 .. Len(s)
  <2>1. t[i] = s[i] /\ \A j \in 1 .. i - 1 : t[j] = s[j]
    BY <1>1, <1>4
  <2>2. Due(B, n, p, s, i)
    BY <1>4, <2>1 DEF Ordered
  <2> QED
    BY <2>1, <2>2 DEF Due
<1> QED
  BY <1>1, <1>3, <1>4

\* What is carried stays carried when a packet is added.
LEMMA CarriedStays ==
    ASSUME NEW s \in Seq(Packet), NEW k \in Packet
    PROVE  /\ \A b : (\E i \in 1 .. Len(s) : Carries(s[i], b)) =>
                         \E i \in 1 .. Len(Append(s, k)) : Carries(Append(s, k)[i], b)
           /\ \A b : Carries(k, b) =>
                         \E i \in 1 .. Len(Append(s, k)) : Carries(Append(s, k)[i], b)
<1> DEFINE t == Append(s, k)
<1>1. /\ Len(s) \in Nat /\ Len(t) = Len(s) + 1
      /\ \A i \in 1 .. Len(s) : t[i] = s[i]
      /\ t[Len(s) + 1] = k
      /\ Len(s) + 1 \in 1 .. Len(t)
      /\ \A i \in 1 .. Len(s) : i \in 1 .. Len(t)
  OBVIOUS
<1> HIDE DEF t
<1>2. /\ \A b : (\E i \in 1 .. Len(s) : Carries(s[i], b)) =>
                    \E i \in 1 .. Len(t) : Carries(t[i], b)
      /\ \A b : Carries(k, b) => \E i \in 1 .. Len(t) : Carries(t[i], b)
  BY <1>1
<1> QED
  BY <1>2 DEF t

\* What is carried and not in the first packet stays carried when that is read.
LEMMA CarriedTail ==
    ASSUME NEW s \in Seq(Packet), s # <<>>, NEW b, ~Carries(Head(s), b),
           NEW i \in 1 .. Len(s), Carries(s[i], b)
    PROVE  \E j \in 1 .. Len(Tail(s)) : Carries(Tail(s)[j], b)
<1> DEFINE t == Tail(s)
<1>1. /\ Len(t) \in Nat /\ Len(s) \in Nat
      /\ Len(t) = Len(s) - 1
      /\ \A j \in 1 .. Len(t) : t[j] = s[j + 1]
      /\ Head(s) = s[1]
  BY HeadTailProperties
<1> HIDE DEF t
<1>2. i - 1 \in 1 .. Len(t) /\ i - 1 + 1 = i
  BY <1>1
<1> QED
  BY <1>1, <1>2 DEF t

-----------------------------------------------------------------------------
(* How a block that arrives is handled. *)

\* A block that comes too late is nowhere.
LEMMA LateNowhere ==
    ASSUME NEW B, \A p \in Node : StoreOK(B[p]), OneRoot(B),
           NEW b, Late(B, b), NEW p \in Node
    PROVE  b \notin B[p]
<1> SUFFICES ASSUME b \in B[p]
             PROVE  FALSE
  OBVIOUS
<1>1. b \in RootsOf(B[p])
  BY DEF Late, StoreOK, Stored, RootsOf
<1>2. PICK q \in Node : B[q] # {} /\ b \notin B[q]
  BY DEF Late
<1>3. PICK r \in RootsOf(B[q]) : TRUE
  BY <1>2 DEF StoreOK
<1> QED
  BY <1>1, <1>2, <1>3 DEF OneRoot, RootsOf

\* With no name in two blocks, a stored block that a node does not have is news.
LEMMA NotStoredIsNews ==
    ASSUME NodesInv, Distinct(blocks), NEW n \in Node, NEW p \in Node,
           NEW b \in blocks[p], b \notin blocks[n]
    PROVE  IsNews(n, b)
<1>1. \A c \in blocks[n] : ClaimsOf(b) \cap ClaimsOf(c) = {}
  BY DEF Distinct
<1>2. ClaimsOf(b) \cap NamesIn(blocks[n]) = {}
  BY <1>1 DEF NamesIn
<1> QED
  BY <1>2 DEF IsNews, NodesInv

\* The last node to get a block need not pass it on.
LEMMA AllHold ==
    ASSUME HopsSuffice, NEW B, NEW n \in Node, NEW b, b \notin B[n],
           BlockHopLimit <= Cardinality(Holders(B, b))
    PROVE  \A p \in Node \ {n} : b \in B[p]
<1> DEFINE H == Holders(B, b)
<1>1. H \subseteq Node /\ n \notin H
  BY DEF Holders
<1>2. IsFiniteSet(H) /\ IsFiniteSet(Node)
  BY <1>1, FS_Subset DEF HopsSuffice
<1> HIDE DEF H
<1>3. /\ Cardinality(H \cup {n}) = Cardinality(H) + 1
      /\ Cardinality(H) \in Nat /\ Cardinality(Node) \in Nat
  BY <1>1, <1>2, FS_AddElement, FS_CardinalityType
<1>4. H \cup {n} \in SUBSET Node
  BY <1>1
<1>5. Cardinality(H \cup {n}) <= Cardinality(Node)
      /\ (Cardinality(Node) = Cardinality(H \cup {n}) => Node = H \cup {n})
  BY <1>2, <1>4, FS_Subset
<1>6. Cardinality(Node) - 1 <= Cardinality(H)
  BY <1>3, NetworkAssumption DEF HopsSuffice, H
<1>7. Node = H \cup {n}
  BY <1>3, <1>5, <1>6
<1> QED
  BY <1>7 DEF H, Holders

\* A block that arrives is handled so that every packet is due, and every block
\* is on its way to the neighbours of those that store it.
LEMMA HandleFlow ==
    ASSUME TypeOK, NodesInv, HopsSuffice,
           NEW n \in Node, NEW b \in Stored, NEW hops \in Nat,
           NEW left \in Links, NEW sender \in SUBSET Node,
           HandleNewBlockArrival(n, b, hops, left, sender),
           \A i, j \in Node : Ordered(blocks', i, j, left[i][j]),
           \A i \in Node : \A j \in Neighbours[i] : \A x \in blocks[i] :
              \/ x \in blocks'[j]
              \/ \E k \in 1 .. Len(left[i][j]) : Carries(left[i][j][k], x),
           IsNews(n, b) =>
              \/ /\ HasPlace(n, b)
                 /\ \A p \in sender : b \in blocks[p]
                 /\ BlockHopLimit <= hops + Cardinality(Holders(blocks, b))
              \/ ~HasPlace(n, b) /\ Late(blocks, b)
    PROVE  \A i, j \in Node :
              /\ Ordered(blocks', i, j, links'[i][j])
              /\ j \in Neighbours[i] => Complete(blocks', i, j, links'[i][j])
<1>a. Neighbours \in [Node -> SUBSET Node] /\ n \notin Neighbours[n]
  BY NetworkAssumption
<1>b. blocks \in [Node -> SUBSET Block] /\ \A p \in Node : StoreOK(blocks[p])
  BY DEF TypeOK, NodesInv
<1>c. ASSUME NEW i \in Node, NEW j \in Node
      PROVE  left[i][j] \in Seq(Packet)
  BY DEF Links
<1>d. ASSUME blocks' = blocks, links' = left
      PROVE  \A i, j \in Node :
                /\ Ordered(blocks', i, j, links'[i][j])
                /\ j \in Neighbours[i] => Complete(blocks', i, j, links'[i][j])
  BY <1>d DEF Complete
<1> DEFINE packet == [block |-> b, hops |-> OneHopLess(hops)]
<1>e. ASSUME MayForward(hops)
      PROVE  packet \in Packet /\ Carries(packet, b)
             /\ "block" \in DOMAIN packet /\ packet.block = b
             /\ packet.hops = hops - 1
  BY <1>e, HopsType DEF Packet, Carries, OneHopLess
<1> HIDE DEF packet
<1>1. CASE ~IsNews(n, b)
  BY <1>1, <1>d DEF HandleNewBlockArrival, storeVars
<1>2. CASE IsNews(n, b) /\ ~HasPlace(n, b)
  <2>1. blocks' = blocks
    BY <1>2 DEF HandleNewBlockArrival, Store, storeVars
  <2>2. CASE ~MayForward(hops)
    BY <1>2, <1>d, <2>1, <2>2 DEF HandleNewBlockArrival
  <2>3. CASE MayForward(hops)
    <3>1. /\ \A i, j \in Node : links'[i][j] =
                IF i = n /\ j \in Neighbours[n] \ sender
                THEN Append(left[i][j], packet) ELSE left[i][j]
      BY <1>2, <1>e, <2>3, BroadcastIs DEF HandleNewBlockArrival, packet
    <3> SUFFICES ASSUME NEW i \in Node, NEW j \in Node
                 PROVE  /\ Ordered(blocks', i, j, links'[i][j])
                        /\ j \in Neighbours[i] => Complete(blocks', i, j, links'[i][j])
      OBVIOUS
    <3>2. CASE links'[i][j] = left[i][j]
      BY <2>1, <3>2 DEF Complete
    <3>3. CASE links'[i][j] = Append(left[i][j], packet)
      <4>1. Ordered(blocks', i, j, links'[i][j])
        BY <1>2, <1>c, <1>e, <2>1, <2>3, <3>3, OrderedAppend
      <4>2. j \in Neighbours[i] => Complete(blocks', i, j, links'[i][j])
        BY <1>c, <1>e, <2>1, <2>3, <3>3, CarriedStays DEF Complete
      <4> QED
        BY <4>1, <4>2
    <3> QED
      BY <3>1, <3>2, <3>3
  <2> QED
    BY <2>2, <2>3
<1>3. CASE IsNews(n, b) /\ HasPlace(n, b)
  <2>1. /\ blocks' = [blocks EXCEPT ![n] = @ \cup {b}]
        /\ b \notin blocks[n] /\ (Parent(b) \in blocks[n] \/ blocks[n] = {})
        /\ \A p \in sender : b \in blocks[p]
        /\ BlockHopLimit <= hops + Cardinality(Holders(blocks, b))
    BY <1>3 DEF HandleNewBlockArrival, Store, IsNews, HasPlace
  <2>2. Taken(blocks, blocks', n, b)
    BY <2>1 DEF Taken
  <2>3. /\ GrowTo(blocks, blocks')
        /\ blocks'[n] = blocks[n] \cup {b}
        /\ \A p \in Node \ {n} : blocks'[p] = blocks[p]
        /\ blocks[n] = {} => b \in RootsOf(blocks'[n])
    BY <1>b, <2>2, TakenGrows
  <2>4. CASE ~MayForward(hops)
    <3>1. links' = left
      BY <1>3, <2>4 DEF HandleNewBlockArrival
    <3>2. BlockHopLimit <= Cardinality(Holders(blocks, b))
      <4>1. hops = 0
        BY <2>4 DEF MayForward
      <4>2. Cardinality(Holders(blocks, b)) \in Nat
        BY <2>3, HoldersGrow DEF HopsSuffice
      <4> QED
        BY <2>1, <4>1, <4>2, NetworkAssumption
    <3>3. \A p \in Node : b \in blocks'[p]
      BY <2>1, <2>3, <3>2, AllHold
    <3>4. ASSUME NEW i \in Node, NEW j \in Neighbours[i]
          PROVE  Complete(blocks', i, j, links'[i][j])
      <4>1. j \in Node
        BY <1>a
      <4>2. \A x \in blocks'[i] : x \in blocks[i] \/ x = b
        BY <2>3
      <4> QED
        BY <3>1, <3>3, <4>1, <4>2 DEF Complete
    <3> QED
      BY <3>1, <3>4
  <2>5. CASE MayForward(hops)
    <3>1. /\ \A i, j \in Node : links'[i][j] =
                IF i = n /\ j \in Neighbours[n] \ sender
                THEN Append(left[i][j], packet) ELSE left[i][j]
      BY <1>3, <1>e, <2>5, BroadcastIs DEF HandleNewBlockArrival, packet
    <3>2. /\ packet \in Packet /\ Carries(packet, b)
          /\ packet.block = b /\ packet.hops = hops - 1
      BY <1>e, <2>5
    <3>3. BlockHopLimit <= packet.hops + Cardinality(Holders(blocks', b))
      <4>1. Holders(blocks', b) = Holders(blocks, b) \cup {n} /\ n \notin Holders(blocks, b)
        BY <2>1, <2>3 DEF Holders
      <4>2. IsFiniteSet(Holders(blocks, b))
        BY FS_Subset DEF Holders, HopsSuffice
      <4>3. /\ Cardinality(Holders(blocks', b)) = Cardinality(Holders(blocks, b)) + 1
            /\ Cardinality(Holders(blocks, b)) \in Nat
        BY <4>1, <4>2, FS_AddElement, FS_CardinalityType
      <4> DEFINE c == Cardinality(Holders(blocks, b))
                 d == Cardinality(Holders(blocks', b))
      <4>4. c \in Nat /\ d = c + 1 /\ BlockHopLimit <= hops + c
        BY <2>1, <4>3
      <4> HIDE DEF c, d
      <4>5. BlockHopLimit <= hops - 1 + d
        BY <4>4, NetworkAssumption
      <4> QED
        BY <3>2, <4>5 DEF d
    <3> SUFFICES ASSUME NEW i \in Node, NEW j \in Node
                 PROVE  /\ Ordered(blocks', i, j, links'[i][j])
                        /\ j \in Neighbours[i] => Complete(blocks', i, j, links'[i][j])
      OBVIOUS
    <3>4. CASE i = n /\ j \in Neighbours[n] \ sender
      <4> DEFINE s == left[n][j]
                 t == Append(s, packet)
      <4>1. s \in Seq(Packet) /\ links'[n][j] = t /\ Ordered(blocks', n, j, s)
        BY <1>c, <3>1, <3>4
      <4>2. \A x \in blocks[n] :
               x \in blocks'[j] \/ \E k \in 1 .. Len(s) : Carries(s[k], x)
        BY <3>4
      <4>3. /\ Len(s) \in Nat /\ t[Len(s) + 1] = packet
            /\ \A k \in 1 .. Len(s) : t[k] = s[k]
            /\ Len(s) + 1 - 1 = Len(s)
        BY <3>2, <4>1
      <4> HIDE DEF s
      <4>4. \/ b \in RootsOf(blocks'[n])
            \/ Parent(b) \in blocks'[j]
            \/ \E k \in 1 .. Len(s) : Carries(s[k], Parent(b))
        BY <2>1, <2>3, <4>2
      <4>5. Due(blocks', n, j, t, Len(s) + 1)
        <5> HIDE DEF t
        <5>1. b \in blocks'[n]
          BY <2>3
        <5>2. \/ b \in RootsOf(blocks'[n])
              \/ Parent(b) \in blocks'[j]
              \/ \E k \in 1 .. Len(s) + 1 - 1 : Carries(t[k], Parent(b))
          BY <4>3, <4>4
        <5> QED
          BY <3>2, <3>3, <4>3, <5>1, <5>2 DEF Due
      <4>6. Ordered(blocks', n, j, t)
        BY <3>2, <4>1, <4>5, OrderedAppend
      <4>7. Complete(blocks', n, j, t)
        <5>1. \A x \in blocks'[n] :
                 \/ x \in blocks'[j]
                 \/ \E k \in 1 .. Len(s) : Carries(s[k], x)
                 \/ Carries(packet, x)
          BY <2>3, <3>2, <4>2
        <5> QED
          BY <3>2, <4>1, <5>1, CarriedStays DEF Complete
      <4> QED
        BY <3>4, <4>1, <4>6, <4>7
    <3>5. CASE ~(i = n /\ j \in Neighbours[n] \ sender)
      <4>1. links'[i][j] = left[i][j]
        BY <3>1, <3>5
      <4>2. ASSUME j \in Neighbours[i], NEW x \in blocks'[i], x \notin blocks[i]
            PROVE  x \in blocks'[j]
        <5>1. i = n /\ x = b /\ j \in sender
          BY <2>3, <3>5, <4>2
        <5> QED
          BY <2>1, <2>3, <5>1 DEF GrowTo
      <4> QED
        BY <4>1, <4>2 DEF Complete
    <3> QED
      BY <3>4, <3>5
  <2> QED
    BY <2>4, <2>5
<1> QED
  BY <1>1, <1>2, <1>3

-----------------------------------------------------------------------------
(* Agreement. *)

\* The packet of a transaction carries no block.
LEMMA TxIsNoBlock ==
    ASSUME NEW k \in [tx : Names, hops : Nat]
    PROVE  "block" \notin DOMAIN k /\ \A b : ~Carries(k, b)
  BY DEF Carries

\* A transaction that is read or sent leaves the flow of blocks as it is.
LEMMA TxFlow ==
    ASSUME NEW n \in Node, NEW left \in Links, NEW packet \in [tx : Names, hops : Nat],
           NEW sender,
           links' = left \/ Broadcast(left, n, packet, sender),
           blocks' = blocks,
           \A i, j \in Node :
              /\ Ordered(blocks, i, j, left[i][j])
              /\ j \in Neighbours[i] => Complete(blocks, i, j, left[i][j])
    PROVE  \A i, j \in Node :
              /\ Ordered(blocks', i, j, links'[i][j])
              /\ j \in Neighbours[i] => Complete(blocks', i, j, links'[i][j])
<1> SUFFICES ASSUME NEW i \in Node, NEW j \in Node
             PROVE  /\ Ordered(blocks', i, j, links'[i][j])
                    /\ j \in Neighbours[i] => Complete(blocks', i, j, links'[i][j])
  OBVIOUS
<1>1. packet \in Packet /\ "block" \notin DOMAIN packet
  BY TxIsNoBlock DEF Packet
<1>2. links'[i][j] = left[i][j] \/ links'[i][j] = Append(left[i][j], packet)
  <2>1. CASE links' = left
    BY <2>1
  <2>2. CASE Broadcast(left, n, packet, sender)
    <3>1. links'[i][j] = IF i = n /\ j \in Neighbours[n] \ sender
                         THEN Append(left[i][j], packet) ELSE left[i][j]
      BY <1>1, <2>2, BroadcastIs
    <3> QED
      BY <3>1
  <2> QED
    BY <2>1, <2>2
<1>3. left[i][j] \in Seq(Packet)
  BY DEF Links
<1>4. CASE links'[i][j] = left[i][j]
  BY <1>4
<1>5. CASE links'[i][j] = Append(left[i][j], packet)
  <2>1. Ordered(blocks, i, j, Append(left[i][j], packet))
    BY <1>1, <1>3, OrderedAppend
  <2>2. j \in Neighbours[i] => Complete(blocks, i, j, Append(left[i][j], packet))
    BY <1>1, <1>3, CarriedStays DEF Complete
  <2> QED
    BY <1>5, <2>1, <2>2
<1> QED
  BY <1>2, <1>4, <1>5

\* Every step keeps the flow of blocks.
LEMMA FlowInvStep ==
    ASSUME HopsSuffice
    PROVE  TypeOK /\ NodesInv /\ FlowInv /\ [Next]_vars => FlowInv'
<1> SUFFICES ASSUME TypeOK, NodesInv, FlowInv, [Next]_vars,
                    OneRoot(blocks'), Distinct(blocks')
             PROVE  \A i, j \in Node :
                       /\ Ordered(blocks', i, j, links'[i][j])
                       /\ j \in Neighbours[i] => Complete(blocks', i, j, links'[i][j])
  BY DEF FlowInv
<1>a. /\ links \in Links /\ IsFiniteSet(Node)
      /\ blocks \in [Node -> SUBSET Block] /\ \A p \in Node : StoreOK(blocks[p])
  BY DEF NodesInv, TypeOK, HopsSuffice
<1>b. ASSUME NEW i \in Node, NEW j \in Node
      PROVE  links[i][j] \in Seq(Packet)
  BY <1>a DEF Links
<1>c. ASSUME OneRoot(blocks), Distinct(blocks)
      PROVE  \A i, j \in Node :
                /\ Ordered(blocks, i, j, links[i][j])
                /\ j \in Neighbours[i] => Complete(blocks, i, j, links[i][j])
  BY <1>c DEF FlowInv
<1>d. ASSUME blocks' = blocks
      PROVE  \A i, j \in Node :
                /\ Ordered(blocks, i, j, links[i][j])
                /\ j \in Neighbours[i] => Complete(blocks, i, j, links[i][j])
  BY <1>c, <1>d
<1>e. ASSUME NEW n \in Node, NEW b \in Stored, Taken(blocks, blocks', n, b)
      PROVE  GrowTo(blocks, blocks')
  BY <1>a, <1>e, TakenGrows
<1>f. ASSUME blocks' = blocks
      PROVE  GrowTo(blocks, blocks')
  BY <1>f DEF GrowTo
<1>1. ASSUME NEW n \in Clients, NEW x \in Names, Share(n, x)
      PROVE  \A i, j \in Node :
                /\ Ordered(blocks', i, j, links'[i][j])
                /\ j \in Neighbours[i] => Complete(blocks', i, j, links'[i][j])
  <2>1. n \in Node /\ [tx |-> x, hops |-> TxHopLimit] \in [tx : Names, hops : Nat]
    BY NetworkAssumption
  <2>2. blocks' = blocks
    BY <1>1 DEF Share, storeVars
  <2> QED
    BY <1>1, <1>a, <1>d, <2>1, <2>2, TxFlow DEF Share
<1>2. ASSUME NEW n \in Node, NEW from \in Node, Receive(n, from)
      PROVE  \A i, j \in Node :
                /\ Ordered(blocks', i, j, links'[i][j])
                /\ j \in Neighbours[i] => Complete(blocks', i, j, links'[i][j])
  <2> DEFINE packet == Head(links[from][n])
             left == Read(n, from)
  <2>1. /\ packet \in Packet /\ left \in Links
        /\ links[from][n] # <<>>
        /\ \A i, j \in Node : left[i][j] =
              IF i = from /\ j = n THEN Tail(links[from][n]) ELSE links[i][j]
    BY <1>2, <1>a, ReadIs DEF Receive
  <2>2. CASE "tx" \in DOMAIN packet /\ ReceiveTx(n, from, packet)
    <3>1. packet.tx \in Names /\ packet \in [tx : Names, hops : Nat]
      BY <2>1, <2>2, PacketIs
    <3>2. \A b : ~Carries(packet, b)
      BY <3>1, TxIsNoBlock
    <3>3. blocks' = blocks
      BY <2>2 DEF ReceiveTx, storeVars
    <3>4. ASSUME NEW i \in Node, NEW j \in Node
          PROVE  /\ Ordered(blocks, i, j, left[i][j])
                 /\ j \in Neighbours[i] => Complete(blocks, i, j, left[i][j])
      <4>1. CASE ~(i = from /\ j = n)
        BY <1>d, <2>1, <3>3, <4>1
      <4>2. CASE i = from /\ j = n
        <5>1. Ordered(blocks, from, n, Tail(links[from][n]))
          BY <1>b, <1>d, <2>1, <3>2, <3>3, OrderedTail
        <5>2. n \in Neighbours[from] => Complete(blocks, from, n, Tail(links[from][n]))
          <6> SUFFICES ASSUME n \in Neighbours[from], NEW x \in blocks[from],
                              x \notin blocks[n]
                       PROVE  \E k \in 1 .. Len(Tail(links[from][n])) :
                                 Carries(Tail(links[from][n])[k], x)
            BY DEF Complete
          <6>1. PICK k \in 1 .. Len(links[from][n]) : Carries(links[from][n][k], x)
            BY <1>d, <3>3 DEF Complete
          <6> QED
            BY <1>b, <2>1, <3>2, <6>1, CarriedTail
        <5> QED
          BY <2>1, <4>2, <5>1, <5>2
      <4> QED
        BY <4>1, <4>2
    <3>5. links' = left \/ \E k \in [tx : Names, hops : Nat] : Broadcast(left, n, k, {from})
      <4> HIDE DEF packet, left
      <4>1. CASE links' = left
        BY <4>1
      <4>2. CASE links' # left
        <5>1. /\ MayForward(packet.hops)
              /\ Broadcast(left, n, [packet EXCEPT !.hops = OneHopLess(@)], {from})
          BY <2>2, <4>2 DEF ReceiveTx, left
        <5>2. [packet EXCEPT !.hops = OneHopLess(@)] \in [tx : Names, hops : Nat]
          BY <3>1, <5>1, HopsType
        <5> QED
          BY <5>1, <5>2
      <4> QED
        BY <4>1, <4>2
    <3> HIDE DEF packet, left
    <3> QED
      BY <2>1, <3>1, <3>3, <3>4, <3>5, TxFlow
  <2>3. CASE "block" \in DOMAIN packet /\ ReceiveBlock(n, from, packet)
    <3> DEFINE b == packet.block
               hops == packet.hops
    <3>1. b \in Stored /\ hops \in Nat
      BY <2>1, <2>3, PacketIs
    <3>2. HandleNewBlockArrival(n, b, hops, left, {from})
      BY <2>3 DEF ReceiveBlock
    <3>3. blocks' = blocks \/ Taken(blocks, blocks', n, b)
      BY <3>1, <3>2, HandleStores
    <3>4. GrowTo(blocks, blocks')
      BY <1>e, <1>f, <3>1, <3>3
    <3>5. /\ OneRoot(blocks) /\ Distinct(blocks)
          /\ \A p \in Node : StoreOK(blocks'[p])
      BY <3>1, <3>2, <3>4, OneRootBefore, HandleStores
    <3>6. \A i, j \in Node :
             /\ Ordered(blocks, i, j, links[i][j])
             /\ j \in Neighbours[i] => Complete(blocks, i, j, links[i][j])
      BY <1>c, <3>5
    <3>7. /\ Carries(packet, b) /\ \A x : Carries(packet, x) => x = b
          /\ packet = links[from][n][1] /\ 1 \in 1 .. Len(links[from][n])
          /\ links[from][n] \in Seq(Packet)
      <4>1. links[from][n] \in Seq(Packet)
        BY <1>b
      <4>2. Len(links[from][n]) \in Nat \ {0}
        BY <2>1, <4>1, EmptySeq
      <4> QED
        BY <2>3, <4>1, <4>2 DEF Carries
    <3>8. Late(blocks, b) \/ Due(blocks, from, n, links[from][n], 1)
      BY <2>3, <3>6, <3>7 DEF Ordered
    <3>9. /\ \A x \in blocks'[from] : x = b => x \in blocks'[n]
          /\ IsNews(n, b) =>
                \/ /\ HasPlace(n, b)
                   /\ b \in blocks[from]
                   /\ BlockHopLimit <= hops + Cardinality(Holders(blocks, b))
                \/ ~HasPlace(n, b) /\ Late(blocks, b)
      <4>1. CASE Late(blocks, b)
        <5>1. Late(blocks', b)
          BY <3>1, <3>4, <4>1 DEF GrowTo
        <5>2. \A p \in Node : b \notin blocks'[p]
          BY <3>5, <5>1, LateNowhere
        <5>3. ~(IsNews(n, b) /\ HasPlace(n, b))
          <6>1. IsNews(n, b) /\ HasPlace(n, b) => b \in blocks'[n]
            BY <1>a, <3>2 DEF HandleNewBlockArrival, Store
          <6> QED
            BY <5>2, <6>1
        <5> QED
          BY <4>1, <5>2, <5>3
      <4>2. CASE Due(blocks, from, n, links[from][n], 1)
        <5>1. /\ b \in blocks[from]
              /\ BlockHopLimit <= hops + Cardinality(Holders(blocks, b))
              /\ b \in RootsOf(blocks[from]) \/ Parent(b) \in blocks[n]
          BY <3>7, <4>2 DEF Due
        <5>2. ASSUME b \notin blocks[n]
              PROVE  IsNews(n, b) /\ HasPlace(n, b)
          <6>1. IsNews(n, b)
            BY <3>5, <5>1, <5>2, NotStoredIsNews
          <6>2. ASSUME b \in RootsOf(blocks[from]), blocks[n] # {}
                PROVE  FALSE
            <7>1. PICK r \in RootsOf(blocks[n]) : TRUE
              BY <1>a, <6>2 DEF StoreOK
            <7> QED
              BY <3>5, <5>2, <6>2, <7>1 DEF OneRoot, RootsOf
          <6> QED
            BY <5>1, <6>1, <6>2 DEF HasPlace
        <5>3. b \in blocks'[n]
          <6>1. CASE b \in blocks[n]
            BY <3>4, <6>1 DEF GrowTo
          <6>2. CASE b \notin blocks[n]
            BY <1>a, <3>2, <5>2, <6>2 DEF HandleNewBlockArrival, Store
          <6> QED
            BY <6>1, <6>2
        <5>4. b \in blocks[n] => ~IsNews(n, b)
          BY DEF IsNews
        <5> QED
          BY <5>1, <5>2, <5>3, <5>4
      <4> QED
        BY <3>8, <4>1, <4>2
    <3>10. ASSUME NEW i \in Node, NEW j \in Node
           PROVE  Ordered(blocks', i, j, left[i][j])
      <4>1. Ordered(blocks', i, j, links[i][j])
        BY <1>a, <1>b, <3>4, <3>6, OrderedStays
      <4>2. CASE ~(i = from /\ j = n)
        BY <2>1, <4>1, <4>2
      <4>3. CASE i = from /\ j = n
        <5>1. Ordered(blocks', from, n, Tail(links[from][n]))
          BY <2>1, <3>7, <3>9, <4>1, <4>3, OrderedTail
        <5> QED
          BY <2>1, <4>3, <5>1
      <4> QED
        BY <4>2, <4>3
    <3>11. ASSUME NEW i \in Node, NEW j \in Neighbours[i], NEW x \in blocks[i],
                  x \notin blocks'[j]
           PROVE  \E k \in 1 .. Len(left[i][j]) : Carries(left[i][j][k], x)
      <4>1. j \in Node /\ x \notin blocks[j] /\ x \in blocks'[i]
        BY <3>4, <3>11, NetworkAssumption DEF GrowTo
      <4>2. PICK k \in 1 .. Len(links[i][j]) : Carries(links[i][j][k], x)
        BY <3>6, <4>1 DEF Complete
      <4>3. CASE ~(i = from /\ j = n)
        BY <2>1, <4>1, <4>2, <4>3
      <4>4. CASE i = from /\ j = n
        <5>1. ~Carries(packet, x)
          BY <3>7, <3>9, <3>11, <4>1, <4>4
        <5>2. \E m \in 1 .. Len(Tail(links[from][n])) :
                 Carries(Tail(links[from][n])[m], x)
          BY <2>1, <3>7, <4>2, <4>4, <5>1, CarriedTail
        <5> QED
          BY <2>1, <4>4, <5>2
      <4> QED
        BY <4>3, <4>4
    <3> HIDE DEF b, hops, left, packet
    <3>12. {from} \in SUBSET Node /\ \A p \in {from} : p = from
      OBVIOUS
    <3> QED
      BY <2>1, <3>1, <3>2, <3>9, <3>10, <3>11, <3>12, HandleFlow
  <2> QED
    BY <1>2, <2>2, <2>3 DEF Receive
<1>3. ASSUME NEW n \in Miners, StartMining(n)
      PROVE  \A i, j \in Node :
                /\ Ordered(blocks', i, j, links'[i][j])
                /\ j \in Neighbours[i] => Complete(blocks', i, j, links'[i][j])
  <2>1. blocks' = blocks /\ links' = links
    BY <1>3 DEF StartMining, storeVars
  <2> QED
    BY <1>d, <2>1
<1>4. ASSUME NEW n \in Miners, FinishMining(n)
      PROVE  \A i, j \in Node :
                /\ Ordered(blocks', i, j, links'[i][j])
                /\ j \in Neighbours[i] => Complete(blocks', i, j, links'[i][j])
  <2> DEFINE payload == [nonce |-> mined, claims |-> mining[n].claims]
             b == Append(mining[n].parent, payload)
  <2>1. n \in Node /\ BlockHopLimit \in Nat
    BY NetworkAssumption
  <2>2. /\ mining[n].parent \in Block /\ mining[n].parent \in blocks[n] \cup {Genesis}
        /\ payload \in [nonce : Nat, claims : SUBSET Names]
    BY <2>1, NetworkAssumption DEF TypeOK, NodesInv
  <2>3. b \in Stored /\ Parent(b) \in blocks[n] \cup {Genesis}
    BY <2>2, MinedIs
  <2>4. HandleNewBlockArrival(n, b, BlockHopLimit, links, {})
    BY <1>4 DEF FinishMining
  <2> HIDE DEF b, payload
  <2>5. blocks' = blocks \/ Taken(blocks, blocks', n, b)
    BY <2>1, <2>3, <2>4, HandleStores
  <2>6. GrowTo(blocks, blocks')
    BY <1>e, <1>f, <2>1, <2>3, <2>5
  <2>7. OneRoot(blocks) /\ Distinct(blocks)
    BY <2>6, OneRootBefore
  <2>8. \A i, j \in Node : Ordered(blocks', i, j, links[i][j])
    BY <1>a, <1>b, <1>c, <2>6, <2>7, OrderedStays
  <2>9. \A i \in Node : \A j \in Neighbours[i] : \A x \in blocks[i] :
           \/ x \in blocks'[j]
           \/ \E k \in 1 .. Len(links[i][j]) : Carries(links[i][j][k], x)
    <3> SUFFICES ASSUME NEW i \in Node, NEW j \in Neighbours[i], NEW x \in blocks[i],
                        x \notin blocks'[j]
                 PROVE  \E k \in 1 .. Len(links[i][j]) : Carries(links[i][j][k], x)
      OBVIOUS
    <3>1. j \in Node /\ x \notin blocks[j]
      BY <2>6, NetworkAssumption DEF GrowTo
    <3> QED
      BY <1>c, <2>7, <3>1 DEF Complete
  <2>10. IsNews(n, b) =>
            \/ /\ HasPlace(n, b)
               /\ BlockHopLimit <= BlockHopLimit + Cardinality(Holders(blocks, b))
            \/ ~HasPlace(n, b) /\ Late(blocks, b)
    <3>1. Cardinality(Holders(blocks, b)) \in Nat
      BY <1>a, <2>6, HoldersGrow
    <3>2. BlockHopLimit <= BlockHopLimit + Cardinality(Holders(blocks, b))
      BY <2>1, <3>1
    <3>3. IsNews(n, b) /\ ~HasPlace(n, b) => Late(blocks, b)
      BY <2>1, <2>3 DEF IsNews, HasPlace, Late
    <3> QED
      BY <3>2, <3>3
  <2>11. {} \in SUBSET Node /\ \A p \in {} : b \in blocks[p]
    OBVIOUS
  <2> QED
    BY <1>a, <2>1, <2>3, <2>4, <2>8, <2>9, <2>10, <2>11, HandleFlow
<1>5. CASE UNCHANGED vars
  BY <1>5, <1>d DEF vars
<1> QED
  BY <1>1, <1>2, <1>3, <1>4, <1>5 DEF Next

\* One root in all stores is one root of any two, and likewise for names.
LEMMA RootsAndNames ==
    ASSUME HopsSuffice, NodesInv, SameRoot, ClaimsDiffer
    PROVE  OneRoot(blocks) /\ Distinct(blocks)
<1> DEFINE R == UNION {Roots(n) : n \in Node}
<1>1. IsFiniteSet(Node)
  BY DEF HopsSuffice
<1>2. \A n \in Node : Roots(n) = RootsOf(blocks[n]) /\ IsFiniteSet(Roots(n))
  <2> TAKE n \in Node
  <2>1. Roots(n) = RootsOf(blocks[n]) /\ Roots(n) \in SUBSET blocks[n]
    BY DEF Roots, RootsOf
  <2>2. IsFiniteSet(blocks[n])
    BY DEF NodesInv, StoreOK
  <2> QED
    BY <2>1, <2>2, FS_Subset
<1>3. IsFiniteSet({Roots(n) : n \in Node})
  <2> DEFINE T == {Roots(n) : n \in Node}
             f == [n \in Node |-> Roots(n)]
  <2>1. f \in Surjection(Node, T)
    BY DEF Surjection
  <2> HIDE DEF T, f
  <2>2. IsFiniteSet(T)
    BY <1>1, <2>1, FS_Surjection
  <2> QED
    BY <2>2 DEF T
<1>4. IsFiniteSet(R)
  BY <1>2, <1>3, FS_UNION
<1>5. Cardinality(R) <= 1
  BY DEF SameRoot
<1> HIDE DEF R
<1>6. ASSUME NEW r \in R, NEW q \in R, r # q
      PROVE  FALSE
  <2>1. IsFiniteSet({r}) /\ Cardinality({r}) = 1
    BY FS_Singleton
  <2>2. Cardinality({r} \cup {q}) = 2 /\ IsFiniteSet({r} \cup {q})
    BY <1>6, <2>1, FS_AddElement
  <2>3. {r} \cup {q} \in SUBSET R
    OBVIOUS
  <2>4. Cardinality({r} \cup {q}) <= Cardinality(R) /\ Cardinality(R) \in Nat
    BY <1>4, <2>3, FS_Subset, FS_CardinalityType
  <2> QED
    BY <1>5, <2>2, <2>4
<1>7. \A n \in Node : RootsOf(blocks[n]) \subseteq R
  BY <1>2 DEF R
<1>8. OneRoot(blocks)
  BY <1>6, <1>7 DEF OneRoot
<1>9. Distinct(blocks)
  BY DEF ClaimsDiffer, Distinct
<1> QED
  BY <1>8, <1>9

\* When nothing is on its way, the nodes with a block are left by no link.
LEMMA QuietNodesAgree ==
    ASSUME HopsSuffice, Connected
    PROVE  TypeOK /\ NodesInv /\ FlowInv => Agreement
<1> SUFFICES ASSUME TypeOK, NodesInv, FlowInv, Quiet, SameRoot, ClaimsDiffer
             PROVE  \A n, p \in Node : blocks[n] = blocks[p]
  BY DEF Agreement
<1>1. ASSUME NEW n \in Node, NEW p \in Neighbours[n], NEW b \in blocks[n]
      PROVE  b \in blocks[p]
  <2>1. p \in Node
    BY NetworkAssumption
  <2>2. Complete(blocks, n, p, links[n][p])
    BY <2>1, RootsAndNames DEF FlowInv
  <2>3. Len(links[n][p]) = 0
    BY <2>1 DEF Quiet
  <2> QED
    BY <2>2, <2>3 DEF Complete
<1>2. ASSUME NEW n \in Node, NEW p \in Node, NEW b \in blocks[n]
      PROVE  b \in blocks[p]
  <2> DEFINE S == Holders(blocks, b)
  <2>1. S \in SUBSET Node /\ S # {}
    BY DEF Holders
  <2>2. \A k \in S : Neighbours[k] \subseteq S
    BY <1>1, NetworkAssumption DEF Holders
  <2>3. S = Node
    BY <2>1, <2>2 DEF Connected
  <2> QED
    BY <2>3 DEF Holders
<1>3. ASSUME NEW n \in Node, NEW p \in Node
      PROVE  blocks[n] = blocks[p]
  <2>1. \A b : b \in blocks[n] <=> b \in blocks[p]
    BY <1>2
  <2> QED
    BY <2>1
<1> QED
  BY <1>3

\* In a connected network of at most BLOCK_HOP_LIMIT + 1 nodes, however its links
\* run and whoever mines, all nodes store the same blocks when all packets have
\* arrived, as long as there was one first block and no two blocks with one name.
THEOREM NodesAgree ==
    ASSUME HopsSuffice, Connected
    PROVE  Spec => []Agreement
<1>1. Init => TypeOK /\ NodesInv /\ FlowInv
  <2> SUFFICES ASSUME Init
               PROVE  TypeOK /\ NodesInv /\ FlowInv
    OBVIOUS
  <2>1. \A n, p \in Node : Len(links[n][p]) = 0 /\ blocks[n] = {}
    BY DEF Init
  <2>2. FlowInv
    BY <2>1, NetworkAssumption DEF FlowInv, Ordered, Complete
  <2> QED
    BY <2>2, NodesInvInit
<1>2. TypeOK /\ NodesInv /\ FlowInv /\ [Next]_vars => TypeOK' /\ NodesInv' /\ FlowInv'
  BY NodesInvStep, FlowInvStep
<1>3. TypeOK /\ NodesInv /\ FlowInv => Agreement
  BY QuietNodesAgree
<1> QED
  BY <1>1, <1>2, <1>3, PTL DEF Spec
=============================================================================
