------------------------------ MODULE BlockFlood ------------------------------
(***************************************************************************)
(* A network of mining nodes: how transactions and blocks spread, hop by   *)
(* hop, and which blocks every node ends up with.  A node keeps blocks and *)
(* a main chain as BlockTree has it (Blockchain!ImplementsTree), so that   *)
(* heads are not needed here; the names in use, which decide what is kept  *)
(* and passed on, are.  Links lose nothing and keep the order, which is    *)
(* the best that a network can do for this code.                           *)
(*                                                                         *)
(* A block is the sequence of payloads from genesis to itself.  Two copies *)
(* of a transaction in a pool or a block do what one does, so both are     *)
(* sets of names.                                                          *)
(***************************************************************************)
EXTENDS Integers, Sequences, FiniteSets

CONSTANTS
    Node,
    Neighbours,     \* Neighbours[n]: the addresses in Peers
    Miners,         \* bound: the nodes whose miners find blocks
    Clients,        \* bound: the nodes whose clients share files
    Names,          \* names of files
    BlockHopLimit,  \* BLOCK_HOP_LIMIT
    TxHopLimit,     \* NORMAL_HOP_LIMIT
    MaxMined,       \* bound: blocks mined in the network
    MaxShared       \* bound: files shared by clients

ASSUME NetworkAssumption ==
    /\ Neighbours \in [Node -> SUBSET Node]
    /\ \A n \in Node : n \notin Neighbours[n]
    /\ Miners \subseteq Node /\ Clients \subseteq Node
    /\ BlockHopLimit \in Nat /\ TxHopLimit \in Nat
    /\ MaxMined \in Nat /\ MaxShared \in Nat

VARIABLES
    blocks,         \* blocks[n]: SafeBlockchain.Blockchain of n
    main,           \* main[n]: LongestChainHead
    names,          \* names[n]: keys of FilenamesToMetahash
    pool,           \* pool[n]: names in PendingTx
    mining,         \* mining[n]: the block n is mining, or none
    links,          \* links[n][p]: packets from n to p, in order
    mined,          \* blocks mined so far
    shared          \* files shared so far

storeVars == <<blocks, main, names>>
vars == <<blocks, main, names, pool, mining, links, mined, shared>>

Genesis == <<>>
Block == Seq([nonce : Nat, claims : SUBSET Names])
Idle == [parent |-> Genesis, claims |-> {}, busy |-> FALSE]

TypeOK ==
    /\ blocks \in [Node -> SUBSET Block]
    /\ main \in [Node -> Block]
    /\ names \in [Node -> SUBSET Names]
    /\ pool \in [Node -> SUBSET Names]
    /\ mining \in [Node -> [parent : Block, claims : SUBSET Names, busy : BOOLEAN]]
    /\ links \in [Node -> [Node -> Seq([tx : Names, hops : Nat]
                                       \cup [block : Block, hops : Nat])]]
    /\ mined \in 0 .. MaxMined
    /\ shared \in 0 .. MaxShared

Init ==
    /\ blocks = [n \in Node |-> {}]
    /\ main = [n \in Node |-> Genesis]
    /\ names = [n \in Node |-> {}]
    /\ pool = [n \in Node |-> {}]
    /\ mining = [n \in Node |-> Idle]
    /\ links = [n \in Node |-> [p \in Node |-> <<>>]]
    /\ mined = 0
    /\ shared = 0

Parent(b) == SubSeq(b, 1, Len(b) - 1)
ClaimsOf(b) == b[Len(b)].claims
Branch(n, b) == {SubSeq(b, 1, k) : k \in 1 .. Len(b)} \cap blocks[n]
NamesIn(chain) == UNION {ClaimsOf(b) : b \in chain}

(***************************************************************************)
(* Flooding: to all peers but the one a packet came from.                  *)
(***************************************************************************)
\* What is left of the links when n has read a packet of "from".
Read(n, from) == [links EXCEPT ![from][n] = Tail(@)]

\* broadcast...ToAllPeersExcept, on the links that a read has left.
Broadcast(left, n, packet, except) ==
    links' = [left EXCEPT ![n] =
                [p \in Node |-> IF p \in Neighbours[n] \ except
                                THEN Append(left[n][p], packet) ELSE left[n][p]]]

\* Faulty variant: a packet is passed on with the hops it came with.
SameHops(hops) == hops

\* Faulty variant: the receiver and the sender count the hop.
TwoHopsLess(hops) == hops - 2

OneHopLess(hops) == hops - 1

\* Faulty variant: the last hop is not made.
MoreThanOneHop(hops) == hops > 1

MayForward(hops) == hops > 0

(***************************************************************************)
(* Transactions.                                                           *)
(***************************************************************************)
\* A client shares a file (main.go:69): its own node publishes the name.
Share(n, x) ==
    /\ shared < MaxShared
    /\ x \notin names[n]
    /\ pool' = [pool EXCEPT ![n] = @ \cup {x}]
    /\ shared' = shared + 1
    /\ Broadcast(links, n, [tx |-> x, hops |-> TxHopLimit], {})
    /\ UNCHANGED <<storeVars, mining, mined>>

\* Every copy of a transaction with a free name is kept and passed on.
ReceiveTx(n, from, packet) ==
    /\ IF packet.tx \in names[n]
       THEN links' = Read(n, from) /\ UNCHANGED pool
       ELSE /\ pool' = [pool EXCEPT ![n] = @ \cup {packet.tx}]
            /\ IF MayForward(packet.hops)
               THEN Broadcast(Read(n, from), n,
                        [packet EXCEPT !.hops = OneHopLess(@)], {from})
               ELSE links' = Read(n, from)
    /\ UNCHANGED <<storeVars, mining, mined, shared>>

(***************************************************************************)
(* Blocks (handleNewBlockArrival).                                         *)
(***************************************************************************)
\* Neither stored nor with a name that the main chain uses.
IsNews(n, b) == b \notin blocks[n] /\ ClaimsOf(b) \cap names[n] = {}

HasPlace(n, b) == Parent(b) \in blocks[n] \/ blocks[n] = {}

\* The main chain goes over to a block that is higher than all others.
NewMain(n, b) ==
    IF Cardinality(Branch(n, b)) + 1 > Cardinality(Branch(n, main[n])) THEN b ELSE main[n]

\* From one main chain to another: the names above their intersection go and
\* come.
NewNames(n, b) ==
    LET old == Branch(n, main[n])
        new == Branch(n, b) \cup {b}
    IN  IF NewMain(n, b) = b
        THEN (names[n] \ NamesIn(old \ new)) \cup NamesIn(new \ old)
        ELSE names[n]

Store(n, b) ==
    IF HasPlace(n, b)
    THEN /\ blocks' = [blocks EXCEPT ![n] = @ \cup {b}]
         /\ main' = [main EXCEPT ![n] = NewMain(n, b)]
         /\ names' = [names EXCEPT ![n] = NewNames(n, b)]
    ELSE UNCHANGED storeVars

\* b came with "hops" over the links, of which "left" remain, from the node in
\* "from", if any.
HandleNewBlockArrival(n, b, hops, left, from) ==
    IF IsNews(n, b)
    THEN /\ Store(n, b)
         /\ IF MayForward(hops)  \* a block without a place as well
            THEN Broadcast(left, n, [block |-> b, hops |-> OneHopLess(hops)], from)
            ELSE links' = left
    ELSE links' = left /\ UNCHANGED storeVars

ReceiveBlock(n, from, packet) ==
    /\ HandleNewBlockArrival(n, packet.block, packet.hops, Read(n, from), {from})
    /\ UNCHANGED <<pool, mining, mined, shared>>

Receive(n, from) ==
    /\ links[from][n] # <<>>
    /\ LET packet == Head(links[from][n])
       IN  \/ "tx" \in DOMAIN packet /\ ReceiveTx(n, from, packet)
           \/ "block" \in DOMAIN packet /\ ReceiveBlock(n, from, packet)

(***************************************************************************)
(* The miners.                                                             *)
(***************************************************************************)
StartMining(n) ==
    /\ ~mining[n].busy
    /\ mined < MaxMined
    /\ mining' = [mining EXCEPT ![n] =
                     [parent |-> main[n], claims |-> pool[n], busy |-> TRUE]]
    /\ pool' = [pool EXCEPT ![n] = {}]
    /\ UNCHANGED <<storeVars, links, mined, shared>>

\* The block's hash is its own, whoever else mines on the same parent.
FinishMining(n) ==
    LET payload == [nonce |-> mined, claims |-> mining[n].claims]
    IN  /\ mining[n].busy
        /\ mined < MaxMined
        /\ HandleNewBlockArrival(n, Append(mining[n].parent, payload),
                                 BlockHopLimit, links, {})
        /\ mining' = [mining EXCEPT ![n] = Idle]
        /\ mined' = mined + 1
        /\ UNCHANGED <<pool, shared>>

Next ==
    \/ \E n \in Clients, x \in Names : Share(n, x)
    \/ \E n, from \in Node : Receive(n, from)
    \/ \E n \in Miners : StartMining(n) \/ FinishMining(n)

Spec == Init /\ [][Next]_vars

\* As long as packets are on their way, some arrive; clients and miners owe
\* nothing.
FairSpec == Spec /\ WF_vars(\E n, from \in Node : Receive(n, from))

(***************************************************************************)
(* Properties.                                                             *)
(***************************************************************************)
Quiet == \A n, p \in Node : links[n][p] = <<>>

Roots(n) == {b \in blocks[n] : Parent(b) \notin blocks[n]}
SameRoot == Cardinality(UNION {Roots(n) : n \in Node}) <= 1

ClaimsDiffer ==
    LET all == UNION {blocks[n] : n \in Node}
    IN  \A b, c \in all : b # c => ClaimsOf(b) \cap ClaimsOf(c) = {}

\* When all packets have arrived, all nodes store the same blocks, whoever mined
\* on what in the meantime: no block overtakes its parent, and a copy that came
\* the long way, which is the one that counts when it is first, has hops enough
\* left.  That needs one first block and no two blocks with one name: a node
\* that has one of two such blocks on its main chain refuses the other one and
\* all that is ever mined on it.
Agreement ==
    Quiet /\ SameRoot /\ ClaimsDiffer => \A n, p \in Node : blocks[n] = blocks[p]

\* Transactions are passed on with every copy, and blocks that find no place
\* too; in a network with a cycle, only the hop limit ends it.
FloodsEnd == <>[]Quiet
=============================================================================
