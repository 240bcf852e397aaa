----------------------------- MODULE Blockchain -----------------------------
(***************************************************************************)
(* The block store of one Peerster: block arrival with its forks and       *)
(* rewinds, the map of file names in use, the pool of pending              *)
(* transactions and the miner.  The listener's handlers are atomic here;   *)
(* the miner takes its parent and its transactions in one step and         *)
(* delivers the block it has mined in a later one.                         *)
(*                                                                         *)
(* A hash is modelled by what it identifies: a block is the sequence of    *)
(* the payloads from the genesis block to itself, so that its parent is    *)
(* the sequence without the last payload.                                  *)
(***************************************************************************)
EXTENDS Integers, Sequences, FiniteSets

CONSTANTS
    Txs,            \* transactions: records with a name and a metahash
    Nonces,         \* the nonces that give a block a valid proof of work
    Payloads,       \* what blocks of other nodes carry
    Roots,          \* parents of blocks that others send and n never gets
    MaxBlocks,      \* bound: blocks in the store
    MaxPending      \* bound: transactions in the pool

Payload == [nonce : Nonces, txs : Seq(Txs)]

ASSUME PayloadsAssumption == Payloads \subseteq Payload
ASSUME RootsAssumption == Roots \subseteq Seq(Payload)
ASSUME BlockBoundsAssumption == MaxBlocks \in Nat /\ MaxPending \in Nat

Block == Seq(Payload) \ {<<>>}

\* The zero hash.  LongestChainHead = "" is the same: the miner writes it as
\* the zero hash, and no block has either of them as a stored parent.
Genesis == <<>>

VARIABLES
    blockchain,     \* the stored blocks: keys of SafeBlockchain.Blockchain
    headToLength,   \* SafeHeadsToLength.HeadToLength
    longestHead,    \* LongestChainHead
    names,          \* SafeFilenamesToMetahash: file name -> metahash
    pendingTx,      \* PendingTx
    mining          \* the block being mined: its parent and transactions

storeVars == <<blockchain, headToLength, longestHead, names>>
vars == <<blockchain, headToLength, longestHead, names, pendingTx, mining>>

Names == {tx.name : tx \in Txs}
Metahashes == {tx.meta : tx \in Txs}
Idle == [parent |-> Genesis, txs |-> <<>>, busy |-> FALSE]

TypeOK ==
    /\ blockchain \subseteq Block
    /\ DOMAIN headToLength \subseteq Block \cup {Genesis}
    /\ \A h \in DOMAIN headToLength : headToLength[h] \in Nat
    /\ longestHead \in Block \cup {Genesis}
    /\ DOMAIN names \subseteq Names
    /\ \A x \in DOMAIN names : names[x] \in Metahashes
    /\ pendingTx \in Seq(Txs)
    /\ mining \in [parent : Block \cup {Genesis}, txs : Seq(Txs), busy : BOOLEAN]

Init ==
    /\ blockchain = {}
    /\ headToLength = [h \in {Genesis} |-> 0]
    /\ longestHead = Genesis
    /\ names = [x \in {} |-> Genesis]
    /\ pendingTx = <<>>
    /\ mining = Idle

(***************************************************************************)
(* Blocks and chains.                                                      *)
(***************************************************************************)
Parent(b) == SubSeq(b, 1, Len(b) - 1)
TxsOf(b) == b[Len(b)].txs
NamesOf(b) == {TxsOf(b)[i].name : i \in DOMAIN TxsOf(b)}

\* The blocks met on the way from h to its last ancestor among "blocks".
Branch(blocks, h) ==
    {SubSeq(h, 1, k) : k \in {k \in 1 .. Len(h) :
                                 \A j \in k .. Len(h) : SubSeq(h, 1, j) \in blocks}}

\* getIntersectionBetweenMainAndFork: the last block of both branches.
Intersection(blocks, main, fork) ==
    LET common == Branch(blocks, main) \cap Branch(blocks, fork)
    IN  IF common = {} THEN Genesis
        ELSE CHOOSE b \in common : \A c \in common : Len(c) <= Len(b)

\* getChainLengthFromBlock
GetChainLength(b) ==
    IF b \in blockchain THEN Cardinality(Branch(blockchain, b)) ELSE -1

\* checkAllFilenamesAreFree looks at the names of the main chain only.
AllFilenamesFree(b) == NamesOf(b) \cap DOMAIN names = {}

(***************************************************************************)
(* The map of file names.                                                  *)
(***************************************************************************)
MetaOf(b, x) ==
    LET txs == TxsOf(b)
        uses == {i \in DOMAIN txs : txs[i].name = x}
    IN  txs[CHOOSE i \in uses : \A j \in uses : j <= i].meta

\* Faulty variant: only the new head's transactions are added.
AddLastOnly(map, blocks) ==
    LET last == {b \in blocks : \A c \in blocks : Len(c) <= Len(b)}
        added == UNION {NamesOf(b) : b \in last}
        Owner(x) == CHOOSE b \in last : x \in NamesOf(b)
    IN  [x \in DOMAIN map \cup added |->
            IF x \in added THEN MetaOf(Owner(x), x) ELSE map[x]]

\* addTransactionsToFilenameMetahashMap over a piece of a chain, from its head
\* down: of two blocks with one name the older one is written last.
AddTransactions(map, blocks) ==
    LET added == UNION {NamesOf(b) : b \in blocks}
        Oldest(x) == CHOOSE b \in blocks :
                        /\ x \in NamesOf(b)
                        /\ \A c \in blocks : x \in NamesOf(c) => Len(b) <= Len(c)
    IN  [x \in DOMAIN map \cup added |->
            IF x \in added THEN MetaOf(Oldest(x), x) ELSE map[x]]

\* Faulty variant: the transactions of the old main chain stay.
KeepTransactions(map, blocks) == map

\* deleteTransactionsFromFilenameToMetahash over a piece of a chain.
DeleteTransactions(map, blocks) ==
    LET deleted == UNION {NamesOf(b) : b \in blocks}
    IN  [x \in DOMAIN map \ deleted |-> map[x]]

(***************************************************************************)
(* handleNewBlockArrival for a block with a valid proof of work (one       *)
(* without has no effect).                                                 *)
(***************************************************************************)
\* Faulty variant: the parent stays a head.
AddHead(b, length) ==
    headToLength' = [h \in DOMAIN headToLength \cup {b} |->
                        IF h = b THEN length ELSE headToLength[h]]

\* b takes the place of its parent among the heads.
ReplaceHead(b, length) ==
    headToLength' = [h \in (DOMAIN headToLength \ {Parent(b)}) \cup {b} |->
                        IF h = b THEN length ELSE headToLength[h]]

\* Faulty variant: the main chain is never left.
NeverLonger(length) == FALSE

\* Faulty variant: the main chain is left only when it is behind by two.
LongerByTwo(length) == headToLength'[longestHead] + 1 < length

\* The fork has outgrown the main chain (the heads are updated already).
LongerThanMain(length) == headToLength'[longestHead] < length

\* A block without a stored parent is taken only into an empty store.
IsFirst(b) == Parent(b) \notin blockchain /\ blockchain = {}

FirstBlock(b) ==
    /\ IsFirst(b)
    /\ blockchain' = blockchain \cup {b}
    /\ longestHead' = b
    /\ headToLength' = [h \in DOMAIN headToLength \cup {b} |->
                           IF h = b THEN 1 ELSE headToLength[h]]
    /\ names' = AddTransactions(names, {b})

ExtendMain(b) ==
    /\ Parent(b) \in blockchain
    /\ Parent(b) \in DOMAIN headToLength
    /\ longestHead = Parent(b)
    /\ blockchain' = blockchain \cup {b}
    /\ ReplaceHead(b, headToLength[Parent(b)] + 1)
    /\ longestHead' = b
    /\ names' = AddTransactions(names, {b})

ExtendFork(b) ==
    LET length == headToLength[Parent(b)] + 1
    IN  /\ Parent(b) \in blockchain
        /\ Parent(b) \in DOMAIN headToLength
        /\ longestHead # Parent(b)
        /\ blockchain' = blockchain \cup {b}
        /\ ReplaceHead(b, length)
        /\ IF LongerThanMain(length)
           THEN LET from == Intersection(blockchain', longestHead, b)
                    shared == Branch(blockchain, from)
                    old == Branch(blockchain, longestHead) \ shared
                    new == Branch(blockchain', b) \ shared
                IN  /\ names' = AddTransactions(DeleteTransactions(names, old), new)
                    /\ longestHead' = b
           ELSE UNCHANGED <<longestHead, names>>

StartFork(b) ==
    /\ Parent(b) \in blockchain
    /\ Parent(b) \notin DOMAIN headToLength
    /\ blockchain' = blockchain \cup {b}
    /\ headToLength' = [h \in DOMAIN headToLength \cup {b} |->
                           IF h = b THEN GetChainLength(Parent(b)) + 1
                           ELSE headToLength[h]]
    /\ UNCHANGED <<longestHead, names>>

IsStored(b) ==
    /\ AllFilenamesFree(b)
    /\ b \notin blockchain
    /\ Parent(b) \in blockchain \/ IsFirst(b)

HandleNewBlockArrival(b) ==
    \/ /\ IsStored(b)
       /\ FirstBlock(b) \/ ExtendMain(b) \/ ExtendFork(b) \/ StartFork(b)
    \/ ~IsStored(b) /\ UNCHANGED storeVars

(***************************************************************************)
(* The listener: blocks and transactions from other nodes and the client.  *)
(***************************************************************************)
ReceiveBlock(b) ==
    /\ Cardinality(blockchain) < MaxBlocks
    /\ HandleNewBlockArrival(b)
    /\ UNCHANGED <<pendingTx, mining>>

\* A TxPublish, or a file the client shares, whose name is free.
ReceiveTx(tx) ==
    /\ Len(pendingTx) < MaxPending
    /\ tx.name \notin DOMAIN names
    /\ pendingTx' = Append(pendingTx, tx)
    /\ UNCHANGED <<storeVars, mining>>

(***************************************************************************)
(* The miner (miningProcedure).                                            *)
(***************************************************************************)
StartMining ==
    /\ ~mining.busy
    /\ mining' = [parent |-> longestHead, txs |-> pendingTx, busy |-> TRUE]
    /\ pendingTx' = <<>>
    /\ UNCHANGED storeVars

\* The proof of work is found and the pause after it is over.
FinishMining(nonce) ==
    /\ mining.busy
    /\ Cardinality(blockchain) < MaxBlocks
    /\ HandleNewBlockArrival(Append(mining.parent,
                                    [nonce |-> nonce, txs |-> mining.txs]))
    /\ mining' = Idle
    /\ UNCHANGED pendingTx

Next ==
    \/ \E parent \in blockchain \cup Roots, payload \in Payloads :
          ReceiveBlock(Append(parent, payload))
    \/ \E tx \in Txs : ReceiveTx(tx)
    \/ StartMining
    \/ \E nonce \in Nonces : FinishMining(nonce)

Spec == Init /\ [][Next]_vars

(***************************************************************************)
(* Properties.                                                             *)
(***************************************************************************)
HasChild(b) == \E c \in blockchain : Parent(c) = b

\* Whatever order blocks arrive in, the store is one tree: all blocks but the
\* first have their parent, so that any two branches meet.
OneTree ==
    Cardinality({b \in blockchain : Parent(b) \notin blockchain}) <= 1

\* The heads are exactly the blocks without a successor: no fork is forgotten
\* and no block inside a chain is mistaken for its end.
HeadsAreLeaves ==
    DOMAIN headToLength \ {Genesis} = {b \in blockchain : ~HasChild(b)}

\* The length kept with a head, counted up step by step, is the number of
\* blocks on its branch.
HeadLengthsAreRight ==
    \A h \in DOMAIN headToLength \ {Genesis} :
        headToLength[h] = Cardinality(Branch(blockchain, h))

\* The main chain is a longest one: the branch that starts a fork never
\* forgets to switch to it.
MainChainIsLongest ==
    blockchain # {} =>
        /\ longestHead \in DOMAIN headToLength
        /\ \A h \in DOMAIN headToLength :
              headToLength[h] <= headToLength[longestHead]

\* After any number of forks and rewinds a name in use belongs to a transaction
\* of the main chain, with the metahash that transaction gives it.
NamesComeFromMainChain ==
    \A x \in DOMAIN names :
        \E b \in Branch(blockchain, longestHead) :
            \E i \in DOMAIN TxsOf(b) :
                TxsOf(b)[i].name = x /\ TxsOf(b)[i].meta = names[x]

\* The main chain is only ever left for a strictly longer one.
MainChainGrows ==
    [][longestHead' # longestHead =>
          Cardinality(Branch(blockchain', longestHead')) >
              Cardinality(Branch(blockchain, longestHead))]_vars

Tree == INSTANCE BlockTree WITH
    height <- [b \in blockchain |-> Cardinality(Branch(blockchain, b))],
    main <- longestHead

\* Through extensions, forks and switches the store is a tree that grows block by
\* block and never loses one, and the main chain is the longest-chain rule: it
\* goes over to a new block exactly when that block is higher than all others,
\* so that the first of two equal branches stays.
ImplementsTree == Tree!Spec

\* As long as no two stored blocks use one name, every name on the main chain is
\* taken, after any number of switches: a rewind deletes the names of no block
\* that stays, and brings those of every block of the new branch.
NamesUsedOnce ==
    \A b, c \in blockchain : b # c => NamesOf(b) \cap NamesOf(c) = {}
NamesUsedOnceAreTaken ==
    NamesUsedOnce =>
        \A b \in Branch(blockchain, longestHead) : NamesOf(b) \subseteq DOMAIN names

\* Every name on the main chain is in the map, as the comment on the switch to
\* a fork has it: "add all transactions of new longest chain" (main.go:1126).
\* It does not hold when a fork uses one name in two of its blocks.
MainChainNamesAreTaken ==
    \A b \in Branch(blockchain, longestHead) : NamesOf(b) \subseteq DOMAIN names

\* "I do accept a block when its prevHash is 0000..." (readme.md:11): a new
\* block on the genesis hash with free names is stored when it arrives.  It does
\* not hold once the store has a block.
GenesisBlocksAreAccepted ==
    \A x \in Payloads : AllFilenamesFree(<<x>>) /\ <<x>> \notin blockchain => IsStored(<<x>>)
=============================================================================
