----------------------------- MODULE BlockThreads -----------------------------
(***************************************************************************)
(* handleNewBlockArrival as the two threads that run it do: the listener,  *)
(* with blocks of other nodes, and the miner, with the block it has mined. *)
(* The three maps have a mutex each, which the handler takes and gives     *)
(* back many times; LongestChainHead has none.  A step is one critical     *)
(* section or one access to LongestChainHead.  The pool is not modelled:   *)
(* the miner takes some transactions.                                      *)
(***************************************************************************)
EXTENDS Blockchain

CONSTANTS
    Pools           \* what the miner may find in the pool

ASSUME PoolsAssumption == Pools \subseteq Seq(Txs)

VARIABLES
    pc,             \* pc[t]: the section that thread t enters next
    block,          \* block[t]: the block it handles, <<>> when it is idle
    length,         \* length[t]: newForkLength
    from            \* from[t]: forkMainIntersection_hex

local == <<pc, block, length, from>>
threadVars == <<vars, local>>

Threads == {"listener", "miner"}
Labels == {"idle", "find", "findParent", "first", "insert", "isHead", "replace",
           "isMain", "setMain", "addNames", "mainLength", "intersect", "rewind",
           "switch", "newFork"}

ThreadTypeOK ==
    /\ TypeOK
    /\ pc \in [Threads -> Labels]
    /\ block \in [Threads -> Block \cup {Genesis}]
    /\ length \in [Threads -> Nat]
    /\ from \in [Threads -> Block \cup {Genesis}]

ThreadInit ==
    /\ Init
    /\ pc = [t \in Threads |-> "idle"]
    /\ block = [t \in Threads |-> Genesis]
    /\ length = [t \in Threads |-> 0]
    /\ from = [t \in Threads |-> Genesis]

AtRest == \A t \in Threads : pc[t] = "idle"

Goto(t, label) ==
    /\ pc' = [pc EXCEPT ![t] = label]
    /\ UNCHANGED <<block, length, from>>

Return(t) ==
    /\ pc' = [pc EXCEPT ![t] = "idle"]
    /\ block' = [block EXCEPT ![t] = Genesis]
    /\ length' = [length EXCEPT ![t] = 0]
    /\ from' = [from EXCEPT ![t] = Genesis]

\* Thread t is about to enter a section.
At(t, label) == pc[t] = label

(***************************************************************************)
(* The calls.  The names are looked up first; a block with a name that is  *)
(* taken has no effect.                                                    *)
(***************************************************************************)
Call(t, b) ==
    /\ pc[t] = "idle"
    /\ AllFilenamesFree(b)
    /\ pc' = [pc EXCEPT ![t] = "find"]
    /\ block' = [block EXCEPT ![t] = b]
    /\ UNCHANGED <<length, from>>

\* No other node has the miner's block, or a child of it, before the miner has
\* sent it, which comes last.
Receive(b) ==
    /\ Cardinality(blockchain) < MaxBlocks
    /\ block["miner"] # Genesis => b # block["miner"] /\ Parent(b) # block["miner"]
    /\ Call("listener", b)
    /\ UNCHANGED vars

\* The miner takes LongestChainHead and the pool.
TakeParent(txs) ==
    /\ pc["miner"] = "idle"
    /\ ~mining.busy
    /\ mining' = [parent |-> longestHead, txs |-> txs, busy |-> TRUE]
    /\ UNCHANGED <<storeVars, pendingTx, local>>

Mined(nonce) ==
    LET b == Append(mining.parent, [nonce |-> nonce, txs |-> mining.txs])
    IN  /\ mining.busy
        /\ Cardinality(blockchain) < MaxBlocks
        /\ b # block["listener"] /\ b # Parent(block["listener"])
        /\ \/ Call("miner", b)
           \/ ~AllFilenamesFree(b) /\ UNCHANGED local
        /\ mining' = Idle
        /\ UNCHANGED <<storeVars, pendingTx>>

(***************************************************************************)
(* The sections of handleNewBlockArrival.                                  *)
(***************************************************************************)
FindBlock(t) ==
    /\ At(t, "find")
    /\ IF block[t] \in blockchain THEN Return(t) ELSE Goto(t, "findParent")
    /\ UNCHANGED vars

FindParent(t) ==
    /\ At(t, "findParent")
    /\ Goto(t, IF Parent(block[t]) \in blockchain THEN "insert" ELSE "first")
    /\ UNCHANGED vars

\* Faulty variant: that there was no parent is taken for an empty store.
TrustFirstLook(t) == TRUE

\* The store is still empty, now that its mutex is held.
StoreIsEmpty(t) == blockchain = {}

\* All under the mutex of the block map; nothing else can come in between.
StoreFirst(t) ==
    LET b == block[t]
    IN  /\ At(t, "first")
        /\ IF StoreIsEmpty(t)
           THEN /\ blockchain' = blockchain \cup {b}
                /\ longestHead' = b
                /\ headToLength' = [h \in DOMAIN headToLength \cup {b} |->
                                       IF h = b THEN 1 ELSE headToLength[h]]
                /\ names' = AddTransactions(names, {b})
           ELSE UNCHANGED storeVars
        /\ Return(t)
        /\ UNCHANGED <<pendingTx, mining>>

Insert(t) ==
    /\ At(t, "insert")
    /\ blockchain' = blockchain \cup {block[t]}
    /\ Goto(t, "isHead")
    /\ UNCHANGED <<headToLength, longestHead, names, pendingTx, mining>>

\* Faulty variant: the length of the main chain is taken for the parent's.
MainLengthOfParent(t) ==
    IF longestHead \in DOMAIN headToLength THEN headToLength[longestHead] ELSE 0

LengthOfParent(t) == headToLength[Parent(block[t])]

LookUpParentHead(t) ==
    /\ At(t, "isHead")
    /\ IF Parent(block[t]) \in DOMAIN headToLength
       THEN /\ pc' = [pc EXCEPT ![t] = "replace"]
            /\ length' = [length EXCEPT ![t] = LengthOfParent(t) + 1]
            /\ UNCHANGED <<block, from>>
       ELSE Goto(t, "newFork")
    /\ UNCHANGED vars

ReplaceParentHead(t) ==
    /\ At(t, "replace")
    /\ ReplaceHead(block[t], length[t])
    /\ Goto(t, "isMain")
    /\ UNCHANGED <<blockchain, longestHead, names, pendingTx, mining>>

\* getChainLengthFromBlock walks the block map, whose mutex is not held.
StartNewFork(t) ==
    /\ At(t, "newFork")
    /\ headToLength' = [h \in DOMAIN headToLength \cup {block[t]} |->
                           IF h = block[t] THEN GetChainLength(Parent(block[t])) + 1
                           ELSE headToLength[h]]
    /\ Return(t)
    /\ UNCHANGED <<blockchain, longestHead, names, pendingTx, mining>>

LookUpMain(t) ==
    /\ At(t, "isMain")
    /\ Goto(t, IF longestHead = Parent(block[t]) THEN "setMain" ELSE "mainLength")
    /\ UNCHANGED vars

SetMain(t) ==
    /\ At(t, "setMain")
    /\ longestHead' = block[t]
    /\ Goto(t, "addNames")
    /\ UNCHANGED <<blockchain, headToLength, names, pendingTx, mining>>

\* The names of the block; after it printLongestChain walks the main chain.
AddNames(t) ==
    /\ At(t, "addNames")
    /\ names' = AddTransactions(names, {block[t]})
    /\ Return(t)
    /\ UNCHANGED <<blockchain, headToLength, longestHead, pendingTx, mining>>

\* Go's zero for a head that the other thread has just replaced.
CompareWithMain(t) ==
    LET main == IF longestHead \in DOMAIN headToLength
                THEN headToLength[longestHead] ELSE 0
    IN  /\ At(t, "mainLength")
        /\ IF main < length[t] THEN Goto(t, "intersect") ELSE Return(t)
        /\ UNCHANGED vars

FindIntersection(t) ==
    /\ At(t, "intersect")
    /\ from' = [from EXCEPT ![t] = Intersection(blockchain, longestHead, block[t])]
    /\ pc' = [pc EXCEPT ![t] = "rewind"]
    /\ UNCHANGED <<vars, block, length>>

\* The blocks met from h down to "end"; all of the branch if it is not met.
Above(h, end) ==
    {b \in Branch(blockchain, h) :
        end \notin Branch(blockchain, h) \/ Len(b) > Len(end)}

Rewind(t) ==
    /\ At(t, "rewind")
    /\ names' = AddTransactions(DeleteTransactions(names, Above(longestHead, from[t])),
                                Above(block[t], from[t]))
    /\ Goto(t, "switch")
    /\ UNCHANGED <<blockchain, headToLength, longestHead, pendingTx, mining>>

\* Faulty variant: the main chain is cut back to where the branches meet.
SwitchToIntersection(t) ==
    /\ At(t, "switch")
    /\ longestHead' = from[t]
    /\ Return(t)
    /\ UNCHANGED <<blockchain, headToLength, names, pendingTx, mining>>

SwitchMain(t) ==
    /\ At(t, "switch")
    /\ longestHead' = block[t]
    /\ Return(t)
    /\ UNCHANGED <<blockchain, headToLength, names, pendingTx, mining>>

Section(t) ==
    \/ FindBlock(t) \/ FindParent(t) \/ StoreFirst(t) \/ Insert(t)
    \/ LookUpParentHead(t) \/ ReplaceParentHead(t) \/ StartNewFork(t)
    \/ LookUpMain(t) \/ SetMain(t) \/ AddNames(t)
    \/ CompareWithMain(t) \/ FindIntersection(t) \/ Rewind(t) \/ SwitchMain(t)

ThreadNext ==
    \/ \E p \in blockchain \cup Roots, x \in Payloads : Receive(Append(p, x))
    \/ \E txs \in Pools : TakeParent(txs)
    \/ \E nonce \in Nonces : Mined(nonce)
    \/ \E t \in Threads : Section(t)

ThreadSpec == ThreadInit /\ [][ThreadNext]_threadVars

(***************************************************************************)
(* Properties.  OneTree and HeadLengthsAreRight of Blockchain hold in every *)
(* state; what two sections keep together holds when both threads rest.    *)
(***************************************************************************)
\* Two blocks may arrive at once on one parent, on the head the other thread is
\* replacing, or into an empty store: when both are done, the heads are the
\* blocks without a successor, none forgotten and none left over.
HeadsAreLeavesAtRest == AtRest => HeadsAreLeaves

\* The main chain ends in one of the heads, whoever wrote LongestChainHead last.
MainIsHeadAtRest ==
    AtRest /\ blockchain # {} => longestHead \in DOMAIN headToLength

\* LongestChainHead is the "current longest blockchain head"
\* (structuresAndConstants.go:183) when no block is being handled.  It does not
\* hold: a thread may write it from a comparison that is no longer true.
LongestAtRest == AtRest => MainChainIsLongest

\* The block map is read without its mutex by printLongestChain on the main
\* branch (main.go:1106), by getChainLengthFromBlock for a new fork (1150) and
\* by the rewind (1126, 1129).
ReadsUnlocked(t) ==
    pc[t] \in {"rewind", "newFork", "addNames"}

\* "ATTENTION : WE DO NOT LOCK THE SafeBlockchain MAP HERE, ASSUME IT IS LOCKED"
\* (blockchain.go:400; 330 likewise): no thread walks the map while another one
\* may write to it.  It does not hold.
ReadsAreLocked ==
    \A t, u \in Threads : ~(ReadsUnlocked(t) /\ At(u, "insert"))
=============================================================================
