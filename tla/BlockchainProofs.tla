--------------------------- MODULE BlockchainProofs ---------------------------
(***************************************************************************)
(* What the block store guarantees for any transactions, any blocks and    *)
(* any order of their arrival; and what is left of it when two threads     *)
(* handle blocks at once, section by section.                              *)
(***************************************************************************)
EXTENDS BlockThreads, SequenceTheorems, FiniteSetTheorems, TLAPS

-----------------------------------------------------------------------------
(* Extremes of sets of numbers, which the CHOOSEs of the model rest on. *)

\* A nonempty set of naturals has a least element.
LEMMA HasMin ==
    ASSUME NEW S \in SUBSET Nat, S # {}
    PROVE  \E m \in S : \A n \in S : m <= n
<1> DEFINE R == OpToRel(<, Nat)
<1>1. \A m, n \in Nat : m < n => <<m, n>> \in R
  BY DEF OpToRel
<1>2. PICK m \in S : \A n \in S : ~(<<n, m>> \in R)
  BY NatLessThanWellFounded, WFMin
<1> HIDE DEF R
<1>3. ASSUME NEW n \in S
      PROVE  m <= n
  <2>1. m \in Nat /\ n \in Nat
    OBVIOUS
  <2>2. ~(n < m)
    BY <1>1, <1>2, <2>1
  <2> QED
    BY <2>1, <2>2
<1> QED
  BY <1>3

\* A nonempty set of naturals with an upper bound has a greatest element.
LEMMA HasMax ==
    ASSUME NEW S \in SUBSET Nat, S # {}, NEW k \in Nat, \A n \in S : n <= k
    PROVE  \E m \in S : \A n \in S : n <= m
<1> DEFINE T == {k - n : n \in S}
<1>1. T \in SUBSET Nat /\ T # {}
  <2>1. \A n \in S : n \in Nat /\ n <= k
    OBVIOUS
  <2>2. \A n \in S : k - n \in Nat
    BY <2>1
  <2> QED
    BY <2>2
<1>2. PICK d \in T : \A e \in T : d <= e
  BY <1>1, HasMin
<1>3. PICK m \in S : d = k - m
  BY <1>2
<1>4. ASSUME NEW n \in S
      PROVE  n <= m
  <2>1. m \in Nat /\ n \in Nat
    OBVIOUS
  <2>2. k - m <= k - n
    BY <1>2, <1>3
  <2> QED
    BY <2>1, <2>2
<1> QED
  BY <1>4

-----------------------------------------------------------------------------
(* Beginnings of sequences: parents and branches. *)

\* The first k elements of a sequence.
LEMMA Beginning ==
    ASSUME NEW S, NEW s \in Seq(S), NEW k \in 0 .. Len(s)
    PROVE  /\ SubSeq(s, 1, k) \in Seq(S)
           /\ Len(SubSeq(s, 1, k)) = k
           /\ \A i \in 1 .. k : SubSeq(s, 1, k)[i] = s[i]
<1>1. \A i \in 1 .. k : s[i] \in S
  OBVIOUS
<1> QED
  BY <1>1, SubSeqProperties

\* A whole sequence is a beginning of itself.
LEMMA WholeBeginning ==
    ASSUME NEW S, NEW s \in Seq(S)
    PROVE  SubSeq(s, 1, Len(s)) = s
<1>1. Len(s) \in 0 .. Len(s)
  OBVIOUS
<1> QED
  BY <1>1, Beginning, SeqEqual

\* The beginning of a beginning is a beginning.
LEMMA BeginningOfBeginning ==
    ASSUME NEW S, NEW s \in Seq(S), NEW k \in 0 .. Len(s), NEW j \in 0 .. k
    PROVE  SubSeq(SubSeq(s, 1, k), 1, j) = SubSeq(s, 1, j)
<1> DEFINE t == SubSeq(s, 1, k)
<1>1. t \in Seq(S) /\ Len(t) = k /\ \A i \in 1 .. k : t[i] = s[i]
  BY Beginning
<1> HIDE DEF t
<1>2. /\ SubSeq(t, 1, j) \in Seq(S) /\ Len(SubSeq(t, 1, j)) = j
      /\ \A i \in 1 .. j : SubSeq(t, 1, j)[i] = t[i]
  BY <1>1, Beginning
<1>3. j \in 0 .. Len(s)
  OBVIOUS
<1>4. /\ SubSeq(s, 1, j) \in Seq(S) /\ Len(SubSeq(s, 1, j)) = j
      /\ \A i \in 1 .. j : SubSeq(s, 1, j)[i] = s[i]
  BY <1>3, Beginning
<1>5. SubSeq(t, 1, j) = SubSeq(s, 1, j)
  BY <1>1, <1>2, <1>4, SeqEqual
<1> QED
  BY <1>5 DEF t

\* A block's parent is shorter by one.
LEMMA ParentType ==
    ASSUME NEW b \in Block
    PROVE  /\ Parent(b) \in Seq(Payload)
           /\ Len(b) \in Nat \ {0}
           /\ Len(Parent(b)) = Len(b) - 1
           /\ \A j \in 0 .. Len(b) - 1 : SubSeq(Parent(b), 1, j) = SubSeq(b, 1, j)
           /\ SubSeq(b, 1, Len(b)) = b
<1>1. b \in Seq(Payload) /\ Len(b) \in Nat \ {0}
  BY DEF Block
<1>2. Len(b) - 1 \in 0 .. Len(b)
  BY <1>1
<1> QED
  BY <1>1, <1>2, Beginning, BeginningOfBeginning, WholeBeginning DEF Parent

\* A payload on top of a chain is a block with that chain as its parent.
LEMMA AppendIsBlock ==
    ASSUME NEW p \in Seq(Payload), NEW x \in Payload
    PROVE  Append(p, x) \in Block /\ Parent(Append(p, x)) = p
<1> DEFINE b == Append(p, x)
<1>1. /\ b \in Seq(Payload) /\ b # <<>> /\ Len(b) = Len(p) + 1
      /\ \A i \in 1 .. Len(p) : b[i] = p[i]
  BY AppendProperties
<1> HIDE DEF b
<1>2. b \in Block
  BY <1>1 DEF Block
<1>3. /\ Parent(b) \in Seq(Payload) /\ Len(Parent(b)) = Len(p)
      /\ \A i \in 1 .. Len(p) : Parent(b)[i] = p[i]
  <2>1. Len(p) \in 0 .. Len(b) /\ Len(b) - 1 = Len(p)
    BY <1>1
  <2> QED
    BY <1>1, <2>1, Beginning DEF Parent
<1>4. Parent(b) = p
  BY <1>3, SeqEqual
<1> QED
  BY <1>2, <1>4 DEF b

\* A branch is made of stored blocks and contains its head.
LEMMA BranchType ==
    ASSUME NEW B, NEW h \in Seq(Payload)
    PROVE  /\ Branch(B, h) \subseteq B
           /\ h \in Block /\ h \in B => h \in Branch(B, h)
<1>1. Branch(B, h) \subseteq B
  <2> SUFFICES ASSUME NEW k \in 1 .. Len(h), \A j \in k .. Len(h) : SubSeq(h, 1, j) \in B
               PROVE  SubSeq(h, 1, k) \in B
    BY DEF Branch
  <2>1. k \in k .. Len(h)
    OBVIOUS
  <2> QED
    BY <2>1
<1>2. ASSUME h \in Block, h \in B
      PROVE  h \in Branch(B, h)
  <2>1. Len(h) \in Nat \ {0} /\ SubSeq(h, 1, Len(h)) = h
    BY <1>2, ParentType
  <2>2. ASSUME NEW j \in Len(h) .. Len(h)
        PROVE  SubSeq(h, 1, j) \in B
    <3>1. j = Len(h)
      BY <2>1
    <3> QED
      BY <1>2, <2>1, <3>1
  <2>3. Len(h) \in 1 .. Len(h)
    BY <2>1
  <2>4. SubSeq(h, 1, Len(h)) \in Branch(B, h)
    BY <2>2, <2>3, Zenon DEF Branch
  <2> QED
    BY <2>1, <2>4
<1> QED
  BY <1>1, <1>2

\* A branch of a finite store is finite.
LEMMA BranchFinite ==
    ASSUME NEW B, IsFiniteSet(B), NEW h \in Seq(Payload)
    PROVE  IsFiniteSet(Branch(B, h)) /\ Cardinality(Branch(B, h)) \in Nat
BY BranchType, FS_Subset, FS_CardinalityType

-----------------------------------------------------------------------------
(* The map of file names. *)

\* A block's transactions, and what MetaOf picks from them.
LEMMA MetaOfType ==
    ASSUME NEW b \in Block
    PROVE  /\ TxsOf(b) \in Seq(Txs)
           /\ NamesOf(b) \subseteq Names
           /\ \A x \in NamesOf(b) :
                 \E i \in DOMAIN TxsOf(b) :
                    TxsOf(b)[i].name = x /\ TxsOf(b)[i].meta = MetaOf(b, x)
<1>1. TxsOf(b) \in Seq(Txs)
  <2>1. b \in Seq(Payload) /\ Len(b) \in 1 .. Len(b)
    BY DEF Block
  <2>2. b[Len(b)] \in Payload
    BY <2>1, ElementOfSeq
  <2> QED
    BY <2>2 DEF TxsOf, Payload
<1>2. /\ DOMAIN TxsOf(b) = 1 .. Len(TxsOf(b)) /\ Len(TxsOf(b)) \in Nat
      /\ \A i \in DOMAIN TxsOf(b) : TxsOf(b)[i] \in Txs
  BY <1>1
<1>3. NamesOf(b) \subseteq Names
  BY <1>2 DEF NamesOf, Names
<1>4. ASSUME NEW x \in NamesOf(b)
      PROVE  \E i \in DOMAIN TxsOf(b) :
                TxsOf(b)[i].name = x /\ TxsOf(b)[i].meta = MetaOf(b, x)
  <2> DEFINE txs == TxsOf(b)
             uses == {i \in DOMAIN txs : txs[i].name = x}
             last == CHOOSE i \in uses : \A j \in uses : j <= i
  <2>1. uses \in SUBSET Nat /\ uses # {} /\ \A j \in uses : j <= Len(txs)
    BY <1>2 DEF NamesOf
  <2>2. \E i \in uses : \A j \in uses : j <= i
    BY <1>2, <2>1, HasMax
  <2>3. last \in uses
    BY <2>2
  <2>4. MetaOf(b, x) = txs[last].meta
    BY DEF MetaOf
  <2> QED
    BY <2>3, <2>4
<1> QED
  BY <1>1, <1>3, <1>4

\* Of the blocks that use a name one is the oldest.
LEMMA OldestExists ==
    ASSUME NEW B \in SUBSET Block, NEW x, \E b \in B : x \in NamesOf(b)
    PROVE  \E b \in B : /\ x \in NamesOf(b)
                        /\ \A c \in B : x \in NamesOf(c) => Len(b) <= Len(c)
<1> DEFINE users == {b \in B : x \in NamesOf(b)}
           lengths == {Len(b) : b \in users}
<1>1. lengths \in SUBSET Nat /\ lengths # {}
  <2>1. users # {}
    OBVIOUS
  <2>2. \A b \in users : Len(b) \in Nat
    BY DEF Block
  <2> QED
    BY <2>1, <2>2
<1>2. PICK m \in lengths : \A n \in lengths : m <= n
  BY <1>1, HasMin
<1> QED
  BY <1>2

\* A name that AddTransactions leaves in the map was there before, or a block
\* that was added uses it with this metahash.
LEMMA AddedNames ==
    ASSUME NEW map, NEW B \in SUBSET Block,
           NEW x \in DOMAIN AddTransactions(map, B)
    PROVE  \/ x \in DOMAIN map /\ AddTransactions(map, B)[x] = map[x]
           \/ \E b \in B : \E i \in DOMAIN TxsOf(b) :
                 /\ TxsOf(b)[i].name = x
                 /\ TxsOf(b)[i].meta = AddTransactions(map, B)[x]
<1> DEFINE added == UNION {NamesOf(b) : b \in B}
           oldest == CHOOSE b \in B :
                        /\ x \in NamesOf(b)
                        /\ \A c \in B : x \in NamesOf(c) => Len(b) <= Len(c)
<1>1. /\ x \in DOMAIN map \cup added
      /\ AddTransactions(map, B)[x] =
            IF x \in added THEN MetaOf(oldest, x) ELSE map[x]
  BY DEF AddTransactions
<1>2. CASE x \in added
  <2>1. \E b \in B : x \in NamesOf(b)
    BY <1>2
  <2>2. \E b \in B : /\ x \in NamesOf(b)
                     /\ \A c \in B : x \in NamesOf(c) => Len(b) <= Len(c)
    BY <2>1, OldestExists
  <2>3. oldest \in B /\ x \in NamesOf(oldest)
    BY <2>2
  <2>4. oldest \in Block
    BY <2>3
  <2>5. \E i \in DOMAIN TxsOf(oldest) :
           TxsOf(oldest)[i].name = x /\ TxsOf(oldest)[i].meta = MetaOf(oldest, x)
    BY <2>3, <2>4, MetaOfType
  <2> QED
    BY <1>1, <1>2, <2>3, <2>5
<1>3. CASE x \notin added
  BY <1>1, <1>3
<1> QED
  BY <1>2, <1>3

\* Names and metahashes in the map have their types.
NamesType(map) ==
    /\ DOMAIN map \subseteq Names
    /\ \A x \in DOMAIN map : map[x] \in Metahashes

\* Adding the transactions of blocks keeps these types.
LEMMA AddTransactionsType ==
    ASSUME NEW map, NamesType(map), NEW B \in SUBSET Block
    PROVE  NamesType(AddTransactions(map, B))
<1> SUFFICES ASSUME NEW x \in DOMAIN AddTransactions(map, B)
             PROVE  x \in Names /\ AddTransactions(map, B)[x] \in Metahashes
  BY DEF NamesType
<1>1. CASE x \in DOMAIN map /\ AddTransactions(map, B)[x] = map[x]
  BY <1>1 DEF NamesType
<1>2. ASSUME NEW b \in B, NEW i \in DOMAIN TxsOf(b), TxsOf(b)[i].name = x,
             TxsOf(b)[i].meta = AddTransactions(map, B)[x]
      PROVE  x \in Names /\ AddTransactions(map, B)[x] \in Metahashes
  <2>1. b \in Block
    OBVIOUS
  <2>2. TxsOf(b)[i] \in Txs
    BY <2>1, MetaOfType
  <2> QED
    BY <1>2, <2>2 DEF Names, Metahashes
<1> QED
  BY <1>1, <1>2, AddedNames

\* So does deleting them.
LEMMA DeleteTransactionsType ==
    ASSUME NEW map, NamesType(map), NEW B
    PROVE  NamesType(DeleteTransactions(map, B))
BY DEF NamesType, DeleteTransactions

-----------------------------------------------------------------------------
(* Types. *)

\* The store's part of a step: nothing, or one new block is taken.
Taken(b) ==
    /\ IsStored(b)
    /\ FirstBlock(b) \/ ExtendMain(b) \/ ExtendFork(b) \/ StartFork(b)

\* A step leaves the store alone or takes a block that is one.
LEMMA StoreStep ==
    ASSUME TypeOK, [Next]_vars
    PROVE  \/ UNCHANGED storeVars
           \/ \E b \in Block : Taken(b)
<1>1. ASSUME NEW p \in blockchain \cup Roots, NEW x \in Payloads,
             ReceiveBlock(Append(p, x))
      PROVE  UNCHANGED storeVars \/ \E b \in Block : Taken(b)
  <2>1. p \in Seq(Payload) /\ x \in Payload
    BY RootsAssumption, PayloadsAssumption DEF TypeOK, Block
  <2>2. Append(p, x) \in Block
    BY <2>1, AppendIsBlock
  <2> QED
    BY <1>1, <2>2 DEF ReceiveBlock, HandleNewBlockArrival, Taken
<1>2. ASSUME NEW nonce \in Nonces, FinishMining(nonce)
      PROVE  UNCHANGED storeVars \/ \E b \in Block : Taken(b)
  <2> DEFINE x == [nonce |-> nonce, txs |-> mining.txs]
  <2>0. mining.parent \in Block \cup {Genesis} /\ mining.txs \in Seq(Txs)
    BY DEF TypeOK
  <2>1. mining.parent \in Seq(Payload) /\ x \in Payload
    <3>1. mining.parent \in Seq(Payload)
      BY <2>0, EmptySeq DEF Block, Genesis
    <3>2. x \in Payload
      BY <2>0 DEF Payload
    <3> QED
      BY <3>1, <3>2
  <2>2. Append(mining.parent, x) \in Block
    BY <2>1, AppendIsBlock
  <2> QED
    BY <1>2, <2>2 DEF FinishMining, HandleNewBlockArrival, Taken
<1>3. ASSUME NEW tx \in Txs, ReceiveTx(tx)
      PROVE  UNCHANGED storeVars
  BY <1>3 DEF ReceiveTx
<1>4. CASE StartMining
  BY <1>4 DEF StartMining
<1>5. CASE UNCHANGED vars
  BY <1>5 DEF vars, storeVars
<1> QED
  BY <1>1, <1>2, <1>3, <1>4, <1>5 DEF Next

\* The types of the store's own variables.  The store is finite, or the
\* cardinalities that are kept as lengths would not be numbers.
StoreType ==
    /\ blockchain \subseteq Block /\ IsFiniteSet(blockchain)
    /\ DOMAIN headToLength \subseteq Block \cup {Genesis}
    /\ \A h \in DOMAIN headToLength : headToLength[h] \in Nat
    /\ longestHead \in Block \cup {Genesis}
    /\ NamesType(names)

\* Replacing a head keeps the types of the heads.
LEMMA ReplaceHeadType ==
    ASSUME StoreType, NEW b \in Block, NEW l \in Nat, ReplaceHead(b, l)
    PROVE  /\ DOMAIN headToLength' \subseteq Block \cup {Genesis}
           /\ \A h \in DOMAIN headToLength' : headToLength'[h] \in Nat
BY DEF StoreType, ReplaceHead

\* Taking a block keeps the types of the store.
LEMMA TakenType ==
    ASSUME StoreType, NEW b \in Block, Taken(b)
    PROVE  StoreType'
<1>0. blockchain' \subseteq Block /\ IsFiniteSet(blockchain')
  <2>1. blockchain' = blockchain \cup {b}
    BY DEF Taken, FirstBlock, ExtendMain, ExtendFork, StartFork
  <2> QED
    BY <2>1, FS_AddElement DEF StoreType
<1>1. CASE FirstBlock(b)
  <2>1. NamesType(names')
    BY <1>1, AddTransactionsType DEF FirstBlock, StoreType
  <2> QED
    BY <1>0, <1>1, <2>1 DEF FirstBlock, StoreType, NamesType
<1>2. CASE ExtendMain(b)
  <2>1. NamesType(names')
    BY <1>2, AddTransactionsType DEF ExtendMain, StoreType
  <2>2. headToLength[Parent(b)] + 1 \in Nat /\ ReplaceHead(b, headToLength[Parent(b)] + 1)
    BY <1>2 DEF ExtendMain, StoreType
  <2>3. /\ DOMAIN headToLength' \subseteq Block \cup {Genesis}
        /\ \A h \in DOMAIN headToLength' : headToLength'[h] \in Nat
    BY <2>2, ReplaceHeadType
  <2>4. longestHead' = b
    BY <1>2 DEF ExtendMain
  <2> QED
    BY <1>0, <2>1, <2>3, <2>4 DEF StoreType, NamesType
<1>3. CASE ExtendFork(b)
  <2>1. blockchain' \subseteq Block /\ IsFiniteSet(blockchain')
    BY <1>0
  <2>2. /\ DOMAIN headToLength' \subseteq Block \cup {Genesis}
        /\ \A h \in DOMAIN headToLength' : headToLength'[h] \in Nat
    <3>1. headToLength[Parent(b)] + 1 \in Nat /\ ReplaceHead(b, headToLength[Parent(b)] + 1)
      BY <1>3 DEF ExtendFork, StoreType
    <3> QED
      BY <3>1, ReplaceHeadType
  <2>3. CASE LongerThanMain(headToLength[Parent(b)] + 1)
    <3> DEFINE meet == Intersection(blockchain', longestHead, b)
               shared == Branch(blockchain, meet)
               old == Branch(blockchain, longestHead) \ shared
               new == Branch(blockchain', b) \ shared
    <3>1. /\ names' = AddTransactions(DeleteTransactions(names, old), new)
          /\ longestHead' = b
      BY <1>3, <2>3 DEF ExtendFork
    <3>2. b \in Seq(Payload)
      BY DEF Block
    <3>3. new \in SUBSET Block
      BY <2>1, <3>2, BranchType
    <3>4. NamesType(names')
      BY <3>1, <3>3, AddTransactionsType, DeleteTransactionsType DEF StoreType
    <3> QED
      BY <2>1, <2>2, <3>1, <3>4 DEF StoreType, NamesType
  <2>4. CASE ~LongerThanMain(headToLength[Parent(b)] + 1)
    <3>1. UNCHANGED <<longestHead, names>>
      BY <1>3, <2>4 DEF ExtendFork
    <3> QED
      BY <2>1, <2>2, <3>1 DEF StoreType, NamesType
  <2> QED
    BY <2>3, <2>4
<1>4. CASE StartFork(b)
  <2>1. Parent(b) \in Seq(Payload) /\ Parent(b) \in blockchain
    BY <1>4, ParentType DEF StartFork
  <2>2. Cardinality(Branch(blockchain, Parent(b))) \in Nat
    BY <2>1, BranchFinite DEF StoreType
  <2>3. GetChainLength(Parent(b)) + 1 \in Nat
    BY <2>1, <2>2 DEF GetChainLength
  <2> QED
    BY <1>0, <1>4, <2>3 DEF StartFork, StoreType, NamesType
<1> QED
  BY <1>1, <1>2, <1>3, <1>4 DEF Taken

\* TypeOK is inductive once the store is known to be finite.
TypeInv == TypeOK /\ IsFiniteSet(blockchain)

\* Every step keeps the types.
LEMMA TypeInvStep == TypeInv /\ [Next]_vars => TypeInv'
<1> SUFFICES ASSUME TypeInv, [Next]_vars
             PROVE  TypeInv'
  OBVIOUS
<1>0. StoreType
  BY DEF TypeInv, TypeOK, StoreType, NamesType
<1>1. StoreType'
  <2>1. CASE UNCHANGED storeVars
    BY <1>0, <2>1 DEF storeVars, StoreType, NamesType
  <2>2. ASSUME NEW b \in Block, Taken(b)
        PROVE  StoreType'
    BY <1>0, <2>2, TakenType
  <2> QED
    BY <2>1, <2>2, StoreStep DEF TypeInv
<1>2. /\ pendingTx' \in Seq(Txs)
      /\ mining' \in [parent : Block \cup {Genesis}, txs : Seq(Txs), busy : BOOLEAN]
  <2> DEFINE Mining == [parent : Block \cup {Genesis}, txs : Seq(Txs), busy : BOOLEAN]
  <2>0. pendingTx \in Seq(Txs) /\ mining \in Mining /\ longestHead \in Block \cup {Genesis}
    BY DEF TypeInv, TypeOK
  <2>a. <<>> \in Seq(Txs)
    BY EmptySeq
  <2>1. ASSUME NEW p \in blockchain \cup Roots, NEW x \in Payloads,
               ReceiveBlock(Append(p, x))
        PROVE  pendingTx' \in Seq(Txs) /\ mining' \in Mining
    BY <2>0, <2>1 DEF ReceiveBlock
  <2>2. ASSUME NEW tx \in Txs, ReceiveTx(tx)
        PROVE  pendingTx' \in Seq(Txs) /\ mining' \in Mining
    BY <2>0, <2>2 DEF ReceiveTx
  <2>3. CASE StartMining
    BY <2>0, <2>a, <2>3 DEF StartMining
  <2>4. ASSUME NEW nonce \in Nonces, FinishMining(nonce)
        PROVE  pendingTx' \in Seq(Txs) /\ mining' \in Mining
    BY <2>0, <2>a, <2>4 DEF FinishMining, Idle
  <2>5. CASE UNCHANGED vars
    BY <2>0, <2>5 DEF vars
  <2> QED
    BY <2>1, <2>2, <2>3, <2>4, <2>5 DEF Next
<1> QED
  BY <1>1, <1>2 DEF TypeInv, TypeOK, StoreType, NamesType

\* The types hold at the start.
LEMMA InitType == Init => TypeInv
<1> SUFFICES ASSUME Init
             PROVE  TypeInv
  OBVIOUS
<1>1. <<>> \in Seq(Txs)
  BY EmptySeq
<1>2. mining \in [parent : Block \cup {Genesis}, txs : Seq(Txs), busy : BOOLEAN]
  BY <1>1 DEF Init, Idle
<1>3. IsFiniteSet({})
  BY FS_EmptySet
<1> QED
  BY <1>1, <1>2, <1>3 DEF Init, TypeInv, TypeOK

\* The types hold always, and the store stays finite.
LEMMA TypeInvHolds == Spec => []TypeInv
BY InitType, TypeInvStep, PTL DEF Spec

\* Every variable of the block store keeps its type.
THEOREM TypeCorrect == Spec => []TypeOK
<1>1. TypeInv => TypeOK
  BY DEF TypeInv
<1> QED
  BY <1>1, TypeInvHolds, PTL

-----------------------------------------------------------------------------
(* The store is one tree. *)

\* There is one block without a stored parent at most, and no block is shorter
\* than it: the parent of a stored block can never arrive after that block.
Rooted ==
    \A r \in blockchain : Parent(r) \notin blockchain =>
        /\ \A b \in blockchain : Len(r) <= Len(b)
        /\ \A s \in blockchain : Parent(s) \notin blockchain => s = r

\* b comes into the store: it is new, and its parent is stored or nothing is.
NewBlock(b) ==
    /\ blockchain' = blockchain \cup {b}
    /\ b \notin blockchain
    /\ Parent(b) \in blockchain \/ blockchain = {}

\* A block that is taken comes into the store.
LEMMA TakenBlock ==
    ASSUME NEW b \in Block, Taken(b)
    PROVE  NewBlock(b)
BY DEF NewBlock, Taken, IsStored, IsFirst, FirstBlock, ExtendMain, ExtendFork, StartFork

\* A new block has no successor in the store yet.
LEMMA NewHasNoChild ==
    ASSUME blockchain \subseteq Block, Rooted, NEW b \in Block, NewBlock(b)
    PROVE  \A c \in blockchain \cup {b} : Parent(c) # b
<1> SUFFICES ASSUME NEW c \in blockchain \cup {b}, Parent(c) = b
             PROVE  FALSE
  OBVIOUS
<1>1. c \in Block /\ Len(b) = Len(c) - 1 /\ Len(c) \in Nat /\ Len(b) \in Nat
  BY ParentType
<1>2. c \in blockchain /\ Parent(c) \notin blockchain
  BY <1>1 DEF NewBlock
<1>3. Parent(b) \in blockchain
  BY <1>2 DEF NewBlock
<1>4. Len(c) <= Len(Parent(b)) /\ Len(Parent(b)) = Len(b) - 1
  BY <1>2, <1>3, ParentType DEF Rooted
<1> QED
  BY <1>1, <1>4

\* A new block keeps the tree.
LEMMA RootedStep ==
    ASSUME blockchain \subseteq Block, Rooted, NEW b \in Block, NewBlock(b)
    PROVE  Rooted'
<1>1. blockchain' = blockchain \cup {b} /\ b \notin blockchain
  BY DEF NewBlock
<1>2. CASE blockchain = {}
  <2>1. blockchain' = {b} /\ Len(b) \in Nat
    BY <1>1, <1>2, ParentType
  <2> QED
    BY <2>1 DEF Rooted
<1>3. CASE Parent(b) \in blockchain
  <2>1. Len(b) \in Nat /\ Len(Parent(b)) = Len(b) - 1
    BY ParentType
  <2>2. ASSUME NEW r \in blockchain', Parent(r) \notin blockchain'
        PROVE  r \in blockchain /\ Parent(r) \notin blockchain
    BY <1>1, <1>3, <2>2
  <2>3. ASSUME NEW r \in blockchain', Parent(r) \notin blockchain',
               NEW c \in blockchain'
        PROVE  Len(r) <= Len(c)
    <3>1. Len(r) \in Nat
      BY <2>2, <2>3, ParentType
    <3>2. CASE c \in blockchain
      BY <2>2, <2>3, <3>2 DEF Rooted
    <3>3. CASE c = b
      <4>1. Len(r) <= Len(Parent(b))
        BY <1>3, <2>2, <2>3 DEF Rooted
      <4> QED
        BY <2>1, <3>1, <3>3, <4>1
    <3> QED
      BY <1>1, <3>2, <3>3
  <2>4. ASSUME NEW r \in blockchain', Parent(r) \notin blockchain',
               NEW s \in blockchain', Parent(s) \notin blockchain'
        PROVE  s = r
    BY <2>2, <2>4 DEF Rooted
  <2> QED
    BY <2>3, <2>4 DEF Rooted
<1> QED
  BY <1>2, <1>3 DEF NewBlock

\* A store with at most one root is one tree.
LEMMA RootedIsOneTree == Rooted => OneTree
<1> SUFFICES ASSUME Rooted
             PROVE  OneTree
  OBVIOUS
<1> DEFINE R == {b \in blockchain : Parent(b) \notin blockchain}
<1>1. CASE R = {}
  <2>1. Cardinality(R) = 0
    BY <1>1, FS_EmptySet
  <2> QED
    BY <2>1 DEF OneTree
<1>2. CASE R # {}
  <2>1. PICK r \in R : TRUE
    BY <1>2
  <2>2. \A s \in R : s = r
    BY <2>1 DEF Rooted
  <2>3. R = {r}
    BY <2>1, <2>2
  <2>4. Cardinality(R) = 1
    BY <2>3, FS_Singleton
  <2> QED
    BY <2>4 DEF OneTree
<1> QED
  BY <1>1, <1>2

\* Every step of the specification keeps the tree.
LEMMA RootedNext == TypeInv /\ Rooted /\ [Next]_vars => Rooted'
<1> SUFFICES ASSUME TypeInv, Rooted, [Next]_vars
             PROVE  Rooted'
  OBVIOUS
<1>1. CASE UNCHANGED storeVars
  BY <1>1 DEF storeVars, Rooted
<1>2. ASSUME NEW b \in Block, Taken(b)
      PROVE  Rooted'
  BY <1>2, TakenBlock, RootedStep DEF TypeInv, TypeOK
<1> QED
  BY <1>1, <1>2, StoreStep DEF TypeInv

\* There is at most one root at any time.
LEMMA RootedHolds == Spec => []Rooted
<1>1. Init => Rooted
  BY DEF Init, Rooted
<1> QED
  BY <1>1, TypeInvHolds, RootedNext, PTL DEF Spec

\* In whatever order blocks arrive, the store is one tree.
THEOREM AlwaysOneTree == Spec => []OneTree
BY RootedHolds, RootedIsOneTree, PTL

-----------------------------------------------------------------------------
(* The heads are the leaves. *)

Heads == DOMAIN headToLength \ {Genesis}
Leaves == {b \in blockchain : ~HasChild(b)}

\* A new block is a leaf, and its parent is not one any more.
LEMMA TakenLeaves ==
    ASSUME blockchain \subseteq Block, Rooted, NEW b \in Block, Taken(b)
    PROVE  Leaves' = (Leaves \ {Parent(b)}) \cup {b}
<1>1. blockchain' = blockchain \cup {b} /\ b \notin blockchain
  BY TakenBlock DEF NewBlock
<1>2. \A c \in blockchain \cup {b} : Parent(c) # b
  BY TakenBlock, NewHasNoChild
<1>3. ASSUME NEW c \in blockchain
      PROVE  HasChild(c)' <=> HasChild(c) \/ c = Parent(b)
  BY <1>1 DEF HasChild
<1>4. ~HasChild(b)'
  BY <1>1, <1>2 DEF HasChild
<1> QED
  BY <1>1, <1>3, <1>4 DEF Leaves

\* The heads change in the same way, whichever branch of the code runs.
LEMMA TakenHeads ==
    ASSUME StoreType, Heads = Leaves, NEW b \in Block, Taken(b)
    PROVE  Heads' = (Heads \ {Parent(b)}) \cup {b}
<1>1. b # Genesis /\ blockchain \subseteq Block /\ Genesis \notin Block
  BY DEF Block, Genesis, StoreType
<1>2. CASE FirstBlock(b)
  <2>1. Heads = {}
    BY <1>2 DEF FirstBlock, IsFirst, Leaves
  <2> QED
    BY <1>1, <1>2, <2>1 DEF FirstBlock, Heads
<1>3. CASE ExtendMain(b)
  BY <1>1, <1>3 DEF ExtendMain, ReplaceHead, Heads
<1>4. CASE ExtendFork(b)
  BY <1>1, <1>4 DEF ExtendFork, ReplaceHead, Heads
<1>5. CASE StartFork(b)
  BY <1>1, <1>5 DEF StartFork, Heads
<1> QED
  BY <1>2, <1>3, <1>4, <1>5 DEF Taken

\* Every step keeps the heads equal to the leaves.
LEMMA HeadsStep ==
    TypeInv /\ Rooted /\ Heads = Leaves /\ [Next]_vars => (Heads = Leaves)'
<1> SUFFICES ASSUME TypeInv, Rooted, Heads = Leaves, [Next]_vars
             PROVE  Heads' = Leaves'
  OBVIOUS
<1>1. StoreType
  BY DEF TypeInv, TypeOK, StoreType, NamesType
<1>2. CASE UNCHANGED storeVars
  BY <1>2 DEF storeVars, Heads, Leaves, HasChild
<1>3. ASSUME NEW b \in Block, Taken(b)
      PROVE  Heads' = Leaves'
  <2>1. Leaves' = (Leaves \ {Parent(b)}) \cup {b}
    BY <1>1, <1>3, TakenLeaves DEF StoreType
  <2>2. Heads' = (Heads \ {Parent(b)}) \cup {b}
    BY <1>1, <1>3, TakenHeads
  <2> QED
    BY <2>1, <2>2
<1> QED
  BY <1>2, <1>3, StoreStep DEF TypeInv

\* The heads are the leaves at any time.
LEMMA HeadsHold == Spec => [](Heads = Leaves)
<1>1. Init => Heads = Leaves
  BY DEF Init, Heads, Leaves
<1> QED
  BY <1>1, TypeInvHolds, RootedHolds, HeadsStep, PTL DEF Spec

\* Whatever forks there are, the heads kept by the code are exactly the blocks
\* without a successor.
THEOREM HeadsAlwaysLeaves == Spec => []HeadsAreLeaves
<1>1. Heads = Leaves => HeadsAreLeaves
  BY DEF Heads, Leaves, HeadsAreLeaves
<1> QED
  BY <1>1, HeadsHold, PTL

-----------------------------------------------------------------------------
(* The length of a branch. *)

Length(b) == Cardinality(Branch(blockchain, b))

\* A new block does not change the branches of the others: if it were on one of
\* them it would have a successor in the store.
LEMMA OtherBranches ==
    ASSUME blockchain \subseteq Block, Rooted, NEW b \in Block, NewBlock(b),
           NEW c \in blockchain
    PROVE  Branch(blockchain, c)' = Branch(blockchain, c)
<1>1. blockchain' = blockchain \cup {b} /\ b \notin blockchain
  BY DEF NewBlock
<1>2. c \in Block /\ Len(c) \in Nat /\ SubSeq(c, 1, Len(c)) = c
  BY ParentType
<1>3. ASSUME NEW k \in 1 .. Len(c),
             \A j \in k .. Len(c) : SubSeq(c, 1, j) \in blockchain'
      PROVE  \A j \in k .. Len(c) : SubSeq(c, 1, j) \in blockchain
  <2> SUFFICES ASSUME NEW j \in k .. Len(c), SubSeq(c, 1, j) = b
               PROVE  FALSE
    BY <1>1, <1>3
  <2>1. j # Len(c)
    BY <1>1, <1>2
  <2>2. j + 1 \in k .. Len(c) /\ j + 1 \in 0 .. Len(c) /\ j \in 0 .. j + 1
    <3>1. ASSUME NEW n \in Nat, NEW i \in 1 .. n, NEW m \in i .. n, m # n
          PROVE  m + 1 \in i .. n /\ m + 1 \in 0 .. n /\ m \in 0 .. m + 1
      BY <3>1
    <3>2. Len(c) \in Nat
      BY <1>2
    <3> QED
      BY <2>1, <3>1, <3>2, Zenon
  <2> DEFINE d == SubSeq(c, 1, j + 1)
  <2>3. d \in blockchain \cup {b}
    BY <1>1, <1>3, <2>2
  <2>4. c \in Seq(Payload)
    BY <1>2 DEF Block
  <2>5. Len(d) = j + 1 /\ SubSeq(d, 1, j) = SubSeq(c, 1, j)
    BY <2>2, <2>4, Beginning, BeginningOfBeginning
  <2> HIDE DEF d
  <2>6. Parent(d) = SubSeq(d, 1, j)
    <3>1. Len(d) - 1 = j
      BY <2>5
    <3> QED
      BY <3>1 DEF Parent
  <2>7. Parent(d) = b
    BY <2>5, <2>6
  <2> QED
    BY <2>3, <2>7, NewHasNoChild
<1>4. {k \in 1 .. Len(c) : \A j \in k .. Len(c) : SubSeq(c, 1, j) \in blockchain'} =
      {k \in 1 .. Len(c) : \A j \in k .. Len(c) : SubSeq(c, 1, j) \in blockchain}
  BY <1>1, <1>3
<1> QED
  BY <1>4, Zenon DEF Branch

\* A block's branch is that of its parent and the block itself.
LEMMA BranchOfChild ==
    ASSUME NEW B, NEW b \in Block, b \in B
    PROVE  Branch(B, b) = Branch(B, Parent(b)) \cup {b}
<1> DEFINE p == Parent(b)
<1>1. /\ Len(b) \in Nat \ {0} /\ Len(p) = Len(b) - 1
      /\ \A j \in 0 .. Len(b) - 1 : SubSeq(p, 1, j) = SubSeq(b, 1, j)
      /\ SubSeq(b, 1, Len(b)) = b
  BY ParentType
<1> HIDE DEF p
<1>2. ASSUME NEW k \in 1 .. Len(b), k # Len(b)
      PROVE  (\A j \in k .. Len(b) : SubSeq(b, 1, j) \in B) <=>
             (\A j \in k .. Len(p) : SubSeq(p, 1, j) \in B)
  <2>1. ASSUME NEW j \in k .. Len(p)
        PROVE  SubSeq(p, 1, j) = SubSeq(b, 1, j) /\ j \in k .. Len(b)
    <3>1. j \in 0 .. Len(b) - 1
      BY <1>1
    <3> QED
      BY <1>1, <3>1
  <2>2. ASSUME NEW j \in k .. Len(b)
        PROVE  j \in k .. Len(p) \/ j = Len(b)
    BY <1>1
  <2> QED
    BY <1>1, <2>1, <2>2
<1>3. ASSUME NEW x \in Branch(B, b)
      PROVE  x \in Branch(B, p) \cup {b}
  <2>1. PICK k \in 1 .. Len(b) :
           x = SubSeq(b, 1, k) /\ \A j \in k .. Len(b) : SubSeq(b, 1, j) \in B
    BY DEF Branch
  <2>2. CASE k = Len(b)
    BY <1>1, <2>1, <2>2
  <2>3. CASE k # Len(b)
    <3>1. k \in 1 .. Len(p) /\ k \in 0 .. Len(b) - 1
      BY <1>1, <2>3
    <3>2. x = SubSeq(p, 1, k)
      BY <1>1, <2>1, <3>1
    <3>3. \A j \in k .. Len(p) : SubSeq(p, 1, j) \in B
      BY <1>2, <2>1, <2>3
    <3> QED
      BY <3>1, <3>2, <3>3 DEF Branch
  <2> QED
    BY <2>2, <2>3
<1>4. ASSUME NEW x \in Branch(B, p)
      PROVE  x \in Branch(B, b)
  <2>1. PICK k \in 1 .. Len(p) :
           x = SubSeq(p, 1, k) /\ \A j \in k .. Len(p) : SubSeq(p, 1, j) \in B
    BY DEF Branch
  <2>2. k \in 1 .. Len(b) /\ k # Len(b) /\ k \in 0 .. Len(b) - 1
    BY <1>1
  <2>3. x = SubSeq(b, 1, k)
    BY <1>1, <2>1, <2>2
  <2>4. \A j \in k .. Len(b) : SubSeq(b, 1, j) \in B
    BY <1>2, <2>1, <2>2
  <2> QED
    BY <2>2, <2>3, <2>4 DEF Branch
<1>5. b \in Branch(B, b)
  <2>1. b \in Seq(Payload)
    BY DEF Block
  <2> QED
    BY <2>1, BranchType
<1> QED
  BY <1>3, <1>4, <1>5 DEF p

\* The branch of a new block: it alone, or its parent's and itself.
LEMMA LengthOfChild ==
    ASSUME StoreType, Rooted, NEW b \in Block, NewBlock(b)
    PROVE  /\ \A c \in blockchain : Length(c)' = Length(c) /\ Length(c) \in Nat
           /\ blockchain = {} => Length(b)' = 1
           /\ Parent(b) \in blockchain => Length(b)' = Length(Parent(b)) + 1
<1>1. blockchain' = blockchain \cup {b} /\ b \notin blockchain
  BY DEF NewBlock
<1>2. blockchain \subseteq Block /\ IsFiniteSet(blockchain)
  BY DEF StoreType
<1>3. ASSUME NEW c \in blockchain
      PROVE  Length(c)' = Length(c) /\ Length(c) \in Nat
  <2>1. c \in Seq(Payload)
    BY <1>2 DEF Block
  <2>2. Length(c) \in Nat
    BY <1>2, <2>1, BranchFinite DEF Length
  <2>3. Branch(blockchain, c)' = Branch(blockchain, c)
    BY <1>2, OtherBranches
  <2> QED
    BY <2>2, <2>3 DEF Length
<1>4. Branch(blockchain, b)' = Branch(blockchain', b)
  BY DEF Branch
<1>5. ASSUME blockchain = {}
      PROVE  Length(b)' = 1
  <2>1. b \in Seq(Payload) /\ blockchain' = {b}
    BY <1>1, <1>5 DEF Block
  <2>2. Branch(blockchain', b) = {b}
    BY <2>1, BranchType
  <2>3. Cardinality({b}) = 1
    BY FS_Singleton
  <2> QED
    BY <1>4, <2>2, <2>3 DEF Length
<1>6. ASSUME Parent(b) \in blockchain
      PROVE  Length(b)' = Length(Parent(b)) + 1
  <2> DEFINE p == Parent(b)
  <2>1. p \in blockchain /\ p \in Seq(Payload)
    BY <1>2, <1>6 DEF Block
  <2>2. Branch(blockchain', b) = Branch(blockchain, p) \cup {b}
    <3>1. Branch(blockchain', b) = Branch(blockchain', p) \cup {b}
      BY <1>1, BranchOfChild
    <3>2. Branch(blockchain', p) = Branch(blockchain, p)
      BY <1>2, <2>1, OtherBranches
    <3> QED
      BY <3>1, <3>2
  <2>3. IsFiniteSet(Branch(blockchain, p)) /\ b \notin Branch(blockchain, p)
    BY <1>1, <1>2, <2>1, BranchType, BranchFinite
  <2>4. Cardinality(Branch(blockchain, p) \cup {b}) = Cardinality(Branch(blockchain, p)) + 1
    BY <2>3, FS_AddElement
  <2> QED
    BY <1>4, <2>2, <2>4 DEF Length
<1> QED
  BY <1>3, <1>5, <1>6

-----------------------------------------------------------------------------
(* The lengths kept with the heads, and the longest of them. *)

\* The lengths are right, the zero hash keeps its 0, no block is on a longer
\* branch than the main head, and a block that is not a head is on a shorter
\* one: a fork that starts there cannot outgrow the main chain at once.
LengthInv ==
    /\ \A h \in Heads : headToLength[h] = Length(h)
    /\ Genesis \in DOMAIN headToLength => headToLength[Genesis] = 0
    /\ blockchain # {} =>
          /\ longestHead \in Heads
          /\ \A c \in blockchain : Length(c) <= Length(longestHead)
          /\ \A c \in blockchain \ Heads : Length(c) < Length(longestHead)

MainLength == Cardinality(Branch(blockchain, longestHead))

\* Taking a block keeps the heads' lengths right.
LEMMA HeadLengthsStep ==
    ASSUME StoreType, Rooted, Heads = Leaves, LengthInv, NEW b \in Block, Taken(b)
    PROVE  /\ \A h \in Heads' : headToLength'[h] = Length(h)'
           /\ Genesis \in DOMAIN headToLength' => headToLength'[Genesis] = 0
           /\ \A h \in Heads \ {Parent(b)} : headToLength'[h] = Length(h)
<1>1. /\ \A c \in blockchain : Length(c)' = Length(c) /\ Length(c) \in Nat
      /\ blockchain = {} => Length(b)' = 1
      /\ Parent(b) \in blockchain => Length(b)' = Length(Parent(b)) + 1
  BY TakenBlock, LengthOfChild
<1>2. Heads' = (Heads \ {Parent(b)}) \cup {b}
  BY TakenHeads
<1>3. b \notin Heads /\ b # Genesis /\ Heads \subseteq blockchain
  BY TakenBlock DEF NewBlock, Leaves, Block, Genesis
<1>4. /\ \A h \in DOMAIN headToLength' \ {b} : headToLength'[h] = headToLength[h]
      /\ headToLength'[b] = Length(b)'
  <2>1. CASE FirstBlock(b)
    BY <1>1, <2>1 DEF FirstBlock, IsFirst
  <2>2. CASE Parent(b) \in blockchain /\ ReplaceHead(b, headToLength[Parent(b)] + 1)
                /\ Parent(b) \in DOMAIN headToLength
    <3>1. Parent(b) \in Heads
      BY <2>2 DEF Heads, StoreType, Block, Genesis
    <3>2. headToLength[Parent(b)] = Length(Parent(b))
      BY <3>1 DEF LengthInv
    <3> QED
      BY <1>1, <2>2, <3>2 DEF ReplaceHead
  <2>3. CASE StartFork(b)
    BY <1>1, <2>3 DEF StartFork, GetChainLength, Length
  <2> QED
    BY <2>1, <2>2, <2>3 DEF Taken, ExtendMain, ExtendFork
<1>5. ASSUME NEW h \in Heads \ {Parent(b)}
      PROVE  headToLength'[h] = Length(h) /\ Length(h)' = Length(h)
  <2>1. h \in DOMAIN headToLength' \ {b} /\ h \in blockchain
    BY <1>2, <1>3 DEF Heads
  <2> QED
    BY <1>1, <1>4, <2>1 DEF LengthInv
<1>6. Genesis \in DOMAIN headToLength' => headToLength'[Genesis] = 0
  <2>1. Genesis \in DOMAIN headToLength' => Genesis \in DOMAIN headToLength
    BY <1>3 DEF Taken, FirstBlock, ExtendMain, ExtendFork, StartFork, ReplaceHead
  <2> QED
    BY <1>3, <1>4, <2>1 DEF LengthInv
<1> QED
  BY <1>2, <1>4, <1>5, <1>6

\* Taking a block keeps the main chain a longest one, and changes the main head
\* for one on a longer branch only.
LEMMA LengthStep ==
    ASSUME StoreType, Rooted, Heads = Leaves, LengthInv, NEW b \in Block, Taken(b)
    PROVE  LengthInv' /\ (longestHead' # longestHead => MainLength' > MainLength)
<1>1. /\ \A c \in blockchain : Length(c)' = Length(c) /\ Length(c) \in Nat
      /\ blockchain = {} => Length(b)' = 1
      /\ Parent(b) \in blockchain => Length(b)' = Length(Parent(b)) + 1
  BY TakenBlock, LengthOfChild
<1>2. Heads' = (Heads \ {Parent(b)}) \cup {b}
  BY TakenHeads
<1>3. blockchain' = blockchain \cup {b} /\ b \notin blockchain
  BY TakenBlock DEF NewBlock
<1>4. /\ \A h \in Heads' : headToLength'[h] = Length(h)'
      /\ Genesis \in DOMAIN headToLength' => headToLength'[Genesis] = 0
      /\ \A h \in Heads \ {Parent(b)} : headToLength'[h] = Length(h)
  BY HeadLengthsStep
<1>5. Heads \subseteq blockchain
  BY DEF Leaves
<1> DEFINE Longest ==
      /\ longestHead' \in Heads'
      /\ \A c \in blockchain' : Length(c)' <= Length(longestHead)'
      /\ \A c \in blockchain' \ Heads' : Length(c)' < Length(longestHead)'
<1> SUFFICES Longest /\ (longestHead' # longestHead => Length(longestHead)' > MainLength)
  BY <1>4 DEF LengthInv, MainLength, Length
<1>6. CASE FirstBlock(b)
  <2>1. blockchain' = {b} /\ longestHead' = b /\ blockchain = {}
    BY <1>3, <1>6 DEF FirstBlock, IsFirst
  <2>2. Length(longestHead)' = Length(b)' /\ Length(b)' = 1
    BY <1>1, <2>1 DEF Length
  <2>3. MainLength = 0
    <3>1. longestHead \in Seq(Payload)
      BY EmptySeq DEF StoreType, Block, Genesis
    <3>2. Branch(blockchain, longestHead) = {}
      BY <2>1, <3>1, BranchType
    <3> QED
      BY <3>2, FS_EmptySet DEF MainLength
  <2> QED
    BY <1>2, <2>1, <2>2, <2>3
<1>7. ASSUME Parent(b) \in blockchain, longestHead' = b,
             \A c \in blockchain : Length(c) <= Length(longestHead),
             Length(longestHead) < Length(b)', longestHead \in blockchain
      PROVE  Longest /\ Length(longestHead)' > MainLength
  <2>1. Length(longestHead)' = Length(b)' /\ Length(b)' \in Nat
    BY <1>1, <1>7 DEF Length
  <2>2. \A c \in blockchain : Length(c)' < Length(longestHead)'
    BY <1>1, <1>7, <2>1
  <2>3. b \in Heads' /\ MainLength = Length(longestHead)
    BY <1>2 DEF MainLength, Length
  <2> QED
    BY <1>1, <1>3, <1>7, <2>1, <2>2, <2>3
<1>8. ASSUME Parent(b) \in blockchain, UNCHANGED longestHead,
             longestHead \in Heads', Length(b)' <= Length(longestHead)
      PROVE  Longest
  <2>1. longestHead \in blockchain
    BY <1>5, <1>8 DEF LengthInv
  <2>2. Length(longestHead)' = Length(longestHead)
    BY <1>1, <1>8, <2>1 DEF Length
  <2>3. Length(Parent(b))' < Length(longestHead)
    BY <1>1, <1>8, <2>1
  <2>4. ASSUME NEW c \in blockchain
        PROVE  /\ Length(c)' <= Length(longestHead)
               /\ c \notin Heads' => Length(c)' < Length(longestHead)
    <3>1. Length(c)' = Length(c) /\ Length(c) <= Length(longestHead)
      BY <1>1 DEF LengthInv
    <3>2. c \notin Heads' => c = Parent(b) \/ c \in blockchain \ Heads
      BY <1>2
    <3> QED
      BY <2>3, <3>1, <3>2 DEF LengthInv
  <2> QED
    BY <1>2, <1>3, <1>8, <2>2, <2>4
<1>9. CASE ExtendMain(b)
  <2>1. Parent(b) \in blockchain /\ longestHead' = b /\ longestHead = Parent(b)
    BY <1>9 DEF ExtendMain
  <2>2. Length(longestHead) < Length(b)'
    BY <1>1, <2>1
  <2> QED
    BY <1>7, <2>1, <2>2 DEF LengthInv
<1>10. CASE ExtendFork(b)
  <2>1. Parent(b) \in blockchain /\ Parent(b) \in Heads /\ longestHead # Parent(b)
    BY <1>10 DEF ExtendFork, Heads, StoreType, Block, Genesis
  <2>2. /\ longestHead \in Heads \ {Parent(b)} /\ longestHead \in blockchain
        /\ headToLength[Parent(b)] = Length(Parent(b))
    BY <1>5, <2>1 DEF LengthInv
  <2>3. headToLength'[longestHead] = Length(longestHead)
    BY <1>4, <2>2
  <2>4. Length(b)' = headToLength[Parent(b)] + 1
    BY <1>1, <2>1, <2>2
  <2>5. CASE LongerThanMain(headToLength[Parent(b)] + 1)
    <3>1. longestHead' = b
      BY <1>10, <2>5 DEF ExtendFork
    <3>2. Length(longestHead) < Length(b)'
      BY <2>3, <2>4, <2>5 DEF LongerThanMain
    <3> QED
      BY <1>7, <2>1, <2>2, <3>1, <3>2 DEF LengthInv
  <2>6. CASE ~LongerThanMain(headToLength[Parent(b)] + 1)
    <3>1. UNCHANGED longestHead
      BY <1>10, <2>6 DEF ExtendFork
    <3>2. Length(b)' <= Length(longestHead)
      BY <1>1, <2>1, <2>2, <2>3, <2>4, <2>6 DEF LongerThanMain
    <3> QED
      BY <1>2, <1>8, <2>1, <2>2, <3>1, <3>2
  <2> QED
    BY <2>5, <2>6
<1>11. CASE StartFork(b)
  <2>1. Parent(b) \in blockchain /\ Parent(b) \notin Heads /\ UNCHANGED longestHead
    BY <1>11 DEF StartFork, Heads
  <2>2. longestHead \in Heads /\ longestHead \in Heads' /\ longestHead \in blockchain
    BY <1>2, <1>5, <2>1 DEF LengthInv
  <2>3. Length(Parent(b)) < Length(longestHead)
    BY <2>1 DEF LengthInv
  <2>4. Length(b)' <= Length(longestHead)
    BY <1>1, <2>1, <2>2, <2>3
  <2> QED
    BY <1>8, <2>1, <2>2, <2>4
<1> QED
  BY <1>6, <1>9, <1>10, <1>11 DEF Taken

\* A step of the specification leaves the store alone or does as a block that
\* is taken: the lengths stay right, and the main chain grows if it changes.
LEMMA LengthNext ==
    TypeInv /\ Rooted /\ Heads = Leaves /\ LengthInv /\ [Next]_vars =>
        LengthInv' /\ (longestHead' # longestHead => MainLength' > MainLength)
<1> SUFFICES ASSUME TypeInv, Rooted, Heads = Leaves, LengthInv, [Next]_vars
             PROVE  LengthInv' /\ (longestHead' # longestHead => MainLength' > MainLength)
  OBVIOUS
<1>1. StoreType
  BY DEF TypeInv, TypeOK, StoreType, NamesType
<1>2. CASE UNCHANGED storeVars
  <2>1. Heads' = Heads /\ UNCHANGED longestHead
    BY <1>2 DEF storeVars, Heads
  <2>2. \A h : Length(h)' = Length(h)
    BY <1>2 DEF storeVars, Length
  <2>3. Length(longestHead)' = Length(longestHead)
    BY <1>2 DEF storeVars, Length
  <2> QED
    BY <1>2, <2>1, <2>2, <2>3 DEF storeVars, LengthInv
<1>3. ASSUME NEW b \in Block, Taken(b)
      PROVE  LengthInv' /\ (longestHead' # longestHead => MainLength' > MainLength)
  BY <1>1, <1>3, LengthStep
<1> QED
  BY <1>2, <1>3, StoreStep DEF TypeInv

\* The lengths are right at any time.
LEMMA LengthHolds == Spec => []LengthInv
<1>1. Init => LengthInv
  BY DEF Init, LengthInv, Heads
<1> QED
  BY <1>1, TypeInvHolds, RootedHolds, HeadsHold, LengthNext, PTL DEF Spec

\* The length counted up with each head is the number of blocks on its branch,
\* whichever fork a block extends and in whatever order the blocks arrive.
THEOREM LengthsAlwaysRight == Spec => []HeadLengthsAreRight
<1>1. LengthInv => HeadLengthsAreRight
  BY DEF LengthInv, HeadLengthsAreRight, Heads, Length
<1> QED
  BY <1>1, LengthHolds, PTL

\* No fork ever gets longer than the main chain: the switch is never missed.
THEOREM MainChainAlwaysLongest == Spec => []MainChainIsLongest
<1>1. TypeInv /\ Heads = Leaves /\ LengthInv => MainChainIsLongest
  <2> SUFFICES ASSUME TypeInv, Heads = Leaves, LengthInv, blockchain # {}
               PROVE  /\ longestHead \in DOMAIN headToLength
                      /\ \A h \in DOMAIN headToLength :
                            headToLength[h] <= headToLength[longestHead]
    BY DEF MainChainIsLongest
  <2>1. longestHead \in Heads /\ longestHead \in DOMAIN headToLength
    BY DEF LengthInv, Heads
  <2>2. headToLength[longestHead] \in Nat
    BY <2>1 DEF TypeInv, TypeOK
  <2>3. ASSUME NEW h \in Heads
        PROVE  headToLength[h] <= headToLength[longestHead]
    <3>1. h \in blockchain
      BY DEF Leaves
    <3>2. headToLength[h] = Length(h)
      BY DEF LengthInv
    <3>3. headToLength[longestHead] = Length(longestHead)
      BY <2>1 DEF LengthInv
    <3>4. Length(h) <= Length(longestHead)
      BY <3>1 DEF LengthInv
    <3> QED
      BY <3>2, <3>3, <3>4
  <2>4. Genesis \in DOMAIN headToLength => headToLength[Genesis] <= headToLength[longestHead]
    BY <2>2 DEF LengthInv
  <2> QED
    BY <2>1, <2>3, <2>4 DEF Heads
<1> QED
  BY <1>1, TypeInvHolds, HeadsHold, LengthHolds, PTL

\* The main chain is left for a strictly longer one only: a fork of the same
\* length never replaces it.
THEOREM MainChainOnlyGrows == Spec => MainChainGrows
<1>1. TypeInv /\ Rooted /\ Heads = Leaves /\ LengthInv /\ [Next]_vars =>
         [longestHead' # longestHead =>
             Cardinality(Branch(blockchain', longestHead')) >
                 Cardinality(Branch(blockchain, longestHead))]_vars
  <2> SUFFICES ASSUME TypeInv, Rooted, Heads = Leaves, LengthInv, [Next]_vars,
                      longestHead' # longestHead
               PROVE  Cardinality(Branch(blockchain', longestHead')) >
                          Cardinality(Branch(blockchain, longestHead))
    OBVIOUS
  <2>1. MainLength' > MainLength
    BY LengthNext
  <2> QED
    BY <2>1 DEF MainLength
<1> QED
  BY <1>1, TypeInvHolds, RootedHolds, HeadsHold, LengthHolds, PTL DEF Spec, MainChainGrows

-----------------------------------------------------------------------------
(* The names in use. *)

\* The branch of a block on a branch is a part of it.
LEMMA BranchOfMember ==
    ASSUME NEW B, NEW C, B \subseteq C, NEW h \in Seq(Payload), NEW f \in Branch(C, h)
    PROVE  Branch(B, f) \subseteq Branch(C, h)
<1>1. PICK k \in 1 .. Len(h) :
         f = SubSeq(h, 1, k) /\ \A j \in k .. Len(h) : SubSeq(h, 1, j) \in C
  BY DEF Branch
<1>2. Len(h) \in Nat /\ k \in 0 .. Len(h) /\ Len(f) = k
  <2>1. k \in 0 .. Len(h)
    OBVIOUS
  <2> QED
    BY <1>1, <2>1, Beginning
<1>3. ASSUME NEW i \in 1 .. Len(f), \A j \in i .. Len(f) : SubSeq(f, 1, j) \in B
      PROVE  SubSeq(f, 1, i) \in Branch(C, h)
  <2>1. \A j \in 0 .. k : SubSeq(f, 1, j) = SubSeq(h, 1, j)
    BY <1>1, <1>2, BeginningOfBeginning
  <2>2. i \in 1 .. Len(h) /\ i \in 0 .. k
    BY <1>2
  <2>3. ASSUME NEW j \in i .. Len(h)
        PROVE  SubSeq(h, 1, j) \in C
    <3>1. CASE j \in k .. Len(h)
      BY <1>1, <3>1
    <3>2. CASE j \in i .. Len(f) /\ j \in 0 .. k
      BY <1>3, <2>1, <3>2
    <3> QED
      BY <1>2, <3>1, <3>2
  <2>4. SubSeq(h, 1, i) \in Branch(C, h)
    BY <2>2, <2>3 DEF Branch
  <2> QED
    BY <2>1, <2>2, <2>4
<1> QED
  BY <1>3 DEF Branch

\* The point where a fork leaves the main chain is on the fork, if there is one.
LEMMA MeetIsOnFork ==
    ASSUME NEW C, C \subseteq Block, NEW m \in Seq(Payload), NEW h \in Seq(Payload)
    PROVE  Intersection(C, m, h) = Genesis \/ Intersection(C, m, h) \in Branch(C, h)
<1> DEFINE common == Branch(C, m) \cap Branch(C, h)
           meet == Intersection(C, m, h)
<1>1. CASE common = {}
  BY <1>1 DEF Intersection
<1>2. CASE common # {}
  <2> DEFINE lengths == {Len(b) : b \in common}
  <2>1. \A b \in common : Len(b) \in Nat /\ Len(b) <= Len(h)
    <3> SUFFICES ASSUME NEW k \in 1 .. Len(h)
                 PROVE  Len(SubSeq(h, 1, k)) \in Nat /\ Len(SubSeq(h, 1, k)) <= Len(h)
      BY DEF Branch
    <3>1. k \in 0 .. Len(h)
      OBVIOUS
    <3> QED
      BY <3>1, Beginning
  <2>2. lengths \in SUBSET Nat /\ lengths # {} /\ Len(h) \in Nat /\ \A n \in lengths : n <= Len(h)
    <3>1. Len(h) \in Nat
      OBVIOUS
    <3> HIDE DEF common
    <3>2. lengths \in SUBSET Nat /\ \A n \in lengths : n <= Len(h)
      BY <2>1
    <3>3. lengths # {}
      BY <1>2
    <3> QED
      BY <3>1, <3>2, <3>3
  <2>3. PICK l \in lengths : \A n \in lengths : n <= l
    BY <2>2, HasMax
  <2>4. \E b \in common : \A c \in common : Len(c) <= Len(b)
    BY <2>3
  <2>5. meet = CHOOSE b \in common : \A c \in common : Len(c) <= Len(b)
    BY <1>2 DEF Intersection
  <2> QED
    BY <2>4, <2>5
<1> QED
  BY <1>1, <1>2

\* The branch below that point is a part of the fork.
LEMMA SharedIsOnFork ==
    ASSUME NEW B, NEW C, B \subseteq C, C \subseteq Block, NEW m \in Seq(Payload),
           NEW h \in Seq(Payload)
    PROVE  Branch(B, Intersection(C, m, h)) \subseteq Branch(C, h)
<1>1. CASE Intersection(C, m, h) = Genesis
  <2>1. Branch(B, Genesis) = {}
    <3>1. Len(Genesis) = 0
      BY DEF Genesis
    <3>2. 1 .. Len(Genesis) = {}
      BY <3>1
    <3> QED
      BY <3>2 DEF Branch
  <2> QED
    BY <1>1, <2>1
<1>2. CASE Intersection(C, m, h) \in Branch(C, h)
  BY <1>2, BranchOfMember
<1> QED
  BY <1>1, <1>2, MeetIsOnFork

\* A block uses a name with a metahash.
Uses(b, x, meta) == \E i \in DOMAIN TxsOf(b) : TxsOf(b)[i].name = x /\ TxsOf(b)[i].meta = meta

\* The names of a map belong to blocks of a set.
NamesFrom(map, B) == \A x \in DOMAIN map : \E b \in B : Uses(b, x, map[x])

\* Adding the transactions of blocks to a map.
LEMMA AddedNamesFrom ==
    ASSUME NEW map, NEW B, NamesFrom(map, B), NEW C \in SUBSET Block
    PROVE  NamesFrom(AddTransactions(map, C), B \cup C)
<1> DEFINE result == AddTransactions(map, C)
<1> SUFFICES ASSUME NEW x \in DOMAIN result
             PROVE  \E b \in B \cup C : Uses(b, x, result[x])
  BY DEF NamesFrom
<1>1. \/ x \in DOMAIN map /\ result[x] = map[x]
      \/ \E b \in C : Uses(b, x, result[x])
  BY AddedNames DEF Uses
<1> QED
  BY <1>1 DEF NamesFrom

\* Deleting the transactions of blocks from a map.
LEMMA DeletedNamesFrom ==
    ASSUME NEW map, NEW B, NamesFrom(map, B), NEW C
    PROVE  NamesFrom(DeleteTransactions(map, C), B \ C)
<1> SUFFICES ASSUME NEW x \in DOMAIN map, x \notin UNION {NamesOf(b) : b \in C}
             PROVE  \E b \in B \ C : Uses(b, x, map[x])
  BY DEF NamesFrom, DeleteTransactions
<1>1. PICK b \in B : Uses(b, x, map[x])
  BY DEF NamesFrom
<1>2. x \in NamesOf(b)
  BY <1>1 DEF Uses, NamesOf
<1> QED
  BY <1>1, <1>2

\* The names in use belong to blocks of the main chain.
NamesInv == NamesFrom(names, Branch(blockchain, longestHead))

\* Taking a block keeps this: what a fork brings is added, and of the old main
\* chain only the part below the fork stays.
LEMMA NamesStep ==
    ASSUME StoreType, Rooted, Heads = Leaves, LengthInv, NamesInv,
           NEW b \in Block, Taken(b)
    PROVE  NamesInv'
<1>1. blockchain' = blockchain \cup {b} /\ blockchain \subseteq Block
  BY TakenBlock DEF NewBlock, StoreType
<1>2. b \in Seq(Payload) /\ longestHead \in Seq(Payload)
  BY EmptySeq DEF StoreType, Block, Genesis
<1>3. b \in Branch(blockchain', b)
  BY <1>1, <1>2, BranchType
<1> SUFFICES NamesFrom(names', Branch(blockchain', longestHead'))
  BY DEF NamesInv, NamesFrom
<1>4. CASE FirstBlock(b)
  <2>1. names' = AddTransactions(names, {b}) /\ longestHead' = b /\ blockchain = {}
    BY <1>4 DEF FirstBlock, IsFirst
  <2>2. NamesFrom(names', Branch(blockchain, longestHead) \cup {b})
    BY <2>1, AddedNamesFrom DEF NamesInv
  <2>3. Branch(blockchain, longestHead) = {}
    BY <1>2, <2>1, BranchType
  <2> QED
    BY <1>3, <2>1, <2>2, <2>3 DEF NamesFrom
<1>5. CASE ExtendMain(b)
  <2>1. /\ names' = AddTransactions(names, {b}) /\ longestHead' = b
        /\ longestHead = Parent(b) /\ longestHead \in blockchain
    BY <1>5 DEF ExtendMain
  <2>2. NamesFrom(names', Branch(blockchain, longestHead) \cup {b})
    BY <2>1, AddedNamesFrom DEF NamesInv
  <2>3. Branch(blockchain', b) = Branch(blockchain', Parent(b)) \cup {b}
    BY <1>1, BranchOfChild
  <2>4. Branch(blockchain', Parent(b)) = Branch(blockchain, longestHead)
    <3>1. Branch(blockchain, Parent(b))' = Branch(blockchain, Parent(b))
      BY <1>1, <2>1, TakenBlock, OtherBranches
    <3> QED
      BY <2>1, <3>1
  <2> QED
    BY <2>1, <2>2, <2>3, <2>4
<1>6. CASE UNCHANGED <<longestHead, names>> /\ Parent(b) \in blockchain
  <2>1. longestHead \in blockchain
    BY <1>6 DEF LengthInv, Leaves
  <2>2. Branch(blockchain', longestHead) = Branch(blockchain, longestHead)
    BY <1>1, <2>1, TakenBlock, OtherBranches
  <2> QED
    BY <1>6, <2>2 DEF NamesInv
<1>7. CASE ExtendFork(b) /\ LongerThanMain(headToLength[Parent(b)] + 1)
  <2> DEFINE meet == Intersection(blockchain', longestHead, b)
             shared == Branch(blockchain, meet)
             old == Branch(blockchain, longestHead) \ shared
             new == Branch(blockchain', b) \ shared
             kept == DeleteTransactions(names, old)
  <2>1. names' = AddTransactions(kept, new) /\ longestHead' = b
    BY <1>7 DEF ExtendFork
  <2>2. shared \subseteq Branch(blockchain', b)
    BY <1>1, <1>2, SharedIsOnFork
  <2>3. NamesFrom(kept, Branch(blockchain, longestHead) \ old)
    BY DeletedNamesFrom DEF NamesInv
  <2>4. new \in SUBSET Block
    BY <1>1, <1>2, BranchType
  <2>5. NamesFrom(names', (Branch(blockchain, longestHead) \ old) \cup new)
    <3> HIDE DEF new, kept, old
    <3> QED
      BY <2>1, <2>3, <2>4, AddedNamesFrom
  <2>6. (Branch(blockchain, longestHead) \ old) \cup new \subseteq Branch(blockchain', b)
    BY <2>2
  <2> QED
    BY <2>1, <2>5, <2>6 DEF NamesFrom
<1> QED
  BY <1>4, <1>5, <1>6, <1>7 DEF Taken, ExtendFork, StartFork

\* Every step of the specification keeps the names.
LEMMA NamesNext ==
    TypeInv /\ Rooted /\ Heads = Leaves /\ LengthInv /\ NamesInv /\ [Next]_vars => NamesInv'
<1> SUFFICES ASSUME TypeInv, Rooted, Heads = Leaves, LengthInv, NamesInv, [Next]_vars
             PROVE  NamesInv'
  OBVIOUS
<1>1. StoreType
  BY DEF TypeInv, TypeOK, StoreType, NamesType
<1>2. CASE UNCHANGED storeVars
  BY <1>2 DEF storeVars, NamesInv, NamesFrom
<1>3. ASSUME NEW b \in Block, Taken(b)
      PROVE  NamesInv'
  BY <1>1, <1>3, NamesStep
<1> QED
  BY <1>2, <1>3, StoreStep DEF TypeInv

\* After any number of switches between forks a name in use belongs to a block
\* of the main chain, with the metahash that block gives it.
THEOREM NamesAlwaysFromMainChain == Spec => []NamesComeFromMainChain
<1>1. Init => NamesInv
  BY DEF Init, NamesInv, NamesFrom
<1>2. NamesInv => NamesComeFromMainChain
  BY DEF NamesInv, NamesFrom, Uses, NamesComeFromMainChain
<1> QED
  BY <1>1, <1>2, TypeInvHolds, RootedHolds, HeadsHold, LengthHolds, NamesNext, PTL DEF Spec

-----------------------------------------------------------------------------
(* Names that are used once. *)

\* Adding the transactions of blocks brings all their names, and keeps the others.
LEMMA AllNamesAdded ==
    ASSUME NEW map, NEW B
    PROVE  DOMAIN AddTransactions(map, B) = DOMAIN map \cup UNION {NamesOf(b) : b \in B}
BY DEF AddTransactions

\* The point where two branches meet does not depend on which is the fork.
LEMMA MeetingPoint ==
    ASSUME NEW C, NEW m, NEW h
    PROVE  Intersection(C, m, h) = Intersection(C, h, m)
<1> DEFINE Deepest(S) ==
              IF S = {} THEN Genesis
              ELSE CHOOSE b \in S : \A c \in S : Len(c) <= Len(b)
<1>1. \A k, l : Intersection(C, k, l) = Deepest(Branch(C, k) \cap Branch(C, l))
  BY DEF Intersection
<1>2. Branch(C, m) \cap Branch(C, h) = Branch(C, h) \cap Branch(C, m)
  OBVIOUS
<1> HIDE DEF Deepest
<1> QED
  BY <1>1, <1>2

\* Taking a block keeps the names of the main chain taken.
LEMMA NamesUsedOnceStep ==
    ASSUME StoreType, Rooted, Heads = Leaves, LengthInv, NamesUsedOnceAreTaken,
           NEW b \in Block, Taken(b)
    PROVE  NamesUsedOnceAreTaken'
<1>1. blockchain' = blockchain \cup {b} /\ blockchain \subseteq Block
  BY TakenBlock DEF NewBlock, StoreType
<1>2. b \in Seq(Payload) /\ longestHead \in Seq(Payload)
  BY EmptySeq DEF StoreType, Block, Genesis
<1> DEFINE main == Branch(blockchain, longestHead)
<1> SUFFICES ASSUME NamesUsedOnce', NEW c \in Branch(blockchain', longestHead'),
                    NEW x \in NamesOf(c)
             PROVE  x \in DOMAIN names'
  BY DEF NamesUsedOnceAreTaken
<1>3. NamesUsedOnce
  BY <1>1 DEF NamesUsedOnce
<1>4. \A d \in main : NamesOf(d) \subseteq DOMAIN names
  BY <1>3 DEF NamesUsedOnceAreTaken
<1> HIDE DEF main
<1>5. CASE FirstBlock(b)
  <2>1. names' = AddTransactions(names, {b}) /\ longestHead' = b /\ blockchain = {}
    BY <1>5 DEF FirstBlock, IsFirst
  <2>2. c = b
    BY <1>1, <1>2, <2>1, BranchType
  <2> QED
    BY <2>1, <2>2, AllNamesAdded
<1>6. CASE ExtendMain(b)
  <2>1. /\ names' = AddTransactions(names, {b}) /\ longestHead' = b
        /\ longestHead = Parent(b) /\ longestHead \in blockchain
    BY <1>6 DEF ExtendMain
  <2>2. Branch(blockchain', b) = Branch(blockchain', Parent(b)) \cup {b}
    BY <1>1, BranchOfChild
  <2>3. Branch(blockchain, Parent(b))' = Branch(blockchain, Parent(b))
    BY <1>1, <2>1, TakenBlock, OtherBranches
  <2>4. c \in main \/ c = b
    BY <2>1, <2>2, <2>3 DEF main
  <2>5. DOMAIN names' = DOMAIN names \cup UNION {NamesOf(d) : d \in {b}}
    BY <2>1, AllNamesAdded
  <2> QED
    BY <1>4, <2>4, <2>5
<1>7. CASE UNCHANGED <<longestHead, names>> /\ Parent(b) \in blockchain
  <2>1. longestHead \in blockchain
    BY <1>7 DEF LengthInv, Leaves
  <2>2. Branch(blockchain', longestHead) = main
    BY <1>1, <2>1, TakenBlock, OtherBranches DEF main
  <2> QED
    BY <1>4, <1>7, <2>2
<1>8. CASE ExtendFork(b) /\ LongerThanMain(headToLength[Parent(b)] + 1)
  <2> DEFINE meet == Intersection(blockchain', longestHead, b)
             shared == Branch(blockchain, meet)
             old == main \ shared
             new == Branch(blockchain', b) \ shared
             kept == DeleteTransactions(names, old)
  <2>1. names' = AddTransactions(kept, new) /\ longestHead' = b
    BY <1>8 DEF ExtendFork, main
  <2>2. longestHead \in blockchain
    BY <1>8 DEF ExtendFork, LengthInv, Leaves
  <2>3. Branch(blockchain', longestHead) = main
    BY <1>1, <2>2, TakenBlock, OtherBranches DEF main
  <2>4. shared \subseteq main
    <3>1. blockchain \subseteq blockchain' /\ blockchain' \subseteq Block
      BY <1>1
    <3>2. Branch(blockchain, Intersection(blockchain', b, longestHead))
             \subseteq Branch(blockchain', longestHead)
      BY <1>2, <3>1, SharedIsOnFork
    <3> QED
      BY <2>3, <3>2, MeetingPoint
  <2> HIDE DEF meet
  <2>5. DOMAIN names' = DOMAIN kept \cup UNION {NamesOf(d) : d \in new}
    <3> HIDE DEF new, kept
    <3> QED
      BY <2>1, AllNamesAdded
  <2>6. CASE c \in new
    <3> HIDE DEF new, kept
    <3> QED
      BY <2>6, <2>5
  <2>7. CASE c \in shared
    <3>1. main \subseteq blockchain
      BY <1>1, <1>2, BranchType DEF main
    <3>2. \A d \in old : c # d /\ c \in blockchain /\ d \in blockchain
      BY <2>4, <2>7, <3>1
    <3>3. x \notin UNION {NamesOf(d) : d \in old}
      BY <1>3, <3>2 DEF NamesUsedOnce
    <3>4. x \in DOMAIN names
      BY <1>4, <2>4, <2>7
    <3>5. x \in DOMAIN kept
      BY <3>3, <3>4 DEF DeleteTransactions
    <3> QED
      BY <2>5, <3>5
  <2> QED
    BY <2>1, <2>6, <2>7
<1> QED
  BY <1>5, <1>6, <1>7, <1>8 DEF Taken, ExtendFork, StartFork

\* Every step of the specification keeps them taken.
LEMMA NamesUsedOnceNext ==
    TypeInv /\ Rooted /\ Heads = Leaves /\ LengthInv /\ NamesUsedOnceAreTaken /\ [Next]_vars
        => NamesUsedOnceAreTaken'
<1> SUFFICES ASSUME TypeInv, Rooted, Heads = Leaves, LengthInv,
                    NamesUsedOnceAreTaken, [Next]_vars
             PROVE  NamesUsedOnceAreTaken'
  OBVIOUS
<1>1. StoreType
  BY DEF TypeInv, TypeOK, StoreType, NamesType
<1>2. CASE UNCHANGED storeVars
  BY <1>2 DEF storeVars, NamesUsedOnceAreTaken, NamesUsedOnce
<1>3. ASSUME NEW b \in Block, Taken(b)
      PROVE  NamesUsedOnceAreTaken'
  BY <1>1, <1>3, NamesUsedOnceStep
<1> QED
  BY <1>2, <1>3, StoreStep DEF TypeInv

\* As long as blocks use different names, no switch between forks makes a name
\* free that the main chain uses.
THEOREM NamesUsedOnceAlwaysTaken == Spec => []NamesUsedOnceAreTaken
<1>1. Init => NamesUsedOnceAreTaken
  <2> SUFFICES ASSUME Init
               PROVE  Branch(blockchain, longestHead) = {}
    BY DEF NamesUsedOnceAreTaken
  <2> QED
    BY BranchType, EmptySeq DEF Init, Genesis, Block
<1> QED
  BY <1>1, TypeInvHolds, RootedHolds, HeadsHold, LengthHolds, NamesUsedOnceNext,
     PTL DEF Spec

-----------------------------------------------------------------------------
(* The store implements the tree of BlockTree. *)

\* The end of the main chain after a block is taken: that block if its branch
\* is longer than the main chain was, and the old end otherwise.
LEMMA MainStep ==
    ASSUME StoreType, Rooted, Heads = Leaves, LengthInv, NEW b \in Block, Taken(b),
           blockchain # {}
    PROVE  /\ longestHead \in blockchain
           /\ longestHead' = IF Length(b)' > Length(longestHead)
                             THEN b ELSE longestHead
<1>1. longestHead' \in {b, longestHead}
  BY DEF Taken, FirstBlock, ExtendMain, ExtendFork, StartFork
<1>2. LengthInv' /\ (longestHead' # longestHead => MainLength' > MainLength)
  BY LengthStep
<1>3. blockchain' = blockchain \cup {b} /\ b \notin blockchain
  BY TakenBlock DEF NewBlock
<1>4. longestHead \in blockchain
  BY DEF LengthInv, Leaves
<1>5. /\ Cardinality(Branch(blockchain', longestHead)) = Length(longestHead)
      /\ Length(longestHead) \in Nat
  <2>1. \A c \in blockchain : Length(c)' = Length(c) /\ Length(c) \in Nat
    BY TakenBlock, LengthOfChild
  <2> QED
    BY <1>4, <2>1 DEF Length
<1>6. Length(b)' <= Cardinality(Branch(blockchain', longestHead'))
  BY <1>2, <1>3 DEF LengthInv, Length
<1>7. Length(b)' \in Nat
  <2>1. b \in Seq(Payload) /\ IsFiniteSet(blockchain')
    BY <1>3, FS_AddElement DEF StoreType, Block
  <2> QED
    BY <2>1, BranchFinite DEF Length
<1>8. CASE longestHead' = longestHead
  <2>1. Length(b)' <= Length(longestHead)
    BY <1>5, <1>6, <1>8 DEF Length
  <2>2. ~(Length(b)' > Length(longestHead))
    BY <1>5, <1>7, <2>1
  <2> QED
    BY <1>4, <1>8, <2>2
<1>9. CASE longestHead' # longestHead
  <2>1. longestHead' = b
    BY <1>1, <1>9
  <2>2. Length(b)' > Length(longestHead)
    BY <1>2, <1>9, <2>1 DEF MainLength, Length
  <2> QED
    BY <1>4, <2>1, <2>2
<1> QED
  BY <1>8, <1>9

HeightBar == [b \in blockchain |-> Length(b)]

\* Taking a block grows the tree.
LEMMA TakingGrows ==
    ASSUME StoreType, Rooted, Heads = Leaves, LengthInv, NEW b \in Block, Taken(b)
    PROVE  Tree!Grow(b) /\ b \in blockchain'
<1>1. /\ blockchain' = blockchain \cup {b} /\ b \notin blockchain
      /\ Parent(b) \in blockchain \/ blockchain = {}
  BY TakenBlock DEF NewBlock
<1>2. /\ \A c \in blockchain : Length(c)' = Length(c)
      /\ blockchain = {} => Length(b)' = 1
      /\ Parent(b) \in blockchain => Length(b)' = Length(Parent(b)) + 1
  BY TakenBlock, LengthOfChild
<1>3. Tree!Stored = blockchain /\ Tree!Parent(b) = Parent(b)
  BY DEF Tree!Stored, Tree!Parent, Parent
<1> DEFINE h == IF blockchain = {} THEN 1 ELSE HeightBar[Parent(b)] + 1
<1>4. h = Length(b)'
  BY <1>1, <1>2 DEF HeightBar
<1>5. HeightBar' = [c \in blockchain \cup {b} |-> IF c = b THEN h ELSE HeightBar[c]]
  <2>1. HeightBar' = [c \in blockchain \cup {b} |-> Length(c)']
    BY <1>1 DEF HeightBar
  <2>2. \A c \in blockchain \cup {b} :
           Length(c)' = IF c = b THEN h ELSE HeightBar[c]
    BY <1>1, <1>2, <1>4 DEF HeightBar
  <2> HIDE DEF h
  <2> QED
    BY <2>1, <2>2
<1>6. longestHead' = IF blockchain = {} THEN b
                     ELSE IF h > HeightBar[longestHead] THEN b ELSE longestHead
  <2>1. CASE blockchain = {}
    <3>1. FirstBlock(b)
      BY <2>1 DEF Taken, ExtendMain, ExtendFork, StartFork
    <3> QED
      BY <2>1, <3>1 DEF FirstBlock
  <2>2. CASE blockchain # {}
    <3>1. /\ longestHead \in blockchain
          /\ longestHead' = IF Length(b)' > Length(longestHead)
                            THEN b ELSE longestHead
      BY <2>2, MainStep
    <3>2. HeightBar[longestHead] = Length(longestHead)
      BY <3>1 DEF HeightBar
    <3> HIDE DEF h
    <3> QED
      BY <1>4, <2>2, <3>1, <3>2
  <2> QED
    BY <2>1, <2>2
<1> QED
  BY <1>1, <1>3, <1>5, <1>6 DEF Tree!Grow, HeightBar, Length

\* Every step grows the tree or leaves it alone.
LEMMA TreeStep ==
    ASSUME TypeInv, Rooted, Heads = Leaves, LengthInv, [Next]_vars
    PROVE  [Tree!Next]_(Tree!vars)
<1>1. StoreType
  BY DEF TypeInv, TypeOK, StoreType, NamesType
<1>2. CASE UNCHANGED storeVars
  BY <1>2 DEF storeVars, Tree!vars
<1>3. ASSUME NEW b \in Block, Taken(b)
      PROVE  Tree!Next
  <2>1. Tree!Grow(b) /\ b \in blockchain'
    BY <1>1, <1>3, TakingGrows
  <2> QED
    BY <2>1 DEF Tree!Next
<1> QED
  BY <1>2, <1>3, StoreStep DEF TypeInv

\* The block store implements the tree and its longest-chain rule, for any
\* transactions and blocks, in whatever order they arrive.
THEOREM StoreImplementsTree == Spec => ImplementsTree
<1>1. Init => Tree!Init
  <2> SUFFICES ASSUME Init
               PROVE  Tree!Init
    OBVIOUS
  <2>1. [b \in blockchain |-> Cardinality(Branch(blockchain, b))] = [b \in {} |-> 0]
    BY DEF Init
  <2> QED
    BY <2>1 DEF Init, Tree!Init, Genesis
<1> QED
  BY <1>1, TreeStep, TypeInvHolds, RootedHolds, HeadsHold, LengthHolds, PTL
     DEF Spec, ImplementsTree, Tree!Spec

-----------------------------------------------------------------------------
(* Two threads inside handleNewBlockArrival: types. *)

\* The types of the threads, in a finite store.  A thread is idle when it has no
\* block.
ThreadType ==
    /\ ThreadTypeOK
    /\ IsFiniteSet(blockchain)
    /\ \A t \in Threads : pc[t] = "idle" <=> block[t] = Genesis

\* The parts of ThreadType that a section may disturb.
LocalType ==
    /\ pc \in [Threads -> Labels]
    /\ block \in [Threads -> Block \cup {Genesis}]
    /\ length \in [Threads -> Nat]
    /\ from \in [Threads -> Block \cup {Genesis}]
    /\ \A t \in Threads : pc[t] = "idle" <=> block[t] = Genesis

RestType ==
    /\ pendingTx \in Seq(Txs)
    /\ mining \in [parent : Block \cup {Genesis}, txs : Seq(Txs), busy : BOOLEAN]

\* The parts together are the types.
LEMMA ThreadTypeParts == ThreadType <=> StoreType /\ LocalType /\ RestType
BY DEF ThreadType, ThreadTypeOK, TypeOK, StoreType, LocalType, RestType, NamesType

\* A thread with a block has one; the empty sequence is none.
LEMMA BusyBlock ==
    ASSUME LocalType, NEW t \in Threads, pc[t] # "idle"
    PROVE  block[t] \in Block /\ block[t] # Genesis /\ Genesis \notin Block
BY DEF LocalType, Block, Genesis

\* Going to another section, and returning, keep the types of a thread.
LEMMA GotoType ==
    ASSUME LocalType, NEW t \in Threads, pc[t] # "idle",
           NEW l \in Labels \ {"idle"}, Goto(t, l)
    PROVE  LocalType'
BY DEF LocalType, Goto

\* Returning does.
LEMMA ReturnType ==
    ASSUME LocalType, NEW t \in Threads, Return(t)
    PROVE  LocalType'
<1>1. "idle" \in Labels /\ Genesis \in Block \cup {Genesis} /\ 0 \in Nat
  BY DEF Labels
<1> QED
  BY <1>1 DEF LocalType, Return

\* A call gives an idle thread its block.
LEMMA CallType ==
    ASSUME LocalType, NEW t \in Threads, NEW b \in Block, Call(t, b)
    PROVE  LocalType'
<1>1. "find" \in Labels /\ b # Genesis
  BY DEF Labels, Block, Genesis
<1> QED
  BY <1>1 DEF LocalType, Call

\* Storing a block, changing the heads and the names, one at a time.
LEMMA RewindType ==
    ASSUME StoreType, NEW t \in Threads, block[t] \in Block, Rewind(t)
    PROVE  NamesType(names')
<1>1. Above(block[t], from[t]) \in SUBSET Block
  <2>1. block[t] \in Seq(Payload)
    BY DEF Block
  <2>2. Branch(blockchain, block[t]) \subseteq Block
    BY <2>1, BranchType DEF StoreType
  <2> QED
    BY <2>2 DEF Above
<1>2. NamesType(DeleteTransactions(names, Above(longestHead, from[t])))
  BY DeleteTransactionsType DEF StoreType
<1> QED
  BY <1>1, <1>2, AddTransactionsType DEF Rewind

\* The length a new fork is entered with is a number.
LEMMA NewForkLength ==
    ASSUME StoreType, NEW b \in Block
    PROVE  GetChainLength(Parent(b)) + 1 \in Nat
<1>1. Parent(b) \in Seq(Payload)
  BY ParentType
<1>2. Cardinality(Branch(blockchain, Parent(b))) \in Nat
  BY <1>1, BranchFinite DEF StoreType
<1> QED
  BY <1>2 DEF GetChainLength

\* Every section keeps the types.
LEMMA SectionType ==
    ASSUME StoreType, LocalType, NEW t \in Threads, Section(t)
    PROVE  StoreType' /\ LocalType'
<1> USE DEF At
<1>0. /\ block[t] \in Block \cup {Genesis} /\ from[t] \in Block \cup {Genesis}
      /\ length[t] \in Nat /\ longestHead \in Block \cup {Genesis}
      /\ "idle" \in Labels /\ pc[t] \in Labels
  BY DEF StoreType, LocalType, Labels
<1>l. \A l \in {"find", "findParent", "first", "insert", "isHead", "replace",
                "isMain", "setMain", "addNames", "mainLength", "intersect",
                "rewind", "switch", "newFork"} : l \in Labels \ {"idle"}
  BY DEF Labels
<1>s. UNCHANGED storeVars => StoreType'
  BY DEF storeVars, StoreType, NamesType
<1>v. UNCHANGED vars => UNCHANGED storeVars
  BY DEF vars, storeVars
<1>1. CASE FindBlock(t)
  BY <1>1, <1>s, <1>v, <1>l, GotoType, ReturnType DEF FindBlock
<1>2. CASE FindParent(t)
  BY <1>2, <1>s, <1>v, <1>l, GotoType DEF FindParent
<1>3. CASE StoreFirst(t)
  <2>1. LocalType' /\ block[t] \in Block
    BY <1>3, ReturnType, BusyBlock DEF StoreFirst
  <2>2. CASE UNCHANGED storeVars
    BY <2>1, <2>2, <1>s
  <2>3. CASE ~UNCHANGED storeVars
    <3>1. /\ blockchain' = blockchain \cup {block[t]}
          /\ longestHead' = block[t]
          /\ headToLength' = [h \in DOMAIN headToLength \cup {block[t]} |->
                                IF h = block[t] THEN 1 ELSE headToLength[h]]
          /\ names' = AddTransactions(names, {block[t]})
      BY <1>3, <2>3 DEF StoreFirst
    <3>2. IsFiniteSet(blockchain') /\ blockchain' \subseteq Block
      BY <2>1, <3>1, FS_AddElement DEF StoreType
    <3>3. NamesType(names')
      BY <2>1, <3>1, AddTransactionsType DEF StoreType
    <3> QED
      BY <2>1, <3>1, <3>2, <3>3 DEF StoreType, NamesType
  <2> QED
    BY <2>2, <2>3
<1>4. CASE Insert(t)
  <2>1. block[t] \in Block
    BY <1>4, BusyBlock DEF Insert
  <2>2. LocalType'
    BY <1>4, <1>l, GotoType DEF Insert
  <2>3. IsFiniteSet(blockchain') /\ blockchain' \subseteq Block
    BY <1>4, <2>1, FS_AddElement DEF StoreType, Insert
  <2> QED
    BY <1>4, <2>2, <2>3 DEF Insert, StoreType, NamesType
<1>5. CASE LookUpParentHead(t)
  <2>1. CASE Parent(block[t]) \in DOMAIN headToLength
    <3>1. LengthOfParent(t) + 1 \in Nat
      BY <2>1 DEF StoreType, LengthOfParent
    <3>2. /\ pc' = [pc EXCEPT ![t] = "replace"]
          /\ length' = [length EXCEPT ![t] = LengthOfParent(t) + 1]
          /\ UNCHANGED <<block, from>>
      BY <1>5, <2>1 DEF LookUpParentHead
    <3>3. length' \in [Threads -> Nat]
      BY <3>1, <3>2 DEF LocalType
    <3>4. LocalType'
      BY <1>5, <1>l, <3>2, <3>3 DEF LocalType, LookUpParentHead
    <3> QED
      BY <1>5, <3>4, <1>s, <1>v DEF LookUpParentHead
  <2>2. CASE Parent(block[t]) \notin DOMAIN headToLength
    BY <1>5, <2>2, <1>s, <1>v, <1>l, GotoType DEF LookUpParentHead
  <2> QED
    BY <2>1, <2>2
<1>6. CASE ReplaceParentHead(t)
  <2>1. block[t] \in Block
    BY <1>6, BusyBlock DEF ReplaceParentHead
  <2>2. LocalType'
    BY <1>6, <1>l, GotoType DEF ReplaceParentHead
  <2>3. /\ DOMAIN headToLength' \subseteq Block \cup {Genesis}
        /\ \A h \in DOMAIN headToLength' : headToLength'[h] \in Nat
    BY <1>0, <1>6, <2>1, ReplaceHeadType DEF ReplaceParentHead
  <2> QED
    BY <1>6, <2>2, <2>3 DEF ReplaceParentHead, StoreType, NamesType
<1>7. CASE StartNewFork(t)
  <2>1. block[t] \in Block
    BY <1>7, BusyBlock DEF StartNewFork
  <2>2. LocalType'
    BY <1>7, ReturnType DEF StartNewFork
  <2>3. GetChainLength(Parent(block[t])) + 1 \in Nat
    BY <2>1, NewForkLength
  <2> QED
    BY <1>7, <2>1, <2>2, <2>3 DEF StartNewFork, StoreType, NamesType
<1>8. CASE LookUpMain(t)
  BY <1>8, <1>s, <1>v, <1>l, GotoType DEF LookUpMain
<1>9. CASE SetMain(t)
  <2>1. LocalType'
    BY <1>9, <1>l, GotoType DEF SetMain
  <2> QED
    BY <1>0, <1>9, <2>1 DEF SetMain, StoreType, NamesType
<1>10. CASE AddNames(t)
  <2>1. block[t] \in Block
    BY <1>10, BusyBlock DEF AddNames
  <2>2. LocalType'
    BY <1>10, ReturnType DEF AddNames
  <2>3. NamesType(names')
    BY <1>10, <2>1, AddTransactionsType DEF AddNames, StoreType
  <2> QED
    BY <1>10, <2>2, <2>3 DEF AddNames, StoreType, NamesType
<1>11. CASE CompareWithMain(t)
  BY <1>11, <1>s, <1>v, <1>l, GotoType, ReturnType DEF CompareWithMain
<1>12. CASE FindIntersection(t)
  <2> DEFINE meet == Intersection(blockchain, longestHead, block[t])
  <2>1. block[t] \in Seq(Payload) /\ longestHead \in Seq(Payload) /\ pc[t] # "idle"
    BY <1>0, <1>12, EmptySeq DEF Block, Genesis, FindIntersection
  <2>2. meet \in Block \cup {Genesis}
    <3>1. meet = Genesis \/ meet \in Branch(blockchain, block[t])
      BY <2>1, MeetIsOnFork DEF StoreType
    <3>2. Branch(blockchain, block[t]) \subseteq Block
      BY <2>1, BranchType DEF StoreType
    <3> QED
      BY <3>1, <3>2
  <2> HIDE DEF meet
  <2>3. /\ from' = [from EXCEPT ![t] = meet] /\ pc' = [pc EXCEPT ![t] = "rewind"]
        /\ UNCHANGED <<block, length>> /\ UNCHANGED vars
    BY <1>12 DEF FindIntersection, meet
  <2>4. LocalType'
    BY <1>l, <2>1, <2>2, <2>3 DEF LocalType
  <2> QED
    BY <2>3, <2>4, <1>s, <1>v
<1>13. CASE Rewind(t)
  <2>1. block[t] \in Block
    BY <1>13, BusyBlock DEF Rewind
  <2>2. LocalType'
    BY <1>13, <1>l, GotoType DEF Rewind
  <2>3. NamesType(names')
    BY <1>13, <2>1, RewindType
  <2> QED
    BY <1>13, <2>2, <2>3 DEF Rewind, StoreType, NamesType
<1>14. CASE SwitchMain(t)
  <2>1. LocalType'
    BY <1>14, ReturnType DEF SwitchMain
  <2> QED
    BY <1>0, <1>14, <2>1 DEF SwitchMain, StoreType, NamesType
<1> QED
  BY <1>1, <1>2, <1>3, <1>4, <1>5, <1>6, <1>7, <1>8, <1>9, <1>10, <1>11, <1>12,
     <1>13, <1>14 DEF Section

\* The block the miner has mined, and one that the listener is given, are blocks.
LEMMA ReceivedBlock ==
    ASSUME StoreType, NEW p \in blockchain \cup Roots, NEW x \in Payloads
    PROVE  Append(p, x) \in Block /\ Parent(Append(p, x)) = p
<1>1. p \in Seq(Payload) /\ x \in Payload
  BY RootsAssumption, PayloadsAssumption DEF StoreType, Block
<1> QED
  BY <1>1, AppendIsBlock

MinedBlock(nonce) == Append(mining.parent, [nonce |-> nonce, txs |-> mining.txs])

\* The block the miner has mined is one, on the head it took before.
LEMMA MinedBlockType ==
    ASSUME RestType, NEW nonce \in Nonces
    PROVE  MinedBlock(nonce) \in Block /\ Parent(MinedBlock(nonce)) = mining.parent
<1> DEFINE x == [nonce |-> nonce, txs |-> mining.txs]
<1>1. mining.parent \in Block \cup {Genesis} /\ mining.txs \in Seq(Txs)
  BY DEF RestType
<1>2. mining.parent \in Seq(Payload)
  BY <1>1, EmptySeq DEF Block, Genesis
<1>3. x \in Payload
  BY <1>1 DEF Payload
<1> QED
  BY <1>2, <1>3, AppendIsBlock DEF MinedBlock

\* Every step keeps the types.
LEMMA ThreadTypeStep ==
    ASSUME ThreadType, [ThreadNext]_threadVars
    PROVE  ThreadType'
<1>0. StoreType /\ LocalType /\ RestType
  BY ThreadTypeParts
<1>t. "listener" \in Threads /\ "miner" \in Threads
  BY DEF Threads
<1>s. UNCHANGED storeVars => StoreType'
  BY <1>0 DEF storeVars, StoreType, NamesType
<1>l. UNCHANGED local => LocalType'
  BY <1>0 DEF local, LocalType
<1>1. ASSUME NEW p \in blockchain \cup Roots, NEW x \in Payloads, Receive(Append(p, x))
      PROVE  StoreType' /\ LocalType' /\ RestType'
  <2>1. Append(p, x) \in Block
    BY <1>0, ReceivedBlock
  <2>2. LocalType'
    BY <1>0, <1>1, <1>t, <2>1, CallType DEF Receive
  <2>3. UNCHANGED storeVars /\ RestType'
    BY <1>0, <1>1 DEF Receive, vars, storeVars, RestType
  <2> QED
    BY <1>s, <2>2, <2>3
<1>2. ASSUME NEW txs \in Pools, TakeParent(txs)
      PROVE  StoreType' /\ LocalType' /\ RestType'
  <2>1. txs \in Seq(Txs) /\ longestHead \in Block \cup {Genesis}
    BY <1>0, PoolsAssumption DEF StoreType
  <2>2. RestType'
    BY <1>0, <1>2, <2>1 DEF TakeParent, RestType
  <2> QED
    BY <1>2, <1>s, <1>l, <2>2 DEF TakeParent
<1>3. ASSUME NEW nonce \in Nonces, Mined(nonce)
      PROVE  StoreType' /\ LocalType' /\ RestType'
  <2>1. MinedBlock(nonce) \in Block
    BY <1>0, MinedBlockType
  <2>2. Call("miner", MinedBlock(nonce)) \/ UNCHANGED local
    BY <1>3 DEF Mined, MinedBlock
  <2>3. LocalType'
    BY <1>0, <1>t, <1>l, <2>1, <2>2, CallType
  <2>4. <<>> \in Seq(Txs)
    BY EmptySeq
  <2>5. mining' = Idle /\ UNCHANGED <<storeVars, pendingTx>>
    BY <1>3 DEF Mined
  <2>6. RestType'
    BY <1>0, <2>4, <2>5 DEF RestType, Idle
  <2> QED
    BY <1>s, <2>3, <2>5, <2>6
<1>4. ASSUME NEW t \in Threads, Section(t)
      PROVE  StoreType' /\ LocalType' /\ RestType'
  <2>1. UNCHANGED <<pendingTx, mining>>
    BY <1>4 DEF Section, FindBlock, FindParent, StoreFirst, Insert, LookUpParentHead,
         ReplaceParentHead, StartNewFork, LookUpMain, SetMain, AddNames,
         CompareWithMain, FindIntersection, Rewind, SwitchMain, vars
  <2> QED
    BY <1>0, <1>4, <2>1, SectionType DEF RestType
<1>5. ASSUME UNCHANGED threadVars
      PROVE  StoreType' /\ LocalType' /\ RestType'
  BY <1>0, <1>5, <1>s, <1>l DEF threadVars, vars, storeVars, RestType
<1>6. StoreType' /\ LocalType' /\ RestType'
  BY <1>1, <1>2, <1>3, <1>4, <1>5 DEF ThreadNext
<1> QED
  BY <1>6 DEF ThreadType, ThreadTypeOK, TypeOK, StoreType, LocalType, RestType, NamesType

\* The types hold at the start.
LEMMA ThreadInitType == ThreadInit => ThreadType
<1> SUFFICES ASSUME ThreadInit
             PROVE  ThreadType
  OBVIOUS
<1>1. TypeInv
  BY InitType DEF ThreadInit
<1>2. LocalType
  BY DEF ThreadInit, LocalType, Labels
<1> QED
  BY <1>1, <1>2 DEF ThreadType, ThreadTypeOK, LocalType, TypeInv

\* The types hold always.
LEMMA ThreadTypeHolds == ThreadSpec => []ThreadType
BY ThreadInitType, ThreadTypeStep, PTL DEF ThreadSpec

\* Every variable of the store and of the two threads keeps its type.
THEOREM ThreadsTypeCorrect == ThreadSpec => []ThreadTypeOK
<1>1. ThreadType => ThreadTypeOK
  BY DEF ThreadType
<1> QED
  BY <1>1, ThreadTypeHolds, PTL

-----------------------------------------------------------------------------
(* Two threads inside handleNewBlockArrival: the tree and its heads. *)

\* A thread whose block is stored, and whose handling is not over.
Working == {"isHead", "replace", "newFork", "isMain", "setMain", "mainLength",
            "intersect", "rewind", "switch"}
Unfinished == {block[t] : t \in {u \in Threads : pc[u] \in Working}}

\* The stored blocks that have been entered among the heads.
Pending == {"isHead", "replace", "newFork"}
Registered == blockchain \ {block[t] : t \in {u \in Threads : pc[u] \in Pending}}

\* What a thread knows of its block, whatever the other one does meanwhile.
Knows(t) ==
    /\ pc[t] \in {"findParent", "first", "insert"} => block[t] \notin blockchain
    /\ pc[t] \in Working \cup {"insert"} => Parent(block[t]) \in blockchain
    /\ pc[t] \in Working =>
          /\ block[t] \in blockchain
          /\ \A c \in blockchain : Parent(c) # block[t]
    /\ pc[t] = "newFork" => Parent(block[t]) \notin DOMAIN headToLength
    /\ pc[t] = "replace" => length[t] = Length(block[t])

\* The threads handle two blocks, neither of which is the other one's parent as
\* long as that parent's own handling is not over: no other node has the miner's
\* block, and the miner builds on main heads, which are finished.
Finished(b) == b \in (blockchain \cup {Genesis}) \ Unfinished
Apart ==
    /\ \A t, u \in Threads :
          t # u /\ block[t] # Genesis /\ block[u] # Genesis => block[t] # block[u]
    /\ block["listener"] # Genesis /\ block["miner"] # Genesis =>
          Parent(block["listener"]) # block["miner"]
    /\ Finished(longestHead)
    /\ mining.busy => Finished(mining.parent)
    /\ block["miner"] # Genesis => Finished(Parent(block["miner"]))

\* The heads are the ends of the chains of registered blocks.
RegisteredHeads ==
    Heads = {b \in Registered : \A c \in Registered : Parent(c) # b}

\* The main chain ends in a head, or in the parent of a block that has just
\* replaced that head and is about to take it over.
MainIsHead ==
    blockchain # {} =>
        \/ longestHead \in Heads
        \/ \E t \in Threads :
              pc[t] \in {"isMain", "setMain"} /\ Parent(block[t]) = longestHead

ThreadInv ==
    /\ \A t \in Threads : Knows(t)
    /\ Apart
    /\ Rooted
    /\ RegisteredHeads
    /\ HeadLengthsAreRight
    /\ MainIsHead

\* What a section does to the threads: only t moves, and keeps its block until
\* it returns.
Moves(t) ==
    /\ \A u \in Threads \ {t} :
          pc'[u] = pc[u] /\ block'[u] = block[u] /\ length'[u] = length[u]
    /\ pc'[t] # "idle" => block'[t] = block[t]

\* Going on to a section moves one thread,
LEMMA GotoMoves ==
    ASSUME LocalType, NEW t \in Threads, NEW l \in Labels, Goto(t, l)
    PROVE  Moves(t) /\ pc'[t] = l
BY DEF LocalType, Goto, Moves

\* and so does returning.
LEMMA ReturnMoves ==
    ASSUME LocalType, NEW t \in Threads, Return(t)
    PROVE  Moves(t) /\ pc'[t] = "idle"
BY DEF LocalType, Return, Moves

\* The blocks of the two threads differ, and one is not built on the other while
\* that one is unfinished.
LEMMA BlocksApart ==
    ASSUME LocalType, Apart, NEW t \in Threads, NEW u \in Threads, t # u,
           pc[t] # "idle", pc[u] # "idle"
    PROVE  block[t] # block[u] /\ (pc[u] \in Working => Parent(block[t]) # block[u])
<1>1. block[t] # Genesis /\ block[u] # Genesis
  BY DEF LocalType
<1>2. block[t] # block[u]
  BY <1>1 DEF Apart
<1>3. CASE t = "listener" /\ u = "miner"
  BY <1>1, <1>2, <1>3 DEF Apart
<1>4. CASE t = "miner" /\ u = "listener"
  <2>1. Finished(Parent(block[t]))
    BY <1>1, <1>4 DEF Apart
  <2>2. pc[u] \in Working => block[u] \in Unfinished
    BY DEF Unfinished
  <2> QED
    BY <1>2, <2>1, <2>2 DEF Finished
<1> QED
  BY <1>3, <1>4 DEF Threads

\* A section keeps the blocks apart if a thread becomes unfinished with a new
\* block only, and makes its block the main head only when it is finished.
LEMMA ApartStep ==
    ASSUME LocalType, LocalType', Apart, NEW t \in Threads, pc[t] # "idle", Moves(t),
           UNCHANGED mining, blockchain \subseteq blockchain',
           \/ longestHead' = longestHead
           \/ longestHead' = block[t] /\ block[t] \in blockchain' /\ pc'[t] \notin Working,
           pc'[t] \in Working => pc[t] \in Working \/ block[t] \notin blockchain
    PROVE  Apart'
<1>1. block[t] # Genesis
  BY DEF LocalType
<1>2. \A u \in Threads : block'[u] # Genesis => block'[u] = block[u] /\ block[u] # Genesis
  BY DEF Moves, LocalType
<1>3. \A u \in Threads : pc'[u] \in Working =>
         block'[u] = block[u] /\ (pc[u] \in Working \/ u = t)
  BY DEF Moves, Working
<1>4. ASSUME NEW b, Finished(b)
      PROVE  b \in (blockchain' \cup {Genesis}) \ Unfinished'
  <2>1. b \in blockchain' \cup {Genesis}
    BY <1>4 DEF Finished
  <2>2. ASSUME NEW u \in Threads, pc'[u] \in Working, b = block'[u]
        PROVE  FALSE
    <3>1. b = block[u] /\ pc[u] \notin Working
      BY <1>3, <1>4, <2>2 DEF Finished, Unfinished
    <3>2. u = t /\ block[t] \notin blockchain
      BY <1>3, <2>2, <3>1
    <3> QED
      BY <1>1, <1>4, <3>1, <3>2 DEF Finished
  <2> QED
    BY <2>1, <2>2 DEF Unfinished
<1>5. Finished(longestHead)'
  <2>1. CASE longestHead' = longestHead
    <3>1. Finished(longestHead)
      BY DEF Apart
    <3> QED
      BY <1>4, <2>1, <3>1 DEF Finished
  <2>2. CASE longestHead' = block[t] /\ block[t] \in blockchain' /\ pc'[t] \notin Working
    <3>1. ASSUME NEW u \in Threads, pc'[u] \in Working
          PROVE  block'[u] # block[t]
      <4>1. u # t /\ pc[u] # "idle" /\ block'[u] = block[u]
        BY <1>3, <2>2, <3>1 DEF Working
      <4> QED
        BY <4>1, BlocksApart
    <3> QED
      BY <2>2, <3>1 DEF Finished, Unfinished
  <2> QED
    BY <2>1, <2>2
<1>6. mining'.busy => Finished(mining.parent)'
  BY <1>4 DEF Apart, Finished
<1>7. block'["miner"] # Genesis => Finished(Parent(block["miner"]))'
  <2>1. "miner" \in Threads
    BY DEF Threads
  <2>2. ASSUME block'["miner"] # Genesis
        PROVE  block'["miner"] = block["miner"] /\ Finished(Parent(block["miner"]))
    BY <1>2, <2>1, <2>2 DEF Apart
  <2> QED
    BY <1>4, <2>2 DEF Finished
<1>8. "miner" \in Threads /\ "listener" \in Threads
  BY DEF Threads
<1> QED
  BY <1>2, <1>5, <1>6, <1>7, <1>8 DEF Apart

\* The other thread's knowledge outlives a section.
LEMMA KnowsStep ==
    ASSUME StoreType, LocalType, Apart, Rooted, NEW t \in Threads, pc[t] # "idle",
           Moves(t), NEW u \in Threads, u # t, Knows(u),
           blockchain' = blockchain \/ NewBlock(block[t]),
           \/ DOMAIN headToLength' \subseteq DOMAIN headToLength
           \/ /\ DOMAIN headToLength' \subseteq DOMAIN headToLength \cup {block[t]}
              /\ pc[t] \in Working \/ blockchain = {}
    PROVE  Knows(u)'
<1>1. pc'[u] = pc[u] /\ block'[u] = block[u] /\ length'[u] = length[u]
  BY DEF Moves
<1>2. pc[u] # "idle" => block[t] # block[u]
  BY BlocksApart
<1>3. pc[u] \in Working => Parent(block[t]) # block[u]
  BY BlocksApart DEF Working
<1>4. blockchain \subseteq blockchain' /\ blockchain' \subseteq blockchain \cup {block[t]}
  BY DEF NewBlock
<1>5. pc[u] = "newFork" => Parent(block[u]) \notin DOMAIN headToLength'
  <2>1. pc[u] = "newFork" => blockchain # {}
    BY DEF Knows, Working
  <2>2. pc[t] \in Working /\ pc[u] = "newFork" => Parent(block[u]) # block[t]
    BY BlocksApart
  <2> QED
    BY <2>1, <2>2 DEF Knows
<1>6. pc[u] = "replace" => Length(block[u])' = Length(block[u])
  <2>1. pc[u] = "replace" => block[u] \in blockchain
    BY DEF Knows, Working
  <2>2. block[t] \in Block
    BY BusyBlock
  <2>3. NewBlock(block[t]) /\ block[u] \in blockchain => Length(block[u])' = Length(block[u])
    <3> SUFFICES ASSUME NewBlock(block[t]), block[u] \in blockchain
                 PROVE  Length(block[u])' = Length(block[u])
      OBVIOUS
    <3>1. \A c \in blockchain : Length(c)' = Length(c)
      BY <2>2, LengthOfChild
    <3>2. Length(block[u])' = Cardinality(Branch(blockchain', block[u]))
      BY <1>1 DEF Length
    <3>3. \A c \in blockchain :
             Cardinality(Branch(blockchain', c)) = Cardinality(Branch(blockchain, c))
      BY <3>1 DEF Length
    <3> QED
      BY <3>2, <3>3 DEF Length
  <2>4. blockchain' = blockchain => Length(block[u])' = Length(block[u])
    BY <1>1 DEF Length
  <2> QED
    BY <2>1, <2>3, <2>4
<1>7. pc[u] \in {"findParent", "first", "insert"} => block[u] \notin blockchain'
  BY <1>2, <1>4 DEF Knows
<1>8. pc[u] \in Working => \A c \in blockchain' : Parent(c) # block[u]
  BY <1>3, <1>4 DEF Knows
<1> QED
  BY <1>1, <1>4, <1>5, <1>6, <1>7, <1>8 DEF Knows

\* A section that leaves the store's tree alone.
LEMMA QuietStep ==
    ASSUME StoreType, LocalType, LocalType', ThreadInv, NEW t \in Threads,
           pc[t] # "idle", Moves(t), UNCHANGED <<blockchain, headToLength, longestHead, mining>>,
           pc'[t] \in Working => pc[t] \in Working,
           pc'[t] \in Pending <=> pc[t] \in Pending,
           pc[t] \in {"isMain", "setMain"} =>
              pc'[t] = "setMain" \/ Parent(block[t]) # longestHead,
           Knows(t)'
    PROVE  ThreadInv'
<1>1. \A u \in Threads : Knows(u)'
  <2>1. ASSUME NEW u \in Threads, u # t
        PROVE  Knows(u)'
    BY <2>1, KnowsStep DEF ThreadInv
  <2> QED
    BY <2>1
<1>2. Apart'
  BY ApartStep DEF ThreadInv
<1>3. Registered' = Registered
  <2>1. \A u \in Threads : pc'[u] \in Pending <=> pc[u] \in Pending
    BY DEF Moves
  <2>2. \A u \in Threads : pc'[u] \in Pending => block'[u] = block[u]
    BY DEF Moves, Pending
  <2> QED
    BY <2>1, <2>2 DEF Registered
<1>4. Rooted' /\ RegisteredHeads' /\ HeadLengthsAreRight'
  BY <1>3 DEF ThreadInv, Rooted, RegisteredHeads, Heads, HeadLengthsAreRight
<1>5. MainIsHead'
  <2> SUFFICES ASSUME blockchain # {}, longestHead \notin Heads
               PROVE  \E u \in Threads :
                         pc'[u] \in {"isMain", "setMain"} /\ Parent(block'[u]) = longestHead
    BY DEF MainIsHead, Heads
  <2>1. PICK u \in Threads : pc[u] \in {"isMain", "setMain"} /\ Parent(block[u]) = longestHead
    BY DEF ThreadInv, MainIsHead
  <2> QED
    BY <2>1 DEF Moves
<1> QED
  BY <1>1, <1>2, <1>4, <1>5 DEF ThreadInv

\* A stored block on a stored parent is one higher than it.
LEMMA LengthOfStored ==
    ASSUME StoreType, NEW b \in blockchain, Parent(b) \in blockchain
    PROVE  Length(b) = Length(Parent(b)) + 1
<1> DEFINE p == Parent(b)
<1>1. b \in Block /\ p \in Seq(Payload) /\ Len(b) \in Nat /\ Len(p) = Len(b) - 1
  BY ParentType DEF StoreType
<1>2. Branch(blockchain, b) = Branch(blockchain, p) \cup {b}
  BY <1>1, BranchOfChild
<1>3. b \notin Branch(blockchain, p)
  <2> SUFFICES ASSUME NEW k \in 1 .. Len(p), b = SubSeq(p, 1, k)
               PROVE  FALSE
    BY DEF Branch
  <2> HIDE DEF p
  <2>1. k \in 0 .. Len(p)
    OBVIOUS
  <2>2. Len(b) = k
    BY <1>1, <2>1, Beginning
  <2> QED
    BY <1>1, <2>2
<1>4. IsFiniteSet(Branch(blockchain, p))
  BY <1>1, BranchFinite DEF StoreType
<1>5. Cardinality(Branch(blockchain, p) \cup {b}) = Cardinality(Branch(blockchain, p)) + 1
  BY <1>3, <1>4, FS_AddElement
<1> QED
  BY <1>2, <1>5 DEF Length

\* The ends of the chains of a set of blocks, and what one more block does to them.
Ends(B) == {b \in B : \A c \in B : Parent(c) # b}

\* A block without a successor takes the place of its parent among the ends.
LEMMA EndsWithOneMore ==
    ASSUME NEW B, NEW b, b \notin B, \A c \in B \cup {b} : Parent(c) # b
    PROVE  Ends(B \cup {b}) = (Ends(B) \ {Parent(b)}) \cup {b}
BY DEF Ends

\* A store that has just had its first block.
LEMMA StoreFirstStep ==
    ASSUME StoreType, LocalType, StoreType', LocalType', ThreadInv,
           NEW t \in Threads, StoreFirst(t)
    PROVE  ThreadInv'
<1> DEFINE b == block[t]
<1>0. pc[t] = "first" /\ Moves(t) /\ pc'[t] = "idle" /\ UNCHANGED mining /\ b \in Block
  BY ReturnMoves, BusyBlock DEF StoreFirst, At
<1>1. CASE blockchain # {}
  <2>1. UNCHANGED <<blockchain, headToLength, longestHead>>
    BY <1>1 DEF StoreFirst, StoreIsEmpty, storeVars
  <2>2. Knows(t)'
    BY <1>0 DEF Knows, Working
  <2> QED
    BY <1>0, <2>1, <2>2, QuietStep DEF Working, Pending
<1>2. CASE blockchain = {}
  <2>1. /\ blockchain' = {b}
        /\ longestHead' = b
        /\ headToLength' = [h \in DOMAIN headToLength \cup {b} |->
                               IF h = b THEN 1 ELSE headToLength[h]]
    BY <1>2 DEF StoreFirst, StoreIsEmpty
  <2>2. NewBlock(b)
    BY <1>2, <2>1 DEF NewBlock
  <2>3. \A u \in Threads : pc[u] \notin Working
    BY <1>2 DEF ThreadInv, Knows
  <2>4. \A u \in Threads : pc'[u] \notin Working
    BY <1>0, <2>3 DEF Moves, Working
  <2>5. \A u \in Threads : Knows(u)'
    <3>1. Knows(t)'
      BY <1>0 DEF Knows, Working
    <3>2. ASSUME NEW u \in Threads, u # t
          PROVE  Knows(u)'
      BY <1>0, <1>2, <2>1, <2>2, <3>2, KnowsStep DEF ThreadInv
    <3> QED
      BY <3>1, <3>2
  <2>6. Apart'
    BY <1>0, <2>1, <2>4, <1>2, ApartStep DEF ThreadInv
  <2>7. Rooted'
    BY <1>0, <2>2, RootedStep DEF ThreadInv, StoreType
  <2>8. Registered' = {b}
    BY <2>1, <2>4 DEF Registered, Pending, Working
  <2>9. Heads = {}
    BY <1>2 DEF ThreadInv, RegisteredHeads, Registered
  <2>10. Heads' = {b}
    BY <1>0, <2>1, <2>9 DEF Heads, Block, Genesis
  <2>11. RegisteredHeads'
    <3>1. Parent(b) # b
      BY <1>0, ParentType
    <3> QED
      BY <2>8, <2>10, <3>1 DEF RegisteredHeads
  <2>12. HeadLengthsAreRight'
    <3>1. Cardinality(Branch(blockchain', b)) = 1
      BY <1>0, <1>2, <2>2, LengthOfChild DEF ThreadInv, Length
    <3> QED
      BY <2>1, <2>10, <3>1 DEF HeadLengthsAreRight, Heads
  <2>13. MainIsHead'
    BY <2>1, <2>10 DEF MainIsHead
  <2> QED
    BY <2>5, <2>6, <2>7, <2>11, <2>12, <2>13 DEF ThreadInv
<1> QED
  BY <1>1, <1>2

\* A block is stored, but not registered yet.
LEMMA InsertStep ==
    ASSUME StoreType, LocalType, StoreType', LocalType', ThreadInv,
           NEW t \in Threads, Insert(t)
    PROVE  ThreadInv'
<1> DEFINE b == block[t]
<1>0. /\ pc[t] = "insert" /\ Moves(t) /\ pc'[t] = "isHead" /\ b \in Block
      /\ UNCHANGED <<headToLength, longestHead, mining>>
      /\ blockchain' = blockchain \cup {b} /\ block'[t] = b
  <2>1. "isHead" \in Labels
    BY DEF Labels
  <2>2. pc[t] = "insert" /\ Goto(t, "isHead")
    BY DEF Insert, At
  <2>3. Moves(t) /\ pc'[t] = "isHead" /\ b \in Block
    BY <2>1, <2>2, GotoMoves, BusyBlock
  <2> QED
    BY <2>2, <2>3 DEF Insert, Moves
<1>1. b \notin blockchain /\ Parent(b) \in blockchain
  BY <1>0 DEF ThreadInv, Knows
<1>2. NewBlock(b)
  BY <1>0, <1>1 DEF NewBlock
<1>3. \A c \in blockchain \cup {b} : Parent(c) # b
  BY <1>0, <1>2, NewHasNoChild DEF ThreadInv, StoreType
<1>4. \A u \in Threads : Knows(u)'
  <2>1. Knows(t)'
    BY <1>0, <1>1, <1>3 DEF Knows
  <2>2. ASSUME NEW u \in Threads, u # t
        PROVE  Knows(u)'
    BY <1>0, <1>2, <2>2, KnowsStep DEF ThreadInv
  <2> QED
    BY <2>1, <2>2
<1>5. Apart'
  BY <1>0, <1>1, ApartStep DEF ThreadInv
<1>6. Rooted'
  BY <1>0, <1>2, RootedStep DEF ThreadInv, StoreType
<1>7. Registered' = Registered
  <2>1. \A u \in Threads : u # t => pc'[u] = pc[u] /\ block'[u] = block[u]
    BY <1>0 DEF Moves
  <2>2. pc[t] \notin Pending /\ pc'[t] \in Pending
    BY <1>0 DEF Pending
  <2>3. {block'[u] : u \in {v \in Threads : pc'[v] \in Pending}} =
           {block[u] : u \in {v \in Threads : pc[v] \in Pending}} \cup {b}
    BY <1>0, <2>1, <2>2
  <2> QED
    BY <1>0, <1>1, <2>3 DEF Registered
<1>8. Heads' = Heads /\ Heads \subseteq blockchain
  BY <1>0 DEF Heads, ThreadInv, RegisteredHeads, Registered
<1>9. RegisteredHeads'
  BY <1>7, <1>8 DEF RegisteredHeads, ThreadInv
<1>10. HeadLengthsAreRight'
  <2>1. \A c \in blockchain : Length(c)' = Length(c)
    BY <1>0, <1>2, LengthOfChild DEF ThreadInv
  <2>2. \A c \in blockchain :
           Cardinality(Branch(blockchain', c)) = Cardinality(Branch(blockchain, c))
    BY <2>1 DEF Length
  <2> QED
    BY <1>0, <1>8, <2>2 DEF HeadLengthsAreRight, ThreadInv, Heads
<1>11. MainIsHead'
  <2>1. blockchain # {}
    BY <1>1
  <2>2. CASE longestHead \in Heads
    BY <1>0, <1>8, <2>2 DEF MainIsHead
  <2>3. CASE longestHead \notin Heads
    <3>1. PICK u \in Threads : pc[u] \in {"isMain", "setMain"} /\ Parent(block[u]) = longestHead
      BY <2>1, <2>3 DEF ThreadInv, MainIsHead
    <3>2. pc'[u] = pc[u] /\ block'[u] = block[u]
      BY <1>0, <3>1 DEF Moves
    <3> QED
      BY <1>0, <3>1, <3>2 DEF MainIsHead
  <2> QED
    BY <2>2, <2>3
<1> QED
  BY <1>4, <1>5, <1>6, <1>9, <1>10, <1>11 DEF ThreadInv

\* A stored block is registered: its parent is no head any more.
LEMMA RegisterStep ==
    ASSUME StoreType, LocalType, StoreType', LocalType', ThreadInv, NEW t \in Threads,
           pc[t] \in {"replace", "newFork"}, Moves(t), pc'[t] \in {"isMain", "idle"},
           UNCHANGED <<blockchain, longestHead, mining>>,
           DOMAIN headToLength' = (DOMAIN headToLength \ {Parent(block[t])}) \cup {block[t]},
           pc[t] = "newFork" => pc'[t] = "idle",
           pc[t] = "replace" => pc'[t] = "isMain",
           headToLength'[block[t]] = Length(block[t]),
           \A h \in DOMAIN headToLength' \ {block[t]} : headToLength'[h] = headToLength[h]
    PROVE  ThreadInv'
<1> DEFINE b == block[t]
<1>0. /\ pc[t] \in Working /\ pc[t] \in Pending /\ pc'[t] \notin Pending /\ pc[t] # "idle"
      /\ b \in Block /\ b \in blockchain /\ Parent(b) \in blockchain
      /\ \A c \in blockchain : Parent(c) # b
  <2>1. pc[t] \in Working /\ pc[t] \in Pending /\ pc'[t] \notin Pending /\ pc[t] # "idle"
    BY DEF Working, Pending
  <2> QED
    BY <2>1, BusyBlock DEF ThreadInv, Knows
<1>1. b # Genesis /\ Parent(b) # Genesis
  BY <1>0 DEF StoreType, Block, Genesis
<1>2. Heads' = (Heads \ {Parent(b)}) \cup {b}
  BY <1>1 DEF Heads
<1>3. \A u \in Threads : u # t => pc'[u] = pc[u] /\ block'[u] = block[u]
  BY DEF Moves
<1>4. Registered' = Registered \cup {b} /\ b \notin Registered
  <2>1. \A u \in Threads : u # t /\ pc[u] \in Pending => block[u] # b
    BY <1>0, BlocksApart DEF ThreadInv, Pending
  <2> DEFINE P == {block[u] : u \in {v \in Threads : pc[v] \in Pending}}
             Q == {block'[u] : u \in {v \in Threads : pc'[v] \in Pending}}
  <2>2. P = Q \cup {b} /\ b \notin Q
    BY <1>0, <1>3, <2>1
  <2>3. Registered = blockchain \ P /\ Registered' = blockchain \ Q
    BY DEF Registered
  <2> HIDE DEF P, Q
  <2> QED
    BY <1>0, <2>2, <2>3
<1>5. RegisteredHeads'
  <2>1. Heads = Ends(Registered)
    BY DEF ThreadInv, RegisteredHeads, Ends
  <2>2. Registered \subseteq blockchain
    BY DEF Registered
  <2>3. Ends(Registered \cup {b}) = (Ends(Registered) \ {Parent(b)}) \cup {b}
    BY <1>0, <1>4, <2>2, EndsWithOneMore
  <2>4. Heads' = Ends(Registered')
    BY <1>2, <1>4, <2>1, <2>3
  <2> QED
    BY <2>4 DEF RegisteredHeads, Ends
<1>6. \A u \in Threads : Knows(u)'
  <2>1. Knows(t)'
    <3>1. pc'[t] = "isMain" => block'[t] = b
      BY DEF Moves
    <3> QED
      BY <1>0, <3>1 DEF Knows, Working
  <2>2. ASSUME NEW u \in Threads, u # t
        PROVE  Knows(u)'
    BY <1>0, <2>2, KnowsStep DEF ThreadInv
  <2> QED
    BY <2>1, <2>2
<1>7. Apart'
  BY <1>0, ApartStep DEF ThreadInv
<1>8. Rooted'
  BY DEF ThreadInv, Rooted
<1>9. HeadLengthsAreRight'
  <2>1. \A h \in Heads : headToLength[h] = Cardinality(Branch(blockchain, h))
    BY DEF ThreadInv, HeadLengthsAreRight, Heads
  <2>2. headToLength'[b] = Cardinality(Branch(blockchain, b))
    BY DEF Length
  <2>3. \A h \in Heads' : headToLength'[h] = Cardinality(Branch(blockchain, h))
    <3> SUFFICES ASSUME NEW h \in Heads', h # b
                 PROVE  headToLength'[h] = Cardinality(Branch(blockchain, h))
      BY <2>2
    <3>1. h \in Heads /\ h \in DOMAIN headToLength' \ {b}
      BY <1>2 DEF Heads
    <3> QED
      BY <2>1, <3>1
  <2> QED
    BY <2>3 DEF HeadLengthsAreRight, Heads
<1>10. MainIsHead'
  <2>1. CASE longestHead = Parent(b) /\ pc[t] = "replace"
    <3>1. pc'[t] = "isMain" /\ block'[t] = b
      BY <2>1 DEF Moves
    <3> QED
      BY <2>1, <3>1 DEF MainIsHead
  <2>2. CASE longestHead \in Heads /\ ~(longestHead = Parent(b) /\ pc[t] = "replace")
    <3>1. pc[t] = "newFork" => Parent(b) \notin Heads
      BY DEF ThreadInv, Knows, Heads
    <3> QED
      BY <1>2, <2>2, <3>1 DEF MainIsHead
  <2>3. CASE longestHead \notin Heads
    <3>1. PICK u \in Threads : pc[u] \in {"isMain", "setMain"} /\ Parent(block[u]) = longestHead
      BY <1>0, <2>3 DEF ThreadInv, MainIsHead
    <3>2. pc'[u] = pc[u] /\ block'[u] = block[u]
      BY <1>3, <3>1
    <3> QED
      BY <3>1, <3>2 DEF MainIsHead
  <2> QED
    BY <2>1, <2>2, <2>3
<1> QED
  BY <1>5, <1>6, <1>7, <1>8, <1>9, <1>10 DEF ThreadInv

\* A block takes the place of its parent among the heads.
LEMMA ReplaceStep ==
    ASSUME StoreType, LocalType, StoreType', LocalType', ThreadInv, NEW t \in Threads,
           ReplaceParentHead(t)
    PROVE  ThreadInv'
<1> DEFINE b == block[t]
<1>1. pc[t] = "replace" /\ Moves(t) /\ pc'[t] = "isMain"
  <2>1. "isMain" \in Labels
    BY DEF Labels
  <2> QED
    BY <2>1, GotoMoves DEF ReplaceParentHead, At
<1>2. /\ DOMAIN headToLength' = (DOMAIN headToLength \ {Parent(b)}) \cup {b}
      /\ headToLength'[b] = length[t]
      /\ \A h \in DOMAIN headToLength' \ {b} : headToLength'[h] = headToLength[h]
  BY DEF ReplaceParentHead, ReplaceHead
<1>3. length[t] = Length(b)
  BY <1>1 DEF ThreadInv, Knows
<1> QED
  BY <1>1, <1>2, <1>3, RegisterStep DEF ReplaceParentHead

\* A block on a parent that was no head starts a fork.
LEMMA NewForkStep ==
    ASSUME StoreType, LocalType, StoreType', LocalType', ThreadInv, NEW t \in Threads,
           StartNewFork(t)
    PROVE  ThreadInv'
<1> DEFINE b == block[t]
<1>1. pc[t] = "newFork" /\ Moves(t) /\ pc'[t] = "idle"
  BY ReturnMoves DEF StartNewFork, At
<1>2. b \in blockchain /\ Parent(b) \in blockchain /\ Parent(b) \notin DOMAIN headToLength
  BY <1>1 DEF ThreadInv, Knows, Working
<1>3. GetChainLength(Parent(b)) + 1 = Length(b)
  BY <1>2, LengthOfStored DEF GetChainLength, Length
<1>4. /\ DOMAIN headToLength' = (DOMAIN headToLength \ {Parent(b)}) \cup {b}
      /\ headToLength'[b] = Length(b)
      /\ \A h \in DOMAIN headToLength' \ {b} : headToLength'[h] = headToLength[h]
  BY <1>2, <1>3 DEF StartNewFork
<1> QED
  BY <1>1, <1>4, RegisterStep DEF StartNewFork

\* The main chain goes over to the thread's block, which is a head: it has been
\* registered, and no block is built on it before its handling is over.
LEMMA NewMainStep ==
    ASSUME StoreType, LocalType, StoreType', LocalType', ThreadInv, NEW t \in Threads,
           pc[t] \in {"setMain", "switch"}, pc'[t] \in {"addNames", "idle"}, Moves(t),
           longestHead' = block[t], UNCHANGED <<blockchain, headToLength, mining>>
    PROVE  ThreadInv'
<1> DEFINE b == block[t]
<1>0. /\ pc[t] \in Working /\ pc[t] \notin Pending /\ pc'[t] \notin Working
      /\ pc'[t] \notin Pending /\ pc[t] # "idle"
  BY DEF Working, Pending
<1>1. b \in blockchain /\ \A c \in blockchain : Parent(c) # b
  BY <1>0 DEF ThreadInv, Knows
<1>2. b \in Heads
  <2>1. \A u \in Threads : pc[u] \in Pending => block[u] # b
    BY <1>0, BlocksApart DEF ThreadInv, Pending
  <2>2. b \in Registered
    BY <1>1, <2>1 DEF Registered
  <2> QED
    BY <1>1, <2>2 DEF ThreadInv, RegisteredHeads, Registered
<1>3. \A u \in Threads : Knows(u)'
  <2>1. Knows(t)'
    BY <1>0 DEF Knows
  <2>2. ASSUME NEW u \in Threads, u # t
        PROVE  Knows(u)'
    BY <1>0, <2>2, KnowsStep DEF ThreadInv
  <2> QED
    BY <2>1, <2>2
<1>4. Apart'
  BY <1>0, <1>1, ApartStep DEF ThreadInv
<1>5. Registered' = Registered
  <2>1. \A u \in Threads : pc'[u] \in Pending <=> pc[u] \in Pending
    BY <1>0 DEF Moves
  <2>2. \A u \in Threads : pc'[u] \in Pending => block'[u] = block[u]
    BY DEF Moves, Pending
  <2> QED
    BY <2>1, <2>2 DEF Registered
<1>6. Rooted' /\ RegisteredHeads' /\ HeadLengthsAreRight'
  BY <1>5 DEF ThreadInv, Rooted, RegisteredHeads, Heads, HeadLengthsAreRight
<1>7. MainIsHead'
  BY <1>2 DEF MainIsHead, Heads
<1> QED
  BY <1>3, <1>4, <1>6, <1>7 DEF ThreadInv

\* Every section keeps the invariant.
LEMMA SectionStep ==
    ASSUME StoreType, LocalType, StoreType', LocalType', ThreadInv, NEW t \in Threads,
           Section(t)
    PROVE  ThreadInv'
<1> USE DEF At
<1>l. {"find", "findParent", "first", "insert", "isHead", "replace", "isMain", "setMain",
       "addNames", "mainLength", "intersect", "rewind", "switch", "newFork"} \subseteq Labels
  BY DEF Labels
<1>w. Knows(t) /\ block[t] \in Block \cup {Genesis}
  BY DEF ThreadInv, LocalType
<1>1. CASE FindBlock(t)
  <2>1. /\ pc[t] = "find" /\ UNCHANGED vars
        /\ Return(t) \/ (Goto(t, "findParent") /\ block[t] \notin blockchain)
    BY <1>1 DEF FindBlock
  <2>2. /\ Moves(t)
        /\ pc'[t] = "idle" \/ (pc'[t] = "findParent" /\ block[t] \notin blockchain)
    BY <1>l, <2>1, GotoMoves, ReturnMoves
  <2>3. Knows(t)'
    BY <2>1, <2>2 DEF Knows, Working, Moves, vars
  <2> QED
    BY <2>1, <2>2, <2>3, QuietStep DEF Working, Pending, vars
<1>2. CASE FindParent(t)
  <2>1. pc[t] = "findParent" /\ UNCHANGED vars
        /\ \/ Goto(t, "insert") /\ Parent(block[t]) \in blockchain
           \/ Goto(t, "first")
    BY <1>2 DEF FindParent
  <2>2. Moves(t) /\ \/ pc'[t] = "insert" /\ Parent(block[t]) \in blockchain
                    \/ pc'[t] = "first"
    BY <1>l, <2>1, GotoMoves
  <2>3. Knows(t)'
    BY <1>w, <2>1, <2>2 DEF Knows, Working, Moves, vars
  <2> QED
    BY <2>1, <2>2, <2>3, QuietStep DEF Working, Pending, vars
<1>3. CASE StoreFirst(t)
  BY <1>3, StoreFirstStep
<1>4. CASE Insert(t)
  BY <1>4, InsertStep
<1>5. CASE LookUpParentHead(t)
  <2>0. pc[t] = "isHead" /\ UNCHANGED vars
    BY <1>5 DEF LookUpParentHead
  <2>1. CASE Parent(block[t]) \in DOMAIN headToLength
    <3>1. /\ pc' = [pc EXCEPT ![t] = "replace"]
          /\ length' = [length EXCEPT ![t] = LengthOfParent(t) + 1]
          /\ block' = block
      BY <1>5, <2>1 DEF LookUpParentHead
    <3>2. Moves(t) /\ pc'[t] = "replace" /\ length'[t] = LengthOfParent(t) + 1
      BY <3>1 DEF Moves, LocalType
    <3>3. block[t] \in blockchain /\ Parent(block[t]) \in blockchain
      BY <1>w, <2>0 DEF Knows, Working
    <3>4. LengthOfParent(t) = Length(Parent(block[t]))
      <4>1. Parent(block[t]) \in DOMAIN headToLength \ {Genesis}
        BY <2>1, <3>3 DEF StoreType, Block, Genesis
      <4> QED
        BY <4>1 DEF ThreadInv, HeadLengthsAreRight, LengthOfParent, Length
    <3>5. LengthOfParent(t) + 1 = Length(block[t])
      BY <3>3, <3>4, LengthOfStored
    <3>6. Length(block[t])' = Length(block[t])
      BY <2>0, <3>1 DEF vars, Length
    <3>7. Knows(t)'
      BY <1>w, <2>0, <3>1, <3>2, <3>5, <3>6 DEF Knows, Working, vars
    <3> QED
      BY <2>0, <3>2, <3>7, QuietStep DEF Working, Pending, vars
  <2>2. CASE Parent(block[t]) \notin DOMAIN headToLength
    <3>1. Goto(t, "newFork")
      BY <1>5, <2>2 DEF LookUpParentHead
    <3>2. Moves(t) /\ pc'[t] = "newFork"
      BY <1>l, <3>1, GotoMoves
    <3>3. Knows(t)'
      BY <1>w, <2>0, <2>2, <3>2 DEF Knows, Working, Moves, vars
    <3> QED
      BY <2>0, <3>2, <3>3, QuietStep DEF Working, Pending, vars
  <2> QED
    BY <2>1, <2>2
<1>6. CASE ReplaceParentHead(t)
  BY <1>6, ReplaceStep
<1>7. CASE StartNewFork(t)
  BY <1>7, NewForkStep
<1>8. CASE LookUpMain(t)
  <2>1. /\ pc[t] = "isMain" /\ UNCHANGED vars
        /\ \/ Goto(t, "setMain")
           \/ Goto(t, "mainLength") /\ longestHead # Parent(block[t])
    BY <1>8 DEF LookUpMain
  <2>2. Moves(t) /\ \/ pc'[t] = "setMain"
                    \/ pc'[t] = "mainLength" /\ longestHead # Parent(block[t])
    BY <1>l, <2>1, GotoMoves
  <2>3. Knows(t)'
    BY <1>w, <2>1, <2>2 DEF Knows, Working, Moves, vars
  <2> QED
    BY <2>1, <2>2, <2>3, QuietStep DEF Working, Pending, vars
<1>9. CASE SetMain(t)
  <2>1. pc[t] = "setMain" /\ Moves(t) /\ pc'[t] = "addNames"
    BY <1>9, <1>l, GotoMoves DEF SetMain
  <2> QED
    BY <1>9, <2>1, NewMainStep DEF SetMain
<1>10. CASE AddNames(t)
  <2>1. pc[t] = "addNames" /\ Moves(t) /\ pc'[t] = "idle"
    BY <1>10, ReturnMoves DEF AddNames
  <2>2. Knows(t)'
    BY <2>1 DEF Knows, Working
  <2> QED
    BY <1>10, <2>1, <2>2, QuietStep DEF AddNames, Working, Pending
<1>11. CASE CompareWithMain(t)
  <2>1. pc[t] = "mainLength" /\ UNCHANGED vars /\ (Return(t) \/ Goto(t, "intersect"))
    BY <1>11 DEF CompareWithMain
  <2>2. Moves(t) /\ pc'[t] \in {"idle", "intersect"}
    BY <1>l, <2>1, GotoMoves, ReturnMoves
  <2>3. Knows(t)'
    BY <1>w, <2>1, <2>2 DEF Knows, Working, Moves, vars
  <2> QED
    BY <2>1, <2>2, <2>3, QuietStep DEF Working, Pending, vars
<1>12. CASE FindIntersection(t)
  <2>1. /\ pc[t] = "intersect" /\ pc' = [pc EXCEPT ![t] = "rewind"]
        /\ UNCHANGED <<vars, block, length>>
    BY <1>12 DEF FindIntersection
  <2>2. Moves(t) /\ pc'[t] = "rewind"
    BY <2>1 DEF Moves, LocalType
  <2>3. Knows(t)'
    BY <1>w, <2>1, <2>2 DEF Knows, Working, vars
  <2> QED
    BY <2>1, <2>2, <2>3, QuietStep DEF Working, Pending, vars
<1>13. CASE Rewind(t)
  <2>1. pc[t] = "rewind" /\ Moves(t) /\ pc'[t] = "switch"
        /\ UNCHANGED <<blockchain, headToLength, longestHead, mining>>
    BY <1>13, <1>l, GotoMoves DEF Rewind
  <2>2. Knows(t)'
    BY <1>w, <2>1 DEF Knows, Working, Moves
  <2> QED
    BY <2>1, <2>2, QuietStep DEF Working, Pending
<1>14. CASE SwitchMain(t)
  <2>1. pc[t] = "switch" /\ Moves(t) /\ pc'[t] = "idle"
    BY <1>14, ReturnMoves DEF SwitchMain
  <2> QED
    BY <1>14, <2>1, NewMainStep DEF SwitchMain
<1> QED
  BY <1>1, <1>2, <1>3, <1>4, <1>5, <1>6, <1>7, <1>8, <1>9, <1>10, <1>11, <1>12,
     <1>13, <1>14 DEF Section

\* A call takes a block that the other thread does not have, nor a child of it.
LEMMA CallStep ==
    ASSUME ThreadInv, LocalType, NEW t \in Threads, NEW b \in Block, Call(t, b),
           UNCHANGED storeVars, mining' = mining \/ mining' = Idle,
           t = "listener" /\ block["miner"] # Genesis =>
              b # block["miner"] /\ Parent(b) # block["miner"],
           t = "miner" =>
              /\ b # block["listener"] /\ b # Parent(block["listener"])
              /\ Finished(Parent(b))
    PROVE  ThreadInv'
<1>0. /\ pc[t] = "idle" /\ pc'[t] = "find" /\ block'[t] = b /\ b # Genesis
      /\ \A u \in Threads \ {t} : pc'[u] = pc[u] /\ block'[u] = block[u]
      /\ UNCHANGED <<length, blockchain, headToLength, longestHead>>
      /\ block[t] = Genesis
  BY DEF Call, LocalType, storeVars, Block, Genesis
<1>1. \A u \in Threads : Knows(u)'
  <2>1. Knows(t)'
    BY <1>0 DEF Knows, Working
  <2>2. ASSUME NEW u \in Threads, u # t
        PROVE  Knows(u)'
    <3>1. Knows(u) /\ pc'[u] = pc[u] /\ block'[u] = block[u]
      BY <1>0, <2>2 DEF ThreadInv
    <3>2. Length(block[u])' = Length(block[u])
      BY <1>0, <3>1 DEF Length
    <3> QED
      BY <1>0, <3>1, <3>2 DEF Knows
  <2> QED
    BY <2>1, <2>2
<1>2. Unfinished' = Unfinished
  <2>1. \A u \in Threads : pc'[u] \in Working <=> pc[u] \in Working
    BY <1>0 DEF Working
  <2>2. \A u \in Threads : pc[u] \in Working => block'[u] = block[u]
    BY <1>0 DEF Working
  <2> QED
    BY <2>1, <2>2 DEF Unfinished
<1>3. Registered' = Registered
  <2>1. \A u \in Threads : pc'[u] \in Pending <=> pc[u] \in Pending
    BY <1>0 DEF Pending
  <2>2. \A u \in Threads : pc[u] \in Pending => block'[u] = block[u]
    BY <1>0 DEF Pending
  <2> QED
    BY <1>0, <2>1, <2>2 DEF Registered
<1>4. Apart'
  <2>1. "miner" \in Threads /\ "listener" \in Threads /\ "miner" # "listener"
        /\ \A u \in Threads : u = "miner" \/ u = "listener"
    BY DEF Threads
  <2>2. block["miner"] # Genesis => Finished(Parent(block["miner"]))
    BY DEF ThreadInv, Apart
  <2>3. block'["miner"] # Genesis => Finished(Parent(block'["miner"]))
    BY <1>0, <2>1, <2>2
  <2>4. block'["miner"] # Genesis =>
           Parent(block'["miner"]) \in (blockchain' \cup {Genesis}) \ Unfinished'
    BY <1>0, <1>2, <2>3 DEF Finished
  <2>5. longestHead' \in (blockchain' \cup {Genesis}) \ Unfinished'
    BY <1>0, <1>2 DEF ThreadInv, Apart, Finished
  <2>6. mining'.busy => mining'.parent \in (blockchain' \cup {Genesis}) \ Unfinished'
    BY <1>0, <1>2 DEF ThreadInv, Apart, Finished, Idle
  <2>7. block'["listener"] # Genesis /\ block'["miner"] # Genesis =>
           block'["listener"] # block'["miner"] /\ Parent(block'["listener"]) # block'["miner"]
    BY <1>0, <2>1 DEF ThreadInv, Apart
  <2> QED
    BY <2>1, <2>4, <2>5, <2>6, <2>7 DEF Apart, Finished
<1>5. Rooted' /\ RegisteredHeads' /\ HeadLengthsAreRight'
  BY <1>0, <1>3 DEF ThreadInv, Rooted, RegisteredHeads, Heads, HeadLengthsAreRight
<1>6. MainIsHead'
  <2> SUFFICES ASSUME blockchain # {}, longestHead \notin Heads
               PROVE  \E u \in Threads :
                         pc'[u] \in {"isMain", "setMain"} /\ Parent(block'[u]) = longestHead
    BY <1>0 DEF MainIsHead, Heads
  <2>1. PICK u \in Threads : pc[u] \in {"isMain", "setMain"} /\ Parent(block[u]) = longestHead
    BY DEF ThreadInv, MainIsHead
  <2>2. pc'[u] = pc[u] /\ block'[u] = block[u]
    BY <1>0, <2>1
  <2> QED
    BY <2>1, <2>2
<1> QED
  BY <1>1, <1>4, <1>5, <1>6 DEF ThreadInv

\* The miner only changes what it mines.
LEMMA MiningStep ==
    ASSUME ThreadInv, UNCHANGED <<storeVars, local>>,
           mining'.busy => mining'.parent = longestHead \/ mining' = mining
    PROVE  ThreadInv'
<1>0. UNCHANGED <<blockchain, headToLength, longestHead, pc, block, length>>
  BY DEF storeVars, local
<1>1. Unfinished' = Unfinished /\ Registered' = Registered /\ Heads' = Heads
  BY <1>0 DEF Unfinished, Registered, Heads
<1>2. \A t \in Threads : Knows(t)'
  BY <1>0 DEF ThreadInv, Knows, Length
<1>3. Apart'
  <2>1. mining'.busy => mining'.parent \in (blockchain \cup {Genesis}) \ Unfinished
    BY DEF ThreadInv, Apart, Finished
  <2> QED
    BY <1>0, <1>1, <2>1 DEF ThreadInv, Apart, Finished
<1>4. Rooted' /\ RegisteredHeads' /\ HeadLengthsAreRight' /\ MainIsHead'
  BY <1>0, <1>1 DEF ThreadInv, Rooted, RegisteredHeads, HeadLengthsAreRight, MainIsHead
<1> QED
  BY <1>2, <1>3, <1>4 DEF ThreadInv

\* Every step keeps the invariant.
LEMMA ThreadInvStep ==
    ASSUME ThreadType, ThreadInv, [ThreadNext]_threadVars
    PROVE  ThreadInv'
<1>0. StoreType /\ LocalType /\ RestType /\ StoreType' /\ LocalType'
  <2>1. ThreadType'
    BY ThreadTypeStep
  <2> QED
    BY <2>1 DEF ThreadType, ThreadTypeOK, TypeOK, StoreType, LocalType, RestType, NamesType
<1>t. "listener" \in Threads /\ "miner" \in Threads /\ "listener" # "miner"
  BY DEF Threads
<1>1. ASSUME NEW p \in blockchain \cup Roots, NEW x \in Payloads, Receive(Append(p, x))
      PROVE  ThreadInv'
  <2> DEFINE b == Append(p, x)
  <2>1. b \in Block
    BY <1>0, ReceivedBlock
  <2> HIDE DEF b
  <2>2. /\ Call("listener", b) /\ UNCHANGED vars
        /\ block["miner"] # Genesis => b # block["miner"] /\ Parent(b) # block["miner"]
    BY <1>1 DEF Receive, b
  <2>3. UNCHANGED storeVars /\ UNCHANGED mining
    BY <2>2 DEF vars, storeVars
  <2> QED
    BY <1>0, <1>t, <2>1, <2>2, <2>3, CallStep
<1>2. ASSUME NEW txs \in Pools, TakeParent(txs)
      PROVE  ThreadInv'
  <2>1. UNCHANGED <<storeVars, local>> /\ mining'.parent = longestHead
    BY <1>2 DEF TakeParent
  <2> QED
    BY <2>1, MiningStep
<1>3. ASSUME NEW nonce \in Nonces, Mined(nonce)
      PROVE  ThreadInv'
  <2> DEFINE b == MinedBlock(nonce)
  <2>1. b \in Block /\ Parent(b) = mining.parent
    BY <1>0, MinedBlockType
  <2>2. /\ mining.busy /\ mining' = Idle /\ UNCHANGED storeVars
        /\ b # block["listener"] /\ b # Parent(block["listener"])
        /\ Call("miner", b) \/ UNCHANGED local
    BY <1>3 DEF Mined, MinedBlock
  <2>3. Finished(Parent(b))
    BY <2>1, <2>2 DEF ThreadInv, Apart
  <2> HIDE DEF b
  <2>4. CASE Call("miner", b)
    BY <1>0, <1>t, <2>1, <2>2, <2>3, <2>4, CallStep
  <2>5. CASE UNCHANGED local
    <3>1. ~mining'.busy
      BY <2>2 DEF Idle
    <3> QED
      BY <2>2, <2>5, <3>1, MiningStep
  <2> QED
    BY <2>2, <2>4, <2>5
<1>4. ASSUME NEW t \in Threads, Section(t)
      PROVE  ThreadInv'
  BY <1>0, <1>4, SectionStep
<1>5. CASE UNCHANGED threadVars
  <2>1. UNCHANGED <<storeVars, local>> /\ mining' = mining
    BY <1>5 DEF threadVars, vars, storeVars
  <2> QED
    BY <2>1, MiningStep
<1> QED
  BY <1>1, <1>2, <1>3, <1>4, <1>5 DEF ThreadNext

\* The invariant holds at the start.
LEMMA ThreadInvInit == ThreadInit => ThreadInv
<1> SUFFICES ASSUME ThreadInit
             PROVE  ThreadInv
  OBVIOUS
<1>0. /\ blockchain = {} /\ DOMAIN headToLength = {Genesis} /\ longestHead = Genesis
      /\ \A t \in Threads : pc[t] = "idle" /\ block[t] = Genesis
      /\ mining = Idle
  BY DEF ThreadInit, Init
<1>t. "listener" \in Threads /\ "miner" \in Threads
  BY DEF Threads
<1>1. Unfinished = {} /\ Registered = {} /\ Heads = {}
  BY <1>0 DEF Unfinished, Registered, Heads, Working
<1>2. \A t \in Threads : Knows(t)
  BY <1>0 DEF Knows, Working
<1>3. Apart
  BY <1>0, <1>1, <1>t DEF Apart, Finished, Idle
<1>4. Rooted /\ RegisteredHeads /\ HeadLengthsAreRight /\ MainIsHead
  BY <1>0, <1>1 DEF Rooted, RegisteredHeads, HeadLengthsAreRight, MainIsHead
<1> QED
  BY <1>2, <1>3, <1>4 DEF ThreadInv

\* The invariant holds at all times, however the sections of the two threads
\* interleave.
LEMMA ThreadInvHolds == ThreadSpec => []ThreadInv
BY ThreadInvInit, ThreadInvStep, ThreadTypeHolds, PTL DEF ThreadSpec

\* Whatever the two threads are in the middle of, the store is one tree.
THEOREM ThreadsKeepOneTree == ThreadSpec => []OneTree
<1>1. ThreadInv => OneTree
  BY RootedIsOneTree DEF ThreadInv
<1> QED
  BY <1>1, ThreadInvHolds, PTL

\* The lengths kept with the heads are those of their branches in every state,
\* although they are computed from what was looked up sections before.
THEOREM ThreadsKeepLengths == ThreadSpec => []HeadLengthsAreRight
<1>1. ThreadInv => HeadLengthsAreRight
  BY DEF ThreadInv
<1> QED
  BY <1>1, ThreadInvHolds, PTL

\* When both threads are done, the heads are the blocks without a successor.
THEOREM ThreadsLeaveLeaves == ThreadSpec => []HeadsAreLeavesAtRest
<1>1. ThreadInv => HeadsAreLeavesAtRest
  <2> SUFFICES ASSUME ThreadInv, AtRest
               PROVE  HeadsAreLeaves
    BY DEF HeadsAreLeavesAtRest
  <2>1. Registered = blockchain
    BY DEF AtRest, Registered, Pending
  <2> QED
    BY <2>1 DEF ThreadInv, RegisteredHeads, Heads, HeadsAreLeaves, HasChild
<1> QED
  BY <1>1, ThreadInvHolds, PTL

\* When both threads are done, the main chain ends in one of the heads, whichever
\* of them wrote it last.
THEOREM ThreadsLeaveMainHead == ThreadSpec => []MainIsHeadAtRest
<1>1. ThreadInv => MainIsHeadAtRest
  BY DEF ThreadInv, MainIsHead, MainIsHeadAtRest, AtRest, Heads
<1> QED
  BY <1>1, ThreadInvHolds, PTL
=============================================================================
