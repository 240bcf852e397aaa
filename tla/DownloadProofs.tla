---------------------------- MODULE DownloadProofs ----------------------------
(***************************************************************************)
(* Theorems about the downloads of one node, for any files and any number  *)
(* of them at a node, for any delays, losses and repetitions, and for any  *)
(* interleaving of the client, the listener and the goroutines of timers.  *)
(***************************************************************************)
EXTENDS Download, SequenceTheorems, FiniteSetTheorems, WellFoundedInduction, TLAPS

(***************************************************************************)
(* Sequences.                                                              *)
(***************************************************************************)
LEMMA ChunkTypes ==
    ASSUME NEW f \in Files
    PROVE  /\ Chunks[f] \in Seq(ChunkIds)
           /\ Len(Chunks[f]) \in Nat \ {0}
           /\ DOMAIN Chunks[f] = 1 .. Len(Chunks[f])
           /\ \A i \in 1 .. Len(Chunks[f]) : Chunks[f][i] \in ChunkIds
<1>1. Chunks[f] \in Seq(ChunkIds) /\ Chunks[f] # <<>>
  BY ChunksAssumption
<1> QED
  BY <1>1, EmptySeq, LenProperties

\* One more chunk, when it is the next one, makes the beginning longer by one.
LEMMA OneMoreChunk ==
    ASSUME NEW S, NEW s \in Seq(S), NEW k \in 0 .. Len(s) - 1
    PROVE  Append(SubSeq(s, 1, k), s[k + 1]) = SubSeq(s, 1, k + 1)
<1>1. Len(s) \in Nat
  BY LenProperties
<1>2. /\ SubSeq(s, 1, k) \in Seq(S) /\ Len(SubSeq(s, 1, k)) = k
      /\ \A i \in 1 .. k : SubSeq(s, 1, k)[i] = s[i]
  BY <1>1, SubSeqProperties
<1>3. /\ SubSeq(s, 1, k + 1) \in Seq(S) /\ Len(SubSeq(s, 1, k + 1)) = k + 1
      /\ \A i \in 1 .. k + 1 : SubSeq(s, 1, k + 1)[i] = s[i]
  BY <1>1, SubSeqProperties
<1>4. s[k + 1] \in S
  BY <1>1, ElementOfSeq
<1>5. /\ Append(SubSeq(s, 1, k), s[k + 1]) \in Seq(S)
      /\ Len(Append(SubSeq(s, 1, k), s[k + 1])) = k + 1
      /\ \A i \in 1 .. k : Append(SubSeq(s, 1, k), s[k + 1])[i] = SubSeq(s, 1, k)[i]
      /\ Append(SubSeq(s, 1, k), s[k + 1])[k + 1] = s[k + 1]
  BY <1>2, <1>4, AppendProperties
<1>6. \A i \in 1 .. k + 1 :
         Append(SubSeq(s, 1, k), s[k + 1])[i] = SubSeq(s, 1, k + 1)[i]
  BY <1>2, <1>3, <1>5
<1> QED
  BY <1>3, <1>5, <1>6, SeqEqual

LEMMA NoChunks ==
    ASSUME NEW S, NEW s \in Seq(S)
    PROVE  SubSeq(s, 1, 0) = <<>>
BY SubSeqProperties, LenProperties, EmptySeq

LEMMA AllChunks ==
    ASSUME NEW S, NEW s \in Seq(S)
    PROVE  SubSeq(s, 1, Len(s)) = s
<1>1. Len(s) \in Nat
  BY LenProperties
<1>2. /\ SubSeq(s, 1, Len(s)) \in Seq(S) /\ Len(SubSeq(s, 1, Len(s))) = Len(s)
      /\ \A i \in 1 .. Len(s) : SubSeq(s, 1, Len(s))[i] = s[i]
  BY <1>1, SubSeqProperties
<1> QED
  BY <1>2, SeqEqual
\* A set of places in a sequence has a first one.
LEMMA FirstIsOne ==
    ASSUME NEW S \in SUBSET Nat, S # {}
    PROVE  First(S) \in S
<1>1. IsWellFoundedOn(OpToRel(<, Nat), Nat)
  BY NatLessThanWellFounded, Zenon
<1>2. PICK n \in S : \A m \in S : <<m, n>> \notin OpToRel(<, Nat)
  BY <1>1, WFMin, Zenon
<1>3. \A m \in S : ~(m < n)
  BY <1>2, Zenon DEF OpToRel
<1>4. \E i \in S : \A j \in S : i <= j
  BY <1>3
<1> QED
  BY <1>4 DEF First

(***************************************************************************)
(* Bags of goroutines, and lists of timers.                                *)
(***************************************************************************)
Goroutines(bag) == IsABag(bag) /\ BagToSet(bag) \subseteq Goroutine

LEMMA OneMore ==
    ASSUME NEW bag, Goroutines(bag), NEW g \in Goroutine
    PROVE  Goroutines(bag (+) SetToBag({g}))
BY DEF Goroutines, IsABag, BagToSet, SetToBag, (+)

LEMMA OneLess ==
    ASSUME NEW bag, Goroutines(bag), NEW g
    PROVE  Goroutines(bag (-) SetToBag({g}))
BY DEF Goroutines, IsABag, BagToSet, SetToBag, (-)

LEMMA NoMore ==
    ASSUME NEW bag, Goroutines(bag)
    PROVE  Goroutines(bag (+) EmptyBag)
BY DEF Goroutines, IsABag, BagToSet, SetToBag, EmptyBag, (+)

LEMMA MovedType ==
    ASSUME TypeOK, NEW g \in Goroutine,
           NEW at \in {"unlisted", "expired", "removed", "resent"}
    PROVE  Goroutines(Moved(g, at))
<1>1. Goroutines(goroutines) /\ [g EXCEPT !.at = at] \in Goroutine
  BY DEF TypeOK, Goroutines, Goroutine
<1> QED
  BY <1>1, OneLess, OneMore DEF Moved

\* Taking the oldest timer out of a list.
LEMMA ShorterType ==
    ASSUME TypeOK, NEW o \in Origins
    PROVE  /\ Shorter(o) \in [Origins -> Seq(Hashes \cup {Ended})]
           /\ \A bag : Goroutines(bag) => Goroutines(bag (+) Dropped(o))
<1>1. list[o] \in Seq(Hashes \cup {Ended}) /\ list \in [Origins -> Seq(Hashes \cup {Ended})]
  BY DEF TypeOK
<1>2. CASE list[o] = <<>>
  BY <1>1, <1>2, NoMore DEF Shorter, Dropped
<1>3. CASE list[o] # <<>>
  <2>1. Tail(list[o]) \in Seq(Hashes \cup {Ended}) /\ Head(list[o]) \in Hashes \cup {Ended}
    BY <1>1, <1>3, HeadTailProperties
  <2>2. Head(list[o]) # Ended =>
           [at |-> "unlisted", to |-> o, hash |-> Head(list[o])] \in Goroutine
    BY <2>1 DEF Goroutine
  <2> QED
    BY <1>1, <1>3, <2>1, <2>2, OneMore, NoMore DEF Shorter, Dropped
<1> QED
  BY <1>2, <1>3

LEMMA ListedType ==
    ASSUME TypeOK, NEW o \in Origins, NEW h \in Hashes
    PROVE  [list EXCEPT ![o] = Append(@, h)] \in [Origins -> Seq(Hashes \cup {Ended})]
<1>1. list[o] \in Seq(Hashes \cup {Ended}) /\ list \in [Origins -> Seq(Hashes \cup {Ended})]
  BY DEF TypeOK
<1>2. Append(list[o], h) \in Seq(Hashes \cup {Ended})
  BY <1>1, AppendProperties
<1> QED
  BY <1>1, <1>2

LEMMA SentType ==
    ASSUME TypeOK, NEW o \in Origins, NEW h \in Hashes, Send(o, h)
    PROVE  requests' \subseteq DataRequest
BY DEF TypeOK, Send, DataRequest

LEMMA AskedType ==
    ASSUME TypeOK, NEW o \in Origins, NEW h \in Hashes, Ask(o, h)
    PROVE  requests' \subseteq DataRequest /\ list' \in [Origins -> Seq(Hashes \cup {Ended})]
BY SentType, ListedType DEF Ask

(***************************************************************************)
(* Types.                                                                  *)
(***************************************************************************)
\* The part of TypeOK that the handling of a reply changes.
Handled ==
    /\ DOMAIN indexed \subseteq Files
    /\ \A f \in DOMAIN indexed : indexed[f] \in MyFile
    /\ requested \in [Origins -> Seq(FileAndIndex)]
    /\ \A o \in Origins : \A i \in DOMAIN requested[o] :
          requested[o][i].next < Len(Chunks[requested[o][i].file])
    /\ awaiting \in [Files -> {"none", "asked", "known"}]
    /\ disk \in [Files -> Seq(ChunkIds)]
    /\ list \in [Origins -> Seq(Hashes \cup {Ended})]
    /\ requests \subseteq DataRequest
    /\ crashed \in BOOLEAN

\* The part that it leaves alone.
LEMMA TypesFrom ==
    ASSUME Handled, Goroutines(goroutines),
           client \in DataRequest \cup {None}, listener \in Handling \cup {Idle},
           replies \subseteq DataReply, commands \in [Files -> 0 .. MaxCommands],
           mishaps \in 0 .. MaxMishaps, expired \in 0 .. MaxExpired
    PROVE  TypeOK
BY DEF Handled, Goroutines, TypeOK

LEMMA MyFileType ==
    ASSUME TypeOK, NEW f \in Files
    PROVE  MyFileOf(f) \in MyFile
BY DEF TypeOK, MyFileOf, MyFile, ZeroFile, Index

LEMMA SetFileType ==
    ASSUME TypeOK, NEW f \in Files, NEW file \in MyFile, SetFile(f, file)
    PROVE  /\ DOMAIN indexed' \subseteq Files
           /\ \A g \in DOMAIN indexed' : indexed'[g] \in MyFile
BY DEF TypeOK, SetFile

LEMMA DeleteFileType ==
    ASSUME TypeOK, NEW h, DeleteFile(h)
    PROVE  /\ DOMAIN indexed' \subseteq Files
           /\ \A g \in DOMAIN indexed' : indexed'[g] \in MyFile
BY DEF TypeOK, DeleteFile

LEMMA WriteType ==
    ASSUME TypeOK, NEW f \in Files, NEW c \in ChunkIds, WriteChunk(f, c)
    PROVE  /\ disk' \in [Files -> Seq(ChunkIds)]
           /\ \A g \in Files : g # f => disk'[g] = disk[g]
           /\ ~MyFileOf(f).named => disk'[f] = disk[f]
           /\ MyFileOf(f).named =>
                 /\ disk'[f] = Append(disk[f], c)
                 /\ Len(disk'[f]) = Len(disk[f]) + 1
<1>1. disk \in [Files -> Seq(ChunkIds)] /\ disk[f] \in Seq(ChunkIds)
  BY DEF TypeOK
<1>2. Append(disk[f], c) \in Seq(ChunkIds) /\ Len(Append(disk[f], c)) = Len(disk[f]) + 1
  BY <1>1, AppendProperties
<1> QED
  BY <1>1, <1>2 DEF WriteChunk

\* An entry that a reply is for.
LEMMA EntryType ==
    ASSUME TypeOK, NEW o \in Origins, NEW i \in DOMAIN requested[o]
    PROVE  /\ requested[o][i].file \in Files
           /\ requested[o][i].next \in Index
           /\ requested[o][i].done \in BOOLEAN
           /\ requested[o][i] \in FileAndIndex
           /\ requested[o][i].next < Len(Chunks[requested[o][i].file])
           /\ i \in 1 .. Len(requested[o]) /\ i \in Nat
<1>1. requested[o] \in Seq(FileAndIndex)
  BY DEF TypeOK
<1>2. i \in 1 .. Len(requested[o]) /\ Len(requested[o]) \in Nat
  BY <1>1, LenProperties
<1>3. requested[o][i] \in FileAndIndex
  BY <1>1, <1>2, ElementOfSeq
<1> QED
  BY <1>2, <1>3 DEF TypeOK, FileAndIndex

\* The change of one entry.
LEMMA ChangedEntry ==
    ASSUME TypeOK, NEW o \in Origins, NEW i \in DOMAIN requested[o], NEW e \in FileAndIndex,
           requested' = [requested EXCEPT ![o] = [requested[o] EXCEPT ![i] = e]],
           e.next < Len(Chunks[e.file])
    PROVE  /\ requested' \in [Origins -> Seq(FileAndIndex)]
           /\ \A p \in Origins : DOMAIN requested'[p] = DOMAIN requested[p]
           /\ requested'[o][i] = e
           /\ \A p \in Origins : \A j \in DOMAIN requested[p] :
                 <<p, j>> # <<o, i>> => requested'[p][j] = requested[p][j]
           /\ \A p \in Origins : \A j \in DOMAIN requested'[p] :
                 requested'[p][j].next < Len(Chunks[requested'[p][j].file])
<1>1. requested \in [Origins -> Seq(FileAndIndex)] /\ requested[o] \in Seq(FileAndIndex)
  BY DEF TypeOK
<1>2. i \in 1 .. Len(requested[o])
  BY EntryType
<1>3. /\ [requested[o] EXCEPT ![i] = e] \in Seq(FileAndIndex)
      /\ DOMAIN [requested[o] EXCEPT ![i] = e] = DOMAIN requested[o]
      /\ [requested[o] EXCEPT ![i] = e][i] = e
      /\ \A j \in DOMAIN requested[o] : j # i =>
            [requested[o] EXCEPT ![i] = e][j] = requested[o][j]
  BY <1>1, <1>2, ExceptSeq
<1>4. /\ requested' \in [Origins -> Seq(FileAndIndex)]
      /\ \A p \in Origins : DOMAIN requested'[p] = DOMAIN requested[p]
      /\ requested'[o][i] = e
      /\ \A p \in Origins : \A j \in DOMAIN requested[p] :
            <<p, j>> # <<o, i>> => requested'[p][j] = requested[p][j]
  BY <1>1, <1>3
<1> QED
  BY <1>4 DEF TypeOK

\* FoundMetafile adds requests and timers for the first chunk.
LEMMA FoundMetafileType ==
    ASSUME TypeOK, NEW h \in Hashes, FoundMetafile(h), UNCHANGED crashed
    PROVE  Handled'
<1>1. CASE awaiting[h] = "known"
  <2>1. UNCHANGED <<fileVars, requests, list, crashed>>
    BY <1>1 DEF FoundMetafile, AskNothing
  <2> QED
    BY <2>1 DEF TypeOK, Handled, fileVars
<1>2. CASE awaiting[h] # "known"
  <2> DEFINE times == IF MyFileOf(h).done THEN 0 ELSE Keywords[h]
             To(asked, o) == {i \in DOMAIN asked : asked[i] = o}
  <2>1. /\ h \in Files
        /\ awaiting' = [awaiting EXCEPT ![h] = "known"]
        /\ SetFile(h, [MyFileOf(h) EXCEPT !.metafile = TRUE, !.next = 0])
        /\ UNCHANGED <<requested, disk, crashed>>
    BY <1>2 DEF FoundMetafile, AwaitingMetafile
  <2>2. PICK asked \in [1 .. times -> Having(h, 0)] :
           /\ requests' = requests \cup
                 {[to |-> asked[i], hash |-> ChunkAt(h, 0)] : i \in DOMAIN asked}
           /\ list' = [o \in Origins |->
                 list[o] \o [j \in 1 .. Cardinality(To(asked, o)) |-> ChunkAt(h, 0)]]
    BY <1>2 DEF FoundMetafile
  <2>3. times \in Nat /\ ChunkAt(h, 0) \in ChunkIds
    BY <2>1, ChunkTypes, SearchAssumption DEF ChunkAt
  <2>4. requests' \subseteq DataRequest
    BY <2>2, <2>3 DEF TypeOK, DataRequest, Having, Hashes
  <2>5. ASSUME NEW o \in Origins
        PROVE  list'[o] \in Seq(Hashes \cup {Ended})
    <3>1. To(asked, o) \subseteq 1 .. times
      BY <2>2
    <3>2. Cardinality(To(asked, o)) \in Nat
      <4>1. IsFiniteSet(1 .. times)
        BY <2>3, FS_Interval
      <4> QED
        BY <3>1, <4>1, FS_Subset, FS_CardinalityType
    <3>3. \A n \in Nat :
             [j \in 1 .. n |-> ChunkAt(h, 0)] \in Seq(Hashes \cup {Ended})
      <4>1. ChunkAt(h, 0) \in Hashes \cup {Ended}
        BY <2>3 DEF Hashes
      <4> QED
        BY <4>1, SeqDef
    <3>4. list[o] \in Seq(Hashes \cup {Ended})
      BY DEF TypeOK
    <3> QED
      BY <2>2, <3>2, <3>3, <3>4, ConcatProperties
  <2>6. list' \in [Origins -> Seq(Hashes \cup {Ended})]
    BY <2>2, <2>5
  <2>7. [MyFileOf(h) EXCEPT !.metafile = TRUE, !.next = 0] \in MyFile
    BY <2>1, MyFileType DEF MyFile, Index
  <2>8. /\ DOMAIN indexed' \subseteq Files
        /\ \A g \in DOMAIN indexed' : indexed'[g] \in MyFile
    BY <2>1, <2>7, SetFileType
  <2> QED
    BY <2>1, <2>4, <2>6, <2>8 DEF TypeOK, Handled
<1> QED
  BY <1>1, <1>2

LEMMA FoundChunkType ==
    ASSUME TypeOK, NEW o \in Origins, NEW h \in Hashes, FoundChunk(o, h)
    PROVE  Handled'
<1>1. PICK f \in AwaitingChunk(h) :
          LET next == MyFileOf(f).next + 1
              file == [MyFileOf(f) EXCEPT !.metafile = TRUE, !.next = next]
          IN  /\ WriteChunk(f, h)
              /\ \/ /\ next > Len(Chunks[f])
                    /\ SetFile(f, file)
                    /\ crashed' = TRUE
                    /\ AskNothing /\ UNCHANGED awaiting
                 \/ /\ next <= Len(Chunks[f]) /\ Ends(f, h, next)
                    /\ SetFile(f, [file EXCEPT !.done = TRUE])
                    /\ awaiting' = [awaiting EXCEPT ![f] = "none"]
                    /\ AskNothing /\ UNCHANGED crashed
                 \/ /\ next <= Len(Chunks[f]) /\ ~Ends(f, h, next)
                    /\ SetFile(f, file)
                    /\ IF NextDestinations(f, next, o) = {}
                       THEN AskNothing
                       ELSE \E p \in NextDestinations(f, next, o) : Ask(p, ChunkAt(f, next))
                    /\ UNCHANGED <<awaiting, crashed>>
              /\ UNCHANGED requested
  BY DEF FoundChunk
<1> DEFINE next == MyFileOf(f).next + 1
           file == [MyFileOf(f) EXCEPT !.metafile = TRUE, !.next = next]
<1>2. f \in Files /\ h \in ChunkIds
  <2>1. f \in Files /\ \E i \in DOMAIN Chunks[f] : Chunks[f][i] = h
    BY DEF AwaitingChunk
  <2> QED
    BY <2>1, ChunkTypes
<1>3. next \in Nat /\ file \in MyFile /\ [file EXCEPT !.done = TRUE] \in MyFile
  <2>1. MyFileOf(f) \in MyFile
    BY <1>2, MyFileType
  <2>2. MyFileOf(f).next + 1 \in Index /\ next \in Nat
    BY <2>1 DEF MyFile, Index
  <2> QED
    BY <2>1, <2>2 DEF MyFile
<1>4. \A k \in {file, [file EXCEPT !.done = TRUE]} : SetFile(f, k) =>
         /\ DOMAIN indexed' \subseteq Files
         /\ \A g \in DOMAIN indexed' : indexed'[g] \in MyFile
  <2>1. SUFFICES ASSUME NEW k \in MyFile, SetFile(f, k)
                 PROVE  /\ DOMAIN indexed' \subseteq Files
                        /\ \A g \in DOMAIN indexed' : indexed'[g] \in MyFile
    BY <1>3
  <2> QED
    BY <1>2, <2>1, SetFileType
<1>5. /\ DOMAIN indexed' \subseteq Files
      /\ \A g \in DOMAIN indexed' : indexed'[g] \in MyFile
  BY <1>1, <1>4
<1>6. disk' \in [Files -> Seq(ChunkIds)]
  BY <1>1, <1>2, WriteType
<1>7. UNCHANGED requested
  BY <1>1
<1>8. awaiting' \in [Files -> {"none", "asked", "known"}] /\ crashed' \in BOOLEAN
  BY <1>1 DEF TypeOK
<1>9. requests' \subseteq DataRequest /\ list' \in [Origins -> Seq(Hashes \cup {Ended})]
  <2>1. CASE AskNothing
    BY <2>1 DEF TypeOK, AskNothing
  <2>2. CASE /\ next <= Len(Chunks[f]) /\ ~Ends(f, h, next)
             /\ \E p \in NextDestinations(f, next, o) : Ask(p, ChunkAt(f, next))
    <3>1. PICK p \in NextDestinations(f, next, o) : Ask(p, ChunkAt(f, next))
      BY <2>2
    <3>2. p \in Origins
      BY <3>1 DEF NextDestinations, Having
    <3>3. next < Len(Chunks[f])
      BY <1>2, <1>3, <2>2, ChunkTypes DEF Ends
    <3>4. ChunkAt(f, next) \in Hashes
      BY <1>2, <1>3, <3>3, ChunkTypes DEF ChunkAt, Hashes
    <3> QED
      BY <3>1, <3>2, <3>4, AskedType
  <2> QED
    BY <1>1, <2>1, <2>2
<1> QED
  BY <1>5, <1>6, <1>7, <1>8, <1>9 DEF TypeOK, Handled

\* The entry that the metafile is for.
LEMMA MetafileEntry ==
    ASSUME TypeOK, NEW o \in Origins, NEW h \in Hashes, MetafileEntries(o, h) # {}
    PROVE  LET i == First(MetafileEntries(o, h))
           IN  /\ i \in DOMAIN requested[o]
               /\ h \in Files /\ requested[o][i].file = h
               /\ requested[o][i].next = -1 /\ ~requested[o][i].done
<1>1. MetafileEntries(o, h) \in SUBSET Nat
  BY EntryType DEF MetafileEntries
<1>2. First(MetafileEntries(o, h)) \in MetafileEntries(o, h)
  BY <1>1, FirstIsOne
<1> QED
  BY <1>2, EntryType DEF MetafileEntries

LEMMA RequestedMetafileType ==
    ASSUME TypeOK, NEW o \in Origins, NEW h \in Hashes, RequestedMetafile(o, h),
           UNCHANGED crashed
    PROVE  Handled'
<1> DEFINE i == First(MetafileEntries(o, h))
           e == [requested[o][i] EXCEPT !.next = 0]
<1>1. i \in DOMAIN requested[o] /\ h \in Files /\ requested[o][i].file = h
  BY MetafileEntry DEF RequestedMetafile
<1>2. e \in FileAndIndex /\ e.next < Len(Chunks[e.file])
  BY <1>1, EntryType, ChunkTypes DEF FileAndIndex, Index
<1>3. requested' = [requested EXCEPT ![o] = [requested[o] EXCEPT ![i] = e]]
  BY DEF RequestedMetafile
<1>4. /\ requested' \in [Origins -> Seq(FileAndIndex)]
      /\ \A p \in Origins : \A j \in DOMAIN requested'[p] :
            requested'[p][j].next < Len(Chunks[requested'[p][j].file])
  <2> HIDE DEF i, e
  <2> QED
    BY <1>1, <1>2, <1>3, ChangedEntry
<1>5. [MyFileOf(h) EXCEPT !.metafile = TRUE, !.next = 0] \in MyFile
  BY <1>1, MyFileType DEF MyFile, Index
<1>6. /\ DOMAIN indexed' \subseteq Files
      /\ \A g \in DOMAIN indexed' : indexed'[g] \in MyFile
  BY <1>1, <1>5, SetFileType DEF RequestedMetafile
<1>7. ChunkAt(h, 0) \in Hashes
  BY <1>1, ChunkTypes DEF ChunkAt, Hashes
<1>8. requests' \subseteq DataRequest /\ list' \in [Origins -> Seq(Hashes \cup {Ended})]
  BY <1>7, AskedType DEF RequestedMetafile
<1> QED
  BY <1>4, <1>6, <1>8 DEF TypeOK, Handled, RequestedMetafile

\* The entry that a chunk is for, when the handler does not panic.
LEMMA ChunkEntry ==
    ASSUME TypeOK, NEW o \in Origins, NEW h, ~Panics(o, h),
           MetafileEntries(o, h) = {}, ChunkEntries(o, h) # {}
    PROVE  LET i == First(ChunkEntries(o, h))
           IN  /\ i \in DOMAIN requested[o]
               /\ requested[o][i].file \in Files
               /\ requested[o][i].next \in 0 .. Len(Chunks[requested[o][i].file]) - 1
               /\ h = ChunkAt(requested[o][i].file, requested[o][i].next)
               /\ h \in ChunkIds
<1> DEFINE i == First(ChunkEntries(o, h))
<1>1. ChunkEntries(o, h) \in SUBSET Nat
  BY EntryType DEF ChunkEntries
<1>2. i \in ChunkEntries(o, h)
  BY <1>1, FirstIsOne
<1>3. i \in DOMAIN requested[o] /\ requested[o][i].next # -1
  BY <1>2 DEF ChunkEntries, Panics
<1>4. h = ChunkAt(requested[o][i].file, requested[o][i].next)
  BY <1>2, <1>3 DEF ChunkEntries
<1>5. /\ requested[o][i].file \in Files
      /\ requested[o][i].next \in Index
      /\ requested[o][i].next < Len(Chunks[requested[o][i].file])
  BY <1>3, EntryType
<1>6. requested[o][i].next \in 0 .. Len(Chunks[requested[o][i].file]) - 1
  BY <1>3, <1>5, ChunkTypes DEF Index
<1>7. h \in ChunkIds
  BY <1>4, <1>5, <1>6, ChunkTypes DEF ChunkAt
<1> QED
  BY <1>3, <1>4, <1>5, <1>6, <1>7

\* What RequestedChunk does to the entry and the file it is for.
ChunkStep(o, i, f, index, h) ==
    LET file == [MyFileOf(f) EXCEPT !.next = @ + 1]
    IN  /\ WriteChunk(f, h)
        /\ \/ /\ IsLast(f, index) /\ file.metafile
              /\ SetFile(f, [file EXCEPT !.done = TRUE])
              /\ requested' = [requested EXCEPT ![o][i].done = TRUE]
              /\ AskNothing /\ UNCHANGED crashed
           \/ /\ IsLast(f, index) /\ ~file.metafile
              /\ SetFile(f, file)
              /\ crashed' = TRUE
              /\ AskNothing /\ UNCHANGED requested
           \/ /\ ~IsLast(f, index)
              /\ SetFile(f, file)
              /\ requested' = [requested EXCEPT ![o][i].next = @ + 1]
              /\ Ask(o, ChunkAt(f, index + 1))
              /\ UNCHANGED crashed
        /\ UNCHANGED awaiting

LEMMA RequestedChunkIs ==
    ASSUME NEW o, NEW h, RequestedChunk(o, h)
    PROVE  LET i == First(ChunkEntries(o, h))
           IN  ChunkStep(o, i, requested[o][i].file, requested[o][i].next, h)
BY DEF RequestedChunk, ChunkStep

LEMMA ChunkStepType ==
    ASSUME TypeOK, NEW o \in Origins, NEW i \in DOMAIN requested[o],
           NEW f \in Files, f = requested[o][i].file,
           NEW index \in 0 .. Len(Chunks[f]) - 1, index = requested[o][i].next,
           NEW h \in ChunkIds, ChunkStep(o, i, f, index, h)
    PROVE  Handled'
<1> DEFINE file == [MyFileOf(f) EXCEPT !.next = @ + 1]
           done == [requested[o][i] EXCEPT !.done = TRUE]
           next == [requested[o][i] EXCEPT !.next = @ + 1]
<1>1. file \in MyFile /\ [file EXCEPT !.done = TRUE] \in MyFile
  <2>1. MyFileOf(f) \in MyFile
    BY MyFileType
  <2>2. MyFileOf(f).next + 1 \in Index
    BY <2>1 DEF MyFile, Index
  <2> QED
    BY <2>1, <2>2 DEF MyFile
<1>2. /\ DOMAIN indexed' \subseteq Files
      /\ \A g \in DOMAIN indexed' : indexed'[g] \in MyFile
  <2>1. PICK k \in MyFile : SetFile(f, k)
    BY <1>1 DEF ChunkStep
  <2> QED
    BY <2>1, SetFileType
<1>3. disk' \in [Files -> Seq(ChunkIds)]
  BY WriteType DEF ChunkStep
<1>4. Len(Chunks[f]) \in Nat \ {0}
  BY ChunkTypes
<1>5. /\ requested' \in [Origins -> Seq(FileAndIndex)]
      /\ \A p \in Origins : \A j \in DOMAIN requested'[p] :
            requested'[p][j].next < Len(Chunks[requested'[p][j].file])
  <2>1. CASE UNCHANGED requested
    BY <2>1 DEF TypeOK
  <2>2. done \in FileAndIndex /\ done.next < Len(Chunks[done.file])
    BY EntryType DEF FileAndIndex
  <2>3. CASE requested' = [requested EXCEPT ![o] = [requested[o] EXCEPT ![i] = done]]
    <3> HIDE DEF done
    <3> QED
      BY <2>2, <2>3, ChangedEntry
  <2>4. CASE /\ ~IsLast(f, index)
             /\ requested' = [requested EXCEPT ![o] = [requested[o] EXCEPT ![i] = next]]
    <3>1. next \in FileAndIndex /\ next.next < Len(Chunks[next.file])
      <4>1. requested[o][i] \in FileAndIndex
        BY EntryType
      <4>2. index + 1 \in Index /\ index + 1 < Len(Chunks[f])
        BY <1>4, <2>4 DEF IsLast, Index
      <4> QED
        BY <4>1, <4>2 DEF FileAndIndex
    <3> HIDE DEF next
    <3> QED
      BY <2>4, <3>1, ChangedEntry
  <2> QED
    BY <2>1, <2>3, <2>4 DEF ChunkStep
<1>6. requests' \subseteq DataRequest /\ list' \in [Origins -> Seq(Hashes \cup {Ended})]
  <2>1. CASE AskNothing
    BY <2>1 DEF TypeOK, AskNothing
  <2>2. CASE ~IsLast(f, index) /\ Ask(o, ChunkAt(f, index + 1))
    <3>1. ChunkAt(f, index + 1) \in Hashes
      BY <1>4, <2>2, ChunkTypes DEF ChunkAt, IsLast, Hashes
    <3> QED
      BY <2>2, <3>1, AskedType
  <2> QED
    BY <2>1, <2>2 DEF ChunkStep
<1>7. crashed' \in BOOLEAN /\ UNCHANGED awaiting
  BY DEF ChunkStep, TypeOK
<1> QED
  BY <1>2, <1>3, <1>5, <1>6, <1>7 DEF TypeOK, Handled

\* What the handling of a reply of o with hash h does: it deletes an entry of the
\* index, does nothing or panics, or is one of the cases of the handler.
ReplyEffect(o, h) ==
    \/ /\ DeleteFile(h)
       /\ UNCHANGED <<requested, awaiting, disk, requests, list, crashed>>
    \/ /\ UNCHANGED <<indexed, requested, awaiting, disk, requests, list>>
       /\ crashed' \in BOOLEAN
    \/ FoundChunk(o, h)
    \/ FoundMetafile(h) /\ UNCHANGED crashed
    \/ RequestedMetafile(o, h) /\ UNCHANGED crashed
    \/ \E i \in DOMAIN requested[o] :
          /\ requested[o][i].file \in Files
          /\ requested[o][i].next \in 0 .. Len(Chunks[requested[o][i].file]) - 1
          /\ h \in ChunkIds
          /\ h = ChunkAt(requested[o][i].file, requested[o][i].next)
          /\ ChunkStep(o, i, requested[o][i].file, requested[o][i].next, h)

LEMMA HandleCases ==
    ASSUME TypeOK, HandleReply
    PROVE  \E o \in Origins, h \in Hashes : ReplyEffect(o, h)
<1> DEFINE o == listener.reply.from
           h == listener.reply.hash
<1>1. o \in Origins /\ h \in Hashes
  BY DEF TypeOK, HandleReply, Handling, Idle, DataReply
<1>2. CASE DeleteFile(h) /\ AskNothing /\ UNCHANGED <<requested, awaiting, disk, crashed>>
  BY <1>1, <1>2 DEF AskNothing, ReplyEffect
<1>3. CASE crashed' = TRUE /\ AskNothing /\ UNCHANGED fileVars
  BY <1>1, <1>3 DEF AskNothing, fileVars, ReplyEffect
<1>4. CASE ~Panics(o, h) /\ RequestedChunk(o, h)
  <2> DEFINE i == First(ChunkEntries(o, h))
  <2>1. /\ i \in DOMAIN requested[o]
        /\ requested[o][i].file \in Files
        /\ requested[o][i].next \in 0 .. Len(Chunks[requested[o][i].file]) - 1
        /\ h = ChunkAt(requested[o][i].file, requested[o][i].next)
        /\ h \in ChunkIds
    BY <1>1, <1>4, ChunkEntry DEF RequestedChunk
  <2>2. ChunkStep(o, i, requested[o][i].file, requested[o][i].next, h)
    BY <1>4, RequestedChunkIs
  <2> QED
    BY <1>1, <2>1, <2>2 DEF ReplyEffect
<1>5. CASE FoundChunk(o, h)
  BY <1>1, <1>5 DEF ReplyEffect
<1>6. CASE (FoundMetafile(h) \/ RequestedMetafile(o, h)) /\ UNCHANGED crashed
  BY <1>1, <1>6 DEF ReplyEffect
<1>7. CASE NotAskedFor(o, h) /\ UNCHANGED crashed
  BY <1>1, <1>7 DEF NotAskedFor, AskNothing, fileVars, TypeOK, ReplyEffect
<1> QED
  BY <1>2, <1>3, <1>4, <1>5, <1>6, <1>7 DEF HandleReply, ReplyEffect

LEMMA HandleReplyType == ASSUME TypeOK, HandleReply PROVE Handled'
<1>1. PICK o \in Origins, h \in Hashes : ReplyEffect(o, h)
  BY HandleCases
<1>2. CASE DeleteFile(h) /\ UNCHANGED <<requested, awaiting, disk, requests, list, crashed>>
  BY <1>2, DeleteFileType DEF TypeOK, Handled
<1>3. CASE /\ UNCHANGED <<indexed, requested, awaiting, disk, requests, list>>
           /\ crashed' \in BOOLEAN
  BY <1>3 DEF TypeOK, Handled
<1>4. CASE FoundChunk(o, h)
  BY <1>4, FoundChunkType
<1>5. CASE FoundMetafile(h) /\ UNCHANGED crashed
  BY <1>5, FoundMetafileType
<1>6. CASE RequestedMetafile(o, h) /\ UNCHANGED crashed
  BY <1>6, RequestedMetafileType
<1>7. ASSUME NEW i \in DOMAIN requested[o],
             requested[o][i].file \in Files,
             requested[o][i].next \in 0 .. Len(Chunks[requested[o][i].file]) - 1,
             h \in ChunkIds,
             ChunkStep(o, i, requested[o][i].file, requested[o][i].next, h)
      PROVE  Handled'
  BY <1>7, ChunkStepType
<1> QED
  BY <1>1, <1>2, <1>3, <1>4, <1>5, <1>6, <1>7 DEF ReplyEffect

\* A new entry at the end of a node's.
LEMMA NewEntry ==
    ASSUME TypeOK, NEW f \in Files, NEW o \in Origins,
           requested' = [requested EXCEPT ![o] =
                            Append(@, [file |-> f, next |-> -1, done |-> FALSE])]
    PROVE  /\ requested' \in [Origins -> Seq(FileAndIndex)]
           /\ Len(requested[o]) + 1 \in DOMAIN requested'[o]
           /\ \A p \in Origins : \A i \in DOMAIN requested'[p] :
                 \/ p = o /\ i = Len(requested[o]) + 1
                    /\ requested'[p][i] = [file |-> f, next |-> -1, done |-> FALSE]
                 \/ i \in DOMAIN requested[p] /\ requested'[p][i] = requested[p][i]
<1> DEFINE e == [file |-> f, next |-> -1, done |-> FALSE]
<1>1. requested \in [Origins -> Seq(FileAndIndex)] /\ e \in FileAndIndex
  BY DEF TypeOK, FileAndIndex, Index
<1>2. requested[o] \in Seq(FileAndIndex) /\ Len(requested[o]) \in Nat
      /\ DOMAIN requested[o] = 1 .. Len(requested[o])
  BY <1>1, LenProperties
<1> HIDE DEF e
<1>3. /\ Append(requested[o], e) \in Seq(FileAndIndex)
      /\ Len(Append(requested[o], e)) = Len(requested[o]) + 1
      /\ \A i \in 1 .. Len(requested[o]) : Append(requested[o], e)[i] = requested[o][i]
      /\ Append(requested[o], e)[Len(requested[o]) + 1] = e
  BY <1>1, <1>2, AppendProperties
<1>4. DOMAIN Append(requested[o], e) = 1 .. Len(requested[o]) + 1
  BY <1>3, LenProperties
<1>5. requested' = [requested EXCEPT ![o] = Append(@, e)]
  BY DEF e
<1>6. /\ requested'[o] = Append(requested[o], e)
      /\ \A p \in Origins \ {o} : requested'[p] = requested[p]
  BY <1>1, <1>5
<1>7. ASSUME NEW p \in Origins, NEW i \in DOMAIN requested'[p]
      PROVE  \/ p = o /\ i = Len(requested[o]) + 1 /\ requested'[p][i] = e
             \/ i \in DOMAIN requested[p] /\ requested'[p][i] = requested[p][i]
  <2>1. CASE p # o
    BY <1>6, <2>1
  <2>2. CASE p = o /\ i \in 1 .. Len(requested[o])
    BY <1>2, <1>3, <1>6, <2>2
  <2>3. CASE p = o /\ i \notin 1 .. Len(requested[o])
    BY <1>2, <1>3, <1>4, <1>6, <2>3
  <2> QED
    BY <2>1, <2>2, <2>3
<1>8. requested' \in [Origins -> Seq(FileAndIndex)]
  BY <1>1, <1>3, <1>5
<1>9. Len(requested[o]) + 1 \in DOMAIN requested'[o]
  BY <1>2, <1>4, <1>6
<1> QED
  BY <1>7, <1>8, <1>9 DEF e

LEMMA RequestType ==
    ASSUME TypeOK, NEW f \in Files, NEW o \in Origins, NEW newName \in BOOLEAN,
           Request(f, o, newName)
    PROVE  TypeOK'
<1>1. [ZeroFile EXCEPT !.named = TRUE, !.next = -1] \in MyFile
  BY DEF ZeroFile, MyFile, Index
<1>2. /\ DOMAIN indexed' \subseteq Files
      /\ \A g \in DOMAIN indexed' : indexed'[g] \in MyFile
  BY <1>1, SetFileType DEF Request
<1>3. /\ requested' \in [Origins -> Seq(FileAndIndex)]
      /\ \A p \in Origins : \A i \in DOMAIN requested'[p] :
            requested'[p][i].next < Len(Chunks[requested'[p][i].file])
  <2>1. requested' = [requested EXCEPT ![o] =
                        Append(@, [file |-> f, next |-> -1, done |-> FALSE])]
    BY DEF Request
  <2>2. ASSUME NEW p \in Origins, NEW i \in DOMAIN requested'[p]
        PROVE  requested'[p][i].next < Len(Chunks[requested'[p][i].file])
    <3>1. CASE requested'[p][i] = [file |-> f, next |-> -1, done |-> FALSE]
      <4>1. requested'[p][i].file = f /\ requested'[p][i].next = -1
        BY <3>1
      <4> QED
        BY <4>1, ChunkTypes
    <3>2. CASE i \in DOMAIN requested[p] /\ requested'[p][i] = requested[p][i]
      BY <3>2, EntryType
    <3> QED
      BY <2>1, <3>1, <3>2, NewEntry
  <2> QED
    BY <2>1, <2>2, NewEntry
<1>4. disk' \in [Files -> Seq(ChunkIds)]
  BY EmptySeq DEF Request, TypeOK
<1>5. requests' \subseteq DataRequest /\ client' \in DataRequest
  <2>1. f \in Hashes
    BY DEF Hashes
  <2> QED
    BY <2>1, SentType DEF Request, DataRequest
<1>6. Handled'
  BY <1>2, <1>3, <1>4, <1>5 DEF TypeOK, Handled, Request, timerVars
<1>7. commands' \in [Files -> 0 .. MaxCommands]
  BY CommandsAssumption DEF TypeOK, Request
<1> QED
  BY <1>5, <1>6, <1>7 DEF TypeOK, Handled, Request, timerVars

LEMMA SearchDownloadType ==
    ASSUME TypeOK, NEW f \in Files, SearchDownload(f)
    PROVE  TypeOK'
<1>1. [ZeroFile EXCEPT !.named = TRUE] \in MyFile
  BY DEF ZeroFile, MyFile, Index
<1>2. /\ DOMAIN indexed' \subseteq Files
      /\ \A g \in DOMAIN indexed' : indexed'[g] \in MyFile
  BY <1>1, SetFileType DEF SearchDownload
<1>3. disk' \in [Files -> Seq(ChunkIds)]
  BY EmptySeq DEF SearchDownload, TypeOK
<1>4. requests' \subseteq DataRequest /\ client' \in DataRequest \cup {None}
  <2>1. f \in Hashes
    BY DEF Hashes
  <2>2. CASE UNCHANGED <<requests, client>>
    BY <2>2 DEF TypeOK
  <2>3. CASE \E o \in Having(f, 0) : Send(o, f) /\ client' = [to |-> o, hash |-> f]
    BY <2>1, <2>3, SentType DEF Having, DataRequest
  <2> QED
    BY <2>2, <2>3 DEF SearchDownload
<1>5. Handled'
  BY <1>2, <1>3, <1>4 DEF TypeOK, Handled, SearchDownload, timerVars
<1>6. commands' \in [Files -> 0 .. MaxCommands]
  BY CommandsAssumption DEF TypeOK, SearchDownload
<1> QED
  BY <1>4, <1>5, <1>6 DEF TypeOK, Handled, SearchDownload, timerVars

LEMMA ListTimerType == ASSUME TypeOK, ListTimer PROVE TypeOK'
<1>1. client \in DataRequest
  BY DEF TypeOK, ListTimer
<1>2. list' \in [Origins -> Seq(Hashes \cup {Ended})]
  BY <1>1, ListedType DEF ListTimer, DataRequest
<1> QED
  BY <1>2 DEF TypeOK, ListTimer, fileVars, boundVars

LEMMA TakeReplyType ==
    ASSUME TypeOK, NEW r \in replies, NEW again \in BOOLEAN, TakeReply(r, again)
    PROVE  TypeOK'
<1>1. /\ DOMAIN indexed' \subseteq Files
      /\ \A g \in DOMAIN indexed' : indexed'[g] \in MyFile
  BY DeleteFileType DEF TypeOK, TakeReply
<1>2. listener' \in Handling \cup {Idle}
  BY DEF TypeOK, TakeReply, Handling
<1>3. replies' \subseteq DataReply /\ mishaps' \in 0 .. MaxMishaps
  BY CommandsAssumption DEF TypeOK, TakeReply
<1> QED
  BY <1>1, <1>2, <1>3 DEF TypeOK, TakeReply, timerVars

LEMMA ListenerType ==
    ASSUME TypeOK, StopHead \/ RemoveOldest \/ HandleReply
    PROVE  TypeOK'
<1>1. listener \in Handling
  BY DEF TypeOK, StopHead, RemoveOldest, HandleReply, Idle
<1>2. listener.reply.from \in Origins
  BY <1>1 DEF Handling, DataReply
<1>3. CASE StopHead
  <2>1. list' \in [Origins -> Seq(Hashes \cup {Ended})]
    <3> DEFINE o == listener.reply.from
    <3>1. list[o] \in Seq(Hashes \cup {Ended})
      BY <1>2 DEF TypeOK
    <3>2. CASE UNCHANGED list
      BY <3>2 DEF TypeOK
    <3>3. CASE list[o] # <<>> /\ list' = [list EXCEPT ![o][1] = Ended]
      <4>1. 1 \in 1 .. Len(list[o])
        BY <3>1, <3>3, EmptySeq, LenProperties
      <4>2. [list[o] EXCEPT ![1] = Ended] \in Seq(Hashes \cup {Ended})
        BY <3>1, <4>1, ExceptSeq
      <4> QED
        BY <3>3, <4>2 DEF TypeOK
    <3> QED
      BY <1>3, <3>2, <3>3 DEF StopHead
  <2>2. listener' \in Handling /\ crashed' \in BOOLEAN
    BY <1>1, <1>3 DEF StopHead, Handling, TypeOK
  <2> QED
    BY <1>3, <2>1, <2>2 DEF TypeOK, StopHead, fileVars, boundVars
<1>4. CASE RemoveOldest
  <2>1. list' \in [Origins -> Seq(Hashes \cup {Ended})] /\ Goroutines(goroutines')
    BY <1>2, <1>4, ShorterType DEF RemoveOldest, TypeOK, Goroutines
  <2>2. listener' \in Handling
    BY <1>1, <1>4 DEF RemoveOldest, Handling
  <2> QED
    BY <1>4, <2>1, <2>2 DEF TypeOK, RemoveOldest, fileVars, boundVars, Goroutines
<1>5. CASE HandleReply
  <2>1. Handled'
    BY <1>5, HandleReplyType
  <2> QED
    BY <1>5, <2>1, TypesFrom DEF TypeOK, HandleReply, Handled, boundVars
<1> QED
  BY <1>3, <1>4, <1>5

LEMMA TimerStepType ==
    ASSUME TypeOK, NEW g \in BagToSet(goroutines), TimerStep(g)
    PROVE  TypeOK'
<1>1. g \in Goroutine /\ g.to \in Origins /\ g.hash \in Hashes /\ Goroutines(goroutines)
  BY DEF TypeOK, Goroutine, Goroutines
<1>2. CASE ExpireUnlisted(g)
  <2>1. Goroutines(goroutines')
    BY <1>1, <1>2, MovedType DEF ExpireUnlisted
  <2>2. expired' \in 0 .. MaxExpired
    BY <1>2, CommandsAssumption DEF TypeOK, ExpireUnlisted, RunsOut
  <2> QED
    BY <1>2, <2>1, <2>2 DEF TypeOK, ExpireUnlisted, fileVars, Goroutines
<1>3. CASE RemoveTimer(g)
  <2>1. list' \in [Origins -> Seq(Hashes \cup {Ended})] /\ Goroutines(goroutines')
    BY <1>1, <1>3, MovedType, ShorterType DEF RemoveTimer
  <2> QED
    BY <1>3, <2>1 DEF TypeOK, RemoveTimer, fileVars, boundVars, Goroutines
<1>4. CASE SendAgain(g)
  <2>1. Goroutines(goroutines') /\ requests' \subseteq DataRequest
    BY <1>1, <1>4, MovedType, SentType DEF SendAgain
  <2> QED
    BY <1>4, <2>1 DEF TypeOK, SendAgain, fileVars, boundVars, Goroutines
<1>5. CASE ListAgain(g)
  <2>1. Goroutines(goroutines') /\ list' \in [Origins -> Seq(Hashes \cup {Ended})]
    BY <1>1, <1>5, OneLess, ListedType DEF ListAgain
  <2> QED
    BY <1>5, <2>1 DEF TypeOK, ListAgain, fileVars, boundVars, Goroutines
<1> QED
  BY <1>2, <1>3, <1>4, <1>5 DEF TimerStep

LEMMA ExpireListedType ==
    ASSUME TypeOK, NEW o \in Origins, ExpireListed(o)
    PROVE  TypeOK'
<1>1. PICK i \in DOMAIN list[o] :
         /\ list[o][i] # Ended
         /\ RunsOut(o, list[o][i])
         /\ list' = [list EXCEPT ![o][i] = Ended]
         /\ goroutines' = goroutines (+)
               SetToBag({[at |-> "expired", to |-> o, hash |-> list[o][i]]})
  BY DEF ExpireListed
<1>2. list[o] \in Seq(Hashes \cup {Ended}) /\ i \in 1 .. Len(list[o])
  BY LenProperties DEF TypeOK
<1>3. list[o][i] \in Hashes
  BY <1>1, <1>2, ElementOfSeq
<1>4. [list[o] EXCEPT ![i] = Ended] \in Seq(Hashes \cup {Ended})
  BY <1>2, ExceptSeq
<1>5. list' \in [Origins -> Seq(Hashes \cup {Ended})]
  BY <1>1, <1>4 DEF TypeOK
<1>6. Goroutines(goroutines')
  <2>1. [at |-> "expired", to |-> o, hash |-> list[o][i]] \in Goroutine
    BY <1>3 DEF Goroutine
  <2>2. Goroutines(goroutines)
    BY DEF TypeOK, Goroutines
  <2> QED
    BY <1>1, <2>1, <2>2, OneMore
<1>7. expired' \in 0 .. MaxExpired
  BY <1>1, CommandsAssumption DEF TypeOK, RunsOut
<1> QED
  BY <1>5, <1>6, <1>7 DEF TypeOK, ExpireListed, fileVars, Goroutines

LEMMA NetworkType ==
    ASSUME TypeOK,
           \/ \E q \in requests : Serve(q) \/ LoseRequest(q)
           \/ \E r \in replies : LoseReply(r)
    PROVE  TypeOK'
<1>1. ASSUME NEW q \in requests, Serve(q)
      PROVE  TypeOK'
  <2>1. [from |-> q.to, hash |-> q.hash, empty |-> q.hash \notin Holds[q.to]] \in DataReply
    BY DEF TypeOK, DataRequest, DataReply
  <2>2. requests' \subseteq DataRequest /\ replies' \subseteq DataReply
    BY <1>1, <2>1 DEF TypeOK, Serve
  <2> QED
    BY <1>1, <2>2 DEF TypeOK, Serve, fileVars, timerVars, boundVars
<1>2. ASSUME NEW q \in requests, LoseRequest(q)
      PROVE  TypeOK'
  <2>1. requests' \subseteq DataRequest /\ mishaps' \in 0 .. MaxMishaps
    BY <1>2, CommandsAssumption DEF TypeOK, LoseRequest
  <2> QED
    BY <1>2, <2>1 DEF TypeOK, LoseRequest, fileVars, timerVars
<1>3. ASSUME NEW r \in replies, LoseReply(r)
      PROVE  TypeOK'
  <2>1. replies' \subseteq DataReply /\ mishaps' \in 0 .. MaxMishaps
    BY <1>3, CommandsAssumption DEF TypeOK, LoseReply
  <2> QED
    BY <1>3, <2>1 DEF TypeOK, LoseReply, fileVars, timerVars
<1> QED
  BY <1>1, <1>2, <1>3

LEMMA InitType == Init => TypeOK
<1> SUFFICES ASSUME Init PROVE TypeOK
  OBVIOUS
<1>1. commands \in [Files -> 0 .. MaxCommands]
  BY CommandsAssumption DEF Init
<1>2. IsABag(goroutines) /\ BagToSet(goroutines) \subseteq Goroutine
  BY DEF Init, EmptyBag, IsABag, BagToSet, SetToBag
<1>3. disk \in [Files -> Seq(ChunkIds)] /\ requested \in [Origins -> Seq(FileAndIndex)]
      /\ list \in [Origins -> Seq(Hashes \cup {Ended})]
  BY EmptySeq DEF Init
<1>4. \A o \in Origins : DOMAIN requested[o] = {}
  BY DEF Init
<1>5. mishaps \in 0 .. MaxMishaps /\ expired \in 0 .. MaxExpired
  BY CommandsAssumption DEF Init
<1> QED
  BY <1>1, <1>2, <1>3, <1>4, <1>5 DEF Init, TypeOK

\* Every variable keeps its type; no chunk is ever asked for that the file does
\* not have (ChunkAt), and none is looked for at an index beyond the metafile
\* (getNextChunkHashToRequest, fileSharing.go:161).
THEOREM TypeCorrect == Spec => []TypeOK
<1>1. TypeOK /\ [Next]_vars => TypeOK'
  <2> SUFFICES ASSUME TypeOK, [Next]_vars
               PROVE  TypeOK'
    OBVIOUS
  <2>1. CASE UNCHANGED vars
    BY <2>1 DEF TypeOK, vars
  <2>2. ASSUME NEW f \in Files, NEW o \in Origins, NEW newName \in BOOLEAN,
               Request(f, o, newName)
        PROVE  TypeOK'
    BY <2>2, RequestType
  <2>3. ASSUME NEW f \in Files, SearchDownload(f)
        PROVE  TypeOK'
    BY <2>3, SearchDownloadType
  <2>4. CASE ListTimer
    BY <2>4, ListTimerType
  <2>5. ASSUME NEW r \in replies, NEW again \in BOOLEAN, TakeReply(r, again)
        PROVE  TypeOK'
    BY <2>5, TakeReplyType
  <2>6. CASE StopHead \/ RemoveOldest \/ HandleReply
    BY <2>6, ListenerType
  <2>7. ASSUME NEW o \in Origins, ExpireListed(o)
        PROVE  TypeOK'
    BY <2>7, ExpireListedType
  <2>8. ASSUME NEW g \in BagToSet(goroutines), TimerStep(g)
        PROVE  TypeOK'
    BY <2>8, TimerStepType
  <2>9. CASE \/ \E q \in requests : Serve(q) \/ LoseRequest(q)
             \/ \E r \in replies : LoseReply(r)
    BY <2>9, NetworkType
  <2> QED
    BY <2>1, <2>2, <2>3, <2>4, <2>5, <2>6, <2>7, <2>8, <2>9 DEF Next
<1> QED
  BY <1>1, InitType, PTL DEF Spec

(***************************************************************************)
(* Search replies.                                                         *)
(***************************************************************************)
\* A file other than f keeps its place in the index.
LEMMA SetFileElse ==
    ASSUME NEW f, NEW file, SetFile(f, file)
    PROVE  /\ MyFileOf(f)' = file
           /\ \A g : g # f => MyFileOf(g)' = MyFileOf(g)
           /\ \A g \in DOMAIN indexed' : g # f => g \in DOMAIN indexed
BY DEF SetFile, MyFileOf

LEMMA DeleteFileElse ==
    ASSUME NEW h, DeleteFile(h)
    PROVE  /\ MyFileOf(h)' = ZeroFile
           /\ \A g : g # h => MyFileOf(g)' = MyFileOf(g)
           /\ \A g \in DOMAIN indexed' : g # h /\ g \in DOMAIN indexed
BY DEF DeleteFile, MyFileOf

\* The property, of one file.
Offers(f) == MyFileOf(f).named => MyFileOf(f).next <= Len(disk[f])

LEMMA OffersAre == OffersOnlyWritten <=> \A f \in DOMAIN indexed : Offers(f)
BY DEF OffersOnlyWritten, Offers, MyFileOf

\* A chunk that is written is counted once.
LEMMA OffersWritten ==
    ASSUME TypeOK, NEW f \in Files, Offers(f), NEW c \in ChunkIds, WriteChunk(f, c),
           MyFileOf(f)'.named = MyFileOf(f).named,
           MyFileOf(f)'.next = MyFileOf(f).next + 1
    PROVE  Offers(f)' /\ \A g \in Files \ {f} : disk'[g] = disk[g]
<1>1. MyFileOf(f).next \in Index /\ Len(disk[f]) \in Nat
  BY MyFileType, LenProperties DEF TypeOK, MyFile
<1>2. /\ MyFileOf(f).named => Len(disk'[f]) = Len(disk[f]) + 1
      /\ \A g \in Files : g # f => disk'[g] = disk[g]
  BY WriteType
<1> QED
  BY <1>1, <1>2 DEF Offers, Index

LEMMA OffersHandled ==
    ASSUME TypeOK, OffersOnlyWritten, HandleReply
    PROVE  OffersOnlyWritten'
<1>0. \A f \in Files : Offers(f)
  <2>1. \A f \in Files \ DOMAIN indexed : ~MyFileOf(f).named
    BY DEF MyFileOf, ZeroFile
  <2> QED
    BY <2>1, OffersAre DEF Offers
<1>1. SUFFICES \A f \in Files : Offers(f)'
  <2>1. DOMAIN indexed' \subseteq Files
    BY HandleReplyType DEF Handled
  <2>2. OffersOnlyWritten' <=> \A f \in DOMAIN indexed' : Offers(f)'
    BY DEF OffersOnlyWritten, Offers, MyFileOf
  <2> QED
    BY <2>1, <2>2
<1>2. PICK o \in Origins, h \in Hashes : ReplyEffect(o, h)
  BY HandleCases
<1>3. CASE DeleteFile(h) /\ UNCHANGED disk
  <2>1. ~MyFileOf(h)'.named /\ \A g : g # h => MyFileOf(g)' = MyFileOf(g)
    BY <1>3, DeleteFileElse DEF ZeroFile
  <2> QED
    BY <1>0, <1>3, <2>1 DEF Offers
<1>4. CASE UNCHANGED <<indexed, disk>>
  BY <1>0, <1>4 DEF Offers, MyFileOf
<1>5. ASSUME NEW f \in Files, h \in ChunkIds, WriteChunk(f, h),
             NEW file, SetFile(f, file),
             file.named = MyFileOf(f).named, file.next = MyFileOf(f).next + 1
      PROVE  \A g \in Files : Offers(g)'
  <2>1. MyFileOf(f)' = file /\ \A g : g # f => MyFileOf(g)' = MyFileOf(g)
    BY <1>5, SetFileElse
  <2>2. Offers(f)' /\ \A g \in Files \ {f} : disk'[g] = disk[g]
    BY <1>0, <1>5, <2>1, OffersWritten
  <2> QED
    BY <1>0, <2>1, <2>2 DEF Offers
<1>6. CASE FoundChunk(o, h)
  <2>1. PICK f \in AwaitingChunk(h) :
           LET next == MyFileOf(f).next + 1
               file == [MyFileOf(f) EXCEPT !.metafile = TRUE, !.next = next]
           IN  /\ WriteChunk(f, h)
               /\ SetFile(f, file) \/ SetFile(f, [file EXCEPT !.done = TRUE])
    BY <1>6 DEF FoundChunk
  <2>2. f \in Files /\ h \in ChunkIds
    <3>1. f \in Files /\ \E i \in DOMAIN Chunks[f] : Chunks[f][i] = h
      BY DEF AwaitingChunk
    <3> QED
      BY <3>1, ChunkTypes
  <2> DEFINE file == [MyFileOf(f) EXCEPT !.metafile = TRUE, !.next = MyFileOf(f).next + 1]
  <2>3. /\ file.named = MyFileOf(f).named /\ file.next = MyFileOf(f).next + 1
        /\ [file EXCEPT !.done = TRUE].named = MyFileOf(f).named
        /\ [file EXCEPT !.done = TRUE].next = MyFileOf(f).next + 1
    <3>1. MyFileOf(f) \in MyFile
      BY <2>2, MyFileType
    <3> QED
      BY <3>1 DEF MyFile
  <2>4. PICK k \in {file, [file EXCEPT !.done = TRUE]} : SetFile(f, k)
    BY <2>1
  <2>5. k.named = MyFileOf(f).named /\ k.next = MyFileOf(f).next + 1
    BY <2>3
  <2> QED
    BY <1>5, <2>1, <2>2, <2>4, <2>5
<1>7. ASSUME NEW f \in Files, NEW file, SetFile(f, file), UNCHANGED disk, file.next = 0
      PROVE  \A g \in Files : Offers(g)'
  <2>1. MyFileOf(f)' = file /\ \A g : g # f => MyFileOf(g)' = MyFileOf(g)
    BY <1>7, SetFileElse
  <2>2. Len(disk[f]) \in Nat
    BY LenProperties DEF TypeOK
  <2> QED
    BY <1>0, <1>7, <2>1, <2>2 DEF Offers
<1>8. CASE FoundMetafile(h) \/ RequestedMetafile(o, h)
  <2>1. CASE UNCHANGED <<indexed, disk>>
    BY <1>4, <2>1
  <2>2. CASE /\ h \in Files /\ UNCHANGED disk
             /\ SetFile(h, [MyFileOf(h) EXCEPT !.metafile = TRUE, !.next = 0])
    <3>1. [MyFileOf(h) EXCEPT !.metafile = TRUE, !.next = 0].next = 0
      BY <2>2, MyFileType DEF MyFile
    <3> QED
      BY <1>7, <2>2, <3>1
  <2>3. RequestedMetafile(o, h) => h \in Files
    BY MetafileEntry DEF RequestedMetafile
  <2> QED
    BY <1>8, <2>1, <2>2, <2>3
       DEF FoundMetafile, AwaitingMetafile, RequestedMetafile, fileVars
<1>9. ASSUME NEW f \in Files, NEW i, h \in ChunkIds, ChunkStep(o, i, f, requested[o][i].next, h)
      PROVE  \A g \in Files : Offers(g)'
  <2> DEFINE file == [MyFileOf(f) EXCEPT !.next = MyFileOf(f).next + 1]
  <2>1. PICK k \in {file, [file EXCEPT !.done = TRUE]} : SetFile(f, k)
    BY <1>9 DEF ChunkStep
  <2>2. k.named = MyFileOf(f).named /\ k.next = MyFileOf(f).next + 1
    <3>1. MyFileOf(f) \in MyFile
      BY MyFileType
    <3> QED
      BY <3>1 DEF MyFile
  <2> QED
    BY <1>5, <1>9, <2>1, <2>2 DEF ChunkStep
<1> QED
  BY <1>2, <1>3, <1>4, <1>6, <1>8, <1>9 DEF ReplyEffect

\* Search replies offer only chunks that are on disk (getChunkMap), however replies
\* are delayed, lost or repeated: what a reply does to the index and to the disk
\* agrees, and so does a new command.
THEOREM AlwaysOffersOnlyWritten == Spec => []OffersOnlyWritten
<1>1. TypeOK /\ TypeOK' /\ OffersOnlyWritten /\ [Next]_vars => OffersOnlyWritten'
  <2> SUFFICES ASSUME TypeOK, TypeOK', OffersOnlyWritten, [Next]_vars
               PROVE  OffersOnlyWritten'
    OBVIOUS
  <2>1. CASE UNCHANGED <<indexed, disk>>
    BY <2>1 DEF OffersOnlyWritten
  <2>2. ASSUME NEW f \in Files, NEW file, SetFile(f, file), file.next \in {0, -1},
               \A g \in Files \ {f} : disk'[g] = disk[g]
        PROVE  OffersOnlyWritten'
    <3>1. Len(disk'[f]) \in Nat
      BY LenProperties DEF TypeOK
    <3>2. /\ indexed'[f] = file /\ DOMAIN indexed' = DOMAIN indexed \cup {f}
          /\ \A g \in DOMAIN indexed \ {f} : indexed'[g] = indexed[g]
      BY <2>2 DEF SetFile
    <3>3. ASSUME NEW g \in DOMAIN indexed', indexed'[g].named
          PROVE  indexed'[g].next <= Len(disk'[g])
      <4>1. CASE g = f
        BY <2>2, <3>1, <3>2, <4>1
      <4>2. CASE g # f
        <5>1. g \in DOMAIN indexed /\ g \in Files \ {f}
          BY <3>2, <4>2 DEF TypeOK
        <5> QED
          BY <2>2, <3>2, <3>3, <5>1, <4>2 DEF OffersOnlyWritten
      <4> QED
        BY <4>1, <4>2
    <3> QED
      BY <3>3 DEF OffersOnlyWritten
  <2>3. ASSUME NEW f \in Files, NEW o \in Origins, NEW newName \in BOOLEAN,
               Request(f, o, newName)
        PROVE  OffersOnlyWritten'
    <3>1. [ZeroFile EXCEPT !.named = TRUE, !.next = -1].next = -1
      BY DEF ZeroFile
    <3>2. \A g \in Files \ {f} : disk'[g] = disk[g]
      BY <2>3 DEF Request, TypeOK
    <3> QED
      BY <2>2, <2>3, <3>1, <3>2 DEF Request
  <2>4. ASSUME NEW f \in Files, SearchDownload(f)
        PROVE  OffersOnlyWritten'
    <3>1. [ZeroFile EXCEPT !.named = TRUE].next = 0
      BY DEF ZeroFile
    <3>2. \A g \in Files \ {f} : disk'[g] = disk[g]
      BY <2>4 DEF SearchDownload, TypeOK
    <3> QED
      BY <2>2, <2>4, <3>1, <3>2 DEF SearchDownload
  <2>5. ASSUME NEW r \in replies, NEW again \in BOOLEAN, TakeReply(r, again)
        PROVE  OffersOnlyWritten'
    BY <2>1, <2>5 DEF TakeReply, DeleteFile, OffersOnlyWritten
  <2>6. CASE HandleReply
    BY <2>6, OffersHandled
  <2>7. CASE \/ ListTimer \/ StopHead \/ RemoveOldest
             \/ \E o \in Origins : ExpireListed(o)
             \/ \E g \in BagToSet(goroutines) : TimerStep(g)
             \/ \E q \in requests : Serve(q) \/ LoseRequest(q)
             \/ \E r \in replies : LoseReply(r)
    <3>1. UNCHANGED fileVars
      BY <2>7 DEF ListTimer, StopHead, RemoveOldest, ExpireListed, TimerStep, ExpireUnlisted,
                  RemoveTimer, SendAgain, ListAgain, Serve, LoseRequest, LoseReply
    <3> QED
      BY <2>1, <3>1 DEF fileVars
  <2> QED
    BY <2>1, <2>3, <2>4, <2>5, <2>6, <2>7 DEF Next, vars
<1>2. Init => OffersOnlyWritten
  BY DEF Init, OffersOnlyWritten
<1> QED
  BY <1>1, <1>2, TypeCorrect, PTL DEF Spec

(***************************************************************************)
(* Files that are asked for by name.                                       *)
(*                                                                         *)
(* WrittenInOrder and DoneIsWhole are not inductive: what is on disk is    *)
(* right because the entry of the request, which decides what chunk is     *)
(* taken, agrees with the disk for as long as the file has its name, in    *)
(* the index.  An entry whose file has lost its place there goes on        *)
(* taking chunks, and none of them is written.  With a second command for  *)
(* the file it would write again; hence the condition that there is one.   *)
(***************************************************************************)
ByName == Files \ Searched

\* The chunks that entry e says have come.
Progress(e) == IF e.next = -1 THEN 0 ELSE e.next

\* The entry agrees with the index and with the disk.
Tied(f, e) ==
    /\ MyFileOf(f).done => e.done
    /\ e.done => e.next = Len(Chunks[f]) - 1 /\ WholeAndMore(f)
    /\ ~e.done => disk[f] = SubSeq(Chunks[f], 1, Progress(e))
    /\ e.next # -1 => MyFileOf(f).metafile

IsEntry(f, o, i) == i \in DOMAIN requested[o] /\ requested[o][i].file = f

\* The one entry of f.
EntryOK(f, o, i) ==
    /\ commands[f] = 0
    /\ MyFileOf(f).named => Tied(f, requested[o][i])
    /\ \A p \in Origins : \A j : IsEntry(f, p, j) => p = o /\ j = i

NamedOK(f) ==
    /\ awaiting[f] = "none"
    /\ disk[f] \in BeginningOf(f) \/ WholeAndMore(f)
    /\ commands[f] # 0 => disk[f] = <<>>
    /\ \A o \in Origins : \A i : IsEntry(f, o, i) => EntryOK(f, o, i)
    /\ MyFileOf(f).named /\ MyFileOf(f).done => WholeAndMore(f)

\* A file without its name is not written to, and needs no agreement.
LEMMA StillOK ==
    ASSUME NEW f \in ByName, NamedOK(f), UNCHANGED <<awaiting[f], disk[f], commands[f]>>,
           MyFileOf(f)' = MyFileOf(f) \/ ~MyFileOf(f)'.named,
           \A o \in Origins : \A i : IsEntry(f, o, i)' =>
              IsEntry(f, o, i) /\ (requested'[o][i] = requested[o][i] \/ ~MyFileOf(f)'.named)
    PROVE  NamedOK(f)'
<1>1. WholeAndMore(f)' = WholeAndMore(f)
  BY DEF WholeAndMore
<1>2. BeginningOf(f)' = BeginningOf(f)
  BY DEF BeginningOf
<1>3. ASSUME NEW o \in Origins, NEW i, IsEntry(f, o, i)'
      PROVE  EntryOK(f, o, i)'
  <2>1. EntryOK(f, o, i)
    BY <1>3 DEF NamedOK
  <2>2. MyFileOf(f)'.named => Tied(f, requested[o][i])'
    <3> SUFFICES ASSUME MyFileOf(f)'.named
                 PROVE  Tied(f, requested[o][i])'
      OBVIOUS
    <3>1. MyFileOf(f)' = MyFileOf(f) /\ requested'[o][i] = requested[o][i]
      BY <1>3
    <3>2. Tied(f, requested[o][i])
      BY <2>1, <3>1 DEF EntryOK
    <3> QED
      BY <1>1, <3>1, <3>2 DEF Tied, Progress
  <2> QED
    BY <2>1, <2>2 DEF EntryOK
<1> QED
  BY <1>1, <1>2, <1>3 DEF NamedOK

\* The disk is written to, or not, for a chunk that the one entry takes.
LEMMA TakenOK ==
    ASSUME TypeOK, NEW f \in ByName, NamedOK(f), NEW o \in Origins, NEW i,
           IsEntry(f, o, i), MyFileOf(f)'.named = MyFileOf(f).named,
           UNCHANGED <<awaiting[f], commands[f]>>,
           ~MyFileOf(f).named => UNCHANGED disk[f],
           MyFileOf(f).named =>
              /\ Tied(f, requested[o][i])'
              /\ disk'[f] \in BeginningOf(f) \/ WholeAndMore(f)',
           \A p \in Origins : \A j : IsEntry(f, p, j)' => IsEntry(f, p, j)
    PROVE  NamedOK(f)'
<1>1. EntryOK(f, o, i)
  BY DEF NamedOK
<1>2. BeginningOf(f)' = BeginningOf(f)
  BY DEF BeginningOf
<1>3. ~MyFileOf(f).named => WholeAndMore(f)' = WholeAndMore(f)
  BY DEF WholeAndMore
<1>4. disk'[f] \in BeginningOf(f)' \/ WholeAndMore(f)'
  BY <1>2, <1>3 DEF NamedOK
<1>5. ASSUME NEW p \in Origins, NEW j, IsEntry(f, p, j)'
      PROVE  EntryOK(f, p, j)'
  <2>1. p = o /\ j = i
    BY <1>1, <1>5 DEF EntryOK
  <2> QED
    BY <1>1, <2>1 DEF EntryOK
<1>6. MyFileOf(f)'.named /\ MyFileOf(f)'.done => WholeAndMore(f)'
  BY DEF Tied
<1>7. commands'[f] = 0
  BY <1>1 DEF EntryOK
<1> QED
  BY <1>4, <1>5, <1>6, <1>7 DEF NamedOK

\* The next chunk, and the last one again.
LEMMA NextChunkWritten ==
    ASSUME TypeOK, NEW f \in Files, NEW k \in 0 .. Len(Chunks[f]) - 1,
           disk[f] = SubSeq(Chunks[f], 1, k), disk'[f] = Append(disk[f], ChunkAt(f, k))
    PROVE  /\ disk'[f] = SubSeq(Chunks[f], 1, k + 1)
           /\ disk'[f] \in BeginningOf(f)
           /\ k + 1 = Len(Chunks[f]) => WholeAndMore(f)'
<1>1. Chunks[f] \in Seq(ChunkIds) /\ Len(Chunks[f]) \in Nat \ {0}
  BY ChunkTypes
<1>2. disk'[f] = SubSeq(Chunks[f], 1, k + 1)
  BY <1>1, OneMoreChunk DEF ChunkAt
<1>3. k + 1 \in 0 .. Len(Chunks[f])
  BY <1>1
<1>4. disk'[f] \in BeginningOf(f)
  BY <1>2, <1>3 DEF BeginningOf
<1>5. ASSUME k + 1 = Len(Chunks[f])
      PROVE  WholeAndMore(f)'
  <2>1. disk'[f] = Chunks[f]
    BY <1>1, <1>2, <1>5, AllChunks
  <2> QED
    BY <1>1, <2>1 DEF WholeAndMore
<1> QED
  BY <1>2, <1>4, <1>5

LEMMA LastChunkAgain ==
    ASSUME TypeOK, NEW f \in Files, WholeAndMore(f),
           disk'[f] = Append(disk[f], ChunkAt(f, Len(Chunks[f]) - 1))
    PROVE  WholeAndMore(f)'
<1> DEFINE n == Len(Chunks[f])
           c == ChunkAt(f, n - 1)
<1>1. n \in Nat \ {0} /\ c = Chunks[f][n] /\ c \in ChunkIds
  BY ChunkTypes DEF ChunkAt
<1>2. disk[f] \in Seq(ChunkIds) /\ Len(disk[f]) \in Nat
  BY LenProperties DEF TypeOK
<1>3. /\ Len(disk'[f]) = Len(disk[f]) + 1
      /\ \A i \in 1 .. Len(disk[f]) : disk'[f][i] = disk[f][i]
      /\ disk'[f][Len(disk[f]) + 1] = c
  <2>1. disk'[f] = Append(disk[f], c)
    OBVIOUS
  <2> HIDE DEF c
  <2> QED
    BY <1>1, <1>2, <2>1, AppendProperties
<1>4. Len(disk[f]) >= n /\ \A i \in 1 .. Len(disk[f]) :
         disk[f][i] = Chunks[f][IF i <= n THEN i ELSE n]
  BY DEF WholeAndMore
<1>5. Len(disk'[f]) >= n
  BY <1>1, <1>2, <1>3, <1>4
<1>6. ASSUME NEW i \in 1 .. Len(disk'[f])
      PROVE  disk'[f][i] = Chunks[f][IF i <= n THEN i ELSE n]
  <2>1. CASE i \in 1 .. Len(disk[f])
    BY <1>3, <1>4, <2>1
  <2>2. CASE i = Len(disk[f]) + 1
    <3>1. ~(i <= n)
      BY <1>1, <1>2, <1>4, <2>2
    <3> QED
      BY <1>1, <1>3, <2>2, <3>1
  <2> QED
    BY <1>2, <1>3, <2>1, <2>2
<1> QED
  BY <1>5, <1>6 DEF WholeAndMore

\* A chunk that an entry of f takes.
LEMMA ChunkOK ==
    ASSUME TypeOK, NEW f \in ByName, NamedOK(f), NEW o \in Origins,
           NEW i \in DOMAIN requested[o], requested[o][i].file = f,
           requested[o][i].next \in 0 .. Len(Chunks[f]) - 1,
           NEW h \in ChunkIds, h = ChunkAt(f, requested[o][i].next),
           ChunkStep(o, i, f, requested[o][i].next, h), UNCHANGED commands
    PROVE  NamedOK(f)'
<1> DEFINE index == requested[o][i].next
           file == [MyFileOf(f) EXCEPT !.next = MyFileOf(f).next + 1]
<1>1. f \in Files /\ Len(Chunks[f]) \in Nat \ {0} /\ MyFileOf(f) \in MyFile
  BY ChunkTypes, MyFileType DEF ByName
<1>2. EntryOK(f, o, i) /\ IsEntry(f, o, i)
  BY DEF NamedOK, IsEntry
<1>3. /\ file.named = MyFileOf(f).named /\ file.metafile = MyFileOf(f).metafile
      /\ file.done = MyFileOf(f).done
      /\ [file EXCEPT !.done = TRUE].named = MyFileOf(f).named
      /\ [file EXCEPT !.done = TRUE].metafile = MyFileOf(f).metafile
      /\ [file EXCEPT !.done = TRUE].done
  BY <1>1 DEF MyFile
<1>4. PICK k \in {file, [file EXCEPT !.done = TRUE]} : MyFileOf(f)' = k
  BY SetFileElse DEF ChunkStep
<1>5. MyFileOf(f)'.named = MyFileOf(f).named /\ MyFileOf(f)'.metafile = MyFileOf(f).metafile
  BY <1>3, <1>4
<1>6. ~MyFileOf(f).named => UNCHANGED disk[f]
  BY <1>1, WriteType DEF ChunkStep
<1>7. \A p \in Origins : \A j : IsEntry(f, p, j)' => IsEntry(f, p, j)
  <2>1. requested \in [Origins -> Seq(FileAndIndex)]
        /\ \A p \in Origins : \A j \in DOMAIN requested[p] : requested[p][j] \in FileAndIndex
    BY EntryType DEF TypeOK
  <2>2. ASSUME NEW e \in FileAndIndex, e.file = f,
               requested' = [requested EXCEPT ![o] = [requested[o] EXCEPT ![i] = e]]
        PROVE  \A p \in Origins : \A j : IsEntry(f, p, j)' => IsEntry(f, p, j)
    <3>1. \A p \in Origins : DOMAIN requested'[p] = DOMAIN requested[p]
      BY <2>1, <2>2
    <3>2. \A p \in Origins : \A j \in DOMAIN requested[p] :
             requested'[p][j].file = f => requested[p][j].file = f
      BY <2>1, <2>2
    <3> QED
      BY <3>1, <3>2 DEF IsEntry
  <2>3. CASE UNCHANGED requested
    BY <2>3 DEF IsEntry
  <2>4. /\ [requested[o][i] EXCEPT !.done = TRUE] \in FileAndIndex
        /\ [requested[o][i] EXCEPT !.done = TRUE].file = f
    BY <2>1 DEF FileAndIndex
  <2>5. /\ [requested[o][i] EXCEPT !.next = index + 1] \in FileAndIndex
        /\ [requested[o][i] EXCEPT !.next = index + 1].file = f
    <3>1. requested[o][i] \in FileAndIndex /\ index + 1 \in Index
      BY <1>1, <2>1 DEF Index
    <3> QED
      BY <3>1 DEF FileAndIndex
  <2> QED
    BY <2>2, <2>3, <2>4, <2>5 DEF ChunkStep
<1>8. ASSUME MyFileOf(f).named
      PROVE  Tied(f, requested[o][i])' /\ (disk'[f] \in BeginningOf(f) \/ WholeAndMore(f)')
  <2>1. Tied(f, requested[o][i]) /\ MyFileOf(f).metafile
    <3>1. Tied(f, requested[o][i])
      BY <1>2, <1>8 DEF EntryOK
    <3> QED
      BY <3>1 DEF Tied
  <2>2. disk'[f] = Append(disk[f], h)
    BY <1>1, <1>8, WriteType DEF ChunkStep
  <2>3. requested[o][i] \in FileAndIndex /\ i \in DOMAIN requested[o]
        /\ requested \in [Origins -> Seq(FileAndIndex)]
    BY EntryType DEF TypeOK
  <2>4. CASE requested[o][i].done
    <3>1. index = Len(Chunks[f]) - 1 /\ WholeAndMore(f)
      BY <2>1, <2>4 DEF Tied
    <3>2. IsLast(f, index)
      BY <1>1, <3>1 DEF IsLast
    <3>3. requested' = [requested EXCEPT ![o][i].done = TRUE]
      BY <1>3, <2>1, <3>2 DEF ChunkStep
    <3>4. requested'[o][i].done /\ requested'[o][i].next = index
      BY <2>3, <3>3 DEF FileAndIndex
    <3>5. WholeAndMore(f)'
      BY <1>1, <2>2, <3>1, LastChunkAgain
    <3> QED
      BY <1>5, <2>1, <3>1, <3>4, <3>5 DEF Tied
  <2>5. CASE ~requested[o][i].done /\ IsLast(f, index)
    <3>1. disk[f] = SubSeq(Chunks[f], 1, index) /\ index + 1 = Len(Chunks[f])
      BY <1>1, <2>1, <2>5 DEF Tied, Progress, IsLast
    <3>2. WholeAndMore(f)'
      BY <1>1, <2>2, <3>1, NextChunkWritten
    <3>3. requested' = [requested EXCEPT ![o][i].done = TRUE]
      BY <1>3, <2>1, <2>5 DEF ChunkStep
    <3>4. requested'[o][i].done /\ requested'[o][i].next = index
      BY <2>3, <3>3 DEF FileAndIndex
    <3> QED
      BY <1>1, <1>5, <2>1, <3>1, <3>2, <3>4 DEF Tied
  <2>6. CASE ~requested[o][i].done /\ ~IsLast(f, index)
    <3>1. disk[f] = SubSeq(Chunks[f], 1, index)
      BY <1>1, <2>1, <2>6 DEF Tied, Progress
    <3>2. disk'[f] = SubSeq(Chunks[f], 1, index + 1) /\ disk'[f] \in BeginningOf(f)
      BY <1>1, <2>2, <3>1, NextChunkWritten
    <3>3. requested' = [requested EXCEPT ![o][i].next = @ + 1] /\ SetFile(f, file)
      BY <2>6 DEF ChunkStep
    <3>4. ~requested'[o][i].done /\ requested'[o][i].next = index + 1
      BY <2>3, <2>6, <3>3 DEF FileAndIndex
    <3>5. ~MyFileOf(f)'.done
      <4>1. MyFileOf(f)' = file
        BY <3>3, SetFileElse
      <4> QED
        BY <1>3, <2>1, <2>6, <4>1 DEF Tied
    <3> QED
      BY <1>1, <1>5, <2>1, <3>2, <3>4, <3>5 DEF Tied, Progress
  <2> QED
    BY <2>4, <2>5, <2>6
<1>9. UNCHANGED <<awaiting[f], commands[f]>>
  BY DEF ChunkStep
<1> QED
  BY <1>2, <1>5, <1>6, <1>7, <1>8, <1>9, TakenOK

\* The metafile of f.
LEMMA MetafileOK ==
    ASSUME TypeOK, NEW f \in ByName, NamedOK(f), NEW o \in Origins,
           RequestedMetafile(o, f), UNCHANGED commands
    PROVE  NamedOK(f)'
<1>1. /\ f \in Files /\ f \in Hashes
      /\ Len(Chunks[f]) \in Nat \ {0} /\ MyFileOf(f) \in MyFile
  BY ChunkTypes, MyFileType DEF ByName, Hashes
<1>2. PICK i \in DOMAIN requested[o] :
         /\ i = First(MetafileEntries(o, f))
         /\ requested[o][i].file = f
         /\ requested[o][i].next = -1 /\ ~requested[o][i].done
  BY <1>1, MetafileEntry DEF RequestedMetafile
<1>3. EntryOK(f, o, i) /\ IsEntry(f, o, i)
  BY <1>2 DEF NamedOK, IsEntry
<1>4. requested[o][i] \in FileAndIndex /\ requested \in [Origins -> Seq(FileAndIndex)]
      /\ \A p \in Origins : \A j \in DOMAIN requested[p] : requested[p][j] \in FileAndIndex
  BY <1>2, EntryType DEF TypeOK
<1>5. requested' = [requested EXCEPT ![o][i].next = 0]
  BY <1>2 DEF RequestedMetafile
<1>6. /\ requested'[o][i].next = 0 /\ ~requested'[o][i].done
      /\ \A p \in Origins : DOMAIN requested'[p] = DOMAIN requested[p]
      /\ \A p \in Origins : \A j \in DOMAIN requested[p] :
            requested'[p][j].file = f => requested[p][j].file = f
  BY <1>2, <1>4, <1>5 DEF FileAndIndex
<1>7. /\ MyFileOf(f)'.named = MyFileOf(f).named /\ MyFileOf(f)'.done = MyFileOf(f).done
      /\ MyFileOf(f)'.metafile
  <2>1. MyFileOf(f)' = [MyFileOf(f) EXCEPT !.metafile = TRUE, !.next = 0]
    BY SetFileElse DEF RequestedMetafile
  <2> QED
    BY <1>1, <2>1 DEF MyFile
<1>8. ASSUME MyFileOf(f).named
      PROVE  Tied(f, requested[o][i])' /\ (disk'[f] \in BeginningOf(f) \/ WholeAndMore(f)')
  <2>1. Tied(f, requested[o][i])
    BY <1>3, <1>8 DEF EntryOK
  <2>2. disk'[f] = SubSeq(Chunks[f], 1, 0)
    BY <1>2, <2>1 DEF Tied, Progress, RequestedMetafile
  <2>3. disk'[f] \in BeginningOf(f)
    BY <1>1, <2>2 DEF BeginningOf
  <2>4. ~MyFileOf(f)'.done
    BY <1>2, <1>7, <2>1 DEF Tied
  <2> QED
    BY <1>6, <1>7, <2>2, <2>3, <2>4 DEF Tied, Progress
<1>9. UNCHANGED <<awaiting[f], commands[f], disk[f]>>
  BY DEF RequestedMetafile
<1>10. \A p \in Origins : \A j : IsEntry(f, p, j)' => IsEntry(f, p, j)
  BY <1>6 DEF IsEntry
<1> QED
  BY <1>3, <1>7, <1>8, <1>9, <1>10, TakenOK

\* A command for f itself, the only one.
LEMMA RequestOK ==
    ASSUME MaxCommands <= 1, TypeOK, NEW f \in ByName, NamedOK(f), NEW o \in Origins,
           NEW newName \in BOOLEAN, Request(f, o, newName)
    PROVE  NamedOK(f)'
<1>1. f \in Files /\ Len(Chunks[f]) \in Nat \ {0} /\ Chunks[f] \in Seq(ChunkIds)
  BY ChunkTypes DEF ByName
<1>2. commands[f] # 0 /\ commands'[f] = 0
  BY <1>1, CommandsAssumption DEF Request, TypeOK
<1>3. disk'[f] = <<>> /\ awaiting'[f] = "none"
  BY <1>1, <1>2 DEF NamedOK, Request, TypeOK
<1>4. disk'[f] = SubSeq(Chunks[f], 1, 0) /\ disk'[f] \in BeginningOf(f)'
  BY <1>1, <1>3, NoChunks DEF BeginningOf
<1>5. MyFileOf(f)' = [ZeroFile EXCEPT !.named = TRUE, !.next = -1]
  BY SetFileElse DEF Request
<1>6. ~MyFileOf(f)'.done
  BY <1>5 DEF ZeroFile
<1>7. \A p \in Origins : \A i : ~IsEntry(f, p, i)
  BY <1>2 DEF NamedOK, EntryOK
<1>8. \A p \in Origins : \A i : IsEntry(f, p, i)' =>
         /\ p = o /\ i = Len(requested[o]) + 1
         /\ requested'[p][i] = [file |-> f, next |-> -1, done |-> FALSE]
  <2>1. requested' = [requested EXCEPT ![o] =
                        Append(@, [file |-> f, next |-> -1, done |-> FALSE])]
    BY DEF Request
  <2>2. \A p \in Origins : \A i \in DOMAIN requested'[p] :
           \/ p = o /\ i = Len(requested[o]) + 1
              /\ requested'[p][i] = [file |-> f, next |-> -1, done |-> FALSE]
           \/ i \in DOMAIN requested[p] /\ requested'[p][i] = requested[p][i]
    BY <1>1, <2>1, NewEntry
  <2>3. ASSUME NEW p \in Origins, NEW i, IsEntry(f, p, i)'
        PROVE  /\ p = o /\ i = Len(requested[o]) + 1
               /\ requested'[p][i] = [file |-> f, next |-> -1, done |-> FALSE]
    <3>1. i \in DOMAIN requested'[p] /\ requested'[p][i].file = f
      BY <2>3 DEF IsEntry
    <3>2. ~(i \in DOMAIN requested[p] /\ requested'[p][i] = requested[p][i])
      BY <1>7, <3>1 DEF IsEntry
    <3> QED
      BY <2>2, <3>1, <3>2
  <2> QED
    BY <2>3
<1>9. ASSUME NEW p \in Origins, NEW i, IsEntry(f, p, i)'
      PROVE  EntryOK(f, p, i)'
  <2>1. ~requested'[p][i].done /\ requested'[p][i].next = -1
    BY <1>8, <1>9
  <2>2. Tied(f, requested[p][i])'
    BY <1>4, <1>6, <2>1 DEF Tied, Progress
  <2>3. \A q \in Origins : \A j : IsEntry(f, q, j)' => q = p /\ j = i
    BY <1>8, <1>9
  <2> QED
    BY <1>2, <2>2, <2>3 DEF EntryOK
<1> QED
  BY <1>2, <1>3, <1>4, <1>6, <1>9 DEF NamedOK

\* A command for another file.
LEMMA OtherRequestOK ==
    ASSUME TypeOK, NEW f \in ByName, NamedOK(f), NEW g \in Files \ {f}, NEW o \in Origins,
           NEW newName \in BOOLEAN, Request(g, o, newName)
    PROVE  NamedOK(f)'
<1>1. UNCHANGED <<awaiting[f], disk[f], commands[f]>>
  BY DEF Request, TypeOK
<1>2. MyFileOf(f)' = MyFileOf(f)
  BY SetFileElse DEF Request
<1>3. requested' = [requested EXCEPT ![o] =
                      Append(@, [file |-> g, next |-> -1, done |-> FALSE])]
  BY DEF Request
<1>4. \A p \in Origins : \A i \in DOMAIN requested'[p] :
         \/ p = o /\ i = Len(requested[o]) + 1
            /\ requested'[p][i] = [file |-> g, next |-> -1, done |-> FALSE]
         \/ i \in DOMAIN requested[p] /\ requested'[p][i] = requested[p][i]
  BY <1>3, NewEntry
<1>5. \A p \in Origins : \A i : IsEntry(f, p, i)' =>
         IsEntry(f, p, i) /\ requested'[p][i] = requested[p][i]
  BY <1>4 DEF IsEntry
<1> QED
  BY <1>1, <1>2, <1>5, StillOK

\* What is done to a found file leaves f alone.
LEMMA OtherFileOK ==
    ASSUME TypeOK, NEW f \in ByName, NamedOK(f), NEW g \in Files \ {f}, NEW file,
           SetFile(g, file), UNCHANGED requested,
           awaiting'[f] = awaiting[f], disk'[f] = disk[f], commands'[f] = commands[f]
    PROVE  NamedOK(f)'
<1>1. MyFileOf(f)' = MyFileOf(f)
  BY SetFileElse
<1> QED
  BY <1>1, StillOK DEF IsEntry

\* An entry of the index that is gone.
LEMMA DeletedOK ==
    ASSUME NEW f \in ByName, NamedOK(f), NEW h, DeleteFile(h),
           UNCHANGED <<requested, awaiting, disk, commands>>
    PROVE  NamedOK(f)'
<1>1. MyFileOf(f)' = MyFileOf(f) \/ ~MyFileOf(f)'.named
  BY DeleteFileElse DEF ZeroFile
<1> QED
  BY <1>1, StillOK DEF IsEntry

\* The entries of other files do not matter to f.
LEMMA OtherEntryOK ==
    ASSUME TypeOK, NEW f \in ByName, NamedOK(f), NEW g \in Files \ {f}, NEW o \in Origins,
           NEW i \in DOMAIN requested[o], requested[o][i].file = g,
           NEW file, SetFile(g, file),
           UNCHANGED <<awaiting[f], disk[f], commands[f]>>,
           \/ UNCHANGED requested
           \/ requested' = [requested EXCEPT ![o][i].done = TRUE]
           \/ requested' = [requested EXCEPT ![o][i].next = @ + 1]
           \/ requested' = [requested EXCEPT ![o][i].next = 0]
    PROVE  NamedOK(f)'
<1>1. MyFileOf(f)' = MyFileOf(f)
  BY SetFileElse
<1>2. requested \in [Origins -> Seq(FileAndIndex)] /\ requested[o][i] \in FileAndIndex
  BY EntryType DEF TypeOK
<1>3. ASSUME NEW e, e.file = g,
             requested' = [requested EXCEPT ![o] = [requested[o] EXCEPT ![i] = e]]
      PROVE  \A p \in Origins : \A j : IsEntry(f, p, j)' =>
                IsEntry(f, p, j) /\ requested'[p][j] = requested[p][j]
  <2>1. /\ \A p \in Origins : DOMAIN requested'[p] = DOMAIN requested[p]
        /\ requested'[o][i] = e
        /\ \A p \in Origins : \A j \in DOMAIN requested[p] :
              p # o \/ j # i => requested'[p][j] = requested[p][j]
    BY <1>2, <1>3
  <2> QED
    BY <1>3, <2>1 DEF IsEntry
<1>4. /\ [requested[o][i] EXCEPT !.done = TRUE].file = g
      /\ [requested[o][i] EXCEPT !.next = @ + 1].file = g
      /\ [requested[o][i] EXCEPT !.next = 0].file = g
  BY <1>2 DEF FileAndIndex
<1>5. \A p \in Origins : \A j : IsEntry(f, p, j)' =>
         IsEntry(f, p, j) /\ requested'[p][j] = requested[p][j]
  <2>1. CASE UNCHANGED requested
    BY <2>1 DEF IsEntry
  <2>2. CASE requested' = [requested EXCEPT ![o][i].done = TRUE]
    BY <1>3, <1>4, <2>2
  <2>3. CASE requested' = [requested EXCEPT ![o][i].next = @ + 1]
    BY <1>3, <1>4, <2>3
  <2>4. CASE requested' = [requested EXCEPT ![o][i].next = 0]
    BY <1>3, <1>4, <2>4
  <2> QED
    BY <2>1, <2>2, <2>3, <2>4
<1> QED
  BY <1>1, <1>5, StillOK

LEMMA HandledOK ==
    ASSUME TypeOK, NEW f \in ByName, \A g \in ByName : NamedOK(g), HandleReply
    PROVE  NamedOK(f)'
<1>0. f \in Files /\ NamedOK(f) /\ UNCHANGED commands
  BY DEF ByName, HandleReply, boundVars
<1>1. PICK o \in Origins, h \in Hashes : ReplyEffect(o, h)
  BY HandleCases
<1>2. CASE DeleteFile(h) /\ UNCHANGED <<requested, awaiting, disk>>
  BY <1>0, <1>2, DeletedOK
<1>3. CASE UNCHANGED <<indexed, requested, awaiting, disk>>
  BY <1>0, <1>3, StillOK DEF MyFileOf, IsEntry
<1>4. CASE FoundChunk(o, h)
  <2>1. PICK g \in AwaitingChunk(h) :
           /\ WriteChunk(g, h)
           /\ \E file : SetFile(g, file)
           /\ UNCHANGED awaiting \/ awaiting' = [awaiting EXCEPT ![g] = "none"]
           /\ UNCHANGED requested
    BY <1>4 DEF FoundChunk
  <2>2. g \in Files /\ awaiting[g] = "known" /\ g # f
    BY <1>0 DEF AwaitingChunk, NamedOK
  <2>3. awaiting'[f] = awaiting[f] /\ disk'[f] = disk[f]
    BY <1>0, <2>1, <2>2 DEF WriteChunk, TypeOK
  <2> QED
    BY <1>0, <2>1, <2>2, <2>3, OtherFileOK
<1>5. CASE FoundMetafile(h)
  <2>1. CASE UNCHANGED fileVars
    BY <1>3, <2>1 DEF fileVars
  <2>2. CASE ~UNCHANGED fileVars
    <3>1. /\ h \in Files /\ awaiting[h] # "none"
          /\ awaiting' = [awaiting EXCEPT ![h] = "known"]
          /\ \E file : SetFile(h, file)
          /\ UNCHANGED <<requested, disk>>
      BY <1>5, <2>2 DEF FoundMetafile, AwaitingMetafile
    <3>2. h # f
      BY <1>0, <3>1 DEF NamedOK
    <3> QED
      BY <1>0, <3>1, <3>2, OtherFileOK DEF TypeOK
  <2> QED
    BY <2>1, <2>2
<1>6. CASE RequestedMetafile(o, h)
  <2>1. CASE h = f
    BY <1>0, <1>6, <2>1, MetafileOK
  <2>2. CASE h # f
    <3>1. PICK i \in DOMAIN requested[o] :
             /\ i = First(MetafileEntries(o, h))
             /\ h \in Files /\ requested[o][i].file = h
      BY <1>6, MetafileEntry DEF RequestedMetafile
    <3>2. PICK file : SetFile(h, file)
      BY <1>6 DEF RequestedMetafile
    <3>3. requested' = [requested EXCEPT ![o][i].next = 0] /\ UNCHANGED <<awaiting, disk>>
      BY <1>6, <3>1 DEF RequestedMetafile
    <3> QED
      BY <1>0, <2>2, <3>1, <3>2, <3>3, OtherEntryOK
  <2> QED
    BY <2>1, <2>2
<1>7. ASSUME NEW i \in DOMAIN requested[o], NEW g \in Files, g = requested[o][i].file,
             requested[o][i].next \in 0 .. Len(Chunks[g]) - 1,
             h \in ChunkIds,
             h = ChunkAt(g, requested[o][i].next),
             ChunkStep(o, i, g, requested[o][i].next, h)
      PROVE  NamedOK(f)'
  <2>1. CASE g = f
    BY <1>0, <1>7, <2>1, ChunkOK
  <2>2. CASE g # f
    <3>1. PICK file : SetFile(g, file)
      BY <1>7 DEF ChunkStep
    <3>2. UNCHANGED <<awaiting[f], disk[f], commands[f]>>
      BY <1>0, <1>7, <2>2, WriteType DEF ChunkStep
    <3>3. \/ UNCHANGED requested
          \/ requested' = [requested EXCEPT ![o][i].done = TRUE]
          \/ requested' = [requested EXCEPT ![o][i].next = @ + 1]
      BY <1>7 DEF ChunkStep
    <3> QED
      BY <1>0, <1>7, <2>2, <3>1, <3>2, <3>3, OtherEntryOK
  <2> QED
    BY <2>1, <2>2
<1> QED
  BY <1>1, <1>2, <1>3, <1>4, <1>5, <1>6, <1>7 DEF ReplyEffect

LEMMA NamedInit == Init => \A f \in ByName : NamedOK(f)
<1> SUFFICES ASSUME Init, NEW f \in ByName
             PROVE  NamedOK(f)
  OBVIOUS
<1>1. f \in Files /\ Chunks[f] \in Seq(ChunkIds) /\ Len(Chunks[f]) \in Nat \ {0}
  BY ChunkTypes DEF ByName
<1>2. disk[f] = SubSeq(Chunks[f], 1, 0)
  BY <1>1, NoChunks DEF Init
<1>3. disk[f] \in BeginningOf(f)
  BY <1>1, <1>2 DEF BeginningOf
<1>4. \A o \in Origins : \A i : ~IsEntry(f, o, i)
  BY DEF Init, IsEntry
<1>5. ~MyFileOf(f).named
  BY DEF Init, MyFileOf, ZeroFile
<1> QED
  BY <1>1, <1>3, <1>4, <1>5 DEF Init, NamedOK

\* The disk, the index and the entries of requests agree.
THEOREM AlwaysAgree ==
    ASSUME MaxCommands <= 1
    PROVE  Spec => [](\A f \in ByName : NamedOK(f))
<1>1. TypeOK /\ (\A f \in ByName : NamedOK(f)) /\ [Next]_vars =>
         (\A f \in ByName : NamedOK(f))'
  <2> SUFFICES ASSUME TypeOK, \A g \in ByName : NamedOK(g), [Next]_vars, NEW f \in ByName
               PROVE  NamedOK(f)'
    BY DEF ByName
  <2>0. NamedOK(f) /\ f \in Files
    BY DEF ByName
  <2>1. CASE UNCHANGED <<fileVars, commands>>
    BY <2>0, <2>1, StillOK DEF fileVars, MyFileOf, IsEntry
  <2>2. ASSUME NEW g \in Files, NEW o \in Origins, NEW newName \in BOOLEAN,
               Request(g, o, newName)
        PROVE  NamedOK(f)'
    <3>1. CASE g = f
      BY <2>0, <2>2, <3>1, RequestOK
    <3>2. CASE g # f
      BY <2>0, <2>2, <3>2, OtherRequestOK
    <3> QED
      BY <3>1, <3>2
  <2>3. ASSUME NEW g \in Files, SearchDownload(g)
        PROVE  NamedOK(f)'
    <3>1. g # f
      BY <2>3 DEF SearchDownload, ByName
    <3>2. PICK file : SetFile(g, file)
      BY <2>3 DEF SearchDownload
    <3>3. /\ awaiting'[f] = awaiting[f] /\ disk'[f] = disk[f]
          /\ commands'[f] = commands[f] /\ UNCHANGED requested
      BY <2>0, <2>3, <3>1 DEF SearchDownload, TypeOK
    <3> QED
      BY <2>0, <3>1, <3>2, <3>3, OtherFileOK
  <2>4. ASSUME NEW r \in replies, NEW again \in BOOLEAN, TakeReply(r, again)
        PROVE  NamedOK(f)'
    <3>1. CASE DeleteFile(r.hash)
      BY <2>0, <2>4, <3>1, DeletedOK DEF TakeReply
    <3>2. CASE UNCHANGED indexed
      BY <2>1, <2>4, <3>2 DEF TakeReply, fileVars
    <3> QED
      BY <2>4, <3>1, <3>2 DEF TakeReply
  <2>5. CASE HandleReply
    BY <2>5, HandledOK
  <2>6. CASE \/ ListTimer \/ StopHead \/ RemoveOldest
             \/ \E o \in Origins : ExpireListed(o)
             \/ \E g \in BagToSet(goroutines) : TimerStep(g)
             \/ \E q \in requests : Serve(q) \/ LoseRequest(q)
             \/ \E r \in replies : LoseReply(r)
    <3>1. UNCHANGED <<fileVars, commands>>
      BY <2>6 DEF ListTimer, StopHead, RemoveOldest, ExpireListed, TimerStep, ExpireUnlisted,
                  RemoveTimer, SendAgain, ListAgain, Serve, LoseRequest, LoseReply, boundVars
    <3> QED
      BY <2>1, <3>1
  <2> QED
    BY <2>1, <2>2, <2>3, <2>4, <2>5, <2>6 DEF Next, vars, fileVars
<1> QED
  BY <1>1, NamedInit, TypeCorrect, PTL DEF Spec

\* A file that is asked for by name once grows by the right chunks in the right
\* order, whatever is late, lost or repeated, and whatever other downloads its node
\* serves; only the last chunk of a whole file may follow again (main.go:671-681).
THEOREM AlwaysWrittenInOrder ==
    ASSUME MaxCommands <= 1
    PROVE  Spec => []WrittenInOrder
<1>1. (\A f \in ByName : NamedOK(f)) => WrittenInOrder
  BY DEF NamedOK, ByName, WrittenInOrder
<1> QED
  BY <1>1, AlwaysAgree, PTL

\* Such a file, as long as it has its name, is whole when it is called reconstructed
\* (main.go:689).
THEOREM DoneAlwaysWhole ==
    ASSUME MaxCommands <= 1
    PROVE  Spec => []DoneIsWhole
<1>1. TypeOK /\ (\A f \in ByName : NamedOK(f)) => DoneIsWhole
  BY DEF TypeOK, NamedOK, ByName, DoneIsWhole, MyFileOf
<1> QED
  BY <1>1, AlwaysAgree, TypeCorrect, PTL
=============================================================================
