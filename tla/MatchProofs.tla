------------------------------ MODULE MatchProofs ------------------------------
(***************************************************************************)
(* What a searching node may rely on, with any files, keywords, nodes and  *)
(* searches: its lists of places, and what it has shown to the user.       *)
(***************************************************************************)
EXTENDS SearchMatches, FiniteSetTheorems, WellFoundedInduction, TLAPS

-----------------------------------------------------------------------------
(* Types. *)

InfoType(i) ==
    DOMAIN i \subseteq Keywords /\ \A k \in DOMAIN i : IsPartial(i[k], Files, Entry)

LEMMA EntryType ==
    ASSUME NEW places \in [Holders -> SUBSET Nat], NEW n \in Nat,
           NEW metafile \in BOOLEAN, NEW found \in BOOLEAN, NEW shown \in BOOLEAN
    PROVE  [places |-> places, nbOfChunks |-> n, metafile |-> metafile,
            foundAllChunks |-> found, alreadyShown |-> shown] \in Entry
BY DEF Entry

\* Showing files leaves places, counts and metafiles alone.
LEMMA ShowEffect ==
    ASSUME NEW newInfo, NEW ks, NEW order, NEW newOwn,
           Show(newInfo, ks, order, newOwn)
    PROVE  /\ DOMAIN info' = DOMAIN newInfo
           /\ \A k \in DOMAIN newInfo :
                 /\ DOMAIN info'[k] = DOMAIN newInfo[k]
                 /\ \A f \in DOMAIN newInfo[k] : \E b \in BOOLEAN :
                       info'[k][f] = [newInfo[k][f] EXCEPT !.alreadyShown = @ \/ b]
BY DEF Show

LEMMA ShowType ==
    ASSUME TypeOK, NEW newInfo, NEW ks, NEW order, NEW newOwn \in [Files -> MyFile],
           InfoType(newInfo), Show(newInfo, ks, order, newOwn)
    PROVE  /\ InfoType(info')
           /\ own' \in [Files -> MyFile]
           /\ matches' \in [Files -> Nat]
<1>1. InfoType(info')
  <2>1. ASSUME NEW k \in DOMAIN newInfo, NEW f \in DOMAIN newInfo[k]
        PROVE  info'[k][f] \in Entry
    <3>1. newInfo[k][f] \in Entry
      BY DEF InfoType, IsPartial
    <3>2. PICK b \in BOOLEAN :
             info'[k][f] = [newInfo[k][f] EXCEPT !.alreadyShown = @ \/ b]
      BY ShowEffect
    <3> QED
      BY <3>1, <3>2 DEF Entry
  <2> QED
    BY <2>1, ShowEffect DEF InfoType, IsPartial
<1>2. own' \in [Files -> MyFile]
  <2>1. \A f \in Files : \E b \in BOOLEAN :
           own'[f] = [newOwn[f] EXCEPT !.alreadyShown = @ \/ b]
    BY DEF Show
  <2>2. \A f \in Files : own'[f] \in MyFile
    BY <2>1 DEF MyFile
  <2>3. own' = [f \in Files |-> own'[f]]
    BY DEF Show
  <2> QED
    BY <2>2, <2>3
<1>3. matches' \in [Files -> Nat]
  BY DEF Show, TypeOK
<1> QED
  BY <1>1, <1>2, <1>3

LEMMA NormalType ==
    ASSUME NEW chunkMap \in SUBSET (Nat \ {0})
    PROVE  NormalChunkMap(chunkMap) \in SUBSET Nat
BY DEF NormalChunkMap

LEMMA UpdatedEntryType ==
    ASSUME NEW entry \in Entry, NEW h \in Holders, NEW result \in Result
    PROVE  UpdatedEntry(entry, h, result) \in Entry
<1> DEFINE places == MissingOf(entry.places, h, NormalChunkMap(result.chunkMap))
<1>1. result.chunkMap \in SUBSET (Nat \ {0})
  BY DEF Result
<1>2. places \in [Holders -> SUBSET Nat]
  BY <1>1, NormalType DEF Entry, MissingOf
<1>3. PICK b \in BOOLEAN : UpdatedEntry(entry, h, result)
          = [entry EXCEPT !.places = places, !.foundAllChunks = @ \/ b]
  BY DEF UpdatedEntry
<1> HIDE DEF places
<1> QED
  BY <1>2, <1>3 DEF Entry

LEMMA NewEntryType ==
    ASSUME TypeOK, NEW f \in Files, NEW h \in Holders, NEW result \in Result
    PROVE  NewEntry(f, h, result) \in Entry
<1> DEFINE places == [g \in Holders |->
                         IF g = h THEN NormalChunkMap(result.chunkMap) ELSE {}]
<1>1. result.chunkMap \in SUBSET (Nat \ {0}) /\ result.chunkCount \in Nat
  BY DEF Result
<1>2. places \in [Holders -> SUBSET Nat]
  BY <1>1, NormalType
<1>3. own[f].metafile \in BOOLEAN
  BY DEF TypeOK, MyFile
<1>4. PICK b \in BOOLEAN : NewEntry(f, h, result)
          = [places |-> places, nbOfChunks |-> result.chunkCount,
             metafile |-> own[f].metafile, foundAllChunks |-> b, alreadyShown |-> FALSE]
  BY DEF NewEntry
<1> HIDE DEF places
<1> QED
  BY <1>1, <1>2, <1>3, <1>4, EntryType

LEMMA WithResultType ==
    ASSUME TypeOK, NEW k \in DOMAIN info, NEW f \in Files, NEW h \in Holders,
           NEW result \in Result
    PROVE  WithResult(k, f, h, result) \in Entry
<1> DEFINE once == IF f \in DOMAIN info[k] THEN UpdatedEntry(info[k][f], h, result)
                   ELSE NewEntry(f, h, result)
<1>1. once \in Entry
  BY UpdatedEntryType, NewEntryType DEF TypeOK, IsPartial
<1>2. UpdatedEntry(once, h, result) \in Entry
  BY <1>1, UpdatedEntryType
<1> QED
  BY <1>1, <1>2 DEF WithResult

LEMMA InfoWithReplyType ==
    ASSUME TypeOK, NEW r \in replies
    PROVE  InfoType(InfoWithReply(r))
<1>1. r.from \in Holders /\ IsPartial(r.results, Files, Result)
  BY DEF TypeOK
<1>2. ASSUME NEW k \in DOMAIN info, NEW f \in DOMAIN info[k] \cup News(r, k)
      PROVE  f \in Files /\ InfoWithReply(r)[k][f] \in Entry
  <2>1. CASE f \in News(r, k)
    <3>1. f \in Files /\ r.results[f] \in Result
      BY <1>1, <2>1 DEF News, IsPartial
    <3> QED
      BY <1>1, <2>1, <3>1, WithResultType DEF InfoWithReply
  <2>2. CASE f \notin News(r, k)
    BY <2>2 DEF InfoWithReply, TypeOK, IsPartial
  <2> QED
    BY <2>1, <2>2
<1> QED
  BY <1>2 DEF InfoWithReply, InfoType, IsPartial, TypeOK

LEMMA InfoWithMetafileType ==
    ASSUME TypeOK, NEW f \in Files
    PROVE  InfoType(InfoWithMetafile(f))
<1>1. ASSUME NEW entry \in Entry
      PROVE  WithMetafile(entry, f) \in Entry
  <2>1. PICK b \in BOOLEAN : WithMetafile(entry, f)
            = [entry EXCEPT !.metafile = TRUE, !.nbOfChunks = Count[f],
                            !.foundAllChunks = @ \/ b]
    BY DEF WithMetafile
  <2>2. Count[f] \in Nat
    BY FilesAssumption
  <2> QED
    BY <2>1, <2>2 DEF Entry
<1>2. ASSUME NEW k \in DOMAIN info, NEW g \in DOMAIN info[k]
      PROVE  InfoWithMetafile(f)[k][g] \in Entry
  BY <1>1 DEF InfoWithMetafile, TypeOK, IsPartial
<1> QED
  BY <1>2 DEF InfoWithMetafile, InfoType, IsPartial, TypeOK

Offers(h, f) ==
    OfferBegins(h, f) \/ OfferGrows(h, f) \/ OfferRestarts(h, f) \/ OfferVanishes(h, f)

\* A step of another node's downloads changes what it offers of one file, and offers
\* no more chunks of it than there are.
LEMMA OffersStep ==
    ASSUME TypeOK, NEW h \in Holders, NEW f \in Files, Offers(h, f)
    PROVE  /\ UNCHANGED <<ownVars, downloadVars, replies, sent>>
           /\ DOMAIN offers' = Holders
           /\ \A g \in Holders : IsPartial(offers'[g], Files, Offer)
           /\ \A g \in Holders : \A e \in DOMAIN offers'[g] :
                 \/ e \in DOMAIN offers[g] /\ offers'[g][e] = offers[g][e]
                 \/ offers'[g][e].next <= Count[e]
<1> USE DEF Offers
<1>1. UNCHANGED <<ownVars, downloadVars, replies, sent>>
  BY DEF OfferBegins, OfferGrows, OfferRestarts, OfferVanishes
<1>2. Count[f] \in Nat \ {0}
  BY FilesAssumption
<1>3. CASE OfferBegins(h, f)
  <2> DEFINE item == [metafile |-> FALSE, next |-> 0]
  <2>1. item \in Offer /\ item.next <= Count[f]
    BY <1>2 DEF Offer
  <2>2. offers' = [offers EXCEPT ![h] =
                      [g \in DOMAIN offers[h] \cup {f} |->
                          IF g = f THEN item ELSE offers[h][g]]]
    BY <1>3 DEF OfferBegins
  <2> HIDE DEF item
  <2> QED
    BY <1>1, <2>1, <2>2 DEF TypeOK, IsPartial
<1>4. ASSUME NEW item \in Offer, item.next <= Count[f], f \in DOMAIN offers[h],
             offers' = [offers EXCEPT ![h] = [offers[h] EXCEPT ![f] = item]]
      PROVE  /\ DOMAIN offers' = Holders
             /\ \A g \in Holders : IsPartial(offers'[g], Files, Offer)
             /\ \A g \in Holders : \A e \in DOMAIN offers'[g] :
                   \/ e \in DOMAIN offers[g] /\ offers'[g][e] = offers[g][e]
                   \/ offers'[g][e].next <= Count[e]
  BY <1>4 DEF TypeOK, IsPartial
<1>5. CASE OfferGrows(h, f)
  <2> DEFINE item == Grown(offers[h][f])
  <2>1. offers[h][f] \in Offer /\ offers[h][f].next < Count[f]
    BY <1>5 DEF OfferGrows, TypeOK, IsPartial
  <2>2. item \in Offer /\ item.next \in {offers[h][f].next, offers[h][f].next + 1}
    <3>1. [offers[h][f] EXCEPT !.next = @ + 1] \in Offer
      BY <2>1 DEF Offer
    <3>2. [offers[h][f] EXCEPT !.metafile = TRUE] \in Offer
      BY <2>1 DEF Offer
    <3> QED
      BY <2>1, <3>1, <3>2 DEF Grown, Offer
  <2>3. offers' = [offers EXCEPT ![h] = [offers[h] EXCEPT ![f] = item]]
        /\ f \in DOMAIN offers[h]
    BY <1>5 DEF OfferGrows
  <2> HIDE DEF item
  <2>4. item.next <= Count[f]
    BY <1>2, <2>1, <2>2 DEF Offer
  <2> QED
    BY <1>1, <1>4, <2>2, <2>3, <2>4
<1>6. CASE OfferRestarts(h, f)
  <2>1. PICK known \in BOOLEAN :
           offers' = [offers EXCEPT ![h][f] = [metafile |-> known, next |-> 0]]
    BY <1>6 DEF OfferRestarts
  <2> DEFINE item == [metafile |-> known, next |-> 0]
  <2>2. item \in Offer /\ item.next <= Count[f]
    BY <1>2 DEF Offer
  <2>3. offers' = [offers EXCEPT ![h] = [offers[h] EXCEPT ![f] = item]]
        /\ f \in DOMAIN offers[h]
    BY <1>6, <2>1 DEF OfferRestarts
  <2> HIDE DEF item
  <2> QED
    BY <1>1, <1>4, <2>2, <2>3
<1>7. CASE OfferVanishes(h, f)
  <2>1. offers' = [offers EXCEPT ![h] = [g \in DOMAIN offers[h] \ {f} |-> offers[h][g]]]
    BY <1>7 DEF OfferVanishes
  <2> QED
    BY <1>1, <2>1 DEF TypeOK, IsPartial
<1> QED
  BY <1>1, <1>3, <1>5, <1>6, <1>7

\* What a node lists in a reply: numbers of chunks that it has, counted from one.
LEMMA ReplyType ==
    ASSUME TypeOK, NEW h \in Holders, NEW s \in Searches, SendReply(h, s)
    PROVE  \E r : /\ replies' = replies \cup {r}
                  /\ r.from = h /\ IsPartial(r.results, Files, Result)
                  /\ \A f \in DOMAIN r.results :
                        /\ f \in DOMAIN offers[h]
                        /\ r.results[f].chunkMap = ChunkMap(offers[h][f])
                        /\ r.results[f].chunkCount \in {0, Count[f]}
<1> DEFINE listed == {f \in DOMAIN offers[h] : Matching[f] \cap s # {}}
           Item(f) == [chunkMap |-> ChunkMap(offers[h][f]),
                       chunkCount |-> IF offers[h][f].metafile THEN Count[f] ELSE 0,
                       several |-> Cardinality(Matching[f] \cap s) > 1]
           r == [from |-> h, results |-> [f \in listed |-> Item(f)]]
<1>1. ASSUME NEW f \in listed
      PROVE  f \in Files /\ Item(f) \in Result
  <2>1. f \in Files /\ offers[h][f] \in Offer
    BY DEF TypeOK, IsPartial
  <2>2. ChunkMap(offers[h][f]) \in SUBSET (Nat \ {0})
    BY <2>1 DEF ChunkMap, Offer
  <2>3. (IF offers[h][f].metafile THEN Count[f] ELSE 0) \in Nat
    BY <2>1, FilesAssumption
  <2>4. (Cardinality(Matching[f] \cap s) > 1) \in BOOLEAN
    <3>1. IsFiniteSet(Matching[f] \cap s)
      BY <2>1, FilesAssumption, FS_Subset
    <3>2. Cardinality(Matching[f] \cap s) \in Nat
      BY <3>1, FS_CardinalityType
    <3> QED
      BY <3>2
  <2> QED
    BY <2>1, <2>2, <2>3, <2>4 DEF Result
<1>2. replies' = replies \cup {r}
  BY DEF SendReply
<1>3. IsPartial([f \in listed |-> Item(f)], Files, Result)
  BY <1>1 DEF IsPartial
<1>4. \A f \in listed :
         /\ f \in DOMAIN offers[h]
         /\ Item(f).chunkMap = ChunkMap(offers[h][f])
         /\ Item(f).chunkCount \in {0, Count[f]}
  OBVIOUS
<1> HIDE DEF listed, Item
<1>5. /\ r.from = h /\ r.results = [f \in listed |-> Item(f)]
      /\ DOMAIN r.results = listed /\ \A f \in listed : r.results[f] = Item(f)
  OBVIOUS
<1> HIDE DEF r
<1>6. /\ r.from = h /\ IsPartial(r.results, Files, Result)
      /\ \A f \in DOMAIN r.results :
            /\ f \in DOMAIN offers[h]
            /\ r.results[f].chunkMap = ChunkMap(offers[h][f])
            /\ r.results[f].chunkCount \in {0, Count[f]}
  BY <1>3, <1>4, <1>5
<1> QED
  BY <1>2, <1>6

\* The types are inductive.
LEMMA TypeStep ==
    ASSUME TypeOK, [Next]_vars
    PROVE  TypeOK'
<1>1. ASSUME NEW h \in Holders, NEW f \in Files, Offers(h, f)
      PROVE  TypeOK'
  <2>1. /\ UNCHANGED <<ownVars, downloadVars, replies, sent>>
        /\ DOMAIN offers' = Holders
        /\ \A g \in Holders : IsPartial(offers'[g], Files, Offer)
    BY <1>1, OffersStep
  <2> QED
    BY <2>1 DEF TypeOK, ownVars, downloadVars
<1>2. ASSUME NEW h \in Holders, NEW s \in Searches, SendReply(h, s)
      PROVE  TypeOK'
  <2>1. \A r \in replies' : r.from \in Holders /\ IsPartial(r.results, Files, Result)
    BY <1>2, ReplyType DEF TypeOK
  <2>2. sent' \in 0 .. MaxReplies
    BY <1>2, CommandsAssumption DEF SendReply, TypeOK
  <2>3. UNCHANGED <<offers, ownVars, downloadVars>>
    BY <1>2 DEF SendReply
  <2> QED
    BY <2>1, <2>2, <2>3 DEF TypeOK, ownVars, downloadVars
<1>3. ASSUME NEW r \in replies, NEW order \in Orders, ReceiveReply(r, order)
      PROVE  TypeOK'
  <2> DEFINE matched == {k \in DOMAIN info : News(r, k) # {}}
  <2>1. /\ Show(InfoWithReply(r), matched, order, own)
        /\ CountMatches(matched)
        /\ replies' = replies \ {r}
        /\ UNCHANGED <<offers, downloadVars, sent>>
    BY <1>3 DEF ReceiveReply
  <2>2. own \in [Files -> MyFile]
    BY DEF TypeOK
  <2>3. InfoType(info') /\ own' \in [Files -> MyFile] /\ matches' \in [Files -> Nat]
    BY <2>1, <2>2, InfoWithReplyType, ShowType
  <2>4. IsPartial(searches', Searches, Nat)
    <3>1. \A s \in DOMAIN searches : Cardinality(s \cap matched) \in Nat
      <4>1. \A s \in DOMAIN searches : IsFiniteSet(s \cap matched)
        BY FilesAssumption, CommandsAssumption, FS_Subset DEF TypeOK, IsPartial
      <4> QED
        BY <4>1, FS_CardinalityType
    <3>2. searches' = [s \in DOMAIN searches |->
                          searches[s] + Cardinality(s \cap matched)]
      BY <2>1 DEF CountMatches
    <3>3. DOMAIN searches \subseteq Searches /\ \A s \in DOMAIN searches : searches[s] \in Nat
      BY DEF TypeOK, IsPartial
    <3> HIDE DEF matched
    <3>4. \A s \in DOMAIN searches : searches[s] + Cardinality(s \cap matched) \in Nat
      BY <3>1, <3>3
    <3> QED
      BY <3>2, <3>3, <3>4 DEF IsPartial
  <2> QED
    BY <2>1, <2>3, <2>4 DEF TypeOK, InfoType, downloadVars
<1>4. ASSUME NEW s \in Searches, Search(s)
      PROVE  TypeOK'
  <2>1. IsPartial(searches', Searches, Nat)
    BY <1>4 DEF Search, TypeOK, IsPartial
  <2>2. InfoType(info')
    BY <1>4, CommandsAssumption DEF Search, TypeOK, InfoType, IsPartial
  <2>3. UNCHANGED <<offers, own, matches, downloadVars, replies, sent>>
    BY <1>4 DEF Search
  <2> QED
    BY <2>1, <2>2, <2>3 DEF TypeOK, InfoType, downloadVars
<1>5. ASSUME NEW f \in Files, SearchDownload(f)
      PROVE  TypeOK'
  <2>1. own' \in [Files -> MyFile]
    BY <1>5 DEF SearchDownload, TypeOK, MyFile, ZeroFile
  <2>2. downloads' \in [Files -> 0 .. MaxDownloads]
    BY <1>5, CommandsAssumption DEF SearchDownload, TypeOK
  <2>3. awaiting' \in [Files -> {"none", "asked", "known"}] /\ asked' \subseteq Files
    BY <1>5 DEF SearchDownload, RequestMetafile, TypeOK
  <2>4. UNCHANGED <<offers, info, searches, matches, fetching, deletions, replies, sent>>
    BY <1>5 DEF SearchDownload
  <2> QED
    BY <2>1, <2>2, <2>3, <2>4 DEF TypeOK
<1>6. ASSUME NEW f \in Files, NEW order \in Orders, ReceiveMetafile(f, order)
      PROVE  TypeOK'
  <2> DEFINE newOwn == [own EXCEPT ![f].metafile = TRUE]
  <2>1. newOwn \in [Files -> MyFile]
    <3>1. own[f] \in MyFile
      BY DEF TypeOK
    <3>2. [own[f] EXCEPT !.metafile = TRUE] \in MyFile
      BY <3>1 DEF MyFile
    <3> QED
      BY <3>2 DEF TypeOK
  <2>2. PICK ks : Show(InfoWithMetafile(f), ks, order, newOwn)
    BY <1>6 DEF ReceiveMetafile
  <2>3. InfoType(info') /\ own' \in [Files -> MyFile] /\ matches' \in [Files -> Nat]
    BY <2>1, <2>2, InfoWithMetafileType, ShowType
  <2>4. awaiting' \in [Files -> {"none", "asked", "known"}] /\ fetching' \subseteq Files
    BY <1>6 DEF ReceiveMetafile, TypeOK
  <2>5. UNCHANGED <<offers, searches, asked, downloads, deletions, replies, sent>>
    BY <1>6 DEF ReceiveMetafile
  <2> QED
    BY <2>3, <2>4, <2>5 DEF TypeOK, InfoType
<1>7. ASSUME NEW f \in Files, NEW last \in BOOLEAN, ReceiveChunk(f, last)
      PROVE  TypeOK'
  <2>1. own' \in [Files -> MyFile]
    <3> DEFINE first == [own EXCEPT ![f].metafile = TRUE]
    <3>1. first \in [Files -> MyFile]
      BY DEF TypeOK, MyFile
    <3>2. own' = [first EXCEPT ![f].done = @ \/ last]
      BY <1>7 DEF ReceiveChunk
    <3> HIDE DEF first
    <3> QED
      BY <3>1, <3>2 DEF MyFile
  <2>2. awaiting' \in [Files -> {"none", "asked", "known"}] /\ fetching' \subseteq Files
    BY <1>7 DEF ReceiveChunk, TypeOK
  <2>3. UNCHANGED <<offers, info, searches, matches, asked, downloads, deletions,
                   replies, sent>>
    BY <1>7 DEF ReceiveChunk
  <2> QED
    BY <2>1, <2>2, <2>3 DEF TypeOK
<1>8. ASSUME NEW f \in Files, DeleteFile(f)
      PROVE  TypeOK'
  <2>1. own' \in [Files -> MyFile]
    BY <1>8 DEF DeleteFile, TypeOK, MyFile, ZeroFile
  <2>2. deletions' \in [Files -> 0 .. MaxDeletions]
    BY <1>8, CommandsAssumption DEF DeleteFile, TypeOK
  <2>3. UNCHANGED <<offers, info, searches, matches, awaiting, asked, fetching,
                   downloads, replies, sent>>
    BY <1>8 DEF DeleteFile
  <2> QED
    BY <2>1, <2>2, <2>3 DEF TypeOK
<1>9. CASE UNCHANGED vars
  BY <1>9 DEF TypeOK, vars, ownVars, downloadVars
<1> QED
  BY <1>1, <1>2, <1>3, <1>4, <1>5, <1>6, <1>7, <1>8, <1>9
  DEF Next, Offers, TypeOK, IsPartial

\* Every variable keeps its type: replies list chunks from one on, entries count
\* them from zero, whatever nodes offer and however replies are repeated.
THEOREM TypeCorrect == Spec => []TypeOK
<1>1. Init => TypeOK
  <2> SUFFICES ASSUME Init PROVE TypeOK
    OBVIOUS
  <2>1. DOMAIN offers = Holders /\ \A h \in Holders : IsPartial(offers[h], Files, Offer)
    BY FilesAssumption DEF Init, IsPartial, Offer
  <2>2. /\ DOMAIN info = {} /\ DOMAIN searches = {} /\ replies = {}
        /\ asked = {} /\ fetching = {}
    BY DEF Init
  <2>3. own \in [Files -> MyFile] /\ matches \in [Files -> Nat]
    BY DEF Init, ZeroFile, MyFile
  <2>4. /\ awaiting \in [Files -> {"none", "asked", "known"}]
        /\ downloads \in [Files -> 0 .. MaxDownloads]
        /\ deletions \in [Files -> 0 .. MaxDeletions]
        /\ sent \in 0 .. MaxReplies
    BY CommandsAssumption DEF Init
  <2> QED
    BY <2>1, <2>2, <2>3, <2>4 DEF TypeOK, IsPartial
<1>2. TypeOK /\ [Next]_vars => TypeOK'
  BY TypeStep
<1> QED
  BY <1>1, <1>2, PTL DEF Spec

-----------------------------------------------------------------------------
(* What was shown. *)

\* An entry that says it was shown was, under whatever keyword it stands.
ShownEntries ==
    /\ \A f \in Files : own[f].alreadyShown => matches[f] > 0
    /\ \A k \in DOMAIN info : \A f \in DOMAIN info[k] :
          info[k][f].alreadyShown => matches[f] > 0

ShownInv == FoundIsShown /\ ShownEntries

LEMMA ShowMatches ==
    ASSUME TypeOK, NEW newInfo, NEW ks, NEW order, NEW newOwn,
           Show(newInfo, ks, order, newOwn), NEW f \in Files
    PROVE  /\ matches'[f] \in Nat /\ matches'[f] >= matches[f]
           /\ ~own[f].alreadyShown /\ ToShow(newInfo, ks, f) # {} => matches'[f] > 0
BY DEF Show, TypeOK, ShownBefore

\* Showing the found files of the keywords ks is enough if what the others list
\* as found was shown before.
LEMMA ShowKeepsShown ==
    ASSUME TypeOK, ShownEntries, NEW newInfo, NEW ks, NEW order,
           NEW newOwn \in [Files -> MyFile],
           \A f \in Files : newOwn[f].alreadyShown = own[f].alreadyShown,
           InfoType(newInfo), Show(newInfo, ks, order, newOwn),
           \A k \in DOMAIN newInfo : \A f \in DOMAIN newInfo[k] :
               /\ newInfo[k][f].alreadyShown => matches[f] > 0
               /\ newInfo[k][f].foundAllChunks => matches[f] > 0 \/ k \in ks
    PROVE  ShownInv'
<1>1. \A f \in Files : matches[f] \in Nat
  BY DEF TypeOK
<1>2. \A f \in Files : own'[f].alreadyShown => matches'[f] > 0
  <2> TAKE f \in Files
  <2>1. own'[f] = [newOwn[f] EXCEPT !.alreadyShown =
                      @ \/ (~ShownBefore(f) /\ ToShow(newInfo, ks, f) # {})]
    BY DEF Show
  <2>2. own'[f].alreadyShown =>
           own[f].alreadyShown \/ (~own[f].alreadyShown /\ ToShow(newInfo, ks, f) # {})
    BY <2>1 DEF MyFile, ShownBefore
  <2>3. own[f].alreadyShown => matches[f] > 0
    BY DEF ShownEntries
  <2> QED
    BY <1>1, <2>2, <2>3, ShowMatches
<1>3. ASSUME NEW k \in DOMAIN info', NEW f \in DOMAIN info'[k]
      PROVE  /\ info'[k][f].alreadyShown => matches'[f] > 0
             /\ info'[k][f].foundAllChunks => matches'[f] > 0
  <2>1. k \in DOMAIN newInfo /\ f \in DOMAIN newInfo[k]
    BY <1>3, ShowEffect
  <2>2. f \in Files /\ newInfo[k][f] \in Entry
    BY <2>1 DEF InfoType, IsPartial
  <2>3. matches'[f] \in Nat /\ matches'[f] >= matches[f]
    BY <2>2, ShowMatches
  <2>4. own[f].alreadyShown => matches[f] > 0
    BY <2>2 DEF ShownEntries
  <2>5. ToShow(newInfo, ks, f) # {} => matches'[f] > 0
    BY <1>1, <2>2, <2>3, <2>4, ShowMatches
  <2>6. newInfo[k][f].alreadyShown => matches[f] > 0
    BY <2>1
  <2>7. info'[k][f].foundAllChunks = newInfo[k][f].foundAllChunks
    <3>1. \A l \in DOMAIN newInfo : \A g \in DOMAIN newInfo[l] : \E b \in BOOLEAN :
             info'[l][g] = [newInfo[l][g] EXCEPT !.alreadyShown = @ \/ b]
      BY ShowEffect
    <3>2. PICK b \in BOOLEAN :
             info'[k][f] = [newInfo[k][f] EXCEPT !.alreadyShown = @ \/ b]
      BY <2>1, <3>1
    <3> QED
      BY <2>2, <3>2 DEF Entry
  <2>8. newInfo[k][f].foundAllChunks => matches'[f] > 0
    <3>1. CASE newInfo[k][f].foundAllChunks /\ k \in ks /\ ~newInfo[k][f].alreadyShown
      <4>1. k \in ToShow(newInfo, ks, f)
        BY <2>1, <3>1 DEF ToShow
      <4> QED
        BY <2>5, <4>1
    <3> QED
      BY <1>1, <2>1, <2>2, <2>3, <2>6, <3>1
  <2>9. info'[k][f].alreadyShown =>
           newInfo[k][f].alreadyShown \/ ToShow(newInfo, ks, f) # {}
    BY <2>1, <2>2 DEF Show, Entry
  <2> QED
    BY <1>1, <2>2, <2>3, <2>5, <2>6, <2>7, <2>8, <2>9
<1> QED
  BY <1>2, <1>3 DEF ShownInv, ShownEntries, FoundIsShown

\* A result sets no entry to shown.
LEMMA ResultShown ==
    ASSUME TypeOK, NEW k \in DOMAIN info, NEW f \in Files, NEW h \in Holders,
           NEW result \in Result
    PROVE  WithResult(k, f, h, result).alreadyShown =>
               f \in DOMAIN info[k] /\ info[k][f].alreadyShown
<1>1. \A entry \in Entry :
         UpdatedEntry(entry, h, result).alreadyShown = entry.alreadyShown
  BY DEF UpdatedEntry, Entry
<1>2. NewEntry(f, h, result).alreadyShown = FALSE
  BY DEF NewEntry
<1>3. NewEntry(f, h, result) \in Entry
  BY NewEntryType
<1>4. f \in DOMAIN info[k] => info[k][f] \in Entry
  BY DEF TypeOK, IsPartial
<1>5. f \in DOMAIN info[k] => UpdatedEntry(info[k][f], h, result) \in Entry
  BY <1>4, UpdatedEntryType
<1> QED
  BY <1>1, <1>2, <1>3, <1>4, <1>5 DEF WithResult

LEMMA ShownStep ==
    ASSUME TypeOK, TypeOK', ShownInv, [Next]_vars
    PROVE  ShownInv'
<1> USE DEF ShownInv
<1>1. ASSUME NEW r \in replies, NEW order \in Orders, ReceiveReply(r, order)
      PROVE  ShownInv'
  <2> DEFINE matched == {k \in DOMAIN info : News(r, k) # {}}
             newInfo == InfoWithReply(r)
  <2>1. Show(newInfo, matched, order, own)
    BY <1>1 DEF ReceiveReply
  <2>2. ASSUME NEW k \in DOMAIN newInfo, NEW f \in DOMAIN newInfo[k]
        PROVE  /\ newInfo[k][f].alreadyShown => matches[f] > 0
               /\ newInfo[k][f].foundAllChunks => matches[f] > 0 \/ k \in matched
    <3>1. k \in DOMAIN info /\ f \in DOMAIN info[k] \cup News(r, k)
      BY <2>2 DEF InfoWithReply
    <3>2. CASE f \in News(r, k)
      <4>1. f \in Files /\ r.from \in Holders /\ r.results[f] \in Result
        BY <3>2 DEF News, TypeOK, IsPartial
      <4>2. newInfo[k][f] = WithResult(k, f, r.from, r.results[f])
        BY <3>1, <3>2 DEF InfoWithReply
      <4>3. newInfo[k][f].alreadyShown => matches[f] > 0
        BY <3>1, <4>1, <4>2, ResultShown DEF ShownEntries
      <4>4. k \in matched
        BY <3>1, <3>2
      <4> QED
        BY <4>3, <4>4
    <3>3. CASE f \notin News(r, k)
      <4>1. newInfo[k][f] = info[k][f] /\ f \in DOMAIN info[k]
        BY <3>1, <3>3 DEF InfoWithReply
      <4> QED
        BY <3>1, <4>1 DEF ShownEntries, FoundIsShown
    <3> QED
      BY <3>2, <3>3
  <2>3. own \in [Files -> MyFile]
    BY DEF TypeOK
  <2>4. InfoType(newInfo)
    BY InfoWithReplyType
  <2> HIDE DEF newInfo, matched
  <2> QED
    BY <2>1, <2>2, <2>3, <2>4, ShowKeepsShown
<1>2. ASSUME NEW f \in Files, NEW order \in Orders, ReceiveMetafile(f, order)
      PROVE  ShownInv'
  <2> DEFINE after == {k \in DOMAIN info : \E l \in Changed(f) : order[l] <= order[k]}
             newOwn == [own EXCEPT ![f].metafile = TRUE]
             newInfo == InfoWithMetafile(f)
  <2>1. Show(newInfo, after, order, newOwn)
    BY <1>2 DEF ReceiveMetafile
  <2>2. /\ newOwn \in [Files -> MyFile]
        /\ \A g \in Files : newOwn[g].alreadyShown = own[g].alreadyShown
    <3>1. own \in [Files -> MyFile]
      BY DEF TypeOK
    <3> DEFINE item == [own[f] EXCEPT !.metafile = TRUE]
    <3>2. item \in MyFile /\ item.alreadyShown = own[f].alreadyShown
      BY <3>1 DEF MyFile
    <3>3. newOwn = [own EXCEPT ![f] = item]
      OBVIOUS
    <3> HIDE DEF item, newOwn
    <3> QED
      BY <3>1, <3>2, <3>3
  <2>3. ASSUME NEW k \in DOMAIN newInfo, NEW g \in DOMAIN newInfo[k]
        PROVE  /\ newInfo[k][g].alreadyShown => matches[g] > 0
               /\ newInfo[k][g].foundAllChunks => matches[g] > 0 \/ k \in after
    <3>1. k \in DOMAIN info /\ g \in DOMAIN info[k]
      BY <2>3 DEF InfoWithMetafile
    <3>2. info[k][g] \in Entry
      BY <3>1 DEF TypeOK, IsPartial
    <3>3. /\ info[k][g].alreadyShown => matches[g] > 0
          /\ info[k][g].foundAllChunks => matches[g] > 0
      BY <3>1 DEF ShownEntries, FoundIsShown
    <3>4. CASE g = f /\ ~info[k][g].metafile
      <4>1. newInfo[k][g] = WithMetafile(info[k][g], f)
        BY <3>1, <3>4 DEF InfoWithMetafile
      <4>2. newInfo[k][g].alreadyShown = info[k][g].alreadyShown
        BY <3>2, <4>1 DEF WithMetafile, Entry
      <4>3. newInfo[k][g].foundAllChunks =>
               info[k][g].foundAllChunks \/ NbTotalChunks(info[k][g].places) = Count[f]
        BY <3>2, <4>1 DEF WithMetafile, Entry
      <4>4. NbTotalChunks(info[k][g].places) = Count[f] => k \in after
        <5>1. SUFFICES ASSUME NbTotalChunks(info[k][g].places) = Count[f]
                       PROVE  k \in after
          OBVIOUS
        <5>2. k \in Changed(f)
          BY <3>1, <3>4, <5>1 DEF Changed
        <5>3. k \in Keywords
          BY <3>1 DEF TypeOK
        <5>4. order \in [Keywords -> 1 .. Cardinality(Keywords)]
          BY DEF Orders
        <5>5. Cardinality(Keywords) \in Nat
          BY FilesAssumption, FS_CardinalityType
        <5>6. order[k] <= order[k]
          BY <5>3, <5>4, <5>5
        <5> QED
          BY <3>1, <5>2, <5>6
      <4> QED
        BY <3>3, <4>2, <4>3, <4>4
    <3>5. CASE ~(g = f /\ ~info[k][g].metafile)
      <4>1. newInfo[k][g] = info[k][g]
        BY <3>1, <3>5 DEF InfoWithMetafile
      <4> QED
        BY <3>3, <4>1
    <3> QED
      BY <3>4, <3>5
  <2>4. InfoType(newInfo)
    BY InfoWithMetafileType
  <2> HIDE DEF newInfo, after, newOwn
  <2> QED
    BY <2>1, <2>2, <2>3, <2>4, ShowKeepsShown
<1>3. ASSUME NEW s \in Searches, Search(s)
      PROVE  ShownInv'
  BY <1>3 DEF Search, ShownEntries, FoundIsShown
<1>4. ASSUME NEW f \in Files, SearchDownload(f)
      PROVE  ShownInv'
  BY <1>4 DEF SearchDownload, ShownEntries, FoundIsShown, TypeOK, ZeroFile
<1>5. ASSUME NEW f \in Files, NEW last \in BOOLEAN, ReceiveChunk(f, last)
      PROVE  ShownInv'
  <2>1. \A g \in Files : own'[g].alreadyShown = own[g].alreadyShown
    BY <1>5 DEF ReceiveChunk, TypeOK, MyFile
  <2>2. UNCHANGED <<info, matches>>
    BY <1>5 DEF ReceiveChunk
  <2> QED
    BY <2>1, <2>2 DEF ShownEntries, FoundIsShown
<1>6. ASSUME UNCHANGED ownVars
      PROVE  ShownInv'
  BY <1>6 DEF ownVars, ShownEntries, FoundIsShown
<1>7. ASSUME \/ \E h \in Holders, f \in Files : Offers(h, f)
             \/ \E h \in Holders, s \in Searches : SendReply(h, s)
             \/ UNCHANGED vars
      PROVE  UNCHANGED ownVars
  BY <1>7, OffersStep DEF SendReply, vars
<1>8. ASSUME NEW f \in Files, DeleteFile(f)
      PROVE  ShownInv'
  BY <1>8 DEF DeleteFile, ShownEntries, FoundIsShown, TypeOK, ZeroFile
<1> QED
  BY <1>1, <1>2, <1>3, <1>4, <1>5, <1>6, <1>7, <1>8 DEF Next, Offers

\* A file is shown in the step in which it is found, by a result or by its
\* metafile, under whichever keywords and in whichever order Go goes through them.
THEOREM FoundAlwaysShown == Spec => []FoundIsShown
<1>1. Init => ShownInv
  BY DEF Init, ShownInv, ShownEntries, FoundIsShown, ZeroFile
<1>2. TypeOK /\ TypeOK' /\ ShownInv /\ [Next]_vars => ShownInv'
  BY ShownStep
<1>3. ShownInv => FoundIsShown
  BY DEF ShownInv
<1> QED
  BY <1>1, <1>2, <1>3, TypeCorrect, PTL DEF Spec

-----------------------------------------------------------------------------
(* How often it was shown. *)

\* A file was shown once for each time that the node forgot it was, at most, and
\* once more if it remembers.
ShownCount ==
    \A f \in Files : matches[f] <= IF own[f].alreadyShown
                                   THEN 1 + downloads[f] + deletions[f]
                                   ELSE downloads[f] + deletions[f]

LEMMA ShowKeepsCount ==
    ASSUME TypeOK, ShownCount, NEW newInfo, NEW ks, NEW order,
           NEW newOwn \in [Files -> MyFile],
           \A f \in Files : newOwn[f].alreadyShown = own[f].alreadyShown,
           Show(newInfo, ks, order, newOwn), UNCHANGED <<downloads, deletions>>
    PROVE  ShownCount'
<1> SUFFICES ASSUME NEW f \in Files
             PROVE  matches'[f] <= IF own'[f].alreadyShown
                                   THEN 1 + downloads[f] + deletions[f]
                                   ELSE downloads[f] + deletions[f]
  BY DEF ShownCount
<1> DEFINE shown == ~ShownBefore(f) /\ ToShow(newInfo, ks, f) # {}
<1>1. own'[f] = [newOwn[f] EXCEPT !.alreadyShown = @ \/ shown]
  BY DEF Show
<1>2. matches'[f] = IF shown THEN matches[f] + 1 ELSE matches[f]
  BY DEF Show
<1>3. own'[f].alreadyShown <=> own[f].alreadyShown \/ shown
  BY <1>1 DEF MyFile
<1>4. shown => ~own[f].alreadyShown
  BY DEF ShownBefore
<1>5. matches[f] \in Nat /\ downloads[f] \in Nat /\ deletions[f] \in Nat
  BY CommandsAssumption DEF TypeOK
<1>6. matches[f] <= IF own[f].alreadyShown THEN 1 + downloads[f] + deletions[f]
                    ELSE downloads[f] + deletions[f]
  BY DEF ShownCount
<1> HIDE DEF shown
<1> QED
  BY <1>2, <1>3, <1>4, <1>5, <1>6

\* The node forgets that f was shown, and one of the two counts says so.
LEMMA ForgetKeepsCount ==
    ASSUME TypeOK, ShownCount, NEW f \in Files,
           own' = [own EXCEPT ![f] = ZeroFile], matches' = matches,
           \/ downloads' = [downloads EXCEPT ![f] = @ + 1] /\ deletions' = deletions
           \/ deletions' = [deletions EXCEPT ![f] = @ + 1] /\ downloads' = downloads
    PROVE  ShownCount'
<1>1. \A g \in Files : matches[g] \in Nat /\ downloads[g] \in Nat /\ deletions[g] \in Nat
  BY CommandsAssumption DEF TypeOK
<1>2. /\ ~own'[f].alreadyShown
      /\ downloads'[f] + deletions'[f] = downloads[f] + deletions[f] + 1
  BY <1>1 DEF TypeOK, ZeroFile
<1>3. \A g \in Files \ {f} : /\ own'[g] = own[g] /\ downloads'[g] = downloads[g]
                             /\ deletions'[g] = deletions[g]
  BY DEF TypeOK
<1>4. matches[f] <= downloads[f] + deletions[f] + 1
  BY <1>1 DEF ShownCount
<1> QED
  BY <1>2, <1>3, <1>4 DEF ShownCount

\* What the metafile of f leaves of the node's own entries.
LEMMA MetafileOwn ==
    ASSUME TypeOK, NEW f \in Files
    PROVE  /\ [own EXCEPT ![f].metafile = TRUE] \in [Files -> MyFile]
           /\ \A g \in Files : [own EXCEPT ![f].metafile = TRUE][g].alreadyShown
                                 = own[g].alreadyShown
<1> DEFINE item == [own[f] EXCEPT !.metafile = TRUE]
<1>1. own \in [Files -> MyFile]
  BY DEF TypeOK
<1>2. item \in MyFile /\ item.alreadyShown = own[f].alreadyShown
  BY <1>1 DEF MyFile
<1>3. [own EXCEPT ![f].metafile = TRUE] = [own EXCEPT ![f] = item]
  OBVIOUS
<1> HIDE DEF item
<1> QED
  BY <1>1, <1>2, <1>3

LEMMA CountStep ==
    ASSUME TypeOK, ShownCount, [Next]_vars
    PROVE  ShownCount'
<1>1. ASSUME NEW r \in replies, NEW order \in Orders, ReceiveReply(r, order)
      PROVE  ShownCount'
  <2>1. PICK ks : Show(InfoWithReply(r), ks, order, own)
    BY <1>1 DEF ReceiveReply
  <2>2. own \in [Files -> MyFile] /\ UNCHANGED <<downloads, deletions>>
    BY <1>1 DEF TypeOK, ReceiveReply, downloadVars
  <2> QED
    BY <2>1, <2>2, ShowKeepsCount
<1>2. ASSUME NEW f \in Files, NEW order \in Orders, ReceiveMetafile(f, order)
      PROVE  ShownCount'
  <2>1. PICK ks : Show(InfoWithMetafile(f), ks, order,
                       [own EXCEPT ![f].metafile = TRUE])
    BY <1>2 DEF ReceiveMetafile
  <2>2. UNCHANGED <<downloads, deletions>>
    BY <1>2 DEF ReceiveMetafile
  <2> QED
    BY <2>1, <2>2, MetafileOwn, ShowKeepsCount
<1>3. ASSUME NEW f \in Files, SearchDownload(f) \/ DeleteFile(f)
      PROVE  ShownCount'
  BY <1>3, ForgetKeepsCount DEF SearchDownload, DeleteFile
<1>4. ASSUME NEW f \in Files, NEW last \in BOOLEAN, ReceiveChunk(f, last)
      PROVE  ShownCount'
  <2>1. \A g \in Files : own'[g].alreadyShown = own[g].alreadyShown
    BY <1>4 DEF ReceiveChunk, TypeOK, MyFile
  <2>2. UNCHANGED <<matches, downloads, deletions>>
    BY <1>4 DEF ReceiveChunk
  <2> QED
    BY <2>1, <2>2 DEF ShownCount
<1>5. ASSUME \/ \E h \in Holders, f \in Files : Offers(h, f)
             \/ \E h \in Holders, s \in Searches : SendReply(h, s)
             \/ \E s \in Searches : Search(s)
             \/ UNCHANGED vars
      PROVE  ShownCount'
  <2>1. UNCHANGED <<own, matches, downloads, deletions>>
    BY <1>5, OffersStep DEF SendReply, Search, vars, ownVars, downloadVars
  <2> QED
    BY <2>1 DEF ShownCount
<1> QED
  BY <1>1, <1>2, <1>3, <1>4, <1>5 DEF Next, Offers

\* The keywords whose entry of f says that it was shown.
ShownUnder(f) == {k \in DOMAIN info : f \in DOMAIN info[k] /\ info[k][f].alreadyShown}

\* Each time a file is shown, one more keyword that matches it says so, and no
\* keyword forgets.
ShownByKeyword ==
    /\ \A k \in DOMAIN info : \A f \in DOMAIN info[k] : k \in Matching[f]
    /\ \A f \in Files : matches[f] <= Cardinality(ShownUnder(f))

\* One element of a set comes first.
LEMMA FirstExists ==
    ASSUME NEW S, S # {}, NEW rank, \A x \in S : rank[x] \in Nat
    PROVE  \E x \in S : \A y \in S : rank[x] <= rank[y]
<1> DEFINE R == {rank[x] : x \in S}
<1>1. IsWellFoundedOn(OpToRel(<, Nat), Nat)
  BY NatLessThanWellFounded, Zenon
<1>2. R \subseteq Nat /\ R # {}
  OBVIOUS
<1> HIDE DEF R
<1>3. PICK n \in R : \A m \in R : <<m, n>> \notin OpToRel(<, Nat)
  BY <1>1, <1>2, WFMin, Zenon
<1>4. \A m \in R : ~(m < n)
  BY <1>2, <1>3, Zenon DEF OpToRel
<1> QED
  BY <1>2, <1>4 DEF R

LEMMA ShownUnderFinite ==
    ASSUME TypeOK, NEW f
    PROVE  IsFiniteSet(ShownUnder(f)) /\ Cardinality(ShownUnder(f)) \in Nat
<1>1. ShownUnder(f) \subseteq Keywords
  BY DEF ShownUnder, TypeOK
<1> QED
  BY <1>1, FilesAssumption, FS_Subset, FS_CardinalityType

\* What is shown is shown under a keyword that did not say so.
LEMMA ShowKeepsKeywords ==
    ASSUME TypeOK, TypeOK', ShownByKeyword, NEW newInfo, InfoType(newInfo),
           NEW ks, ks \subseteq DOMAIN newInfo, NEW order \in Orders, NEW newOwn,
           Show(newInfo, ks, order, newOwn), DOMAIN newInfo = DOMAIN info,
           \A k \in DOMAIN info : \A f \in DOMAIN info[k] :
               /\ f \in DOMAIN newInfo[k]
               /\ newInfo[k][f].alreadyShown = info[k][f].alreadyShown,
           \A k \in DOMAIN newInfo : \A f \in DOMAIN newInfo[k] : k \in Matching[f]
    PROVE  ShownByKeyword'
<1>1. \A k \in DOMAIN info' : \A f \in DOMAIN info'[k] : k \in Matching[f]
  BY ShowEffect
<1>2. ASSUME NEW f \in Files
      PROVE  matches'[f] <= Cardinality(ShownUnder(f)')
  <2> DEFINE shows == ToShow(newInfo, ks, f)
             shown == ~ShownBefore(f) /\ shows # {}
             Takes(k) == k \in shows /\ \A l \in shows : order[k] <= order[l]
  <2>1. matches'[f] = IF shown THEN matches[f] + 1 ELSE matches[f]
    BY DEF Show
  <2>2. \A k \in DOMAIN newInfo :
           /\ k \in DOMAIN info' /\ DOMAIN info'[k] = DOMAIN newInfo[k]
           /\ f \in DOMAIN newInfo[k] =>
                 (info'[k][f].alreadyShown <=>
                     newInfo[k][f].alreadyShown \/ (shown /\ Takes(k)))
    <3>1. \A k \in DOMAIN newInfo : f \in DOMAIN newInfo[k] =>
             info'[k][f] = [newInfo[k][f] EXCEPT !.alreadyShown = @ \/ (shown /\ Takes(k))]
      BY DEF Show
    <3>2. \A k \in DOMAIN newInfo : f \in DOMAIN newInfo[k] => newInfo[k][f] \in Entry
      BY DEF InfoType, IsPartial
    <3> HIDE DEF shown, Takes
    <3>3. \A k \in DOMAIN newInfo : f \in DOMAIN newInfo[k] =>
             (info'[k][f].alreadyShown <=>
                 newInfo[k][f].alreadyShown \/ (shown /\ Takes(k)))
      BY <3>1, <3>2 DEF Entry
    <3> QED
      BY <3>3, ShowEffect
  <2>3. ShownUnder(f) \subseteq ShownUnder(f)'
    BY <2>2 DEF ShownUnder
  <2>4. /\ matches[f] \in Nat /\ matches[f] <= Cardinality(ShownUnder(f))
        /\ IsFiniteSet(ShownUnder(f)) /\ Cardinality(ShownUnder(f)) \in Nat
        /\ IsFiniteSet(ShownUnder(f)') /\ Cardinality(ShownUnder(f)') \in Nat
    <3>1. IsFiniteSet(ShownUnder(f)') /\ Cardinality(ShownUnder(f)') \in Nat
      <4>1. ShownUnder(f)' \subseteq Keywords
        BY DEF ShownUnder, TypeOK
      <4> QED
        BY <4>1, FilesAssumption, FS_Subset, FS_CardinalityType
    <3> QED
      BY <3>1, ShownUnderFinite DEF TypeOK, ShownByKeyword
  <2>5. CASE shown
    <3>1. \A k \in shows : /\ k \in DOMAIN newInfo /\ f \in DOMAIN newInfo[k]
                           /\ ~newInfo[k][f].alreadyShown
      BY DEF ToShow
    <3>2. \A k \in shows : order[k] \in Nat
      BY <3>1 DEF Orders, InfoType
    <3>3. PICK k \in shows : Takes(k)
      <4>1. shows # {}
        BY <2>5
      <4> HIDE DEF shows
      <4> QED
        BY <3>2, <4>1, FirstExists
    <3>4. k \in ShownUnder(f)' /\ k \notin ShownUnder(f)
      BY <2>2, <2>5, <3>1, <3>3 DEF ShownUnder
    <3>5. ShownUnder(f) \cup {k} \subseteq ShownUnder(f)'
      BY <2>3, <3>4
    <3>6. Cardinality(ShownUnder(f) \cup {k}) = Cardinality(ShownUnder(f)) + 1
      BY <2>4, <3>4, FS_AddElement
    <3>7. Cardinality(ShownUnder(f) \cup {k}) <= Cardinality(ShownUnder(f)')
      BY <2>4, <3>5, FS_Subset
    <3> QED
      BY <2>1, <2>4, <2>5, <3>6, <3>7
  <2>6. CASE ~shown
    <3>1. Cardinality(ShownUnder(f)) <= Cardinality(ShownUnder(f)')
      BY <2>3, <2>4, FS_Subset
    <3> QED
      BY <2>1, <2>4, <2>6, <3>1
  <2> QED
    BY <2>5, <2>6
<1> QED
  BY <1>1, <1>2 DEF ShownByKeyword

LEMMA KeywordStep ==
    ASSUME TypeOK, TypeOK', ShownByKeyword, [Next]_vars
    PROVE  ShownByKeyword'
<1>1. ASSUME NEW r \in replies, NEW order \in Orders, ReceiveReply(r, order)
      PROVE  ShownByKeyword'
  <2> DEFINE matched == {k \in DOMAIN info : News(r, k) # {}}
             newInfo == InfoWithReply(r)
  <2>1. Show(newInfo, matched, order, own)
    BY <1>1 DEF ReceiveReply
  <2>2. DOMAIN newInfo = DOMAIN info /\ matched \subseteq DOMAIN newInfo
    BY DEF InfoWithReply
  <2>3. ASSUME NEW k \in DOMAIN info, NEW f \in DOMAIN info[k]
        PROVE  f \in DOMAIN newInfo[k] /\ newInfo[k][f].alreadyShown = info[k][f].alreadyShown
    <3>1. f \in DOMAIN newInfo[k] /\ info[k][f] \in Entry
      BY DEF InfoWithReply, TypeOK, IsPartial
    <3>2. CASE f \in News(r, k)
      <4>1. f \in Files /\ r.from \in Holders /\ r.results[f] \in Result
        BY <3>2 DEF News, TypeOK, IsPartial
      <4>2. newInfo[k][f] = WithResult(k, f, r.from, r.results[f])
        BY <3>2 DEF InfoWithReply
      <4>3. \A entry \in Entry : UpdatedEntry(entry, r.from, r.results[f]).alreadyShown
                                   = entry.alreadyShown
        BY DEF UpdatedEntry, Entry
      <4>4. UpdatedEntry(info[k][f], r.from, r.results[f]) \in Entry
        BY <3>1, <4>1, UpdatedEntryType
      <4> QED
        BY <3>1, <4>2, <4>3, <4>4 DEF WithResult
    <3>3. CASE f \notin News(r, k)
      BY <3>1, <3>3 DEF InfoWithReply
    <3> QED
      BY <3>1, <3>2, <3>3
  <2>4. \A k \in DOMAIN newInfo : \A f \in DOMAIN newInfo[k] : k \in Matching[f]
    BY DEF InfoWithReply, News, ShownByKeyword
  <2>5. InfoType(newInfo)
    BY InfoWithReplyType
  <2> HIDE DEF newInfo, matched
  <2> QED
    BY <2>1, <2>2, <2>3, <2>4, <2>5, ShowKeepsKeywords
<1>2. ASSUME NEW f \in Files, NEW order \in Orders, ReceiveMetafile(f, order)
      PROVE  ShownByKeyword'
  <2> DEFINE after == {k \in DOMAIN info : \E l \in Changed(f) : order[l] <= order[k]}
             newInfo == InfoWithMetafile(f)
  <2>1. Show(newInfo, after, order, [own EXCEPT ![f].metafile = TRUE])
    BY <1>2 DEF ReceiveMetafile
  <2>2. DOMAIN newInfo = DOMAIN info /\ after \subseteq DOMAIN newInfo
    BY DEF InfoWithMetafile
  <2>3. \A k \in DOMAIN info : DOMAIN newInfo[k] = DOMAIN info[k]
    BY DEF InfoWithMetafile
  <2>4. ASSUME NEW k \in DOMAIN info, NEW g \in DOMAIN info[k]
        PROVE  newInfo[k][g].alreadyShown = info[k][g].alreadyShown
    <3>1. info[k][g] \in Entry
      BY DEF TypeOK, IsPartial
    <3> QED
      BY <3>1 DEF InfoWithMetafile, WithMetafile, Entry
  <2>5. \A k \in DOMAIN newInfo : \A g \in DOMAIN newInfo[k] : k \in Matching[g]
    BY <2>2, <2>3 DEF ShownByKeyword
  <2>6. InfoType(newInfo)
    BY InfoWithMetafileType
  <2> HIDE DEF newInfo, after
  <2> QED
    BY <2>1, <2>2, <2>3, <2>4, <2>5, <2>6, ShowKeepsKeywords
<1>3. ASSUME NEW s \in Searches, Search(s)
      PROVE  ShownByKeyword'
  <2>1. /\ matches' = matches
        /\ DOMAIN info' = DOMAIN info \cup s
        /\ \A k \in DOMAIN info' : info'[k] = IF k \in DOMAIN info THEN info[k]
                                              ELSE [f \in {} |-> {}]
    BY <1>3 DEF Search
  <2>2. \A f : ShownUnder(f)' = ShownUnder(f)
    BY <2>1 DEF ShownUnder
  <2> QED
    BY <2>1, <2>2 DEF ShownByKeyword
<1>4. ASSUME UNCHANGED <<info, matches>>
      PROVE  ShownByKeyword'
  BY <1>4 DEF ShownByKeyword, ShownUnder
<1>5. ASSUME \/ \E h \in Holders, f \in Files : Offers(h, f)
             \/ \E h \in Holders, s \in Searches : SendReply(h, s)
             \/ \E f \in Files : SearchDownload(f) \/ DeleteFile(f)
             \/ \E f \in Files, last \in BOOLEAN : ReceiveChunk(f, last)
             \/ UNCHANGED vars
      PROVE  UNCHANGED <<info, matches>>
  BY <1>5, OffersStep
  DEF SendReply, SearchDownload, DeleteFile, ReceiveChunk, vars, ownVars
<1> QED
  BY <1>1, <1>2, <1>3, <1>4, <1>5 DEF Next, Offers

\* However many searches and keywords a file is found under, it is shown once, and
\* once more at most for each time the node's own entry of it is made anew by a
\* command or deleted by a reply; and however often that happens, never twice for
\* one keyword.
THEOREM AlwaysShownOnce == Spec => []ShownOnce
<1>1. Init => ShownCount /\ ShownByKeyword
  <2> SUFFICES ASSUME Init PROVE ShownCount /\ ShownByKeyword
    OBVIOUS
  <2>1. \A f \in Files : ~own[f].alreadyShown /\ matches[f] = 0
                         /\ downloads[f] = 0 /\ deletions[f] = 0
    BY DEF Init, ZeroFile
  <2>2. DOMAIN info = {}
    BY DEF Init
  <2>3. \A f \in Files : Cardinality(ShownUnder(f)) = 0
    BY <2>2, FS_EmptySet DEF ShownUnder
  <2> QED
    BY <2>1, <2>2, <2>3 DEF ShownCount, ShownByKeyword
<1>2. TypeOK /\ ShownCount /\ [Next]_vars => ShownCount'
  BY CountStep
<1>3. TypeOK /\ TypeOK' /\ ShownByKeyword /\ [Next]_vars => ShownByKeyword'
  BY KeywordStep
<1>4. TypeOK /\ ShownCount /\ ShownByKeyword => ShownOnce
  <2> SUFFICES ASSUME TypeOK, ShownCount, ShownByKeyword, NEW f \in Files
               PROVE  /\ matches[f] <= 1 + downloads[f] + deletions[f]
                      /\ matches[f] <= Cardinality(Matching[f])
    BY DEF ShownOnce
  <2>1. matches[f] \in Nat /\ downloads[f] \in Nat /\ deletions[f] \in Nat
    BY CommandsAssumption DEF TypeOK
  <2>2. ShownUnder(f) \subseteq Matching[f] /\ IsFiniteSet(Matching[f])
    <3>1. Matching[f] \subseteq Keywords
      BY FilesAssumption
    <3> QED
      BY <3>1, FilesAssumption, FS_Subset DEF ShownUnder, ShownByKeyword
  <2>3. /\ Cardinality(ShownUnder(f)) <= Cardinality(Matching[f])
        /\ Cardinality(ShownUnder(f)) \in Nat /\ Cardinality(Matching[f]) \in Nat
    BY <2>2, FS_Subset, FS_CardinalityType
  <2>4. matches[f] <= Cardinality(ShownUnder(f))
    BY DEF ShownByKeyword
  <2>5. matches[f] <= 1 + downloads[f] + deletions[f]
    BY <2>1 DEF ShownCount
  <2> QED
    BY <2>1, <2>3, <2>4, <2>5
<1> QED
  BY <1>1, <1>2, <1>3, <1>4, TypeCorrect, PTL DEF Spec

-----------------------------------------------------------------------------
(* What makes a file found. *)

\* Chunks of f, none of them listed at two nodes.
PlacesFit(f, places) ==
    /\ places \in [Holders -> SUBSET Chunks(f)]
    /\ \A g, h \in Holders : g # h => places[g] \cap places[h] = {}

\* An entry that was not found before and is, with a known number of chunks, has
\* all of them.
EntryFits(f, was, entry) ==
    /\ PlacesFit(f, entry.places)
    /\ entry.nbOfChunks \in {0, Count[f]}
    /\ entry.foundAllChunks /\ entry.nbOfChunks > 0 /\ ~was
          => Chunks(f) \subseteq Seen(entry)

\* A reply lists chunks of the file, and how many the file has, or no number.
ResultFits(f, result) ==
    /\ NormalChunkMap(result.chunkMap) \subseteq Chunks(f)
    /\ result.chunkCount \in {0, Count[f]}

WholeInv ==
    /\ \A h \in Holders : \A f \in DOMAIN offers[h] : offers[h][f].next <= Count[f]
    /\ \A r \in replies : \A f \in DOMAIN r.results : ResultFits(f, r.results[f])
    /\ \A k \in DOMAIN info : \A f \in DOMAIN info[k] : EntryFits(f, TRUE, info[k][f])

WasFound(k, f) == k \in DOMAIN info /\ Found(k, f)

\* As no chunk is listed twice, as many places as chunks are all the chunks.
LEMMA CountedIsWhole ==
    ASSUME NEW f \in Files, NEW places, PlacesFit(f, places),
           NbTotalChunks(places) = Count[f]
    PROVE  Chunks(f) \subseteq UNION {places[h] : h \in Holders}
<1> DEFINE P == UNION {{h} \X places[h] : h \in Holders}
           g == [x \in P |-> x[2]]
<1>1. Count[f] \in Nat \ {0}
  BY FilesAssumption
<1>2. IsFiniteSet(Chunks(f)) /\ Cardinality(Chunks(f)) = Count[f]
  <2> DEFINE n == Count[f]
  <2>1. n \in Nat /\ Chunks(f) = 0 .. n - 1
    BY <1>1 DEF Chunks
  <2> HIDE DEF n
  <2>2. 0 \in Int /\ n - 1 \in Int
    BY <2>1
  <2>3. /\ IsFiniteSet(0 .. n - 1)
        /\ Cardinality(0 .. n - 1) = IF 0 > n - 1 THEN 0 ELSE n - 1 - 0 + 1
    BY <2>2, FS_Interval, Zenon
  <2>4. IsFiniteSet(0 .. n - 1) /\ Cardinality(0 .. n - 1) = n
    BY <2>1, <2>3
  <2> QED
    BY <2>1, <2>4 DEF n
<1>3. \A x \in P : x = <<x[1], x[2]>> /\ x[1] \in Holders /\ x[2] \in places[x[1]]
  OBVIOUS
<1> HIDE DEF P
<1>4. g \in Injection(P, Chunks(f))
  <2>1. g \in [P -> Chunks(f)]
    BY <1>3 DEF PlacesFit
  <2>2. ASSUME NEW x \in P, NEW y \in P, x[2] = y[2]
        PROVE  x = y
    <3>1. x[1] = y[1]
      BY <1>3, <2>2 DEF PlacesFit
    <3> QED
      BY <1>3, <2>2, <3>1
  <2> QED
    BY <2>1, <2>2 DEF Injection, IsInjective
<1>5. Cardinality(P) = Cardinality(Chunks(f))
  BY <1>2 DEF NbTotalChunks, P
<1>6. g \in Surjection(P, Chunks(f))
  <2> HIDE DEF g
  <2> QED
    BY <1>2, <1>4, <1>5, FS_Injection
<1>7. \A c \in Chunks(f) : \E x \in P : x[2] = c
  BY <1>6 DEF Surjection
<1> QED
  BY <1>3, <1>7

\* A result that fits keeps an entry fitting.
LEMMA UpdatedFits ==
    ASSUME NEW f \in Files, NEW was \in BOOLEAN, NEW entry \in Entry,
           EntryFits(f, was, entry), NEW h \in Holders,
           NEW result \in Result, ResultFits(f, result)
    PROVE  EntryFits(f, was, UpdatedEntry(entry, h, result))
<1> DEFINE chunks == NormalChunkMap(result.chunkMap)
           places == MissingOf(entry.places, h, chunks)
           found == entry.foundAllChunks
                       \/ (entry.metafile /\ NbTotalChunks(places) = entry.nbOfChunks)
<1>1. chunks \subseteq Chunks(f) /\ PlacesFit(f, entry.places)
  BY DEF ResultFits, EntryFits
<1> HIDE DEF chunks
<1>2. /\ places \in [Holders -> SUBSET Chunks(f)]
      /\ \A g \in Holders : entry.places[g] \subseteq places[g]
      /\ \A g \in Holders : g # h => places[g] = entry.places[g]
      /\ \A c \in places[h] : c \in entry.places[h]
                                \/ \A g \in Holders : c \notin entry.places[g]
  BY <1>1 DEF MissingOf, PlacesFit
<1> HIDE DEF places
<1>3. PlacesFit(f, places)
  BY <1>1, <1>2 DEF PlacesFit
<1>4. UpdatedEntry(entry, h, result) = [entry EXCEPT !.places = places,
                                                     !.foundAllChunks = found]
  BY DEF UpdatedEntry, places, chunks
<1>5. /\ UpdatedEntry(entry, h, result).places = places
      /\ UpdatedEntry(entry, h, result).nbOfChunks = entry.nbOfChunks
      /\ UpdatedEntry(entry, h, result).foundAllChunks = found
  <2> HIDE DEF found
  <2> QED
    BY <1>4 DEF Entry
<1>6. entry.nbOfChunks \in {0, Count[f]}
  BY DEF EntryFits
<1>7. ASSUME found, entry.nbOfChunks > 0, ~was
      PROVE  Chunks(f) \subseteq UNION {places[g] : g \in Holders}
  <2>1. CASE entry.foundAllChunks
    <3>1. Chunks(f) \subseteq UNION {entry.places[g] : g \in Holders}
      BY <1>7, <2>1 DEF EntryFits, Seen
    <3> QED
      BY <1>2, <3>1
  <2>2. CASE NbTotalChunks(places) = entry.nbOfChunks
    <3>1. entry.nbOfChunks = Count[f]
      BY <1>6, <1>7
    <3> QED
      BY <1>3, <2>2, <3>1, CountedIsWhole
  <2> QED
    BY <1>7, <2>1, <2>2
<1> HIDE DEF found
<1> QED
  BY <1>3, <1>5, <1>6, <1>7 DEF EntryFits, Seen

\* It makes an entry that fits.
LEMMA NewFits ==
    ASSUME NEW f \in Files, NEW was \in BOOLEAN, NEW h \in Holders,
           NEW result \in Result, ResultFits(f, result)
    PROVE  EntryFits(f, was, NewEntry(f, h, result))
<1> DEFINE chunks == NormalChunkMap(result.chunkMap)
           places == [g \in Holders |-> IF g = h THEN chunks ELSE {}]
           entry == NewEntry(f, h, result)
<1>1. /\ entry.places = places /\ entry.nbOfChunks = result.chunkCount
      /\ entry.foundAllChunks => NbTotalChunks(places) = result.chunkCount
  BY DEF NewEntry
<1>2. chunks \subseteq Chunks(f) /\ result.chunkCount \in {0, Count[f]}
  BY DEF ResultFits
<1> HIDE DEF chunks, entry
<1>3. PlacesFit(f, places)
  BY <1>2 DEF PlacesFit
<1> HIDE DEF places
<1>4. entry.foundAllChunks /\ entry.nbOfChunks > 0
         => Chunks(f) \subseteq UNION {places[g] : g \in Holders}
  <2>1. entry.nbOfChunks > 0 => entry.nbOfChunks = Count[f]
    BY <1>1, <1>2
  <2> QED
    BY <1>1, <1>3, <2>1, CountedIsWhole
<1>5. EntryFits(f, was, entry)
  BY <1>1, <1>2, <1>3, <1>4 DEF EntryFits, Seen
<1> QED
  BY <1>5 DEF entry

LEMMA WithResultFits ==
    ASSUME TypeOK, WholeInv, NEW k \in DOMAIN info, NEW f \in Files, NEW h \in Holders,
           NEW result \in Result, ResultFits(f, result)
    PROVE  EntryFits(f, WasFound(k, f), WithResult(k, f, h, result))
<1> DEFINE once == IF f \in DOMAIN info[k] THEN UpdatedEntry(info[k][f], h, result)
                   ELSE NewEntry(f, h, result)
           was == WasFound(k, f)
<1>1. CASE f \in DOMAIN info[k]
  <2>1. info[k][f] \in Entry /\ EntryFits(f, TRUE, info[k][f])
    BY <1>1 DEF TypeOK, IsPartial, WholeInv
  <2>2. was = info[k][f].foundAllChunks
    BY <1>1, <2>1 DEF WasFound, Found, Entry
  <2>3. was \in BOOLEAN /\ EntryFits(f, was, info[k][f])
    BY <2>1, <2>2 DEF EntryFits, Entry
  <2> HIDE DEF was
  <2>4. once \in Entry /\ EntryFits(f, was, once)
    BY <1>1, <2>1, <2>3, UpdatedEntryType, UpdatedFits
  <2> HIDE DEF once
  <2>5. EntryFits(f, was, UpdatedEntry(once, h, result))
    BY <2>3, <2>4, UpdatedFits
  <2>6. EntryFits(f, was, WithResult(k, f, h, result))
    BY <2>4, <2>5 DEF WithResult, once
  <2> QED
    BY <2>6 DEF was
<1>2. CASE f \notin DOMAIN info[k]
  <2>1. was \in BOOLEAN
    BY <1>2 DEF WasFound, Found
  <2> HIDE DEF was
  <2>2. once \in Entry /\ EntryFits(f, was, once)
    BY <1>2, <2>1, NewEntryType, NewFits
  <2> HIDE DEF once
  <2>3. EntryFits(f, was, UpdatedEntry(once, h, result))
    BY <2>1, <2>2, UpdatedFits
  <2>4. EntryFits(f, was, WithResult(k, f, h, result))
    BY <2>2, <2>3 DEF WithResult, once
  <2> QED
    BY <2>4 DEF was
<1> QED
  BY <1>1, <1>2

\* The metafile gives an entry its number of chunks, and makes it found with all of
\* them, if it was not.
LEMMA WithMetafileFits ==
    ASSUME NEW f \in Files, NEW entry \in Entry, EntryFits(f, TRUE, entry)
    PROVE  EntryFits(f, entry.foundAllChunks, WithMetafile(entry, f))
<1> DEFINE found == entry.foundAllChunks \/ NbTotalChunks(entry.places) = Count[f]
           after == WithMetafile(entry, f)
<1>1. /\ after.places = entry.places /\ after.nbOfChunks = Count[f]
      /\ after.foundAllChunks = found
  <2>1. after = [entry EXCEPT !.metafile = TRUE, !.nbOfChunks = Count[f],
                              !.foundAllChunks = found]
    BY DEF WithMetafile
  <2> HIDE DEF found, after
  <2> QED
    BY <2>1 DEF Entry
<1>2. found /\ ~entry.foundAllChunks
         => Chunks(f) \subseteq UNION {entry.places[h] : h \in Holders}
  BY CountedIsWhole DEF EntryFits
<1>3. PlacesFit(f, entry.places)
  BY DEF EntryFits
<1> HIDE DEF after, found
<1>4. EntryFits(f, entry.foundAllChunks, after)
  BY <1>1, <1>2, <1>3 DEF EntryFits, Seen
<1> QED
  BY <1>4 DEF after

\* Showing files changes nothing of it.
LEMMA ShowFits ==
    ASSUME NEW newInfo, InfoType(newInfo), NEW ks, NEW order, NEW newOwn,
           Show(newInfo, ks, order, newOwn),
           \A k \in DOMAIN newInfo : \A f \in DOMAIN newInfo[k] :
               EntryFits(f, WasFound(k, f), newInfo[k][f])
    PROVE  \A k \in DOMAIN info' : \A f \in DOMAIN info'[k] :
               EntryFits(f, WasFound(k, f), info'[k][f])
<1>1. /\ DOMAIN info' = DOMAIN newInfo
      /\ \A l \in DOMAIN newInfo :
            /\ DOMAIN info'[l] = DOMAIN newInfo[l]
            /\ \A g \in DOMAIN newInfo[l] : \E b \in BOOLEAN :
                  info'[l][g] = [newInfo[l][g] EXCEPT !.alreadyShown = @ \/ b]
  BY ShowEffect
<1>2. ASSUME NEW k \in DOMAIN newInfo, NEW f \in DOMAIN newInfo[k]
      PROVE  EntryFits(f, WasFound(k, f), info'[k][f])
  <2>1. newInfo[k][f] \in Entry /\ EntryFits(f, WasFound(k, f), newInfo[k][f])
    BY DEF InfoType, IsPartial
  <2>2. PICK b \in BOOLEAN :
           info'[k][f] = [newInfo[k][f] EXCEPT !.alreadyShown = @ \/ b]
    BY <1>1
  <2>3. /\ info'[k][f].places = newInfo[k][f].places
        /\ info'[k][f].nbOfChunks = newInfo[k][f].nbOfChunks
        /\ info'[k][f].foundAllChunks = newInfo[k][f].foundAllChunks
    BY <2>1, <2>2 DEF Entry
  <2> QED
    BY <2>1, <2>3 DEF EntryFits, Seen
<1> QED
  BY <1>1, <1>2

\* Whatever step is taken, offers and replies fit, and so does every entry.
LEMMA WholeStep ==
    ASSUME TypeOK, WholeInv, [Next]_vars
    PROVE  /\ WholeInv'
           /\ \A k \in DOMAIN info' : \A f \in DOMAIN info'[k] :
                 EntryFits(f, WasFound(k, f), info'[k][f])
<1>1. \A h \in Holders : \A f \in DOMAIN offers'[h] : offers'[h][f].next <= Count[f]
  <2>1. ASSUME NEW g \in Holders, NEW e \in Files, Offers(g, e)
        PROVE  \A h \in Holders : \A f \in DOMAIN offers'[h] : offers'[h][f].next <= Count[f]
    BY <2>1, OffersStep DEF WholeInv
  <2>2. ASSUME UNCHANGED offers
        PROVE  \A h \in Holders : \A f \in DOMAIN offers'[h] : offers'[h][f].next <= Count[f]
    BY <2>2 DEF WholeInv
  <2> QED
    BY <2>1, <2>2 DEF Next, Offers, SendReply, ReceiveReply, Search, SearchDownload,
       DeleteFile, ReceiveMetafile, ReceiveChunk, vars
<1>2. \A r \in replies' : \A f \in DOMAIN r.results : ResultFits(f, r.results[f])
  <2>1. ASSUME NEW h \in Holders, NEW s \in Searches, SendReply(h, s)
        PROVE  \A r \in replies' : \A f \in DOMAIN r.results : ResultFits(f, r.results[f])
    <3>1. PICK r : /\ replies' = replies \cup {r}
                   /\ r.from = h /\ IsPartial(r.results, Files, Result)
                   /\ \A f \in DOMAIN r.results :
                         /\ f \in DOMAIN offers[h]
                         /\ r.results[f].chunkMap = ChunkMap(offers[h][f])
                         /\ r.results[f].chunkCount \in {0, Count[f]}
      BY <2>1, ReplyType
    <3>2. ASSUME NEW f \in DOMAIN r.results
          PROVE  ResultFits(f, r.results[f])
      <4>1. f \in DOMAIN offers[h] /\ f \in Files /\ offers[h][f] \in Offer
            /\ offers[h][f].next <= Count[f]
        BY <3>1 DEF TypeOK, IsPartial, WholeInv
      <4>2. r.results[f].chunkMap = 1 .. offers[h][f].next
        BY <3>1 DEF ChunkMap
      <4>3. offers[h][f].next \in Nat /\ Count[f] \in Nat
        BY <4>1, FilesAssumption DEF Offer
      <4>4. NormalChunkMap(r.results[f].chunkMap) \subseteq Chunks(f)
        BY <4>1, <4>2, <4>3 DEF NormalChunkMap, Chunks
      <4> QED
        BY <3>1, <4>4 DEF ResultFits
    <3> QED
      BY <3>1, <3>2 DEF WholeInv
  <2>2. ASSUME replies' \subseteq replies
        PROVE  \A r \in replies' : \A f \in DOMAIN r.results : ResultFits(f, r.results[f])
    BY <2>2 DEF WholeInv
  <2>3. ASSUME NEW h \in Holders, NEW f \in Files, Offers(h, f)
        PROVE  replies' \subseteq replies
    BY <2>3, OffersStep
  <2> QED
    BY <2>1, <2>2, <2>3 DEF Next, Offers, ReceiveReply, Search, SearchDownload,
       DeleteFile, ReceiveMetafile, ReceiveChunk, vars
<1>3. \A k \in DOMAIN info' : \A f \in DOMAIN info'[k] :
         EntryFits(f, WasFound(k, f), info'[k][f])
  <2>1. ASSUME NEW r \in replies, NEW order \in Orders, ReceiveReply(r, order)
        PROVE  \A k \in DOMAIN info' : \A f \in DOMAIN info'[k] :
                  EntryFits(f, WasFound(k, f), info'[k][f])
    <3> DEFINE newInfo == InfoWithReply(r)
    <3>1. PICK ks : Show(newInfo, ks, order, own)
      BY <2>1 DEF ReceiveReply
    <3>2. InfoType(newInfo)
      BY InfoWithReplyType
    <3>3. ASSUME NEW k \in DOMAIN newInfo, NEW f \in DOMAIN newInfo[k]
          PROVE  EntryFits(f, WasFound(k, f), newInfo[k][f])
      <4>1. k \in DOMAIN info /\ f \in Files
        BY <3>2 DEF InfoWithReply, InfoType, IsPartial
      <4>2. CASE f \in News(r, k)
        <5>1. newInfo[k][f] = WithResult(k, f, r.from, r.results[f])
          BY <4>1, <4>2 DEF InfoWithReply
        <5>2. /\ f \in DOMAIN r.results /\ r.from \in Holders
              /\ r.results[f] \in Result /\ ResultFits(f, r.results[f])
          BY <4>2 DEF News, TypeOK, IsPartial, WholeInv
        <5> HIDE DEF newInfo
        <5> QED
          BY <4>1, <5>1, <5>2, WithResultFits
      <4>3. CASE f \notin News(r, k)
        <5>1. newInfo[k][f] = info[k][f] /\ f \in DOMAIN info[k]
          BY <4>1, <4>3 DEF InfoWithReply
        <5> HIDE DEF newInfo
        <5> QED
          BY <4>1, <5>1 DEF WholeInv, EntryFits, WasFound, Found
      <4> QED
        BY <4>2, <4>3
    <3> HIDE DEF newInfo
    <3> QED
      BY <3>1, <3>2, <3>3, ShowFits
  <2>2. ASSUME NEW e \in Files, NEW order \in Orders, ReceiveMetafile(e, order)
        PROVE  \A k \in DOMAIN info' : \A f \in DOMAIN info'[k] :
                  EntryFits(f, WasFound(k, f), info'[k][f])
    <3> DEFINE newInfo == InfoWithMetafile(e)
    <3>1. PICK ks : Show(newInfo, ks, order, [own EXCEPT ![e].metafile = TRUE])
      BY <2>2 DEF ReceiveMetafile
    <3>2. InfoType(newInfo)
      BY InfoWithMetafileType
    <3>3. ASSUME NEW k \in DOMAIN newInfo, NEW f \in DOMAIN newInfo[k]
          PROVE  EntryFits(f, WasFound(k, f), newInfo[k][f])
      <4>1. /\ k \in DOMAIN info /\ f \in DOMAIN info[k]
            /\ newInfo[k][f] = IF f = e /\ ~info[k][f].metafile
                               THEN WithMetafile(info[k][f], e) ELSE info[k][f]
        BY DEF InfoWithMetafile
      <4>2. info[k][f] \in Entry /\ EntryFits(f, TRUE, info[k][f])
        BY <4>1 DEF TypeOK, IsPartial, WholeInv
      <4>3. WasFound(k, f) = info[k][f].foundAllChunks
        BY <4>1, <4>2 DEF WasFound, Found, Entry
      <4> HIDE DEF newInfo
      <4>4. CASE f = e /\ ~info[k][f].metafile
        BY <4>1, <4>2, <4>3, <4>4, WithMetafileFits
      <4>5. CASE ~(f = e /\ ~info[k][f].metafile)
        BY <4>1, <4>2, <4>3, <4>5 DEF EntryFits
      <4> QED
        BY <4>4, <4>5
    <3> HIDE DEF newInfo
    <3> QED
      BY <3>1, <3>2, <3>3, ShowFits
  <2>3. ASSUME \A k \in DOMAIN info' : \A f \in DOMAIN info'[k] :
                  k \in DOMAIN info /\ f \in DOMAIN info[k] /\ info'[k][f] = info[k][f]
        PROVE  \A k \in DOMAIN info' : \A f \in DOMAIN info'[k] :
                  EntryFits(f, WasFound(k, f), info'[k][f])
    BY <2>3 DEF WholeInv, EntryFits, WasFound, Found
  <2>4. ASSUME NEW s \in Searches, Search(s)
        PROVE  \A k \in DOMAIN info' : \A f \in DOMAIN info'[k] :
                  k \in DOMAIN info /\ f \in DOMAIN info[k] /\ info'[k][f] = info[k][f]
    BY <2>4 DEF Search
  <2>5. ASSUME NEW h \in Holders, NEW f \in Files, Offers(h, f)
        PROVE  info' = info
    BY <2>5, OffersStep DEF ownVars
  <2>6. ASSUME \/ \E h \in Holders, s \in Searches : SendReply(h, s)
               \/ \E f \in Files : SearchDownload(f) \/ DeleteFile(f)
               \/ \E f \in Files, last \in BOOLEAN : ReceiveChunk(f, last)
               \/ UNCHANGED vars
        PROVE  info' = info
    BY <2>6 DEF SendReply, SearchDownload, DeleteFile, ReceiveChunk, vars, ownVars
  <2> QED
    BY <2>1, <2>2, <2>3, <2>4, <2>5, <2>6 DEF Next, Offers
<1>4. \A k \in DOMAIN info' : \A f \in DOMAIN info'[k] : EntryFits(f, TRUE, info'[k][f])
  BY <1>3 DEF EntryFits
<1> QED
  BY <1>1, <1>2, <1>3, <1>4 DEF WholeInv, EntryFits, Seen, PlacesFit, ResultFits

LEMMA WholeInit == Init => WholeInv
<1> SUFFICES ASSUME Init
             PROVE  WholeInv
  OBVIOUS
<1>1. \A h \in Holders : \A f \in DOMAIN offers[h] : f \in Files /\ offers[h][f].next = Count[f]
  BY FilesAssumption DEF Init
<1>2. \A f \in Files : Count[f] <= Count[f]
  BY FilesAssumption
<1> QED
  BY <1>1, <1>2 DEF WholeInv, Init

\* A file whose number of chunks is known becomes found only when each of them has
\* been reported, however the replies are mixed, repeated and delayed, whatever the
\* other nodes download or lose, and whatever they offer without its metafile.
THEOREM FoundAlwaysWhole == Spec => FoundIsWhole
<1>1. TypeOK /\ WholeInv /\ [Next]_vars => WholeInv'
  BY WholeStep
<1>2. TypeOK /\ WholeInv /\ [Next]_vars =>
         [\A k \in DOMAIN info' : \A f \in DOMAIN info'[k] :
             /\ info'[k][f].foundAllChunks /\ info'[k][f].nbOfChunks > 0
             /\ ~(k \in DOMAIN info /\ Found(k, f))
             => Chunks(f) \subseteq Seen(info'[k][f])]_vars
  BY WholeStep DEF EntryFits, WasFound
<1> QED
  BY <1>1, <1>2, WholeInit, TypeCorrect, PTL DEF Spec, FoundIsWhole
=============================================================================
