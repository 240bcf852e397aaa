----------------------------- MODULE SearchMatches -----------------------------
(***************************************************************************)
(* What a node makes of the replies to its searches.  For every keyword it *)
(* has searched for it keeps the files whose names match, and for each of  *)
(* them which chunks lie at which node; a file is found when every chunk   *)
(* has been seen, and found files are shown to the user.  How requests     *)
(* reach the other nodes is modelled in SearchRequests, and the download   *)
(* of the chunks of a found file, here a step that may or may not happen,  *)
(* in Download.                                                            *)
(***************************************************************************)
EXTENDS Naturals, FiniteSets, FiniteSetsExt

CONSTANTS
    Holders,        \* the other nodes
    Files,          \* files, which stand for their metahashes
    Keywords,
    Count,          \* Count[f]: number of chunks of f, what its metafile lists
    Matching,       \* Matching[f]: the keywords that match the name of f
    Shared,         \* Shared[h]: files that h has indexed as a whole
    Searches,       \* sets of keywords that the client searches for
    MaxReplies,     \* bound: replies
    MaxDownloads,   \* bound: SearchDownload commands for one file
    MaxDeletions    \* bound: how often the node's own entry of a file is deleted

ASSUME FilesAssumption ==
    /\ Count \in [Files -> Nat \ {0}]
    /\ Matching \in [Files -> SUBSET Keywords]
    /\ Shared \in [Holders -> SUBSET Files]
    /\ IsFiniteSet(Holders) /\ IsFiniteSet(Keywords)
ASSUME CommandsAssumption ==
    /\ Searches \subseteq SUBSET Keywords
    /\ MaxReplies \in Nat /\ MaxDownloads \in Nat /\ MaxDeletions \in Nat

VARIABLES
    offers,         \* offers[h]: IndexedFiles of h
    info,           \* KeywordToInfo: files and their chunks by keyword
    searches,       \* SearchRequestInfo: NbOfMatches of each search
    own,            \* own[f]: the node's own IndexedFiles entry
    awaiting,       \* AwaitingRequestsMetahash: no entry, no metafile, or one
    asked,          \* files whose metafile was asked of a node
    fetching,       \* files whose first chunk was asked for
    matches,        \* matches[f]: entries of f in AllMatches
    downloads,      \* downloads[f]: SearchDownload commands so far
    deletions,      \* deletions[f]: how often own[f] was deleted
    replies,        \* search replies in flight
    sent            \* replies sent so far

ownVars == <<info, searches, own, matches>>
downloadVars == <<awaiting, asked, fetching, downloads, deletions>>
vars == <<offers, ownVars, downloadVars, replies, sent>>

Offer == [metafile : BOOLEAN, next : Nat]
Result == [chunkMap : SUBSET (Nat \ {0}), chunkCount : Nat, several : BOOLEAN]
Entry == [places : [Holders -> SUBSET Nat], nbOfChunks : Nat, metafile : BOOLEAN,
          foundAllChunks : BOOLEAN, alreadyShown : BOOLEAN]
MyFile == [metafile : BOOLEAN, done : BOOLEAN, alreadyShown : BOOLEAN]
ZeroFile == [metafile |-> FALSE, done |-> FALSE, alreadyShown |-> FALSE]

IsPartial(f, keys, values) ==
    DOMAIN f \subseteq keys /\ \A x \in DOMAIN f : f[x] \in values

TypeOK ==
    /\ DOMAIN offers = Holders
    /\ \A h \in Holders : IsPartial(offers[h], Files, Offer)
    /\ DOMAIN info \subseteq Keywords
    /\ \A k \in DOMAIN info : IsPartial(info[k], Files, Entry)
    /\ IsPartial(searches, Searches, Nat)
    /\ own \in [Files -> MyFile]
    /\ awaiting \in [Files -> {"none", "asked", "known"}]
    /\ asked \subseteq Files /\ fetching \subseteq Files
    /\ matches \in [Files -> Nat]
    /\ downloads \in [Files -> 0 .. MaxDownloads]
    /\ deletions \in [Files -> 0 .. MaxDeletions]
    /\ \A r \in replies : r.from \in Holders /\ IsPartial(r.results, Files, Result)
    /\ sent \in 0 .. MaxReplies

Init ==
    /\ offers = [h \in Holders |->
                    [f \in Shared[h] |-> [metafile |-> TRUE, next |-> Count[f]]]]
    /\ info = [k \in {} |-> {}]
    /\ searches = [s \in {} |-> 0]
    /\ own = [f \in Files |-> ZeroFile]
    /\ awaiting = [f \in Files |-> "none"]
    /\ asked = {}
    /\ fetching = {}
    /\ matches = [f \in Files |-> 0]
    /\ downloads = [f \in Files |-> 0]
    /\ deletions = [f \in Files |-> 0]
    /\ replies = {}
    /\ sent = 0

(***************************************************************************)
(* The other nodes download files and answer searches.                     *)
(***************************************************************************)
OfferBegins(h, f) ==
    /\ f \notin DOMAIN offers[h]
    /\ offers' = [offers EXCEPT ![h] =
           [g \in DOMAIN @ \cup {f} |->
               IF g = f THEN [metafile |-> FALSE, next |-> 0] ELSE @[g]]]
    /\ UNCHANGED <<ownVars, downloadVars, replies, sent>>

Grown(offer) ==
    IF offer.metafile THEN [offer EXCEPT !.next = @ + 1]
    ELSE [offer EXCEPT !.metafile = TRUE]

\* The metafile comes, or the next chunk.
OfferGrows(h, f) ==
    /\ f \in DOMAIN offers[h]
    /\ offers[h][f].next < Count[f]
    /\ offers' = [offers EXCEPT ![h][f] = Grown(@)]
    /\ UNCHANGED <<ownVars, downloadVars, replies, sent>>

\* SearchDownload of a file that is not done makes a new entry (main.go:243); the
\* metafile of a file that is asked for again starts the entry anew (main.go:516).
OfferRestarts(h, f) ==
    /\ f \in DOMAIN offers[h]
    /\ offers[h][f].next < Count[f]
    /\ \E known \in BOOLEAN :
          offers' = [offers EXCEPT ![h][f] = [metafile |-> known, next |-> 0]]
    /\ UNCHANGED <<ownVars, downloadVars, replies, sent>>

\* A late or an empty reply deletes the entry of a download, of a finished one as
\* well (main.go:742).
OfferVanishes(h, f) ==
    /\ f \in DOMAIN offers[h] \ Shared[h]
    /\ offers' = [offers EXCEPT ![h] = [g \in DOMAIN @ \ {f} |-> @[g]]]
    /\ UNCHANGED <<ownVars, downloadVars, replies, sent>>

\* getChunkMap: chunks are counted from one on the wire.
ChunkMap(offer) == 1 .. offer.next

\* The search request handler (main.go:799-829): a file is listed once for each
\* keyword that its name matches, one without its metafile with a count of zero.
SendReply(h, s) ==
    /\ s \in DOMAIN searches
    /\ sent < MaxReplies
    /\ LET listed == {f \in DOMAIN offers[h] : Matching[f] \cap s # {}}
           Item(f) == [chunkMap |-> ChunkMap(offers[h][f]),
                       chunkCount |-> IF offers[h][f].metafile THEN Count[f] ELSE 0,
                       several |-> Cardinality(Matching[f] \cap s) > 1]
       IN  replies' = replies \cup
                {[from |-> h, results |-> [f \in listed |-> Item(f)]]}
    /\ sent' = sent + 1
    /\ UNCHANGED <<offers, ownVars, downloadVars>>

(***************************************************************************)
(* Showing matches (sendMatchToFrontend).                                  *)
(***************************************************************************)
\* The order in which Go goes through the keywords of a map.
Orders ==
    {rank \in [Keywords -> 1 .. Cardinality(Keywords)] :
        \A k, l \in Keywords : rank[k] = rank[l] => k = l}

\* Faulty variant: the node's own entry does not remember what was shown.
ShownNever(f) == FALSE

ShownBefore(f) == own[f].alreadyShown

\* Keywords of ks whose entry of f is found and was not shown yet.
ToShow(newInfo, ks, f) ==
    {k \in ks : f \in DOMAIN newInfo[k] /\ newInfo[k][f].foundAllChunks
                                        /\ ~newInfo[k][f].alreadyShown}

\* With the entries newInfo, show what is to be shown of the keywords ks in the
\* given order: the first keyword takes a file, the others then pass it over.
Show(newInfo, ks, order, newOwn) ==
    LET Takes(k, f) == /\ k \in ToShow(newInfo, ks, f)
                       /\ \A l \in ToShow(newInfo, ks, f) : order[k] <= order[l]
        shown(f) == ~ShownBefore(f) /\ ToShow(newInfo, ks, f) # {}
    IN  /\ info' = [k \in DOMAIN newInfo |-> [f \in DOMAIN newInfo[k] |->
              [newInfo[k][f] EXCEPT !.alreadyShown = @ \/ (shown(f) /\ Takes(k, f))]]]
        /\ own' = [f \in Files |->
              [newOwn[f] EXCEPT !.alreadyShown = @ \/ shown(f)]]
        /\ matches' = [f \in Files |-> IF shown(f) THEN matches[f] + 1 ELSE matches[f]]

(***************************************************************************)
(* Search replies (main.go:844-976).                                       *)
(***************************************************************************)
\* Faulty variant: chunks stay counted from one.
ChunksFromOne(chunkMap) == chunkMap

\* getNormalChunkMap: chunks are counted from zero by the searching node.
NormalChunkMap(chunkMap) == {c - 1 : c \in chunkMap}

\* getNbTotalChunksOfMap counts, over all nodes, what it finds listed.
NbTotalChunks(places) ==
    Cardinality(UNION {{h} \X places[h] : h \in Holders})

\* Faulty variant: a chunk that lies at another node already is listed again.
AllOf(places, h, chunks) == [places EXCEPT ![h] = @ \cup chunks]

\* Only chunks that lie nowhere yet are listed at h.
MissingOf(places, h, chunks) ==
    [places EXCEPT ![h] = @ \cup (chunks \ UNION {places[g] : g \in Holders})]

\* A file that the keyword did not list.
NewEntry(f, h, result) ==
    LET places == [g \in Holders |->
                      IF g = h THEN NormalChunkMap(result.chunkMap) ELSE {}]
    IN  [places |-> places,
         nbOfChunks |-> result.chunkCount,
         metafile |-> own[f].metafile,
         foundAllChunks |-> /\ ~own[f].metafile
                            /\ NbTotalChunks(places) = result.chunkCount,
         alreadyShown |-> FALSE]

\* A file that it lists already: it may be found now, if its metafile is known.
UpdatedEntry(entry, h, result) ==
    LET places == MissingOf(entry.places, h, NormalChunkMap(result.chunkMap))
    IN  [entry EXCEPT !.places = places,
                      !.foundAllChunks =
                          @ \/ (entry.metafile /\ NbTotalChunks(places) = entry.nbOfChunks)]

\* What an entry becomes with a result, which may be in the reply several times.
WithResult(k, f, h, result) ==
    LET once == IF f \in DOMAIN info[k] THEN UpdatedEntry(info[k][f], h, result)
                ELSE NewEntry(f, h, result)
    IN  IF result.several THEN UpdatedEntry(once, h, result) ELSE once

\* updateSearchRequestsByKeywords: a match for each keyword, found or not.
CountMatches(matched) ==
    searches' = [s \in DOMAIN searches |-> searches[s] + Cardinality(s \cap matched)]

\* Files of the reply that match keyword k and are not downloaded yet.
News(r, k) == {f \in DOMAIN r.results : ~own[f].done /\ k \in Matching[f]}

InfoWithReply(r) ==
    [k \in DOMAIN info |-> [f \in DOMAIN info[k] \cup News(r, k) |->
        IF f \in News(r, k) THEN WithResult(k, f, r.from, r.results[f])
        ELSE info[k][f]]]

ReceiveReply(r, order) ==
    LET matched == {k \in DOMAIN info : News(r, k) # {}}
    IN  /\ Show(InfoWithReply(r), matched, order, own)
        /\ CountMatches(matched)
        /\ replies' = replies \ {r}
        /\ UNCHANGED <<offers, downloadVars, sent>>

(***************************************************************************)
(* The client's commands, and the downloads as far as they touch searches. *)
(***************************************************************************)
Search(s) ==
    /\ s \notin DOMAIN searches
    /\ searches' = [t \in DOMAIN searches \cup {s} |-> IF t = s THEN 0 ELSE searches[t]]
    /\ info' = [k \in DOMAIN info \cup s |->
                   IF k \in DOMAIN info THEN info[k] ELSE [f \in {} |-> {}]]
    /\ UNCHANGED <<offers, own, matches, downloadVars, replies, sent>>

\* getNextChunkDestination for the first chunk: a node with the chunk, if there is
\* one under keyword k, which is the first that Go comes upon of those listing f.
Destinations(f, k) == {h \in Holders : 0 \in info[k][f].places[h]}

\* requestMetafileOfHashAndDest: without a destination the request gets nowhere.
RequestMetafile(f) ==
    LET listing == {k \in DOMAIN info : f \in DOMAIN info[k]}
    IN  /\ awaiting' = [awaiting EXCEPT ![f] = "asked"]
        /\ \/ /\ \E k \in listing : Destinations(f, k) # {}
              /\ asked' = asked \cup {f}
           \/ /\ listing = {} \/ \E k \in listing : Destinations(f, k) = {}
              /\ UNCHANGED asked

SearchDownload(f) ==
    /\ downloads[f] < MaxDownloads
    /\ ~own[f].done
    /\ downloads' = [downloads EXCEPT ![f] = @ + 1]
    /\ own' = [own EXCEPT ![f] = ZeroFile]
    /\ IF awaiting[f] = "known" THEN UNCHANGED <<awaiting, asked>>
       ELSE RequestMetafile(f)
    /\ UNCHANGED <<offers, info, searches, matches, fetching, deletions, replies,
                   sent>>

\* A late or an empty reply to the request for the metafile, or a second one,
\* deletes the node's own entry, and with it AlreadyShown (main.go:742).
DeleteFile(f) ==
    /\ f \in asked
    /\ deletions[f] < MaxDeletions
    /\ deletions' = [deletions EXCEPT ![f] = @ + 1]
    /\ own' = [own EXCEPT ![f] = ZeroFile]
    /\ UNCHANGED <<offers, info, searches, matches, awaiting, asked, fetching,
                   downloads, replies, sent>>

WithMetafile(entry, f) ==
    [entry EXCEPT !.metafile = TRUE, !.nbOfChunks = Count[f],
                  !.foundAllChunks = @ \/ NbTotalChunks(entry.places) = Count[f]]

InfoWithMetafile(f) ==
    [k \in DOMAIN info |-> [g \in DOMAIN info[k] |->
        IF g = f /\ ~info[k][g].metafile THEN WithMetafile(info[k][g], f)
        ELSE info[k][g]]]

\* Faulty variant: a file that is found by its metafile is not shown.
NoneChanged(f) == {}

\* Keywords under which the metafile of f shows that the file is found.
Changed(f) ==
    {k \in DOMAIN info : /\ f \in DOMAIN info[k] /\ ~info[k][f].metafile
                         /\ NbTotalChunks(info[k][f].places) = Count[f]}

\* downloadFileWithMetahash: a file that is found is fetched.
Fetchable(f) ==
    /\ ~own[f].done
    /\ \E k \in DOMAIN info :
          f \in DOMAIN info[k] /\ InfoWithMetafile(f)[k][f].foundAllChunks

\* The metafile of a found file comes (main.go:506-566).  "changed" stays set for
\* the keywords that follow.
ReceiveMetafile(f, order) ==
    LET after == {k \in DOMAIN info : \E l \in Changed(f) : order[l] <= order[k]}
    IN  /\ awaiting[f] = "asked" /\ f \in asked
        /\ awaiting' = [awaiting EXCEPT ![f] = "known"]
        /\ Show(InfoWithMetafile(f), after, order, [own EXCEPT ![f].metafile = TRUE])
        /\ fetching' = IF Fetchable(f) THEN fetching \cup {f} ELSE fetching
        /\ UNCHANGED <<offers, searches, asked, downloads, deletions, replies, sent>>

\* A chunk of a found file comes, maybe the last one (main.go:567-608).
ReceiveChunk(f, last) ==
    /\ f \in fetching
    /\ own' = [own EXCEPT ![f].metafile = TRUE, ![f].done = @ \/ last]
    /\ IF last THEN /\ awaiting' = [awaiting EXCEPT ![f] = "none"]
                    /\ fetching' = fetching \ {f}
               ELSE UNCHANGED <<awaiting, fetching>>
    /\ UNCHANGED <<offers, info, searches, matches, asked, downloads, deletions,
                   replies, sent>>

Next ==
    \/ \E h \in Holders, f \in Files :
          \/ OfferBegins(h, f) \/ OfferGrows(h, f)
          \/ OfferRestarts(h, f) \/ OfferVanishes(h, f)
    \/ \E h \in Holders, s \in Searches : SendReply(h, s)
    \/ \E r \in replies, order \in Orders : ReceiveReply(r, order)
    \/ \E s \in Searches : Search(s)
    \/ \E f \in Files : SearchDownload(f) \/ DeleteFile(f)
    \/ \E f \in Files, order \in Orders : ReceiveMetafile(f, order)
    \/ \E f \in Files, last \in BOOLEAN : ReceiveChunk(f, last)

Spec == Init /\ [][Next]_vars

MinNumberMatches == 2   \* MIN_NUMBER_MATCHES

(***************************************************************************)
(* Properties.                                                             *)
(***************************************************************************)
Chunks(f) == 0 .. Count[f] - 1
Seen(entry) == UNION {entry.places[h] : h \in Holders}

\* The entry of f under keyword k is found.
Found(k, f) == f \in DOMAIN info[k] /\ info[k][f].foundAllChunks

\* A file with a known number of chunks becomes found only when each of them has
\* been reported: replies with parts of it from several nodes, in any order, some
\* of them old or repeated, never add up to a file with a chunk nobody had.
FoundIsWhole ==
    [][\A k \in DOMAIN info' : \A f \in DOMAIN info'[k] :
          /\ info'[k][f].foundAllChunks /\ info'[k][f].nbOfChunks > 0
          /\ ~(k \in DOMAIN info /\ Found(k, f))
          => Chunks(f) \subseteq Seen(info'[k][f])]_vars

\* A found file is shown in the step that finds it, be it by a reply or by the
\* metafile, and whichever keyword it was found under.
FoundIsShown ==
    \A k \in DOMAIN info : \A f \in DOMAIN info[k] :
        info[k][f].foundAllChunks => matches[f] > 0

\* Under however many keywords and searches a file is found, it is shown once, and
\* once more at most for each time the node loses its own entry of it, which alone
\* remembers; and however often that is, never twice for the same keyword.
ShownOnce ==
    \A f \in Files :
        /\ matches[f] <= 1 + downloads[f] + deletions[f]
        /\ matches[f] <= Cardinality(Matching[f])

\* "Check if we know where all the chunks are" (main.go:545): of a found file each
\* chunk has been reported.  It does not hold: of a file without metafile a node
\* offers zero chunks of zero, which are all of them (main.go:902).
FoundIsSeen ==
    \A k \in DOMAIN info : \A f \in DOMAIN info[k] :
        info[k][f].foundAllChunks => Chunks(f) \subseteq Seen(info[k][f])

\* A chunk that is listed at a node is one it serves.  It does not hold: the node
\* may have lost the entry since (main.go:742), and is then asked in vain.
ListedIsServed ==
    \A k \in DOMAIN info : \A f \in DOMAIN info[k] : \A h \in Holders :
        \A c \in info[k][f].places[h] :
            f \in DOMAIN offers[h] /\ c < offers[h][f].next

\* "we cannot increment the matches as we do not have the metafile"
\* (main.go:883): a search that has the matches that end it has found a file.
\* It does not hold: results without new chunks count as well.
EndedSearchesHaveFound ==
    \A s \in DOMAIN searches :
        searches[s] >= MinNumberMatches =>
            \E k \in s : \E f \in DOMAIN info[k] : info[k][f].foundAllChunks

\* "Request the metafile" (main.go:898): the metafile of a file that is known
\* whole but not found, because its chunks lie at several nodes, is asked for.
\* It does not hold: nothing is sent there.
SeenIsFoundOrAsked ==
    \A k \in DOMAIN info : \A f \in DOMAIN info[k] :
        Chunks(f) \subseteq Seen(info[k][f])
            => info[k][f].foundAllChunks \/ awaiting[f] # "none"
=============================================================================
