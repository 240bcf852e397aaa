------------------------------ MODULE Download ------------------------------
(***************************************************************************)
(* The downloads of one Peerster: files asked for from a given node        *)
(* (Request), and files found by a search, whose chunks may come from      *)
(* several nodes (SearchDownload).  The threads are the client's, which    *)
(* sends a request and then lists its timer, the listener, which handles   *)
(* one data reply after the other in four steps, and one goroutine for     *)
(* every timer; their critical sections are those of ResponseTimers.  The  *)
(* serving nodes do not change, and the nodes that relay requests and      *)
(* replies are part of the network.                                        *)
(*                                                                         *)
(* A hash stands for what it is the hash of: a file's metahash is the file *)
(* itself, a chunk's hash is the chunk.                                    *)
(***************************************************************************)
EXTENDS Integers, Sequences, FiniteSets, Bags

CONSTANTS
    Origins,        \* the nodes that serve files
    Files,          \* the files, which stand for their metahashes
    ChunkIds,       \* the chunks, which stand for their hashes
    Chunks,         \* Chunks[f]: the chunks of f, what its metafile lists
    Holds,          \* Holds[o]: the files and chunks o serves
    Places,         \* Places[f][o]: chunk indices of f that a search saw at o
    Keywords,       \* Keywords[f]: number of keywords that f was found under
    Requestable,    \* pairs of a file and a node that Requests name
    Searched,       \* files that SearchDownloads name
    Untimely,       \* the nodes whose replies may come before their timer is
                    \* listed, after it has run out, or twice
    Ended,          \* a timer in a list that has run out or was stopped
    Sessions,       \* bound: the sets of files that a client gives commands for
    MaxCommands,    \* bound: commands of the client for one file
    MaxMishaps,     \* bound: packets lost, or delivered twice
    MaxExpired      \* bound: timers of untimely nodes that run out

ASSUME ChunksAssumption ==
    /\ Files \cap ChunkIds = {}
    /\ Chunks \in [Files -> Seq(ChunkIds) \ {<<>>}]
    /\ Holds \in [Origins -> SUBSET (Files \cup ChunkIds)]
    /\ Ended \notin Files \cup ChunkIds
ASSUME SearchAssumption ==
    /\ Places \in [Files -> [Origins -> SUBSET Nat]]
    /\ Keywords \in [Files -> Nat]
    /\ Searched \subseteq Files
    /\ \A f \in Searched :   \* FoundAllChunks: the search saw every chunk
          UNION {Places[f][o] : o \in Origins} = 0 .. Len(Chunks[f]) - 1
ASSUME CommandsAssumption ==
    /\ Requestable \subseteq Files \X Origins
    /\ Untimely \subseteq Origins
    /\ Sessions \subseteq SUBSET Files
    /\ MaxCommands \in Nat /\ MaxMishaps \in Nat /\ MaxExpired \in Nat

VARIABLES
    indexed,        \* SafeIndexedFiles.IndexedFiles, keyed by metahash
    requested,      \* requested[o]: RequestDestinationToFileAndIndex[o]
    awaiting,       \* AwaitingRequestsMetahash: no entry, no metafile, or one
    disk,           \* disk[f]: the chunks in the file that f is written to
    list,           \* list[o]: SafeDataRequestTimers.ResponseTimers[o]
    goroutines,     \* bag: goroutines of timers that are not in a list, or have run out
    client,         \* the request whose timer the client's thread is about to list
    listener,       \* where the listener is in the handling of a reply
    requests,       \* data requests in flight
    replies,        \* data replies in flight
    commands,       \* commands[f]: commands the client may still give for f
    mishaps,        \* packets lost, or delivered twice, so far
    expired,        \* timers of untimely nodes that have run out so far
    crashed         \* has the process panicked?

fileVars == <<indexed, requested, awaiting, disk>>
timerVars == <<list, goroutines>>
boundVars == <<commands, mishaps, expired>>
vars == <<indexed, requested, awaiting, disk, list, goroutines, client, listener,
          requests, replies, commands, mishaps, expired, crashed>>

Hashes == Files \cup ChunkIds
Index == Nat \cup {-1}
MyFile == [named : BOOLEAN, metafile : BOOLEAN, next : Index, done : BOOLEAN]
FileAndIndex == [file : Files, next : Index, done : BOOLEAN]
DataRequest == [to : Origins, hash : Hashes]
DataReply == [from : Origins, hash : Hashes, empty : BOOLEAN]
None == [to |-> {}]
Idle == [at |-> "idle"]

(***************************************************************************)
(* unlisted  its timer runs, and another removal took it out of the list   *)
(* expired   on the way to removeFinishedDataRequestTimer                  *)
(* removed   has called it                                                 *)
(* resent    has sent the request again, and will list its new timer       *)
(***************************************************************************)
Goroutine ==
    [at : {"unlisted", "expired", "removed", "resent"}, to : Origins, hash : Hashes]

\* Between the steps of isDataResponse, removeFinishedDataRequestTimer and the rest.
Handling == [at : {"found", "stopped", "removed"}, reply : DataReply]

TypeOK ==
    /\ DOMAIN indexed \subseteq Files
    /\ \A f \in DOMAIN indexed : indexed[f] \in MyFile
    /\ requested \in [Origins -> Seq(FileAndIndex)]
    /\ \A o \in Origins : \A i \in DOMAIN requested[o] :
          requested[o][i].next < Len(Chunks[requested[o][i].file])
    /\ awaiting \in [Files -> {"none", "asked", "known"}]
    /\ disk \in [Files -> Seq(ChunkIds)]
    /\ list \in [Origins -> Seq(Hashes \cup {Ended})]
    /\ IsABag(goroutines) /\ BagToSet(goroutines) \subseteq Goroutine
    /\ client \in DataRequest \cup {None}
    /\ listener \in Handling \cup {Idle}
    /\ requests \subseteq DataRequest
    /\ replies \subseteq DataReply
    /\ commands \in [Files -> 0 .. MaxCommands]
    /\ mishaps \in 0 .. MaxMishaps
    /\ expired \in 0 .. MaxExpired
    /\ crashed \in BOOLEAN

Init ==
    /\ indexed = [f \in {} |-> {}]
    /\ requested = [o \in Origins |-> <<>>]
    /\ awaiting = [f \in Files |-> "none"]
    /\ disk = [f \in Files |-> <<>>]
    /\ list = [o \in Origins |-> <<>>]
    /\ goroutines = EmptyBag
    /\ client = None
    /\ listener = Idle
    /\ requests = {}
    /\ replies = {}
    /\ \E session \in Sessions :
          commands = [f \in Files |-> IF f \in session THEN MaxCommands ELSE 0]
    /\ mishaps = 0
    /\ expired = 0
    /\ crashed = FALSE

(***************************************************************************)
(* Indexed files.                                                          *)
(***************************************************************************)
\* What Go finds under a key that is not there, the file without a name.
ZeroFile == [named |-> FALSE, metafile |-> FALSE, next |-> 0, done |-> FALSE]

MyFileOf(f) == IF f \in DOMAIN indexed THEN indexed[f] ELSE ZeroFile

SetFile(f, file) ==
    indexed' = [g \in DOMAIN indexed \cup {f} |-> IF g = f THEN file ELSE indexed[g]]

DeleteFile(h) == indexed' = [g \in DOMAIN indexed \ {h} |-> indexed[g]]

\* Faulty variant: a chunk with a hash that the file has already is left out.
WriteNewChunk(f, chunk) ==
    disk' = IF MyFileOf(f).named /\ \A i \in DOMAIN disk[f] : disk[f][i] # chunk
            THEN [disk EXCEPT ![f] = Append(@, chunk)] ELSE disk

\* writeChunkToFile: nothing can be appended to a file without a name.
WriteChunk(f, chunk) ==
    disk' = IF MyFileOf(f).named THEN [disk EXCEPT ![f] = Append(@, chunk)] ELSE disk

(***************************************************************************)
(* Data requests.                                                          *)
(***************************************************************************)
\* sendDataRequestToSpecificPeer
Send(o, h) == requests' = requests \cup {[to |-> o, hash |-> h]}

\* With makeDataRequestTimer, when the listener itself sends: no reply is handled in
\* between.
Ask(o, h) ==
    /\ Send(o, h)
    /\ list' = [list EXCEPT ![o] = Append(@, h)]

AskNothing == UNCHANGED <<requests, list>>

\* The nodes that a search saw a chunk at.
Having(f, index) == {o \in Origins : index \in Places[f][o]}

\* Faulty variant: only the last sender is asked.
LastSender(f, index, last) == {last} \cap Having(f, index)

\* getNextChunkDestination: the last sender if it has the chunk, or any other.
NextDestinations(f, index, last) ==
    IF last \in Having(f, index) THEN {last} ELSE Having(f, index)

(***************************************************************************)
(* The client port: Request and SearchDownload, which send a request, and  *)
(* ListTimer, the end of both.                                             *)
(***************************************************************************)
\* The name the client gives is that of an earlier download, or a new one.
Request(f, o, newName) ==
    /\ client = None
    /\ <<f, o>> \in Requestable
    /\ commands[f] > 0
    /\ f \notin DOMAIN indexed
    /\ commands' = [commands EXCEPT ![f] = @ - 1]
    /\ SetFile(f, [ZeroFile EXCEPT !.named = TRUE, !.next = -1])
    /\ requested' = [requested EXCEPT ![o] =
                        Append(@, [file |-> f, next |-> -1, done |-> FALSE])]
    /\ disk' = IF newName THEN [disk EXCEPT ![f] = <<>>] ELSE disk
    /\ Send(o, f)
    /\ client' = [to |-> o, hash |-> f]
    /\ UNCHANGED <<awaiting, timerVars, listener, replies, mishaps, expired, crashed>>

\* getFilename picks a name that is not in use.
SearchDownload(f) ==
    /\ client = None
    /\ f \in Searched
    /\ commands[f] > 0
    /\ ~MyFileOf(f).done
    /\ commands' = [commands EXCEPT ![f] = @ - 1]
    /\ SetFile(f, [ZeroFile EXCEPT !.named = TRUE])
    /\ disk' = [disk EXCEPT ![f] = <<>>]
    /\ IF awaiting[f] = "known"
       THEN UNCHANGED <<awaiting, requests, client>>
       ELSE /\ awaiting' = [awaiting EXCEPT ![f] = "asked"]
            /\ \E o \in Having(f, 0) :
                  Send(o, f) /\ client' = [to |-> o, hash |-> f]
    /\ UNCHANGED <<requested, timerVars, listener, replies, mishaps, expired, crashed>>

ListTimer ==
    /\ client # None
    /\ list' = [list EXCEPT ![client.to] = Append(@, client.hash)]
    /\ client' = None
    /\ UNCHANGED <<fileVars, goroutines, listener, requests, replies, boundVars, crashed>>

(***************************************************************************)
(* Data replies (getNextChunkHashToRequest and the DataReply handler).     *)
(***************************************************************************)
First(indices) == CHOOSE i \in indices : \A j \in indices : i <= j

\* The chunk at an index that counts from zero, as the code does.
ChunkAt(f, index) == Chunks[f][index + 1]

\* Faulty variant: the chunk before the last one ends the file.
IsLastButOne(f, index) == index + 2 >= Len(Chunks[f])

IsLast(f, index) == index + 1 = Len(Chunks[f])

\* The entries that wait for h as their metafile.
MetafileEntries(o, h) ==
    {i \in DOMAIN requested[o] :
        requested[o][i].next = -1 /\ requested[o][i].file = h /\ ~requested[o][i].done}

\* Faulty variant: an entry takes any chunk of its file.
AnyChunkEntry(o, h) ==
    {i \in DOMAIN requested[o] :
        \/ requested[o][i].next = -1
        \/ \E k \in DOMAIN Chunks[requested[o][i].file] :
              Chunks[requested[o][i].file][k] = h}

\* The entries at which the search for chunk h ends: those that wait for h and
\* those without a metafile, where slicing it panics.
ChunkEntries(o, h) ==
    {i \in DOMAIN requested[o] :
        \/ requested[o][i].next = -1
        \/ ChunkAt(requested[o][i].file, requested[o][i].next) = h}

Panics(o, h) ==
    /\ MetafileEntries(o, h) = {}
    /\ ChunkEntries(o, h) # {}
    /\ requested[o][First(ChunkEntries(o, h))].next = -1

\* Files found by a search, with their metafile, of which h is a chunk.
AwaitingChunk(h) ==
    {f \in Files : awaiting[f] = "known" /\ \E i \in DOMAIN Chunks[f] : Chunks[f][i] = h}
AwaitingMetafile(h) == h \in Files /\ awaiting[h] # "none"

\* The metafile of a found file: the first chunk is asked for once for every
\* keyword that the file was found under (downloadFileWithMetahash).
FoundMetafile(h) ==
    /\ AwaitingMetafile(h)
    /\ IF awaiting[h] = "known"
       THEN AskNothing /\ UNCHANGED fileVars
       ELSE /\ awaiting' = [awaiting EXCEPT ![h] = "known"]
            /\ SetFile(h, [MyFileOf(h) EXCEPT !.metafile = TRUE, !.next = 0])
            /\ LET times == IF MyFileOf(h).done THEN 0 ELSE Keywords[h]
               IN  \E asked \in [1 .. times -> Having(h, 0)] :
                     LET To(o) == {i \in DOMAIN asked : asked[i] = o}
                     IN  /\ requests' = requests \cup
                               {[to |-> asked[i], hash |-> ChunkAt(h, 0)] : i \in DOMAIN asked}
                         /\ list' = [o \in Origins |->
                               list[o] \o [j \in 1 .. Cardinality(To(o)) |-> ChunkAt(h, 0)]]
            /\ UNCHANGED <<requested, disk>>

\* Faulty variant: the file ends one chunk early.
EndsEarly(f, h, next) == next + 1 >= Len(Chunks[f])

\* As many chunks as the metafile lists have come, or h is the last that it lists.
Ends(f, h, next) ==
    \/ next = Len(Chunks[f])
    \/ \A i \in DOMAIN Chunks[f] : Chunks[f][i] = h => i = Len(Chunks[f])

\* A chunk of a found file, whichever chunk of it is the next one.  When more have
\* come than the metafile lists, slicing it panics.
FoundChunk(o, h) ==
    /\ ~AwaitingMetafile(h)
    /\ \E f \in AwaitingChunk(h) :
          LET next == MyFileOf(f).next + 1
              file == [MyFileOf(f) EXCEPT !.metafile = TRUE, !.next = next]
          IN  /\ WriteChunk(f, h)
              /\ \/ /\ next > Len(Chunks[f])
                    /\ SetFile(f, file)
                    /\ crashed' = TRUE
                    /\ AskNothing /\ UNCHANGED awaiting
                 \/ /\ next <= Len(Chunks[f]) /\ Ends(f, h, next)
                    /\ SetFile(f, [file EXCEPT !.done = TRUE])
                    /\ awaiting' = [awaiting EXCEPT ![f] = "none"]
                    /\ AskNothing /\ UNCHANGED crashed
                 \/ /\ next <= Len(Chunks[f]) /\ ~Ends(f, h, next)
                    /\ SetFile(f, file)
                    /\ IF NextDestinations(f, next, o) = {}
                       THEN AskNothing
                       ELSE \E p \in NextDestinations(f, next, o) : Ask(p, ChunkAt(f, next))
                    /\ UNCHANGED <<awaiting, crashed>>
              /\ UNCHANGED requested

Found(h) == AwaitingMetafile(h) \/ AwaitingChunk(h) # {}

RequestedMetafile(o, h) ==
    /\ ~Found(h)
    /\ MetafileEntries(o, h) # {}
    /\ requested' = [requested EXCEPT ![o][First(MetafileEntries(o, h))].next = 0]
    /\ SetFile(h, [MyFileOf(h) EXCEPT !.metafile = TRUE, !.next = 0])
    /\ Ask(o, ChunkAt(h, 0))
    /\ UNCHANGED <<awaiting, disk>>

\* A chunk that some request to o is waiting for.
RequestedChunk(o, h) ==
    /\ ~Found(h)
    /\ MetafileEntries(o, h) = {} /\ ChunkEntries(o, h) # {}
    /\ LET i == First(ChunkEntries(o, h))
           f == requested[o][i].file
           index == requested[o][i].next
           file == [MyFileOf(f) EXCEPT !.next = @ + 1]
       IN  /\ WriteChunk(f, h)
           /\ \/ /\ IsLast(f, index) /\ file.metafile
                 /\ SetFile(f, [file EXCEPT !.done = TRUE])
                 /\ requested' = [requested EXCEPT ![o][i].done = TRUE]
                 /\ AskNothing /\ UNCHANGED crashed
              \/ /\ IsLast(f, index) /\ ~file.metafile   \* slicing it panics
                 /\ SetFile(f, file)
                 /\ crashed' = TRUE
                 /\ AskNothing /\ UNCHANGED requested
              \/ /\ ~IsLast(f, index)
                 /\ SetFile(f, file)
                 /\ requested' = [requested EXCEPT ![o][i].next = @ + 1]
                 /\ Ask(o, ChunkAt(f, index + 1))
                 /\ UNCHANGED crashed
    /\ UNCHANGED awaiting

NotAskedFor(o, h) ==
    /\ ~Found(h)
    /\ MetafileEntries(o, h) = {} /\ ChunkEntries(o, h) = {}
    /\ AskNothing /\ UNCHANGED fileVars

(***************************************************************************)
(* The four steps of the listener with a data reply.                       *)
(***************************************************************************)
\* The timers of o without the oldest, which runs on if it was running.
Shorter(o) == IF list[o] = <<>> THEN list ELSE [list EXCEPT ![o] = Tail(@)]

Dropped(o) ==
    IF list[o] = <<>> \/ Head(list[o]) = Ended THEN EmptyBag
    ELSE SetToBag({[at |-> "unlisted", to |-> o, hash |-> Head(list[o])]})

\* A timely reply comes after the timer of its request was listed.
IsListed(o) ==
    /\ client.to # o
    /\ \A g \in BagToSet(goroutines) : g.to = o => g.at # "resent"

\* A reply from a node without a timer costs its file the entry.
TakeReply(r, again) ==
    /\ listener = Idle
    /\ r.from \in Untimely \/ (IsListed(r.from) /\ ~again)
    /\ \/ /\ again /\ mishaps < MaxMishaps
          /\ mishaps' = mishaps + 1
          /\ UNCHANGED replies
       \/ /\ ~again
          /\ replies' = replies \ {r}
          /\ UNCHANGED mishaps
    /\ IF list[r.from] = <<>>
       THEN DeleteFile(r.hash) /\ UNCHANGED listener
       ELSE listener' = [at |-> "found", reply |-> r] /\ UNCHANGED indexed
    /\ UNCHANGED <<requested, awaiting, disk, timerVars, client, requests, commands, expired,
                   crashed>>

\* The lock was given back in between: the list may be another one by now.
StopHead ==
    /\ listener.at = "found"
    /\ LET o == listener.reply.from
       IN  \/ /\ list[o] = <<>>
              /\ crashed' = TRUE
              /\ UNCHANGED <<list, listener>>
           \/ /\ list[o] # <<>> /\ Head(list[o]) # Ended
              /\ list' = [list EXCEPT ![o][1] = Ended]
              /\ listener' = [listener EXCEPT !.at = "stopped"]
              /\ UNCHANGED crashed
           \/ /\ list[o] # <<>> /\ Head(list[o]) = Ended
              /\ listener' = [listener EXCEPT !.at = "stopped"]
              /\ UNCHANGED <<list, crashed>>
    /\ UNCHANGED <<fileVars, goroutines, client, requests, replies, boundVars>>

RemoveOldest ==
    /\ listener.at = "stopped"
    /\ list' = Shorter(listener.reply.from)
    /\ goroutines' = goroutines (+) Dropped(listener.reply.from)
    /\ listener' = [listener EXCEPT !.at = "removed"]
    /\ UNCHANGED <<fileVars, client, requests, replies, boundVars, crashed>>

\* An empty reply costs its file the entry as well.
HandleReply ==
    /\ listener.at = "removed"
    /\ LET o == listener.reply.from
           h == listener.reply.hash
           empty == listener.reply.empty
       IN  \/ /\ empty
              /\ DeleteFile(h)
              /\ AskNothing /\ UNCHANGED <<requested, awaiting, disk, crashed>>
           \/ /\ ~empty /\ Panics(o, h)
              /\ crashed' = TRUE
              /\ AskNothing /\ UNCHANGED fileVars
           \/ /\ ~empty /\ ~Panics(o, h)
              /\ RequestedChunk(o, h) \/ FoundChunk(o, h)
           \/ /\ ~empty /\ ~Panics(o, h)
              /\ \/ FoundMetafile(h)
                 \/ RequestedMetafile(o, h)
                 \/ NotAskedFor(o, h)
              /\ UNCHANGED crashed
    /\ listener' = Idle
    /\ UNCHANGED <<goroutines, client, replies, boundVars>>

(***************************************************************************)
(* The goroutines of timers.                                               *)
(***************************************************************************)
InFlight(o, h) ==
    \/ [to |-> o, hash |-> h] \in requests
    \/ \E r \in replies : r.from = o /\ r.hash = h
    \/ listener # Idle /\ listener.reply.from = o /\ listener.reply.hash = h

RunsOut(o, h) ==
    /\ IF o \in Untimely THEN expired < MaxExpired ELSE ~InFlight(o, h)
    /\ expired' = expired + (IF o \in Untimely THEN 1 ELSE 0)

Moved(g, at) == (goroutines (-) SetToBag({g})) (+) SetToBag({[g EXCEPT !.at = at]})

\* All timers run equally long: those that are not in the list are the older ones.
ExpireUnlisted(g) ==
    /\ g.at = "unlisted"
    /\ RunsOut(g.to, g.hash)
    /\ goroutines' = Moved(g, "expired")
    /\ UNCHANGED <<fileVars, list, client, listener, requests, replies, commands, mishaps,
                   crashed>>

ExpireListed(o) ==
    /\ \A g \in BagToSet(goroutines) : g.to = o => g.at # "unlisted"
    /\ \E i \in DOMAIN list[o] :
          /\ list[o][i] # Ended
          /\ \A j \in 1 .. i - 1 : list[o][j] = Ended
          /\ RunsOut(o, list[o][i])
          /\ list' = [list EXCEPT ![o][i] = Ended]
          /\ goroutines' = goroutines (+)
                SetToBag({[at |-> "expired", to |-> o, hash |-> list[o][i]]})
    /\ UNCHANGED <<fileVars, client, listener, requests, replies, commands, mishaps, crashed>>

\* The oldest timer in the list is removed, whosever it is.
RemoveTimer(g) ==
    /\ g.at = "expired"
    /\ list' = Shorter(g.to)
    /\ goroutines' = Moved(g, "removed") (+) Dropped(g.to)
    /\ UNCHANGED <<fileVars, client, listener, requests, replies, boundVars, crashed>>

SendAgain(g) ==
    /\ g.at = "removed"
    /\ Send(g.to, g.hash)
    /\ goroutines' = Moved(g, "resent")
    /\ UNCHANGED <<fileVars, list, client, listener, replies, boundVars, crashed>>

ListAgain(g) ==
    /\ g.at = "resent"
    /\ list' = [list EXCEPT ![g.to] = Append(@, g.hash)]
    /\ goroutines' = goroutines (-) SetToBag({g})
    /\ UNCHANGED <<fileVars, client, listener, requests, replies, boundVars, crashed>>

TimerStep(g) ==
    ExpireUnlisted(g) \/ RemoveTimer(g) \/ SendAgain(g) \/ ListAgain(g)

(***************************************************************************)
(* The serving nodes and the network.                                      *)
(***************************************************************************)
\* The DataRequest handler of the node asked: what it does not hold it answers
\* with empty data.
Serve(q) ==
    /\ requests' = requests \ {q}
    /\ replies' = replies \cup
           {[from |-> q.to, hash |-> q.hash, empty |-> q.hash \notin Holds[q.to]]}
    /\ UNCHANGED <<fileVars, timerVars, client, listener, boundVars, crashed>>

LoseRequest(q) ==
    /\ mishaps < MaxMishaps
    /\ mishaps' = mishaps + 1
    /\ requests' = requests \ {q}
    /\ UNCHANGED <<fileVars, timerVars, client, listener, replies, commands, expired, crashed>>

LoseReply(r) ==
    /\ mishaps < MaxMishaps
    /\ mishaps' = mishaps + 1
    /\ replies' = replies \ {r}
    /\ UNCHANGED <<fileVars, timerVars, client, listener, requests, commands, expired, crashed>>

Next ==
    /\ ~crashed
    /\ \/ \E f \in Files, o \in Origins, newName \in BOOLEAN : Request(f, o, newName)
       \/ \E f \in Files : SearchDownload(f)
       \/ ListTimer
       \/ \E r \in replies, again \in BOOLEAN : TakeReply(r, again)
       \/ StopHead \/ RemoveOldest \/ HandleReply
       \/ \E o \in Origins : ExpireListed(o)
       \/ \E g \in BagToSet(goroutines) : TimerStep(g)
       \/ \E q \in requests : Serve(q) \/ LoseRequest(q)
       \/ \E r \in replies : LoseReply(r)

Spec == Init /\ [][Next]_vars

(***************************************************************************)
(* Fairness: threads go on, the serving nodes answer, timers run out, and  *)
(* packets that are not lost arrive, although the listener is busy with    *)
(* others in between.  The client owes no commands.                        *)
(***************************************************************************)
ServeAny(o) == ~crashed /\ \E q \in requests : q.to = o /\ Serve(q)
TakeAny(o) == ~crashed /\ \E r \in replies : r.from = o /\ TakeReply(r, FALSE)
TimerAny(o) ==
    /\ ~crashed
    /\ ExpireListed(o) \/ \E g \in BagToSet(goroutines) : g.to = o /\ TimerStep(g)
Fairness ==
    /\ WF_vars(~crashed /\ ListTimer)
    /\ WF_vars(~crashed /\ (StopHead \/ RemoveOldest \/ HandleReply))
    /\ \A o \in Origins :
          WF_vars(ServeAny(o)) /\ SF_vars(TakeAny(o)) /\ WF_vars(TimerAny(o))

FairSpec == Spec /\ Fairness

(***************************************************************************)
(* Properties.                                                             *)
(***************************************************************************)
BeginningOf(f) == {SubSeq(Chunks[f], 1, k) : k \in 0 .. Len(Chunks[f])}

\* The whole file, and its last chunk once more for every retry that came too late.
WholeAndMore(f) ==
    LET n == Len(Chunks[f])
    IN  /\ Len(disk[f]) >= n
        /\ \A i \in 1 .. Len(disk[f]) : disk[f][i] = Chunks[f][IF i <= n THEN i ELSE n]

\* A file that is asked for by name grows by the right chunks in the right order,
\* each once, although replies come early, expired, twice, or after a retry; only once
\* it is whole may its last chunk follow again.
WrittenInOrder ==
    \A f \in Files \ Searched : disk[f] \in BeginningOf(f) \/ WholeAndMore(f)

\* When the program says "RECONSTRUCTED file" (main.go:689) of a file that has its
\* name, the whole of it is on disk.
DoneIsWhole ==
    \A f \in (DOMAIN indexed) \ Searched :
        indexed[f].named /\ indexed[f].done => WholeAndMore(f)

\* The chunk map sent in search replies (getChunkMap) lists chunks 1 to
\* NextIndex: of a file that has its name, they are on disk.
OffersOnlyWritten ==
    \A f \in DOMAIN indexed : indexed[f].named => indexed[f].next <= Len(disk[f])

Serves(f, o) == <<f, o>> \in Requestable \/ (f \in Searched /\ Places[f][o] # {})

\* The files with timely nodes of their own, chunks of their own and one keyword.
Undisturbed ==
    {f \in Files :
        /\ \A o \in Untimely : ~Serves(f, o)
        /\ \A g \in Files \ {f}, o \in Origins : ~(Serves(f, o) /\ Serves(g, o))
        /\ \A g \in Files \ {f} : \A i \in DOMAIN Chunks[f], j \in DOMAIN Chunks[g] :
              Chunks[f][i] # Chunks[g][j]
        /\ f \in Searched => Keywords[f] = 1}

\* Such a file, found or asked for by name, never has a chunk too many on disk, and
\* is whole when it is called done, although requests and replies are lost.
UndisturbedIsExact ==
    \A f \in Undisturbed :
        /\ disk[f] \in BeginningOf(f)
        /\ MyFileOf(f).done => MyFileOf(f).named /\ disk[f] = Chunks[f]

\* It is downloaded in the end, from one node or from several, beside other
\* downloads and through losses, unless a race with an untimely node ends the process.
DownloadCompletes ==
    \A f \in Undisturbed : f \in DOMAIN indexed ~> crashed \/ MyFileOf(f).done
=============================================================================
