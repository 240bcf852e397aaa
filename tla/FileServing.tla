----------------------------- MODULE FileServing -----------------------------
(***************************************************************************)
(* The shared folder of one Peerster: files that the client has indexed,   *)
(* files that are downloaded into it, and what the node answers when its   *)
(* chunks are asked for, of files whole and partial.  Download has the     *)
(* downloads in full; here their replies come once and in their turn, so   *)
(* that what a share or another download does to them can be seen.         *)
(*                                                                         *)
(* A hash stands for what it is the hash of: a chunk's hash is the chunk, a *)
(* metafile is the sequence of the chunks, and a metahash is the metafile. *)
(***************************************************************************)
EXTENDS Integers, Sequences, SequencesExt

CONSTANTS
    Names,          \* names in _SharedFiles
    Contents,       \* the contents of files, sequences of bytes
    CHUNK_SIZE,
    MAX_FILE_SIZE,
    Reuse,          \* may a Request name a file that is in the folder?
    ShareRequested  \* may the client share what is being downloaded?

ASSUME ServingAssumption ==
    /\ \A c \in Contents : c \in Seq(Range(c))
    /\ CHUNK_SIZE \in Nat \ {0} /\ MAX_FILE_SIZE \in Nat
    /\ Reuse \in BOOLEAN /\ ShareRequested \in BOOLEAN

VARIABLES
    folder,         \* folder[x]: the file x in _SharedFiles, if x is there
    indexed,        \* SafeIndexedFiles.IndexedFiles, keyed by metahash
    entries         \* the FileAndIndex of each file that was requested

vars == <<folder, indexed, entries>>

(***************************************************************************)
(* Files and their chunks.                                                 *)
(***************************************************************************)
\* Reads that computeFileIndices makes before the end of the file.
NbReads(c) == (Len(c) + CHUNK_SIZE - 1) \div CHUNK_SIZE

\* Faulty variant: the last chunk has whatever the buffer had.
WholeBuffers(c) ==
    [i \in 1 .. NbReads(c) |->
        [k \in 1 .. CHUNK_SIZE |->
            IF (i - 1) * CHUNK_SIZE + k <= Len(c)
            THEN c[(i - 1) * CHUNK_SIZE + k] ELSE c[(i - 2) * CHUNK_SIZE + k]]]

\* The metafile (computeFileIndices): a full chunk if more of the file follows
\* it, otherwise what is left.
ComputeMetafile(c) ==
    [i \in 1 .. NbReads(c) |->
        LET alreadyRead == (i - 1) * CHUNK_SIZE
        IN  SubSeq(c, alreadyRead + 1,
                   IF alreadyRead + CHUNK_SIZE < Len(c)
                   THEN alreadyRead + CHUNK_SIZE ELSE Len(c))]

\* Faulty variant: indices count from one, as in search replies.
ChunkFromOne(x, index) ==
    LET c == folder[x]
        end == index * CHUNK_SIZE
    IN  SubSeq(c, end - CHUNK_SIZE + 1, IF end < Len(c) THEN end ELSE Len(c))

\* getChunkByIndex: empty if the file ends before, or is not there.
GetChunkByIndex(x, index) ==
    IF x \notin DOMAIN folder THEN <<>>
    ELSE LET c == folder[x]
             end == (index + 1) * CHUNK_SIZE
         IN  SubSeq(c, index * CHUNK_SIZE + 1, IF end < Len(c) THEN end ELSE Len(c))

Metahashes == {ComputeMetafile(c) : c \in Contents}
Hashes == UNION {Range(m) : m \in Metahashes}

MyFile == [name : Names, metafile : Metahashes \cup {<<>>}, next : Nat \cup {-1},
           done : BOOLEAN]

Piece == UNION {[1 .. k -> UNION {Range(c) : c \in Contents}] :
                    k \in 0 .. 2 * MAX_FILE_SIZE}

TypeOK ==
    /\ DOMAIN folder \subseteq Names /\ Range(folder) \subseteq Piece \cup Contents
    /\ DOMAIN indexed \subseteq Metahashes /\ Range(indexed) \subseteq MyFile
    /\ DOMAIN entries \subseteq Metahashes
    /\ \A m \in DOMAIN entries :
          /\ m \in DOMAIN indexed
          /\ entries[m] \in [next : -1 .. Len(m) - 1, done : BOOLEAN]

\* The user has put files into the folder.
Init ==
    /\ \E present \in SUBSET Names : folder \in [present -> Contents]
    /\ indexed = [m \in {} |-> {}]
    /\ entries = [m \in {} |-> {}]

\* f with x bound to v.
With(f, x, v) == [y \in DOMAIN f \cup {x} |-> IF y = x THEN v ELSE f[y]]

(***************************************************************************)
(* The client port: a file is shared (main.go:69), a file is requested.    *)
(***************************************************************************)
Unfinished == {m \in DOMAIN entries : ~entries[m].done}

\* An entry that is there already, of a download as well, is replaced.
Share(x) ==
    /\ x \in DOMAIN folder
    /\ Len(folder[x]) <= MAX_FILE_SIZE
    /\ LET m == ComputeMetafile(folder[x])
       IN  /\ ShareRequested \/ \A d \in Unfinished : d # m /\ indexed[d].name # x
           /\ m \in Metahashes   \* bound: half a file is not shared
           /\ indexed' = With(indexed, m,
                 [name |-> x, metafile |-> m, next |-> Len(m), done |-> TRUE])
    /\ UNCHANGED <<folder, entries>>

\* createEmptyFile: a file that is there stays as it is.
CreateEmptyFile(x) == IF x \in DOMAIN folder THEN folder ELSE With(folder, x, <<>>)

\* Of a file that some node shares: one that is not too big, and has chunks.
Request(m, x) ==
    /\ Len(m) * CHUNK_SIZE \in 1 .. MAX_FILE_SIZE
    /\ m \notin DOMAIN indexed
    /\ Reuse \/ x \notin DOMAIN folder
    /\ indexed' = With(indexed, m,
          [name |-> x, metafile |-> <<>>, next |-> -1, done |-> FALSE])
    /\ entries' = With(entries, m, [next |-> -1, done |-> FALSE])
    /\ folder' = CreateEmptyFile(x)

(***************************************************************************)
(* The replies to a download, in their turn.                               *)
(***************************************************************************)
ReceiveMetafile(m) ==
    /\ m \in DOMAIN entries
    /\ entries[m].next = -1
    /\ entries' = [entries EXCEPT ![m].next = 0]
    /\ indexed' = [indexed EXCEPT ![m].metafile = m, ![m].next = 0]
    /\ UNCHANGED folder

\* Faulty variant: the index counts the chunk that was asked for.
CountFirst(next) == next + 2

CountChunk(next) == next + 1

\* Faulty variant: the index is taken to count from one.
IsAfterLast(m, i) == i = Len(m)

IsLast(m, i) == i + 1 = Len(m)

\* The chunk goes to the file that the index names now.
ReceiveChunk(m) ==
    /\ m \in DOMAIN entries
    /\ entries[m].next >= 0 /\ ~entries[m].done
    /\ LET i == entries[m].next
       IN  /\ folder' = [folder EXCEPT ![indexed[m].name] = @ \o m[i + 1]]
           /\ indexed' = [indexed EXCEPT ![m].next = CountChunk(@),
                                         ![m].done = @ \/ IsLast(m, i)]
           /\ entries' = IF IsLast(m, i) THEN [entries EXCEPT ![m].done = TRUE]
                         ELSE [entries EXCEPT ![m].next = i + 1]

Next ==
    \/ \E x \in Names : Share(x)
    \/ \E m \in Metahashes, x \in Names : Request(m, x)
    \/ \E m \in Metahashes : ReceiveMetafile(m) \/ ReceiveChunk(m)

Spec == Init /\ [][Next]_vars

(***************************************************************************)
(* What the node answers to requests of others.                            *)
(***************************************************************************)
\* getChunkMap, as it goes into search replies: counted from one.
GetChunkMap(m) == 1 .. indexed[m].next

FirstIndex(m, h) == SelectInSeq(m, LAMBDA chunk : chunk = h) - 1

\* checkFilesForNextChunk: Go's map order decides which of the files that list
\* the chunk is looked into, and it is not seen whether that file has it yet.
ChunkAnswers(h) ==
    LET listing == {m \in DOMAIN indexed : h \in Range(indexed[m].metafile)}
    IN  IF listing = {} THEN {<<>>}
        ELSE {GetChunkByIndex(indexed[m].name, FirstIndex(m, h)) : m \in listing}

(***************************************************************************)
(* Properties.                                                             *)
(***************************************************************************)
\* The data of an answer has the hash that was asked for, or is empty, whatever
\* file it is read from and however much of that file is there: otherwise the
\* node that asked deletes the file from its index.
AnswersMatch == \A h \in Hashes : ChunkAnswers(h) \subseteq {h, <<>>}

\* A chunk that search replies offer can be had: some file it may be read from
\* has it.
OfferedCanBeHad ==
    \A m \in DOMAIN indexed : \A i \in GetChunkMap(m) :
        i <= Len(m) /\ m[i] \in ChunkAnswers(m[i])

\* f is the chunks of metafile m, one after the other and nothing else.
IsFileOf(f, m) ==
    /\ Len(f) = IF m = <<>> THEN 0 ELSE (Len(m) - 1) * CHUNK_SIZE + Len(m[Len(m)])
    /\ \A i \in 1 .. Len(m) :
          LET alreadyRead == (i - 1) * CHUNK_SIZE
          IN  SubSeq(f, alreadyRead + 1, alreadyRead + Len(m[i])) = m[i]

\* A file that is done is the one its metahash stands for, byte by byte, with
\* a last chunk of any length, shared or downloaded.
DoneIsWhole ==
    \A m \in DOMAIN indexed :
        indexed[m].done => IsFileOf(folder[indexed[m].name], m)

\* "send empty data to show that we do not posses the file" (main.go:441): empty
\* data says that the node does not have the chunk.  It does not hold when a
\* file and an unfinished download have a chunk in common.
EmptyMeansMissing ==
    \A h \in Hashes :
        <<>> \in ChunkAnswers(h) =>
            ~\E m \in DOMAIN indexed : \E i \in GetChunkMap(m) : m[i] = h

\* "Create an empty file with name \"filename\" in Downloads" (main.go:159): a
\* download starts with an empty file.  It does not hold with Reuse.
StartsEmpty ==
    [][\A m \in DOMAIN entries' \ DOMAIN entries :
          folder'[indexed'[m].name] = <<>>]_vars
=============================================================================
