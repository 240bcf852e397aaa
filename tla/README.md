# Peerster in TLA+

This directory holds TLA+ models of the Peerster in `src/Peerster`, a peer-to-peer node
written in Go: rumor mongering with anti-entropy and DSDV routing, private messages,
file sharing and search, a blockchain of file names, and a simple mode that only floods.
TLC checks the models on small instances. TLAPS proves almost every safety property they
have (section 5 says which are only model-checked) for any number of nodes, timers,
blocks, files and keywords.

File and line numbers refer to `src/Peerster` unless they say otherwise.

## 1. The system

One process runs these threads:

- **the gossip listener** (`listenGossipPort`, main.go:267-1028), which reads one UDP
  packet at a time and handles it to the end;
- **the client listener** (`listenUIPort`, main.go:12-265), the same for the client
  port; a periodic search runs in it to its end (main.go:230), while other commands wait;
- **the anti-entropy ticker** (`antiEntropy`, UDPsending.go:120), which sends the node's
  status to a random peer every second;
- **the route ticker** (`generatePeriodicalRouteMessage`, UDPsending.go:81), if
  `-rtimer` is given;
- **the miner** (`miningProcedure`, blockchain.go:30);
- **one goroutine per response timer** (basicMethods.go:327-383), and others for
  mongering and for forgetting searches.

With `-simple`, two other listeners take the place of the first two
(simpleProcess.go).

They share one `Gossiper` structure. Some of its maps have a mutex of their own, held
for a few lines at a time; others (`Want`, `RumorMessages`, `Peers`, `LastRumor`,
`PendingTx`, `LongestChainHead`) have none.

| Component | State | Operations | Talks to |
|---|---|---|---|
| Gossip: rumors, statuses, anti-entropy | `Peers`, `StatusPacket.Want`, `SafeRumors`, `RumorMessages`, `LastRumor`, `SafeNextClientMessageIDs` | client message, route rumor, receive rumor, receive status, ticker | peers over UDP; timers; routing |
| Routing and private messages | `SafeRoutingTable` | update on a rumor that is not old; forward with a hop limit | fed by gossip, used by everything that is sent to a node by name |
| Response timers | `SafeTimers`, `SafeDataRequestTimers` | start, fire, answer | gossip and downloads |
| Indexing and serving of own files | `SafeIndexedFiles`, the folder `_SharedFiles` | cut a file into chunks and hash them; answer a data request | searches and data requests of others; a share is published as a transaction |
| Downloads | `SafeIndexedFiles`, `SafeRequestDestinationToFileAndIndexes`, `SafeAwaitingRequestsMetahash`, files on disk | Request, SearchDownload, data reply, retry | data timers; the results of searches |
| Search | `SafeOriginAndKeywords`, `SafeSearchRequests`, `SafeKeywordToInfo`, `AllMatches` | request with a budget, memory of 0.5 s, reply, periodic doubling of the budget | downloads |
| Blockchain | `SafeBlockchain`, `SafeHeadsToLength`, `LongestChainHead`, `SafeFilenamesToMetahash`, `PendingTx` | transaction arrival, block arrival, mining | floods to peers with a hop limit |
| Simple mode | `Peers` | client message, receive | floods to peers without a limit |
| Client, frontend, browser page | none of their own | | |

### What is hard, and what makes each part correct

- **Gossip.** Packets get lost, duplicated and reordered. The store must stay free of
  gaps and repeats, hold only what was issued, and in the end hold everything. Answers
  are computed for statuses that may be old. IDs are allocated under a mutex and stored
  after it, by two threads, and `Want` is written by two threads without a mutex.
- **Routing.** Any rumor that is not older than the store sets the route (main.go:313),
  so that one over a slow path may bring an old next hop back. Following next hops, which
  change under way, must all the same not end at a node that has no way on.
- **Timers.** Every removal takes the oldest entry, whoever removes, and a late answer
  meets a timer that fires. The lists must shrink with the timers, a retry must not get
  lost, and the listener must not use an index that is gone.
- **Downloads.** Replies come late, twice, or not at all. A file must grow by the right
  chunks in their order, be called reconstructed only when it is whole, and offer to
  others only what it holds.
- **Serving.** A chunk is looked for in any file that lists it, whole or not; what is
  answered must have the hash that was asked for, and what is offered must be there.
- **Blockchain.** Blocks arrive in any order, from the listener and the miner at once.
  Heads, their lengths and the map of names are kept step by step over extensions, forks
  and rewinds, and must agree with the tree of blocks. Nodes must end up with the same
  blocks although each block is passed on with its first copy only.
- **Search.** The budget must not grow on the way, although peers are met in the middle of
  a search; a repeated request must be told from a new round, and far nodes must be
  reached. Replies overlap, are partial, and may be out of date: what counts as found must
  be whole, and be shown once, although the entry that remembers it may get lost.
- **Simple mode.** Nothing is remembered but the peers, which grow while messages are
  under way.

`PROJECT.json` lists these hazards line by line, each with the properties aimed at it or
the reason why there is none.

## 2. Modules

| Module | Stands for | Extends |
|---|---|---|
| `GossipLog` | abstract: one append-only log per node, copied entry by entry | |
| `Gossip` | gossip, anti-entropy, routing of a network of nodes; implements `GossipLog` | |
| `PrivateMessages` | private messages over the routes of `Gossip` | `Gossip` |
| `ResponseTimers` | one node's timers, lock section by lock section | |
| `BlockTree` | abstract: a growing tree with a longest-chain rule | |
| `Blockchain` | one node's block store, names, pool and miner; implements `BlockTree` | |
| `BlockThreads` | listener and miner of one node in `handleNewBlockArrival` | `Blockchain` |
| `BlockFlood` | blocks and transactions in a network of miners | |
| `Download` | one node's downloads from nodes that serve files | |
| `FileServing` | one node's shared folder and what it answers | |
| `SearchRequests` | search requests in a network | |
| `SearchMatches` | what one node makes of search replies | |
| `SimpleMode` | simple mode in a network | |
| `MC...` | instances of the module they are named after, for TLC | that module |
| `MCParts` | instances of `SimpleMode`, `ResponseTimers` and `FileServing`, which share no state: a behaviour is one of one of them | those modules |
| `GossipProofs`, `BlockchainProofs`, `FloodProofs`, `DownloadProofs`, `ServingProofs`, `SearchProofs`, `MatchProofs`, `SimpleProofs` | theorems about `Gossip` and `PrivateMessages`, `Blockchain` and `BlockThreads`, `BlockFlood`, `Download`, `FileServing`, `SearchRequests`, `SearchMatches`, `SimpleMode` and `ResponseTimers` | those modules, `TLAPS` |

Definitions marked "Faulty variant" are plausible bugs of the definition below them. No
specification uses them; each shows that some property notices the bug.

### Gossip and GossipLog

A node stands for a process and its UDP address. `want[n][o]` is the `NextID` in the
status of `n`, `rumors[n][o]` the store, `chat[n]` the list the frontend shows,
`timers[n][p]` the rumors whose response timer towards `p` runs, `issued[n]` the texts
that got IDs. Go's empty string (no route, the text of a route rumor, the origin of the
zero rumor) is the constant `Empty`.

| Action | Code |
|---|---|
| `AllocateClientMessage`, `PublishClientMessage` | `listenUIPort` up to the unlock (main.go:44) and after it |
| `AllocateRouteMessage`, `PublishRouteMessage` | `generatePeriodicalRouteMessage`, likewise |
| `ReceiveRumor`, `ReceiveStatus` | the two branches of `listenGossipPort` (main.go:277-365), with `updatePeerList`, the store, routing, timers, answers and mongering |
| `TimerExpires`, `AntiEntropy` | a timer's goroutine; the ticker |
| `LoseRumor`, `LoseStatus`, and the argument `again` of the receives | UDP loses and duplicates packets |

Every handler is one step, with the mongering goroutine it starts; this hides the races
on `Want` and `RumorMessages`, which have no mutex (section 6). The order of the `Want`
slice, which decides which lagging origin is answered first, is left open. Firing
removes the oldest timer and mongers its rumor; `ResponseTimers` shows what happens when
the two differ.

`GossipLog` is what all this is for: `log[o]` grows by what `o` writes, `copy[n][o]` by
the next entry of `log[o]`, and `shown[n]` by the entries of others that are not hidden.
`Gossip!ImplementsLog` maps `log` to `issued`, `copy` to `rumors` and `shown` to `chat`.

### PrivateMessages

`Gossip` with private messages on top, so that rumors in any order change the routes
while a message is under way. A node delivers, forwards with one hop less, or drops for
want of a route or of hops (`ReceivePrivate`); UDP may lose it. Data requests
(main.go:448-461), data replies (757-771) and search replies (977-991) are handed on by
the same rule. Routes may form a cycle: a rumor that is ahead of the store sets a route
too. Only the hop limit ends the way then. `Writers` bounds whose clients write.

### ResponseTimers

Timers are numbered in the order in which they start. A step is one critical section of
the timers' mutex or a step between two of them; the listener goes through
`isStatusResponse` (find, then stop the head) and `removeFinishedTimer`. Both tables run
the same code, except that a data request's goroutine always sends again (`kind`).
Assumed: all timers run equally long (one resp. five seconds in the code), so they
expire in the order in which they started, and a timer is in the list before its time is
up.

### Blockchain and BlockTree

A hash is modelled by what it identifies: a block is the sequence of payloads from the
genesis block to itself, so hashes do not collide and the parent is the sequence without
its last element. `ReceiveBlock` and `FinishMining` run the whole of
`handleNewBlockArrival`, one disjunct per branch of it: `FirstBlock`, `ExtendMain`,
`ExtendFork` (with or without the rewind), `StartFork`, or no effect. The miner takes
its parent and the pool in `StartMining` and delivers later, so everything may have
changed by then. Blocks without proof of work have no effect and are left out. `Roots`
has parents the node will never get, so that a first block may lie high up in an unknown
chain.

`BlockTree` knows no heads, forks or rewinds: a block joins below its parent, one higher
than it, and the main chain goes over to the first block that is higher than all others.
`Blockchain!ImplementsTree` maps the heights to the length of each stored branch and
`main` to `LongestChainHead`.

### BlockThreads

The same handler as the listener and the miner run it at once. A step is one critical
section of a mutex, or one access to `LongestChainHead`, which has none; `pc[t]` is the
section that thread `t` enters next, and `block`, `length`, `from` are its local
variables. The pool is not modelled: the miner takes some transactions.

### BlockFlood

A network in which every node keeps what `BlockTree` keeps, and the names in use. `links`
are queues: nothing is lost and nothing overtakes, the best a network can do for this
code. A transaction is passed on with every copy as long as its name is free and hops are
left; a block that is taken is passed on once, with the hops of that first copy, and a
block that finds no place with every copy. Because the first copy wins, the hop limit
has to cover the longest way a block may take, not the shortest: with a limit of two
in the network of `Flood`, whose shortest ways are two hops, a node may be left out. The
code's limit of 20 is enough for any network of up to 21 nodes, as section 5 shows.

### Download

A metahash is the file it stands for, a chunk's hash is the chunk. `requested[o]` holds
the entries of `RequestDestinationToFileAndIndex` (downloads by name), `awaiting` the
files found by a search (metafile asked for, or known), `indexed` the node's own index,
`disk[f]` what was appended to the file, `list[o]` the data timers towards `o`.

The threads go on step by step, so that a reply can be handled between any two of them:

| Thread | Steps | Code |
|---|---|---|
| client | `Request` or `SearchDownload`, which send; then `ListTimer` | main.go:115-166, 233-256 |
| listener | `TakeReply` (is there a timer?), `StopHead`, `RemoveOldest`, `HandleReply` | main.go:463-756, basicMethods.go:434-447 |
| a timer's goroutine | `ExpireListed` or `ExpireUnlisted`, `RemoveTimer`, `SendAgain`, `ListAgain` | basicMethods.go:374-381 |

`goroutines` is a bag of the goroutines whose timer has run out or was taken out of the
list by another removal; a timer that is in the list stands for its own goroutine, until
it has run out or was stopped (`Ended`). When the listener itself asks for a chunk, it
lists the timer before it reads the next packet, so `Ask` is one step. The process ends
(`crashed`) where the code indexes an empty list (basicMethods.go:444), slices a metafile
it does not have (fileSharing.go:165, main.go:688), or slices past the end of one
(main.go:591).

`HandleReply` is the rest of the `DataReply` handler; its disjuncts are its branches, in
the handler's order: an empty reply costs the file its entry, as does, in `TakeReply`, one
from a node without a timer; then the metafile or a chunk of a found file, or the
metafile or a chunk of a requested one. A found file ends when as many chunks have come
as its metafile lists, or when the last one it lists comes.

`Untimely` has the nodes whose replies may come before their timer is listed, after it
has run out, or twice; other nodes answer within the five seconds of a timer, and not
before its list. The serving nodes hold what they hold (`Holds`), what a search saw is a
constant (`Places`, `Keywords`), and relays with their hop limits are part of the network.
As in the code, a download of a found file starts only when the search saw all of its
chunks. `Sessions` bounds which files the client gives commands for in one behaviour,
`MaxMishaps` the packets that get lost or come twice, `MaxExpired` the timers of untimely
nodes that run out.

### FileServing

The other side of a download, and the folder that both share: `folder[x]` is the file `x` byte
by byte, `indexed` the index, `entries` the files that were asked for by name. `Share`
cuts a file into chunks as `computeMetafile` has it; `Request` (with `createEmptyFile`),
`ReceiveMetafile` and `ReceiveChunk` download into the folder, with replies that come
once and in their turn (`Download` has the other ones). `ChunkAnswers(h)` is the set of
what the node may answer to a request for `h`: Go's map order decides which of the files
that list the chunk is read. `Reuse` and `ShareRequested` admit two ways of using the
node that break it (section 3).

### SearchRequests and SearchMatches

`SearchRequests` is the way of the requests: a bag of requests with what they have of the
budget, what each node remembers and for which keys a timer runs to forget it, and the
periodic search that doubles its budget. `answers` counts replies, `issued` the budget an
origin gave out. `client[n]` is the search that the client's thread is at, with the number
of peers taken at the command (main.go:214): each round is divided by that number and sent
to the peers there are by then (requestSearching.go:45, 163), which grow with every packet
(`Meet`, `ReceiveRequest`). `SendOnce` is the round of a search with a budget, `Tick` one
of the periodic search. What the routing table may say is a constant (`NextHops`), as far
as the node knows the peer; the handler reads it anew each time. `Slow` has the origins
whose floods may last longer than the half second of the timers; `Budgeting` and
`Repeating` bound who searches in which way.

`SearchMatches` is what happens to the replies at the node that searched: `info[k]` the
files listed for a keyword with the nodes where each chunk lies, `own` the node's index,
`searches` the matches that each search has counted. What the other nodes offer begins
without a metafile, grows, begins anew (main.go:243, 516) and vanishes (main.go:742-755).
`SendReply` takes what a node offers at the time, files without a metafile with no chunks
out of none; `ReceiveReply` may see it late and twice. `DeleteFile` is the deletion of the
node's own entry by a late or empty reply, which forgets `AlreadyShown` with it. Downloads
of chunks are steps that may happen or not.

### SimpleMode

`peers` and the packets in flight. A message goes to all peers, and on from each to all
peers but the one it came from, who is added to the peers in passing. Copies of one
message on one link are one packet. `MaxShown` ends what would go round for ever.

## 3. What is checked

| Run | Instance | Properties |
|---|---|---|
| `GossipPair` | two nodes, the first with client messages and route rumors, two IDs, two packets of a kind on a link | `StoreIsDense`, `AnswersNextWanted`, `ImplementsLog` |
| `GossipLine` | line of three, two messages of one end, one private message of the middle | `NeverStuck` |
| `GossipLive` | line of three, one message | `EveryRumorArrives`, under `FairSpec` |
| `GossipRace` | two nodes, the first with client messages and route rumors | `ClientMessageIsPresent`, which is violated |
| `Parts` | simple mode: a tree of four, peers in one direction, three messages, one packet lost | `OnceEach`, `WayBack`; `AudienceHears` under `SimpleFairness` |
| | four timers | `NoStaleEntries`, `StoppedLeavesTheList`, `RetriedUntilAnswered` |
| | a folder with three names and five contents, shared and downloaded in any order | `TypeOK`, `AnswersMatch`, `OfferedCanBeHad`, `DoneIsWhole` |
| `TimersRace` | three timers | `ListenerNeverCrashes`, which is violated |
| `Blockchain` | five blocks, one name with two owners, miner and pool, a parent that is never seen | `HeadsAreLeaves`, `MainChainIsLongest`, `NamesComeFromMainChain`, `NamesUsedOnceAreTaken`, `ImplementsTree` |
| `BlockThreads` | five blocks, received and mined at once | `OneTree`, `HeadLengthsAreRight`, `HeadsAreLeavesAtRest`, `MainIsHeadAtRest` |
| `Flood` | a triangle and a node behind it, two miners, three blocks, one name | `TypeOK`, `Agreement`; `FloodsEnd` under `FairSpec` |
| `Downloads` | a file by name from an untimely node; or two downloads at once, one by name from a timely node, the other found by a search with its chunks at two timely nodes, or by name from one of them, or from the untimely node, which does not have it; two packets lost or repeated | `WrittenInOrder`, `DoneIsWhole`, `OffersOnlyWritten`, `UndisturbedIsExact`; `DownloadCompletes` under `FairSpec` |
| `Search` | a triangle and a node behind it, a periodic search of a prompt origin, which meets a peer under way, a search with a budget of 4 of a slow one, a request lost | `BudgetIsKept`, `OneAnswerPerRound`; `EveryNodeIsAsked` under `FairSpec` |
| `SearchMatches` | two nodes that gain, restart and lose a file of two chunks, two keywords, two overlapping searches, three replies, a download command, a deletion | `FoundIsWhole`, `FoundIsShown`, `ShownOnce` |

All properties hold but those of `GossipRace` and `TimersRace`, which the code suggests
and does not have.

What the modules define besides is proved in section 5 and not listed with a run: most
type invariants, `GenuineStore`, `NextHopKnowsRoute`, `MainChainGrows`,
`RoutedAreForgotten`, and `OneTree` and `HeadLengthsAreRight` of a node whose handlers
are atomic. Two more follow from `ImplementsLog`: a node shows the messages of one
origin in their order and each once, and no route rumor.

### Disagreements

These are properties that a document, a comment or a test of the code suggests and that
the code does not have. The first two have a run of their own; each of the others can be
seen by adding it to the configuration that is named. Those that are defined as properties
say so in their module.

| Property | Configuration | What happens |
|---|---|---|
| `Gossip!ClientMessageIsPresent` | `GossipRace.cfg` | The route ticker takes ID 1, the client thread takes ID 2 and stores first (both give up the mutex in between, main.go:44-47, UDPsending.go:91-110): its message is early and is not stored. It is mongered once all the same; if that packet gets lost the message is gone, and none of the node's later rumors gets over the gap. main.go:51-52 prints "Error : client message" for the case. |
| `ResponseTimers!ListenerNeverCrashes` | `TimersRace.cfg` | `isStatusResponse` gives up the lock between finding a timer and indexing the list (basicMethods.go:421, 428). If the node's only timer fires there, the index is out of range. `isDataResponse` does the same (basicMethods.go:444). |
| `Blockchain!MainChainNamesAreTaken` | `Blockchain.cfg` with `MaxBlocks = 6` | Two blocks of one fork may use the same name, since names are compared with the main chain only. When the fork has won and is left again between the two, the rewind (main.go:1126) deletes the name (blockchain.go:326) although the lower block, still on the main chain, uses it. The listener then takes a transaction with that name (main.go:1004). |
| `Blockchain!GenesisBlocksAreAccepted` | `Blockchain.cfg` | readme.md:12 says that blocks on the zero hash are accepted; the code accepts one only into an empty store (main.go:1161). |
| `BlockThreads!LongestAtRest` | `BlockThreads.cfg` with `Payloads <- EmptyBlocks`, `Pools <- EmptyPool`, `MaxBlocks = 6` | One thread compares lengths (main.go:1115) while the other has put its head in but not yet moved `LongestChainHead`: the shorter of two forks may become the main chain, and stays it until a later block. |
| `BlockThreads!ReadsAreLocked` | `BlockThreads.cfg` | `printLongestChain` (main.go:1106, blockchain.go:401) and `getChainLengthFromBlock` (main.go:1150, blockchain.go:331) walk the block map without its mutex while the other thread inserts; Go ends a process in which it notices. |
| `~crashed` | `Downloads.cfg` | The same panic as in `TimersRace`, and two more. The timer of a metafile's request runs out and the new one is listed in time for both replies: the entry has been deleted and made anew without a metafile, whose end is then sliced (main.go:688). A chunk that comes from a node with an entry that still lacks its metafile slices that (fileSharing.go:165). |
| `\A f \in Files : disk[f] \in BeginningOf(f)` | `Downloads.cfg` | A timer fires, and before its goroutine goes on the reply to it is handled and ends the file. The goroutine sends the request again all the same (basicMethods.go:380), and its reply meets the same entry: fileSharing.go:161 does not look at `Done`, so the last chunk is appended to a file that was called reconstructed (main.go:671-681). |
| `\A f \in DOMAIN indexed : indexed[f].done => indexed[f].named` | `Downloads.cfg` | A reply that is handled between the sending of a request and the listing of its timer (main.go:164-165) is taken for unexpected and deletes the file (main.go:753). Its download goes on without a name, writes nothing, and says "RECONSTRUCTED" in the end. |
| `FileServing!EmptyMeansMissing` | `Parts.cfg` | fileSharing.go:108 returns no bytes for a chunk that cannot be read; the caller sends that as an answer (main.go:441), although the chunk may be had from another file. |
| `FileServing!StartsEmpty` | `Parts.cfg` with `Reuse = TRUE` | `createEmptyFile` (fileSharing.go:19) does not truncate: a download (main.go:160) into a name that is in the folder is appended to what is there. |
| `FileServing!DoneIsWhole` | `Parts.cfg` with `ShareRequested = TRUE` | The client shares a file while it is being downloaded (main.go:79); the index then says it is whole, and the next chunk (main.go:722) is appended to it. |
| `SearchRequests!RoundGivesBudget` | `Search.cfg` | main.go:223 checks that the budget given out is the budget. A round is divided by the number of peers there were at the command (requestSearching.go:45) and sent to those there are now (requestSearching.go:163): a budget of 2 for one peer becomes 2 for each of two. |
| `SearchMatches!FoundIsSeen` | `SearchMatches.cfg` | A node lists a file before it has the metafile, with no chunks out of none (main.go:822). The searching node compares the two numbers (main.go:902-904) and takes the file for found. |
| `SearchMatches!ListedIsServed` | `SearchMatches.cfg` | The entry of a node that reported a chunk may be deleted by a late reply (main.go:742-755); the node is then asked in vain. |
| `SearchMatches!EndedSearchesHaveFound` | `SearchMatches.cfg` | A search ends at two matches (requestSearching.go:39); a result for a file without any new chunk is counted as one (requestSearching.go:358), so none may be found when it ends. |
| `SearchMatches!SeenIsFoundOrAsked` | `SearchMatches.cfg` | When a second node's chunks complete the file, whether it is complete is looked at only if the metafile is there (main.go:953), and nothing asks for it (main.go:898): all chunks may be known and the file neither found nor its metafile awaited. |

Others have no property:

- The comment at basicMethods.go:221 says that `compareStatus` asks for rumors the other
  peer has; with an empty `Want` of its own it returns before looking
  (basicMethods.go:231), so a node that holds nothing waits for the peer's own ticker.
  `Gossip!KnowsNothing` models it.
- A node without a route to the origin of a search, and the origin itself, remember its
  key for ever: the key is stored (main.go:787) before the branch that starts the timer
  (main.go:792-795). They drop all later rounds. `RoutedAreForgotten` is about the others.
- What is left of a budget is dropped when it is smaller than the number of peers to send
  it on to (main.go:835-839), although `getDistributionOfBudget` has a branch for that
  case (requestSearching.go:140-145).
- readme.md:7 says that the matches of a search with a budget are looked at every second
  for five seconds; `checkFoundMatchesPeriodically`, which does so, is called by the
  frontend only, which is never started.
- A file found under two keywords has its first chunk requested twice
  (requestSearching.go:249). Any chunk of an awaited file counts as the next one
  (requestSearching.go:509-510), so both copies are written (main.go:586), and a broken
  file is called reconstructed. `Downloads` has one keyword per found file.
- Replies from an untimely node do the same to a found file: a chunk that comes twice is
  written twice, since nothing is compared with the next index. The chunk map that the
  node then offers may list a chunk more than the file has, and when the count has passed
  the end without meeting it the next slice panics (main.go:591).
- Two downloads by name from one node: a chunk that meets an entry without its metafile
  makes the process panic (fileSharing.go:165), as `~crashed` shows above.

### Bounds

- Gossip. `MaxIssued`, two IDs: an ID is past, present and future, a gap can open and
  close, and one ID can be overtaken. `MaxTimers` of one stops a node from sending more
  rumors to a peer that has not answered; `ResponseTimers` looks at several timers at
  once. `LinkCapacity`, `NetCapacity`: a send that finds its link full loses the older
  packets, so full links narrow only how long a packet can be delayed. With two packets
  of a kind on a link, reordering occurs; duplicates come from receives that leave the
  packet. In a line of three the middle one forwards, and the ends know each other only
  through rumors.
- Private messages. `HopLimit` 1 and one message of the middle node: it is delivered,
  forwarded, sent back while routes change, and dropped for want of hops.
- `MaxTimers` = 4 in `Parts`: one timer fired, one being stopped, and two in the list, or
  one of them being started. The panic of `TimersRace` needs one timer only; three let it
  happen beside others.
- `MaxBlocks` = 5: the shortest rewind needs four blocks; the fifth extends it, outgrows
  it or forks it again. `MaxPending`: one transaction, so that pool, block in the making
  and name map can all disagree. `BlockThreads` has a pool that is empty or not, chosen
  when mining begins.
- `Flood`. `BlockHopLimit` 3 is the smallest that gets a block to all nodes on the
  longest way; three blocks fork, and may be refused for their parent. `TxHopLimit` 0
  sends transactions one hop, which lets a name be known at some nodes only; with
  `TxHopLimit` 1 and `MaxMined` 2 the same properties hold.
- `Downloads`. One command per file, two losses or repeats at any points, two expiries of
  timers at the untimely node: one fired timer can meet a late reply and an early one, and
  a second goroutine can take the first one's entry. Timers of timely nodes run out after
  a loss only. Two downloads in a session share the listener. The files have one to three
  chunks, and one repeats a chunk, since equal chunks have equal hashes.
- The folder of `Parts`. Chunks of two bytes, so that a file ends inside a chunk, at its
  end, or is empty; `MAX_FILE_SIZE` refuses one file.
- `Search`. A budget of 4 (an odd rest to deal) by a node with two peers; the periodic
  search goes from 2 to 16, more than the network has nodes, and begins with one peer that
  becomes two, before a round or after it. One search per client, whose rounds may run
  into each other's memory.
- `SearchMatches`. Two keywords with one file in both, and three replies: two nodes answer
  one search, and one of them both, or again when its entry has changed. One command and
  one deletion make the node forget the file twice.
- Simple mode in `Parts`. A tree, since in a cycle messages go round for ever; `MaxShown` 2 is above
  what `OnceEach` allows, so that it hides nothing.
- `CHECK_DEADLOCK FALSE` stands where a run ends by design: all timers used, the store at
  its bound, the download over, searches ended, floods over. The gossip runs check for
  deadlock.

## 4. Fairness

- `Gossip!FairSpec`: weak fairness of the goroutines that go on after an unlock, of the
  anti-entropy ticker towards each neighbour (it picks a random peer each second, so each
  of finitely many is picked again and again), and of firing timers. UDP gives no
  guarantee; the assumption is that of fair-lossy links, strong fairness of the delivery
  of a packet that is sent again and again: the current status on each link, and rumors
  that are news to their receiver. No coin is assumed to land on either side, so
  mongering may stop at once every time; anti-entropy alone brings the rumor over.
- `Download!FairSpec`: the client's thread lists its timer, the listener goes on with the
  reply it is at, serving nodes answer and goroutines of timers go on, all under weak
  fairness. That the listener takes a reply of a given node is strongly fair: it is busy
  with replies of others in between, and a packet that is not lost waits in the socket's
  buffer. At most `MaxMishaps` packets get lost or repeated. The timer of a timely node
  runs out only when neither request nor reply is in flight; `DownloadCompletes` is about
  files from such nodes, with one keyword and chunks of their own (`Undisturbed`), and
  allows for a process that has ended. With untimely nodes it does not hold: a second copy
  ends the timer of the next request.
- `SearchRequests!FairSpec`: searches are sent out, tickers tick, timers fire, requests that are not lost arrive.
  The floods of origins that are not in `Slow` end within the half second of the timers,
  as they do in a network that is not overloaded.
- `BlockFlood!FairSpec`: some packet is received as long as there is one. Links lose
  nothing: `FloodsEnd` is about the worst case, in which no loss helps.
- `SimpleMode!SimpleFairness`: a packet that is not lost is received; `AudienceHears` allows for
  losses.
- The other specifications have no fairness; their runs check safety.

## 5. What is proved

All theorems hold for any values of the constants that satisfy the assumptions of their
module, with the bounds as large as one likes, unless a condition is named.

| Module | Theorems |
|---|---|
| `GossipProofs`, `Gossip` | `TypeCorrect`, `StoreAlwaysDense`, `HeldAlwaysGenuine`, `StoreAlwaysGenuine`, `AlwaysAnswersNextWanted`, `NextHopAlwaysKnowsRoute`, `StoresImplementLogs` |
| `GossipProofs`, `PrivateMessages` | `PrivateTypeCorrect`, `MessagesNeverStuck` |
| `BlockchainProofs`, `Blockchain` | `TypeCorrect`, `AlwaysOneTree`, `HeadsAlwaysLeaves`, `LengthsAlwaysRight`, `MainChainAlwaysLongest`, `MainChainOnlyGrows`, `NamesAlwaysFromMainChain`, `NamesUsedOnceAlwaysTaken`, `StoreImplementsTree` |
| `BlockchainProofs`, `BlockThreads` | `ThreadsTypeCorrect`, `ThreadsKeepOneTree`, `ThreadsKeepLengths`, `ThreadsLeaveLeaves`, `ThreadsLeaveMainHead` |
| `FloodProofs` | `FloodTypeCorrect`; under `HopsSuffice` and `Connected`, `NodesAgree` |
| `DownloadProofs` | `TypeCorrect`, `AlwaysOffersOnlyWritten`; with one command for each file, `AlwaysAgree`, `AlwaysWrittenInOrder`, `DoneAlwaysWhole` |
| `ServingProofs` | under `Orderly`: `ServingTypeCorrect`, `AnswersAlwaysMatch`, `OffersCanBeKept`, `DoneStaysWhole` |
| `SearchProofs` | `TypeCorrect`, `AlwaysOneAnswer`, `RoutedAlwaysForgotten`, `BudgetAlwaysKept` |
| `MatchProofs` | `TypeCorrect`, `FoundAlwaysShown`, `AlwaysShownOnce`, `FoundAlwaysWhole` |
| `SimpleProofs`, `ResponseTimers` | `TimersTypeCorrect`, `NeverStaleEntries`, `StoppedAlwaysLeaves`, `AlwaysRetried` |
| `SimpleProofs`, `SimpleMode` | `TypeCorrect`, `AlwaysWayBack`; in a `Forest`, `ShownOnceWithoutCycles` |

**Gossip.** `TypeOK` is inductive, and so is `StoreIsDense` on top of it. `GenuineStore`
is not: a rumor that is stored comes from a packet, which comes from a store, a timer,
`LastRumor` or a thread's register. The strengthening `HeldIsGenuine` speaks of all these
places. Its step rests on a lemma that has nothing to do with genuineness, `HoldsStep`: a
step makes no node hold a rumor that nobody held before, except the one that was just
allocated. Issued texts are only ever appended, so genuineness is stable.
`AnswersNextWanted` is a consequence of dense and genuine stores. For routes,
`HeldIsLearned` says that whoever holds another node's rumor has a route towards its
origin; routes are never removed, and they are set to the sender of a rumor, who holds
it. `StoresImplementLogs` uses all of it: the initial states map to initial states, and a
step to `Write` (an ID is allocated), to `Learn` (a dense store takes a genuine next
rumor), or to a stutter.

**Private messages.** `PrivateInv` is the gossip invariant with the types and `NeverStuck`
itself. It steps since next hops know a route when a message is handed on, and routes
are never lost while it is under way.

**Timers.** Which entry a removal takes does not matter for `NoStaleEntries`, only that
there is one removal for each timer: with the types it is inductive.
`StoppedLeavesTheList` needs that no timer is listed twice, `ListedOnce`.

**Blockchain.** `StoreStep` reduces every step to "nothing, or one block is taken", so
that each invariant has one case per branch of `handleNewBlockArrival`.

- The code gets along without looking for successors of a block that arrives. `Rooted`
  says why: there is one block without a stored parent at most, and no block is shorter
  than it, so that the parent of a stored block is stored already or never will be
  (`TakenHasNoChild`). With it, heads and leaves change in the same way.
- `MainChainIsLongest` is not inductive: nothing in it forbids a fork at an inner block
  from being longer at once. `LengthInv` adds that a block that is not a head is on a
  strictly shorter branch than the main head. The same step gives `MainChainGrows` and
  `StoreImplementsTree`.
- `SharedIsOnFork` shows that what lies below the intersection is on the fork's branch
  too, so that after a rewind the names that stay and those that are added come from the
  new main chain. The converse holds only as long as no two stored blocks use the same
  name (`NamesUsedOnceAlwaysTaken`): then a rewind cannot delete the name of a block that
  stays.

**Two threads in the block store.** `ThreadInv` has the properties of the tree with what
each thread knows of its block between two sections, although the other one moves:
`Knows` (the block is not stored before `insert` and has no successor until it is
finished, its parent is stored, its length is right) and `Apart` (the threads handle
different blocks, neither the other's parent, and miners build on finished blocks). The
heads are the leaves of the *registered* blocks, those whose thread is past the section
that enters them; `MainIsHead` allows for the parent that a thread has just replaced.
At rest no block is unregistered, which gives the two properties at rest. What is not
kept is `LongestAtRest` (section 3).

**Flooding of blocks.** `Agreement` speaks of the moment when the last packet has been
read; `FlowInv` says what makes it true while packets are still on their way.

- *Whatever a node stores, each neighbour stores or is being sent* (`Complete`). In a
  quiet network every neighbour then stores it, so the nodes that store a block are closed
  under neighbours; in a connected one they are all. `Connected` is stated without paths,
  and the proof needs no induction over them.
- *A block in flight has hops for all nodes that lack it*: its hops and the nodes that
  store it make up at least the limit (`Due`). A hop is spent only when one more node has
  stored the block, which is why the first copy may come any way round. `HopsSuffice`, a
  limit of at least the number of nodes less one, then lets every node that takes a
  block pass it on to those that lack it.
- *Its parent is with the receiver or before it on the same link* (`Due`), so it finds a
  place when it is read. This is where FIFO links matter: a block that overtakes its parent
  is refused, and never asked for again.

`Agreement` excludes forks at the very beginning and two blocks with one name, since the
code lets the first to come win there. Both are premises of `FlowInv` also. Stores only
grow, so premises that hold after a step have held before it (`OneRoot`, `Distinct`),
and the invariant is inductive although they may become false. A first block that comes
after another one (`Late`) is stored nowhere once the premises hold, and passing it on
does no harm. `NodesInv` has what the handler relies on: stores are finite, the lowest
block has no parent, the main head and the miner's parent are stored, names come from
stored blocks.

**Downloads.** Three of the theorems speak of files that are asked for by name
(`ByName`), whatever else goes on: early, late, repeated and lost replies, fired timers
that send again, other downloads at the same node, found files. What they need is that
the client asks for such a file once (`MaxCommands <= 1`), so that it has one entry at one
node (`EntryOK`).

- `Tied` says that as long as the file has its name, the entry agrees with the index and
  with the disk: as many chunks are written as the entry has seen, in their order, and
  when it is done the whole file, with its last chunk once more for each retry that came
  too late (`WholeAndMore`). It does not speak of timers or packets at all: whichever reply
  comes, only one with the very chunk that the entry waits for is written.
- A file that has lost its name (a deletion by an unexpected reply) is not written to any
  more, and has it back only by another command, so nothing has to agree then.
- `HandleCases` reduces the handling of a reply, whose disjuncts overlap in what they read,
  to its cases and what each of them changes (`ReplyEffect`); then there is one lemma for
  each case and for the file concerned or another one (`ChunkOK`, `MetafileOK`,
  `OtherEntryOK`, `DeletedOK`).

`AlwaysOffersOnlyWritten` needs none of this and holds for found files also: the index
counts one chunk for each that is appended (`Offers`), in every branch.

**Serving.** `Orderly` is the use of the node that the `Parts` run has: each download has
a name of its own and nothing is shared while it is being downloaded; otherwise
`DoneIsWhole` is false (section 3). `ServingInv` says of every file in the index that the
folder holds its first chunks one after the other, how many being told by the index when
it is whole and by the entry while it is not. It is kept because no other entry names the
file of a download (`PartInIndex`). What is read at the place of a chunk is then that
chunk or nothing, which is `AnswersMatch`. Chunks have any size, and files any contents.

**Search requests.** `BudgetIsKept` bounds the replies of a search together with what its
requests in flight may still spend. A sum over a bag is a recursive definition, about
which nothing can be proved here, so the property counts the units: `Units(bag, key)` has
one member for each copy of a request and each unit of its budget, and `Cardinality` does
the rest. Then a lost, dealt or split request is an injection between sets of units
(`UnitsOfSum`, `UnitsOfDifference`, `UnitsOfDealt`), and the node that answers takes one
unit off the request for its reply. A round is counted as what it gives out (`GivenOut`),
which is more than its budget when peers have been met since the command.

`RoundsInv`, for prompt origins: a node has answered no more rounds
than there were, and if it has answered all of them it remembers the search, or no
request of it is left. It does not matter which ways requests take, or how routes change.
`RoutedAlwaysForgotten` is inductive with the types.

**Matches.** `FoundIsWhole` compares two numbers, places counted and chunks of the file, and
means that the sets are the same. `WholeInv` says that every count in a reply or an entry
is the file's or zero, and that no place is listed twice; then as many places as chunks are
all the chunks (`CountedIsWhole`, by an injection). Entries with a count of zero, of files
whose sender had no metafile, are what the property leaves out, and `FoundIsSeen`
(section 3) says what happens to them. `ShownInv` says that a file that is found is in the
list of shown ones or is being shown, for every order of keywords. `ShownCount` counts shows
against what the node remembers and what made it forget, commands and deletions; a second
invariant counts the keywords under which the file was shown, each of which remembers it
for ever.

**Simple mode.** A way is stated without paths: `p` is in every set that contains `n` and
is closed under peers. Peers only grow, so ways are never lost; every packet was sent by
a node with a way back to its origin, and whoever receives it learns its sender.
`OnceEach` is false in a cycle. `Forest` says that every link is a bridge: its start is
not among the nodes `Behind` it. `AheadInv` gives every packet the nodes behind its link
to itself: the message has not come to them, and no other copy is on its way to one.
Passing it on divides them up (`BehindNext`, `BehindOther`), however the links that are
learned make the other direction passable.

**How.** The step lemmas have one case per action. Where a proof needs induction over a
chain of blocks or the places of a list, it takes a least or a greatest counterexample
(`HasMin`, `HasMax`, `HasLeast`), which needs no theorem with an operator as parameter.
TLC has checked the inductive invariants on the instances of the runs, except for those
that speak of all rumors, which it cannot enumerate.

Only model-checked:

- `UndisturbedIsExact`: the content of found files, and that files from timely nodes have
  no chunk too many.
- Liveness (`EveryRumorArrives`, `FloodsEnd`, `DownloadCompletes`, `EveryNodeIsAsked`,
  `AudienceHears`), which is out of the prover's reach together with ENABLED, as is what a
  recursive definition computes for every input.

## 6. Plan

In this order:

1. **A finer gossip store**: `updateStatusAndRumorArray` field by field, run by the
   client thread, the route ticker and the listener, which append to `Want` and
   `RumorMessages` without a common lock.
2. **Found files from untimely nodes**, second commands for one file, and the conditions
   under which they do no harm.
3. **Losses in `BlockFlood`**: which nodes still agree when a block has got lost.

## 7. Not modelled

- **Frontend handlers** (frontendHandler.go, checkFoundMatchesPeriodically): never
  started, since main calls `antiEntropy()`, which does not return, before it sets up the
  router (main.go:1236).
- **Command-line client and browser page**: they send one packet, or show what they get.
- **Encoding, hashing, file and socket I/O**: library code. Hashes are taken to be free
  of collisions, reads and writes of files not to fail, and data that does not match its
  hash is left out.
- **Crashes and restarts**: the program keeps nothing on disk but the files themselves;
  a node that restarts is a new node with an old address.
- **Blocks without proof of work**, which have no effect, and the time it takes to find
  one.
