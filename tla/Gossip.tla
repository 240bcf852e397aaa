------------------------------- MODULE Gossip -------------------------------
(***************************************************************************)
(* Rumor mongering, anti-entropy, status exchange and DSDV routing of a    *)
(* network of Peersters.  A node stands for one process together with the  *)
(* UDP address it is reached at.  Each packet handler of listenGossipPort  *)
(* is one action; the goroutine it starts with "go rumormongering" sends   *)
(* in the same step.  The client-port goroutine and the route ticker take  *)
(* two steps each, since they allocate an ID under the mutex and store the *)
(* message after they have released it.                                    *)
(***************************************************************************)
EXTENDS Naturals, Sequences, FiniteSets

CONSTANTS
    Nodes,          \* the Peersters
    Texts,          \* texts of client messages (never the empty string)
    Empty,          \* Go's "": no route, the text of a route rumor, no origin
    Neighbours,     \* Neighbours[n]: the peers given on n's command line
    Routers,        \* the nodes started with rtimer # 0
    MaxIssued,      \* bound: how many IDs a node allocates
    MaxTimers,      \* bound: response timers pending towards one peer
    LinkCapacity,   \* bound: packets of one kind in flight on one link
    NetCapacity     \* bound: packets of one kind in flight altogether

ASSUME NodesAssumption == Empty \notin Nodes \cup Texts
ASSUME NeighboursAssumption ==
    /\ Neighbours \in [Nodes -> SUBSET Nodes]
    /\ \A n \in Nodes : n \notin Neighbours[n]
ASSUME RoutersAssumption == Routers \subseteq Nodes
ASSUME BoundsAssumption ==
    /\ MaxIssued \in [Nodes -> Nat]
    /\ MaxTimers \in Nat
    /\ LinkCapacity \in Nat \ {0}
    /\ NetCapacity \in Nat \ {0}

Rumor == [origin : Nodes \cup {Empty}, id : Nat, text : Texts \cup {Empty}]
Status == [Nodes -> Nat \ {0}]

\* The zero RumorMessage; LastRumor holds it until a rumor replaces it.
NilRumor == [origin |-> Empty, id |-> 0, text |-> Empty]

VARIABLES
    peers,          \* peers[n]: gossiper.Peers
    issued,         \* issued[n]: the texts that got IDs 1, 2, ... of n
    uiRumor,        \* uiRumor[n]: ID allocated by listenUIPort, not stored yet
    tickerRumor,    \* tickerRumor[n]: the same for the route ticker
    want,           \* want[n][o]: NextID of o in StatusPacket.Want (1: no entry)
    rumors,         \* rumors[n][o]: SafeRumors.RumorMessages
    chat,           \* chat[n]: gossiper.RumorMessages, what the frontend shows
    lastRumor,      \* lastRumor[n]: gossiper.LastRumor
    routes,         \* routes[n][o]: next hop of n towards o, or Empty
    timers,         \* timers[n][p]: rumors whose response timer towards p runs
    rumorNet,       \* rumor packets in flight
    statusNet       \* status packets in flight

nodeVars == <<want, rumors, chat>>
idVars == <<issued, uiRumor, tickerRumor>>
vars == <<peers, issued, uiRumor, tickerRumor, want, rumors, chat, lastRumor,
          routes, timers, rumorNet, statusNet>>

RumorPacket == [from : Nodes, to : Nodes, rumor : Rumor]
StatusPacket == [from : Nodes, to : Nodes, want : Status]

TypeOK ==
    /\ peers \in [Nodes -> SUBSET Nodes]
    /\ issued \in [Nodes -> Seq(Texts \cup {Empty})]
    /\ uiRumor \in [Nodes -> Rumor]
    /\ tickerRumor \in [Nodes -> Rumor]
    /\ want \in [Nodes -> Status]
    /\ rumors \in [Nodes -> [Nodes -> Seq(Rumor)]]
    /\ chat \in [Nodes -> Seq(Rumor)]
    /\ lastRumor \in [Nodes -> Rumor]
    /\ routes \in [Nodes -> [Nodes \cup {Empty} -> Nodes \cup {Empty}]]
    /\ timers \in [Nodes -> [Nodes -> Seq(Rumor)]]
    /\ rumorNet \in SUBSET RumorPacket
    /\ statusNet \in SUBSET StatusPacket

\* The ID accepted from an origin that Want has no entry for.
FirstID == 1

Init ==
    /\ peers = Neighbours
    /\ issued = [n \in Nodes |-> <<>>]
    /\ uiRumor = [n \in Nodes |-> NilRumor]
    /\ tickerRumor = [n \in Nodes |-> NilRumor]
    /\ want = [n \in Nodes |-> [o \in Nodes |-> FirstID]]
    /\ rumors = [n \in Nodes |-> [o \in Nodes |-> <<>>]]
    /\ chat = [n \in Nodes |-> <<>>]
    /\ lastRumor = [n \in Nodes |-> NilRumor]
    /\ routes = [n \in Nodes |-> [o \in Nodes \cup {Empty} |-> Empty]]
    /\ timers = [n \in Nodes |-> [p \in Nodes |-> <<>>]]
    /\ rumorNet = {}
    /\ statusNet = {}

(***************************************************************************)
(* The network: UDP may lose, duplicate and reorder packets.  A send that   *)
(* finds its link full loses the link's older packets, one that finds the  *)
(* network full loses all older packets of its kind.                       *)
(***************************************************************************)
Put(net, pkt) ==
    LET sameLink == {q \in net : q.from = pkt.from /\ q.to = pkt.to}
        rest == IF Cardinality(sameLink) < LinkCapacity
                THEN net ELSE net \ sameLink
    IN  IF pkt \in net THEN net
        ELSE IF Cardinality(rest) < NetCapacity THEN rest \cup {pkt}
        ELSE {pkt}

\* What a receive leaves in the network; "again" says the packet comes twice.
Take(net, pkt, again) == IF again THEN net ELSE net \ {pkt}

(***************************************************************************)
(* Helpers of basicMethods.go.                                             *)
(***************************************************************************)
\* Faulty variant: any rumor that is not old is stored.
IsPresentOrLater(n, r) == r.origin \in Nodes /\ r.id >= want[n][r.origin]

\* The rumor is the next one of its origin ("present").
IsPresent(n, r) == r.origin \in Nodes /\ r.id = want[n][r.origin]

\* The rumor was stored before ("past"); neither present nor past: "future".
IsPast(n, r) == r.origin \in Nodes /\ r.id < want[n][r.origin]

\* Faulty variant: a rumor that is early is shown, though it is not stored.
ShowEarly(n, r) ==
    /\ want' = IF IsPresent(n, r) THEN [want EXCEPT ![n][r.origin] = @ + 1]
               ELSE want
    /\ rumors' = IF IsPresent(n, r)
                 THEN [rumors EXCEPT ![n][r.origin] = Append(@, r)] ELSE rumors
    /\ chat' = IF r.text # Empty /\ r.origin # n /\ ~IsPast(n, r)
               THEN [chat EXCEPT ![n] = Append(@, r)] ELSE chat

\* A route rumor and the node's own rumors are stored but not shown.
UpdateStatusAndRumorArray(n, r) ==
    IF IsPresent(n, r)
    THEN /\ want' = [want EXCEPT ![n][r.origin] = @ + 1]
         /\ rumors' = [rumors EXCEPT ![n][r.origin] = Append(@, r)]
         /\ chat' = IF r.text # Empty /\ r.origin # n
                    THEN [chat EXCEPT ![n] = Append(@, r)]
                    ELSE chat
    ELSE UNCHANGED nodeVars

\* Faulty variant: a gap in the IDs of an origin drops the route to it.
ForgetRouteOnGap(n, r, p) ==
    routes' = IF IsPast(n, r) \/ r.origin = n THEN routes
              ELSE [routes EXCEPT ![n][r.origin] =
                      IF IsPresent(n, r) THEN p ELSE Empty]

\* updateRoutingTable, which the handler calls unless the rumor is "past".
UpdateRoutingTable(n, r, p) ==
    routes' = IF IsPast(n, r) \/ r.origin = n THEN routes
              ELSE [routes EXCEPT ![n][r.origin] = p]

\* Faulty variant: the list is indexed from zero.
RumorAtIndex(array, id) ==
    IF id + 1 \in DOMAIN array THEN array[id + 1] ELSE NilRumor

\* The scan returns the only match: StoreIsDense says that IDs do not repeat.
GetRumorFromArray(array, id) ==
    IF \E i \in DOMAIN array : array[i].id = id
    THEN array[CHOOSE i \in DOMAIN array : array[i].id = id]
    ELSE NilRumor

\* sendRumorMsgToSpecificPeer followed by makeTimer, from a network "net" and
\* timers "tm" an earlier part of the step has left.
SendRumor(n, p, r, net, tm) ==
    /\ Len(tm[n][p]) < MaxTimers
    /\ rumorNet' = Put(net, [from |-> n, to |-> p, rumor |-> r])
    /\ timers' = [tm EXCEPT ![n][p] = Append(@, r)]

\* rumormongering to a random member of "ps".
Monger(n, ps, r, net, tm) == \E p \in ps : SendRumor(n, p, r, net, tm)

\* rumormongering if a coin says so.
CoinMonger(n, ps, r, net, tm) ==
    \/ Monger(n, ps, r, net, tm)
    \/ rumorNet' = net /\ timers' = tm

MyStatus(n, p) == [from |-> n, to |-> p, want |-> want[n]]

\* removeFinishedTimer: the oldest timer of the peer goes.
WithoutOldestTimer(n, p) ==
    IF timers[n][p] = <<>> THEN timers ELSE [timers EXCEPT ![n][p] = Tail(@)]

(***************************************************************************)
(* compareStatus.  The code answers for the first lagging origin in the    *)
(* order of the Want slice; the model leaves that order open.              *)
(***************************************************************************)
\* Faulty variant: origins the peer has no entry for are skipped.
LaggingKnown(n, theirs) ==
    {o \in Nodes : theirs[o] > 1 /\ theirs[o] < want[n][o]}

Lagging(n, theirs) == {o \in Nodes : theirs[o] < want[n][o]}
Leading(n, theirs) == {o \in Nodes : theirs[o] > want[n][o]}
KnowsNothing(n) == \A o \in Nodes : want[n][o] = FirstID

NextRumorFor(n, o, theirs) == GetRumorFromArray(rumors[n][o], theirs[o])
AsksForRumor(n, theirs) ==
    /\ ~KnowsNothing(n)
    /\ Lagging(n, theirs) = {}
    /\ Leading(n, theirs) # {}
InSync(n, theirs) ==
    \/ KnowsNothing(n)
    \/ Lagging(n, theirs) = {} /\ Leading(n, theirs) = {}

(***************************************************************************)
(* The client port (listenUIPort) and the route ticker.                    *)
(***************************************************************************)
NewRumor(n, text) == [origin |-> n, id |-> Len(issued[n]) + 1, text |-> text]

\* A client message gets the next ID, under SafeNextClientMessageIDs.mux.
AllocateClientMessage(n, text) ==
    /\ uiRumor[n] = NilRumor
    /\ Len(issued[n]) < MaxIssued[n]
    /\ issued' = [issued EXCEPT ![n] = Append(@, text)]
    /\ uiRumor' = [uiRumor EXCEPT ![n] = NewRumor(n, text)]
    /\ UNCHANGED <<peers, tickerRumor, nodeVars, lastRumor, routes, timers,
                   rumorNet, statusNet>>

\* The same goroutine, after the unlock: store and monger the message.
PublishClientMessage(n) ==
    /\ uiRumor[n] # NilRumor
    /\ uiRumor' = [uiRumor EXCEPT ![n] = NilRumor]
    /\ lastRumor' = [lastRumor EXCEPT ![n] = uiRumor[n]]
    /\ UpdateStatusAndRumorArray(n, uiRumor[n])
    /\ \/ peers[n] = {} /\ UNCHANGED <<rumorNet, timers>>
       \/ Monger(n, peers[n], uiRumor[n], rumorNet, timers)
    /\ UNCHANGED <<peers, issued, tickerRumor, routes, statusNet>>

\* The ticker allocates the ID of a route rumor, under the same mutex.
AllocateRouteMessage(n) ==
    /\ n \in Routers
    /\ tickerRumor[n] = NilRumor
    /\ peers[n] # {}
    /\ Len(issued[n]) < MaxIssued[n]
    /\ issued' = [issued EXCEPT ![n] = Append(@, Empty)]
    /\ tickerRumor' = [tickerRumor EXCEPT ![n] = NewRumor(n, Empty)]
    /\ UNCHANGED <<peers, uiRumor, nodeVars, lastRumor, routes, timers,
                   rumorNet, statusNet>>

PublishRouteMessage(n) ==
    /\ tickerRumor[n] # NilRumor
    /\ tickerRumor' = [tickerRumor EXCEPT ![n] = NilRumor]
    /\ UpdateStatusAndRumorArray(n, tickerRumor[n])
    /\ Monger(n, peers[n], tickerRumor[n], rumorNet, timers)
    /\ UNCHANGED <<peers, issued, uiRumor, lastRumor, routes, statusNet>>

(***************************************************************************)
(* listenGossipPort: rumor and status packets.                             *)
(***************************************************************************)
\* updatePeerList
AddPeer(n, p) == peers' = [peers EXCEPT ![n] = @ \cup {p}]

ReceiveRumor(pkt, again) ==
    LET n == pkt.to
        p == pkt.from
        r == pkt.rumor
        rest == Take(rumorNet, pkt, again)
    IN  /\ AddPeer(n, p)
        /\ lastRumor' = [lastRumor EXCEPT ![n] = r]
        /\ UpdateStatusAndRumorArray(n, r)
        /\ UpdateRoutingTable(n, r, p)
        /\ statusNet' = Put(statusNet,
                            [from |-> n, to |-> p, want |-> want'[n]])
        /\ IF IsPresent(n, r)
           THEN Monger(n, peers'[n], r, rest, timers)
           ELSE CoinMonger(n, peers'[n], r, rest, timers)
        /\ UNCHANGED <<issued, uiRumor, tickerRumor>>

ReceiveStatus(pkt, again) ==
    LET n == pkt.to
        p == pkt.from
        rest == Take(statusNet, pkt, again)
        tm == WithoutOldestTimer(n, p)
    IN  /\ AddPeer(n, p)
        /\ \/ \E o \in Lagging(n, pkt.want) :
                 /\ SendRumor(n, p, NextRumorFor(n, o, pkt.want), rumorNet, tm)
                 /\ statusNet' = rest
           \/ /\ AsksForRumor(n, pkt.want)
              /\ statusNet' = Put(rest, MyStatus(n, p))
              /\ timers' = tm
              /\ UNCHANGED rumorNet
           \/ /\ InSync(n, pkt.want)
              /\ IF \E o \in Nodes : rumors[n][o] # <<>>
                 THEN CoinMonger(n, peers'[n], lastRumor[n], rumorNet, tm)
                 ELSE timers' = tm /\ UNCHANGED rumorNet
              /\ statusNet' = rest
        /\ UNCHANGED <<issued, uiRumor, tickerRumor, nodeVars, lastRumor,
                       routes>>

(***************************************************************************)
(* Timers, the anti-entropy ticker and packet loss.                        *)
(***************************************************************************)
\* A one-second timer fires: the oldest entry goes, a coin decides to monger.
TimerExpires(n, p) ==
    /\ timers[n][p] # <<>>
    /\ CoinMonger(n, peers[n], Head(timers[n][p]), rumorNet,
                  WithoutOldestTimer(n, p))
    /\ UNCHANGED <<peers, issued, uiRumor, tickerRumor, nodeVars, lastRumor,
                   routes, statusNet>>

AntiEntropy(n, p) ==
    /\ p \in peers[n]
    /\ statusNet' = Put(statusNet, MyStatus(n, p))
    /\ UNCHANGED <<peers, issued, uiRumor, tickerRumor, nodeVars, lastRumor,
                   routes, timers, rumorNet>>

LoseRumor ==
    /\ \E pkt \in rumorNet : rumorNet' = rumorNet \ {pkt}
    /\ UNCHANGED <<peers, issued, uiRumor, tickerRumor, nodeVars, lastRumor,
                   routes, timers, statusNet>>

LoseStatus ==
    /\ \E pkt \in statusNet : statusNet' = statusNet \ {pkt}
    /\ UNCHANGED <<peers, issued, uiRumor, tickerRumor, nodeVars, lastRumor,
                   routes, timers, rumorNet>>

Next ==
    \/ \E n \in Nodes, text \in Texts : AllocateClientMessage(n, text)
    \/ \E n \in Nodes : PublishClientMessage(n)
    \/ \E n \in Nodes : AllocateRouteMessage(n)
    \/ \E n \in Nodes : PublishRouteMessage(n)
    \/ \E pkt \in rumorNet, again \in BOOLEAN : ReceiveRumor(pkt, again)
    \/ \E pkt \in statusNet, again \in BOOLEAN : ReceiveStatus(pkt, again)
    \/ \E n, p \in Nodes : TimerExpires(n, p)
    \/ \E n, p \in Nodes : AntiEntropy(n, p)
    \/ LoseRumor
    \/ LoseStatus

Spec == Init /\ [][Next]_vars

(***************************************************************************)
(* Fairness.  The goroutines run and the timers fire.  Every tick picks a  *)
(* random peer, so every peer is picked again and again.  Links are fair   *)
(* lossy: of a packet sent again and again some copy arrives.  That is     *)
(* assumed only of a peer's current status, link by link, and of the       *)
(* rumors that are news to their receiver, taken together.                 *)
(***************************************************************************)
Links == {l \in Nodes \X Nodes :
            l[1] \in Neighbours[l[2]] \/ l[2] \in Neighbours[l[1]]}

DeliverCurrentStatus(n, p) ==
    \E pkt \in statusNet :
        /\ pkt.from = p /\ pkt.to = n /\ pkt.want = want[p]
        /\ ReceiveStatus(pkt, FALSE)

DeliverNews ==
    \E pkt \in rumorNet :
        IsPresent(pkt.to, pkt.rumor) /\ ReceiveRumor(pkt, FALSE)

Fairness ==
    /\ \A n \in Nodes :
          WF_vars(PublishClientMessage(n)) /\ WF_vars(PublishRouteMessage(n))
    /\ \A l \in Links :
          /\ WF_vars(AntiEntropy(l[1], l[2]))
          /\ WF_vars(TimerExpires(l[1], l[2]))
          /\ SF_vars(DeliverCurrentStatus(l[1], l[2]))
    /\ SF_vars(DeliverNews)

FairSpec == Spec /\ Fairness

(***************************************************************************)
(* Safety.                                                                 *)
(***************************************************************************)
\* Whatever order, loss and duplication the network shows, the rumors a node
\* holds of an origin are exactly those with the IDs below its NextID, each
\* once and in ID order (updateStatusAndRumorArray).
StoreIsDense ==
    \A n, o \in Nodes :
        /\ Len(rumors[n][o]) + 1 = want[n][o]
        /\ \A i \in 1 .. Len(rumors[n][o]) :
              rumors[n][o][i].origin = o /\ rumors[n][o][i].id = i

\* r is a rumor its origin has allocated, with its text (or the zero rumor).
Genuine(r) ==
    \/ r = NilRumor
    \/ /\ r.origin \in Nodes
       /\ r.id \in 1 .. Len(issued[r.origin])
       /\ r.text = issued[r.origin][r.id]

\* What a node stores of an origin is what that origin issued, text by text.
GenuineStore ==
    \A n, o \in Nodes : \A i \in 1 .. Len(rumors[n][o]) :
        rumors[n][o][i] # NilRumor /\ Genuine(rumors[n][o][i])

\* compareStatus never answers a status with anything but the very rumor the
\* other peer waits for: the origin and ID it announced, as the origin wrote it.
AnswersNextWanted ==
    \A s \in statusNet : \A o \in Lagging(s.to, s.want) :
        LET r == NextRumorFor(s.to, o, s.want)
        IN  r.origin = o /\ r.id = s.want[o] /\ Genuine(r)

\* Following a next hop never leads to a peer that has no way on: the peer is
\* the origin itself or has a route towards it.
NextHopKnowsRoute ==
    \A n, o \in Nodes :
        LET p == routes[n][o]
        IN  p # Empty => p = o \/ routes[p][o] # Empty

\* A client message is the next of its origin when it is stored, as main.go:51
\* expects: it prints "Error : client message" otherwise.  The route ticker breaks
\* it: it may hold the lower ID and store it later; then the message is "future" to
\* its own node, which does not store it.
ClientMessageIsPresent ==
    [][\A n \in Nodes :
          uiRumor[n] # NilRumor /\ uiRumor'[n] = NilRumor =>
              IsPresent(n, uiRumor[n])]_vars

(***************************************************************************)
(* What all this promises: logs that every node copies entry by entry.     *)
(***************************************************************************)
\* What the log of o looks like to n: the texts of the rumors it stores.
CopyOf(n, o) == [i \in DOMAIN rumors[n][o] |-> rumors[n][o][i].text]

ShownBy(n) ==
    [i \in DOMAIN chat[n] |->
        [origin |-> chat[n][i].origin, text |-> chat[n][i].text]]

Log == INSTANCE GossipLog WITH
    Entries <- Texts \cup {Empty},
    Hidden <- Empty,
    log <- issued,
    copy <- [n \in Nodes |-> [o \in Nodes |-> CopyOf(n, o)]],
    shown <- [n \in Nodes |-> ShownBy(n)]

\* Whatever the network does, a node's store of an origin is a copy of what that
\* origin issued that grows by the next entry, one at a time, and the frontend
\* shows an entry of another node in the very step that learns it.
ImplementsLog == Log!Spec

(***************************************************************************)
(* Liveness.                                                               *)
(***************************************************************************)
\* Every message a node issues reaches every node, through peers that forward
\* it and through anti-entropy, although packets get lost.
EveryRumorArrives ==
    \A o, n \in Nodes : \A i \in 1 .. MaxIssued[o] :
        (Len(issued[o]) >= i) ~> (want[n][o] > i)
=============================================================================
