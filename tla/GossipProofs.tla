----------------------------- MODULE GossipProofs -----------------------------
(***************************************************************************)
(* What Gossip guarantees for every network, every bound and every number  *)
(* of messages, without fairness, and what its routes guarantee to private *)
(* messages.                                                               *)
(***************************************************************************)
EXTENDS PrivateMessages, SequenceTheorems, FiniteSetTheorems, TLAPS

-----------------------------------------------------------------------------
(* The helpers that build a next state keep its types. *)

\* A send adds its own packet to the network and no other.
LEMMA PutAddsOnlyItsPacket ==
    ASSUME NEW net, NEW pkt
    PROVE  Put(net, pkt) \subseteq net \cup {pkt}
BY DEF Put

\* Changing one entry of a function of functions keeps its type.
LEMMA ExceptTwiceType ==
    ASSUME NEW A, NEW B, NEW C, NEW f \in [A -> [B -> C]],
           NEW x \in A, NEW y \in B, NEW v \in C
    PROVE  [f EXCEPT ![x][y] = v] \in [A -> [B -> C]]
<1>1. [f[x] EXCEPT ![y] = v] \in [B -> C]
  OBVIOUS
<1>2. [f EXCEPT ![x][y] = v] = [f EXCEPT ![x] = [f[x] EXCEPT ![y] = v]]
  OBVIOUS
<1> QED
  BY <1>1, <1>2

\* The zero rumor is a rumor.
LEMMA NilRumorType == NilRumor \in Rumor
BY DEF NilRumor, Rumor

\* Sending a rumor keeps the types of the network and of the timers.
LEMMA SendRumorType ==
    ASSUME NEW n \in Nodes, NEW p \in Nodes, NEW r \in Rumor,
           NEW net \in SUBSET RumorPacket,
           NEW tm \in [Nodes -> [Nodes -> Seq(Rumor)]],
           SendRumor(n, p, r, net, tm)
    PROVE  /\ rumorNet' \in SUBSET RumorPacket
           /\ timers' \in [Nodes -> [Nodes -> Seq(Rumor)]]
<1> DEFINE pkt == [from |-> n, to |-> p, rumor |-> r]
<1>1. pkt \in RumorPacket
  BY DEF RumorPacket
<1>2. rumorNet' \subseteq net \cup {pkt}
  BY PutAddsOnlyItsPacket DEF SendRumor
<1>3. Append(tm[n][p], r) \in Seq(Rumor)
  OBVIOUS
<1>4. timers' = [tm EXCEPT ![n] = [tm[n] EXCEPT ![p] = Append(tm[n][p], r)]]
  BY DEF SendRumor
<1> QED
  BY <1>1, <1>2, <1>3, <1>4

\* The same for a rumor that a coin or a random choice sends.
LEMMA CoinMongerType ==
    ASSUME NEW n \in Nodes, NEW ps \in SUBSET Nodes, NEW r \in Rumor,
           NEW net \in SUBSET RumorPacket,
           NEW tm \in [Nodes -> [Nodes -> Seq(Rumor)]],
           CoinMonger(n, ps, r, net, tm)
    PROVE  /\ rumorNet' \in SUBSET RumorPacket
           /\ timers' \in [Nodes -> [Nodes -> Seq(Rumor)]]
BY SendRumorType DEF CoinMonger, Monger

\* Dropping the oldest timer keeps the type of the timers.
LEMMA WithoutOldestTimerType ==
    ASSUME timers \in [Nodes -> [Nodes -> Seq(Rumor)]],
           NEW n \in Nodes, NEW p \in Nodes
    PROVE  WithoutOldestTimer(n, p) \in [Nodes -> [Nodes -> Seq(Rumor)]]
<1>1. CASE timers[n][p] = <<>>
  BY <1>1 DEF WithoutOldestTimer
<1>2. CASE timers[n][p] # <<>>
  <2>1. Tail(timers[n][p]) \in Seq(Rumor)
    BY <1>2
  <2> QED
    BY <1>2, <2>1 DEF WithoutOldestTimer
<1> QED
  BY <1>1, <1>2

\* Storing a rumor keeps the types of the store and of the chat.
LEMMA StoreType ==
    ASSUME TypeOK, NEW n \in Nodes, NEW r \in Rumor,
           UpdateStatusAndRumorArray(n, r)
    PROVE  /\ want' \in [Nodes -> Status]
           /\ rumors' \in [Nodes -> [Nodes -> Seq(Rumor)]]
           /\ chat' \in [Nodes -> Seq(Rumor)]
<1>1. CASE IsPresent(n, r)
  <2>1. r.origin \in Nodes /\ want[n] \in Status
    BY <1>1 DEF IsPresent, TypeOK
  <2>2. [want[n] EXCEPT ![r.origin] = @ + 1] \in Status
    BY <2>1 DEF Status
  <2>3. want' \in [Nodes -> Status]
    BY <1>1, <2>2 DEF UpdateStatusAndRumorArray, TypeOK
  <2>4. Append(rumors[n][r.origin], r) \in Seq(Rumor)
    BY <2>1 DEF TypeOK
  <2>5. rumors' \in [Nodes -> [Nodes -> Seq(Rumor)]]
    <3>1. rumors' = [rumors EXCEPT ![n] = [rumors[n] EXCEPT
                        ![r.origin] = Append(rumors[n][r.origin], r)]]
      BY <1>1 DEF UpdateStatusAndRumorArray
    <3> QED
      BY <2>1, <2>4, <3>1 DEF TypeOK
  <2>6. Append(chat[n], r) \in Seq(Rumor)
    BY DEF TypeOK
  <2>7. chat' \in [Nodes -> Seq(Rumor)]
    BY <1>1, <2>6 DEF UpdateStatusAndRumorArray, TypeOK
  <2> QED
    BY <2>3, <2>5, <2>7
<1>2. CASE ~IsPresent(n, r)
  BY <1>2 DEF UpdateStatusAndRumorArray, TypeOK, nodeVars
<1> QED
  BY <1>1, <1>2

\* A rumor looked up in a store is a rumor.
LEMMA GetRumorFromArrayType ==
    ASSUME NEW array \in Seq(Rumor), NEW id
    PROVE  GetRumorFromArray(array, id) \in Rumor
<1>1. CASE \E i \in DOMAIN array : array[i].id = id
  <2> DEFINE i0 == CHOOSE i \in DOMAIN array : array[i].id = id
  <2>1. i0 \in DOMAIN array
    BY <1>1
  <2> QED
    BY <1>1, <2>1 DEF GetRumorFromArray
<1>2. CASE ~ \E i \in DOMAIN array : array[i].id = id
  BY <1>2, NilRumorType DEF GetRumorFromArray
<1> QED
  BY <1>1, <1>2

-----------------------------------------------------------------------------
(* Type correctness. *)

\* Receiving a rumor keeps every type.
LEMMA ReceiveRumorType ==
    ASSUME TypeOK, NEW pkt \in rumorNet, NEW again \in BOOLEAN,
           ReceiveRumor(pkt, again)
    PROVE  TypeOK'
<1> DEFINE n == pkt.to
           p == pkt.from
           r == pkt.rumor
           rest == Take(rumorNet, pkt, again)
<1>1. n \in Nodes /\ p \in Nodes /\ r \in Rumor
  BY DEF TypeOK, RumorPacket
<1>2. peers' \in [Nodes -> SUBSET Nodes]
  BY <1>1 DEF ReceiveRumor, AddPeer, TypeOK
<1>3. lastRumor' \in [Nodes -> Rumor]
  BY <1>1 DEF ReceiveRumor, TypeOK
<1>4. /\ want' \in [Nodes -> Status]
      /\ rumors' \in [Nodes -> [Nodes -> Seq(Rumor)]]
      /\ chat' \in [Nodes -> Seq(Rumor)]
  BY <1>1, StoreType DEF ReceiveRumor
<1>5. routes' \in [Nodes -> [Nodes \cup {Empty} -> Nodes \cup {Empty}]]
  <2>1. r.origin \in Nodes \cup {Empty}
    BY <1>1 DEF Rumor
  <2>2. \/ routes' = routes
        \/ routes' = [routes EXCEPT ![n][r.origin] = p]
    BY DEF ReceiveRumor, UpdateRoutingTable
  <2> DEFINE Key == Nodes \cup {Empty}
  <2>3. routes \in [Nodes -> [Key -> Key]] /\ r.origin \in Key /\ p \in Key
    BY <1>1, <2>1 DEF TypeOK
  <2> HIDE DEF n, p, r, rest, Key
  <2>4. [routes EXCEPT ![n][r.origin] = p] \in [Nodes -> [Key -> Key]]
    BY <1>1, <2>3, ExceptTwiceType
  <2> QED
    BY <2>2, <2>3, <2>4 DEF Key
<1>6. statusNet' \in SUBSET StatusPacket
  <2>1. [from |-> n, to |-> p, want |-> want'[n]] \in StatusPacket
    BY <1>1, <1>4 DEF StatusPacket
  <2>2. statusNet' = Put(statusNet, [from |-> n, to |-> p, want |-> want'[n]])
    BY DEF ReceiveRumor
  <2> QED
    BY <2>1, <2>2, PutAddsOnlyItsPacket DEF TypeOK
<1>7. /\ rumorNet' \in SUBSET RumorPacket
      /\ timers' \in [Nodes -> [Nodes -> Seq(Rumor)]]
  <2>1. rest \in SUBSET RumorPacket
    BY DEF Take, TypeOK
  <2>2. CoinMonger(n, peers'[n], r, rest, timers)
    BY DEF ReceiveRumor, CoinMonger
  <2>3. peers'[n] \in SUBSET Nodes
    BY <1>1, <1>2
  <2>4. timers \in [Nodes -> [Nodes -> Seq(Rumor)]]
    BY DEF TypeOK
  <2> HIDE DEF n, p, r, rest
  <2> QED
    BY <1>1, <2>1, <2>2, <2>3, <2>4, CoinMongerType
<1>8. UNCHANGED <<issued, uiRumor, tickerRumor>>
  BY DEF ReceiveRumor
<1> QED
  BY <1>2, <1>3, <1>4, <1>5, <1>6, <1>7, <1>8 DEF TypeOK

\* Receiving a status keeps every type.
LEMMA ReceiveStatusType ==
    ASSUME TypeOK, NEW pkt \in statusNet, NEW again \in BOOLEAN,
           ReceiveStatus(pkt, again)
    PROVE  TypeOK'
<1> DEFINE n == pkt.to
           p == pkt.from
           rest == Take(statusNet, pkt, again)
           tm == WithoutOldestTimer(n, p)
<1>1. n \in Nodes /\ p \in Nodes /\ pkt.want \in Status
  BY DEF TypeOK, StatusPacket
<1>2. peers' \in [Nodes -> SUBSET Nodes]
  BY <1>1 DEF ReceiveStatus, AddPeer, TypeOK
<1>3. rest \in SUBSET StatusPacket
  BY DEF Take, TypeOK
<1>4. MyStatus(n, p) \in StatusPacket
  BY <1>1 DEF MyStatus, StatusPacket, TypeOK
<1>5. tm \in [Nodes -> [Nodes -> Seq(Rumor)]]
  BY <1>1, WithoutOldestTimerType DEF TypeOK
<1>6. peers'[n] \in SUBSET Nodes
  BY <1>1, <1>2
<1>7. rumorNet \in SUBSET RumorPacket /\ lastRumor[n] \in Rumor
  BY <1>1 DEF TypeOK
<1>8. UNCHANGED <<issued, uiRumor, tickerRumor, nodeVars, lastRumor, routes>>
  BY DEF ReceiveStatus
<1>9. /\ rumorNet' \in SUBSET RumorPacket
      /\ timers' \in [Nodes -> [Nodes -> Seq(Rumor)]]
      /\ statusNet' \in SUBSET StatusPacket
  <2>1. CASE \E o \in Lagging(n, pkt.want) :
               /\ SendRumor(n, p, NextRumorFor(n, o, pkt.want), rumorNet, tm)
               /\ statusNet' = rest
    <3>1. PICK o \in Lagging(n, pkt.want) :
            SendRumor(n, p, NextRumorFor(n, o, pkt.want), rumorNet, tm)
      BY <2>1
    <3>2. NextRumorFor(n, o, pkt.want) \in Rumor
      <4>1. rumors[n][o] \in Seq(Rumor)
        BY <1>1 DEF Lagging, TypeOK
      <4> QED
        BY <4>1, GetRumorFromArrayType DEF NextRumorFor
    <3> QED
      BY <1>1, <1>3, <1>5, <1>7, <2>1, <3>1, <3>2, SendRumorType
  <2>2. CASE /\ statusNet' = Put(rest, MyStatus(n, p))
             /\ timers' = tm
             /\ UNCHANGED rumorNet
    BY <1>3, <1>4, <1>5, <1>7, <2>2, PutAddsOnlyItsPacket
  <2>3. CASE /\ CoinMonger(n, peers'[n], lastRumor[n], rumorNet, tm)
             /\ statusNet' = rest
    BY <1>1, <1>3, <1>5, <1>6, <1>7, <2>3, CoinMongerType
  <2>4. CASE timers' = tm /\ UNCHANGED rumorNet /\ statusNet' = rest
    BY <1>3, <1>5, <1>7, <2>4
  <2> QED
    BY <2>1, <2>2, <2>3, <2>4 DEF ReceiveStatus
<1> QED
  BY <1>2, <1>8, <1>9 DEF TypeOK, nodeVars

\* The new rumor of a client message or of the route ticker is a rumor.
LEMMA NewRumorType ==
    ASSUME TypeOK, NEW n \in Nodes, NEW text \in Texts \cup {Empty}
    PROVE  /\ NewRumor(n, text) \in Rumor
           /\ [issued EXCEPT ![n] = Append(@, text)]
                 \in [Nodes -> Seq(Texts \cup {Empty})]
<1>1. issued[n] \in Seq(Texts \cup {Empty})
  BY DEF TypeOK
<1>2. Len(issued[n]) + 1 \in Nat
  BY <1>1
<1> QED
  BY <1>1, <1>2 DEF NewRumor, Rumor, TypeOK

\* Every variable keeps its type, whatever step is taken.
LEMMA TypeOKStep == TypeOK /\ [Next]_vars => TypeOK'
<1> SUFFICES ASSUME TypeOK, [Next]_vars PROVE TypeOK'
  OBVIOUS
<1>1. ASSUME NEW n \in Nodes, NEW text \in Texts, AllocateClientMessage(n, text)
      PROVE  TypeOK'
  BY <1>1, NewRumorType DEF AllocateClientMessage, TypeOK, nodeVars
<1>2. ASSUME NEW n \in Nodes, PublishClientMessage(n)
      PROVE  TypeOK'
  <2>1. uiRumor[n] \in Rumor
    BY DEF TypeOK
  <2>2. /\ want' \in [Nodes -> Status]
        /\ rumors' \in [Nodes -> [Nodes -> Seq(Rumor)]]
        /\ chat' \in [Nodes -> Seq(Rumor)]
    BY <1>2, <2>1, StoreType DEF PublishClientMessage
  <2>3. /\ rumorNet' \in SUBSET RumorPacket
        /\ timers' \in [Nodes -> [Nodes -> Seq(Rumor)]]
    <3>1. CoinMonger(n, peers[n], uiRumor[n], rumorNet, timers)
      BY <1>2 DEF PublishClientMessage, CoinMonger
    <3> QED
      BY <2>1, <3>1, CoinMongerType DEF TypeOK
  <2> QED
    BY <1>2, <2>1, <2>2, <2>3, NilRumorType DEF PublishClientMessage, TypeOK
<1>3. ASSUME NEW n \in Nodes, AllocateRouteMessage(n)
      PROVE  TypeOK'
  BY <1>3, NewRumorType DEF AllocateRouteMessage, TypeOK, nodeVars
<1>4. ASSUME NEW n \in Nodes, PublishRouteMessage(n)
      PROVE  TypeOK'
  <2>1. tickerRumor[n] \in Rumor
    BY DEF TypeOK
  <2>2. /\ want' \in [Nodes -> Status]
        /\ rumors' \in [Nodes -> [Nodes -> Seq(Rumor)]]
        /\ chat' \in [Nodes -> Seq(Rumor)]
    BY <1>4, <2>1, StoreType DEF PublishRouteMessage
  <2>3. /\ rumorNet' \in SUBSET RumorPacket
        /\ timers' \in [Nodes -> [Nodes -> Seq(Rumor)]]
    <3>1. CoinMonger(n, peers[n], tickerRumor[n], rumorNet, timers)
      BY <1>4 DEF PublishRouteMessage, CoinMonger
    <3> QED
      BY <2>1, <3>1, CoinMongerType DEF TypeOK
  <2> QED
    BY <1>4, <2>1, <2>2, <2>3, NilRumorType DEF PublishRouteMessage, TypeOK
<1>5. ASSUME NEW pkt \in rumorNet, NEW again \in BOOLEAN,
             ReceiveRumor(pkt, again)
      PROVE  TypeOK'
  BY <1>5, ReceiveRumorType
<1>6. ASSUME NEW pkt \in statusNet, NEW again \in BOOLEAN,
             ReceiveStatus(pkt, again)
      PROVE  TypeOK'
  BY <1>6, ReceiveStatusType
<1>7. ASSUME NEW n \in Nodes, NEW p \in Nodes, TimerExpires(n, p)
      PROVE  TypeOK'
  <2>1. Head(timers[n][p]) \in Rumor
    BY <1>7 DEF TimerExpires, TypeOK
  <2>2. WithoutOldestTimer(n, p) \in [Nodes -> [Nodes -> Seq(Rumor)]]
    BY WithoutOldestTimerType DEF TypeOK
  <2>3. peers[n] \in SUBSET Nodes /\ rumorNet \in SUBSET RumorPacket
    BY DEF TypeOK
  <2>4. CoinMonger(n, peers[n], Head(timers[n][p]), rumorNet,
                   WithoutOldestTimer(n, p))
    BY <1>7 DEF TimerExpires
  <2>5. /\ rumorNet' \in SUBSET RumorPacket
        /\ timers' \in [Nodes -> [Nodes -> Seq(Rumor)]]
    BY <2>1, <2>2, <2>3, <2>4, CoinMongerType
  <2> QED
    BY <1>7, <2>5 DEF TimerExpires, TypeOK, nodeVars
<1>8. ASSUME NEW n \in Nodes, NEW p \in Nodes, AntiEntropy(n, p)
      PROVE  TypeOK'
  <2>1. MyStatus(n, p) \in StatusPacket
    BY DEF MyStatus, StatusPacket, TypeOK
  <2>2. statusNet' \in SUBSET StatusPacket
    BY <1>8, <2>1, PutAddsOnlyItsPacket DEF AntiEntropy, TypeOK
  <2> QED
    BY <1>8, <2>2 DEF AntiEntropy, TypeOK, nodeVars
<1>9. CASE LoseRumor
  BY <1>9 DEF LoseRumor, TypeOK, nodeVars
<1>10. CASE LoseStatus
  BY <1>10 DEF LoseStatus, TypeOK, nodeVars
<1>11. CASE UNCHANGED vars
  BY <1>11 DEF vars, TypeOK
<1> QED
  BY <1>1, <1>2, <1>3, <1>4, <1>5, <1>6, <1>7, <1>8, <1>9, <1>10, <1>11
     DEF Next

\* Every variable has its type in every reachable state.
THEOREM TypeCorrect == Spec => []TypeOK
<1>1. Init => TypeOK
  BY NilRumorType, NeighboursAssumption DEF Init, TypeOK, FirstID, Status
<1> QED
  BY <1>1, TypeOKStep, PTL DEF Spec

-----------------------------------------------------------------------------
(* Which rumors a node has in its hands, and how it comes to them. *)

\* r is in the store of n.
Stores(n, r) ==
    \E o \in Nodes : \E i \in 1 .. Len(rumors[n][o]) : r = rumors[n][o][i]

\* r waits in one of the timers of n, or is in flight from n.
Sends(n, r) ==
    \/ \E p \in Nodes : \E i \in 1 .. Len(timers[n][p]) : r = timers[n][p][i]
    \/ \E pkt \in rumorNet : pkt.from = n /\ pkt.rumor = r

\* n has stored r, sends it, or got it last.
Spread(n, r) ==
    \/ r \in {NilRumor, lastRumor[n]}
    \/ Stores(n, r)
    \/ Sends(n, r)

\* The same, or a thread of n has allocated r and is about to store it.
Holds(n, r) == r \in {uiRumor[n], tickerRumor[n]} \/ Spread(n, r)

\* r has just been allocated by n.
Allocated(n, r) ==
    /\ r.origin = n
    /\ r.id = Len(issued[n]) + 1
    /\ issued' = [issued EXCEPT ![n] = Append(@, r.text)]

\* A thread of n stores r, which it has allocated before.
Published(n, r) ==
    r \in {uiRumor[n], tickerRumor[n]} /\ UpdateStatusAndRumorArray(n, r)

\* The step is the receipt of r by n.
Received(n, r) ==
    \E pkt \in rumorNet, again \in BOOLEAN :
        pkt.to = n /\ pkt.rumor = r /\ ReceiveRumor(pkt, again)

\* A rumor in the network was there before, or is s and comes from n; a rumor
\* in a timer was in tm, or is s and in a timer of n.
SentOnly(n, s, tm) ==
    /\ \A pkt \in rumorNet' :
          \/ pkt \in rumorNet
          \/ pkt.from = n /\ pkt.rumor = s
    /\ \A m, q \in Nodes : \A i \in 1 .. Len(timers'[m][q]) :
          \/ i \in 1 .. Len(tm[m][q]) /\ timers'[m][q][i] = tm[m][q][i]
          \/ m = n /\ timers'[m][q][i] = s

\* A send adds one packet and one timer, both with the rumor it sends.
LEMMA SendRumorHolds ==
    ASSUME NEW n \in Nodes, NEW p \in Nodes, NEW s \in Rumor,
           NEW net \in SUBSET RumorPacket, net \subseteq rumorNet,
           NEW tm \in [Nodes -> [Nodes -> Seq(Rumor)]],
           SendRumor(n, p, s, net, tm)
    PROVE  SentOnly(n, s, tm)
<1>1. ASSUME NEW pkt \in rumorNet'
      PROVE  pkt \in rumorNet \/ (pkt.from = n /\ pkt.rumor = s)
  BY <1>1, PutAddsOnlyItsPacket DEF SendRumor
<1>2. ASSUME NEW m \in Nodes, NEW q \in Nodes,
             NEW i \in 1 .. Len(timers'[m][q])
      PROVE  \/ i \in 1 .. Len(tm[m][q]) /\ timers'[m][q][i] = tm[m][q][i]
             \/ m = n /\ timers'[m][q][i] = s
  <2>1. CASE m = n /\ q = p
    <3>1. timers'[n][p] = Append(tm[n][p], s)
      BY DEF SendRumor
    <3>2. tm[n][p] \in Seq(Rumor)
      OBVIOUS
    <3> QED
      BY <2>1, <3>1, <3>2
  <2>2. CASE ~(m = n /\ q = p)
    <3>1. timers'[m][q] = tm[m][q]
      BY <2>2 DEF SendRumor
    <3> QED
      BY <3>1
  <2> QED
    BY <2>1, <2>2
<1> QED
  BY <1>1, <1>2 DEF SentOnly

\* The same for a coin that decides whether to send.
LEMMA CoinMongerHolds ==
    ASSUME NEW n \in Nodes, NEW ps \in SUBSET Nodes, NEW s \in Rumor,
           NEW net \in SUBSET RumorPacket, net \subseteq rumorNet,
           NEW tm \in [Nodes -> [Nodes -> Seq(Rumor)]],
           CoinMonger(n, ps, s, net, tm)
    PROVE  SentOnly(n, s, tm)
<1>1. CASE rumorNet' = net /\ timers' = tm
  BY <1>1 DEF SentOnly
<1>2. CASE Monger(n, ps, s, net, tm)
  <2>1. PICK p \in ps : SendRumor(n, p, s, net, tm)
    BY <1>2 DEF Monger
  <2>2. p \in Nodes
    OBVIOUS
  <2> QED
    BY <2>1, <2>2, SendRumorHolds
<1> QED
  BY <1>1, <1>2 DEF CoinMonger

\* A timer that is left after the oldest has gone was there before.
LEMMA WithoutOldestTimerHolds ==
    ASSUME timers \in [Nodes -> [Nodes -> Seq(Rumor)]],
           NEW n \in Nodes, NEW p \in Nodes
    PROVE  \A m, q \in Nodes : \A i \in 1 .. Len(WithoutOldestTimer(n, p)[m][q]) :
              \E j \in 1 .. Len(timers[m][q]) :
                 timers[m][q][j] = WithoutOldestTimer(n, p)[m][q][i]
<1> SUFFICES ASSUME NEW m \in Nodes, NEW q \in Nodes,
                    NEW i \in 1 .. Len(WithoutOldestTimer(n, p)[m][q])
             PROVE  \E j \in 1 .. Len(timers[m][q]) :
                       timers[m][q][j] = WithoutOldestTimer(n, p)[m][q][i]
  OBVIOUS
<1>1. CASE m = n /\ q = p /\ timers[n][p] # <<>>
  <2>1. WithoutOldestTimer(n, p)[m][q] = Tail(timers[n][p])
    BY <1>1 DEF WithoutOldestTimer
  <2>2. timers[n][p] \in Seq(Rumor)
    OBVIOUS
  <2> QED
    BY <1>1, <2>1, <2>2
<1>2. CASE ~(m = n /\ q = p /\ timers[n][p] # <<>>)
  <2>1. WithoutOldestTimer(n, p)[m][q] = timers[m][q]
    BY <1>2 DEF WithoutOldestTimer
  <2> QED
    BY <2>1
<1> QED
  BY <1>1, <1>2

\* A rumor in the store after updateStatusAndRumorArray was there before, or
\* is its argument.
LEMMA StoreHolds ==
    ASSUME TypeOK, NEW n \in Nodes, NEW r \in Rumor,
           UpdateStatusAndRumorArray(n, r),
           NEW m \in Nodes, NEW o \in Nodes, NEW i \in 1 .. Len(rumors'[m][o])
    PROVE  \/ i \in 1 .. Len(rumors[m][o]) /\ rumors'[m][o][i] = rumors[m][o][i]
           \/ /\ m = n /\ o = r.origin /\ IsPresent(n, r)
              /\ i = Len(rumors[m][o]) + 1 /\ rumors'[m][o][i] = r
<1>1. CASE IsPresent(n, r) /\ m = n /\ o = r.origin
  <2>1. rumors' = [rumors EXCEPT ![n][o] = Append(@, r)]
    BY <1>1 DEF UpdateStatusAndRumorArray
  <2>2. rumors \in [Nodes -> [Nodes -> Seq(Rumor)]]
    BY DEF TypeOK
  <2>3. rumors'[n][o] = Append(rumors[n][o], r) /\ rumors[n][o] \in Seq(Rumor)
    BY <2>1, <2>2
  <2> QED
    BY <1>1, <2>3
<1>2. CASE ~(IsPresent(n, r) /\ m = n /\ o = r.origin)
  <2>1. rumors'[m][o] = rumors[m][o]
    <3>1. CASE ~IsPresent(n, r)
      BY <3>1 DEF UpdateStatusAndRumorArray, nodeVars
    <3>2. CASE IsPresent(n, r)
      <4>1. rumors' = [rumors EXCEPT ![n][r.origin] = Append(@, r)]
        BY <3>2 DEF UpdateStatusAndRumorArray
      <4>2. r.origin \in Nodes /\ rumors \in [Nodes -> [Nodes -> Seq(Rumor)]]
        BY <3>2 DEF IsPresent, TypeOK
      <4> QED
        BY <1>2, <3>2, <4>1, <4>2
    <3> QED
      BY <3>1, <3>2
  <2> QED
    BY <2>1
<1> QED
  BY <1>1, <1>2

\* SendRumor and CoinMonger with the timers of before the step, or with the
\* oldest timer gone: every rumor that is in a timer afterwards was held before
\* by that node, or is the one sent.
LEMMA SentOnlyHolds ==
    ASSUME TypeOK, NEW n \in Nodes, NEW s \in Rumor, NEW tm,
           SentOnly(n, s, tm),
           \/ tm = timers
           \/ \E a \in Nodes, b \in Nodes : tm = WithoutOldestTimer(a, b),
           NEW m \in Nodes, NEW r, Sends(m, r)'
    PROVE  Spread(m, r) \/ (m = n /\ r = s)
<1>1. CASE \E pkt \in rumorNet' : pkt.from = m /\ pkt.rumor = r
  BY <1>1 DEF SentOnly, Spread, Sends
<1>2. CASE \E p \in Nodes : \E i \in 1 .. Len(timers'[m][p]) :
             r = timers'[m][p][i]
  <2>1. PICK p \in Nodes : \E i \in 1 .. Len(timers'[m][p]) :
               r = timers'[m][p][i]
    BY <1>2
  <2>2. PICK i \in 1 .. Len(timers'[m][p]) : r = timers'[m][p][i]
    BY <2>1
  <2>3. \/ i \in 1 .. Len(tm[m][p]) /\ timers'[m][p][i] = tm[m][p][i]
        \/ m = n /\ timers'[m][p][i] = s
    BY DEF SentOnly
  <2>4. CASE i \in 1 .. Len(tm[m][p]) /\ timers'[m][p][i] = tm[m][p][i]
    <3>1. CASE tm = timers
      BY <2>2, <2>4, <3>1 DEF Spread, Sends
    <3>2. CASE \E a \in Nodes, b \in Nodes : tm = WithoutOldestTimer(a, b)
      <4>1. PICK a \in Nodes, b \in Nodes : tm = WithoutOldestTimer(a, b)
        BY <3>2
      <4>2. \E j \in 1 .. Len(timers[m][p]) : timers[m][p][j] = tm[m][p][i]
        <5>1. timers \in [Nodes -> [Nodes -> Seq(Rumor)]]
          BY DEF TypeOK
        <5>2. i \in 1 .. Len(WithoutOldestTimer(a, b)[m][p])
          BY <2>4, <4>1
        <5>3. \A k, q \in Nodes :
                 \A x \in 1 .. Len(WithoutOldestTimer(a, b)[k][q]) :
                    \E j \in 1 .. Len(timers[k][q]) :
                       timers[k][q][j] = WithoutOldestTimer(a, b)[k][q][x]
          BY <5>1, WithoutOldestTimerHolds
        <5> QED
          BY <4>1, <5>2, <5>3
      <4> QED
        BY <2>2, <2>4, <4>2 DEF Spread, Sends
    <3> QED
      BY <3>1, <3>2
  <2> QED
    BY <2>2, <2>3, <2>4
<1> QED
  BY <1>1, <1>2 DEF Sends

\* A step that changes only what Spread does not read, or shrinks the network.
LEMMA SpreadUnchanged ==
    ASSUME NEW n \in Nodes, NEW r, Spread(n, r)',
           UNCHANGED <<lastRumor, rumors, timers>>,
           rumorNet' \subseteq rumorNet
    PROVE  Spread(n, r)
BY DEF Spread, Stores, Sends

LEMMA HoldsUnchanged ==
    ASSUME NEW n \in Nodes, NEW r, Holds(n, r)',
           UNCHANGED <<lastRumor, uiRumor, tickerRumor, rumors, timers>>,
           rumorNet' \subseteq rumorNet
    PROVE  Holds(n, r)
BY SpreadUnchanged DEF Holds

\* A rumor spreads by being stored by the thread that allocated it, or by being
\* received: nobody makes rumors up.
LEMMA SpreadStep ==
    ASSUME TypeOK, [Next]_vars, NEW m \in Nodes, NEW r, Spread(m, r)'
    PROVE  Spread(m, r) \/ Published(m, r) \/ Received(m, r)
<1>1. ASSUME NEW n \in Nodes, NEW text \in Texts, AllocateClientMessage(n, text)
      PROVE  Spread(m, r)
  BY <1>1, SpreadUnchanged DEF AllocateClientMessage, nodeVars
<1>2. ASSUME NEW n \in Nodes, AllocateRouteMessage(n)
      PROVE  Spread(m, r)
  BY <1>2, SpreadUnchanged DEF AllocateRouteMessage, nodeVars
<1>3. ASSUME NEW n \in Nodes, PublishClientMessage(n)
      PROVE  Spread(m, r) \/ Published(m, r)
  <2>1. uiRumor[n] \in Rumor /\ Published(n, uiRumor[n])
    BY <1>3 DEF PublishClientMessage, Published, TypeOK
  <2>2. SentOnly(n, uiRumor[n], timers)
    <3>1. CoinMonger(n, peers[n], uiRumor[n], rumorNet, timers)
      BY <1>3 DEF PublishClientMessage, CoinMonger
    <3> QED
      BY <2>1, <3>1, CoinMongerHolds DEF TypeOK
  <2>3. CASE Stores(m, r)'
    BY <2>1, <2>3, StoreHolds DEF Published, Spread, Stores
  <2>4. CASE Sends(m, r)'
    BY <2>1, <2>2, <2>4, SentOnlyHolds
  <2>5. CASE r \in {NilRumor, lastRumor'[m]}
    BY <1>3, <2>1, <2>5 DEF PublishClientMessage, Spread, TypeOK
  <2> QED
    BY <2>3, <2>4, <2>5 DEF Spread
<1>4. ASSUME NEW n \in Nodes, PublishRouteMessage(n)
      PROVE  Spread(m, r) \/ Published(m, r)
  <2>1. tickerRumor[n] \in Rumor /\ Published(n, tickerRumor[n])
    BY <1>4 DEF PublishRouteMessage, Published, TypeOK
  <2>2. SentOnly(n, tickerRumor[n], timers)
    <3>1. CoinMonger(n, peers[n], tickerRumor[n], rumorNet, timers)
      BY <1>4 DEF PublishRouteMessage, CoinMonger
    <3> QED
      BY <2>1, <3>1, CoinMongerHolds DEF TypeOK
  <2>3. CASE Stores(m, r)'
    BY <2>1, <2>3, StoreHolds DEF Published, Spread, Stores
  <2>4. CASE Sends(m, r)'
    BY <2>1, <2>2, <2>4, SentOnlyHolds
  <2>5. CASE r \in {NilRumor, lastRumor'[m]}
    BY <1>4, <2>5 DEF PublishRouteMessage, Spread, TypeOK
  <2> QED
    BY <2>3, <2>4, <2>5 DEF Spread
<1>5. ASSUME NEW pkt \in rumorNet, NEW again \in BOOLEAN,
             ReceiveRumor(pkt, again)
      PROVE  Spread(m, r) \/ Received(m, r)
  <2>1. /\ pkt.to \in Nodes /\ pkt.rumor \in Rumor
        /\ UpdateStatusAndRumorArray(pkt.to, pkt.rumor)
    BY <1>5 DEF ReceiveRumor, TypeOK, RumorPacket
  <2>2. SentOnly(pkt.to, pkt.rumor, timers)
    <3>1. CoinMonger(pkt.to, peers'[pkt.to], pkt.rumor,
                     Take(rumorNet, pkt, again), timers)
      BY <1>5 DEF ReceiveRumor, CoinMonger
    <3>2. /\ Take(rumorNet, pkt, again) \in SUBSET RumorPacket
          /\ Take(rumorNet, pkt, again) \subseteq rumorNet
      BY DEF Take, TypeOK
    <3>3. peers'[pkt.to] \in SUBSET Nodes
      <4>1. TypeOK'
        BY <1>5, ReceiveRumorType
      <4> QED
        BY <2>1, <4>1 DEF TypeOK
    <3> QED
      BY <2>1, <3>1, <3>2, <3>3, CoinMongerHolds DEF TypeOK
  <2>3. CASE Stores(m, r)'
    BY <1>5, <2>1, <2>3, StoreHolds DEF Received, Spread, Stores
  <2>4. CASE Sends(m, r)'
    BY <1>5, <2>1, <2>2, <2>4, SentOnlyHolds DEF Received
  <2>5. CASE r \in {NilRumor, lastRumor'[m]}
    BY <1>5, <2>5 DEF ReceiveRumor, Received, Spread, TypeOK
  <2> QED
    BY <2>3, <2>4, <2>5 DEF Spread
<1>6. ASSUME NEW pkt \in statusNet, NEW again \in BOOLEAN,
             ReceiveStatus(pkt, again)
      PROVE  Spread(m, r)
  <2> DEFINE n == pkt.to
             p == pkt.from
             tm == WithoutOldestTimer(n, p)
  <2>1. n \in Nodes /\ p \in Nodes
    BY DEF TypeOK, StatusPacket
  <2>2. UNCHANGED <<uiRumor, tickerRumor, rumors, lastRumor>>
    BY <1>6 DEF ReceiveStatus, nodeVars
  <2>3. tm \in [Nodes -> [Nodes -> Seq(Rumor)]]
    BY <2>1, WithoutOldestTimerType DEF TypeOK
  <2>4. \E s \in Rumor : Spread(n, s) /\ SentOnly(n, s, tm)
    <3>1. CASE \E o \in Lagging(n, pkt.want) :
                 SendRumor(n, p, NextRumorFor(n, o, pkt.want), rumorNet, tm)
      <4>1. PICK o \in Lagging(n, pkt.want) :
              SendRumor(n, p, NextRumorFor(n, o, pkt.want), rumorNet, tm)
        BY <3>1
      <4>2. o \in Nodes /\ rumors[n][o] \in Seq(Rumor)
        <5>1. o \in Nodes
          BY DEF Lagging
        <5>2. rumors \in [Nodes -> [Nodes -> Seq(Rumor)]]
          BY DEF TypeOK
        <5> HIDE DEF n
        <5> QED
          BY <2>1, <5>1, <5>2
      <4>3. NextRumorFor(n, o, pkt.want) \in Rumor
        BY <4>2, GetRumorFromArrayType DEF NextRumorFor
      <4>4. Spread(n, NextRumorFor(n, o, pkt.want))
        <5> DEFINE array == rumors[n][o]
                   id == pkt.want[o]
        <5>1. CASE \E i \in DOMAIN array : array[i].id = id
          <6>1. (CHOOSE i \in DOMAIN array : array[i].id = id) \in DOMAIN array
            BY <5>1
          <6>2. DOMAIN array = 1 .. Len(array)
            BY <4>2
          <6> QED
            BY <4>2, <5>1, <6>1, <6>2
               DEF NextRumorFor, GetRumorFromArray, Spread, Stores
        <5>2. CASE ~ \E i \in DOMAIN array : array[i].id = id
          BY <5>2 DEF NextRumorFor, GetRumorFromArray, Spread
        <5> QED
          BY <5>1, <5>2
      <4>5. SentOnly(n, NextRumorFor(n, o, pkt.want), tm)
        <5> HIDE DEF n, p, tm
        <5> QED
          BY <2>1, <2>3, <4>1, <4>3, SendRumorHolds DEF TypeOK
      <4> QED
        BY <4>3, <4>4, <4>5
    <3>2. CASE CoinMonger(n, peers'[n], lastRumor[n], rumorNet, tm)
      <4>1. peers'[n] \in SUBSET Nodes
        <5>1. TypeOK'
          BY <1>6, ReceiveStatusType
        <5> QED
          BY <2>1, <5>1 DEF TypeOK
      <4>2. lastRumor[n] \in Rumor
        BY <2>1 DEF TypeOK
      <4>3. SentOnly(n, lastRumor[n], tm)
        <5> HIDE DEF n, p, tm
        <5> QED
          BY <2>1, <2>3, <3>2, <4>1, <4>2, CoinMongerHolds DEF TypeOK
      <4> QED
        BY <4>2, <4>3 DEF Spread
    <3>3. CASE timers' = tm /\ UNCHANGED rumorNet
      <4>1. SentOnly(n, NilRumor, tm)
        BY <3>3 DEF SentOnly
      <4> QED
        BY <4>1, NilRumorType DEF Spread
    <3> QED
      BY <1>6, <3>1, <3>2, <3>3 DEF ReceiveStatus
  <2>5. PICK s \in Rumor : Spread(n, s) /\ SentOnly(n, s, tm)
    BY <2>4
  <2>6. CASE Sends(m, r)'
    <3>1. Spread(m, r) \/ (m = n /\ r = s)
      <4> HIDE DEF n, p
      <4> QED
        BY <2>1, <2>5, <2>6, SentOnlyHolds
    <3> QED
      BY <2>5, <3>1
  <2>7. CASE ~Sends(m, r)'
    BY <2>2, <2>7 DEF Spread, Stores
  <2> QED
    BY <2>6, <2>7
<1>7. ASSUME NEW n \in Nodes, NEW p \in Nodes, TimerExpires(n, p)
      PROVE  Spread(m, r)
  <2> DEFINE s == Head(timers[n][p])
             tm == WithoutOldestTimer(n, p)
  <2>1. UNCHANGED <<uiRumor, tickerRumor, rumors, lastRumor>>
    BY <1>7 DEF TimerExpires, nodeVars
  <2>2. timers[n][p] \in Seq(Rumor) /\ timers[n][p] # <<>>
    BY <1>7 DEF TimerExpires, TypeOK
  <2>3. s \in Rumor /\ Spread(n, s)
    <3>1. 1 \in 1 .. Len(timers[n][p]) /\ s = timers[n][p][1]
      BY <2>2
    <3> QED
      BY <2>2, <3>1 DEF Spread, Sends
  <2>4. SentOnly(n, s, tm)
    <3>1. CoinMonger(n, peers[n], s, rumorNet, tm)
      BY <1>7 DEF TimerExpires
    <3>2. tm \in [Nodes -> [Nodes -> Seq(Rumor)]]
      BY WithoutOldestTimerType DEF TypeOK
    <3> HIDE DEF s, tm
    <3> QED
      BY <2>3, <3>1, <3>2, CoinMongerHolds DEF TypeOK
  <2>5. CASE Sends(m, r)'
    <3>1. Spread(m, r) \/ (m = n /\ r = s)
      <4> HIDE DEF s
      <4> QED
        BY <2>3, <2>4, <2>5, SentOnlyHolds
    <3> QED
      BY <2>3, <3>1
  <2>6. CASE ~Sends(m, r)'
    BY <2>1, <2>6 DEF Spread, Stores
  <2> QED
    BY <2>5, <2>6
<1>8. ASSUME NEW n \in Nodes, NEW p \in Nodes, AntiEntropy(n, p)
      PROVE  Spread(m, r)
  BY <1>8, SpreadUnchanged DEF AntiEntropy, nodeVars
<1>9. CASE LoseRumor
  BY <1>9, SpreadUnchanged DEF LoseRumor, nodeVars
<1>10. CASE LoseStatus
  BY <1>10, SpreadUnchanged DEF LoseStatus, nodeVars
<1>11. CASE UNCHANGED vars
  BY <1>11, SpreadUnchanged DEF vars
<1> QED
  BY <1>1, <1>2, <1>3, <1>4, <1>5, <1>6, <1>7, <1>8, <1>9, <1>10, <1>11
     DEF Next

\* What a thread has allocated is new, or has been in its register before.
LEMMA RegisterStep ==
    ASSUME TypeOK, [Next]_vars, NEW m \in Nodes, NEW r,
           r \in {uiRumor'[m], tickerRumor'[m]}
    PROVE  r \in {NilRumor, uiRumor[m], tickerRumor[m]} \/ Allocated(m, r)
<1>1. ASSUME NEW n \in Nodes, NEW text \in Texts, AllocateClientMessage(n, text)
      PROVE  r \in {uiRumor[m], tickerRumor[m]} \/ Allocated(m, r)
  <2>1. uiRumor'[m] = IF m = n THEN NewRumor(n, text) ELSE uiRumor[m]
    BY <1>1 DEF AllocateClientMessage, TypeOK
  <2>2. tickerRumor'[m] = tickerRumor[m]
    BY <1>1 DEF AllocateClientMessage
  <2>3. Allocated(n, NewRumor(n, text))
    BY <1>1 DEF AllocateClientMessage, NewRumor, Allocated
  <2> QED
    BY <2>1, <2>2, <2>3
<1>2. ASSUME NEW n \in Nodes, AllocateRouteMessage(n)
      PROVE  r \in {uiRumor[m], tickerRumor[m]} \/ Allocated(m, r)
  <2>1. tickerRumor'[m] = IF m = n THEN NewRumor(n, Empty) ELSE tickerRumor[m]
    BY <1>2 DEF AllocateRouteMessage, TypeOK
  <2>2. uiRumor'[m] = uiRumor[m]
    BY <1>2 DEF AllocateRouteMessage
  <2>3. Allocated(n, NewRumor(n, Empty))
    BY <1>2 DEF AllocateRouteMessage, NewRumor, Allocated
  <2> QED
    BY <2>1, <2>2, <2>3
<1>3. ASSUME NEW n \in Nodes, PublishClientMessage(n) \/ PublishRouteMessage(n)
      PROVE  r \in {NilRumor, uiRumor[m], tickerRumor[m]}
  BY <1>3 DEF PublishClientMessage, PublishRouteMessage, TypeOK
<1>4. CASE UNCHANGED <<uiRumor, tickerRumor>>
  BY <1>4
<1> QED
  BY <1>1, <1>2, <1>3, <1>4
     DEF Next, vars, ReceiveRumor, ReceiveStatus, TimerExpires, AntiEntropy,
         LoseRumor, LoseStatus

\* A node comes to a rumor by allocating it or by receiving it, and else has
\* held it before.
LEMMA HoldsStep ==
    ASSUME TypeOK, [Next]_vars, NEW m \in Nodes, NEW r, Holds(m, r)'
    PROVE  Holds(m, r) \/ Allocated(m, r) \/ Received(m, r)
<1>1. CASE Spread(m, r)'
  BY <1>1, SpreadStep DEF Holds, Published
<1>2. CASE r \in {uiRumor'[m], tickerRumor'[m]}
  BY <1>2, RegisterStep DEF Holds, Spread
<1> QED
  BY <1>1, <1>2 DEF Holds

-----------------------------------------------------------------------------
(* The store: every rumor below NextID, once and in order. *)

\* Only updateStatusAndRumorArray touches want, rumors and chat.
LEMMA StoreStep ==
    ASSUME TypeOK, [Next]_vars
    PROVE  \/ UNCHANGED nodeVars
           \/ \E n \in Nodes, r \in Rumor : UpdateStatusAndRumorArray(n, r)
<1>1. ASSUME NEW pkt \in rumorNet, NEW again \in BOOLEAN,
             ReceiveRumor(pkt, again)
      PROVE  \E n \in Nodes, r \in Rumor : UpdateStatusAndRumorArray(n, r)
  BY <1>1 DEF ReceiveRumor, TypeOK, RumorPacket
<1>2. ASSUME NEW n \in Nodes, PublishClientMessage(n)
      PROVE  \E r \in Rumor : UpdateStatusAndRumorArray(n, r)
  BY <1>2 DEF PublishClientMessage, TypeOK
<1>3. ASSUME NEW n \in Nodes, PublishRouteMessage(n)
      PROVE  \E r \in Rumor : UpdateStatusAndRumorArray(n, r)
  BY <1>3 DEF PublishRouteMessage, TypeOK
<1>4. CASE UNCHANGED vars
  BY <1>4 DEF vars, nodeVars
<1> QED
  BY <1>1, <1>2, <1>3, <1>4
     DEF Next, AllocateClientMessage, AllocateRouteMessage, ReceiveStatus,
         TimerExpires, AntiEntropy, LoseRumor, LoseStatus

\* Storing a rumor keeps every store dense.
LEMMA StoreIsDenseStep ==
    ASSUME TypeOK, StoreIsDense, [Next]_vars
    PROVE  StoreIsDense'
<1>1. CASE UNCHANGED nodeVars
  BY <1>1 DEF nodeVars, StoreIsDense
<1>2. ASSUME NEW n \in Nodes, NEW r \in Rumor, UpdateStatusAndRumorArray(n, r)
      PROVE  StoreIsDense'
  <2>1. CASE ~IsPresent(n, r)
    BY <1>2, <2>1 DEF UpdateStatusAndRumorArray, nodeVars, StoreIsDense
  <2>2. CASE IsPresent(n, r)
    <3> SUFFICES ASSUME NEW m \in Nodes, NEW o \in Nodes
                 PROVE  /\ Len(rumors'[m][o]) + 1 = want'[m][o]
                        /\ \A i \in 1 .. Len(rumors'[m][o]) :
                              /\ rumors'[m][o][i].origin = o
                              /\ rumors'[m][o][i].id = i
      BY DEF StoreIsDense
    <3>1. /\ rumors[m][o] \in Seq(Rumor)
          /\ Len(rumors[m][o]) + 1 = want[m][o]
          /\ \A i \in 1 .. Len(rumors[m][o]) :
                rumors[m][o][i].origin = o /\ rumors[m][o][i].id = i
      BY DEF TypeOK, StoreIsDense
    <3>2. /\ want' = [want EXCEPT ![n][r.origin] = @ + 1]
          /\ rumors' = [rumors EXCEPT ![n][r.origin] = Append(@, r)]
          /\ r.origin \in Nodes /\ r.id = want[n][r.origin]
      BY <1>2, <2>2 DEF UpdateStatusAndRumorArray, IsPresent
    <3>3. /\ want \in [Nodes -> [Nodes -> Nat \ {0}]]
          /\ rumors \in [Nodes -> [Nodes -> Seq(Rumor)]]
      BY DEF TypeOK, Status
    <3>4. CASE m = n /\ o = r.origin
      <4>1. rumors'[m][o] = Append(rumors[m][o], r)
        BY <3>2, <3>3, <3>4
      <4>2. want'[m][o] = want[m][o] + 1
        BY <3>2, <3>3, <3>4
      <4> QED
        BY <3>1, <3>2, <3>4, <4>1, <4>2
    <3>5. CASE ~(m = n /\ o = r.origin)
      <4>1. rumors'[m][o] = rumors[m][o] /\ want'[m][o] = want[m][o]
        BY <3>2, <3>3, <3>5
      <4> QED
        BY <3>1, <4>1
    <3> QED
      BY <3>4, <3>5
  <2> QED
    BY <2>1, <2>2
<1> QED
  BY <1>1, <1>2, StoreStep

\* A node holds exactly the rumors below the NextID it announces, each once and
\* in ID order, in every reachable state of every network.
THEOREM StoreAlwaysDense == Spec => []StoreIsDense
<1>1. Init => StoreIsDense
  BY DEF Init, StoreIsDense, FirstID
<1>2. TypeOK /\ StoreIsDense /\ [Next]_vars => StoreIsDense'
  BY StoreIsDenseStep
<1> QED
  BY <1>1, <1>2, TypeCorrect, PTL DEF Spec

-----------------------------------------------------------------------------
(* Genuine rumors. *)

\* Every rumor in anybody's hands is one its origin has issued.
HeldIsGenuine == \A n \in Nodes : \A r \in Rumor : Holds(n, r) => Genuine(r)

\* Allocating an ID appends to what a node has issued; nothing else changes it.
LEMMA IssuedStep ==
    ASSUME [Next]_vars
    PROVE  \/ issued' = issued
           \/ \E n \in Nodes, text \in Texts \cup {Empty} :
                 issued' = [issued EXCEPT ![n] = Append(@, text)]
BY DEF Next, vars, AllocateClientMessage, PublishClientMessage,
       AllocateRouteMessage, PublishRouteMessage, ReceiveRumor, ReceiveStatus,
       TimerExpires, AntiEntropy, LoseRumor, LoseStatus

\* What was genuine once remains so.
LEMMA GenuineStable ==
    ASSUME TypeOK, [Next]_vars, NEW r \in Rumor, Genuine(r)
    PROVE  Genuine(r)'
<1>1. CASE issued' = issued
  BY <1>1 DEF Genuine
<1>2. ASSUME NEW n \in Nodes, NEW text \in Texts \cup {Empty},
             issued' = [issued EXCEPT ![n] = Append(@, text)]
      PROVE  Genuine(r)'
  <2>1. CASE r = NilRumor
    BY <2>1 DEF Genuine
  <2>2. CASE r # NilRumor /\ r.origin # n
    BY <1>2, <2>2 DEF Genuine, TypeOK
  <2>3. CASE r # NilRumor /\ r.origin = n
    <3>1. issued'[n] = Append(issued[n], text)
      BY <1>2 DEF TypeOK
    <3>2. issued[n] \in Seq(Texts \cup {Empty})
      BY DEF TypeOK
    <3>3. r.id \in 1 .. Len(issued[n]) /\ r.text = issued[n][r.id]
      BY <2>3 DEF Genuine
    <3>4. r.id \in 1 .. Len(issued'[n]) /\ issued'[n][r.id] = issued[n][r.id]
      BY <3>1, <3>2, <3>3
    <3> QED
      BY <2>3, <3>3, <3>4 DEF Genuine
  <2> QED
    BY <2>1, <2>2, <2>3
<1> QED
  BY <1>1, <1>2, IssuedStep

\* A rumor that has just got its ID is genuine.
LEMMA AllocatedIsGenuine ==
    ASSUME TypeOK, NEW n \in Nodes, NEW r \in Rumor, Allocated(n, r)
    PROVE  Genuine(r)'
<1>1. issued[n] \in Seq(Texts \cup {Empty}) /\ r.text \in Texts \cup {Empty}
  BY DEF TypeOK, Rumor
<1>2. issued'[n] = Append(issued[n], r.text)
  BY DEF Allocated, TypeOK
<1>3. /\ Len(issued'[n]) = Len(issued[n]) + 1
      /\ issued'[n][Len(issued[n]) + 1] = r.text
  BY <1>1, <1>2
<1>4. r.origin = n /\ r.id = Len(issued[n]) + 1
  BY DEF Allocated
<1> QED
  BY <1>1, <1>3, <1>4 DEF Genuine

\* Rumors change hands, are stored and sent on without being altered.
LEMMA HeldIsGenuineStep ==
    ASSUME TypeOK, HeldIsGenuine, [Next]_vars
    PROVE  HeldIsGenuine'
<1> SUFFICES ASSUME NEW n \in Nodes, NEW r \in Rumor, Holds(n, r)'
             PROVE  Genuine(r)'
  BY DEF HeldIsGenuine
<1>1. Holds(n, r) \/ Allocated(n, r) \/ Received(n, r)
  BY HoldsStep
<1>2. CASE Holds(n, r)
  BY <1>2, GenuineStable DEF HeldIsGenuine
<1>3. CASE Allocated(n, r)
  BY <1>3, AllocatedIsGenuine
<1>4. CASE Received(n, r)
  <2>1. PICK pkt \in rumorNet : pkt.rumor = r
    BY <1>4 DEF Received
  <2>2. pkt.from \in Nodes
    BY DEF TypeOK, RumorPacket
  <2>3. Holds(pkt.from, r)
    BY <2>1 DEF Holds, Spread, Sends
  <2> QED
    BY <2>2, <2>3, GenuineStable DEF HeldIsGenuine
<1> QED
  BY <1>1, <1>2, <1>3, <1>4

\* Initially everybody holds the zero rumor only.
LEMMA InitHolds ==
    ASSUME Init, NEW n \in Nodes, NEW r, Holds(n, r)
    PROVE  r = NilRumor
BY DEF Init, Holds, Spread, Stores, Sends

\* Every rumor held by anybody is genuine, in every reachable state.
THEOREM HeldAlwaysGenuine == Spec => []HeldIsGenuine
<1>1. Init => HeldIsGenuine
  BY InitHolds DEF HeldIsGenuine, Genuine
<1>2. TypeOK /\ HeldIsGenuine /\ [Next]_vars => HeldIsGenuine'
  BY HeldIsGenuineStep
<1> QED
  BY <1>1, <1>2, TypeCorrect, PTL DEF Spec

\* Every stored rumor is one its origin has issued, with its own text.
LEMMA GenuineStoreFromHeld == TypeOK /\ StoreIsDense /\ HeldIsGenuine => GenuineStore
<1> SUFFICES ASSUME TypeOK, StoreIsDense, HeldIsGenuine,
                    NEW n \in Nodes, NEW o \in Nodes,
                    NEW i \in 1 .. Len(rumors[n][o])
             PROVE  rumors[n][o][i] # NilRumor /\ Genuine(rumors[n][o][i])
  BY DEF GenuineStore
<1>1. rumors[n][o] \in Seq(Rumor)
  BY DEF TypeOK
<1>2. rumors[n][o][i] \in Rumor /\ Holds(n, rumors[n][o][i])
  BY <1>1 DEF Holds, Spread, Stores
<1>3. rumors[n][o][i].id = i
  BY DEF StoreIsDense
<1> QED
  BY <1>2, <1>3 DEF HeldIsGenuine, NilRumor

\* Every node stores, of every origin, only what that origin has issued.
THEOREM StoreAlwaysGenuine == Spec => []GenuineStore
BY GenuineStoreFromHeld, TypeCorrect, StoreAlwaysDense, HeldAlwaysGenuine, PTL

\* The answer to a status is the rumor the peer asked for.
LEMMA AnswersNextWantedFromStore ==
    TypeOK /\ StoreIsDense /\ GenuineStore => AnswersNextWanted
<1> SUFFICES ASSUME TypeOK, StoreIsDense, GenuineStore,
                    NEW s \in statusNet, NEW o \in Lagging(s.to, s.want)
             PROVE  LET r == NextRumorFor(s.to, o, s.want)
                    IN  r.origin = o /\ r.id = s.want[o] /\ Genuine(r)
  BY DEF AnswersNextWanted
<1> DEFINE array == rumors[s.to][o]
           id == s.want[o]
<1>1. s.to \in Nodes /\ s.want \in [Nodes -> Nat \ {0}]
  BY DEF TypeOK, StatusPacket, Status
<1>2. o \in Nodes /\ id < want[s.to][o]
  BY DEF Lagging
<1>3. array \in Seq(Rumor) /\ Len(array) + 1 = want[s.to][o]
  <2>1. rumors \in [Nodes -> [Nodes -> Seq(Rumor)]]
    BY DEF TypeOK
  <2> QED
    BY <1>1, <1>2, <2>1 DEF StoreIsDense
<1>4. id \in 1 .. Len(array)
  BY <1>1, <1>2, <1>3
<1>5. \A i \in 1 .. Len(array) :
         array[i].origin = o /\ array[i].id = i /\ Genuine(array[i])
  BY <1>1, <1>2 DEF StoreIsDense, GenuineStore
<1>6. DOMAIN array = 1 .. Len(array)
  BY <1>3
<1> HIDE DEF array, id
<1>7. (CHOOSE i \in DOMAIN array : array[i].id = id) = id
  BY <1>4, <1>5, <1>6
<1>8. GetRumorFromArray(array, id) = array[id]
  BY <1>4, <1>5, <1>6, <1>7 DEF GetRumorFromArray
<1> QED
  BY <1>4, <1>5, <1>8 DEF NextRumorFor, array, id

\* Whatever status is in flight, and however stale, its answer is the genuine
\* next rumor that the other peer waits for.
THEOREM AlwaysAnswersNextWanted == Spec => []AnswersNextWanted
BY AnswersNextWantedFromStore, TypeCorrect, StoreAlwaysDense,
   StoreAlwaysGenuine, PTL

-----------------------------------------------------------------------------
(* Routes. *)

\* A route changes only when a rumor of its origin is received from the new
\* next hop, and not one that was stored before.
LEMMA RoutesStep ==
    ASSUME TypeOK, [Next]_vars, NEW n \in Nodes, NEW o \in Nodes
    PROVE  \/ routes'[n][o] = routes[n][o]
           \/ \E pkt \in rumorNet, again \in BOOLEAN :
                 /\ ReceiveRumor(pkt, again)
                 /\ pkt.to = n /\ pkt.from = routes'[n][o]
                 /\ pkt.rumor.origin = o /\ o # n /\ ~IsPast(n, pkt.rumor)
<1>1. ASSUME NEW pkt \in rumorNet, NEW again \in BOOLEAN,
             ReceiveRumor(pkt, again), routes'[n][o] # routes[n][o]
      PROVE  /\ pkt.to = n /\ pkt.from = routes'[n][o]
             /\ pkt.rumor.origin = o /\ o # n /\ ~IsPast(n, pkt.rumor)
  <2>1. UpdateRoutingTable(pkt.to, pkt.rumor, pkt.from)
    BY <1>1 DEF ReceiveRumor
  <2>2. /\ ~IsPast(pkt.to, pkt.rumor) /\ pkt.rumor.origin # pkt.to
        /\ routes' = [routes EXCEPT ![pkt.to][pkt.rumor.origin] = pkt.from]
    BY <1>1, <2>1 DEF UpdateRoutingTable
  <2>3. /\ routes \in [Nodes -> [Nodes \cup {Empty} -> Nodes \cup {Empty}]]
        /\ pkt.to \in Nodes /\ pkt.rumor.origin \in Nodes \cup {Empty}
    BY DEF TypeOK, RumorPacket, Rumor
  <2>4. pkt.to = n /\ pkt.rumor.origin = o
    BY <1>1, <2>2, <2>3
  <2> QED
    BY <2>2, <2>3, <2>4
<1>2. CASE UNCHANGED vars
  BY <1>2 DEF vars
<1> QED
  BY <1>1, <1>2
     DEF Next, AllocateClientMessage, PublishClientMessage,
         AllocateRouteMessage, PublishRouteMessage, ReceiveStatus,
         TimerExpires, AntiEntropy, LoseRumor, LoseStatus

\* n has a route towards the origin of r, or is that origin.
Learned(n, r) ==
    r.origin \in Nodes => r.origin = n \/ routes[n][r.origin] # Empty

\* A node that has a rumor in its hands has a route towards its origin.
HeldIsLearned == \A n \in Nodes : \A r \in Rumor : Holds(n, r) => Learned(n, r)

\* A node never loses its last route towards an origin.
LEMMA RoutesStay ==
    ASSUME TypeOK, [Next]_vars, NEW n \in Nodes, NEW o \in Nodes,
           routes[n][o] # Empty
    PROVE  routes'[n][o] # Empty
<1>1. \A pkt \in rumorNet : pkt.from # Empty
  BY NodesAssumption DEF TypeOK, RumorPacket
<1> QED
  BY <1>1, RoutesStep

\* The receipt of a rumor leaves a route towards its origin: it is set by this
\* very step, or the rumor is old and the node learned it earlier.
LEMMA ReceivedIsLearned ==
    ASSUME TypeOK, StoreIsDense, HeldIsGenuine, HeldIsLearned, [Next]_vars,
           NEW n \in Nodes, NEW r \in Rumor, Received(n, r)
    PROVE  Learned(n, r)'
<1> SUFFICES ASSUME r.origin \in Nodes, r.origin # n
             PROVE  routes'[n][r.origin] # Empty
  BY DEF Learned
<1>1. PICK pkt \in rumorNet, again \in BOOLEAN :
             pkt.to = n /\ pkt.rumor = r /\ ReceiveRumor(pkt, again)
  BY DEF Received
<1>2. pkt.from \in Nodes
  BY DEF TypeOK, RumorPacket
<1>3. CASE ~IsPast(n, r)
  <2>1. routes' = [routes EXCEPT ![n][r.origin] = pkt.from]
    BY <1>1, <1>3 DEF ReceiveRumor, UpdateRoutingTable
  <2>2. routes'[n][r.origin] = pkt.from
    BY <2>1 DEF TypeOK
  <2> QED
    BY <1>2, <2>2, NodesAssumption
<1>4. CASE IsPast(n, r)
  <2>1. Holds(pkt.from, r)
    BY <1>1 DEF Holds, Spread, Sends
  <2>2. r.id \in Nat /\ r.id # 0
    <3>1. Genuine(r)
      BY <1>2, <2>1 DEF HeldIsGenuine
    <3>2. r # NilRumor
      BY NodesAssumption DEF NilRumor
    <3> QED
      BY <3>1, <3>2 DEF Genuine, Rumor
  <2>3. /\ rumors[n][r.origin] \in Seq(Rumor)
        /\ Len(rumors[n][r.origin]) + 1 = want[n][r.origin]
        /\ r.id < want[n][r.origin]
    BY <1>4 DEF TypeOK, StoreIsDense, IsPast
  <2>4. 1 \in 1 .. Len(rumors[n][r.origin])
    BY <2>2, <2>3
  <2> DEFINE first == rumors[n][r.origin][1]
  <2>5. first \in Rumor /\ Holds(n, first) /\ first.origin = r.origin
    BY <2>3, <2>4 DEF Holds, Spread, Stores, StoreIsDense
  <2>6. routes[n][r.origin] # Empty
    BY <2>5 DEF HeldIsLearned, Learned
  <2> QED
    BY <2>6, RoutesStay
<1> QED
  BY <1>3, <1>4

\* Holding a rumor keeps on meaning knowing a way to its origin.
LEMMA HeldIsLearnedStep ==
    ASSUME TypeOK, StoreIsDense, HeldIsGenuine, HeldIsLearned, [Next]_vars
    PROVE  HeldIsLearned'
<1> SUFFICES ASSUME NEW n \in Nodes, NEW r \in Rumor, Holds(n, r)'
             PROVE  Learned(n, r)'
  BY DEF HeldIsLearned
<1>1. Holds(n, r) \/ Allocated(n, r) \/ Received(n, r)
  BY HoldsStep
<1>2. CASE Holds(n, r)
  <2>1. Learned(n, r)
    BY <1>2 DEF HeldIsLearned
  <2> QED
    BY <2>1, RoutesStay DEF Learned
<1>3. CASE Allocated(n, r)
  BY <1>3 DEF Allocated, Learned
<1>4. CASE Received(n, r)
  BY <1>4, ReceivedIsLearned
<1> QED
  BY <1>1, <1>2, <1>3, <1>4

\* A next hop knows a way on, because it held a rumor of that origin when it
\* sent it and a route is never lost.
LEMMA NextHopKnowsRouteStep ==
    ASSUME TypeOK, HeldIsLearned, NextHopKnowsRoute, [Next]_vars
    PROVE  NextHopKnowsRoute'
<1> SUFFICES ASSUME NEW n \in Nodes, NEW o \in Nodes,
                    routes'[n][o] # Empty, routes'[n][o] # o
             PROVE  routes'[routes'[n][o]][o] # Empty
  BY DEF NextHopKnowsRoute
<1> DEFINE p == routes'[n][o]
<1>1. CASE routes'[n][o] = routes[n][o]
  <2>1. p \in Nodes /\ routes[p][o] # Empty
    BY <1>1 DEF NextHopKnowsRoute, TypeOK
  <2> QED
    BY <2>1, RoutesStay
<1>2. CASE routes'[n][o] # routes[n][o]
  <2>1. PICK pkt \in rumorNet : pkt.from = p /\ pkt.rumor.origin = o
    BY <1>2, RoutesStep
  <2>2. p \in Nodes /\ pkt.rumor \in Rumor
    BY <2>1 DEF TypeOK, RumorPacket
  <2>3. Holds(p, pkt.rumor)
    BY <2>1 DEF Holds, Spread, Sends
  <2>4. routes[p][o] # Empty
    BY <2>1, <2>2, <2>3 DEF HeldIsLearned, Learned
  <2> QED
    BY <2>2, <2>4, RoutesStay
<1> QED
  BY <1>1, <1>2

\* No next hop is a dead end: it is the origin or has a route towards it.
THEOREM NextHopAlwaysKnowsRoute == Spec => []NextHopKnowsRoute
<1>1. Init => HeldIsLearned /\ NextHopKnowsRoute
  <2>1. Init => HeldIsLearned
    BY InitHolds, NodesAssumption DEF HeldIsLearned, Learned, NilRumor
  <2>2. Init => NextHopKnowsRoute
    BY DEF Init, NextHopKnowsRoute
  <2> QED
    BY <2>1, <2>2
<1>2. /\ TypeOK /\ StoreIsDense /\ HeldIsGenuine
      /\ HeldIsLearned /\ NextHopKnowsRoute /\ [Next]_vars
      => HeldIsLearned' /\ NextHopKnowsRoute'
  BY HeldIsLearnedStep, NextHopKnowsRouteStep
<1> QED
  BY <1>1, <1>2, TypeCorrect, StoreAlwaysDense, HeldAlwaysGenuine, PTL DEF Spec

-----------------------------------------------------------------------------
(* The stores implement the logs of GossipLog. *)

\* Of a step there are three kinds, as far as logs go: an ID is allocated, a
\* genuine rumor is handed to updateStatusAndRumorArray, or nothing changes.
LEMMA LogStepKinds ==
    ASSUME TypeOK, HeldIsGenuine, [Next]_vars
    PROVE  \/ UNCHANGED <<issued, rumors, chat>>
           \/ /\ UNCHANGED <<rumors, chat>>
              /\ \E n \in Nodes, text \in Texts \cup {Empty} :
                    issued' = [issued EXCEPT ![n] = Append(@, text)]
           \/ /\ UNCHANGED issued
              /\ \E n \in Nodes, r \in Rumor :
                    Genuine(r) /\ UpdateStatusAndRumorArray(n, r)
<1>1. ASSUME NEW n \in Nodes, NEW r \in Rumor, Holds(n, r)
      PROVE  Genuine(r)
  BY <1>1 DEF HeldIsGenuine
<1>2. ASSUME NEW pkt \in rumorNet, NEW again \in BOOLEAN,
             ReceiveRumor(pkt, again)
      PROVE  /\ UNCHANGED issued
             /\ \E n \in Nodes, r \in Rumor :
                   Genuine(r) /\ UpdateStatusAndRumorArray(n, r)
  <2>1. pkt.to \in Nodes /\ pkt.from \in Nodes /\ pkt.rumor \in Rumor
    BY DEF TypeOK, RumorPacket
  <2>2. Holds(pkt.from, pkt.rumor)
    BY DEF Holds, Spread, Sends
  <2> QED
    BY <1>1, <1>2, <2>1, <2>2 DEF ReceiveRumor
<1>3. ASSUME NEW n \in Nodes, PublishClientMessage(n)
      PROVE  /\ UNCHANGED issued
             /\ \E r \in Rumor : Genuine(r) /\ UpdateStatusAndRumorArray(n, r)
  <2>1. uiRumor[n] \in Rumor /\ Holds(n, uiRumor[n])
    BY DEF TypeOK, Holds, Spread
  <2> QED
    BY <1>1, <1>3, <2>1 DEF PublishClientMessage
<1>4. ASSUME NEW n \in Nodes, PublishRouteMessage(n)
      PROVE  /\ UNCHANGED issued
             /\ \E r \in Rumor : Genuine(r) /\ UpdateStatusAndRumorArray(n, r)
  <2>1. tickerRumor[n] \in Rumor /\ Holds(n, tickerRumor[n])
    BY DEF TypeOK, Holds, Spread
  <2> QED
    BY <1>1, <1>4, <2>1 DEF PublishRouteMessage
<1>5. CASE UNCHANGED vars
  BY <1>5 DEF vars
<1>6. ASSUME NEW n \in Nodes, NEW text \in Texts, AllocateClientMessage(n, text)
      PROVE  /\ UNCHANGED <<rumors, chat>>
             /\ issued' = [issued EXCEPT ![n] = Append(@, text)]
  BY <1>6 DEF AllocateClientMessage, nodeVars
<1>7. ASSUME NEW n \in Nodes, AllocateRouteMessage(n)
      PROVE  /\ UNCHANGED <<rumors, chat>>
             /\ issued' = [issued EXCEPT ![n] = Append(@, Empty)]
  BY <1>7 DEF AllocateRouteMessage, nodeVars
<1>8. ASSUME \/ \E pkt \in statusNet, again \in BOOLEAN : ReceiveStatus(pkt, again)
             \/ \E n, p \in Nodes : TimerExpires(n, p) \/ AntiEntropy(n, p)
             \/ LoseRumor \/ LoseStatus
      PROVE  UNCHANGED <<issued, rumors, chat>>
  BY <1>8 DEF ReceiveStatus, TimerExpires, AntiEntropy, LoseRumor, LoseStatus,
              nodeVars
<1> QED
  BY <1>2, <1>3, <1>4, <1>5, <1>6, <1>7, <1>8 DEF Next

\* The copy made of a store that grows by r grows by the text of r.
LEMMA AppendText ==
    ASSUME NEW s \in Seq(Rumor), NEW r \in Rumor
    PROVE  [i \in DOMAIN Append(s, r) |-> Append(s, r)[i].text] =
           Append([i \in DOMAIN s |-> s[i].text], r.text)
<1> DEFINE T == Texts \cup {Empty}
           s2 == Append(s, r)
           t == [i \in DOMAIN s |-> s[i].text]
           u == [i \in DOMAIN s2 |-> s2[i].text]
<1>1. /\ Len(s) \in Nat /\ DOMAIN s = 1 .. Len(s)
      /\ \A i \in 1 .. Len(s) : s[i] \in Rumor
  BY LenProperties, ElementOfSeq
<1>2. /\ s2 \in Seq(Rumor) /\ DOMAIN s2 = 1 .. Len(s) + 1
      /\ \A i \in 1 .. Len(s) : s2[i] = s[i]
      /\ s2[Len(s) + 1] = r
  BY AppendProperties, LenProperties
<1> HIDE DEF s2
<1>3. t \in [1 .. Len(s) -> T] /\ r.text \in T
  BY <1>1 DEF Rumor
<1>4. t \in Seq(T) /\ Len(t) = Len(s)
  BY <1>1, <1>3
<1>5. \A i \in 1 .. Len(s) + 1 : s2[i] \in Rumor
  BY <1>2, ElementOfSeq
<1>6. u \in [1 .. Len(s) + 1 -> T]
  BY <1>2, <1>5 DEF Rumor
<1>7. Len(s) + 1 \in Nat
  BY <1>1
<1>8. u \in Seq(T) /\ Len(u) = Len(s) + 1
  BY <1>6, <1>7
<1>9. /\ Append(t, r.text) \in Seq(T)
      /\ Len(Append(t, r.text)) = Len(s) + 1
      /\ \A i \in 1 .. Len(s) : Append(t, r.text)[i] = t[i]
      /\ Append(t, r.text)[Len(s) + 1] = r.text
  BY <1>3, <1>4, AppendProperties
<1>10. ASSUME NEW i \in 1 .. Len(s) + 1
       PROVE  u[i] = Append(t, r.text)[i]
  <2>1. CASE i = Len(s) + 1
    BY <1>2, <1>9, <2>1
  <2>2. CASE i \in 1 .. Len(s)
    <3>1. u[i] = s2[i].text
      BY <1>2
    <3>2. t[i] = s[i].text
      BY <1>1, <2>2
    <3> QED
      BY <1>2, <1>9, <2>2, <3>1, <3>2
  <2> QED
    BY <1>1, <2>1, <2>2
<1> HIDE DEF t, u
<1>11. u = Append(t, r.text)
  BY <1>8, <1>9, <1>10, SeqEqual
<1> QED
  BY <1>11 DEF t, u, s2

\* The copy that a store is has as many entries as the store.
LEMMA CopyLength ==
    ASSUME NEW s \in Seq(Rumor)
    PROVE  Len([i \in DOMAIN s |-> s[i].text]) = Len(s)
<1>1. Len(s) \in Nat /\ DOMAIN s = 1 .. Len(s)
  BY LenProperties
<1>2. \A i \in 1 .. Len(s) : s[i] \in Rumor
  BY ElementOfSeq
<1>3. [i \in DOMAIN s |-> s[i].text] \in [1 .. Len(s) -> Texts \cup {Empty}]
  BY <1>1, <1>2 DEF Rumor
<1> QED
  BY <1>1, <1>3

\* What is shown after r was appended to the chat.
LEMMA AppendShown ==
    ASSUME NEW s \in Seq(Rumor), NEW r \in Rumor
    PROVE  [i \in DOMAIN Append(s, r) |->
               [origin |-> Append(s, r)[i].origin, text |-> Append(s, r)[i].text]] =
           Append([i \in DOMAIN s |-> [origin |-> s[i].origin, text |-> s[i].text]],
                  [origin |-> r.origin, text |-> r.text])
<1> DEFINE T == [origin : Nodes \cup {Empty}, text : Texts \cup {Empty}]
           s2 == Append(s, r)
           e == [origin |-> r.origin, text |-> r.text]
           t == [i \in DOMAIN s |-> [origin |-> s[i].origin, text |-> s[i].text]]
           u == [i \in DOMAIN s2 |-> [origin |-> s2[i].origin, text |-> s2[i].text]]
<1>1. /\ Len(s) \in Nat /\ DOMAIN s = 1 .. Len(s)
      /\ \A i \in 1 .. Len(s) : s[i] \in Rumor
  BY LenProperties, ElementOfSeq
<1>2. /\ s2 \in Seq(Rumor) /\ DOMAIN s2 = 1 .. Len(s) + 1
      /\ \A i \in 1 .. Len(s) : s2[i] = s[i]
      /\ s2[Len(s) + 1] = r
  BY AppendProperties, LenProperties
<1> HIDE DEF s2
<1>3. t \in [1 .. Len(s) -> T] /\ e \in T
  BY <1>1 DEF Rumor
<1> HIDE DEF T
<1>4. t \in Seq(T) /\ Len(t) = Len(s)
  BY <1>1, <1>3
<1>5. \A i \in 1 .. Len(s) + 1 : s2[i] \in Rumor
  BY <1>2, ElementOfSeq
<1>6. u \in [1 .. Len(s) + 1 -> T]
  BY <1>2, <1>5 DEF Rumor, T
<1>7. Len(s) + 1 \in Nat
  BY <1>1
<1>8. u \in Seq(T) /\ Len(u) = Len(s) + 1
  BY <1>6, <1>7
<1>9. /\ Append(t, e) \in Seq(T)
      /\ Len(Append(t, e)) = Len(s) + 1
      /\ \A i \in 1 .. Len(s) : Append(t, e)[i] = t[i]
      /\ Append(t, e)[Len(s) + 1] = e
  BY <1>3, <1>4, AppendProperties
<1>10. ASSUME NEW i \in 1 .. Len(s) + 1
       PROVE  u[i] = Append(t, e)[i]
  <2>1. CASE i = Len(s) + 1
    BY <1>2, <1>9, <2>1
  <2>2. CASE i \in 1 .. Len(s)
    <3>1. u[i] = [origin |-> s2[i].origin, text |-> s2[i].text]
      BY <1>2
    <3>2. t[i] = [origin |-> s[i].origin, text |-> s[i].text]
      BY <1>1, <2>2
    <3> QED
      BY <1>2, <1>9, <2>2, <3>1, <3>2
  <2> QED
    BY <1>1, <2>1, <2>2
<1> HIDE DEF t, u, e
<1>11. u = Append(t, e)
  BY <1>8, <1>9, <1>10, SeqEqual
<1> QED
  BY <1>11 DEF t, u, s2, e

CopyBar == [n \in Nodes |-> [o \in Nodes |-> CopyOf(n, o)]]
ShownBar == [n \in Nodes |-> ShownBy(n)]

\* Storing the next rumor of an origin is learning the next entry of its log.
LEMMA StoringLearns ==
    ASSUME TypeOK, StoreIsDense, NEW n \in Nodes, NEW r \in Rumor, Genuine(r),
           IsPresent(n, r), UpdateStatusAndRumorArray(n, r), UNCHANGED issued
    PROVE  Log!Learn(n, r.origin)
<1>0. r.origin \in Nodes
  BY DEF IsPresent
<1> SUFFICES ASSUME NEW o \in Nodes, o = r.origin
             PROVE  Log!Learn(n, o)
  BY <1>0
<1> DEFINE s == rumors[n][o]
<1>1. r.id = want[n][o]
  BY DEF IsPresent
<1>2. s \in Seq(Rumor) /\ Len(s) + 1 = want[n][o]
  <2>1. rumors[n][o] \in Seq(Rumor)
    BY DEF TypeOK
  <2>2. Len(rumors[n][o]) + 1 = want[n][o]
    BY DEF StoreIsDense
  <2> QED
    BY <2>1, <2>2
<1>3. /\ r.id \in 1 .. Len(issued[o])
      /\ r.text = issued[o][r.id]
  BY <1>1, NodesAssumption DEF Genuine, NilRumor
<1>4. CopyBar[n][o] = CopyOf(n, o) /\ Len(CopyOf(n, o)) + 1 = r.id
  BY <1>1, <1>2, CopyLength DEF CopyBar, CopyOf
<1>5. Len(CopyBar[n][o]) + 1 <= Len(issued[o])
  BY <1>3, <1>4
<1>6. issued[o][Len(CopyBar[n][o]) + 1] = r.text
  BY <1>3, <1>4
<1>7. CopyBar' = [CopyBar EXCEPT ![n][o] =
                    Append(@, issued[o][Len(CopyBar[n][o]) + 1])]
  <2>1. rumors' = [rumors EXCEPT ![n][o] = Append(@, r)]
    BY DEF UpdateStatusAndRumorArray
  <2>2. rumors'[n][o] = Append(s, r)
    BY <1>1, <2>1 DEF TypeOK
  <2>3. CopyOf(n, o)' = Append(CopyOf(n, o), r.text)
    BY <1>2, <2>2, AppendText DEF CopyOf
  <2>4. ASSUME NEW m \in Nodes, NEW q \in Nodes, ~(m = n /\ q = o)
        PROVE  CopyOf(m, q)' = CopyOf(m, q)
    <3>1. rumors'[m][q] = rumors[m][q]
      BY <1>1, <2>1, <2>4 DEF TypeOK
    <3> QED
      BY <3>1 DEF CopyOf
  <2>5. \A x : [CopyBar EXCEPT ![n][o] = x] =
               [m \in Nodes |-> [q \in Nodes |->
                   IF m = n /\ q = o THEN x ELSE CopyOf(m, q)]]
    BY DEF CopyBar
  <2> DEFINE x == Append(CopyOf(n, o), r.text)
  <2>6. CopyBar' = [m \in Nodes |-> [q \in Nodes |->
                       IF m = n /\ q = o THEN x ELSE CopyOf(m, q)]]
    BY <2>3, <2>4 DEF CopyBar
  <2>7. Append(CopyBar[n][o], issued[o][Len(CopyBar[n][o]) + 1]) = x
    BY <1>4, <1>6
  <2> HIDE DEF x
  <2>8. [CopyBar EXCEPT ![n][o] = x] =
           [m \in Nodes |-> [q \in Nodes |->
               IF m = n /\ q = o THEN x ELSE CopyOf(m, q)]]
    BY <2>5, Zenon
  <2>9. CopyBar' = [CopyBar EXCEPT ![n][o] = x]
    BY <2>6, <2>8, Zenon
  <2> QED
    BY <2>7, <2>9
<1>8. ShownBar' = IF issued[o][Len(CopyBar[n][o]) + 1] # Empty /\ n # o
                  THEN [ShownBar EXCEPT ![n] =
                           Append(@, [origin |-> o,
                                      text |-> issued[o][Len(CopyBar[n][o]) + 1]])]
                  ELSE ShownBar
  <2>1. chat \in [Nodes -> Seq(Rumor)] /\ chat[n] \in Seq(Rumor)
    BY DEF TypeOK
  <2>2. CASE r.text # Empty /\ o # n
    <3>1. chat' = [chat EXCEPT ![n] = Append(@, r)]
      BY <2>2 DEF UpdateStatusAndRumorArray
    <3>2. chat'[n] = Append(chat[n], r)
      BY <2>1, <3>1
    <3>3. ShownBy(n)' = Append(ShownBy(n), [origin |-> o, text |-> r.text])
      BY <2>1, <3>2, AppendShown DEF ShownBy
    <3>4. \A m \in Nodes \ {n} : ShownBy(m)' = ShownBy(m)
      BY <2>1, <3>1 DEF ShownBy
    <3> QED
      BY <1>6, <2>2, <3>3, <3>4 DEF ShownBar
  <2>3. CASE ~(r.text # Empty /\ o # n)
    <3>1. chat' = chat
      BY <2>3 DEF UpdateStatusAndRumorArray
    <3>2. ShownBar' = ShownBar
      BY <3>1 DEF ShownBar, ShownBy
    <3> QED
      BY <1>6, <2>3, <3>2
  <2> QED
    BY <2>2, <2>3
<1> QED
  BY <1>5, <1>7, <1>8 DEF Log!Learn, CopyBar, ShownBar

\* Every step writes a log, learns an entry or changes no log and no copy.
LEMMA LogStep ==
    ASSUME TypeOK, StoreIsDense, HeldIsGenuine, [Next]_vars
    PROVE  [Log!Next]_(Log!vars)
<1>1. CASE UNCHANGED <<issued, rumors, chat>>
  BY <1>1 DEF Log!vars, CopyOf, ShownBy
<1>2. ASSUME UNCHANGED <<rumors, chat>>,
             NEW n \in Nodes, NEW text \in Texts \cup {Empty},
             issued' = [issued EXCEPT ![n] = Append(@, text)]
      PROVE  Log!Next
  BY <1>2 DEF Log!Next, Log!Write, CopyOf, ShownBy
<1>3. ASSUME UNCHANGED issued, NEW n \in Nodes, NEW r \in Rumor, Genuine(r),
             UpdateStatusAndRumorArray(n, r)
      PROVE  [Log!Next]_(Log!vars)
  <2>1. CASE ~IsPresent(n, r)
    BY <1>1, <1>3, <2>1 DEF UpdateStatusAndRumorArray, nodeVars
  <2>2. CASE IsPresent(n, r)
    <3>1. r.origin \in Nodes
      BY <2>2 DEF IsPresent
    <3> QED
      BY <1>3, <2>2, <3>1, StoringLearns DEF Log!Next
  <2> QED
    BY <2>1, <2>2
<1> QED
  BY <1>1, <1>2, <1>3, LogStepKinds

\* Rumor mongering implements the logs: in any network a store is a copy of what
\* its origin issued, grown entry by entry, and what is shown is what is learnt.
THEOREM StoresImplementLogs == Spec => ImplementsLog
<1>1. Init => Log!Init
  <2> SUFFICES ASSUME Init
               PROVE  Log!Init
    OBVIOUS
  <2>1. \A n, o \in Nodes : CopyOf(n, o) = <<>>
    BY DEF Init, CopyOf
  <2>2. \A n \in Nodes : ShownBy(n) = <<>>
    BY DEF Init, ShownBy
  <2> QED
    BY <2>1, <2>2 DEF Init, Log!Init
<1> QED
  BY <1>1, LogStep, TypeCorrect, StoreAlwaysDense, HeldAlwaysGenuine, PTL
     DEF Spec, ImplementsLog, Log!Spec

-----------------------------------------------------------------------------
(* What the routing table guarantees to a message under way, for every network *)
(* and every hop limit. *)

\* What gossip keeps by itself; private messages only add to peers.
GossipInv ==
    /\ TypeOK
    /\ StoreIsDense
    /\ HeldIsGenuine
    /\ HeldIsLearned
    /\ NextHopKnowsRoute

\* It holds at the start.
LEMMA GossipInvInit == Init => GossipInv
<1> SUFFICES ASSUME Init
             PROVE  GossipInv
  OBVIOUS
<1>1. TypeOK
  BY NilRumorType, NeighboursAssumption DEF Init, TypeOK, FirstID, Status
<1>2. StoreIsDense /\ NextHopKnowsRoute
  BY DEF Init, StoreIsDense, FirstID, NextHopKnowsRoute
<1>3. HeldIsGenuine
  BY InitHolds DEF HeldIsGenuine, Genuine
<1>4. HeldIsLearned
  BY InitHolds, NodesAssumption DEF HeldIsLearned, Learned, NilRumor
<1> QED
  BY <1>1, <1>2, <1>3, <1>4 DEF GossipInv

\* Every step of gossip keeps it.
LEMMA GossipInvStep == GossipInv /\ [Next]_vars => GossipInv'
BY TypeOKStep, StoreIsDenseStep, HeldIsGenuineStep, HeldIsLearnedStep,
   NextHopKnowsRouteStep DEF GossipInv

\* A private message that comes in changes the list of peers and nothing else of
\* gossip.
LEMMA GossipInvPeers ==
    ASSUME GossipInv, NEW n \in Nodes, NEW p \in Nodes, AddPeer(n, p),
           UNCHANGED <<issued, uiRumor, tickerRumor, want, rumors, chat, lastRumor,
                       routes, timers, rumorNet, statusNet>>
    PROVE  GossipInv'
<1>1. TypeOK'
  BY DEF GossipInv, TypeOK, AddPeer
<1>2. StoreIsDense' /\ NextHopKnowsRoute'
  BY DEF GossipInv, StoreIsDense, NextHopKnowsRoute
<1>3. \A m \in Nodes, r \in Rumor : Holds(m, r)' => Holds(m, r)
  BY HoldsUnchanged
<1>4. HeldIsGenuine'
  BY <1>3 DEF GossipInv, HeldIsGenuine, Genuine
<1>5. HeldIsLearned'
  BY <1>3 DEF GossipInv, HeldIsLearned, Learned
<1> QED
  BY <1>1, <1>2, <1>4, <1>5 DEF GossipInv

PrivateInv == GossipInv /\ PrivateTypeOK /\ NeverStuck

\* A message on its next hop finds the destination there, or a way on.
LEMMA NextHopLeadsOn ==
    ASSUME GossipInv, NEW n \in Nodes, NEW o \in Nodes, routes[n][o] # Empty
    PROVE  /\ routes[n][o] \in Nodes
           /\ routes[n][o] = o \/ routes[routes[n][o]][o] # Empty
<1>1. routes[n][o] \in Nodes \cup {Empty}
  BY DEF GossipInv, TypeOK
<1> QED
  BY <1>1 DEF GossipInv, NextHopKnowsRoute

\* A message that is handed on comes to its destination or to a node with a route.
LEMMA ForwardedType ==
    ASSUME PrivateInv, NEW m \in private, NEW f \in Forwarded(m)
    PROVE  f \in Letter /\ (f.to = f.dest \/ routes[f.to][f.dest] # Empty)
<1>1. m \in Letter /\ GossipInv
  BY DEF PrivateInv, PrivateTypeOK
<1>2. m.to \in Nodes /\ m.dest \in Nodes /\ m.hops \in 0 .. HopLimit
  BY <1>1 DEF Letter
<1>3. /\ routes[m.to][m.dest] # Empty /\ m.hops > 0
      /\ f = [m EXCEPT !.from = m.to, !.to = routes[m.to][m.dest], !.hops = @ - 1]
  BY DEF Forwarded, MayForward
<1> DEFINE p == routes[m.to][m.dest]
<1>4. p \in Nodes /\ (p = m.dest \/ routes[p][m.dest] # Empty)
  BY <1>1, <1>2, <1>3, NextHopLeadsOn
<1>5. m.hops - 1 \in 0 .. HopLimit
  BY <1>2, <1>3, PrivateAssumption
<1> HIDE DEF p
<1>6. f = [from |-> m.to, to |-> p, origin |-> m.origin, dest |-> m.dest,
           hops |-> m.hops - 1]
  BY <1>1, <1>3 DEF Letter, p
<1>7. m.origin \in Nodes
  BY <1>1 DEF Letter
<1>8. f \in Letter
  BY <1>2, <1>4, <1>5, <1>6, <1>7, Zenon DEF Letter
<1>9. f.to = p /\ f.dest = m.dest
  BY <1>6
<1> QED
  BY <1>4, <1>8, <1>9

\* Every step of either kind keeps the types and the ways on.
LEMMA PrivateInvStep == PrivateInv /\ [PrivateNext]_<<vars, privateVars>> => PrivateInv'
<1> SUFFICES ASSUME PrivateInv, [PrivateNext]_<<vars, privateVars>>
             PROVE  PrivateInv'
  OBVIOUS
<1>1. ASSUME [Next]_vars, UNCHANGED privateVars
      PROVE  PrivateInv'
  <2>1. GossipInv'
    BY <1>1, GossipInvStep DEF PrivateInv
  <2>2. PrivateTypeOK'
    BY <1>1, <2>1 DEF PrivateInv, PrivateTypeOK, GossipInv, privateVars
  <2>3. ASSUME NEW m \in private'
        PROVE  m.to = m.dest \/ routes'[m.to][m.dest] # Empty
    <3>1. m \in private /\ m.to \in Nodes /\ m.dest \in Nodes
      BY <1>1, <2>3 DEF PrivateInv, PrivateTypeOK, Letter, privateVars
    <3> QED
      BY <1>1, <3>1, RoutesStay DEF PrivateInv, GossipInv, NeverStuck
  <2> QED
    BY <2>1, <2>2, <2>3 DEF PrivateInv, NeverStuck
<1>2. ASSUME NEW n \in Nodes, NEW dest \in Nodes, SendPrivate(n, dest)
      PROVE  PrivateInv'
  <2> DEFINE m == [from |-> n, to |-> routes[n][dest], origin |-> n, dest |-> dest,
                   hops |-> HopLimit]
  <2>1. GossipInv'
    BY <1>2, GossipInvStep DEF SendPrivate, PrivateInv
  <2>2. routes[n][dest] \in Nodes
        /\ (routes[n][dest] = dest \/ routes[routes[n][dest]][dest] # Empty)
    BY <1>2, NextHopLeadsOn DEF SendPrivate, PrivateInv
  <2>3. HopLimit \in 0 .. HopLimit
    BY PrivateAssumption
  <2>4. m \in Letter
    BY <2>2, <2>3, Zenon DEF Letter
  <2>5. m.to = m.dest \/ routes[m.to][m.dest] # Empty
    BY <2>2
  <2> HIDE DEF m
  <2>6. private' = private \cup {m} /\ UNCHANGED <<inbox, routes>>
    BY <1>2 DEF SendPrivate, vars, m
  <2>7. sent' \in 0 .. MaxPrivate
    BY <1>2, PrivateAssumption DEF SendPrivate, PrivateInv, PrivateTypeOK
  <2>8. PrivateTypeOK'
    BY <2>1, <2>4, <2>6, <2>7 DEF PrivateInv, PrivateTypeOK, GossipInv
  <2>9. NeverStuck'
    BY <2>5, <2>6 DEF PrivateInv, NeverStuck
  <2> QED
    BY <2>1, <2>8, <2>9 DEF PrivateInv
<1>3. ASSUME NEW m \in private, ReceivePrivate(m)
      PROVE  PrivateInv'
  <2>1. m \in Letter
    BY DEF PrivateInv, PrivateTypeOK
  <2>2. m.to \in Nodes /\ m.from \in Nodes /\ m.origin \in Nodes /\ m.hops \in 0 .. HopLimit
    BY <2>1 DEF Letter
  <2>3. GossipInv' /\ UNCHANGED <<routes, sent>>
    BY <1>3, <2>2, GossipInvPeers DEF ReceivePrivate, PrivateInv, nodeVars
  <2>4. private' \subseteq private \cup Forwarded(m)
    BY <1>3 DEF ReceivePrivate
  <2>5. \A f \in private' : f \in Letter /\ (f.to = f.dest \/ routes[f.to][f.dest] # Empty)
    BY <2>4, ForwardedType DEF PrivateInv, PrivateTypeOK, NeverStuck
  <2> DEFINE Item == [origin : Nodes, hops : 0 .. HopLimit]
             item == [origin |-> m.origin, hops |-> m.hops]
  <2>6. item \in Item /\ inbox \in [Nodes -> Seq(Item)]
    BY <2>2 DEF PrivateInv, PrivateTypeOK
  <2>10. inbox' = [inbox EXCEPT ![m.to] = Append(@, item)] \/ inbox' = inbox
    BY <1>3 DEF ReceivePrivate
  <2> HIDE DEF Item, item
  <2>12. Append(inbox[m.to], item) \in Seq(Item)
    BY <2>2, <2>6
  <2>11. inbox' \in [Nodes -> Seq(Item)]
    BY <2>2, <2>6, <2>10, <2>12
  <2>7. inbox' \in [Nodes -> Seq([origin : Nodes, hops : 0 .. HopLimit])]
    BY <2>11 DEF Item
  <2>8. PrivateTypeOK'
    BY <2>3, <2>5, <2>7 DEF PrivateInv, PrivateTypeOK, GossipInv
  <2>9. NeverStuck'
    BY <2>3, <2>5 DEF NeverStuck
  <2> QED
    BY <2>3, <2>8, <2>9 DEF PrivateInv
<1>4. ASSUME NEW m \in private, LosePrivate(m)
      PROVE  PrivateInv'
  <2>1. GossipInv'
    BY <1>4, GossipInvStep DEF LosePrivate, PrivateInv
  <2>2. private' \subseteq private /\ UNCHANGED <<inbox, sent, routes>>
    BY <1>4 DEF LosePrivate, vars
  <2> QED
    BY <2>1, <2>2 DEF PrivateInv, PrivateTypeOK, GossipInv, NeverStuck
<1>5. CASE UNCHANGED <<vars, privateVars>>
  BY <1>1, <1>5
<1> QED
  BY <1>1, <1>2, <1>3, <1>4, <1>5, PrivateAssumption DEF PrivateNext

\* They hold at the start.
LEMMA PrivateInvInit == PrivateInit => PrivateInv
BY GossipInvInit, PrivateAssumption
   DEF PrivateInit, PrivateInv, PrivateTypeOK, GossipInv, NeverStuck

\* In any network, and while routes change, a message under way is at its
\* destination or at a node with a way on.
THEOREM MessagesNeverStuck == PrivateSpec => []NeverStuck
<1>1. PrivateInv => NeverStuck
  BY DEF PrivateInv
<1> QED
  BY <1>1, PrivateInvInit, PrivateInvStep, PTL DEF PrivateSpec

\* Every variable keeps its type; in particular the hop limit of a message never
\* goes below zero, where the code's unsigned counter would wrap around.
THEOREM PrivateTypeCorrect == PrivateSpec => []PrivateTypeOK
<1>1. PrivateInv => PrivateTypeOK
  BY DEF PrivateInv
<1> QED
  BY <1>1, PrivateInvInit, PrivateInvStep, PTL DEF PrivateSpec
=============================================================================
