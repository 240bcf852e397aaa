----------------------------- MODULE SimpleProofs -----------------------------
(***************************************************************************)
(* Theorems about two small modules.  SimpleMode: OnceEach for networks    *)
(* without cycles, all others for every network.  ResponseTimers: all for  *)
(* any number of timers and of requests.                                   *)
(***************************************************************************)
EXTENDS SimpleMode, ResponseTimers, SequenceTheorems, FiniteSetTheorems, TLAPS

\* A message in a packet has a way back from its sender, and one that was shown
\* from where it was shown.
HasWayBack ==
    /\ \A p \in packets : WayTo(p.from, p.message.origin)
    /\ \A n \in Node, m \in Message : shown[n][m] > 0 => WayTo(n, m.origin)

\* Peers are only ever added.
PeersGrow == \A n \in Node : peers[n] \subseteq peers'[n]

\* A way to p does not go away.
LEMMA WayStays ==
    ASSUME NEW n \in Node, NEW o, WayTo(n, o), PeersGrow
    PROVE  WayTo(n, o)'
<1> SUFFICES ASSUME NEW S \in SUBSET Node, n \in S, \A k \in S : peers'[k] \subseteq S
             PROVE  o \in S
  BY DEF WayTo
<1>1. \A k \in S : peers[k] \subseteq S
  BY DEF PeersGrow
<1> QED BY <1>1 DEF WayTo

\* A node has a way to itself.
LEMMA WayToSelf == ASSUME NEW n \in Node PROVE WayTo(n, n)
  BY DEF WayTo

\* From a node that has just learned a peer, the peer's ways go on.
LEMMA WayOverPeer ==
    ASSUME NEW n \in Node, NEW k \in Node, NEW o,
           WayTo(k, o), PeersGrow, k \in peers'[n]
    PROVE  WayTo(n, o)'
<1> SUFFICES ASSUME NEW S \in SUBSET Node, n \in S, \A i \in S : peers'[i] \subseteq S
             PROVE  o \in S
  BY DEF WayTo
<1>1. k \in S
  OBVIOUS
<1>2. \A i \in S : peers[i] \subseteq S
  BY DEF PeersGrow
<1> QED BY <1>1, <1>2 DEF WayTo

\* The copies that n sends are packets from n.
LEMMA CopiesAre ==
    ASSUME NEW n \in Node, NEW m \in Message, NEW known \in SUBSET Node, NEW sender,
           NEW p \in Copies(n, m, known, sender)
    PROVE  /\ p \in [from : Node, to : Node, message : Message]
           /\ p.from = n /\ p.message = m
           /\ p.to \in known /\ p.to # sender
  BY DEF Copies

\* Every variable of the simple mode model keeps its type; no node ever takes
\* itself for a peer, so that no message is sent to oneself.
THEOREM TypeCorrect == SimpleSpec => []SimpleTypeOK
<1>1. SimpleInit => SimpleTypeOK
  BY NetworkAssumption DEF SimpleInit, SimpleTypeOK, Message
<1>2. SimpleTypeOK /\ [SimpleNext]_simpleVars => SimpleTypeOK'
  <2> SUFFICES ASSUME SimpleTypeOK, [SimpleNext]_simpleVars PROVE SimpleTypeOK'
    OBVIOUS
  <2>1. CASE UNCHANGED simpleVars
    BY <2>1 DEF simpleVars, SimpleTypeOK
  <2>2. ASSUME NEW n \in Clients, NEW t \in Texts, ClientMessage(n, t) PROVE SimpleTypeOK'
    <3> DEFINE m == [origin |-> n, contents |-> t]
    <3>1. n \in Node /\ m \in Message
      BY NetworkAssumption DEF Message
    <3>2. m \in sent' /\ sent' \in SUBSET Message /\ sent \subseteq sent'
      BY <2>2, <3>1 DEF ClientMessage, SimpleTypeOK
    <3>3. audience' \in [Message -> SUBSET Node]
      BY <2>2 DEF ClientMessage, SimpleTypeOK
    <3>4. packets' = packets \cup Copies(n, m, peers[n], n) /\ peers' = peers
      BY <2>2 DEF ClientMessage
    <3>5. peers[n] \in SUBSET Node
      BY <3>1 DEF SimpleTypeOK
    <3> HIDE DEF m
    <3>6. \A p \in Copies(n, m, peers[n], n) :
             /\ p \in [from : Node, to : Node, message : Message]
             /\ p.to \in peers[p.from] /\ p.message \in sent'
      BY <3>1, <3>2, <3>5, CopiesAre
    <3>7. packets' \in SUBSET [from : Node, to : Node, message : Message]
      BY <3>4, <3>6 DEF SimpleTypeOK
    <3>8. \A p \in packets' : p.to \in peers'[p.from] /\ p.message \in sent'
      BY <3>2, <3>4, <3>6 DEF SimpleTypeOK
    <3> QED
      BY <2>2, <3>2, <3>3, <3>4, <3>7, <3>8 DEF ClientMessage, SimpleTypeOK
  <2>3. ASSUME NEW p \in packets, Receive(p) PROVE SimpleTypeOK'
    <3>1. /\ p.from \in Node /\ p.to \in Node /\ p.message \in Message
          /\ p.to \in peers[p.from] /\ p.message \in sent /\ p.to # p.from
      BY DEF SimpleTypeOK
    <3>2. peers' = [peers EXCEPT ![p.to] = peers[p.to] \cup {p.from}]
      BY <2>3 DEF Receive, Learned
    <3>3. /\ peers' \in [Node -> SUBSET Node]
          /\ \A n \in Node : n \notin peers'[n] /\ peers[n] \subseteq peers'[n]
      BY <3>1, <3>2 DEF SimpleTypeOK
    <3>4. packets' = (packets \ {p}) \cup Copies(p.to, p.message, peers'[p.to], p.from)
      BY <2>3 DEF Receive
    <3>5. sent' = sent /\ lost' = lost /\ audience' = audience
      BY <2>3 DEF Receive
    <3>6. \A q \in Copies(p.to, p.message, peers'[p.to], p.from) :
             /\ q \in [from : Node, to : Node, message : Message]
             /\ q.to \in peers'[q.from] /\ q.message \in sent
      BY <3>1, <3>3, CopiesAre
    <3>7. packets' \in SUBSET [from : Node, to : Node, message : Message]
      BY <3>4, <3>6 DEF SimpleTypeOK
    <3>8. \A q \in packets' : q.to \in peers'[q.from] /\ q.message \in sent'
      BY <3>3, <3>4, <3>5, <3>6 DEF SimpleTypeOK
    <3>9. shown' \in [Node -> [Message -> 0 .. MaxShown]]
      <4>1. shown[p.to][p.message] < MaxShown
        BY <2>3 DEF Receive
      <4>2. shown' = [shown EXCEPT ![p.to][p.message] = shown[p.to][p.message] + 1]
        BY <2>3 DEF Receive
      <4>3. shown[p.to][p.message] + 1 \in 0 .. MaxShown
        BY <3>1, <4>1, NetworkAssumption DEF SimpleTypeOK
      <4> QED BY <3>1, <4>2, <4>3 DEF SimpleTypeOK
    <3> QED BY <3>3, <3>5, <3>7, <3>8, <3>9 DEF SimpleTypeOK
  <2>4. ASSUME NEW p \in packets, Lose(p) PROVE SimpleTypeOK'
    <3>1. lost' \in 0 .. MaxLost
      BY <2>4, NetworkAssumption DEF Lose, SimpleTypeOK
    <3> QED BY <2>4, <3>1 DEF Lose, SimpleTypeOK
  <2> QED BY <2>1, <2>2, <2>3, <2>4 DEF SimpleNext
<1> QED BY <1>1, <1>2, PTL DEF SimpleSpec

\* Whoever is shown a message has a way back to its origin, in any network and
\* whatever gets lost.
THEOREM AlwaysWayBack == SimpleSpec => []WayBack
<1>1. SimpleInit => HasWayBack
  BY DEF SimpleInit, HasWayBack
<1>2. SimpleTypeOK /\ HasWayBack /\ [SimpleNext]_simpleVars => HasWayBack'
  <2> SUFFICES ASSUME SimpleTypeOK, HasWayBack, [SimpleNext]_simpleVars PROVE HasWayBack'
    OBVIOUS
  <2>1. CASE UNCHANGED simpleVars
    BY <2>1 DEF simpleVars, HasWayBack, WayTo
  <2>2. ASSUME NEW n \in Clients, NEW t \in Texts, ClientMessage(n, t) PROVE HasWayBack'
    <3> DEFINE m == [origin |-> n, contents |-> t]
    <3>1. n \in Node /\ m \in Message /\ m.origin = n
      BY NetworkAssumption DEF Message
    <3>2. PeersGrow /\ shown' = shown
      BY <2>2 DEF ClientMessage, PeersGrow
    <3>3. packets' = packets \cup Copies(n, m, peers[n], n)
      BY <2>2 DEF ClientMessage
    <3>4. peers[n] \in SUBSET Node
      BY <3>1 DEF SimpleTypeOK
    <3>5. WayTo(n, n)'
      BY <3>1, <3>2, WayToSelf, WayStays
    <3> HIDE DEF m
    <3>6. \A p \in Copies(n, m, peers[n], n) : p.from = n /\ p.message.origin = n
      BY <3>1, <3>4, CopiesAre
    <3>7. \A p \in packets : WayTo(p.from, p.message.origin)'
      BY <3>2, WayStays DEF HasWayBack, SimpleTypeOK
    <3>8. \A p \in packets' : WayTo(p.from, p.message.origin)'
      BY <3>3, <3>5, <3>6, <3>7
    <3>9. \A k \in Node, x \in Message : shown'[k][x] > 0 => WayTo(k, x.origin)'
      BY <3>2, WayStays DEF HasWayBack
    <3> QED BY <3>8, <3>9 DEF HasWayBack
  <2>3. ASSUME NEW p \in packets, Receive(p) PROVE HasWayBack'
    <3> DEFINE n == p.to
               m == p.message
    <3>1. p.from \in Node /\ n \in Node /\ m \in Message
      BY DEF SimpleTypeOK
    <3>2. peers' = [peers EXCEPT ![n] = peers[n] \cup {p.from}]
      BY <2>3 DEF Receive, Learned
    <3>3. PeersGrow /\ p.from \in peers'[n] /\ peers'[n] \in SUBSET Node
      BY <3>1, <3>2 DEF PeersGrow, SimpleTypeOK
    <3>4. packets' = (packets \ {p}) \cup Copies(n, m, peers'[n], p.from)
      BY <2>3 DEF Receive
    <3>5. WayTo(n, m.origin)'
      BY <3>1, <3>3, WayOverPeer DEF HasWayBack
    <3>6. \A k \in Node, x \in Message :
             shown'[k][x] > 0 => (k = n /\ x = m) \/ shown[k][x] > 0
      BY <2>3, <3>1 DEF Receive, SimpleTypeOK
    <3>7. \A k \in Node, x \in Message : shown[k][x] > 0 => WayTo(k, x.origin)'
      BY <3>3, WayStays DEF HasWayBack
    <3>8. \A q \in packets : WayTo(q.from, q.message.origin)'
      BY <3>3, WayStays DEF HasWayBack, SimpleTypeOK
    <3> HIDE DEF n, m
    <3>9. \A q \in Copies(n, m, peers'[n], p.from) : q.from = n /\ q.message = m
      BY <3>1, <3>3, CopiesAre
    <3>10. \A q \in packets' : WayTo(q.from, q.message.origin)'
      BY <3>4, <3>5, <3>8, <3>9
    <3> QED BY <3>5, <3>6, <3>7, <3>10 DEF HasWayBack
  <2>4. ASSUME NEW p \in packets, Lose(p) PROVE HasWayBack'
    <3>1. packets' \subseteq packets /\ shown' = shown /\ peers' = peers
      BY <2>4 DEF Lose
    <3> QED BY <3>1 DEF HasWayBack, WayTo
  <2> QED BY <2>1, <2>2, <2>3, <2>4 DEF SimpleNext
<1>3. HasWayBack => WayBack
  BY DEF HasWayBack, WayBack
<1> QED BY <1>1, <1>2, <1>3, TypeCorrect, PTL DEF SimpleSpec

(***************************************************************************)
(* Networks without cycles.  In a cycle a message goes round for ever, so  *)
(* OnceEach is proved where cutting any link cuts the network: no node is  *)
(* on the far side of a link that starts at it.                            *)
(***************************************************************************)
Linked(i, j) == j \in InitialPeers[i] \/ i \in InitialPeers[j]

\* S has all neighbours of its members, except that k's neighbour n may be missing.
ClosedBut(S, n, k) ==
    \A i \in S, j \in Node : Linked(i, j) => j \in S \/ (i = k /\ j = n)

\* The nodes behind k, seen from n: those that are reached without the link from k to n.
Behind(n, k) ==
    {p \in Node : \A S \in SUBSET Node : k \in S /\ ClosedBut(S, n, k) => p \in S}

Forest == \A n, k \in Node : Linked(n, k) => n \notin Behind(n, k)

\* The nodes that a message has come to.
HasCome(n, m) == (n = m.origin /\ m \in sent) \/ shown[n][m] > 0

\* Packets run over links; whoever is shown a message was sent it; and every packet has
\* the nodes behind it to itself: the message has not come to any of them, and no other
\* copy of it is on the way to one.
AheadInv ==
    /\ \A n \in Node : \A k \in peers[n] : Linked(n, k)
    /\ \A n \in Node, m \in Message : shown[n][m] > 0 => m \in sent
    /\ \A p \in packets : HasCome(p.from, p.message)
    /\ \A p \in packets : \A n \in Behind(p.from, p.to) : ~HasCome(n, p.message)
    /\ \A p, q \in packets :
          p.message = q.message /\ p # q => q.to \notin Behind(p.from, p.to)
    /\ OnceEach

LEMMA LinkedBack == ASSUME NEW i, NEW j, Linked(i, j) PROVE Linked(j, i)
  BY DEF Linked

\* The far end of a link is behind it.
LEMMA EndIsBehind == ASSUME NEW n \in Node, NEW k \in Node PROVE k \in Behind(n, k)
  BY DEF Behind

LEMMA BehindIsClosed ==
    ASSUME NEW n \in Node, NEW k \in Node
    PROVE  ClosedBut(Behind(n, k), n, k)
<1> SUFFICES ASSUME NEW i \in Behind(n, k), NEW j \in Node, Linked(i, j), ~(i = k /\ j = n)
             PROVE  j \in Behind(n, k)
  BY DEF ClosedBut
<1> SUFFICES ASSUME NEW S \in SUBSET Node, k \in S, ClosedBut(S, n, k)
             PROVE  j \in S
  BY DEF Behind
<1>1. i \in S
  BY DEF Behind
<1> QED BY <1>1 DEF ClosedBut

\* What is behind the next link is behind the link before it.
LEMMA BehindNext ==
    ASSUME Forest, NEW n \in Node, NEW k \in Node, NEW j \in Node,
           Linked(k, j), j # n
    PROVE  Behind(k, j) \subseteq Behind(n, k)
<1> DEFINE S == Behind(n, k) \cap Behind(k, j)
<1>1. k \notin Behind(k, j)
  BY DEF Forest
<1>2. k \in Behind(n, k) /\ j \in Behind(k, j)
  BY EndIsBehind
<1>3. j \in Behind(n, k)
  BY <1>2, BehindIsClosed DEF ClosedBut
<1>4. ClosedBut(S, k, j)
  <2> SUFFICES ASSUME NEW a \in S, NEW b \in Node, Linked(a, b), ~(a = j /\ b = k)
               PROVE  b \in S
    BY DEF ClosedBut
  <2>1. b \in Behind(k, j)
    BY BehindIsClosed DEF ClosedBut
  <2>2. b \in Behind(n, k)
    BY <1>1, BehindIsClosed DEF ClosedBut
  <2> QED BY <2>1, <2>2
<1>5. S \in SUBSET Node
  BY DEF Behind
<1> QED BY <1>2, <1>3, <1>4, <1>5 DEF Behind

\* Two links from one node lead to different parts of the network.
LEMMA BehindOther ==
    ASSUME Forest, NEW k \in Node, NEW i \in Node, NEW j \in Node,
           Linked(k, i), Linked(k, j), i # j
    PROVE  i \notin Behind(k, j)
<1> SUFFICES ASSUME i \in Behind(k, j) PROVE FALSE
  OBVIOUS
<1>1. k \in Behind(k, j)
  BY LinkedBack, BehindIsClosed DEF ClosedBut
<1> QED BY <1>1 DEF Forest

LEMMA AheadInit == SimpleInit => AheadInv
<1> SUFFICES ASSUME SimpleInit PROVE AheadInv
  OBVIOUS
<1>1. \A n \in Node : \A k \in peers[n] : Linked(n, k)
  BY DEF SimpleInit, Linked
<1>2. \A n \in Node, m \in Message : shown[n][m] = 0
  BY DEF SimpleInit
<1> QED BY <1>1, <1>2 DEF SimpleInit, AheadInv, OnceEach

\* A client's message has nothing behind it but the network.
LEMMA AheadClient ==
    ASSUME Forest, SimpleTypeOK, AheadInv, NEW o \in Clients, NEW t \in Texts, ClientMessage(o, t)
    PROVE  AheadInv'
<1> DEFINE m == [origin |-> o, contents |-> t]
<1>1. o \in Node /\ m \in Message /\ m.origin = o
  BY NetworkAssumption DEF Message
<1>2. m \notin sent /\ sent' = sent \cup {m} /\ peers' = peers /\ shown' = shown
  BY DEF ClientMessage
<1>3. packets' = packets \cup Copies(o, m, peers[o], o)
  BY DEF ClientMessage
<1>4. peers[o] \in SUBSET Node
  BY <1>1 DEF SimpleTypeOK
<1> HIDE DEF m
<1>5. \A n \in Node : HasCome(n, m)' <=> n = o
  BY <1>1, <1>2 DEF AheadInv, HasCome, SimpleTypeOK
<1>6. \A x \in Message \ {m} : \A n : HasCome(n, x)' <=> HasCome(n, x)
  BY <1>2 DEF HasCome
<1>7. \A p \in packets : p.message \in Message \ {m} /\ p.from \in Node /\ p.to \in Node
  BY <1>2 DEF SimpleTypeOK
<1>8. \A p \in Copies(o, m, peers[o], o) :
         /\ p \in [from : Node, to : Node, message : Message]
         /\ p.from = o /\ p.message = m /\ p.to \in Node /\ Linked(o, p.to)
  BY <1>1, <1>4, CopiesAre DEF AheadInv
<1>9. \A p \in packets' : HasCome(p.from, p.message)'
  BY <1>1, <1>3, <1>5, <1>6, <1>7, <1>8 DEF AheadInv
<1>10. \A p \in packets' : \A n \in Behind(p.from, p.to) : ~HasCome(n, p.message)'
  <2> SUFFICES ASSUME NEW p \in packets', NEW n \in Behind(p.from, p.to)
               PROVE  ~HasCome(n, p.message)'
    OBVIOUS
  <2>1. CASE p \in packets
    BY <2>1, <1>6, <1>7 DEF AheadInv
  <2>2. CASE p \in Copies(o, m, peers[o], o)
    <3>1. n \in Node /\ n # o
      BY <2>2, <1>1, <1>8 DEF Forest, Behind
    <3> QED BY <2>2, <3>1, <1>5, <1>8
  <2> QED BY <2>1, <2>2, <1>3
<1>11. \A p, q \in packets' :
          p.message = q.message /\ p # q => q.to \notin Behind(p.from, p.to)
  <2> SUFFICES ASSUME NEW p \in packets', NEW q \in packets', p.message = q.message, p # q
               PROVE  q.to \notin Behind(p.from, p.to)
    OBVIOUS
  <2>1. CASE p \in packets
    BY <2>1, <1>3, <1>7, <1>8 DEF AheadInv
  <2>2. CASE p \in Copies(o, m, peers[o], o)
    <3>1. q \in Copies(o, m, peers[o], o)
      BY <2>2, <1>3, <1>7, <1>8
    <3>2. q.to # p.to
      BY <2>2, <3>1 DEF Copies
    <3> QED BY <2>2, <3>1, <3>2, <1>1, <1>8, BehindOther
  <2> QED BY <2>1, <2>2, <1>3
<1>12. OnceEach'
  BY <1>2 DEF AheadInv, OnceEach
<1>13. \A n \in Node, x \in Message : shown'[n][x] > 0 => x \in sent'
  BY <1>2 DEF AheadInv
<1> QED BY <1>2, <1>9, <1>10, <1>11, <1>12, <1>13 DEF AheadInv

\* A packet that is received hands the nodes behind it over to its copies.
LEMMA AheadReceive ==
    ASSUME Forest, SimpleTypeOK, AheadInv, NEW r \in packets, Receive(r)
    PROVE  AheadInv'
<1> DEFINE n == r.from
           k == r.to
           m == r.message
           new == Copies(k, m, peers'[k], n)
<1>1. n \in Node /\ k \in Node /\ m \in Message /\ k \in peers[n] /\ m \in sent
  BY DEF SimpleTypeOK
<1>2. peers' = [peers EXCEPT ![k] = peers[k] \cup {n}] /\ sent' = sent
  BY DEF Receive, Learned
<1>3. packets' = (packets \ {r}) \cup new
  BY DEF Receive
<1>4. shown' = [shown EXCEPT ![k][m] = shown[k][m] + 1]
  BY DEF Receive
<1>5. ~HasCome(k, m) /\ k \in Behind(n, k)
  BY <1>1, EndIsBehind DEF AheadInv
<1>6. shown[k][m] = 0 /\ k # m.origin
  BY <1>1, <1>5 DEF HasCome, SimpleTypeOK
<1>7. \A i \in Node, x \in Message :
         shown'[i][x] = IF i = k /\ x = m THEN 1 ELSE shown[i][x]
  BY <1>1, <1>4, <1>6 DEF SimpleTypeOK
<1>8. Linked(n, k) /\ Linked(k, n)
  BY <1>1, LinkedBack DEF AheadInv
<1>9. peers'[k] \in SUBSET Node /\ \A i \in Node : \A j \in peers'[i] : Linked(i, j)
  BY <1>1, <1>2, <1>8 DEF AheadInv, SimpleTypeOK
<1>10. \A i \in Node, x \in Message :
          HasCome(i, x)' <=> HasCome(i, x) \/ (i = k /\ x = m)
  BY <1>2, <1>7 DEF HasCome
<1>11. \A p \in packets :
          p \in [from : Node, to : Node, message : Message]
  BY DEF SimpleTypeOK
<1>12. r.from = n /\ r.to = k /\ r.message = m
  OBVIOUS
<1> HIDE DEF n, k, m
<1>13. \A p \in new :
          /\ p \in [from : Node, to : Node, message : Message]
          /\ p.from = k /\ p.message = m /\ p.to # n /\ Linked(k, p.to)
  BY <1>1, <1>9, CopiesAre
<1>14. \A p, q \in new : p # q => p.to # q.to
  BY DEF Copies
<1>15. \A p \in packets \ {r} : p.message = m =>
          k \notin Behind(p.from, p.to) /\ p.to \notin Behind(n, k)
  BY <1>12 DEF AheadInv
<1>16. \A p \in packets : p.message = m => p.from # k
  BY <1>5 DEF AheadInv
<1> HIDE DEF new
<1>17. \A p \in packets' : HasCome(p.from, p.message)'
  BY <1>1, <1>3, <1>10, <1>11, <1>13 DEF AheadInv
<1>18. \A p \in new : Behind(k, p.to) \subseteq Behind(n, k) /\ k \notin Behind(k, p.to)
  BY <1>1, <1>13, BehindNext DEF Forest
<1>19. \A p \in packets' : \A i \in Behind(p.from, p.to) : ~HasCome(i, p.message)'
  <2> SUFFICES ASSUME NEW p \in packets', NEW i \in Behind(p.from, p.to)
               PROVE  ~HasCome(i, p.message)'
    OBVIOUS
  <2>1. i \in Node
    BY DEF Behind
  <2>2. CASE p \in packets \ {r}
    <3>1. ~HasCome(i, p.message) /\ p.message \in Message
      BY <2>2, <1>11 DEF AheadInv
    <3>2. ~(i = k /\ p.message = m)
      BY <2>2, <1>15
    <3> QED BY <2>1, <3>1, <3>2, <1>10
  <2>3. CASE p \in new
    <3>1. i \in Behind(n, k) /\ i # k /\ p.message = m
      BY <2>3, <1>13, <1>18
    <3>2. ~HasCome(i, m)
      BY <3>1, <1>12 DEF AheadInv
    <3> QED BY <2>1, <3>1, <3>2, <1>1, <1>10
  <2> QED BY <2>2, <2>3, <1>3
<1>20. \A p, q \in packets' :
          p.message = q.message /\ p # q => q.to \notin Behind(p.from, p.to)
  <2> SUFFICES ASSUME NEW p \in packets', NEW q \in packets', p.message = q.message, p # q
               PROVE  q.to \notin Behind(p.from, p.to)
    OBVIOUS
  <2>1. CASE p \in packets /\ q \in packets
    BY <2>1 DEF AheadInv
  <2>2. CASE p \in packets \ {r} /\ q \in new
    <3>1. p.message = m /\ p.from \in Node /\ p.to \in Node /\ p.from # k
      BY <2>2, <1>11, <1>13, <1>16
    <3>2. k \notin Behind(p.from, p.to)
      BY <2>2, <3>1, <1>15
    <3>3. Linked(q.to, k)
      BY <2>2, <1>13, LinkedBack
    <3>4. ClosedBut(Behind(p.from, p.to), p.from, p.to)
      BY <3>1, BehindIsClosed
    <3> QED BY <3>1, <3>2, <3>3, <3>4, <1>1 DEF ClosedBut
  <2>3. CASE p \in new /\ q \in packets \ {r}
    <3>1. q.message = m /\ p.from = k
      BY <2>3, <1>13
    <3> QED BY <2>3, <3>1, <1>15, <1>18
  <2>4. CASE p \in new /\ q \in new
    <3>1. /\ p.from = k /\ p.to \in Node /\ q.to \in Node /\ p.to # q.to
          /\ Linked(k, p.to) /\ Linked(k, q.to)
      BY <2>4, <1>13, <1>14
    <3> QED BY <3>1, <1>1, BehindOther
  <2> QED BY <2>1, <2>2, <2>3, <2>4, <1>3
<1>21. OnceEach'
  BY <1>6, <1>7 DEF AheadInv, OnceEach
<1>22. \A i \in Node, x \in Message : shown'[i][x] > 0 => x \in sent'
  BY <1>1, <1>2, <1>7 DEF AheadInv
<1> QED BY <1>9, <1>17, <1>19, <1>20, <1>21, <1>22 DEF AheadInv

\* In a network without cycles every node shows a message once at most, and never its
\* own, whatever gets lost and in whatever order packets come.
THEOREM ShownOnceWithoutCycles == ASSUME Forest PROVE SimpleSpec => []OnceEach
<1>1. SimpleInit => AheadInv
  BY AheadInit
<1>2. SimpleTypeOK /\ AheadInv /\ [SimpleNext]_simpleVars => AheadInv'
  <2> SUFFICES ASSUME SimpleTypeOK, AheadInv, [SimpleNext]_simpleVars PROVE AheadInv'
    OBVIOUS
  <2>1. CASE UNCHANGED simpleVars
    BY <2>1 DEF simpleVars, AheadInv, HasCome, OnceEach
  <2>2. ASSUME NEW p \in packets, Lose(p) PROVE AheadInv'
    <3>1. packets' \subseteq packets /\ shown' = shown /\ peers' = peers /\ sent' = sent
      BY <2>2 DEF Lose
    <3> QED BY <3>1 DEF AheadInv, HasCome, OnceEach
  <2> QED BY <2>1, <2>2, AheadClient, AheadReceive DEF SimpleNext
<1>3. AheadInv => OnceEach
  BY DEF AheadInv
<1> QED BY <1>1, <1>2, <1>3, TypeCorrect, PTL DEF SimpleSpec

-----------------------------------------------------------------------------
(* ResponseTimers: types. *)

\* Removing the oldest entry keeps a list of timers one, and shortens it.
LEMMA RemoveFinishedType ==
    ASSUME NEW l \in Seq(Timers)
    PROVE  /\ RemoveFinished(l) \in Seq(Timers)
           /\ Len(RemoveFinished(l)) = IF l = <<>> THEN 0 ELSE Len(l) - 1
           /\ \A i \in 1 .. Len(RemoveFinished(l)) :
                 i + 1 \in 1 .. Len(l) /\ RemoveFinished(l)[i] = l[i + 1]
<1>1. CASE l = <<>>
  BY <1>1 DEF RemoveFinished
<1>2. CASE l # <<>>
  <2>1. RemoveFinished(l) = Tail(l) /\ Len(l) \in Nat
    BY <1>2 DEF RemoveFinished
  <2>2. /\ Tail(l) \in Seq(Timers)
        /\ Len(Tail(l)) = Len(l) - 1
        /\ \A i \in 1 .. Len(Tail(l)) : Tail(l)[i] = l[i + 1]
    BY <1>2, HeadTailProperties
  <2> QED
    BY <1>2, <2>1, <2>2
<1> QED
  BY <1>1, <1>2

\* Every step keeps the types.
LEMMA TimersTypeOKStep == TimersTypeOK /\ [TimersNext]_timerVars => TimersTypeOK'
<1> SUFFICES ASSUME TimersTypeOK, [TimersNext]_timerVars
             PROVE  TimersTypeOK'
  OBVIOUS
<1> USE DEF TimersTypeOK, TimerState, ListenerState
<1>1. ASSUME NEW t \in Timers, StartTimer(t)
      PROVE  TimersTypeOK'
  BY <1>1 DEF StartTimer
<1>2. ASSUME NEW t \in Timers, AppendTimer(t)
      PROVE  TimersTypeOK'
  BY <1>2 DEF AppendTimer
<1>3. ASSUME NEW t \in Timers, Expire(t)
      PROVE  TimersTypeOK'
  BY <1>3 DEF Expire
<1>4. ASSUME NEW t \in Timers, RemoveTimer(t)
      PROVE  TimersTypeOK'
  BY <1>4, RemoveFinishedType DEF RemoveTimer
<1>5. ASSUME NEW t \in Timers, SendAgain(t)
      PROVE  TimersTypeOK'
  BY <1>5 DEF SendAgain
<1>6. ASSUME NEW t \in Timers, GiveUp(t)
      PROVE  TimersTypeOK'
  BY <1>6 DEF GiveUp
<1>7. CASE FindTimer
  BY <1>7 DEF FindTimer
<1>8. CASE StopHead
  BY <1>8 DEF StopHead
<1>9. CASE Crash
  BY <1>9 DEF Crash
<1>10. CASE RemoveAnswered
  BY <1>10, RemoveFinishedType DEF RemoveAnswered
<1>11. CASE UNCHANGED timerVars
  BY <1>11 DEF timerVars
<1> QED
  BY <1>1, <1>2, <1>3, <1>4, <1>5, <1>6, <1>7, <1>8, <1>9, <1>10, <1>11 DEF TimersNext

\* Every variable of the timer model keeps its type.
THEOREM TimersTypeCorrect == TimersSpec => []TimersTypeOK
<1>1. TimersInit => TimersTypeOK
  BY DEF TimersInit, TimersTypeOK, TimerState, ListenerState
<1> QED
  BY <1>1, TimersTypeOKStep, PTL DEF TimersSpec

-----------------------------------------------------------------------------
(* No entry outlives the removals that are still to come. *)

\* Sets of timers are finite.
LEMMA InFinite == \A s : IsFiniteSet(In(s))
<1>1. IsFiniteSet(Timers)
  BY TimersAssumption, FS_Interval DEF Timers
<1> QED
  BY <1>1, FS_Subset DEF In

\* Pending: the timers whose goroutine has a removal before it.
Pending == In({"running", "expired"})

\* A pending timer that leaves its state for one outside takes one removal.
LEMMA PendingLoses ==
    ASSUME TimersTypeOK, NEW t \in Timers, state[t] \in {"running", "expired"},
           NEW s \in TimerState \ {"running", "expired"},
           state' = [state EXCEPT ![t] = s]
    PROVE  /\ Cardinality(Pending') = Cardinality(Pending) - 1
           /\ Cardinality(Pending) \in Nat /\ Cardinality(Pending') \in Nat
<1>1. Pending' = Pending \ {t} /\ t \in Pending
  BY DEF Pending, In, TimersTypeOK
<1>2. IsFiniteSet(Pending)
  BY InFinite DEF Pending
<1>3. IsFiniteSet(Pending')
  BY <1>1, <1>2, FS_RemoveElement
<1> QED
  BY <1>1, <1>2, <1>3, FS_RemoveElement, FS_CardinalityType

\* Every step keeps the list within the removals to come.
LEMMA NoStaleEntriesStep ==
    TimersTypeOK /\ NoStaleEntries /\ [TimersNext]_timerVars => NoStaleEntries'
<1> SUFFICES ASSUME TimersTypeOK, NoStaleEntries, [TimersNext]_timerVars
             PROVE  NoStaleEntries'
  OBVIOUS
<1> DEFINE bonus == IF listener = "stopped" THEN 1 ELSE 0
<1>a. Len(list) \in Nat /\ bonus \in Nat /\ Len(list) <= Cardinality(Pending) + bonus
  BY DEF NoStaleEntries, Pending, TimersTypeOK
<1>b. SUFFICES Len(list') <= Cardinality(Pending') + bonus'
  BY DEF NoStaleEntries, Pending
<1>c. IsFiniteSet(Pending) /\ Cardinality(Pending) \in Nat
  BY InFinite, FS_CardinalityType DEF Pending
<1>d. ASSUME Pending' = Pending, list' = list, bonus' = bonus
      PROVE  Len(list') <= Cardinality(Pending') + bonus'
  BY <1>a, <1>d
<1> HIDE DEF bonus
<1>1. ASSUME NEW t \in Timers, StartTimer(t)
      PROVE  Len(list') <= Cardinality(Pending') + bonus'
  <2>1. Pending' = Pending
    BY <1>1 DEF StartTimer, IsNext, Pending, In, TimersTypeOK
  <2> QED
    BY <1>1, <1>d, <2>1 DEF StartTimer, bonus
<1>2. ASSUME NEW t \in Timers, AppendTimer(t)
      PROVE  Len(list') <= Cardinality(Pending') + bonus'
  <2>1. Pending' = Pending \cup {t} /\ t \notin Pending
    BY <1>2 DEF AppendTimer, Pending, In, TimersTypeOK
  <2>2. Cardinality(Pending') = Cardinality(Pending) + 1
    BY <2>1, <1>c, FS_AddElement
  <2>3. Len(list') = Len(list) + 1
    BY <1>2 DEF AppendTimer, TimersTypeOK
  <2>4. bonus' = bonus
    BY <1>2 DEF AppendTimer, bonus
  <2> QED
    BY <1>a, <1>c, <2>2, <2>3, <2>4
<1>3. ASSUME NEW t \in Timers, Expire(t)
      PROVE  Len(list') <= Cardinality(Pending') + bonus'
  <2>1. Pending' = Pending
    BY <1>3 DEF Expire, Pending, In, TimersTypeOK
  <2> QED
    BY <1>3, <1>d, <2>1 DEF Expire, bonus
<1>4. ASSUME NEW t \in Timers, RemoveTimer(t)
      PROVE  Len(list') <= Cardinality(Pending') + bonus'
  <2>1. /\ Cardinality(Pending') = Cardinality(Pending) - 1
        /\ Cardinality(Pending') \in Nat
    BY <1>4, PendingLoses DEF RemoveTimer, TimerState
  <2>2. Len(list') = IF list = <<>> THEN 0 ELSE Len(list) - 1
    BY <1>4, RemoveFinishedType DEF RemoveTimer, TimersTypeOK
  <2>3. bonus' = bonus
    BY <1>4 DEF RemoveTimer, bonus
  <2> QED
    BY <1>a, <1>c, <2>1, <2>2, <2>3
<1>5. ASSUME NEW t \in Timers, SendAgain(t)
      PROVE  Len(list') <= Cardinality(Pending') + bonus'
  <2>1. Pending' = Pending
    BY <1>5 DEF SendAgain, IsNext, Pending, In, TimersTypeOK
  <2> QED
    BY <1>5, <1>d, <2>1 DEF SendAgain, bonus
<1>6. ASSUME NEW t \in Timers, GiveUp(t)
      PROVE  Len(list') <= Cardinality(Pending') + bonus'
  <2>1. Pending' = Pending
    BY <1>6 DEF GiveUp, Pending, In, TimersTypeOK
  <2> QED
    BY <1>6, <1>d, <2>1 DEF GiveUp, bonus
<1>7. CASE FindTimer
  BY <1>7, <1>d DEF FindTimer, bonus, Pending, In
<1>8. CASE StopHead
  <2>1. CASE state[Head(list)] = "running"
    <3>1. Head(list) \in Timers
      BY <1>8, HeadTailProperties DEF StopHead, TimersTypeOK
    <3>2. state' = [state EXCEPT ![Head(list)] = "stopped"]
      BY <1>8, <2>1 DEF StopHead
    <3>3. /\ Cardinality(Pending') = Cardinality(Pending) - 1
          /\ Cardinality(Pending') \in Nat
      BY <2>1, <3>1, <3>2, PendingLoses DEF TimerState
    <3>4. bonus' = bonus + 1 /\ list' = list
      BY <1>8, <2>1 DEF StopHead, bonus
    <3> QED
      BY <1>a, <1>c, <3>3, <3>4
  <2>2. CASE state[Head(list)] # "running"
    BY <1>8, <2>2, <1>d DEF StopHead, bonus, Pending, In
  <2> QED
    BY <2>1, <2>2
<1>9. CASE Crash
  BY <1>9, <1>d DEF Crash, bonus, Pending, In
<1>10. CASE RemoveAnswered
  <2>1. Pending' = Pending
    BY <1>10 DEF RemoveAnswered, Pending, In
  <2>2. Len(list') = IF list = <<>> THEN 0 ELSE Len(list) - 1
    BY <1>10, RemoveFinishedType DEF RemoveAnswered, TimersTypeOK
  <2>3. bonus' = 0 /\ bonus \in {0, 1}
    BY <1>10 DEF RemoveAnswered, bonus
  <2> QED
    BY <1>a, <1>c, <2>1, <2>2, <2>3
<1>11. CASE UNCHANGED timerVars
  BY <1>11, <1>d DEF timerVars, bonus, Pending, In
<1> QED
  BY <1>1, <1>2, <1>3, <1>4, <1>5, <1>6, <1>7, <1>8, <1>9, <1>10, <1>11 DEF TimersNext

\* However many timers there are and however their goroutines interleave, the
\* list never holds more entries than removals are still to come.
THEOREM NeverStaleEntries == TimersSpec => []NoStaleEntries
<1>1. TimersInit => NoStaleEntries
  <2>1. \A s : Cardinality(In(s)) \in Nat
    BY InFinite, FS_CardinalityType
  <2>2. TimersInit => Len(list) = 0 /\ listener # "stopped"
    BY DEF TimersInit
  <2> QED
    BY <2>1, <2>2 DEF NoStaleEntries
<1> QED
  BY <1>1, TimersTypeCorrect, NoStaleEntriesStep, PTL DEF TimersSpec

-----------------------------------------------------------------------------
(* A stopped timer leaves the list. *)

\* Each timer is in the list once at most, and not before it was put there.
ListedOnce ==
    /\ \A i, j \in 1 .. Len(list) : list[i] = list[j] => i = j
    /\ \A i \in 1 .. Len(list) : state[list[i]] \notin {"unused", "started"}

\* StoppedLeavesTheList is inductive on top of ListedOnce: without it the timer
\* the listener stops could be further down in the list as well.
ListInv == ListedOnce /\ StoppedLeavesTheList

\* The list after a removal is the old one without its head.
LEMMA ShorterListInv ==
    ASSUME TimersTypeOK, ListInv, list' = RemoveFinished(list),
           \A u \in Timers : state'[u] \in {"unused", "started", "stopped"} =>
                                 state'[u] = state[u],
           listener' = listener \/ listener' = "idle"
    PROVE  ListInv'
<1> DEFINE l == RemoveFinished(list)
<1>1. /\ l \in Seq(Timers) /\ Len(l) \in Nat /\ Len(list) \in Nat
      /\ \A i \in 1 .. Len(l) : i + 1 \in 1 .. Len(list) /\ l[i] = list[i + 1]
  BY RemoveFinishedType DEF TimersTypeOK
<1>2. \A i \in 1 .. Len(list) : list[i] \in Timers
  BY DEF TimersTypeOK
<1> HIDE DEF l
<1>3. list' = l
  BY DEF l
<1>4. \A i \in 1 .. Len(l) : state'[l[i]] \notin {"unused", "started", "stopped"}
  <2> SUFFICES ASSUME NEW i \in 1 .. Len(l),
                      state'[l[i]] \in {"unused", "started", "stopped"}
               PROVE  FALSE
    OBVIOUS
  <2>1. i + 1 \in 1 .. Len(list) /\ l[i] = list[i + 1] /\ l[i] \in Timers
    BY <1>1, <1>2
  <2>2. state[list[i + 1]] \in {"unused", "started", "stopped"}
    BY <2>1
  <2>3. state[list[i + 1]] \notin {"unused", "started"}
    BY <2>1 DEF ListInv, ListedOnce
  <2>4. i + 1 \in DOMAIN list
    BY <2>1 DEF TimersTypeOK
  <2>5. i + 1 = 1
    BY <2>2, <2>3, <2>4 DEF ListInv, StoppedLeavesTheList
  <2> QED
    BY <2>5
<1>5. \A i, j \in 1 .. Len(l) : l[i] = l[j] => i = j
  <2> TAKE i, j \in 1 .. Len(l)
  <2> HAVE l[i] = l[j]
  <2>1. i + 1 = j + 1
    BY <1>1 DEF ListInv, ListedOnce
  <2> QED
    BY <2>1
<1>6. DOMAIN l = 1 .. Len(l)
  BY <1>1
<1> QED
  BY <1>3, <1>4, <1>5, <1>6 DEF ListInv, ListedOnce, StoppedLeavesTheList

\* A step that leaves the list alone, and stops no timer, keeps the invariant.
LEMMA SameListInv ==
    ASSUME TimersTypeOK, ListInv, list' = list,
           \A u \in Timers : state'[u] \in {"unused", "started", "stopped"} =>
                                 \/ state'[u] = state[u]
                                 \/ state[u] = "unused",
           listener' = listener \/ listener # "stopped"
    PROVE  ListInv'
<1>1. \A i \in DOMAIN list : list[i] \in Timers /\ i \in 1 .. Len(list)
  BY DEF TimersTypeOK
<1>2. \A i \in 1 .. Len(list) : i \in DOMAIN list
  BY DEF TimersTypeOK
<1> QED
  BY <1>1, <1>2 DEF ListInv, ListedOnce, StoppedLeavesTheList

\* Every step keeps the invariant of the list.
LEMMA ListInvStep == TimersTypeOK /\ ListInv /\ [TimersNext]_timerVars => ListInv'
<1> SUFFICES ASSUME TimersTypeOK, ListInv, [TimersNext]_timerVars
             PROVE  ListInv'
  OBVIOUS
<1>1. ASSUME NEW t \in Timers, StartTimer(t)
      PROVE  ListInv'
  BY <1>1, SameListInv DEF StartTimer, IsNext, TimersTypeOK
<1>2. ASSUME NEW t \in Timers, AppendTimer(t)
      PROVE  ListInv'
  <2>1. /\ Len(list) \in Nat /\ Len(list') = Len(list) + 1
        /\ \A i \in 1 .. Len(list) : list'[i] = list[i] /\ list[i] \in Timers
        /\ list'[Len(list) + 1] = t
        /\ DOMAIN list' = 1 .. Len(list) + 1 /\ DOMAIN list = 1 .. Len(list)
    BY <1>2 DEF AppendTimer, TimersTypeOK
  <2>2. \A i \in 1 .. Len(list) : list[i] # t
    BY <1>2 DEF AppendTimer, ListInv, ListedOnce
  <2>3. /\ \A i \in 1 .. Len(list) : state'[list[i]] = state[list[i]]
        /\ state'[t] = "running"
    BY <1>2, <2>1, <2>2 DEF AppendTimer, TimersTypeOK
  <2>4. listener' = listener
    BY <1>2 DEF AppendTimer
  <2>5. ListedOnce'
    BY <2>1, <2>2, <2>3 DEF ListInv, ListedOnce
  <2>6. StoppedLeavesTheList'
    BY <2>1, <2>3, <2>4 DEF ListInv, StoppedLeavesTheList
  <2> QED
    BY <2>5, <2>6 DEF ListInv
<1>3. ASSUME NEW t \in Timers, Expire(t)
      PROVE  ListInv'
  BY <1>3, SameListInv DEF Expire, TimersTypeOK
<1>4. ASSUME NEW t \in Timers, RemoveTimer(t)
      PROVE  ListInv'
  BY <1>4, ShorterListInv DEF RemoveTimer, TimersTypeOK
<1>5. ASSUME NEW t \in Timers, SendAgain(t)
      PROVE  ListInv'
  BY <1>5, SameListInv DEF SendAgain, IsNext, TimersTypeOK
<1>6. ASSUME NEW t \in Timers, GiveUp(t)
      PROVE  ListInv'
  BY <1>6, SameListInv DEF GiveUp, TimersTypeOK
<1>7. CASE FindTimer
  BY <1>7, SameListInv DEF FindTimer
<1>8. CASE StopHead
  <2>1. CASE state[Head(list)] = "running"
    <3>1. /\ listener' = "stopped" /\ listener # "stopped" /\ list' = list
          /\ state' = [state EXCEPT ![Head(list)] = "stopped"]
      BY <1>8, <2>1 DEF StopHead
    <3>2. /\ Head(list) = list[1] /\ Len(list) \in Nat /\ 1 \in 1 .. Len(list)
          /\ DOMAIN list = 1 .. Len(list)
          /\ \A i \in 1 .. Len(list) : list[i] \in Timers
      BY <1>8 DEF StopHead, TimersTypeOK
    <3>3. \A i \in 1 .. Len(list) : i # 1 => state'[list[i]] = state[list[i]]
      BY <3>1, <3>2 DEF ListInv, ListedOnce, TimersTypeOK
    <3>4. state'[list[1]] = "stopped"
      BY <3>1, <3>2 DEF TimersTypeOK
    <3>5. ListedOnce'
      BY <3>1, <3>3, <3>4 DEF ListInv, ListedOnce
    <3>6. StoppedLeavesTheList'
      BY <3>1, <3>2, <3>3 DEF ListInv, StoppedLeavesTheList
    <3> QED
      BY <3>5, <3>6 DEF ListInv
  <2>2. CASE state[Head(list)] # "running"
    BY <1>8, <2>2, SameListInv DEF StopHead
  <2> QED
    BY <2>1, <2>2
<1>9. CASE Crash
  BY <1>9, SameListInv DEF Crash
<1>10. CASE RemoveAnswered
  BY <1>10, ShorterListInv DEF RemoveAnswered
<1>11. CASE UNCHANGED timerVars
  BY <1>11, SameListInv DEF timerVars
<1> QED
  BY <1>1, <1>2, <1>3, <1>4, <1>5, <1>6, <1>7, <1>8, <1>9, <1>10, <1>11 DEF TimersNext

\* A timer that was stopped leaves the list before the next answer comes.
THEOREM StoppedAlwaysLeaves == TimersSpec => []StoppedLeavesTheList
<1>1. TimersInit => ListInv
  BY DEF TimersInit, ListInv, ListedOnce, StoppedLeavesTheList
<1>2. ListInv => StoppedLeavesTheList
  BY DEF ListInv
<1> QED
  BY <1>1, <1>2, TimersTypeCorrect, ListInvStep, PTL DEF TimersSpec

-----------------------------------------------------------------------------
(* Retries. *)

\* A step loses a retrying data request only by stopping its timer.
LEMMA RetriedStep ==
    TimersTypeOK /\ [TimersNext]_timerVars =>
        (kind = "data" /\ Cardinality(Live') < Cardinality(Live)
            => listener = "found" /\ listener' = "stopped")
<1> SUFFICES ASSUME TimersTypeOK, [TimersNext]_timerVars, kind = "data",
                    ~(listener = "found" /\ listener' = "stopped")
             PROVE  ~(Cardinality(Live') < Cardinality(Live))
  OBVIOUS
<1>a. IsFiniteSet(Live) /\ Cardinality(Live) \in Nat
  BY InFinite, FS_CardinalityType DEF Live
<1>b. ASSUME Live' = Live
      PROVE  ~(Cardinality(Live') < Cardinality(Live))
  BY <1>a, <1>b
<1>1. ASSUME NEW t \in Timers, StartTimer(t)
      PROVE  ~(Cardinality(Live') < Cardinality(Live))
  <2>1. Live' = Live \cup {t} /\ t \notin Live
    BY <1>1 DEF StartTimer, IsNext, Live, In, TimersTypeOK
  <2>2. Cardinality(Live') = Cardinality(Live) + 1
    BY <2>1, <1>a, FS_AddElement
  <2> QED
    BY <1>a, <2>2
<1>2. ASSUME NEW t \in Timers, AppendTimer(t)
      PROVE  ~(Cardinality(Live') < Cardinality(Live))
  <2>1. Live' = Live
    BY <1>2 DEF AppendTimer, Live, In, TimersTypeOK
  <2> QED
    BY <1>b, <2>1
<1>3. ASSUME NEW t \in Timers, Expire(t)
      PROVE  ~(Cardinality(Live') < Cardinality(Live))
  <2>1. Live' = Live
    BY <1>3 DEF Expire, Live, In, TimersTypeOK
  <2> QED
    BY <1>b, <2>1
<1>4. ASSUME NEW t \in Timers, RemoveTimer(t)
      PROVE  ~(Cardinality(Live') < Cardinality(Live))
  <2>1. Live' = Live
    BY <1>4 DEF RemoveTimer, Live, In, TimersTypeOK
  <2> QED
    BY <1>b, <2>1
<1>5. ASSUME NEW t \in Timers, SendAgain(t)
      PROVE  ~(Cardinality(Live') < Cardinality(Live))
  <2>1. PICK u \in Timers :
           /\ state[u] = "unused" /\ state[t] = "removed"
           /\ state' = [state EXCEPT ![t] = "done", ![u] = "started"]
    BY <1>5 DEF SendAgain, IsNext
  <2>2. /\ Live' = (Live \ {t}) \cup {u}
        /\ t \in Live /\ u \notin Live
    BY <2>1 DEF Live, In, TimersTypeOK
  <2>3. IsFiniteSet(Live \ {t}) /\ Cardinality(Live \ {t}) = Cardinality(Live) - 1
    BY <2>2, <1>a, FS_RemoveElement
  <2>4. Cardinality(Live') = Cardinality(Live \ {t}) + 1
    BY <2>2, <2>3, FS_AddElement
  <2> QED
    BY <1>a, <2>3, <2>4
<1>6. ASSUME NEW t \in Timers, GiveUp(t)
      PROVE  FALSE
  BY <1>6 DEF GiveUp, MayGiveUp
<1>7. CASE FindTimer
  BY <1>7, <1>b DEF FindTimer, Live, In
<1>8. CASE StopHead
  BY <1>8, <1>b DEF StopHead, Live, In
<1>9. CASE Crash
  BY <1>9, <1>b DEF Crash, Live, In
<1>10. CASE RemoveAnswered
  BY <1>10, <1>b DEF RemoveAnswered, Live, In
<1>11. CASE UNCHANGED timerVars
  BY <1>11, <1>b DEF timerVars, Live, In
<1> QED
  BY <1>1, <1>2, <1>3, <1>4, <1>5, <1>6, <1>7, <1>8, <1>9, <1>10, <1>11 DEF TimersNext

\* The chain of retries of a data request breaks only when an answer stops it.
THEOREM AlwaysRetried == TimersSpec => RetriedUntilAnswered
<1> DEFINE Retried == kind = "data" /\ Cardinality(Live') < Cardinality(Live)
                         => listener = "found" /\ listener' = "stopped"
<1>1. TimersTypeOK /\ [TimersNext]_timerVars => [Retried]_timerVars
  BY RetriedStep
<1>2. TimersSpec => [][Retried]_timerVars
  BY <1>1, TimersTypeCorrect, PTL DEF TimersSpec
<1> QED
  BY <1>2 DEF RetriedUntilAnswered
=============================================================================
