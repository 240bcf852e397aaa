----------------------------- MODULE SearchProofs -----------------------------
(***************************************************************************)
(* What the half-second memory of search requests guarantees in any        *)
(* network, with routes that change at will.                               *)
(***************************************************************************)
EXTENDS SearchRequests, FiniteSetTheorems, TLAPS

-----------------------------------------------------------------------------
(* Types. *)

\* What is dealt out is requests of that key, one to a receiver, none of them empty.
LEMMA DealtType ==
    ASSUME NEW n \in Nodes, NEW key \in Key, NEW budget \in Nat, NEW nb \in Nat \ {0},
           NEW receivers \in SUBSET Nodes,
           NEW sent \in Dealt(n, key, budget, nb, receivers)
    PROVE  /\ IsABag(sent)
           /\ BagToSet(sent) \subseteq Request
           /\ \A r \in BagToSet(sent) : r.key = key
<1>1. PICK lucky \in Lucky(budget, nb, receivers) :
         sent = LET shares == Shares(budget, nb, receivers, lucky)
                IN  SetToBag({[from |-> n, to |-> p, key |-> key, budget |-> shares[p]]
                                 : p \in DOMAIN shares})
  BY DEF Dealt
<1> DEFINE all == budget \div nb
           shares == Shares(budget, nb, receivers, lucky)
           S == {[from |-> n, to |-> p, key |-> key, budget |-> shares[p]]
                    : p \in DOMAIN shares}
<1>3. all \in Nat
  OBVIOUS
<1> HIDE DEF all
<1>4. shares = [p \in {p \in receivers : all > 0 \/ p \in lucky} |->
                   IF p \in lucky THEN all + 1 ELSE all]
  BY DEF Shares, all
<1>5. \A p \in DOMAIN shares : p \in Nodes /\ shares[p] \in Nat \ {0}
  BY <1>3, <1>4
<1> HIDE DEF shares
<1>6. S \subseteq Request /\ \A r \in S : r.key = key
  BY <1>5 DEF Request
<1> HIDE DEF S
<1>7. sent = SetToBag(S)
  BY <1>1 DEF S, shares
<1>8. IsABag(sent) /\ BagToSet(sent) = S
  BY <1>7 DEF IsABag, BagToSet, SetToBag
<1> QED
  BY <1>6, <1>8

\* The same of what a node sends on.
LEMMA OnwardType ==
    ASSUME NEW n \in Nodes, NEW known \in SUBSET Nodes, NEW hop, NEW key \in Key,
           NEW rest \in Nat, NEW sent \in Onward(n, known, hop, key, rest)
    PROVE  /\ IsABag(sent)
           /\ BagToSet(sent) \subseteq Request
           /\ \A r \in BagToSet(sent) : r.key = key
<1> DEFINE others == known \ {hop}
<1>1. others \in SUBSET Nodes /\ IsFiniteSet(others)
  BY PeersAssumption, FS_Subset
<1>2. sent = EmptyBag \/ ( /\ others # {}
                           /\ sent \in Dealt(n, key, rest, Cardinality(others), others) )
  BY DEF Onward
<1>3. CASE sent = EmptyBag
  BY <1>3 DEF EmptyBag, SetToBag, IsABag, BagToSet
<1>4. CASE others # {} /\ sent \in Dealt(n, key, rest, Cardinality(others), others)
  <2>1. Cardinality(others) \in Nat \ {0}
    BY <1>1, <1>4, FS_CardinalityType, FS_EmptySet
  <2> HIDE DEF others
  <2> QED
    BY <1>1, <1>4, <2>1, DealtType
<1> QED
  BY <1>2, <1>3, <1>4

LEMMA BagSum ==
    ASSUME NEW A, NEW B, IsABag(A), IsABag(B)
    PROVE  /\ IsABag(A (+) B)
           /\ BagToSet(A (+) B) = BagToSet(A) \cup BagToSet(B)
BY DEF IsABag, BagToSet, (+)

LEMMA BagDifference ==
    ASSUME NEW A, NEW B, IsABag(A), IsABag(B)
    PROVE  /\ IsABag(A (-) B)
           /\ BagToSet(A (-) B) \subseteq BagToSet(A)
BY DEF IsABag, BagToSet, (-)

LEMMA SingleBag ==
    ASSUME NEW r
    PROVE  IsABag(SetToBag({r}))
BY DEF IsABag, SetToBag

\* The peers of a node are finitely many, and more than nobody after a command.
LEMMA PeersFinite ==
    ASSUME TypeOK, NEW n \in Nodes
    PROVE  /\ peers[n] \in SUBSET Nodes /\ IsFiniteSet(peers[n])
           /\ Cardinality(peers[n]) \in Nat
BY PeersAssumption, FS_Subset, FS_CardinalityType DEF TypeOK

\* What is given out is a number, whatever the number of receivers has become.
LEMMA GivenOutType ==
    ASSUME NEW budget \in Nat, NEW nb \in Nat \ {0}, NEW receivers,
           Cardinality(receivers) \in Nat
    PROVE  GivenOut(budget, nb, receivers) \in Nat
<1>1. budget \div nb \in Nat /\ budget % nb \in Nat
  OBVIOUS
<1>2. (budget \div nb) * Cardinality(receivers) \in Nat
  BY <1>1
<1> QED
  BY <1>1, <1>2 DEF GivenOut

\* The search that a client is at.
LEMMA ClientSearch ==
    ASSUME TypeOK, NEW n \in Nodes, client[n].active
    PROVE  /\ client[n] \in Search
           /\ client[n].budget \in Nat /\ client[n].nbPeers \in Nat \ {0}
           /\ [origin |-> n, keywords |-> client[n].keywords] \in Key
           /\ client[n].nbPeers <= Cardinality(peers[n])
<1>1. client[n] \in Search
  BY DEF TypeOK, NoSearch
<1> QED
  BY <1>1 DEF TypeOK, Search, Key

\* What both clients' steps send out.
LEMMA SendType ==
    ASSUME TypeOK, NEW n \in Nodes, client[n].active, SendToNeighbours(n)
    PROVE  LET key == [origin |-> n, keywords |-> client[n].keywords]
           IN  /\ IsABag(requests') /\ BagToSet(requests') \subseteq Request
               /\ \A r \in BagToSet(requests') : r \in BagToSet(requests) \/ r.key = key
               /\ rounds' = [rounds EXCEPT ![key] = @ + 1]
               /\ rounds' \in [Key -> Nat]
               /\ issued' \in [Key -> Nat]
<1> DEFINE key == [origin |-> n, keywords |-> client[n].keywords]
           budget == client[n].budget
           nb == client[n].nbPeers
           given == GivenOut(budget, nb, peers[n])
<1>1. PICK sent \in Dealt(n, key, budget, nb, peers[n]) : requests' = requests (+) sent
  BY DEF SendToNeighbours
<1>2. /\ key \in Key /\ budget \in Nat /\ nb \in Nat \ {0}
      /\ peers[n] \in SUBSET Nodes /\ Cardinality(peers[n]) \in Nat
  BY ClientSearch, PeersFinite
<1>6. /\ rounds' = [rounds EXCEPT ![key] = @ + 1]
      /\ issued' = [issued EXCEPT ![key] = @ + given]
  BY DEF SendToNeighbours
<1> HIDE DEF key, budget, nb
<1>7. given \in Nat
  BY <1>2, GivenOutType
<1> HIDE DEF given
<1>8. rounds' \in [Key -> Nat] /\ issued' \in [Key -> Nat]
  BY <1>2, <1>6, <1>7 DEF TypeOK
<1>3. /\ IsABag(sent) /\ BagToSet(sent) \subseteq Request
      /\ \A r \in BagToSet(sent) : r.key = key
  BY <1>1, <1>2, DealtType
<1>4. IsABag(requests) /\ BagToSet(requests) \subseteq Request
  BY DEF TypeOK
<1>5. /\ IsABag(requests')
      /\ BagToSet(requests') = BagToSet(requests) \cup BagToSet(sent)
  BY <1>1, <1>3, <1>4, BagSum
<1> QED
  BY <1>3, <1>4, <1>5, <1>6, <1>8 DEF key

\* What a receiver leaves in the network.
LEMMA ReceiveType ==
    ASSUME TypeOK, NEW r \in BagToSet(requests), ReceiveRequest(r)
    PROVE  /\ r \in Request
           /\ IsABag(requests') /\ BagToSet(requests') \subseteq Request
           /\ \A q \in BagToSet(requests') : q \in BagToSet(requests) \/ q.key = r.key
           /\ timers' \in [Nodes -> SUBSET Key]
           /\ peers' \in [Nodes -> SUBSET Nodes]
           /\ \A n \in Nodes : peers[n] \subseteq peers'[n]
           /\ answers' \in [Key -> [Nodes -> Nat]]
           /\ \/ answers' = answers
              \/ /\ IsNew(r.to, r.key)
                 /\ answers' = [answers EXCEPT ![r.key][r.to] = @ + 1]
<1>1. r \in Request /\ IsABag(requests) /\ BagToSet(requests) \subseteq Request
  BY DEF TypeOK
<1> DEFINE known == peers[r.to] \cup {r.from}
<1>2. /\ r.to \in Nodes /\ r.from \in Nodes /\ r.key \in Key
      /\ r.budget \in Nat \ {0} /\ RestOf(r.budget) \in Nat
  BY <1>1 DEF Request, RestOf
<1>7. known \in SUBSET Nodes
  BY <1>2 DEF TypeOK
<1>8. /\ peers' \in [Nodes -> SUBSET Nodes]
      /\ \A n \in Nodes : peers[n] \subseteq peers'[n]
  BY <1>2, <1>7 DEF ReceiveRequest, TypeOK
<1>3. /\ IsABag(requests (-) SetToBag({r}))
      /\ BagToSet(requests (-) SetToBag({r})) \subseteq BagToSet(requests)
  BY <1>1, BagDifference, SingleBag
<1>4. PICK hop \in Hops(r.to, r.key.origin) :
         IF hop # NoHop /\ r.budget > 0 /\ IsNew(r.to, r.key)
         THEN Answer(r, known, hop)
         ELSE /\ requests' = requests (-) SetToBag({r})
              /\ UNCHANGED <<timers, answers>>
  BY DEF ReceiveRequest
<1> HIDE DEF known
<1>5. CASE IsNew(r.to, r.key) /\ Answer(r, known, hop)
  <2>1. PICK sent \in Onward(r.to, known, hop, r.key, RestOf(r.budget)) :
           requests' = (requests (-) SetToBag({r})) (+) sent
    BY <1>5 DEF Answer
  <2>2. /\ IsABag(sent) /\ BagToSet(sent) \subseteq Request
        /\ \A q \in BagToSet(sent) : q.key = r.key
    BY <1>2, <1>7, OnwardType
  <2>3. /\ IsABag(requests')
        /\ BagToSet(requests') = BagToSet(requests (-) SetToBag({r})) \cup BagToSet(sent)
    BY <1>3, <2>1, <2>2, BagSum
  <2>4. /\ timers' \in [Nodes -> SUBSET Key]
        /\ answers' = [answers EXCEPT ![r.key][r.to] = @ + 1]
        /\ answers' \in [Key -> [Nodes -> Nat]]
    BY <1>2, <1>5 DEF Answer, TypeOK
  <2> QED
    BY <1>1, <1>3, <1>5, <1>8, <2>2, <2>3, <2>4
<1>6. CASE requests' = requests (-) SetToBag({r}) /\ UNCHANGED <<timers, answers>>
  BY <1>1, <1>3, <1>6, <1>8 DEF TypeOK
<1> QED
  BY <1>4, <1>5, <1>6

\* Peers are only added, so that the number of them taken at a command is never too
\* large.
LEMMA PeersGrow ==
    ASSUME TypeOK, client' = client, peers' \in [Nodes -> SUBSET Nodes],
           \A n \in Nodes : peers[n] \subseteq peers'[n]
    PROVE  /\ \A n \in Nodes : Peers[n] \subseteq peers'[n]
           /\ \A n \in Nodes : client'[n].active
                 => client'[n].nbPeers <= Cardinality(peers'[n])
<1>1. \A n \in Nodes : Peers[n] \subseteq peers'[n]
  BY DEF TypeOK
<1>2. ASSUME NEW n \in Nodes, client[n].active
      PROVE  client[n].nbPeers <= Cardinality(peers'[n])
  <2>1. IsFiniteSet(peers'[n]) /\ peers[n] \in SUBSET peers'[n]
    BY PeersAssumption, FS_Subset
  <2>2. Cardinality(peers[n]) <= Cardinality(peers'[n])
    BY <2>1, FS_Subset
  <2>3. Cardinality(peers[n]) \in Nat /\ Cardinality(peers'[n]) \in Nat
    BY <2>1, PeersFinite, FS_CardinalityType
  <2>4. client[n].nbPeers \in Nat /\ client[n].nbPeers <= Cardinality(peers[n])
    BY <1>2, ClientSearch
  <2> QED
    BY <2>2, <2>3, <2>4
<1> QED
  BY <1>1, <1>2

\* A command: the search has the number of peers that there are.
LEMMA TypeOfBegin ==
    ASSUME TypeOK, NEW n \in Nodes, NEW p \in BOOLEAN, NEW k \in Keywords,
           NEW b \in Nat, Begin(n, p, k, b)
    PROVE  TypeOK'
<1> DEFINE search == [active |-> TRUE, periodic |-> p, keywords |-> k, budget |-> b,
                      nbPeers |-> Cardinality(peers[n])]
<1>1. Cardinality(peers[n]) \in Nat \ {0}
  BY PeersFinite, FS_EmptySet DEF Begin, CanSearch
<1>2. search \in Search
  BY <1>1 DEF Search
<1>6. search.nbPeers <= Cardinality(peers[n])
  BY <1>1
<1>5. client' = [client EXCEPT ![n] = search]
  BY DEF Begin
<1> HIDE DEF search
<1>3. /\ client' \in [Nodes -> Search \cup {NoSearch}]
      /\ \A m \in Nodes : client'[m].active => client'[m].nbPeers <= Cardinality(peers[m])
  BY <1>2, <1>5, <1>6 DEF TypeOK
<1>4. searches' \in [Nodes -> 0 .. MaxSearches]
  <2>1. searches[n] \in 0 .. MaxSearches /\ searches[n] < MaxSearches
    BY DEF Begin, CanSearch, TypeOK
  <2>2. searches[n] + 1 \in 0 .. MaxSearches
    BY <2>1, SearchesAssumption
  <2> QED
    BY <2>2 DEF Begin, TypeOK
<1> QED
  BY <1>3, <1>4 DEF Begin, TypeOK

LEMMA TypeOKStep == TypeOK /\ [Next]_vars => TypeOK'
<1> SUFFICES ASSUME TypeOK, [Next]_vars
             PROVE  TypeOK'
  OBVIOUS
<1>1. ASSUME NEW n \in Nodes, NEW k \in Keywords, NEW b \in Budgets,
             SearchWithBudget(n, k, b)
      PROVE  TypeOK'
  <2>1. b \in Nat
    BY SearchesAssumption
  <2> QED
    BY <1>1, <2>1, TypeOfBegin DEF SearchWithBudget
<1>2. ASSUME NEW n \in Nodes, NEW k \in Keywords, SearchWithoutBudget(n, k)
      PROVE  TypeOK'
  BY <1>2, TypeOfBegin DEF SearchWithoutBudget
<1>8. ASSUME NEW n \in Nodes, SendOnce(n)
      PROVE  TypeOK'
  <2>1. /\ IsABag(requests') /\ BagToSet(requests') \subseteq Request
        /\ rounds' \in [Key -> Nat] /\ issued' \in [Key -> Nat]
    BY <1>8, SendType DEF SendOnce
  <2>2. /\ client' = [client EXCEPT ![n] = NoSearch]
        /\ UNCHANGED <<peers, remembered, timers, answers, searches, lost>>
    BY <1>8 DEF SendOnce
  <2>3. /\ client' \in [Nodes -> Search \cup {NoSearch}]
        /\ \A m \in Nodes : client'[m].active => client'[m].nbPeers <= Cardinality(peers[m])
    BY <2>2 DEF TypeOK, NoSearch
  <2> QED
    BY <2>1, <2>2, <2>3 DEF TypeOK
<1>3. ASSUME NEW n \in Nodes, Tick(n)
      PROVE  TypeOK'
  <2>1. /\ client[n].active /\ client[n] \in Search /\ client[n].budget \in Nat
        /\ client[n].nbPeers <= Cardinality(peers[n])
    BY <1>3, ClientSearch DEF Tick
  <2>3. UNCHANGED <<peers, remembered, timers, answers, searches, lost>>
    BY <1>3 DEF Tick
  <2>4. CASE /\ client' = [client EXCEPT ![n] = NoSearch]
             /\ UNCHANGED <<requests, rounds, issued>>
    <3>1. /\ client' \in [Nodes -> Search \cup {NoSearch}]
          /\ \A m \in Nodes : client'[m].active => client'[m].nbPeers <= Cardinality(peers[m])
      BY <2>4 DEF TypeOK, NoSearch
    <3> QED
      BY <2>3, <2>4, <3>1 DEF TypeOK
  <2>5. CASE SendToNeighbours(n) /\ client' = [client EXCEPT ![n].budget = 2 * @]
    <3> DEFINE twice == 2 * client[n].budget
               next == [client[n] EXCEPT !.budget = twice]
    <3>5. twice \in Nat
      BY <2>1
    <3>6. client' = [client EXCEPT ![n] = next]
      BY <2>5
    <3> HIDE DEF twice
    <3>3. next \in Search /\ next.nbPeers = client[n].nbPeers
      BY <2>1, <3>5 DEF Search
    <3> HIDE DEF next
    <3>1. /\ client' \in [Nodes -> Search \cup {NoSearch}]
          /\ \A m \in Nodes : client'[m].active => client'[m].nbPeers <= Cardinality(peers[m])
      BY <2>1, <3>3, <3>6 DEF TypeOK
    <3>2. /\ IsABag(requests') /\ BagToSet(requests') \subseteq Request
          /\ rounds' \in [Key -> Nat] /\ issued' \in [Key -> Nat]
      BY <2>1, <2>5, SendType
    <3> QED
      BY <2>3, <3>1, <3>2 DEF TypeOK
  <2> QED
    BY <1>3, <2>4, <2>5 DEF Tick
<1>4. ASSUME NEW r \in BagToSet(requests), ReceiveRequest(r)
      PROVE  TypeOK'
  <2>1. r.to \in Nodes /\ r.key \in Key
    BY <1>4, ReceiveType DEF Request
  <2>2. /\ remembered' \in [Nodes -> SUBSET Key]
        /\ UNCHANGED <<client, rounds, issued, searches, lost>>
    BY <1>4, <2>1 DEF ReceiveRequest, clientVars, TypeOK
  <2>3. /\ IsABag(requests') /\ BagToSet(requests') \subseteq Request
        /\ timers' \in [Nodes -> SUBSET Key]
        /\ peers' \in [Nodes -> SUBSET Nodes]
        /\ \A n \in Nodes : peers[n] \subseteq peers'[n]
        /\ answers' \in [Key -> [Nodes -> Nat]]
    BY <1>4, ReceiveType
  <2>4. /\ \A n \in Nodes : Peers[n] \subseteq peers'[n]
        /\ \A n \in Nodes : client'[n].active
              => client'[n].nbPeers <= Cardinality(peers'[n])
    BY <2>2, <2>3, PeersGrow
  <2> QED
    BY <2>2, <2>3, <2>4 DEF TypeOK
<1>5. ASSUME NEW r \in BagToSet(requests), LoseRequest(r)
      PROVE  TypeOK'
  <2>1. IsABag(requests') /\ BagToSet(requests') \subseteq BagToSet(requests)
    BY <1>5, BagDifference, SingleBag DEF LoseRequest, TypeOK
  <2>2. lost' \in 0 .. MaxLost
    BY <1>5, SearchesAssumption DEF LoseRequest, TypeOK
  <2>3. BagToSet(requests') \subseteq Request
    BY <2>1 DEF TypeOK
  <2> QED
    BY <1>5, <2>1, <2>2, <2>3 DEF LoseRequest, clientVars, TypeOK
<1>6. ASSUME NEW n \in Nodes, NEW key \in timers[n], Forget(n, key)
      PROVE  TypeOK'
  BY <1>6 DEF Forget, clientVars, TypeOK
<1>9. ASSUME NEW n \in Nodes, NEW m \in Nodes, Meet(n, m)
      PROVE  TypeOK'
  <2>1. /\ UNCHANGED <<remembered, timers, client, requests, answers, rounds, issued,
                       searches, lost>>
        /\ peers' = [peers EXCEPT ![n] = @ \cup {m}]
    BY <1>9 DEF Meet, clientVars
  <2>2. /\ peers' \in [Nodes -> SUBSET Nodes]
        /\ \A i \in Nodes : peers[i] \subseteq peers'[i]
    BY <2>1 DEF TypeOK
  <2>3. /\ \A i \in Nodes : Peers[i] \subseteq peers'[i]
        /\ \A i \in Nodes : client'[i].active
              => client'[i].nbPeers <= Cardinality(peers'[i])
    BY <2>1, <2>2, PeersGrow
  <2> QED
    BY <2>1, <2>2, <2>3 DEF TypeOK
<1>7. CASE UNCHANGED vars
  BY <1>7 DEF vars, TypeOK
<1> QED
  BY <1>1, <1>2, <1>3, <1>4, <1>5, <1>6, <1>7, <1>8, <1>9 DEF Next

LEMMA TypeOKInit == Init => TypeOK
<1> SUFFICES ASSUME Init
             PROVE  TypeOK
  OBVIOUS
<1>1. IsABag(EmptyBag) /\ BagToSet(EmptyBag) = {}
  BY DEF EmptyBag, SetToBag, IsABag, BagToSet
<1>2. client \in [Nodes -> Search \cup {NoSearch}] /\ \A n \in Nodes : ~client[n].active
  BY DEF Init, NoSearch
<1> QED
  BY <1>1, <1>2, PeersAssumption, SearchesAssumption DEF Init, TypeOK

\* Every variable keeps its type, in any network; no request with an empty budget
\* is ever sent.
THEOREM TypeCorrect == Spec => []TypeOK
BY TypeOKInit, TypeOKStep, PTL DEF Spec

-----------------------------------------------------------------------------
(* One answer a round. *)

\* A node that has answered all rounds of a search of a prompt origin either
\* remembers it, or none of its requests is left.
RoundsInv ==
    \A key \in Key, n \in Nodes :
        key.origin \notin Slow =>
            /\ answers[key][n] <= rounds[key]
            /\ key \notin remembered[n] /\ ~Arrived(key) => answers[key][n] < rounds[key]

\* A step that answers nothing, starts no round, and neither forgets a search nor
\* brings requests of it.
LEMMA RoundsInvKept ==
    ASSUME TypeOK, RoundsInv, UNCHANGED <<answers, rounds>>,
           \A n \in Nodes : remembered[n] \subseteq remembered'[n],
           \A r \in BagToSet(requests') : \E q \in BagToSet(requests) : q.key = r.key
    PROVE  RoundsInv'
<1>1. \A key \in Key : Arrived(key) => Arrived(key)'
  BY DEF Arrived
<1> QED
  BY <1>1 DEF RoundsInv

LEMMA RoundsInvStep ==
    ASSUME TypeOK, RoundsInv, [Next]_vars
    PROVE  RoundsInv'
<1>1. ASSUME NEW n \in Nodes, client[n].active, SendToNeighbours(n),
             UNCHANGED <<remembered, answers>>
      PROVE  RoundsInv'
  <2> DEFINE key == [origin |-> n, keywords |-> client[n].keywords]
  <2>1. /\ rounds' = [rounds EXCEPT ![key] = @ + 1]
        /\ \A r \in BagToSet(requests') : r \in BagToSet(requests) \/ r.key = key
        /\ key \in Key
    BY <1>1, SendType, ClientSearch
  <2> HIDE DEF key
  <2>2. \A k \in Key : Arrived(k) /\ k # key => Arrived(k)'
    BY <2>1 DEF Arrived
  <2>3. \A k \in Key, m \in Nodes : answers[k][m] \in Nat /\ rounds[k] \in Nat
    BY DEF TypeOK
  <2>4. \A k \in Key : rounds'[k] = IF k = key THEN rounds[k] + 1 ELSE rounds[k]
    BY <2>1 DEF TypeOK
  <2> QED
    BY <1>1, <2>2, <2>3, <2>4 DEF RoundsInv
<1>2. ASSUME NEW n \in Nodes, NEW k \in Keywords, NEW b \in Budgets,
             SearchWithBudget(n, k, b)
      PROVE  RoundsInv'
  BY <1>2, RoundsInvKept DEF SearchWithBudget, Begin
<1>3. ASSUME NEW n \in Nodes, NEW k \in Keywords, SearchWithoutBudget(n, k)
      PROVE  RoundsInv'
  BY <1>3, RoundsInvKept DEF SearchWithoutBudget, Begin
<1>9. ASSUME NEW n \in Nodes, SendOnce(n)
      PROVE  RoundsInv'
  BY <1>1, <1>9 DEF SendOnce
<1>4. ASSUME NEW n \in Nodes, Tick(n)
      PROVE  RoundsInv'
  <2>1. CASE UNCHANGED <<requests, rounds, issued>>
    <3>1. UNCHANGED <<remembered, answers, rounds, requests>>
      BY <1>4, <2>1 DEF Tick
    <3> QED
      BY <3>1, RoundsInvKept
  <2>2. CASE SendToNeighbours(n)
    BY <1>1, <1>4, <2>2 DEF Tick
  <2> QED
    BY <1>4, <2>1, <2>2 DEF Tick
<1>10. ASSUME NEW n \in Nodes, NEW m \in Nodes, Meet(n, m)
      PROVE  RoundsInv'
  BY <1>10, RoundsInvKept DEF Meet, clientVars
<1>5. ASSUME NEW r \in BagToSet(requests), ReceiveRequest(r)
      PROVE  RoundsInv'
  <2>1. /\ r.to \in Nodes /\ r.key \in Key
        /\ \A q \in BagToSet(requests') : q \in BagToSet(requests) \/ q.key = r.key
        /\ \/ answers' = answers
           \/ /\ IsNew(r.to, r.key)
              /\ answers' = [answers EXCEPT ![r.key][r.to] = @ + 1]
    BY <1>5, ReceiveType DEF Request
  <2>2. /\ rounds' = rounds
        /\ remembered' = [remembered EXCEPT ![r.to] = @ \cup {r.key}]
    BY <1>5 DEF ReceiveRequest, clientVars
  <2>3. \A n \in Nodes : remembered[n] \subseteq remembered'[n]
    BY <2>2 DEF TypeOK
  <2>4. CASE answers' = answers
    BY <2>1, <2>2, <2>3, <2>4, RoundsInvKept
  <2>5. CASE /\ IsNew(r.to, r.key)
             /\ answers' = [answers EXCEPT ![r.key][r.to] = @ + 1]
    <3>1. ~Arrived(r.key)
      BY DEF Arrived
    <3>2. r.key.origin \notin Slow => answers[r.key][r.to] < rounds[r.key]
      BY <2>1, <2>5, <3>1 DEF RoundsInv, IsNew
    <3>3. \A k \in Key, m \in Nodes : answers[k][m] \in Nat /\ rounds[k] \in Nat
      BY DEF TypeOK
    <3>4. \A k \in Key, m \in Nodes :
             answers'[k][m] = IF k = r.key /\ m = r.to THEN answers[k][m] + 1
                              ELSE answers[k][m]
      BY <2>1, <2>5 DEF TypeOK
    <3>5. \A k \in Key : Arrived(k) => Arrived(k)'
      BY <2>1, <3>1 DEF Arrived
    <3>6. r.key \in remembered'[r.to]
      BY <2>1, <2>2 DEF TypeOK
    <3>7. ASSUME NEW k \in Key, NEW m \in Nodes
          PROVE  k.origin \notin Slow =>
                    /\ answers'[k][m] <= rounds'[k]
                    /\ k \notin remembered'[m] /\ ~Arrived(k)'
                          => answers'[k][m] < rounds'[k]
      <4>1. CASE k = r.key /\ m = r.to
        BY <2>2, <3>2, <3>3, <3>4, <3>6, <4>1
      <4>2. CASE ~(k = r.key /\ m = r.to)
        BY <2>2, <2>3, <3>3, <3>4, <3>5, <4>2 DEF RoundsInv
      <4> QED
        BY <4>1, <4>2
    <3> QED
      BY <3>7 DEF RoundsInv
  <2> QED
    BY <2>1, <2>4, <2>5
<1>6. ASSUME NEW r \in BagToSet(requests), LoseRequest(r)
      PROVE  RoundsInv'
  <2>1. BagToSet(requests') \subseteq BagToSet(requests)
    BY <1>6, BagDifference, SingleBag DEF LoseRequest, TypeOK
  <2> QED
    BY <1>6, <2>1, RoundsInvKept DEF LoseRequest, clientVars
<1>7. ASSUME NEW n \in Nodes, NEW key \in timers[n], Forget(n, key)
      PROVE  RoundsInv'
  <2>1. /\ key.origin \in Slow \/ Arrived(key)
        /\ UNCHANGED <<requests, answers, rounds>>
    BY <1>7 DEF Forget, clientVars
  <2>2. \A k \in Key, m \in Nodes : k # key /\ k \in remembered[m] => k \in remembered'[m]
    BY <1>7 DEF Forget, TypeOK
  <2>3. \A k \in Key : Arrived(k)' = Arrived(k)
    BY <2>1 DEF Arrived
  <2> QED
    BY <2>1, <2>2, <2>3 DEF RoundsInv
<1>8. CASE UNCHANGED vars
  BY <1>8, RoundsInvKept DEF vars
<1> QED
  BY <1>2, <1>3, <1>4, <1>5, <1>6, <1>7, <1>8, <1>9, <1>10 DEF Next

LEMMA RoundsInvInit == Init => RoundsInv
BY DEF Init, RoundsInv, Arrived, EmptyBag, SetToBag, BagToSet

\* No node of any network answers a round of a search twice, as long as the floods
\* of its origin take less than half a second, whatever cycles the network has and
\* however the routes change.
THEOREM AlwaysOneAnswer == Spec => []OneAnswerPerRound
<1>1. TypeOK /\ RoundsInv /\ [Next]_vars => (TypeOK /\ RoundsInv)'
  BY TypeOKStep, RoundsInvStep
<1>2. Init => TypeOK /\ RoundsInv
  BY TypeOKInit, RoundsInvInit
<1>3. RoundsInv => OneAnswerPerRound
  BY DEF RoundsInv, OneAnswerPerRound
<1> QED
  BY <1>1, <1>2, <1>3, PTL DEF Spec

-----------------------------------------------------------------------------
(* Keys are forgotten. *)

LEMMA RoutedInit == Init => RoutedAreForgotten
BY DEF Init, RoutedAreForgotten, MayAnswer

LEMMA RoutedStep ==
    ASSUME TypeOK, RoutedAreForgotten, [Next]_vars
    PROVE  RoutedAreForgotten'
<1>1. CASE UNCHANGED <<remembered, timers>>
  BY <1>1 DEF RoutedAreForgotten
<1>2. ASSUME NEW r \in BagToSet(requests), ReceiveRequest(r)
      PROVE  RoutedAreForgotten'
  <2>1. /\ r \in Request /\ r.to \in Nodes /\ r.key \in Key
        /\ r.budget \in Nat \ {0}
    BY <1>2, ReceiveType DEF Request
  <2>2. PICK hop \in Hops(r.to, r.key.origin) :
           IF hop # NoHop /\ r.budget > 0 /\ IsNew(r.to, r.key)
           THEN Answer(r, peers[r.to] \cup {r.from}, hop)
           ELSE /\ requests' = requests (-) SetToBag({r})
                /\ UNCHANGED <<timers, answers>>
    BY <1>2 DEF ReceiveRequest
  <2>3. /\ remembered' = [remembered EXCEPT ![r.to] = @ \cup {r.key}]
        /\ remembered \in [Nodes -> SUBSET Key] /\ timers \in [Nodes -> SUBSET Key]
    BY <1>2 DEF ReceiveRequest, TypeOK
  <2>4. \A n \in Nodes : timers[n] \subseteq timers'[n]
    BY <2>2, <2>3 DEF Answer
  <2>5. r.to \in MayAnswer(r.key.origin) /\ r.key \notin remembered[r.to]
           => r.key \in timers'[r.to]
    <3> SUFFICES ASSUME r.to \in MayAnswer(r.key.origin), r.key \notin remembered[r.to]
                 PROVE  r.key \in timers'[r.to]
      OBVIOUS
    <3>1. NoHop \notin Hops(r.to, r.key.origin)
      BY <2>1, PeersAssumption DEF Hops, MayAnswer, TypeOK
    <3>2. Answer(r, peers[r.to] \cup {r.from}, hop)
      BY <2>1, <2>2, <3>1 DEF IsNew
    <3> QED
      BY <2>1, <2>3, <3>2 DEF Answer
  <2>6. ASSUME NEW key \in Key, NEW n \in MayAnswer(key.origin), key \in remembered'[n]
        PROVE  key \in timers'[n]
    <3>1. n \in Nodes
      BY DEF MayAnswer
    <3>2. CASE key \in remembered[n]
      BY <2>4, <3>1, <3>2 DEF RoutedAreForgotten
    <3>3. CASE key \notin remembered[n]
      <4>1. n = r.to /\ key = r.key
        BY <2>1, <2>3, <2>6, <3>1, <3>3
      <4> QED
        BY <2>5, <3>3, <4>1
    <3> QED
      BY <3>2, <3>3
  <2> QED
    BY <2>6 DEF RoutedAreForgotten, MayAnswer
<1>3. ASSUME NEW n \in Nodes, NEW key \in timers[n], Forget(n, key)
      PROVE  RoutedAreForgotten'
  BY <1>3 DEF Forget, RoutedAreForgotten, MayAnswer, TypeOK
<1> QED
  BY <1>1, <1>2, <1>3
  DEF Next, SearchWithBudget, SearchWithoutBudget, Begin, SendOnce, Tick, Meet,
      LoseRequest, vars

\* At a node that always has a route to the origin, whatever is remembered of its
\* searches has a timer that will delete it.
THEOREM RoutedAlwaysForgotten == Spec => []RoutedAreForgotten
BY TypeOKInit, TypeOKStep, RoutedInit, RoutedStep, PTL DEF Spec

-----------------------------------------------------------------------------
(* Budgets, counted unit by unit. *)

\* The units of the requests of key in a bag.
LEMMA UnitsMembers ==
    ASSUME NEW bag, IsABag(bag), BagToSet(bag) \subseteq Request, NEW key, NEW x
    PROVE  x \in Units(bag, key) <=>
              \E r \in BagToSet(bag) : \E c \in 1 .. bag[r] : \E u \in 1 .. r.budget :
                 r.key = key /\ x = <<r, c, u>>
<1>1. ASSUME x \in Units(bag, key)
      PROVE  \E r \in BagToSet(bag) : \E c \in 1 .. bag[r] : \E u \in 1 .. r.budget :
                r.key = key /\ x = <<r, c, u>>
  <2>1. PICK r \in {q \in BagToSet(bag) : q.key = key} :
           x \in {r} \X (1 .. bag[r]) \X (1 .. r.budget)
    BY <1>1 DEF Units
  <2> QED
    BY <2>1
<1>2. ASSUME NEW r \in BagToSet(bag), NEW c \in 1 .. bag[r], NEW u \in 1 .. r.budget,
             r.key = key, x = <<r, c, u>>
      PROVE  x \in Units(bag, key)
  <2>1. x \in {r} \X (1 .. bag[r]) \X (1 .. r.budget)
    BY <1>2
  <2> QED
    BY <1>2, <2>1 DEF Units
<1> QED
  BY <1>1, <1>2

\* In terms of coordinates.
LEMMA UnitsParts ==
    ASSUME NEW bag, IsABag(bag), BagToSet(bag) \subseteq Request, NEW key,
           NEW x \in Units(bag, key)
    PROVE  /\ x = <<x[1], x[2], x[3]>>
           /\ x[1] \in BagToSet(bag) /\ x[1] \in Request /\ x[1].key = key
           /\ bag[x[1]] \in Nat /\ x[1].budget \in Nat
           /\ x[2] \in 1 .. bag[x[1]] /\ x[3] \in 1 .. x[1].budget
<1>1. PICK r \in BagToSet(bag) : \E c \in 1 .. bag[r] : \E u \in 1 .. r.budget :
         r.key = key /\ x = <<r, c, u>>
  BY UnitsMembers
<1>2. r \in Request /\ bag[r] \in Nat /\ r.budget \in Nat
  BY DEF IsABag, BagToSet, Request
<1> QED
  BY <1>1, <1>2

\* Bags put together have no more units than both have.
LEMMA UnitsOfSum ==
    ASSUME NEW A, NEW B, IsABag(A), IsABag(B), NEW key,
           BagToSet(A) \subseteq Request, BagToSet(B) \subseteq Request,
           IsFiniteSet(Units(A, key)), IsFiniteSet(Units(B, key))
    PROVE  /\ IsFiniteSet(Units(A (+) B, key))
           /\ Cardinality(Units(A (+) B, key))
                 <= Cardinality(Units(A, key)) + Cardinality(Units(B, key))
<1> DEFINE C == A (+) B
           \* the units that A does not have, as units of B
           S == Units(C, key) \ Units(A, key)
           inA(r) == IF r \in BagToSet(A) THEN A[r] ELSE 0
           f == [x \in S |-> <<x[1], x[2] - inA(x[1]), x[3]>>]
<1>1. IsABag(C) /\ BagToSet(C) = BagToSet(A) \cup BagToSet(B)
  BY BagSum
<1>2. \A r \in BagToSet(C) :
         C[r] = inA(r) + (IF r \in BagToSet(B) THEN B[r] ELSE 0)
  BY DEF (+), BagToSet
<1>3. BagToSet(C) \subseteq Request
  BY <1>1
<1>4. \A r \in BagToSet(A) : A[r] \in Nat
  BY DEF IsABag, BagToSet
<1>5. \A r : inA(r) \in Nat
  BY <1>4
<1> HIDE DEF C
<1>6. ASSUME NEW x \in S
      PROVE  /\ x = <<x[1], x[2], x[3]>> /\ x[2] \in Nat
             /\ <<x[1], x[2] - inA(x[1]), x[3]>> \in Units(B, key)
  <2>1. /\ x = <<x[1], x[2], x[3]>>
        /\ x[1] \in BagToSet(C) /\ x[1] \in Request /\ x[1].key = key
        /\ C[x[1]] \in Nat /\ x[1].budget \in Nat
        /\ x[2] \in 1 .. C[x[1]] /\ x[3] \in 1 .. x[1].budget
    BY <1>1, <1>3, UnitsParts
  <2> DEFINE r == x[1]
             k == inA(r)
  <2>2. k \in Nat /\ C[r] = k + (IF r \in BagToSet(B) THEN B[r] ELSE 0)
    BY <1>2, <1>5, <2>1
  <2>3. x[2] > k
    <3>1. CASE r \in BagToSet(A)
      <4>1. x[2] \notin 1 .. A[r]
        BY <2>1, <3>1, UnitsMembers
      <4>2. k = A[r] /\ A[r] \in Nat
        BY <1>4, <3>1
      <4> HIDE DEF k, r
      <4>3. x[2] \in Nat /\ x[2] >= 1
        BY <2>1 DEF r
      <4> QED
        BY <4>1, <4>2, <4>3
    <3>2. CASE r \notin BagToSet(A)
      BY <2>1, <3>2
    <3> QED
      BY <3>1, <3>2
  <2> HIDE DEF k, r
  <2>4. x[2] \in Nat /\ x[2] <= C[r] /\ C[r] \in Nat
    BY <2>1 DEF r
  <2>5. r \in BagToSet(B)
    BY <2>2, <2>3, <2>4
  <2>6. B[r] \in Nat
    BY <2>5 DEF IsABag, BagToSet
  <2>7. x[2] - k \in 1 .. B[r]
    BY <2>2, <2>3, <2>4, <2>5, <2>6
  <2>8. <<r, x[2] - k, x[3]>> \in Units(B, key)
    BY <2>1, <2>5, <2>7, UnitsMembers DEF r
  <2> QED
    BY <2>1, <2>4, <2>8 DEF r, k
<1>7. f \in Injection(S, Units(B, key))
  <2>1. f \in [S -> Units(B, key)]
    BY <1>6
  <2>2. ASSUME NEW x \in S, NEW y \in S, f[x] = f[y]
        PROVE  x = y
    <3>1. <<x[1], x[2] - inA(x[1]), x[3]>> = <<y[1], y[2] - inA(y[1]), y[3]>>
      BY <2>2
    <3>2. x[1] = y[1] /\ x[3] = y[3] /\ x[2] - inA(x[1]) = y[2] - inA(y[1])
      BY <3>1
    <3>3. x[2] \in Nat /\ y[2] \in Nat /\ inA(x[1]) \in Nat
      BY <1>5, <1>6
    <3>4. x[2] = y[2]
      <4> DEFINE k == inA(x[1])
      <4>1. k = inA(y[1]) /\ k \in Nat
        BY <3>2, <3>3
      <4>2. x[2] - k = y[2] - k
        BY <3>2, <4>1
      <4> HIDE DEF k
      <4> QED
        BY <3>3, <4>1, <4>2
    <3> QED
      BY <1>6, <3>2, <3>4
  <2> QED
    BY <2>1, <2>2 DEF Injection, IsInjective
<1> HIDE DEF f
<1>8. IsFiniteSet(S) /\ Cardinality(S) <= Cardinality(Units(B, key))
  BY <1>7, FS_Injection
<1>9. /\ IsFiniteSet(Units(A, key) \cup S)
      /\ Cardinality(Units(A, key) \cup S)
            = Cardinality(Units(A, key)) + Cardinality(S)
                 - Cardinality(Units(A, key) \cap S)
  BY <1>8, FS_Union
<1>10. Units(A, key) \cap S = {}
  OBVIOUS
<1>11. Units(C, key) \in SUBSET (Units(A, key) \cup S)
  OBVIOUS
<1> HIDE DEF S
<1>12. /\ IsFiniteSet(Units(C, key))
       /\ Cardinality(Units(C, key)) <= Cardinality(Units(A, key) \cup S)
  BY <1>9, <1>11, FS_Subset
<1>13. /\ Cardinality(Units(A, key)) \in Nat /\ Cardinality(Units(B, key)) \in Nat
       /\ Cardinality(S) \in Nat /\ Cardinality(Units(C, key)) \in Nat
  BY <1>8, <1>12, FS_CardinalityType
<1>14. Cardinality(Units(A, key) \cap S) = 0
  BY <1>10, FS_EmptySet
<1>15. Cardinality(Units(A, key) \cup S) = Cardinality(Units(A, key)) + Cardinality(S)
  BY <1>9, <1>13, <1>14
<1>16. Cardinality(Units(C, key)) <= Cardinality(Units(A, key)) + Cardinality(Units(B, key))
  BY <1>8, <1>12, <1>13, <1>15
<1> QED
  BY <1>12, <1>16 DEF C

\* A request that is taken out takes its budget along.
LEMMA UnitsOfDifference ==
    ASSUME NEW A, IsABag(A), BagToSet(A) \subseteq Request,
           NEW r \in BagToSet(A), NEW key, IsFiniteSet(Units(A, key))
    PROVE  LET left == Units(A (-) SetToBag({r}), key)
           IN  /\ IsFiniteSet(left)
               /\ Cardinality(left) <= Cardinality(Units(A, key))
               /\ r.key = key =>
                     Cardinality(left) + r.budget <= Cardinality(Units(A, key))
<1> DEFINE D == A (-) SetToBag({r})
           left == Units(D, key)
           taken == {<<r, A[r], u>> : u \in 1 .. r.budget}
<1>1. IsABag(D) /\ BagToSet(D) \subseteq BagToSet(A) /\ BagToSet(D) \subseteq Request
  BY BagDifference, SingleBag
<1>2. A[r] \in Nat /\ A[r] >= 1 /\ r \in Request /\ r.budget \in Nat
  BY DEF IsABag, BagToSet, Request
<1>3. \A q \in BagToSet(D) : D[q] = IF q = r THEN A[q] - 1 ELSE A[q]
  BY DEF (-), SetToBag, BagToSet
<1>4. \A q \in BagToSet(A) : A[q] \in Nat
  BY DEF IsABag, BagToSet
<1> HIDE DEF D
<1>5. left \in SUBSET Units(A, key)
  <2> SUFFICES ASSUME NEW x \in left
               PROVE  x \in Units(A, key)
    OBVIOUS
  <2>1. /\ x = <<x[1], x[2], x[3]>>
        /\ x[1] \in BagToSet(D) /\ x[1].key = key
        /\ x[2] \in 1 .. D[x[1]] /\ x[3] \in 1 .. x[1].budget
    BY <1>1, UnitsParts
  <2>2. x[1] \in BagToSet(A) /\ x[2] \in 1 .. A[x[1]]
    BY <1>1, <1>3, <1>4, <2>1
  <2> QED
    BY <2>1, <2>2, UnitsMembers
<1>6. IsFiniteSet(left) /\ Cardinality(left) <= Cardinality(Units(A, key))
  BY <1>5, FS_Subset
<1>7. ASSUME r.key = key
      PROVE  Cardinality(left) + r.budget <= Cardinality(Units(A, key))
  <2>1. taken \in SUBSET Units(A, key)
    <3>1. ASSUME NEW u \in 1 .. r.budget
          PROVE  <<r, A[r], u>> \in Units(A, key)
      <4>1. A[r] \in 1 .. A[r]
        BY <1>2
      <4> QED
        BY <1>7, <4>1, UnitsMembers
    <3> QED
      BY <3>1
  <2>2. left \cap taken = {}
    <3> SUFFICES ASSUME NEW x \in left, x \in taken
                 PROVE  FALSE
      OBVIOUS
    <3>1. x[1] = r /\ x[2] = A[r]
      OBVIOUS
    <3>2. r \in BagToSet(D) /\ x[2] \in 1 .. D[r]
      BY <1>1, <3>1, UnitsParts
    <3> QED
      BY <1>2, <1>3, <3>1, <3>2
  <2>3. IsFiniteSet(taken) /\ Cardinality(taken) >= r.budget
    <3>1. IsFiniteSet(taken)
      BY <2>1, FS_Subset
    <3> DEFINE g == [u \in 1 .. r.budget |-> <<r, A[r], u>>]
    <3>2. g \in Injection(1 .. r.budget, taken)
      BY DEF Injection, IsInjective
    <3>3. Cardinality(1 .. r.budget) <= Cardinality(taken)
      BY <3>1, <3>2, FS_Injection
    <3>4. Cardinality(1 .. r.budget) = r.budget
      BY <1>2, FS_Interval
    <3> QED
      BY <1>2, <3>1, <3>3, <3>4
  <2> HIDE DEF taken, left
  <2>4. /\ IsFiniteSet(left \cup taken)
        /\ Cardinality(left \cup taken)
              = Cardinality(left) + Cardinality(taken) - Cardinality(left \cap taken)
    BY <1>6, <2>3, FS_Union
  <2>5. Cardinality(left \cup taken) <= Cardinality(Units(A, key))
    BY <1>5, <2>1, FS_Subset
  <2>6. Cardinality({}) = 0 /\ Cardinality(left) \in Nat /\ Cardinality(taken) \in Nat
        /\ Cardinality(Units(A, key)) \in Nat
    BY <1>6, <2>3, FS_EmptySet, FS_CardinalityType
  <2>7. Cardinality(left \cup taken) = Cardinality(left) + Cardinality(taken)
    BY <2>2, <2>4, <2>6
  <2> QED
    BY <1>2, <2>3, <2>5, <2>6, <2>7
<1> QED
  BY <1>6, <1>7 DEF D

\* What is dealt out has the units of what is given out at most, all of them units
\* of that key.
LEMMA UnitsOfDealt ==
    ASSUME NEW n \in Nodes, NEW key \in Key, NEW budget \in Nat, NEW nb \in Nat \ {0},
           NEW receivers \in SUBSET Nodes, IsFiniteSet(receivers),
           NEW sent \in Dealt(n, key, budget, nb, receivers), NEW k
    PROVE  /\ IsFiniteSet(Units(sent, k))
           /\ Cardinality(Units(sent, k))
                 <= IF k = key THEN GivenOut(budget, nb, receivers) ELSE 0
<1>1. PICK lucky \in Lucky(budget, nb, receivers) :
         sent = LET shares == Shares(budget, nb, receivers, lucky)
                IN  SetToBag({[from |-> n, to |-> p, key |-> key, budget |-> shares[p]]
                                 : p \in DOMAIN shares})
  BY DEF Dealt
<1> DEFINE number == Cardinality(receivers)
           all == budget \div nb
           over == budget % nb
           given == GivenOut(budget, nb, receivers)
           shares == Shares(budget, nb, receivers, lucky)
           S == {[from |-> n, to |-> p, key |-> key, budget |-> shares[p]]
                    : p \in DOMAIN shares}
           U == Units(sent, k)
<1>2. number \in Nat /\ all \in Nat /\ over \in Nat
  BY FS_CardinalityType
<1>all. all \in Nat
  BY <1>2
<1>given. /\ number * all \in Nat
          /\ given = over + number * all
  <2>1. given = over + (IF all > 0 THEN all * number ELSE 0)
    BY DEF GivenOut
  <2> HIDE DEF number, all, over, given
  <2>2. number * all \in Nat /\ all * number = number * all
    BY <1>2
  <2>3. all = 0 => number * all = 0
    BY <1>2
  <2> QED
    BY <1>2, <2>1, <2>2, <2>3
<1>3. lucky \in SUBSET receivers /\ Cardinality(lucky) = over
  BY DEF Lucky, kSubset
<1> HIDE DEF number, all, over, given
<1>4. shares = [p \in {p \in receivers : all > 0 \/ p \in lucky} |->
                   IF p \in lucky THEN all + 1 ELSE all]
  BY DEF Shares, all
<1>5. \A p \in DOMAIN shares : /\ p \in receivers /\ shares[p] \in Nat
                               /\ shares[p] = IF p \in lucky THEN all + 1 ELSE all
  BY <1>2, <1>4
<1> HIDE DEF shares
<1>6. \A r \in S : /\ r.to \in DOMAIN shares /\ r.key = key
                   /\ r = [from |-> n, to |-> r.to, key |-> key, budget |-> shares[r.to]]
  OBVIOUS
<1> HIDE DEF S
<1>7. sent = SetToBag(S)
  BY <1>1 DEF S, shares
<1>8. /\ IsABag(sent) /\ BagToSet(sent) = S
      /\ \A r \in S : sent[r] = 1
  BY <1>7 DEF IsABag, BagToSet, SetToBag
<1>9. BagToSet(sent) \subseteq Request
  BY DealtType
<1>10. CASE k # key
  <2>1. U = {}
    <3> SUFFICES ASSUME NEW x \in U
                 PROVE  FALSE
      OBVIOUS
    <3>1. x[1] \in S /\ x[1].key = k
      BY <1>8, <1>9, UnitsParts
    <3> QED
      BY <1>6, <1>10, <3>1
  <2> QED
    BY <1>10, <2>1, FS_EmptySet
<1>11. CASE k = key
  <2> DEFINE P == (receivers \X (1 .. all)) \cup (lucky \X {all + 1})
             f == [x \in U |-> <<x[1].to, x[3]>>]
  <2>1. IsFiniteSet(P) /\ Cardinality(P) <= given
    <3>1. /\ IsFiniteSet(receivers \X (1 .. all))
          /\ Cardinality(receivers \X (1 .. all)) = number * all
      <4>1. IsFiniteSet(1 .. all) /\ Cardinality(1 .. all) = all
        BY <1>all, FS_Interval
      <4> QED
        BY <4>1, FS_Product DEF number
    <3>2. /\ IsFiniteSet(lucky \X {all + 1})
          /\ Cardinality(lucky \X {all + 1}) = over
      <4>1. IsFiniteSet(lucky) /\ IsFiniteSet({all + 1}) /\ Cardinality({all + 1}) = 1
        BY <1>3, FS_Subset, FS_Singleton
      <4>2. Cardinality(lucky \X {all + 1}) = Cardinality(lucky) * 1
            /\ IsFiniteSet(lucky \X {all + 1})
        BY <4>1, FS_Product
      <4> QED
        BY <1>2, <1>3, <4>2
    <3> DEFINE A == receivers \X (1 .. all)
               B == lucky \X {all + 1}
    <3> HIDE DEF A, B
    <3>3. /\ IsFiniteSet(A \cup B)
          /\ Cardinality(A \cup B) = Cardinality(A) + Cardinality(B) - Cardinality(A \cap B)
      BY <3>1, <3>2, FS_Union DEF A, B
    <3>4. IsFiniteSet(A \cap B) /\ Cardinality(A \cap B) \in Nat
      BY <3>1, FS_Subset, FS_CardinalityType DEF A
    <3>5. Cardinality(A) = number * all /\ Cardinality(B) = over
      BY <3>1, <3>2 DEF A, B
    <3>6. Cardinality(A \cup B) <= given
      <4> DEFINE product == number * all
      <4>1. product \in Nat /\ given = over + product /\ Cardinality(A) = product
        BY <1>given, <3>5
      <4> HIDE DEF product
      <4> QED
        BY <1>2, <3>3, <3>4, <3>5, <4>1
    <3> QED
      BY <3>3, <3>6 DEF A, B
  <2>2. ASSUME NEW x \in U
        PROVE  /\ x = <<x[1], 1, x[3]>> /\ <<x[1].to, x[3]>> \in P
               /\ x[1] = [from |-> n, to |-> x[1].to, key |-> key, budget |-> shares[x[1].to]]
    <3>1. /\ x = <<x[1], x[2], x[3]>>
          /\ x[1] \in S /\ x[2] \in 1 .. sent[x[1]] /\ x[3] \in 1 .. x[1].budget
      BY <1>8, <1>9, UnitsParts
    <3>2. x[2] = 1
      BY <1>8, <3>1
    <3>3. /\ x[1].to \in DOMAIN shares
          /\ x[1] = [from |-> n, to |-> x[1].to, key |-> key, budget |-> shares[x[1].to]]
      BY <1>6, <3>1
    <3>4. x[1].budget = shares[x[1].to]
      BY <3>3
    <3>5. x[3] \in 1 .. all \/ (x[1].to \in lucky /\ x[3] = all + 1)
      <4>1. CASE x[1].to \in lucky
        <5>1. x[3] \in 1 .. all + 1
          BY <1>5, <3>1, <3>3, <3>4, <4>1
        <5>2. x[3] \in 1 .. all \/ x[3] = all + 1
          BY <1>all, <5>1
        <5> QED
          BY <4>1, <5>2
      <4>2. CASE x[1].to \notin lucky
        BY <1>5, <3>1, <3>3, <3>4, <4>2
      <4> QED
        BY <4>1, <4>2
    <3> QED
      BY <1>5, <3>1, <3>2, <3>3, <3>5
  <2> HIDE DEF U, P
  <2>3. f \in Injection(U, P)
    <3>1. f \in [U -> P]
      BY <2>2
    <3>2. ASSUME NEW x \in U, NEW y \in U, f[x] = f[y]
          PROVE  x = y
      <4>1. x[1].to = y[1].to /\ x[3] = y[3]
        BY <3>2
      <4>2. x[1] = y[1]
        BY <2>2, <4>1
      <4> QED
        BY <2>2, <4>1, <4>2
    <3> QED
      BY <3>1, <3>2 DEF Injection, IsInjective
  <2> HIDE DEF f
  <2>4. IsFiniteSet(U) /\ Cardinality(U) <= Cardinality(P)
    BY <2>1, <2>3, FS_Injection
  <2>5. Cardinality(U) \in Nat /\ Cardinality(P) \in Nat
    BY <2>1, <2>4, FS_CardinalityType
  <2>6. given \in Nat
    BY <1>2, <1>given
  <2>7. Cardinality(U) <= given
    BY <2>1, <2>4, <2>5, <2>6
  <2> QED
    BY <1>11, <2>4, <2>7 DEF U, given
<1> QED
  BY <1>10, <1>11

\* An empty bag has none.
LEMMA NoUnits == \A k : Units(EmptyBag, k) = {}
BY DEF Units, EmptyBag, SetToBag, BagToSet

\* The same of what a node sends on: a rest that is enough for one each is given
\* out as it is.
LEMMA UnitsOfOnward ==
    ASSUME NEW n \in Nodes, NEW known \in SUBSET Nodes, NEW hop, NEW key \in Key,
           NEW rest \in Nat, NEW sent \in Onward(n, known, hop, key, rest), NEW k
    PROVE  /\ IsFiniteSet(Units(sent, k))
           /\ Cardinality(Units(sent, k)) <= IF k = key THEN rest ELSE 0
<1> DEFINE others == known \ {hop}
           number == Cardinality(others)
<1>1. others \in SUBSET Nodes /\ IsFiniteSet(others)
  BY PeersAssumption, FS_Subset
<1>2. sent = EmptyBag \/ ( /\ others # {} /\ rest >= number
                           /\ sent \in Dealt(n, key, rest, number, others) )
  <2>1. number \in Nat
    BY <1>1, FS_CardinalityType
  <2> QED
    BY <2>1 DEF Onward
<1>3. CASE sent = EmptyBag
  <2>1. Units(sent, k) = {}
    BY <1>3, NoUnits
  <2> QED
    BY <2>1, FS_EmptySet
<1>4. CASE /\ others # {} /\ rest >= number
           /\ sent \in Dealt(n, key, rest, number, others)
  <2>1. number \in Nat \ {0}
    BY <1>1, <1>4, FS_CardinalityType, FS_EmptySet
  <2>2. GivenOut(rest, number, others) = rest
    <3>1. GivenOut(rest, number, others)
            = (rest % number) + (IF rest \div number > 0
                                 THEN (rest \div number) * number ELSE 0)
      BY DEF GivenOut
    <3> HIDE DEF number, others
    <3>2. /\ rest % number \in Nat /\ rest \div number \in Nat
          /\ rest = number * (rest \div number) + (rest % number)
          /\ rest % number < number
      BY <2>1
    <3>3. (rest \div number) * number = number * (rest \div number)
      BY <2>1, <3>2
    <3>4. rest \div number = 0 => number * (rest \div number) = 0
      BY <2>1
    <3> DEFINE product == number * (rest \div number)
    <3>5. product \in Nat
      BY <2>1, <3>2
    <3> HIDE DEF product
    <3> QED
      BY <3>1, <3>2, <3>3, <3>4, <3>5 DEF product
  <2> HIDE DEF others, number
  <2> QED
    BY <1>1, <1>4, <2>1, <2>2, UnitsOfDealt
<1> QED
  BY <1>2, <1>3, <1>4

\* What a search has used up and may still use up is what its rounds were given.
BudgetInv ==
    \A key \in Key :
        /\ IsFiniteSet(Replies(key)) /\ IsFiniteSet(Units(requests, key))
        /\ Cardinality(Replies(key)) + Cardinality(Units(requests, key)) <= issued[key]

\* A step that answers nothing, starts no round, and adds no units.
LEMMA BudgetKept ==
    ASSUME BudgetInv, TypeOK, UNCHANGED <<answers, issued>>,
           \A key \in Key :
              /\ IsFiniteSet(Units(requests', key))
              /\ Cardinality(Units(requests', key)) <= Cardinality(Units(requests, key))
    PROVE  BudgetInv'
<1> SUFFICES ASSUME NEW key \in Key
             PROVE  /\ IsFiniteSet(Replies(key)') /\ IsFiniteSet(Units(requests', key))
                    /\ Cardinality(Replies(key)') + Cardinality(Units(requests', key))
                          <= issued'[key]
  BY DEF BudgetInv
<1>1. Replies(key)' = Replies(key)
  BY DEF Replies
<1>2. /\ IsFiniteSet(Replies(key)) /\ IsFiniteSet(Units(requests, key))
      /\ Cardinality(Replies(key)) + Cardinality(Units(requests, key)) <= issued[key]
      /\ issued[key] \in Nat
  BY DEF BudgetInv, TypeOK
<1>3. /\ Cardinality(Replies(key)) \in Nat /\ Cardinality(Units(requests, key)) \in Nat
      /\ Cardinality(Units(requests', key)) \in Nat
  BY <1>2, FS_CardinalityType
<1>4. Cardinality(Units(requests', key)) <= Cardinality(Units(requests, key))
  OBVIOUS
<1> QED
  BY <1>1, <1>2, <1>3, <1>4

\* One answer more is one reply more.
LEMMA OneReply ==
    ASSUME TypeOK, NEW key \in Key, NEW n \in Nodes, IsFiniteSet(Replies(key)),
           answers' = [answers EXCEPT ![key][n] = @ + 1]
    PROVE  /\ IsFiniteSet(Replies(key)')
           /\ Cardinality(Replies(key)') <= Cardinality(Replies(key)) + 1
           /\ \A k \in Key : k # key => Replies(k)' = Replies(k)
<1> DEFINE reply == <<n, answers[key][n] + 1>>
<1>1. answers[key][n] \in Nat
  BY DEF TypeOK
<1>2. \A m \in Nodes :
         answers'[key][m] = IF m = n THEN answers[key][n] + 1 ELSE answers[key][m]
  BY DEF TypeOK
<1>3. Replies(key)' \in SUBSET (Replies(key) \cup {reply})
  <2> SUFFICES ASSUME NEW x \in Replies(key)', x # reply
               PROVE  x \in Replies(key)
    OBVIOUS
  <2>1. PICK m \in Nodes : x \in {m} \X (1 .. answers'[key][m])
    BY DEF Replies
  <2>2. PICK i \in 1 .. answers'[key][m] : x = <<m, i>>
    BY <2>1
  <2>3. i \in 1 .. answers[key][m]
    <3>1. CASE m = n
      <4>1. i \in 1 .. answers[key][n] + 1 /\ i # answers[key][n] + 1
        BY <1>2, <2>2, <3>1
      <4> QED
        BY <1>1, <3>1, <4>1
    <3>2. CASE m # n
      BY <1>2, <3>2
    <3> QED
      BY <3>1, <3>2
  <2> QED
    BY <2>2, <2>3 DEF Replies
<1>4. /\ IsFiniteSet(Replies(key) \cup {reply})
      /\ Cardinality(Replies(key) \cup {reply})
            = IF reply \in Replies(key) THEN Cardinality(Replies(key))
              ELSE Cardinality(Replies(key)) + 1
  BY FS_AddElement
<1>5. /\ IsFiniteSet(Replies(key)')
      /\ Cardinality(Replies(key)') <= Cardinality(Replies(key) \cup {reply})
  BY <1>3, <1>4, FS_Subset
<1>6. Cardinality(Replies(key)) \in Nat /\ Cardinality(Replies(key)') \in Nat
  BY <1>5, FS_CardinalityType
<1>7. \A k \in Key : k # key => Replies(k)' = Replies(k)
  <2>1. \A k \in Key : k # key => answers'[k] = answers[k]
    BY DEF TypeOK
  <2> QED
    BY <2>1 DEF Replies
<1> HIDE DEF reply
<1> QED
  BY <1>4, <1>5, <1>6, <1>7

\* A client's round: it has the units that it gives out.
LEMMA BudgetOfSend ==
    ASSUME TypeOK, BudgetInv, NEW n \in Nodes, client[n].active, SendToNeighbours(n),
           answers' = answers
    PROVE  BudgetInv'
<1> DEFINE key == [origin |-> n, keywords |-> client[n].keywords]
           given == GivenOut(client[n].budget, client[n].nbPeers, peers[n])
<1>1. PICK sent \in Dealt(n, key, client[n].budget, client[n].nbPeers, peers[n]) :
         requests' = requests (+) sent
  BY DEF SendToNeighbours
<1>2. /\ key \in Key
      /\ client[n].budget \in Nat /\ client[n].nbPeers \in Nat \ {0}
      /\ peers[n] \in SUBSET Nodes /\ IsFiniteSet(peers[n])
      /\ Cardinality(peers[n]) \in Nat
  BY ClientSearch, PeersFinite
<1>3. issued' = [issued EXCEPT ![key] = @ + given]
  BY DEF SendToNeighbours
<1> HIDE DEF key
<1>11. given \in Nat
  BY <1>2, GivenOutType
<1>12. \A k : /\ IsFiniteSet(Units(sent, k))
              /\ Cardinality(Units(sent, k)) <= IF k = key THEN given ELSE 0
  BY <1>1, <1>2, UnitsOfDealt
<1>4. /\ IsABag(sent) /\ BagToSet(sent) \subseteq Request
      /\ IsABag(requests) /\ BagToSet(requests) \subseteq Request
  BY <1>1, <1>2, DealtType DEF TypeOK
<1> HIDE DEF given
<1> SUFFICES ASSUME NEW k \in Key
             PROVE  /\ IsFiniteSet(Replies(k)') /\ IsFiniteSet(Units(requests', k))
                    /\ Cardinality(Replies(k)') + Cardinality(Units(requests', k))
                          <= issued'[k]
  BY DEF BudgetInv
<1>5. Replies(k)' = Replies(k)
  BY DEF Replies
<1>6. /\ IsFiniteSet(Replies(k)) /\ IsFiniteSet(Units(requests, k))
      /\ Cardinality(Replies(k)) + Cardinality(Units(requests, k)) <= issued[k]
      /\ issued[k] \in Nat
  BY DEF BudgetInv, TypeOK
<1>7. /\ IsFiniteSet(Units(sent, k))
      /\ Cardinality(Units(sent, k)) <= IF k = key THEN given ELSE 0
  BY <1>12
<1>8. /\ IsFiniteSet(Units(requests', k))
      /\ Cardinality(Units(requests', k))
            <= Cardinality(Units(requests, k)) + Cardinality(Units(sent, k))
  BY <1>1, <1>4, <1>6, <1>7, UnitsOfSum
<1>9. issued'[k] = issued[k] + (IF k = key THEN given ELSE 0)
  BY <1>2, <1>3, <1>6 DEF TypeOK
<1>10. /\ Cardinality(Replies(k)) \in Nat /\ Cardinality(Units(requests, k)) \in Nat
       /\ Cardinality(Units(requests', k)) \in Nat
       /\ Cardinality(Units(sent, k)) \in Nat
  BY <1>6, <1>7, <1>8, FS_CardinalityType
<1> QED
  BY <1>5, <1>6, <1>7, <1>8, <1>9, <1>10, <1>11

\* A node's answer: it is paid for with the unit that is not sent on.
LEMMA BudgetOfAnswer ==
    ASSUME TypeOK, BudgetInv, NEW r \in BagToSet(requests),
           NEW known \in SUBSET Nodes, NEW hop, Answer(r, known, hop), issued' = issued
    PROVE  BudgetInv'
<1>1. /\ IsABag(requests) /\ BagToSet(requests) \subseteq Request
      /\ r.to \in Nodes /\ r.key \in Key /\ r.budget \in Nat \ {0}
  BY DEF TypeOK, Request
<1> DEFINE rest == RestOf(r.budget)
           left == requests (-) SetToBag({r})
<1>2. rest \in Nat /\ rest = r.budget - 1
  BY <1>1 DEF RestOf
<1>3. PICK sent \in Onward(r.to, known, hop, r.key, rest) : requests' = left (+) sent
  BY DEF Answer
<1>4. answers' = [answers EXCEPT ![r.key][r.to] = @ + 1]
  BY DEF Answer
<1> HIDE DEF rest
<1>5. IsABag(sent) /\ BagToSet(sent) \subseteq Request
  <2>1. rest \in Nat /\ r.to \in Nodes /\ r.key \in Key
    BY <1>1, <1>2
  <2> HIDE DEF left
  <2> QED
    BY <2>1, OnwardType
<1>6. IsABag(left) /\ BagToSet(left) \subseteq Request
  BY <1>1, BagDifference, SingleBag
<1> SUFFICES ASSUME NEW k \in Key
             PROVE  /\ IsFiniteSet(Replies(k)') /\ IsFiniteSet(Units(requests', k))
                    /\ Cardinality(Replies(k)') + Cardinality(Units(requests', k))
                          <= issued[k]
  BY DEF BudgetInv
<1>7. /\ IsFiniteSet(Replies(k)) /\ IsFiniteSet(Units(requests, k))
      /\ Cardinality(Replies(k)) + Cardinality(Units(requests, k)) <= issued[k]
      /\ issued[k] \in Nat
  BY DEF BudgetInv, TypeOK
<1>8. /\ IsFiniteSet(Units(left, k))
      /\ Cardinality(Units(left, k)) <= Cardinality(Units(requests, k))
      /\ r.key = k =>
            Cardinality(Units(left, k)) + r.budget <= Cardinality(Units(requests, k))
  BY <1>1, <1>7, UnitsOfDifference
<1>9. /\ IsFiniteSet(Units(sent, k))
      /\ Cardinality(Units(sent, k)) <= IF k = r.key THEN rest ELSE 0
  BY <1>1, <1>2, UnitsOfOnward
<1> HIDE DEF left
<1>10. /\ IsFiniteSet(Units(requests', k))
       /\ Cardinality(Units(requests', k))
             <= Cardinality(Units(left, k)) + Cardinality(Units(sent, k))
  BY <1>3, <1>5, <1>6, <1>8, <1>9, UnitsOfSum
<1>11. /\ IsFiniteSet(Replies(k)')
       /\ Cardinality(Replies(k)') <= Cardinality(Replies(k)) + (IF k = r.key THEN 1 ELSE 0)
  <2>1. IsFiniteSet(Replies(r.key))
    BY <1>1 DEF BudgetInv
  <2>2. /\ IsFiniteSet(Replies(r.key)')
        /\ Cardinality(Replies(r.key)') <= Cardinality(Replies(r.key)) + 1
        /\ k # r.key => Replies(k)' = Replies(k)
    BY <1>1, <1>4, <2>1, OneReply
  <2>3. Cardinality(Replies(k)) \in Nat
    BY <1>7, FS_CardinalityType
  <2>4. CASE k = r.key
    BY <2>2, <2>4
  <2>5. CASE k # r.key
    BY <1>7, <2>2, <2>3, <2>5
  <2> QED
    BY <2>4, <2>5
<1>12. /\ Cardinality(Replies(k)) \in Nat /\ Cardinality(Units(requests, k)) \in Nat
       /\ Cardinality(Replies(k)') \in Nat
       /\ Cardinality(Units(requests', k)) \in Nat
       /\ Cardinality(Units(left, k)) \in Nat /\ Cardinality(Units(sent, k)) \in Nat
  BY <1>7, <1>8, <1>9, <1>10, <1>11, FS_CardinalityType
<1>13. Cardinality(Replies(k)') + Cardinality(Units(requests', k)) <= issued[k]
  <2>1. CASE k = r.key
    BY <1>1, <1>2, <1>7, <1>8, <1>9, <1>10, <1>11, <1>12, <2>1
  <2>2. CASE k # r.key
    BY <1>7, <1>8, <1>9, <1>10, <1>11, <1>12, <2>2
  <2> QED
    BY <2>1, <2>2
<1> QED
  BY <1>10, <1>11, <1>13

\* A request that is taken from the network and not answered.
LEMMA BudgetOfLoss ==
    ASSUME TypeOK, BudgetInv, NEW r \in BagToSet(requests),
           requests' = requests (-) SetToBag({r}), UNCHANGED <<answers, issued>>
    PROVE  BudgetInv'
<1>1. \A key \in Key : IsFiniteSet(Units(requests, key))
  BY DEF BudgetInv
<1>2. IsABag(requests) /\ BagToSet(requests) \subseteq Request
  BY DEF TypeOK
<1>3. \A key \in Key :
         /\ IsFiniteSet(Units(requests', key))
         /\ Cardinality(Units(requests', key)) <= Cardinality(Units(requests, key))
  BY <1>1, <1>2, UnitsOfDifference
<1> QED
  BY <1>3, BudgetKept

\* A step that leaves the requests where they are.
LEMMA BudgetOfQuiet ==
    ASSUME TypeOK, BudgetInv, UNCHANGED <<requests, answers, issued>>
    PROVE  BudgetInv'
<1>1. \A key \in Key :
         /\ IsFiniteSet(Units(requests, key))
         /\ Cardinality(Units(requests, key)) \in Nat
  BY FS_CardinalityType DEF BudgetInv
<1>2. \A key \in Key : Cardinality(Units(requests', key)) <= Cardinality(Units(requests, key))
  BY <1>1
<1> QED
  BY <1>1, <1>2, BudgetKept

LEMMA BudgetInvStep ==
    ASSUME TypeOK, BudgetInv, [Next]_vars
    PROVE  BudgetInv'
<1>1. ASSUME NEW n \in Nodes, NEW k \in Keywords, NEW b \in Budgets,
             SearchWithBudget(n, k, b)
      PROVE  BudgetInv'
  BY <1>1, BudgetOfQuiet DEF SearchWithBudget, Begin
<1>2. ASSUME NEW n \in Nodes, NEW k \in Keywords, SearchWithoutBudget(n, k)
      PROVE  BudgetInv'
  BY <1>2, BudgetOfQuiet DEF SearchWithoutBudget, Begin
<1>8. ASSUME NEW n \in Nodes, SendOnce(n)
      PROVE  BudgetInv'
  BY <1>8, BudgetOfSend DEF SendOnce
<1>3. ASSUME NEW n \in Nodes, Tick(n)
      PROVE  BudgetInv'
  BY <1>3, BudgetOfQuiet, BudgetOfSend DEF Tick
<1>4. ASSUME NEW r \in BagToSet(requests), ReceiveRequest(r)
      PROVE  BudgetInv'
  <2>1. issued' = issued
    BY <1>4 DEF ReceiveRequest, clientVars
  <2>2. PICK hop : \/ Answer(r, peers[r.to] \cup {r.from}, hop)
                   \/ ( /\ requests' = requests (-) SetToBag({r})
                        /\ UNCHANGED <<timers, answers>> )
    BY <1>4 DEF ReceiveRequest
  <2>3. peers[r.to] \cup {r.from} \in SUBSET Nodes
    BY DEF TypeOK, Request
  <2> QED
    BY <2>1, <2>2, <2>3, BudgetOfAnswer, BudgetOfLoss
<1>9. ASSUME NEW n \in Nodes, NEW m \in Nodes, Meet(n, m)
      PROVE  BudgetInv'
  BY <1>9, BudgetOfQuiet DEF Meet, clientVars
<1>5. ASSUME NEW r \in BagToSet(requests), LoseRequest(r)
      PROVE  BudgetInv'
  BY <1>5, BudgetOfLoss DEF LoseRequest, clientVars
<1>6. ASSUME NEW n \in Nodes, NEW key \in timers[n], Forget(n, key)
      PROVE  BudgetInv'
  BY <1>6, BudgetOfQuiet DEF Forget, clientVars
<1>7. CASE UNCHANGED vars
  BY <1>7, BudgetOfQuiet DEF vars
<1> QED
  BY <1>1, <1>2, <1>3, <1>4, <1>5, <1>6, <1>7, <1>8, <1>9 DEF Next

LEMMA BudgetInvInit == Init => BudgetInv
<1> SUFFICES ASSUME Init, NEW key \in Key
             PROVE  /\ IsFiniteSet(Replies(key)) /\ IsFiniteSet(Units(requests, key))
                    /\ Cardinality(Replies(key)) + Cardinality(Units(requests, key))
                          <= issued[key]
  BY DEF BudgetInv
<1>1. Units(requests, key) = {}
  BY NoUnits DEF Init
<1>2. Replies(key) = {}
  <2>1. \A n \in Nodes : answers[key][n] = 0
    BY DEF Init
  <2>2. \A n \in Nodes : 1 .. answers[key][n] = {}
    BY <2>1
  <2> QED
    BY <2>2 DEF Replies
<1>3. issued[key] = 0
  BY DEF Init
<1> QED
  BY <1>1, <1>2, <1>3, FS_EmptySet

\* A search never gets more answers, sent or still to come, than the budgets its
\* origin sent out, in any network, over cycles, losses, routes that change, peers
\* met under way, and timers that end in the middle of a flood.
THEOREM BudgetAlwaysKept == Spec => []BudgetIsKept
<1>1. TypeOK /\ BudgetInv /\ [Next]_vars => (TypeOK /\ BudgetInv)'
  BY TypeOKStep, BudgetInvStep
<1>2. Init => TypeOK /\ BudgetInv
  BY TypeOKInit, BudgetInvInit
<1>3. BudgetInv => BudgetIsKept
  BY DEF BudgetInv, BudgetIsKept
<1> QED
  BY <1>1, <1>2, <1>3, PTL DEF Spec
=============================================================================
