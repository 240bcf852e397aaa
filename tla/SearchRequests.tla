---------------------------- MODULE SearchRequests ----------------------------
(***************************************************************************)
(* The spreading of search requests: a client's search with a budget, the  *)
(* periodic search without one, and the nodes that answer a request and    *)
(* divide what is left of its budget among their peers.  A node tells      *)
(* repeated requests by their origin and keywords, which a timer of half a *)
(* second forgets.  Nodes learn of peers from the packets they receive,    *)
(* while searches go on.  What the replies say is modelled in              *)
(* SearchMatches.                                                          *)
(***************************************************************************)
EXTENDS Naturals, FiniteSets, FiniteSetsExt, Bags

CONSTANTS
    Nodes,
    Keywords,       \* what can be searched for
    Peers,          \* Peers[n]: the peers that n knows at first
    NextHops,       \* NextHops[n][o]: what the routing table of n may say for o
    NoHop,          \* there is no route
    Budgets,        \* budgets that clients give
    MaxBudget,      \* MAX_BUDGET
    Owners,         \* nodes with files that match
    Slow,           \* origins whose floods may outlast the half second of the timers
    Budgeting,      \* bound: the nodes whose clients search with a budget
    Repeating,      \* bound: the nodes whose clients search without one
    MaxSearches,    \* bound: searches of one client
    MaxLost         \* bound: requests lost

ASSUME PeersAssumption ==
    /\ IsFiniteSet(Nodes)
    /\ Peers \in [Nodes -> SUBSET Nodes]
    /\ \A n \in Nodes : n \notin Peers[n]
    /\ NoHop \notin Nodes
    /\ \A n, o \in Nodes : NextHops[n][o] \subseteq Nodes \cup {NoHop}
    /\ \A n \in Nodes : NextHops[n][n] = {NoHop}
ASSUME SearchesAssumption ==
    /\ Budgets \subseteq Nat \ {0}
    /\ MaxBudget \in Nat /\ MaxSearches \in Nat /\ MaxLost \in Nat
    /\ Slow \subseteq Nodes /\ Budgeting \subseteq Nodes /\ Repeating \subseteq Nodes
    /\ Owners \subseteq Nodes

VARIABLES
    peers,          \* peers[n]: gossiper.Peers of n
    remembered,     \* remembered[n]: keys of SafeOriginAndKeywords
    timers,         \* timers[n]: keys with a running search request timer
    client,         \* client[n]: the search that the client's goroutine is at
    requests,       \* bag of the search requests in flight
    answers,        \* answers[k][n]: replies that n has sent to requests of k
    rounds,         \* rounds[k]: times the origin has sent out requests of k
    issued,         \* issued[k]: sum of the budgets that it has sent out
    searches,       \* searches[n]: searches of the client of n so far
    lost            \* requests lost so far

clientVars == <<client, rounds, issued, searches>>
vars == <<peers, remembered, timers, client, requests, answers, rounds, issued,
          searches, lost>>

Key == [origin : Nodes, keywords : Keywords]
Request == [from : Nodes, to : Nodes, key : Key, budget : Nat \ {0}]
NoSearch == [active |-> FALSE]
Search == [active : {TRUE}, periodic : BOOLEAN, keywords : Keywords, budget : Nat,
           nbPeers : Nat \ {0}]

TypeOK ==
    /\ peers \in [Nodes -> SUBSET Nodes]
    /\ \A n \in Nodes : Peers[n] \subseteq peers[n]
    /\ remembered \in [Nodes -> SUBSET Key]
    /\ timers \in [Nodes -> SUBSET Key]
    /\ client \in [Nodes -> Search \cup {NoSearch}]
    /\ \A n \in Nodes : client[n].active => client[n].nbPeers <= Cardinality(peers[n])
    /\ IsABag(requests) /\ BagToSet(requests) \subseteq Request
    /\ answers \in [Key -> [Nodes -> Nat]]
    /\ rounds \in [Key -> Nat]
    /\ issued \in [Key -> Nat]
    /\ searches \in [Nodes -> 0 .. MaxSearches]
    /\ lost \in 0 .. MaxLost

Init ==
    /\ peers = Peers
    /\ remembered = [n \in Nodes |-> {}]
    /\ timers = [n \in Nodes |-> {}]
    /\ client = [n \in Nodes |-> NoSearch]
    /\ requests = EmptyBag
    /\ answers = [k \in Key |-> [n \in Nodes |-> 0]]
    /\ rounds = [k \in Key |-> 0]
    /\ issued = [k \in Key |-> 0]
    /\ searches = [n \in Nodes |-> 0]
    /\ lost = 0

(***************************************************************************)
(* Budgets.                                                                *)
(***************************************************************************)
\* A budget is divided by nb, and what is left over goes to some of the peers, drawn
\* at random (getDistributionOfBudget).
Lucky(budget, nb, receivers) == kSubset(budget % nb, receivers)

\* What the receivers get; a share of nothing is not sent.
Shares(budget, nb, receivers, lucky) ==
    LET all == budget \div nb
    IN  [p \in {p \in receivers : all > 0 \/ p \in lucky} |->
            IF p \in lucky THEN all + 1 ELSE all]

\* The requests of key that n may send out for a budget, in all.
Dealt(n, key, budget, nb, receivers) ==
    {LET shares == Shares(budget, nb, receivers, lucky)
     IN  SetToBag({[from |-> n, to |-> p, key |-> key, budget |-> shares[p]]
                      : p \in DOMAIN shares})
        : lucky \in Lucky(budget, nb, receivers)}

\* The sum of their budgets: the budget that was divided, if there are nb receivers.
GivenOut(budget, nb, receivers) ==
    LET all == budget \div nb
    IN  (budget % nb) + (IF all > 0 THEN all * Cardinality(receivers) ELSE 0)

(***************************************************************************)
(* The client: Search, with and without a budget.                          *)
(***************************************************************************)
\* The budget is divided by the number of peers there were at the command, and sent
\* to the peers there are now (sendSearchRequestToNeighbours).
SendToNeighbours(n) ==
    LET search == client[n]
        key == [origin |-> n, keywords |-> search.keywords]
    IN  /\ \E sent \in Dealt(n, key, search.budget, search.nbPeers, peers[n]) :
              requests' = requests (+) sent
        /\ rounds' = [rounds EXCEPT ![key] = @ + 1]
        /\ issued' = [issued EXCEPT ![key] =
                         @ + GivenOut(search.budget, search.nbPeers, peers[n])]

\* The client's goroutine is free, and there are peers.
CanSearch(n) ==
    /\ ~client[n].active
    /\ peers[n] # {}
    /\ searches[n] < MaxSearches

Begin(n, periodic, keywords, budget) ==
    /\ CanSearch(n)
    /\ client' = [client EXCEPT ![n] =
                     [active |-> TRUE, periodic |-> periodic, keywords |-> keywords,
                      budget |-> budget, nbPeers |-> Cardinality(peers[n])]]
    /\ searches' = [searches EXCEPT ![n] = @ + 1]
    /\ UNCHANGED <<peers, remembered, timers, requests, answers, rounds, issued, lost>>

SearchWithBudget(n, keywords, budget) ==
    n \in Budgeting /\ Begin(n, FALSE, keywords, budget)

SearchWithoutBudget(n, keywords) ==
    n \in Repeating /\ Begin(n, TRUE, keywords, 2)

\* A search with a budget is sent out at once.
SendOnce(n) ==
    /\ client[n].active /\ ~client[n].periodic
    /\ SendToNeighbours(n)
    /\ client' = [client EXCEPT ![n] = NoSearch]
    /\ UNCHANGED <<peers, remembered, timers, answers, searches, lost>>

\* No request of key is on its way.
Arrived(key) == \A r \in BagToSet(requests) : r.key # key

\* Replies of owners have come in; whether they amount to the two matches that
\* end a search is left open.
MayBeFound(key) == \E n \in Owners : answers[key][n] > 0

\* One second later (sendPeriodicalSearchRequest).
Tick(n) ==
    LET search == client[n]
        key == [origin |-> n, keywords |-> search.keywords]
    IN  /\ search.active /\ search.periodic
        /\ n \in Slow \/ (Arrived(key) /\ \A m \in Nodes : key \notin timers[m])
        /\ \/ /\ search.budget > MaxBudget \/ MayBeFound(key)
              /\ client' = [client EXCEPT ![n] = NoSearch]
              /\ UNCHANGED <<requests, rounds, issued>>
           \/ /\ search.budget <= MaxBudget
              /\ SendToNeighbours(n)
              /\ client' = [client EXCEPT ![n].budget = 2 * @]
        /\ UNCHANGED <<peers, remembered, timers, answers, searches, lost>>

(***************************************************************************)
(* The handler of search requests.                                         *)
(***************************************************************************)
\* Faulty variant: the node does not count itself.
WholeBudget(budget) == budget

\* The node itself takes one of the budget.
RestOf(budget) == budget - 1

\* What may be sent on: to all peers but the next hop towards the origin.  A rest
\* that is not enough for one each is not sent on at all.
Onward(n, known, hop, key, rest) ==
    LET others == known \ {hop}
    IN  IF rest = 0 \/ others = {} \/ rest < Cardinality(others) THEN {EmptyBag}
        ELSE Dealt(n, key, rest, Cardinality(others), others)

\* Faulty variant: a request that was answered a moment ago is not told.
NeverSeen(n, key) == TRUE

IsNew(n, key) == key \notin remembered[n]

Answer(r, known, hop) ==
    /\ timers' = [timers EXCEPT ![r.to] = @ \cup {r.key}]
    /\ answers' = [answers EXCEPT ![r.key][r.to] = @ + 1]
    /\ \E sent \in Onward(r.to, known, hop, r.key, RestOf(r.budget)) :
          requests' = (requests (-) SetToBag({r})) (+) sent

\* Routes lead over peers, from which their rumors came.
Hops(n, o) ==
    LET over == NextHops[n][o] \cap peers[n]
    IN  over \cup (IF over = {} \/ NoHop \in NextHops[n][o] THEN {NoHop} ELSE {})

\* The sender of any packet becomes a peer (updatePeerList).
ReceiveRequest(r) ==
    LET known == peers[r.to] \cup {r.from}
    IN  /\ BagIn(r, requests)
        /\ peers' = [peers EXCEPT ![r.to] = known]
        /\ \E hop \in Hops(r.to, r.key.origin) :
              IF hop # NoHop /\ r.budget > 0 /\ IsNew(r.to, r.key)
              THEN Answer(r, known, hop)
              ELSE /\ requests' = requests (-) SetToBag({r})
                   /\ UNCHANGED <<timers, answers>>
        /\ remembered' = [remembered EXCEPT ![r.to] = @ \cup {r.key}]
        /\ UNCHANGED <<clientVars, lost>>

\* A packet of another kind comes from m.
Meet(n, m) ==
    /\ n \in peers[m] /\ m \notin peers[n]
    /\ peers' = [peers EXCEPT ![n] = @ \cup {m}]
    /\ UNCHANGED <<remembered, timers, requests, answers, clientVars, lost>>

\* Faulty variant: the timer ends and the key stays.
TimerEnds(n, key) ==
    /\ key \in timers[n]
    /\ key.origin \in Slow \/ Arrived(key)
    /\ timers' = [timers EXCEPT ![n] = @ \ {key}]
    /\ UNCHANGED <<peers, remembered, requests, answers, clientVars, lost>>

\* Half a second later (setSearchRequestTimer).
Forget(n, key) ==
    /\ key \in timers[n]
    /\ key.origin \in Slow \/ Arrived(key)
    /\ timers' = [timers EXCEPT ![n] = @ \ {key}]
    /\ remembered' = [remembered EXCEPT ![n] = @ \ {key}]
    /\ UNCHANGED <<peers, requests, answers, clientVars, lost>>

LoseRequest(r) ==
    /\ BagIn(r, requests)
    /\ lost < MaxLost
    /\ requests' = requests (-) SetToBag({r})
    /\ lost' = lost + 1
    /\ UNCHANGED <<peers, remembered, timers, answers, clientVars>>

Next ==
    \/ \E n \in Nodes, k \in Keywords, b \in Budgets : SearchWithBudget(n, k, b)
    \/ \E n \in Nodes, k \in Keywords : SearchWithoutBudget(n, k)
    \/ \E n \in Nodes : SendOnce(n) \/ Tick(n)
    \/ \E n, m \in Nodes : Meet(n, m)
    \/ \E r \in BagToSet(requests) : ReceiveRequest(r) \/ LoseRequest(r)
    \/ \E n \in Nodes : \E key \in timers[n] : Forget(n, key)

Spec == Init /\ [][Next]_vars

\* Tickers tick, timers fire, and what is not lost arrives.
Fairness ==
    /\ \A n \in Budgeting : WF_vars(SendOnce(n))
    /\ \A n \in Repeating : WF_vars(Tick(n))
    /\ WF_vars(\E r \in BagToSet(requests) : ReceiveRequest(r))
    /\ WF_vars(\E n \in Nodes : \E key \in timers[n] : Forget(n, key))

FairSpec == Spec /\ Fairness

(***************************************************************************)
(* Properties.                                                             *)
(***************************************************************************)
\* The budgets of the requests of key in a bag, unit by unit.
Units(bag, key) ==
    UNION {{r} \X (1 .. bag[r]) \X (1 .. r.budget) :
              r \in {r \in BagToSet(bag) : r.key = key}}

\* The answers to requests of key, one by one.
Replies(key) == UNION {{n} \X (1 .. answers[key][n]) : n \in Nodes}

\* However a budget is divided and divided again, over cycles, over timers that end
\* in the middle of a flood and among peers that are met on the way, a search never
\* gets more answers, sent or still to come, than the budgets its origin sent out.
BudgetIsKept ==
    \A key \in Key :
        Cardinality(Replies(key)) + Cardinality(Units(requests, key)) <= issued[key]

\* As long as the floods of an origin take less than half a second, a node answers
\* each round of its searches once at most, on however many ways requests come.
OneAnswerPerRound ==
    \A key \in Key, n \in Nodes :
        key.origin \notin Slow => answers[key][n] <= rounds[key]

\* Every node that always has a route to the origin.
MayAnswer(o) ==
    {n \in Nodes \ {o} : NoHop \notin NextHops[n][o] /\ NextHops[n][o] \cap Peers[n] # {}}

\* A search without a budget reaches nodes that its first rounds are too small
\* for: the nodes in between forget it from one round to the next.
EveryNodeIsAsked ==
    \A n \in Repeating \ Slow, k \in Keywords :
        LET key == [origin |-> n, keywords |-> k]
        IN  (client[n].active /\ client[n].periodic /\ client[n].keywords = k)
                ~> (MayBeFound(key) \/ \A m \in MayAnswer(n) : answers[key][m] > 0)

\* SafeOriginAndKeywords is "to keep track of requests in the last 0.5 seconds"
\* (main.go:779), but the key is put there before the route is looked up, and the
\* timer that deletes it is started after that.  At a node that always has a route
\* to the origin, a timer runs for every key that is remembered; at other nodes,
\* and at the origin itself, a key may stay for ever.
RoutedAreForgotten ==
    \A key \in Key : \A n \in MayAnswer(key.origin) :
        key \in remembered[n] => key \in timers[n]

\* "the total budget allocated and the total budget received is not the same"
\* (main.go:223): a round gives out the budget it was made for.  It does not hold:
\* the peers met since the command get the share of those there were.
RoundGivesBudget ==
    \A n \in Nodes :
        client[n].active =>
            GivenOut(client[n].budget, client[n].nbPeers, peers[n]) = client[n].budget
=============================================================================
