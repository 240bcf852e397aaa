------------------------------ MODULE SimpleMode ------------------------------
(***************************************************************************)
(* Simple mode (simpleProcess.go): a client message goes to all peers, and *)
(* every node sends what it gets on to all peers but the sender.  There is *)
(* no hop limit and nothing is remembered but the peers, to which the      *)
(* sender of every packet is added; so a message comes round for ever in a *)
(* network with a cycle, and is dropped only by UDP.                       *)
(***************************************************************************)
EXTENDS Integers

CONSTANTS
    Node,
    Clients,        \* bound: the nodes whose clients send messages
    Texts,
    InitialPeers,   \* InitialPeers[n]: the -peers flag of n
    MaxShown,       \* bound: how often a node shows one message
    MaxLost         \* bound: packets lost

ASSUME NetworkAssumption ==
    /\ InitialPeers \in [Node -> SUBSET Node]
    /\ \A n \in Node : n \notin InitialPeers[n]
    /\ Clients \subseteq Node
    /\ MaxShown \in Nat /\ MaxLost \in Nat

Message == [origin : Clients, contents : Texts]

VARIABLES
    peers,          \* peers[n]: Peers of n
    packets,        \* packets in flight; copies on one link are one
    shown,          \* shown[n][m]: how often n printed m as received
    audience,       \* audience[m]: the nodes that peers led to when m was sent
    sent,           \* messages sent by clients
    lost

simpleVars == <<peers, packets, shown, audience, sent, lost>>

SimpleTypeOK ==
    /\ peers \in [Node -> SUBSET Node]
    /\ \A n \in Node : n \notin peers[n]
    /\ packets \in SUBSET [from : Node, to : Node, message : Message]
    /\ \A p \in packets : p.to \in peers[p.from] /\ p.message \in sent
    /\ shown \in [Node -> [Message -> 0 .. MaxShown]]
    /\ audience \in [Message -> SUBSET Node]
    /\ sent \in SUBSET Message
    /\ lost \in 0 .. MaxLost

SimpleInit ==
    /\ peers = InitialPeers
    /\ packets = {}
    /\ shown = [n \in Node |-> [m \in Message |-> 0]]
    /\ audience = [m \in Message |-> {}]
    /\ sent = {}
    /\ lost = 0

\* There is a way from n to p over peers: p is in every set with n that has the
\* peers of its members.
WayTo(n, p) ==
    \A S \in SUBSET Node : n \in S /\ (\A k \in S : peers[k] \subseteq S) => p \in S

\* Faulty variant: the sender is not looked for among the peers' addresses.
EchoedCopies(n, m, known, sender) ==
    {[from |-> n, to |-> p, message |-> m] : p \in known}

\* Faulty variant: the loop ends with the first peer that is not the sender.
OneCopy(n, m, known, sender) ==
    IF known \subseteq {sender} THEN {}
    ELSE {[from |-> n, to |-> CHOOSE p \in known : p # sender, message |-> m]}

\* sendSimpleMsgToAllPeersExceptSender; a client message has n itself as sender.
Copies(n, m, known, sender) ==
    {[from |-> n, to |-> p, message |-> m] : p \in known \ {sender}}

\* Faulty variant: peers are those of the command line only.
NothingLearned(n, from) == peers[n]

\* updatePeerList.
Learned(n, from) == peers[n] \cup {from}

ClientMessage(n, t) ==
    LET m == [origin |-> n, contents |-> t]
    IN  /\ m \notin sent
        /\ sent' = sent \cup {m}
        /\ audience' = [audience EXCEPT ![m] = {p \in Node : WayTo(n, p)} \ {n}]
        /\ packets' = packets \cup Copies(n, m, peers[n], n)
        /\ UNCHANGED <<peers, shown, lost>>

Receive(p) ==
    LET n == p.to
    IN  /\ p \in packets
        /\ shown[n][p.message] < MaxShown
        /\ peers' = [peers EXCEPT ![n] = Learned(n, p.from)]
        /\ shown' = [shown EXCEPT ![n][p.message] = @ + 1]
        /\ packets' = (packets \ {p}) \cup Copies(n, p.message, peers'[n], p.from)
        /\ UNCHANGED <<audience, sent, lost>>

Lose(p) ==
    /\ p \in packets
    /\ lost < MaxLost
    /\ lost' = lost + 1
    /\ packets' = packets \ {p}
    /\ UNCHANGED <<peers, shown, audience, sent>>

SimpleNext ==
    \/ \E n \in Clients, t \in Texts : ClientMessage(n, t)
    \/ \E p \in packets : Receive(p) \/ Lose(p)

SimpleSpec == SimpleInit /\ [][SimpleNext]_simpleVars

\* Packets that are not lost arrive; clients owe nothing.
SimpleFairness ==
    \A n, k \in Node, m \in Message :
        WF_simpleVars(Receive([from |-> n, to |-> k, message |-> m]))

(***************************************************************************)
(* Properties.                                                             *)
(***************************************************************************)
\* In a network without a cycle a node shows a message once at most, and its
\* own messages never, although nobody remembers what was shown and peers are
\* learned while messages are under way: a copy that came back over a link that
\* was just learned would be shown again, and sent on again.
OnceEach ==
    \A n \in Node, m \in Message :
        shown[n][m] <= (IF m.origin = n THEN 0 ELSE 1)

\* Whoever is shown a message has a way back to its origin over its peers, even
\* if packets got lost and peers were configured in one direction only: each
\* node on the way learned the one before it.
WayBack ==
    \A n \in Node, m \in Message : shown[n][m] > 0 => WayTo(n, m.origin)

\* If no packet gets lost, every node that peers led to when a message was sent
\* shows it.
AudienceHears ==
    \A m \in Message, n \in Node :
        n \in audience[m] ~> (lost > 0 \/ shown[n][m] > 0)
=============================================================================
