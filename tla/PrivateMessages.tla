---------------------------- MODULE PrivateMessages ----------------------------
(***************************************************************************)
(* Private messages over the routes that gossip builds.  A node hands a    *)
(* message on to its next hop towards the destination, as the table stands *)
(* when the message comes through, until the hop limit is used up.  Data   *)
(* requests, data replies and search replies are handed on by the same     *)
(* rule.                                                                   *)
(***************************************************************************)
EXTENDS Gossip

CONSTANTS
    HopLimit,       \* NORMAL_HOP_LIMIT
    Writers,        \* bound: the nodes whose clients write private messages
    MaxPrivate      \* bound: private messages sent

ASSUME PrivateAssumption ==
    /\ HopLimit \in Nat /\ MaxPrivate \in Nat
    /\ Writers \subseteq Nodes

VARIABLES
    private,        \* private messages in flight
    inbox,          \* inbox[n]: gossiper.PrivateMessages, as origin and hops left
    sent            \* private messages sent so far

privateVars == <<private, inbox, sent>>

Letter == [from : Nodes, to : Nodes, origin : Nodes, dest : Nodes, hops : 0 .. HopLimit]

PrivateTypeOK ==
    /\ TypeOK
    /\ private \subseteq Letter
    /\ inbox \in [Nodes -> Seq([origin : Nodes, hops : 0 .. HopLimit])]
    /\ sent \in 0 .. MaxPrivate

PrivateInit ==
    /\ Init
    /\ private = {}
    /\ inbox = [n \in Nodes |-> <<>>]
    /\ sent = 0

\* Private of the client: without a route nothing is sent.
SendPrivate(n, dest) ==
    /\ sent < MaxPrivate
    /\ routes[n][dest] # Empty
    /\ private' = private \cup {[from |-> n, to |-> routes[n][dest],
                                 origin |-> n, dest |-> dest, hops |-> HopLimit]}
    /\ sent' = sent + 1
    /\ UNCHANGED <<vars, inbox>>

\* There is a next hop and the message may still be handed on.
MayForward(m) == routes[m.to][m.dest] # Empty /\ m.hops > 0

Forwarded(m) ==
    IF MayForward(m)
    THEN {[m EXCEPT !.from = m.to, !.to = routes[m.to][m.dest], !.hops = @ - 1]}
    ELSE {}

ReceivePrivate(m) ==
    /\ AddPeer(m.to, m.from)
    /\ IF m.dest = m.to
       THEN /\ inbox' = [inbox EXCEPT ![m.to] =
                            Append(@, [origin |-> m.origin, hops |-> m.hops])]
            /\ private' = private \ {m}
       ELSE /\ private' = (private \ {m}) \cup Forwarded(m)
            /\ UNCHANGED inbox
    /\ UNCHANGED <<issued, uiRumor, tickerRumor, nodeVars, lastRumor, routes,
                   timers, rumorNet, statusNet, sent>>

LosePrivate(m) ==
    /\ private' = private \ {m}
    /\ UNCHANGED <<vars, inbox, sent>>

PrivateNext ==
    \/ Next /\ UNCHANGED privateVars
    \/ \E n \in Writers, dest \in Nodes : SendPrivate(n, dest)
    \/ \E m \in private : ReceivePrivate(m) \/ LosePrivate(m)

PrivateSpec == PrivateInit /\ [][PrivateNext]_<<vars, privateVars>>

\* However routes change while a message is under way, it only ever comes to nodes
\* that are its destination or know a way on: what ends a message is the hop limit
\* or the network, never a table without an entry.
NeverStuck ==
    \A m \in private : m.to = m.dest \/ routes[m.to][m.dest] # Empty
=============================================================================
