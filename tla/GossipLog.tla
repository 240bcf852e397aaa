------------------------------ MODULE GossipLog ------------------------------
(***************************************************************************)
(* What rumor mongering promises, without packets, statuses, routes or     *)
(* timers: every node writes a log, and every node's copy of a log grows   *)
(* by the log's next entry, one at a time.  What a node shows its user is  *)
(* made of the entries it learns of others, as it learns them.             *)
(***************************************************************************)
EXTENDS Naturals, Sequences

CONSTANTS
    Nodes,          \* the writers and readers of logs
    Entries,        \* what can be written
    Hidden          \* the entry that is copied but not shown

VARIABLES
    log,            \* log[o]: what o has written
    copy,           \* copy[n][o]: what n has learnt of the log of o
    shown           \* shown[n]: what n has shown, as origins and texts

vars == <<log, copy, shown>>

Init ==
    /\ log = [o \in Nodes |-> <<>>]
    /\ copy = [n \in Nodes |-> [o \in Nodes |-> <<>>]]
    /\ shown = [n \in Nodes |-> <<>>]

Write(o, e) ==
    /\ log' = [log EXCEPT ![o] = Append(@, e)]
    /\ UNCHANGED <<copy, shown>>

\* The copy of n lags behind: its next entry comes in, and is shown unless it
\* is hidden or the node's own.
Learn(n, o) ==
    LET next == Len(copy[n][o]) + 1
    IN  /\ next <= Len(log[o])
        /\ copy' = [copy EXCEPT ![n][o] = Append(@, log[o][next])]
        /\ shown' = IF log[o][next] # Hidden /\ n # o
                    THEN [shown EXCEPT ![n] =
                             Append(@, [origin |-> o, text |-> log[o][next]])]
                    ELSE shown
        /\ UNCHANGED log

Next ==
    \/ \E o \in Nodes, e \in Entries : Write(o, e)
    \/ \E n, o \in Nodes : Learn(n, o)

Spec == Init /\ [][Next]_vars
=============================================================================
