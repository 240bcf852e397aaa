------------------------------ MODULE MCGossip ------------------------------
(***************************************************************************)
(* Small networks for TLC.                                                 *)
(***************************************************************************)
EXTENDS Gossip, TLC

CONSTANTS a, b, c

\* a knows b; b is started without peers and learns a from its first packet.
Pair == a :> {b} @@ b :> {}

\* A line a - b - c in which c is started without peers.
Line == a :> {b} @@ b :> {a, c} @@ c :> {}

TwoFromA == [n \in Nodes |-> IF n = a THEN 2 ELSE 0]
OneFromA == [n \in Nodes |-> IF n = a THEN 1 ELSE 0]
=============================================================================
