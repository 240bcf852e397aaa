--------------------------- MODULE MCPrivateMessages ---------------------------
(***************************************************************************)
(* Private messages in a small network.                                    *)
(***************************************************************************)
EXTENDS PrivateMessages, TLC

CONSTANTS a, b, c

\* A line a - b - c in which c is started without peers.
Line == a :> {b} @@ b :> {a, c} @@ c :> {}

TwoFromA == [n \in Nodes |-> IF n = a THEN 2 ELSE 0]
=============================================================================
