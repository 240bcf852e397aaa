----------------------------- MODULE MCBlockFlood -----------------------------
(***************************************************************************)
(* A small network for TLC: a triangle with a fourth node behind one of    *)
(* its corners, two hops from the others at best and three when a packet   *)
(* goes the long way.                                                      *)
(***************************************************************************)
EXTENDS BlockFlood, TLC

CONSTANTS n1, n2, n3, n4

Four == {n1, n2, n3, n4}
Tail4 == n1 :> {n2, n3} @@ n2 :> {n1, n3} @@ n3 :> {n1, n2, n4} @@ n4 :> {n3}
=============================================================================
