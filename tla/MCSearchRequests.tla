--------------------------- MODULE MCSearchRequests ---------------------------
(***************************************************************************)
(* Small networks for search requests.                                     *)
(***************************************************************************)
EXTENDS SearchRequests, TLC

CONSTANTS a, b, c, d

\* A triangle a, b, c, where d hangs on c.  At first a does not know of b.
Kite == a :> {c} @@ b :> {a, c} @@ c :> {a, b, d} @@ d :> {c}

\* The routes lead to the origin directly, or over c.  That of b to a comes and
\* goes, and that of a to b leads over b once a knows of it.
KiteHops ==
    [n \in Nodes |->
        [o \in Nodes |->
            IF n = o THEN {NoHop}
            ELSE IF n = b /\ o = a THEN {a, c, NoHop}
            ELSE IF n = a /\ o = b THEN {b, c}
            ELSE IF o \in Kite[n] THEN {o} ELSE {c}]]
=============================================================================
