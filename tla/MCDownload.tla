----------------------------- MODULE MCDownload -----------------------------
(***************************************************************************)
(* Small downloads for TLC.  f1 is asked for from o1, which is untimely,   *)
(* and so is f4, which o1 does not have.  f3 has its first chunk twice and *)
(* is asked for from a timely node; f2 is asked for from another, or       *)
(* through a search that saw its chunks at different nodes.                *)
(***************************************************************************)
EXTENDS Download, TLC

CONSTANTS o1, o2, o3, o4, f1, f2, f3, f4, c1, c2, d1, d2, e1, e2

ChunksOf ==
    f1 :> <<c1, c2>> @@ f2 :> <<d1, d2>> @@ f3 :> <<e1, e2, e1>> @@ f4 :> <<c2>>
Serving ==
    o1 :> {f1, c1, c2} @@ o2 :> {f2, d1, d2} @@ o3 :> {d2} @@ o4 :> {f3, e1, e2}

Split ==
    [f \in Files |-> [o \in Origins |->
        IF f = f2 THEN CASE o = o2 -> {0} [] o = o3 -> {1} [] OTHER -> {} ELSE {}]]
OneKeyword == [f \in Files |-> 1]

Nodes == {<<f1, o1>>, <<f2, o2>>, <<f3, o4>>, <<f4, o1>>}
OneOrTwo == {{f1}, {f2, f3}, {f2, f4}}
=============================================================================
