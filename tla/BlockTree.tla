------------------------------ MODULE BlockTree ------------------------------
(***************************************************************************)
(* What a block store promises, without heads, forks, rewinds and names:   *)
(* one tree of blocks of which each knows its height, and a main chain     *)
(* that ends in the first block to have reached the greatest height.       *)
(***************************************************************************)
EXTENDS Naturals, Sequences

VARIABLES
    height,         \* height of each stored block, counted from the tree's root
    main            \* the block the main chain ends in; <<>>: there is none

vars == <<height, main>>

Stored == DOMAIN height
Parent(b) == SubSeq(b, 1, Len(b) - 1)

Init ==
    /\ height = [b \in {} |-> 0]
    /\ main = <<>>

\* b joins the tree; the main chain goes over to it if it is a new maximum.
Grow(b) ==
    LET h == IF Stored = {} THEN 1 ELSE height[Parent(b)] + 1
    IN  /\ b \notin Stored
        /\ Parent(b) \in Stored \/ Stored = {}
        /\ height' = [c \in Stored \cup {b} |-> IF c = b THEN h ELSE height[c]]
        /\ main' = IF Stored = {} THEN b
                   ELSE IF h > height[main] THEN b ELSE main

Next == \E b \in DOMAIN height' : Grow(b)

Spec == Init /\ [][Next]_vars
=============================================================================
