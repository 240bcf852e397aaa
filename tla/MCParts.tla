-------------------------------- MODULE MCParts --------------------------------
(***************************************************************************)
(* Three parts of a Peerster that share no state: simple mode, which main  *)
(* runs instead of all others (main.go:1223), the timers for one node, and *)
(* the shared folder.  A behaviour is one of one part, the others stand    *)
(* still at their initial states.                                          *)
(***************************************************************************)
EXTENDS SimpleMode, ResponseTimers, FileServing, TLC

(***************************************************************************)
(* Simple mode: a tree whose nodes know their peers in one direction only. *)
(***************************************************************************)
CONSTANTS n1, n2, n3, n4

Four == {n1, n2, n3, n4}
\* n1 -> n2, n2 - n3, n4 -> n2
TreePeers == n1 :> {n2} @@ n2 :> {n3} @@ n3 :> {n2} @@ n4 :> {n2}

(***************************************************************************)
(* The folder: with chunks of two bytes, an empty file; one with a short   *)
(* last chunk and one without, which begin alike; one that repeats a       *)
(* chunk; one that is too big to be shared.                                *)
(***************************************************************************)
Short == <<"a", "a", "b">>
Full == <<"a", "a", "b", "c">>
Repeats == <<"b", "c", "b", "c">>
TooBig == <<"a", "a", "a", "a", "a">>

AllContents == {<<>>, Short, Full, Repeats, TooBig}

VARIABLE part       \* the part that runs

allVars == <<part, simpleVars, timerVars, vars>>

NoTimers == kind = "status" /\ TimersInit
NoFiles == folder = [x \in {} |-> <<>>] /\ Init

PartsInit ==
    /\ SimpleInit
    /\ \/ part = "simple" /\ NoTimers /\ NoFiles
       \/ part = "timers" /\ TimersInit /\ NoFiles
       \/ part = "folder" /\ NoTimers /\ Init

PartsNext ==
    /\ UNCHANGED part
    /\ \/ part = "simple" /\ SimpleNext /\ UNCHANGED <<timerVars, vars>>
       \/ part = "timers" /\ TimersNext /\ UNCHANGED <<simpleVars, vars>>
       \/ part = "folder" /\ Next /\ UNCHANGED <<simpleVars, timerVars>>

\* Outside simple mode there are no packets of it, and nothing it owes.
PartsSpec == PartsInit /\ [][PartsNext]_allVars /\ SimpleFairness
=============================================================================
