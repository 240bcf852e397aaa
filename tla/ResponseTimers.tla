--------------------------- MODULE ResponseTimers ---------------------------
(***************************************************************************)
(* The timers one Peerster runs for one other node: the entries of that    *)
(* node in SafeTimers (a status is awaited after a rumor) or, kept by a    *)
(* copy of the same code, in SafeDataRequestTimers (a data reply is        *)
(* awaited after a data request).                                          *)
(*                                                                         *)
(* Every step is one critical section of SafeTimer.mux or a step between   *)
(* two of them.  The threads are the listener of the gossip port, which    *)
(* handles the answers, one goroutine per timer, and whoever sends         *)
(* something that wants an answer.  Timers are numbered in the order in    *)
(* which they are started; all of them run for the same time.              *)
(***************************************************************************)
EXTENDS Naturals, Sequences, FiniteSets

CONSTANT MaxTimers      \* bound: timers started

ASSUME TimersAssumption == MaxTimers \in Nat

Timers == 1 .. MaxTimers

VARIABLES
    kind,       \* which of the two tables: "status" or "data"
    list,       \* the node's entry in ResponseTimers, absent when empty
    state,      \* of every timer and its goroutine
    listener    \* where the listener is in the handling of an answer

timerVars == <<kind, list, state, listener>>

(***************************************************************************)
(* unused   not started                                                    *)
(* started  running, not in the list yet                                   *)
(* running  running, its goroutine waits for it                            *)
(* expired  its goroutine is on the way to removeFinishedTimer             *)
(* removed  its goroutine has called removeFinishedTimer                   *)
(* done     its goroutine has ended                                        *)
(* stopped  stopped in time: its goroutine waits for ever                  *)
(***************************************************************************)
TimerState ==
    {"unused", "started", "running", "expired", "removed", "done", "stopped"}

\* "stopped" and "late": the head was stopped in time, or had expired already.
ListenerState == {"idle", "found", "stopped", "late", "crashed"}

TimersTypeOK ==
    /\ kind \in {"status", "data"}
    /\ list \in Seq(Timers)
    /\ state \in [Timers -> TimerState]
    /\ listener \in ListenerState

TimersInit ==
    /\ kind \in {"status", "data"}
    /\ list = <<>>
    /\ state = [t \in Timers |-> "unused"]
    /\ listener = "idle"

In(s) == {t \in Timers : state[t] \in s}

(***************************************************************************)
(* makeTimer and makeDataRequestTimer.                                     *)
(***************************************************************************)
IsNext(t) == state[t] = "unused" /\ \A u \in 1 .. t - 1 : state[u] # "unused"

StartTimer(t) ==
    /\ IsNext(t)
    /\ state' = [state EXCEPT ![t] = "started"]
    /\ UNCHANGED <<kind, list, listener>>

AppendTimer(t) ==
    /\ state[t] = "started"
    /\ list' = Append(list, t)
    /\ state' = [state EXCEPT ![t] = "running"]
    /\ UNCHANGED <<kind, listener>>

(***************************************************************************)
(* The goroutine of a timer.                                               *)
(***************************************************************************)
\* Faulty variant: a list of one timer is left as it is.
KeepLastTimer(entries) == IF Len(entries) <= 1 THEN entries ELSE Tail(entries)

\* Faulty variant: the newest timer goes, not the oldest.
RemoveNewest(entries) ==
    IF entries = <<>> THEN entries ELSE SubSeq(entries, 1, Len(entries) - 1)

\* removeFinishedTimer: the oldest timer goes, whoever calls.
RemoveFinished(entries) == IF entries = <<>> THEN entries ELSE Tail(entries)

\* All timers run equally long, and a timer is in the list before its time is up.
Expire(t) ==
    /\ state[t] = "running"
    /\ \A u \in 1 .. t - 1 : state[u] \notin {"started", "running"}
    /\ state' = [state EXCEPT ![t] = "expired"]
    /\ UNCHANGED <<kind, list, listener>>

RemoveTimer(t) ==
    /\ state[t] = "expired"
    /\ list' = RemoveFinished(list)
    /\ state' = [state EXCEPT ![t] = "removed"]
    /\ UNCHANGED <<kind, listener>>

\* The data request is sent again, or the coin has the rumor sent to this node:
\* either way with a new timer.
SendAgain(t) ==
    /\ state[t] = "removed"
    /\ \E u \in Timers :
          IsNext(u) /\ state' = [state EXCEPT ![t] = "done", ![u] = "started"]
    /\ UNCHANGED <<kind, list, listener>>

\* Faulty variant: data requests toss the coin as well.
MayAlwaysGiveUp == TRUE

\* Only the goroutine of a rumor's timer tosses a coin.
MayGiveUp == kind = "status"

\* The coin ends the mongering or moves it to another node.
GiveUp(t) ==
    /\ MayGiveUp
    /\ state[t] = "removed"
    /\ state' = [state EXCEPT ![t] = "done"]
    /\ UNCHANGED <<kind, list, listener>>

(***************************************************************************)
(* The listener with a status or a data reply from the node:               *)
(* isStatusResponse, then removeFinishedTimer.  Without a timer the answer *)
(* changes nothing here.                                                   *)
(***************************************************************************)
FindTimer ==
    /\ listener = "idle"
    /\ list # <<>>
    /\ listener' = "found"
    /\ UNCHANGED <<kind, list, state>>

\* The lock was given back in between: the list may be another one by now.
StopHead ==
    /\ listener = "found"
    /\ list # <<>>
    /\ \/ /\ state[Head(list)] = "running"
          /\ state' = [state EXCEPT ![Head(list)] = "stopped"]
          /\ listener' = "stopped"
       \/ /\ state[Head(list)] # "running"
          /\ listener' = "late"
          /\ UNCHANGED state
    /\ UNCHANGED <<kind, list>>

\* ResponseTimers[peerAddress][0] of no timers: the program panics.
Crash ==
    /\ listener = "found"
    /\ list = <<>>
    /\ listener' = "crashed"
    /\ UNCHANGED <<kind, list, state>>

RemoveAnswered ==
    /\ listener \in {"stopped", "late"}
    /\ list' = RemoveFinished(list)
    /\ listener' = "idle"
    /\ UNCHANGED <<kind, state>>

TimersNext ==
    /\ listener # "crashed"
    /\ \/ \E t \in Timers :
             \/ StartTimer(t)
             \/ AppendTimer(t)
             \/ Expire(t)
             \/ RemoveTimer(t)
             \/ SendAgain(t)
             \/ GiveUp(t)
       \/ FindTimer
       \/ StopHead
       \/ Crash
       \/ RemoveAnswered

TimersSpec == TimersInit /\ [][TimersNext]_timerVars

(***************************************************************************)
(* Properties.                                                             *)
(***************************************************************************)
\* Although every removal takes the oldest entry, whosever it is, the list
\* never keeps more entries than removals are still to come: no entry stays
\* for ever and turns a later, unasked status into an answer.
NoStaleEntries ==
    Len(list) <= Cardinality(In({"running", "expired"}))
                    + (IF listener = "stopped" THEN 1 ELSE 0)

\* A timer that was stopped leaves the list: the next answer stops another one.
\* The only one still in it is the head the listener is about to remove.
StoppedLeavesTheList ==
    \A i \in DOMAIN list :
        state[list[i]] = "stopped" => i = 1 /\ listener = "stopped"

\* The timers whose goroutine may still send something.
Live == In({"started", "running", "expired", "removed"})

\* A data request that is under way is sent again and again until an answer
\* stops its timer: nothing else makes the retries fewer.
RetriedUntilAnswered ==
    [][kind = "data" /\ Cardinality(Live') < Cardinality(Live)
          => listener = "found" /\ listener' = "stopped"]_timerVars

\* isStatusResponse "returns true if the peer passed as argument is sending a
\* status response, otherwise it returns false" (basicMethods.go:417): it returns.
\* It does not hold when the last timer fires between its two critical sections.
ListenerNeverCrashes == listener # "crashed"
=============================================================================
