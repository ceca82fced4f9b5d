--------------------------- MODULE PollingHandler ---------------------------
(***************************************************************************)
(* core/polling: pollingHandler runs an executor again and again in a      *)
(* goroutine of its own.  StartProcessingLoop starts a goroutine unless    *)
(* one is running, Close cancels its context, and the goroutine clears the *)
(* handler's cancel function when it ends.                                 *)
(*                                                                         *)
(* The l-th accepted StartProcessingLoop starts goroutine l.  Its timer    *)
(* follows the semantics of the go directive in go.mod (1.20): Reset does  *)
(* not take back a tick the channel already holds.  The lengths of the     *)
(* polling intervals are abstracted: an armed timer fires at some time.    *)
(***************************************************************************)
EXTENDS Naturals, FiniteSets

CONSTANT MaxStarts      \* bound: accepted calls of StartProcessingLoop

ASSUME StartsAreBounded == MaxStarts \in Nat \ {0}

VARIABLES
    cancel,     \* the goroutine whose context ph.cancel cancels, 0 for nil
    loop        \* the goroutines

pollingVars == <<cancel, loop>>

Loops == 1..MaxStarts

NotStarted == [pc |-> "none", done |-> FALSE, armed |-> FALSE, tick |-> FALSE]

Active(l) == loop[l].pc \notin {"none", "ended"}

PollingTypeOK ==
    /\ cancel \in 0..MaxStarts
    /\ loop \in [Loops -> [pc : {"none", "execute", "wait", "cleanup", "ended"},
                           done : BOOLEAN, armed : BOOLEAN, tick : BOOLEAN]]

PollingInit ==
    /\ cancel = 0
    /\ loop = [l \in Loops |-> NotStarted]

-----------------------------------------------------------------------------

\* the call that finds ph.cancel set returns ErrLoopAlreadyStarted and changes nothing
StartProcessingLoop ==
    /\ cancel = 0
    /\ \E l \in Loops :
        /\ loop[l].pc = "none"
        /\ \A k \in 1..(l - 1) : loop[k].pc # "none"
        /\ cancel' = l
        /\ loop' = [loop EXCEPT ![l] = [pc |-> "execute", done |-> FALSE,
                                        armed |-> TRUE, tick |-> FALSE]]

TimerFires(l) ==
    /\ Active(l)
    /\ loop[l].armed
    /\ loop' = [loop EXCEPT ![l].armed = FALSE, ![l].tick = TRUE]
    /\ UNCHANGED cancel

\* Execute has returned, with or without an error: timer.Reset(interval)
ExecuteReturns(l) ==
    /\ loop[l].pc = "execute"
    /\ loop' = [loop EXCEPT ![l].pc = "wait", ![l].armed = TRUE]
    /\ UNCHANGED cancel

SelectTimer(l) ==
    /\ loop[l].pc = "wait"
    /\ loop[l].tick
    /\ loop' = [loop EXCEPT ![l].pc = "execute", ![l].tick = FALSE]
    /\ UNCHANGED cancel

SelectDone(l) ==
    /\ loop[l].pc = "wait"
    /\ loop[l].done
    /\ loop' = [loop EXCEPT ![l].pc = "cleanup", ![l].armed = FALSE, ![l].tick = FALSE]
    /\ UNCHANGED cancel

\* mutant: the deferred cleanup is forgotten
cleanupForgotten(l) ==
    /\ loop[l].pc = "cleanup"
    /\ loop' = [loop EXCEPT ![l].pc = "ended"]
    /\ UNCHANGED cancel

cleanup(l) ==
    /\ loop[l].pc = "cleanup"
    /\ loop' = [loop EXCEPT ![l].pc = "ended"]
    /\ cancel' = 0

\* mutant: Close also forgets the cancel function
CloseClearsCancel ==
    /\ cancel # 0
    /\ loop' = [loop EXCEPT ![cancel].done = TRUE]
    /\ cancel' = 0

Close ==
    /\ cancel # 0
    /\ loop' = [loop EXCEPT ![cancel].done = TRUE]
    /\ UNCHANGED cancel

-----------------------------------------------------------------------------
(* Properties                                                              *)

\* The handler never runs its executor in two goroutines at once, and while
\* a goroutine runs, ph.cancel cancels that goroutine's context: a loop that
\* Close can no longer reach would poll for ever.
OneLoopAndCloseReachesIt ==
    \A l \in Loops : Active(l) => cancel = l /\ \A k \in Loops : Active(k) => k = l
=============================================================================
