-------------------------- MODULE LockstepScheduler --------------------------
(***************************************************************************)
(* PX4's lockstep scheduler: in simulation every sleep and every timed     *)
(* wait of the autopilot's threads ends when the simulator's thread sets   *)
(* the time past its end.  The healthy digital-twin flights run on it.     *)
(*                                                                         *)
(* Each thread has one TimedWait, thread_local, that may stay in the list  *)
(* after the wait has returned and is used again by the next one, whereas  *)
(* the mutex and the condition it points to, those of usleep_until above   *)
(* all, die with the wait.                                                 *)
(*                                                                         *)
(* A section under _timed_waits_mutex of a waiting thread is one step; the *)
(* setter's, which is long and takes other mutexes, is not.  A waiting     *)
(* thread's mutex is its own: a thread that entered a timed wait with the  *)
(* mutex of another one's would deadlock with the setter.                  *)
(*                                                                         *)
(* Abstracted: a time is a small number; a condition is its waiting thread.*)
(***************************************************************************)
EXTENDS Naturals, Sequences, SequencesExt

CONSTANTS
    Threads,   \* the autopilot's threads
    MaxTime    \* bound on the simulated time

ASSUME TimeAssumption == MaxTime \in Nat

VARIABLES
    time,      \* _time_us
    setting,   \* _setting_time
    setter,    \* the simulator's thread: "out", "lock", "scan", "signal"
    cursor,    \* timed_wait, as a position in the list; 1 between scans
    list,      \* the list from _timed_waits on
    tw,        \* the TimedWait of each thread
    pc,        \* where each thread is
    kind,      \* history: whose mutex and condition the wait uses
    until,     \* history: the time the wait was called with
    result     \* what it returned

sets  == <<setting, setter, cursor>>
calls == <<kind, until>>
vars  == <<time, sets, list, tw, pc, calls, result>>

(* The thread is where its mutex and its condition must exist.             *)
Inside == {"wait", "waiting", "woken", "back", "done", "slow", "cancelled", "dying"}

(* The thread holds the mutex.                                             *)
Holding == {"call", "wait", "back", "done", "returned", "cancelled"}
-----------------------------------------------------------------------------
(***************************************************************************)
(* set_absolute_time.  The time changes before the list is locked.         *)
(***************************************************************************)
SetTime(now) ==
    /\ setter = "out"
    /\ time <= now /\ now <= MaxTime
    /\ time' = now
    /\ setter' = "lock"
    /\ UNCHANGED <<setting, cursor, list, tw, pc, calls, result>>

BeginScan ==
    /\ setter = "lock"
    /\ setting' = TRUE
    /\ setter' = "scan"
    /\ UNCHANGED <<time, cursor, list, tw, pc, calls, result>>

Reached == list[cursor]

(* Mutant: the entry behind a removed one is skipped.                      *)
RemoveDoneSkips ==
    /\ setter = "scan" /\ cursor <= Len(list)
    /\ tw[Reached].done
    /\ list' = RemoveAt(list, cursor)
    /\ tw' = [tw EXCEPT ![Reached].removed = TRUE]
    /\ cursor' = cursor + 1
    /\ UNCHANGED <<time, setting, setter, pc, calls, result>>

(* A wait that has ended since the last scan is taken out of the list.     *)
RemoveDone ==
    /\ setter = "scan" /\ cursor <= Len(list)
    /\ tw[Reached].done
    /\ list' = RemoveAt(list, cursor)
    /\ tw' = [tw EXCEPT ![Reached].removed = TRUE]
    /\ UNCHANGED <<time, sets, pc, calls, result>>

(* Mutant: a wait ends a tick too late.                                    *)
DueLate(t) == tw[t].time_us < time /\ ~tw[t].timeout

Due(t) == tw[t].time_us <= time /\ ~tw[t].timeout

CheckTime ==
    /\ setter = "scan" /\ cursor <= Len(list)
    /\ ~tw[Reached].done
    /\ IF Due(Reached) THEN setter' = "signal" /\ UNCHANGED cursor
                       ELSE cursor' = cursor + 1 /\ UNCHANGED setter
    /\ UNCHANGED <<time, setting, list, tw, pc, calls, result>>

(* Under the wait's mutex: timeout, and a broadcast on its condition.      *)
Signal ==
    /\ setter = "signal" /\ pc[Reached] \notin Holding
    /\ tw' = [tw EXCEPT ![Reached].timeout = TRUE]
    /\ pc' = [pc EXCEPT ![Reached] = IF @ = "waiting" THEN "woken" ELSE @]
    /\ cursor' = cursor + 1
    /\ setter' = "scan"
    /\ UNCHANGED <<time, setting, list, calls, result>>

EndScan ==
    /\ setter = "scan" /\ cursor > Len(list)
    /\ setting' = FALSE
    /\ cursor' = 1
    /\ setter' = "out"
    /\ UNCHANGED <<time, list, tw, pc, calls, result>>

ListLocked == setter \in {"scan", "signal"}
-----------------------------------------------------------------------------
(***************************************************************************)
(* The threads: px4_usleep, with a mutex and a condition on the stack, and *)
(* px4_pthread_cond_timedwait, which a thread may call again and again     *)
(* before it releases its mutex.                                           *)
(***************************************************************************)
Sleep(t, end) ==
    /\ pc[t] = "out"
    /\ kind' = [kind EXCEPT ![t] = "usleep"]
    /\ until' = [until EXCEPT ![t] = end]
    /\ pc' = [pc EXCEPT ![t] = "call"]
    /\ UNCHANGED <<time, sets, list, tw, result>>

TimedWait(t, end) ==
    /\ pc[t] = "out" \/ (pc[t] = "returned" /\ kind[t] = "cond")
    /\ kind' = [kind EXCEPT ![t] = "cond"]
    /\ until' = [until EXCEPT ![t] = end]
    /\ pc' = [pc EXCEPT ![t] = "call"]
    /\ UNCHANGED <<time, sets, list, tw, result>>

Release(t) ==
    /\ pc[t] = "returned"
    /\ pc' = [pc EXCEPT ![t] = "out"]
    /\ kind' = [kind EXCEPT ![t] = "usleep"] /\ until' = [until EXCEPT ![t] = 0]
    /\ result' = [result EXCEPT ![t] = "0"]
    /\ UNCHANGED <<time, sets, list, tw>>

(* cond_timedwait, under _timed_waits_mutex: an early return ...           *)
TimePassed(t) ==
    /\ pc[t] = "call" /\ ~ListLocked
    /\ until[t] <= time
    /\ result' = [result EXCEPT ![t] = "ETIMEDOUT"]
    /\ pc' = [pc EXCEPT ![t] = "returned"]
    /\ UNCHANGED <<time, sets, list, tw, calls>>

(* Mutant: the flag of the previous wait is kept.                          *)
RegisteredStale(t) == [tw[t] EXCEPT !.time_us = until[t], !.done = FALSE, !.removed = FALSE]

Registered(t) == [time_us |-> until[t], timeout |-> FALSE, done |-> FALSE,
                  removed |-> FALSE]

(* ... or the TimedWait is set up, and put into the list unless it is      *)
(* there still.                                                            *)
Register(t) ==
    /\ pc[t] = "call" /\ ~ListLocked
    /\ until[t] > time
    /\ tw' = [tw EXCEPT ![t] = Registered(t)]
    /\ list' = IF tw[t].removed THEN <<t>> \o list ELSE list
    /\ pc' = [pc EXCEPT ![t] = "wait"]
    /\ UNCHANGED <<time, sets, calls, result>>

(* pthread_cond_wait releases the mutex, and takes it again when woken.    *)
Wait(t) ==
    /\ pc[t] = "wait"
    /\ pc' = [pc EXCEPT ![t] = "waiting"]
    /\ UNCHANGED <<time, sets, list, tw, calls, result>>

Wake(t) ==
    /\ pc[t] = "woken"
    /\ pc' = [pc EXCEPT ![t] = "back"]
    /\ UNCHANGED <<time, sets, list, tw, calls, result>>

(* The timeout is read, then done is set ...                               *)
Done(t) ==
    /\ pc[t] = "back"
    /\ result' = [result EXCEPT ![t] = IF tw[t].timeout THEN "ETIMEDOUT" ELSE "0"]
    /\ tw' = [tw EXCEPT ![t].done = TRUE]
    /\ pc' = [pc EXCEPT ![t] = "done"]
    /\ UNCHANGED <<time, sets, list, calls>>

(* Mutant: the setter is never waited for.                                 *)
ReturnAtOnce(t) ==
    /\ pc[t] = "done"
    /\ pc' = [pc EXCEPT ![t] = "returned"]
    /\ UNCHANGED <<time, sets, list, tw, calls, result>>

(* ... then _setting_time is read: a setter that may have passed the done  *)
(* check is waited for, with the mutex released.                           *)
Return(t) ==
    /\ pc[t] = "done"
    /\ pc' = [pc EXCEPT ![t] = IF result[t] = "0" /\ setting THEN "slow" ELSE "returned"]
    /\ UNCHANGED <<time, sets, list, tw, calls, result>>

SlowReturn(t) ==
    /\ pc[t] = "slow" /\ ~ListLocked
    /\ pc' = [pc EXCEPT ![t] = "returned"]
    /\ UNCHANGED <<time, sets, list, tw, calls, result>>

(* Another thread broadcasts on the condition, with the mutex held.        *)
Notify(t) ==
    /\ kind[t] = "cond" /\ pc[t] = "waiting"
    /\ pc' = [pc EXCEPT ![t] = "woken"]
    /\ UNCHANGED <<time, sets, list, tw, calls, result>>

(***************************************************************************)
(* The end of a thread runs ~TimedWait.  pthread_cond_wait can be          *)
(* cancelled; the mutex is then held and nobody else releases it.          *)
(***************************************************************************)
Cancel(t) ==
    /\ pc[t] \in {"waiting", "woken"}
    /\ pc' = [pc EXCEPT ![t] = "cancelled"]
    /\ UNCHANGED <<time, sets, list, tw, calls, result>>

ReleaseCancelled(t) ==
    /\ pc[t] = "cancelled"
    /\ tw' = [tw EXCEPT ![t].done = TRUE]
    /\ pc' = [pc EXCEPT ![t] = "dying"]
    /\ UNCHANGED <<time, sets, list, calls, result>>

Exit(t) ==
    /\ pc[t] = "out"
    /\ pc' = [pc EXCEPT ![t] = "exiting"]
    /\ UNCHANGED <<time, sets, list, tw, calls, result>>

Exited(t) ==
    /\ pc[t] \in {"exiting", "dying"}
    /\ tw[t].removed
    /\ pc' = [pc EXCEPT ![t] = "exited"]
    /\ UNCHANGED <<time, sets, list, tw, calls, result>>
-----------------------------------------------------------------------------
Init ==
    /\ time = 0 /\ setting = FALSE /\ setter = "out" /\ cursor = 1
    /\ list = << >>
    /\ tw = [t \in Threads |-> [time_us |-> 0, timeout |-> FALSE, done |-> FALSE,
                                removed |-> TRUE]]
    /\ pc = [t \in Threads |-> "out"]
    /\ kind = [t \in Threads |-> "usleep"] /\ until = [t \in Threads |-> 0]
    /\ result = [t \in Threads |-> "0"]

Scan == BeginScan \/ RemoveDone \/ CheckTime \/ Signal \/ EndScan

(* What a thread does without being asked to.                              *)
Thread(t) ==
    \/ TimePassed(t) \/ Register(t) \/ Wait(t) \/ Wake(t) \/ Done(t) \/ Return(t)
    \/ SlowReturn(t) \/ Release(t) \/ ReleaseCancelled(t) \/ Exited(t)

Next ==
    \/ \E now \in 0..MaxTime : SetTime(now)
    \/ Scan
    \/ \E t \in Threads :
        \/ Thread(t) \/ Notify(t) \/ Cancel(t) \/ Exit(t)
        \/ \E end \in 0..MaxTime : Sleep(t, end) \/ TimedWait(t, end)

Spec == Init /\ [][Next]_vars

(***************************************************************************)
(* The simulator sets the time again and again, not always to a later one, *)
(* and waits for the autopilot in between: the list's mutex is free for    *)
(* long enough that a thread that wants it gets it.                        *)
(***************************************************************************)
FairSpec ==
    /\ Spec
    /\ WF_vars(\E now \in 0..MaxTime : SetTime(now)) /\ WF_vars(Scan)
    /\ \A t \in Threads : SF_vars(Thread(t))
-----------------------------------------------------------------------------
(* The type invariant.                                                     *)
TypeOK ==
    /\ time \in 0..MaxTime /\ setting \in BOOLEAN
    /\ setter \in {"out", "lock", "scan", "signal"}
    /\ list \in Seq(Threads) /\ cursor \in 1..Len(list) + 1
    /\ tw \in [Threads -> [time_us : 0..MaxTime, timeout : BOOLEAN, done : BOOLEAN,
                           removed : BOOLEAN]]
    /\ pc \in [Threads -> Inside \cup {"out", "call", "returned", "exiting", "exited"}]
    /\ kind \in [Threads -> {"usleep", "cond"}]
    /\ until \in [Threads -> 0..MaxTime]
    /\ result \in [Threads -> {"0", "ETIMEDOUT"}]

(* The setter locks a mutex and signals a condition only while their wait  *)
(* is going on, and follows the list only through TimedWaits of threads    *)
(* that exist: it checks done before, without the mutex of the wait.       *)
SetterTouchesLiveWaits ==
    /\ setter = "signal" => pc[Reached] \in Inside
    /\ \A t \in Threads : pc[t] = "exited" => t \notin ToSet(list)
    /\ IsInjective(list)

(* A sleep, and a wait that reports ETIMEDOUT, returns only when its time  *)
(* has come, though the flag is that of an object used many times.         *)
NobodyWakesEarly ==
    \A t \in Threads :
        pc[t] = "returned" /\ (kind[t] = "usleep" \/ result[t] = "ETIMEDOUT")
            => until[t] <= time

(* A wait whose time has come returns, and a thread that exits is let go:  *)
(* no time is lost between the check and the wait, and the setter and the  *)
(* waiting threads do not block each other.                                *)
EveryWaitReturns ==
    \A t \in Threads :
        /\ pc[t] \in Inside /\ tw[t].time_us <= time ~> pc[t] \notin Inside
        /\ pc[t] = "exiting" ~> pc[t] = "exited"
=============================================================================
