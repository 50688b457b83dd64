----------------------- MODULE LockstepScheduler_proofs -----------------------
(***************************************************************************)
(* The safety properties of LockstepScheduler, for any set of threads and  *)
(* any bound on the time.                                                  *)
(***************************************************************************)
EXTENDS LockstepScheduler, SequenceTheorems, TLAPS

(* The list holds each TimedWait that is not marked removed, once; nobody  *)
(* but the setter changes it during a scan.                                *)
ListInv ==
    /\ setting <=> ListLocked
    /\ ~ListLocked => cursor = 1
    /\ IsInjective(list)
    /\ \A t \in Threads : t \in ToSet(list) <=> ~tw[t].removed
    /\ \A t \in Threads : pc[t] = "exited" => tw[t].removed

(* The thread has set up its TimedWait and not yet marked it done.         *)
Undone == {"wait", "waiting", "woken", "back", "cancelled"}

(* What the flags of a TimedWait say of the wait it was last used for.     *)
WaitInv ==
    \A t \in Threads :
        /\ ~tw[t].removed /\ ~tw[t].done => pc[t] \in Undone
        /\ pc[t] \in Inside => tw[t].time_us = until[t]
        /\ pc[t] \in Inside /\ tw[t].timeout => until[t] <= time
        /\ kind[t] = "usleep" /\ pc[t] \in {"woken", "back"} => tw[t].timeout
        /\ kind[t] = "usleep" /\ pc[t] = "done" => result[t] = "ETIMEDOUT"
        /\ pc[t] = "done" /\ result[t] = "ETIMEDOUT" => until[t] <= time
        /\ pc[t] = "slow" => result[t] = "0" /\ kind[t] = "cond"

(* The wait that the setter is about to signal is due and has not been     *)
(* signalled: if it ends meanwhile, it waits for the setter.               *)
SetterInv ==
    setter = "signal" =>
        /\ cursor <= Len(list)
        /\ pc[Reached] \in Inside
        /\ ~tw[Reached].timeout
        /\ tw[Reached].time_us <= time
        /\ pc[Reached] = "done" => result[Reached] = "0"

IInv == TypeOK /\ ListInv /\ WaitInv /\ SetterInv /\ NobodyWakesEarly
-----------------------------------------------------------------------------
(* RemoveAt takes one element out of a sequence without duplicates.        *)
LEMMA RemoveAtFacts ==
    ASSUME NEW S, NEW s \in Seq(S), NEW c \in 1..Len(s), IsInjective(s)
    PROVE  /\ RemoveAt(s, c) \in Seq(S)
           /\ Len(RemoveAt(s, c)) = Len(s) - 1
           /\ IsInjective(RemoveAt(s, c))
           /\ ToSet(RemoveAt(s, c)) = ToSet(s) \ {s[c]}
<1> DEFINE r == RemoveAt(s, c)
           a == SubSeq(s, 1, c - 1)
           b == SubSeq(s, c + 1, Len(s))
<1>1. /\ a \in Seq(S) /\ Len(a) = c - 1
      /\ \A k \in 1..c - 1 : a[k] = s[k]
  BY SubSeqProperties, LenProperties, ElementOfSeq
<1>2. /\ b \in Seq(S) /\ Len(b) = Len(s) - c
      /\ \A k \in 1..Len(s) - c : b[k] = s[c + k]
  BY SubSeqProperties, LenProperties, ElementOfSeq
<1>0. r = a \o b /\ Len(s) \in Nat
  BY LenProperties DEF RemoveAt
<1> HIDE DEF r, a, b
<1>3. r \in Seq(S) /\ Len(r) = Len(s) - 1
  <2>1. r \in Seq(S) /\ Len(r) = Len(a) + Len(b)
    BY <1>0, <1>1, <1>2, ConcatProperties
  <2> QED BY <1>0, <1>1, <1>2, <2>1
<1>4. \A k \in 1..Len(s) - 1 : r[k] = IF k < c THEN s[k] ELSE s[k + 1]
  <2> SUFFICES ASSUME NEW k \in 1..Len(s) - 1
               PROVE  r[k] = IF k < c THEN s[k] ELSE s[k + 1]
    OBVIOUS
  <2>1. r[k] = IF k <= Len(a) THEN a[k] ELSE b[k - Len(a)]
    BY <1>0, <1>1, <1>2, ConcatProperties
  <2> QED BY <1>0, <1>1, <1>2, <2>1
<1>5. DOMAIN s = 1..Len(s) /\ DOMAIN r = 1..Len(s) - 1 /\ Len(s) \in Nat
  BY <1>3, LenProperties
<1>6. IsInjective(r)
  <2> SUFFICES ASSUME NEW j \in 1..Len(s) - 1, NEW k \in 1..Len(s) - 1, r[j] = r[k]
               PROVE  j = k
    BY <1>5 DEF IsInjective
  <2> DEFINE At(l) == IF l < c THEN l ELSE l + 1
  <2>1. /\ At(j) \in DOMAIN s /\ At(k) \in DOMAIN s
        /\ r[j] = s[At(j)] /\ r[k] = s[At(k)]
    BY <1>4, <1>5
  <2>2. At(j) = At(k)
    BY <2>1 DEF IsInjective
  <2> QED BY <2>2
<1>7. ToSet(r) \subseteq ToSet(s) \ {s[c]}
  BY <1>4, <1>5 DEF IsInjective, ToSet
<1>8. ASSUME NEW k \in 1..Len(s), k # c PROVE s[k] \in ToSet(r)
  <2>1. CASE k < c
    <3>1. k \in 1..Len(s) - 1 /\ r[k] = s[k]
      BY <1>4, <1>5, <2>1
    <3> QED BY <1>5, <3>1 DEF ToSet
  <2>2. CASE k > c
    <3>1. k - 1 \in 1..Len(s) - 1 /\ r[k - 1] = s[k]
      BY <1>4, <1>5, <2>2
    <3> QED BY <1>5, <3>1 DEF ToSet
  <2> QED BY <1>8, <2>1, <2>2
<1>9. ToSet(s) \ {s[c]} \subseteq ToSet(r)
  BY <1>5, <1>8 DEF ToSet
<1> QED BY <1>3, <1>6, <1>7, <1>9 DEF r

(* Putting a new element in front of a sequence without duplicates.        *)
LEMMA ConsFacts ==
    ASSUME NEW S, NEW s \in Seq(S), NEW e \in S, IsInjective(s), e \notin ToSet(s)
    PROVE  /\ <<e>> \o s \in Seq(S)
           /\ Len(<<e>> \o s) = Len(s) + 1
           /\ IsInjective(<<e>> \o s)
           /\ ToSet(<<e>> \o s) = ToSet(s) \cup {e}
<1> DEFINE r == <<e>> \o s
<1>1. /\ <<e>> \in Seq(S) /\ Len(<<e>>) = 1 /\ <<e>>[1] = e
  OBVIOUS
<1>2. r \in Seq(S) /\ Len(r) = Len(s) + 1
  BY <1>1, ConcatProperties
<1>3. \A k \in 1..Len(s) + 1 : r[k] = IF k = 1 THEN e ELSE s[k - 1]
  <2>1. \A k \in 1..Len(<<e>>) + Len(s) :
            r[k] = IF k <= Len(<<e>>) THEN <<e>>[k] ELSE s[k - Len(<<e>>)]
    BY <1>1, ConcatProperties
  <2>2. Len(s) \in Nat
    BY LenProperties
  <2> QED BY <1>1, <2>1, <2>2
<1> HIDE DEF r
<1>4. DOMAIN s = 1..Len(s) /\ DOMAIN r = 1..Len(s) + 1 /\ Len(s) \in Nat
  BY <1>2, LenProperties
<1>5. IsInjective(r)
  <2> SUFFICES ASSUME NEW j \in 1..Len(s) + 1, NEW k \in 1..Len(s) + 1, r[j] = r[k]
               PROVE  j = k
    BY <1>4 DEF IsInjective
  <2>1. \A l \in 1..Len(s) : s[l] # e
    BY <1>4 DEF ToSet
  <2>2. CASE j = 1 \/ k = 1
    BY <1>3, <1>4, <2>1, <2>2
  <2>3. CASE j # 1 /\ k # 1
    <3>1. j - 1 \in DOMAIN s /\ k - 1 \in DOMAIN s /\ s[j - 1] = s[k - 1]
      BY <1>3, <1>4, <2>3
    <3> QED BY <3>1 DEF IsInjective
  <2> QED BY <2>2, <2>3
<1>6. ToSet(r) \subseteq ToSet(s) \cup {e}
  BY <1>3, <1>4 DEF ToSet
<1>7. e \in ToSet(r)
  <2>1. 1 \in DOMAIN r /\ r[1] = e
    BY <1>3, <1>4
  <2> QED BY <2>1 DEF ToSet
<1>8. ASSUME NEW k \in 1..Len(s) PROVE s[k] \in ToSet(r)
  <2>1. k + 1 \in DOMAIN r /\ r[k + 1] = s[k]
    BY <1>3, <1>4
  <2> QED BY <2>1 DEF ToSet
<1>9. ToSet(s) \subseteq ToSet(r)
  BY <1>4, <1>8 DEF ToSet
<1> QED BY <1>2, <1>5, <1>6, <1>7, <1>9 DEF r
-----------------------------------------------------------------------------
LEMMA InitHolds == Init => IInv
<1> SUFFICES ASSUME Init PROVE IInv
  OBVIOUS
<1>0. /\ << >> \in Seq(Threads) /\ Len(<< >>) = 0 /\ DOMAIN << >> = {}
      /\ 0 \in 0..MaxTime
  BY TimeAssumption
<1>1. TypeOK
  <2>1. tw \in [Threads -> [time_us : 0..MaxTime, timeout : BOOLEAN, done : BOOLEAN,
                            removed : BOOLEAN]]
    BY <1>0 DEF Init
  <2>2. /\ time \in 0..MaxTime /\ cursor \in 1..Len(list) + 1
        /\ setter \in {"out", "lock", "scan", "signal"}
    BY <1>0 DEF Init
  <2>3. /\ list \in Seq(Threads)
        /\ pc \in [Threads -> Inside \cup {"out", "call", "returned", "exiting", "exited"}]
        /\ kind \in [Threads -> {"usleep", "cond"}] /\ until \in [Threads -> 0..MaxTime]
        /\ result \in [Threads -> {"0", "ETIMEDOUT"}]
    BY <1>0 DEF Init
  <2>4. setting \in BOOLEAN
    BY DEF Init
  <2> QED BY <2>1, <2>2, <2>3, <2>4 DEF TypeOK
<1>2. ListInv
  BY <1>0 DEF Init, ListInv, ListLocked, IsInjective, ToSet
<1>3. WaitInv /\ SetterInv /\ NobodyWakesEarly
  BY DEF Init, WaitInv, SetterInv, NobodyWakesEarly, Inside
<1> QED BY <1>1, <1>2, <1>3 DEF IInv

(* The setter's steps.                                                     *)
LEMMA SetTimeKeeps == ASSUME IInv, NEW now \in 0..MaxTime, SetTime(now) PROVE IInv'
<1> USE DEF IInv, SetTime, calls
<1>1. TypeOK'
  BY DEF TypeOK
<1>2. ListInv'
  BY DEF ListInv, ListLocked
<1>3. WaitInv' /\ NobodyWakesEarly'
  BY TimeAssumption DEF TypeOK, WaitInv, NobodyWakesEarly
<1>4. SetterInv'
  BY DEF SetterInv
<1> QED BY <1>1, <1>2, <1>3, <1>4

LEMMA BeginScanKeeps == ASSUME IInv, BeginScan PROVE IInv'
<1> USE DEF IInv, BeginScan, calls
<1>1. TypeOK'
  BY DEF TypeOK
<1>2. ListInv'
  BY DEF ListInv, ListLocked
<1>3. WaitInv' /\ NobodyWakesEarly' /\ SetterInv'
  BY DEF WaitInv, NobodyWakesEarly, SetterInv
<1> QED BY <1>1, <1>2, <1>3

LEMMA RemoveDoneKeeps == ASSUME IInv, RemoveDone PROVE IInv'
<1> USE DEF IInv, RemoveDone, calls, sets
<1>0. /\ list \in Seq(Threads) /\ cursor \in 1..Len(list) /\ Reached \in Threads
      /\ IsInjective(list)
  BY ElementOfSeq, LenProperties DEF TypeOK, ListInv, Reached
<1>1. /\ list' \in Seq(Threads) /\ Len(list') = Len(list) - 1 /\ IsInjective(list')
      /\ ToSet(list') = ToSet(list) \ {Reached}
  BY <1>0, RemoveAtFacts DEF Reached
<1>2. /\ tw' \in [Threads -> [time_us : 0..MaxTime, timeout : BOOLEAN, done : BOOLEAN,
                               removed : BOOLEAN]]
      /\ \A t \in Threads : /\ tw'[t].time_us = tw[t].time_us
                             /\ tw'[t].timeout = tw[t].timeout
                             /\ tw'[t].done = tw[t].done
                             /\ tw'[t].removed <=> t = Reached \/ tw[t].removed
  BY <1>0 DEF TypeOK
<1>3. TypeOK'
  BY <1>0, <1>1, <1>2 DEF TypeOK
<1>4. ListInv'
  BY <1>0, <1>1, <1>2 DEF ListInv, ListLocked
<1>5. WaitInv' /\ NobodyWakesEarly' /\ SetterInv'
  BY <1>0, <1>2 DEF WaitInv, NobodyWakesEarly, SetterInv
<1> QED BY <1>3, <1>4, <1>5

(* A wait in the list that is not done is going on.                        *)
LEMMA CheckTimeKeeps == ASSUME IInv, CheckTime PROVE IInv'
<1> USE DEF IInv, CheckTime, calls
<1>0. /\ list \in Seq(Threads) /\ cursor \in 1..Len(list) /\ Reached \in Threads
      /\ Reached \in ToSet(list)
  BY ElementOfSeq, LenProperties DEF TypeOK, Reached, ToSet
<1>1. TypeOK'
  BY <1>0 DEF TypeOK
<1>2. ListInv'
  BY DEF ListInv, ListLocked
<1>3. WaitInv' /\ NobodyWakesEarly'
  BY DEF WaitInv, NobodyWakesEarly
<1>4. pc[Reached] \in Undone
  BY <1>0 DEF ListInv, WaitInv
<1>5. SetterInv'
  BY <1>0, <1>4 DEF SetterInv, Reached, Due, Undone, Inside
<1> QED BY <1>1, <1>2, <1>3, <1>5

LEMMA SignalKeeps == ASSUME IInv, Signal PROVE IInv'
<1> USE DEF IInv, Signal, calls
<1>0. /\ list \in Seq(Threads) /\ cursor \in 1..Len(list) /\ Reached \in Threads
  BY ElementOfSeq, LenProperties DEF TypeOK, SetterInv, Reached
<1>1. /\ tw' \in [Threads -> [time_us : 0..MaxTime, timeout : BOOLEAN, done : BOOLEAN,
                               removed : BOOLEAN]]
      /\ \A t \in Threads : /\ tw'[t].time_us = tw[t].time_us
                            /\ tw'[t].timeout <=> (t = Reached \/ tw[t].timeout)
                            /\ tw'[t].done = tw[t].done
                            /\ tw'[t].removed = tw[t].removed
  <2>1. tw \in [Threads -> [time_us : 0..MaxTime, timeout : BOOLEAN, done : BOOLEAN,
                            removed : BOOLEAN]]
    BY DEF TypeOK
  <2>2. tw' = [tw EXCEPT ![Reached].timeout = TRUE]
    OBVIOUS
  <2> QED BY ONLY <1>0, <2>1, <2>2
<1>2. \A t \in Threads :
        pc'[t] = IF t = Reached /\ pc[t] = "waiting" THEN "woken" ELSE pc[t]
  <2>1. DOMAIN pc = Threads
    BY DEF TypeOK
  <2> QED BY <2>1
<1>3. TypeOK'
  BY <1>0, <1>1 DEF TypeOK, Inside
<1>4. ListInv'
  BY <1>1, <1>2 DEF ListInv, ListLocked
<1>5. WaitInv'
  BY <1>0, <1>1, <1>2 DEF WaitInv, SetterInv, Undone, Inside
<1>6. NobodyWakesEarly' /\ SetterInv'
  BY <1>2 DEF NobodyWakesEarly, SetterInv
<1> QED BY <1>3, <1>4, <1>5, <1>6

LEMMA EndScanKeeps == ASSUME IInv, EndScan PROVE IInv'
<1> USE DEF IInv, EndScan, calls
<1>1. TypeOK'
  <2>1. 1 \in 1..Len(list) + 1
    BY LenProperties DEF TypeOK
  <2> QED BY <2>1 DEF TypeOK
<1>2. ListInv'
  BY DEF ListInv, ListLocked
<1>3. WaitInv' /\ NobodyWakesEarly' /\ SetterInv'
  BY DEF WaitInv, NobodyWakesEarly, SetterInv
<1> QED BY <1>1, <1>2, <1>3
-----------------------------------------------------------------------------
(* The threads' steps.                                                     *)
LEMMA SleepKeeps ==
    ASSUME IInv, NEW t \in Threads, NEW end \in 0..MaxTime, Sleep(t, end)
    PROVE  IInv'
<1> USE DEF IInv, Sleep, calls, sets
<1>1. TypeOK'
  BY DEF TypeOK, Inside
<1>2. ListInv'
  BY DEF TypeOK, ListInv, ListLocked
<1>3. WaitInv'
  BY DEF TypeOK, WaitInv, Undone, Inside
<1>4. SetterInv'
  BY DEF TypeOK, ListInv, SetterInv, Reached, Inside, ListLocked
<1>5. NobodyWakesEarly'
  BY DEF TypeOK, NobodyWakesEarly, WaitInv
<1> QED BY <1>1, <1>2, <1>3, <1>4, <1>5

LEMMA TimedWaitKeeps ==
    ASSUME IInv, NEW t \in Threads, NEW end \in 0..MaxTime, TimedWait(t, end)
    PROVE  IInv'
<1> USE DEF IInv, TimedWait, calls, sets
<1>1. TypeOK'
  BY DEF TypeOK, Inside
<1>2. ListInv'
  BY DEF TypeOK, ListInv, ListLocked
<1>3. WaitInv'
  BY DEF TypeOK, WaitInv, Undone, Inside
<1>4. SetterInv'
  BY DEF TypeOK, ListInv, SetterInv, Reached, Inside, ListLocked
<1>5. NobodyWakesEarly'
  BY DEF TypeOK, NobodyWakesEarly, WaitInv
<1> QED BY <1>1, <1>2, <1>3, <1>4, <1>5

LEMMA ReleaseKeeps == ASSUME IInv, NEW t \in Threads, Release(t) PROVE IInv'
<1> USE DEF IInv, Release, calls, sets
<1>1. TypeOK'
  BY TimeAssumption DEF TypeOK, Inside
<1>2. ListInv'
  BY DEF TypeOK, ListInv, ListLocked
<1>3. WaitInv'
  BY DEF TypeOK, WaitInv, Undone, Inside
<1>4. SetterInv'
  BY DEF TypeOK, ListInv, SetterInv, Reached, Inside, ListLocked
<1>5. NobodyWakesEarly'
  BY DEF TypeOK, NobodyWakesEarly, WaitInv
<1> QED BY <1>1, <1>2, <1>3, <1>4, <1>5

LEMMA TimePassedKeeps == ASSUME IInv, NEW t \in Threads, TimePassed(t) PROVE IInv'
<1> USE DEF IInv, TimePassed, calls, sets
<1>1. TypeOK'
  BY DEF TypeOK, Inside
<1>2. ListInv'
  BY DEF TypeOK, ListInv, ListLocked
<1>3. WaitInv'
  BY DEF TypeOK, WaitInv, Undone, Inside
<1>4. SetterInv'
  BY DEF TypeOK, ListInv, SetterInv, Reached, Inside, ListLocked
<1>5. NobodyWakesEarly'
  BY DEF TypeOK, NobodyWakesEarly, WaitInv
<1> QED BY <1>1, <1>2, <1>3, <1>4, <1>5

LEMMA WaitKeeps == ASSUME IInv, NEW t \in Threads, Wait(t) PROVE IInv'
<1> USE DEF IInv, Wait, calls, sets
<1>1. TypeOK'
  BY DEF TypeOK, Inside
<1>2. ListInv'
  BY DEF TypeOK, ListInv, ListLocked
<1>3. WaitInv'
  BY DEF TypeOK, WaitInv, Undone, Inside
<1>4. SetterInv'
  BY DEF TypeOK, ListInv, SetterInv, Reached, Inside, ListLocked
<1>5. NobodyWakesEarly'
  BY DEF TypeOK, NobodyWakesEarly, WaitInv
<1> QED BY <1>1, <1>2, <1>3, <1>4, <1>5

LEMMA WakeKeeps == ASSUME IInv, NEW t \in Threads, Wake(t) PROVE IInv'
<1> USE DEF IInv, Wake, calls, sets
<1>1. TypeOK'
  BY DEF TypeOK, Inside
<1>2. ListInv'
  BY DEF TypeOK, ListInv, ListLocked
<1>3. WaitInv'
  BY DEF TypeOK, WaitInv, Undone, Inside
<1>4. SetterInv'
  BY DEF TypeOK, ListInv, SetterInv, Reached, Inside, ListLocked
<1>5. NobodyWakesEarly'
  BY DEF TypeOK, NobodyWakesEarly, WaitInv
<1> QED BY <1>1, <1>2, <1>3, <1>4, <1>5

LEMMA ReturnKeeps == ASSUME IInv, NEW t \in Threads, Return(t) PROVE IInv'
<1> USE DEF IInv, Return, calls, sets
<1>1. TypeOK'
  BY DEF TypeOK, Inside
<1>2. ListInv'
  BY DEF TypeOK, ListInv, ListLocked
<1>3. WaitInv'
  BY DEF TypeOK, WaitInv, Undone, Inside
<1>4. SetterInv'
  BY DEF TypeOK, ListInv, SetterInv, Reached, Inside, ListLocked
<1>5. NobodyWakesEarly'
  BY DEF TypeOK, NobodyWakesEarly, WaitInv
<1> QED BY <1>1, <1>2, <1>3, <1>4, <1>5

LEMMA SlowReturnKeeps == ASSUME IInv, NEW t \in Threads, SlowReturn(t) PROVE IInv'
<1> USE DEF IInv, SlowReturn, calls, sets
<1>1. TypeOK'
  BY DEF TypeOK, Inside
<1>2. ListInv'
  BY DEF TypeOK, ListInv, ListLocked
<1>3. WaitInv'
  BY DEF TypeOK, WaitInv, Undone, Inside
<1>4. SetterInv'
  BY DEF TypeOK, ListInv, SetterInv, Reached, Inside, ListLocked
<1>5. NobodyWakesEarly'
  BY DEF TypeOK, NobodyWakesEarly, WaitInv
<1> QED BY <1>1, <1>2, <1>3, <1>4, <1>5

LEMMA NotifyKeeps == ASSUME IInv, NEW t \in Threads, Notify(t) PROVE IInv'
<1> USE DEF IInv, Notify, calls, sets
<1>1. TypeOK'
  BY DEF TypeOK, Inside
<1>2. ListInv'
  BY DEF TypeOK, ListInv, ListLocked
<1>3. WaitInv'
  BY DEF TypeOK, WaitInv, Undone, Inside
<1>4. SetterInv'
  BY DEF TypeOK, ListInv, SetterInv, Reached, Inside, ListLocked
<1>5. NobodyWakesEarly'
  BY DEF TypeOK, NobodyWakesEarly, WaitInv
<1> QED BY <1>1, <1>2, <1>3, <1>4, <1>5

LEMMA CancelKeeps == ASSUME IInv, NEW t \in Threads, Cancel(t) PROVE IInv'
<1> USE DEF IInv, Cancel, calls, sets
<1>1. TypeOK'
  BY DEF TypeOK, Inside
<1>2. ListInv'
  BY DEF TypeOK, ListInv, ListLocked
<1>3. WaitInv'
  BY DEF TypeOK, WaitInv, Undone, Inside
<1>4. SetterInv'
  BY DEF TypeOK, ListInv, SetterInv, Reached, Inside, ListLocked
<1>5. NobodyWakesEarly'
  BY DEF TypeOK, NobodyWakesEarly, WaitInv
<1> QED BY <1>1, <1>2, <1>3, <1>4, <1>5

LEMMA ExitKeeps == ASSUME IInv, NEW t \in Threads, Exit(t) PROVE IInv'
<1> USE DEF IInv, Exit, calls, sets
<1>1. TypeOK'
  BY DEF TypeOK, Inside
<1>2. ListInv'
  BY DEF TypeOK, ListInv, ListLocked
<1>3. WaitInv'
  BY DEF TypeOK, WaitInv, Undone, Inside
<1>4. SetterInv'
  BY DEF TypeOK, ListInv, SetterInv, Reached, Inside, ListLocked
<1>5. NobodyWakesEarly'
  BY DEF TypeOK, NobodyWakesEarly, WaitInv
<1> QED BY <1>1, <1>2, <1>3, <1>4, <1>5

LEMMA ExitedKeeps == ASSUME IInv, NEW t \in Threads, Exited(t) PROVE IInv'
<1> USE DEF IInv, Exited, calls, sets
<1>1. TypeOK'
  BY DEF TypeOK, Inside
<1>2. ListInv'
  BY DEF TypeOK, ListInv, ListLocked
<1>3. WaitInv'
  BY DEF TypeOK, WaitInv, Undone, Inside
<1>4. SetterInv'
  <2> SUFFICES ASSUME setter = "signal" PROVE SetterInv'
    BY DEF SetterInv
  <2>1. Reached' = Reached /\ Reached \in Threads /\ Reached \in ToSet(list)
    BY ElementOfSeq, LenProperties DEF TypeOK, SetterInv, Reached, ToSet
  <2>2. t # Reached
    BY <2>1 DEF ListInv
  <2> QED BY <2>1, <2>2 DEF TypeOK, SetterInv
<1>5. NobodyWakesEarly'
  BY DEF TypeOK, NobodyWakesEarly, WaitInv
<1> QED BY <1>1, <1>2, <1>3, <1>4, <1>5

LEMMA DoneKeeps == ASSUME IInv, NEW t \in Threads, Done(t) PROVE IInv'
<1> USE DEF IInv, Done, calls, sets
<1>1. TypeOK'
  BY DEF TypeOK, Inside
<1>2. ListInv'
  BY DEF TypeOK, ListInv, ListLocked
<1>3. WaitInv'
  BY DEF TypeOK, WaitInv, Undone, Inside
<1>4. SetterInv'
  <2> SUFFICES ASSUME setter = "signal" PROVE SetterInv'
    BY DEF SetterInv
  <2>1. Reached' = Reached /\ Reached \in Threads
    BY ElementOfSeq, LenProperties DEF TypeOK, SetterInv, Reached
  <2>2. CASE t = Reached
    BY <2>1, <2>2 DEF TypeOK, SetterInv, Inside
  <2>3. CASE t # Reached
    BY <2>1, <2>3 DEF TypeOK, SetterInv
  <2> QED BY <2>2, <2>3
<1>5. NobodyWakesEarly'
  BY DEF TypeOK, NobodyWakesEarly, WaitInv
<1> QED BY <1>1, <1>2, <1>3, <1>4, <1>5

LEMMA ReleaseCancelledKeeps == ASSUME IInv, NEW t \in Threads, ReleaseCancelled(t) PROVE IInv'
<1> USE DEF IInv, ReleaseCancelled, calls, sets
<1>1. TypeOK'
  BY DEF TypeOK, Inside
<1>2. ListInv'
  BY DEF TypeOK, ListInv, ListLocked
<1>3. WaitInv'
  BY DEF TypeOK, WaitInv, Undone, Inside
<1>4. SetterInv'
  BY DEF TypeOK, ListInv, SetterInv, Reached, Inside, ListLocked
<1>5. NobodyWakesEarly'
  BY DEF TypeOK, NobodyWakesEarly, WaitInv
<1> QED BY <1>1, <1>2, <1>3, <1>4, <1>5

(* The object is put into the list only if it is not there.                *)
LEMMA RegisterKeeps == ASSUME IInv, NEW t \in Threads, Register(t) PROVE IInv'
<1> USE DEF IInv, Register, calls, sets
<1>1. /\ tw' \in [Threads -> [time_us : 0..MaxTime, timeout : BOOLEAN, done : BOOLEAN,
                               removed : BOOLEAN]]
      /\ \A u \in Threads : u # t => tw'[u] = tw[u]
      /\ tw'[t] = [time_us |-> until[t], timeout |-> FALSE, done |-> FALSE,
                   removed |-> FALSE]
  BY DEF TypeOK, Registered
<1>2. /\ list' \in Seq(Threads) /\ Len(list') >= Len(list) /\ IsInjective(list')
      /\ ToSet(list') = ToSet(list) \cup {t}
  <2>1. /\ list \in Seq(Threads) /\ Len(list) \in Nat /\ IsInjective(list)
        /\ t \in ToSet(list) <=> ~tw[t].removed
    BY LenProperties DEF TypeOK, ListInv
  <2>2. CASE tw[t].removed
    BY <2>1, <2>2, ConsFacts
  <2>3. CASE ~tw[t].removed
    BY <2>1, <2>3
  <2> QED BY <2>2, <2>3
<1>3. /\ pc' \in [Threads -> Inside \cup {"out", "call", "returned", "exiting", "exited"}]
      /\ \A u \in Threads : pc'[u] = IF u = t THEN "wait" ELSE pc[u]
  BY DEF TypeOK, Inside
<1>4. setter \notin {"scan", "signal"} /\ cursor = 1
  BY DEF ListInv, ListLocked
<1>5. TypeOK'
  <2>1. cursor' \in 1..Len(list') + 1
    BY <1>2, <1>4, LenProperties
  <2> QED BY <1>1, <1>2, <1>3, <2>1 DEF TypeOK
<1>6. ListInv'
  BY <1>1, <1>2, <1>3, <1>4 DEF ListInv, ListLocked
<1>7. WaitInv'
  BY <1>1, <1>3 DEF WaitInv, Undone, Inside
<1>8. SetterInv' /\ NobodyWakesEarly'
  BY <1>3, <1>4 DEF SetterInv, NobodyWakesEarly
<1> QED BY <1>5, <1>6, <1>7, <1>8
-----------------------------------------------------------------------------
LEMMA StutterKeeps == ASSUME IInv, UNCHANGED vars PROVE IInv'
BY DEF vars, sets, calls, IInv, TypeOK, ListInv, ListLocked, WaitInv, SetterInv, Reached,
       NobodyWakesEarly

LEMMA NextKeeps == ASSUME IInv, [Next]_vars PROVE IInv'
<1>1. CASE \E now \in 0..MaxTime : SetTime(now)
  BY <1>1, SetTimeKeeps
<1>2. CASE Scan
  BY <1>2, BeginScanKeeps, RemoveDoneKeeps, CheckTimeKeeps, SignalKeeps, EndScanKeeps
     DEF Scan
<1>3. ASSUME NEW t \in Threads, Thread(t) PROVE IInv'
  BY <1>3, TimePassedKeeps, RegisterKeeps, WaitKeeps, WakeKeeps, DoneKeeps, ReturnKeeps,
     SlowReturnKeeps, ReleaseKeeps, ReleaseCancelledKeeps, ExitedKeeps DEF Thread
<1>4. ASSUME NEW t \in Threads, Notify(t) \/ Cancel(t) \/ Exit(t) PROVE IInv'
  BY <1>4, NotifyKeeps, CancelKeeps, ExitKeeps
<1>5. ASSUME NEW t \in Threads, NEW end \in 0..MaxTime, Sleep(t, end) \/ TimedWait(t, end)
      PROVE  IInv'
  BY <1>5, SleepKeeps, TimedWaitKeeps
<1>6. CASE UNCHANGED vars
  BY <1>6, StutterKeeps
<1> QED BY <1>1, <1>2, <1>3, <1>4, <1>5, <1>6 DEF Next

(* Every reachable state satisfies the inductive invariant.                *)
LEMMA Invariance == Spec => []IInv
<1>1. Init => IInv
  BY InitHolds
<1>2. IInv /\ [Next]_vars => IInv'
  BY NextKeeps
<1> QED BY <1>1, <1>2, PTL DEF Spec

(* Type correctness: the cursor stays within the list, which shrinks under *)
(* the setter's scan (set_absolute_time) and grows between scans.          *)
THEOREM TypeCorrect == Spec => []TypeOK
<1>1. IInv => TypeOK
  BY DEF IInv
<1> QED BY <1>1, Invariance, PTL

(* set_absolute_time locks a mutex and signals a condition only while      *)
(* their wait is going on, and the list names no thread that has exited    *)
(* and none twice, for any number of threads.                              *)
THEOREM LiveWaits == Spec => []SetterTouchesLiveWaits
<1>1. IInv => SetterTouchesLiveWaits
  BY DEF IInv, ListInv, SetterInv, SetterTouchesLiveWaits
<1> QED BY <1>1, Invariance, PTL

(* No sleep and no wait that reports ETIMEDOUT returns from cond_timedwait *)
(* before its time, for any number of threads.                             *)
THEOREM NotEarly == Spec => []NobodyWakesEarly
<1>1. IInv => NobodyWakesEarly
  BY DEF IInv
<1> QED BY <1>1, Invariance, PTL
=============================================================================
