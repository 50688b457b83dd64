------------------------ MODULE LogWriterFile_proofs ------------------------
(***************************************************************************)
(* The safety properties of LogWriterFile, for buffers, chunks and         *)
(* messages of any size.                                                   *)
(*                                                                         *)
(* FileIsFaithful is about a ring buffer that one thread fills while the   *)
(* other reads from it without the lock.  The argument: the region under   *)
(* way stays at the old end of what is waiting (WriteInv), because start_  *)
(* log empties a buffer only after its file was closed (StartInv), and the *)
(* byte in each slot is known from how far the slot is behind the head     *)
(* (Content).  CloseDropsOnlyOverlap needs to know only how much can have  *)
(* come in during a write (DropInv).                                       *)
(***************************************************************************)
EXTENDS LogWriterFile, SequenceTheorems, TLAPS

(* How many bytes younger than the one in slot s there are.                *)
Age(t, s) == IF s < head[t] THEN head[t] - 1 - s ELSE head[t] - 1 - s + BufferSize[t]

(* The slot of the oldest byte waiting.                                    *)
Oldest(t) == IF head[t] < count[t] THEN head[t] - count[t] + BufferSize[t]
             ELSE head[t] - count[t]

(* FileIsFaithful, byte by byte.                                           *)
Content(t) ==
    /\ Len(file[t]) + count[t] = accepted[t] - base[t]
    /\ \A k \in 1..Len(file[t]) : file[t][k] = base[t] + k
    /\ \A s \in Slots(t) : Age(t, s) < count[t] => ring[t][s] = accepted[t] - Age(t, s)

(* The writer never reads past the end of the buffer.                      *)
ReadInv == writer = "write" => read.ptr + read.available <= BufferSize[i]

(* What a close can drop has come in since the write began, and nothing    *)
(* comes in after a close before the log is started again.                 *)
DropInv ==
    /\ writer = "write" /\ ~read.is_part => count[i] <= read.available + overlap[i]
    /\ \A t \in Types : dropped[t] # 0 => ~should_run[t] /\ count[t] = 0
    /\ CloseDropsOnlyOverlap

(* A closed file has an empty buffer and a log that does not run; so has   *)
(* one that start_log has opened but not yet started.                      *)
StartInv ==
    /\ \A t \in Types : ~fd[t] => count[t] = 0 /\ ~should_run[t]
    /\ main = "open" => ~fd[log]
    /\ main = "run" => fd[log] /\ count[log] = 0 /\ ~should_run[log]

(* While the writer writes, its region stays where it is.                  *)
WriteInv ==
    writer = "write" => /\ fd[i]
                        /\ read.available \in 1..count[i]
                        /\ read.ptr = Oldest(i)

FileInv ==
    misclosed \/
    /\ writer # "corrupt"
    /\ StartInv /\ WriteInv
    /\ \A t \in Types : fd[t] /\ should_run[t] => Content(t)

IInv == TypeOK /\ ReadInv /\ DropInv /\ FileInv
-----------------------------------------------------------------------------
(* The head h of a buffer of size B moves forward by n bytes ...           *)
LEMMA MoveForward ==
    ASSUME NEW B \in Nat \ {0}, NEW h \in 0..(B - 1), NEW n \in 0..B
    PROVE  (h + n) % B = IF h + n < B THEN h + n ELSE h + n - B
OBVIOUS

(* ... so that slot s gets the byte this far behind the old head ...       *)
LEMMA Distance ==
    ASSUME NEW B \in Nat \ {0}, NEW h \in 0..(B - 1), NEW s \in 0..(B - 1)
    PROVE  (s - h) % B = IF s < h THEN s - h + B ELSE s - h
OBVIOUS

(* ... new bytes have their age from the new head g, and old ones age ...  *)
LEMMA AgeMoves ==
    ASSUME NEW B \in Nat \ {0}, NEW h \in 0..(B - 1), NEW s \in 0..(B - 1), NEW n \in 0..B,
           NEW k \in Int, k = IF s < h THEN s - h + B ELSE s - h,
           NEW g \in Int, g = IF h + n < B THEN h + n ELSE h + n - B
    PROVE  /\ k >= 0
           /\ (IF s < h THEN h - 1 - s ELSE h - 1 - s + B) \in Nat
           /\ (IF s < g THEN g - 1 - s ELSE g - 1 - s + B) =
                 IF k < n THEN n - 1 - k
                 ELSE (IF s < h THEN h - 1 - s ELSE h - 1 - s + B) + n
OBVIOUS

(* ... and the oldest of the c bytes waiting stays where it is.            *)
LEMMA OldestStays ==
    ASSUME NEW B \in Nat \ {0}, NEW h \in 0..(B - 1), NEW c \in 0..B, NEW n \in 0..(B - c),
           NEW g, g = IF h + n < B THEN h + n ELSE h + n - B
    PROVE  (IF g < c + n THEN g - (c + n) + B ELSE g - (c + n)) =
              (IF h < c THEN h - c + B ELSE h - c)
OBVIOUS

(* The sizes and the pointers of a buffer.                                 *)
LEMMA BufferFacts ==
    ASSUME TypeOK, NEW t \in Types
    PROVE  /\ BufferSize[t] \in Nat \ {0} /\ MinChunk[t] \in Nat \ {0}
           /\ head[t] \in 0..(BufferSize[t] - 1) /\ count[t] \in 0..BufferSize[t]
           /\ ring[t] \in [Slots(t) -> Nat] /\ Slots(t) = 0..(BufferSize[t] - 1)
           /\ file[t] \in Seq(Nat) /\ Len(file[t]) \in Nat
           /\ accepted[t] \in Nat /\ base[t] \in Nat
           /\ overlap[t] \in Nat /\ dropped[t] \in Nat
<1>1. file[t] \in Seq(Nat) /\ Len(file[t]) \in Nat
  BY LenProperties DEF TypeOK
<1>2. BufferSize[t] \in Nat \ {0} /\ MinChunk[t] \in Nat \ {0}
  BY WriterAssumption
<1>3. head[t] \in 0..(BufferSize[t] - 1) /\ count[t] \in 0..BufferSize[t]
  <2>1. head[t] \in Nat /\ head[t] < BufferSize[t] /\ count[t] \in Nat /\ count[t] <= BufferSize[t]
    BY DEF TypeOK
  <2> QED BY <1>2, <2>1
<1> QED BY <1>1, <1>2, <1>3 DEF TypeOK, Slots

LEMMA InitHolds == Init => IInv
<1> SUFFICES ASSUME Init PROVE IInv
  OBVIOUS
<1> USE DEF Init
<1>1. TypeOK
  <2>1. \A t \in Types : BufferSize[t] \in Nat \ {0}
    BY WriterAssumption
  <2>2. /\ DOMAIN ring = Types
        /\ \A t \in Types : ring[t] \in [Slots(t) -> Nat]
    OBVIOUS
  <2>3. /\ head \in [Types -> Nat] /\ count \in [Types -> Nat]
        /\ \A t \in Types : head[t] < BufferSize[t] /\ count[t] <= BufferSize[t]
    BY <2>1
  <2>4. /\ accepted \in [Types -> Nat] /\ base \in [Types -> Nat]
        /\ overlap \in [Types -> Nat] /\ dropped \in [Types -> Nat]
        /\ file \in [Types -> Seq(Nat)]
    OBVIOUS
  <2>5. /\ leaving \in BOOLEAN /\ mtx \in BOOLEAN /\ exit \in BOOLEAN
        /\ stranded \in BOOLEAN /\ misclosed \in BOOLEAN
    OBVIOUS
  <2>6. should_run \in [Types -> BOOLEAN] /\ fd \in [Types -> BOOLEAN]
    OBVIOUS
  <2>7. read \in [ptr : Nat, available : Nat, is_part : BOOLEAN]
    OBVIOUS
  <2> QED BY <2>2, <2>3, <2>4, <2>5, <2>6, <2>7 DEF TypeOK, Types
<1>2. ReadInv /\ DropInv
  BY DEF ReadInv, DropInv, CloseDropsOnlyOverlap
<1>3. FileInv
  BY DEF FileInv, StartInv, WriteInv, Types
<1> QED BY <1>1, <1>2, <1>3 DEF IInv
-----------------------------------------------------------------------------
(* Content depends on these variables only.                                *)
LEMMA ContentSame ==
    ASSUME NEW t \in Types,
           head'[t] = head[t], count'[t] = count[t], ring'[t] = ring[t],
           file'[t] = file[t], accepted'[t] = accepted[t], base'[t] = base[t]
    PROVE  Content(t) => Content(t)'
BY DEF Content, Age, Slots

(* A step of the control of either thread that leaves the buffers alone    *)
(* and begins no write.  It may stop a log.                                *)
LEMMA ControlStep ==
    ASSUME IInv, TypeOK',
           UNCHANGED <<fd, ring, head, count, file, accepted, base, overlap, dropped,
                       misclosed>>,
           \A t \in Types : should_run'[t] => should_run[t],
           writer' = "write" => writer = "write" /\ i' = i /\ read' = read,
           writer' = "corrupt" => writer = "corrupt",
           main' = "open" => (main = "open" /\ log' = log) \/ ~fd[log'],
           main' = "run" => main = "run" /\ log' = log
    PROVE  IInv'
<1> USE DEF IInv
<1>1. ReadInv'
  BY DEF ReadInv
<1>2. DropInv'
  BY DEF DropInv, CloseDropsOnlyOverlap
<1>3. FileInv'
  <2> SUFFICES ASSUME ~misclosed
               PROVE  /\ writer' # "corrupt" /\ StartInv' /\ WriteInv'
                      /\ \A t \in Types : fd'[t] /\ should_run'[t] => Content(t)'
    BY DEF FileInv
  <2>1. writer' # "corrupt" /\ StartInv' /\ WriteInv'
    BY DEF FileInv, StartInv, WriteInv, Oldest, TypeOK
  <2>2. \A t \in Types : fd'[t] /\ should_run'[t] => Content(t)'
    BY ContentSame DEF FileInv
  <2> QED BY <2>1, <2>2
<1> QED BY <1>1, <1>2, <1>3
-----------------------------------------------------------------------------
(* What write_no_check does to a buffer that has room for n bytes.         *)
LEMMA FillFacts ==
    ASSUME TypeOK, NEW t \in Types, NEW n \in Nat, n <= Available(t), Fill(t, n)
    PROVE  /\ DOMAIN ring' = Types
           /\ head' \in [Types -> Nat] /\ count' \in [Types -> Nat]
           /\ accepted' \in [Types -> Nat] /\ overlap' \in [Types -> Nat]
           /\ ring'[t] \in [Slots(t) -> Nat]
           /\ head'[t] = IF head[t] + n < BufferSize[t] THEN head[t] + n
                         ELSE head[t] + n - BufferSize[t]
           /\ head'[t] < BufferSize[t]
           /\ count'[t] = count[t] + n /\ count'[t] <= BufferSize[t]
           /\ accepted'[t] = accepted[t] + n /\ overlap'[t] = overlap[t] + n
           /\ \A s \in Slots(t) :
                 LET k == IF s < head[t] THEN s - head[t] + BufferSize[t] ELSE s - head[t]
                 IN  ring'[t][s] = IF k < n THEN accepted[t] + k + 1 ELSE ring[t][s]
           /\ \A u \in Types \ {t} :
                 /\ ring'[u] = ring[u] /\ head'[u] = head[u] /\ count'[u] = count[u]
                 /\ accepted'[u] = accepted[u] /\ overlap'[u] = overlap[u]
<1> DEFINE B == BufferSize[t]
           h == head[t]
<1>1. /\ B \in Nat \ {0} /\ h \in 0..(B - 1) /\ count[t] \in 0..B
      /\ Slots(t) = 0..(B - 1) /\ ring[t] \in [Slots(t) -> Nat]
      /\ accepted[t] \in Nat /\ overlap[t] \in Nat
  BY BufferFacts
<1>2. n \in 0..B
  BY <1>1 DEF Available
<1> HIDE DEF B, h
<1>3. (h + n) % B = IF h + n < B THEN h + n ELSE h + n - B
  BY <1>1, <1>2, MoveForward
<1>4. \A s \in Slots(t) : (s - h) % B = IF s < h THEN s - h + B ELSE s - h
  BY <1>1, Distance
<1>5. /\ DOMAIN ring' = Types
      /\ ring'[t] = [s \in Slots(t) |->
                        IF (s - h) % B < n THEN accepted[t] + ((s - h) % B) + 1 ELSE ring[t][s]]
      /\ \A u \in Types \ {t} : ring'[u] = ring[u]
  BY DEF TypeOK, Fill, B, h
<1>6. \A s \in Slots(t) :
         LET k == IF s < h THEN s - h + B ELSE s - h
         IN  ring'[t][s] = IF k < n THEN accepted[t] + k + 1 ELSE ring[t][s]
  BY <1>4, <1>5
<1>7. ring'[t] \in [Slots(t) -> Nat]
  <2>1. \A s \in Slots(t) : (s - h) % B \in Nat
    BY <1>1, <1>4
  <2> QED BY <1>1, <1>5, <2>1
<1>8. /\ head' \in [Types -> Nat] /\ head'[t] = (h + n) % B /\ head'[t] < B
      /\ \A u \in Types \ {t} : head'[u] = head[u]
  <2>1. head' = [head EXCEPT ![t] = (h + n) % B] /\ head \in [Types -> Nat]
    BY DEF TypeOK, Fill, B, h
  <2>2. (h + n) % B \in Nat /\ (h + n) % B < B
    BY <1>1, <1>2, <1>3
  <2> QED BY <2>1, <2>2
<1>9. /\ count' \in [Types -> Nat] /\ count'[t] = count[t] + n
      /\ \A u \in Types \ {t} : count'[u] = count[u]
  <2>1. count' = [count EXCEPT ![t] = count[t] + n] /\ count \in [Types -> Nat]
    BY DEF TypeOK, Fill
  <2>2. count[t] + n \in Nat
    BY <1>1
  <2> QED BY <2>1, <2>2
<1>10. /\ accepted' \in [Types -> Nat] /\ accepted'[t] = accepted[t] + n
       /\ overlap' \in [Types -> Nat] /\ overlap'[t] = overlap[t] + n
       /\ \A u \in Types \ {t} : accepted'[u] = accepted[u] /\ overlap'[u] = overlap[u]
  <2>1. /\ accepted' = [accepted EXCEPT ![t] = accepted[t] + n] /\ accepted \in [Types -> Nat]
        /\ overlap' = [overlap EXCEPT ![t] = overlap[t] + n] /\ overlap \in [Types -> Nat]
    BY DEF TypeOK, Fill
  <2>2. accepted[t] + n \in Nat /\ overlap[t] + n \in Nat
    BY <1>1
  <2> QED BY <2>1, <2>2
<1>11. count'[t] <= B
  BY <1>1, <1>9 DEF Available, B
<1> QED BY <1>3, <1>5, <1>6, <1>7, <1>8, <1>9, <1>10, <1>11 DEF B, h

(* Appending leaves the oldest byte where it is, and the contents right.   *)
LEMMA FillContent ==
    ASSUME TypeOK, NEW t \in Types, NEW n \in Nat, n <= Available(t), Fill(t, n),
           file' = file, base' = base
    PROVE  /\ Oldest(t)' = Oldest(t)
           /\ Content(t) => Content(t)'
<1>1. /\ BufferSize[t] \in Nat \ {0}
      /\ head[t] \in 0..(BufferSize[t] - 1) /\ count[t] \in 0..BufferSize[t]
      /\ ring[t] \in [Slots(t) -> Nat] /\ Slots(t) = 0..(BufferSize[t] - 1)
      /\ Len(file[t]) \in Nat /\ accepted[t] \in Nat /\ base[t] \in Nat
      /\ n <= BufferSize[t] - count[t]
  BY BufferFacts DEF Available
<1>2. /\ head'[t] = IF head[t] + n < BufferSize[t] THEN head[t] + n
                    ELSE head[t] + n - BufferSize[t]
      /\ count'[t] = count[t] + n /\ accepted'[t] = accepted[t] + n
      /\ \A s \in Slots(t) :
            LET k == IF s < head[t] THEN s - head[t] + BufferSize[t] ELSE s - head[t]
            IN  ring'[t][s] = IF k < n THEN accepted[t] + k + 1 ELSE ring[t][s]
  BY FillFacts
<1>3. Oldest(t)' = Oldest(t)
  <2>1. n \in 0..(BufferSize[t] - count[t])
    BY <1>1
  <2>2. (IF head'[t] < count[t] + n THEN head'[t] - (count[t] + n) + BufferSize[t]
         ELSE head'[t] - (count[t] + n)) =
        (IF head[t] < count[t] THEN head[t] - count[t] + BufferSize[t] ELSE head[t] - count[t])
    <3>1. /\ BufferSize[t] \in Nat \ {0}
          /\ head[t] \in 0..(BufferSize[t] - 1) /\ count[t] \in 0..BufferSize[t]
      BY <1>1
    <3>2. head'[t] = IF head[t] + n < BufferSize[t] THEN head[t] + n
                     ELSE head[t] + n - BufferSize[t]
      BY <1>2
    <3> QED BY ONLY <2>1, <3>1, <3>2, OldestStays
  <2> QED BY <1>2, <2>2 DEF Oldest
<1>4. ASSUME Content(t) PROVE Content(t)'
  <2>1. Len(file'[t]) + count'[t] = accepted'[t] - base'[t]
    <3>1. Len(file[t]) + count[t] = accepted[t] - base[t]
      BY <1>4 DEF Content
    <3>2. /\ count[t] \in Nat /\ accepted[t] \in Nat /\ base[t] \in Nat /\ Len(file[t]) \in Nat
      BY <1>1
    <3>3. count'[t] = count[t] + n /\ accepted'[t] = accepted[t] + n
      BY <1>2
    <3>4. file'[t] = file[t] /\ base'[t] = base[t]
      OBVIOUS
    <3>5. Len(file[t]) + (count[t] + n) = (accepted[t] + n) - base[t]
      BY ONLY <3>1, <3>2, n \in Nat
    <3> QED BY ONLY <3>3, <3>4, <3>5
  <2>2. \A k \in 1..Len(file'[t]) : file'[t][k] = base'[t] + k
    BY <1>4 DEF Content
  <2>3. ASSUME NEW s \in Slots(t), Age(t, s)' < count'[t]
        PROVE  ring'[t][s] = accepted'[t] - Age(t, s)'
    <3> DEFINE k == IF s < head[t] THEN s - head[t] + BufferSize[t] ELSE s - head[t]
    <3>1. ring'[t][s] = IF k < n THEN accepted[t] + k + 1 ELSE ring[t][s]
      BY <1>2
    <3>2. /\ k \in Nat /\ Age(t, s) \in Nat
          /\ Age(t, s)' = IF k < n THEN n - 1 - k ELSE Age(t, s) + n
      <4>1. s \in 0..(BufferSize[t] - 1) /\ n \in 0..BufferSize[t]
        BY <1>1
      <4>2. k = IF s < head[t] THEN s - head[t] + BufferSize[t] ELSE s - head[t]
        OBVIOUS
      <4> HIDE DEF k
      <4>3. head'[t] = IF head[t] + n < BufferSize[t] THEN head[t] + n
                       ELSE head[t] + n - BufferSize[t]
        BY <1>2
      <4>4. k \in Int /\ head'[t] \in Int
        BY <1>1, <4>1, <4>2, <4>3
      <4>5. /\ k >= 0
            /\ (IF s < head[t] THEN head[t] - 1 - s ELSE head[t] - 1 - s + BufferSize[t]) \in Nat
            /\ (IF s < head'[t] THEN head'[t] - 1 - s ELSE head'[t] - 1 - s + BufferSize[t]) =
                  IF k < n THEN n - 1 - k
                  ELSE (IF s < head[t] THEN head[t] - 1 - s
                        ELSE head[t] - 1 - s + BufferSize[t]) + n
        <5>1. BufferSize[t] \in Nat \ {0} /\ head[t] \in 0..(BufferSize[t] - 1)
          BY <1>1
        <5> QED BY ONLY <4>1, <4>2, <4>3, <4>4, <5>1, AgeMoves
      <4> QED BY <4>4, <4>5 DEF Age
    <3>4. Age(t, s) < count[t] => ring[t][s] = accepted[t] - Age(t, s)
      BY <1>4 DEF Content
    <3> HIDE DEF k
    <3> QED BY <1>1, <1>2, <2>3, <3>1, <3>2, <3>4
  <2> QED BY <2>1, <2>2, <2>3 DEF Content, Slots
<1> QED BY <1>3, <1>4
-----------------------------------------------------------------------------
(* A step that appends n bytes to a log that runs, whoever asked for it.   *)
LEMMA FillStep ==
    ASSUME IInv, NEW t \in Types, NEW n \in Nat, n <= Available(t), Fill(t, n),
           should_run[t], main \notin {"open", "run"}, main' \notin {"open", "run"},
           main' \in {"on", "delayed", "header_end", "stop"},
           UNCHANGED <<log, leaving, writer, i, read, mtx, exit, should_run, fd, file, base,
                       dropped, stranded, misclosed>>
    PROVE  IInv'
<1> USE DEF IInv
<1>1. /\ DOMAIN ring' = Types
      /\ head' \in [Types -> Nat] /\ count' \in [Types -> Nat]
      /\ accepted' \in [Types -> Nat] /\ overlap' \in [Types -> Nat]
      /\ ring'[t] \in [Slots(t) -> Nat]
      /\ head'[t] < BufferSize[t]
      /\ count'[t] = count[t] + n /\ count'[t] <= BufferSize[t]
      /\ overlap'[t] = overlap[t] + n
      /\ \A u \in Types \ {t} :
            /\ ring'[u] = ring[u] /\ head'[u] = head[u] /\ count'[u] = count[u]
            /\ accepted'[u] = accepted[u] /\ overlap'[u] = overlap[u]
  BY FillFacts
<1>2. Oldest(t)' = Oldest(t) /\ (Content(t) => Content(t)')
  BY FillContent
<1>3. TypeOK'
  <2>1. \A u \in Types : /\ ring'[u] \in [Slots(u)' -> Nat]
                         /\ head'[u] < BufferSize[u] /\ count'[u] <= BufferSize[u]
    <3> SUFFICES ASSUME NEW u \in Types
                 PROVE  /\ ring'[u] \in [Slots(u)' -> Nat]
                        /\ head'[u] < BufferSize[u] /\ count'[u] <= BufferSize[u]
      OBVIOUS
    <3>1. /\ ring[u] \in [Slots(u) -> Nat] /\ Slots(u)' = Slots(u)
          /\ head[u] < BufferSize[u] /\ count[u] <= BufferSize[u]
      BY DEF TypeOK, Slots
    <3>2. CASE u = t
      BY <1>1, <3>1, <3>2
    <3>3. CASE u # t
      BY <1>1, <3>1, <3>3
    <3> QED BY <3>2, <3>3
  <2>2. /\ DOMAIN ring' = Types
        /\ head' \in [Types -> Nat] /\ count' \in [Types -> Nat]
        /\ accepted' \in [Types -> Nat] /\ overlap' \in [Types -> Nat]
    BY <1>1
  <2>3. main' \in {"off", "start", "open", "run", "header", "header_end", "on",
                   "delayed", "perf", "stop", "join", "ended"}
    OBVIOUS
  <2>4. /\ file' \in [Types -> Seq(Nat)] /\ base' \in [Types -> Nat]
        /\ dropped' \in [Types -> Nat]
    BY DEF TypeOK
  <2> QED BY <2>1, <2>2, <2>3, <2>4 DEF TypeOK
<1>4. ReadInv'
  BY DEF ReadInv
<1>5. \A u \in Types : overlap[u] \in Nat /\ count[u] \in Nat /\ overlap[u] <= overlap'[u]
  <2>1. \A u \in Types : overlap[u] \in Nat /\ count[u] \in Nat
    BY DEF TypeOK
  <2>2. overlap[t] <= overlap'[t]
    BY <1>1, <2>1
  <2> QED BY <1>1, <2>1, <2>2
<1>6. DropInv'
  <2>1. writer = "write" /\ ~read.is_part => count'[i] <= read.available + overlap'[i]
    <3>1. CASE i = t
      <4>1. /\ count'[i] = count[i] + n /\ overlap'[i] = overlap[i] + n
            /\ count[i] \in Nat /\ overlap[i] \in Nat /\ read.available \in Nat
        BY <1>1, <1>5, <3>1 DEF TypeOK
      <4>2. writer = "write" /\ ~read.is_part => count[i] <= read.available + overlap[i]
        BY DEF DropInv
      <4> QED BY ONLY n \in Nat, <4>1, <4>2
    <3>2. CASE i # t
      BY <1>1, <3>2 DEF DropInv, TypeOK
    <3> QED BY <3>1, <3>2
  <2>2. \A u \in Types : dropped[u] # 0 => ~should_run[u] /\ count'[u] = 0
    BY <1>1 DEF DropInv
  <2>3. CloseDropsOnlyOverlap'
    <3> SUFFICES ASSUME NEW u \in Types PROVE dropped[u] <= overlap'[u]
      BY DEF CloseDropsOnlyOverlap
    <3>1. dropped[u] \in Nat /\ overlap'[u] \in Nat
      BY <1>1 DEF TypeOK
    <3>2. dropped[u] <= overlap[u] /\ overlap[u] <= overlap'[u] /\ overlap[u] \in Nat
      BY <1>5 DEF DropInv, CloseDropsOnlyOverlap
    <3> QED BY ONLY <3>1, <3>2
  <2> QED BY <2>1, <2>2, <2>3 DEF DropInv
<1>7. FileInv'
  <2> SUFFICES ASSUME ~misclosed
               PROVE  /\ writer' # "corrupt" /\ StartInv' /\ WriteInv'
                      /\ \A u \in Types : fd'[u] /\ should_run'[u] => Content(u)'
    BY DEF FileInv
  <2>1. writer' # "corrupt" /\ StartInv'
    BY <1>1 DEF FileInv, StartInv
  <2>2. WriteInv'
    <3>1. \A u \in Types : Oldest(u)' = Oldest(u)
      BY <1>1, <1>2 DEF Oldest
    <3>2. \A u \in Types : count'[u] \in Nat /\ count[u] <= count'[u]
      BY <1>1, <1>5
    <3>3. read.available \in Nat /\ i \in Types
      BY DEF TypeOK
    <3> QED BY <1>5, <3>1, <3>2, <3>3 DEF FileInv, WriteInv
  <2>3. \A u \in Types \ {t} : Content(u) => Content(u)'
    BY <1>1, ContentSame
  <2> QED BY <1>2, <2>1, <2>2, <2>3 DEF FileInv
<1> QED BY <1>3, <1>4, <1>6, <1>7

LEMMA ArmKeeps == IInv /\ Arm => IInv'
<1> SUFFICES ASSUME IInv, Arm PROVE IInv'
  OBVIOUS
<1> USE DEF Arm, buffers, history
<1>1. TypeOK'
  BY DEF IInv, TypeOK, Types, Slots
<1>2. \A t \in Types : should_run'[t] => should_run[t]
  BY DEF IInv, TypeOK, Types
<1>3. /\ writer' = "write" => writer = "write" /\ i' = i /\ read' = read
      /\ writer' = "corrupt" => writer = "corrupt"
      /\ main' = "open" => (main = "open" /\ log' = log) \/ ~fd[log']
      /\ main' = "run" => main = "run" /\ log' = log
  BY DEF IInv, TypeOK
<1> QED BY <1>1, <1>2, <1>3, ControlStep

LEMMA StartLogKeeps == IInv /\ StartLog => IInv'
<1> SUFFICES ASSUME IInv, StartLog PROVE IInv'
  OBVIOUS
<1> USE DEF StartLog, buffers, history
<1>1. TypeOK'
  BY DEF IInv, TypeOK, Types, Slots
<1>2. \A t \in Types : should_run'[t] => should_run[t]
  BY DEF IInv, TypeOK, Types
<1>3. /\ writer' = "write" => writer = "write" /\ i' = i /\ read' = read
      /\ writer' = "corrupt" => writer = "corrupt"
      /\ main' = "open" => (main = "open" /\ log' = log) \/ ~fd[log']
      /\ main' = "run" => main = "run" /\ log' = log
  BY DEF IInv, TypeOK
<1> QED BY <1>1, <1>2, <1>3, ControlStep

LEMMA HeaderEndKeeps == IInv /\ HeaderEnd => IInv'
<1> SUFFICES ASSUME IInv, HeaderEnd PROVE IInv'
  OBVIOUS
<1> USE DEF HeaderEnd, Notify, buffers, history
<1>1. TypeOK'
  BY DEF IInv, TypeOK, Types, Slots
<1>2. \A t \in Types : should_run'[t] => should_run[t]
  BY DEF IInv, TypeOK, Types
<1>3. /\ writer' = "write" => writer = "write" /\ i' = i /\ read' = read
      /\ writer' = "corrupt" => writer = "corrupt"
      /\ main' = "open" => (main = "open" /\ log' = log) \/ ~fd[log']
      /\ main' = "run" => main = "run" /\ log' = log
  BY DEF IInv, TypeOK
<1> QED BY <1>1, <1>2, <1>3, ControlStep

LEMMA NotifyWriterKeeps == IInv /\ NotifyWriter => IInv'
<1> SUFFICES ASSUME IInv, NotifyWriter PROVE IInv'
  OBVIOUS
<1> USE DEF NotifyWriter, Notify, buffers, history
<1>1. TypeOK'
  BY DEF IInv, TypeOK, Types, Slots
<1>2. \A t \in Types : should_run'[t] => should_run[t]
  BY DEF IInv, TypeOK, Types
<1>3. /\ writer' = "write" => writer = "write" /\ i' = i /\ read' = read
      /\ writer' = "corrupt" => writer = "corrupt"
      /\ main' = "open" => (main = "open" /\ log' = log) \/ ~fd[log']
      /\ main' = "run" => main = "run" /\ log' = log
  BY DEF IInv, TypeOK
<1> QED BY <1>1, <1>2, <1>3, ControlStep

LEMMA DisarmKeeps == IInv /\ Disarm => IInv'
<1> SUFFICES ASSUME IInv, Disarm PROVE IInv'
  OBVIOUS
<1> USE DEF Disarm, Notify, Strand, buffers, history
<1>1. TypeOK'
  BY DEF IInv, TypeOK, Types, Slots
<1>2. \A t \in Types : should_run'[t] => should_run[t]
  BY DEF IInv, TypeOK, Types
<1>3. /\ writer' = "write" => writer = "write" /\ i' = i /\ read' = read
      /\ writer' = "corrupt" => writer = "corrupt"
      /\ main' = "open" => (main = "open" /\ log' = log) \/ ~fd[log']
      /\ main' = "run" => main = "run" /\ log' = log
  BY DEF IInv, TypeOK
<1> QED BY <1>1, <1>2, <1>3, ControlStep

LEMMA LeaveKeeps == IInv /\ Leave => IInv'
<1> SUFFICES ASSUME IInv, Leave PROVE IInv'
  OBVIOUS
<1> USE DEF Leave, buffers, history
<1>1. TypeOK'
  BY DEF IInv, TypeOK, Types, Slots
<1>2. \A t \in Types : should_run'[t] => should_run[t]
  BY DEF IInv, TypeOK, Types
<1>3. /\ writer' = "write" => writer = "write" /\ i' = i /\ read' = read
      /\ writer' = "corrupt" => writer = "corrupt"
      /\ main' = "open" => (main = "open" /\ log' = log) \/ ~fd[log']
      /\ main' = "run" => main = "run" /\ log' = log
  BY DEF IInv, TypeOK
<1> QED BY <1>1, <1>2, <1>3, ControlStep

LEMMA BeginStopKeeps == IInv /\ BeginStop => IInv'
<1> SUFFICES ASSUME IInv, BeginStop PROVE IInv'
  OBVIOUS
<1> USE DEF BeginStop, buffers, history
<1>1. TypeOK'
  BY DEF IInv, TypeOK, Types, Slots
<1>2. \A t \in Types : should_run'[t] => should_run[t]
  BY DEF IInv, TypeOK, Types
<1>3. /\ writer' = "write" => writer = "write" /\ i' = i /\ read' = read
      /\ writer' = "corrupt" => writer = "corrupt"
      /\ main' = "open" => (main = "open" /\ log' = log) \/ ~fd[log']
      /\ main' = "run" => main = "run" /\ log' = log
  BY DEF IInv, TypeOK
<1> QED BY <1>1, <1>2, <1>3, ControlStep

LEMMA StopLogKeeps == IInv /\ StopLog => IInv'
<1> SUFFICES ASSUME IInv, StopLog PROVE IInv'
  OBVIOUS
<1> USE DEF StopLog, Notify, Strand, buffers, history
<1>1. TypeOK'
  BY DEF IInv, TypeOK, Types, Slots
<1>2. \A t \in Types : should_run'[t] => should_run[t]
  BY DEF IInv, TypeOK, Types
<1>3. /\ writer' = "write" => writer = "write" /\ i' = i /\ read' = read
      /\ writer' = "corrupt" => writer = "corrupt"
      /\ main' = "open" => (main = "open" /\ log' = log) \/ ~fd[log']
      /\ main' = "run" => main = "run" /\ log' = log
  BY DEF IInv, TypeOK
<1> QED BY <1>1, <1>2, <1>3, ControlStep

LEMMA StopMissionKeeps == IInv /\ StopMission => IInv'
<1> SUFFICES ASSUME IInv, StopMission PROVE IInv'
  OBVIOUS
<1> USE DEF StopMission, Notify, Strand, buffers, history
<1>1. TypeOK'
  BY DEF IInv, TypeOK, Types, Slots
<1>2. \A t \in Types : should_run'[t] => should_run[t]
  BY DEF IInv, TypeOK, Types
<1>3. /\ writer' = "write" => writer = "write" /\ i' = i /\ read' = read
      /\ writer' = "corrupt" => writer = "corrupt"
      /\ main' = "open" => (main = "open" /\ log' = log) \/ ~fd[log']
      /\ main' = "run" => main = "run" /\ log' = log
  BY DEF IInv, TypeOK
<1> QED BY <1>1, <1>2, <1>3, ControlStep

LEMMA ThreadStopKeeps == IInv /\ ThreadStop => IInv'
<1> SUFFICES ASSUME IInv, ThreadStop PROVE IInv'
  OBVIOUS
<1> USE DEF ThreadStop, Notify, buffers, history
<1>1. TypeOK'
  BY DEF IInv, TypeOK, Types, Slots
<1>2. \A t \in Types : should_run'[t] => should_run[t]
  BY DEF IInv, TypeOK, Types
<1>3. /\ writer' = "write" => writer = "write" /\ i' = i /\ read' = read
      /\ writer' = "corrupt" => writer = "corrupt"
      /\ main' = "open" => (main = "open" /\ log' = log) \/ ~fd[log']
      /\ main' = "run" => main = "run" /\ log' = log
  BY DEF IInv, TypeOK
<1> QED BY <1>1, <1>2, <1>3, ControlStep

LEMMA JoinKeeps == IInv /\ Join => IInv'
<1> SUFFICES ASSUME IInv, Join PROVE IInv'
  OBVIOUS
<1> USE DEF Join, buffers, history
<1>1. TypeOK'
  BY DEF IInv, TypeOK, Types, Slots
<1>2. \A t \in Types : should_run'[t] => should_run[t]
  BY DEF IInv, TypeOK, Types
<1>3. /\ writer' = "write" => writer = "write" /\ i' = i /\ read' = read
      /\ writer' = "corrupt" => writer = "corrupt"
      /\ main' = "open" => (main = "open" /\ log' = log) \/ ~fd[log']
      /\ main' = "run" => main = "run" /\ log' = log
  BY DEF IInv, TypeOK
<1> QED BY <1>1, <1>2, <1>3, ControlStep

LEMMA OuterKeeps == IInv /\ Outer => IInv'
<1> SUFFICES ASSUME IInv, Outer PROVE IInv'
  OBVIOUS
<1> USE DEF Outer, buffers, history
<1>1. TypeOK'
  BY DEF IInv, TypeOK, Types, Slots
<1>2. \A t \in Types : should_run'[t] => should_run[t]
  BY DEF IInv, TypeOK, Types
<1>3. /\ writer' = "write" => writer = "write" /\ i' = i /\ read' = read
      /\ writer' = "corrupt" => writer = "corrupt"
      /\ main' = "open" => (main = "open" /\ log' = log) \/ ~fd[log']
      /\ main' = "run" => main = "run" /\ log' = log
  BY DEF IInv, TypeOK
<1> QED BY <1>1, <1>2, <1>3, ControlStep

LEMMA IdleWaitKeeps == IInv /\ IdleWait => IInv'
<1> SUFFICES ASSUME IInv, IdleWait PROVE IInv'
  OBVIOUS
<1> USE DEF IdleWait, buffers, history
<1>1. TypeOK'
  BY DEF IInv, TypeOK, Types, Slots
<1>2. \A t \in Types : should_run'[t] => should_run[t]
  BY DEF IInv, TypeOK, Types
<1>3. /\ writer' = "write" => writer = "write" /\ i' = i /\ read' = read
      /\ writer' = "corrupt" => writer = "corrupt"
      /\ main' = "open" => (main = "open" /\ log' = log) \/ ~fd[log']
      /\ main' = "run" => main = "run" /\ log' = log
  BY DEF IInv, TypeOK
<1> QED BY <1>1, <1>2, <1>3, ControlStep

LEMMA IdleWokenKeeps == IInv /\ IdleWoken => IInv'
<1> SUFFICES ASSUME IInv, IdleWoken PROVE IInv'
  OBVIOUS
<1> USE DEF IdleWoken, buffers, history
<1>1. TypeOK'
  BY DEF IInv, TypeOK, Types, Slots
<1>2. \A t \in Types : should_run'[t] => should_run[t]
  BY DEF IInv, TypeOK, Types
<1>3. /\ writer' = "write" => writer = "write" /\ i' = i /\ read' = read
      /\ writer' = "corrupt" => writer = "corrupt"
      /\ main' = "open" => (main = "open" /\ log' = log) \/ ~fd[log']
      /\ main' = "run" => main = "run" /\ log' = log
  BY DEF IInv, TypeOK
<1> QED BY <1>1, <1>2, <1>3, ControlStep

LEMMA LockKeeps == IInv /\ Lock => IInv'
<1> SUFFICES ASSUME IInv, Lock PROVE IInv'
  OBVIOUS
<1> USE DEF Lock, buffers, history
<1>1. TypeOK'
  BY DEF IInv, TypeOK, Types, Slots
<1>2. \A t \in Types : should_run'[t] => should_run[t]
  BY DEF IInv, TypeOK, Types
<1>3. /\ writer' = "write" => writer = "write" /\ i' = i /\ read' = read
      /\ writer' = "corrupt" => writer = "corrupt"
      /\ main' = "open" => (main = "open" /\ log' = log) \/ ~fd[log']
      /\ main' = "run" => main = "run" /\ log' = log
  BY DEF IInv, TypeOK
<1> QED BY <1>1, <1>2, <1>3, ControlStep

LEMMA BeginFsyncKeeps == IInv /\ BeginFsync => IInv'
<1> SUFFICES ASSUME IInv, BeginFsync PROVE IInv'
  OBVIOUS
<1> USE DEF BeginFsync, buffers, history
<1>1. TypeOK'
  BY DEF IInv, TypeOK, Types, Slots
<1>2. \A t \in Types : should_run'[t] => should_run[t]
  BY DEF IInv, TypeOK, Types
<1>3. /\ writer' = "write" => writer = "write" /\ i' = i /\ read' = read
      /\ writer' = "corrupt" => writer = "corrupt"
      /\ main' = "open" => (main = "open" /\ log' = log) \/ ~fd[log']
      /\ main' = "run" => main = "run" /\ log' = log
  BY DEF IInv, TypeOK
<1> QED BY <1>1, <1>2, <1>3, ControlStep

LEMMA EndFsyncKeeps == IInv /\ EndFsync => IInv'
<1> SUFFICES ASSUME IInv, EndFsync PROVE IInv'
  OBVIOUS
<1> USE DEF EndFsync, NextBuffer, buffers, history
<1>1. TypeOK'
  BY DEF IInv, TypeOK, Types, Slots
<1>2. \A t \in Types : should_run'[t] => should_run[t]
  BY DEF IInv, TypeOK, Types
<1>3. /\ writer' = "write" => writer = "write" /\ i' = i /\ read' = read
      /\ writer' = "corrupt" => writer = "corrupt"
      /\ main' = "open" => (main = "open" /\ log' = log) \/ ~fd[log']
      /\ main' = "run" => main = "run" /\ log' = log
  BY DEF IInv, TypeOK
<1> QED BY <1>1, <1>2, <1>3, ControlStep

LEMMA DecideKeeps == IInv /\ Decide => IInv'
<1> SUFFICES ASSUME IInv, Decide PROVE IInv'
  OBVIOUS
<1> USE DEF Decide, buffers, history
<1>1. TypeOK'
  <2>1. writer' \in {"outer", "before_wait", "check"} /\ i' \in Types /\ mtx' \in BOOLEAN
    BY DEF IInv, TypeOK, Types
  <2> QED BY <2>1 DEF IInv, TypeOK, Slots
<1>2. \A t \in Types : should_run'[t] => should_run[t]
  BY DEF IInv, TypeOK, Types
<1>3. /\ writer' = "write" => writer = "write" /\ i' = i /\ read' = read
      /\ writer' = "corrupt" => writer = "corrupt"
      /\ main' = "open" => (main = "open" /\ log' = log) \/ ~fd[log']
      /\ main' = "run" => main = "run" /\ log' = log
  BY DEF IInv, TypeOK
<1> QED BY <1>1, <1>2, <1>3, ControlStep

LEMMA WaitKeeps == IInv /\ Wait => IInv'
<1> SUFFICES ASSUME IInv, Wait PROVE IInv'
  OBVIOUS
<1> USE DEF Wait, buffers, history
<1>1. TypeOK'
  BY DEF IInv, TypeOK, Types, Slots
<1>2. \A t \in Types : should_run'[t] => should_run[t]
  BY DEF IInv, TypeOK, Types
<1>3. /\ writer' = "write" => writer = "write" /\ i' = i /\ read' = read
      /\ writer' = "corrupt" => writer = "corrupt"
      /\ main' = "open" => (main = "open" /\ log' = log) \/ ~fd[log']
      /\ main' = "run" => main = "run" /\ log' = log
  BY DEF IInv, TypeOK
<1> QED BY <1>1, <1>2, <1>3, ControlStep

-----------------------------------------------------------------------------
(* start_log, after its poll, and the writes of the logger.                *)
LEMMA OpenKeeps == IInv /\ Open => IInv'
<1> SUFFICES ASSUME IInv, Open PROVE IInv'
  OBVIOUS
<1> USE DEF IInv, Open, history
<1>1. /\ main = "open"
      /\ \/ fd' = [fd EXCEPT ![log] = TRUE] /\ main' = "run"
         \/ fd' = fd /\ main' = "header_end"
      /\ UNCHANGED <<log, writer, i, read, should_run, ring, head, count, history>>
  OBVIOUS
<1>2. TypeOK'
  <2>1. fd' \in [Types -> BOOLEAN] /\ main' \in {"run", "header_end"}
    BY <1>1 DEF TypeOK
  <2> QED BY <2>1 DEF TypeOK, Slots
<1>3. ReadInv' /\ DropInv'
  BY DEF ReadInv, DropInv, CloseDropsOnlyOverlap
<1>4. FileInv'
  <2> SUFFICES ASSUME ~misclosed
               PROVE  /\ writer' # "corrupt" /\ StartInv' /\ WriteInv'
                      /\ \A t \in Types : fd'[t] /\ should_run'[t] => Content(t)'
    BY DEF FileInv
  <2>1. log \in Types /\ ~fd[log] /\ count[log] = 0 /\ ~should_run[log]
    BY <1>1 DEF FileInv, StartInv, TypeOK
  <2>2. \A t \in Types : t # log => fd'[t] = fd[t]
    BY <1>1 DEF TypeOK
  <2>3. StartInv'
    BY <1>1, <2>1, <2>2 DEF FileInv, StartInv, TypeOK
  <2>4. WriteInv' /\ writer' # "corrupt"
    BY <1>1, <2>1, <2>2 DEF FileInv, WriteInv, Oldest, TypeOK
  <2>5. \A t \in Types : Content(t) => Content(t)'
    BY <1>1, ContentSame
  <2> QED BY <1>1, <2>1, <2>2, <2>3, <2>4, <2>5 DEF FileInv
<1> QED BY <1>2, <1>3, <1>4

LEMMA RunKeeps == IInv /\ Run => IInv'
<1> SUFFICES ASSUME IInv, Run PROVE IInv'
  OBVIOUS
<1> USE DEF IInv
<1>1. /\ main = "run" /\ main' = "header" /\ log \in Types
      /\ writer' = "write" <=> writer = "write"
      /\ writer' = "corrupt" <=> writer = "corrupt"
      /\ UNCHANGED <<log, leaving, i, read, mtx, exit, fd, ring, accepted, overlap,
                     stranded, misclosed>>
  BY DEF Run, Notify, TypeOK
<1>2. /\ head'[log] = 0 /\ count'[log] = 0 /\ should_run'[log] = TRUE /\ file'[log] = << >>
      /\ base'[log] = accepted[log] /\ dropped'[log] = 0
      /\ \A t \in Types \ {log} : /\ head'[t] = head[t] /\ count'[t] = count[t]
                                  /\ should_run'[t] = should_run[t] /\ file'[t] = file[t]
                                  /\ base'[t] = base[t] /\ dropped'[t] = dropped[t]
  BY <1>1 DEF Run, TypeOK
<1>3. TypeOK'
  <2>1. writer' \in {"outer", "idle_lock", "idle_wait", "idle_woken", "enter",
                     "lock", "check", "write", "fsync", "decide", "before_wait",
                     "wait", "woken", "corrupt", "ended"}
    BY DEF Run, Notify, TypeOK
  <2>2. head' \in [Types -> Nat] /\ count' \in [Types -> Nat] /\ dropped' \in [Types -> Nat]
    BY DEF Run, TypeOK
  <2>3. /\ base' \in [Types -> Nat] /\ should_run' \in [Types -> BOOLEAN]
        /\ file' \in [Types -> Seq(Nat)]
    BY <1>1 DEF Run, TypeOK
  <2>4. BufferSize[log] \in Nat \ {0}
    BY <1>1, WriterAssumption
  <2>5. \A t \in Types : head'[t] < BufferSize[t] /\ count'[t] <= BufferSize[t]
    <3>1. head'[log] < BufferSize[log] /\ count'[log] <= BufferSize[log]
      BY <1>2, <2>4
    <3> QED BY <1>2, <3>1 DEF TypeOK
  <2> QED BY <1>1, <2>1, <2>2, <2>3, <2>5 DEF TypeOK, Slots
<1>4. ReadInv'
  BY <1>1 DEF ReadInv
<1>5. DropInv'
  <2>1. writer = "write" /\ ~read.is_part => count'[i] <= read.available + overlap[i]
    <3>1. read.available \in Nat /\ overlap[i] \in Nat /\ i \in Types
      BY DEF TypeOK
    <3> QED BY <1>2, <3>1 DEF DropInv
  <2>2. \A t \in Types : dropped'[t] # 0 => ~should_run'[t] /\ count'[t] = 0
    BY <1>2 DEF DropInv
  <2>3. CloseDropsOnlyOverlap'
    <3>1. overlap[log] \in Nat
      BY <1>1 DEF TypeOK
    <3> QED BY <1>1, <1>2, <3>1 DEF DropInv, CloseDropsOnlyOverlap
  <2> QED BY <1>1, <2>1, <2>2, <2>3 DEF DropInv
<1>6. FileInv'
  <2> SUFFICES ASSUME ~misclosed
               PROVE  /\ writer' # "corrupt" /\ StartInv' /\ WriteInv'
                      /\ \A t \in Types : fd'[t] /\ should_run'[t] => Content(t)'
    BY <1>1 DEF FileInv
  <2>1. fd[log] /\ count[log] = 0
    BY <1>1 DEF FileInv, StartInv
  <2>2. StartInv' /\ writer' # "corrupt"
    BY <1>1, <1>2, <2>1 DEF FileInv, StartInv
  <2>3. WriteInv'
    <3> SUFFICES ASSUME writer = "write" PROVE WriteInv'
      BY <1>1 DEF WriteInv
    <3>1. i # log /\ i \in Types
      BY <2>1 DEF FileInv, WriteInv, TypeOK
    <3> QED BY <1>1, <1>2, <3>1 DEF FileInv, WriteInv, Oldest
  <2>4. Content(log)'
    <3>1. Len(file'[log]) = 0 /\ accepted[log] \in Nat
      BY <1>1, <1>2 DEF TypeOK
    <3>2. \A s \in Slots(log)' : ~(Age(log, s)' < count'[log])
      <4>1. BufferSize[log] \in Nat \ {0}
        BY <1>1, WriterAssumption
      <4> QED BY <1>1, <1>2, <4>1 DEF Age, Slots
    <3> QED BY <1>1, <1>2, <3>1, <3>2 DEF Content
  <2>5. \A t \in Types \ {log} : Content(t) => Content(t)'
    BY <1>1, <1>2, ContentSame
  <2> QED BY <1>1, <1>2, <2>2, <2>3, <2>4, <2>5 DEF FileInv
<1> QED BY <1>3, <1>4, <1>5, <1>6

(* A reliable write of n bytes of either kind.                             *)
LEMMA ReliablyKeeps ==
    ASSUME IInv, NEW t \in Types, NEW n \in Nat, NEW next \in {"header_end", "stop"},
           main \notin {"open", "run"}, Reliably(t, n, next),
           UNCHANGED <<log, leaving, i, read, mtx, exit, should_run, fd, file, base,
                       dropped, stranded, misclosed>>
    PROVE  IInv'
<1>1. CASE should_run[t] /\ n <= Available(t) /\ Fill(t, n) /\ main' = next /\ UNCHANGED writer
  BY <1>1, FillStep
<1>2. CASE /\ UNCHANGED <<ring, head, count, accepted, overlap>>
           /\ \/ main' = next /\ UNCHANGED writer
              \/ Notify /\ UNCHANGED main
  <2>1. TypeOK'
    <3>1. writer' \in {"outer", "idle_lock", "idle_wait", "idle_woken", "enter",
                       "lock", "check", "write", "fsync", "decide", "before_wait",
                       "wait", "woken", "corrupt", "ended"}
      BY <1>2 DEF IInv, TypeOK, Notify
    <3>2. main' \in {"off", "start", "open", "run", "header", "header_end", "on",
                     "delayed", "perf", "stop", "join", "ended"}
      BY <1>2 DEF IInv, TypeOK
    <3> QED BY <1>2, <3>1, <3>2 DEF IInv, TypeOK, Slots
  <2>2. /\ writer' = "write" => writer = "write"
        /\ writer' = "corrupt" => writer = "corrupt"
        /\ main' \notin {"open", "run"}
    BY <1>2 DEF Notify
  <2> QED BY <1>2, <2>1, <2>2, ControlStep
<1> QED BY <1>1, <1>2 DEF Reliably

LEMMA HeaderKeeps == IInv /\ Header => IInv'
<1> SUFFICES ASSUME IInv, Header PROVE IInv'
  OBVIOUS
<1>1. log \in Types /\ MaxMessage \in Nat
  BY WriterAssumption DEF IInv, TypeOK
<1> QED BY <1>1, ReliablyKeeps DEF Header

LEMMA WritePerfKeeps == IInv /\ WritePerf => IInv'
<1> SUFFICES ASSUME IInv, WritePerf PROVE IInv'
  OBVIOUS
<1> QED BY ReliablyKeeps DEF WritePerf, Types

LEMMA LogMessageKeeps ==
    ASSUME IInv, NEW t \in Types, NEW n \in 1..MaxMessage, LogMessage(n, t)
    PROVE  IInv'
<1>1. n \in Nat
  BY WriterAssumption
<1> QED BY <1>1, FillStep DEF LogMessage, threads
-----------------------------------------------------------------------------
(* The writer closes the file of a log that does not run.                  *)
LEMMA CloseStep ==
    ASSUME IInv, TypeOK', CloseFile, writer' \notin {"write", "corrupt"}, ~should_run'[i],
           UNCHANGED <<main, log, ring, accepted, base, overlap>>,
           dropped'[i] <= overlap[i],
           \A t \in Types \ {i} : /\ should_run'[t] = should_run[t] /\ file'[t] = file[t]
                                  /\ dropped'[t] = dropped[t]
    PROVE  IInv'
<1> USE DEF IInv
<1>1. i \in Types /\ misclosed \in BOOLEAN
  BY DEF TypeOK
<1>2. /\ fd'[i] = FALSE /\ head'[i] = 0 /\ count'[i] = 0
      /\ \A t \in Types \ {i} : fd'[t] = fd[t] /\ head'[t] = head[t] /\ count'[t] = count[t]
  BY <1>1 DEF CloseFile, TypeOK
<1>3. ReadInv' /\ DropInv'
  BY <1>1, <1>2 DEF ReadInv, DropInv, CloseDropsOnlyOverlap
<1>4. FileInv'
  <2> SUFFICES ASSUME ~misclosed'
               PROVE  /\ StartInv' /\ WriteInv'
                      /\ \A t \in Types : fd'[t] /\ should_run'[t] => Content(t)'
    BY DEF FileInv
  <2>1. ~misclosed /\ ~(main = "run" /\ log = i)
    BY DEF CloseFile
  <2>2. StartInv'
    BY <1>1, <1>2, <2>1 DEF FileInv, StartInv, TypeOK
  <2>3. WriteInv'
    BY DEF WriteInv
  <2>4. \A t \in Types \ {i} : Content(t) => Content(t)'
    BY <1>2, ContentSame
  <2> QED BY <1>1, <1>2, <2>1, <2>2, <2>3, <2>4 DEF FileInv
<1> QED BY <1>3, <1>4

(* Where it goes from there.                                               *)
LEMMA NextBufferType ==
    ASSUME IInv, NextBuffer \/ (writer' = "check" /\ UNCHANGED i)
    PROVE  writer' \in {"check", "decide"} /\ i' \in Types
BY DEF IInv, TypeOK, NextBuffer, Types

(* What close_file leaves has its type.                                    *)
LEMMA CloseType ==
    ASSUME IInv, CloseFile
    PROVE  /\ fd' \in [Types -> BOOLEAN] /\ head' \in [Types -> Nat] /\ count' \in [Types -> Nat]
           /\ \A t \in Types : head'[t] < BufferSize[t] /\ count'[t] <= BufferSize[t]
           /\ misclosed' \in BOOLEAN
<1> USE DEF IInv, CloseFile
<1>1. BufferSize \in [Types -> Nat \ {0}]
  BY WriterAssumption
<1>2. fd' \in [Types -> BOOLEAN] /\ head' \in [Types -> Nat] /\ count' \in [Types -> Nat]
  BY DEF TypeOK
<1>3. \A t \in Types : head'[t] < BufferSize[t] /\ count'[t] <= BufferSize[t]
  <2>1. /\ i \in Types /\ head'[i] = 0 /\ count'[i] = 0
        /\ \A t \in Types \ {i} : head'[t] = head[t] /\ count'[t] = count[t]
    BY DEF TypeOK
  <2>2. head'[i] < BufferSize[i] /\ count'[i] <= BufferSize[i]
    BY <1>1, <2>1
  <2> QED BY <2>1, <2>2 DEF TypeOK
<1>4. misclosed' \in BOOLEAN
  BY DEF TypeOK
<1> QED BY <1>2, <1>3, <1>4

LEMMA SkipKeeps == IInv /\ Skip => IInv'
<1> SUFFICES ASSUME IInv, Skip PROVE IInv'
  OBVIOUS
<1>1. writer' \in {"check", "decide"} /\ i' \in Types
  BY NextBufferType DEF Skip
<1>2. CASE CloseFile /\ ~should_run[i]
  <2>1. TypeOK'
    BY <1>1, <1>2, CloseType DEF Skip, IInv, TypeOK, Slots
  <2>2. dropped[i] <= overlap[i]
    BY DEF IInv, DropInv, CloseDropsOnlyOverlap, TypeOK
  <2> QED BY <1>1, <1>2, <2>1, <2>2, CloseStep DEF Skip
<1>3. CASE UNCHANGED <<fd, head, count, misclosed>>
  <2>1. TypeOK'
    BY <1>1, <1>3 DEF Skip, IInv, TypeOK, Slots
  <2> QED BY <1>1, <1>3, <2>1, ControlStep DEF Skip
<1> QED BY <1>2, <1>3 DEF Skip

LEMMA WriteFailsKeeps == IInv /\ WriteFails => IInv'
<1> SUFFICES ASSUME IInv, WriteFails PROVE IInv'
  OBVIOUS
<1>1. writer' \in {"check", "decide"} /\ i' \in Types
  BY NextBufferType DEF WriteFails
<1>2. /\ should_run' \in [Types -> BOOLEAN] /\ ~should_run'[i]
      /\ \A t \in Types \ {i} : should_run'[t] = should_run[t]
  BY DEF WriteFails, IInv, TypeOK
<1>3. TypeOK'
  BY <1>1, <1>2, CloseType DEF WriteFails, IInv, TypeOK, Slots
<1>4. dropped[i] <= overlap[i]
  BY DEF IInv, DropInv, CloseDropsOnlyOverlap, TypeOK
<1> QED BY <1>1, <1>2, <1>3, <1>4, CloseStep DEF WriteFails

LEMMA UnderflowKeeps == IInv /\ Underflow => IInv'
<1> SUFFICES ASSUME IInv, Underflow PROVE IInv'
  OBVIOUS
<1> USE DEF IInv, Underflow, buffers, history
<1>1. misclosed
  <2>1. count[i] \in Nat /\ read.available \in Nat /\ count[i] < read.available /\ writer = "write"
    BY DEF TypeOK
  <2> QED BY <2>1 DEF FileInv, WriteInv
<1>2. TypeOK'
  BY DEF TypeOK, Slots
<1> QED BY <1>1, <1>2 DEF ReadInv, DropInv, CloseDropsOnlyOverlap, FileInv
-----------------------------------------------------------------------------
(* The region handed to ::write.                                           *)
LEMMA ReadPtrFacts ==
    ASSUME IInv
    PROVE  LET r == GetReadPtr(i)
           IN  /\ r \in [ptr : Nat, available : Nat, is_part : BOOLEAN]
               /\ r.ptr = Oldest(i) /\ r.available <= count[i]
               /\ r.ptr + r.available <= BufferSize[i]
               /\ ~r.is_part => r.available = count[i]
               /\ r.is_part => r.available > 0
<1> DEFINE h == head[i]
           c == count[i]
           B == BufferSize[i]
           r == GetReadPtr(i)
<1>1. h \in 0..(B - 1) /\ c \in 0..B /\ B \in Nat \ {0}
  BY BufferFacts DEF IInv, TypeOK
<1>2. /\ r = IF h - c < 0 THEN [ptr |-> h - c + B, available |-> -(h - c), is_part |-> TRUE]
             ELSE [ptr |-> h - c, available |-> c, is_part |-> FALSE]
      /\ Oldest(i) = IF h < c THEN h - c + B ELSE h - c
  BY DEF GetReadPtr, Oldest
<1> HIDE DEF h, c, B, r
<1>3. CASE h < c
  <2>1. h - c < 0 /\ h - c + B \in Nat /\ -(h - c) \in Nat /\ -(h - c) > 0 /\ -(h - c) <= c
    BY <1>1, <1>3
  <2>2. /\ r = [ptr |-> h - c + B, available |-> -(h - c), is_part |-> TRUE]
        /\ Oldest(i) = h - c + B
    BY <1>2, <1>3, <2>1
  <2>3. (h - c + B) + (-(h - c)) <= B
    BY <1>1
  <2>4. /\ r \in [ptr : Nat, available : Nat, is_part : BOOLEAN]
        /\ r.ptr = h - c + B /\ r.available = -(h - c) /\ r.is_part
    BY <2>1, <2>2
  <2> QED BY <2>1, <2>2, <2>3, <2>4 DEF c, B, r
<1>4. CASE ~(h < c)
  <2>1. ~(h - c < 0) /\ h - c \in Nat /\ c \in Nat /\ (h - c) + c <= B
    BY <1>1, <1>4
  <2>2. r = [ptr |-> h - c, available |-> c, is_part |-> FALSE] /\ Oldest(i) = h - c
    BY <1>2, <1>4, <2>1
  <2>3. /\ r \in [ptr : Nat, available : Nat, is_part : BOOLEAN]
        /\ r.ptr = h - c /\ r.available = c /\ ~r.is_part
    BY <2>1, <2>2
  <2> QED BY <2>1, <2>2, <2>3 DEF c, B, r
<1> QED BY <1>3, <1>4

LEMMA BeginWriteKeeps == IInv /\ BeginWrite => IInv'
<1> SUFFICES ASSUME IInv, BeginWrite PROVE IInv'
  OBVIOUS
<1> USE DEF IInv
<1>1. /\ read' \in [ptr : Nat, available : Nat, is_part : BOOLEAN]
      /\ read'.ptr = Oldest(i) /\ read'.available <= count[i]
      /\ read'.ptr + read'.available <= BufferSize[i]
      /\ ~read'.is_part => read'.available = count[i]
      /\ read'.available > 0
  <2>1. /\ read' \in [ptr : Nat, available : Nat, is_part : BOOLEAN]
        /\ read'.ptr = Oldest(i) /\ read'.available <= count[i]
        /\ read'.ptr + read'.available <= BufferSize[i]
        /\ ~read'.is_part => read'.available = count[i]
        /\ read'.is_part => read'.available > 0
    BY ReadPtrFacts DEF BeginWrite
  <2>2. read'.available >= MinChunk[i] \/ read'.is_part \/ read'.available > 0
    BY DEF BeginWrite, ShouldWrite
  <2>3. MinChunk[i] \in Nat \ {0} /\ read'.available \in Nat
    BY <2>1, BufferFacts DEF TypeOK
  <2>4. read'.available > 0
    BY <2>1, <2>2, <2>3
  <2> QED BY <2>1, <2>4
<1>2. /\ writer' = "write" /\ mtx' = FALSE /\ overlap' = [overlap EXCEPT ![i] = 0]
      /\ UNCHANGED <<main, log, leaving, i, exit, should_run, fd, ring, head, count, file,
                     accepted, base, dropped, stranded, misclosed>>
  BY DEF BeginWrite, buffers
<1>3. i \in Types /\ count[i] \in Nat /\ count[i] > 0
  BY <1>1 DEF TypeOK
<1>4. TypeOK'
  <2>1. overlap' \in [Types -> Nat] /\ mtx' \in BOOLEAN
    BY <1>2 DEF TypeOK
  <2> QED BY <1>1, <1>2, <2>1 DEF TypeOK, Slots
<1>5. ReadInv'
  BY <1>1, <1>2 DEF ReadInv
<1>6. DropInv'
  <2>1. overlap'[i] = 0 /\ \A t \in Types \ {i} : overlap'[t] = overlap[t]
    BY <1>2, <1>3 DEF TypeOK
  <2>2. ~read'.is_part => count'[i] <= read'.available + overlap'[i]
    BY <1>1, <1>2, <1>3, <2>1
  <2>3. dropped[i] = 0
    BY <1>3 DEF DropInv
  <2> QED BY <1>2, <1>3, <2>1, <2>2, <2>3 DEF DropInv, CloseDropsOnlyOverlap
<1>7. FileInv'
  <2> SUFFICES ASSUME ~misclosed
               PROVE  /\ StartInv' /\ WriteInv'
                      /\ \A t \in Types : fd'[t] /\ should_run'[t] => Content(t)'
    BY <1>2 DEF FileInv
  <2>1. StartInv'
    BY <1>2 DEF FileInv, StartInv
  <2>2. WriteInv'
    <3>1. fd[i]
      BY <1>3 DEF FileInv, StartInv
    <3>2. read'.available \in 1..count[i]
      BY <1>1, <1>3
    <3> QED BY <1>1, <1>2, <3>1, <3>2 DEF WriteInv, Oldest
  <2>3. \A t \in Types : Content(t) => Content(t)'
    BY <1>2, ContentSame
  <2> QED BY <1>2, <2>1, <2>2, <2>3 DEF FileInv
<1> QED BY <1>4, <1>5, <1>6, <1>7
(* The byte k of a region that begins with the oldest of the c bytes       *)
(* waiting has the age c - k.                                              *)
LEMMA RegionAge ==
    ASSUME NEW B \in Nat \ {0}, NEW h \in 0..(B - 1), NEW c \in 0..B, NEW k \in 1..c,
           NEW s \in 0..(B - 1),
           s = (IF h < c THEN h - c + B ELSE h - c) + k - 1
    PROVE  (IF s < h THEN h - 1 - s ELSE h - 1 - s + B) = c - k
OBVIOUS

(* What ::write appends to the file.                                       *)
LEMMA RegionFacts ==
    ASSUME IInv, writer = "write", NEW n \in 1..read.available
    PROVE  LET g == Region(i, read.ptr, n)
           IN  /\ g \in Seq(Nat) /\ Len(g) = n
               /\ \A k \in 1..n : /\ read.ptr + k - 1 \in Slots(i)
                                  /\ g[k] = ring[i][read.ptr + k - 1]
<1>1. /\ read.ptr \in Nat /\ read.available \in Nat /\ i \in Types
      /\ read.ptr + read.available <= BufferSize[i]
  BY DEF IInv, TypeOK, ReadInv
<1>2. ring[i] \in [Slots(i) -> Nat] /\ Slots(i) = 0..(BufferSize[i] - 1) /\ BufferSize[i] \in Nat
  BY <1>1, BufferFacts DEF IInv
<1>3. \A k \in 1..n : read.ptr + k - 1 \in Slots(i)
  BY <1>1, <1>2
<1>4. Region(i, read.ptr, n) \in [1..n -> Nat]
  BY <1>2, <1>3 DEF Region
<1>5. n \in Nat
  BY <1>1
<1>6. Region(i, read.ptr, n) \in Seq(Nat) /\ Len(Region(i, read.ptr, n)) = n
  BY <1>4, <1>5
<1> QED BY <1>3, <1>6 DEF Region

(* A write of n bytes, after which the log stays open.                     *)
LEMMA WrittenContent ==
    ASSUME IInv, ~misclosed, NEW t \in Types, t = i, writer = "write", NEW n \in 1..read.available, n <= count[t],
           file' = [file EXCEPT ![t] = @ \o Region(t, read.ptr, n)],
           count' = [count EXCEPT ![t] = @ - n],
           UNCHANGED <<ring, head, accepted, base>>, Content(t)
    PROVE  Content(t)'
<1>1. read.ptr = Oldest(t)
  BY DEF IInv, FileInv, WriteInv
<1>2. /\ BufferSize[t] \in Nat \ {0}
      /\ head[t] \in 0..(BufferSize[t] - 1) /\ count[t] \in 0..BufferSize[t]
      /\ Slots(t) = 0..(BufferSize[t] - 1)
      /\ file[t] \in Seq(Nat) /\ Len(file[t]) \in Nat
      /\ accepted[t] \in Nat /\ base[t] \in Nat
  BY <1>1, BufferFacts DEF IInv
<1> DEFINE g == Region(t, read.ptr, n)
           f == file[t]
<1>3. /\ g \in Seq(Nat) /\ Len(g) = n
      /\ \A k \in 1..n : /\ read.ptr + k - 1 \in Slots(t)
                         /\ g[k] = ring[t][read.ptr + k - 1]
  BY RegionFacts
<1>4. n \in Nat /\ n \in 1..count[t]
  BY <1>2 DEF IInv, TypeOK
<1>5. file'[t] = f \o g /\ count'[t] = count[t] - n
  BY <1>1 DEF IInv, TypeOK
<1>6. /\ Len(f) + count[t] = accepted[t] - base[t]
      /\ \A k \in 1..Len(f) : f[k] = base[t] + k
      /\ \A s \in Slots(t) : Age(t, s) < count[t] => ring[t][s] = accepted[t] - Age(t, s)
  BY DEF Content
<1>7. \A k \in 1..n : g[k] = base[t] + Len(f) + k
  <2> SUFFICES ASSUME NEW k \in 1..n PROVE g[k] = base[t] + Len(f) + k
    OBVIOUS
  <2> DEFINE s == read.ptr + k - 1
  <2>1. s \in Slots(t) /\ g[k] = ring[t][s]
    BY <1>3
  <2>2. Age(t, s) = count[t] - k
    <3>1. k \in 1..count[t]
      BY <1>2, <1>4
    <3>2. s \in 0..(BufferSize[t] - 1)
      BY <1>2, <2>1
    <3>3. s = (IF head[t] < count[t] THEN head[t] - count[t] + BufferSize[t]
               ELSE head[t] - count[t]) + k - 1
      BY <1>1 DEF Oldest
    <3> HIDE DEF s
    <3>4. /\ BufferSize[t] \in Nat \ {0}
          /\ head[t] \in 0..(BufferSize[t] - 1) /\ count[t] \in 0..BufferSize[t]
      BY <1>2
    <3>5. (IF s < head[t] THEN head[t] - 1 - s ELSE head[t] - 1 - s + BufferSize[t]) = count[t] - k
      BY ONLY <3>1, <3>2, <3>3, <3>4, RegionAge
    <3> QED BY <3>5 DEF Age
  <2> HIDE DEF s, f, g
  <2>3. k \in Nat /\ k > 0 /\ count[t] \in Nat
    BY <1>2, <1>4
  <2>4. ring[t][s] = accepted[t] - (count[t] - k)
    BY <1>6, <2>1, <2>2, <2>3
  <2>5. Len(f) \in Nat /\ Len(f) + count[t] = accepted[t] - base[t]
    BY <1>2, <1>6 DEF f
  <2>6. accepted[t] \in Nat /\ base[t] \in Nat
    BY <1>2
  <2>7. accepted[t] - (count[t] - k) = base[t] + Len(f) + k
    <3>1. k \in Int /\ count[t] \in Int /\ Len(f) \in Int
      BY <2>3, <2>5
    <3>2. accepted[t] = base[t] + Len(f) + count[t]
      BY <2>5, <2>6, <3>1
    <3> QED BY <2>6, <3>1, <3>2
  <2> QED BY <2>1, <2>4, <2>7
<1> HIDE DEF f, g
<1>8. /\ Len(f \o g) = Len(f) + n
      /\ \A k \in 1..(Len(f) + n) : (f \o g)[k] = base[t] + k
  <2>1. f \in Seq(Nat) /\ Len(f) \in Nat
    BY <1>2 DEF f
  <2>2. /\ Len(f \o g) = Len(f) + Len(g)
        /\ \A k \in 1..(Len(f) + Len(g)) :
              (f \o g)[k] = IF k <= Len(f) THEN f[k] ELSE g[k - Len(f)]
    BY <1>3, <2>1, ConcatProperties
  <2>3. ASSUME NEW k \in 1..(Len(f) + n) PROVE (f \o g)[k] = base[t] + k
    <3>1. CASE k <= Len(f)
      BY <1>3, <1>6, <2>1, <2>2, <3>1
    <3>2. CASE ~(k <= Len(f))
      <4>1. k - Len(f) \in 1..n
        BY <1>4, <2>1, <3>2
      <4>2. (f \o g)[k] = g[k - Len(f)]
        BY <1>3, <2>2, <3>2
      <4>3. g[k - Len(f)] = base[t] + Len(f) + (k - Len(f))
        BY <1>7, <4>1
      <4>4. base[t] \in Nat /\ k \in Nat
        BY <1>2, <1>4, <2>1
      <4>5. base[t] + Len(f) + (k - Len(f)) = base[t] + k
        BY ONLY <2>1, <4>4
      <4> QED BY <4>2, <4>3, <4>5
    <3> QED BY <3>1, <3>2
  <2> QED BY <1>3, <2>2, <2>3
<1>9. Len(file'[t]) + count'[t] = accepted'[t] - base'[t]
  <2>1. Len(f) \in Nat /\ count[t] \in Nat
    BY <1>2 DEF f
  <2>2. (Len(f) + n) + (count[t] - n) = accepted[t] - base[t]
    BY <1>2, <1>4, <1>6, <2>1
  <2> QED BY <1>5, <1>8, <2>2
<1>10. \A k \in 1..Len(file'[t]) : file'[t][k] = base'[t] + k
  BY <1>5, <1>8
<1>11. \A s \in Slots(t) : Age(t, s) < count'[t] => ring[t][s] = accepted[t] - Age(t, s)
  <2> SUFFICES ASSUME NEW s \in Slots(t), Age(t, s) < count[t] - n
               PROVE  Age(t, s) < count[t]
    BY <1>5, <1>6
  <2>1. Age(t, s) \in Int
    BY <1>2 DEF Age
  <2> QED BY <1>2, <1>4, <2>1
<1> QED BY <1>9, <1>10, <1>11 DEF Content, Age, Slots

LEMMA WrittenKeeps ==
    ASSUME IInv, NEW n, Written(n)
    PROVE  IInv'
<1> USE DEF IInv
<1>1. /\ writer = "write" /\ n \in 1..read.available /\ n <= count[i] /\ mtx' = TRUE
      /\ i \in Types /\ read.available \in Nat /\ count[i] \in Nat /\ n \in Nat /\ n > 0
      /\ file' = [file EXCEPT ![i] = @ \o Region(i, read.ptr, n)]
      /\ UNCHANGED <<main, log, leaving, read, exit, should_run, ring, accepted, base,
                     overlap, stranded>>
  BY DEF Written, TypeOK
<1>2. writer' \in {"check", "decide"} /\ i' \in Types
  BY NextBufferType DEF Written
<1>3. /\ file' \in [Types -> Seq(Nat)]
      /\ \A t \in Types \ {i} : file'[t] = file[t]
  <2>1. file[i] \in Seq(Nat) /\ file \in [Types -> Seq(Nat)]
    BY <1>1 DEF TypeOK
  <2>2. Region(i, read.ptr, n) \in Seq(Nat)
    BY <1>1, RegionFacts
  <2>3. file[i] \o Region(i, read.ptr, n) \in Seq(Nat)
    BY <2>1, <2>2, ConcatProperties
  <2> QED BY <1>1, <2>1, <2>3
<1>4. CASE ~should_run[i] /\ AllWritten(n)
  <2>1. /\ CloseFile /\ dropped' = [dropped EXCEPT ![i] = count[i] - n]
        /\ n = read.available /\ ~read.is_part
    BY <1>4 DEF Written, AllWritten
  <2>2. /\ dropped' \in [Types -> Nat] /\ dropped'[i] = count[i] - n
        /\ \A t \in Types \ {i} : dropped'[t] = dropped[t]
    <3>1. count[i] - n \in Nat
      BY <1>1
    <3> QED BY <1>1, <2>1, <3>1 DEF TypeOK
  <2>3. TypeOK'
    BY <1>1, <1>2, <1>3, <2>1, <2>2, CloseType DEF TypeOK, Slots
  <2>4. dropped'[i] <= overlap[i]
    <3>1. count[i] <= read.available + overlap[i] /\ overlap[i] \in Nat
      BY <1>1, <2>1 DEF DropInv, TypeOK
    <3>2. count[i] - n <= overlap[i]
      BY <1>1, <2>1, <3>1
    <3> QED BY <2>2, <3>2
  <2> QED BY <1>1, <1>2, <1>3, <1>4, <2>1, <2>2, <2>3, <2>4, CloseStep
<1>5. CASE ~(~should_run[i] /\ AllWritten(n))
  <2>1. count' = [count EXCEPT ![i] = @ - n] /\ UNCHANGED <<fd, head, dropped, misclosed>>
    BY <1>5 DEF Written, MarkRead
  <2>2. /\ count' \in [Types -> Nat] /\ count'[i] = count[i] - n
        /\ \A t \in Types \ {i} : count'[t] = count[t]
    <3>1. count[i] - n \in Nat
      BY <1>1
    <3> QED BY <1>1, <2>1, <3>1 DEF TypeOK
  <2>3. \A t \in Types : count'[t] <= BufferSize[t]
    <3>1. count[i] <= BufferSize[i] /\ BufferSize[i] \in Nat
      BY <1>1, BufferFacts
    <3>2. count[i] - n <= BufferSize[i]
      BY <1>1, <3>1
    <3> QED BY <2>2, <3>2 DEF TypeOK
  <2>4. TypeOK'
    BY <1>1, <1>2, <1>3, <2>1, <2>2, <2>3 DEF TypeOK, Slots
  <2>5. ReadInv'
    BY <1>2 DEF ReadInv
  <2>6. DropInv'
    <3>1. dropped[i] = 0
      BY <1>1 DEF DropInv
    <3> QED BY <1>1, <1>2, <2>1, <2>2, <3>1 DEF DropInv, CloseDropsOnlyOverlap
  <2>7. FileInv'
    <3> SUFFICES ASSUME ~misclosed
                 PROVE  /\ StartInv' /\ WriteInv'
                        /\ \A t \in Types : fd'[t] /\ should_run'[t] => Content(t)'
      BY <1>2, <2>1 DEF FileInv
    <3>1. fd[i] /\ count[i] # 0
      BY <1>1 DEF FileInv, WriteInv
    <3>2. StartInv'
      BY <1>1, <2>1, <2>2, <3>1 DEF FileInv, StartInv, TypeOK
    <3>3. WriteInv'
      BY <1>2 DEF WriteInv
    <3>4. \A t \in Types : t = i /\ Content(t) => Content(t)'
      BY <1>1, <2>1, WrittenContent
    <3>5. \A t \in Types \ {i} : Content(t) => Content(t)'
      BY <1>1, <1>3, <2>1, <2>2, ContentSame
    <3> QED BY <1>1, <2>1, <3>2, <3>3, <3>4, <3>5 DEF FileInv
  <2> QED BY <2>4, <2>5, <2>6, <2>7
<1> QED BY <1>4, <1>5
-----------------------------------------------------------------------------
LEMMA StutterKeeps == IInv /\ UNCHANGED vars => IInv'
<1> SUFFICES ASSUME IInv, UNCHANGED vars PROVE IInv'
  OBVIOUS
<1> USE DEF vars, threads, buffers, history
<1>1. TypeOK'
  <2>1. /\ leaving' \in BOOLEAN /\ mtx' \in BOOLEAN /\ exit' \in BOOLEAN
        /\ stranded' \in BOOLEAN /\ misclosed' \in BOOLEAN
    BY DEF IInv, TypeOK
  <2>2. /\ main' = main /\ writer' = writer /\ log' = log /\ i' = i /\ read' = read
        /\ UNCHANGED <<should_run, fd, ring, head, count, file, accepted, base, overlap, dropped>>
    OBVIOUS
  <2> QED BY <2>1, <2>2 DEF IInv, TypeOK, Slots
<1> QED BY <1>1, ControlStep

LEMMA NextKeeps == IInv /\ [Next]_vars => IInv'
<1> SUFFICES ASSUME IInv, [Next]_vars PROVE IInv'
  OBVIOUS
<1>1. CASE UNCHANGED vars \/ Over
  BY <1>1, StutterKeeps DEF Over
<1>2. CASE Logger
  BY <1>2, StartLogKeeps, OpenKeeps, RunKeeps, HeaderKeeps, HeaderEndKeeps, BeginStopKeeps,
     WritePerfKeeps, StopLogKeeps, StopMissionKeeps, ThreadStopKeeps, JoinKeeps DEF Logger
<1>3. CASE Arm \/ Disarm \/ Leave \/ NotifyWriter
  BY <1>3, ArmKeeps, DisarmKeeps, LeaveKeeps, NotifyWriterKeeps
<1>4. CASE \E t \in Types, n \in 1..MaxMessage : LogMessage(n, t)
  BY <1>4, LogMessageKeeps
<1>5. CASE Writer \/ BeginFsync
  BY <1>5, OuterKeeps, IdleWaitKeeps, IdleWokenKeeps, LockKeeps, BeginWriteKeeps,
     BeginFsyncKeeps, EndFsyncKeeps, SkipKeeps, WrittenKeeps, WriteFailsKeeps, UnderflowKeeps,
     DecideKeeps, WaitKeeps DEF Writer
<1> QED BY <1>1, <1>2, <1>3, <1>4, <1>5 DEF Next

(* However the logger and the writer interleave, buffer and file stay      *)
(* related as IInv says.                                                   *)
LEMMA Invariance == Spec => []IInv
BY InitHolds, NextKeeps, PTL DEF Spec
-----------------------------------------------------------------------------
(* Every variable keeps its type; _head stays inside the buffer and _count *)
(* never exceeds its size.                                                 *)
THEOREM TypeCorrect == Spec => []TypeOK
<1>1. IInv => TypeOK
  BY DEF IInv
<1> QED BY <1>1, Invariance, PTL

(* The close of a log that was stopped throws away no byte that had been   *)
(* accepted before the writer began its last write.                        *)
THEOREM DropsOnlyOverlap == Spec => []CloseDropsOnlyOverlap
<1>1. IInv => CloseDropsOnlyOverlap
  BY DEF IInv, DropInv
<1> QED BY <1>1, Invariance, PTL

(* Slot and age of the byte k of those that are waiting.                   *)
LEMMA WaitingSlot ==
    ASSUME NEW B \in Nat \ {0}, NEW h \in 0..(B - 1), NEW c \in 0..B, NEW k \in 1..c
    PROVE  /\ (h - c + k - 1) % B \in 0..(B - 1)
           /\ (h - c + k - 1) % B = IF h - c + k - 1 < 0 THEN h - c + k - 1 + B ELSE h - c + k - 1
OBVIOUS

LEMMA WaitingAge ==
    ASSUME NEW B \in Nat \ {0}, NEW h \in 0..(B - 1), NEW c \in 0..B, NEW k \in 1..c,
           NEW s \in 0..(B - 1),
           s = IF h - c + k - 1 < 0 THEN h - c + k - 1 + B ELSE h - c + k - 1
    PROVE  (IF s < h THEN h - 1 - s ELSE h - 1 - s + B) = c - k
OBVIOUS

(* As long as the writer has not closed a file that start_log had just     *)
(* opened, file and buffer of an open log hold exactly the bytes it has    *)
(* accepted since it was started, and _count never wraps around: for every *)
(* size of the buffers, although the logger appends to a buffer while the  *)
(* writer reads it without the mutex.                                      *)
THEOREM FileFaithful == Spec => []FileIsFaithful
<1>1. IInv => FileIsFaithful
  <2> SUFFICES ASSUME IInv, ~misclosed, NEW t \in Types, fd[t], should_run[t]
               PROVE  file[t] \o Waiting(t) = [k \in 1..accepted[t] - base[t] |-> base[t] + k]
    BY DEF IInv, FileInv, FileIsFaithful
  <2> DEFINE f == file[t]
             c == count[t]
             w == Waiting(t)
             N == accepted[t] - base[t]
             g == [k \in 1..N |-> base[t] + k]
  <2>1. /\ BufferSize[t] \in Nat \ {0}
        /\ head[t] \in 0..(BufferSize[t] - 1) /\ c \in 0..BufferSize[t]
        /\ ring[t] \in [Slots(t) -> Nat] /\ Slots(t) = 0..(BufferSize[t] - 1)
        /\ f \in Seq(Nat) /\ Len(f) \in Nat /\ accepted[t] \in Nat /\ base[t] \in Nat
    BY BufferFacts DEF IInv
  <2>2. /\ Len(f) + c = N
        /\ \A k \in 1..Len(f) : f[k] = base[t] + k
        /\ \A s \in Slots(t) : Age(t, s) < c => ring[t][s] = accepted[t] - Age(t, s)
    BY DEF IInv, FileInv, Content
  <2>3. w = [k \in 1..c |-> ring[t][(head[t] - c + k - 1) % BufferSize[t]]]
    BY DEF Waiting
  <2> HIDE DEF f, c, w
  <2>4. ASSUME NEW k \in 1..c PROVE w[k] \in Nat /\ w[k] = base[t] + Len(f) + k
    <3> DEFINE s == (head[t] - c + k - 1) % BufferSize[t]
    <3>1. /\ BufferSize[t] \in Nat \ {0} /\ head[t] \in 0..(BufferSize[t] - 1)
          /\ c \in 0..BufferSize[t] /\ c \in Nat /\ k \in Nat /\ k > 0
      BY <2>1
    <3>2. /\ s \in 0..(BufferSize[t] - 1)
          /\ s = IF head[t] - c + k - 1 < 0 THEN head[t] - c + k - 1 + BufferSize[t]
                 ELSE head[t] - c + k - 1
      BY ONLY k \in 1..c, <3>1, WaitingSlot
    <3> HIDE DEF s
    <3>3. /\ s \in 0..(BufferSize[t] - 1)
          /\ (IF s < head[t] THEN head[t] - 1 - s ELSE head[t] - 1 - s + BufferSize[t]) = c - k
      BY ONLY k \in 1..c, <3>1, <3>2, WaitingAge
    <3>4. Age(t, s) = c - k /\ s \in Slots(t)
      BY <2>1, <3>3 DEF Age
    <3>5. ring[t][s] = accepted[t] - (c - k) /\ ring[t][s] \in Nat
      <4>1. c - k < c
        BY <3>1
      <4> QED BY <2>1, <2>2, <3>4, <4>1
    <3>6. w[k] = ring[t][s]
      BY <2>3, <2>4 DEF s
    <3>7. accepted[t] - (c - k) = base[t] + Len(f) + k
      <4>1. accepted[t] \in Int /\ base[t] \in Int /\ Len(f) \in Int /\ c \in Int /\ k \in Int
        BY <2>1, <3>1
      <4>2. accepted[t] = base[t] + Len(f) + c
        BY <2>2, <4>1
      <4> QED BY <4>1, <4>2
    <3> QED BY <3>5, <3>6, <3>7
  <2>5. w \in Seq(Nat) /\ Len(w) = c
    <3>1. w \in [1..c -> Nat] /\ c \in Nat
      <4>1. \A k \in 1..c : w[k] \in Nat
        BY <2>4
      <4>2. w = [k \in 1..c |-> w[k]]
        BY <2>3
      <4> QED BY <2>1, <4>1, <4>2
    <3> QED BY <3>1
  <2>6. N \in Nat
    BY <2>1, <2>2
  <2>7. g \in Seq(Nat) /\ Len(g) = N /\ \A k \in 1..N : g[k] = base[t] + k
    <3>1. g \in [1..N -> Nat]
      BY <2>1, <2>6
    <3> QED BY <2>6, <3>1
  <2> HIDE DEF g
  <2>8. /\ f \o w \in Seq(Nat) /\ Len(f \o w) = Len(f) + Len(w)
        /\ \A k \in 1..(Len(f) + Len(w)) : (f \o w)[k] = IF k <= Len(f) THEN f[k] ELSE w[k - Len(f)]
    BY <2>1, <2>5, ConcatProperties
  <2>9. Len(f \o w) = N
    BY <2>2, <2>5, <2>8
  <2> HIDE DEF N
  <2>10. ASSUME NEW k \in 1..N PROVE (f \o w)[k] = g[k]
    <3>1. k \in Nat /\ k \in 1..(Len(f) + Len(w)) /\ c \in Nat
      BY <2>1, <2>6, <2>8, <2>9
    <3>2. CASE k <= Len(f)
      <4>1. k \in 1..Len(f)
        BY <2>1, <3>1, <3>2
      <4> QED BY <2>2, <2>7, <2>8, <2>10, <3>1, <3>2, <4>1
    <3>3. CASE ~(k <= Len(f))
      <4>1. k - Len(f) \in 1..c
        BY <2>1, <2>5, <3>1, <3>3
      <4>2. (f \o w)[k] = w[k - Len(f)]
        BY <2>8, <3>1, <3>3
      <4>3. w[k - Len(f)] = base[t] + Len(f) + (k - Len(f))
        BY <2>4, <4>1
      <4>4. base[t] + Len(f) + (k - Len(f)) = base[t] + k
        BY <2>1, <3>1
      <4> QED BY <2>7, <2>10, <4>2, <4>3, <4>4
    <3> QED BY <3>2, <3>3
  <2>11. f \o w = g
    BY <2>7, <2>8, <2>9, <2>10, SeqEqual
  <2> QED BY <2>11 DEF f, w, g, N
<1> QED BY <1>1, Invariance, PTL
=============================================================================
