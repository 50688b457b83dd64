---------------------------- MODULE LogWriterFile ----------------------------
(***************************************************************************)
(* PX4's log writer: the logger's thread (Logger::run), which fills one    *)
(* ring buffer per log, and the writer thread (LogWriterFile::run), which  *)
(* empties them into files.  The ULog files that a collection session      *)
(* copies are made here.                                                   *)
(*                                                                         *)
(* The mutex _mtx guards the buffers, but _should_run, _exit_thread, the   *)
(* opening of a file and notify() do without it.  A step is what happens   *)
(* between two points where the other thread can be noticed.               *)
(*                                                                         *)
(* Abstracted: a byte is its number in the order the log accepted them; a  *)
(* message is a number of bytes; times and statistics are left out, so     *)
(* that fsync may be due in any round of the writer's loop.                *)
(***************************************************************************)
EXTENDS Integers, Sequences

CONSTANTS
    Mission,     \* is the mission log enabled (SDLOG_MISSION)?
    BufferSize,  \* _buffer_size of each log
    MinChunk,    \* min_available of each log
    MaxMessage,  \* the longest message, in bytes
    MaxBytes,    \* bound on the bytes accepted by a log
    MaxLogs      \* bound on how often logging is started

Types == {"full", "mission"}

(***************************************************************************)
(* A message that is refused while fewer than MinChunk bytes are waiting   *)
(* would be refused for ever, for the writer leaves those bytes alone.     *)
(* The code's margin is the 300 bytes by which a buffer exceeds the chunk. *)
(***************************************************************************)
ASSUME WriterAssumption ==
    /\ Mission \in BOOLEAN
    /\ BufferSize \in [Types -> Nat \ {0}]
    /\ MinChunk \in [Types -> Nat \ {0}]
    /\ MaxMessage \in Nat \ {0} /\ MaxBytes \in Nat /\ MaxLogs \in Nat
    /\ \A t \in Types : MaxMessage <= BufferSize[t] - MinChunk[t] + 1

VARIABLES
    main,       \* the logger's thread
    log,        \* the log it is starting
    leaving,    \* has the logger been asked to exit?
    writer,     \* the writer's thread
    i,          \* the buffer it looks at
    read,       \* the region it is writing: [ptr, available, is_part]
    mtx,        \* does the writer hold _mtx?
    exit,       \* _exit_thread
    should_run, \* _should_run of each buffer
    fd,         \* is the file of each buffer open?
    ring,       \* _buffer
    head,       \* _head
    count,      \* _count
    file,       \* what each open file holds
    accepted,   \* history: bytes each log has accepted
    base,       \* history: accepted, when the log was started
    overlap,    \* history: bytes accepted during the writer's last write
    dropped,    \* history: bytes thrown away by closing after a write that succeeded
    stranded,   \* history: a stop came while the writer could not notice it
    misclosed,  \* history: the writer closed a file that start_log had just opened
    logs        \* how often logging was started

threads == <<main, log, leaving, writer, i, read, mtx, exit>>
buffers == <<should_run, fd, ring, head, count>>
history == <<file, accepted, base, overlap, dropped, stranded, misclosed>>
vars    == <<threads, buffers, history, logs>>

Slots(t) == 0..BufferSize[t] - 1
-----------------------------------------------------------------------------
(***************************************************************************)
(* LogFileBuffer                                                           *)
(***************************************************************************)
(* Mutant: room for a byte more than there is.                             *)
AvailableOneMore(t) == BufferSize[t] - count[t] + 1

Available(t) == BufferSize[t] - count[t]

(* write_no_check: n more bytes from _head on, around the end.             *)
Fill(t, n) ==
    /\ ring' = [ring EXCEPT ![t] = [s \in Slots(t) |->
                    LET k == (s - head[t]) % BufferSize[t]
                    IN  IF k < n THEN accepted[t] + k + 1 ELSE ring[t][s]]]
    /\ head' = [head EXCEPT ![t] = (@ + n) % BufferSize[t]]
    /\ count' = [count EXCEPT ![t] = @ + n]
    /\ accepted' = [accepted EXCEPT ![t] = @ + n]
    /\ overlap' = [overlap EXCEPT ![t] = @ + n]

(* get_read_ptr: what is waiting, or its part up to the end of the buffer. *)
GetReadPtr(t) ==
    LET ptr == head[t] - count[t]
    IN  IF ptr < 0
        THEN [ptr |-> ptr + BufferSize[t], available |-> -ptr, is_part |-> TRUE]
        ELSE [ptr |-> ptr, available |-> count[t], is_part |-> FALSE]

(* The first n bytes of a region, as ::write reads them from memory.       *)
Region(t, ptr, n) == [k \in 1..n |-> ring[t][ptr + k - 1]]
-----------------------------------------------------------------------------
(***************************************************************************)
(* notify wakes the writer if it waits; nothing remembers it otherwise.    *)
(***************************************************************************)
Notify == writer' = IF writer = "idle_wait" THEN "idle_woken"
                    ELSE IF writer = "wait" THEN "woken" ELSE writer

(***************************************************************************)
(* The logger's thread.                                                    *)
(***************************************************************************)
Loggable(n, t) == n \in 1..MaxMessage /\ accepted[t] + n <= MaxBytes

(* start_stop_logging on arming.                                           *)
Arm ==
    /\ main = "off" /\ ~leaving
    /\ logs < MaxLogs
    /\ logs' = logs + 1
    /\ main' = "start" /\ log' = "full"
    /\ UNCHANGED <<leaving, writer, i, read, mtx, exit, buffers, history>>

(* start_log polls until the writer has closed the previous file ...       *)
StartLog ==
    /\ main = "start"
    /\ ~mtx /\ ~fd[log]
    /\ main' = "open"
    /\ UNCHANGED <<log, leaving, writer, i, read, mtx, exit, buffers, history,
                   logs>>

(* ... and opens the next one, which may fail ...                          *)
Open ==
    /\ main = "open"
    /\ \/ fd' = [fd EXCEPT ![log] = TRUE] /\ main' = "run"
       \/ main' = "header_end" /\ UNCHANGED fd
    /\ UNCHANGED <<log, leaving, writer, i, read, mtx, exit, should_run, ring, head,
                   count, history, logs>>

(* ... resets the buffer, sets _should_run and notifies, without _mtx.     *)
Run ==
    /\ main = "run"
    /\ head' = [head EXCEPT ![log] = 0] /\ count' = [count EXCEPT ![log] = 0]
    /\ should_run' = [should_run EXCEPT ![log] = TRUE]
    /\ file' = [file EXCEPT ![log] = << >>]
    /\ base' = [base EXCEPT ![log] = accepted[log]]
    /\ dropped' = [dropped EXCEPT ![log] = 0]
    /\ main' = "header"
    /\ Notify
    /\ UNCHANGED <<log, leaving, i, read, mtx, exit, fd, ring, accepted, overlap,
                   stranded, misclosed, logs>>

(* write_message with _need_reliable_transfer: wait until there is room.   *)
Reliably(t, n, next) ==
    /\ ~mtx
    /\ \/ /\ ~should_run[t]
          /\ main' = next
          /\ UNCHANGED <<writer, ring, head, count, accepted, overlap>>
       \/ /\ should_run[t] /\ n <= Available(t)
          /\ Fill(t, n)
          /\ main' = next
          /\ UNCHANGED writer
       \/ /\ should_run[t] /\ n > Available(t)
          /\ Notify
          /\ UNCHANGED <<main, ring, head, count, accepted, overlap>>

Header ==
    /\ main = "header"
    /\ Reliably(log, MaxMessage, "header_end")
    /\ UNCHANGED <<log, leaving, i, read, mtx, exit, should_run, fd, file, base,
                   dropped, stranded, misclosed, logs>>

(* start_log_file ends with a notify; the mission log follows.             *)
HeaderEnd ==
    /\ main = "header_end"
    /\ main' = IF log = "full" /\ Mission THEN "start" ELSE "on"
    /\ log' = "mission"
    /\ Notify
    /\ UNCHANGED <<leaving, i, read, mtx, exit, buffers, history, logs>>

(* One round of Logger::run: a message goes to the logs that are started   *)
(* and have room for it, under _mtx; then the writer is notified.          *)
LogMessage(n, t) ==
    /\ main \in {"on", "delayed"} /\ ~leaving
    /\ should_run["full"] /\ should_run[t]
    /\ Loggable(n, t) /\ n <= Available(t)
    /\ ~mtx
    /\ Fill(t, n)
    /\ UNCHANGED <<threads, should_run, fd, file, base, dropped, stranded, misclosed, logs>>

NotifyWriter ==
    /\ main \in {"on", "delayed"}
    /\ should_run["full"]
    /\ Notify
    /\ UNCHANGED <<main, log, leaving, i, read, mtx, exit, buffers, history, logs>>

(* The writer does not look at _should_run again before it waits, or waits *)
(* for a log to start; while the full log runs, a later notify helps.      *)
Deaf == {"outer", "idle_lock", "idle_wait", "idle_woken", "before_wait"}

Strand == stranded' = (stranded \/ (writer \in Deaf /\ ~should_run'["full"]))

(* Disarming: the mission log stops at once, the full log a while later.   *)
Disarm ==
    /\ main = "on"
    /\ main' = "delayed"
    /\ should_run' = [should_run EXCEPT !["mission"] = FALSE]
    /\ IF should_run["mission"] THEN Notify /\ Strand
                               ELSE UNCHANGED <<writer, stranded>>
    /\ UNCHANGED <<log, leaving, i, read, mtx, exit, fd, ring, head, count, file,
                   accepted, base, overlap, dropped, misclosed, logs>>

Leave ==
    /\ ~leaving
    /\ main \in {"off", "on", "delayed"}
    /\ leaving' = TRUE
    /\ UNCHANGED <<main, log, writer, i, read, mtx, exit, buffers, history, logs>>

(* stop_log_file of the full log: the performance counters, then stop_log. *)
BeginStop ==
    /\ main = "delayed" \/ (main = "on" /\ leaving)
    /\ main' = IF should_run["full"] THEN "perf" ELSE "off"
    /\ UNCHANGED <<log, leaving, writer, i, read, mtx, exit, buffers, history, logs>>

WritePerf ==
    /\ main = "perf"
    /\ Reliably("full", 1, "stop")
    /\ UNCHANGED <<log, leaving, i, read, mtx, exit, should_run, fd, file, base,
                   dropped, stranded, misclosed, logs>>

StopLog ==
    /\ main = "stop"
    /\ should_run' = [should_run EXCEPT !["full"] = FALSE]
    /\ Notify
    /\ Strand
    /\ main' = "off"
    /\ UNCHANGED <<log, leaving, i, read, mtx, exit, fd, ring, head, count, file,
                   accepted, base, overlap, dropped, misclosed, logs>>

(* The end of Logger::run: a mission log still running is stopped, and the *)
(* writer told to exit and joined.                                         *)
StopMission ==
    /\ main = "off" /\ leaving
    /\ should_run["mission"]
    /\ should_run' = [should_run EXCEPT !["mission"] = FALSE]
    /\ Notify
    /\ Strand
    /\ UNCHANGED <<main, log, leaving, i, read, mtx, exit, fd, ring, head, count,
                   file, accepted, base, overlap, dropped, misclosed, logs>>

ThreadStop ==
    /\ main = "off" /\ leaving
    /\ ~should_run["mission"]
    /\ exit' = TRUE
    /\ should_run' = [t \in Types |-> FALSE]
    /\ Notify
    /\ stranded' = (stranded \/ writer \in {"idle_lock", "before_wait"})
    /\ main' = "join"
    /\ UNCHANGED <<log, leaving, i, read, mtx, fd, ring, head, count, file,
                   accepted, base, overlap, dropped, misclosed, logs>>

Join ==
    /\ main = "join" /\ writer = "ended"
    /\ main' = "ended"
    /\ UNCHANGED <<log, leaving, writer, i, read, mtx, exit, buffers, history, logs>>
-----------------------------------------------------------------------------
(***************************************************************************)
(* The writer's thread: the outer loop waits for a log to start ...        *)
(***************************************************************************)
Outer ==
    /\ writer \in {"outer", "enter"}
    /\ writer' = IF exit THEN "ended"
                 ELSE IF writer = "outer" THEN "idle_lock" ELSE "lock"
    /\ UNCHANGED <<main, log, leaving, i, read, mtx, exit, buffers, history, logs>>

IdleWait ==
    /\ writer = "idle_lock"
    /\ writer' = "idle_wait"
    /\ UNCHANGED <<main, log, leaving, i, read, mtx, exit, buffers, history, logs>>

IdleWoken ==
    /\ writer = "idle_woken"
    /\ writer' = IF \E t \in Types : should_run[t] THEN "enter" ELSE "outer"
    /\ UNCHANGED <<main, log, leaving, i, read, mtx, exit, buffers, history, logs>>

(* ... and the inner one serves the mission log and then the full log.     *)
Lock ==
    /\ writer \in {"lock", "woken"}
    /\ mtx' = TRUE
    /\ writer' = "check" /\ i' = "mission"
    /\ UNCHANGED <<main, log, leaving, read, exit, buffers, history, logs>>

(* --i, and then the test whether both files are closed.                   *)
NextBuffer ==
    IF i = "mission" THEN writer' = "check" /\ i' = "full"
                     ELSE writer' = "decide" /\ UNCHANGED i

(* Mutant: the chunk counts for a log that has been stopped, too.          *)
ShouldWriteChunks(r) == r.available >= MinChunk[i] \/ r.is_part

ShouldWrite(r) ==
    \/ r.available >= MinChunk[i]
    \/ r.is_part
    \/ ~should_run[i] /\ r.available > 0

(* _mtx is released for the write and for fsync.                           *)
BeginWrite ==
    /\ writer = "check" /\ ShouldWrite(GetReadPtr(i))
    /\ read' = GetReadPtr(i)
    /\ overlap' = [overlap EXCEPT ![i] = 0]
    /\ mtx' = FALSE
    /\ writer' = "write"
    /\ UNCHANGED <<main, log, leaving, i, exit, buffers, file, accepted, base,
                   dropped, stranded, misclosed, logs>>

BeginFsync ==
    /\ writer = "check" /\ ~ShouldWrite(GetReadPtr(i))
    /\ should_run[i]
    /\ mtx' = FALSE
    /\ writer' = "fsync"
    /\ UNCHANGED <<main, log, leaving, i, read, exit, buffers, history, logs>>

EndFsync ==
    /\ writer = "fsync"
    /\ mtx' = TRUE
    /\ NextBuffer
    /\ UNCHANGED <<main, log, leaving, read, exit, buffers, history, logs>>

(* close_file empties the buffer, whatever is in it.                       *)
CloseFile ==
    /\ fd' = [fd EXCEPT ![i] = FALSE]
    /\ head' = [head EXCEPT ![i] = 0] /\ count' = [count EXCEPT ![i] = 0]
    /\ misclosed' = (misclosed \/ (main = "run" /\ log = i))

(* Nothing to write: a log that has been stopped is closed.                *)
Skip ==
    /\ writer = "check" /\ ~ShouldWrite(GetReadPtr(i))
    /\ IF GetReadPtr(i).available = 0 /\ ~should_run[i]
       THEN CloseFile ELSE UNCHANGED <<fd, head, count, misclosed>>
    /\ NextBuffer
    /\ UNCHANGED <<main, log, leaving, read, mtx, exit, should_run, ring, file,
                   accepted, base, overlap, dropped, stranded, logs>>

(* Mutant: the region is marked as a whole, however much was written.      *)
MarkReadWhole(n) == count' = [count EXCEPT ![i] = @ - read.available]

MarkRead(n) == count' = [count EXCEPT ![i] = @ - n]

(* Mutant: the part of the region behind the end of the buffer is forgotten. *)
AllWrittenForgetsPart(n) == n = read.available

AllWritten(n) == n = read.available /\ ~read.is_part

(* n bytes were written.  A log that has been stopped meanwhile is closed  *)
(* if the region was written as a whole.                                   *)
Written(n) ==
    /\ writer = "write" /\ fd[i]
    /\ n \in 1..read.available /\ n <= count[i]
    /\ file' = [file EXCEPT ![i] = @ \o Region(i, read.ptr, n)]
    /\ IF ~should_run[i] /\ AllWritten(n)
       THEN CloseFile /\ dropped' = [dropped EXCEPT ![i] = count[i] - n]
       ELSE /\ MarkRead(n)
            /\ UNCHANGED <<fd, head, dropped, misclosed>>
    /\ mtx' = TRUE
    /\ IF read.is_part THEN writer' = "check" /\ UNCHANGED i ELSE NextBuffer
    /\ UNCHANGED <<main, log, leaving, read, exit, should_run, ring, accepted, base,
                   overlap, stranded, logs>>

WriteFails ==
    /\ writer = "write"
    /\ should_run' = [should_run EXCEPT ![i] = FALSE]
    /\ CloseFile
    /\ mtx' = TRUE
    /\ IF read.is_part THEN writer' = "check" /\ UNCHANGED i ELSE NextBuffer
    /\ UNCHANGED <<main, log, leaving, read, exit, ring, file, accepted, base, overlap,
                   dropped, stranded, logs>>

(* start_log has emptied the buffer meanwhile: _count, a size_t, wraps     *)
(* around and the next region is all of memory.                            *)
Underflow ==
    /\ writer = "write"
    /\ count[i] < read.available
    /\ writer' = "corrupt"
    /\ UNCHANGED <<main, log, leaving, i, read, mtx, exit, buffers, history, logs>>

Decide ==
    /\ writer = "decide"
    /\ \/ /\ \A t \in Types : ~fd[t]
          /\ writer' = "outer" /\ mtx' = FALSE /\ UNCHANGED i
       \/ /\ \E t \in Types : fd[t]
          /\ IF should_run["full"] THEN writer' = "before_wait" /\ UNCHANGED i
                                   ELSE writer' = "check" /\ i' = "mission"
          /\ UNCHANGED mtx
    /\ UNCHANGED <<main, log, leaving, read, exit, buffers, history, logs>>

Wait ==
    /\ writer = "before_wait"
    /\ writer' = "wait" /\ mtx' = FALSE
    /\ UNCHANGED <<main, log, leaving, i, read, exit, buffers, history, logs>>

(* The process ends, or the logger waits for ever for a writer that sleeps. *)
Over ==
    /\ \/ main = "ended" \/ writer = "corrupt"
       \/ main \in {"start", "join"} /\ writer \in {"idle_wait", "wait"}
    /\ UNCHANGED vars
-----------------------------------------------------------------------------
Init ==
    /\ main = "off" /\ log = "full" /\ leaving = FALSE
    /\ writer = "outer" /\ i = "mission" /\ mtx = FALSE /\ exit = FALSE
    /\ read = [ptr |-> 0, available |-> 0, is_part |-> FALSE]
    /\ should_run = [t \in Types |-> FALSE] /\ fd = [t \in Types |-> FALSE]
    /\ ring = [t \in Types |-> [s \in Slots(t) |-> 0]]
    /\ head = [t \in Types |-> 0] /\ count = [t \in Types |-> 0]
    /\ file = [t \in Types |-> << >>]
    /\ accepted = [t \in Types |-> 0] /\ base = [t \in Types |-> 0]
    /\ overlap = [t \in Types |-> 0] /\ dropped = [t \in Types |-> 0]
    /\ stranded = FALSE /\ misclosed = FALSE /\ logs = 0

Logger ==
    \/ StartLog \/ Open \/ Run \/ Header \/ HeaderEnd
    \/ BeginStop \/ WritePerf \/ StopLog \/ StopMission \/ ThreadStop \/ Join

Writer ==
    \/ Outer \/ IdleWait \/ IdleWoken \/ Lock
    \/ BeginWrite \/ EndFsync \/ Skip
    \/ (\E n \in 1..MaxMessage + MaxBytes : Written(n)) \/ WriteFails \/ Underflow
    \/ Decide \/ Wait

Next ==
    \/ Logger \/ Arm \/ Disarm \/ Leave \/ NotifyWriter
    \/ \E t \in Types, n \in 1..MaxMessage : LogMessage(n, t)
    \/ Writer \/ BeginFsync
    \/ Over

(***************************************************************************)
(* Both threads are scheduled; the logger, the thread of higher priority,  *)
(* gets _mtx when the writer keeps releasing it, which it does at least at *)
(* the fsync that is due every hundred rounds.                             *)
(***************************************************************************)
FairSpec ==
    /\ Init /\ [][Next]_vars
    /\ SF_vars(Logger) /\ WF_vars(Writer) /\ SF_vars(BeginFsync)

Spec == Init /\ [][Next]_vars
-----------------------------------------------------------------------------
(* The type invariant.                                                     *)
TypeOK ==
    /\ main \in {"off", "start", "open", "run", "header", "header_end", "on",
                 "delayed", "perf", "stop", "join", "ended"}
    /\ writer \in {"outer", "idle_lock", "idle_wait", "idle_woken", "enter",
                   "lock", "check", "write", "fsync", "decide", "before_wait",
                   "wait", "woken", "corrupt", "ended"}
    /\ log \in Types /\ i \in Types
    /\ leaving \in BOOLEAN /\ mtx \in BOOLEAN /\ exit \in BOOLEAN
    /\ stranded \in BOOLEAN /\ misclosed \in BOOLEAN
    /\ read \in [ptr : Nat, available : Nat, is_part : BOOLEAN]
    /\ should_run \in [Types -> BOOLEAN] /\ fd \in [Types -> BOOLEAN]
    /\ DOMAIN ring = Types
    /\ head \in [Types -> Nat] /\ count \in [Types -> Nat]
    /\ \A t \in Types : /\ ring[t] \in [Slots(t) -> Nat]
                        /\ head[t] < BufferSize[t]
                        /\ count[t] <= BufferSize[t]
    /\ file \in [Types -> Seq(Nat)]
    /\ accepted \in [Types -> Nat] /\ base \in [Types -> Nat]
    /\ overlap \in [Types -> Nat] /\ dropped \in [Types -> Nat]

(* What is waiting in a buffer, oldest byte first.                         *)
Waiting(t) == [k \in 1..count[t] |-> ring[t][(head[t] - count[t] + k - 1) % BufferSize[t]]]

(* While a log is open its file and its buffer hold, without a gap, an     *)
(* overlap or a byte of another log, all that was accepted since it was    *)
(* started: the logger appends while the writer reads without the mutex.   *)
FileIsFaithful ==
    misclosed \/
    /\ writer # "corrupt"
    /\ \A t \in Types :
        fd[t] /\ should_run[t] =>
            file[t] \o Waiting(t) = [k \in 1..accepted[t] - base[t] |-> base[t] + k]

(* Closing a log that was stopped drops only bytes that were accepted      *)
(* while the writer was in its last write.                                 *)
CloseDropsOnlyOverlap == \A t \in Types : dropped[t] <= overlap[t]

(* The logger does not hang in start_log of the full log, in a reliable    *)
(* write or in the join, unless a stop came when the writer could not      *)
(* notice it: notify leaves no trace, and _should_run is not tested again  *)
(* before the wait.  (In start_log of the mission log it may: it does not  *)
(* notify a writer that waits for data of the full log.)                   *)
LoggerNeverHangs ==
    \A place \in {"start", "header", "perf", "join"} :
        LET blocked == main = place /\ (place = "start" => log = "full")
        IN  blocked ~> (~blocked \/ stranded \/ misclosed)

(* log_writer_file.cpp: "Stop only when all data written".                 *)
StoppedLogIsComplete == \A t \in Types : dropped[t] = 0
=============================================================================
