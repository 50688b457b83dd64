----------------------------- MODULE UorbDelivery -----------------------------
(***************************************************************************)
(* How a message gets from a publisher to a controller inside PX4: a uORB  *)
(* node keeps the last messages of a topic and calls back the work items   *)
(* that subscribed to it; each call puts the item into the run queue of    *)
(* its work queue, whose thread runs it, and the item reads the node.      *)
(* The sensor data, the setpoints and the fault commands of a flight all   *)
(* go through such nodes.                                                  *)
(*                                                                         *)
(* The granularity is that of the POSIX build: the node's lock is held     *)
(* over the callbacks; what happens under the work queue's lock is one     *)
(* step; SignalWorkerThread reads the semaphore and posts it in two; a     *)
(* subscriber advances its generation after it has released the node.      *)
(*                                                                         *)
(* Abstracted: a message is its number in the order of publication;        *)
(* generations count modulo Wrap in the place of 2^32.  The items are on   *)
(* one queue, which is not created anew once its last item has gone.       *)
(***************************************************************************)
EXTENDS Integers, FiniteSets, Sequences, SequencesExt

CONSTANTS
    Publishers,   \* threads that publish the topic
    Items,        \* work items that subscribe to it
    Requested,    \* the queue size that the topic asks for
    Wrap,         \* the number of generations
    Earlier,      \* how many publications there may have been before
    MaxMore       \* bound on the publications to come

Powers == {1, 2, 4, 8, 16, 32, 64, 128}

(* round_pow_of_two_8: slots then follow each other where generations wrap. *)
QueueSize ==
    IF Requested > 128 THEN 128
    ELSE CHOOSE p \in Powers :
            p >= Requested /\ \A r \in Powers : r >= Requested => p <= r

Free   == "free"
Nobody == "nobody"

(* The 2^32 generations are a multiple of the queue size, and no           *)
(* subscriber falls behind by as many messages.                            *)
ASSUME DeliveryAssumption ==
    /\ IsFiniteSet(Publishers) /\ Free \notin Publishers
    /\ IsFiniteSet(Items) /\ Nobody \notin Items
    /\ Requested \in 0..255
    /\ Wrap \in Nat \ {0} /\ Wrap % QueueSize = 0
    /\ Earlier \subseteq Nat /\ MaxMore \in Nat /\ MaxMore + 1 < Wrap

VARIABLES
    data,       \* _data: the message in each slot, 0 for none yet
    generation, \* _generation
    valid,      \* _data_valid
    lock,       \* who holds the node's lock
    callbacks,  \* _callbacks
    pub,        \* where each publisher is
    calls,      \* the callbacks still to be made by the one that holds the lock
    last,       \* _last_generation of each item's subscription
    stage,      \* what the owner of each item has done
    stop,       \* _task_should_exit of each item
    q,          \* _q
    sem,        \* _process_lock
    attached,   \* _work_items
    exit,       \* _should_exit
    worker,     \* where the work queue's thread is
    work,       \* the item it runs
    published,  \* history: publications
    seen,       \* history: the last message each item has read, or started after
    left        \* publications to come

node  == <<data, generation, valid, lock, callbacks>>
queue == <<q, sem, attached, exit>>
run   == <<worker, work>>
count == <<published, left>>
vars  == <<node, pub, calls, last, stage, stop, queue, run, count, seen>>

Modulo(n) == n % Wrap

(* The worker is in Run of the item.                                       *)
InRun == {"check_exit", "updated", "copy", "bump", "unregister", "cleanup"}
Running(it) == worker \in InRun /\ work = it
-----------------------------------------------------------------------------
(***************************************************************************)
(* px4_sem: a value that a waiting thread leaves negative.                 *)
(***************************************************************************)
Posted == worker' = IF worker = "blocked" /\ sem + 1 <= 0 THEN "drain" ELSE worker

Post == sem' = sem + 1 /\ Posted

(* Mutant: every call posts.                                               *)
NeedsPostAlways == TRUE

(* Mutant: a thread that sleeps is not counted as one to be woken.         *)
NeedsPostOnlyAwake == sem = 0

(* SignalWorkerThread posts only if this holds.                            *)
NeedsPost == sem <= 0

(* IntrusiveQueue::push leaves an item alone that is queued already.       *)
Push(it) == q' = IF it \in ToSet(q) THEN q ELSE Append(q, it)
-----------------------------------------------------------------------------
(***************************************************************************)
(* DeviceNode::write, under the node's lock from here to EndWrite.         *)
(***************************************************************************)
Write(p) ==
    /\ pub[p] = "out" /\ lock = Free
    /\ left > 0
    /\ lock' = p
    /\ published' = published + 1 /\ left' = left - 1
    /\ data' = [data EXCEPT ![generation % QueueSize] = published + 1]
    /\ generation' = Modulo(generation + 1)
    /\ calls' = callbacks
    /\ pub' = [pub EXCEPT ![p] = "call"]
    /\ UNCHANGED <<valid, callbacks, last, stage, stop, queue, run, seen>>

(* SubscriptionCallbackWorkItem::call, WorkItem::ScheduleNow and           *)
(* WorkQueue::Add: nothing for an item that is not behind or has no queue. *)
Call(p) ==
    /\ pub[p] = "call" /\ calls # << >>
    /\ LET it == Head(calls)
       IN  IF generation # last[it] /\ it \in attached
           THEN Push(it) /\ pub' = [pub EXCEPT ![p] = "signal"]
           ELSE UNCHANGED <<q, pub>>
    /\ calls' = Tail(calls)
    /\ UNCHANGED <<node, last, stage, stop, sem, attached, exit, run, count, seen>>

Signal(p) ==
    /\ pub[p] = "signal"
    /\ pub' = [pub EXCEPT ![p] = IF NeedsPost THEN "post" ELSE "call"]
    /\ UNCHANGED <<node, calls, last, stage, stop, queue, run, count, seen>>

PostWork(p) ==
    /\ pub[p] = "post"
    /\ Post
    /\ pub' = [pub EXCEPT ![p] = "call"]
    /\ UNCHANGED <<node, calls, last, stage, stop, q, attached, exit, work, count, seen>>

EndWrite(p) ==
    /\ pub[p] = "call" /\ calls = << >>
    /\ valid' = TRUE
    /\ lock' = Free
    /\ pub' = [pub EXCEPT ![p] = "out"]
    /\ UNCHANGED <<data, generation, callbacks, calls, last, stage, stop, queue, run,
                   count, seen>>
-----------------------------------------------------------------------------
(***************************************************************************)
(* The owner of an item: WorkItem::Init attaches it to the queue, which    *)
(* refuses once its last item has gone, and the subscription starts with   *)
(* the message published last ...                                          *)
(***************************************************************************)
Attach(it) ==
    /\ stage[it] = "new"
    /\ IF exit THEN stage' = [stage EXCEPT ![it] = "refused"] /\ UNCHANGED attached
               ELSE /\ stage' = [stage EXCEPT ![it] = "attached"]
                    /\ attached' = attached \cup {it}
    /\ UNCHANGED <<node, pub, calls, last, stop, q, sem, exit, run, count, seen>>

Subscribe(it) ==
    /\ stage[it] = "attached" /\ lock = Free
    /\ last' = [last EXCEPT ![it] = IF valid THEN Modulo(generation - 1) ELSE generation]
    /\ seen' = [seen EXCEPT ![it] = IF valid THEN published - 1 ELSE published]
    /\ stage' = [stage EXCEPT ![it] = "subscribed"]
    /\ UNCHANGED <<node, pub, calls, stop, queue, run, count>>

(* ... then come registerCallback and ScheduleNow, which is for what was   *)
(* published before the callback.                                          *)
Register(it) ==
    /\ stage[it] = "subscribed" /\ lock = Free
    /\ callbacks' = <<it>> \o callbacks
    /\ stage' = [stage EXCEPT ![it] = "registered"]
    /\ UNCHANGED <<data, generation, valid, lock, pub, calls, last, stop, queue, run,
                   count, seen>>

ScheduleNow(it) ==
    /\ stage[it] = "registered"
    /\ Push(it)
    /\ stage' = [stage EXCEPT ![it] = "signal"]
    /\ UNCHANGED <<node, pub, calls, last, stop, sem, attached, exit, run, count, seen>>

SignalStart(it) ==
    /\ stage[it] = "signal"
    /\ stage' = [stage EXCEPT ![it] = IF NeedsPost THEN "post" ELSE "on"]
    /\ UNCHANGED <<node, pub, calls, last, stop, queue, run, count, seen>>

PostStart(it) ==
    /\ stage[it] = "post"
    /\ Post
    /\ stage' = [stage EXCEPT ![it] = "on"]
    /\ UNCHANGED <<node, pub, calls, last, stop, q, attached, exit, work, count, seen>>

(* A module is asked to stop by a flag that its next Run reads ...         *)
RequestStop(it) ==
    /\ stage[it] = "on"
    /\ stop' = [stop EXCEPT ![it] = TRUE]
    /\ UNCHANGED <<node, pub, calls, last, stage, queue, run, count, seen>>

(* Mutant: what is queued is left in the queue.                            *)
DequeueNothing(it) == UNCHANGED q

Dequeue(it) == q' = RemoveFirst(q, it)

(* Detach: with its last item the queue ends.                              *)
Detach(it) ==
    /\ attached' = attached \ {it}
    /\ exit' = (attached' = {})
    /\ sem' = IF exit' /\ NeedsPost THEN sem + 1 ELSE sem

(* ... or, after a timeout, and always by the owner of several items, is   *)
(* deleted from another thread: its callback first, then its queue.        *)
StopUnregister(it) ==
    /\ stage[it] = "on" /\ lock = Free
    /\ callbacks' = RemoveFirst(callbacks, it)
    /\ stage' = [stage EXCEPT ![it] = "unregistered"]
    /\ UNCHANGED <<data, generation, valid, lock, pub, calls, last, stop, queue, run,
                   count, seen>>

StopDeinit(it) ==
    /\ stage[it] = "unregistered"
    /\ Dequeue(it) /\ Detach(it)
    /\ IF sem' # sem THEN Posted ELSE UNCHANGED worker
    /\ stage' = [stage EXCEPT ![it] = "deinit"]
    /\ UNCHANGED <<node, pub, calls, last, stop, work, count, seen>>

(* The object, and what it had read, is gone.                              *)
Destroyed(it) ==
    /\ stage' = [stage EXCEPT ![it] = "deleted"]
    /\ stop' = [stop EXCEPT ![it] = FALSE]
    /\ last' = [last EXCEPT ![it] = 0] /\ seen' = [seen EXCEPT ![it] = 0]

(* Nothing waits for a Run that is going on.                               *)
Delete(it) ==
    /\ stage[it] = "deinit"
    /\ Destroyed(it)
    /\ worker' = IF Running(it) THEN "undefined" ELSE worker
    /\ UNCHANGED <<node, pub, calls, queue, work, count>>
-----------------------------------------------------------------------------
(***************************************************************************)
(* WorkQueue::Run.                                                         *)
(***************************************************************************)
Loop ==
    /\ worker = "loop"
    /\ IF exit THEN worker' = "ended" /\ UNCHANGED sem
               ELSE /\ sem' = sem - 1
                    /\ worker' = IF sem - 1 < 0 THEN "blocked" ELSE "drain"
    /\ UNCHANGED <<node, pub, calls, last, stage, stop, q, attached, exit, work, count,
                   seen>>

Drain ==
    /\ worker = "drain"
    /\ IF q = << >> THEN worker' = "loop" /\ UNCHANGED <<q, work>>
                    ELSE q' = Tail(q) /\ work' = Head(q) /\ worker' = "check_exit"
    /\ UNCHANGED <<node, pub, calls, last, stage, stop, sem, attached, exit, count, seen>>

CheckExit ==
    /\ worker = "check_exit"
    /\ worker' = IF stop[work] THEN "unregister" ELSE "updated"
    /\ UNCHANGED <<node, pub, calls, last, stage, stop, queue, work, count, seen>>

(* while (_sensor_sub.update(...)): process all outstanding messages.      *)
Updated ==
    /\ worker = "updated"
    /\ IF generation # last[work] THEN worker' = "copy" /\ UNCHANGED work
                                  ELSE worker' = "drain" /\ work' = Nobody
    /\ UNCHANGED <<node, pub, calls, last, stage, stop, queue, count, seen>>

IsInRange(lo, value, hi) ==
    IF hi > lo THEN lo <= value /\ value <= hi ELSE lo <= value \/ value <= hi

(* Mutant: the oldest message that is left is passed over.                 *)
ReadGenerationSkips(it) ==
    LET g == IF generation = last[it] THEN Modulo(last[it] - 1) ELSE last[it]
    IN  IF IsInRange(Modulo(generation - QueueSize + 1), g, Modulo(generation - 1))
        THEN g ELSE Modulo(generation - QueueSize)

(* The generation that copy reads: the subscriber's next one, or the       *)
(* oldest that is left.                                                    *)
ReadGeneration(it) ==
    LET g == IF generation = last[it] THEN Modulo(last[it] - 1) ELSE last[it]
    IN  IF IsInRange(Modulo(generation - QueueSize), g, Modulo(generation - 1))
        THEN g ELSE Modulo(generation - QueueSize)

Copy ==
    /\ worker = "copy" /\ lock = Free
    /\ LET g == IF QueueSize = 1 THEN generation ELSE ReadGeneration(work)
       IN  /\ last' = [last EXCEPT ![work] = g]
           /\ seen' = [seen EXCEPT ![work] = data[g % QueueSize]]
    /\ worker' = IF QueueSize = 1 THEN "updated" ELSE "bump"
    /\ UNCHANGED <<node, pub, calls, stage, stop, queue, work, count>>

(* ++generation, after the lock is released.                               *)
Bump ==
    /\ worker = "bump"
    /\ last' = [last EXCEPT ![work] = Modulo(@ + 1)]
    /\ worker' = "updated"
    /\ UNCHANGED <<node, pub, calls, stage, stop, queue, work, count, seen>>

(* The item leaves: unregisterCallback, then exit_and_cleanup deletes it.  *)
Unregister ==
    /\ worker = "unregister" /\ lock = Free
    /\ callbacks' = RemoveFirst(callbacks, work)
    /\ worker' = "cleanup"
    /\ UNCHANGED <<data, generation, valid, lock, pub, calls, last, stage, stop, queue,
                   work, count, seen>>

Cleanup ==
    /\ worker = "cleanup"
    /\ stage[work] = "on"
    /\ Dequeue(work) /\ Detach(work)
    /\ Destroyed(work)
    /\ worker' = "drain" /\ work' = Nobody
    /\ UNCHANGED <<node, pub, calls, count>>

(* Nobody publishes any more and the worker sleeps or has ended.           *)
Quiet ==
    /\ worker \in {"blocked", "ended", "undefined"}
    /\ left = 0 \/ attached = {}
    /\ UNCHANGED vars
-----------------------------------------------------------------------------
(* The node after some publications that no item has subscribed to.        *)
Init ==
    /\ published \in Earlier /\ left = MaxMore
    /\ generation = Modulo(published) /\ valid = (published > 0) /\ lock = Free
    /\ data = [s \in 0..(QueueSize - 1) |->
                LET of == {n \in 1..published : /\ n > published - QueueSize
                                                /\ Modulo(n - 1) % QueueSize = s}
                IN  IF of = {} THEN 0 ELSE CHOOSE n \in of : TRUE]
    /\ callbacks = << >> /\ calls = << >>
    /\ pub = [p \in Publishers |-> "out"]
    /\ last = [it \in Items |-> 0] /\ seen = [it \in Items |-> 0]
    /\ stage = [it \in Items |-> "new"] /\ stop = [it \in Items |-> FALSE]
    /\ q = << >> /\ sem = 0 /\ attached = {} /\ exit = FALSE
    /\ worker = "loop" /\ work = Nobody

Publisher(p) == Write(p) \/ Call(p) \/ Signal(p) \/ PostWork(p) \/ EndWrite(p)

Starting(it) ==
    \/ Attach(it) \/ Subscribe(it) \/ Register(it)
    \/ ScheduleNow(it) \/ SignalStart(it) \/ PostStart(it)

Stopping(it) == RequestStop(it) \/ StopUnregister(it) \/ StopDeinit(it) \/ Delete(it)

Worker ==
    \/ Loop \/ Drain \/ CheckExit \/ Updated \/ Copy \/ Bump \/ Unregister \/ Cleanup

Next ==
    \/ \E p \in Publishers : Publisher(p)
    \/ \E it \in Items : Starting(it) \/ Stopping(it)
    \/ Worker \/ Quiet

Spec == Init /\ [][Next]_vars

(***************************************************************************)
(* The threads are scheduled; one that wants the node's lock gets it,      *)
(* for the lock is held for a bounded time and messages come at a rate.    *)
(* Nobody has to start or stop an item.                                    *)
(***************************************************************************)
FairSpec ==
    /\ Spec
    /\ \A p \in Publishers : WF_vars(Publisher(p))
    /\ \A it \in Items : WF_vars(Starting(it)) /\ WF_vars(StopDeinit(it) \/ Delete(it))
    /\ SF_vars(Worker)
-----------------------------------------------------------------------------
(* The type invariant; the semaphore counts no more than the threads that  *)
(* found it low at once, however much is published.                        *)
TypeOK ==
    /\ data \in [0..(QueueSize - 1) -> Nat] /\ generation \in 0..(Wrap - 1)
    /\ valid \in BOOLEAN /\ lock \in Publishers \cup {Free}
    /\ callbacks \in Seq(Items) /\ calls \in Seq(Items) /\ q \in Seq(Items)
    /\ pub \in [Publishers -> {"out", "call", "signal", "post"}]
    /\ last \in [Items -> 0..(Wrap - 1)] /\ seen \in [Items -> Nat]
    /\ stage \in [Items -> {"new", "refused", "attached", "subscribed", "registered",
                            "signal", "post", "on", "unregistered", "deinit", "deleted"}]
    /\ stop \in [Items -> BOOLEAN] /\ exit \in BOOLEAN
    /\ attached \subseteq Items
    /\ sem \in -1..(Cardinality(Publishers) + Cardinality(Items))
    /\ worker \in InRun \cup {"loop", "blocked", "drain", "ended", "undefined"}
    /\ work \in Items \cup {Nobody} /\ published \in Nat /\ left \in 0..MaxMore

(* An item reads every message once and in order, and when it has fallen   *)
(* behind the queue goes on with the oldest message that is left, also     *)
(* where the generations wrap around.                                      *)
MessagesInOrder ==
    [][ worker = "copy" /\ worker' \in {"bump", "updated"} =>
            seen'[work] = IF seen[work] + QueueSize < published
                          THEN published - QueueSize + 1 ELSE seen[work] + 1 ]_vars

(* A deleted item is in no list from which it would be called or run: a    *)
(* publisher may have been calling it when it was stopped.                 *)
DeletedItemIsForgotten ==
    \A it \in Items : stage[it] = "deleted" =>
        it \notin ToSet(q) \cup ToSet(callbacks) \cup ToSet(calls) \cup attached
            /\ ~Running(it)

(* A message reaches every item that is started, without another one after *)
(* it: the signal that the semaphore's value makes unnecessary is not      *)
(* lost.  And the thread of a queue without items ends.                    *)
MessagesArrive ==
    /\ \A it \in Items :
        stage[it] = "on" /\ generation # last[it]
            ~> generation = last[it] \/ stage[it] # "on" \/ worker = "undefined"
    /\ exit ~> worker \in {"ended", "undefined"}
=============================================================================
