------------------------------ MODULE RecordBus ------------------------------
(***************************************************************************)
(* The message plane of snmp_app: two memory pools (app/mem_pool.c), three *)
(* ring buffers (app/ring_buffer.c) and the threads that pass pool blocks  *)
(* through them, from the moment main() starts the threads until it has    *)
(* joined them and destroyed pools and rings (app/ctrl.c).                 *)
(*                                                                         *)
(*   Pollers  the rs232, rs485 and di threads: turn what they read into    *)
(*            records (ring "data") and alarms (rings "sms" and "email")   *)
(*   Sms, Email  take alarms from their ring, and put one record per       *)
(*            contact they notify into the ring "data"                     *)
(*   Writer   the data_write thread: stores the records in data.db         *)
(*   Main     starts the others, raises the power-fail alarm, stops them   *)
(*                                                                         *)
(* A ring is a bounded sequence of blocks here; RingBuffer.tla has the     *)
(* cursors.  What a block says is abstracted away: a poller's pass and a   *)
(* notifier's round of sending are a number of records drawn from          *)
(* 0..MaxWork.  Every lock region of the code is one step, and the store   *)
(* to in_use that mpool_alloc makes after unlocking is a step of its own.  *)
(***************************************************************************)
EXTENDS Naturals, Sequences, FiniteSets

CONSTANTS
    Pollers,         \* the polling threads
    Eager,           \* those that record before their first look at thread_status (di)
    Sms, Email,      \* the two alarm threads
    Writer,          \* the data_write thread
    Main,            \* the thread that runs main()
    StartOrder,      \* the order in which main() starts the workers
    MsgBlocks,       \* blocks of mpool_handle (32 msg_t)
    AlarmBlocks,     \* blocks of alarm_pool_handle (10 alarm_msg_t)
    NoBlock,         \* the NULL pointer
    DataRingSize,    \* ring_buffer_create(32)
    AlarmRingSize,   \* ring_buffer_create(5), for sms and for email
    MaxWork          \* bound: records of one poller pass or one sending round

Notifiers == {Sms, Email}
Workers   == Pollers \cup Notifiers \cup {Writer}
Threads   == Workers \cup {Main}
Blocks    == MsgBlocks \cup AlarmBlocks
Rings     == {"data", "sms", "email"}
Pools     == {"msg", "alarm"}
Locals    == {"msg", "alarm_msg", "tmp_alarm_msg"}   \* the C variables that hold a block

Contents(s)  == {s[i] : i \in DOMAIN s}
HoldsOnce(s) == \A i, j \in DOMAIN s : s[i] = s[j] => i = j

ASSUME ThreadsAssumption ==
    /\ Eager \subseteq Pollers
    /\ Sms # Email /\ Writer \notin Notifiers
    /\ Pollers \cap {Sms, Email, Writer} = {}
    /\ Main \notin Workers
    /\ StartOrder \in Seq(Workers) /\ HoldsOnce(StartOrder)
    /\ Workers = Contents(StartOrder)

ASSUME BlocksAssumption ==
    /\ MsgBlocks \cap AlarmBlocks = {}
    /\ NoBlock \notin Blocks
    /\ IsFiniteSet(MsgBlocks) /\ IsFiniteSet(AlarmBlocks)
    /\ DataRingSize \in Nat /\ AlarmRingSize \in Nat /\ MaxWork \in Nat

VARIABLES
    free,            \* the free_buffer list of each pool, head first
    in_use,          \* the in_use word of each block's node
    fifo,            \* the contents of each ring, oldest first
    held,            \* the blocks in each thread's local variables
    pc,              \* where each thread is
    work,            \* records a poller or notifier still makes in this round
    thread_status,   \* the flag every worker's loop tests
    step             \* main()'s position in StartOrder, then in StopOrder

vars == <<free, in_use, fifo, held, pc, work, thread_status, step>>

\* main() stops the pollers, then sms, email and data_write, one group at a time.
StopOrder == <<Pollers, {Sms}, {Email}, {Writer}>>

Labels == {"init", "loop", "round", "mark_msg", "push_msg", "drop_msg",
           "alloc_alarm", "mark_alarm", "alloc_tmp", "mark_tmp", "undo_alarm",
           "push_sms", "drop_alarm", "push_email", "drop_tmp",
           "taken", "hung", "write", "clear", "clear_free", "done",
           "create", "set_status", "running", "terminate", "join", "wait", "destroyed"}

PoolBlocks(pool) == IF pool = "msg" THEN MsgBlocks ELSE AlarmBlocks
RingSize(ring)   == IF ring = "data" THEN DataRingSize ELSE AlarmRingSize
OwnRing(n)       == IF n = Sms THEN "sms" ELSE "email"

Goto(t, label) == pc' = [pc EXCEPT ![t] = label]

(***************************************************************************)
(* mem_pool.c                                                              *)
(***************************************************************************)
\* mpool_alloc up to its unlock: the head of the free list changes hands.
PopFree(t, pool, v) ==
    /\ free[pool] # <<>>
    /\ held' = [held EXCEPT ![t][v] = Head(free[pool])]
    /\ free' = [free EXCEPT ![pool] = Tail(@)]
    /\ UNCHANGED <<in_use, fifo>>

\* mpool_alloc finds the free list empty and returns 0.
PoolEmpty(pool) ==
    /\ free[pool] = <<>>
    /\ UNCHANGED <<free, in_use, fifo, held>>

\* Mutant: the assignment copied from mpool_free.
MarkFree(t, v) ==
    /\ in_use' = [in_use EXCEPT ![held[t][v]] = 0]
    /\ UNCHANGED <<free, fifo, held>>

\* mpool_alloc after its unlock: in_use = 1, outside the mutex.
MarkInUse(t, v) ==
    /\ in_use' = [in_use EXCEPT ![held[t][v]] = 1]
    /\ UNCHANGED <<free, fifo, held>>

\* mpool_free refuses a block of another pool and one whose in_use is not 1.
FreeAccepts(pool, b) == b \in PoolBlocks(pool) /\ in_use[b] = 1

\* mpool_free, whose result no caller looks at, and the caller's "= NULL".
FreeBlock(t, pool, v) ==
    LET b == held[t][v] IN
    /\ IF FreeAccepts(pool, b)
       THEN /\ in_use' = [in_use EXCEPT ![b] = 0]
            /\ free' = [free EXCEPT ![pool] = Append(@, b)]
       ELSE UNCHANGED <<in_use, free>>
    /\ held' = [held EXCEPT ![t][v] = NoBlock]
    /\ UNCHANGED fifo

(***************************************************************************)
(* ring_buffer.c                                                           *)
(***************************************************************************)
\* Mutant: size is the capacity and not the capacity + 1.
RingFullEarly(ring) == Len(fifo[ring]) + 1 >= RingSize(ring)

RingFull(ring) == Len(fifo[ring]) = RingSize(ring)

\* Mutant: the caller forgets to clear its variable.
PushAndKeep(t, ring, v) ==
    /\ ~RingFull(ring)
    /\ fifo' = [fifo EXCEPT ![ring] = Append(@, held[t][v])]
    /\ UNCHANGED <<free, in_use, held>>

\* ring_buffer_push with room, and the caller's "= NULL".
Push(t, ring, v) ==
    /\ ~RingFull(ring)
    /\ fifo' = [fifo EXCEPT ![ring] = Append(@, held[t][v])]
    /\ held' = [held EXCEPT ![t][v] = NoBlock]
    /\ UNCHANGED <<free, in_use>>

\* ring_buffer_push returns -1: the caller still owns the block.
PushFails(ring) ==
    /\ RingFull(ring)
    /\ UNCHANGED <<free, in_use, fifo, held>>

\* Mutant: the read cursor is not advanced.
PopAndStay(t, ring, v) ==
    /\ fifo[ring] # <<>>
    /\ held' = [held EXCEPT ![t][v] = Head(fifo[ring])]
    /\ UNCHANGED <<free, in_use, fifo>>

Pop(t, ring, v) ==
    /\ fifo[ring] # <<>>
    /\ held' = [held EXCEPT ![t][v] = Head(fifo[ring])]
    /\ fifo' = [fifo EXCEPT ![ring] = Tail(@)]
    /\ UNCHANGED <<free, in_use>>

PopFails(ring) ==
    /\ fifo[ring] = <<>>
    /\ UNCHANGED <<free, in_use, fifo, held>>

NoBlockMoves == UNCHANGED <<free, in_use, fifo, held>>
NoControl    == UNCHANGED <<thread_status, step>>

(***************************************************************************)
(* One record: alloc_msg, fill, push to the data ring, free if it is full. *)
(* Pollers: create_last_param_value_list, compare_values, record_com_fail, *)
(* alarm_data_record, history_data_record.  Notifiers: send_to_contact.    *)
(***************************************************************************)
\* Mutant: the loop over the parameters runs once too often.
AllocMsgOnceMore(t) ==
    /\ pc[t] = "round"
    /\ work' = [work EXCEPT ![t] = @ - 1]
    /\ \/ PopFree(t, "msg", "msg") /\ Goto(t, "mark_msg")
       \/ PoolEmpty("msg")         /\ Goto(t, "round")
    /\ NoControl

AllocMsg(t) ==
    /\ pc[t] = "round" /\ work[t] > 0
    /\ work' = [work EXCEPT ![t] = @ - 1]
    /\ \/ PopFree(t, "msg", "msg") /\ Goto(t, "mark_msg")
       \/ PoolEmpty("msg")         /\ Goto(t, "round")
    /\ NoControl

MarkMsg(t) ==
    /\ pc[t] = "mark_msg"
    /\ MarkInUse(t, "msg") /\ Goto(t, "push_msg")
    /\ UNCHANGED work /\ NoControl

\* A poller goes on to raise or discard the alarm when the record was one of an alarm.
AfterRecord(t) == IF t \in Pollers THEN {"round", "alloc_alarm"} ELSE {"round"}

PushMsg(t) ==
    /\ pc[t] = "push_msg"
    /\ \/ Push(t, "data", "msg") /\ \E next \in AfterRecord(t) : Goto(t, next)
       \/ PushFails("data")      /\ Goto(t, "drop_msg")
    /\ UNCHANGED work /\ NoControl

DropMsg(t) ==
    /\ pc[t] = "drop_msg"
    /\ FreeBlock(t, "msg", "msg") /\ \E next \in AfterRecord(t) : Goto(t, next)
    /\ UNCHANGED work /\ NoControl

Record(t) == AllocMsg(t) \/ MarkMsg(t) \/ PushMsg(t) \/ DropMsg(t)

(***************************************************************************)
(* One alarm: two blocks or none, one to each alarm ring; a block that its *)
(* ring refuses is freed.  compare_values, record_com_fail and             *)
(* alarm_data_record end this way, and so does main's send_alarm_msg.      *)
(***************************************************************************)
Base(t) == IF t = Main THEN "running" ELSE "round"

AllocAlarm(t) ==
    /\ pc[t] = "alloc_alarm"
    /\ \/ PopFree(t, "alarm", "alarm_msg") /\ Goto(t, "mark_alarm")
       \/ PoolEmpty("alarm")               /\ Goto(t, Base(t))
    /\ UNCHANGED work /\ NoControl

MarkAlarm(t) ==
    /\ pc[t] = "mark_alarm"
    /\ MarkInUse(t, "alarm_msg") /\ Goto(t, "alloc_tmp")
    /\ UNCHANGED work /\ NoControl

AllocTmp(t) ==
    /\ pc[t] = "alloc_tmp"
    /\ \/ PopFree(t, "alarm", "tmp_alarm_msg") /\ Goto(t, "mark_tmp")
       \/ PoolEmpty("alarm")                   /\ Goto(t, "undo_alarm")
    /\ UNCHANGED work /\ NoControl

\* Mutant: the first block is forgotten when there is no second.
UndoNothing(t) ==
    /\ pc[t] = "undo_alarm"
    /\ held' = [held EXCEPT ![t]["alarm_msg"] = NoBlock] /\ Goto(t, Base(t))
    /\ UNCHANGED <<free, in_use, fifo, work>> /\ NoControl

UndoAlarm(t) ==
    /\ pc[t] = "undo_alarm"
    /\ FreeBlock(t, "alarm", "alarm_msg") /\ Goto(t, Base(t))
    /\ UNCHANGED work /\ NoControl

MarkTmp(t) ==
    /\ pc[t] = "mark_tmp"
    /\ MarkInUse(t, "tmp_alarm_msg") /\ Goto(t, "push_sms")
    /\ UNCHANGED work /\ NoControl

PushSms(t) ==
    /\ pc[t] = "push_sms"
    /\ \/ Push(t, "sms", "alarm_msg") /\ Goto(t, "push_email")
       \/ PushFails("sms")            /\ Goto(t, "drop_alarm")
    /\ UNCHANGED work /\ NoControl

DropAlarm(t) ==
    /\ pc[t] = "drop_alarm"
    /\ FreeBlock(t, "alarm", "alarm_msg") /\ Goto(t, "push_email")
    /\ UNCHANGED work /\ NoControl

PushEmail(t) ==
    /\ pc[t] = "push_email"
    /\ \/ Push(t, "email", "tmp_alarm_msg") /\ Goto(t, Base(t))
       \/ PushFails("email")                /\ Goto(t, "drop_tmp")
    /\ UNCHANGED work /\ NoControl

DropTmp(t) ==
    /\ pc[t] = "drop_tmp"
    /\ FreeBlock(t, "alarm", "tmp_alarm_msg") /\ Goto(t, Base(t))
    /\ UNCHANGED work /\ NoControl

Alarm(t) == \/ AllocAlarm(t) \/ MarkAlarm(t) \/ AllocTmp(t) \/ UndoAlarm(t)
            \/ MarkTmp(t) \/ PushSms(t) \/ DropAlarm(t) \/ PushEmail(t) \/ DropTmp(t)

(***************************************************************************)
(* The loops of the workers                                                *)
(***************************************************************************)
\* A round is a poller's pass over its parameters, or the sending round of a notifier.
RoundEnds(t) ==
    /\ pc[t] = "round" /\ work[t] = 0
    /\ Goto(t, "loop")
    /\ UNCHANGED work /\ NoBlockMoves /\ NoControl

PollerLoop(p) ==
    /\ pc[p] = "loop"
    /\ \/ thread_status[p] = 1 /\ Goto(p, "round") /\ \E n \in 0..MaxWork :
                                                        work' = [work EXCEPT ![p] = n]
       \/ thread_status[p] = 0 /\ Goto(p, "done")  /\ UNCHANGED work
    /\ NoBlockMoves /\ NoControl

\* The notifier pops its own ring; with or without an alarm it then goes over its queue.
NotifierLoop(n) ==
    /\ pc[n] = "loop" /\ thread_status[n] = 1
    /\ \/ Pop(n, OwnRing(n), "alarm_msg") /\ Goto(n, "taken") /\ UNCHANGED work
       \/ /\ PopFails(OwnRing(n)) /\ Goto(n, "round")
          /\ \E k \in 0..MaxWork : work' = [work EXCEPT ![n] = k]
    /\ NoControl

\* The alarm has been copied to the notifier's own queue (SendQueue.tla).
NotifierFrees(n) ==
    /\ pc[n] = "taken"
    /\ FreeBlock(n, "alarm", "alarm_msg") /\ Goto(n, "round")
    /\ \E k \in 0..MaxWork : work' = [work EXCEPT ![n] = k]
    /\ NoControl

\* A sending round of the email thread that does not end: receive_response goes round for
\* ever when the server closes or was never reached (Smtp.tla).  The round is not over, for
\* the record of this mail would be made after it.
Hangs ==
    /\ pc[Email] = "round" /\ work[Email] > 0
    /\ Goto(Email, "hung")
    /\ UNCHANGED work /\ NoBlockMoves /\ NoControl

\* It is a busy loop: what stands still around it is no deadlock.
Spins == pc[Email] = "hung" /\ UNCHANGED vars

\* The notifier's clear_ring_buffer is called with the data ring and its pool.
NotifierStops(n) ==
    /\ pc[n] = "loop" /\ thread_status[n] = 0
    /\ Goto(n, "clear")
    /\ UNCHANGED work /\ NoBlockMoves /\ NoControl

\* Mutant: the thread returns as soon as its flag is cleared.
WriterReturns(w) ==
    /\ pc[w] = "loop"
    /\ \/ thread_status[w] = 1 /\ Pop(w, "data", "msg") /\ Goto(w, "write")
       \/ thread_status[w] = 0 /\ NoBlockMoves /\ Goto(w, "done")
    /\ UNCHANGED work /\ NoControl

\* With an empty ring data_in_db_process deletes old rows or sleeps: no step of this model.
WriterLoop(w) ==
    /\ pc[w] = "loop"
    /\ \/ thread_status[w] = 1 /\ Pop(w, "data", "msg") /\ Goto(w, "write")
       \/ thread_status[w] = 0 /\ NoBlockMoves /\ Goto(w, "clear")
    /\ UNCHANGED work /\ NoControl

\* The SQL statement in the block is executed, then the block is freed.
WriterStores(w) ==
    /\ pc[w] = "write"
    /\ FreeBlock(w, "msg", "msg") /\ Goto(w, "loop")
    /\ UNCHANGED work /\ NoControl

\* Mutant: the read cursor stays where it is.
ClearPeeks(t) ==
    /\ pc[t] = "clear"
    /\ \/ PopAndStay(t, "data", "msg") /\ Goto(t, "clear_free")
       \/ PopFails("data")             /\ Goto(t, "done")
    /\ UNCHANGED work /\ NoControl

\* clear_ring_buffer: pop and free until the ring is empty, then the thread returns.
\* data_write executes each record first, the notifiers do not.
ClearPop(t) ==
    /\ pc[t] = "clear"
    /\ \/ Pop(t, "data", "msg") /\ Goto(t, "clear_free")
       \/ PopFails("data")      /\ Goto(t, "done")
    /\ UNCHANGED work /\ NoControl

ClearFree(t) ==
    /\ pc[t] = "clear_free"
    /\ FreeBlock(t, "msg", "msg") /\ Goto(t, "clear")
    /\ UNCHANGED work /\ NoControl

PollerStep(p)   == PollerLoop(p) \/ RoundEnds(p) \/ Record(p) \/ Alarm(p)
NotifierStep(n) == \/ NotifierLoop(n) \/ NotifierFrees(n) \/ NotifierStops(n)
                   \/ RoundEnds(n) \/ Record(n) \/ ClearPop(n) \/ ClearFree(n)
WriterStep      == \/ WriterLoop(Writer) \/ WriterStores(Writer)
                   \/ ClearPop(Writer) \/ ClearFree(Writer)

(***************************************************************************)
(* main()                                                                  *)
(***************************************************************************)
\* thread_start: pthread_create, and the new thread runs at once...
Create ==
    /\ pc[Main] = "create"
    /\ LET t == StartOrder[step] IN
       \/ /\ t \in Eager
          /\ pc' = [pc EXCEPT ![Main] = "set_status", ![t] = "round"]
          /\ \E k \in 0..MaxWork : work' = [work EXCEPT ![t] = k]
       \/ /\ t \notin Eager
          /\ pc' = [pc EXCEPT ![Main] = "set_status", ![t] = "loop"]
          /\ UNCHANGED work
       \/ /\ t = Email    \* lf_queue_init fails and the thread returns -1
          /\ pc' = [pc EXCEPT ![Main] = "set_status", ![t] = "done"]
          /\ UNCHANGED work
    /\ NoBlockMoves /\ NoControl

\* After the last thread_start main logs "All threads running", whatever they returned.
StartNext ==
    /\ step' = step + 1
    /\ Goto(Main, IF step < Len(StartOrder) THEN "create" ELSE "running")
    /\ UNCHANGED work /\ NoBlockMoves

\* ... or there is no thread: thread_status and thread_ID stay 0, and main() goes on.
CreateFails ==
    /\ pc[Main] = "create"
    /\ StartNext
    /\ UNCHANGED thread_status

\* ... and only when there is one thread_status = 1.
SetStatus ==
    /\ pc[Main] = "set_status"
    /\ thread_status' = [thread_status EXCEPT ![StartOrder[step]] = 1]
    /\ StartNext

\* The supply fails: send_alarm_msg.
PowerFails ==
    /\ pc[Main] = "running"
    /\ Goto(Main, "alloc_alarm")
    /\ UNCHANGED work /\ NoBlockMoves /\ NoControl

\* /tmp/reboot exists: main leaves its loop.
RebootAsked ==
    /\ pc[Main] = "running"
    /\ Goto(Main, "terminate") /\ step' = 1
    /\ UNCHANGED <<work, thread_status>> /\ NoBlockMoves

ClearStatus(group) ==
    thread_status' = [t \in Workers |-> IF t \in group THEN 0 ELSE thread_status[t]]

Terminate ==
    /\ pc[Main] = "terminate"
    /\ ClearStatus(StopOrder[step])
    /\ Goto(Main, "join")
    /\ UNCHANGED <<work, step>> /\ NoBlockMoves

\* thread_join clears the flag once more ...
JoinClears ==
    /\ pc[Main] = "join"
    /\ ClearStatus(StopOrder[step])
    /\ Goto(Main, "wait")
    /\ UNCHANGED <<work, step>> /\ NoBlockMoves

\* A thread that has returned, or that pthread_create never made.
NotRunning(t) == pc[t] \in {"init", "done"}

\* Mutant: nobody is waited for.
JoinNobody ==
    /\ pc[Main] = "wait"
    /\ step' = step + 1
    /\ Goto(Main, IF step < Len(StopOrder) THEN "terminate" ELSE "destroyed")
    /\ UNCHANGED <<work, thread_status>> /\ NoBlockMoves

\* ... and waits, if it has a thread_ID.  After the last join main destroys rings and pools.
Join ==
    /\ pc[Main] = "wait"
    /\ \A t \in StopOrder[step] : NotRunning(t)
    /\ step' = step + 1
    /\ Goto(Main, IF step < Len(StopOrder) THEN "terminate" ELSE "destroyed")
    /\ UNCHANGED <<work, thread_status>> /\ NoBlockMoves

MainStep == \/ Create \/ CreateFails \/ SetStatus
            \/ Terminate \/ JoinClears \/ Join \/ Alarm(Main)

Finished == pc[Main] = "destroyed" /\ UNCHANGED vars

\* mpool_init lists the blocks by address; which block has which address is left open.
Listings(S) == {s \in [1..Cardinality(S) -> S] : HoldsOnce(s) /\ Contents(s) = S}

Init ==
    /\ \E msgs \in Listings(MsgBlocks), alarms \in Listings(AlarmBlocks) :
          free = [pool \in Pools |-> IF pool = "msg" THEN msgs ELSE alarms]
    /\ in_use = [b \in Blocks |-> 0]
    /\ fifo = [ring \in Rings |-> <<>>]
    /\ held = [t \in Threads |-> [v \in Locals |-> NoBlock]]
    /\ pc = [t \in Threads |-> IF t = Main THEN "create" ELSE "init"]
    /\ work = [t \in Workers |-> 0]
    /\ thread_status = [t \in Workers |-> 0]
    /\ step = 1

Next ==
    \/ \E p \in Pollers : PollerStep(p)
    \/ \E n \in Notifiers : NotifierStep(n)
    \/ WriterStep
    \/ MainStep \/ PowerFails \/ RebootAsked
    \/ Hangs \/ Spins \/ Finished

Spec == Init /\ [][Next]_vars

\* Every thread the kernel schedules goes on, but for an email thread that hangs in a
\* dialogue; nothing makes the supply fail or asks for a reboot.
Fairness ==
    /\ \A p \in Pollers : WF_vars(PollerStep(p))
    /\ \A n \in Notifiers : WF_vars(NotifierStep(n))
    /\ WF_vars(WriterStep)
    /\ WF_vars(MainStep)

FairSpec == Spec /\ Fairness

----------------------------------------------------------------------------
\* Types of the variables.
TypeOK ==
    /\ free \in [Pools -> Seq(Blocks)]
    /\ in_use \in [Blocks -> {0, 1}]
    /\ fifo \in [Rings -> Seq(Blocks)]
    /\ held \in [Threads -> [Locals -> Blocks \cup {NoBlock}]]
    /\ pc \in [Threads -> Labels]
    /\ work \in [Workers -> 0..MaxWork]
    /\ thread_status \in [Workers -> {0, 1}]
    /\ step \in Nat

\* A list - a pool's free list or a ring - never holds a block twice, and no block is at
\* two places at once: on a free list, in a ring, in a variable of a thread.  With it two
\* threads never fill the same message, and no message is freed while it waits or is read.
ListsHoldOnce ==
    /\ \A pool \in Pools : HoldsOnce(free[pool])
    /\ \A ring \in Rings : HoldsOnce(fifo[ring])

Disjoint ==
    /\ \A pool \in Pools, ring \in Rings : Contents(free[pool]) \cap Contents(fifo[ring]) = {}
    /\ \A r1, r2 \in Rings : r1 # r2 => Contents(fifo[r1]) \cap Contents(fifo[r2]) = {}
    /\ \A t \in Threads, v \in Locals : held[t][v] # NoBlock =>
          /\ \A pool \in Pools : held[t][v] \notin Contents(free[pool])
          /\ \A ring \in Rings : held[t][v] \notin Contents(fifo[ring])
          /\ \A u \in Threads, w \in Locals : held[u][w] = held[t][v] => u = t /\ w = v

BlockOwnership == ListsHoldOnce /\ Disjoint

\* No block is ever lost: whatever path an allocation takes - pool empty halfway through
\* an alarm, ring full, thread told to stop - the block is on the free list of its own
\* pool, in a ring, or held by a thread that has still to pass it on.
NoBlockLost ==
    \A b \in Blocks :
        \/ \E pool \in Pools : b \in PoolBlocks(pool) /\ b \in Contents(free[pool])
        \/ \E ring \in Rings : b \in Contents(fifo[ring])
        \/ \E t \in Threads, v \in Locals : held[t][v] = b

\* mpool_free never refuses: although mpool_alloc sets in_use after it has unlocked,
\* whoever frees a block - a consumer, on another thread - finds in_use = 1.
FreeNeverRefused ==
    \A t \in Threads :
        /\ pc[t] \in {"drop_msg", "write", "clear_free"} => FreeAccepts("msg", held[t]["msg"])
        /\ pc[t] \in {"undo_alarm", "drop_alarm", "taken"} =>
              FreeAccepts("alarm", held[t]["alarm_msg"])
        /\ pc[t] = "drop_tmp" => FreeAccepts("alarm", held[t]["tmp_alarm_msg"])

\* main() creates the data ring as large as the pool that feeds it (32 and 32), so no
\* record is ever dropped with "ring buffer is full": whoever holds a block finds room.
DataRingHasRoom ==
    Cardinality(MsgBlocks) <= DataRingSize =>
        \A t \in Threads : pc[t] = "push_msg" => ~RingFull("data")

\* When main() destroys rings and pools no thread is left that could still use them - each
\* has returned or was never made -, and none of them holds a block.
NoUseAfterDestroy ==
    pc[Main] = "destroyed" =>
        /\ \A t \in Workers : NotRunning(t)
        /\ \A t \in Threads, v \in Locals : held[t][v] = NoBlock

\* A data_write thread that ends because main stops it leaves nothing behind: the data
\* ring is empty and every block of its pool is free, whatever was queued or being
\* filled when the reboot was asked for.
Stopping == pc[Main] \in {"join", "wait"} /\ Writer \in StopOrder[step]

WriterLeavesNothing ==
    [][pc[Writer] # "done" /\ pc'[Writer] = "done" /\ Stopping =>
          fifo'["data"] = <<>> /\ Contents(free'["msg"]) = MsgBlocks]_vars

\* Every record that reaches the data ring leaves it again - nothing is starved by later
\* records, nor by a mail that hangs - unless there is no data_write thread: it has
\* returned, or could not be made.
RecordsDrain ==
    \A b \in MsgBlocks :
        b \in Contents(fifo["data"]) ~> (b \notin Contents(fifo["data"]) \/ NotRunning(Writer))

\* The same for the alarm rings, as long as the thread that serves one is in its loop.
\* The email thread may also be in a dialogue that never ends: then its ring is not served.
LeftLoop(n) == NotRunning(n) \/ pc[n] \in {"clear", "clear_free", "hung"}

AlarmsDrain ==
    \A n \in Notifiers : \A b \in AlarmBlocks :
        b \in Contents(fifo[OwnRing(n)]) ~> (b \notin Contents(fifo[OwnRing(n)]) \/ LeftLoop(n))

\* main has joined the pollers and sms, and waits for an email thread in a dialogue.
JoinHangs == pc[Main] = "wait" /\ StopOrder[step] = {Email} /\ pc[Email] = "hung"

\* A reboot that was asked for happens, or main waits for ever in the one join that may:
\* that of an email thread hung in a dialogue.  All the others end, whatever the pools and
\* rings hold at that moment and whatever records and alarms are half made - provided the
\* notifiers come to have nothing more to send.  They are joined one after the other, and
\* without that the first empties a data ring that the second goes on filling.
RebootCompletes ==
    <>[](\A n \in Notifiers : work[n] = 0 \/ pc[n] = "hung") =>
        (pc[Main] = "terminate" ~> (pc[Main] = "destroyed" \/ JoinHangs))

\* ctrl.c logs "All threads running, application start" after the last thread_start: no
\* worker has ended by then (but for the email thread, if it gets no shared memory).
AllThreadsRunning == pc[Main] = "running" => \A t \in Workers \ {Email} : pc[t] # "done"

\* The comment on clear_ring_buffer in the notifiers says that it clears their alarm
\* ring: a notifier, as it ends, takes nothing out of the data ring.
NotifierClearsOwnRing ==
    [][\A n \in Notifiers : pc[n] = "clear" /\ pc'[n] # pc[n] => fifo'["data"] = fifo["data"]]_vars
=============================================================================
