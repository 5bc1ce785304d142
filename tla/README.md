# snmp_web in TLA+

This directory specifies and verifies the core of snmp_web, the firmware of a
small monitoring device: it polls serial equipment and digital inputs, stores
readings and alarms in SQLite, sends alarms by SMS, by email and to an SNMP
agent, and is configured through web pages and CGI programs.

- [1. The system](#1-the-system)
- [2. Modules and how they correspond to the code](#2-modules)
- [3. What the model checker shows](#3-runs)
- [4. What is proved](#4-proofs)
- [5. Where code and documentation disagree](#5-findings)
- [6. What is not modelled, and the plan](#6-plan)

To check a module: `tlc -config Queues.cfg MCQueues`; to prove one:
`tlapm RecordBus_proofs.tla`.

## 1. The system

`snmp_app` (`src/app`) is one process of eight threads. CGI programs
(`src/cgi-bin`) and an SNMP agent, which is not in the repository, run beside it.

```
 rs232 ┐  records   ┌────────────┐ msg_t   ┌────────────┐
 rs485 ├───────────▶│ ring  data │────────▶│ data_write │──▶ data.db
 di    ┘            └────────────┘         └────────────┘
   │ alarms            ▲ records of what was sent
   ├──▶ ring sms ──▶ sms_alarm ───▶ modem
   └──▶ ring email ▶ email_alarm ─▶ smtp
 main ──▶ both alarm rings          └──▶ lf_queue (shared memory) ──▶ SNMP agent
 rs232, rs485, di ──▶ real-time data (shared memory) ──▶ beep, CGI, SNMP agent
 CGI ──▶ param.ini, sys.db ──▶ preference object of snmp_app
```

| component | state | operations | what is hard | correct when |
|---|---|---|---|---|
| memory pools `mem_pool.c` (32 `msg_t`, 10 `alarm_msg_t`) | free list, `in_use` word of each block | alloc, free | `in_use` is set outside the lock; no caller looks at the result of free | a block has one owner, none is lost, free never refuses |
| ring buffers `ring_buffer.c` (32, 5, 5) | slots, two cursors | push, pop | full and empty differ by one slot | a FIFO queue of exactly n elements |
| threads `thread_process.c`, `ctrl.c` | `thread_status`, thread ids | start, terminate, join, destroy | flag set after the thread runs; order of stopping; rings destroyed at the end | every thread runs until it is told to stop; nothing is used after destroy; reboot ends |
| pollers `rs232_thread.c`, `rs485_thread.c`, `di_thread.c` | last values, alarm status of each parameter, failure counters | poll, compare, record, raise and discard alarms | hysteresis; the status latched before or after an allocation that may fail | every change of alarm status is reported once, in order |
| `data_write_thread.c` | none of its own | pop, execute, free; drain at the end; delete old rows | told to stop while others still push | every record is stored |
| `sms_alarm_thread.c`, `email_alarm_thread.c` | queue of 16 alarms with their time of last sending and sends left; contacts | take, send, send again, remove | overwriting an entry that waits; unsigned counter | contacts hear the latest state, each alarm as often as configured |
| `lf_queue.c` | list of units in System V shared memory | init, push, pop | no lock; a process may die inside; memory outlives processes | elements come out whole, once, in order |
| preference `preference.c` | parsed `param.ini`, change flags | getters, setters that rewrite the file, reload | two processes rewrite one file; flags read at one time and cleared at another; reload and setters on different threads | no change of configuration is lost |
| real-time data `shm_object.c`, `semaphore.c` | three segments, one semaphore each | create, put, get | several processes create them | a reader sees a whole copy |
| `beep_thread.c`, `drv_gpio.c` | output levels | compare alarms with what is enabled, write | reads data of three other threads | the beeper sounds while an enabled alarm is on |
| `db_access.c` | connection, open transaction | action, query | error between begin and commit | an error leaves no transaction open |
| CGI `cgi_common/main.c`, `cgi_update/app_main.c` | none between requests | set and query handlers, upload | concurrent requests, partial failure of multi-step handlers | tables and file agree |
| `protocol_frame` | descriptions of devices and their frames | build a command, check and decode an answer | check codes, lengths | damaged frames are refused |
| `modem.c`, `uart.c`, `smtp.c` | dialogue with modem or server | connect, send | time-outs, unexpected answers | a failed dialogue is reported as failed |

PROJECT.json lists every component with its status, and the places in the code
("hazards") that the properties below are aimed at.

<a name="2-modules"></a>
## 2. Modules and how they correspond to the code

| module | models | composition |
|---|---|---|
| `RecordBus` | pools, rings, start and stop, and what every thread does with blocks | rings as bounded sequences |
| `BoundedFifo` | what a queue promises | abstract specification |
| `RingBuffer` | `ring_buffer.c` with its cursors | implements BoundedFifo |
| `AgentQueue` | what the email thread and the SNMP agent rely on | abstract specification |
| `LfQueue` | `lf_queue.c`, one step per shared access | implements AgentQueue |
| `AlarmBook` | what an alarm thread promises its contacts | abstract specification |
| `SendQueue` | the queue of alarms inside an alarm thread | implements AlarmBook; what `RecordBus` calls a sending round |
| `UartPoll` | a polling thread and the device at its port | extends Frames; its allocations are those of RecordBus |
| `Frames` | what `calculate_data` of each protocol accepts | pure functions |
| `ConfigFile` | `param.ini`, table "parameter", the requests that write them, reload and change flags | |
| `RealData` | a page in shared memory, its semaphore, the beep thread and the CGI readers | |
| `DiPoll` | levels, latches and alarms of the digital inputs | makes the page that RealData shares |
| `Smtp` | one alarm mail and the server | what SendQueue calls a send, of the email thread |
| `Modem` | the short messages of one alarm and the modem | what SendQueue calls a send, of the sms thread |
| `MCRecordBus`, `MCUartPoll` | instances for TLC | |
| `MCQueues` | RingBuffer, LfQueue and SendQueue side by side | extends the three |
| `MCServices` | ConfigFile, RealData, DiPoll, Smtp and Modem side by side | extends the five |
| `RecordBus_proofs`, `RingBuffer_proofs`, `SendQueue_proofs`, `LfQueue_proofs`, `UartPoll_proofs` | theorems about one module | each extends its module |
| `InputPages_proofs` | theorems about DiPoll and RealData: the page of the inputs and how it is shared | extends both |
| `Senders_proofs` | theorems about Smtp and Modem: the two dialogues that send an alarm | extends both |
| `Services_proofs` | theorems about ConfigFile, and about the five modules of MCServices side by side | extends MCServices and the two modules above |

**RecordBus.** `free`, `in_use` and `fifo` are the pools' lists and nodes and the
rings; `held` are the C variables `msg`, `alarm_msg` and `tmp_alarm_msg` of each
thread; `pc` is where the thread is; `thread_status` is the flag of its
`thread_t`. `mpool_alloc` is two steps, because the store to `in_use` comes after
the unlock, with other threads in between; `mpool_free` and both ring operations
hold the mutex from their first to their last shared access and are one step.
The four places that raise an alarm (`compare_values`, `record_com_fail`,
`alarm_data_record`, `send_alarm_msg`) have the same sequence of calls: it is
written once, in `AllocAlarm` to `DropTmp`. How many records a pass makes is left
open (`work`, up to `MaxWork`), because that depends on what is measured. `main`
starts the workers in the order of `StartOrder`, may raise the power-fail alarm
at any time, and stops pollers, sms, email and data_write, in this order. The
beep thread uses no block and is left out. `pthread_create` may fail (`CreateFails`): `main`
goes on without that thread, and its join is none. `thread_join` clears the flag once more
before it waits (`JoinClears`). A sending round of the email thread may never end (`Hangs`):
`receive_response` is a loop that a lost or refused connection never lets go. A polling thread without protocols
waits before its loop and returns from there; that is the model's loop with
passes of no record. `mpool_alloc` returning NULL is `PoolEmpty`; what the
callers then do (`continue`, `return`) is the label they go to.

**RingBuffer / BoundedFifo.** The cursors, `size = n + 1` slots and the two
functions with their results. `Contents` is the refinement mapping: the slots
from the read cursor to the write cursor.

**LfQueue.** Every access that another process can notice is a step. A
compare-and-swap loop over a counter is one step, since a failed round leaves
nothing behind. The copy of the data is two steps with `Torn` data in between.
Fresh memory is all zero but for the fields that `lf_queue_init` sets. `Crash`
is the death of the producer: registers are lost, memory stays, and
`lf_queue_init` attaches old memory as it is. The consumer is external: the
repository has `lf_queue_pop` but the agent that calls it is elsewhere. Memory is
sequentially consistent in the model (`next`, `use_flag` are volatile and the
atomic builtins are full barriers; the device has one core).

`AgentQueue` is the same queue without units, flags, ends and counters: a writer that
enters an alarm and announces it, a reader that takes it and gives the place back, and a
death that costs a place (`lost`) or leaves an alarm unannounced (`hidden`). Two of its
guards are exact: an alarm is refused only when no place is left, and the reader finds nothing
only when nothing announced waits. The mapping: the abstract queue is what is linked
beyond what was read; `WriterAt` and `ReaderAt` group the labels of push and pop around the two
steps that matter, the store that links a unit and the copy of the data; `LostPlaces` and
`HiddenElements` are what `w_len` and `r_len` are off by.

**SendQueue.** The rounds of an alarm thread: `Take` is `update_alarm_table` /
`update_alarm_queue` with `update_queue` / `insert_queue`, then one step per slot
for `send_alarm_sms` / `check_alarm_email_queue`. The two threads have the same
code up to names; the order of the decrement and the time stamp differs without
effect. `Decrement` wraps as `unsigned int` does. Any alarm may come at any time:
alarm rings drop messages, and two devices of one protocol on the two ports have
the same keys. Time is abstracted to whether the interval of a slot has passed.
`latest` and `sent` are history variables.

`AlarmBook` is the promise without slots, blocks, indices and wrap: a book with one entry to
an alarm, which a round goes through once. The mapping: `InBook` forgets in which slot an
entry stands, `ToDo` is what stands behind `index`, and a `send_times` of 0, which the next
decrement wraps, is 2^Width sends left (`Left`).

**UartPoll / Frames.** One pass of `rs232_process` over one device (`rs485_thread.c`
is the same code): a request and its outcome are one step (`WriteFails`, `NoAnswer`,
`BadAnswer`, `FirstAnswer`, `GoodAnswer`), then `compare_values` is one step per
parameter, then `DeviceAnswered`; `PassEnds` is `shm_put` and the change flag.
`NextStatus` is the `if` cascade of `compare_values` with its three kinds of value and
its optional release values; `last` is `last_param_value`, `page` and `cnt` the
`realdata` of the device, and `param_cnt` the index that is moved on some paths and
not on others. Whether an allocation finds a block is a free choice: it is made
where RecordBus has `PoolEmpty`. `Frames` gives the results that a line can produce;
`AnswerToOther` is a good frame that answers another request. `ChangeLimits` is the
handler of the web page together with the reload that brings the flag. `QueryLimits` is the
query of `update_alarm_param`: nobody looks at its result, and a refused one - a CGI program
holds the database - leaves the limits as they are while the flag is cleared.

**ConfigFile.** Each CGI process parses `param.ini` once, changes its own copy and
writes all of it; snmp_app does the same for the change flags. `dump_profile` is two
steps, because `fopen` empties the file. `preference_reload` is three (free, load,
stat). One key stands for the settings that only CGI processes write, one for the
change flag of a port. A request that changes table "parameter" works row by row
through `execute_no_query`, where "begin" and "commit" may be refused by SQLite's
locks and nobody looks; the thread's own reading of the table may be refused as well
(`TableRead`). `overlap` is a history variable: it becomes TRUE in the windows
that the code leaves open. What the code promises - and what `KeptWithoutOverlap` and
`ChangeArrives` claim - is that nothing is lost outside these windows. What is lost inside them,
against what a web page says, is shown by the run config_setting.

**RealData.** `semaphore_create`, `get_shm` and the memset of a new segment are separate
steps of each process (thread or CGI program); put and get hold the semaphore and copy
element by element. `Undo` is SEM_UNDO. `Kill` is the web server killing a CGI process,
`AppDies` the death and restart of snmp_app; semaphore and segment stay. `Beep` is a
round of `beep_process`; `Drive` is its write to the output, which may be refused while
`last_value` is set all the same (`unset` remembers it); the pages of the two serial ports are the input `uart_alarm`.

**DiPoll.** A pass of `di_process` is one step, since no other thread writes what it
reads; each input may or may not find the block for its record and the blocks for its
alarm. `update_di_param` is the query of the levels, at the start and in a pass with the flag
set; refused, it leaves the levels of before (0 at the start), and the flag is cleared all the
same: `missed` says so until a query succeeds. `PassEnds` is the change flag. `Restart` forgets
the latches.

**Smtp.** The states of the client are those of `smtp.c`: `cmd` walks through
`command_list`, `recv_buf` is what the last `recv` left. The connection is a stream
of tokens that `recv` takes in any pieces, so an answer may come in two reads and two answers
in one. A connection that is refused becomes writeable like one that is made, and
`socket_check_writeable` does not ask for the error: `Connect` then goes on to the first answer with
nobody at the other end. The SSL and the plain variants of `receive_data` differ in what a time-out
leaves in the buffer; so do the two branches of `Timeout`, and of `EndOfStream` (an error of `recv` keeps the old buffer,
an end empties it). The server may accept or
refuse each command, answer late, and close.

**Modem.** `step` and `asked` are where `send_to_contact` is between writing a command
and reading for it; a read empties the line whatever is on it. `pdu_flag` is the static
variable of `modem.c`. The modem is external: it deals with its commands in order, with
or without success, and at any time, so that an answer may be on the line for the next
read.

**MCServices, MCQueues.** The five modules from ConfigFile to Modem share no variable with each
other. `MCServices` extends all five - so their initial states, next-state relations and
specifications carry the name of the component (`ConfigInit`, `DataNext`, `SmtpSpec`, ...) -
and one run checks them side by side: `service` says which of them runs, the others
stay at their initial state. So a behaviour of the run is a behaviour of one component,
and the states of the run are the sum, not the product, of theirs; the fairness of a
component is asked for only when it is the one that runs. `MCQueues` does the same, with `used`, for
RingBuffer, LfQueue and SendQueue; `ListAtBound` is the end of the list's bounded pushes, so that any
other stop is a deadlock.

<a name="3-runs"></a>
## 3. What the model checker shows

| run | configuration | bounds | properties |
|---|---|---|---|
| records_safety | `RecordBus_safety.cfg` | 1 poller, 2 msg blocks and a data ring of 2, 3 alarm blocks and alarm rings of 1, `MaxWork` 1; 525 991 states with symmetry | TypeOK, BlockOwnership, NoBlockLost, FreeNeverRefused, DataRingHasRoom, NoUseAfterDestroy, WriterLeavesNothing |
| records_live | `RecordBus_live.cfg` | no poller (main raises alarms, notifiers make records), 2 msg blocks and a data ring of 1, 2 alarm blocks, no symmetry; 167 664 states | RecordsDrain, AlarmsDrain |
| records_reboot | `RecordBus_reboot.cfg` | 1 poller, 1 msg block, 2 alarm blocks, rings of 1, no symmetry; 309 644 states | RebootCompletes |
| queues | `Queues.cfg` | ring: 3 elements, n = 3; list: capacity 2, 6 pushes, 2 crashes; alarms: 3 keys, 2 slots, `send_times` 1 or 2, counters of 2 bits; 31 927 states | TypeOK; ImplementsFifo (RingBuffer); PopsInOrder, FreeUnitFound, CrashCostsOne, PushEnded, AcceptedIsRead, ImplementsAgentQueue (LfQueue); PendingIsLatest, PoolMatchesQueue, NothingUnsent, SentAsAsked, EntryEnds, ImplementsBook (SendQueue) |
| uart_poll | `UartPoll.cfg` | three devices: one of two requests of one parameter, one of one request with both types of parameter, one of one analog parameter; readings 0 to 2; 993 367 states | TypeOK, AlarmsMatchLatch, PageShowsDevice, LimitsAreCurrent, StatusFollowsReading |
| services | `Services.cfg` | 2 requests, 2 rows; pages of 2 inputs, 1 CGI reader; 2 receivers, 3 sets of keywords; 2 contacts, 2 commands under way; one power loss, one death, one restart; 295 866 states | TypeOK, KeptWithoutOverlap, ChangeArrives (ConfigFile); WholeCopies, BeepFollows (RealData); DiAlarmsMatch (DiPoll); MailAccepted, MailEnds (Smtp); SmsResult (Modem) |
| records_start, records_clear, lf_queue_readers, send_queue_times, uart_late, config_setting | | | one property each, violated: section 5 |

Why these bounds are enough to be interesting. *records*: with three alarm blocks
an alarm can find both, one or none; with alarm rings of one each of the four
combinations of full and not full occurs; two message blocks let the pool run
empty while a record waits; the ring and the pool of equal size are the 32 and 32
of `main`, and records_live has the ring smaller than the pool, so that pushes are
refused (that the blocks stay where they belong then too is a theorem, for all sizes).
records_reboot has a poller to stop in the middle of a record or an alarm, a pool that one record
empties, rings that one element fills, and every worker missing or hung that may be. More of each adds no new path, and the theorems cover all sizes.
*queues*, the list: units are reused from the third push on, and both deaths may leave
the list, the counters and `p_tail` in any intermediate state; the same
properties were found to hold with capacity 3, 8 pushes and 3 deaths (522 817 states).
The alarms: three keys for two slots make refusals happen; a counter of two bits wraps
within a few steps. *uart_poll*: readings lie below, at and above each limit, with and
without release value and with both sides at once; two requests are needed for
a page that moves, a change of limits in the middle of a pass, and an answer that is
late for its request. *services*: two requests can meet each other, the reload and the
polling thread in each window, and a request of two rows can fail between them; two elements
make half a page; two receivers let one be refused after one was accepted; the three sets
of keywords lead to LOGIN, to STARTTLS and PLAIN, and to no authentication; two contacts
let the end of one message disturb the next; with two commands under way an
answer can be one command late.

`CONSTRAINT BeforeOverlap` in `Services.cfg` stops ConfigFile at the first overlap:
`KeptWithoutOverlap` and `ChangeArrives` claim nothing behind it, so nothing that they
speak of is cut off.

Fairness. `records_live` and `records_reboot` assume weak fairness of each thread: the kernel
schedules a runnable thread and each mutex is held for a few instructions only. The email thread
may leave the fair part at any round with something to send (`Hangs`), for good: no
mail is assumed to end. Nothing prevents it from hanging in the first one.
Nothing makes the supply fail, a reboot be asked for, or a sensor change. In
`queues` a producer goes on with a push it has begun (until it is killed) and
the agent polls; the alarm thread goes round - the email thread does as long as its mails end, which is
`MailEnds` -, alarms may or may not
come, and an interval that has begun passes. In `services`: a CGI request that was sent
and the threads of snmp_app are scheduled; those who wait for a System V semaphore are served
in turn, which is strong fairness of `semaphore_p`; the mail client runs and a server
that keeps the connection answers. No user, no power loss, no killed process and no
modem is made to act.

`RebootCompletes` has a condition and an exception. The condition: the notifiers come to have
nothing more to send, or hang. Without it the property fails, and the code allows it: the
notifier that is joined first empties the data ring while the other still fills it. The
exception, `JoinHangs`: main waits for an email thread in a dialogue that never ends. `AlarmsDrain`
is claimed of a ring whose thread is in its loop: not of an email thread that hangs, or of a thread
that was never made or has returned. `RecordsDrain` needs only data_write.
`AcceptedIsRead` is claimed up to the first death of a producer. After one, an
element may be linked that `r_len` does not count, and the last element waits for
the next push, or a place of the queue is gone; `CrashCostsOne` says that each death has
one of the two costs and nothing else has any, and `PopsInOrder` and `ImplementsAgentQueue`
hold all the same.
`MailEnds` is claimed unless the connection is refused or closed by the server, or a final line
comes in two pieces, and `BeepFollows` unless the creator of the semaphore died before it gave
it a value (`Stuck`): in these cases the code waits for ever (section 5). `BeepFollows` also
excuses an output whose last write was refused. `LimitsAreCurrent` and the levels of
`DiAlarmsMatch` are claimed unless a change came behind the pass that reads it or the query was
refused, until a later query is answered; `SmsResult` speaks of results only while no
answer was late. The model of the queue to the agent begins with memory that `lf_queue_init` has finished. `PageShowsDevice`
is claimed of a pass in which every request was written, every property had answered before
and every block was found; in the others the entries move forward in the page. `DiAlarmsMatch` excuses the
inputs whose alarm was left behind by a restart.

Each property has a mutant of the code (PROJECT.json, "mutants"; the operators
marked `Mutant:` in the modules) that the run of the property detects.

<a name="4-proofs"></a>
## 4. What is proved

| module | theorems | for any |
|---|---|---|
| `RecordBus_proofs` | TypeCorrect, BlocksOwned, BlocksKept, FreeAccepted, RoomInDataRing, NothingUsedAfterDestroy, NothingLeftByWriter: every safety property of records_safety | pollers, finite pools, ring sizes, `MaxWork` |
| `RingBuffer_proofs` | TypeCorrect, RingBufferIsFifo | size n |
| `SendQueue_proofs` | TypeCorrect, EntriesAreLatest, PoolIsQueue, AllSentInRound, CountsComplete, QueueIsBook: every safety property of the queue of alarms, and the refinement | keys, slots, width of the counter, numbers of sends |
| `LfQueue_proofs` | LfTypeCorrect, PoppedInOrder, CountedAreLinked, FreeUnitIsFound, CrashesCostOneEach, SharedMemoryIsAgentQueue: every safety property of the list, and the refinement | capacity, number of pushes, number of crashes; one process on each side |
| `UartPoll_proofs` | UartTypeCorrect, LatchesMatch, StatusFollows, PageIsShown, LimitsReachTheThread: every property of uart_poll | devices, their requests and parameters, readings, integer limits |
| `InputPages_proofs` | DataTypeCorrect, MutualExclusion, ReadsWholeCopies (RealData); DiTypeCorrect, AlarmsMatch (DiPoll) | elements of a page, pages, CGI processes; inputs, levels |
| `Senders_proofs` | ModemTypeCorrect, SmsRecords (Modem); SmtpTypeCorrect, MailTaken (Smtp) | contacts, commands under way; receivers |
| `Services_proofs` | TypeCorrect, NothingLost (ConfigFile); ServicesTypeCorrect (the five together) | requests, rows; and all that the two rows above are for |

Assumptions are those each module names: distinct thread names, a start order that lists
each worker once, disjoint finite pools (RecordBus); a size (RingBuffer); at least one slot
and numbers of sends that the counter can hold (SendQueue); integer readings and limits and
requests with at least one parameter (UartPoll); a capacity, and nobody who is both
producer and consumer (LfQueue); names that differ (ConfigFile, RealData); at least one
element, input, receiver, contact (RealData, DiPoll, Smtp, Modem). Each is an ASSUME of its
module, and TLC evaluates it in the run of that module. The theorems about LfQueue have one
hypothesis more, `OneEach`: one producer and one consumer. In the product the email thread of
snmp_app is the only caller of `lf_queue_push` (`email_alarm_thread.c:334`), the queue is made for
one SNMP agent, and with a second reader the promise is broken (run lf_queue_readers). A producer
that starts again after a crash is the same process of the model.

Each inductive invariant was given to TLC as an invariant, on instances like those of section 3,
before it was proved; that of LfQueue, which asks for positions among all integers, with
the positions of one round, since only their remainders and their order count.

**RecordBus.** None of the properties is inductive by itself. `IInv` adds to the types:
- *Ownership*: each block is at exactly one of free list, ring, variable
  (`BlockOwnership` and `NoBlockLost` together), and at a place of its own kind
  (`Kinds`: message blocks in the message pool and the data ring, alarm blocks in
  the alarm pool and the alarm rings);
- *HeldAt*: for each label, exactly which variables hold a block;
- *Marked*: `in_use` is 0 on the free list and 1 in a ring, and 1 in a variable except
  between an allocation's unlock and its store - this is why free never refuses;
- *Starting* and *Joined*: which workers have been created at each position of
  main, and that a group main has joined is done.

The proof has one lemma for each way a block moves (`...Moves`: Ownership is
kept whatever the label), one for each label that changes with it, then one
per action. `DataRingHasRoom` is a counting argument: a ring that is full of
distinct message blocks leaves none for the thread that is about to push.

**RingBuffer.** The refinement: every step of the cursors is a step of the abstract
queue, for every n.

**SendQueue.** `IInv` says of each entry what it tells (`Told`), what it has left
(`Raises`: the sends made and the sends left are together the sends asked for;
`Discards`: one left), that a time stamp means a send (`Timed`), that a key has one entry
(`OneEach`), and that in a round the slots behind `index` have been sent (`Progress`).
`PoolMatchesQueue` is what makes an alarm that has a block find a slot.

The refinement of the book rests on `IInv` and on one invariant more, `NewOnly`: a `send_times`
of 0 is there only until the next send. Without it an entry could reach 0 by counting down and
the mapping would make 2^Width of it. `RoomIsFree` is the counting argument - keys in the
book and used slots are as many, because a key has one slot - by which "no block in the
pool" is "no room in the book". `Enters`, `Strikes` and `BookStays` are the three things that
can happen to the book, whatever slot they happen in.

**UartPoll.** `Hysteresis` is the heart: for all integers and any ordered limits
`NextStatus` is the latch between the first value of an alarm and the last value of none,
on both sides at once, and settles after one more evaluation. The code compares with four
different operators, according to the type and to whether there is a release value;
`UpBounds` and `LowBounds` translate each into one integer. `AlarmsMatchLatch` is
inductive with the shapes of the lists (`Lists`, `Comparing`) and with `Counted`: the
counter of failures is only positive while the device is silent.

The page and the limits have an invariant of their own on top of it, `PageIInv`. `PageFilled`
says that in a clean pass the first `Filled` entries are, one to one, those of the parameters the
pass is done with; `PageCounted` that there are as many as parameters of the requests behind
the pass, and no more in any other pass. The sum over the requests of a device that this is
about is the cardinality of a set (`Before`), so that a step adds the cardinality
of one request (`CountBefore`) and no induction over the requests is needed. `Appends` is the
one lemma behind all steps that write the page. `LimitsRead` strengthens `LimitsAreCurrent`:
a pass that reads the limits has those of the table, but for what was changed behind it and for
the properties whose query was refused (`missed`). Its end clears the flag whatever it has
read, and loses these two and nothing else.

**LfQueue.** `LfIInv` gives every element a position, an integer that grows with the list; its
unit is the position modulo the number of units, because `lf_queue_push` looks for a free unit in
turn. What the invariant says, of some positions: the elements not yet freed lie within one
round of the units (`InOrder`), so that no unit is in the list twice; a unit passed over is in the
list or `gone`, leaked by a producer that died with it (`Accounted`, `Flags`); `w_len` counts all
of them, which is why a free unit is there when `w_len` allows a push (`Counted`); `next` leads along the
list and the data are whole (`Linked`); `p_tail` may lag behind a dead producer, but never behind
what the reader was promised (`Ends`); and what the local variables of the two processes hold at each
label (`PushState`, `PopState`). The step that links a unit gives it the
next position; a crash puts the unit that was held into `gone`. A crash is one in a push; `lf_queue_init` is not
interrupted.

`FreeUnitFound` follows by counting (`FewInUse`): the units of the list and those gone are
fewer than all units while a push is begun that holds none. `CrashCostsOne` is about two
conserved numbers, `Lost` and `Hidden`: what `w_len` counts beside the elements that wait and the
units that push and pop hold, and what waits beside those that `r_len` counts or pop has been
promised. No step of push and pop changes either (lemmas `...Effect`); a death adds one to one of
them (`CostsOne`); `Census` says that they are the numbers of the property. The refinement is
proved action by action: `Mapped` puts the mapping in terms of these numbers and of the
elements of `linked`, `CountersMapped` shows that the tests `w_len < max_unit_num` and `r_len > 0`
are the two guards of AgentQueue, and `UnitIsOffered` that the unit linked is the message
offered last. All steps but seven are stutters (`SameRefines`).

**DiPoll.** `DiAlarmsMatch` is inductive together with `FlagWasSeen`: when a pass is over and
its flag is about to be cleared, the levels are those of the table, or a change came behind the
pass, or its query was refused.

**RealData.** `Exclusion` ties the semaphore to who is inside and to its
creator, `Attached` says who has a segment, and `Contents` how far a page has come into the
segment and the segment to a reader, element by element. Each operation keeps the
three in turn; a death inside a put breaks `Contents`, and `spoilt` says so until the next put.

**Modem.** `Dialogue` says that, as long as no answer was late, one command is under way at a
time, and what the line then holds; `FlagOfMessage` that the static flag is set
between the conversion of a message and its end; `Records` what is known of the contacts before,
at and behind the one in turn.

**MCServices.** A step of the composition is a step of one component and changes nothing of
the others (`StepOfOne`), so the five inductive invariants hold together and with them the types
(`ServicesTypeCorrect`). What is proved of each component's own specification holds of the
composition for the same reason.

**ConfigFile.** `NothingLost` states `KeptWithoutOverlap`. As long as there was no overlap,
`RowsKept` says that an updated row is in the table or in a transaction still open; `IpKept`
that the file and each copy that is not behind it have the setting asked for last; `FlagKept`
that, while a change of the table waits and no request is about to set the flag, the flag is
set in the file and in each copy the file could be written from. A query of the thread that is
refused while rows wait is an overlap. A copy that is behind may hold
anything: writing it is an overlap. `Handling` ties a request to its place in the handler.

**Smtp.** `MailAccepted` needs to know what is between client and server. As long as no answer
was late one command is under way and the line holds what has not been read of its answer
(`InStep`), and the server has taken what the client has left behind (`TookBefore`). When one was
late the client is ahead of the server by an answer, for the rest of the mail; `Ahead` says at
which commands that can be without an end of the dialogue, and why the final dot is still sent only to a
server that took sender and content: the answer to DATA differs from all others and comes after
them (`DataIsLast`). With an answer cut in two besides, nothing but the types is claimed.

Only model-checked. Liveness, because fairness and ENABLED are outside the prover's reach:
RecordsDrain, AlarmsDrain, RebootCompletes, PushEnded, AcceptedIsRead, EntryEnds, ChangeArrives,
BeepFollows and MailEnds. Every other property of the passing runs, invariant, action property or
refinement, is a theorem.

<a name="5-findings"></a>
## 5. Where code and documentation disagree

1. `thread_process.c:34` sets `thread_status` after `pthread_create`; a worker
   that runs first ends at once, and `ctrl.c:752` logs "All threads running"
   (run records_start).
2. `email_alarm_thread.c:355`, `sms_alarm_thread.c:355` clear the ring of database
   records where the comment on `clear_ring_buffer` speaks of the alarm ring: records
   not yet stored are discarded at a reboot (run records_clear). That is also why
   `WriterLeavesNothing` says "the ring is empty", not "all was stored".
3. `lf_queue.c:2` offers the queue for several readers; `lf_queue_pop` reads
   `next` again after its compare-and-swap (run lf_queue_readers). As snmp_app
   uses it, with one reader and one writer, all properties hold.
4. An alarm raised again while its entry waits to be repeated gets
   `send_times` 0, which wraps: it is sent every interval until it is discarded,
   where the page offers one to three times (run send_queue_times).
5. `external_io_860.c:286` says that address and command of an answer are checked; a frame
   is refused only when both are wrong, and so the late answer to the other request of the
   device is compared as the answer to this one (run uart_late). The other protocols
   accept one matching byte of two in the same way, of the check code too
   (`environment_k25.c:114`).
6. `param_setting_network.html:172` reports a setting as set; `preference.c:241` (and any other
   request that had parsed the file before) then writes its own, older copy over the whole file,
   and the setting is gone (run config_setting).

Behaviour met while modelling that no run is spent on, and that the properties are worded
around:

- `smtp.c:255`: `select` reports a refused connection as writeable and nobody asks for the error:
  the dialogue begins without a server and never ends.
- `rs232_thread.c:557`, `di_thread.c:211`: a refused query is not noticed, and the flag that asked for it
  is cleared.
- `cgi_common/db_access.c:49`: the result of "commit" is not looked at; the rows of a refused one are rolled
  back at the end of a request that has reported success (`alarm_param_manage.html:294`).
- `beep_thread.c:135`: a refused write to the output is not noticed, and not repeated until the
  alarms change.
- `lf_queue.c:111`: a process killed inside `lf_queue_init` leaves memory that is never completed, for
  example with no places at all; this death is not modelled.
- `smtp.c:540`: at the end of the stream, and after a final line that came in two pieces,
  `receive_response` never returns. `smtp.c:596`: `m_connected` is set only when EHLO is
  refused, so QUIT is not sent and the socket stays open after each mail.
- `modem.c`: in the second part of a long text the result of `send_sms` is not looked
  at (its contact is recorded as reached), and the place where the rest is looked for lies behind
  the end of the text.
- `semaphore.c:65`: a creator that dies between `semget` and SETVAL leaves a semaphore of
  value 0, for which all others wait.
- `di_thread.c:313`: a restart forgets the latches; an input that left its level meanwhile
  is not discarded.
- `preference.c:376`: `reload` frees the dictionary before it takes the lock, which the setters
  do not take.

<a name="6-plan"></a>
## 6. What is not modelled, and the plan

Not modelled, with the reason:

- third-party code: `sqlite3.h` (twice), cJSON (twice), iniparser and dictionary, together
  more than half of the lines counted as the implementation. They are used, not written,
  here, so a map of this project cannot cover them;
- the query handlers of `cgi_common/main.c`, which read one database or page and format the
  answer, and its other setters, which do with other keys what the two modelled ones do;
- `cgi_update` (an upload is one pass over a request body and shares no state), logging,
  `debug.c`, `utils.c` (output only), the web pages;
- `src/modules` and the `test.c` programs: older copies, not part of snmp_app; the protocol
  `k20`, which is not registered;
- the recovery of the default configuration, the watchdog and the supply switch of
  `ctrl.c`; deleting old rows in `data_write_thread.c`;
- a death inside `lf_queue_init` (the queue then refuses every push);
- the text of records, messages and mails, which is abstracted away in all modules, and the decoding
  of values inside a frame.

What could come next: UartPoll with two devices of one protocol on the two ports, whose alarms
have the same keys, composed with SendQueue; the safety half of the liveness properties (a measure that every step of
a push, a round or a stop decreases); the configuration recovery of `ctrl.c`; `lf_queue_init` step by step.
