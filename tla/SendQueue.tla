----------------------------- MODULE SendQueue -----------------------------
(***************************************************************************)
(* The queue of alarms that an alarm thread has still to send:             *)
(* app/sms_alarm_thread.c and, the same code, app/email_alarm_thread.c.    *)
(* One round of the thread takes at most one alarm from its ring, then     *)
(* goes over the queue and sends what is new or due again.                 *)
(*                                                                         *)
(* An alarm is a key (protocol_id, param_id) and a type.  Any alarm may    *)
(* come at any time: the ring drops alarms when it is full, and two        *)
(* devices of one protocol, one on each port, have the same keys.  Time is *)
(* what becomes of an entry's last_send_timing: "never", "recent", "due".  *)
(***************************************************************************)
EXTENDS Integers, FiniteSets

CONSTANTS
    Keys,
    MAX_QUEUE_NUMBER,   \* slots of the queue, and blocks of local_mpool (16)
    SendTimes,          \* the values send_times has in the configuration (1 to 3)
    Width               \* send_times is an unsigned int: 32 bits

ASSUME SendAssumption ==
    /\ MAX_QUEUE_NUMBER \in Nat \ {0} /\ Width \in Nat \ {0}
    /\ SendTimes \subseteq 1..(2^Width - 1)

Slots == 1..MAX_QUEUE_NUMBER
Types == {"RAISE", "DISCARD"}

VARIABLES
    queue,        \* the message of each slot: its key, its type and the sends it has left
    timing,       \* last_send_timing of each slot
    free,         \* blocks of the local pool not in use
    at, index,    \* taking an alarm, or at a slot of the queue
    latest,       \* the type of the last alarm taken for each key
    sent          \* of each slot: sends since it was written, sends asked for, written over?

sendVars == <<queue, timing, free, at, index, latest, sent>>

Message == [key : Keys, type : Types, send_times : 0..(2^Width - 1)]
NoMessage == [key |-> "none", type |-> "none", send_times |-> 0]     \* NULL
Count0 == [times |-> 0, asked |-> 0, again |-> FALSE]

Used == {i \in Slots : queue[i] # NoMessage}
SlotsOf(key) == {i \in Used : queue[i].key = key}
IsFirst(i, S) == i \in S /\ \A j \in S : i <= j

\* Mutant: as if send_times were signed.
DecrementSigned(n) == n - 1

Decrement(n) == (n - 1) % 2^Width

SendInit ==
    /\ queue = [i \in Slots |-> NoMessage]
    /\ timing = [i \in Slots |-> "never"]
    /\ free = MAX_QUEUE_NUMBER
    /\ at = "take" /\ index = 1
    /\ latest = [key \in Keys |-> "none"]
    /\ sent = [i \in Slots |-> Count0]

GoSend == at' = "send" /\ index' = 1

(***************************************************************************)
(* update_alarm_table (sms), update_alarm_queue (email)                    *)
(***************************************************************************)
\* Mutant: an entry that is already there keeps its place in time.
OverwriteLater(key, type) ==
    \E i \in Slots :
        /\ IsFirst(i, SlotsOf(key))
        /\ queue' = [queue EXCEPT ![i] = [key |-> key, type |-> type,
                                          send_times |-> IF type = "DISCARD" THEN 1 ELSE 0]]
        /\ sent' = [sent EXCEPT ![i] = [@ EXCEPT !.times = 0, !.again = TRUE]]
        /\ UNCHANGED <<timing, free>>

\* Mutant: the sends the entry had left stay.
OverwriteType(key, type) ==
    \E i \in Slots :
        /\ IsFirst(i, SlotsOf(key))
        /\ queue' = [queue EXCEPT ![i].type = type,
                                  ![i].send_times = IF type = "DISCARD" THEN 1 ELSE @]
        /\ timing' = [timing EXCEPT ![i] = "never"]
        /\ sent' = [sent EXCEPT ![i] = [@ EXCEPT !.times = 0, !.again = TRUE]]
        /\ UNCHANGED free

\* memcpy over the entry of this key: a message from the ring has send_times 0.
Overwrite(key, type) ==
    \E i \in Slots :
        /\ IsFirst(i, SlotsOf(key))
        /\ queue' = [queue EXCEPT ![i] = [key |-> key, type |-> type,
                                          send_times |-> IF type = "DISCARD" THEN 1 ELSE 0]]
        /\ timing' = [timing EXCEPT ![i] = "never"]
        /\ sent' = [sent EXCEPT ![i] = [@ EXCEPT !.times = 0, !.again = TRUE]]
        /\ UNCHANGED free

\* Mutant: nobody looks for an entry of the key.
InsertAlways(key, type) ==
    /\ free > 0
    /\ free' = free - 1
    /\ \E i \in Slots, asked \in SendTimes :
          /\ IsFirst(i, Slots \ Used)
          /\ queue' = [queue EXCEPT ![i] = [key |-> key, type |-> type,
                           send_times |-> IF type = "DISCARD" THEN 1 ELSE asked]]
          /\ timing' = [timing EXCEPT ![i] = "never"]
          /\ sent' = [sent EXCEPT ![i] = [Count0 EXCEPT !.asked = asked]]

\* A new entry, in the first empty slot, with the send_times the thread has just read.
Insert(key, type) ==
    /\ SlotsOf(key) = {} /\ free > 0
    /\ free' = free - 1
    /\ \E i \in Slots, asked \in SendTimes :
          /\ IsFirst(i, Slots \ Used)
          /\ queue' = [queue EXCEPT ![i] = [key |-> key, type |-> type,
                           send_times |-> IF type = "DISCARD" THEN 1 ELSE asked]]
          /\ timing' = [timing EXCEPT ![i] = "never"]
          /\ sent' = [sent EXCEPT ![i] = [Count0 EXCEPT !.asked = asked]]

\* "memory pool is empty": the alarm is not sent at all.
Refuse(key) ==
    /\ SlotsOf(key) = {} /\ free = 0
    /\ UNCHANGED <<queue, timing, free, sent>>

Take(key, type) ==
    /\ at = "take"
    /\ Overwrite(key, type) \/ Insert(key, type) \/ Refuse(key)
    /\ latest' = [latest EXCEPT ![key] = type]
    /\ GoSend

TakeNothing ==
    /\ at = "take" /\ GoSend
    /\ UNCHANGED <<queue, timing, free, latest, sent>>

(***************************************************************************)
(* send_alarm_sms, check_alarm_email_queue: one slot                       *)
(***************************************************************************)
\* Mutant: the last slot is never reached.
NextSlotShort ==
    IF index + 1 < MAX_QUEUE_NUMBER THEN index' = index + 1 /\ UNCHANGED at
                                    ELSE index' = 1 /\ at' = "take"

NextSlot ==
    IF index < MAX_QUEUE_NUMBER THEN index' = index + 1 /\ UNCHANGED at
                                ELSE index' = 1 /\ at' = "take"

\* A slot's entry leaves, and its block is freed, when nothing is left of its send_times.
Leave(i, left) ==
    /\ queue' = [queue EXCEPT ![i] = IF left = 0 THEN NoMessage
                                                 ELSE [@ EXCEPT !.send_times = left]]
    /\ free' = IF left = 0 THEN free + 1 ELSE free

\* What a send leaves behind.  Sends are counted up to the first one too many.
Sent(i) ==
    /\ timing' = [timing EXCEPT ![i] = "recent"]
    /\ sent' = [sent EXCEPT ![i].times = IF @ > sent[i].asked THEN @ ELSE @ + 1]

Sendable(i) == i \in Used /\ timing[i] # "recent"

\* Mutant: the count is tested before it is decremented.
SendOnceMore ==
    /\ at = "send" /\ Sendable(index)
    /\ IF queue[index].send_times = 0
       THEN Leave(index, 0)
       ELSE queue' = [queue EXCEPT ![index].send_times = @ - 1] /\ UNCHANGED free
    /\ Sent(index) /\ NextSlot /\ UNCHANGED latest

\* Mutant: the entry is forgotten, its block is not freed.
SendAndLeak ==
    /\ at = "send" /\ Sendable(index)
    /\ queue' = [queue EXCEPT ![index] = IF @.send_times = 1 THEN NoMessage
                                 ELSE [@ EXCEPT !.send_times = Decrement(@)]]
    /\ Sent(index) /\ NextSlot /\ UNCHANGED <<free, latest>>

\* A new entry, or one whose interval has passed, is sent to every contact.
SendSlot ==
    /\ at = "send" /\ Sendable(index)
    /\ Leave(index, Decrement(queue[index].send_times))
    /\ Sent(index) /\ NextSlot /\ UNCHANGED latest

WaitSlot ==
    /\ at = "send" /\ index \in Used /\ ~Sendable(index)
    /\ Leave(index, queue[index].send_times)
    /\ NextSlot /\ UNCHANGED <<timing, latest, sent>>

EmptySlot ==
    /\ at = "send" /\ index \notin Used
    /\ NextSlot /\ UNCHANGED <<queue, timing, free, latest, sent>>

\* send_interval * 5 minutes have passed since the slot was last sent.
TimePasses(i) ==
    /\ i \in Used /\ timing[i] = "recent"
    /\ timing' = [timing EXCEPT ![i] = "due"]
    /\ UNCHANGED <<queue, free, at, index, latest, sent>>

Round == TakeNothing \/ SendSlot \/ WaitSlot \/ EmptySlot
Alarm == \E key \in Keys, type \in Types : Take(key, type)
SendNext  == Round \/ Alarm \/ \E i \in Slots : TimePasses(i)

SendSpec == SendInit /\ [][SendNext]_sendVars

----------------------------------------------------------------------------
\* Types of the variables.
SendTypeOK ==
    /\ queue \in [Slots -> Message \cup {NoMessage}]
    /\ timing \in [Slots -> {"never", "recent", "due"}]
    /\ free \in 0..MAX_QUEUE_NUMBER
    /\ at \in {"take", "send"} /\ index \in Slots
    /\ latest \in [Keys -> Types \cup {"none"}]
    /\ sent \in [Slots -> [times : Nat, asked : SendTimes \cup {0}, again : BOOLEAN]]

\* What a contact is told of a parameter is never out of date: a key has one entry, and
\* it says what the last alarm taken for that key said - no RAISE is sent after its
\* DISCARD, although slots are reused and alarms are refused in between.
PendingIsLatest ==
    \A i \in Used : /\ queue[i].type = latest[queue[i].key]
                    /\ SlotsOf(queue[i].key) = {i}

\* The local pool has exactly one block for each empty slot: update_queue, which says
\* nothing when it finds no empty slot, always finds one for the block it was given.
PoolMatchesQueue == free = Cardinality(Slots \ Used)

\* When the thread turns to its ring again every entry has been sent since it was last
\* written: an alarm that is taken is sent in the same round, before its successor can
\* overwrite it.
NothingUnsent == at = "take" => \A i \in Used : sent[i].times > 0

\* An entry leaves the queue with the send that makes its count complete: a DISCARD with
\* the first, a RAISE - unless another was written over it - with the last it asked for.
SentAsAsked ==
    \A i \in Used :
        /\ queue[i].type = "DISCARD" => sent[i].times = 0
        /\ queue[i].type = "RAISE" /\ ~sent[i].again => sent[i].times < sent[i].asked

\* An entry leaves the queue, or is written over: its slot is not lost to it for ever.  For
\* the email thread only as long as its rounds end: MailEnds of Smtp says when a mail does not.
EntryEnds ==
    \A i \in Slots : (i \in Used /\ ~sent[i].again) ~> (i \notin Used \/ sent[i].again)

\* Slots, blocks, the search for a slot and the wrap of send_times implement a book with one
\* entry to an alarm (AlarmBook): send_times 0, which wraps, is 2^Width sends left.
Left(i) == IF queue[i].send_times = 0 THEN 2^Width ELSE queue[i].send_times

SlotOf(key) == CHOOSE i \in Used : queue[i].key = key
KeysIn(S)   == {queue[i].key : i \in S}
InBook      == [key \in KeysIn(Used) |-> [type   |-> queue[SlotOf(key)].type,
                                         left   |-> Left(SlotOf(key)),
                                         timing |-> timing[SlotOf(key)]]]
ToDo        == IF at = "send" THEN KeysIn({i \in Used : i >= index}) ELSE {}

Book == INSTANCE AlarmBook WITH
            Capacity <- MAX_QUEUE_NUMBER, Again <- 2^Width, book <- InBook, todo <- ToDo

\* The thread keeps the promise of the book: an alarm is refused only when as many others
\* wait as there are slots, no alarm is taken before the round has looked at every entry,
\* and an entry is sent, in each round in which it is new or due, until its last send.
ImplementsBook == Book!Spec

\* www/alarm_sms_contact.html offers one, two or three as the number of times an alarm
\* SMS is sent: no alarm is sent more often.
NeverMoreThanAsked ==
    \A i \in Used : queue[i].type = "RAISE" => sent[i].times <= sent[i].asked
=============================================================================
