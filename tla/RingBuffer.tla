----------------------------- MODULE RingBuffer -----------------------------
(***************************************************************************)
(* app/ring_buffer.c: an array of size = n + 1 slots and two cursors.      *)
(* Push and pop each run under the mutex from their first to their last    *)
(* access, so each is one step whatever the threads.                       *)
(***************************************************************************)
EXTENDS Integers, Sequences

CONSTANTS
    Data,        \* the pointers that are pushed, all of them non-null
    NoData,      \* NULL, and what calloc leaves in the slots
    n            \* the argument of ring_buffer_create

ASSUME RingAssumption == n \in Nat /\ NoData \notin Data

VARIABLES element, read_cursor, write_cursor,
          last   \* the last call: what it was, what it returned, the element it gave

ringVars == <<element, read_cursor, write_cursor, last>>

size  == n + 1
Cells == 0..n
Call(op, ret, d) == [op |-> op, ret |-> ret, data |-> d]

RingInit ==
    /\ element = [i \in Cells |-> NoData]
    /\ read_cursor = 0 /\ write_cursor = 0
    /\ last = Call("create", 0, NoData)

\* Mutant: the cursor is not wrapped.
Ahead(cursor) == cursor + 1

After(cursor) == (cursor + 1) % size

ring_buffer_push(d) ==
    IF After(write_cursor) # read_cursor
    THEN /\ element' = [element EXCEPT ![write_cursor] = d]
         /\ write_cursor' = After(write_cursor)
         /\ last' = Call("push", 0, d)
         /\ UNCHANGED read_cursor
    ELSE /\ last' = Call("push", -1, d)
         /\ UNCHANGED <<element, read_cursor, write_cursor>>

\* Mutant: a full ring is taken for an empty one.
PopNothingAtTheEnd ==
    IF After(read_cursor) # write_cursor
    THEN /\ last' = Call("pop", 0, element[read_cursor])
         /\ read_cursor' = After(read_cursor)
         /\ UNCHANGED <<element, write_cursor>>
    ELSE /\ last' = Call("pop", -1, NoData)
         /\ UNCHANGED <<element, read_cursor, write_cursor>>

ring_buffer_pop ==
    IF read_cursor # write_cursor
    THEN /\ last' = Call("pop", 0, element[read_cursor])
         /\ read_cursor' = After(read_cursor)
         /\ UNCHANGED <<element, write_cursor>>
    ELSE /\ last' = Call("pop", -1, NoData)
         /\ UNCHANGED <<element, read_cursor, write_cursor>>

RingNext == (\E d \in Data : ring_buffer_push(d)) \/ ring_buffer_pop

RingSpec == RingInit /\ [][RingNext]_ringVars

----------------------------------------------------------------------------
\* Types of the variables.
RingTypeOK ==
    /\ element \in [Cells -> Data \cup {NoData}]
    /\ read_cursor \in Cells /\ write_cursor \in Cells
    /\ last \in [op : {"create", "push", "pop"}, ret : {0, -1}, data : Data \cup {NoData}]

\* The elements that wait are those from the read cursor up to the write cursor.
Waiting ==
    IF read_cursor <= write_cursor THEN write_cursor - read_cursor
                                   ELSE write_cursor + size - read_cursor

Slot(cursor, i) == IF cursor + i <= size THEN cursor + i - 1 ELSE cursor + i - 1 - size

Contents == [i \in 1..Waiting |-> element[Slot(read_cursor, i)]]

Fifo == INSTANCE BoundedFifo WITH
            Capacity <- n, queue <- Contents

\* ring_buffer.c implements a first-in first-out queue of exactly n elements: no call
\* gives an element that was not the oldest, none overwrites one that waits, and "full"
\* and "empty", which differ by one free slot, are never taken for each other.
ImplementsFifo == Fifo!Spec
=============================================================================
