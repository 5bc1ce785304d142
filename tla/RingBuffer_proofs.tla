-------------------------- MODULE RingBuffer_proofs --------------------------
(***************************************************************************)
(* ring_buffer.c is a bounded queue, for every number of slots and every   *)
(* set of elements.                                                        *)
(***************************************************************************)
EXTENDS RingBuffer, TLAPS, SequenceTheorems

\* The cursor after a cursor, without the remainder.
LEMMA AfterValue ==
    ASSUME NEW c \in Cells
    PROVE  /\ After(c) = IF c = n THEN 0 ELSE c + 1
           /\ After(c) \in Cells
<1>1. n \in Nat /\ c \in 0..n
  BY RingAssumption DEF Cells
<1>2. CASE c = n
  <2>1. (n + 1) % (n + 1) = 0
    BY <1>1
  <2>2. QED BY <1>1, <1>2, <2>1 DEF After, size, Cells
<1>3. CASE c # n
  <2>1. c + 1 \in 0..n
    BY <1>1, <1>3
  <2>2. (c + 1) % (n + 1) = c + 1
    BY <1>1, <2>1
  <2>3. QED BY <1>3, <2>1, <2>2 DEF After, size, Cells
<1>4. QED BY <1>2, <1>3

\* Append and Tail, position by position.
LEMMA AppendByPosition ==
    ASSUME NEW S, NEW s \in Seq(S), NEW x \in S,
           NEW t \in Seq(S), Len(t) = Len(s) + 1,
           \A i \in 1..(Len(s) + 1) : t[i] = IF i = Len(s) + 1 THEN x ELSE s[i]
    PROVE  t = Append(s, x)
<1>1. Append(s, x) \in Seq(S) /\ Len(Append(s, x)) = Len(s) + 1
  OBVIOUS
<1>2. \A i \in 1..(Len(s) + 1) : t[i] = Append(s, x)[i]
  OBVIOUS
<1>3. QED BY <1>1, <1>2, SeqEqual

LEMMA TailByPosition ==
    ASSUME NEW S, NEW s \in Seq(S), s # <<>>,
           NEW t \in Seq(S), Len(t) = Len(s) - 1,
           \A i \in 1..(Len(s) - 1) : t[i] = s[i + 1]
    PROVE  t = Tail(s)
<1>1. /\ Tail(s) \in Seq(S) /\ Len(Tail(s)) = Len(s) - 1
      /\ \A i \in 1..(Len(s) - 1) : Tail(s)[i] = s[i + 1]
  BY HeadTailProperties
<1>2. QED BY <1>1, SeqEqual

LEMMA InitType == RingInit => RingTypeOK
BY RingAssumption DEF RingInit, RingTypeOK, Cells, Call

LEMMA NextType == RingTypeOK /\ [RingNext]_ringVars => RingTypeOK'
<1> SUFFICES ASSUME RingTypeOK, [RingNext]_ringVars PROVE RingTypeOK'
  OBVIOUS
<1>1. After(read_cursor) \in Cells /\ After(write_cursor) \in Cells
  BY AfterValue DEF RingTypeOK
<1>2. ASSUME NEW d \in Data, ring_buffer_push(d) PROVE RingTypeOK'
  BY <1>1, <1>2 DEF RingTypeOK, ring_buffer_push, Call
<1>3. CASE ring_buffer_pop
  BY <1>1, <1>3 DEF RingTypeOK, ring_buffer_pop, Call
<1>4. CASE ringVars' = ringVars
  BY <1>4 DEF RingTypeOK, ringVars
<1>5. QED BY <1>2, <1>3, <1>4 DEF RingNext

\* Types of the variables: no cursor ever leaves the array.
THEOREM TypeCorrect == RingSpec => []RingTypeOK
BY InitType, NextType, PTL DEF RingSpec

\* What the mapped queue is.
LEMMA ContentsFacts ==
    ASSUME RingTypeOK
    PROVE  /\ n \in Nat /\ Waiting \in 0..n
           /\ \A i \in 1..Waiting : Slot(read_cursor, i) \in Cells
           /\ Contents \in Seq(Data \cup {NoData})
           /\ Len(Contents) = Waiting
           /\ \A i \in 1..Waiting : Contents[i] = element[Slot(read_cursor, i)]
<1>1. n \in Nat /\ read_cursor \in 0..n /\ write_cursor \in 0..n
  BY RingAssumption DEF RingTypeOK, Cells
<1>2. Waiting \in 0..n
  BY <1>1 DEF Waiting, size
<1>3. \A i \in 1..Waiting : Slot(read_cursor, i) \in Cells
  BY <1>1, <1>2 DEF Slot, size, Cells
<1>4. Contents \in [1..Waiting -> Data \cup {NoData}]
  BY <1>3 DEF Contents, RingTypeOK
<1>5. Contents \in Seq(Data \cup {NoData}) /\ Len(Contents) = Waiting
  BY <1>2, <1>4
<1>6. QED BY <1>1, <1>2, <1>3, <1>5 DEF Contents

\* The two tests of the code are the tests of the queue.
LEMMA FullAndEmpty ==
    ASSUME RingTypeOK
    PROVE  /\ After(write_cursor) # read_cursor <=> Waiting < n
           /\ read_cursor # write_cursor <=> Waiting # 0
<1>1. n \in Nat /\ read_cursor \in 0..n /\ write_cursor \in 0..n
  BY RingAssumption DEF RingTypeOK, Cells
<1>2. After(write_cursor) = IF write_cursor = n THEN 0 ELSE write_cursor + 1
  BY AfterValue DEF RingTypeOK
<1>3. QED BY <1>1, <1>2 DEF Waiting, size

\* ring_buffer_push is Push.
LEMMA PushRefines ==
    ASSUME RingTypeOK, NEW d \in Data, ring_buffer_push(d)
    PROVE  Fifo!Push(d)
<1>1. /\ n \in Nat /\ read_cursor \in 0..n /\ write_cursor \in 0..n /\ size = n + 1
      /\ Cells = 0..n
  BY RingAssumption DEF RingTypeOK, Cells, size
<1>2. After(write_cursor) = IF write_cursor = n THEN 0 ELSE write_cursor + 1
  BY AfterValue DEF RingTypeOK
<1>3. CASE After(write_cursor) # read_cursor
  <2>1. /\ element' = [element EXCEPT ![write_cursor] = d]
        /\ write_cursor' = After(write_cursor) /\ read_cursor' = read_cursor
        /\ last' = Call("push", 0, d)
    BY <1>3 DEF ring_buffer_push
  <2>2. Waiting < n /\ Waiting \in 0..n /\ Waiting' = Waiting + 1
    BY <1>1, <1>2, <1>3, <2>1, FullAndEmpty, ContentsFacts DEF Waiting
  <2>3. /\ \A i \in 1..Waiting : Slot(read_cursor', i) = Slot(read_cursor, i) /\ Slot(read_cursor, i) # write_cursor /\ Slot(read_cursor, i) \in Cells
        /\ Slot(read_cursor', Waiting + 1) = write_cursor
    BY <1>1, <1>2, <1>3, <2>1, <2>2 DEF Slot, Waiting
  <2>4. Contents' = [i \in 1..(Waiting + 1) |-> element'[Slot(read_cursor, i)]]
    BY <2>1, <2>2 DEF Contents
  <2>5. Contents' = Append(Contents, d)
    <3>1. /\ Contents \in Seq(Data \cup {NoData}) /\ Len(Contents) = Waiting
          /\ \A i \in 1..Waiting : Contents[i] = element[Slot(read_cursor, i)]
      BY ContentsFacts
    <3>2. element \in [Cells -> Data \cup {NoData}] /\ write_cursor \in Cells
      BY DEF RingTypeOK
    <3>3. \A i \in 1..(Waiting + 1) : Contents'[i] = IF i = Waiting + 1 THEN d ELSE Contents[i]
      <4>1. SUFFICES ASSUME NEW i \in 1..(Waiting + 1)
                     PROVE  Contents'[i] = IF i = Waiting + 1 THEN d ELSE Contents[i]
        OBVIOUS
      <4>2. CASE i = Waiting + 1
        BY <4>2, <2>1, <2>3, <2>4, <3>2
      <4>3. CASE i # Waiting + 1
        <5>1. i \in 1..Waiting
          BY <4>3, <2>2
        <5>2. Contents'[i] = element'[Slot(read_cursor, i)]
          BY <5>1, <2>3, <2>4
        <5>3. element'[Slot(read_cursor, i)] = element[Slot(read_cursor, i)]
          BY <5>1, <2>1, <2>3, <3>2
        <5>4. QED BY <4>3, <5>1, <5>2, <5>3, <3>1
      <4>4. QED BY <4>2, <4>3
    <3>4. Contents' \in Seq(Data \cup {NoData}) /\ Len(Contents') = Waiting + 1
      <4>1. element' \in [Cells -> Data \cup {NoData}]
        BY NextType, ring_buffer_push(d) DEF RingNext, RingTypeOK
      <4>2. \A i \in 1..(Waiting + 1) : Slot(read_cursor, i) \in Cells
        <5>1. Slot(read_cursor, Waiting + 1) \in Cells
          BY <2>1, <2>3, <3>2
        <5>2. \A i \in 1..(Waiting + 1) : i = Waiting + 1 \/ i \in 1..Waiting
          BY <2>2
        <5>3. QED BY <5>1, <5>2, <2>3
      <4>3. Contents' \in [1..(Waiting + 1) -> Data \cup {NoData}]
        BY <4>1, <4>2, <2>4
      <4>4. QED BY <4>3, <2>2
    <3>5. QED BY <3>1, <3>3, <3>4, AppendByPosition
  <2>6. Len(Contents) < n
    BY <2>2, ContentsFacts
  <2>7. QED BY <2>1, <2>5, <2>6 DEF Fifo!Push, Call, Fifo!Call
<1>4. CASE After(write_cursor) = read_cursor
  <2>1. UNCHANGED <<element, read_cursor, write_cursor>> /\ last' = Call("push", -1, d)
    BY <1>4 DEF ring_buffer_push
  <2>2. Contents' = Contents
    BY <2>1 DEF Contents, Waiting, Slot
  <2>3. ~(Len(Contents) < n)
    BY <1>4, FullAndEmpty, ContentsFacts
  <2>4. QED BY <2>1, <2>2, <2>3 DEF Fifo!Push, Call, Fifo!Call
<1>5. QED BY <1>3, <1>4

\* ring_buffer_pop is Pop.
LEMMA PopRefines ==
    ASSUME RingTypeOK, ring_buffer_pop
    PROVE  Fifo!Pop
<1>1. /\ n \in Nat /\ read_cursor \in 0..n /\ write_cursor \in 0..n /\ size = n + 1
      /\ Cells = 0..n
  BY RingAssumption DEF RingTypeOK, Cells, size
<1>2. After(read_cursor) = IF read_cursor = n THEN 0 ELSE read_cursor + 1
  BY AfterValue DEF RingTypeOK
<1>3. /\ Contents \in Seq(Data \cup {NoData}) /\ Len(Contents) = Waiting
      /\ \A i \in 1..Waiting : Contents[i] = element[Slot(read_cursor, i)]
      /\ Waiting \in 0..n
  BY ContentsFacts
<1>4. CASE read_cursor # write_cursor
  <2>1. /\ element' = element /\ write_cursor' = write_cursor
        /\ read_cursor' = After(read_cursor)
        /\ last' = Call("pop", 0, element[read_cursor])
    BY <1>4 DEF ring_buffer_pop
  <2>2. Waiting \in 1..n /\ Waiting' = Waiting - 1
    BY <1>1, <1>2, <1>3, <1>4, <2>1 DEF Waiting
  <2>3. \A i \in 1..(Waiting - 1) : Slot(read_cursor', i) = Slot(read_cursor, i + 1)
    BY <1>1, <1>2, <2>1, <2>2 DEF Slot
  <2>4. Slot(read_cursor, 1) = read_cursor
    BY <1>1 DEF Slot
  <2>5. Contents # <<>> /\ Head(Contents) = element[read_cursor]
    BY <1>3, <2>2, <2>4
  <2>6. Contents' = [i \in 1..(Waiting - 1) |-> element[Slot(read_cursor, i + 1)]]
    BY <2>1, <2>2, <2>3 DEF Contents
  <2>7. Contents' \in Seq(Data \cup {NoData}) /\ Len(Contents') = Waiting - 1
    <3>1. \A i \in 1..(Waiting - 1) : i + 1 \in 1..Waiting
      BY <2>2
    <3>2. \A i \in 1..(Waiting - 1) : Slot(read_cursor, i + 1) \in Cells
      BY <3>1, ContentsFacts
    <3>3. Contents' \in [1..(Waiting - 1) -> Data \cup {NoData}]
      BY <3>2, <2>6 DEF RingTypeOK
    <3>4. QED BY <3>3, <2>2
  <2>8. Contents' = Tail(Contents)
    <3>1. \A i \in 1..(Waiting - 1) : Contents'[i] = Contents[i + 1]
      BY <1>3, <2>2, <2>6
    <3>2. QED BY <1>3, <2>5, <2>7, <3>1, TailByPosition
  <2>9. QED BY <2>1, <2>5, <2>8 DEF Fifo!Pop, Call, Fifo!Call
<1>5. CASE read_cursor = write_cursor
  <2>1. UNCHANGED <<element, read_cursor, write_cursor>> /\ last' = Call("pop", -1, NoData)
    BY <1>5 DEF ring_buffer_pop
  <2>2. Contents' = Contents
    BY <2>1 DEF Contents, Waiting, Slot
  <2>3. Contents = <<>>
    BY <1>3, <1>5, FullAndEmpty
  <2>4. QED BY <2>1, <2>2, <2>3 DEF Fifo!Pop, Call, Fifo!Call
<1>6. QED BY <1>4, <1>5

\* ring_buffer.c implements the bounded queue: what a thread pops is what was pushed
\* first, and -1 means full to a push and empty to a pop, never anything else.
THEOREM RingBufferIsFifo == RingSpec => ImplementsFifo
<1>1. RingInit => Fifo!Init
  <2>1. SUFFICES ASSUME RingInit PROVE Contents = <<>> /\ last = Fifo!Call("create", 0, NoData)
    BY DEF Fifo!Init
  <2>2. RingTypeOK /\ Waiting = 0
    BY <2>1, InitType DEF RingInit, Waiting
  <2>3. QED BY <2>1, <2>2, ContentsFacts DEF RingInit, Call, Fifo!Call
<1>2. RingTypeOK /\ [RingNext]_ringVars => [Fifo!Next]_(Fifo!vars)
  <2>1. SUFFICES ASSUME RingTypeOK, [RingNext]_ringVars PROVE [Fifo!Next]_(Fifo!vars)
    OBVIOUS
  <2>2. ASSUME NEW d \in Data, ring_buffer_push(d) PROVE Fifo!Next
    BY <2>1, <2>2, PushRefines DEF Fifo!Next
  <2>3. CASE ring_buffer_pop
    BY <2>1, <2>3, PopRefines DEF Fifo!Next
  <2>4. CASE ringVars' = ringVars
    BY <2>4 DEF ringVars, Fifo!vars, Contents, Waiting, Slot
  <2>5. QED BY <2>1, <2>2, <2>3, <2>4 DEF RingNext
<1>3. QED BY <1>1, <1>2, TypeCorrect, PTL DEF RingSpec, ImplementsFifo, Fifo!Spec
=============================================================================
