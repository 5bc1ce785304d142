--------------------------- MODULE SendQueue_proofs ---------------------------
(***************************************************************************)
(* The queue of alarms to send, for any number of keys and slots and any   *)
(* width of send_times.                                                    *)
(***************************************************************************)
EXTENDS SendQueue, TLAPS, FiniteSetTheorems

(***************************************************************************)
(* The inductive invariant: what each entry says, has left and has sent;   *)
(* and how far the round has come.                                         *)
(***************************************************************************)
Told(i)     == queue[i].type = latest[queue[i].key]
Discards(i) == queue[i].type = "DISCARD" => queue[i].send_times = 1 /\ sent[i].times = 0
Raises(i)   == queue[i].type = "RAISE" /\ ~sent[i].again =>
                  queue[i].send_times > 0 /\ sent[i].times + queue[i].send_times = sent[i].asked
Timed(i)    == timing[i] # "never" => sent[i].times > 0
Entry(i)    == Told(i) /\ Discards(i) /\ Raises(i) /\ Timed(i)

OneEach  == \A i, j \in Used : queue[i].key = queue[j].key => i = j
Progress == \A i \in Used : at = "take" \/ i < index => timing[i] # "never"

IInv ==
    /\ SendTypeOK
    /\ \A i \in Used : Entry(i)
    /\ OneEach
    /\ Progress
    /\ PoolMatchesQueue

----------------------------------------------------------------------------
\* The unsigned counter.  2^Width is the number of subsets of 1..Width.
LEMMA PowerType == 2^Width \in Nat /\ 2^Width > 1
<1>1. Width \in Nat /\ Width > 0
  BY SendAssumption
<1>2. IsFiniteSet(1..Width) /\ Cardinality(1..Width) = Width
  BY <1>1, FS_Interval
<1>3. IsFiniteSet(SUBSET (1..Width)) /\ Cardinality(SUBSET (1..Width)) = 2^Width
  BY <1>2, FS_SUBSET
<1>4. 2^Width \in Nat
  BY <1>3, FS_CardinalityType
<1>5. {{}, {1}} \in SUBSET SUBSET (1..Width)
  BY <1>1
<1>6. Cardinality({{}, {1}}) = 2
  <2>1. IsFiniteSet({{}}) /\ Cardinality({{}}) = 1
    BY FS_Singleton
  <2>2. {1} \notin {{}} /\ {{}} \cup {{1}} = {{}, {1}}
    OBVIOUS
  <2>3. Cardinality({{}} \cup {{1}}) = Cardinality({{}}) + 1
    BY <2>1, <2>2, FS_AddElement, Zenon
  <2>4. QED BY <2>1, <2>2, <2>3
<1>7. Cardinality({{}, {1}}) <= 2^Width
  BY <1>3, <1>5, FS_Subset
<1>8. QED BY <1>4, <1>6, <1>7

LEMMA DecrementType ==
    ASSUME NEW n \in 0..(2^Width - 1)
    PROVE  Decrement(n) \in 0..(2^Width - 1) /\ (n > 0 => Decrement(n) = n - 1)
<1> DEFINE W == 2^Width
<1>1. W \in Nat /\ W > 1 /\ n \in 0..(W - 1)
  BY PowerType
<1>2. Decrement(n) = (n - 1) % W
  BY DEF Decrement
<1> HIDE DEF W
<1>3. (n - 1) % W \in 0..(W - 1)
  BY <1>1
<1>4. n > 0 => (n - 1) % W = n - 1
  BY <1>1
<1>5. QED BY <1>2, <1>3, <1>4 DEF W

LEMMA AskedType == ASSUME NEW n \in SendTimes PROVE n \in 1..(2^Width - 1) /\ n \in Nat /\ n > 0
<1>1. n \in 1..(2^Width - 1)
  BY SendAssumption
<1>2. QED BY <1>1, PowerType

LEMMA SlotFacts ==
    /\ MAX_QUEUE_NUMBER \in Nat /\ MAX_QUEUE_NUMBER > 0
    /\ 1 \in Slots /\ Slots \subseteq Nat
    /\ IsFiniteSet(Slots) /\ Cardinality(Slots) = MAX_QUEUE_NUMBER
    /\ NoMessage \notin Message
<1>1. MAX_QUEUE_NUMBER \in Nat /\ MAX_QUEUE_NUMBER > 0
  BY SendAssumption
<1>2. IsFiniteSet(Slots) /\ Cardinality(Slots) = MAX_QUEUE_NUMBER
  BY <1>1, FS_Interval DEF Slots
<1>3. NoMessage \notin Message
  BY DEF NoMessage, Message, Types
<1>4. QED BY <1>1, <1>2, <1>3 DEF Slots

LEMMA UsedFacts ==
    ASSUME SendTypeOK
    PROVE  /\ Used \subseteq Slots
           /\ \A i \in Used : queue[i] \in Message
           /\ \A i \in Slots \ Used : queue[i] = NoMessage
           /\ IsFiniteSet(Slots \ Used)
           /\ Cardinality(Slots \ Used) \in 0..MAX_QUEUE_NUMBER
           /\ Cardinality(Slots \ Used) = 0 <=> Slots \ Used = {}
<1>1. /\ Used \subseteq Slots /\ \A i \in Used : queue[i] \in Message
      /\ \A i \in Slots \ Used : queue[i] = NoMessage
  BY DEF SendTypeOK, Used
<1>2. IsFiniteSet(Slots \ Used) /\ Cardinality(Slots \ Used) <= MAX_QUEUE_NUMBER
  BY SlotFacts, FS_Subset
<1>3. Cardinality(Slots \ Used) \in Nat
  BY <1>2, FS_CardinalityType
<1>4. Cardinality(Slots \ Used) = 0 <=> Slots \ Used = {}
  BY <1>2, FS_EmptySet
<1>5. QED BY <1>1, <1>2, <1>3, <1>4, SlotFacts

----------------------------------------------------------------------------
LEMMA InitInv == SendInit => IInv
<1> SUFFICES ASSUME SendInit PROVE IInv
  OBVIOUS
<1>1. SendTypeOK
  <2>1. /\ queue \in [Slots -> Message \cup {NoMessage}]
        /\ timing \in [Slots -> {"never", "recent", "due"}]
        /\ latest \in [Keys -> Types \cup {"none"}]
    BY DEF SendInit
  <2>2. sent \in [Slots -> [times : Nat, asked : SendTimes \cup {0}, again : BOOLEAN]]
    BY DEF SendInit, Count0
  <2>3. QED BY <2>1, <2>2, SlotFacts DEF SendInit, SendTypeOK
<1>2. Used = {}
  BY DEF SendInit, Used
<1>3. PoolMatchesQueue
  BY <1>2, SlotFacts DEF SendInit, PoolMatchesQueue
<1>4. QED BY <1>1, <1>2, <1>3 DEF IInv, OneEach, Progress

\* An alarm that is written, as m, into slot s: everything else stays.
Written(key, type, s, m, counts) ==
    /\ at = "take" /\ at' = "send" /\ index' = 1
    /\ m.key = key /\ m.type = type
    /\ type = "DISCARD" => m.send_times = 1 /\ counts.times = 0
    /\ type = "RAISE" /\ ~counts.again =>
           m.send_times > 0 /\ counts.times + m.send_times = counts.asked
    /\ SlotsOf(key) \subseteq {s}
    /\ s \in Used => s \in SlotsOf(key)
    /\ queue' = [queue EXCEPT ![s] = m]
    /\ timing' = [timing EXCEPT ![s] = "never"]
    /\ sent' = [sent EXCEPT ![s] = counts]
    /\ latest' = [latest EXCEPT ![key] = type]
    /\ free' = IF s \in Used THEN free ELSE free - 1

Counts == [times : Nat, asked : SendTimes \cup {0}, again : BOOLEAN]

LEMMA WriteInv ==
    ASSUME IInv, NEW key \in Keys, NEW type \in Types, NEW s \in Slots, NEW m \in Message,
           NEW counts \in Counts, Written(key, type, s, m, counts)
    PROVE  IInv'
<1> USE DEF Written
<1>1. /\ Used \subseteq Slots /\ \A i \in Used : queue[i] \in Message
      /\ IsFiniteSet(Slots \ Used) /\ free = Cardinality(Slots \ Used) /\ free \in 0..MAX_QUEUE_NUMBER
  BY UsedFacts DEF IInv, PoolMatchesQueue, SendTypeOK
<1>2. /\ Used' = Used \cup {s}
      /\ \A i \in Used \ {s} : queue'[i] = queue[i] /\ timing'[i] = timing[i] /\ sent'[i] = sent[i]
      /\ queue'[s] = m /\ timing'[s] = "never" /\ sent'[s] = counts
  BY <1>1, SlotFacts DEF IInv, SendTypeOK, Used
<1>3. \A i \in Used \ {s} : queue[i].key \in Keys /\ queue[i].key # key
  BY <1>1 DEF SlotsOf, Message
<1>4. free' = Cardinality((Slots \ Used)') /\ free' \in 0..MAX_QUEUE_NUMBER
  <2>1. CASE s \in Used
    BY <1>1, <1>2, <2>1
  <2>2. CASE s \notin Used
    <3>1. (Slots \ Used)' = (Slots \ Used) \ {s} /\ s \in Slots \ Used
      BY <1>2, <2>2
    <3>2. Cardinality((Slots \ Used) \ {s}) = Cardinality(Slots \ Used) - 1
      BY <1>1, <3>1, FS_RemoveElement
    <3>3. Cardinality(Slots \ Used) # 0
      BY <1>1, <3>1, UsedFacts DEF IInv
    <3>4. free' = free - 1 /\ free # 0
      BY <1>1, <2>2, <3>3
    <3>5. free' \in 0..MAX_QUEUE_NUMBER
      BY <1>1, <3>4, SlotFacts
    <3>6. Cardinality((Slots \ Used)') = free - 1
      BY <1>1, <3>1, <3>2
    <3>7. QED BY <3>4, <3>5, <3>6
  <2>3. QED BY <2>1, <2>2
<1>5. SendTypeOK'
  <2>1. queue' \in [Slots -> Message \cup {NoMessage}]
    BY DEF IInv, SendTypeOK
  <2>2. timing' \in [Slots -> {"never", "recent", "due"}]
    BY DEF IInv, SendTypeOK
  <2>3. latest' \in [Keys -> Types \cup {"none"}]
    BY DEF IInv, SendTypeOK
  <2>4. sent' \in [Slots -> [times : Nat, asked : SendTimes \cup {0}, again : BOOLEAN]]
    BY DEF IInv, SendTypeOK, Counts
  <2>5. QED BY <1>4, <2>1, <2>2, <2>3, <2>4, SlotFacts DEF SendTypeOK
<1>6. ASSUME NEW i \in Used' PROVE Entry(i)'
  <2>1. CASE i = s
    <3>1. queue'[i] = m /\ timing'[i] = "never" /\ sent'[i] = counts /\ latest'[key] = type
      BY <1>2, <2>1 DEF IInv, SendTypeOK
    <3>2. QED BY <3>1 DEF Entry, Told, Discards, Raises, Timed
  <2>2. CASE i # s
    <3>1. i \in Used /\ Entry(i)
      BY <1>2, <2>2 DEF IInv
    <3>2. latest'[queue[i].key] = latest[queue[i].key]
      BY <1>3, <2>2, <3>1 DEF IInv, SendTypeOK
    <3>3. queue'[i] = queue[i] /\ timing'[i] = timing[i] /\ sent'[i] = sent[i]
      BY <1>2, <2>2, <3>1
    <3>4. QED BY <3>1, <3>2, <3>3 DEF Entry, Told, Discards, Raises, Timed
  <2>3. QED BY <2>1, <2>2
<1>7. OneEach'
  BY <1>2, <1>3 DEF IInv, OneEach
<1>8. Progress'
  BY <1>1, <1>2 DEF Progress, Slots
<1>9. QED BY <1>4, <1>5, <1>6, <1>7, <1>8 DEF IInv, PoolMatchesQueue

LEMMA TakeInv ==
    ASSUME IInv, NEW key \in Keys, NEW type \in Types, Take(key, type) PROVE IInv'
<1>1. /\ at = "take" /\ at' = "send" /\ index' = 1
      /\ latest' = [latest EXCEPT ![key] = type]
  BY DEF Take, GoSend
<1>2. SendTypeOK
  BY DEF IInv
<1>3. CASE Overwrite(key, type)
  <2>1. PICK s \in Slots :
          /\ IsFirst(s, SlotsOf(key))
          /\ queue' = [queue EXCEPT ![s] = [key |-> key, type |-> type,
                                            send_times |-> IF type = "DISCARD" THEN 1 ELSE 0]]
          /\ timing' = [timing EXCEPT ![s] = "never"]
          /\ sent' = [sent EXCEPT ![s] = [@ EXCEPT !.times = 0, !.again = TRUE]]
          /\ free' = free
    BY <1>3 DEF Overwrite
  <2>2. PICK m \in Message : /\ m.key = key /\ m.type = type
                             /\ type = "DISCARD" => m.send_times = 1
                             /\ queue' = [queue EXCEPT ![s] = m]
    <3>1. [key |-> key, type |-> type, send_times |-> IF type = "DISCARD" THEN 1 ELSE 0] \in Message
      BY PowerType DEF Message
    <3>2. QED BY <2>1, <3>1
  <2>3. PICK counts \in Counts :
          /\ counts.times = 0 /\ counts.again = TRUE
          /\ sent' = [sent EXCEPT ![s] = counts]
    <3>1. sent[s] \in [times : Nat, asked : SendTimes \cup {0}, again : BOOLEAN]
      BY <1>2 DEF SendTypeOK
    <3>2. [sent[s] EXCEPT !.times = 0, !.again = TRUE] \in
                        [times : Nat, asked : SendTimes \cup {0}, again : BOOLEAN]
      BY <3>1
    <3>3. QED BY <2>1, <3>1, <3>2 DEF Counts
  <2>4. s \in SlotsOf(key) /\ s \in Used /\ SlotsOf(key) \subseteq {s}
    BY <2>1 DEF IsFirst, SlotsOf, IInv, OneEach
  <2>5. free' = (IF s \in Used THEN free ELSE free - 1)
    BY <2>1, <2>4
  <2>6. Written(key, type, s, m, counts)
    BY <1>1, <2>1, <2>2, <2>3, <2>4, <2>5 DEF Written
  <2>7. QED BY <2>6, WriteInv
<1>4. CASE Insert(key, type)
  <2>1. PICK s \in Slots, asked \in SendTimes :
          /\ IsFirst(s, Slots \ Used)
          /\ queue' = [queue EXCEPT ![s] = [key |-> key, type |-> type,
                           send_times |-> IF type = "DISCARD" THEN 1 ELSE asked]]
          /\ timing' = [timing EXCEPT ![s] = "never"]
          /\ sent' = [sent EXCEPT ![s] = [Count0 EXCEPT !.asked = asked]]
          /\ SlotsOf(key) = {} /\ free' = free - 1
    BY <1>4 DEF Insert
  <2>2. PICK m \in Message : /\ m.key = key /\ m.type = type
                             /\ m.send_times = IF type = "DISCARD" THEN 1 ELSE asked
                             /\ queue' = [queue EXCEPT ![s] = m]
    <3>1. [key |-> key, type |-> type, send_times |-> IF type = "DISCARD" THEN 1 ELSE asked] \in Message
      BY PowerType, AskedType DEF Message
    <3>2. QED BY <2>1, <3>1
  <2>3. PICK counts \in Counts :
          /\ counts.times = 0 /\ counts.asked = asked
          /\ sent' = [sent EXCEPT ![s] = counts]
    BY <2>1 DEF Count0, Counts
  <2>4. s \notin Used /\ SlotsOf(key) \subseteq {s}
    BY <2>1 DEF IsFirst
  <2>5. free' = (IF s \in Used THEN free ELSE free - 1)
    BY <2>1, <2>4
  <2>6. type = "DISCARD" => m.send_times = 1 /\ counts.times = 0
    BY <2>2, <2>3
  <2>7. type = "RAISE" /\ ~counts.again => m.send_times > 0 /\ counts.times + m.send_times = counts.asked
    BY <2>2, <2>3, AskedType
  <2>8. Written(key, type, s, m, counts)
    BY <1>1, <2>1, <2>2, <2>3, <2>4, <2>5, <2>6, <2>7 DEF Written
  <2>9. QED BY <2>8, WriteInv
<1>5. CASE Refuse(key)
  <2>1. queue' = queue /\ timing' = timing /\ free' = free /\ sent' = sent /\ SlotsOf(key) = {}
    BY <1>5 DEF Refuse
  <2>2. Used' = Used /\ Used \subseteq Slots /\ \A i \in Used : queue[i].key # key
    BY <2>1 DEF Used, SlotsOf
  <2>3. SendTypeOK'
    BY <1>1, <2>1, SlotFacts DEF IInv, SendTypeOK
  <2>4. \A i \in Used : latest'[queue[i].key] = latest[queue[i].key]
    BY <1>1, <1>2, <2>2, UsedFacts DEF SendTypeOK, Message
  <2>5. \A i \in Used' : Entry(i)'
    BY <2>1, <2>2, <2>4 DEF IInv, Entry, Told, Discards, Raises, Timed
  <2>6. Progress'
    BY <1>1, <2>1, <2>2 DEF Progress, Slots
  <2>7. QED BY <2>1, <2>2, <2>3, <2>5, <2>6 DEF IInv, OneEach, PoolMatchesQueue
<1>6. QED BY <1>3, <1>4, <1>5 DEF Take

----------------------------------------------------------------------------
\* After a slot whose entry, if it has one, has been sent since it was written.
LEMMA NextSlotProgress ==
    ASSUME SendTypeOK, Progress, at = "send", NextSlot,
           Used' \subseteq Used,
           \A i \in Used' \ {index} : timing'[i] = timing[i],
           index \in Used' => timing'[index] # "never"
    PROVE  Progress' /\ at' \in {"take", "send"} /\ index' \in Slots
<1>1. index \in 1..MAX_QUEUE_NUMBER /\ MAX_QUEUE_NUMBER \in Nat /\ Used \subseteq 1..MAX_QUEUE_NUMBER
  BY SlotFacts, UsedFacts DEF SendTypeOK, Slots
<1>2. CASE index < MAX_QUEUE_NUMBER
  BY <1>1, <1>2 DEF NextSlot, Progress, Slots
<1>3. CASE ~(index < MAX_QUEUE_NUMBER)
  BY <1>1, <1>3 DEF NextSlot, Progress, Slots
<1>4. QED BY <1>2, <1>3

\* An entry with left sends to come, or none, in a slot whose entry was used.
LEMMA LeaveFacts ==
    ASSUME IInv, index \in Used, NEW left \in 0..(2^Width - 1), Leave(index, left)
    PROVE  /\ queue' \in [Slots -> Message \cup {NoMessage}]
           /\ free' \in 0..MAX_QUEUE_NUMBER
           /\ Used' = IF left = 0 THEN Used \ {index} ELSE Used
           /\ \A i \in Used \ {index} : queue'[i] = queue[i]
           /\ left # 0 => queue'[index] = [queue[index] EXCEPT !.send_times = left]
           /\ OneEach'
           /\ PoolMatchesQueue'
<1>1. /\ SendTypeOK /\ index \in Slots /\ queue[index] \in Message /\ Used \subseteq Slots
      /\ IsFiniteSet(Slots \ Used) /\ free = Cardinality(Slots \ Used) /\ free \in 0..MAX_QUEUE_NUMBER
  BY UsedFacts DEF IInv, PoolMatchesQueue, SendTypeOK
<1>2. [queue[index] EXCEPT !.send_times = left] \in Message
      /\ [queue[index] EXCEPT !.send_times = left].key = queue[index].key
  BY <1>1 DEF Message
<1> DEFINE m == [queue[index] EXCEPT !.send_times = left]
<1>2a. m \in Message /\ m.key = queue[index].key
  BY <1>2
<1>3. queue' = [queue EXCEPT ![index] = IF left = 0 THEN NoMessage ELSE m]
      /\ free' = IF left = 0 THEN free + 1 ELSE free
  BY DEF Leave
<1> HIDE DEF m
<1>4. queue' \in [Slots -> Message \cup {NoMessage}]
  BY <1>1, <1>3, <1>2a DEF SendTypeOK
<1>5. /\ \A i \in Slots \ {index} : queue'[i] = queue[i]
      /\ queue'[index] = IF left = 0 THEN NoMessage ELSE m
  BY <1>1, <1>3 DEF SendTypeOK
<1>6. Used' = IF left = 0 THEN Used \ {index} ELSE Used
  BY <1>1, <1>5, <1>2a, SlotFacts DEF Used
<1>7. OneEach'
  <2>1. \A i \in Used' : i \in Used /\ queue'[i].key = queue[i].key
    BY <1>1, <1>5, <1>6, <1>2a
  <2>2. QED BY <2>1 DEF IInv, OneEach
<1>8. PoolMatchesQueue' /\ free' \in 0..MAX_QUEUE_NUMBER
  <2>1. CASE left = 0
    <3>1. (Slots \ Used)' = (Slots \ Used) \cup {index} /\ index \notin Slots \ Used
      BY <1>1, <1>6, <2>1
    <3>2. Cardinality((Slots \ Used)') = Cardinality(Slots \ Used) + 1
      BY <1>1, <3>1, FS_AddElement
    <3>3. IsFiniteSet((Slots \ Used)') /\ Cardinality((Slots \ Used)') <= MAX_QUEUE_NUMBER
      BY <1>1, <3>1, SlotFacts, FS_Subset
    <3>4. QED BY <1>1, <1>3, <2>1, <3>2, <3>3, SlotFacts DEF PoolMatchesQueue
  <2>2. CASE left # 0
    BY <1>1, <1>3, <1>6, <2>2 DEF PoolMatchesQueue
  <2>3. QED BY <2>1, <2>2
<1>9. QED BY <1>1, <1>4, <1>5, <1>6, <1>7, <1>8 DEF m

LEMMA SendSlotInv == ASSUME IInv, SendSlot PROVE IInv'
<1> DEFINE st == queue[index].send_times
           left == Decrement(st)
<1>1. /\ SendTypeOK /\ at = "send" /\ index \in Used /\ index \in Slots /\ Used \subseteq Slots
      /\ queue[index] \in Message /\ st \in 0..(2^Width - 1)
      /\ Leave(index, left) /\ Sent(index) /\ NextSlot /\ latest' = latest
  BY UsedFacts DEF IInv, SendSlot, Sendable, Message
<1>2. left \in 0..(2^Width - 1) /\ (st > 0 => left = st - 1)
  BY <1>1, DecrementType
<1> HIDE DEF left
<1>3. /\ queue' \in [Slots -> Message \cup {NoMessage}] /\ free' \in 0..MAX_QUEUE_NUMBER
      /\ Used' = IF left = 0 THEN Used \ {index} ELSE Used
      /\ \A i \in Used \ {index} : queue'[i] = queue[i]
      /\ left # 0 => queue'[index] = [queue[index] EXCEPT !.send_times = left]
      /\ OneEach' /\ PoolMatchesQueue'
  BY <1>1, <1>2, LeaveFacts
<1>4. /\ timing' = [timing EXCEPT ![index] = "recent"]
      /\ sent' = [sent EXCEPT ![index].times = IF @ > sent[index].asked THEN @ ELSE @ + 1]
  BY <1>1 DEF Sent
<1>5. sent[index] \in [times : Nat, asked : SendTimes \cup {0}, again : BOOLEAN]
      /\ sent[index].times \in Nat /\ sent[index].asked \in Nat
  BY <1>1, AskedType DEF SendTypeOK
<1>6. /\ timing' \in [Slots -> {"never", "recent", "due"}]
      /\ sent' \in [Slots -> [times : Nat, asked : SendTimes \cup {0}, again : BOOLEAN]]
  BY <1>1, <1>4, <1>5 DEF SendTypeOK
<1>7. /\ \A i \in Slots \ {index} : timing'[i] = timing[i] /\ sent'[i] = sent[i]
      /\ timing'[index] = "recent"
      /\ sent'[index].asked = sent[index].asked /\ sent'[index].again = sent[index].again
      /\ sent'[index].times = IF sent[index].times > sent[index].asked THEN sent[index].times
                                                                      ELSE sent[index].times + 1
  BY <1>1, <1>4, <1>5 DEF SendTypeOK
<1>8. Progress' /\ at' \in {"take", "send"} /\ index' \in Slots
  BY <1>1, <1>3, <1>7, NextSlotProgress DEF IInv
<1>9. SendTypeOK'
  BY <1>1, <1>3, <1>6, <1>8 DEF SendTypeOK
<1>10. ASSUME NEW i \in Used' PROVE Entry(i)'
  <2>1. i \in Used /\ Entry(i)
    BY <1>3 DEF IInv
  <2>2. CASE i # index
    <3>1. queue'[i] = queue[i] /\ timing'[i] = timing[i] /\ sent'[i] = sent[i]
      BY <1>1, <1>3, <1>7, <2>1, <2>2
    <3>2. QED BY <1>1, <2>1, <3>1 DEF Entry, Told, Discards, Raises, Timed
  <2>3. CASE i = index
    <3>1. left # 0 /\ queue'[i].type = queue[i].type /\ queue'[i].key = queue[i].key
          /\ queue'[i].send_times = left
      BY <1>1, <1>3, <2>3 DEF Message
    <3>2. Told(i)'
      BY <1>1, <2>1, <3>1 DEF Entry, Told
    <3>3. Discards(i)'
      BY <1>2, <2>1, <2>3, <3>1 DEF Entry, Discards
    <3>4. Raises(i)'
      BY <1>1, <1>2, <1>5, <1>7, <2>1, <2>3, <3>1, PowerType DEF Entry, Raises
    <3>5. Timed(i)'
      BY <1>5, <1>7, <2>3 DEF Timed
    <3>6. QED BY <3>2, <3>3, <3>4, <3>5 DEF Entry
  <2>4. QED BY <2>2, <2>3
<1>11. QED BY <1>3, <1>8, <1>9, <1>10 DEF IInv

LEMMA WaitSlotInv == ASSUME IInv, WaitSlot PROVE IInv'
<1> DEFINE left == queue[index].send_times
<1>1. /\ SendTypeOK /\ at = "send" /\ index \in Used /\ index \in Slots /\ Used \subseteq Slots
      /\ queue[index] \in Message /\ left \in 0..(2^Width - 1) /\ timing[index] = "recent"
      /\ Leave(index, left) /\ NextSlot
      /\ timing' = timing /\ latest' = latest /\ sent' = sent
  BY UsedFacts DEF IInv, WaitSlot, Sendable, Message
<1>2. [queue[index] EXCEPT !.send_times = left] = queue[index]
  BY <1>1 DEF Message
<1> HIDE DEF left
<1>3. /\ queue' \in [Slots -> Message \cup {NoMessage}] /\ free' \in 0..MAX_QUEUE_NUMBER
      /\ Used' = IF left = 0 THEN Used \ {index} ELSE Used
      /\ \A i \in Used \ {index} : queue'[i] = queue[i]
      /\ left # 0 => queue'[index] = queue[index]
      /\ OneEach' /\ PoolMatchesQueue'
  BY <1>1, <1>2, LeaveFacts
<1>4. Progress' /\ at' \in {"take", "send"} /\ index' \in Slots
  BY <1>1, <1>3, NextSlotProgress DEF IInv
<1>5. SendTypeOK'
  BY <1>1, <1>3, <1>4 DEF SendTypeOK
<1>6. \A i \in Used' : i \in Used /\ queue'[i] = queue[i]
  BY <1>3
<1>7. \A i \in Used' : Entry(i)'
  BY <1>1, <1>6 DEF IInv, Entry, Told, Discards, Raises, Timed
<1>8. QED BY <1>3, <1>4, <1>5, <1>7 DEF IInv

\* What changes no entry: nothing to take, an empty slot, time.
LEMMA NoEntryInv ==
    ASSUME IInv, TakeNothing \/ EmptySlot \/ (\E i \in Slots : TimePasses(i)) \/ sendVars' = sendVars
    PROVE  IInv'
<1>1. /\ queue' = queue /\ free' = free /\ latest' = latest /\ sent' = sent /\ Used' = Used
      /\ SendTypeOK /\ Used \subseteq Slots
  BY UsedFacts DEF IInv, TakeNothing, EmptySlot, TimePasses, sendVars, Used
<1>2. /\ timing' \in [Slots -> {"never", "recent", "due"}]
      /\ \A i \in Slots : timing'[i] = timing[i] \/ (timing[i] = "recent" /\ timing'[i] = "due")
  BY <1>1 DEF SendTypeOK, TakeNothing, EmptySlot, TimePasses, sendVars
<1>3. Progress' /\ at' \in {"take", "send"} /\ index' \in Slots
  <2>1. CASE TakeNothing
    BY <1>1, <2>1, SlotFacts DEF TakeNothing, GoSend, Progress, Slots
  <2>2. CASE EmptySlot
    BY <1>1, <2>2, NextSlotProgress DEF IInv, EmptySlot
  <2>3. CASE (\E i \in Slots : TimePasses(i)) \/ sendVars' = sendVars
    <3>1. at' = at /\ index' = index
      BY <2>3 DEF TimePasses, sendVars
    <3>2. QED BY <1>1, <1>2, <3>1 DEF IInv, SendTypeOK, Progress
  <2>4. QED BY <2>1, <2>2, <2>3
<1>4. SendTypeOK'
  BY <1>1, <1>2, <1>3 DEF SendTypeOK
<1>5. \A i \in Used' : Entry(i)'
  BY <1>1, <1>2 DEF IInv, Entry, Told, Discards, Raises, Timed
<1>6. QED BY <1>1, <1>3, <1>4, <1>5 DEF IInv, OneEach, PoolMatchesQueue

\* The invariant is inductive, for any number of keys and slots and any width of the counter.
THEOREM InductiveInvariant == SendSpec => []IInv
<1>1. SendInit => IInv
  BY InitInv
<1>2. IInv /\ [SendNext]_sendVars => IInv'
  BY TakeInv, SendSlotInv, WaitSlotInv, NoEntryInv DEF SendNext, Round, Alarm
<1>3. QED BY <1>1, <1>2, PTL DEF SendSpec

\* Types of the variables; send_times never leaves its width.
THEOREM TypeCorrect == SendSpec => []SendTypeOK
<1>1. IInv => SendTypeOK
  BY DEF IInv
<1>2. QED BY <1>1, InductiveInvariant, PTL

\* A key has one entry, and it says what the last alarm taken for that key said.
THEOREM EntriesAreLatest == SendSpec => []PendingIsLatest
<1>1. IInv => PendingIsLatest
  BY DEF IInv, Entry, Told, OneEach, PendingIsLatest, SlotsOf
<1>2. QED BY <1>1, InductiveInvariant, PTL

\* The pool has one block for each empty slot.
THEOREM PoolIsQueue == SendSpec => []PoolMatchesQueue
<1>1. IInv => PoolMatchesQueue
  BY DEF IInv
<1>2. QED BY <1>1, InductiveInvariant, PTL

\* Whatever is in the queue when a round ends has been sent since it was written.
THEOREM AllSentInRound == SendSpec => []NothingUnsent
<1>1. IInv => NothingUnsent
  BY DEF IInv, Entry, Timed, Progress, NothingUnsent
<1>2. QED BY <1>1, InductiveInvariant, PTL

\* Entries leave with the send that makes their count complete, for any send_times.
THEOREM CountsComplete == SendSpec => []SentAsAsked
<1>1. IInv => SentAsAsked
  <2> SUFFICES ASSUME IInv, NEW i \in Used
               PROVE  /\ queue[i].type = "DISCARD" => sent[i].times = 0
                      /\ queue[i].type = "RAISE" /\ ~sent[i].again => sent[i].times < sent[i].asked
    BY DEF SentAsAsked
  <2>1. Entry(i) /\ queue[i] \in Message /\ sent[i].times \in Nat
    BY UsedFacts DEF IInv, SendTypeOK
  <2>2. queue[i].send_times \in Nat
    BY <2>1, PowerType DEF Message
  <2>3. QED BY <2>1, <2>2 DEF Entry, Discards, Raises
<1>2. QED BY <1>1, InductiveInvariant, PTL

----------------------------------------------------------------------------
(***************************************************************************)
(* The book.  One invariant more is needed to see the slots as a book:     *)
(* send_times 0 is there only until the next send.                         *)
(***************************************************************************)
NewOnly == \A i \in Used : queue[i].send_times = 0 => timing[i] = "never"

Line   == [i \in Slots |-> [type |-> queue[i].type, left |-> Left(i), timing |-> timing[i]]]
InWait == {queue[i].key : i \in Used}

\* The slot with a key, when no two have the same.
LEMMA SlotWithKey ==
    ASSUME NEW U, NEW q, \A i, j \in U : q[i].key = q[j].key => i = j, NEW i \in U
    PROVE  (CHOOSE j \in U : q[j].key = q[i].key) = i
OBVIOUS

\* What a slot's entry says in the book, before a step and after it.
LEMMA InBookBefore ==
    ASSUME OneEach
    PROVE  /\ DOMAIN InBook = InWait
           /\ \A i \in Used : queue[i].key \in InWait /\ InBook[queue[i].key] = Line[i]
<1>1. \A i \in Used : SlotOf(queue[i].key) = i /\ queue[i].key \in InWait
  BY SlotWithKey DEF OneEach, SlotOf, InWait
<1>2. Used \subseteq Slots
  BY DEF Used
<1>3. QED BY <1>1, <1>2 DEF InBook, Line, KeysIn, InWait

LEMMA InBookAfter ==
    ASSUME OneEach'
    PROVE  /\ InBook' = [key \in InWait' |-> InBook'[key]]
           /\ \A i \in Used' : queue'[i].key \in InWait' /\ InBook'[queue'[i].key] = Line'[i]
<1>1. \A i, j \in Used' : queue'[i].key = queue'[j].key => i = j
  BY DEF OneEach
<1>2. ASSUME NEW i \in Used'
      PROVE  (CHOOSE j \in Used' : queue'[j].key = queue'[i].key) = i
  BY <1>1, SlotWithKey
<1>3. \A i \in Used' : queue'[i].key \in InWait' /\ i \in Slots
  BY DEF InWait, Used
<1>4. QED BY <1>2, <1>3 DEF InBook, Line, KeysIn, InWait, SlotOf, Left

\* A step that writes the entry of slot s enters it in the book.
LEMMA Enters ==
    ASSUME OneEach, OneEach', NEW s \in Used', Used' = Used \cup {s},
           s \in Used => queue'[s].key = queue[s].key,
           \A i \in Used \ {s} : queue'[i].key = queue[i].key /\ Line'[i] = Line[i]
    PROVE  Book!Enter(queue'[s].key, Line'[s])
<1> DEFINE key == queue'[s].key
<1>1. /\ DOMAIN InBook = InWait
      /\ \A i \in Used : InBook[queue[i].key] = Line[i]
  BY InBookBefore
<1>2. /\ InBook' = [k \in InWait' |-> InBook'[k]]
      /\ \A i \in Used' : InBook'[queue'[i].key] = Line'[i]
  BY InBookAfter
<1>3. InWait' = InWait \cup {key}
  BY DEF InWait
<1>4. ASSUME NEW k \in InWait \cup {key}
      PROVE  InBook'[k] = IF k = key THEN Line'[s] ELSE InBook[k]
  <2>1. CASE k = key
    BY <1>2, <2>1
  <2>2. CASE k # key
    <3>1. PICK i \in Used \ {s} : queue[i].key = k
      BY <2>2 DEF InWait
    <3>2. InBook'[k] = Line'[i] /\ InBook[k] = Line[i]
      BY <1>1, <1>2, <3>1
    <3>3. QED BY <2>2, <3>1, <3>2
  <2>3. QED BY <2>1, <2>2
<1>5. InBook' = [k \in InWait \cup {key} |-> IF k = key THEN Line'[s] ELSE InBook[k]]
  BY <1>2, <1>3, <1>4
<1>6. QED BY <1>1, <1>5 DEF Book!Enter, Book!Waiting

\* A step that empties slot s strikes its key.
LEMMA Strikes ==
    ASSUME OneEach, OneEach', NEW s \in Used, Used' = Used \ {s},
           \A i \in Used \ {s} : queue'[i].key = queue[i].key /\ Line'[i] = Line[i]
    PROVE  Book!Strike(queue[s].key)
<1> DEFINE key == queue[s].key
<1>1. /\ DOMAIN InBook = InWait
      /\ \A i \in Used : InBook[queue[i].key] = Line[i]
  BY InBookBefore
<1>2. /\ InBook' = [k \in InWait' |-> InBook'[k]]
      /\ \A i \in Used' : InBook'[queue'[i].key] = Line'[i]
  BY InBookAfter
<1>3. InWait' = InWait \ {key}
  BY DEF InWait, OneEach
<1>4. ASSUME NEW k \in InWait \ {key} PROVE InBook'[k] = InBook[k]
  <2>1. PICK i \in Used \ {s} : queue[i].key = k
    BY DEF InWait
  <2>2. QED BY <1>1, <1>2, <2>1
<1>5. InBook' = [k \in InWait \ {key} |-> InBook[k]]
  BY <1>2, <1>3, <1>4
<1>6. QED BY <1>1, <1>5 DEF Book!Strike, Book!Waiting

\* A step that changes no entry changes no line of the book.
LEMMA BookStays ==
    ASSUME queue' = queue, timing' = timing
    PROVE  InBook' = InBook /\ Used' = Used
BY DEF InBook, Used, KeysIn, SlotOf, Left

\* There is room in the book as long as a block is free.
LEMMA RoomIsFree == ASSUME IInv PROVE Book!Room <=> free > 0
<1>1. /\ SendTypeOK /\ OneEach /\ Used \subseteq Slots /\ free = Cardinality(Slots \ Used)
      /\ free \in 0..MAX_QUEUE_NUMBER
  BY UsedFacts DEF IInv, PoolMatchesQueue, SendTypeOK
<1>2. /\ IsFiniteSet(Used) /\ Cardinality(Used) \in Nat
      /\ Cardinality(Slots \ Used) = MAX_QUEUE_NUMBER - Cardinality(Used)
  <2>1. IsFiniteSet(Used)
    BY <1>1, SlotFacts, FS_Subset
  <2>2. Slots \cap Used = Used
    BY <1>1
  <2>3. Cardinality(Slots \ Used) = Cardinality(Slots) - Cardinality(Slots \cap Used)
    BY SlotFacts, FS_Difference
  <2>4. QED BY <2>1, <2>2, <2>3, SlotFacts, FS_CardinalityType
<1>3. Cardinality(InWait) = Cardinality(Used)
  <2> DEFINE f == [i \in Used |-> queue[i].key]
  <2>1. f \in Bijection(Used, InWait)
    <3>1. f \in [Used -> InWait]
      BY DEF InWait
    <3>2. \A i, j \in Used : f[i] = f[j] => i = j
      BY <1>1 DEF OneEach
    <3>3. \A k \in InWait : \E i \in Used : f[i] = k
      BY DEF InWait
    <3>4. DOMAIN f = Used
      OBVIOUS
    <3> HIDE DEF f
    <3>5. QED BY <3>1, <3>2, <3>3, <3>4, Zenon DEF Bijection, Injection, Surjection, IsInjective
  <2>2. QED BY <1>2, <2>1, FS_Bijection DEF ExistsBijection
<1>4. DOMAIN InBook = InWait
  BY <1>1, InBookBefore
<1>5. Book!Cardinality(InWait) = Cardinality(InWait)
  BY DEF Book!Cardinality, Cardinality
<1>6. QED BY <1>1, <1>2, <1>3, <1>4, <1>5, SlotFacts DEF Book!Room, Book!Waiting

----------------------------------------------------------------------------
\* What a round has still to look at.
LEMMA RoundStarts ==
    ASSUME at = "take", GoSend
    PROVE  ToDo = {} /\ ToDo' = InWait'
<1>1. \A i \in Used' : i >= 1
  BY SlotFacts DEF Used, Slots
<1>2. at' = "send" /\ index' = 1
  BY DEF GoSend
<1>3. QED BY <1>1, <1>2 DEF ToDo, KeysIn, InWait

LEMMA RoundGoesOn ==
    ASSUME SendTypeOK, OneEach, at = "send", NextSlot, Used' \subseteq Used, Used \ {index} \subseteq Used',
           \A i \in Used' : queue'[i].key = queue[i].key
    PROVE  /\ index \in Used => queue[index].key \in ToDo /\ ToDo' = ToDo \ {queue[index].key}
           /\ index \notin Used => ToDo' = ToDo
<1>1. index \in 1..MAX_QUEUE_NUMBER /\ MAX_QUEUE_NUMBER \in Nat /\ Used \subseteq 1..MAX_QUEUE_NUMBER
  BY SlotFacts, UsedFacts DEF SendTypeOK, Slots
<1>1a. \A i \in Used :
          /\ i \in Int /\ i <= MAX_QUEUE_NUMBER
          /\ (i >= index <=> (i > index \/ i = index))
          /\ (i >= index + 1 <=> i > index)
  <2>1. \A i, k \in Int : (i >= k <=> (i > k \/ i = k)) /\ (i >= k + 1 <=> i > k)
    OBVIOUS
  <2>2. \A i \in Used : i \in Int /\ i <= MAX_QUEUE_NUMBER
    BY <1>1
  <2>3. index \in Int
    BY <1>1
  <2>4. QED BY <2>1, <2>2, <2>3
<1>2. ToDo = {queue[i].key : i \in {j \in Used : j >= index}}
  BY DEF ToDo, KeysIn
<1>3. ToDo' = {queue[i].key : i \in {j \in Used : j > index}}
  <2>1. CASE index < MAX_QUEUE_NUMBER
    <3>1. at' = "send" /\ index' = index + 1
      BY <2>1 DEF NextSlot
    <3>2. {j \in Used' : j >= index'} = {j \in Used : j > index}
      <4>1. \A j \in Used' : j >= index' <=> j > index
        BY <1>1a, <3>1
      <4>2. \A j \in Used : j > index => j # index
        BY <1>1, <1>1a
      <4>3. QED BY <4>1, <4>2
    <3>3. \A i \in {j \in Used : j > index} : queue'[i].key = queue[i].key
      <4>1. \A j \in Used : j > index => j # index
        BY <1>1, <1>1a
      <4>2. {j \in Used : j > index} \subseteq Used'
        BY <4>1
      <4>3. QED BY <4>2
    <3>4. ToDo' = {queue'[i].key : i \in {j \in Used : j > index}}
      BY <3>1, <3>2 DEF ToDo, KeysIn
    <3>5. QED BY <3>3, <3>4
  <2>2. CASE ~(index < MAX_QUEUE_NUMBER)
    <3>1. {j \in Used : j > index} = {} /\ at' = "take"
      <4>1. index = MAX_QUEUE_NUMBER /\ at' = "take"
        BY <1>1, <2>2 DEF NextSlot
      <4>2. \A i \in Used : ~(i > index)
        BY <1>1, <1>1a, <4>1
      <4>3. QED BY <4>1, <4>2
    <3>2. QED BY <3>1 DEF ToDo
  <2>3. QED BY <2>1, <2>2
<1>5. ASSUME index \in Used PROVE queue[index].key \in ToDo /\ ToDo' = ToDo \ {queue[index].key}
  <2>1. \A i \in Used : i > index => queue[i].key # queue[index].key
    <3>1. \A i \in Used : i > index => i # index
      BY <1>1, <1>1a
    <3>2. QED BY <1>5, <3>1 DEF OneEach
  <2>2. QED BY <1>1a, <1>2, <1>3, <1>5, <2>1
<1>6. ASSUME index \notin Used PROVE ToDo' = ToDo
  BY <1>1a, <1>2, <1>3, <1>6
<1>7. QED BY <1>5, <1>6

LEMMA SentLine ==
    ASSUME NEW type, NEW left, NEW time
    PROVE  [[type |-> type, left |-> left, timing |-> time] EXCEPT !.left = @ - 1, !.timing = "recent"]
             = [type |-> type, left |-> left - 1, timing |-> "recent"]
<1> DEFINE r == [type |-> type, left |-> left, timing |-> time]
           a == [r EXCEPT !.left = left - 1]
<1>1. a = [type |-> type, left |-> left - 1, timing |-> time]
  OBVIOUS
<1> HIDE DEF a
<1>2. [a EXCEPT !.timing = "recent"] = [type |-> type, left |-> left - 1, timing |-> "recent"]
  BY <1>1
<1>3. QED BY <1>2 DEF a

\* What the book says of a slot.
LEMMA LineOf ==
    ASSUME SendTypeOK, NEW i \in Used
    PROVE  /\ Line[i] = [type |-> queue[i].type, left |-> Left(i), timing |-> timing[i]]
           /\ i \in Slots /\ queue[i] \in Message /\ queue[i].key \in Keys
           /\ Left(i) = IF queue[i].send_times = 0 THEN 2^Width ELSE queue[i].send_times
BY UsedFacts DEF Line, Left, Message

(***************************************************************************)
(* One lemma for each action: the same action of the book, or no step.     *)
(***************************************************************************)
LEMMA TakeRefines ==
    ASSUME IInv, IInv', NEW key \in Keys, NEW type \in Types, Take(key, type)
    PROVE  Book!Take(key, type)
<1>1. /\ SendTypeOK /\ OneEach /\ OneEach' /\ at = "take" /\ GoSend
      /\ DOMAIN InBook = InWait /\ DOMAIN InBook' = InWait'
  <2>1. OneEach /\ OneEach'
    BY DEF IInv
  <2>2. DOMAIN InBook = InWait /\ DOMAIN InBook' = InWait'
    BY <2>1, InBookBefore, InBookAfter
  <2>3. QED BY <2>1, <2>2 DEF IInv, Take
<1>2. ToDo = {} /\ ToDo' = DOMAIN InBook'
  BY <1>1, RoundStarts
<1>3. key \in InWait <=> SlotsOf(key) # {}
  BY DEF InWait, SlotsOf
<1>4. ASSUME NEW s \in Slots, NEW m \in Message, m.key = key, m.type = type,
             queue' = [queue EXCEPT ![s] = m], timing' = [timing EXCEPT ![s] = "never"],
             s \in Used => queue[s].key = key,
             key \in InWait \/ Book!Room,
             (IF m.send_times = 0 THEN 2^Width ELSE m.send_times) \in Book!SendsOf(key, type)
      PROVE  Book!Take(key, type)
  <2> DEFINE left == IF m.send_times = 0 THEN 2^Width ELSE m.send_times
  <2>1. /\ queue'[s] = m /\ timing'[s] = "never"
        /\ \A i \in Slots \ {s} : queue'[i] = queue[i] /\ timing'[i] = timing[i]
    BY <1>1, <1>4 DEF SendTypeOK
  <2>2. Used' = Used \cup {s}
    BY <1>4, <2>1, SlotFacts DEF Used
  <2>3. \A i \in Used \ {s} : queue'[i].key = queue[i].key /\ Line'[i] = Line[i]
    BY <2>1 DEF Used, Line, Left
  <2>4. Line'[s] = Book!New(type, left)
    BY <1>4, <2>1 DEF Line, Left, Book!New
  <2>5. queue'[s].key = key
    BY <1>4, <2>1
  <2>6. s \in Used => queue'[s].key = queue[s].key
    BY <1>4, <2>5
  <2>7. Book!Enter(queue'[s].key, Line'[s])
    BY <1>1, <2>2, <2>3, <2>6, Enters
  <2>8. Book!Enter(key, Book!New(type, left))
    BY <2>4, <2>5, <2>7
  <2>9. left \in Book!SendsOf(key, type)
    BY <1>4
  <2> HIDE DEF left
  <2>10. QED BY <1>1, <1>2, <1>4, <2>8, <2>9 DEF Book!Take, Book!Waiting
<1>5. CASE Overwrite(key, type)
  <2> DEFINE m == [key |-> key, type |-> type, send_times |-> IF type = "DISCARD" THEN 1 ELSE 0]
  <2>1. PICK s \in Slots : /\ s \in SlotsOf(key)
                           /\ queue' = [queue EXCEPT ![s] = m]
                           /\ timing' = [timing EXCEPT ![s] = "never"]
    BY <1>5 DEF Overwrite, IsFirst
  <2>2. m \in Message /\ m.key = key /\ m.type = type
    BY PowerType DEF Message
  <2>3. key \in InWait /\ queue[s].key = key
    BY <1>3, <2>1 DEF SlotsOf
  <2>4. (IF m.send_times = 0 THEN 2^Width ELSE m.send_times) \in Book!SendsOf(key, type)
    BY <1>1, <2>3 DEF Book!SendsOf, Book!Waiting
  <2> HIDE DEF m
  <2>5. QED BY <1>4, <2>1, <2>2, <2>3, <2>4
<1>6. CASE Insert(key, type)
  <2>1. PICK s \in Slots, asked \in SendTimes :
          /\ s \in Slots \ Used /\ SlotsOf(key) = {} /\ free > 0
          /\ queue' = [queue EXCEPT ![s] = [key |-> key, type |-> type,
                           send_times |-> IF type = "DISCARD" THEN 1 ELSE asked]]
          /\ timing' = [timing EXCEPT ![s] = "never"]
    BY <1>6 DEF Insert, IsFirst
  <2> DEFINE m == [key |-> key, type |-> type, send_times |-> IF type = "DISCARD" THEN 1 ELSE asked]
  <2>2. m \in Message /\ m.key = key /\ m.type = type
    BY PowerType, AskedType DEF Message
  <2>3. key \notin InWait /\ Book!Room
    BY <1>3, <2>1, RoomIsFree
  <2>4. (IF m.send_times = 0 THEN 2^Width ELSE m.send_times) \in Book!SendsOf(key, type)
    BY <1>1, <2>3, AskedType DEF Book!SendsOf, Book!Waiting
  <2> HIDE DEF m
  <2>5. QED BY <1>4, <2>1, <2>2, <2>3, <2>4 DEF m
<1>7. CASE Refuse(key)
  <2>1. InBook' = InBook
    BY <1>7, BookStays DEF Refuse
  <2>2. key \notin InWait /\ ~Book!Room
    <3>1. free = 0
      BY <1>7 DEF Refuse
    <3>2. QED BY <1>3, <1>7, <3>1, RoomIsFree DEF Refuse
  <2>3. QED BY <1>1, <1>2, <2>1, <2>2 DEF Book!Take, Book!Waiting
<1>8. QED BY <1>5, <1>6, <1>7 DEF Take

LEMMA SendSlotRefines ==
    ASSUME IInv, IInv', SendSlot
    PROVE  Book!Settle(queue[index].key)
<1> DEFINE st   == queue[index].send_times
           left == Decrement(st)
           key  == queue[index].key
<1>1. /\ SendTypeOK /\ OneEach /\ OneEach' /\ at = "send" /\ index \in Used /\ timing[index] # "recent"
      /\ queue[index] \in Message /\ st \in 0..(2^Width - 1)
      /\ Leave(index, left) /\ Sent(index) /\ NextSlot
  BY UsedFacts DEF IInv, SendSlot, Sendable, Message
<1>2. /\ left \in 0..(2^Width - 1)
      /\ Left(index) \in Nat /\ (Left(index) = 1 <=> left = 0)
      /\ (left # 0 => left = Left(index) - 1)
  <2> DEFINE W == 2^Width
  <2>1. W \in Nat /\ W > 1 /\ st \in 0..(W - 1)
    BY <1>1, PowerType
  <2>2. left = (st - 1) % W /\ Left(index) = IF st = 0 THEN W ELSE st
    BY DEF Decrement, Left
  <2> HIDE DEF W, st, left
  <2>3. (st - 1) % W = IF st = 0 THEN W - 1 ELSE st - 1
    <3>1. (0 - 1) % W = W - 1
      BY <2>1
    <3>2. st # 0 => (st - 1) % W = st - 1
      BY <2>1
    <3>3. QED BY <3>1, <3>2
  <2>4. QED BY <2>1, <2>2, <2>3 DEF W
<1> HIDE DEF left
<1>3. /\ Used' = IF left = 0 THEN Used \ {index} ELSE Used
      /\ \A i \in Used \ {index} : queue'[i] = queue[i]
      /\ left # 0 => queue'[index] = [queue[index] EXCEPT !.send_times = left]
  BY <1>1, <1>2, LeaveFacts
<1>4. timing'[index] = "recent" /\ \A i \in Used \ {index} : timing'[i] = timing[i]
  BY <1>1 DEF Sent, SendTypeOK, Used
<1>5. /\ \A i \in Used \ {index} : queue'[i].key = queue[i].key /\ Line'[i] = Line[i]
      /\ \A i \in Used' : queue'[i].key = queue[i].key
  <2>1. \A i \in Used \ {index} : queue'[i].key = queue[i].key /\ Line'[i] = Line[i]
    BY <1>3, <1>4 DEF Used, Line, Left
  <2>2. left # 0 => queue'[index].key = queue[index].key
    BY <1>1, <1>3 DEF Message
  <2>3. QED BY <1>3, <2>1, <2>2
<1>6. key \in ToDo /\ ToDo' = ToDo \ {key}
  BY <1>1, <1>3, <1>5, RoundGoesOn
<1>7. key \in Book!Waiting /\ InBook[key] = Line[index]
  BY <1>1, InBookBefore DEF Book!Waiting
<1>8. Line[index] = [type |-> queue[index].type, left |-> Left(index), timing |-> timing[index]]
  BY <1>1, LineOf
<1>9. CASE left = 0
  <2>1. Book!Strike(key)
    BY <1>1, <1>3, <1>5, <1>9, Strikes
  <2>2. InBook[key].left = 1 /\ InBook[key].timing # "recent"
    BY <1>1, <1>2, <1>7, <1>8, <1>9
  <2>3. QED BY <1>6, <2>1, <2>2 DEF Book!Settle, Book!Send
<1>10. CASE left # 0
  <2>1. queue'[index].type = queue[index].type /\ queue'[index].key = key /\ queue'[index].send_times = left
    BY <1>1, <1>3, <1>10 DEF Message
  <2>2. Line'[index] = [type |-> queue[index].type, left |-> left, timing |-> "recent"]
    BY <1>1, <1>4, <1>10, <2>1 DEF Line, Left, Used
  <2>3. Line'[index] = [InBook[key] EXCEPT !.left = @ - 1, !.timing = "recent"]
    <3> DEFINE r == [type |-> queue[index].type, left |-> Left(index), timing |-> timing[index]]
    <3>1. [r EXCEPT !.left = @ - 1, !.timing = "recent"]
            = [type |-> queue[index].type, left |-> Left(index) - 1, timing |-> "recent"]
      BY SentLine
    <3>2. InBook[key] = r
      BY <1>7, <1>8
    <3>3. Line'[index] = [type |-> queue[index].type, left |-> Left(index) - 1, timing |-> "recent"]
      BY <1>2, <1>10, <2>2
    <3> HIDE DEF r
    <3>4. QED BY <3>1, <3>2, <3>3
  <2>4. Book!Enter(queue'[index].key, Line'[index])
    BY <1>1, <1>3, <1>5, <1>10, Enters
  <2>5. Book!Enter(key, [InBook[key] EXCEPT !.left = @ - 1, !.timing = "recent"])
    BY <2>1, <2>3, <2>4
  <2>6. InBook[key].left # 1 /\ InBook[key].timing # "recent"
    BY <1>1, <1>2, <1>7, <1>8, <1>10
  <2>7. QED BY <1>6, <2>5, <2>6 DEF Book!Settle, Book!Send
<1>11. QED BY <1>9, <1>10

LEMMA WaitSlotRefines ==
    ASSUME IInv, NewOnly, WaitSlot
    PROVE  Book!Settle(queue[index].key)
<1> DEFINE key == queue[index].key
<1>1. /\ SendTypeOK /\ OneEach /\ at = "send" /\ index \in Used /\ timing[index] = "recent"
      /\ queue[index] \in Message /\ timing' = timing /\ NextSlot
  BY UsedFacts DEF IInv, WaitSlot, Sendable
<1>2. queue' = queue
  <2>1. queue[index].send_times # 0 /\ Leave(index, queue[index].send_times)
    BY <1>1 DEF NewOnly, WaitSlot
  <2>2. [queue[index] EXCEPT !.send_times = queue[index].send_times] = queue[index]
    BY <1>1 DEF Message
  <2>3. QED BY <1>1, <2>1, <2>2 DEF Leave, SendTypeOK
<1>3. InBook' = InBook /\ Used' = Used
  BY <1>1, <1>2, BookStays
<1>4. key \in ToDo /\ ToDo' = ToDo \ {key}
  BY <1>1, <1>2, <1>3, RoundGoesOn
<1>5. InBook[key].timing = "recent"
  <2>1. InBook[key] = Line[index]
    BY <1>1, InBookBefore
  <2>2. Line[index].timing = timing[index]
    <3>1. Line[index] = [type |-> queue[index].type, left |-> Left(index), timing |-> timing[index]]
      BY <1>1, LineOf
    <3>2. QED BY <3>1
  <2>3. QED BY <1>1, <2>1, <2>2
<1>6. QED BY <1>3, <1>4, <1>5 DEF Book!Settle

LEMMA TimeRefines ==
    ASSUME IInv, IInv', NEW i \in Slots, TimePasses(i)
    PROVE  Book!ComesDue(queue[i].key)
<1> DEFINE key == queue[i].key
<1>1. /\ SendTypeOK /\ OneEach /\ OneEach' /\ i \in Used /\ timing[i] = "recent"
      /\ timing' = [timing EXCEPT ![i] = "due"] /\ queue' = queue /\ Used' = Used
      /\ at' = at /\ index' = index
  BY DEF IInv, TimePasses, Used
<1>2. ToDo' = ToDo
  BY <1>1 DEF ToDo, KeysIn
<1>3. /\ timing'[i] = "due"
      /\ \A j \in Used \ {i} : queue'[j].key = queue[j].key /\ Line'[j] = Line[j]
  BY <1>1 DEF SendTypeOK, Used, Line, Left
<1>4. Book!Enter(key, Line'[i])
  <2>1. queue'[i].key = key /\ Used' = Used \cup {i} /\ i \in Used'
    BY <1>1
  <2>2. Book!Enter(queue'[i].key, Line'[i])
    BY <1>1, <1>3, <2>1, Enters
  <2>3. QED BY <2>1, <2>2
<1>5. key \in Book!Waiting /\ InBook[key] = Line[i]
  BY <1>1, InBookBefore DEF Book!Waiting
<1>6. Line[i] = [type |-> queue[i].type, left |-> Left(i), timing |-> "recent"]
  BY <1>1, LineOf
<1>7. Line'[i] = [type |-> queue[i].type, left |-> Left(i), timing |-> "due"]
  BY <1>1, <1>3 DEF Line, Left
<1>8. Line'[i] = [InBook[key] EXCEPT !.timing = "due"] /\ InBook[key].timing = "recent"
  BY <1>5, <1>6, <1>7
<1>9. Book!Enter(key, [InBook[key] EXCEPT !.timing = "due"])
  BY <1>4, <1>8
<1>10. QED BY <1>2, <1>5, <1>8, <1>9 DEF Book!ComesDue

\* An empty slot is no step of the book; a round without an alarm is one.
LEMMA NothingRefines ==
    ASSUME IInv
    PROVE  /\ TakeNothing => Book!TakeNothing
           /\ EmptySlot \/ sendVars' = sendVars => UNCHANGED Book!vars
<1>1. SendTypeOK /\ OneEach
  BY DEF IInv
<1>2. ASSUME TakeNothing PROVE Book!TakeNothing
  <2>1. at = "take" /\ GoSend /\ InBook' = InBook /\ Used' = Used /\ queue' = queue
    BY <1>2, BookStays DEF TakeNothing
  <2>2. ToDo = {} /\ ToDo' = InWait' /\ InWait' = InWait
    BY <2>1, RoundStarts DEF InWait
  <2>3. QED BY <1>1, <2>1, <2>2, InBookBefore DEF Book!TakeNothing, Book!Waiting
<1>3. ASSUME EmptySlot PROVE UNCHANGED Book!vars
  <2>1. /\ at = "send" /\ NextSlot /\ index \notin Used /\ queue' = queue
        /\ InBook' = InBook /\ Used' = Used
    BY <1>3, BookStays DEF EmptySlot
  <2>2. ToDo' = ToDo
    BY <1>1, <2>1, RoundGoesOn
  <2>3. QED BY <2>1, <2>2 DEF Book!vars
<1>4. ASSUME sendVars' = sendVars PROVE UNCHANGED Book!vars
  <2>1. InBook' = InBook /\ Used' = Used /\ queue' = queue /\ at' = at /\ index' = index
    BY <1>4, BookStays DEF sendVars
  <2>2. ToDo' = ToDo
    BY <2>1 DEF ToDo, KeysIn
  <2>3. QED BY <2>1, <2>2 DEF Book!vars
<1>5. QED BY <1>2, <1>3, <1>4

LEMMA NewOnlyStep == ASSUME IInv, IInv', NewOnly, [SendNext]_sendVars PROVE NewOnly'
<1> USE DEF NewOnly
<1>1. SendTypeOK /\ SendTypeOK' /\ Used \subseteq Slots /\ \A i \in Used : queue[i] \in Message
  BY UsedFacts DEF IInv
<1>2. ASSUME NEW key \in Keys, NEW type \in Types, Take(key, type) PROVE NewOnly'
  <2>1. CASE Refuse(key)
    BY <2>1 DEF Refuse, Used
  <2>2. CASE Overwrite(key, type) \/ Insert(key, type)
    <3>1. PICK s \in Slots : /\ timing' = [timing EXCEPT ![s] = "never"]
                             /\ \A i \in Slots \ {s} : queue'[i] = queue[i]
      BY <1>1, <2>2 DEF Overwrite, Insert, SendTypeOK
    <3>2. timing'[s] = "never" /\ \A i \in Slots \ {s} : timing'[i] = timing[i]
      BY <1>1, <3>1 DEF SendTypeOK
    <3>3. QED BY <3>1, <3>2 DEF Used
  <2>3. QED BY <1>2, <2>1, <2>2 DEF Take
<1>3. CASE SendSlot
  <2> DEFINE left == Decrement(queue[index].send_times)
  <2>1. /\ index \in Used /\ Leave(index, left) /\ Sent(index)
        /\ queue[index].send_times \in 0..(2^Width - 1)
    BY <1>1, <1>3 DEF SendSlot, Sendable, Message
  <2>2. left \in 0..(2^Width - 1)
    BY <2>1, DecrementType
  <2> HIDE DEF left
  <2>3. /\ Used' = IF left = 0 THEN Used \ {index} ELSE Used
        /\ \A i \in Used \ {index} : queue'[i] = queue[i]
        /\ left # 0 => queue'[index] = [queue[index] EXCEPT !.send_times = left]
    BY <2>1, <2>2, LeaveFacts
  <2>4. \A i \in Slots \ {index} : timing'[i] = timing[i]
    BY <1>1, <2>1 DEF Sent, SendTypeOK
  <2>5. left # 0 => queue'[index].send_times # 0
    BY <1>1, <2>1, <2>3 DEF Message
  <2>6. ASSUME NEW i \in Used', queue'[i].send_times = 0 PROVE timing'[i] = "never"
    <3>1. i \in Used /\ i \in Slots \ {index}
      BY <1>1, <2>3, <2>5, <2>6
    <3>2. QED BY <2>3, <2>4, <2>6, <3>1
  <2>7. QED BY <2>6
<1>4. CASE WaitSlot
  <2>1. /\ index \in Used /\ queue[index].send_times # 0 /\ timing' = timing
        /\ Leave(index, queue[index].send_times)
    BY <1>4 DEF WaitSlot, Sendable
  <2>2. queue' = queue
    BY <1>1, <2>1 DEF Leave, SendTypeOK, Message
  <2>3. QED BY <2>1, <2>2 DEF Used
<1>5. ASSUME NEW j \in Slots, TimePasses(j) PROVE NewOnly'
  BY <1>1, <1>5 DEF TimePasses, Used, SendTypeOK
<1>6. CASE TakeNothing \/ EmptySlot \/ sendVars' = sendVars
  BY <1>6 DEF TakeNothing, EmptySlot, sendVars, Used
<1>7. QED BY <1>2, <1>3, <1>4, <1>5, <1>6 DEF SendNext, Round, Alarm

\* The queue of an alarm thread - slots, blocks of a pool, a time stamp and an unsigned
\* counter for each - is the book of AlarmBook, for any alarms, any number of slots and any
\* width of the counter.
THEOREM QueueIsBook == SendSpec => ImplementsBook
<1>1. SendInit => NewOnly /\ Book!Init
  <2>1. SUFFICES ASSUME SendInit PROVE NewOnly /\ Book!Init
    OBVIOUS
  <2>2. Used = {} /\ at = "take"
    BY <2>1 DEF SendInit, Used
  <2>3. KeysIn(Used) = {} /\ ToDo = {}
    BY <2>2 DEF KeysIn, ToDo
  <2>4. InBook = [key \in {} |-> Book!New("RAISE", 2^Width)]
    BY <2>3 DEF InBook
  <2>5. QED BY <2>2, <2>3, <2>4 DEF NewOnly, Book!Init
<1>2. IInv /\ IInv' /\ NewOnly /\ [SendNext]_sendVars => NewOnly'
  BY NewOnlyStep
<1>3. IInv /\ IInv' /\ NewOnly /\ [SendNext]_sendVars => [Book!Next]_(Book!vars)
  <2>1. SUFFICES ASSUME IInv, IInv', NewOnly, [SendNext]_sendVars PROVE [Book!Next]_(Book!vars)
    OBVIOUS
  <2>2. \A i \in Used : queue[i].key \in Keys
    BY <2>1, UsedFacts DEF IInv, Message
  <2>3. ASSUME NEW key \in Keys, NEW type \in Types, Take(key, type) PROVE Book!Next
    <3>1. Book!Take(key, type)
      BY <2>1, <2>3, TakeRefines
    <3>2. type \in Book!Types
      BY DEF Types, Book!Types
    <3>3. QED BY <3>1, <3>2 DEF Book!Next
  <2>4. CASE SendSlot
    <3>1. queue[index].key \in Keys
      BY <2>2, <2>4 DEF SendSlot, Sendable
    <3>2. QED BY <2>1, <2>4, <3>1, SendSlotRefines DEF Book!Next
  <2>5. CASE WaitSlot
    <3>1. queue[index].key \in Keys
      BY <2>2, <2>5 DEF WaitSlot
    <3>2. QED BY <2>1, <2>5, <3>1, WaitSlotRefines DEF Book!Next
  <2>6. ASSUME NEW i \in Slots, TimePasses(i) PROVE Book!Next
    <3>1. queue[i].key \in Keys
      BY <2>2, <2>6 DEF TimePasses
    <3>2. QED BY <2>1, <2>6, <3>1, TimeRefines DEF Book!Next
  <2>7. CASE TakeNothing \/ EmptySlot \/ sendVars' = sendVars
    BY <2>1, <2>7, NothingRefines DEF Book!Next
  <2>8. QED BY <2>1, <2>3, <2>4, <2>5, <2>6, <2>7 DEF SendNext, Round, Alarm
<1>4. QED BY <1>1, <1>2, <1>3, InductiveInvariant, PTL DEF SendSpec, ImplementsBook, Book!Spec
=============================================================================
