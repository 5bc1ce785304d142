--------------------------- MODULE RecordBus_proofs ---------------------------
(***************************************************************************)
(* The safety properties of RecordBus, proved for every number of threads, *)
(* every size of the pools and rings and every listing of the blocks.      *)
(***************************************************************************)
EXTENDS RecordBus, TLAPS, FiniteSetTheorems, SequenceTheorems

(***************************************************************************)
(* The inductive invariant: with the types and the ownership of blocks,    *)
(* which variable holds a block at which label, which blocks are marked    *)
(* in_use, and how far main() is.                                          *)
(***************************************************************************)
PoolOf(v) == IF v = "msg" THEN "msg" ELSE "alarm"
Feeds(ring) == IF ring = "data" THEN "msg" ELSE "alarm"

\* A block stays with its pool: a data record never enters an alarm ring.
Kinds ==
    /\ \A pool \in Pools : free[pool] \in Seq(PoolBlocks(pool))
    /\ \A ring \in Rings : fifo[ring] \in Seq(PoolBlocks(Feeds(ring)))
    /\ \A t \in Threads, v \in Locals : held[t][v] \in PoolBlocks(PoolOf(v)) \cup {NoBlock}

\* The labels at which variable v holds a block, and the one where it is not yet marked.
HoldsAt(v) ==
    CASE v = "msg" -> {"mark_msg", "push_msg", "drop_msg", "write", "clear_free"}
      [] v = "alarm_msg" -> {"mark_alarm", "alloc_tmp", "undo_alarm", "mark_tmp", "push_sms",
                             "drop_alarm", "taken"}
      [] v = "tmp_alarm_msg" -> {"mark_tmp", "push_sms", "drop_alarm", "push_email", "drop_tmp"}

FreshAt(v) ==
    CASE v = "msg" -> "mark_msg"
      [] v = "alarm_msg" -> "mark_alarm"
      [] v = "tmp_alarm_msg" -> "mark_tmp"

HeldAt == \A t \in Threads, v \in Locals : held[t][v] # NoBlock <=> pc[t] \in HoldsAt(v)

\* Whatever another thread can reach is marked.
Marked ==
    /\ \A ring \in Rings : \A b \in Contents(fifo[ring]) : in_use[b] = 1
    /\ \A t \in Threads, v \in Locals :
          pc[t] \in HoldsAt(v) \ {FreshAt(v)} => in_use[held[t][v]] = 1

\* Threads that main() has not created yet have not moved.
Starting ==
    pc[Main] \in {"create", "set_status"} =>
        /\ step \in 1..Len(StartOrder)
        /\ \A i \in 1..Len(StartOrder) :
              i > step \/ (i = step /\ pc[Main] = "create") => pc[StartOrder[i]] = "init"

\* Threads that main() has joined have ended, or were never made.
Joined ==
    /\ pc[Main] \in {"terminate", "join", "wait"} =>
          /\ step \in 1..4
          /\ \A i \in 1..4 : i < step => \A t \in StopOrder[i] : NotRunning(t)
    /\ pc[Main] = "destroyed" => \A t \in Workers : NotRunning(t)

\* The variables that say where the blocks are.
BlocksTypeOK ==
    /\ free \in [Pools -> Seq(Blocks)]
    /\ in_use \in [Blocks -> {0, 1}]
    /\ fifo \in [Rings -> Seq(Blocks)]
    /\ held \in [Threads -> [Locals -> Blocks \cup {NoBlock}]]

Ownership == BlocksTypeOK /\ BlockOwnership /\ Kinds /\ NoBlockLost

Blocked == Ownership /\ HeldAt /\ Marked

IInv == TypeOK /\ Blocked /\ Starting /\ Joined

(***************************************************************************)
(* Lemmas about the contents of a list.                                    *)
(***************************************************************************)
\* Appending an element that is not in a list.
LEMMA AppendContents ==
    ASSUME NEW S, NEW s \in Seq(S), NEW x \in S
    PROVE  /\ Append(s, x) \in Seq(S)
           /\ Contents(Append(s, x)) = Contents(s) \cup {x}
           /\ HoldsOnce(s) /\ x \notin Contents(s) => HoldsOnce(Append(s, x))
<1>1. Append(s, x) \in Seq(S)
  OBVIOUS
<1>2. /\ DOMAIN s = 1..Len(s) /\ DOMAIN Append(s, x) = 1..(Len(s) + 1) /\ Len(s) \in Nat
      /\ \A i \in 1..Len(s) : Append(s, x)[i] = s[i]
      /\ Append(s, x)[Len(s) + 1] = x
  OBVIOUS
<1>3. Contents(Append(s, x)) = Contents(s) \cup {x}
  <2>1. \A y \in Contents(Append(s, x)) : y \in Contents(s) \cup {x}
    BY <1>2 DEF Contents
  <2>2. \A y \in Contents(s) \cup {x} : y \in Contents(Append(s, x))
    <3>1. ASSUME NEW y \in Contents(s)
          PROVE  y \in Contents(Append(s, x))
      <4>1. PICK i \in 1..Len(s) : y = s[i]
        BY <1>2 DEF Contents
      <4>2. i \in DOMAIN Append(s, x) /\ Append(s, x)[i] = y
        BY <4>1, <1>2
      <4>3. QED BY <4>2 DEF Contents
    <3>2. x \in Contents(Append(s, x))
      <4>1. Len(s) + 1 \in DOMAIN Append(s, x)
        BY <1>2
      <4>2. QED BY <4>1, <1>2 DEF Contents
    <3>3. QED BY <3>1, <3>2
  <2>3. QED BY <2>1, <2>2
<1>4. ASSUME HoldsOnce(s), x \notin Contents(s)
      PROVE  HoldsOnce(Append(s, x))
  <2>1. \A i \in 1..Len(s) : s[i] # x
    BY <1>2, <1>4 DEF Contents
  <2>2. QED BY <1>2, <1>4, <2>1 DEF HoldsOnce
<1>5. QED BY <1>1, <1>3, <1>4

\* Taking the head of a list that holds nothing twice.
LEMMA TailContents ==
    ASSUME NEW S, NEW s \in Seq(S), s # <<>>, HoldsOnce(s)
    PROVE  /\ Tail(s) \in Seq(S)
           /\ Head(s) \in S /\ Head(s) \in Contents(s)
           /\ Contents(Tail(s)) = Contents(s) \ {Head(s)}
           /\ HoldsOnce(Tail(s))
<1>1. /\ Tail(s) \in Seq(S) /\ Head(s) \in S
      /\ Len(s) \in Nat \ {0} /\ Len(Tail(s)) = Len(s) - 1
      /\ DOMAIN s = 1..Len(s) /\ DOMAIN Tail(s) = 1..(Len(s) - 1)
      /\ \A i \in 1..(Len(s) - 1) : Tail(s)[i] = s[i + 1]
      /\ Head(s) = s[1]
  BY HeadTailProperties, EmptySeq, LenProperties
<1>2. Head(s) \in Contents(s)
  BY <1>1 DEF Contents
<1>3. \A y \in Contents(Tail(s)) : y \in Contents(s) \ {Head(s)}
  <2>1. SUFFICES ASSUME NEW i \in 1..(Len(s) - 1)
                 PROVE  s[i + 1] \in Contents(s) \ {Head(s)}
    BY <1>1 DEF Contents
  <2>2. i + 1 \in 1..Len(s) /\ 1 \in 1..Len(s) /\ i + 1 # 1
    BY <1>1
  <2>3. QED BY <2>2, <1>1 DEF Contents, HoldsOnce
<1>4. \A y \in Contents(s) \ {Head(s)} : y \in Contents(Tail(s))
  <2>1. SUFFICES ASSUME NEW i \in 1..Len(s), s[i] # s[1]
                 PROVE  s[i] \in Contents(Tail(s))
    BY <1>1 DEF Contents
  <2>2. i - 1 \in 1..(Len(s) - 1) /\ (i - 1) + 1 = i
    BY <1>1, <2>1
  <2>3. QED BY <2>2, <1>1 DEF Contents
<1>5. HoldsOnce(Tail(s))
  <2>1. SUFFICES ASSUME NEW i \in 1..(Len(s) - 1), NEW j \in 1..(Len(s) - 1),
                        s[i + 1] = s[j + 1]
                 PROVE  i = j
    BY <1>1 DEF HoldsOnce
  <2>2. i + 1 \in 1..Len(s) /\ j + 1 \in 1..Len(s)
    BY <1>1
  <2>3. QED BY <2>1, <2>2, <1>1 DEF HoldsOnce
<1>6. QED BY <1>1, <1>2, <1>3, <1>4, <1>5

\* The empty list.
LEMMA EmptyContents ==
    /\ Contents(<<>>) = {} /\ HoldsOnce(<<>>)
    /\ \A S : <<>> \in Seq(S)
BY DEF Contents, HoldsOnce

\* A list that holds nothing twice is as long as its contents are many.
LEMMA HoldsOnceLength ==
    ASSUME NEW S, IsFiniteSet(S), NEW s \in Seq(S), HoldsOnce(s)
    PROVE  /\ Len(s) \in Nat
           /\ Len(s) <= Cardinality(S)
           /\ Contents(s) # S => Len(s) < Cardinality(S)
<1>1. /\ Len(s) \in Nat /\ DOMAIN s = 1..Len(s) /\ s \in [1..Len(s) -> S]
  BY LenProperties
<1>2. s \in Injection(1..Len(s), S)
  BY <1>1 DEF HoldsOnce, Injection, IsInjective
<1>3. Cardinality(1..Len(s)) = Len(s)
  BY <1>1, FS_Interval
<1>4. /\ Len(s) <= Cardinality(S)
      /\ Len(s) = Cardinality(S) => s \in Surjection(1..Len(s), S)
  BY <1>2, <1>3, FS_Injection
<1>5. s \in Surjection(1..Len(s), S) => Contents(s) = S
  BY <1>1 DEF Surjection, Contents
<1>6. Cardinality(S) \in Nat
  BY FS_CardinalityType
<1>7. QED BY <1>1, <1>4, <1>5, <1>6

(***************************************************************************)
(* Every way a block moves keeps Ownership.                                *)
(***************************************************************************)
LEMMA Pooled ==
    /\ NoBlock \notin MsgBlocks /\ NoBlock \notin AlarmBlocks
    /\ MsgBlocks \cap AlarmBlocks = {}
    /\ \A pool \in Pools : PoolBlocks(pool) \subseteq Blocks
    /\ Blocks = MsgBlocks \cup AlarmBlocks
BY BlocksAssumption DEF Blocks, Pools, PoolBlocks

\* mpool_alloc takes the head of a free list.
LEMMA PopFreeMoves ==
    ASSUME Ownership, NEW t \in Threads, NEW v \in Locals, NEW pool \in Pools,
           pool = PoolOf(v), held[t][v] = NoBlock, PopFree(t, pool, v)
    PROVE  /\ Ownership'
           /\ held' = [held EXCEPT ![t][v] = held'[t][v]] /\ held'[t][v] # NoBlock
           /\ in_use' = in_use /\ fifo' = fifo
<1> DEFINE b == Head(free[pool])
<1>1. /\ free[pool] \in Seq(PoolBlocks(pool)) /\ free[pool] # <<>> /\ HoldsOnce(free[pool])
  BY DEF Ownership, Kinds, BlockOwnership, ListsHoldOnce, PopFree
<1>2. /\ Tail(free[pool]) \in Seq(PoolBlocks(pool))
      /\ b \in PoolBlocks(pool) /\ b \in Contents(free[pool])
      /\ Contents(Tail(free[pool])) = Contents(free[pool]) \ {b}
      /\ HoldsOnce(Tail(free[pool]))
  BY <1>1, TailContents
<1>3. /\ fifo' = fifo /\ in_use' = in_use
      /\ free' = [free EXCEPT ![pool] = Tail(free[pool])]
      /\ held' = [held EXCEPT ![t][v] = b]
  BY DEF PopFree
<1>4. /\ b \in Blocks /\ b # NoBlock
      /\ Tail(free[pool]) \in Seq(Blocks)
  BY <1>2, Pooled, SeqMonotonic DEF Pools, PoolBlocks
<1>5. BlocksTypeOK'
  BY <1>3, <1>4 DEF Ownership, BlocksTypeOK
<1>6. /\ \A q \in Pools : free'[q] = IF q = pool THEN Tail(free[pool]) ELSE free[q]
      /\ \A u \in Threads, w \in Locals :
            held'[u][w] = IF u = t /\ w = v THEN b ELSE held[u][w]
  BY <1>3 DEF Ownership, BlocksTypeOK
<1>7. Kinds'
  BY <1>2, <1>3, <1>6 DEF Ownership, Kinds
<1>8. ListsHoldOnce'
  BY <1>2, <1>3, <1>6 DEF Ownership, BlockOwnership, ListsHoldOnce
<1>9. Disjoint'
  <2>1. /\ \A q \in Pools, ring \in Rings : Contents(free'[q]) \cap Contents(fifo'[ring]) = {}
        /\ \A r1, r2 \in Rings : r1 # r2 => Contents(fifo'[r1]) \cap Contents(fifo'[r2]) = {}
    <3>1. \A q \in Pools : Contents(free'[q]) \subseteq Contents(free[q])
      BY <1>2, <1>6
    <3>2. QED BY <3>1, <1>3 DEF Ownership, BlockOwnership, Disjoint
  <2>2. /\ \A ring \in Rings : b \notin Contents(fifo[ring])
        /\ \A u \in Threads, w \in Locals : held[u][w] # b
    <3>1. \A ring \in Rings : Contents(free[pool]) \cap Contents(fifo[ring]) = {}
      BY DEF Ownership, BlockOwnership, Disjoint
    <3>2. \A u \in Threads, w \in Locals :
              held[u][w] # NoBlock => held[u][w] \notin Contents(free[pool])
      BY DEF Ownership, BlockOwnership, Disjoint
    <3>3. QED BY <3>1, <3>2, <1>2, <1>4
  <2>3. \A q \in Pools : b \notin Contents(free'[q])
    <3>1. \A q \in Pools : q # pool => b \notin Contents(free[q])
      BY <1>2, Pooled, LenProperties
         DEF Ownership, Kinds, Contents, Pools, PoolBlocks
    <3>2. QED BY <3>1, <1>2, <1>6
  <2>4. \A u \in Threads, w \in Locals : held'[u][w] # NoBlock =>
            /\ \A q \in Pools : held'[u][w] \notin Contents(free'[q])
            /\ \A ring \in Rings : held'[u][w] \notin Contents(fifo'[ring])
            /\ \A u2 \in Threads, w2 \in Locals : held'[u2][w2] = held'[u][w] => u2 = u /\ w2 = w
    BY <2>2, <2>3, <1>2, <1>3, <1>6 DEF Ownership, BlockOwnership, Disjoint
  <2>5. QED BY <2>1, <2>4 DEF Disjoint
<1>10. NoBlockLost'
  BY <1>2, <1>3, <1>6, held[t][v] = NoBlock, Pooled DEF Ownership, NoBlockLost
<1>11. QED BY <1>3, <1>4, <1>5, <1>6, <1>7, <1>8, <1>9, <1>10 DEF Ownership, BlockOwnership

\* mpool_alloc sets in_use of the block it has taken.
LEMMA MarkInUseMoves ==
    ASSUME Ownership, NEW t \in Threads, NEW v \in Locals, held[t][v] # NoBlock,
           MarkInUse(t, v)
    PROVE  /\ Ownership'
           /\ in_use' = [in_use EXCEPT ![held[t][v]] = 1]
           /\ fifo' = fifo /\ held' = held
<1>1. /\ in_use' = [in_use EXCEPT ![held[t][v]] = 1]
      /\ free' = free /\ fifo' = fifo /\ held' = held
  BY DEF MarkInUse
<1>2. BlocksTypeOK'
  BY <1>1 DEF Ownership, BlocksTypeOK
<1>3. BlockOwnership' /\ Kinds' /\ NoBlockLost'
  <2>1. BlockOwnership'
    BY <1>1 DEF Ownership, BlockOwnership, ListsHoldOnce, Disjoint
  <2>2. Kinds'
    BY <1>1 DEF Ownership, Kinds
  <2>3. NoBlockLost'
    BY <1>1 DEF Ownership, NoBlockLost
  <2>4. QED BY <2>1, <2>2, <2>3
<1>4. QED BY <1>1, <1>2, <1>3 DEF Ownership

\* mpool_free, of a block that it does not refuse, appends it to the free list.
LEMMA FreeBlockMoves ==
    ASSUME Ownership, NEW t \in Threads, NEW v \in Locals, NEW pool \in Pools,
           pool = PoolOf(v), held[t][v] # NoBlock, in_use[held[t][v]] = 1,
           FreeBlock(t, pool, v)
    PROVE  /\ Ownership'
           /\ in_use' = [in_use EXCEPT ![held[t][v]] = 0]
           /\ fifo' = fifo /\ held' = [held EXCEPT ![t][v] = NoBlock]
           /\ \A ring \in Rings : held[t][v] \notin Contents(fifo[ring])
<1> DEFINE b == held[t][v]
<1>1. b \in PoolBlocks(pool) /\ b \in Blocks
  BY Pooled DEF Ownership, Kinds
<1>2. /\ in_use' = [in_use EXCEPT ![b] = 0]
      /\ free' = [free EXCEPT ![pool] = Append(free[pool], b)]
      /\ fifo' = fifo
      /\ held' = [held EXCEPT ![t][v] = NoBlock]
  BY <1>1 DEF FreeBlock, FreeAccepts
<1>3. /\ \A q \in Pools : b \notin Contents(free[q])
      /\ \A ring \in Rings : b \notin Contents(fifo[ring])
      /\ \A u \in Threads, w \in Locals : held[u][w] = b => u = t /\ w = v
  BY DEF Ownership, BlockOwnership, Disjoint
<1>4. /\ free[pool] \in Seq(PoolBlocks(pool)) /\ HoldsOnce(free[pool])
  BY DEF Ownership, Kinds, BlockOwnership, ListsHoldOnce
<1>5. /\ Append(free[pool], b) \in Seq(PoolBlocks(pool))
      /\ Contents(Append(free[pool], b)) = Contents(free[pool]) \cup {b}
      /\ HoldsOnce(Append(free[pool], b))
  BY <1>1, <1>3, <1>4, AppendContents
<1>6. Append(free[pool], b) \in Seq(Blocks)
  BY <1>5, Pooled, SeqMonotonic
<1>7. /\ \A q \in Pools : free'[q] = IF q = pool THEN Append(free[pool], b) ELSE free[q]
      /\ \A u \in Threads, w \in Locals :
            held'[u][w] = IF u = t /\ w = v THEN NoBlock ELSE held[u][w]
  BY <1>2 DEF Ownership, BlocksTypeOK
<1>8. BlocksTypeOK'
  BY <1>1, <1>2, <1>6 DEF Ownership, BlocksTypeOK
<1>9. Kinds'
  BY <1>2, <1>5, <1>7 DEF Ownership, Kinds
<1>10. ListsHoldOnce'
  BY <1>2, <1>5, <1>7 DEF Ownership, BlockOwnership, ListsHoldOnce
<1>11. Disjoint'
  <2>1. \A q \in Pools : Contents(free'[q]) \subseteq Contents(free[q]) \cup {b}
    BY <1>5, <1>7
  <2>2. \A q \in Pools, ring \in Rings : Contents(free'[q]) \cap Contents(fifo'[ring]) = {}
    <3>1. \A q \in Pools, ring \in Rings : Contents(free[q]) \cap Contents(fifo[ring]) = {}
      BY DEF Ownership, BlockOwnership, Disjoint
    <3>2. SUFFICES ASSUME NEW q \in Pools, NEW ring \in Rings
                   PROVE  Contents(free'[q]) \cap Contents(fifo[ring]) = {}
      BY <1>2
    <3>3. /\ Contents(free'[q]) \subseteq Contents(free[q]) \cup {b}
          /\ Contents(free[q]) \cap Contents(fifo[ring]) = {}
          /\ b \notin Contents(fifo[ring])
      BY <2>1, <3>1, <1>3
    <3>4. QED BY <3>3
  <2>3. \A u \in Threads, w \in Locals : held'[u][w] # NoBlock =>
            /\ held'[u][w] = held[u][w] /\ held[u][w] # b
    BY <1>3, <1>7
  <2>4. \A u \in Threads, w \in Locals : held'[u][w] # NoBlock =>
            /\ \A q \in Pools : held'[u][w] \notin Contents(free'[q])
            /\ \A ring \in Rings : held'[u][w] \notin Contents(fifo'[ring])
            /\ \A u2 \in Threads, w2 \in Locals : held'[u2][w2] = held'[u][w] => u2 = u /\ w2 = w
    <3>1. \A u \in Threads, w \in Locals : held[u][w] # NoBlock =>
            /\ \A q \in Pools : held[u][w] \notin Contents(free[q])
            /\ \A r \in Rings : held[u][w] \notin Contents(fifo[r])
            /\ \A u2 \in Threads, w2 \in Locals : held[u2][w2] = held[u][w] => u2 = u /\ w2 = w
      BY DEF Ownership, BlockOwnership, Disjoint
    <3>2. SUFFICES ASSUME NEW u \in Threads, NEW w \in Locals, held'[u][w] # NoBlock
                   PROVE  /\ \A q \in Pools : held'[u][w] \notin Contents(free'[q])
                          /\ \A r \in Rings : held'[u][w] \notin Contents(fifo'[r])
                          /\ \A u2 \in Threads, w2 \in Locals :
                                held'[u2][w2] = held'[u][w] => u2 = u /\ w2 = w
      OBVIOUS
    <3>3. held'[u][w] = held[u][w] /\ held[u][w] # b /\ held[u][w] # NoBlock
      BY <2>3, <3>2
    <3>4. \A q \in Pools : held'[u][w] \notin Contents(free'[q])
      BY <3>1, <3>3, <2>1
    <3>5. \A r \in Rings : held'[u][w] \notin Contents(fifo'[r])
      BY <3>1, <3>3, <1>2
    <3>6. \A u2 \in Threads, w2 \in Locals : held'[u2][w2] = held'[u][w] => u2 = u /\ w2 = w
      BY <3>1, <3>2, <3>3, <2>3
    <3>7. QED BY <3>4, <3>5, <3>6
  <2>5. \A r1, r2 \in Rings : r1 # r2 => Contents(fifo'[r1]) \cap Contents(fifo'[r2]) = {}
    BY <1>2 DEF Ownership, BlockOwnership, Disjoint
  <2>6. QED BY <2>2, <2>4, <2>5 DEF Disjoint
<1>12. NoBlockLost'
  BY <1>1, <1>2, <1>5, <1>7, Pooled DEF Ownership, NoBlockLost
<1>13. QED BY <1>2, <1>3, <1>8, <1>9, <1>10, <1>11, <1>12 DEF Ownership, BlockOwnership

\* ring_buffer_push appends the block to a ring.
LEMMA PushMoves ==
    ASSUME Ownership, NEW t \in Threads, NEW v \in Locals, NEW ring \in Rings,
           PoolOf(v) = Feeds(ring), held[t][v] # NoBlock, Push(t, ring, v)
    PROVE  /\ Ownership'
           /\ in_use' = in_use
           /\ held' = [held EXCEPT ![t][v] = NoBlock]
           /\ \A r \in Rings : Contents(fifo'[r]) \subseteq Contents(fifo[r]) \cup {held[t][v]}
<1> DEFINE b == held[t][v]
<1>1. b \in PoolBlocks(Feeds(ring)) /\ b \in Blocks
  BY Pooled DEF Ownership, Kinds, Feeds, Pools
<1>2. /\ fifo' = [fifo EXCEPT ![ring] = Append(fifo[ring], b)]
      /\ free' = free /\ in_use' = in_use
      /\ held' = [held EXCEPT ![t][v] = NoBlock]
  BY DEF Push
<1>3. /\ \A q \in Pools : b \notin Contents(free[q])
      /\ \A r \in Rings : b \notin Contents(fifo[r])
      /\ \A u \in Threads, w \in Locals : held[u][w] = b => u = t /\ w = v
  BY DEF Ownership, BlockOwnership, Disjoint
<1>4. fifo[ring] \in Seq(PoolBlocks(Feeds(ring))) /\ HoldsOnce(fifo[ring])
  BY DEF Ownership, Kinds, BlockOwnership, ListsHoldOnce
<1>5. /\ Append(fifo[ring], b) \in Seq(PoolBlocks(Feeds(ring)))
      /\ Contents(Append(fifo[ring], b)) = Contents(fifo[ring]) \cup {b}
      /\ HoldsOnce(Append(fifo[ring], b))
  BY <1>1, <1>3, <1>4, AppendContents
<1>6. Append(fifo[ring], b) \in Seq(Blocks)
  BY <1>5, Pooled, SeqMonotonic DEF Feeds, Pools
<1>7. /\ \A r \in Rings : fifo'[r] = IF r = ring THEN Append(fifo[ring], b) ELSE fifo[r]
      /\ \A u \in Threads, w \in Locals :
            held'[u][w] = IF u = t /\ w = v THEN NoBlock ELSE held[u][w]
  BY <1>2 DEF Ownership, BlocksTypeOK
<1>8. BlocksTypeOK'
  BY <1>2, <1>6 DEF Ownership, BlocksTypeOK
<1>9. Kinds'
  BY <1>2, <1>5, <1>7 DEF Ownership, Kinds
<1>10. ListsHoldOnce'
  BY <1>2, <1>5, <1>7 DEF Ownership, BlockOwnership, ListsHoldOnce
<1>11. /\ \A r \in Rings : Contents(fifo'[r]) \subseteq Contents(fifo[r]) \cup {b}
       /\ \A r \in Rings : r # ring => Contents(fifo'[r]) = Contents(fifo[r])
  BY <1>5, <1>7
<1>12. Disjoint'
  <2>1. \A q \in Pools, r \in Rings : Contents(free'[q]) \cap Contents(fifo'[r]) = {}
    <3>1. \A q \in Pools, r \in Rings : Contents(free[q]) \cap Contents(fifo[r]) = {}
      BY DEF Ownership, BlockOwnership, Disjoint
    <3>2. QED BY <3>1, <1>2, <1>3, <1>11
  <2>2. \A r1, r2 \in Rings : r1 # r2 => Contents(fifo'[r1]) \cap Contents(fifo'[r2]) = {}
    <3>1. \A r1, r2 \in Rings : r1 # r2 => Contents(fifo[r1]) \cap Contents(fifo[r2]) = {}
      BY DEF Ownership, BlockOwnership, Disjoint
    <3>2. QED BY <3>1, <1>3, <1>11
  <2>3. \A u \in Threads, w \in Locals : held'[u][w] # NoBlock =>
            /\ held'[u][w] = held[u][w] /\ held[u][w] # b
    BY <1>3, <1>7
  <2>4. \A u \in Threads, w \in Locals : held'[u][w] # NoBlock =>
            /\ \A q \in Pools : held'[u][w] \notin Contents(free'[q])
            /\ \A r \in Rings : held'[u][w] \notin Contents(fifo'[r])
            /\ \A u2 \in Threads, w2 \in Locals : held'[u2][w2] = held'[u][w] => u2 = u /\ w2 = w
    <3>1. \A u \in Threads, w \in Locals : held[u][w] # NoBlock =>
            /\ \A q \in Pools : held[u][w] \notin Contents(free[q])
            /\ \A r \in Rings : held[u][w] \notin Contents(fifo[r])
            /\ \A u2 \in Threads, w2 \in Locals : held[u2][w2] = held[u][w] => u2 = u /\ w2 = w
      BY DEF Ownership, BlockOwnership, Disjoint
    <3>2. SUFFICES ASSUME NEW u \in Threads, NEW w \in Locals, held'[u][w] # NoBlock
                   PROVE  /\ \A q \in Pools : held'[u][w] \notin Contents(free'[q])
                          /\ \A r \in Rings : held'[u][w] \notin Contents(fifo'[r])
                          /\ \A u2 \in Threads, w2 \in Locals :
                                held'[u2][w2] = held'[u][w] => u2 = u /\ w2 = w
      OBVIOUS
    <3>3. held'[u][w] = held[u][w] /\ held[u][w] # b /\ held[u][w] # NoBlock
      BY <2>3, <3>2
    <3>4. \A q \in Pools : held'[u][w] \notin Contents(free'[q])
      BY <3>1, <3>3, <1>2
    <3>5. \A r \in Rings : held'[u][w] \notin Contents(fifo'[r])
      BY <3>1, <3>3, <1>11
    <3>6. \A u2 \in Threads, w2 \in Locals : held'[u2][w2] = held'[u][w] => u2 = u /\ w2 = w
      BY <3>1, <3>2, <3>3, <2>3
    <3>7. QED BY <3>4, <3>5, <3>6
  <2>5. QED BY <2>1, <2>2, <2>4 DEF Disjoint
<1>13. NoBlockLost'
  <2>1. \A r \in Rings : Contents(fifo[r]) \subseteq Contents(fifo'[r])
    BY <1>5, <1>7
  <2>2. b \in Contents(fifo'[ring])
    BY <1>5, <1>7
  <2>3. QED BY <2>1, <2>2, <1>2, <1>7 DEF Ownership, NoBlockLost
<1>14. QED BY <1>2, <1>8, <1>9, <1>10, <1>11, <1>12, <1>13 DEF Ownership, BlockOwnership

\* ring_buffer_pop takes the head of a ring.
LEMMA PopMoves ==
    ASSUME Ownership, NEW t \in Threads, NEW v \in Locals, NEW ring \in Rings,
           PoolOf(v) = Feeds(ring), held[t][v] = NoBlock, Pop(t, ring, v)
    PROVE  /\ Ownership'
           /\ in_use' = in_use
           /\ held' = [held EXCEPT ![t][v] = held'[t][v]] /\ held'[t][v] # NoBlock
           /\ held'[t][v] \in Contents(fifo[ring])
           /\ \A r \in Rings : Contents(fifo'[r]) \subseteq Contents(fifo[r])
<1> DEFINE b == Head(fifo[ring])
<1>1. fifo[ring] \in Seq(PoolBlocks(Feeds(ring))) /\ fifo[ring] # <<>> /\ HoldsOnce(fifo[ring])
  BY DEF Ownership, Kinds, BlockOwnership, ListsHoldOnce, Pop
<1>2. /\ Tail(fifo[ring]) \in Seq(PoolBlocks(Feeds(ring)))
      /\ b \in PoolBlocks(Feeds(ring)) /\ b \in Contents(fifo[ring])
      /\ Contents(Tail(fifo[ring])) = Contents(fifo[ring]) \ {b}
      /\ HoldsOnce(Tail(fifo[ring]))
  BY <1>1, TailContents
<1>3. /\ fifo' = [fifo EXCEPT ![ring] = Tail(fifo[ring])]
      /\ free' = free /\ in_use' = in_use
      /\ held' = [held EXCEPT ![t][v] = b]
  BY DEF Pop
<1>4. /\ b \in Blocks /\ b # NoBlock
      /\ Tail(fifo[ring]) \in Seq(Blocks)
  BY <1>2, Pooled, SeqMonotonic DEF Feeds, Pools, PoolBlocks
<1>5. /\ \A r \in Rings : fifo'[r] = IF r = ring THEN Tail(fifo[ring]) ELSE fifo[r]
      /\ \A u \in Threads, w \in Locals :
            held'[u][w] = IF u = t /\ w = v THEN b ELSE held[u][w]
  BY <1>3 DEF Ownership, BlocksTypeOK
<1>6. BlocksTypeOK'
  BY <1>3, <1>4 DEF Ownership, BlocksTypeOK
<1>7. Kinds'
  BY <1>2, <1>3, <1>5 DEF Ownership, Kinds
<1>8. ListsHoldOnce'
  BY <1>2, <1>3, <1>5 DEF Ownership, BlockOwnership, ListsHoldOnce
<1>9. /\ \A r \in Rings : Contents(fifo'[r]) \subseteq Contents(fifo[r])
      /\ \A r \in Rings : b \notin Contents(fifo'[r])
  <2>1. \A r \in Rings : r # ring => Contents(fifo[r]) \cap Contents(fifo[ring]) = {}
    BY DEF Ownership, BlockOwnership, Disjoint
  <2>2. QED BY <2>1, <1>2, <1>5
<1>10. /\ \A q \in Pools : b \notin Contents(free[q])
       /\ \A u \in Threads, w \in Locals : held[u][w] # b
  <2>1. \A q \in Pools : Contents(free[q]) \cap Contents(fifo[ring]) = {}
    BY DEF Ownership, BlockOwnership, Disjoint
  <2>2. \A u \in Threads, w \in Locals :
            held[u][w] # NoBlock => held[u][w] \notin Contents(fifo[ring])
    BY DEF Ownership, BlockOwnership, Disjoint
  <2>3. QED BY <2>1, <2>2, <1>2, <1>4
<1>11. Disjoint'
  <2>1. \A q \in Pools, r \in Rings : Contents(free'[q]) \cap Contents(fifo'[r]) = {}
    <3>1. \A q \in Pools, r \in Rings : Contents(free[q]) \cap Contents(fifo[r]) = {}
      BY DEF Ownership, BlockOwnership, Disjoint
    <3>2. QED BY <3>1, <1>3, <1>9
  <2>2. \A r1, r2 \in Rings : r1 # r2 => Contents(fifo'[r1]) \cap Contents(fifo'[r2]) = {}
    <3>1. \A r1, r2 \in Rings : r1 # r2 => Contents(fifo[r1]) \cap Contents(fifo[r2]) = {}
      BY DEF Ownership, BlockOwnership, Disjoint
    <3>2. QED BY <3>1, <1>9
  <2>3. \A u \in Threads, w \in Locals : held'[u][w] # NoBlock =>
            /\ \A q \in Pools : held'[u][w] \notin Contents(free'[q])
            /\ \A r \in Rings : held'[u][w] \notin Contents(fifo'[r])
            /\ \A u2 \in Threads, w2 \in Locals : held'[u2][w2] = held'[u][w] => u2 = u /\ w2 = w
    <3>1. \A u \in Threads, w \in Locals : held[u][w] # NoBlock =>
            /\ \A q \in Pools : held[u][w] \notin Contents(free[q])
            /\ \A r \in Rings : held[u][w] \notin Contents(fifo[r])
            /\ \A u2 \in Threads, w2 \in Locals : held[u2][w2] = held[u][w] => u2 = u /\ w2 = w
      BY DEF Ownership, BlockOwnership, Disjoint
    <3>2. SUFFICES ASSUME NEW u \in Threads, NEW w \in Locals, held'[u][w] # NoBlock
                   PROVE  /\ \A q \in Pools : held'[u][w] \notin Contents(free'[q])
                          /\ \A r \in Rings : held'[u][w] \notin Contents(fifo'[r])
                          /\ \A u2 \in Threads, w2 \in Locals :
                                held'[u2][w2] = held'[u][w] => u2 = u /\ w2 = w
      OBVIOUS
    <3>3. CASE u = t /\ w = v
      <4>1. held'[u][w] = b
        BY <3>3, <1>5
      <4>2. \A u2 \in Threads, w2 \in Locals : held'[u2][w2] = b => u2 = t /\ w2 = v
        BY <1>5, <1>10
      <4>3. QED BY <3>3, <4>1, <4>2, <1>3, <1>9, <1>10
    <3>4. CASE ~(u = t /\ w = v)
      <4>1. held'[u][w] = held[u][w] /\ held[u][w] # NoBlock /\ held[u][w] # b
        BY <3>2, <3>4, <1>5, <1>10
      <4>2. \A q \in Pools : held'[u][w] \notin Contents(free'[q])
        BY <3>1, <4>1, <1>3
      <4>3. \A r \in Rings : held'[u][w] \notin Contents(fifo'[r])
        BY <3>1, <4>1, <1>9
      <4>4. \A u2 \in Threads, w2 \in Locals : held'[u2][w2] = held'[u][w] => u2 = u /\ w2 = w
        BY <3>1, <4>1, <1>5
      <4>5. QED BY <4>2, <4>3, <4>4
    <3>5. QED BY <3>3, <3>4
  <2>4. QED BY <2>1, <2>2, <2>3 DEF Disjoint
<1>12. NoBlockLost'
  <2>1. \A r \in Rings : Contents(fifo[r]) \subseteq Contents(fifo'[r]) \cup {b}
    BY <1>2, <1>5
  <2>2. held'[t][v] = b
    BY <1>5
  <2>3. SUFFICES ASSUME NEW c \in Blocks, c # b
                 PROVE  \/ \E q \in Pools : c \in PoolBlocks(q) /\ c \in Contents(free[q])
                        \/ \E r \in Rings : c \in Contents(fifo'[r])
                        \/ \E u \in Threads, w \in Locals : held'[u][w] = c
    BY <2>2, <1>3 DEF NoBlockLost
  <2>4. CASE \E q \in Pools : c \in PoolBlocks(q) /\ c \in Contents(free[q])
    BY <2>4
  <2>5. CASE \E r \in Rings : c \in Contents(fifo[r])
    BY <2>1, <2>3, <2>5
  <2>6. CASE \E u \in Threads, w \in Locals : held[u][w] = c
    <3>1. c # NoBlock
      BY Pooled
    <3>2. \A u \in Threads, w \in Locals : held[u][w] = c => held'[u][w] = c
      BY <3>1, <1>5
    <3>3. QED BY <3>2, <2>6
  <2>7. QED BY <2>4, <2>5, <2>6 DEF Ownership, NoBlockLost
<1>13. Ownership'
  BY <1>6, <1>7, <1>8, <1>11, <1>12 DEF Ownership, BlockOwnership
<1>14. held'[t][v] = b
  BY <1>5
<1>15. QED BY <1>2, <1>3, <1>4, <1>9, <1>13, <1>14

\* A step that moves no block.
LEMMA NoBlockMovesOwnership ==
    ASSUME Ownership, free' = free, in_use' = in_use, fifo' = fifo, held' = held
    PROVE  Ownership'
BY DEF Ownership, BlocksTypeOK, BlockOwnership, ListsHoldOnce, Disjoint, Kinds, NoBlockLost

(***************************************************************************)
(* A thread moves a block and goes to its next label.                      *)
(***************************************************************************)
\* The variables other than v keep what they hold between the labels l1 and l2.
Keeps(W, l1, l2) == \A w \in W : (l1 \in HoldsAt(w) <=> l2 \in HoldsAt(w)) /\ l1 # FreshAt(w)

LEMMA PopFreeStep ==
    ASSUME Blocked, NEW t \in Threads, NEW v \in Locals, NEW l, pc \in [Threads -> Labels],
           PopFree(t, PoolOf(v), v), Goto(t, l), l = FreshAt(v), l \in HoldsAt(v),
           pc[t] \notin HoldsAt(v), Keeps(Locals \ {v}, pc[t], l)
    PROVE  Blocked'
<1>1. held[t][v] = NoBlock /\ PoolOf(v) \in Pools
  BY DEF Blocked, HeldAt, PoolOf, Pools
<1>2. /\ Ownership'
      /\ held' = [held EXCEPT ![t][v] = held'[t][v]] /\ held'[t][v] # NoBlock
      /\ in_use' = in_use /\ fifo' = fifo
  BY <1>1, PopFreeMoves DEF Blocked
<1>3. /\ \A u \in Threads : pc'[u] = IF u = t THEN l ELSE pc[u]
      /\ \A u \in Threads, w \in Locals : u # t \/ w # v => held'[u][w] = held[u][w]
  BY <1>2 DEF Goto, Blocked, Ownership, BlocksTypeOK
<1>4. HeldAt'
  BY <1>2, <1>3 DEF Blocked, HeldAt, Keeps
<1>5. Marked'
  BY <1>2, <1>3 DEF Blocked, Marked, Keeps
<1>6. QED BY <1>2, <1>4, <1>5 DEF Blocked

LEMMA MarkInUseStep ==
    ASSUME Blocked, NEW t \in Threads, NEW v \in Locals, NEW l, pc \in [Threads -> Labels],
           MarkInUse(t, v), Goto(t, l), pc[t] \in HoldsAt(v), l \in HoldsAt(v),
           Keeps(Locals \ {v}, pc[t], l)
    PROVE  Blocked'
<1>1. held[t][v] # NoBlock
  BY DEF Blocked, HeldAt
<1>2. /\ Ownership' /\ in_use' = [in_use EXCEPT ![held[t][v]] = 1]
      /\ fifo' = fifo /\ held' = held
  BY <1>1, MarkInUseMoves DEF Blocked
<1>3. /\ \A u \in Threads : pc'[u] = IF u = t THEN l ELSE pc[u]
      /\ \A b \in Blocks : in_use'[b] = IF b = held[t][v] THEN 1 ELSE in_use[b]
      /\ held[t][v] \in Blocks
  BY <1>1, <1>2 DEF Goto, Blocked, Ownership, BlocksTypeOK
<1>4. HeldAt'
  BY <1>2, <1>3 DEF Blocked, HeldAt, Keeps
<1>5. Marked'
  <2>1. \A ring \in Rings : \A b \in Contents(fifo[ring]) : b \in Blocks
    BY LenProperties DEF Blocked, Ownership, BlocksTypeOK, Contents
  <2>2. \A ring \in Rings : \A b \in Contents(fifo'[ring]) : in_use'[b] = 1
    BY <2>1, <1>2, <1>3 DEF Blocked, Marked
  <2>3. SUFFICES ASSUME NEW u \in Threads, NEW w \in Locals,
                        pc'[u] \in HoldsAt(w) \ {FreshAt(w)}
                 PROVE  in_use'[held[u][w]] = 1
    BY <2>2, <1>2 DEF Marked
  <2>4. held'[u][w] # NoBlock /\ held[u][w] \in Blocks
    BY <2>3, <1>4, <1>2 DEF HeldAt, Blocked, Ownership, BlocksTypeOK
  <2>5. (u = t /\ w = v) \/ pc[u] \in HoldsAt(w) \ {FreshAt(w)}
    BY <2>3, <1>3 DEF Keeps
  <2>6. QED BY <2>4, <2>5, <1>3 DEF Blocked, Marked
<1>6. QED BY <1>2, <1>4, <1>5 DEF Blocked

LEMMA FreeBlockStep ==
    ASSUME Blocked, NEW t \in Threads, NEW v \in Locals, NEW l, pc \in [Threads -> Labels],
           FreeBlock(t, PoolOf(v), v), Goto(t, l), l \notin HoldsAt(v),
           pc[t] \in HoldsAt(v) \ {FreshAt(v)}, Keeps(Locals \ {v}, pc[t], l)
    PROVE  Blocked'
<1>1. held[t][v] # NoBlock /\ in_use[held[t][v]] = 1 /\ PoolOf(v) \in Pools
  BY DEF Blocked, HeldAt, Marked, PoolOf, Pools
<1>2. /\ Ownership' /\ in_use' = [in_use EXCEPT ![held[t][v]] = 0]
      /\ fifo' = fifo /\ held' = [held EXCEPT ![t][v] = NoBlock]
      /\ \A ring \in Rings : held[t][v] \notin Contents(fifo[ring])
  BY <1>1, FreeBlockMoves DEF Blocked
<1>3. /\ \A u \in Threads : pc'[u] = IF u = t THEN l ELSE pc[u]
      /\ \A b \in Blocks : b # held[t][v] => in_use'[b] = in_use[b]
      /\ \A u \in Threads, w \in Locals :
            held'[u][w] = IF u = t /\ w = v THEN NoBlock ELSE held[u][w]
  BY <1>1, <1>2 DEF Goto, Blocked, Ownership, BlocksTypeOK
<1>4. HeldAt'
  BY <1>2, <1>3 DEF Blocked, HeldAt, Keeps
<1>5. Marked'
  <2>1. \A ring \in Rings : \A b \in Contents(fifo[ring]) : b \in Blocks
    BY LenProperties DEF Blocked, Ownership, BlocksTypeOK, Contents
  <2>2. \A ring \in Rings : \A b \in Contents(fifo'[ring]) : in_use'[b] = 1
    BY <2>1, <1>2, <1>3 DEF Blocked, Marked
  <2>3. SUFFICES ASSUME NEW u \in Threads, NEW w \in Locals,
                        pc'[u] \in HoldsAt(w) \ {FreshAt(w)}
                 PROVE  in_use'[held'[u][w]] = 1
    BY <2>2 DEF Marked
  <2>4. u # t \/ w # v
    BY <2>3, <1>3
  <2>5. held'[u][w] = held[u][w] /\ pc[u] \in HoldsAt(w) \ {FreshAt(w)}
    BY <2>3, <2>4, <1>3 DEF Keeps
  <2>6. held[u][w] # NoBlock /\ held[u][w] \in Blocks /\ held[u][w] # held[t][v]
    BY <2>4, <2>5, <1>1 DEF HeldAt, Blocked, Ownership, BlocksTypeOK, BlockOwnership, Disjoint
  <2>7. QED BY <2>5, <2>6, <1>3 DEF Blocked, Marked
<1>6. QED BY <1>2, <1>4, <1>5 DEF Blocked

LEMMA PushStep ==
    ASSUME Blocked, NEW t \in Threads, NEW v \in Locals, NEW ring \in Rings, NEW l,
           pc \in [Threads -> Labels], PoolOf(v) = Feeds(ring),
           Push(t, ring, v), Goto(t, l), l \notin HoldsAt(v),
           pc[t] \in HoldsAt(v) \ {FreshAt(v)}, Keeps(Locals \ {v}, pc[t], l)
    PROVE  Blocked'
<1>1. held[t][v] # NoBlock /\ in_use[held[t][v]] = 1
  BY DEF Blocked, HeldAt, Marked
<1>2. /\ Ownership' /\ in_use' = in_use
      /\ held' = [held EXCEPT ![t][v] = NoBlock]
      /\ \A r \in Rings : Contents(fifo'[r]) \subseteq Contents(fifo[r]) \cup {held[t][v]}
  BY <1>1, PushMoves DEF Blocked
<1>3. /\ \A u \in Threads : pc'[u] = IF u = t THEN l ELSE pc[u]
      /\ \A u \in Threads, w \in Locals :
            held'[u][w] = IF u = t /\ w = v THEN NoBlock ELSE held[u][w]
  BY <1>1, <1>2 DEF Goto, Blocked, Ownership, BlocksTypeOK
<1>4. HeldAt'
  BY <1>2, <1>3 DEF Blocked, HeldAt, Keeps
<1>5. Marked'
  BY <1>1, <1>2, <1>3 DEF Blocked, Marked, Keeps
<1>6. QED BY <1>2, <1>4, <1>5 DEF Blocked

LEMMA PopStep ==
    ASSUME Blocked, NEW t \in Threads, NEW v \in Locals, NEW ring \in Rings, NEW l,
           pc \in [Threads -> Labels], PoolOf(v) = Feeds(ring),
           Pop(t, ring, v), Goto(t, l), pc[t] \notin HoldsAt(v),
           l \in HoldsAt(v), Keeps(Locals \ {v}, pc[t], l)
    PROVE  Blocked'
<1>1. held[t][v] = NoBlock
  BY DEF Blocked, HeldAt
<1>2. /\ Ownership' /\ in_use' = in_use
      /\ held' = [held EXCEPT ![t][v] = held'[t][v]] /\ held'[t][v] # NoBlock
      /\ held'[t][v] \in Contents(fifo[ring])
      /\ \A r \in Rings : Contents(fifo'[r]) \subseteq Contents(fifo[r])
  BY <1>1, PopMoves DEF Blocked
<1>3. /\ \A u \in Threads : pc'[u] = IF u = t THEN l ELSE pc[u]
      /\ \A u \in Threads, w \in Locals : u # t \/ w # v => held'[u][w] = held[u][w]
  BY <1>2 DEF Goto, Blocked, Ownership, BlocksTypeOK
<1>4. HeldAt'
  BY <1>2, <1>3 DEF Blocked, HeldAt, Keeps
<1>5. Marked'
  BY <1>2, <1>3 DEF Blocked, Marked, Keeps
<1>6. QED BY <1>2, <1>4, <1>5 DEF Blocked

\* A step that moves no block, between labels that hold the same.
LEMMA NoMoveStep ==
    ASSUME Blocked, free' = free, in_use' = in_use, fifo' = fifo, held' = held,
           \A u \in Threads : pc'[u] = pc[u] \/ Keeps(Locals, pc[u], pc'[u])
    PROVE  Blocked'
<1>1. Ownership'
  BY NoBlockMovesOwnership DEF Blocked
<1>2. HeldAt'
  BY DEF Blocked, HeldAt, Keeps
<1>3. Marked'
  BY DEF Blocked, Marked, Keeps
<1>4. QED BY <1>1, <1>2, <1>3 DEF Blocked

(***************************************************************************)
(* Which thread moves, and what that leaves of main()'s bookkeeping.       *)
(***************************************************************************)
MainOnly == {"create", "set_status", "terminate", "join", "wait", "destroyed"}

\* A worker that is running, or main() while it raises an alarm, goes to label l.
LEMMA ControlStep ==
    ASSUME TypeOK, Starting, Joined, NEW t \in Threads, NEW l \in Labels, Goto(t, l),
           pc[t] \notin {"init", "done"},
           t = Main => pc[Main] \notin MainOnly /\ l \notin MainOnly,
           NoControl, work' \in [Workers -> 0..MaxWork], BlocksTypeOK'
    PROVE  TypeOK' /\ Starting' /\ Joined'
<1>1. /\ \A u \in Threads : pc'[u] = IF u = t THEN l ELSE pc[u]
      /\ pc' \in [Threads -> Labels] /\ step' = step /\ thread_status' = thread_status
  BY DEF Goto, TypeOK, NoControl
<1>2. TypeOK'
  BY <1>1 DEF TypeOK, BlocksTypeOK
<1>3. Main \in Threads /\ Workers \subseteq Threads
  BY DEF Threads
<1>4. Starting'
  <2>1. \A i \in 1..Len(StartOrder) : StartOrder[i] \in Threads
    BY ThreadsAssumption, <1>3
  <2>2. pc[Main] \in {"create", "set_status"} => pc'[Main] = pc[Main]
    BY <1>1, <1>3 DEF MainOnly
  <2>3. pc'[Main] \in {"create", "set_status"} => pc'[Main] = pc[Main]
    BY <1>1, <1>3 DEF MainOnly
  <2>4. QED BY <1>1, <2>1, <2>3 DEF Starting
<1>5. Joined'
  <2>1. pc'[Main] \in MainOnly => pc'[Main] = pc[Main]
    BY <1>1, <1>3 DEF MainOnly
  <2>2. \A u \in Threads : pc[u] \in {"init", "done"} => pc'[u] \in {"init", "done"}
    BY <1>1
  <2>3. \A i \in 1..4 : StopOrder[i] \subseteq Threads
    BY <1>3 DEF StopOrder, Workers, Notifiers
  <2>4. QED BY <1>1, <1>3, <2>1, <2>2, <2>3 DEF Joined, NotRunning, MainOnly
<1>6. QED BY <1>2, <1>4, <1>5

LEMMA BlocksTyped == TypeOK => BlocksTypeOK /\ pc \in [Threads -> Labels]
BY DEF TypeOK, BlocksTypeOK

LEMMA ThreadFacts ==
    /\ Main \notin Workers /\ Main \in Threads /\ Workers \subseteq Threads
    /\ Pollers \subseteq Workers /\ Notifiers \subseteq Workers /\ Writer \in Workers
    /\ \A n \in Notifiers : OwnRing(n) \in Rings /\ Feeds(OwnRing(n)) = "alarm"
    /\ "data" \in Rings /\ "sms" \in Rings /\ "email" \in Rings
    /\ Locals = {"msg", "alarm_msg", "tmp_alarm_msg"}
BY ThreadsAssumption DEF Threads, Workers, Notifiers, OwnRing, Rings, Feeds, Locals

(***************************************************************************)
(* One record.                                                             *)
(***************************************************************************)
LEMMA RecordInvariant ==
    ASSUME IInv, NEW t \in Workers, Record(t)
    PROVE  IInv'
<1> USE ThreadFacts DEF HoldsAt, FreshAt, PoolOf, Feeds
<1>0. /\ TypeOK /\ Blocked /\ Starting /\ Joined
      /\ pc \in [Threads -> Labels] /\ work \in [Workers -> 0..MaxWork]
      /\ t \in Threads /\ t # Main
  BY DEF IInv, TypeOK
<1>1. CASE AllocMsg(t)
  <2>1. pc[t] = "round" /\ work[t] > 0 /\ NoControl
    BY <1>1 DEF AllocMsg
  <2>2. work' \in [Workers -> 0..MaxWork]
    BY <1>0, <1>1, BlocksAssumption DEF AllocMsg
  <2>3. CASE PopFree(t, "msg", "msg") /\ Goto(t, "mark_msg")
    <3>1. Blocked'
      BY <1>0, <2>1, <2>3, PopFreeStep DEF Keeps
    <3>2. QED BY <3>1, <1>0, <2>1, <2>2, <2>3, ControlStep DEF IInv, Blocked, Ownership, Labels
  <2>4. CASE PoolEmpty("msg") /\ Goto(t, "round")
    <3>1. Blocked'
      BY <1>0, <2>1, <2>4, NoMoveStep DEF Keeps, Goto, PoolEmpty
    <3>2. QED BY <3>1, <1>0, <2>1, <2>2, <2>4, ControlStep DEF IInv, Blocked, Ownership, Labels
  <2>5. QED BY <1>1, <2>3, <2>4 DEF AllocMsg
<1>2. CASE MarkMsg(t)
  <2>1. pc[t] = "mark_msg" /\ NoControl /\ work' = work /\ MarkInUse(t, "msg") /\ Goto(t, "push_msg")
    BY <1>2 DEF MarkMsg
  <2>2. Blocked'
    BY <1>0, <2>1, MarkInUseStep DEF Keeps
  <2>3. QED BY <2>2, <1>0, <2>1, ControlStep DEF IInv, Blocked, Ownership, Labels
<1>3. CASE PushMsg(t)
  <2>1. pc[t] = "push_msg" /\ NoControl /\ work' = work
    BY <1>3 DEF PushMsg
  <2>2. ASSUME Push(t, "data", "msg"), NEW l \in AfterRecord(t), Goto(t, l)
        PROVE  IInv'
    <3>1. l \in {"round", "alloc_alarm"}
      BY <2>2 DEF AfterRecord
    <3>2. Blocked'
      BY <1>0, <2>1, <2>2, <3>1, PushStep DEF Keeps
    <3>3. QED BY <3>1, <3>2, <1>0, <2>1, <2>2, ControlStep DEF IInv, Blocked, Ownership, Labels
  <2>3. CASE PushFails("data") /\ Goto(t, "drop_msg")
    <3>1. Blocked'
      BY <1>0, <2>1, <2>3, NoMoveStep DEF Keeps, Goto, PushFails
    <3>2. QED BY <3>1, <1>0, <2>1, <2>3, ControlStep DEF IInv, Blocked, Ownership, Labels
  <2>4. QED BY <1>3, <2>2, <2>3 DEF PushMsg
<1>4. CASE DropMsg(t)
  <2>1. /\ pc[t] = "drop_msg" /\ NoControl /\ work' = work /\ FreeBlock(t, "msg", "msg")
    BY <1>4 DEF DropMsg
  <2>2. PICK l \in AfterRecord(t) : Goto(t, l)
    BY <1>4 DEF DropMsg
  <2>3. l \in {"round", "alloc_alarm"}
    BY <2>2 DEF AfterRecord
  <2>4. Blocked'
    BY <1>0, <2>1, <2>2, <2>3, FreeBlockStep DEF Keeps
  <2>5. QED BY <2>3, <2>4, <1>0, <2>1, <2>2, ControlStep DEF IInv, Blocked, Ownership, Labels
<1>5. QED BY <1>1, <1>2, <1>3, <1>4 DEF Record

(***************************************************************************)
(* One alarm.                                                              *)
(***************************************************************************)
LEMMA AlarmInvariant ==
    ASSUME IInv, NEW t \in Threads, Alarm(t)
    PROVE  IInv'
<1> USE ThreadFacts DEF HoldsAt, FreshAt, PoolOf, Feeds
<1> DEFINE AlarmLabels == {"alloc_alarm", "mark_alarm", "alloc_tmp", "undo_alarm", "mark_tmp",
                           "push_sms", "drop_alarm", "push_email", "drop_tmp"}
<1>0. /\ TypeOK /\ Blocked /\ Starting /\ Joined
      /\ pc \in [Threads -> Labels] /\ work \in [Workers -> 0..MaxWork]
      /\ Base(t) \in {"running", "round"} /\ Main \in Threads
  BY DEF IInv, TypeOK, Base
<1>1. /\ pc[t] \in AlarmLabels /\ NoControl /\ work' = work
  BY DEF Alarm, AllocAlarm, MarkAlarm, AllocTmp, UndoAlarm, MarkTmp, PushSms, DropAlarm,
         PushEmail, DropTmp
<1>2. \A l \in AlarmLabels \cup {"running", "round"} :
          Goto(t, l) /\ Blocked' => IInv'
  <2>1. SUFFICES ASSUME NEW l \in AlarmLabels \cup {"running", "round"}, Goto(t, l), Blocked'
                 PROVE  IInv'
    OBVIOUS
  <2>2. l \in Labels /\ l \notin MainOnly /\ pc[t] \notin MainOnly \cup {"init", "done"}
    BY <1>1, <2>1 DEF Labels, MainOnly
  <2>3. QED BY <2>1, <2>2, <1>0, <1>1, ControlStep DEF IInv, Blocked, Ownership
<1>3. CASE AllocAlarm(t)
  <2>1. pc[t] = "alloc_alarm"
    BY <1>3 DEF AllocAlarm
  <2>2. CASE PopFree(t, "alarm", "alarm_msg") /\ Goto(t, "mark_alarm")
    BY <2>1, <2>2, <1>0, <1>2, PopFreeStep DEF Keeps
  <2>3. CASE PoolEmpty("alarm") /\ Goto(t, Base(t))
    <3>1. Blocked'
      BY <2>1, <2>3, <1>0, NoMoveStep DEF Keeps, Goto, PoolEmpty
    <3>2. QED BY <3>1, <2>3, <1>0, <1>2
  <2>4. QED BY <1>3, <2>2, <2>3 DEF AllocAlarm
<1>4. CASE MarkAlarm(t)
  BY <1>4, <1>0, <1>2, MarkInUseStep DEF MarkAlarm, Keeps
<1>5. CASE AllocTmp(t)
  <2>1. pc[t] = "alloc_tmp"
    BY <1>5 DEF AllocTmp
  <2>2. CASE PopFree(t, "alarm", "tmp_alarm_msg") /\ Goto(t, "mark_tmp")
    BY <2>1, <2>2, <1>0, <1>2, PopFreeStep DEF Keeps
  <2>3. CASE PoolEmpty("alarm") /\ Goto(t, "undo_alarm")
    <3>1. Blocked'
      BY <2>1, <2>3, <1>0, NoMoveStep DEF Keeps, Goto, PoolEmpty
    <3>2. QED BY <3>1, <2>3, <1>0, <1>2
  <2>4. QED BY <1>5, <2>2, <2>3 DEF AllocTmp
<1>6. CASE UndoAlarm(t)
  <2>1. Blocked'
    BY <1>6, <1>0, FreeBlockStep DEF UndoAlarm, Keeps
  <2>2. QED BY <1>6, <2>1, <1>0, <1>2 DEF UndoAlarm
<1>7. CASE MarkTmp(t)
  BY <1>7, <1>0, <1>2, MarkInUseStep DEF MarkTmp, Keeps
<1>8. CASE PushSms(t)
  <2>1. pc[t] = "push_sms"
    BY <1>8 DEF PushSms
  <2>2. CASE Push(t, "sms", "alarm_msg") /\ Goto(t, "push_email")
    BY <2>1, <2>2, <1>0, <1>2, PushStep DEF Keeps
  <2>3. CASE PushFails("sms") /\ Goto(t, "drop_alarm")
    <3>1. Blocked'
      BY <2>1, <2>3, <1>0, NoMoveStep DEF Keeps, Goto, PushFails
    <3>2. QED BY <3>1, <2>3, <1>0, <1>2
  <2>4. QED BY <1>8, <2>2, <2>3 DEF PushSms
<1>9. CASE DropAlarm(t)
  BY <1>9, <1>0, <1>2, FreeBlockStep DEF DropAlarm, Keeps
<1>10. CASE PushEmail(t)
  <2>1. pc[t] = "push_email"
    BY <1>10 DEF PushEmail
  <2>2. CASE Push(t, "email", "tmp_alarm_msg") /\ Goto(t, Base(t))
    <3>1. Blocked'
      BY <2>1, <2>2, <1>0, PushStep DEF Keeps
    <3>2. QED BY <3>1, <2>2, <1>0, <1>2
  <2>3. CASE PushFails("email") /\ Goto(t, "drop_tmp")
    <3>1. Blocked'
      BY <2>1, <2>3, <1>0, NoMoveStep DEF Keeps, Goto, PushFails
    <3>2. QED BY <3>1, <2>3, <1>0, <1>2
  <2>4. QED BY <1>10, <2>2, <2>3 DEF PushEmail
<1>11. CASE DropTmp(t)
  <2>1. Blocked'
    BY <1>11, <1>0, FreeBlockStep DEF DropTmp, Keeps
  <2>2. QED BY <1>11, <2>1, <1>0, <1>2 DEF DropTmp
<1>12. QED BY <1>3, <1>4, <1>5, <1>6, <1>7, <1>8, <1>9, <1>10, <1>11 DEF Alarm

(***************************************************************************)
(* The loops.                                                              *)
(***************************************************************************)
LEMMA RoundEndsInvariant ==
    ASSUME IInv, NEW t \in Workers, RoundEnds(t)
    PROVE  IInv'
<1>1. /\ TypeOK /\ Blocked /\ Starting /\ Joined /\ t \in Threads /\ t # Main
      /\ pc \in [Threads -> Labels] /\ work \in [Workers -> 0..MaxWork]
      /\ pc[t] = "round" /\ Goto(t, "loop") /\ NoControl /\ NoBlockMoves /\ work' = work
  BY ThreadFacts DEF IInv, TypeOK, RoundEnds
<1>2. Blocked'
  BY <1>1, NoMoveStep, ThreadFacts DEF Keeps, Goto, NoBlockMoves, HoldsAt, FreshAt
<1>3. QED BY <1>1, <1>2, ControlStep DEF IInv, Blocked, Ownership, Labels

LEMMA HangsInvariant ==
    ASSUME IInv, Hangs
    PROVE  IInv'
<1>1. /\ TypeOK /\ Blocked /\ Starting /\ Joined /\ Email \in Threads /\ Email # Main
      /\ pc \in [Threads -> Labels] /\ work \in [Workers -> 0..MaxWork]
      /\ pc[Email] = "round" /\ Goto(Email, "hung") /\ NoControl /\ NoBlockMoves /\ work' = work
  BY ThreadFacts DEF IInv, TypeOK, Hangs, Notifiers
<1>2. Blocked'
  BY <1>1, NoMoveStep, ThreadFacts DEF Keeps, Goto, NoBlockMoves, HoldsAt, FreshAt
<1>3. QED BY <1>1, <1>2, ControlStep DEF IInv, Blocked, Ownership, Labels

LEMMA PollerLoopInvariant ==
    ASSUME IInv, NEW p \in Pollers, PollerLoop(p)
    PROVE  IInv'
<1>1. /\ TypeOK /\ Blocked /\ Starting /\ Joined /\ p \in Threads /\ p # Main
      /\ pc \in [Threads -> Labels]
      /\ pc[p] = "loop" /\ NoControl /\ NoBlockMoves
  BY ThreadFacts DEF IInv, TypeOK, PollerLoop
<1>2. work' \in [Workers -> 0..MaxWork]
  BY DEF IInv, TypeOK, PollerLoop
<1>3. PICK l \in {"round", "done"} : Goto(p, l)
  BY DEF PollerLoop
<1>4. Blocked'
  BY <1>1, <1>3, NoMoveStep, ThreadFacts DEF Keeps, Goto, NoBlockMoves, HoldsAt, FreshAt
<1>5. QED BY <1>1, <1>2, <1>3, <1>4, ControlStep DEF IInv, Blocked, Ownership, Labels

LEMMA NotifierLoopInvariant ==
    ASSUME IInv, NEW n \in Notifiers, NotifierLoop(n)
    PROVE  IInv'
<1> USE ThreadFacts DEF HoldsAt, FreshAt, PoolOf
<1>1. /\ TypeOK /\ Blocked /\ Starting /\ Joined /\ n \in Threads /\ n # Main
      /\ pc \in [Threads -> Labels]
      /\ pc[n] = "loop" /\ NoControl
  BY DEF IInv, TypeOK, NotifierLoop
<1>2. work' \in [Workers -> 0..MaxWork]
  BY DEF IInv, TypeOK, NotifierLoop
<1>3. CASE Pop(n, OwnRing(n), "alarm_msg") /\ Goto(n, "taken")
  <2>1. Blocked'
    BY <1>1, <1>3, PopStep DEF Keeps
  <2>2. QED BY <1>1, <1>2, <1>3, <2>1, ControlStep DEF IInv, Blocked, Ownership, Labels
<1>4. CASE PopFails(OwnRing(n)) /\ Goto(n, "round")
  <2>1. Blocked'
    BY <1>1, <1>4, NoMoveStep DEF Keeps, Goto, PopFails
  <2>2. QED BY <1>1, <1>2, <1>4, <2>1, ControlStep DEF IInv, Blocked, Ownership, Labels
<1>5. QED BY <1>3, <1>4 DEF NotifierLoop

LEMMA NotifierFreesInvariant ==
    ASSUME IInv, NEW n \in Notifiers, NotifierFrees(n)
    PROVE  IInv'
<1> USE ThreadFacts DEF HoldsAt, FreshAt, PoolOf
<1>1. /\ TypeOK /\ Blocked /\ Starting /\ Joined /\ n \in Threads /\ n # Main
      /\ pc \in [Threads -> Labels]
      /\ pc[n] = "taken" /\ NoControl /\ FreeBlock(n, "alarm", "alarm_msg") /\ Goto(n, "round")
  BY DEF IInv, TypeOK, NotifierFrees
<1>2. work' \in [Workers -> 0..MaxWork]
  BY DEF IInv, TypeOK, NotifierFrees
<1>3. Blocked'
  BY <1>1, FreeBlockStep DEF Keeps
<1>4. QED BY <1>1, <1>2, <1>3, ControlStep DEF IInv, Blocked, Ownership, Labels

LEMMA NotifierStopsInvariant ==
    ASSUME IInv, NEW n \in Notifiers, NotifierStops(n)
    PROVE  IInv'
<1>1. /\ TypeOK /\ Blocked /\ Starting /\ Joined /\ n \in Threads /\ n # Main
      /\ pc \in [Threads -> Labels] /\ work \in [Workers -> 0..MaxWork]
      /\ pc[n] = "loop" /\ Goto(n, "clear") /\ NoControl /\ NoBlockMoves /\ work' = work
  BY ThreadFacts DEF IInv, TypeOK, NotifierStops
<1>2. Blocked'
  BY <1>1, NoMoveStep, ThreadFacts DEF Keeps, Goto, NoBlockMoves, HoldsAt, FreshAt
<1>3. QED BY <1>1, <1>2, ControlStep DEF IInv, Blocked, Ownership, Labels

LEMMA WriterInvariant ==
    ASSUME IInv, WriterLoop(Writer) \/ WriterStores(Writer)
    PROVE  IInv'
<1> USE ThreadFacts DEF HoldsAt, FreshAt, PoolOf, Feeds
<1>1. /\ TypeOK /\ Blocked /\ Starting /\ Joined /\ Writer \in Threads /\ Writer # Main
      /\ pc \in [Threads -> Labels] /\ work \in [Workers -> 0..MaxWork]
      /\ NoControl /\ work' = work
  BY DEF IInv, TypeOK, WriterLoop, WriterStores
<1>2. CASE WriterLoop(Writer)
  <2>1. pc[Writer] = "loop"
    BY <1>2 DEF WriterLoop
  <2>2. CASE Pop(Writer, "data", "msg") /\ Goto(Writer, "write")
    <3>1. Blocked'
      BY <1>1, <2>1, <2>2, PopStep DEF Keeps
    <3>2. QED BY <1>1, <2>1, <2>2, <3>1, ControlStep DEF IInv, Blocked, Ownership, Labels
  <2>3. CASE NoBlockMoves /\ Goto(Writer, "clear")
    <3>1. Blocked'
      BY <1>1, <2>1, <2>3, NoMoveStep DEF Keeps, Goto, NoBlockMoves
    <3>2. QED BY <1>1, <2>1, <2>3, <3>1, ControlStep DEF IInv, Blocked, Ownership, Labels
  <2>4. QED BY <1>2, <2>2, <2>3 DEF WriterLoop
<1>3. CASE WriterStores(Writer)
  <2>1. pc[Writer] = "write" /\ FreeBlock(Writer, "msg", "msg") /\ Goto(Writer, "loop")
    BY <1>3 DEF WriterStores
  <2>2. Blocked'
    BY <1>1, <2>1, FreeBlockStep DEF Keeps
  <2>3. QED BY <1>1, <2>1, <2>2, ControlStep DEF IInv, Blocked, Ownership, Labels
<1>4. QED BY <1>2, <1>3

LEMMA ClearInvariant ==
    ASSUME IInv, NEW t \in Workers, ClearPop(t) \/ ClearFree(t)
    PROVE  IInv'
<1> USE ThreadFacts DEF HoldsAt, FreshAt, PoolOf, Feeds
<1>1. /\ TypeOK /\ Blocked /\ Starting /\ Joined /\ t \in Threads /\ t # Main
      /\ pc \in [Threads -> Labels] /\ work \in [Workers -> 0..MaxWork]
      /\ NoControl /\ work' = work
  BY DEF IInv, TypeOK, ClearPop, ClearFree
<1>2. CASE ClearPop(t)
  <2>1. pc[t] = "clear"
    BY <1>2 DEF ClearPop
  <2>2. CASE Pop(t, "data", "msg") /\ Goto(t, "clear_free")
    <3>1. Blocked'
      BY <1>1, <2>1, <2>2, PopStep DEF Keeps
    <3>2. QED BY <1>1, <2>1, <2>2, <3>1, ControlStep DEF IInv, Blocked, Ownership, Labels
  <2>3. CASE PopFails("data") /\ Goto(t, "done")
    <3>1. Blocked'
      BY <1>1, <2>1, <2>3, NoMoveStep DEF Keeps, Goto, PopFails
    <3>2. QED BY <1>1, <2>1, <2>3, <3>1, ControlStep DEF IInv, Blocked, Ownership, Labels
  <2>4. QED BY <1>2, <2>2, <2>3 DEF ClearPop
<1>3. CASE ClearFree(t)
  <2>1. pc[t] = "clear_free" /\ FreeBlock(t, "msg", "msg") /\ Goto(t, "clear")
    BY <1>3 DEF ClearFree
  <2>2. Blocked'
    BY <1>1, <2>1, FreeBlockStep DEF Keeps
  <2>3. QED BY <1>1, <2>1, <2>2, ControlStep DEF IInv, Blocked, Ownership, Labels
<1>4. QED BY <1>2, <1>3

(***************************************************************************)
(* main().                                                                 *)
(***************************************************************************)
LEMMA MainInvariant ==
    ASSUME IInv, \/ Create \/ CreateFails \/ SetStatus \/ PowerFails \/ RebootAsked
                 \/ Terminate \/ JoinClears \/ Join
    PROVE  IInv'
<1> USE ThreadFacts
<1>0. /\ TypeOK /\ Blocked /\ Starting /\ Joined
      /\ pc \in [Threads -> Labels] /\ work \in [Workers -> 0..MaxWork]
      /\ thread_status \in [Workers -> {0, 1}] /\ step \in Nat
      /\ NoBlockMoves
  BY DEF IInv, TypeOK, Create, CreateFails, SetStatus, StartNext, PowerFails, RebootAsked,
         Terminate, JoinClears, Join
<1>1. /\ Len(StartOrder) \in Nat /\ DOMAIN StartOrder = 1..Len(StartOrder)
      /\ \A i \in 1..Len(StartOrder) : StartOrder[i] \in Workers
      /\ \A i, j \in 1..Len(StartOrder) : StartOrder[i] = StartOrder[j] => i = j
      /\ \A t \in Workers : \E i \in 1..Len(StartOrder) : StartOrder[i] = t
  BY ThreadsAssumption, LenProperties DEF HoldsOnce, Contents
<1>2. BlocksTypeOK'
  BY <1>0 DEF NoBlockMoves, TypeOK, BlocksTypeOK
<1>3. /\ Len(StopOrder) = 4
      /\ \A i \in 1..4 : StopOrder[i] \subseteq Workers
      /\ \A t \in Workers : \E i \in 1..4 : t \in StopOrder[i]
  BY DEF StopOrder, Workers, Notifiers
<1>4. CASE Create
  <2> DEFINE t == StartOrder[step]
  <2>1. /\ pc[Main] = "create" /\ step \in 1..Len(StartOrder) /\ t \in Workers /\ pc[t] = "init"
        /\ step' = step /\ thread_status' = thread_status
    BY <1>0, <1>1, <1>4 DEF Create, Starting, NoControl
  <2>2. PICK l \in {"round", "loop", "done"} : pc' = [pc EXCEPT ![Main] = "set_status", ![t] = l]
    BY <1>4 DEF Create
  <2>3. \A u \in Threads : pc'[u] = IF u = t THEN l ELSE IF u = Main THEN "set_status" ELSE pc[u]
    BY <1>0, <2>1, <2>2
  <2>4. Blocked'
    BY <1>0, <2>1, <2>3, NoMoveStep DEF NoBlockMoves, Keeps, HoldsAt, FreshAt
  <2>5. work' \in [Workers -> 0..MaxWork]
    BY <1>0, <1>4 DEF Create
  <2>6. TypeOK'
    BY <1>0, <1>2, <2>1, <2>2, <2>5 DEF TypeOK, BlocksTypeOK, Labels
  <2>7. Starting'
    <3>1. \A i \in 1..Len(StartOrder) : i > step => StartOrder[i] # t /\ StartOrder[i] # Main
      BY <1>1, <2>1
    <3>2. pc'[Main] = "set_status"
      BY <2>1, <2>3
    <3>3. QED BY <1>0, <1>1, <2>1, <2>3, <3>1, <3>2 DEF Starting
  <2>8. Joined'
    BY <2>1, <2>3 DEF Joined
  <2>9. QED BY <2>4, <2>6, <2>7, <2>8 DEF IInv
<1>5. CASE CreateFails \/ SetStatus
  <2>1. /\ pc[Main] \in {"create", "set_status"} /\ step \in 1..Len(StartOrder) /\ step' = step + 1
        /\ work' = work
    BY <1>0, <1>5 DEF CreateFails, SetStatus, StartNext, Starting
  <2>2. PICK l \in {"create", "running"} :
            /\ pc' = [pc EXCEPT ![Main] = l]
            /\ l = "create" => step < Len(StartOrder)
    BY <1>5, <1>1, <2>1 DEF CreateFails, SetStatus, StartNext, Goto
  <2>3. \A u \in Threads : pc'[u] = IF u = Main THEN l ELSE pc[u]
    BY <1>0, <2>2
  <2>4. Blocked'
    BY <1>0, <2>1, <2>3, NoMoveStep DEF NoBlockMoves, Keeps, HoldsAt, FreshAt
  <2>5. thread_status' \in [Workers -> {0, 1}]
    BY <1>0, <1>5 DEF CreateFails, SetStatus
  <2>6. TypeOK'
    BY <1>0, <1>2, <2>1, <2>2, <2>5 DEF TypeOK, BlocksTypeOK, Labels
  <2>7. Starting'
    <3>1. SUFFICES ASSUME pc'[Main] \in {"create", "set_status"}
                   PROVE  /\ step' \in 1..Len(StartOrder)
                          /\ \A i \in 1..Len(StartOrder) :
                                i >= step' => pc'[StartOrder[i]] = "init"
      BY <1>1, <2>1 DEF Starting
    <3>2. l = "create" /\ step' \in 1..Len(StartOrder)
      BY <3>1, <2>1, <2>2, <2>3, <1>1
    <3>3. \A i \in 1..Len(StartOrder) : i >= step' => i > step /\ StartOrder[i] # Main
      BY <1>1, <2>1
    <3>4. QED BY <3>2, <3>3, <1>0, <1>1, <2>1, <2>3 DEF Starting
  <2>8. Joined'
    BY <2>2, <2>3 DEF Joined
  <2>9. QED BY <2>4, <2>6, <2>7, <2>8 DEF IInv
<1>6. CASE PowerFails
  <2>1. /\ pc[Main] = "running" /\ Goto(Main, "alloc_alarm") /\ work' = work /\ NoControl
    BY <1>6 DEF PowerFails
  <2>2. Blocked'
    BY <1>0, <2>1, NoMoveStep DEF NoBlockMoves, Keeps, Goto, HoldsAt, FreshAt
  <2>3. QED BY <1>0, <1>2, <2>1, <2>2, ControlStep DEF IInv, Labels, MainOnly
<1>7. CASE RebootAsked
  <2>1. /\ pc[Main] = "running" /\ pc' = [pc EXCEPT ![Main] = "terminate"] /\ step' = 1
        /\ work' = work /\ thread_status' = thread_status
    BY <1>7 DEF RebootAsked, Goto
  <2>2. \A u \in Threads : pc'[u] = IF u = Main THEN "terminate" ELSE pc[u]
    BY <1>0, <2>1
  <2>3. Blocked'
    BY <1>0, <2>1, <2>2, NoMoveStep DEF NoBlockMoves, Keeps, HoldsAt, FreshAt
  <2>4. TypeOK'
    BY <1>0, <1>2, <2>1 DEF TypeOK, BlocksTypeOK, Labels
  <2>5. Starting' /\ Joined'
    BY <2>1, <2>2 DEF Starting, Joined
  <2>6. QED BY <2>3, <2>4, <2>5 DEF IInv
<1>8. CASE Terminate \/ JoinClears
  <2>1. PICK l \in {"join", "wait"} :
            /\ pc[Main] \in {"terminate", "join"} /\ pc' = [pc EXCEPT ![Main] = l]
            /\ step' = step /\ work' = work
    BY <1>8 DEF Terminate, JoinClears, Goto
  <2>2. \A u \in Threads : pc'[u] = IF u = Main THEN l ELSE pc[u]
    BY <1>0, <2>1
  <2>3. Blocked'
    BY <1>0, <2>1, <2>2, NoMoveStep DEF NoBlockMoves, Keeps, HoldsAt, FreshAt
  <2>4. thread_status' \in [Workers -> {0, 1}]
    BY <1>0, <1>8 DEF Terminate, JoinClears, ClearStatus
  <2>5. TypeOK'
    BY <1>0, <1>2, <2>1, <2>4 DEF TypeOK, BlocksTypeOK, Labels
  <2>6. Starting' /\ Joined'
    BY <1>0, <1>3, <2>1, <2>2 DEF Starting, Joined, NotRunning
  <2>7. QED BY <2>3, <2>5, <2>6 DEF IInv
<1>9. CASE Join
  <2>1. /\ pc[Main] = "wait" /\ step \in 1..4 /\ step' = step + 1
        /\ work' = work /\ thread_status' = thread_status
        /\ \A u \in StopOrder[step] : pc[u] \in {"init", "done"}
    BY <1>0, <1>9 DEF Join, Joined, NotRunning
  <2>2. PICK l \in {"terminate", "destroyed"} :
            /\ pc' = [pc EXCEPT ![Main] = l]
            /\ l = "terminate" <=> step < 4
    BY <1>9, <1>3, <2>1 DEF Join, Goto
  <2>3. \A u \in Threads : pc'[u] = IF u = Main THEN l ELSE pc[u]
    BY <1>0, <2>2
  <2>4. Blocked'
    BY <1>0, <2>1, <2>3, NoMoveStep DEF NoBlockMoves, Keeps, HoldsAt, FreshAt
  <2>5. TypeOK'
    BY <1>0, <1>2, <2>1, <2>2 DEF TypeOK, BlocksTypeOK, Labels
  <2>6. \A i \in 1..4 : i <= step => \A u \in StopOrder[i] : pc'[u] \in {"init", "done"}
    <3>1. \A i \in 1..4 : i <= step => \A u \in StopOrder[i] : pc[u] \in {"init", "done"}
      BY <1>0, <2>1 DEF Joined, NotRunning
    <3>2. QED BY <3>1, <1>3, <2>3
  <2>7. Joined'
    <3>1. CASE l = "terminate"
      BY <3>1, <2>1, <2>2, <2>3, <2>6 DEF Joined, NotRunning
    <3>2. CASE l = "destroyed"
      <4>1. step = 4
        BY <3>2, <2>1, <2>2
      <4>2. \A u \in Workers : pc'[u] \in {"init", "done"}
        BY <4>1, <2>6, <1>3
      <4>3. QED BY <3>2, <4>2, <2>3 DEF Joined, NotRunning
    <3>3. QED BY <3>1, <3>2
  <2>8. Starting'
    BY <2>2, <2>3 DEF Starting
  <2>9. QED BY <2>4, <2>5, <2>7, <2>8 DEF IInv
<1>10. QED BY <1>4, <1>5, <1>6, <1>7, <1>8, <1>9

(***************************************************************************)
(* The invariant.                                                          *)
(***************************************************************************)
LEMMA InitInvariant == Init => IInv
<1> SUFFICES ASSUME Init PROVE IInv
  OBVIOUS
<1>1. PICK msgs \in Listings(MsgBlocks), alarms \in Listings(AlarmBlocks) :
          free = [pool \in Pools |-> IF pool = "msg" THEN msgs ELSE alarms]
  BY DEF Init
<1>2. /\ in_use = [b \in Blocks |-> 0]
      /\ fifo = [ring \in Rings |-> <<>>]
      /\ held = [t \in Threads |-> [v \in Locals |-> NoBlock]]
      /\ pc = [t \in Threads |-> IF t = Main THEN "create" ELSE "init"]
      /\ work = [t \in Workers |-> 0]
      /\ thread_status = [t \in Workers |-> 0]
      /\ step = 1
  BY DEF Init
<1>3. /\ msgs \in Seq(MsgBlocks) /\ HoldsOnce(msgs) /\ Contents(msgs) = MsgBlocks
      /\ alarms \in Seq(AlarmBlocks) /\ HoldsOnce(alarms) /\ Contents(alarms) = AlarmBlocks
  <2>1. Cardinality(MsgBlocks) \in Nat /\ Cardinality(AlarmBlocks) \in Nat
    BY BlocksAssumption, FS_CardinalityType
  <2>2. QED BY <2>1 DEF Listings
<1>4. /\ \A pool \in Pools : /\ free[pool] \in Seq(PoolBlocks(pool)) /\ HoldsOnce(free[pool])
                             /\ Contents(free[pool]) = PoolBlocks(pool)
      /\ \A ring \in Rings : /\ fifo[ring] = <<>> /\ HoldsOnce(fifo[ring])
                             /\ Contents(fifo[ring]) = {}
  BY <1>1, <1>2, <1>3, EmptyContents DEF PoolBlocks
<1>5. BlocksTypeOK
  <2>1. msgs \in Seq(Blocks) /\ alarms \in Seq(Blocks)
    BY <1>3, SeqMonotonic, Pooled
  <2>2. QED BY <2>1, <1>1, <1>2, EmptyContents DEF BlocksTypeOK
<1>6. BlockOwnership
  BY <1>2, <1>4 DEF BlockOwnership, ListsHoldOnce, Disjoint
<1>7. Kinds
  BY <1>2, <1>4, EmptyContents DEF Kinds
<1>8. NoBlockLost
  BY <1>4, Pooled DEF NoBlockLost, Pools, PoolBlocks
<1>9. HeldAt /\ Marked
  <2>1. \A t \in Threads, v \in Locals : pc[t] \notin HoldsAt(v)
    BY <1>2 DEF HoldsAt, Locals
  <2>2. QED BY <1>2, <1>4, <2>1 DEF HeldAt, Marked
<1>10. TypeOK
  BY <1>2, <1>5, BlocksAssumption DEF TypeOK, BlocksTypeOK, Labels
<1>11. Starting /\ Joined
  <2>1. Len(StartOrder) \in Nat /\ DOMAIN StartOrder = 1..Len(StartOrder)
    BY ThreadsAssumption, LenProperties
  <2>2. Len(StartOrder) >= 1 /\ \A i \in 1..Len(StartOrder) : StartOrder[i] \in Workers
    BY <2>1, ThreadsAssumption, ThreadFacts DEF Contents
  <2>3. QED BY <1>2, <2>1, <2>2, ThreadFacts DEF Starting, Joined
<1>12. QED BY <1>5, <1>6, <1>7, <1>8, <1>9, <1>10, <1>11 DEF IInv, Blocked, Ownership

LEMMA NextInvariant == IInv /\ [Next]_vars => IInv'
<1> SUFFICES ASSUME IInv, [Next]_vars PROVE IInv'
  OBVIOUS
<1>1. ASSUME NEW p \in Pollers, PollerStep(p) PROVE IInv'
  BY <1>1, ThreadFacts, PollerLoopInvariant, RoundEndsInvariant, RecordInvariant, AlarmInvariant
     DEF PollerStep
<1>2. ASSUME NEW n \in Notifiers, NotifierStep(n) PROVE IInv'
  BY <1>2, ThreadFacts, NotifierLoopInvariant, NotifierFreesInvariant, NotifierStopsInvariant,
     RoundEndsInvariant, RecordInvariant, ClearInvariant DEF NotifierStep
<1>3. CASE WriterStep
  BY <1>3, ThreadFacts, WriterInvariant, ClearInvariant DEF WriterStep
<1>4. CASE MainStep \/ PowerFails \/ RebootAsked
  BY <1>4, ThreadFacts, MainInvariant, AlarmInvariant DEF MainStep
<1>5. CASE Spins \/ Finished \/ vars' = vars
  <2>1. vars' = vars
    BY <1>5 DEF Spins, Finished
  <2>2. Blocked'
    BY <2>1, NoMoveStep DEF vars, IInv
  <2>3. QED BY <2>1, <2>2 DEF IInv, vars, TypeOK, Starting, Joined, NotRunning
<1>6. CASE Hangs
  BY <1>6, HangsInvariant
<1>7. QED BY <1>1, <1>2, <1>3, <1>4, <1>5, <1>6 DEF Next

\* The inductive invariant holds in every reachable state.
THEOREM InductiveInvariant == Spec => []IInv
<1>1. Init => IInv
  BY InitInvariant
<1>2. IInv /\ [Next]_vars => IInv'
  BY NextInvariant
<1>3. QED BY <1>1, <1>2, PTL DEF Spec

(***************************************************************************)
(* The theorems.                                                           *)
(***************************************************************************)
\* The types of the variables.
THEOREM TypeCorrect == Spec => []TypeOK
BY InductiveInvariant, PTL DEF IInv

\* mem_pool.c, ring_buffer.c and their callers: no block is ever at two places, so no two
\* threads fill, send, store or free the same message.
THEOREM BlocksOwned == Spec => []BlockOwnership
<1>1. IInv => BlockOwnership
  BY DEF IInv, Blocked, Ownership
<1>2. QED BY <1>1, InductiveInvariant, PTL

\* No path through an allocation, a full ring or a shutdown loses a block.
THEOREM BlocksKept == Spec => []NoBlockLost
<1>1. IInv => NoBlockLost
  BY DEF IInv, Blocked, Ownership
<1>2. QED BY <1>1, InductiveInvariant, PTL

\* mpool_free never finds in_use = 0, although mpool_alloc sets it after unlocking.
THEOREM FreeAccepted == Spec => []FreeNeverRefused
<1>1. IInv => FreeNeverRefused
  <2>1. SUFFICES ASSUME IInv, NEW t \in Threads, NEW v \in Locals,
                        pc[t] \in HoldsAt(v) \ {FreshAt(v)}
                 PROVE  FreeAccepts(PoolOf(v), held[t][v])
    BY ThreadFacts DEF FreeNeverRefused, HoldsAt, FreshAt, PoolOf
  <2>2. held[t][v] # NoBlock /\ in_use[held[t][v]] = 1
    BY <2>1 DEF IInv, Blocked, HeldAt, Marked
  <2>3. QED BY <2>1, <2>2 DEF IInv, Blocked, Ownership, Kinds, FreeAccepts
<1>2. QED BY <1>1, InductiveInvariant, PTL

\* With a data ring as large as its pool, ring_buffer_push to it never returns -1.
THEOREM RoomInDataRing == Spec => []DataRingHasRoom
<1>1. IInv => DataRingHasRoom
  <2>1. SUFFICES ASSUME IInv, Cardinality(MsgBlocks) <= DataRingSize,
                        NEW t \in Threads, pc[t] = "push_msg"
                 PROVE  ~RingFull("data")
    BY DEF DataRingHasRoom
  <2>2. held[t]["msg"] \in MsgBlocks /\ held[t]["msg"] # NoBlock
    BY <2>1, ThreadFacts
       DEF IInv, Blocked, HeldAt, HoldsAt, Ownership, Kinds, PoolOf, PoolBlocks
  <2>3. held[t]["msg"] \notin Contents(fifo["data"])
    BY <2>1, <2>2, ThreadFacts DEF IInv, Blocked, Ownership, BlockOwnership, Disjoint
  <2>4. fifo["data"] \in Seq(MsgBlocks) /\ HoldsOnce(fifo["data"])
    BY <2>1, ThreadFacts
       DEF IInv, Blocked, Ownership, Kinds, Feeds, PoolBlocks, BlockOwnership, ListsHoldOnce
  <2>5. Len(fifo["data"]) \in Nat /\ Len(fifo["data"]) < Cardinality(MsgBlocks)
    BY <2>2, <2>3, <2>4, HoldsOnceLength, BlocksAssumption
  <2>6. Cardinality(MsgBlocks) \in Nat
    BY BlocksAssumption, FS_CardinalityType
  <2>7. QED BY <2>1, <2>5, <2>6, BlocksAssumption DEF RingFull, RingSize
<1>2. QED BY <1>1, InductiveInvariant, PTL

\* main() destroys pools and rings only when every worker has ended and nobody holds a block.
THEOREM NothingUsedAfterDestroy == Spec => []NoUseAfterDestroy
<1>1. IInv => NoUseAfterDestroy
  <2>1. SUFFICES ASSUME IInv, pc[Main] = "destroyed"
                 PROVE  /\ \A t \in Workers : pc[t] \in {"init", "done"}
                        /\ \A t \in Threads, v \in Locals : held[t][v] = NoBlock
    BY DEF NoUseAfterDestroy, NotRunning
  <2>2. \A t \in Workers : pc[t] \in {"init", "done"}
    BY <2>1 DEF IInv, Joined, NotRunning
  <2>3. \A t \in Threads, v \in Locals : pc[t] \notin HoldsAt(v)
    BY <2>1, <2>2 DEF HoldsAt, Threads, Locals
  <2>4. QED BY <2>1, <2>2, <2>3 DEF IInv, Blocked, HeldAt
<1>2. QED BY <1>1, InductiveInvariant, PTL

\* clean_data and the order of the joins: when the data_write thread has been stopped, no
\* record waits and every block of its pool is free.
THEOREM NothingLeftByWriter == Spec => WriterLeavesNothing
<1> DEFINE Ends == pc[Writer] # "done" /\ pc'[Writer] = "done" /\ Stopping
           Empty == fifo'["data"] = <<>> /\ Contents(free'["msg"]) = MsgBlocks
<1>1. IInv /\ [Next]_vars => [Ends => Empty]_vars
  <2>1. SUFFICES ASSUME IInv, [Next]_vars, Ends
                 PROVE  Empty
    OBVIOUS
  <2>2. IInv'
    BY <2>1, NextInvariant
  <2>3. pc \in [Threads -> Labels] /\ Writer \in Threads
        /\ pc[Main] \in {"join", "wait"}
    BY <2>1, ThreadFacts DEF IInv, TypeOK, Stopping
  <2>4. step = 4
    <3>1. step \in 1..4
      BY <2>1, <2>3 DEF IInv, Joined
    <3>2. Writer \notin StopOrder[1] \cup StopOrder[2] \cup StopOrder[3]
      BY ThreadsAssumption DEF StopOrder, Notifiers
    <3>3. QED BY <2>1, <3>1, <3>2 DEF Stopping
  <2>5. \A t \in Workers \ {Writer} : pc[t] \in {"init", "done"}
    <3>1. \A i \in 1..3 : \A t \in StopOrder[i] : pc[t] \in {"init", "done"}
      BY <2>1, <2>3, <2>4 DEF IInv, Joined, NotRunning
    <3>2. Workers \ {Writer} \subseteq StopOrder[1] \cup StopOrder[2] \cup StopOrder[3]
      BY DEF StopOrder, Workers, Notifiers
    <3>3. QED BY <3>1, <3>2
  <2>6. ClearPop(Writer) /\ PopFails("data") /\ Goto(Writer, "done")
    <3>1. pc' # pc
      BY <2>1
    <3>2. ~\E p \in Pollers : PollerStep(p)
      <4>1. SUFFICES ASSUME NEW p \in Pollers, PollerStep(p)
                     PROVE  FALSE
        OBVIOUS
      <4>2. pc[p] \notin {"init", "done"}
        BY <4>1 DEF PollerStep, PollerLoop, RoundEnds, Record, AllocMsg, MarkMsg, PushMsg,
                    DropMsg, Alarm, AllocAlarm, MarkAlarm, AllocTmp, UndoAlarm, MarkTmp,
                    PushSms, DropAlarm, PushEmail, DropTmp
      <4>3. QED BY <4>2, <2>5, ThreadsAssumption, ThreadFacts
    <3>3. ~\E n \in Notifiers : NotifierStep(n)
      <4>1. SUFFICES ASSUME NEW n \in Notifiers, NotifierStep(n)
                     PROVE  FALSE
        OBVIOUS
      <4>2. pc[n] \notin {"init", "done"}
        BY <4>1 DEF NotifierStep, NotifierLoop, NotifierFrees, NotifierStops, RoundEnds, Record,
                    AllocMsg, MarkMsg, PushMsg, DropMsg, ClearPop, ClearFree
      <4>3. QED BY <4>2, <2>5, ThreadsAssumption, ThreadFacts
    <3>4. ~(MainStep \/ PowerFails \/ RebootAsked \/ Hangs \/ Spins \/ Finished)
      <4>1. MainStep => JoinClears \/ Join
        BY <2>3 DEF MainStep, Create, CreateFails, SetStatus, Terminate, Alarm, AllocAlarm,
                    MarkAlarm, AllocTmp, UndoAlarm, MarkTmp, PushSms, DropAlarm, PushEmail, DropTmp
      <4>2. JoinClears \/ Join => pc'[Writer] = pc[Writer]
        BY <2>3, ThreadFacts DEF JoinClears, Join, Goto
      <4>3. ~Hangs
        BY <2>5, ThreadFacts, ThreadsAssumption DEF Hangs, Notifiers
      <4>4. QED BY <4>1, <4>2, <4>3, <2>1, <2>3, <3>1 DEF PowerFails, RebootAsked, Spins, Finished, vars
    <3>5. WriterStep
      BY <2>1, <3>1, <3>2, <3>3, <3>4 DEF Next, vars
    <3>6. \A l \in Labels : Goto(Writer, l) => l = "done"
      BY <2>1, <2>3 DEF Goto
    <3>7. QED BY <3>5, <3>6 DEF WriterStep, WriterLoop, WriterStores, ClearPop, ClearFree, Labels
  <2>7. fifo'["data"] = <<>>
    BY <2>6 DEF PopFails
  <2>8. \A t \in Threads, v \in Locals : held'[t][v] = NoBlock
    <3>1. \A t \in Threads : pc'[t] = IF t = Writer THEN "done" ELSE pc[t]
      BY <2>3, <2>6 DEF Goto
    <3>2. \A t \in Threads : pc'[t] \in {"init", "done", "join", "wait"}
      BY <3>1, <2>3, <2>5 DEF Threads
    <3>3. \A t \in Threads, v \in Locals : pc'[t] \notin HoldsAt(v)
      BY <3>2 DEF HoldsAt, Locals
    <3>4. QED BY <2>2, <3>3 DEF IInv, Blocked, HeldAt
  <2>9. Contents(free'["msg"]) = MsgBlocks
    <3>1. Contents(free'["msg"]) \subseteq MsgBlocks
      BY <2>2, LenProperties DEF IInv, Blocked, Ownership, Kinds, Pools, PoolBlocks, Contents
    <3>2. \A ring \in Rings : Contents(fifo'[ring]) \cap MsgBlocks = {}
      <4>1. Contents(fifo'["data"]) = {}
        BY <2>7, EmptyContents
      <4>2. \A ring \in Rings \ {"data"} : Contents(fifo'[ring]) \subseteq AlarmBlocks
        BY <2>2, LenProperties DEF IInv, Blocked, Ownership, Kinds, Feeds, PoolBlocks, Contents
      <4>3. QED BY <4>1, <4>2, Pooled
    <3>3. ASSUME NEW b \in MsgBlocks
          PROVE  b \in Contents(free'["msg"])
      <4>1. b \in Blocks /\ b # NoBlock /\ b \notin AlarmBlocks
        BY Pooled
      <4>2. PICK pool \in Pools : b \in PoolBlocks(pool) /\ b \in Contents(free'[pool])
        BY <2>2, <2>8, <3>2, <4>1 DEF IInv, Blocked, Ownership, NoBlockLost
      <4>3. QED BY <4>1, <4>2 DEF Pools, PoolBlocks
    <3>4. QED BY <3>1, <3>3
  <2>10. QED BY <2>7, <2>9
<1>2. Spec => [][Ends => Empty]_vars
  BY <1>1, InductiveInvariant, PTL DEF Spec
<1>3. QED BY <1>2 DEF WriterLeavesNothing
=============================================================================
