--------------------------- MODULE LfQueue_proofs ---------------------------
(***************************************************************************)
(* What the SNMP agent reads, for a queue of any size that lf_queue_init   *)
(* has finished, any number of messages and any number of pushes the       *)
(* producer dies in: with one process on each side the messages come out   *)
(* whole, in order and once each.                                          *)
(*                                                                         *)
(* The units are taken in turn, so a unit that was taken is known by its   *)
(* number: the v-th unit taken is UnitAt(v).  The inductive invariant says *)
(* that there are such numbers - of each element of the list (pos), of the *)
(* next unit to be settled (done) - and tells what lies behind done: the   *)
(* list, in order, and the units that a dead producer left in use (gone).  *)
(***************************************************************************)
EXTENDS LfQueue, FiniteSetTheorems, SequenceTheorems, TLAPS

\* One process on each side, the email thread and the agent: a second reader breaks the
\* queue (ReadOnce), and the product has none.
email == CHOOSE p \in Producers : TRUE
agent == CHOOSE c \in Consumers : TRUE
OneEach == Producers = {email} /\ Consumers = {agent}

M         == max_unit_num + 1      \* the units
UnitAt(v) == v % M

\* Labels: from the choice of a unit to its entry into the list, the producer holds it.
Holding == {"test_flag", "set_next", "set_flag", "copy", "copied", "read_tail", "walk", "walk_on",
            "link"}
PushLabels == Holding \cup {"idle", "alloc", "move_tail", "count"}
PopLabels  == {"idle", "read_head", "read_next", "move_head", "read_data", "clear_flag", "count_down"}

push == pc[email]
pop  == pc[agent]

Holds   == push \in Holding
Pushing == Holds \/ push = "alloc"
Popping == pop \in {"read_head", "read_next", "move_head"}

\* The same as numbers: units held, counted in w_len or still to be counted in r_len.
Held       == IF Holds THEN 1 ELSE 0
Begun      == IF Pushing THEN 1 ELSE 0
Uncounted  == IF push = "count" THEN 1 ELSE 0
Promised   == IF Popping THEN 1 ELSE 0
NotYetFree == IF pop = "count_down" THEN 1 ELSE 0

\* Elements, by their place in linked: the last one; p_head; the first one not yet freed
\* stands behind first.
last  == Len(linked)
head  == IF pop = "read_data" THEN Len(got) + 1 ELSE Len(got)
first == IF pop \in {"read_data", "clear_flag"} THEN head - 1 ELSE head

\* Types of the variables, with those of the labels.
LfTypes ==
    /\ LfTypeOK
    /\ pc \in [Procs -> PushLabels \cup PopLabels] /\ push \in PushLabels /\ pop \in PopLabels
    /\ linked \in Seq(1..MaxPush) /\ got \in Seq(1..MaxPush) /\ pushes \in 0..MaxPush
    /\ push # "idle" => reg[email].unit \in 1..MaxPush

\* The unit of the k-th element; the list starts with the unit END.
Place(pos, k) == IF k = 0 THEN END ELSE UnitAt(pos[k])

\* The elements were taken in order, and all of them within one round of the units.
InOrder(pos, done) ==
    /\ \A j, k \in first..last : j < k => pos[j] < pos[k]
    /\ pos[last] < done /\ done + Held <= pos[first] + M

\* A unit taken since is in the list, or gone.
Accounted(pos, done, gone) ==
    \A v \in (pos[first] + 1)..(done - 1) :
        UnitAt(v) \in gone \/ \E k \in (first + 1)..last : pos[k] = v

\* Whose turn it is.
Turn(done) ==
    /\ UnitAt(w_tail) = UnitAt(done + Held)
    /\ Holds => reg[email].w = UnitAt(done)

\* w_len counts them all: that is why a free unit is found.
Counted(gone) ==
    Cardinality(gone) + (last - first) + Begun + NotYetFree <= w_len

\* A unit in use is gone, in the list or held.
Flags(pos, gone) ==
    \A x \in Units : use_flag[x] =>
        \/ x \in gone
        \/ \E k \in (first + 1)..last : Place(pos, k) = x
        \/ push \in {"copy", "copied", "read_tail", "walk", "walk_on", "link"} /\ x = reg[email].w

\* next leads along the list, and the data are whole.
Linked(pos) ==
    /\ \A k \in first..(last - 1) : next[Place(pos, k)] = Place(pos, k + 1)
    /\ next[Place(pos, last)] = END
    /\ \A k \in (first + 1)..last : data[Place(pos, k)] = linked[k]

\* p_tail may lag behind a dead producer, but not behind what the reader was promised.
Ends(pos, tail) ==
    /\ p_head = Place(pos, head) /\ p_tail = Place(pos, tail)
    /\ head + r_len + Promised + Uncounted <= tail /\ tail <= last

\* What the producer has in its local variables.
PushState(pos, tail) ==
    /\ push = "move_tail" => tail < last /\ reg[email].old = p_tail /\ reg[email].w = Place(pos, last)
    /\ push \in {"link", "walk", "walk_on"} =>
          /\ reg[email].old = p_tail
          /\ \E m \in tail..last : reg[email].u = Place(pos, m) /\ (push = "walk_on" => m < last)
    /\ push \in Holding \ {"test_flag", "set_next"} => next[reg[email].w] = END
    /\ push \in {"read_tail", "walk", "walk_on", "link"} => data[reg[email].w] = reg[email].unit

\* And the consumer, with what it has read.
PopState(pos) ==
    /\ pop \in {"read_next", "move_head"} => reg[agent].u = p_head
    /\ pop = "move_head" => reg[agent].w = Place(pos, head + 1)
    /\ pop \in {"read_data", "clear_flag"} => reg[agent].u = Place(pos, first)
    /\ first \in Nat /\ \A j \in 1..Len(got) : got[j] = linked[j]

Chain(pos, done, tail, gone) ==
    /\ InOrder(pos, done) /\ Accounted(pos, done, gone) /\ Turn(done) /\ Counted(gone)
    /\ Flags(pos, gone) /\ Linked(pos) /\ Ends(pos, tail) /\ PushState(pos, tail) /\ PopState(pos)

\* The inductive invariant.
LfIInv ==
    /\ LfTypes
    /\ \E pos \in [Nat -> Int], done \in Int, tail \in Nat, gone \in SUBSET Units :
          Chain(pos, done, tail, gone)

----------------------------------------------------------------------------
(***************************************************************************)
(* Numbers and remainders                                                  *)
(***************************************************************************)
LEMMA Division ==
    ASSUME NEW m \in Nat \ {0}, NEW a \in Int
    PROVE  a = (m * (a \div m)) + (a % m) /\ (a \div m) \in Int /\ (a % m) \in 0..(m - 1)
OBVIOUS

LEMMA Multiple ==
    ASSUME NEW m \in Nat \ {0}, NEW q \in Int
    PROVE  /\ m * q \in Int /\ (q = 0 => m * q = 0) /\ (q = 1 => m * q = m)
           /\ (q >= 1 => m * q >= m) /\ (q <= -1 => m * q <= -m)
OBVIOUS

LEMMA Remainders ==
    ASSUME NEW m \in Nat \ {0}, NEW a \in Int, NEW b \in Int
    PROVE  \E q \in Int : b - a = (m * q) + ((b % m) - (a % m))
<1> DEFINE qa == a \div m
           qb == b \div m
           ra == a % m
           rb == b % m
<1>1. a = (m * qa) + ra /\ b = (m * qb) + rb /\ qa \in Int /\ qb \in Int /\ ra \in Int /\ rb \in Int
  BY Division
<1> HIDE DEF qa, qb, ra, rb
<1>2. m * (qb - qa) = (m * qb) - (m * qa) /\ m * qa \in Int /\ m * qb \in Int
  BY <1>1
<1>3. b - a = (m * (qb - qa)) + (rb - ra)
  BY <1>1, <1>2
<1>4. qb - qa \in Int
  BY <1>1
<1>5. QED BY <1>3, <1>4 DEF ra, rb

\* Two positions of one round are two units.
LEMMA OneRound ==
    ASSUME NEW m \in Nat \ {0}, NEW a \in Int, NEW b \in Int, a < b, b < a + m
    PROVE  (a % m) # (b % m)
<1>1. SUFFICES ASSUME (a % m) = (b % m) PROVE FALSE
  OBVIOUS
<1>2. PICK q \in Int : b - a = (m * q) + ((b % m) - (a % m))
  BY Remainders
<1>3. (a % m) \in Int
  BY Division
<1>4. m * q = b - a /\ m * q \in Int
  BY <1>1, <1>2, <1>3, Multiple
<1>5. QED BY <1>4, Multiple

\* The unit behind a unit.
LEMMA NextUnit ==
    ASSUME NEW m \in Nat \ {0}, NEW a \in Int
    PROVE  ((a + 1) % m) = IF (a % m) = m - 1 THEN 0 ELSE (a % m) + 1
<1> DEFINE b == a + 1
           ra == a % m
           rb == b % m
<1>0. b \in Int /\ b - a = 1
  OBVIOUS
<1> HIDE DEF b
<1>1. PICK q \in Int : b - a = (m * q) + (rb - ra)
  BY <1>0, Remainders
<1>2. ra \in 0..(m - 1) /\ rb \in 0..(m - 1)
  BY <1>0, Division
<1> HIDE DEF ra, rb
<1>3. m * q \in Int /\ m * (q - 1) = (m * q) - m /\ q - 1 \in Int
  OBVIOUS
<1>4. m * q = 1 - rb + ra
  BY <1>0, <1>1, <1>2, <1>3
<1>5. m * q >= 2 - m /\ m * q <= m
  BY <1>2, <1>3, <1>4
<1>6. q >= 0
  BY <1>3, <1>5, Multiple
<1>7. q <= 1
  <2>1. q - 1 >= 1 => m * (q - 1) >= m
    BY <1>3, Multiple
  <2>2. QED BY <1>3, <1>5, <2>1
<1>8. (q = 0 => m * q = 0) /\ (q = 1 => m * q = m)
  BY Multiple
<1>9. (rb = ra + 1) \/ (rb = ra + 1 - m)
  BY <1>2, <1>3, <1>4, <1>6, <1>7, <1>8
<1>10. rb = IF ra = m - 1 THEN 0 ELSE ra + 1
  BY <1>2, <1>9
<1>11. QED BY <1>10 DEF ra, rb, b

LEMMA SmallRest ==
    ASSUME NEW m \in Nat \ {0}, NEW w \in 0..m
    PROVE  (w % m) = IF w = m THEN 0 ELSE w
OBVIOUS

----------------------------------------------------------------------------
(***************************************************************************)
(* Units, and room for one more                                            *)
(***************************************************************************)
LEMMA UnitsInTurn ==
    /\ \A v \in Int : UnitAt(v) \in Units /\ UnitAt(v) \in Heads /\ UnitAt(v) # END
    /\ \A v, w \in Int : v < w /\ w < v + M => UnitAt(v) # UnitAt(w)
    /\ \A v \in Int : UnitAt(UnitAt(v) + 1) = UnitAt(v + 1)
    /\ max_unit_num \in Nat \ {0} /\ M \in Nat \ {0} /\ M = max_unit_num + 1
    /\ END = -1 /\ END \in Heads /\ END \notin Units /\ Heads = Units \cup {END}
<1>1. M \in Nat \ {0} /\ max_unit_num \in Nat \ {0} /\ Units = 0..(M - 1) /\ M = max_unit_num + 1
  BY LfAssumption DEF M, Units
<1>2. \A v \in Int : UnitAt(v) \in Units
  BY <1>1, Division DEF UnitAt
<1>3. \A v, w \in Int : v < w /\ w < v + M => UnitAt(v) # UnitAt(w)
  BY <1>1, OneRound DEF UnitAt
<1>4. ASSUME NEW v \in Int PROVE UnitAt(UnitAt(v) + 1) = UnitAt(v + 1)
  <2>1. UnitAt(v + 1) = IF UnitAt(v) = M - 1 THEN 0 ELSE UnitAt(v) + 1
    BY <1>1, NextUnit DEF UnitAt
  <2>2. UnitAt(v) \in 0..(M - 1)
    BY <1>1, <1>2
  <2>3. \A w \in 0..M : UnitAt(w) = IF w = M THEN 0 ELSE w
    BY <1>1, SmallRest DEF UnitAt
  <2>4. UnitAt(v) + 1 \in 0..M
    BY <1>1, <2>2
  <2>5. QED BY <1>1, <2>1, <2>2, <2>3, <2>4
<1>5. END = -1 /\ END \notin Units /\ Heads = Units \cup {END}
  BY <1>1 DEF END, Heads
<1>6. QED BY <1>1, <1>2, <1>3, <1>4, <1>5

\* Both processes.
LEMMA Both ==
    ASSUME OneEach
    PROVE  /\ email \in Producers /\ agent \in Consumers /\ email \in Procs /\ agent \in Procs
           /\ email # agent /\ Procs = {email, agent}
BY LfAssumption DEF OneEach, Procs

\* The numbers of the list.
LEMMA Numbers ==
    ASSUME LfTypes
    PROVE  /\ last \in Nat /\ head \in Nat /\ head \in {Len(got), Len(got) + 1}
           /\ first \in {head, head - 1} /\ first \in Int
           /\ pop \in {"read_data", "clear_flag"} => first = head - 1
           /\ pop \notin {"read_data", "clear_flag"} => first = head
           /\ pop = "read_data" => head = Len(got) + 1
           /\ pop # "read_data" => head = Len(got)
<1>1. Len(got) \in Nat /\ Len(linked) \in Nat
  BY DEF LfTypes
<1>2. QED BY <1>1 DEF last, head, first

LEMMA NumbersOfUnits ==
    ASSUME LfTypes
    PROVE  /\ \A gone \in SUBSET Units : IsFiniteSet(gone) /\ Cardinality(gone) \in Nat
           /\ NotYetFree \in {0, 1} /\ Begun \in {0, 1} /\ last - first \in Int /\ w_len \in Nat
<1>1. ASSUME NEW gone \in SUBSET Units PROVE IsFiniteSet(gone) /\ Cardinality(gone) \in Nat
  <2>1. IsFiniteSet(Units)
    BY FS_Interval, UnitsInTurn DEF Units
  <2>2. IsFiniteSet(gone)
    BY <2>1, FS_Subset
  <2>3. QED BY <2>2, FS_CardinalityType
<1>2. QED BY <1>1, Numbers DEF NotYetFree, Begun, LfTypes, LfTypeOK

\* A producer that needs a unit finds the dummy unit still ahead of it: the units behind it are
\* in the list or gone, and there are fewer than units.
LEMMA Room ==
    ASSUME LfTypes, NEW pos \in [Nat -> Int], NEW done \in Int, NEW gone \in SUBSET Units,
           InOrder(pos, done), Accounted(pos, done, gone), Counted(gone), push = "alloc",
           first \in Nat, first <= last
    PROVE  done < pos[first] + M
<1>1. last \in Nat /\ w_len <= max_unit_num /\ w_len \in Nat
  BY DEF LfTypes, LfTypeOK, last
<1>2. ~Holds /\ Held = 0 /\ Begun = 1 /\ NotYetFree >= 0 /\ NotYetFree \in Nat
  BY DEF Holds, Pushing, Holding, Held, Begun, NotYetFree
<1>3. IsFiniteSet(gone) /\ Cardinality(gone) \in Nat
  BY NumbersOfUnits
<1>4. Cardinality(gone) + (last - first) < max_unit_num
  <2> DEFINE c == Cardinality(gone)
             d == NotYetFree
  <2>1. c + (last - first) + 1 + d <= w_len /\ d \in Nat
    BY <1>2 DEF Counted
  <2>2. c \in Nat
    BY <1>3
  <2> HIDE DEF c, d
  <2>3. c + (last - first) < max_unit_num
    BY <1>1, <2>1, <2>2, UnitsInTurn
  <2>4. QED BY <2>3 DEF c
<1>5. SUFFICES ASSUME ~(done < pos[first] + M) PROVE FALSE
  OBVIOUS
<1>6. done = pos[first] + M /\ pos[first] \in Int
  <2>1. pos[first] \in Int /\ M \in Int
    BY UnitsInTurn
  <2>2. done + 0 <= pos[first] + M
    BY <1>2 DEF InOrder
  <2>3. QED BY <1>5, <2>1, <2>2
<1> DEFINE S == (pos[first] + 1)..(done - 1)
           I == (-last)..(-(first + 1))
           T == gone \cup I
           Item(v) == CHOOSE k \in (first + 1)..last : pos[k] = v
           f == [v \in S |-> IF UnitAt(v) \in gone THEN UnitAt(v) ELSE -Item(v)]
<1>7. IsFiniteSet(S) /\ Cardinality(S) = max_unit_num
  <2> DEFINE a == pos[first] + 1
             b == done - 1
  <2>1. a \in Int /\ b \in Int /\ b - a + 1 = max_unit_num /\ max_unit_num \in Nat \ {0}
    <3>1. \A x, y, m \in Int : y = x + (m + 1) => (y - 1) - (x + 1) + 1 = m
      OBVIOUS
    <3>2. done = pos[first] + (max_unit_num + 1) /\ max_unit_num \in Nat \ {0}
      BY <1>6, UnitsInTurn
    <3>3. QED BY <1>6, <3>1, <3>2
  <2>2. S = a..b
    OBVIOUS
  <2> HIDE DEF a, b, S
  <2>3. ~(a > b)
    BY <2>1
  <2>4. QED BY <2>1, <2>2, <2>3, FS_Interval
<1>8. IsFiniteSet(I) /\ Cardinality(I) = last - first
  BY <1>1, FS_Interval
<1>9. IsFiniteSet(T) /\ Cardinality(T) < max_unit_num
  <2>1. IsFiniteSet(gone \cup I)
        /\ Cardinality(gone \cup I) = Cardinality(gone) + Cardinality(I) - Cardinality(gone \cap I)
    <3> HIDE DEF I
    <3>1. QED BY <1>3, <1>8, FS_Union
  <2>2. Cardinality(gone \cap I) \in Nat
    <3>1. IsFiniteSet(gone \cap I)
      <4> HIDE DEF I
      <4>1. gone \cap I \in SUBSET gone
        OBVIOUS
      <4>2. QED BY <1>3, <4>1, FS_Subset
    <3>2. QED BY <3>1, FS_CardinalityType
  <2> DEFINE a == Cardinality(gone \cap I)
             b == Cardinality(gone)
             c == Cardinality(I)
             d == Cardinality(gone \cup I)
  <2>3. d = b + c - a /\ a \in Nat /\ b \in Nat /\ c = last - first /\ b + (last - first) < max_unit_num
    BY <1>3, <1>4, <1>8, <2>1, <2>2
  <2> HIDE DEF a, b, c, d
  <2>4. d < max_unit_num
    BY <1>1, <2>3, UnitsInTurn
  <2>5. QED BY <2>1, <2>4 DEF d
<1>10. ASSUME NEW v \in S, UnitAt(v) \notin gone
       PROVE  Item(v) \in (first + 1)..last /\ pos[Item(v)] = v
  <2>1. \E k \in (first + 1)..last : pos[k] = v
    BY <1>10 DEF Accounted
  <2>2. QED BY <2>1
<1> HIDE DEF Item
<1>11. f \in [S -> T]
  <2>1. ASSUME NEW v \in S PROVE (IF UnitAt(v) \in gone THEN UnitAt(v) ELSE -Item(v)) \in T
    <3>1. CASE UnitAt(v) \in gone
      BY <3>1
    <3>2. CASE UnitAt(v) \notin gone
      <4>1. Item(v) \in (first + 1)..last
        BY <1>10, <3>2
      <4>2. -Item(v) \in I
        BY <1>1, <4>1
      <4>3. QED BY <3>2, <4>2
    <3>3. QED BY <3>1, <3>2
  <2>2. QED BY <2>1
<1>12. PICK v \in S, w \in S : v # w /\ f[v] = f[w]
  <2> HIDE DEF S, T, f
  <2>1. Cardinality(T) < Cardinality(S)
    BY <1>7, <1>9
  <2>2. QED BY <1>7, <1>9, <1>11, <2>1, FS_PigeonHole
<1>13. v \in Int /\ w \in Int /\ v < w + M /\ w < v + M
  BY <1>6, UnitsInTurn
<1>14. UnitAt(v) # UnitAt(w)
  BY <1>12, <1>13, UnitsInTurn
<1>15. /\ f[v] = IF UnitAt(v) \in gone THEN UnitAt(v) ELSE -Item(v)
       /\ f[w] = IF UnitAt(w) \in gone THEN UnitAt(w) ELSE -Item(w)
  OBVIOUS
<1>16. UnitAt(v) \in Nat /\ UnitAt(w) \in Nat
  BY <1>13, UnitsInTurn DEF Units
<1>17. UnitAt(v) \notin gone => Item(v) \in Nat \ {0} /\ pos[Item(v)] = v
  BY <1>10
<1>18. UnitAt(w) \notin gone => Item(w) \in Nat \ {0} /\ pos[Item(w)] = w
  BY <1>10
<1> HIDE DEF f
<1>19. CASE UnitAt(v) \in gone /\ UnitAt(w) \in gone
  BY <1>12, <1>14, <1>15, <1>19
<1>20. CASE UnitAt(v) \notin gone /\ UnitAt(w) \notin gone
  <2>1. Item(v) = Item(w)
    <3>1. f[v] = -Item(v) /\ f[w] = -Item(w)
      BY <1>15, <1>20
    <3>2. Item(v) \in Int /\ Item(w) \in Int
      BY <1>17, <1>18, <1>20
    <3>3. \A x, y \in Int : -x = -y => x = y
      OBVIOUS
    <3>4. -Item(v) = -Item(w)
      BY <1>12, <3>1
    <3>5. QED BY <3>2, <3>3, <3>4
  <2>2. QED BY <1>12, <1>17, <1>18, <1>20, <2>1
<1>21. CASE UnitAt(v) \in gone /\ UnitAt(w) \notin gone
  <2>1. UnitAt(v) = -Item(w) /\ Item(w) \in Nat \ {0} /\ UnitAt(v) \in Nat
    BY <1>12, <1>15, <1>16, <1>18, <1>21
  <2>2. QED BY <2>1
<1>22. CASE UnitAt(v) \notin gone /\ UnitAt(w) \in gone
  <2>1. UnitAt(w) = -Item(v) /\ Item(v) \in Nat \ {0} /\ UnitAt(w) \in Nat
    BY <1>12, <1>15, <1>16, <1>17, <1>22
  <2>2. QED BY <2>1
<1>23. QED BY <1>19, <1>20, <1>21, <1>22

LEMMA Repack ==
    ASSUME LfTypes', NEW pos \in [Nat -> Int], NEW done \in Int, NEW tail \in Nat,
           NEW gone \in SUBSET Units,
           InOrder(pos, done)', Accounted(pos, done, gone)', Turn(done)', Counted(gone)',
           Flags(pos, gone)', Linked(pos)', Ends(pos, tail)', PushState(pos, tail)', PopState(pos)'
    PROVE  LfIInv'
BY DEF LfIInv, Chain

\* The units of the list, and the one the producer holds, are different units.
LEMMA Distinct ==
    ASSUME LfTypes, NEW pos \in [Nat -> Int], NEW done \in Int, NEW tail \in Nat,
           NEW gone \in SUBSET Units, Chain(pos, done, tail, gone)
    PROVE  /\ first \in Nat /\ head \in Nat /\ last \in Nat /\ first <= head
           /\ head <= tail /\ tail <= last /\ first <= last
           /\ \A k \in first..last : Place(pos, k) \in Heads /\ pos[k] \in Int
           /\ \A k \in (first + 1)..last : Place(pos, k) \in Units /\ Place(pos, k) # END
                                           /\ Place(pos, k) = UnitAt(pos[k])
           /\ \A j, k \in first..last : j # k => Place(pos, j) # Place(pos, k)
           /\ \A k \in first..last :
                 done < pos[first] + M => UnitAt(done) # Place(pos, k)
           /\ Holds => /\ reg[email].w \in Units /\ done < pos[first] + M /\ reg[email].w = UnitAt(done)
                       /\ \A k \in first..last : reg[email].w # Place(pos, k)
<1>1. last \in Nat /\ head \in Nat /\ first \in Nat /\ first <= head /\ head \in Int
  BY Numbers DEF Chain, PopState
<1>2. head <= tail /\ tail <= last
  <2>1. r_len \in Nat /\ Promised \in Nat /\ Uncounted \in Nat
    BY DEF LfTypes, LfTypeOK, Promised, Uncounted
  <2>2. QED BY <1>1, <2>1 DEF Chain, Ends
<1>3. \A k \in first..last : pos[k] \in Int
  BY <1>1
<1>4. M \in Nat \ {0} /\ Held \in {0, 1} /\ (Holds => Held = 1)
  BY UnitsInTurn DEF Held
<1>5. \A j, k \in first..last : j < k => pos[j] < pos[k]
  BY DEF Chain, InOrder
<1>6. pos[last] < done /\ done + Held <= pos[first] + M
  BY DEF Chain, InOrder
<1>7. \A k \in first..last : pos[k] < done /\ pos[first] <= pos[k]
  <2>1. first \in first..last /\ last \in first..last
    BY <1>1, <1>2
  <2>2. TAKE k \in first..last
  <2>3. pos[k] <= pos[last] /\ pos[first] <= pos[k]
    BY <1>1, <1>3, <1>5, <2>1
  <2>4. QED BY <1>3, <1>6, <2>1, <2>3
<1>8. \A k \in first..last : Place(pos, k) \in Heads
  BY <1>3, UnitsInTurn DEF Place
<1>9. \A k \in (first + 1)..last : Place(pos, k) \in Units /\ Place(pos, k) # END
                                   /\ Place(pos, k) = UnitAt(pos[k])
  BY <1>1, <1>3, UnitsInTurn DEF Place
<1>10. \A j, k \in first..last : j < k => Place(pos, j) # Place(pos, k)
  <2>1. TAKE j, k \in first..last
  <2>2. HAVE j < k
  <2>3. Place(pos, k) = UnitAt(pos[k]) /\ Place(pos, k) # END
    BY <1>1, <1>9, <2>2
  <2>4. pos[j] < pos[k] /\ pos[k] < pos[j] + M /\ pos[j] \in Int /\ pos[k] \in Int
    <3>1. pos[j] < pos[k]
      BY <1>5, <2>2
    <3>2. pos[k] < done /\ pos[first] <= pos[j] /\ pos[first] \in Int /\ pos[j] \in Int /\ pos[k] \in Int
      BY <1>1, <1>3, <1>7
    <3>3. QED BY <1>4, <1>6, <3>1, <3>2
  <2>5. UnitAt(pos[j]) # UnitAt(pos[k])
    BY <2>4, UnitsInTurn
  <2>6. QED BY <2>3, <2>5 DEF Place
<1>11. ASSUME NEW k \in first..last, done < pos[first] + M PROVE UnitAt(done) # Place(pos, k)
  <2>1. pos[k] < done /\ done < pos[k] + M /\ pos[k] \in Int
    BY <1>1, <1>2, <1>3, <1>4, <1>7, <1>11
  <2>2. UnitAt(pos[k]) # UnitAt(done) /\ UnitAt(done) # END
    BY <2>1, UnitsInTurn
  <2>3. QED BY <2>2 DEF Place
<1>12. ASSUME Holds
       PROVE  /\ reg[email].w \in Units /\ done < pos[first] + M /\ reg[email].w = UnitAt(done)
              /\ \A k \in first..last : reg[email].w # Place(pos, k)
  <2>1. reg[email].w = UnitAt(done)
    BY <1>12 DEF Chain, Turn
  <2>2. pos[first] \in Int
    BY <1>1
  <2>3. done < pos[first] + M
    BY <1>4, <1>6, <1>12, <2>2
  <2>4. QED BY <1>11, <2>1, <2>3, UnitsInTurn
<1>13. \A j, k \in first..last : j # k => Place(pos, j) # Place(pos, k)
  <2>1. TAKE j, k \in first..last
  <2>2. HAVE j # k
  <2>3. j < k \/ k < j
    BY <1>1, <2>2
  <2>4. QED BY <1>10, <2>3
<1>14. QED BY <1>1, <1>2, <1>3, <1>8, <1>9, <1>11, <1>12, <1>13

----------------------------------------------------------------------------
\* The local variables of a process.
RegType == [unit : 0..MaxPush, w : Heads, old : Heads, u : Heads, tries : 0..3]

\* What a step of one process leaves of the other.
LEMMA PushFrame ==
    ASSUME OneEach, LfTypes, NEW l \in PushLabels, NEW r, pc' = [pc EXCEPT ![email] = l],
           reg' = [reg EXCEPT ![email] = r], UNCHANGED got
    PROVE  /\ push' = l /\ reg'[email] = r /\ reg'[agent] = reg[agent] /\ pop' = pop
           /\ head' = head /\ first' = first /\ Promised' = Promised /\ NotYetFree' = NotYetFree
           /\ Held' = (IF l \in Holding THEN 1 ELSE 0) /\ (Holds' <=> l \in Holding)
           /\ Begun' = (IF l \in Holding \cup {"alloc"} THEN 1 ELSE 0)
           /\ Uncounted' = (IF l = "count" THEN 1 ELSE 0)
<1>1. pc \in [Procs -> PushLabels \cup PopLabels] /\ DOMAIN reg = Procs
      /\ email \in Procs /\ agent \in Procs /\ email # agent
  BY Both DEF LfTypes, LfTypeOK
<1>2. push' = l /\ reg'[email] = r /\ reg'[agent] = reg[agent] /\ pop' = pop
  BY <1>1 DEF push, pop
<1>3. head' = head /\ first' = first /\ Promised' = Promised /\ NotYetFree' = NotYetFree
  BY <1>2 DEF head, first, Promised, Popping, NotYetFree
<1>4. QED BY <1>2, <1>3 DEF Held, Holds, Begun, Pushing, Uncounted

LEMMA PopFrame ==
    ASSUME OneEach, LfTypes, NEW l \in PopLabels, NEW r, pc' = [pc EXCEPT ![agent] = l],
           reg' = [reg EXCEPT ![agent] = r], UNCHANGED linked
    PROVE  /\ pop' = l /\ reg'[agent] = r /\ reg'[email] = reg[email] /\ push' = push
           /\ Held' = Held /\ Holds' = Holds /\ Begun' = Begun /\ Uncounted' = Uncounted /\ last' = last
<1>1. pc \in [Procs -> PushLabels \cup PopLabels] /\ DOMAIN reg = Procs
      /\ email \in Procs /\ agent \in Procs /\ email # agent
  BY Both DEF LfTypes, LfTypeOK
<1>2. pop' = l /\ reg'[agent] = r /\ reg'[email] = reg[email] /\ push' = push
  BY <1>1 DEF push, pop
<1>3. Holds' = Holds
  BY <1>2 DEF Holds
<1>4. QED BY <1>2, <1>3 DEF Held, Begun, Pushing, Holds, Uncounted, last

LEMMA PushTypes ==
    ASSUME OneEach, LfTypes, NEW l \in PushLabels, NEW r \in RegType, pc' = [pc EXCEPT ![email] = l],
           reg' = [reg EXCEPT ![email] = r], l # "idle" => r.unit \in 1..MaxPush,
           UNCHANGED <<got, p_head>>,
           next' \in [Heads -> Heads], use_flag' \in [Heads -> BOOLEAN],
           data' \in [Heads -> {Torn, Empty} \cup 1..MaxPush], p_tail' \in Heads,
           w_tail' \in 0..(max_unit_num + 1), w_len' \in 0..max_unit_num, r_len' \in 0..max_unit_num,
           linked' \in Seq(1..MaxPush), pushes' \in 0..MaxPush
    PROVE  LfTypes'
<1>1. pc \in [Procs -> PushLabels \cup PopLabels] /\ reg \in [Procs -> RegType]
      /\ email \in Procs /\ agent \in Procs /\ email # agent
  BY Both DEF LfTypes, LfTypeOK, RegType
<1>2. pc' \in [Procs -> PushLabels \cup PopLabels] /\ push' = l /\ pop' = pop
  BY <1>1 DEF push, pop
<1>3. reg' \in [Procs -> RegType] /\ reg'[email] = r
  BY <1>1
<1>4. LfTypeOK'
  BY <1>3 DEF LfTypes, LfTypeOK, RegType
<1>5. QED BY <1>2, <1>3, <1>4 DEF LfTypes

LEMMA PopTypes ==
    ASSUME OneEach, LfTypes, NEW l \in PopLabels, NEW r \in RegType, pc' = [pc EXCEPT ![agent] = l],
           reg' = [reg EXCEPT ![agent] = r], UNCHANGED <<linked, pushes, next, data, p_tail, w_tail>>,
           use_flag' \in [Heads -> BOOLEAN], p_head' \in Heads,
           w_len' \in 0..max_unit_num, r_len' \in 0..max_unit_num, got' \in Seq(1..MaxPush)
    PROVE  LfTypes'
<1>1. pc \in [Procs -> PushLabels \cup PopLabels] /\ reg \in [Procs -> RegType]
      /\ email \in Procs /\ agent \in Procs /\ email # agent
  BY Both DEF LfTypes, LfTypeOK, RegType
<1>2. pc' \in [Procs -> PushLabels \cup PopLabels] /\ pop' = l /\ push' = push
  BY <1>1 DEF push, pop
<1>3. reg' \in [Procs -> RegType] /\ reg'[email] = reg[email]
  BY <1>1
<1>4. LfTypeOK'
  BY <1>3 DEF LfTypes, LfTypeOK, RegType
<1>5. QED BY <1>2, <1>3, <1>4 DEF LfTypes

LEMMA LfInitInv == ASSUME OneEach, LfInit PROVE LfIInv
<1>1. email \in Procs /\ agent \in Procs
  BY Both
<1>2. push = "idle" /\ pop = "idle"
  BY <1>1 DEF LfInit, push, pop
<1>3. last = 0 /\ head = 0 /\ first = 0
  BY <1>2 DEF LfInit, last, head, first
<1>4. LfTypes
  <2>1. LfTypeOK
    <3>1. max_unit_num \in Nat /\ MaxPush \in Nat /\ 0 \in Heads /\ END \in Heads
      BY LfAssumption DEF Heads, Units
    <3>2. Regs0 \in [unit : 0..MaxPush, w : Heads, old : Heads, u : Heads, tries : 0..3]
      BY <3>1 DEF Regs0, Empty
    <3>3. /\ next \in [Heads -> Heads] /\ use_flag \in [Heads -> BOOLEAN]
          /\ data \in [Heads -> {Torn, Empty} \cup 1..MaxPush]
      BY <3>1 DEF LfInit
    <3>4. reg \in [Procs -> [unit : 0..MaxPush, w : Heads, old : Heads, u : Heads, tries : 0..3]]
      BY <3>2 DEF LfInit
    <3>5. QED BY <3>1, <3>3, <3>4 DEF LfInit, LfTypeOK
  <2>2. pc \in [Procs -> PushLabels \cup PopLabels]
    BY DEF LfInit, PopLabels
  <2>3. QED BY <1>2, <2>1, <2>2, LfAssumption DEF LfTypes, LfInit, PushLabels, PopLabels
<1> DEFINE pos == [k \in Nat |-> -1]
<1>5. pos \in [Nat -> Int] /\ pos[0] = -1
  OBVIOUS
<1> HIDE DEF pos
<1>6. Held = 0 /\ Begun = 0 /\ ~Holds /\ Promised = 0 /\ Uncounted = 0 /\ NotYetFree = 0
  BY <1>2 DEF Held, Begun, Pushing, Holds, Holding, Promised, Popping, Uncounted, NotYetFree
<1>7. InOrder(pos, 0) /\ Accounted(pos, 0, {})
  BY <1>3, <1>5, <1>6, UnitsInTurn DEF InOrder, Accounted
<1>8. Turn(0)
  BY <1>6 DEF Turn, LfInit
<1>9. Counted({})
  BY <1>3, <1>6, FS_EmptySet DEF Counted, LfInit
<1>10. Flags(pos, {})
  BY UnitsInTurn DEF Flags, LfInit
<1>11. Linked(pos) /\ Ends(pos, 0)
  BY <1>3, <1>6, UnitsInTurn DEF Linked, Ends, Place, LfInit
<1>12. PushState(pos, 0) /\ PopState(pos)
  BY <1>2, <1>3 DEF PushState, PopState, Holding, LfInit
<1>13. QED BY <1>4, <1>5, <1>7, <1>8, <1>9, <1>10, <1>11, <1>12 DEF LfIInv, Chain

----------------------------------------------------------------------------
(***************************************************************************)
(* lf_queue_push, step by step                                             *)
(***************************************************************************)
LEMMA PushStartsInv == ASSUME OneEach, LfIInv, PushStarts(email) PROVE LfIInv'
<1>1. PICK pos \in [Nat -> Int], done \in Int, tail \in Nat, gone \in SUBSET Units :
        Chain(pos, done, tail, gone)
  BY DEF LfIInv
<1>2. LfTypes /\ push = "idle" /\ pushes < MaxPush /\ pushes \in Nat /\ pc[email] = "idle"
  BY DEF LfIInv, LfTypes, PushStarts, At, push
<1>3. CASE UNCHANGED <<w_len, pc, reg>>
  <2>1. LfTypes'
    <3>1. pushes' \in 0..MaxPush
      BY <1>2, LfAssumption DEF PushStarts
    <3>2. UNCHANGED <<memory, pc, reg, linked, got>>
      BY <1>3 DEF PushStarts, memory, history
    <3>3. QED BY <1>2, <3>1, <3>2 DEF memory, LfTypes, LfTypeOK, push, pop
  <2>2. Chain(pos, done, tail, gone)'
    BY <1>1, <1>3 DEF PushStarts, history, Chain, InOrder, Accounted, Turn, Counted, Flags, Linked,
                     Ends, PushState, PopState, first, head, last, Held, Holds, Begun, Pushing,
                     Promised, Popping, Uncounted, NotYetFree, push, pop
  <2>3. QED BY <2>1, <2>2 DEF LfIInv
<1>4. CASE w_len < max_unit_num /\ w_len' = w_len + 1
           /\ reg' = [reg EXCEPT ![email] = [Regs0 EXCEPT !.unit = pushes + 1]] /\ Goto(email, "alloc")
  <2> DEFINE r == [Regs0 EXCEPT !.unit = pushes + 1]
  <2>1. r \in RegType /\ r.unit \in 1..MaxPush
    <3>1. pushes + 1 \in 1..MaxPush /\ pushes + 1 \in 0..MaxPush /\ END \in Heads /\ 0 \in 0..3
      BY <1>2, LfAssumption, UnitsInTurn
    <3>2. r = [unit |-> pushes + 1, w |-> END, old |-> END, u |-> END, tries |-> 0]
      BY DEF Regs0
    <3>3. QED BY <3>1, <3>2 DEF RegType
  <2>2. /\ UNCHANGED <<next, use_flag, data, p_head, p_tail, w_tail, r_len, linked, got>>
        /\ pushes' = pushes + 1
        /\ pc' = [pc EXCEPT ![email] = "alloc"] /\ reg' = [reg EXCEPT ![email] = r]
    BY <1>4 DEF PushStarts, history, Goto
  <2> HIDE DEF r
  <2>3. "alloc" \in PushLabels /\ "alloc" \notin Holding
    BY DEF PushLabels, Holding
  <2>4. LfTypes'
    <3>1. w_len' \in 0..max_unit_num /\ pushes' \in 0..MaxPush
      <4>1. w_len \in Nat /\ max_unit_num \in Nat /\ MaxPush \in Nat
        BY <1>2, LfAssumption DEF LfTypes, LfTypeOK
      <4>2. QED BY <1>2, <1>4, <2>2, <4>1
    <3>2. QED BY <1>2, <2>1, <2>2, <2>3, <3>1, PushTypes DEF LfTypes, LfTypeOK
  <2>5. /\ push' = "alloc" /\ reg'[agent] = reg[agent] /\ pop' = pop
        /\ head' = head /\ first' = first /\ Promised' = Promised /\ NotYetFree' = NotYetFree
        /\ Held' = 0 /\ ~Holds' /\ Begun' = 1 /\ Uncounted' = 0
    BY <1>2, <2>2, <2>3, PushFrame
  <2>6. last' = last /\ Held = 0 /\ Begun = 0 /\ Uncounted = 0 /\ ~Holds
    BY <1>2, <2>2 DEF last, Held, Begun, Pushing, Uncounted, Holds, Holding
  <2>7. InOrder(pos, done)' /\ Accounted(pos, done, gone)'
    BY <1>1, <2>5, <2>6 DEF Chain, InOrder, Accounted
  <2>8. Turn(done)' /\ Linked(pos)' /\ Ends(pos, tail)'
    BY <1>1, <2>2, <2>5, <2>6 DEF Chain, Turn, Linked, Ends
  <2>9. Counted(gone)'
    BY <1>1, <1>2, <1>4, <2>5, <2>6, NumbersOfUnits DEF Chain, Counted
  <2>10. Flags(pos, gone)'
    BY <1>1, <1>2, <2>2, <2>5, <2>6 DEF Chain, Flags
  <2>11. PushState(pos, tail)'
    BY <2>5 DEF PushState, Holding
  <2>12. PopState(pos)'
    BY <1>1, <2>2, <2>5 DEF Chain, PopState
  <2>13. QED BY <2>4, <2>7, <2>8, <2>9, <2>10, <2>11, <2>12, Repack
<1>5. QED BY <1>3, <1>4 DEF PushStarts

LEMMA PushAllocInv == ASSUME OneEach, LfIInv, PushAlloc(email) PROVE LfIInv'
<1>1. PICK pos \in [Nat -> Int], done \in Int, tail \in Nat, gone \in SUBSET Units :
        Chain(pos, done, tail, gone)
  BY DEF LfIInv
<1>2. LfTypes /\ push = "alloc"
  BY DEF LfIInv, PushAlloc, At, push
<1>3. Held = 0 /\ Begun = 1 /\ Uncounted = 0 /\ ~Holds
  BY <1>2 DEF Held, Begun, Pushing, Uncounted, Holds, Holding
<1>4. UnitAt(w_tail) = UnitAt(done)
  BY <1>1, <1>3 DEF Chain, Turn
<1>5. UnitAt(done) \in Units /\ UnitAt(done) \in Heads
  BY UnitsInTurn
<1> DEFINE r == [reg[email] EXCEPT !.w = UnitAt(done)]
<1>6. /\ UNCHANGED <<next, use_flag, data, p_head, p_tail, w_len, r_len, linked, got, pushes>>
      /\ w_tail' = UnitAt(done) + 1
      /\ pc' = [pc EXCEPT ![email] = "test_flag"] /\ reg' = [reg EXCEPT ![email] = r]
  BY <1>4 DEF PushAlloc, history, bounds, Goto, UnitAt, M
<1>7. r \in RegType /\ r.unit \in 1..MaxPush /\ r.w = UnitAt(done)
  <2>1. reg[email] \in RegType /\ reg[email].unit \in 1..MaxPush
    BY <1>2, Both DEF LfTypes, LfTypeOK, RegType
  <2>2. QED BY <1>5, <2>1 DEF RegType
<1> HIDE DEF r
<1>8. "test_flag" \in PushLabels /\ "test_flag" \in Holding
  BY DEF PushLabels, Holding
<1>9. LfTypes'
  <2>1. w_tail' \in 0..(max_unit_num + 1)
    <3>1. UnitAt(done) \in 0..max_unit_num /\ max_unit_num \in Nat
      BY <1>5, UnitsInTurn DEF Units
    <3>2. QED BY <1>6, <3>1
  <2>2. QED BY <1>2, <1>6, <1>7, <1>8, <2>1, PushTypes DEF LfTypes, LfTypeOK
<1>10. /\ push' = "test_flag" /\ reg'[agent] = reg[agent] /\ pop' = pop /\ reg'[email] = r
       /\ head' = head /\ first' = first /\ Promised' = Promised /\ NotYetFree' = NotYetFree
       /\ Held' = 1 /\ Holds' /\ Begun' = 1 /\ Uncounted' = 0
  BY <1>2, <1>6, <1>8, PushFrame
<1>11. last' = last
  BY <1>6 DEF last
<1>12. first \in Nat /\ first <= last /\ pos[first] \in Int
  BY <1>1, <1>2, Distinct
<1>13. done + 1 <= pos[first] + M
  <2>1. done < pos[first] + M
    BY <1>1, <1>2, <1>12, Room DEF Chain
  <2>2. QED BY <1>12, <2>1, UnitsInTurn
<1>14. InOrder(pos, done)' /\ Accounted(pos, done, gone)'
  BY <1>1, <1>10, <1>11, <1>13 DEF Chain, InOrder, Accounted
<1>15. Turn(done)'
  <2>1. UnitAt(w_tail') = UnitAt(done + 1)
    BY <1>6, UnitsInTurn
  <2>2. QED BY <1>7, <1>10, <2>1 DEF Turn
<1>16. Counted(gone)' /\ Linked(pos)' /\ Ends(pos, tail)'
  BY <1>1, <1>3, <1>6, <1>10, <1>11 DEF Chain, Counted, Linked, Ends
<1>17. Flags(pos, gone)'
  BY <1>1, <1>2, <1>6, <1>10, <1>11 DEF Chain, Flags
<1>18. PushState(pos, tail)'
  BY <1>10 DEF PushState, Holding
<1>19. PopState(pos)'
  BY <1>1, <1>6, <1>10 DEF Chain, PopState
<1>20. QED BY <1>9, <1>14, <1>15, <1>16, <1>17, <1>18, <1>19, Repack

LEMMA PushTestInv == ASSUME OneEach, LfIInv, PushTest(email) PROVE LfIInv'
<1>1. PICK pos \in [Nat -> Int], done \in Int, tail \in Nat, gone \in SUBSET Units :
        Chain(pos, done, tail, gone)
  BY DEF LfIInv
<1>2. LfTypes /\ push = "test_flag" /\ reg[email] \in RegType /\ reg[email].unit \in 1..MaxPush
  BY Both DEF LfIInv, LfTypes, LfTypeOK, RegType, PushTest, At, push
<1>3. Held = 1 /\ Begun = 1 /\ Uncounted = 0 /\ Holds
  BY <1>2 DEF Held, Begun, Pushing, Uncounted, Holds, Holding
<1> DEFINE l == IF use_flag[reg[email].w] THEN "alloc" ELSE "set_next"
<1>4. /\ UNCHANGED <<next, use_flag, data, p_head, p_tail, w_tail, w_len, r_len, linked, got,
                    pushes, reg>>
      /\ pc' = [pc EXCEPT ![email] = l] /\ reg' = [reg EXCEPT ![email] = reg[email]]
  BY <1>2, Both DEF PushTest, memory, history, bounds, Goto, LfTypes, LfTypeOK
<1>5. l \in PushLabels /\ l # "idle" /\ "alloc" \notin Holding /\ "set_next" \in Holding
  BY DEF PushLabels, Holding
<1>6. LfTypes'
  BY <1>2, <1>4, <1>5, PushTypes DEF LfTypes, LfTypeOK
<1>7. /\ push' = l /\ reg'[agent] = reg[agent] /\ pop' = pop /\ reg'[email] = reg[email]
      /\ head' = head /\ first' = first /\ Promised' = Promised /\ NotYetFree' = NotYetFree
      /\ Held' = (IF l \in Holding THEN 1 ELSE 0) /\ (Holds' <=> l \in Holding)
      /\ Begun' = (IF l \in Holding \cup {"alloc"} THEN 1 ELSE 0)
      /\ Uncounted' = (IF l = "count" THEN 1 ELSE 0)
  BY <1>2, <1>4, <1>5, PushFrame
<1>8. last' = last
  BY <1>4 DEF last
<1>9. Begun' = 1 /\ Uncounted' = 0
  BY <1>5, <1>7
<1>10. Counted(gone)' /\ Linked(pos)' /\ Ends(pos, tail)'
  BY <1>1, <1>3, <1>4, <1>7, <1>8, <1>9 DEF Chain, Counted, Linked, Ends
<1>11. Flags(pos, gone)'
  BY <1>1, <1>2, <1>4, <1>7, <1>8 DEF Chain, Flags
<1>12. PushState(pos, tail)'
  BY <1>7 DEF PushState, Holding
<1>13. PopState(pos)'
  BY <1>1, <1>4, <1>7 DEF Chain, PopState
<1>14. /\ first \in Nat /\ last \in Nat /\ first <= last /\ pos[first] \in Int /\ pos[last] \in Int
       /\ reg[email].w \in Units
       /\ reg[email].w = UnitAt(done) /\ \A k \in first..last : reg[email].w # Place(pos, k)
  BY <1>1, <1>2, <1>3, Distinct
<1>15. CASE l = "set_next"
  <2>1. Held' = 1 /\ Holds'
    BY <1>5, <1>7, <1>15
  <2>2. InOrder(pos, done)' /\ Accounted(pos, done, gone)' /\ Turn(done)'
    BY <1>1, <1>3, <1>4, <1>7, <1>8, <2>1 DEF Chain, InOrder, Accounted, Turn
  <2>3. QED BY <1>6, <1>10, <1>11, <1>12, <1>13, <2>2, Repack
<1>16. CASE l = "alloc"
  <2>1. Held' = 0 /\ ~Holds' /\ use_flag[reg[email].w]
    BY <1>5, <1>7, <1>16
  <2>2. UnitAt(done) \in gone
    <3>1. ~\E k \in (first + 1)..last : Place(pos, k) = reg[email].w
      BY <1>14
    <3>2. QED BY <1>1, <1>2, <1>14, <2>1, <3>1 DEF Chain, Flags
  <2>3. InOrder(pos, done + 1)'
    BY <1>1, <1>3, <1>7, <1>8, <1>14, <2>1 DEF Chain, InOrder
  <2>4. Accounted(pos, done + 1, gone)'
    <3>1. ASSUME NEW v \in (pos[first] + 1)..done
          PROVE  UnitAt(v) \in gone \/ \E k \in (first + 1)..last : pos[k] = v
      <4>1. v = done \/ v \in (pos[first] + 1)..(done - 1)
        BY <1>14
      <4>2. QED BY <1>1, <2>2, <4>1 DEF Chain, Accounted
    <3>2. (done + 1) - 1 = done
      OBVIOUS
    <3>3. QED BY <1>7, <1>8, <3>1, <3>2 DEF Accounted
  <2>5. Turn(done + 1)'
    <3>1. (done + 1) + 0 = done + 1
      OBVIOUS
    <3>2. QED BY <1>1, <1>3, <1>4, <2>1, <3>1 DEF Chain, Turn
  <2>6. done + 1 \in Int
    OBVIOUS
  <2>7. QED BY <1>6, <1>10, <1>11, <1>12, <1>13, <2>3, <2>4, <2>5, <2>6, Repack
<1>17. QED BY <1>15, <1>16

\* A step of the producer on the unit it holds leaves the list as it is.
LEMMA HoldingStep ==
    ASSUME OneEach, LfTypes, LfTypes', NEW pos \in [Nat -> Int], NEW done \in Int, NEW tail \in Nat,
           NEW gone \in SUBSET Units, Chain(pos, done, tail, gone), push \in Holding,
           NEW l \in Holding, NEW r, pc' = [pc EXCEPT ![email] = l],
           reg' = [reg EXCEPT ![email] = r], r.w = reg[email].w,
           UNCHANGED <<p_head, p_tail, w_tail, w_len, r_len, linked, got>>,
           next' = next \/ next' = [next EXCEPT ![reg[email].w] = END],
           data' = data \/ \E x : data' = [data EXCEPT ![reg[email].w] = x],
           Flags(pos, gone)', PushState(pos, tail)'
    PROVE  LfIInv'
<1>1. l \in PushLabels /\ l # "count"
  BY DEF Holding, PushLabels
<1>2. Held = 1 /\ Begun = 1 /\ Uncounted = 0 /\ Holds
  BY DEF Held, Begun, Pushing, Uncounted, Holds, Holding
<1>3. /\ push' = l /\ reg'[agent] = reg[agent] /\ pop' = pop /\ reg'[email] = r
      /\ head' = head /\ first' = first /\ Promised' = Promised /\ NotYetFree' = NotYetFree
      /\ Held' = (IF l \in Holding THEN 1 ELSE 0) /\ (Holds' <=> l \in Holding)
      /\ Begun' = (IF l \in Holding \cup {"alloc"} THEN 1 ELSE 0)
      /\ Uncounted' = (IF l = "count" THEN 1 ELSE 0)
  BY <1>1, PushFrame
<1>4. last' = last /\ Held' = 1 /\ Holds' /\ Begun' = 1 /\ Uncounted' = 0
  BY <1>1, <1>3 DEF last
<1>5. InOrder(pos, done)' /\ Accounted(pos, done, gone)' /\ Turn(done)' /\ Counted(gone)'
  BY <1>2, <1>3, <1>4 DEF Chain, InOrder, Accounted, Turn, Counted
<1>6. Ends(pos, tail)' /\ PopState(pos)'
  BY <1>2, <1>3, <1>4 DEF Chain, Ends, PopState
<1>7. Linked(pos)'
  <2>1. /\ first \in Nat /\ last \in Nat /\ first <= last /\ Holds
        /\ \A k \in first..last : Place(pos, k) \in Heads /\ reg[email].w # Place(pos, k)
    BY <1>2, Distinct
  <2>2. /\ \A k \in first..(last - 1) : next[Place(pos, k)] = Place(pos, k + 1)
        /\ next[Place(pos, last)] = END
        /\ \A k \in (first + 1)..last : data[Place(pos, k)] = linked[k]
    BY DEF Chain, Linked
  <2>3. next \in [Heads -> Heads] /\ DOMAIN data = Heads
    BY DEF LfTypes, LfTypeOK
  <2>4. \A k \in first..last : next'[Place(pos, k)] = next[Place(pos, k)]
                               /\ data'[Place(pos, k)] = data[Place(pos, k)]
    BY <2>1, <2>3
  <2>5. last \in first..last /\ (\A k \in first..(last - 1) : k \in first..last)
        /\ \A k \in (first + 1)..last : k \in first..last
    BY <2>1
  <2>6. QED BY <1>3, <1>4, <2>2, <2>4, <2>5 DEF Linked
<1>8. QED BY <1>5, <1>6, <1>7, Repack

LEMMA PushSetNextInv == ASSUME OneEach, LfIInv, PushSetNext(email) PROVE LfIInv'
<1>1. PICK pos \in [Nat -> Int], done \in Int, tail \in Nat, gone \in SUBSET Units :
        Chain(pos, done, tail, gone)
  BY DEF LfIInv
<1>2. LfTypes /\ push = "set_next" /\ reg[email] \in RegType /\ reg[email].unit \in 1..MaxPush
  BY Both DEF LfIInv, LfTypes, LfTypeOK, RegType, PushSetNext, At, push
<1>3. /\ UNCHANGED <<use_flag, data, p_head, p_tail, w_tail, w_len, r_len, linked, got, pushes>>
      /\ next' = [next EXCEPT ![reg[email].w] = END]
      /\ pc' = [pc EXCEPT ![email] = "set_flag"] /\ reg' = [reg EXCEPT ![email] = reg[email]]
  BY <1>2, Both DEF PushSetNext, memory, history, bounds, Goto, LfTypes, LfTypeOK
<1>4. "set_flag" \in PushLabels /\ "set_flag" \in Holding /\ push \in Holding
  BY <1>2 DEF PushLabels, Holding
<1>5. LfTypes'
  BY <1>2, <1>3, <1>4, PushTypes, UnitsInTurn DEF LfTypes, LfTypeOK
<1>6. /\ push' = "set_flag" /\ reg'[email] = reg[email] /\ first' = first /\ last' = last
  BY <1>2, <1>3, <1>4, PushFrame DEF last
<1>7. Flags(pos, gone)'
  BY <1>1, <1>2, <1>3, <1>6 DEF Chain, Flags
<1>8. PushState(pos, tail)'
  <2>1. next'[reg[email].w] = END
    BY <1>2, <1>3 DEF LfTypes, LfTypeOK, RegType
  <2>2. QED BY <1>6, <2>1 DEF PushState
<1>9. QED BY <1>1, <1>2, <1>3, <1>4, <1>5, <1>7, <1>8, HoldingStep

LEMMA PushSetFlagInv == ASSUME OneEach, LfIInv, PushSetFlag(email) PROVE LfIInv'
<1>1. PICK pos \in [Nat -> Int], done \in Int, tail \in Nat, gone \in SUBSET Units :
        Chain(pos, done, tail, gone)
  BY DEF LfIInv
<1>2. LfTypes /\ push = "set_flag" /\ reg[email] \in RegType /\ reg[email].unit \in 1..MaxPush
  BY Both DEF LfIInv, LfTypes, LfTypeOK, RegType, PushSetFlag, At, push
<1>3. /\ UNCHANGED <<next, data, p_head, p_tail, w_tail, w_len, r_len, linked, got, pushes>>
      /\ use_flag' = [use_flag EXCEPT ![reg[email].w] = TRUE]
      /\ pc' = [pc EXCEPT ![email] = "copy"] /\ reg' = [reg EXCEPT ![email] = reg[email]]
  BY <1>2, Both DEF PushSetFlag, memory, history, bounds, Goto, LfTypes, LfTypeOK
<1>4. "copy" \in PushLabels /\ "copy" \in Holding /\ push \in Holding
  BY <1>2 DEF PushLabels, Holding
<1>5. LfTypes'
  BY <1>2, <1>3, <1>4, PushTypes DEF LfTypes, LfTypeOK
<1>6. /\ push' = "copy" /\ reg'[email] = reg[email] /\ first' = first /\ last' = last
  BY <1>2, <1>3, <1>4, PushFrame DEF last
<1>7. Flags(pos, gone)'
  <2>1. DOMAIN use_flag = Heads /\ \A x \in Units : x \in Heads
    BY <1>2, UnitsInTurn DEF LfTypes, LfTypeOK
  <2>2. \A x \in Units : use_flag'[x] => use_flag[x] \/ x = reg[email].w
    BY <1>3, <2>1
  <2>3. QED BY <1>1, <1>2, <1>6, <2>2 DEF Chain, Flags
<1>8. PushState(pos, tail)'
  BY <1>1, <1>2, <1>3, <1>6 DEF Chain, PushState, Holding
<1>9. QED BY <1>1, <1>2, <1>3, <1>4, <1>5, <1>7, <1>8, HoldingStep

LEMMA PushCopiesInv == ASSUME OneEach, LfIInv, PushCopies(email) PROVE LfIInv'
<1>1. PICK pos \in [Nat -> Int], done \in Int, tail \in Nat, gone \in SUBSET Units :
        Chain(pos, done, tail, gone)
  BY DEF LfIInv
<1>2. LfTypes /\ push \in {"copy", "copied"} /\ reg[email] \in RegType /\ reg[email].unit \in 1..MaxPush
  BY Both DEF LfIInv, LfTypes, LfTypeOK, RegType, PushCopies, At, push
<1> DEFINE l == IF push = "copy" THEN "copied" ELSE "read_tail"
           x == IF push = "copy" THEN Torn ELSE reg[email].unit
<1>3. /\ UNCHANGED <<next, use_flag, p_head, p_tail, w_tail, w_len, r_len, linked, got, pushes>>
      /\ data' = [data EXCEPT ![reg[email].w] = x]
      /\ pc' = [pc EXCEPT ![email] = l] /\ reg' = [reg EXCEPT ![email] = reg[email]]
  BY <1>2, Both DEF PushCopies, memory, history, bounds, Goto, At, push, LfTypes, LfTypeOK
<1>4. l \in PushLabels /\ l \in Holding /\ push \in Holding /\ l # "idle" /\ l \in {"copied", "read_tail"}
  BY <1>2 DEF PushLabels, Holding
<1>5. x \in {Torn, Empty} \cup 1..MaxPush /\ (l = "read_tail" => x = reg[email].unit)
  BY <1>2
<1> HIDE DEF l, x
<1>6. LfTypes'
  <2>1. data' \in [Heads -> {Torn, Empty} \cup 1..MaxPush]
    BY <1>2, <1>3, <1>5 DEF LfTypes, LfTypeOK
  <2>2. QED BY <1>2, <1>3, <1>4, <2>1, PushTypes DEF LfTypes, LfTypeOK
<1>7. /\ push' = l /\ reg'[email] = reg[email] /\ first' = first /\ last' = last
  BY <1>2, <1>3, <1>4, PushFrame DEF last
<1>8. Flags(pos, gone)'
  BY <1>1, <1>2, <1>3, <1>4, <1>7 DEF Chain, Flags
<1>9. PushState(pos, tail)'
  <2>1. data'[reg[email].w] = x
    BY <1>2, <1>3 DEF LfTypes, LfTypeOK, RegType
  <2>2. next'[reg[email].w] = END
    BY <1>1, <1>2, <1>3 DEF Chain, PushState, Holding
  <2>3. QED BY <1>4, <1>5, <1>7, <2>1, <2>2 DEF PushState
<1>10. QED BY <1>1, <1>2, <1>3, <1>4, <1>6, <1>8, <1>9, HoldingStep

LEMMA PushReadTailInv == ASSUME OneEach, LfIInv, PushReadTail(email) PROVE LfIInv'
<1>1. PICK pos \in [Nat -> Int], done \in Int, tail \in Nat, gone \in SUBSET Units :
        Chain(pos, done, tail, gone)
  BY DEF LfIInv
<1>2. LfTypes /\ push = "read_tail" /\ reg[email] \in RegType /\ reg[email].unit \in 1..MaxPush
      /\ p_tail \in Heads
  BY Both DEF LfIInv, LfTypes, LfTypeOK, RegType, PushReadTail, At, push
<1> DEFINE l == IF reg[email].tries + 1 >= 3 THEN "walk" ELSE "link"
           t == IF reg[email].tries < 3 THEN reg[email].tries + 1 ELSE 3
           r == [reg[email] EXCEPT !.old = p_tail, !.u = p_tail, !.tries = t]
<1>3. /\ UNCHANGED <<next, use_flag, data, p_head, p_tail, w_tail, w_len, r_len, linked, got, pushes>>
      /\ pc' = [pc EXCEPT ![email] = l] /\ reg' = [reg EXCEPT ![email] = r]
  BY <1>2, Both DEF PushReadTail, memory, history, bounds, Goto, LfTypes, LfTypeOK
<1>4. l \in PushLabels /\ l \in Holding /\ push \in Holding /\ l # "idle" /\ l \in {"walk", "link"}
  BY <1>2 DEF PushLabels, Holding
<1>5. /\ r \in RegType /\ r.unit = reg[email].unit /\ r.w = reg[email].w /\ r.old = p_tail /\ r.u = p_tail
  <2>1. t \in 0..3
    BY <1>2 DEF RegType
  <2> HIDE DEF t
  <2>2. QED BY <1>2, <2>1 DEF RegType
<1> HIDE DEF l, r, t
<1>6. LfTypes'
  BY <1>2, <1>3, <1>4, <1>5, PushTypes DEF LfTypes, LfTypeOK
<1>7. /\ push' = l /\ reg'[email] = r /\ first' = first /\ last' = last
  BY <1>2, <1>3, <1>4, PushFrame DEF last
<1>8. Flags(pos, gone)'
  BY <1>1, <1>2, <1>3, <1>4, <1>5, <1>7 DEF Chain, Flags
<1>9. PushState(pos, tail)'
  <2>1. next[reg[email].w] = END /\ data[reg[email].w] = reg[email].unit
    BY <1>1, <1>2 DEF Chain, PushState, Holding
  <2>2. p_tail = Place(pos, tail) /\ tail \in tail..last
    BY <1>1, <1>2, Distinct DEF Chain, Ends
  <2>3. QED BY <1>3, <1>4, <1>5, <1>7, <2>1, <2>2 DEF PushState
<1>10. QED BY <1>1, <1>2, <1>3, <1>4, <1>5, <1>6, <1>8, <1>9, HoldingStep

LEMMA PushWalksInv == ASSUME OneEach, LfIInv, PushWalks(email) PROVE LfIInv'
<1>1. PICK pos \in [Nat -> Int], done \in Int, tail \in Nat, gone \in SUBSET Units :
        Chain(pos, done, tail, gone)
  BY DEF LfIInv
<1>2. LfTypes /\ push \in {"walk", "walk_on"} /\ reg[email] \in RegType /\ reg[email].unit \in 1..MaxPush
  BY Both DEF LfIInv, LfTypes, LfTypeOK, RegType, PushWalks, At, push
<1>3. PICK m \in tail..last : reg[email].u = Place(pos, m) /\ (push = "walk_on" => m < last)
  BY <1>1, <1>2 DEF Chain, PushState
<1>4. /\ first \in Nat /\ last \in Nat /\ first <= last /\ m \in first..last
      /\ Place(pos, m) \in Heads /\ \A k \in first..last : Place(pos, k) \in Heads
  <2>1. /\ first \in Nat /\ last \in Nat /\ first <= last /\ first <= head /\ head <= tail /\ head \in Nat
        /\ \A k \in first..last : Place(pos, k) \in Heads
    BY <1>1, <1>2, Distinct
  <2>2. m \in first..last
    BY <2>1
  <2>3. QED BY <2>1, <2>2
<1>5. next[Place(pos, last)] = END /\ (m < last => next[Place(pos, m)] = Place(pos, m + 1))
  BY <1>1, <1>4 DEF Chain, Linked
<1> DEFINE l == IF push = "walk_on" THEN "walk"
                ELSE IF next[reg[email].u] # END THEN "walk_on" ELSE "link"
           u == IF push = "walk_on" THEN Place(pos, m + 1) ELSE reg[email].u
           r == [reg[email] EXCEPT !.u = u]
<1>6. /\ UNCHANGED <<next, use_flag, data, p_head, p_tail, w_tail, w_len, r_len, linked, got, pushes>>
      /\ pc' = [pc EXCEPT ![email] = l] /\ reg' = [reg EXCEPT ![email] = r]
  <2>1. UNCHANGED <<memory, bounds, history>>
    BY DEF PushWalks
  <2>2. CASE push = "walk"
    <3>1. pc' = [pc EXCEPT ![email] = l] /\ reg' = reg
      BY <2>2 DEF PushWalks, At, push, Goto
    <3>2. r = reg[email] /\ DOMAIN reg = Procs
      BY <1>2, <2>2 DEF RegType, LfTypes, LfTypeOK
    <3> HIDE DEF l, u, r
    <3>3. reg' = [reg EXCEPT ![email] = r]
      <4>1. reg = [reg EXCEPT ![email] = reg[email]]
        BY <1>2, Both DEF LfTypes, LfTypeOK
      <4>2. QED BY <3>1, <3>2, <4>1
    <3>4. QED BY <2>1, <3>1, <3>3 DEF memory, bounds, history
  <2>3. CASE push = "walk_on"
    <3>1. pc' = [pc EXCEPT ![email] = l] /\ reg' = [reg EXCEPT ![email].u = next[reg[email].u]]
      BY <2>3 DEF PushWalks, At, push, Goto
    <3>2. next[reg[email].u] = u
      BY <1>3, <1>5, <2>3
    <3> HIDE DEF l, u
    <3>3. reg' = [reg EXCEPT ![email] = r]
      BY <3>1, <3>2
    <3>4. QED BY <2>1, <3>1, <3>3 DEF memory, bounds, history
  <2>4. QED BY <1>2, <2>2, <2>3
<1>7. l \in PushLabels /\ l \in Holding /\ push \in Holding /\ l # "idle" /\ l \in {"walk", "walk_on", "link"}
  BY <1>2 DEF PushLabels, Holding
<1>8. \E n \in tail..last : u = Place(pos, n) /\ (l = "walk_on" => n < last)
  <2>1. CASE push = "walk_on"
    <3>1. m + 1 \in tail..last
      BY <1>3, <1>4, <2>1
    <3>2. QED BY <2>1, <3>1
  <2>2. CASE push = "walk"
    <3>1. l = "walk_on" => m # last
      BY <1>3, <1>5, <2>2
    <3>2. l = "walk_on" => m < last
      BY <1>4, <3>1
    <3>3. QED BY <1>3, <2>2, <3>2
  <2>3. QED BY <1>2, <2>1, <2>2
<1>9. u \in Heads
  <2>1. CASE push = "walk_on"
    <3>1. m + 1 \in first..last
      BY <1>3, <1>4, <2>1
    <3>2. QED BY <1>4, <2>1, <3>1
  <2>2. CASE push = "walk"
    BY <1>2, <2>2 DEF RegType
  <2>3. QED BY <1>2, <2>1, <2>2
<1>10. /\ r \in RegType /\ r.unit = reg[email].unit /\ r.w = reg[email].w
       /\ r.old = reg[email].old /\ r.u = u
  <2> HIDE DEF u
  <2>1. QED BY <1>2, <1>9 DEF RegType
<1> HIDE DEF l, u, r
<1>11. LfTypes'
  BY <1>2, <1>6, <1>7, <1>10, PushTypes DEF LfTypes, LfTypeOK
<1>12. /\ push' = l /\ reg'[email] = r /\ first' = first /\ last' = last
  BY <1>2, <1>6, <1>7, PushFrame DEF last
<1>13. Flags(pos, gone)'
  BY <1>1, <1>2, <1>6, <1>7, <1>10, <1>12 DEF Chain, Flags
<1>14. PushState(pos, tail)'
  <2>1. next[reg[email].w] = END /\ data[reg[email].w] = reg[email].unit /\ reg[email].old = p_tail
    BY <1>1, <1>2 DEF Chain, PushState, Holding
  <2>2. QED BY <1>6, <1>7, <1>8, <1>10, <1>12, <2>1 DEF PushState
<1>15. QED BY <1>1, <1>2, <1>6, <1>7, <1>10, <1>11, <1>13, <1>14, HoldingStep

LEMMA PushMovesTailInv == ASSUME OneEach, LfIInv, PushMovesTail(email) PROVE LfIInv'
<1>1. PICK pos \in [Nat -> Int], done \in Int, tail \in Nat, gone \in SUBSET Units :
        Chain(pos, done, tail, gone)
  BY DEF LfIInv
<1>2. LfTypes /\ push = "move_tail" /\ reg[email] \in RegType /\ reg[email].unit \in 1..MaxPush
  BY Both DEF LfIInv, LfTypes, LfTypeOK, RegType, PushMovesTail, At, push
<1>3. tail < last /\ reg[email].old = p_tail /\ reg[email].w = Place(pos, last)
  BY <1>1, <1>2 DEF Chain, PushState
<1>4. first \in Nat /\ head \in Nat /\ last \in Nat /\ head <= tail /\ tail <= last
  BY <1>1, <1>2, Distinct
<1>5. /\ UNCHANGED <<next, use_flag, data, p_head, w_tail, w_len, r_len, linked, got, pushes>>
      /\ p_tail' = reg[email].w
      /\ pc' = [pc EXCEPT ![email] = "count"] /\ reg' = [reg EXCEPT ![email] = reg[email]]
  BY <1>2, <1>3, Both DEF PushMovesTail, history, bounds, Goto, LfTypes, LfTypeOK
<1>6. "count" \in PushLabels /\ "count" \notin Holding /\ "count" \notin Holding \cup {"alloc"}
  BY DEF PushLabels, Holding
<1>7. LfTypes'
  BY <1>2, <1>5, <1>6, PushTypes DEF LfTypes, LfTypeOK, RegType
<1>8. /\ push' = "count" /\ reg'[agent] = reg[agent] /\ pop' = pop
      /\ head' = head /\ first' = first /\ Promised' = Promised /\ NotYetFree' = NotYetFree
      /\ Held' = 0 /\ ~Holds' /\ Begun' = 0 /\ Uncounted' = 1
  BY <1>2, <1>5, <1>6, PushFrame
<1>9. last' = last /\ Held = 0 /\ ~Holds /\ Begun = 0 /\ Uncounted = 0
  BY <1>2, <1>5 DEF last, Held, Begun, Pushing, Uncounted, Holds, Holding
<1>10. InOrder(pos, done)' /\ Accounted(pos, done, gone)' /\ Turn(done)' /\ Counted(gone)'
  BY <1>1, <1>5, <1>8, <1>9 DEF Chain, InOrder, Accounted, Turn, Counted
<1>11. Linked(pos)' /\ PopState(pos)' /\ Flags(pos, gone)'
  BY <1>1, <1>2, <1>5, <1>8, <1>9 DEF Chain, Linked, PopState, Flags
<1>12. Ends(pos, last)'
  <2>1. head + r_len + Promised + 0 <= tail /\ p_head = Place(pos, head)
    BY <1>1, <1>9 DEF Chain, Ends
  <2>2. r_len \in Nat /\ Promised \in Nat
    BY <1>2 DEF LfTypes, LfTypeOK, Promised
  <2>3. head + r_len + Promised + 1 <= last
    BY <1>3, <1>4, <2>1, <2>2
  <2>4. QED BY <1>3, <1>4, <1>5, <1>8, <1>9, <2>1, <2>3 DEF Ends
<1>13. PushState(pos, last)'
  BY <1>8 DEF PushState, Holding
<1>14. QED BY <1>4, <1>7, <1>9, <1>10, <1>11, <1>12, <1>13, Repack

LEMMA PushEndsInv == ASSUME OneEach, LfIInv, PushEnds(email) PROVE LfIInv'
<1>1. PICK pos \in [Nat -> Int], done \in Int, tail \in Nat, gone \in SUBSET Units :
        Chain(pos, done, tail, gone)
  BY DEF LfIInv
<1>2. LfTypes /\ push = "count"
  BY DEF LfIInv, PushEnds, At, push
<1>3. first \in Nat /\ head \in Nat /\ last \in Nat /\ first <= head /\ head <= tail /\ tail <= last
  BY <1>1, <1>2, Distinct
<1>4. /\ UNCHANGED <<next, use_flag, data, p_head, p_tail, w_tail, w_len, linked, got, pushes>>
      /\ r_len' = r_len + 1
      /\ pc' = [pc EXCEPT ![email] = "idle"] /\ reg' = [reg EXCEPT ![email] = Regs0]
  BY DEF PushEnds, bounds, Goto
<1>5. "idle" \in PushLabels /\ "idle" \notin Holding /\ "idle" \notin Holding \cup {"alloc"}
  BY DEF PushLabels, Holding
<1>6. Held = 0 /\ ~Holds /\ Begun = 0 /\ Uncounted = 1
  BY <1>2 DEF Held, Begun, Pushing, Uncounted, Holds, Holding
<1>7. Regs0 \in RegType
  BY UnitsInTurn, LfAssumption DEF Regs0, RegType, Empty
<1>8. head + r_len + Promised + 1 <= tail /\ r_len \in Nat /\ Promised \in {0, 1}
  BY <1>1, <1>2, <1>6 DEF Chain, Ends, LfTypes, LfTypeOK, Promised
<1>9. r_len + 1 <= max_unit_num
  <2>1. Cardinality(gone) \in Nat /\ NotYetFree \in {0, 1} /\ w_len \in Nat /\ w_len <= max_unit_num
    <3>1. Cardinality(gone) \in Nat /\ NotYetFree \in {0, 1} /\ w_len \in Nat
      BY <1>2, NumbersOfUnits
    <3>2. w_len <= max_unit_num
      BY <1>2, UnitsInTurn DEF LfTypes, LfTypeOK
    <3>3. QED BY <3>1, <3>2
  <2> DEFINE c == Cardinality(gone)
  <2>2. c + (last - first) + 0 + NotYetFree <= w_len
    BY <1>1, <1>6 DEF Chain, Counted
  <2>3. c \in Nat
    BY <2>1
  <2> HIDE DEF c
  <2>4. last - first <= w_len
    BY <1>3, <2>1, <2>2, <2>3
  <2>5. r_len + 1 <= last - first
    BY <1>3, <1>8
  <2>6. QED BY <1>3, <1>8, <2>1, <2>4, <2>5, UnitsInTurn
<1>10. LfTypes'
  <2>1. r_len' \in 0..max_unit_num
    BY <1>4, <1>8, <1>9, UnitsInTurn
  <2>2. QED BY <1>2, <1>4, <1>5, <1>7, <2>1, PushTypes DEF LfTypes, LfTypeOK
<1>11. /\ push' = "idle" /\ reg'[agent] = reg[agent] /\ pop' = pop
       /\ head' = head /\ first' = first /\ Promised' = Promised /\ NotYetFree' = NotYetFree
       /\ Held' = 0 /\ ~Holds' /\ Begun' = 0 /\ Uncounted' = 0
  BY <1>2, <1>4, <1>5, PushFrame
<1>12. last' = last
  BY <1>4 DEF last
<1>13. InOrder(pos, done)' /\ Accounted(pos, done, gone)' /\ Turn(done)' /\ Counted(gone)'
  BY <1>1, <1>4, <1>6, <1>11, <1>12 DEF Chain, InOrder, Accounted, Turn, Counted
<1>14. Linked(pos)' /\ PopState(pos)' /\ Flags(pos, gone)'
  BY <1>1, <1>2, <1>4, <1>11, <1>12 DEF Chain, Linked, PopState, Flags
<1>15. Ends(pos, tail)'
  <2>1. head + (r_len + 1) + Promised + 0 <= tail
    BY <1>3, <1>8
  <2>2. QED BY <1>1, <1>4, <1>11, <1>12, <2>1 DEF Chain, Ends
<1>16. PushState(pos, tail)'
  BY <1>11 DEF PushState, Holding
<1>17. QED BY <1>10, <1>13, <1>14, <1>15, <1>16, Repack

LEMMA CrashInv == ASSUME OneEach, LfIInv, Crash(email) PROVE LfIInv'
<1>1. PICK pos \in [Nat -> Int], done \in Int, tail \in Nat, gone \in SUBSET Units :
        Chain(pos, done, tail, gone)
  BY DEF LfIInv
<1>2. LfTypes
  BY DEF LfIInv
<1>3. /\ first \in Nat /\ head \in Nat /\ last \in Nat /\ first <= head /\ head <= tail /\ tail <= last
      /\ pos[first] \in Int /\ pos[last] \in Int
  BY <1>1, <1>2, Distinct
<1>4. /\ UNCHANGED <<next, use_flag, data, p_head, p_tail, w_tail, w_len, r_len, linked, got, pushes>>
      /\ pc' = [pc EXCEPT ![email] = "idle"] /\ reg' = [reg EXCEPT ![email] = Regs0]
  BY DEF Crash, memory, history, Goto
<1>5. "idle" \in PushLabels /\ "idle" \notin Holding /\ "idle" \notin Holding \cup {"alloc"}
  BY DEF PushLabels, Holding
<1>6. Regs0 \in RegType
  BY UnitsInTurn, LfAssumption DEF Regs0, RegType, Empty
<1>7. LfTypes'
  BY <1>2, <1>4, <1>5, <1>6, PushTypes DEF LfTypes, LfTypeOK
<1>8. /\ push' = "idle" /\ reg'[agent] = reg[agent] /\ pop' = pop
      /\ head' = head /\ first' = first /\ Promised' = Promised /\ NotYetFree' = NotYetFree
      /\ Held' = 0 /\ ~Holds' /\ Begun' = 0 /\ Uncounted' = 0
  BY <1>2, <1>4, <1>5, PushFrame
<1>9. last' = last
  BY <1>4 DEF last
<1>10. Linked(pos)' /\ PopState(pos)' /\ PushState(pos, tail)'
  BY <1>1, <1>4, <1>8, <1>9 DEF Chain, Linked, PopState, PushState, Holding
<1>11. Ends(pos, tail)'
  <2>1. head + r_len + Promised + Uncounted <= tail /\ tail <= last
        /\ p_head = Place(pos, head) /\ p_tail = Place(pos, tail)
    BY <1>1 DEF Chain, Ends
  <2>2. r_len \in Nat /\ Promised \in Nat /\ Uncounted \in Nat
    BY <1>2 DEF LfTypes, LfTypeOK, Promised, Uncounted
  <2>3. head + r_len + Promised + 0 <= tail
    BY <1>3, <2>1, <2>2
  <2>4. QED BY <1>4, <1>8, <1>9, <2>1, <2>3 DEF Ends
<1>12. /\ Cardinality(gone) \in Nat /\ IsFiniteSet(gone)
       /\ NotYetFree \in {0, 1} /\ Begun \in {0, 1} /\ w_len \in Nat
  BY <1>2, NumbersOfUnits
<1>13. CASE Holds
  <2>1. Held = 1 /\ Begun = 1
    BY <1>13 DEF Held, Begun, Pushing
  <2>2. /\ reg[email].w \in Units /\ done < pos[first] + M /\ reg[email].w = UnitAt(done)
        /\ M \in Nat
    BY <1>1, <1>2, <1>13, Distinct, UnitsInTurn
  <2>3. PICK more \in SUBSET Units : more = gone \cup {reg[email].w}
    BY <2>2
  <2>4. InOrder(pos, done + 1)'
    BY <1>1, <1>3, <1>8, <1>9, <2>2 DEF Chain, InOrder
  <2>5. Accounted(pos, done + 1, more)'
    <3>1. ASSUME NEW v \in (pos[first] + 1)..done
          PROVE  UnitAt(v) \in more \/ \E k \in (first + 1)..last : pos[k] = v
      <4>1. v = done \/ v \in (pos[first] + 1)..(done - 1)
        BY <1>3
      <4>2. QED BY <1>1, <2>2, <2>3, <4>1 DEF Chain, Accounted
    <3>2. (done + 1) - 1 = done
      OBVIOUS
    <3>3. QED BY <1>8, <1>9, <3>1, <3>2 DEF Accounted
  <2>6. Turn(done + 1)'
    <3>1. (done + 1) + 0 = done + 1
      OBVIOUS
    <3>2. QED BY <1>1, <1>4, <1>8, <2>1, <3>1 DEF Chain, Turn
  <2>7. Counted(more)'
    <3>1. Cardinality(more) \in {Cardinality(gone), Cardinality(gone) + 1}
      BY <1>12, <2>3, FS_AddElement
    <3> DEFINE c == Cardinality(gone)
               d == Cardinality(more)
    <3>2. c + (last - first) + 1 + NotYetFree <= w_len
      BY <1>1, <2>1 DEF Chain, Counted
    <3>3. d \in {c, c + 1} /\ c \in Nat
      BY <1>12, <3>1
    <3> HIDE DEF c, d
    <3>4. d + (last - first) + 0 + NotYetFree <= w_len
      BY <1>3, <1>12, <3>2, <3>3
    <3>5. QED BY <1>4, <1>8, <1>9, <3>4 DEF Counted, d
  <2>8. Flags(pos, more)'
    BY <1>1, <1>4, <1>8, <1>9, <2>3 DEF Chain, Flags
  <2>9. done + 1 \in Int
    OBVIOUS
  <2>10. QED BY <1>7, <1>10, <1>11, <2>3, <2>4, <2>5, <2>6, <2>7, <2>8, <2>9, Repack
<1>14. CASE ~Holds
  <2>1. Held = 0 /\ push \notin Holding
    BY <1>14 DEF Held, Holds
  <2>2. InOrder(pos, done)' /\ Accounted(pos, done, gone)' /\ Turn(done)'
    BY <1>1, <1>4, <1>8, <1>9, <2>1 DEF Chain, InOrder, Accounted, Turn
  <2>3. Counted(gone)'
    <3> DEFINE c == Cardinality(gone)
    <3>1. c + (last - first) + Begun + NotYetFree <= w_len /\ c \in Nat
      BY <1>1, <1>12 DEF Chain, Counted
    <3> HIDE DEF c
    <3>2. c + (last - first) + 0 + NotYetFree <= w_len
      BY <1>3, <1>12, <3>1
    <3>3. QED BY <1>4, <1>8, <1>9, <3>2 DEF Counted, c
  <2>4. Flags(pos, gone)'
    BY <1>1, <1>4, <1>8, <1>9, <2>1 DEF Chain, Flags, Holding
  <2>5. QED BY <1>7, <1>10, <1>11, <2>2, <2>3, <2>4, Repack
<1>15. QED BY <1>13, <1>14

LEMMA PushLinksInv == ASSUME OneEach, LfIInv, PushLinks(email) PROVE LfIInv'
<1>1. PICK pos \in [Nat -> Int], done \in Int, tail \in Nat, gone \in SUBSET Units :
        Chain(pos, done, tail, gone)
  BY DEF LfIInv
<1>2. LfTypes /\ push = "link" /\ reg[email] \in RegType /\ reg[email].unit \in 1..MaxPush
  BY Both DEF LfIInv, LfTypes, LfTypeOK, RegType, PushLinks, At, push
<1>3. push \in Holding /\ Holds /\ Held = 1 /\ Begun = 1 /\ Uncounted = 0
  BY <1>2 DEF Holding, Holds, Held, Begun, Pushing, Uncounted
<1>4. PICK m \in tail..last : reg[email].u = Place(pos, m)
  BY <1>1, <1>2 DEF Chain, PushState
<1>5. /\ first \in Nat /\ head \in Nat /\ last \in Nat /\ first <= head /\ head <= tail /\ tail <= last
      /\ \A k \in first..last : Place(pos, k) \in Heads /\ pos[k] \in Int
      /\ \A k \in (first + 1)..last : Place(pos, k) \in Units /\ Place(pos, k) # END
      /\ \A j, k \in first..last : j # k => Place(pos, j) # Place(pos, k)
      /\ reg[email].w \in Units /\ done < pos[first] + M /\ reg[email].w = UnitAt(done)
      /\ \A k \in first..last : reg[email].w # Place(pos, k)
  BY <1>1, <1>2, <1>3, Distinct
<1>6. /\ next[reg[email].w] = END /\ data[reg[email].w] = reg[email].unit /\ reg[email].old = p_tail
  BY <1>1, <1>2 DEF Chain, PushState, Holding
<1>7. UNCHANGED <<use_flag, data, p_head, p_tail, w_tail, w_len, r_len, got, pushes>>
      /\ reg' = [reg EXCEPT ![email] = reg[email]]
  BY <1>2, Both DEF PushLinks, bounds, LfTypes, LfTypeOK
<1>8. CASE next[reg[email].u] # END /\ Goto(email, "read_tail") /\ UNCHANGED <<next, linked>>
  <2>1. pc' = [pc EXCEPT ![email] = "read_tail"] /\ next' = next /\ linked' = linked
    BY <1>8 DEF Goto
  <2>2. "read_tail" \in PushLabels /\ "read_tail" \in Holding
    BY DEF PushLabels, Holding
  <2>3. LfTypes'
    BY <1>2, <1>7, <2>1, <2>2, PushTypes DEF LfTypes, LfTypeOK
  <2>4. push' = "read_tail" /\ reg'[email] = reg[email] /\ first' = first /\ last' = last
    BY <1>2, <1>7, <2>1, <2>2, PushFrame DEF last
  <2>5. Flags(pos, gone)'
    BY <1>1, <1>2, <1>7, <2>4 DEF Chain, Flags
  <2>6. PushState(pos, tail)'
    BY <1>6, <1>7, <2>1, <2>4 DEF PushState
  <2>7. UNCHANGED <<p_head, p_tail, w_tail, w_len, r_len, linked, got>> /\ data' = data
    BY <1>7, <2>1
  <2>8. QED BY <1>1, <1>2, <1>3, <1>7, <2>1, <2>2, <2>3, <2>5, <2>6, <2>7, HoldingStep
<1>9. CASE /\ next[reg[email].u] = END /\ next' = [next EXCEPT ![reg[email].u] = reg[email].w]
           /\ linked' = Append(linked, reg[email].unit) /\ Goto(email, "move_tail")
  <2>0. /\ \A k \in first..(last - 1) : next[Place(pos, k)] = Place(pos, k + 1)
        /\ next[Place(pos, last)] = END
        /\ \A k \in (first + 1)..last : data[Place(pos, k)] = linked[k]
    BY <1>1 DEF Chain, Linked
  <2>1. m = last
    <3>1. m < last => next[Place(pos, m)] = Place(pos, m + 1) /\ Place(pos, m + 1) # END
      BY <1>5, <2>0
    <3>2. QED BY <1>4, <1>5, <1>9, <3>1
  <2>2. /\ pc' = [pc EXCEPT ![email] = "move_tail"]
        /\ next' = [next EXCEPT ![Place(pos, last)] = reg[email].w]
        /\ linked' = Append(linked, reg[email].unit)
    BY <1>4, <1>9, <2>1 DEF Goto
  <2>3. "move_tail" \in PushLabels /\ "move_tail" \notin Holding /\ "move_tail" \notin Holding \cup {"alloc"}
    BY DEF PushLabels, Holding
  <2>4. reg[email].w \in Heads /\ M \in Nat \ {0}
    BY <1>5, UnitsInTurn
  <2>5. linked \in Seq(1..MaxPush)
    BY <1>2 DEF LfTypes
  <2>6. LfTypes'
    <3>1. next' \in [Heads -> Heads]
      BY <1>2, <2>2, <2>4 DEF LfTypes, LfTypeOK
    <3>2. linked' \in Seq(1..MaxPush)
      BY <1>2, <2>2, <2>5
    <3>3. /\ UNCHANGED <<got, p_head>> /\ use_flag' \in [Heads -> BOOLEAN]
          /\ data' \in [Heads -> {Torn, Empty} \cup 1..MaxPush] /\ p_tail' \in Heads
          /\ w_tail' \in 0..(max_unit_num + 1) /\ w_len' \in 0..max_unit_num
          /\ r_len' \in 0..max_unit_num /\ pushes' \in 0..MaxPush
      BY <1>2, <1>7 DEF LfTypes, LfTypeOK
    <3>4. QED BY <1>2, <1>7, <2>2, <2>3, <3>1, <3>2, <3>3, PushTypes
  <2>7. /\ push' = "move_tail" /\ reg'[email] = reg[email] /\ reg'[agent] = reg[agent] /\ pop' = pop
        /\ head' = head /\ first' = first /\ Promised' = Promised /\ NotYetFree' = NotYetFree
        /\ Held' = 0 /\ ~Holds' /\ Begun' = 0 /\ Uncounted' = 0
    BY <1>2, <1>7, <2>2, <2>3, PushFrame
  <2>8. /\ last' = last + 1 /\ linked'[last + 1] = reg[email].unit
        /\ \A k \in 1..last : linked'[k] = linked[k]
    BY <1>2, <2>2, <2>5 DEF last
  <2>9. PICK q \in [Nat -> Int] : q[last + 1] = done /\ \A k \in first..last : q[k] = pos[k]
    <3> DEFINE a == [pos EXCEPT ![last + 1] = done]
    <3>1. a \in [Nat -> Int] /\ a[last + 1] = done /\ \A k \in first..last : a[k] = pos[k]
      BY <1>5
    <3>2. QED BY <3>1
  <2>10. /\ Place(q, last + 1) = reg[email].w
         /\ \A k \in first..last : Place(q, k) = Place(pos, k)
    BY <1>5, <2>9 DEF Place
  <2>11. InOrder(q, done + 1)'
    <3>1. /\ \A j, k \in first..last : j < k => pos[j] < pos[k]
          /\ pos[last] < done
      BY <1>1 DEF Chain, InOrder
    <3>2. ASSUME NEW j \in first..(last + 1), NEW k \in first..(last + 1), j < k PROVE q[j] < q[k]
      <4>1. j \in first..last /\ q[j] = pos[j]
        BY <1>5, <2>9, <3>2
      <4>2. CASE k \in first..last
        BY <2>9, <3>1, <3>2, <4>1, <4>2
      <4>3. CASE k = last + 1
        <5>1. pos[j] <= pos[last] /\ pos[j] \in Int /\ pos[last] \in Int
          <6>1. last \in first..last
            BY <1>5
          <6>2. j = last \/ j < last
            BY <1>5, <4>1
          <6>3. QED BY <1>5, <3>1, <4>1, <6>1, <6>2
        <5>2. QED BY <2>9, <3>1, <4>1, <4>3, <5>1
      <4>4. QED BY <1>5, <4>2, <4>3
    <3>3. first \in first..last /\ pos[first] \in Int
      BY <1>5
    <3>4. done < done + 1 /\ (done + 1) + 0 <= q[first] + M
      BY <1>5, <2>4, <2>9, <3>3
    <3>5. QED BY <2>7, <2>8, <2>9, <3>2, <3>4 DEF InOrder
  <2>12. Accounted(q, done + 1, gone)'
    <3>1. first \in first..last /\ pos[first] \in Int /\ q[first] = pos[first]
      BY <1>5, <2>9
    <3>2. ASSUME NEW v \in (pos[first] + 1)..done
          PROVE  UnitAt(v) \in gone \/ \E k \in (first + 1)..(last + 1) : q[k] = v
      <4>1. CASE v = done
        <5>1. last + 1 \in (first + 1)..(last + 1)
          BY <1>5
        <5>2. QED BY <2>9, <4>1, <5>1
      <4>2. CASE v \in (pos[first] + 1)..(done - 1)
        <5>1. UnitAt(v) \in gone \/ \E k \in (first + 1)..last : pos[k] = v
          BY <1>1, <4>2 DEF Chain, Accounted
        <5>2. \A k \in (first + 1)..last : k \in first..last /\ k \in (first + 1)..(last + 1)
          BY <1>5
        <5>3. QED BY <2>9, <5>1, <5>2
      <4>3. QED BY <3>1, <4>1, <4>2
    <3>3. (done + 1) - 1 = done
      OBVIOUS
    <3>4. QED BY <2>7, <2>8, <3>1, <3>2, <3>3 DEF Accounted
  <2>13. Turn(done + 1)'
    <3>1. (done + 1) + 0 = done + 1
      OBVIOUS
    <3>2. QED BY <1>1, <1>3, <1>7, <2>7, <3>1 DEF Chain, Turn
  <2>14. Counted(gone)'
    <3> DEFINE c == Cardinality(gone)
    <3>1. c + (last - first) + 1 + NotYetFree <= w_len /\ c \in Nat /\ NotYetFree \in {0, 1} /\ w_len \in Nat
      BY <1>1, <1>2, <1>3, NumbersOfUnits DEF Chain, Counted
    <3> HIDE DEF c
    <3>2. c + ((last + 1) - first) + 0 + NotYetFree <= w_len
      BY <1>5, <3>1
    <3>3. QED BY <1>7, <2>7, <2>8, <3>2 DEF Counted, c
  <2>15. Flags(q, gone)'
    <3>1. ASSUME NEW x \in Units, use_flag[x]
          PROVE  x \in gone \/ \E k \in (first + 1)..(last + 1) : Place(q, k) = x
      <4>1. \/ x \in gone
            \/ \E k \in (first + 1)..last : Place(pos, k) = x
            \/ x = reg[email].w
        BY <1>1, <3>1 DEF Chain, Flags
      <4>2. \A k \in (first + 1)..last : k \in first..last /\ k \in (first + 1)..(last + 1)
        BY <1>5
      <4>3. last + 1 \in (first + 1)..(last + 1)
        BY <1>5
      <4>4. QED BY <2>10, <4>1, <4>2, <4>3
    <3>2. QED BY <1>7, <2>7, <2>8, <3>1 DEF Flags
  <2>16. Linked(q)'
    <3>1. next \in [Heads -> Heads] /\ last \in first..last
      <4>1. next \in [Heads -> Heads]
        BY <1>2 DEF LfTypes, LfTypeOK
      <4>2. QED BY <1>5, <4>1
    <3>2. next'[Place(pos, last)] = reg[email].w /\ next'[reg[email].w] = END
      BY <1>5, <1>6, <2>2, <2>4, <3>1
    <3>3. ASSUME NEW k \in first..((last + 1) - 1) PROVE next'[Place(q, k)] = Place(q, k + 1)
      <4>1. CASE k = last
        BY <2>10, <3>1, <3>2, <4>1
      <4>2. CASE k \in first..(last - 1)
        <5>1. k \in first..last /\ k + 1 \in first..last /\ k # last
          BY <1>5, <4>2
        <5>2. next'[Place(pos, k)] = next[Place(pos, k)]
          BY <1>5, <2>2, <3>1, <5>1
        <5>3. QED BY <2>0, <2>10, <4>2, <5>1, <5>2
      <4>3. QED BY <1>5, <4>1, <4>2
    <3>4. ASSUME NEW k \in (first + 1)..(last + 1) PROVE data[Place(q, k)] = linked'[k]
      <4>1. CASE k = last + 1
        BY <1>6, <2>8, <2>10, <4>1
      <4>2. CASE k \in (first + 1)..last
        <5>1. k \in first..last /\ k \in 1..last
          BY <1>5, <4>2
        <5>2. QED BY <2>0, <2>8, <2>10, <4>2, <5>1
      <4>3. QED BY <1>5, <4>1, <4>2
    <3>5. QED BY <1>7, <2>7, <2>8, <2>10, <3>2, <3>3, <3>4 DEF Linked
  <2>17. Ends(q, tail)'
    <3>1. head \in first..last /\ tail \in first..last /\ tail <= last + 1
      BY <1>5
    <3>2. QED BY <1>1, <1>3, <1>7, <2>7, <2>8, <2>10, <3>1 DEF Chain, Ends
  <2>18. PushState(q, tail)'
    <3>1. tail < last + 1
      BY <1>5
    <3>2. QED BY <1>6, <1>7, <2>7, <2>8, <2>10, <3>1 DEF PushState, Holding
  <2>19. PopState(q)'
    <3>1. pop = "move_head" => head + 1 \in first..last
      <4>1. pop = "move_head" => Promised = 1
        BY DEF Promised, Popping
      <4>2. r_len \in Nat /\ head + r_len + Promised + 0 <= tail
        BY <1>1, <1>2, <1>3 DEF LfTypes, LfTypeOK, Chain, Ends
      <4>3. QED BY <1>5, <4>1, <4>2
    <3>2. first \in first..last
      BY <1>5
    <3>3. Len(got) <= last /\ Len(got) \in Nat
      <4>1. Len(got) \in Nat
        BY <1>2 DEF LfTypes
      <4>2. head \in {Len(got), Len(got) + 1}
        BY <1>2, Numbers
      <4>3. QED BY <1>5, <4>1, <4>2
    <3>4. \A j \in 1..Len(got) : j \in 1..last
      BY <1>5, <3>3
    <3>5. QED BY <1>1, <1>7, <2>7, <2>8, <2>10, <3>1, <3>2, <3>4 DEF Chain, PopState
  <2>20. done + 1 \in Int
    OBVIOUS
  <2>21. QED BY <2>6, <2>9, <2>11, <2>12, <2>13, <2>14, <2>15, <2>16, <2>17, <2>18, <2>19, <2>20, Repack
<1>10. QED BY <1>8, <1>9 DEF PushLinks

----------------------------------------------------------------------------
(***************************************************************************)
(* lf_queue_pop, step by step                                              *)
(***************************************************************************)
\* A step of the consumer that frees nothing leaves the list as it is.
LEMMA ReadingStep ==
    ASSUME OneEach, LfTypes, LfTypes', NEW pos \in [Nat -> Int], NEW done \in Int, NEW tail \in Nat,
           NEW gone \in SUBSET Units, Chain(pos, done, tail, gone),
           NEW l \in PopLabels, NEW r, pc' = [pc EXCEPT ![agent] = l],
           reg' = [reg EXCEPT ![agent] = r], first' = first, NotYetFree' = NotYetFree,
           UNCHANGED <<next, use_flag, data, p_tail, w_tail, w_len, linked>>,
           Ends(pos, tail)', PopState(pos)'
    PROVE  LfIInv'
<1>1. /\ pop' = l /\ reg'[agent] = r /\ reg'[email] = reg[email] /\ push' = push
      /\ Held' = Held /\ Holds' = Holds /\ Begun' = Begun /\ Uncounted' = Uncounted /\ last' = last
  BY PopFrame
<1>2. InOrder(pos, done)' /\ Accounted(pos, done, gone)' /\ Turn(done)' /\ Counted(gone)'
  BY <1>1 DEF Chain, InOrder, Accounted, Turn, Counted
<1>3. Linked(pos)' /\ Flags(pos, gone)'
  BY <1>1 DEF Chain, Linked, Flags
<1>4. PushState(pos, tail)'
  BY <1>1 DEF Chain, PushState
<1>5. QED BY <1>2, <1>3, <1>4, Repack

\* What the consumer relies on: the elements it was promised are in the list.
LEMMA Reader ==
    ASSUME OneEach, LfTypes, NEW pos \in [Nat -> Int], NEW done \in Int, NEW tail \in Nat,
           NEW gone \in SUBSET Units, Chain(pos, done, tail, gone)
    PROVE  /\ first \in Nat /\ head \in Nat /\ last \in Nat /\ first <= head /\ head <= tail /\ tail <= last
           /\ reg[agent] \in RegType /\ agent \in Procs /\ reg = [reg EXCEPT ![agent] = reg[agent]]
           /\ r_len \in Nat /\ Promised \in {0, 1} /\ Uncounted \in {0, 1}
           /\ head + r_len + Promised + Uncounted <= tail
           /\ p_head = Place(pos, head) /\ p_tail = Place(pos, tail)
           /\ Len(got) \in Nat /\ got \in Seq(1..MaxPush) /\ linked \in Seq(1..MaxPush)
           /\ \A k \in first..(last - 1) : next[Place(pos, k)] = Place(pos, k + 1)
           /\ \A k \in (first + 1)..last : data[Place(pos, k)] = linked[k]
           /\ \A k \in first..last : Place(pos, k) \in Heads
           /\ \A j \in 1..Len(got) : got[j] = linked[j]
           /\ Regs0 \in RegType
<1>1. /\ first \in Nat /\ head \in Nat /\ last \in Nat /\ first <= head /\ head <= tail /\ tail <= last
      /\ \A k \in first..last : Place(pos, k) \in Heads
  BY Distinct
<1>2. reg[agent] \in RegType /\ agent \in Procs /\ reg = [reg EXCEPT ![agent] = reg[agent]] /\ r_len \in Nat
  BY Both DEF LfTypes, LfTypeOK, RegType
<1>3. Promised \in {0, 1} /\ Uncounted \in {0, 1}
  BY DEF Promised, Uncounted
<1>4. /\ head + r_len + Promised + Uncounted <= tail
      /\ p_head = Place(pos, head) /\ p_tail = Place(pos, tail)
  BY DEF Chain, Ends
<1>5. got \in Seq(1..MaxPush) /\ linked \in Seq(1..MaxPush) /\ Len(got) \in Nat
  BY DEF LfTypes
<1>6. /\ \A k \in first..(last - 1) : next[Place(pos, k)] = Place(pos, k + 1)
      /\ \A k \in (first + 1)..last : data[Place(pos, k)] = linked[k]
  BY DEF Chain, Linked
<1>7. \A j \in 1..Len(got) : got[j] = linked[j]
  BY DEF Chain, PopState
<1>8. Regs0 \in RegType
  BY UnitsInTurn, LfAssumption DEF Regs0, RegType, Empty
<1>9. QED BY <1>1, <1>2, <1>3, <1>4, <1>5, <1>6, <1>7, <1>8

LEMMA PopStartsInv == ASSUME OneEach, LfIInv, PopStarts(agent) PROVE LfIInv'
<1>1. PICK pos \in [Nat -> Int], done \in Int, tail \in Nat, gone \in SUBSET Units :
        Chain(pos, done, tail, gone)
  BY DEF LfIInv
<1>2. LfTypes /\ pop = "idle" /\ r_len > 0
  BY DEF LfIInv, PopStarts, At, pop
<1>3. /\ head + r_len + Promised + Uncounted <= tail /\ tail <= last /\ r_len \in Nat
      /\ p_head = Place(pos, head) /\ p_tail = Place(pos, tail) /\ tail \in Nat /\ head \in Nat
      /\ reg[agent] \in RegType /\ agent \in Procs /\ reg = [reg EXCEPT ![agent] = reg[agent]]
      /\ Uncounted \in {0, 1}
  BY <1>1, <1>2, Reader
<1>4. /\ UNCHANGED <<next, use_flag, data, p_head, p_tail, w_tail, w_len, linked, got, pushes>>
      /\ r_len' = r_len - 1
      /\ pc' = [pc EXCEPT ![agent] = "read_head"] /\ reg' = [reg EXCEPT ![agent] = reg[agent]]
  BY <1>3 DEF PopStarts, history, bounds, Goto
<1>5. "read_head" \in PopLabels
  BY DEF PopLabels
<1>6. LfTypes'
  <2>1. r_len' \in 0..max_unit_num
    BY <1>2, <1>4, UnitsInTurn DEF LfTypes, LfTypeOK
  <2>2. QED BY <1>2, <1>3, <1>4, <1>5, <2>1, PopTypes DEF LfTypes, LfTypeOK
<1>7. pop' = "read_head" /\ reg'[agent] = reg[agent] /\ Uncounted' = Uncounted /\ last' = last
  BY <1>2, <1>4, <1>5, PopFrame
<1>8. Promised = 0 /\ Promised' = 1 /\ NotYetFree' = NotYetFree /\ head' = head /\ first' = first
  BY <1>2, <1>4, <1>7 DEF Promised, Popping, NotYetFree, head, first
<1>9. Ends(pos, tail)'
  <2>1. head + (r_len - 1) + 1 + Uncounted <= tail
    BY <1>3, <1>8
  <2>2. QED BY <1>3, <1>4, <1>7, <1>8, <2>1 DEF Ends
<1>10. PopState(pos)'
  BY <1>1, <1>4, <1>7, <1>8 DEF Chain, PopState
<1>11. QED BY <1>1, <1>2, <1>4, <1>5, <1>6, <1>8, <1>9, <1>10, ReadingStep

LEMMA PopReadsHeadInv == ASSUME OneEach, LfIInv, PopReadsHead(agent) PROVE LfIInv'
<1>1. PICK pos \in [Nat -> Int], done \in Int, tail \in Nat, gone \in SUBSET Units :
        Chain(pos, done, tail, gone)
  BY DEF LfIInv
<1>2. LfTypes /\ pop = "read_head"
  BY DEF LfIInv, PopReadsHead, At, pop
<1>3. reg[agent] \in RegType /\ agent \in Procs /\ p_head \in Heads
  BY <1>1, <1>2, Reader DEF LfTypes, LfTypeOK
<1> DEFINE r == [reg[agent] EXCEPT !.u = p_head]
<1>4. /\ UNCHANGED <<next, use_flag, data, p_head, p_tail, w_tail, w_len, r_len, linked, got, pushes>>
      /\ pc' = [pc EXCEPT ![agent] = "read_next"] /\ reg' = [reg EXCEPT ![agent] = r]
  BY DEF PopReadsHead, memory, history, bounds, Goto
<1>5. "read_next" \in PopLabels /\ r \in RegType /\ r.u = p_head
  BY <1>3 DEF PopLabels, RegType
<1> HIDE DEF r
<1>6. LfTypes'
  BY <1>2, <1>4, <1>5, PopTypes DEF LfTypes, LfTypeOK
<1>7. pop' = "read_next" /\ reg'[agent] = r /\ Uncounted' = Uncounted /\ last' = last
  BY <1>2, <1>4, <1>5, PopFrame
<1>8. Promised' = Promised /\ NotYetFree' = NotYetFree /\ head' = head /\ first' = first
  BY <1>2, <1>4, <1>7 DEF Promised, Popping, NotYetFree, head, first
<1>9. Ends(pos, tail)'
  BY <1>1, <1>4, <1>7, <1>8 DEF Chain, Ends
<1>10. PopState(pos)'
  BY <1>1, <1>4, <1>5, <1>7, <1>8 DEF Chain, PopState
<1>11. QED BY <1>1, <1>2, <1>4, <1>5, <1>6, <1>8, <1>9, <1>10, ReadingStep

LEMMA PopReadsNextInv == ASSUME OneEach, LfIInv, PopReadsNext(agent) PROVE LfIInv'
<1>1. PICK pos \in [Nat -> Int], done \in Int, tail \in Nat, gone \in SUBSET Units :
        Chain(pos, done, tail, gone)
  BY DEF LfIInv
<1>2. LfTypes /\ pop = "read_next"
  BY DEF LfIInv, PopReadsNext, At, pop
<1>3. reg[agent].u = p_head /\ reg[agent] \in RegType
  BY <1>1, <1>2, Reader DEF Chain, PopState
<1>4. next[reg[agent].u] = Place(pos, head + 1) /\ Place(pos, head + 1) \in Heads
  <2>1. Promised = 1 /\ first = head
    BY <1>2, Numbers DEF Promised, Popping
  <2>2. head \in first..(last - 1) /\ head + 1 \in first..last
    <3>1. /\ head + r_len + Promised + Uncounted <= tail /\ tail <= last /\ r_len \in Nat
          /\ head \in Nat /\ last \in Nat /\ Uncounted \in {0, 1}
      BY <1>1, <1>2, Reader
    <3>2. QED BY <2>1, <3>1
  <2>3. next[Place(pos, head)] = Place(pos, head + 1) /\ p_head = Place(pos, head)
        /\ Place(pos, head + 1) \in Heads
    BY <1>1, <1>2, <2>2, Reader
  <2>4. QED BY <1>3, <2>3
<1> DEFINE r == [reg[agent] EXCEPT !.w = next[reg[agent].u]]
<1>5. /\ UNCHANGED <<next, use_flag, data, p_head, p_tail, w_tail, w_len, r_len, linked, got, pushes>>
      /\ pc' = [pc EXCEPT ![agent] = "move_head"] /\ reg' = [reg EXCEPT ![agent] = r]
  BY DEF PopReadsNext, memory, history, bounds, Goto
<1>6. "move_head" \in PopLabels /\ r \in RegType /\ r.u = p_head /\ r.w = Place(pos, head + 1)
  BY <1>3, <1>4 DEF PopLabels, RegType
<1> HIDE DEF r
<1>7. LfTypes'
  BY <1>2, <1>5, <1>6, PopTypes DEF LfTypes, LfTypeOK
<1>8. pop' = "move_head" /\ reg'[agent] = r /\ Uncounted' = Uncounted /\ last' = last
  BY <1>2, <1>5, <1>6, PopFrame
<1>9. Promised' = Promised /\ NotYetFree' = NotYetFree /\ head' = head /\ first' = first
  BY <1>2, <1>5, <1>8 DEF Promised, Popping, NotYetFree, head, first
<1>10. Ends(pos, tail)'
  BY <1>1, <1>5, <1>8, <1>9 DEF Chain, Ends
<1>11. PopState(pos)'
  BY <1>1, <1>5, <1>6, <1>8, <1>9 DEF Chain, PopState
<1>12. QED BY <1>1, <1>2, <1>5, <1>6, <1>7, <1>9, <1>10, <1>11, ReadingStep

LEMMA PopMovesHeadInv == ASSUME OneEach, LfIInv, PopMovesHead(agent) PROVE LfIInv'
<1>1. PICK pos \in [Nat -> Int], done \in Int, tail \in Nat, gone \in SUBSET Units :
        Chain(pos, done, tail, gone)
  BY DEF LfIInv
<1>2. LfTypes /\ pop = "move_head"
  BY DEF LfIInv, PopMovesHead, At, pop
<1>3. /\ reg[agent].u = p_head /\ reg[agent].w = Place(pos, head + 1) /\ reg[agent] \in RegType
      /\ agent \in Procs /\ reg = [reg EXCEPT ![agent] = reg[agent]]
  BY <1>1, <1>2, Reader DEF Chain, PopState
<1>4. /\ UNCHANGED <<next, use_flag, data, p_tail, w_tail, w_len, r_len, linked, got, pushes>>
      /\ p_head' = Place(pos, head + 1)
      /\ pc' = [pc EXCEPT ![agent] = "read_data"] /\ reg' = [reg EXCEPT ![agent] = reg[agent]]
  BY <1>3 DEF PopMovesHead, history, bounds, Goto
<1>5. "read_data" \in PopLabels
  BY DEF PopLabels
<1>6. LfTypes'
  <2>1. p_head' \in Heads
    BY <1>3, <1>4 DEF RegType
  <2>2. QED BY <1>2, <1>3, <1>4, <1>5, <2>1, PopTypes DEF LfTypes, LfTypeOK
<1>7. pop' = "read_data" /\ reg'[agent] = reg[agent] /\ Uncounted' = Uncounted /\ last' = last
  BY <1>2, <1>4, <1>5, PopFrame
<1>8. /\ Promised = 1 /\ Promised' = 0 /\ NotYetFree' = NotYetFree /\ first = head
      /\ head' = head + 1 /\ first' = first
  <2>1. head' = Len(got') + 1 /\ first' = head' - 1 /\ head = Len(got) /\ first = head
    BY <1>2, <1>7 DEF head, first
  <2>2. Len(got) \in Nat /\ got' = got
    BY <1>1, <1>2, <1>4, Reader
  <2>3. QED BY <1>2, <1>7, <2>1, <2>2 DEF Promised, Popping, NotYetFree
<1>9. Ends(pos, tail)'
  <2>1. /\ head + r_len + Promised + Uncounted <= tail /\ tail <= last /\ r_len \in Nat
        /\ head \in Nat /\ Uncounted \in {0, 1} /\ p_tail = Place(pos, tail)
    BY <1>1, <1>2, Reader
  <2>2. (head + 1) + r_len + 0 + Uncounted <= tail
    BY <1>8, <2>1
  <2>3. QED BY <1>4, <1>7, <1>8, <2>1, <2>2 DEF Ends
<1>10. PopState(pos)'
  <2>1. p_head = Place(pos, first) /\ first \in Nat /\ \A j \in 1..Len(got) : got[j] = linked[j]
    BY <1>1, <1>2, <1>8, Reader
  <2>2. QED BY <1>3, <1>4, <1>7, <1>8, <2>1 DEF PopState
<1>11. QED BY <1>1, <1>2, <1>4, <1>5, <1>6, <1>8, <1>9, <1>10, ReadingStep

LEMMA PopReadsDataInv == ASSUME OneEach, LfIInv, PopReadsData(agent) PROVE LfIInv'
<1>1. PICK pos \in [Nat -> Int], done \in Int, tail \in Nat, gone \in SUBSET Units :
        Chain(pos, done, tail, gone)
  BY DEF LfIInv
<1>2. LfTypes /\ pop = "read_data"
  BY DEF LfIInv, PopReadsData, At, pop
<1>3. reg[agent].u = Place(pos, first)
  BY <1>1, <1>2 DEF Chain, PopState
<1>4. /\ first \in Nat /\ head \in Nat /\ last \in Nat /\ head <= last
      /\ reg[agent] \in RegType /\ agent \in Procs /\ reg = [reg EXCEPT ![agent] = reg[agent]]
      /\ Len(got) \in Nat /\ got \in Seq(1..MaxPush) /\ linked \in Seq(1..MaxPush)
      /\ \A j \in 1..Len(got) : got[j] = linked[j]
  <2>1. head \in Nat /\ last \in Nat /\ head <= tail /\ tail <= last
    BY <1>1, <1>2, Reader
  <2>2. head <= last
    BY <2>1
  <2>3. QED BY <1>1, <1>2, <2>2, Reader
<1>5. head = Len(got) + 1 /\ first = Len(got)
  <2>1. head = Len(got) + 1 /\ first = head - 1
    BY <1>2 DEF head, first
  <2>2. QED BY <1>4, <2>1
<1>6. data[next[reg[agent].u]] = linked[head] /\ linked[head] \in 1..MaxPush
  <2>1. first \in first..(last - 1) /\ head \in (first + 1)..last /\ head = first + 1
    BY <1>4, <1>5
  <2>2. next[Place(pos, first)] = Place(pos, head) /\ data[Place(pos, head)] = linked[head]
    BY <1>1, <1>2, <2>1, Reader
  <2>3. head \in 1..Len(linked)
    BY <1>4, <1>5 DEF last
  <2>4. linked[head] \in 1..MaxPush
    <3>1. linked \in Seq(1..MaxPush)
      BY <1>4
    <3>2. QED BY <2>3, <3>1, ElementOfSeq
  <2>5. QED BY <1>3, <2>2, <2>4
<1>7. /\ UNCHANGED <<next, use_flag, data, p_head, p_tail, w_tail, w_len, r_len, linked, pushes>>
      /\ got' = Append(got, linked[head])
      /\ pc' = [pc EXCEPT ![agent] = "clear_flag"] /\ reg' = [reg EXCEPT ![agent] = reg[agent]]
  BY <1>4, <1>6 DEF PopReadsData, memory, bounds, Goto
<1>8. "clear_flag" \in PopLabels
  BY DEF PopLabels
<1>9. /\ got' \in Seq(1..MaxPush) /\ Len(got') = Len(got) + 1 /\ got'[head] = linked[head]
      /\ \A j \in 1..Len(got) : got'[j] = got[j]
  BY <1>4, <1>5, <1>6, <1>7
<1>10. LfTypes'
  BY <1>2, <1>4, <1>7, <1>8, <1>9, PopTypes DEF LfTypes, LfTypeOK
<1>11. pop' = "clear_flag" /\ reg'[agent] = reg[agent] /\ Uncounted' = Uncounted /\ last' = last
  BY <1>2, <1>7, <1>8, PopFrame
<1>12. /\ Promised' = Promised /\ NotYetFree' = NotYetFree /\ head' = head /\ first' = first
  <2>1. head' = Len(got') /\ first' = head' - 1
    BY <1>11 DEF head, first
  <2>2. QED BY <1>2, <1>4, <1>5, <1>9, <1>11, <2>1 DEF Promised, Popping, NotYetFree
<1>13. Ends(pos, tail)'
  BY <1>1, <1>7, <1>11, <1>12 DEF Chain, Ends
<1>14. PopState(pos)'
  <2>1. \A j \in 1..Len(got') : got'[j] = linked[j]
    <3>1. \A j \in 1..Len(got') : j \in 1..Len(got) \/ j = head
      <4>1. Len(got) \in Nat /\ head = Len(got) + 1 /\ Len(got') = Len(got) + 1
        BY <1>4, <1>5, <1>9
      <4>2. QED BY <4>1
    <3>2. QED BY <1>4, <1>9, <3>1
  <2>2. QED BY <1>3, <1>4, <1>7, <1>11, <1>12, <2>1 DEF PopState
<1>15. QED BY <1>1, <1>2, <1>7, <1>8, <1>10, <1>12, <1>13, <1>14, ReadingStep

LEMMA PopClearsFlagInv == ASSUME OneEach, LfIInv, PopClearsFlag(agent) PROVE LfIInv'
<1>1. PICK pos \in [Nat -> Int], done \in Int, tail \in Nat, gone \in SUBSET Units :
        Chain(pos, done, tail, gone)
  BY DEF LfIInv
<1>2. LfTypes /\ pop = "clear_flag"
  BY DEF LfIInv, PopClearsFlag, At, pop
<1>3. reg[agent].u = Place(pos, first)
  BY <1>1, <1>2 DEF Chain, PopState
<1>4. /\ first \in Nat /\ head \in Nat /\ last \in Nat /\ tail \in Nat /\ head <= tail /\ tail <= last
      /\ Len(got) \in Nat /\ head = Len(got) /\ head = first + 1
  <2>1. first \in Nat /\ head \in Nat /\ last \in Nat /\ head <= tail /\ tail <= last /\ Len(got) \in Nat
    BY <1>1, <1>2, Reader
  <2>2. head = Len(got) /\ first = head - 1
    BY <1>2 DEF head, first
  <2>3. QED BY <2>1, <2>2
<1>5. /\ \A k \in first..last : Place(pos, k) \in Heads /\ pos[k] \in Int
      /\ \A k \in (first + 1)..last : Place(pos, k) \in Units
  BY <1>1, <1>2, Distinct
<1>6. next[reg[agent].u] = Place(pos, head)
  <2>1. first \in first..(last - 1)
    BY <1>4
  <2>2. \A k \in first..(last - 1) : next[Place(pos, k)] = Place(pos, k + 1)
    BY <1>1 DEF Chain, Linked
  <2>3. next[Place(pos, first)] = Place(pos, first + 1)
    BY <2>1, <2>2
  <2>4. QED BY <1>3, <1>4, <2>3
<1>7. /\ UNCHANGED <<next, data, p_head, p_tail, w_tail, w_len, r_len, linked, got, pushes>>
      /\ use_flag' = [use_flag EXCEPT ![Place(pos, head)] = FALSE]
      /\ pc' = [pc EXCEPT ![agent] = "count_down"] /\ reg' = [reg EXCEPT ![agent] = reg[agent]]
  <2>1. reg = [reg EXCEPT ![agent] = reg[agent]]
    BY <1>1, <1>2, Reader
  <2>2. QED BY <1>6, <2>1 DEF PopClearsFlag, history, bounds, Goto
<1>8. "count_down" \in PopLabels
  BY DEF PopLabels
<1>9. reg[agent] \in RegType
  BY <1>1, <1>2, Reader
<1>10. LfTypes'
  BY <1>2, <1>7, <1>8, <1>9, PopTypes DEF LfTypes, LfTypeOK
<1>11. /\ pop' = "count_down" /\ reg'[agent] = reg[agent] /\ reg'[email] = reg[email] /\ push' = push
       /\ Held' = Held /\ Holds' = Holds /\ Begun' = Begun /\ Uncounted' = Uncounted /\ last' = last
  BY <1>2, <1>7, <1>8, PopFrame
<1>12. /\ Promised' = Promised /\ NotYetFree = 0 /\ NotYetFree' = 1 /\ head' = head /\ first' = head
  BY <1>2, <1>7, <1>11 DEF Promised, Popping, NotYetFree, head, first
<1>13. \A k \in head..last : k \in first..last
  BY <1>4
<1>14. first \in first..last /\ head \in first..last /\ pos[first] \in Int /\ pos[head] \in Int
  BY <1>4, <1>5
<1>15. pos[first] < pos[head]
  <2>1. first < head
    BY <1>4
  <2>2. QED BY <1>1, <1>14, <2>1 DEF Chain, InOrder
<1>16. InOrder(pos, done)'
  <2>1. /\ \A j, k \in first..last : j < k => pos[j] < pos[k]
        /\ pos[last] < done /\ done + Held <= pos[first] + M
    BY <1>1 DEF Chain, InOrder
  <2>2. done + Held <= pos[head] + M
    <3>1. Held \in {0, 1} /\ M \in Nat
      BY UnitsInTurn DEF Held
    <3>2. QED BY <1>14, <1>15, <2>1, <3>1
  <2>3. \A j, k \in head..last : j < k => pos[j] < pos[k]
    BY <1>13, <2>1
  <2>4. QED BY <1>11, <1>12, <2>1, <2>2, <2>3 DEF InOrder
<1>17. Accounted(pos, done, gone)'
  <2>1. ASSUME NEW v \in (pos[head] + 1)..(done - 1)
        PROVE  UnitAt(v) \in gone \/ \E k \in (head + 1)..last : pos[k] = v
    <3>1. v \in (pos[first] + 1)..(done - 1) /\ v # pos[head]
      BY <1>14, <1>15
    <3>2. UnitAt(v) \in gone \/ \E k \in (first + 1)..last : pos[k] = v
      BY <1>1, <3>1 DEF Chain, Accounted
    <3>3. \A k \in (first + 1)..last : k # head => k \in (head + 1)..last
      BY <1>4
    <3>4. QED BY <3>1, <3>2, <3>3
  <2>2. QED BY <1>11, <1>12, <2>1 DEF Accounted
<1>18. Turn(done)'
  BY <1>1, <1>7, <1>11 DEF Chain, Turn
<1>19. Counted(gone)'
  <2> DEFINE c == Cardinality(gone)
  <2>1. c + (last - first) + Begun + 0 <= w_len /\ c \in Nat /\ Begun \in {0, 1} /\ w_len \in Nat
    BY <1>1, <1>2, <1>12, NumbersOfUnits DEF Chain, Counted
  <2> HIDE DEF c
  <2>2. c + (last - head) + Begun + 1 <= w_len
    BY <1>4, <2>1
  <2>3. QED BY <1>7, <1>11, <1>12, <2>2 DEF Counted, c
<1>20. Flags(pos, gone)'
  <2>1. DOMAIN use_flag = Heads /\ Place(pos, head) \in Heads
    BY <1>2, <1>5, <1>14 DEF LfTypes, LfTypeOK
  <2>2. ASSUME NEW x \in Units, use_flag'[x]
        PROVE  /\ x # Place(pos, head)
               /\ \/ x \in gone
                  \/ \E k \in (first + 1)..last : Place(pos, k) = x
                  \/ /\ push \in {"copy", "copied", "read_tail", "walk", "walk_on", "link"}
                     /\ x = reg[email].w
    <3>1. x \in Heads
      BY UnitsInTurn
    <3>2. x # Place(pos, head) /\ use_flag[x]
      BY <1>7, <2>1, <2>2, <3>1
    <3>3. QED BY <1>1, <3>2 DEF Chain, Flags
  <2>3. \A k \in (first + 1)..last : k # head => k \in (head + 1)..last
    BY <1>4
  <2>4. QED BY <1>11, <1>12, <2>2, <2>3 DEF Flags
<1>21. Linked(pos)'
  <2>1. /\ \A k \in first..(last - 1) : next[Place(pos, k)] = Place(pos, k + 1)
        /\ next[Place(pos, last)] = END
        /\ \A k \in (first + 1)..last : data[Place(pos, k)] = linked[k]
    BY <1>1 DEF Chain, Linked
  <2>2. (\A k \in head..(last - 1) : k \in first..(last - 1))
        /\ \A k \in (head + 1)..last : k \in (first + 1)..last
    BY <1>4
  <2>3. QED BY <1>7, <1>11, <1>12, <2>1, <2>2 DEF Linked
<1>22. Ends(pos, tail)' /\ PushState(pos, tail)'
  BY <1>1, <1>7, <1>11, <1>12 DEF Chain, Ends, PushState
<1>23. PopState(pos)'
  BY <1>1, <1>4, <1>7, <1>11, <1>12 DEF Chain, PopState
<1>24. QED BY <1>10, <1>16, <1>17, <1>18, <1>19, <1>20, <1>21, <1>22, <1>23, Repack

LEMMA PopEndsInv == ASSUME OneEach, LfIInv, PopEnds(agent) PROVE LfIInv'
<1>1. PICK pos \in [Nat -> Int], done \in Int, tail \in Nat, gone \in SUBSET Units :
        Chain(pos, done, tail, gone)
  BY DEF LfIInv
<1>2. LfTypes /\ pop = "count_down"
  BY DEF LfIInv, PopEnds, At, pop
<1>3. /\ UNCHANGED <<next, use_flag, data, p_head, p_tail, w_tail, r_len, linked, got, pushes>>
      /\ w_len' = w_len - 1
      /\ pc' = [pc EXCEPT ![agent] = "idle"] /\ reg' = [reg EXCEPT ![agent] = Regs0]
  BY DEF PopEnds, history, bounds, Goto
<1>4. "idle" \in PopLabels
  BY DEF PopLabels
<1>5. first \in Nat /\ last \in Nat /\ first <= last /\ Regs0 \in RegType
  <2>1. first \in Nat /\ head \in Nat /\ last \in Nat /\ first <= head /\ head <= tail /\ tail <= last
        /\ Regs0 \in RegType
    BY <1>1, <1>2, Reader
  <2>2. QED BY <2>1
<1> DEFINE c == Cardinality(gone)
<1>6. c + (last - first) + Begun + 1 <= w_len /\ c \in Nat /\ Begun \in {0, 1} /\ w_len \in Nat
  <2>1. NotYetFree = 1
    BY <1>2 DEF NotYetFree
  <2>2. QED BY <1>1, <1>2, <2>1, NumbersOfUnits DEF Chain, Counted
<1> HIDE DEF c
<1>7. w_len' \in 0..max_unit_num /\ c + (last - first) + Begun + 0 <= w_len'
  <2>1. w_len <= max_unit_num /\ max_unit_num \in Nat
    BY <1>2, UnitsInTurn DEF LfTypes, LfTypeOK
  <2>2. QED BY <1>3, <1>5, <1>6, <2>1
<1>8. LfTypes'
  BY <1>2, <1>3, <1>4, <1>5, <1>7, PopTypes DEF LfTypes, LfTypeOK
<1>9. /\ pop' = "idle" /\ reg'[agent] = Regs0 /\ reg'[email] = reg[email] /\ push' = push
      /\ Held' = Held /\ Holds' = Holds /\ Begun' = Begun /\ Uncounted' = Uncounted /\ last' = last
  BY <1>2, <1>3, <1>4, PopFrame
<1>10. Promised' = Promised /\ NotYetFree' = 0 /\ head' = head /\ first' = first
  BY <1>2, <1>3, <1>9 DEF Promised, Popping, NotYetFree, head, first
<1>11. InOrder(pos, done)' /\ Accounted(pos, done, gone)' /\ Turn(done)'
  BY <1>1, <1>3, <1>9, <1>10 DEF Chain, InOrder, Accounted, Turn
<1>12. Counted(gone)'
  BY <1>7, <1>9, <1>10 DEF Counted, c
<1>13. Flags(pos, gone)' /\ Linked(pos)'
  BY <1>1, <1>3, <1>9, <1>10 DEF Chain, Flags, Linked
<1>14. Ends(pos, tail)' /\ PushState(pos, tail)' /\ PopState(pos)'
  BY <1>1, <1>3, <1>9, <1>10 DEF Chain, Ends, PushState, PopState
<1>15. QED BY <1>8, <1>11, <1>12, <1>13, <1>14, Repack

----------------------------------------------------------------------------
(***************************************************************************)
(* The theorems                                                            *)
(***************************************************************************)
LEMMA LfNextInv == ASSUME OneEach, LfIInv, [LfNext]_lfVars PROVE LfIInv'
<1>1. CASE UNCHANGED lfVars
  <2>1. UNCHANGED <<next, use_flag, data, p_head, p_tail, w_tail, w_len, r_len, pc, reg, pushes, crashes,
                    linked, accepted, got>>
    BY <1>1 DEF lfVars, memory, bounds, history
  <2>2. PICK pos \in [Nat -> Int], done \in Int, tail \in Nat, gone \in SUBSET Units :
          Chain(pos, done, tail, gone)
    BY DEF LfIInv
  <2>3. LfTypes'
    BY <2>1 DEF LfIInv, LfTypes, LfTypeOK, push, pop
  <2>4. /\ push' = push /\ pop' = pop /\ last' = last /\ head' = head /\ first' = first
        /\ Held' = Held /\ (Holds' <=> Holds) /\ Begun' = Begun /\ Uncounted' = Uncounted
        /\ Promised' = Promised /\ NotYetFree' = NotYetFree
    BY <2>1 DEF push, pop, last, head, first, Held, Holds, Begun, Pushing, Uncounted, Promised,
                Popping, NotYetFree
  <2>5. InOrder(pos, done)' /\ Accounted(pos, done, gone)' /\ Turn(done)' /\ Counted(gone)'
    BY <2>1, <2>2, <2>4 DEF Chain, InOrder, Accounted, Turn, Counted
  <2>6. Flags(pos, gone)' /\ Linked(pos)' /\ Ends(pos, tail)' /\ PushState(pos, tail)' /\ PopState(pos)'
    BY <2>1, <2>2, <2>4 DEF Chain, Flags, Linked, Ends, PushState, PopState
  <2>7. QED BY <2>3, <2>5, <2>6, Repack
<1>2. CASE \E p \in Producers : PushStarts(p) \/ PushGoesOn(p) \/ Crash(p)
  <2>1. PushStarts(email) \/ PushGoesOn(email) \/ Crash(email)
    BY <1>2 DEF OneEach
  <2>2. CASE PushStarts(email)
    BY <2>2, PushStartsInv
  <2>3. CASE PushGoesOn(email)
    BY <2>3, PushAllocInv, PushTestInv, PushSetNextInv, PushSetFlagInv, PushCopiesInv,
       PushReadTailInv, PushWalksInv, PushLinksInv, PushMovesTailInv, PushEndsInv DEF PushGoesOn
  <2>4. CASE Crash(email)
    BY <2>4, CrashInv
  <2>5. QED BY <2>1, <2>2, <2>3, <2>4
<1>3. CASE \E c \in Consumers : PopStep(c)
  <2>1. PopStep(agent)
    BY <1>3 DEF OneEach
  <2>2. QED BY <2>1, PopStartsInv, PopReadsHeadInv, PopReadsNextInv, PopMovesHeadInv, PopReadsDataInv,
               PopClearsFlagInv, PopEndsInv DEF PopStep
<1>4. QED BY <1>1, <1>2, <1>3 DEF LfNext

\* The numbers exist in every state of the queue between one producer and one consumer,
\* whatever its size and however often the producer dies in the middle of a push.
THEOREM LfInductiveInvariant == ASSUME OneEach PROVE LfSpec => []LfIInv
<1>1. LfInit => LfIInv
  BY LfInitInv
<1>2. LfIInv /\ [LfNext]_lfVars => LfIInv'
  BY LfNextInv
<1>3. QED BY <1>1, <1>2, PTL DEF LfSpec

\* lf_queue_push and lf_queue_pop keep every index, counter and unit of the shared memory in
\* its range: w_len and r_len stay between 0 and max_unit_num.
THEOREM LfTypeCorrect == ASSUME OneEach PROVE LfSpec => []LfTypeOK
<1>1. LfIInv => LfTypeOK
  BY DEF LfIInv, LfTypes
<1>2. QED BY <1>1, LfInductiveInvariant, PTL

\* The agent pops the messages whole, once each and in the order in which they entered the
\* list, also behind a producer that died anywhere in lf_queue_push.
THEOREM PoppedInOrder == ASSUME OneEach PROVE LfSpec => []PopsInOrder
<1>1. ASSUME LfIInv PROVE PopsInOrder
  <2>1. PICK pos \in [Nat -> Int], done \in Int, tail \in Nat, gone \in SUBSET Units :
          Chain(pos, done, tail, gone)
    BY <1>1 DEF LfIInv
  <2>2. LfTypes
    BY <1>1 DEF LfIInv
  <2>3. /\ head <= tail /\ tail <= last /\ head \in Nat /\ last \in Nat /\ Len(got) \in Nat
        /\ got \in Seq(1..MaxPush) /\ linked \in Seq(1..MaxPush)
        /\ \A j \in 1..Len(got) : got[j] = linked[j]
    BY <2>1, <2>2, Reader
  <2>4. Len(got) <= Len(linked)
    <3>1. head \in {Len(got), Len(got) + 1}
      BY <2>2, Numbers
    <3>2. Len(got) <= last
      BY <2>3, <3>1
    <3>3. QED BY <3>2 DEF last
  <2> DEFINE s == SubSeq(linked, 1, Len(got))
  <2>5. s \in Seq(1..MaxPush) /\ Len(s) = Len(got) /\ \A j \in 1..Len(got) : s[j] = linked[j]
    <3> DEFINE n == Len(got)
    <3>1. n \in Nat /\ \A i \in 1..n : linked[i] \in 1..MaxPush
      BY <2>3, ElementOfSeq
    <3> HIDE DEF n
    <3>2. /\ SubSeq(linked, 1, n) \in Seq(1..MaxPush)
          /\ Len(SubSeq(linked, 1, n)) = IF 1 <= n THEN n - 1 + 1 ELSE 0
          /\ \A i \in 1..(n - 1 + 1) : SubSeq(linked, 1, n)[i] = linked[1 + i - 1]
      BY <3>1, SubSeqProperties
    <3>3. Len(SubSeq(linked, 1, n)) = n
      BY <3>1, <3>2
    <3>4. \A i \in 1..n : i \in 1..(n - 1 + 1) /\ 1 + i - 1 = i
      BY <3>1
    <3>5. \A i \in 1..n : SubSeq(linked, 1, n)[i] = linked[i]
      <4>1. TAKE i \in 1..n
      <4>2. SubSeq(linked, 1, n)[i] = linked[1 + i - 1] /\ 1 + i - 1 = i
        BY <3>2, <3>4
      <4>3. QED BY <4>2
    <3>6. QED BY <3>2, <3>3, <3>5 DEF n
  <2> HIDE DEF s
  <2>6. got = s
    BY <2>3, <2>5, SeqEqual
  <2>7. QED BY <2>4, <2>6 DEF PopsInOrder, s
<1>2. LfIInv => PopsInOrder
  BY <1>1
<1>3. QED BY <1>2, LfInductiveInvariant, PTL

\* r_len promises no more than the list holds, so that lf_queue_pop never follows the END of
\* the list.
THEOREM CountedAreLinked == ASSUME OneEach PROVE LfSpec => []CountedIsLinked
<1>1. ASSUME LfIInv PROVE CountedIsLinked
  <2>1. PICK pos \in [Nat -> Int], done \in Int, tail \in Nat, gone \in SUBSET Units :
          Chain(pos, done, tail, gone)
    BY <1>1 DEF LfIInv
  <2>2. LfTypes
    BY <1>1 DEF LfIInv
  <2>3. /\ head + r_len + Promised + Uncounted <= tail /\ tail <= last /\ r_len \in Nat
        /\ Promised \in {0, 1} /\ Uncounted \in {0, 1} /\ head \in Nat /\ last \in Nat /\ Len(got) \in Nat
    BY <2>1, <2>2, Reader
  <2>4. head \in {Len(got), Len(got) + 1}
    BY <2>2, Numbers
  <2>5. r_len <= last - Len(got)
    BY <2>3, <2>4
  <2>6. QED BY <2>5 DEF CountedIsLinked, last
<1>2. LfIInv => CountedIsLinked
  BY <1>1
<1>3. QED BY <1>2, LfInductiveInvariant, PTL

----------------------------------------------------------------------------
(***************************************************************************)
(* A free unit is found                                                    *)
(***************************************************************************)
\* The units that are gone and those of the list do not fill the memory, while a push is begun
\* that holds no unit yet.
LEMMA FewInUse ==
    ASSUME LfTypes, NEW pos \in [Nat -> Int], NEW gone \in SUBSET Units, Counted(gone), Begun = 1,
           first \in Nat, last \in Nat, first <= last,
           \A k \in (first + 1)..last : Place(pos, k) \in Units
    PROVE  \E x \in Units : x \notin gone /\ \A k \in (first + 1)..last : Place(pos, k) # x
<1> DEFINE K == (first + 1)..last
           L == {Place(pos, k) : k \in K}
           f == [k \in K |-> Place(pos, k)]
<1>1. IsFiniteSet(K) /\ Cardinality(K) = last - first
  <2>1. first + 1 \in Int /\ last \in Int
    OBVIOUS
  <2>2. IsFiniteSet(K) /\ Cardinality(K) = IF first + 1 > last THEN 0 ELSE last - (first + 1) + 1
    BY <2>1, FS_Interval
  <2>3. QED BY <2>2
<1>2. IsFiniteSet(L) /\ Cardinality(L) <= Cardinality(K)
  <2> HIDE DEF K
  <2>1. f \in Surjection(K, L)
    BY DEF Surjection
  <2> HIDE DEF f, L
  <2>2. QED BY <1>1, <2>1, FS_Surjection
<1>3. IsFiniteSet(gone) /\ Cardinality(gone) \in Nat
  BY NumbersOfUnits
<1> HIDE DEF K, L, f
<1>4. IsFiniteSet(gone \cup L) /\ Cardinality(gone \cup L) <= Cardinality(gone) + Cardinality(L)
  <2>1. IsFiniteSet(gone \cup L)
        /\ Cardinality(gone \cup L) = Cardinality(gone) + Cardinality(L) - Cardinality(gone \cap L)
    BY <1>2, <1>3, FS_Union
  <2>2. Cardinality(gone \cap L) \in Nat
    <3>1. gone \cap L \in SUBSET gone
      OBVIOUS
    <3>2. QED BY <1>3, <3>1, FS_Subset, FS_CardinalityType
  <2>3. Cardinality(L) \in Nat
    BY <1>2, FS_CardinalityType
  <2>4. QED BY <1>3, <2>1, <2>2, <2>3
<1>5. Cardinality(gone \cup L) < Cardinality(Units)
  <2> DEFINE g == Cardinality(gone)
             n == Cardinality(L)
             t == Cardinality(gone \cup L)
  <2>1. /\ g \in Nat /\ n \in Nat /\ t \in Nat /\ t <= g + n /\ n <= last - first
        /\ g + (last - first) + 1 + NotYetFree <= w_len /\ NotYetFree \in {0, 1}
    BY <1>1, <1>2, <1>3, <1>4, FS_CardinalityType, NumbersOfUnits DEF Counted
  <2> HIDE DEF g, n, t
  <2>2. w_len \in Nat /\ w_len <= max_unit_num
    BY UnitsInTurn DEF LfTypes, LfTypeOK
  <2>3. t < max_unit_num + 1
    BY <2>1, <2>2, UnitsInTurn
  <2>4. Cardinality(Units) = max_unit_num + 1
    <3>1. 0 \in Int /\ max_unit_num \in Int /\ ~(0 > max_unit_num)
      BY UnitsInTurn
    <3>2. Cardinality(0..max_unit_num) = max_unit_num - 0 + 1
      BY <3>1, FS_Interval
    <3>3. QED BY <3>1, <3>2 DEF Units
  <2>5. QED BY <2>3, <2>4 DEF t
<1>6. ~(Units \subseteq gone \cup L)
  <2>1. SUFFICES ASSUME Units \subseteq gone \cup L PROVE FALSE
    OBVIOUS
  <2>2. Cardinality(Units) <= Cardinality(gone \cup L)
    <3>1. Units \in SUBSET (gone \cup L)
      BY <2>1
    <3>2. QED BY <1>4, <3>1, FS_Subset
  <2>3. Cardinality(Units) \in Nat /\ Cardinality(gone \cup L) \in Nat
    <3>1. IsFiniteSet(Units)
      BY FS_Interval, UnitsInTurn DEF Units
    <3>2. QED BY <1>4, <3>1, FS_CardinalityType
  <2>4. QED BY <1>5, <2>2, <2>3
<1>7. PICK x \in Units : x \notin gone /\ x \notin L
  BY <1>6
<1>8. \A k \in (first + 1)..last : Place(pos, k) # x
  BY <1>7 DEF L, K
<1>9. QED BY <1>7, <1>8

\* lf_queue_push that looks for a unit finds one, in every state of the shared memory and
\* however many units a dead producer left in use: what w_len counts covers them all.
THEOREM FreeUnitIsFound == ASSUME OneEach PROVE LfSpec => []FreeUnitFound
<1>1. ASSUME LfIInv, push \in {"alloc", "test_flag"} PROVE \E x \in Units : ~use_flag[x]
  <2>1. PICK pos \in [Nat -> Int], done \in Int, tail \in Nat, gone \in SUBSET Units :
          Chain(pos, done, tail, gone)
    BY <1>1 DEF LfIInv
  <2>2. LfTypes
    BY <1>1 DEF LfIInv
  <2>3. /\ first \in Nat /\ last \in Nat /\ first <= last
        /\ \A k \in (first + 1)..last : Place(pos, k) \in Units
    BY <2>1, <2>2, Distinct
  <2>4. Begun = 1
    BY <1>1 DEF Begun, Pushing, Holds, Holding
  <2>5. PICK x \in Units : x \notin gone /\ \A k \in (first + 1)..last : Place(pos, k) # x
    BY <2>1, <2>2, <2>3, <2>4, FewInUse DEF Chain
  <2>6. push \notin {"copy", "copied", "read_tail", "walk", "walk_on", "link"}
    BY <1>1
  <2>7. ~use_flag[x]
    BY <2>1, <2>5, <2>6 DEF Chain, Flags
  <2>8. QED BY <2>7
<1>2. ASSUME LfIInv PROVE FreeUnitFound
  <2>1. ASSUME NEW p \in Producers, At(p, "alloc") \/ At(p, "test_flag")
        PROVE  \E i \in Units : ~use_flag[i]
    <3>1. push \in {"alloc", "test_flag"}
      BY <2>1 DEF OneEach, At, push
    <3>2. QED BY <1>1, <1>2, <3>1
  <2>2. QED BY <2>1 DEF FreeUnitFound
<1>3. LfIInv => FreeUnitFound
  BY <1>2
<1>4. QED BY <1>3, LfInductiveInvariant, PTL

----------------------------------------------------------------------------
(***************************************************************************)
(* What a death of the producer in a push costs                            *)
(***************************************************************************)
\* The same numbers as LostPlaces and HiddenElements, by the labels of the two processes.
Counting == IF push \in {"move_tail", "count"} THEN 1 ELSE 0
Reading  == IF Popping \/ pop = "read_data" THEN 1 ELSE 0
Freeing  == IF pop \in {"clear_flag", "count_down"} THEN 1 ELSE 0

Lost   == w_len - (last - Len(got)) - Begun - Freeing
Hidden == (last - Len(got)) - r_len - Reading - Counting

\* The inductive invariant of CrashCostsOne.
CostsOne ==
    /\ crashes \in Nat
    /\ Lost \in Nat /\ Hidden \in Nat /\ Lost + Hidden = crashes

LEMMA CountsAreInts ==
    ASSUME LfTypes
    PROVE  /\ w_len \in Int /\ r_len \in Int /\ last \in Int /\ Len(got) \in Int
           /\ Begun \in {0, 1} /\ Counting \in {0, 1} /\ Begun + Counting <= 1
           /\ Reading \in {0, 1} /\ Freeing \in {0, 1} /\ Reading + Freeing <= 1
<1>1. w_len \in Int /\ r_len \in Int /\ last \in Int /\ Len(got) \in Int
  BY Numbers DEF LfTypes, LfTypeOK
<1>2. Begun \in {0, 1} /\ Counting \in {0, 1} /\ Begun + Counting <= 1
  BY DEF Begun, Pushing, Holds, Holding, Counting
<1>3. Reading \in {0, 1} /\ Freeing \in {0, 1} /\ Reading + Freeing <= 1
  BY DEF Reading, Popping, Freeing
<1>4. QED BY <1>1, <1>2, <1>3

\* The labels after a step of one process.
LEMMA PushGoes ==
    ASSUME OneEach, LfTypes, NEW l, Goto(email, l)
    PROVE  push' = l /\ pop' = pop /\ Reading' = Reading /\ Freeing' = Freeing
<1>1. push' = l /\ pop' = pop
  BY Both DEF LfTypes, Goto, push, pop
<1>2. QED BY <1>1 DEF Reading, Popping, Freeing

LEMMA PopGoes ==
    ASSUME OneEach, LfTypes, NEW l, Goto(agent, l)
    PROVE  pop' = l /\ push' = push /\ Begun' = Begun /\ Counting' = Counting
<1>1. pop' = l /\ push' = push
  BY Both DEF LfTypes, Goto, push, pop
<1>2. QED BY <1>1 DEF Begun, Pushing, Holds, Counting

\* All that the two processes and the history say of the queue.
state == <<Begun, Counting, Reading, Freeing, Lost, Hidden, linked, got, crashes, pushes>>

LEMMA NothingCounted ==
    ASSUME UNCHANGED <<w_len, r_len, linked, got, crashes, pushes>>,
           UNCHANGED <<Begun, Counting, Reading, Freeing>>
    PROVE  UNCHANGED state
<1>1. last' = last
  BY DEF last
<1>2. QED BY <1>1 DEF state, Lost, Hidden

LEMMA PushStartsEffect ==
    ASSUME OneEach, LfTypes, PushStarts(email)
    PROVE  /\ Begun = 0 /\ Counting = 0 /\ Begun' = (IF w_len < max_unit_num THEN 1 ELSE 0)
           /\ pushes' = pushes + 1
           /\ UNCHANGED <<Counting, Reading, Freeing, Lost, Hidden, linked, got, crashes>>
<1>1. push = "idle" /\ UNCHANGED <<r_len, crashes, linked, got>> /\ pushes' = pushes + 1 /\ last' = last
  BY DEF PushStarts, At, push, history, last
<1>2. Begun = 0 /\ Counting = 0
  BY <1>1 DEF Begun, Pushing, Holds, Holding, Counting
<1>3. CASE w_len >= max_unit_num /\ UNCHANGED <<w_len, pc, reg>>
  <2>1. UNCHANGED <<Begun, Counting, Reading, Freeing>>
    BY <1>3 DEF Begun, Pushing, Holds, Counting, Reading, Popping, Freeing, push, pop
  <2>2. UNCHANGED <<Lost, Hidden>>
    BY <1>1, <1>3, <2>1 DEF Lost, Hidden
  <2>3. ~(w_len < max_unit_num)
    BY <1>3, CountsAreInts, UnitsInTurn
  <2>4. QED BY <1>1, <1>2, <2>1, <2>2, <2>3
<1>4. CASE w_len < max_unit_num /\ w_len' = w_len + 1 /\ Goto(email, "alloc")
  <2>1. push' = "alloc" /\ Reading' = Reading /\ Freeing' = Freeing
    BY <1>4, PushGoes
  <2>2. Begun' = 1 /\ Counting' = 0
    BY <2>1 DEF Begun, Pushing, Counting
  <2>3. Lost' = Lost /\ Hidden' = Hidden
    BY <1>1, <1>2, <1>4, <2>1, <2>2, CountsAreInts DEF Lost, Hidden
  <2>4. QED BY <1>1, <1>2, <1>4, <2>1, <2>2, <2>3
<1>5. QED BY <1>3, <1>4 DEF PushStarts

\* Between the choice of a unit and its link nothing is counted.
LEMMA PushWorksEffect ==
    ASSUME OneEach, LfTypes,
           \/ PushAlloc(email) \/ PushTest(email) \/ PushSetNext(email) \/ PushSetFlag(email)
           \/ PushCopies(email) \/ PushReadTail(email) \/ PushWalks(email)
    PROVE  UNCHANGED state
<1> DEFINE L == Holding \cup {"alloc"}
<1>1. UNCHANGED <<w_len, r_len, crashes, linked, got, pushes>>
  BY DEF PushAlloc, PushTest, PushSetNext, PushSetFlag, PushCopies, PushReadTail, PushWalks,
         memory, bounds, history
<1>2. push \in L /\ \E l \in L : Goto(email, l)
  <2>1. CASE PushAlloc(email) \/ PushTest(email)
    BY <2>1 DEF PushAlloc, PushTest, At, push, Holding
  <2>2. CASE PushSetNext(email) \/ PushSetFlag(email)
    BY <2>2 DEF PushSetNext, PushSetFlag, At, push, Holding
  <2>3. CASE PushCopies(email) \/ PushReadTail(email)
    BY <2>3 DEF PushCopies, PushReadTail, At, push, Holding
  <2>4. CASE PushWalks(email)
    BY <2>4 DEF PushWalks, At, push, Holding
  <2>5. QED BY <2>1, <2>2, <2>3, <2>4
<1>3. push' \in L /\ Reading' = Reading /\ Freeing' = Freeing
  BY <1>2, PushGoes
<1>4. Begun' = Begun /\ Counting' = Counting
  BY <1>2, <1>3 DEF Begun, Pushing, Holds, Holding, Counting
<1>5. QED BY <1>1, <1>3, <1>4, NothingCounted

\* The element is in the list: w_len counts it there, and r_len does not count it yet.
LEMMA PushLinksEffect ==
    ASSUME OneEach, LfTypes, PushLinks(email), ~UNCHANGED state
    PROVE  /\ push # "idle" /\ Begun = 1 /\ Begun' = 0 /\ Counting = 0 /\ Counting' = 1
           /\ linked' = Append(linked, reg[email].unit)
           /\ UNCHANGED <<Reading, Freeing, Lost, Hidden, got, crashes, pushes>>
<1>1. push = "link" /\ UNCHANGED <<w_len, r_len, crashes, got, pushes>>
  BY DEF PushLinks, At, push, bounds
<1>2. Begun = 1 /\ Counting = 0
  BY <1>1 DEF Begun, Pushing, Holds, Holding, Counting
<1>3. CASE Goto(email, "read_tail") /\ UNCHANGED linked
  <2>1. push' = "read_tail" /\ Reading' = Reading /\ Freeing' = Freeing
    BY <1>3, PushGoes
  <2>2. Begun' = Begun /\ Counting' = Counting
    BY <1>2, <2>1 DEF Begun, Pushing, Holds, Holding, Counting
  <2>3. QED BY <1>1, <1>3, <2>1, <2>2, NothingCounted
<1>4. CASE Goto(email, "move_tail") /\ linked' = Append(linked, reg[email].unit)
  <2>1. push' = "move_tail" /\ Reading' = Reading /\ Freeing' = Freeing
    BY <1>4, PushGoes
  <2>2. Begun' = 0 /\ Counting' = 1
    BY <2>1 DEF Begun, Pushing, Holds, Holding, Counting
  <2> DEFINE n == last - Len(got)
  <2>3. n' = n + 1 /\ n \in Int
    <3>1. last' = last + 1
      BY <1>4 DEF last, LfTypes
    <3>2. QED BY <1>1, <3>1, CountsAreInts
  <2> HIDE DEF n
  <2>4. Lost = w_len - n - Begun - Freeing /\ Hidden = n - r_len - Reading - Counting
    BY DEF Lost, Hidden, n
  <2>5. Lost' = w_len - (n + 1) - 0 - Freeing /\ Hidden' = (n + 1) - r_len - Reading - 1
    BY <1>1, <2>1, <2>2, <2>3 DEF Lost, Hidden, n
  <2>6. Lost' = Lost /\ Hidden' = Hidden
    BY <1>2, <2>3, <2>4, <2>5, CountsAreInts
  <2>7. QED BY <1>1, <1>2, <1>4, <2>1, <2>2, <2>6
<1>5. QED BY <1>3, <1>4 DEF PushLinks

LEMMA PushMovesTailEffect == ASSUME OneEach, LfTypes, PushMovesTail(email) PROVE UNCHANGED state
<1>1. /\ push = "move_tail" /\ UNCHANGED <<w_len, r_len, crashes, linked, got, pushes>>
      /\ Goto(email, "count")
  BY DEF PushMovesTail, At, push, bounds, history
<1>2. push' = "count" /\ Reading' = Reading /\ Freeing' = Freeing
  BY <1>1, PushGoes
<1>3. Begun' = Begun /\ Counting' = Counting
  BY <1>1, <1>2 DEF Begun, Pushing, Holds, Holding, Counting
<1>4. QED BY <1>1, <1>2, <1>3, NothingCounted

LEMMA PushEndsEffect ==
    ASSUME OneEach, LfTypes, PushEnds(email)
    PROVE  /\ Begun = 0 /\ Counting = 1 /\ Counting' = 0
           /\ UNCHANGED <<Begun, Reading, Freeing, Lost, Hidden, linked, got, crashes, pushes>>
<1>1. /\ push = "count" /\ UNCHANGED <<w_len, crashes, linked, got, pushes>> /\ r_len' = r_len + 1
      /\ Goto(email, "idle") /\ last' = last
  BY DEF PushEnds, At, push, bounds, last
<1>2. push' = "idle" /\ Reading' = Reading /\ Freeing' = Freeing
  BY <1>1, PushGoes
<1>3. Begun = 0 /\ Begun' = 0 /\ Counting = 1 /\ Counting' = 0
  BY <1>1, <1>2 DEF Begun, Pushing, Holds, Holding, Counting
<1>4. Lost' = Lost /\ Hidden' = Hidden
  BY <1>1, <1>2, <1>3, CountsAreInts DEF Lost, Hidden
<1>5. QED BY <1>1, <1>2, <1>3, <1>4

\* A place is lost before the link, and an element is hidden behind it.
LEMMA CrashEffect ==
    ASSUME OneEach, LfTypes, Crash(email)
    PROVE  /\ Begun + Counting = 1 /\ Begun' = 0 /\ Counting' = 0
           /\ Lost' = Lost + Begun /\ Hidden' = Hidden + Counting /\ crashes' = crashes + 1
           /\ UNCHANGED <<Reading, Freeing, linked, got, pushes>>
<1>1. /\ push # "idle" /\ UNCHANGED <<w_len, r_len, linked, got, pushes>> /\ crashes' = crashes + 1
      /\ Goto(email, "idle") /\ last' = last
  BY DEF Crash, push, memory, history, last
<1>2. push' = "idle" /\ Reading' = Reading /\ Freeing' = Freeing
  BY <1>1, PushGoes
<1>3. Begun' = 0 /\ Counting' = 0
  BY <1>2 DEF Begun, Pushing, Holds, Holding, Counting
<1>4. Begun + Counting = 1
  BY <1>1 DEF Begun, Pushing, Holds, Holding, Counting, LfTypes, PushLabels
<1>5. Lost' = Lost + Begun /\ Hidden' = Hidden + Counting
  BY <1>1, <1>2, <1>3, CountsAreInts DEF Lost, Hidden
<1>6. QED BY <1>1, <1>2, <1>3, <1>4, <1>5

\* From idle to reading, an element is taken from r_len.
LEMMA PopStartsEffect ==
    ASSUME OneEach, LfTypes, PopStarts(agent)
    PROVE  /\ r_len > 0 /\ Reading = 0 /\ Reading' = 1 /\ Freeing = 0
           /\ UNCHANGED <<Begun, Counting, Freeing, Lost, Hidden, linked, got, crashes, pushes>>
<1>1. /\ pop = "idle" /\ UNCHANGED <<w_len, crashes, linked, got, pushes>> /\ r_len' = r_len - 1
      /\ Goto(agent, "read_head") /\ last' = last /\ r_len > 0
  BY DEF PopStarts, At, pop, bounds, history, last
<1>2. pop' = "read_head" /\ Begun' = Begun /\ Counting' = Counting
  BY <1>1, PopGoes
<1>3. Reading = 0 /\ Reading' = 1 /\ Freeing = 0 /\ Freeing' = 0
  BY <1>1, <1>2 DEF Reading, Popping, Freeing
<1>4. Lost' = Lost /\ Hidden' = Hidden
  BY <1>1, <1>2, <1>3, CountsAreInts DEF Lost, Hidden
<1>5. QED BY <1>1, <1>2, <1>3, <1>4

LEMMA PopLooksEffect ==
    ASSUME OneEach, LfTypes,
           PopReadsHead(agent) \/ PopReadsNext(agent) \/ PopMovesHead(agent) \/ PopClearsFlag(agent)
    PROVE  UNCHANGED state
<1>1. UNCHANGED <<w_len, r_len, crashes, linked, got, pushes>>
  BY DEF PopReadsHead, PopReadsNext, PopMovesHead, PopClearsFlag, memory, bounds, history
<1>2. CASE PopReadsHead(agent) \/ PopReadsNext(agent) \/ PopMovesHead(agent)
  <2> DEFINE L == {"read_head", "read_next", "move_head", "read_data"}
  <2>1. pop \in L /\ \E l \in L : Goto(agent, l)
    BY <1>2 DEF PopReadsHead, PopReadsNext, PopMovesHead, At, pop
  <2>2. pop' \in L /\ Begun' = Begun /\ Counting' = Counting
    BY <2>1, PopGoes
  <2>3. Reading' = Reading /\ Freeing' = Freeing
    BY <2>1, <2>2 DEF Reading, Popping, Freeing
  <2>4. QED BY <1>1, <2>2, <2>3, NothingCounted
<1>3. CASE PopClearsFlag(agent)
  <2>1. pop = "clear_flag" /\ pop' = "count_down" /\ Begun' = Begun /\ Counting' = Counting
    BY <1>3, PopGoes DEF PopClearsFlag, At, pop
  <2>2. Reading' = Reading /\ Freeing' = Freeing
    BY <2>1 DEF Reading, Popping, Freeing
  <2>3. QED BY <1>1, <2>1, <2>2, NothingCounted
<1>4. QED BY <1>2, <1>3

\* The element has been read; w_len counts it until the step behind its flag.
LEMMA PopReadsDataEffect ==
    ASSUME OneEach, LfTypes, PopReadsData(agent)
    PROVE  /\ pop = "read_data"
           /\ Reading = 1 /\ Reading' = 0 /\ Freeing = 0 /\ Freeing' = 1
           /\ got' = Append(got, data[next[reg[agent].u]])
           /\ UNCHANGED <<Begun, Counting, Lost, Hidden, linked, crashes, pushes>>
<1>1. /\ pop = "read_data" /\ UNCHANGED <<w_len, r_len, crashes, linked, pushes>>
      /\ Goto(agent, "clear_flag") /\ got' = Append(got, data[next[reg[agent].u]]) /\ last' = last
  BY DEF PopReadsData, At, pop, memory, bounds, last
<1>2. pop' = "clear_flag" /\ Begun' = Begun /\ Counting' = Counting
  BY <1>1, PopGoes
<1>3. Reading = 1 /\ Reading' = 0 /\ Freeing = 0 /\ Freeing' = 1
  BY <1>1, <1>2 DEF Reading, Popping, Freeing
<1> DEFINE n == last - Len(got)
<1>4. n' = n - 1 /\ n \in Int
  <2>1. Len(got)' = Len(got) + 1
    BY <1>1 DEF LfTypes
  <2>2. QED BY <1>1, <2>1, CountsAreInts
<1> HIDE DEF n
<1>5. Lost = w_len - n - Begun - Freeing /\ Hidden = n - r_len - Reading - Counting
  BY DEF Lost, Hidden, n
<1>6. Lost' = w_len - (n - 1) - Begun - 1 /\ Hidden' = (n - 1) - r_len - 0 - Counting
  BY <1>1, <1>2, <1>3, <1>4 DEF Lost, Hidden, n
<1>7. Lost' = Lost /\ Hidden' = Hidden
  BY <1>3, <1>4, <1>5, <1>6, CountsAreInts
<1>8. QED BY <1>1, <1>2, <1>3, <1>7

LEMMA PopEndsEffect ==
    ASSUME OneEach, LfTypes, PopEnds(agent)
    PROVE  /\ Reading = 0 /\ Freeing = 1 /\ Freeing' = 0
           /\ UNCHANGED <<Begun, Counting, Reading, Lost, Hidden, linked, got, crashes, pushes>>
<1>1. /\ pop = "count_down" /\ UNCHANGED <<r_len, crashes, linked, got, pushes>> /\ w_len' = w_len - 1
      /\ Goto(agent, "idle") /\ last' = last
  BY DEF PopEnds, At, pop, bounds, history, last
<1>2. pop' = "idle" /\ Begun' = Begun /\ Counting' = Counting
  BY <1>1, PopGoes
<1>3. Reading = 0 /\ Reading' = 0 /\ Freeing = 1 /\ Freeing' = 0
  BY <1>1, <1>2 DEF Reading, Popping, Freeing
<1>4. Lost' = Lost /\ Hidden' = Hidden
  BY <1>1, <1>2, <1>3, CountsAreInts DEF Lost, Hidden
<1>5. QED BY <1>1, <1>2, <1>3, <1>4

\* The steps of the two processes.
Working == \/ PushAlloc(email) \/ PushTest(email) \/ PushSetNext(email) \/ PushSetFlag(email)
           \/ PushCopies(email) \/ PushReadTail(email) \/ PushWalks(email) \/ PushMovesTail(email)
           \/ PopReadsHead(agent) \/ PopReadsNext(agent) \/ PopMovesHead(agent) \/ PopClearsFlag(agent)

LEMMA StepsOfBoth ==
    ASSUME OneEach, [LfNext]_lfVars
    PROVE  \/ PushStarts(email) \/ PushLinks(email) \/ PushEnds(email) \/ Crash(email)
           \/ PopStarts(agent) \/ PopReadsData(agent) \/ PopEnds(agent)
           \/ Working \/ UNCHANGED lfVars
<1>1. CASE UNCHANGED lfVars
  BY <1>1
<1>2. CASE \E p \in Producers : PushStarts(p) \/ PushGoesOn(p) \/ Crash(p)
  <2>1. PushStarts(email) \/ PushGoesOn(email) \/ Crash(email)
    BY <1>2 DEF OneEach
  <2>2. QED BY <2>1 DEF PushGoesOn, Working
<1>3. CASE \E c \in Consumers : PopStep(c)
  <2>1. PopStep(agent)
    BY <1>3 DEF OneEach
  <2>2. QED BY <2>1 DEF PopStep, Working
<1>4. QED BY <1>1, <1>2, <1>3 DEF LfNext

LEMMA WorkingEffect == ASSUME OneEach, LfTypes, Working \/ UNCHANGED lfVars PROVE UNCHANGED state
<1>1. CASE UNCHANGED lfVars
  BY <1>1, NothingCounted DEF lfVars, memory, bounds, history, Begun, Pushing, Holds, Counting, Reading,
                              Popping, Freeing, push, pop
<1>2. CASE Working
  BY <1>2, PushWorksEffect, PushMovesTailEffect, PopLooksEffect DEF Working
<1>3. QED BY <1>1, <1>2

LEMMA CostNext == ASSUME OneEach, LfTypes, CostsOne, [LfNext]_lfVars PROVE CostsOne'
<1>1. CASE PushStarts(email)
  BY <1>1, PushStartsEffect DEF CostsOne
<1>2. CASE PushLinks(email) \/ PushEnds(email)
  BY <1>2, PushLinksEffect, PushEndsEffect DEF CostsOne, state
<1>3. CASE Crash(email)
  <2>1. /\ Lost' = Lost + Begun /\ Hidden' = Hidden + Counting /\ crashes' = crashes + 1
        /\ Begun + Counting = 1 /\ Begun \in {0, 1} /\ Counting \in {0, 1}
    BY <1>3, CrashEffect, CountsAreInts
  <2>2. QED BY <2>1 DEF CostsOne
<1>4. CASE PopStarts(agent) \/ PopReadsData(agent) \/ PopEnds(agent)
  BY <1>4, PopStartsEffect, PopReadsDataEffect, PopEndsEffect DEF CostsOne
<1>5. CASE Working \/ UNCHANGED lfVars
  BY <1>5, WorkingEffect DEF CostsOne, state
<1>6. QED BY <1>1, <1>2, <1>3, <1>4, <1>5, StepsOfBoth

\* The sets of LostPlaces and HiddenElements have at most one member.
LEMMA Census ==
    ASSUME OneEach, LfTypes
    PROVE  LostPlaces = Lost /\ HiddenElements = Hidden
<1>1. push = pc[email] /\ pop = pc[agent] /\ Producers = {email} /\ Consumers = {agent}
  BY DEF push, pop, OneEach
<1>2. Cardinality({}) = 0 /\ \A x : Cardinality({x}) = 1
  BY FS_EmptySet, FS_Singleton
<1>3. Cardinality(InPush) = Begun
  <2>1. Begun = IF push \notin {"idle", "move_tail", "count"} THEN 1 ELSE 0
    BY DEF Begun, Pushing, Holds, Holding, LfTypes, PushLabels
  <2>2. InPush = IF push \notin {"idle", "move_tail", "count"} THEN {email} ELSE {}
    BY <1>1 DEF InPush
  <2>3. QED BY <1>2, <2>1, <2>2
<1>4. Cardinality(BeforeCount) = Counting
  <2>1. BeforeCount = IF push \in {"move_tail", "count"} THEN {email} ELSE {}
    BY <1>1 DEF BeforeCount
  <2>2. QED BY <1>2, <2>1 DEF Counting
<1>5. Cardinality(BeforeRead) = Reading
  <2>1. BeforeRead = IF Popping \/ pop = "read_data" THEN {agent} ELSE {}
    BY <1>1 DEF BeforeRead, Popping
  <2>2. QED BY <1>2, <2>1 DEF Reading
<1>6. Cardinality(BeforeFree) = Freeing
  <2>1. BeforeFree = IF pop \in {"clear_flag", "count_down"} THEN {agent} ELSE {}
    BY <1>1 DEF BeforeFree
  <2>2. QED BY <1>2, <2>1 DEF Freeing
<1>7. QED BY <1>3, <1>4, <1>5, <1>6 DEF LostPlaces, HiddenElements, Lost, Hidden, Unread, last

\* In every state the places lost and the elements hidden are as many as pushes died,
\* one for each death: lf_queue_push takes w_len back nowhere, and raises r_len last.
THEOREM CrashesCostOneEach == ASSUME OneEach PROVE LfSpec => []CrashCostsOne
<1>1. ASSUME LfInit PROVE CostsOne
  <2>1. push = "idle" /\ pop = "idle" /\ w_len = 0 /\ r_len = 0 /\ crashes = 0
        /\ last = 0 /\ Len(got) = 0
    BY <1>1, Both DEF LfInit, push, pop, last
  <2>2. Begun = 0 /\ Counting = 0 /\ Reading = 0 /\ Freeing = 0
    BY <2>1 DEF Begun, Pushing, Holds, Holding, Counting, Reading, Popping, Freeing
  <2>3. QED BY <2>1, <2>2 DEF CostsOne, Lost, Hidden
<1>2. LfInit => CostsOne
  BY <1>1
<1>3. LfIInv /\ CostsOne /\ [LfNext]_lfVars => CostsOne'
  BY CostNext DEF LfIInv
<1>4. LfIInv /\ CostsOne => CrashCostsOne
  BY Census DEF LfIInv, CostsOne, CrashCostsOne
<1>5. QED BY <1>2, <1>3, <1>4, LfInductiveInvariant, PTL DEF LfSpec

----------------------------------------------------------------------------
(***************************************************************************)
(* The shared memory implements AgentQueue                                 *)
(***************************************************************************)
\* The mapping, in terms of the two labels and of numbers.
queue   == SubSeq(linked, Len(got) + 1, Len(linked))
Waiting == last - Len(got)

Mapped ==
    /\ LfTypes
    /\ WriterAt = IF Begun = 1 THEN "writing" ELSE IF Counting = 1 THEN "entered" ELSE "idle"
    /\ ReaderAt = IF Reading = 1 THEN "reading" ELSE IF Freeing = 1 THEN "freeing" ELSE "idle"
    /\ LostPlaces = Lost /\ HiddenElements = Hidden
    /\ got \in Seq(1..MaxPush) /\ linked \in Seq(1..MaxPush) /\ Len(got) \in Nat /\ Len(linked) \in Nat
    /\ Len(got) <= Len(linked) /\ \A j \in 1..Len(got) : got[j] = linked[j]
    /\ queue \in Seq(1..MaxPush) /\ Len(queue) = Waiting /\ Waiting \in Nat
    /\ \A i \in 1..Waiting : queue[i] = linked[Len(got) + i]

\* The message under way is the one that was offered last.
UnitIsOffered == push # "idle" => reg[email].unit = pushes

QueueIInv == LfIInv /\ UnitIsOffered /\ Mapped

LEMMA LengthsFit ==
    ASSUME OneEach, LfIInv
    PROVE  /\ LfTypes /\ got \in Seq(1..MaxPush) /\ linked \in Seq(1..MaxPush)
           /\ Len(got) \in Nat /\ Len(linked) \in Nat /\ Len(got) <= Len(linked) /\ last = Len(linked)
           /\ \A j \in 1..Len(got) : got[j] = linked[j]
<1>1. PICK pos \in [Nat -> Int], done \in Int, tail \in Nat, gone \in SUBSET Units :
        Chain(pos, done, tail, gone)
  BY DEF LfIInv
<1>2. LfTypes
  BY DEF LfIInv
<1>3. /\ head <= tail /\ tail <= last /\ head \in Nat /\ last \in Nat /\ Len(got) \in Nat
      /\ got \in Seq(1..MaxPush) /\ linked \in Seq(1..MaxPush)
      /\ \A j \in 1..Len(got) : got[j] = linked[j]
  BY <1>1, <1>2, Reader
<1>4. head \in {Len(got), Len(got) + 1}
  BY <1>2, Numbers
<1>5. QED BY <1>2, <1>3, <1>4 DEF last

LEMMA QueueMapped == ASSUME OneEach, LfIInv PROVE Mapped
<1>1. /\ LfTypes /\ got \in Seq(1..MaxPush) /\ linked \in Seq(1..MaxPush)
      /\ Len(got) \in Nat /\ Len(linked) \in Nat /\ Len(got) <= Len(linked) /\ last = Len(linked)
      /\ \A j \in 1..Len(got) : got[j] = linked[j]
  BY LengthsFit
<1>2. LostPlaces = Lost /\ HiddenElements = Hidden
  BY <1>1, Census
<1>3. push = pc[email] /\ pop = pc[agent] /\ Producers = {email} /\ Consumers = {agent}
  BY DEF push, pop, OneEach
<1>4. WriterAt = IF Begun = 1 THEN "writing" ELSE IF Counting = 1 THEN "entered" ELSE "idle"
  <2>1. (InPush # {}) <=> Begun = 1
    BY <1>1, <1>3 DEF InPush, Begun, Pushing, Holds, Holding, LfTypes, PushLabels
  <2>2. (BeforeCount # {}) <=> Counting = 1
    BY <1>3 DEF BeforeCount, Counting
  <2>3. QED BY <2>1, <2>2 DEF WriterAt
<1>5. ReaderAt = IF Reading = 1 THEN "reading" ELSE IF Freeing = 1 THEN "freeing" ELSE "idle"
  <2>1. (BeforeRead # {}) <=> Reading = 1
    BY <1>3 DEF BeforeRead, Reading, Popping
  <2>2. (BeforeFree # {}) <=> Freeing = 1
    BY <1>3 DEF BeforeFree, Freeing
  <2>3. QED BY <2>1, <2>2 DEF ReaderAt
<1> DEFINE m == Len(got) + 1
           n == Len(linked)
<1>6. m \in Int /\ n \in Int /\ \A i \in m..n : linked[i] \in 1..MaxPush
  <2>1. \A i \in m..n : i \in 1..n
    BY <1>1
  <2>2. \A i \in 1..n : linked[i] \in 1..MaxPush
    BY <1>1, ElementOfSeq
  <2>3. QED BY <1>1, <2>1, <2>2
<1>7. /\ SubSeq(linked, m, n) \in Seq(1..MaxPush)
      /\ Len(SubSeq(linked, m, n)) = IF m <= n THEN n - m + 1 ELSE 0
      /\ \A i \in 1..(n - m + 1) : SubSeq(linked, m, n)[i] = linked[m + i - 1]
  <2> HIDE DEF m, n
  <2>1. QED BY <1>6, SubSeqProperties
<1>8. queue \in Seq(1..MaxPush) /\ Len(queue) = Waiting /\ Waiting \in Nat
  BY <1>1, <1>7 DEF queue, Waiting
<1>9. \A i \in 1..Waiting : queue[i] = linked[Len(got) + i]
  <2>1. TAKE i \in 1..Waiting
  <2>2. i \in 1..(n - m + 1) /\ m + i - 1 = Len(got) + i
    BY <1>1 DEF Waiting
  <2>3. QED BY <1>7, <2>2 DEF queue
<1>10. QED BY <1>1, <1>2, <1>4, <1>5, <1>8, <1>9 DEF Mapped

\* w_len counts the places in use, and r_len the elements that were announced.
LEMMA CountersMapped ==
    ASSUME Mapped
    PROVE  Agent!InUse = w_len /\ Agent!Announced = r_len
<1>1. /\ w_len \in Int /\ r_len \in Int /\ last \in Int /\ Len(got) \in Int
      /\ Begun \in {0, 1} /\ Counting \in {0, 1} /\ Begun + Counting <= 1
      /\ Reading \in {0, 1} /\ Freeing \in {0, 1} /\ Reading + Freeing <= 1
  BY CountsAreInts DEF Mapped
<1>2. Agent!InUse = Waiting + Lost + Begun + Freeing
  <2>1. Agent!One(WriterAt = "writing") = Begun /\ Agent!One(ReaderAt = "freeing") = Freeing
    BY <1>1 DEF Mapped, Agent!One
  <2>2. QED BY <2>1 DEF Agent!InUse, Mapped, queue
<1>3. Agent!Announced = Waiting - Hidden - Counting - Reading
  <2>1. Agent!One(WriterAt = "entered") = Counting /\ Agent!One(ReaderAt = "reading") = Reading
    BY <1>1 DEF Mapped, Agent!One
  <2>2. QED BY <2>1 DEF Agent!Announced, Mapped, queue
<1>4. QED BY <1>1, <1>2, <1>3 DEF Lost, Hidden, Waiting

\* queue is a function of what was linked and what was read.
LEMMA QueueKept ==
    ASSUME UNCHANGED <<linked, got>>
    PROVE  UNCHANGED queue
BY DEF queue

LEMMA OfferRefines == ASSUME OneEach, Mapped, Mapped', PushStarts(email) PROVE Agent!Offer
<1>1. /\ Begun = 0 /\ Counting = 0 /\ Begun' = (IF w_len < max_unit_num THEN 1 ELSE 0)
      /\ pushes' = pushes + 1
      /\ UNCHANGED <<Counting, Reading, Freeing, Lost, Hidden, linked, got>>
  BY PushStartsEffect DEF Mapped
<1>2. WriterAt = "idle" /\ WriterAt' = IF w_len < max_unit_num THEN "writing" ELSE "idle"
  BY <1>1 DEF Mapped
<1>3. Agent!InUse = w_len
  BY CountersMapped
<1>4. UNCHANGED <<queue, got, ReaderAt, LostPlaces, HiddenElements>>
  BY <1>1, QueueKept DEF Mapped
<1>5. QED BY <1>1, <1>2, <1>3, <1>4 DEF Agent!Offer, queue

LEMMA EnterRefines ==
    ASSUME OneEach, Mapped, Mapped', UnitIsOffered, PushLinks(email), ~UNCHANGED state
    PROVE  Agent!Enter
<1>1. /\ push # "idle" /\ Begun = 1 /\ Begun' = 0 /\ Counting = 0 /\ Counting' = 1
      /\ linked' = Append(linked, reg[email].unit)
      /\ UNCHANGED <<Reading, Freeing, Lost, Hidden, got, pushes>>
  BY PushLinksEffect DEF Mapped
<1>2. WriterAt = "writing" /\ WriterAt' = "entered" /\ UNCHANGED <<ReaderAt, LostPlaces, HiddenElements>>
  BY <1>1 DEF Mapped
<1>3. linked' = Append(linked, pushes) /\ pushes \in 1..MaxPush
  BY <1>1 DEF UnitIsOffered, Mapped, LfTypes
<1>4. queue' = Append(queue, pushes)
  <2>1. /\ Len(linked') = Len(linked) + 1 /\ linked'[Len(linked) + 1] = pushes
        /\ \A i \in 1..Len(linked) : linked'[i] = linked[i]
    BY <1>3 DEF Mapped
  <2>2. Waiting' = Waiting + 1 /\ Waiting = Len(linked) - Len(got)
    BY <1>1, <2>1 DEF Waiting, last, Mapped
  <2> DEFINE q == Append(queue, pushes)
  <2>3. /\ q \in Seq(1..MaxPush) /\ Len(q) = Waiting + 1 /\ q[Waiting + 1] = pushes
        /\ \A i \in 1..Waiting : q[i] = queue[i]
    BY <1>3 DEF Mapped
  <2>4. \A i \in 1..(Waiting + 1) : queue'[i] = q[i]
    <3>1. TAKE i \in 1..(Waiting + 1)
    <3>2. queue'[i] = linked'[Len(got) + i]
      BY <1>1, <2>2 DEF Mapped
    <3>3. CASE i = Waiting + 1
      <4>1. Len(got) + i = Len(linked) + 1
        BY <2>2, <3>3 DEF Mapped
      <4>2. QED BY <2>1, <2>3, <3>2, <3>3, <4>1
    <3>4. CASE i # Waiting + 1
      <4>1. i \in 1..Waiting /\ Len(got) + i \in 1..Len(linked)
        BY <2>2, <3>4 DEF Mapped
      <4>2. QED BY <2>1, <2>3, <3>2, <4>1 DEF Mapped
    <3>5. QED BY <3>3, <3>4
  <2>5. queue' \in Seq(1..MaxPush) /\ Len(queue') = Waiting + 1
    BY <2>2 DEF Mapped
  <2> HIDE DEF q
  <2>6. queue' = q
    BY <2>3, <2>4, <2>5, SeqEqual
  <2>7. QED BY <2>6 DEF q
<1>5. QED BY <1>1, <1>2, <1>4 DEF Agent!Enter, queue

LEMMA AnnounceRefines == ASSUME OneEach, Mapped, Mapped', PushEnds(email) PROVE Agent!Announce
<1>1. /\ Begun = 0 /\ Counting = 1 /\ Counting' = 0
      /\ UNCHANGED <<Begun, Reading, Freeing, Lost, Hidden, linked, got, pushes>>
  BY PushEndsEffect DEF Mapped
<1>2. WriterAt = "entered" /\ WriterAt' = "idle"
      /\ UNCHANGED <<queue, ReaderAt, LostPlaces, HiddenElements>>
  BY <1>1, QueueKept DEF Mapped
<1>3. QED BY <1>1, <1>2 DEF Agent!Announce, queue

LEMMA DieRefines == ASSUME OneEach, Mapped, Mapped', Crash(email) PROVE Agent!Die
<1>1. /\ Begun + Counting = 1 /\ Begun' = 0 /\ Counting' = 0
      /\ Lost' = Lost + Begun /\ Hidden' = Hidden + Counting
      /\ UNCHANGED <<Reading, Freeing, linked, got, pushes>>
      /\ Begun \in {0, 1} /\ Counting \in {0, 1}
  BY CrashEffect, CountsAreInts DEF Mapped
<1>2. WriterAt # "idle" /\ WriterAt' = "idle" /\ UNCHANGED <<queue, ReaderAt>>
  BY <1>1, QueueKept DEF Mapped
<1>3. Agent!One(WriterAt = "writing") = Begun /\ Agent!One(WriterAt = "entered") = Counting
  BY <1>1 DEF Mapped, Agent!One
<1>4. LostPlaces' = LostPlaces + Begun /\ HiddenElements' = HiddenElements + Counting
  BY <1>1 DEF Mapped
<1>5. QED BY <1>1, <1>2, <1>3, <1>4 DEF Agent!Die, queue

LEMMA ReadRefines == ASSUME OneEach, Mapped, Mapped', PopStarts(agent) PROVE Agent!Read
<1>1. /\ r_len > 0 /\ Reading = 0 /\ Reading' = 1 /\ Freeing = 0
      /\ UNCHANGED <<Begun, Counting, Lost, Hidden, linked, got, pushes>>
  BY PopStartsEffect DEF Mapped
<1>2. ReaderAt = "idle" /\ ReaderAt' = "reading"
      /\ UNCHANGED <<queue, WriterAt, LostPlaces, HiddenElements>>
  BY <1>1, QueueKept DEF Mapped
<1>3. Agent!Announced = r_len
  BY CountersMapped
<1>4. QED BY <1>1, <1>2, <1>3 DEF Agent!Read, queue

LEMMA GiveRefines == ASSUME OneEach, Mapped, Mapped', PopReadsData(agent) PROVE Agent!Give
<1>1. /\ Reading = 1 /\ Reading' = 0 /\ Freeing' = 1
      /\ got' = Append(got, data[next[reg[agent].u]])
      /\ UNCHANGED <<Begun, Counting, Lost, Hidden, linked, pushes>>
  BY PopReadsDataEffect DEF Mapped
<1>2. ReaderAt = "reading" /\ ReaderAt' = "freeing" /\ UNCHANGED <<WriterAt, LostPlaces, HiddenElements>>
  BY <1>1 DEF Mapped
<1> DEFINE x == data[next[reg[agent].u]]
<1>3. Len(got') = Len(got) + 1 /\ got'[Len(got) + 1] = x
  BY <1>1 DEF Mapped
<1>4. Waiting = Waiting' + 1 /\ Waiting' \in Nat /\ Waiting \in Nat
  BY <1>1, <1>3 DEF Waiting, last, Mapped
<1> HIDE DEF x
<1>5. x = linked[Len(got) + 1]
  <2>1. Len(got) + 1 \in 1..Len(got')
    BY <1>3 DEF Mapped
  <2>2. got'[Len(got) + 1] = linked[Len(got) + 1]
    BY <1>1, <2>1 DEF Mapped
  <2>3. QED BY <1>3, <2>2
<1>6. queue # <<>> /\ Head(queue) = queue[1] /\ queue[1] = linked[Len(got) + 1]
  <2>1. Len(queue) = Waiting /\ \A i \in 1..Waiting : queue[i] = linked[Len(got) + i]
    BY DEF Mapped
  <2>2. 1 \in 1..Waiting /\ Waiting # 0
    <3>1. \A m, n \in Nat : m = n + 1 => 1 \in 1..m /\ m # 0
      OBVIOUS
    <3>2. QED BY <1>4, <3>1
  <2>3. queue # <<>>
    BY <2>1, <2>2
  <2>4. queue[1] = linked[Len(got) + 1]
    BY <2>1, <2>2
  <2>5. QED BY <2>3, <2>4
<1>7. queue' = Tail(queue)
  <2> DEFINE t == Tail(queue)
  <2>1. /\ t \in Seq(1..MaxPush) /\ Len(t) = Waiting'
        /\ \A i \in 1..Waiting' : t[i] = queue[i + 1]
    <3>1. queue \in Seq(1..MaxPush) /\ Len(queue) = Waiting' + 1
      BY <1>4 DEF Mapped
    <3>2. t \in Seq(1..MaxPush) /\ Len(t) = Len(queue) - 1 /\ \A i \in 1..Len(t) : t[i] = queue[i + 1]
      BY <1>6, <3>1, HeadTailProperties
    <3> HIDE DEF t
    <3>3. Len(t) = Waiting'
      BY <1>4, <3>1, <3>2
    <3>4. QED BY <3>2, <3>3
  <2> HIDE DEF t
  <2>2. \A i \in 1..Waiting' : queue'[i] = t[i]
    <3>1. TAKE i \in 1..Waiting'
    <3>2. queue'[i] = linked[Len(got) + 1 + i]
      BY <1>1, <1>3 DEF Mapped
    <3>3. i + 1 \in 1..Waiting /\ Len(got) + (i + 1) = Len(got) + 1 + i
      BY <1>4 DEF Mapped
    <3>4. queue[i + 1] = linked[Len(got) + 1 + i]
      BY <3>3 DEF Mapped
    <3>5. QED BY <2>1, <3>2, <3>4
  <2>3. queue' \in Seq(1..MaxPush) /\ Len(queue') = Waiting'
    BY DEF Mapped
  <2>4. queue' = t
    BY <2>1, <2>2, <2>3, SeqEqual
  <2>5. QED BY <2>4 DEF t
<1>8. got' = Append(got, Head(queue))
  BY <1>1, <1>5, <1>6 DEF x
<1>9. QED BY <1>1, <1>2, <1>7, <1>8 DEF Agent!Give, queue

LEMMA FreeRefines == ASSUME OneEach, Mapped, Mapped', PopEnds(agent) PROVE Agent!Free
<1>1. /\ Reading = 0 /\ Freeing = 1 /\ Freeing' = 0
      /\ UNCHANGED <<Begun, Counting, Reading, Lost, Hidden, linked, got, pushes>>
  BY PopEndsEffect DEF Mapped
<1>2. ReaderAt = "freeing" /\ ReaderAt' = "idle"
      /\ UNCHANGED <<queue, WriterAt, LostPlaces, HiddenElements>>
  BY <1>1, QueueKept DEF Mapped
<1>3. QED BY <1>1, <1>2 DEF Agent!Free, queue

LEMMA SameRefines == ASSUME OneEach, Mapped, Mapped', UNCHANGED state PROVE UNCHANGED Agent!vars
<1>1. UNCHANGED <<Begun, Counting, Reading, Freeing, Lost, Hidden, linked, got, pushes>>
  BY DEF state
<1>2. UNCHANGED <<queue, WriterAt, ReaderAt, LostPlaces, HiddenElements>>
  BY <1>1, QueueKept DEF Mapped
<1>3. QED BY <1>1, <1>2 DEF Agent!vars, queue

\* The number that is written stays the last that was offered.
LEMMA OfferedNext == ASSUME OneEach, LfTypes, UnitIsOffered, [LfNext]_lfVars PROVE UnitIsOffered'
<1>1. /\ email \in Procs /\ agent \in Procs /\ email # agent /\ DOMAIN reg = Procs
      /\ pc \in [Procs -> PushLabels \cup PopLabels] /\ reg \in [Procs -> RegType]
  BY Both DEF LfTypes, LfTypeOK, RegType
<1>2. CASE PushStarts(email)
  <2>1. CASE UNCHANGED <<pc, reg>>
    <3>1. push' = "idle"
      BY <1>2, <2>1 DEF PushStarts, At, push
    <3>2. QED BY <3>1 DEF UnitIsOffered
  <2>2. CASE reg' = [reg EXCEPT ![email] = [Regs0 EXCEPT !.unit = pushes + 1]]
    <3>1. reg'[email] = [Regs0 EXCEPT !.unit = pushes + 1]
      BY <1>1, <2>2
    <3>2. reg'[email].unit = pushes + 1 /\ pushes' = pushes + 1
      BY <1>2, <3>1 DEF Regs0, PushStarts
    <3>3. QED BY <3>2 DEF UnitIsOffered
  <2>3. QED BY <1>2, <2>1, <2>2 DEF PushStarts
<1>3. CASE PushEnds(email) \/ Crash(email)
  <2>1. push' = "idle"
    BY <1>1, <1>3 DEF PushEnds, Crash, Goto, push
  <2>2. QED BY <2>1 DEF UnitIsOffered
<1>4. CASE PushLinks(email) \/ Working
  <2>1. pushes' = pushes
    BY <1>4 DEF PushLinks, Working, PushAlloc, PushTest, PushSetNext, PushSetFlag, PushCopies, PushReadTail,
                PushWalks, PushMovesTail, PopReadsHead, PopReadsNext, PopMovesHead, PopClearsFlag, bounds
  <2>2. reg'[email].unit = reg[email].unit
    <3>1. CASE UNCHANGED reg
      BY <3>1
    <3>2. CASE \E w : reg' = [reg EXCEPT ![email].w = w]
      BY <1>1, <3>2 DEF RegType
    <3>3. CASE PushReadTail(email)
      <4>1. reg'[email] = [reg[email] EXCEPT !.old = p_tail, !.u = p_tail,
                                             !.tries = IF @ < 3 THEN @ + 1 ELSE 3]
        BY <1>1, <3>3 DEF PushReadTail
      <4>2. QED BY <1>1, <4>1 DEF RegType
    <3>4. CASE \E u : reg' = [reg EXCEPT ![email].u = u]
      BY <1>1, <3>4 DEF RegType
    <3>5. CASE \E r : reg' = [reg EXCEPT ![agent] = r]
      BY <1>1, <3>5
    <3>6. CASE PopReadsHead(agent)
      BY <1>1, <3>6 DEF PopReadsHead
    <3>7. CASE PopReadsNext(agent)
      BY <1>1, <3>7 DEF PopReadsNext
    <3>8. CASE PushAlloc(email)
      BY <3>2, <3>8 DEF PushAlloc
    <3>9. CASE PushWalks(email)
      BY <3>1, <3>4, <3>9 DEF PushWalks
    <3>10. QED BY <1>4, <3>1, <3>3, <3>6, <3>7, <3>8, <3>9
                 DEF Working, PushLinks, PushTest, PushSetNext, PushSetFlag, PushCopies, PushMovesTail,
                     PopMovesHead, PopClearsFlag
  <2>3. push # "idle" \/ push' = "idle"
    <3>1. CASE PushLinks(email)
      BY <3>1 DEF PushLinks, At, push
    <3>2. CASE Working
      <4>1. CASE \E l : Goto(agent, l)
        <5>1. PICK l : Goto(agent, l)
          BY <4>1
        <5>2. push' = push
          BY <5>1, PopGoes
        <5>3. QED BY <5>2
      <4>2. QED BY <3>2, <4>1 DEF Working, PushAlloc, PushTest, PushSetNext, PushSetFlag, PushCopies,
                 PushReadTail, PushWalks, PushMovesTail, PopReadsHead, PopReadsNext, PopMovesHead,
                 PopClearsFlag, At, push
    <3>3. QED BY <1>4, <3>1, <3>2
  <2>4. QED BY <2>1, <2>2, <2>3 DEF UnitIsOffered
<1>5. CASE PopStarts(agent) \/ PopReadsData(agent) \/ PopEnds(agent)
  <2>1. push' = push
    BY <1>5, PopGoes DEF PopStarts, PopReadsData, PopEnds
  <2>2. reg'[email] = reg[email] /\ pushes' = pushes
    BY <1>1, <1>5 DEF PopStarts, PopReadsData, PopEnds, bounds
  <2>3. QED BY <2>1, <2>2 DEF UnitIsOffered
<1>6. CASE UNCHANGED lfVars
  BY <1>6 DEF lfVars, bounds, UnitIsOffered, push
<1>7. QED BY <1>2, <1>3, <1>4, <1>5, <1>6, StepsOfBoth

LEMMA AgentStep ==
    ASSUME OneEach, QueueIInv, QueueIInv', [LfNext]_lfVars
    PROVE  [Agent!Next]_(Agent!vars)
<1>1. Mapped /\ Mapped' /\ UnitIsOffered /\ LfTypes
  BY DEF QueueIInv, Mapped
<1>2. CASE PushStarts(email)
  BY <1>1, <1>2, OfferRefines DEF Agent!Next
<1>3. CASE PushLinks(email)
  BY <1>1, <1>3, EnterRefines, SameRefines DEF Agent!Next
<1>4. CASE PushEnds(email)
  BY <1>1, <1>4, AnnounceRefines DEF Agent!Next
<1>5. CASE Crash(email)
  BY <1>1, <1>5, DieRefines DEF Agent!Next
<1>6. CASE PopStarts(agent)
  BY <1>1, <1>6, ReadRefines DEF Agent!Next
<1>7. CASE PopReadsData(agent)
  BY <1>1, <1>7, GiveRefines DEF Agent!Next
<1>8. CASE PopEnds(agent)
  BY <1>1, <1>8, FreeRefines DEF Agent!Next
<1>9. CASE Working \/ UNCHANGED lfVars
  BY <1>1, <1>9, WorkingEffect, SameRefines
<1>10. QED BY <1>2, <1>3, <1>4, <1>5, <1>6, <1>7, <1>8, <1>9, StepsOfBoth

\* lf_queue.c implements AgentQueue for one producer and one reader, whatever the capacity and
\* wherever in a push the producer dies: alarms are read whole and in turn, refused only when
\* no place is left, and each death costs one place or leaves one alarm behind unannounced.
THEOREM SharedMemoryIsAgentQueue == ASSUME OneEach PROVE LfSpec => ImplementsAgentQueue
<1>1. LfIInv => Mapped
  BY QueueMapped
<1>2. LfInit => UnitIsOffered
  BY Both DEF LfInit, UnitIsOffered, push
<1>3. LfIInv /\ UnitIsOffered /\ [LfNext]_lfVars => UnitIsOffered'
  BY OfferedNext DEF LfIInv
<1>4. LfInit => Agent!Init
  <2>1. SUFFICES ASSUME LfInit PROVE Agent!Init
    OBVIOUS
  <2>2. Mapped
    BY <1>1, <2>1, LfInitInv
  <2>3. push = "idle" /\ pop = "idle" /\ linked = <<>> /\ got = <<>> /\ pushes = 0 /\ w_len = 0 /\ r_len = 0
    BY <2>1, Both DEF LfInit, push, pop
  <2>4. Begun = 0 /\ Counting = 0 /\ Reading = 0 /\ Freeing = 0
    BY <2>3 DEF Begun, Pushing, Holds, Holding, Counting, Reading, Popping, Freeing
  <2>5. Lost = 0 /\ Hidden = 0 /\ Waiting = 0
    BY <2>3, <2>4 DEF Lost, Hidden, Waiting, last
  <2>6. queue = <<>>
    BY <2>2, <2>5 DEF Mapped
  <2>7. QED BY <2>2, <2>3, <2>4, <2>5, <2>6 DEF Agent!Init, Mapped, queue
<1>5. QueueIInv /\ QueueIInv' /\ [LfNext]_lfVars => [Agent!Next]_(Agent!vars)
  BY AgentStep
<1>6. LfIInv /\ UnitIsOffered /\ Mapped => QueueIInv
  BY DEF QueueIInv
<1>7. QED BY <1>1, <1>2, <1>3, <1>4, <1>5, <1>6, LfInductiveInvariant, PTL
             DEF LfSpec, ImplementsAgentQueue, Agent!Spec
=============================================================================
