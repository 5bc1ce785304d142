------------------------------ MODULE LfQueue ------------------------------
(***************************************************************************)
(* app/lf_queue.c: the queue in shared memory through which the email      *)
(* thread hands every alarm to the SNMP agent, a process of its own.  One  *)
(* step per access to the shared memory that another process can notice.   *)
(*                                                                         *)
(* A compare-and-swap loop that only counts (w_len, r_len, w_tail) is one  *)
(* step: a failed round of it leaves nothing behind.  The loops on p_head, *)
(* p_tail and next are step by step, and so is the copy of the data, which *)
(* is Torn while it lasts.  A producer may die between any two steps of a  *)
(* push: the memory survives, and the next one attaches it as it is.       *)
(*                                                                         *)
(* The model begins when lf_queue_init has ended.  Who creates the memory  *)
(* and dies inside it leaves a head that no later lf_queue_init completes: *)
(* with max_unit_num still 0 every push is refused as long as the memory   *)
(* exists.  That death costs the whole queue, and is not modelled.         *)
(***************************************************************************)
EXTENDS Integers, Sequences, FiniteSets

CONSTANTS
    Producers, Consumers,
    max_unit_num,      \* the argument of lf_queue_init
    MaxPush,           \* bound: calls of lf_queue_push
    MaxCrashes         \* bound: deaths of a producer in a push

ASSUME LfAssumption ==
    /\ max_unit_num \in Nat \ {0} /\ MaxPush \in Nat /\ MaxCrashes \in Nat
    /\ Producers \cap Consumers = {}

VARIABLES
    next, use_flag, data,     \* the units
    p_head, p_tail, w_tail, w_len, r_len,
    pc, reg,                  \* label and local variables of each process
    pushes, crashes,          \* the bounded counters
    linked, accepted, got     \* what entered the list, what push took, what pop gave

memory  == <<next, use_flag, data, p_head, p_tail, w_tail, w_len, r_len>>
history == <<linked, accepted, got>>
bounds  == <<pushes, crashes>>
lfVars    == <<memory, pc, reg, bounds, history>>

END   == -1                  \* LIST_END, and the index of the unit before the first
Units == 0..max_unit_num
Heads == Units \cup {END}
Torn  == -2                  \* data in the middle of a memcpy
Empty == 0                   \* data nobody has written
Procs == Producers \cup Consumers

Regs0 == [unit |-> Empty, w |-> END, old |-> END, u |-> END, tries |-> 0]

\* The memory as the end of lf_queue_init leaves it.
LfInit ==
    /\ next = [i \in Heads |-> IF i = END THEN END ELSE 0]   \* shm is zeroed
    /\ use_flag = [i \in Heads |-> FALSE]
    /\ data = [i \in Heads |-> Empty]
    /\ p_head = END /\ p_tail = END /\ w_tail = 0 /\ w_len = 0 /\ r_len = 0
    /\ pc = [p \in Procs |-> "idle"]
    /\ reg = [p \in Procs |-> Regs0]
    /\ pushes = 0 /\ crashes = 0
    /\ linked = <<>> /\ accepted = {} /\ got = <<>>

At(p, label)  == pc[p] = label
Goto(p, label) == pc' = [pc EXCEPT ![p] = label]

(***************************************************************************)
(* lf_queue_push                                                           *)
(***************************************************************************)
\* Mutant: a full queue takes one more.
PushStartsFull(p) ==
    /\ At(p, "idle") /\ pushes < MaxPush
    /\ pushes' = pushes + 1
    /\ \/ w_len > max_unit_num /\ UNCHANGED <<w_len, pc, reg>>
       \/ /\ w_len <= max_unit_num
          /\ w_len' = w_len + 1
          /\ reg' = [reg EXCEPT ![p] = [Regs0 EXCEPT !.unit = pushes + 1]]
          /\ Goto(p, "alloc")
    /\ UNCHANGED <<next, use_flag, data, p_head, p_tail, w_tail, r_len, crashes, history>>

\* Mutant: one place is kept back.
PushStartsShort(p) ==
    /\ At(p, "idle") /\ pushes < MaxPush
    /\ pushes' = pushes + 1
    /\ \/ w_len + 1 >= max_unit_num /\ UNCHANGED <<w_len, pc, reg>>
       \/ /\ w_len + 1 < max_unit_num
          /\ w_len' = w_len + 1
          /\ reg' = [reg EXCEPT ![p] = [Regs0 EXCEPT !.unit = pushes + 1]]
          /\ Goto(p, "alloc")
    /\ UNCHANGED <<next, use_flag, data, p_head, p_tail, w_tail, r_len, crashes, history>>

\* A message is its number.  The queue is full, or one more is being written.
PushStarts(p) ==
    /\ At(p, "idle") /\ pushes < MaxPush
    /\ pushes' = pushes + 1
    /\ \/ w_len >= max_unit_num /\ UNCHANGED <<w_len, pc, reg>>
       \/ /\ w_len < max_unit_num
          /\ w_len' = w_len + 1
          /\ reg' = [reg EXCEPT ![p] = [Regs0 EXCEPT !.unit = pushes + 1]]
          /\ Goto(p, "alloc")
    /\ UNCHANGED <<next, use_flag, data, p_head, p_tail, w_tail, r_len, crashes, history>>

PushAlloc(p) ==
    /\ At(p, "alloc")
    /\ LET w == w_tail % (max_unit_num + 1) IN
       w_tail' = w + 1 /\ reg' = [reg EXCEPT ![p].w = w]
    /\ Goto(p, "test_flag")
    /\ UNCHANGED <<next, use_flag, data, p_head, p_tail, w_len, r_len, bounds, history>>

\* Mutant: a unit in use stops the producer.
PushWaits(p) ==
    /\ At(p, "test_flag") /\ ~use_flag[reg[p].w]
    /\ Goto(p, "set_next")
    /\ UNCHANGED <<memory, reg, bounds, history>>

PushTest(p) ==
    /\ At(p, "test_flag")
    /\ Goto(p, IF use_flag[reg[p].w] THEN "alloc" ELSE "set_next")
    /\ UNCHANGED <<memory, reg, bounds, history>>

PushSetNext(p) ==
    /\ At(p, "set_next")
    /\ next' = [next EXCEPT ![reg[p].w] = END]
    /\ Goto(p, "set_flag")
    /\ UNCHANGED <<use_flag, data, p_head, p_tail, w_tail, w_len, r_len, reg, bounds, history>>

PushSetFlag(p) ==
    /\ At(p, "set_flag")
    /\ use_flag' = [use_flag EXCEPT ![reg[p].w] = TRUE]
    /\ Goto(p, "copy")
    /\ UNCHANGED <<next, data, p_head, p_tail, w_tail, w_len, r_len, reg, bounds, history>>

PushCopies(p) ==
    /\ \/ At(p, "copy") /\ data' = [data EXCEPT ![reg[p].w] = Torn] /\ Goto(p, "copied")
       \/ /\ At(p, "copied") /\ data' = [data EXCEPT ![reg[p].w] = reg[p].unit]
          /\ Goto(p, "read_tail")
    /\ UNCHANGED <<next, use_flag, p_head, p_tail, w_tail, w_len, r_len, reg, bounds, history>>

\* Only from the third try on does it walk from p_tail to the end of the list.
PushReadTail(p) ==
    /\ At(p, "read_tail")
    /\ reg' = [reg EXCEPT ![p].old = p_tail, ![p].u = p_tail,
                          ![p].tries = IF @ < 3 THEN @ + 1 ELSE 3]
    /\ Goto(p, IF reg[p].tries + 1 >= 3 THEN "walk" ELSE "link")
    /\ UNCHANGED <<memory, bounds, history>>

PushWalks(p) ==
    /\ \/ At(p, "walk") /\ Goto(p, IF next[reg[p].u] # END THEN "walk_on" ELSE "link") /\ UNCHANGED reg
       \/ /\ At(p, "walk_on") /\ reg' = [reg EXCEPT ![p].u = next[reg[p].u]]
          /\ Goto(p, "walk")
    /\ UNCHANGED <<memory, bounds, history>>

\* Mutant: the link is written without looking whether the place is taken.
PushOverwrites(p) ==
    /\ At(p, "link")
    /\ next' = [next EXCEPT ![reg[p].u] = reg[p].w]
    /\ linked' = Append(linked, reg[p].unit)
    /\ Goto(p, "move_tail")
    /\ UNCHANGED <<use_flag, data, p_head, p_tail, w_tail, w_len, r_len, reg, bounds, accepted, got>>

PushLinks(p) ==
    /\ At(p, "link")
    /\ \/ /\ next[reg[p].u] = END
          /\ next' = [next EXCEPT ![reg[p].u] = reg[p].w]
          /\ linked' = Append(linked, reg[p].unit)
          /\ Goto(p, "move_tail")
       \/ next[reg[p].u] # END /\ Goto(p, "read_tail") /\ UNCHANGED <<next, linked>>
    /\ UNCHANGED <<use_flag, data, p_head, p_tail, w_tail, w_len, r_len, reg, bounds, accepted, got>>

PushMovesTail(p) ==
    /\ At(p, "move_tail")
    /\ p_tail' = IF p_tail = reg[p].old THEN reg[p].w ELSE p_tail
    /\ Goto(p, "count")
    /\ UNCHANGED <<next, use_flag, data, p_head, w_tail, w_len, r_len, reg, bounds, history>>

\* Mutant: the element is not counted.
PushForgets(p) ==
    /\ At(p, "count")
    /\ accepted' = accepted \cup {reg[p].unit}
    /\ reg' = [reg EXCEPT ![p] = Regs0] /\ Goto(p, "idle")
    /\ UNCHANGED <<memory, bounds, linked, got>>

PushEnds(p) ==
    /\ At(p, "count")
    /\ r_len' = r_len + 1
    /\ accepted' = accepted \cup {reg[p].unit}
    /\ reg' = [reg EXCEPT ![p] = Regs0] /\ Goto(p, "idle")
    /\ UNCHANGED <<next, use_flag, data, p_head, p_tail, w_tail, w_len, bounds, linked, got>>

\* Mutant: lf_queue_init takes back the count of a push that was not finished.
CrashRepairs(p) ==
    /\ pc[p] # "idle" /\ crashes < MaxCrashes
    /\ crashes' = crashes + 1
    /\ w_len' = w_len - 1
    /\ reg' = [reg EXCEPT ![p] = Regs0] /\ Goto(p, "idle")
    /\ UNCHANGED <<next, use_flag, data, p_head, p_tail, w_tail, r_len, pushes, history>>

\* The process dies in the middle of a push; lf_queue_init finds the old memory.
Crash(p) ==
    /\ pc[p] # "idle" /\ crashes < MaxCrashes
    /\ crashes' = crashes + 1
    /\ reg' = [reg EXCEPT ![p] = Regs0] /\ Goto(p, "idle")
    /\ UNCHANGED <<memory, pushes, history>>

(***************************************************************************)
(* lf_queue_pop.  An empty queue is no step.                               *)
(***************************************************************************)
PopStarts(c) ==
    /\ At(c, "idle") /\ r_len > 0
    /\ r_len' = r_len - 1
    /\ Goto(c, "read_head")
    /\ UNCHANGED <<next, use_flag, data, p_head, p_tail, w_tail, w_len, reg, bounds, history>>

PopReadsHead(c) ==
    /\ At(c, "read_head")
    /\ reg' = [reg EXCEPT ![c].u = p_head] /\ Goto(c, "read_next")
    /\ UNCHANGED <<memory, bounds, history>>

PopReadsNext(c) ==
    /\ At(c, "read_next")
    /\ reg' = [reg EXCEPT ![c].w = next[reg[c].u]] /\ Goto(c, "move_head")
    /\ UNCHANGED <<memory, bounds, history>>

\* With one reader nobody else moves p_head.
PopMovesHead(c) ==
    /\ At(c, "move_head")
    /\ p_head' = IF p_head = reg[c].u THEN reg[c].w ELSE p_head
    /\ Goto(c, IF p_head = reg[c].u THEN "read_data" ELSE "read_head")
    /\ UNCHANGED <<next, use_flag, data, p_tail, w_tail, w_len, r_len, reg, bounds, history>>

\* u_head->next is read anew for the data, and once more for the flag.
PopReadsData(c) ==
    /\ At(c, "read_data")
    /\ got' = Append(got, data[next[reg[c].u]])
    /\ Goto(c, "clear_flag")
    /\ UNCHANGED <<memory, reg, bounds, linked, accepted>>

\* Mutant: the unit that was read stays in use.
PopKeepsFlag(c) ==
    /\ At(c, "clear_flag")
    /\ Goto(c, "count_down")
    /\ UNCHANGED <<memory, reg, bounds, history>>

PopClearsFlag(c) ==
    /\ At(c, "clear_flag")
    /\ use_flag' = [use_flag EXCEPT ![next[reg[c].u]] = FALSE]
    /\ Goto(c, "count_down")
    /\ UNCHANGED <<next, data, p_head, p_tail, w_tail, w_len, r_len, reg, bounds, history>>

PopEnds(c) ==
    /\ At(c, "count_down")
    /\ w_len' = w_len - 1
    /\ reg' = [reg EXCEPT ![c] = Regs0] /\ Goto(c, "idle")
    /\ UNCHANGED <<next, use_flag, data, p_head, p_tail, w_tail, r_len, bounds, history>>

PushGoesOn(p) == \/ PushAlloc(p) \/ PushTest(p) \/ PushSetNext(p) \/ PushSetFlag(p)
                 \/ PushCopies(p) \/ PushReadTail(p) \/ PushWalks(p) \/ PushLinks(p)
                 \/ PushMovesTail(p) \/ PushEnds(p)
PopStep(c) == \/ PopStarts(c) \/ PopReadsHead(c) \/ PopReadsNext(c) \/ PopMovesHead(c)
              \/ PopReadsData(c) \/ PopClearsFlag(c) \/ PopEnds(c)

LfNext ==
    \/ \E p \in Producers : PushStarts(p) \/ PushGoesOn(p) \/ Crash(p)
    \/ \E c \in Consumers : PopStep(c)

LfSpec == LfInit /\ [][LfNext]_lfVars

----------------------------------------------------------------------------
\* Types of the variables.
LfTypeOK ==
    /\ next \in [Heads -> Heads] /\ use_flag \in [Heads -> BOOLEAN]
    /\ data \in [Heads -> {Torn, Empty} \cup 1..MaxPush]
    /\ p_head \in Heads /\ p_tail \in Heads /\ w_tail \in 0..(max_unit_num + 1)
    /\ w_len \in 0..max_unit_num /\ r_len \in 0..max_unit_num
    /\ reg \in [Procs -> [unit : 0..MaxPush, w : Heads, old : Heads, u : Heads, tries : 0..3]]

\* With one producer and one consumer the messages come out whole, once each and in the
\* order in which they entered the list - also when the producer has died in the middle
\* of a push and another goes on with the memory it left.
PopsInOrder == Len(got) <= Len(linked) /\ got = SubSeq(linked, 1, Len(got))

\* The reader is never promised more than the list holds: r_len elements can be read.
CountedIsLinked == r_len <= Len(linked) - Len(got)

\* A push that looks for a unit finds one: units in use - those in the list, the ones that
\* dead producers left, and the dummy that lf_queue_pop has already freed - never fill the
\* memory, because w_len counts each of them until after its flag is cleared.
FreeUnitFound ==
    \A p \in Producers :
        At(p, "alloc") \/ At(p, "test_flag") => \E i \in Units : ~use_flag[i]

\* What the two counters count beside the elements that wait in the list.
Unread      == Len(linked) - Len(got)
InPush      == {p \in Producers : pc[p] \notin {"idle", "move_tail", "count"}}
BeforeCount == {p \in Producers : pc[p] \in {"move_tail", "count"}}
BeforeRead  == {c \in Consumers : pc[c] \in {"read_head", "read_next", "move_head", "read_data"}}
BeforeFree  == {c \in Consumers : pc[c] \in {"clear_flag", "count_down"}}

LostPlaces     == w_len - Unread - Cardinality(InPush) - Cardinality(BeforeFree)
HiddenElements == Unread - r_len - Cardinality(BeforeRead) - Cardinality(BeforeCount)

\* What a death of the producer in a push costs: one place of the queue for as long as the memory
\* exists, when it comes before the element is linked, or one element that is read only when
\* the next is pushed, when it comes behind - never both, and never more.  As long as nobody
\* dies w_len and r_len are exact: no push is refused that has room.
CrashCostsOne ==
    /\ LostPlaces >= 0 /\ HiddenElements >= 0
    /\ LostPlaces + HiddenElements = crashes

\* The two processes as AgentQueue sees them.
WriterAt == IF InPush # {} THEN "writing" ELSE IF BeforeCount # {} THEN "entered" ELSE "idle"
ReaderAt == IF BeforeRead # {} THEN "reading" ELSE IF BeforeFree # {} THEN "freeing" ELSE "idle"

Agent == INSTANCE AgentQueue WITH
             Capacity <- max_unit_num, offers <- pushes,
             queue <- SubSeq(linked, Len(got) + 1, Len(linked)), given <- got,
             writer <- WriterAt, reader <- ReaderAt, lost <- LostPlaces, hidden <- HiddenElements

\* The shared memory is the queue that the two rely on: however the steps of a push and of a
\* pop fall between each other and wherever in a push the producer dies, alarms are read whole and in
\* turn, a push is refused only when no place is left, and a pop finds nothing only when
\* nothing waits that was announced.
ImplementsAgentQueue == Agent!Spec

\* A push that has begun ends: the search for a free unit and the walk to the end of the
\* list both terminate, even with units and counts that a dead producer never gave back.
PushEnded == \A p \in Producers : pc[p] # "idle" ~> pc[p] = "idle"

\* A message that lf_queue_push accepted is read - as long as no producer has died, which
\* leaves one message linked but not counted, and every later one a place behind.
AcceptedIsRead ==
    \A m \in 1..MaxPush :
        m \in accepted ~> (\E i \in DOMAIN got : got[i] = m) \/ crashes > 0

\* lf_queue.h: "lock free queue, for mulit process or thread read and write".  Every
\* element a pop gives is one that was pushed, and no two pops give the same.
ReadOnce ==
    \A i \in DOMAIN got :
        /\ \E j \in DOMAIN linked : got[i] = linked[j]
        /\ \A j \in DOMAIN got : got[i] = got[j] => i = j
=============================================================================
