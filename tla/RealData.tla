------------------------------ MODULE RealData ------------------------------
(***************************************************************************)
(* A page of real-time data in shared memory: shm_object.c and             *)
(* semaphore.c, by which the processes share it; the polling thread that   *)
(* puts it (here di_thread.c; what is in the page is DiPoll's and          *)
(* UartPoll's); beep_thread.c, which reads it and drives the output; and   *)
(* the CGI processes that read it (query_real_di_data).                    *)
(*                                                                         *)
(* Of an element of the page the alarm_type is kept, as 1 for an alarm the *)
(* beeper sounds for.  memcpy copies one element after the other.          *)
(***************************************************************************)
EXTENDS Integers, FiniteSets

CONSTANTS
    N,             \* elements of a page (MAX_DI_NUMBER)
    Pages,         \* what a pass may make of di_realdata
    Queries        \* CGI processes

ASSUME DataAssumption ==
    /\ N \in Nat \ {0} /\ Pages \subseteq [1..N -> {0, 1}]
    /\ Queries \cap {"di", "beep", "nobody"} = {}

VARIABLES
    sem, holder,          \* value of the semaphore; who has to undo an operation on it
    segment,              \* the shared memory
    pc, k,                \* of each process: where it is, which element it copies
    copy,                 \* of each reader, what it has read
    page,                 \* di_realdata
    beep_enable, uart_alarm, \* do_param; an alarm in the pages of rs232 and rs485
    out, last_value       \* the output; what the thread believes it is

(* For the properties. *)
VARIABLES
    put,           \* the last page put, or the zeros of a new segment
    spoilt,        \* the segment was zeroed under others, or half written by a dead process:
                   \* "again" when that happened in a put, which then does not mend it
    unset,         \* the last write to the output was refused
    deaths         \* of snmp_app, up to one

shared   == <<sem, holder, segment, put, spoilt>>
beeper   == <<beep_enable, uart_alarm, out, last_value, unset>>
dataVars == <<sem, holder, segment, pc, k, copy, page, beep_enable, uart_alarm, out,
              last_value, put, spoilt, unset, deaths>>

App       == {"di", "beep"}
Readers   == {"beep"} \cup Queries
Processes == App \cup Queries
Index     == 1..N
Zero      == [n \in Index |-> 0]
NoSegment == [n \in {} |-> 0]
NoSem     == -1
Nobody    == "nobody"

DataInit ==
    /\ sem = NoSem /\ holder = Nobody /\ segment = NoSegment
    /\ pc = [p \in Processes |-> "semaphore"] /\ k = [p \in Processes |-> 1]
    /\ copy = [p \in Readers |-> Zero]
    /\ page = Zero
    /\ beep_enable = TRUE /\ uart_alarm = FALSE /\ out = 0 /\ last_value = 0
    /\ put = Zero /\ spoilt = "no" /\ unset = FALSE
    /\ deaths = 0

MoveTo(p, to) == pc' = [pc EXCEPT ![p] = to]

----------------------------------------------------------------------------
(***************************************************************************)
(* semaphore.c and shm_object.c                                            *)
(***************************************************************************)
\* Mutant: the value is also set when the semaphore is there already.
SemgetAndSet(p) ==
    /\ sem' = (IF sem = NoSem THEN 0 ELSE sem) /\ MoveTo(p, "setval")

\* semget with IPC_EXCL: a new semaphore is 0 until its creator sets it.
Semget(p) ==
    IF sem = NoSem THEN sem' = 0 /\ MoveTo(p, "setval")
                   ELSE sem' = sem /\ MoveTo(p, "attach")

semaphore_create(p) ==
    /\ pc[p] = "semaphore" /\ Semget(p)
    /\ UNCHANGED <<holder, segment, put, spoilt, k, copy, page, beeper, deaths>>

set_semvalue(p) ==
    /\ pc[p] = "setval" /\ sem' = 1 /\ MoveTo(p, "attach")
    /\ UNCHANGED <<holder, segment, put, spoilt, k, copy, page, beeper, deaths>>

\* get_shm: attach what is there, or else create it.
Attach(p) ==
    /\ pc[p] = "attach"
    /\ MoveTo(p, IF segment = NoSegment THEN "create" ELSE "work")
    /\ UNCHANGED <<shared, k, copy, page, beeper, deaths>>

\* Created by another in between, it is taken for new.
Create(p) ==
    /\ pc[p] = "create" /\ MoveTo(p, "memset")
    /\ segment' = IF segment = NoSegment THEN Zero ELSE segment
    /\ UNCHANGED <<sem, holder, put, spoilt, k, copy, page, beeper, deaths>>

\* The memset is not under the semaphore.
Memset(p) ==
    /\ pc[p] = "memset" /\ MoveTo(p, "work") /\ segment' = Zero
    /\ spoilt' = IF pc["di"] \in {"copy", "v"} THEN "again"
                 ELSE IF put # Zero \/ \E q \in Readers : pc[q] = "copy" THEN "yes" ELSE spoilt
    /\ UNCHANGED <<sem, holder, put, k, copy, page, beeper, deaths>>

semaphore_p(p) ==
    /\ pc[p] = IF p = "di" THEN "p" ELSE "work"
    /\ sem > 0 /\ sem' = sem - 1 /\ holder' = p
    /\ MoveTo(p, "copy") /\ k' = [k EXCEPT ![p] = 1]
    /\ UNCHANGED <<segment, put, spoilt, copy, page, beeper, deaths>>

\* memcpy of shm_put and shm_get.
Copy(p) ==
    /\ pc[p] = "copy"
    /\ IF p = "di"
       THEN segment' = [segment EXCEPT ![k[p]] = page[k[p]]] /\ UNCHANGED copy
       ELSE copy' = [copy EXCEPT ![p][k[p]] = segment[k[p]]] /\ UNCHANGED segment
    /\ IF k[p] < N THEN k' = [k EXCEPT ![p] = k[p] + 1] /\ UNCHANGED pc
                   ELSE k' = [k EXCEPT ![p] = 1] /\ MoveTo(p, "v")
    /\ UNCHANGED <<sem, holder, put, spoilt, page, beeper, deaths>>

semaphore_v(p) ==
    /\ pc[p] = "v" /\ sem' = sem + 1 /\ holder' = Nobody
    /\ MoveTo(p, IF p = "di" THEN "work" ELSE "use")
    /\ IF p = "di" THEN put' = page /\ spoilt' = IF spoilt = "again" THEN "yes" ELSE "no"
                   ELSE UNCHANGED <<put, spoilt>>
    /\ UNCHANGED <<segment, k, copy, page, beeper, deaths>>

----------------------------------------------------------------------------
\* A pass of di_process.
Poll ==
    /\ pc["di"] = "work" /\ MoveTo("di", "p") /\ page' \in Pages
    /\ UNCHANGED <<shared, k, copy, beeper, deaths>>

(***************************************************************************)
(* beep_process and the CGI process                                        *)
(***************************************************************************)
Alarming == uart_alarm \/ \E n \in Index : copy["beep"][n] = 1

\* Mutant: the output is switched off and the thread believes it is on.
DriveOff(value) ==
    /\ out' = value /\ unset' = FALSE
    /\ last_value' = IF value = 1 THEN 1 ELSE last_value

\* drv_gpio_write, which fails when the pin was not opened or the write is refused: the
\* output then stays.  last_value is set whatever it returned.
Drive(value) == out' \in {value, out} /\ unset' = (out' # value) /\ last_value' = value

Beep ==
    /\ pc["beep"] = "use" /\ MoveTo("beep", "work") /\ copy' = [copy EXCEPT !["beep"] = Zero]
    /\ CASE beep_enable /\ last_value = 0 /\ Alarming      -> Drive(1)
         [] last_value = 1 /\ ~(beep_enable /\ Alarming)   -> Drive(0)
         [] OTHER                                          -> UNCHANGED <<out, unset, last_value>>
    /\ UNCHANGED <<shared, k, page, beep_enable, uart_alarm, deaths>>

\* The settings, and the pages of the other pollers, change.
ChangeBeep ==
    /\ \/ beep_enable' = ~beep_enable /\ UNCHANGED uart_alarm
       \/ uart_alarm' = ~uart_alarm /\ UNCHANGED beep_enable
    /\ UNCHANGED <<shared, pc, k, copy, page, out, unset, last_value, deaths>>

\* The answer is printed and the process ends; another query is another process.
Answer(p) ==
    /\ pc[p] = "use" /\ MoveTo(p, "semaphore")
    /\ copy' = [copy EXCEPT ![p] = Zero]
    /\ UNCHANGED <<shared, k, page, beeper, deaths>>

\* SEM_UNDO: the operations of a dead process are undone.
Undo(dead) ==
    IF holder \in dead THEN sem' = sem + 1 /\ holder' = Nobody ELSE UNCHANGED <<sem, holder>>

\* The web server kills a CGI process.
Kill(p) ==
    /\ pc[p] # "semaphore" /\ MoveTo(p, "semaphore") /\ Undo({p})
    /\ k' = [k EXCEPT ![p] = 1] /\ copy' = [copy EXCEPT ![p] = Zero]
    /\ UNCHANGED <<segment, put, spoilt, page, beeper, deaths>>

\* snmp_app dies and is started again; semaphore and segment are still there.
\* beep_process first writes 0.
AppDies ==
    /\ deaths = 0 /\ deaths' = 1 /\ Undo(App)
    /\ pc' = [p \in Processes |-> IF p \in App THEN "semaphore" ELSE pc[p]]
    /\ k' = [p \in Processes |-> IF p \in App THEN 1 ELSE k[p]]
    /\ copy' = [copy EXCEPT !["beep"] = Zero]
    /\ spoilt' = IF pc["di"] \in {"copy", "v"} THEN "yes" ELSE spoilt
    /\ page' = Zero /\ Drive(0)
    /\ UNCHANGED <<segment, put, beep_enable, uart_alarm>>

----------------------------------------------------------------------------
Share(p) == \/ semaphore_create(p) \/ set_semvalue(p) \/ Attach(p) \/ Create(p)
            \/ Memset(p) \/ Copy(p) \/ semaphore_v(p)
DataNext == \/ \E p \in Processes : Share(p) \/ semaphore_p(p)
        \/ Poll \/ Beep \/ ChangeBeep \/ AppDies
        \/ \E p \in Queries : Answer(p) \/ Kill(p)

\* Threads are scheduled, and waiters for the semaphore are served in turn.
DataFairness ==
    /\ \A p \in Processes : WF_dataVars(Share(p)) /\ SF_dataVars(semaphore_p(p))
    /\ WF_dataVars(Poll) /\ WF_dataVars(Beep)
DataSpec == DataInit /\ [][DataNext]_dataVars /\ DataFairness

----------------------------------------------------------------------------
\* Types of the variables.
DataTypeOK ==
    /\ sem \in {NoSem, 0, 1} /\ holder \in Processes \cup {Nobody}
    /\ segment \in [Index -> {0, 1}] \cup {NoSegment}
    /\ pc \in [Processes -> {"semaphore", "setval", "attach", "create", "memset", "work",
                             "p", "copy", "v", "use"}]
    /\ k \in [Processes -> Index] /\ copy \in [Readers -> [Index -> {0, 1}]]
    /\ page \in [Index -> {0, 1}] /\ put \in [Index -> {0, 1}]
    /\ beep_enable \in BOOLEAN /\ uart_alarm \in BOOLEAN
    /\ spoilt \in {"no", "yes", "again"}
    /\ out \in {0, 1} /\ last_value \in {0, 1} /\ unset \in BOOLEAN

\* What a reader takes under the semaphore is one page as it was put, never half of two,
\* whoever created semaphore and segment, and whichever CGI process was killed where - until
\* the next put when a creator's memset came late or snmp_app died in the middle of a put.
WholeCopies == \A p \in Readers : pc[p] = "v" /\ spoilt = "no" => copy[p] = put

\* The creator of the semaphore died before it set the value: all others wait for ever.
Stuck == sem = 0 /\ holder = Nobody /\ \A p \in Processes : pc[p] # "setval"

\* The beeper follows: an alarm that stays sounds in the end, and when the last one is over
\* it is silent in the end - unless the last write to the output was refused, which the
\* thread does not see: it tries again only when the alarm changes.
BeepFollows ==
    /\ <>[](beep_enable /\ \E n \in Index : page[n] = 1) => <>[](out = 1 \/ unset \/ Stuck)
    /\ <>[](~uart_alarm /\ \A n \in Index : page[n] = 0) => <>[](out = 0 \/ unset \/ Stuck)
=============================================================================
