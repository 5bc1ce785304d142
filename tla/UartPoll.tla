------------------------------ MODULE UartPoll ------------------------------
(***************************************************************************)
(* A polling thread (app/rs232_thread.c; app/rs485_thread.c is the same    *)
(* code) and the device it polls: the requests of a pass, what becomes of  *)
(* an answer, when a parameter raises or ends an alarm, when the device is *)
(* said not to answer, and the page of real-time data it fills for the web *)
(* pages and the beeper.                                                   *)
(*                                                                         *)
(* A property of a device is one request and the parameters of its answer. *)
(* Readings and limits are integers.  Pools and rings belong to RecordBus: *)
(* here an allocation succeeds or it does not.                             *)
(***************************************************************************)
EXTENDS Integers, Sequences, FiniteSets, Frames

CONSTANTS
    Devices,      \* the protocols a port may be configured for
    Types,        \* of each protocol and property, the types of the parameters
    Readings,     \* of each protocol, what a parameter may read
    Limits        \* of each, what a user may set in table "parameter"

ASSUME UartAssumption ==
    \A d \in Devices :
        /\ Types[d] \in Seq(Seq({"analog", "enum"}) \ {<<>>}) /\ Types[d] # <<>>
        /\ Readings[d] \subseteq Int
        /\ \A limit \in Limits[d] : \A field \in DOMAIN limit : limit[field] \in Int

VARIABLES
    device,                        \* the protocol of the port
    pc, property, i,               \* in the pass: at which request, at which parameter
    param_cnt,                     \* where in the page the next parameters go
    values,                        \* value_list of the answer
    late,                          \* the request whose answer is still on its way
    last,                          \* last_param_value of each property: value and status
    com_fail_count, com_fail_flag,
    limits, update,                \* the thread's limits; whether this pass reads them again
    table, alarm_flag,             \* table "parameter" in sys.db; preference's flag
    page, cnt                      \* realdata of the device

(* What happened, for the properties. *)
VARIABLES
    raised,       \* of each parameter, and the device: the last alarm offered was a RAISE
    lost,         \* an alarm of the device found no block
    silent,       \* requests without any answer since the last good one, up to two
    clean,        \* this pass filled its whole page
    fault,        \* properties whose answer was bad in this pass
    missed,       \* properties whose change came behind the pass that reads them, or whose
                  \* query was refused in it
    answers       \* the request whose answer is being compared

uartVars == <<device, pc, property, i, param_cnt, values, late, last, com_fail_count,
              com_fail_flag, limits, update, table, alarm_flag, page, cnt, raised, lost,
              silent, clean, fault, missed, answers>>

pass    == <<pc, property, i, param_cnt, values, clean, fault, answers>>
config  == <<limits, update, table, alarm_flag, missed>>
com     == <<com_fail_count, com_fail_flag, lost, silent>>

Properties  == DOMAIN Types[device]
ListSize(p) == Len(Types[device][p])
Params      == UNION {{<<p, k>> : k \in 1..ListSize(p)} : p \in Properties}
TypeOf(param) == Types[device][param[1]][param[2]]

\* What the frames that a line may deliver make of calculate_data.
Results == [d \in Devices |-> {calculate_data(d, frame) : frame \in Frame}]

NoLimits == [none \in {} |-> 0]         \* alarm_enable 0
NoList   == << >>                      \* last_param_value == NULL
NoEntry  == [param |-> <<0, 0>>, alarm_type |-> "NORMAL"]
Statuses == {"NORMAL", "UP_ALARM_ON", "LOW_ALARM_ON"}
Device   == <<0, 0>>                   \* param_id 0: the device itself

(***************************************************************************)
(* The latch of one parameter.  A limit is a record whose fields present   *)
(* are the bits of alarm_enable.                                           *)
(***************************************************************************)
Has(limit, field) == field \in DOMAIN limit

\* Mutant: the release value is not looked at.
UpReleasedAtLimit(v, type, limit) ==
    Has(limit, "up_limit") => IF type = "analog" THEN v <= limit.up_limit
                                                 ELSE v < limit.up_limit

UpReleased(v, type, limit) ==
    Has(limit, "up_limit") =>
        IF Has(limit, "up_free")
        THEN IF type = "analog" THEN v < limit.up_free ELSE v <= limit.up_free
        ELSE v < limit.up_limit

LowReleased(v, type, limit) ==
    Has(limit, "low_limit") =>
        IF Has(limit, "low_free")
        THEN IF type = "analog" THEN v > limit.low_free ELSE v >= limit.low_free
        ELSE v > limit.low_limit

UpExceeded(v, type, limit) ==
    Has(limit, "up_limit") /\ IF type = "analog" THEN v > limit.up_limit
                                                 ELSE v >= limit.up_limit

LowExceeded(v, type, limit) ==
    Has(limit, "low_limit") /\ IF type = "analog" THEN v < limit.low_limit
                                                  ELSE v <= limit.low_limit

\* An alarm ends before the other can begin; from NORMAL the lower limit has the last word.
NextStatus(status, v, type, limit) ==
    CASE status = "UP_ALARM_ON"  -> IF UpReleased(v, type, limit) THEN "NORMAL" ELSE status
      [] status = "LOW_ALARM_ON" -> IF LowReleased(v, type, limit) THEN "NORMAL" ELSE status
      [] status = "NORMAL" ->
            IF LowExceeded(v, type, limit) THEN "LOW_ALARM_ON"
            ELSE IF UpExceeded(v, type, limit) THEN "UP_ALARM_ON" ELSE "NORMAL"

\* The same limits as the first and last integers on each side, for the property below: an
\* alarm begins at On and ends at Off.
UpOn(type, limit)  == limit.up_limit + (IF type = "analog" THEN 1 ELSE 0)
LowOn(type, limit) == limit.low_limit - (IF type = "analog" THEN 1 ELSE 0)
UpOff(type, limit) == IF ~Has(limit, "up_free") THEN limit.up_limit - 1
                      ELSE limit.up_free - (IF type = "analog" THEN 1 ELSE 0)
LowOff(type, limit) == IF ~Has(limit, "low_free") THEN limit.low_limit + 1
                       ELSE limit.low_free + (IF type = "analog" THEN 1 ELSE 0)

\* Alarms end inside the value where they begin, and begin on their own side.
Ordered(type, limit) ==
    /\ Has(limit, "up_limit")  => UpOff(type, limit) < UpOn(type, limit)
    /\ Has(limit, "low_limit") => LowOn(type, limit) < LowOff(type, limit)
    /\ Has(limit, "up_limit") /\ Has(limit, "low_limit") =>
          LowOn(type, limit) < UpOn(type, limit)

\* What a reading makes of a status: beyond the limit an alarm, inside the release value
\* none, in between what it was; one alarm ends before the other begins.
FollowsUp(old, new, v, type, limit) ==
    IF Has(limit, "up_limit")
    THEN /\ v >= UpOn(type, limit) => new = "UP_ALARM_ON" \/ old = "LOW_ALARM_ON"
         /\ v <= UpOff(type, limit) => new # "UP_ALARM_ON"
         /\ v < UpOn(type, limit) /\ v > UpOff(type, limit) =>
                (new = "UP_ALARM_ON" <=> old = "UP_ALARM_ON")
    ELSE new # "UP_ALARM_ON"
FollowsLow(old, new, v, type, limit) ==
    IF Has(limit, "low_limit")
    THEN /\ v <= LowOn(type, limit) => new = "LOW_ALARM_ON" \/ old = "UP_ALARM_ON"
         /\ v >= LowOff(type, limit) => new # "LOW_ALARM_ON"
         /\ v > LowOn(type, limit) /\ v < LowOff(type, limit) =>
                (new = "LOW_ALARM_ON" <=> old = "LOW_ALARM_ON")
    ELSE new # "LOW_ALARM_ON"

\* A reading that stays where it is: one evaluation more, then nothing changes.
Settles(status, v, type, limit) ==
    LET next == NextStatus(status, v, type, limit)
    IN  /\ NextStatus(next, v, type, limit) = next
        /\ next # status => status = "NORMAL"

----------------------------------------------------------------------------
Init ==
    /\ device \in Devices
    /\ pc = "ask" /\ property = 1 /\ i = 1 /\ param_cnt = 0 /\ values = << >> /\ late = 0
    /\ last = [p \in Properties |-> NoList]
    /\ com_fail_count = 0 /\ com_fail_flag = FALSE
    /\ table \in Limits[device]
    /\ limits = [p \in Properties |-> NoLimits] /\ update = TRUE
    /\ alarm_flag \in BOOLEAN
    /\ page = [n \in 1..Cardinality(Params) |-> NoEntry] /\ cnt = 0
    /\ raised = [param \in Params \cup {Device} |-> FALSE]
    /\ lost = FALSE /\ silent = 0
    /\ clean = TRUE /\ fault = {} /\ missed = {} /\ answers = 0

\* The next request of the pass, or the end of the pass.
NextProperty ==
    IF property < Len(Types[device]) THEN pc' = "ask" /\ property' = property + 1
                                     ELSE pc' = "put" /\ property' = property

(***************************************************************************)
(* One request                                                             *)
(***************************************************************************)
\* The query of update_alarm_param, in a pass that reads the limits again.  Nobody looks at
\* its result: refused, for a web page is writing to sys.db, it leaves the limits as they are.
QueryLimits ==
    \/ ~update /\ UNCHANGED <<limits, missed>>
    \/ update /\ limits' = [limits EXCEPT ![property] = table] /\ missed' = missed \ {property}
    \/ /\ update /\ UNCHANGED limits
       /\ missed' = missed \cup {p \in {property} : limits[p] # table}

\* Mutant: the pass that reads the limits is over with the first request.
ReadLimitsOnce == QueryLimits /\ update' = FALSE /\ UNCHANGED <<table, alarm_flag>>

\* At the head of a request.
ReadLimits == QueryLimits /\ UNCHANGED <<update, table, alarm_flag>>

\* record_com_fail: the message for the database and both alarm blocks, or nothing is sent.
record_com_fail(raise) ==
    \/ raised' = [raised EXCEPT ![Device] = raise] /\ lost' = FALSE
    \/ lost' = TRUE /\ UNCHANGED raised

\* Mutant: the entries of the next request overwrite all but one of these.
BehindOne(p) == param_cnt + 1

\* Where in the page the parameters after those of p go.
Behind(p) == param_cnt + ListSize(p)

\* communication_fault: every parameter of the property is shown as faulty.
communication_fault(p) ==
    /\ page' = [n \in DOMAIN page |->
                    IF n \in (param_cnt + 1)..(param_cnt + ListSize(p))
                    THEN [param |-> <<p, n - param_cnt>>, alarm_type |-> "COM_FAULT"]
                    ELSE page[n]]
    /\ param_cnt' = Behind(p) /\ cnt' = Behind(p)

\* Mutant: a device that is given up is counted on.
CountSilenceOn ==
    /\ com_fail_count' = com_fail_count + 1
    /\ com_fail_flag' = (com_fail_flag \/ com_fail_count > 0)
    /\ IF com_fail_flag' # com_fail_flag THEN record_com_fail(TRUE)
                                        ELSE UNCHANGED <<raised, lost>>

\* The second silent request in a row gives the device up, once.
CountSilence ==
    IF com_fail_flag
    THEN UNCHANGED <<com_fail_count, com_fail_flag, raised, lost>>
    ELSE /\ com_fail_count' = com_fail_count + 1
         /\ com_fail_flag' = (com_fail_count > 0)
         /\ IF com_fail_flag' THEN record_com_fail(TRUE) ELSE UNCHANGED <<raised, lost>>

WriteFails ==
    /\ pc = "ask" /\ ReadLimits
    /\ NextProperty /\ clean' = FALSE
    /\ UNCHANGED <<device, i, param_cnt, values, late, last, com, page, cnt, raised, fault,
                   answers>>

\* No byte within two seconds: the answer is lost, or late.
NoAnswer ==
    /\ pc = "ask" /\ ReadLimits
    /\ late' \in {late, property}
    /\ communication_fault(property)
    /\ silent' = IF silent < 2 THEN silent + 1 ELSE 2
    /\ CountSilence
    /\ NextProperty /\ fault' = fault \cup {property}
    /\ UNCHANGED <<device, i, values, last, clean, answers>>

\* An answer of the wrong length, or refused by the protocol.
BadAnswer ==
    /\ pc = "ask" /\ ReadLimits
    /\ Results[device] \ {0, ERR_RETURN_LEN_ZERO} # {}
    /\ communication_fault(property)
    /\ NextProperty /\ fault' = fault \cup {property}
    /\ UNCHANGED <<device, i, values, late, last, com, raised, clean, answers>>

\* A frame that is accepted: this request's answer, or the answer to a request before it
\* that came after uart->write had flushed the line.
Accepted ==
    \/ /\ 0 \in Results[device]
       /\ answers' = property /\ UNCHANGED late
    \/ /\ late \notin {0, property} /\ calculate_data(device, AnswerToOther) = 0
       /\ answers' = late /\ late' = 0

\* create_last_param_value_list: nothing is compared and the page is left as it is.
FirstAnswer ==
    /\ pc = "ask" /\ last[property] = NoList /\ ReadLimits /\ Accepted
    /\ \E v \in [1..ListSize(property) -> Readings[device]] :
          last' = [last EXCEPT ![property] = [k \in DOMAIN v |->
                                                 [value |-> v[k], status |-> "NORMAL"]]]
    /\ clean' = FALSE /\ pc' = "answered"
    /\ UNCHANGED <<device, property, i, param_cnt, values, com, page, cnt, raised, fault>>

GoodAnswer ==
    /\ pc = "ask" /\ last[property] # NoList /\ ReadLimits /\ Accepted
    /\ values' \in [1..ListSize(property) -> Readings[device]]
    /\ pc' = "compare" /\ i' = 1
    /\ UNCHANGED <<device, property, param_cnt, last, com, page, cnt, raised, clean, fault>>

(***************************************************************************)
(* compare_values: one parameter                                           *)
(***************************************************************************)
\* On to the next parameter; behind the last one the page counts the parameters so far.
NextParam ==
    IF i < ListSize(property)
    THEN i' = i + 1 /\ UNCHANGED <<pc, param_cnt, cnt>>
    ELSE /\ i' = 1 /\ pc' = "answered"
         /\ param_cnt' = Behind(property) /\ cnt' = Behind(property)

Entry(status) == [page EXCEPT ![param_cnt + i] =
                    [param |-> <<property, i>>, alarm_type |-> status]]

\* Mutant: the alarm is latched before its blocks are there.
LatchFirst(old, v, status) == [value |-> v, status |-> status]

\* last_param_value of a parameter whose alarm found no block.
NotLatched(old, v, status) == [old EXCEPT !.value = v]

\* No block for the message or for both alarms: nothing is latched or shown.
CompareRefused ==
    LET v == values[i]  old == last[property][i]
        status == NextStatus(old.status, v, TypeOf(<<property, i>>), limits[property])
    IN  /\ pc = "compare"
        /\ status # old.status
        /\ last' = [last EXCEPT ![property][i] = NotLatched(old, v, status)]
        /\ NextParam /\ clean' = FALSE
        /\ UNCHANGED <<device, property, values, late, com, config, page, raised, fault,
                       answers>>

\* The record of the reading, when it changed or half an hour has passed, may find no
\* block: then the page keeps what it had.
Compare ==
    LET v == values[i]  old == last[property][i]
        status == NextStatus(old.status, v, TypeOf(<<property, i>>), limits[property])
    IN  /\ pc = "compare"
        /\ last' = [last EXCEPT ![property][i] = [value |-> v, status |-> status]]
        /\ raised' = IF status = old.status THEN raised
                      ELSE [raised EXCEPT ![<<property, i>>] = (status # "NORMAL")]
        /\ \/ page' = Entry(status) /\ UNCHANGED clean
           \/ clean' = FALSE /\ UNCHANGED page
        /\ NextParam
        /\ UNCHANGED <<device, property, values, late, com, config, fault, answers>>

\* After a good answer the device is there again.
DeviceAnswered ==
    /\ pc = "answered"
    /\ com_fail_count' = 0 /\ silent' = 0 /\ com_fail_flag' = FALSE
    /\ IF com_fail_flag THEN record_com_fail(FALSE) ELSE UNCHANGED <<raised, lost>>
    /\ NextProperty /\ values' = << >> /\ answers' = 0
    /\ UNCHANGED <<device, i, param_cnt, late, last, config, page, cnt, clean, fault>>

(***************************************************************************)
(* The end of a pass, and the user                                         *)
(***************************************************************************)
\* shm_put of the page; then the flag: taken in one pass, cleared at the end of the next.
PassEnds ==
    /\ pc = "put"
    /\ IF update THEN update' = FALSE /\ alarm_flag' = FALSE
                 ELSE update' = alarm_flag /\ UNCHANGED alarm_flag
    /\ pc' = "ask" /\ property' = 1 /\ param_cnt' = 0 /\ clean' = TRUE /\ fault' = {}
    /\ late' = 0
    /\ UNCHANGED <<device, i, values, last, com, limits, table, missed, page, cnt,
                   raised, answers>>

\* A web page changes the limits: the table and, with the next reload, the flag.  The
\* properties this pass has already read keep the old ones.
ChangeLimits ==
    /\ pc \in {"ask", "put"} /\ table' \in Limits[device] \ {table}
    /\ alarm_flag' = TRUE
    /\ missed' = IF ~update THEN missed
                 ELSE missed \cup {p \in Properties : p < property \/ pc = "put"}
    /\ UNCHANGED <<device, pass, late, last, com, limits, update, page, cnt, raised>>

Poll == \/ WriteFails \/ NoAnswer \/ BadAnswer \/ FirstAnswer \/ GoodAnswer
        \/ CompareRefused \/ Compare \/ DeviceAnswered \/ PassEnds
Next == Poll \/ ChangeLimits

Spec == Init /\ [][Next]_uartVars

----------------------------------------------------------------------------
\* Types of the variables.
TypeOK ==
    /\ device \in Devices /\ pc \in {"ask", "compare", "answered", "put"}
    /\ property \in Properties /\ i \in 1..ListSize(property)
    /\ param_cnt \in 0..Cardinality(Params) /\ cnt \in 0..Cardinality(Params)
    /\ late \in Properties \cup {0} /\ answers \in Properties \cup {0}
    /\ \A p \in Properties :
          last[p] # NoList => last[p] \in [1..ListSize(p) -> [value : Readings[device], status : Statuses]]
    /\ com_fail_count \in 0..2 /\ com_fail_flag \in BOOLEAN
    /\ update \in BOOLEAN /\ alarm_flag \in BOOLEAN
    /\ raised \in [Params \cup {Device} -> BOOLEAN]
    /\ \A n \in DOMAIN page :
          page[n] # NoEntry => page[n].param \in Params
                               /\ page[n].alarm_type \in Statuses \cup {"COM_FAULT"}

Status(param) == IF last[param[1]] = NoList THEN "NORMAL" ELSE last[param[1]][param[2]].status

\* An alarm is not stuck and not invented: whatever came before - other limits, an alarm
\* of the other side, a first answer - an evaluation that finds its blocks leaves the
\* status that limit and release value ask for, with no alarm coming and going between
\* the two; and a reading that does not move raises and discards nothing twice.
StatusFollowsReading ==
    [][\A param \in Params : Compare /\ param = <<property, i>> =>
        LET v == values[i]  limit == limits[property]  type == TypeOf(param)
        IN  Ordered(type, limit) =>
                /\ FollowsUp(Status(param), Status(param)', v, type, limit)
                /\ FollowsLow(Status(param), Status(param)', v, type, limit)
                /\ Settles(Status(param)', v, type, limit)
      ]_uartVars

\* The status that decides what is offered next agrees with what the notifiers were
\* offered last, on every path through missing blocks: a parameter in alarm was raised and
\* not discarded since, and one that is not was never raised or discarded.  The device
\* latches first: there it holds until one of its alarms finds no block.  The device is
\* only given up after two silent requests with no good answer between them.
AlarmsMatchLatch ==
    /\ \A param \in Params : (Status(param) # "NORMAL") <=> raised[param]
    /\ ~lost => (com_fail_flag <=> raised[Device])
    /\ com_fail_flag => silent = 2

\* A pass in which every request was written and every block found, and none was answered
\* for the first time, leaves a page that has each parameter of the device once, in order, as faulty when its own request went
\* unanswered and else with the status it has.
PageShowsDevice ==
    pc = "put" /\ clean =>
        /\ cnt = Cardinality(Params)
        /\ \A param \in Params :
              \E n \in 1..cnt :
                 /\ page[n] = [param |-> param,
                               alarm_type |-> IF param[1] \in fault THEN "COM_FAULT"
                                                                    ELSE Status(param)]
                 /\ \A m \in 1..cnt : page[m].param = param => m = n

\* The thread's limits are those of the table, or it still has to read them.  Two changes
\* are lost, for the flag is cleared all the same: one that comes in a pass that reads the
\* limits, behind the properties it changes, and one whose query that pass is refused.  No
\* other is, and a query that is answered in a later pass makes up for both.
LimitsAreCurrent ==
    \A p \in Properties :
        \/ limits[p] = table \/ p \in missed
        \/ alarm_flag \/ (update /\ p >= property /\ pc # "put")

\* external_io_860.c:286, "check of the address at the head and of the command": the
\* parameters of a property are compared with the answer to that property's request.
AnswersItsRequest == pc = "compare" => answers = property
=============================================================================
