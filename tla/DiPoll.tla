------------------------------- MODULE DiPoll -------------------------------
(***************************************************************************)
(* The alarms of the digital inputs (app/di_thread.c): the latch of each   *)
(* input, the records and alarms that find their blocks or do not, the     *)
(* parameters a user changes under it, and what the page says.  The page   *)
(* is then put into shared memory as in RealData.                          *)
(***************************************************************************)
EXTENDS Integers, FiniteSets

CONSTANTS
    MAX_DI_NUMBER, \* digital inputs
    Levels         \* what di_cfg may hold: of each input its alarm_level, 2 for none

ASSUME DiAssumption == MAX_DI_NUMBER \in Nat \ {0} /\ Levels \subseteq [1..MAX_DI_NUMBER -> 0..2]

VARIABLES
    di_cfg, di_alarm_flag,  \* the table in sys.db; preference's flag
    level,                  \* di_param: alarm_level
    update_di_param_flag,
    alarm_status,           \* di_param: alarm_status
    alarm_type,             \* of each element of di_realdata
    passing                 \* a pass is over, and its flag is not looked at

(* For the properties. *)
VARIABLES
    raised,   \* of each input, the last alarm offered to the notifiers was a RAISE
    lost,     \* inputs whose last alarm found no block
    refused,  \* inputs whose last record found no block
    missed,   \* the table changed behind a pass that read it, or the query was refused
    restarts  \* restarts of snmp_app, up to one

diVars == <<di_cfg, di_alarm_flag, level, update_di_param_flag, alarm_status, alarm_type,
            passing, raised, lost, refused, missed, restarts>>

Inputs == 1..MAX_DI_NUMBER

\* alarm_level of the inputs before a query has filled di_param.
NeverRead == [n \in Inputs |-> 0]

\* update_di_param, before the loop: a query that is refused is not tried again.
FirstRead ==
    /\ level' \in {di_cfg, NeverRead} /\ missed' = (level' # di_cfg)

DiInit ==
    /\ di_cfg \in Levels /\ level \in {di_cfg, NeverRead} /\ missed = (level # di_cfg)
    /\ di_alarm_flag \in BOOLEAN /\ update_di_param_flag = FALSE /\ passing = FALSE
    /\ alarm_status = [n \in Inputs |-> FALSE] /\ alarm_type = [n \in Inputs |-> 0]
    /\ raised = [n \in Inputs |-> FALSE] /\ lost = {} /\ refused = {}
    /\ restarts = 0

\* Mutant: alarm_status is set and never reset.
LatchOnly(status, on) == status \/ on

\* alarm_data_record: param->alarm_status after a record.
Latched(status, on) == on

\* update_di_realdata: the page is as the input is, whatever could be recorded.
update_di_realdata(value) ==
    alarm_type' = [n \in Inputs |-> IF level'[n] = 2 THEN 2
                                   ELSE IF value[n] = level'[n] THEN 1 ELSE 0]

\* update_di_param: the result of the query is not looked at, and when it was refused (row is
\* 0) the levels stay as they were.
update_di_param ==
    \/ level' = di_cfg /\ missed' = FALSE
    \/ level' = level  /\ missed' = (level # di_cfg)

\* A pass; the look at the inputs before the first pass does the same.  An input that came
\* to its level or left it gets a record when there is a block, is latched, and only then
\* needs the blocks of the alarm.
Pass ==
    /\ ~passing /\ passing' = TRUE
    /\ IF update_di_param_flag THEN update_di_param ELSE UNCHANGED <<level, missed>>
    /\ \E value \in [Inputs -> {0, 1}], noRecord \in SUBSET Inputs, noAlarm \in SUBSET Inputs :
         LET on(n)   == value[n] = level'[n]
             turned  == {n \in Inputs : on(n) # alarm_status[n]}
             latches == turned \ noRecord
         IN  /\ alarm_status' = [n \in Inputs |-> IF n \in latches
                                                 THEN Latched(alarm_status[n], on(n))
                                                 ELSE alarm_status[n]]
             /\ raised' = [n \in Inputs |-> IF n \in latches \ noAlarm THEN on(n)
                                                                      ELSE raised[n]]
             /\ lost' = (lost \ latches) \cup (latches \cap noAlarm)
             /\ refused' = turned \cap noRecord
             /\ update_di_realdata(value)
    /\ UNCHANGED <<di_cfg, di_alarm_flag, update_di_param_flag, restarts>>

\* Mutant: the flag is cleared in the pass that sees it.
ClearAtOnce == update_di_param_flag' = FALSE /\ di_alarm_flag' = FALSE

\* The flag: taken at the end of one pass, cleared at the end of the next, whatever became
\* of the query in between.
TakeOrClear ==
    IF update_di_param_flag THEN update_di_param_flag' = FALSE /\ di_alarm_flag' = FALSE
              ELSE update_di_param_flag' = di_alarm_flag /\ UNCHANGED di_alarm_flag

PassEnds ==
    /\ passing /\ passing' = FALSE /\ TakeOrClear
    /\ UNCHANGED <<di_cfg, level, alarm_status, alarm_type, raised, lost, refused, missed,
                   restarts>>

\* set_di_param of a CGI process, with the reload that brings the flag to preference.
ChangeLevel ==
    /\ di_cfg' \in Levels \ {di_cfg} /\ di_alarm_flag' = TRUE
    /\ missed' = (update_di_param_flag /\ passing)
    /\ UNCHANGED <<level, update_di_param_flag, alarm_status, alarm_type, passing, raised,
                   lost, refused, restarts>>

\* snmp_app is started again: di_thread knows of no alarm it had raised.
Restart ==
    /\ restarts = 0 /\ restarts' = 1
    /\ FirstRead /\ update_di_param_flag' = FALSE /\ passing' = FALSE
    /\ alarm_status' = [n \in Inputs |-> FALSE] /\ alarm_type' = [n \in Inputs |-> 0]
    /\ lost' = Inputs /\ refused' = {}
    /\ UNCHANGED <<di_cfg, di_alarm_flag, raised>>

DiNext == Pass \/ PassEnds \/ ChangeLevel \/ Restart
DiSpec == DiInit /\ [][DiNext]_diVars

----------------------------------------------------------------------------
\* Types of the variables.
DiTypeOK ==
    /\ di_cfg \in Levels /\ level \in Levels \cup {NeverRead}
    /\ alarm_status \in [Inputs -> BOOLEAN] /\ raised \in [Inputs -> BOOLEAN]
    /\ alarm_type \in [Inputs -> 0..2]
    /\ di_alarm_flag \in BOOLEAN /\ update_di_param_flag \in BOOLEAN
    /\ passing \in BOOLEAN /\ missed \in BOOLEAN
    /\ lost \subseteq Inputs /\ refused \subseteq Inputs /\ restarts \in {0, 1}

\* What the page shows, what is latched and what the notifiers were offered last agree,
\* through changes of the level and missing blocks: after a pass an input is shown in alarm
\* just when it is latched, unless its record found no block in this very pass, and it is
\* latched just when its last alarm was a RAISE, unless that alarm found no block; and the
\* levels compared are those of the table, or will be - unless the change came behind the
\* pass that read them, or the query of that pass or of the start was refused: the flag is
\* cleared all the same, and the old levels stay.
DiAlarmsMatch ==
    /\ \A n \in Inputs : passing => ((alarm_type[n] = 1) = alarm_status[n] \/ n \in refused)
    /\ \A n \in Inputs : alarm_status[n] = raised[n] \/ n \in lost
    /\ level = di_cfg \/ di_alarm_flag \/ missed \/ (update_di_param_flag /\ ~passing)
=============================================================================
