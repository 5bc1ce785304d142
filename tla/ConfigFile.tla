----------------------------- MODULE ConfigFile -----------------------------
(***************************************************************************)
(* param.ini and table "parameter": the requests of the web pages, each a  *)
(* CGI process of its own (cgi_common/main.c, db_access.c), the preference *)
(* object of snmp_app (preference.c), and the polling thread that reads    *)
(* the table again when a flag in the file says so.                        *)
(*                                                                         *)
(* Nobody locks the file: each process parses it once, changes its own     *)
(* copy and writes the whole copy.  Its contents are a function from the   *)
(* keys it has: "ip" stands for the settings that are only in the file,    *)
(* "flag" for the change flag of one port.  stdio writes the file, shorter *)
(* than its buffer, in one piece when it is closed.                        *)
(***************************************************************************)
EXTENDS Integers, FiniteSets

CONSTANTS
    Requests,     \* CGI processes; each is used once and sets its own values
    Rows          \* rows of "parameter" that a request may update

ASSUME ConfigAssumption == {"app", "old"} \cap Requests = {}

VARIABLES
    file,          \* the file; without keys between fopen(.., "w") and fclose
    unseen,        \* its time differs from modify_time
    dic,           \* the dictionary of snmp_app
    main,          \* reload in main(): where it is
    alarm_flag,    \* preference's copy of the flag
    thread,        \* polling thread: where it is
    update,        \* update_alarm_param_flag
    cgi,           \* of each request: where it is, its dictionary, its transaction
    table,         \* rows changed and committed
    known          \* of these, those the thread has read

(* For the properties. *)
VARIABLES
    behind,        \* who has a copy that another has replaced in the file since
    wanted,        \* the setting and the rows that requests have reported as set
    overlap,       \* two of them met in one of the windows named below
    losses         \* power losses, up to one

configVars == <<file, unseen, dic, main, alarm_flag, thread, update, cgi, table, known,
                behind, wanted, overlap, losses>>

ini == <<file, unseen, behind, overlap>>
app == <<dic, main, alarm_flag, thread, update, known>>
web == <<cgi, table, wanted, losses>>

Empty == [key \in {} |-> "none"]
NoDic == [key \in {"freed"} |-> "freed"]

iniparser_set(d, key, value) ==
    IF d = NoDic THEN NoDic
                 ELSE [k \in {key} \cup DOMAIN d |-> IF k = key THEN value ELSE d[k]]
\* iniparser_getint(dic, "ALARM:rs232_alarm_flag", 1)
FlagOf(d) == IF "flag" \in DOMAIN d THEN d["flag"] ELSE "1"

Active(r) == cgi[r].pc \notin {"off", "done"}

ConfigInit ==
    /\ file = [ip |-> "old", flag |-> "0"] /\ unseen = FALSE
    /\ dic = file /\ main = "idle" /\ alarm_flag = "0"
    /\ thread = "idle" /\ update = TRUE
    /\ cgi = [r \in Requests |-> [pc |-> "off", kind |-> "ip", copy |-> Empty,
                                  tx |-> {}, todo |-> {}]]
    /\ table = {} /\ known = {}
    /\ behind = {} /\ wanted = [ip |-> "old", rows |-> {}] /\ overlap = FALSE /\ losses = 0

----------------------------------------------------------------------------
(***************************************************************************)
(* The file.  An overlap: a file is parsed while it is empty; a copy is    *)
(* written that is behind the file, or freed.                              *)
(***************************************************************************)
Parse(w) ==
    /\ behind' = behind \ {w}
    /\ overlap' = (overlap \/ file = Empty)
    /\ UNCHANGED <<file, unseen>>

\* dump_profile: fopen, which empties the file; within the second of modify_time the file
\* does not look changed.
Truncate(w) ==
    /\ file' = Empty /\ unseen' \in {unseen, TRUE}
    /\ overlap' = (overlap \/ w \in behind)
    /\ UNCHANGED behind

\* iniparser_dump_ini and fclose: without a dictionary the file stays as it is.  All others
\* now hold a copy that is behind.
Store(w, copy, lost) ==
    /\ file' = IF copy = NoDic THEN file ELSE copy
    /\ unseen' \in {unseen, TRUE}
    /\ behind' = ({"app"} \cup {r \in Requests : Active(r)}) \ {w}
    /\ overlap' = (overlap \/ w \in behind \/ lost)

----------------------------------------------------------------------------
(***************************************************************************)
(* A request                                                               *)
(***************************************************************************)
At(r, pc) == cgi[r].pc = pc

\* main(): the file is parsed before the request is looked at.
Start(r) ==
    /\ At(r, "off")
    /\ \E kind \in {"ip", "limits"} :
          cgi' = [cgi EXCEPT ![r] = [pc |-> IF kind = "ip" THEN "set" ELSE "update",
                                     kind |-> kind, copy |-> file, tx |-> {},
                                     todo |-> IF kind = "ip" THEN {} ELSE Rows]]
    /\ Parse(r)
    /\ UNCHANGED <<app, table, wanted, losses>>

\* execute_no_query: "begin", whose result is not looked at, and the statement.  While
\* another request has written in a transaction the statement is refused, and set_protocol_
\* alarm_param goes on with the next row.
Update(r) ==
    /\ At(r, "update")
    /\ \E row \in cgi[r].todo :
          IF \E q \in Requests \ {r} : cgi[q].tx # {}
          THEN /\ cgi' = [cgi EXCEPT ![r].todo = @ \ {row},
                                     ![r].pc = IF cgi[r].todo = {row} THEN "set" ELSE @]
               /\ overlap' = TRUE
          ELSE /\ cgi' = [cgi EXCEPT ![r].todo = @ \ {row}, ![r].pc = "commit",
                                     ![r].tx = @ \cup {<<r, row>>}]
               /\ UNCHANGED overlap
    /\ UNCHANGED <<file, unseen, app, table, behind, wanted, losses>>

\* "commit" is refused while the thread reads the table; this too is not looked at, and the
\* transaction stays open for the next statement.
Commit(r) ==
    /\ At(r, "commit")
    /\ cgi' = [cgi EXCEPT ![r].pc = IF cgi[r].todo = {} THEN "set" ELSE "update",
                          ![r].tx = IF thread = "reading" THEN @ ELSE {}]
    /\ table' = IF thread = "reading" THEN table ELSE table \cup cgi[r].tx
    /\ UNCHANGED <<ini, app, wanted, losses>>

\* Mutant: set_protocol_alarm_param forgets the flag.
SetNoFlag(r) ==
    IF cgi[r].kind = "ip" THEN iniparser_set(cgi[r].copy, "ip", r) ELSE cgi[r].copy

\* write_profile in the handlers: set_network_param, set_protocol_alarm_param.
SetProfile(r) ==
    IF cgi[r].kind = "ip" THEN iniparser_set(cgi[r].copy, "ip", r)
                          ELSE iniparser_set(cgi[r].copy, "flag", "1")

Handle(r) ==
    /\ At(r, "set")
    /\ cgi' = [cgi EXCEPT ![r].copy = SetProfile(r), ![r].pc = "open"]
    /\ Truncate(r)
    /\ UNCHANGED <<app, table, wanted, losses>>

\* The file is written, success reported, the databases closed: an open transaction is
\* rolled back.
Finish(r) ==
    /\ At(r, "open")
    /\ Store(r, cgi[r].copy, cgi[r].tx # {} \/ ~unseen')
    /\ cgi' = [cgi EXCEPT ![r].pc = "done", ![r].copy = Empty, ![r].tx = {}]
    /\ wanted' = IF cgi[r].kind = "ip" THEN [wanted EXCEPT !.ip = r]
                 ELSE [wanted EXCEPT !.rows = @ \cup ({r} \X Rows)]
    /\ UNCHANGED <<app, table, losses>>

----------------------------------------------------------------------------
(***************************************************************************)
(* snmp_app: preference_reload in main(), every five seconds               *)
(***************************************************************************)
\* The dictionary is freed first.  The lock is always free: the setters do not take it.
Reload ==
    /\ main = "idle" /\ unseen
    /\ main' = "freed" /\ dic' = NoDic
    /\ UNCHANGED <<ini, alarm_flag, thread, update, known, web>>

\* Mutant: the dictionary is kept and only the values are read again.
LoadValues ==
    /\ main = "freed" /\ main' = "loaded" /\ dic' = [ip |-> "old", flag |-> FlagOf(file)]
    /\ Parse("app")
    /\ UNCHANGED <<alarm_flag, thread, update, known, web>>

Load ==
    /\ main = "freed" /\ main' = "loaded" /\ dic' = file
    /\ Parse("app")
    /\ UNCHANGED <<alarm_flag, thread, update, known, web>>

\* load_preference: the time of the file is looked up after the file was parsed.
Stat ==
    /\ main = "loaded" /\ main' = "idle"
    /\ unseen' = FALSE /\ overlap' = (overlap \/ "app" \in behind)
    /\ alarm_flag' = FlagOf(dic)
    /\ UNCHANGED <<file, behind, dic, thread, update, known, web>>

(***************************************************************************)
(* snmp_app: a polling thread                                              *)
(***************************************************************************)
TakeFlag ==
    /\ thread = "idle" /\ ~update /\ alarm_flag = "1" /\ update' = TRUE
    /\ UNCHANGED <<ini, dic, main, alarm_flag, thread, known, web>>

ReadTable ==
    /\ thread = "idle" /\ update /\ thread' = "reading"
    /\ UNCHANGED <<ini, dic, main, alarm_flag, update, known, web>>

\* The query is answered, or refused: a CGI process is committing to sys.db, this one or
\* another table, or has left a refused commit open.  update_alarm_param does not look at
\* the result, and a refused thread keeps the limits it has.
TableRead ==
    /\ thread = "reading" /\ thread' = "clear" /\ known' \in {known, table}
    /\ UNCHANGED <<ini, dic, main, alarm_flag, update, web>>

\* set_rs232_alarm_flag(0), read or not.  An overlap: rows that changed after they were
\* read, or whose query was refused.
Clear ==
    /\ thread = "clear" /\ thread' = "dump" /\ update' = FALSE
    /\ alarm_flag' = "0" /\ dic' = iniparser_set(dic, "flag", "0")
    /\ overlap' = (overlap \/ table # known)
    /\ UNCHANGED <<file, unseen, behind, main, known, web>>

DumpOpens ==
    /\ thread = "dump" /\ thread' = "open" /\ Truncate("app")
    /\ UNCHANGED <<dic, main, alarm_flag, update, known, web>>

DumpCloses ==
    /\ thread = "open" /\ thread' = "idle" /\ Store("app", dic, dic = NoDic)
    /\ UNCHANGED <<dic, main, alarm_flag, update, known, web>>

\* The power fails and comes back: an overlap when the file was being written.
PowerLoss ==
    /\ losses = 0 /\ losses' = 1
    /\ dic' = file /\ main' = "idle" /\ unseen' = FALSE /\ alarm_flag' = FlagOf(file)
    /\ thread' = "idle" /\ update' = TRUE /\ known' = {}
    /\ cgi' = [r \in Requests |-> IF Active(r) THEN [cgi[r] EXCEPT !.pc = "done", !.tx = {},
                                                                   !.copy = Empty]
                                               ELSE cgi[r]]
    /\ behind' = {} /\ overlap' = (overlap \/ file = Empty)
    /\ UNCHANGED <<file, table, wanted>>

----------------------------------------------------------------------------
Request(r) == Update(r) \/ Commit(r) \/ Handle(r) \/ Finish(r)
Main       == Reload \/ Load \/ Stat
Thread     == TakeFlag \/ ReadTable \/ TableRead \/ Clear \/ DumpOpens \/ DumpCloses

ConfigNext == Main \/ Thread \/ PowerLoss \/ \E r \in Requests : Start(r) \/ Request(r)

\* A process that has work is scheduled; nobody has to send a request.
ConfigFairness == /\ WF_configVars(Main) /\ WF_configVars(Thread)
            /\ \A r \in Requests : WF_configVars(Request(r))
ConfigSpec == ConfigInit /\ [][ConfigNext]_configVars /\ ConfigFairness

----------------------------------------------------------------------------
\* Types of the variables.
ConfigTypeOK ==
    /\ DOMAIN file \subseteq {"ip", "flag"} /\ DOMAIN dic \subseteq {"ip", "flag", "freed"}
    /\ main \in {"idle", "freed", "loaded"} /\ (dic = NoDic <=> main = "freed")
    /\ thread \in {"idle", "reading", "clear", "dump", "open"}
    /\ alarm_flag \in {"0", "1"} /\ unseen \in BOOLEAN /\ update \in BOOLEAN /\ overlap \in BOOLEAN
    /\ \A r \in Requests : cgi[r].tx \subseteq {r} \X Rows
    /\ behind \subseteq Requests \cup {"app"}
    /\ known \subseteq table /\ table \subseteq Requests \X Rows

\* What a request has reported as set stays set, whatever the other requests, the reload
\* and the thread's own rewriting of the file do, and a change of the table keeps the flag
\* that makes the thread read it - unless two of them met in one of the windows: a copy that
\* is behind is written, the file is parsed or the power lost while the file is empty, the
\* dictionary is freed during a dump, rows change behind the thread's reading, the reading
\* itself is refused, a commit is refused and not repeated, a request is over in the second
\* of the last reload.  What is lost inside the first of them ReportedSettingStays shows.
KeptWithoutOverlap ==
    ~overlap /\ thread # "open" /\ ~(\E r \in Requests : At(r, "open")) =>
        /\ "ip" \in DOMAIN file /\ file["ip"] = wanted.ip
        /\ wanted.rows \subseteq table
        /\ table # known => \/ update \/ FlagOf(file) = "1" \/ alarm_flag = "1"
                            \/ \E r \in Requests : Active(r)

\* Bound of the runs: beyond the first overlap nothing is promised.
BeforeOverlap == ~overlap

\* A change of the table reaches the polling thread, unless there was an overlap - one of
\* them that the thread's query was refused while a row it had not read was changed.
ChangeArrives == table # known ~> table = known \/ overlap

\* param_setting_network.html tells the user "set successfully, takes effect when the device
\* is restarted": while the device has power and nobody is writing the file, the file has
\* the setting that was reported last.
ReportedSettingStays ==
    wanted.ip \in Requests /\ losses = 0 /\ thread # "open" /\ ~(\E r \in Requests : At(r, "open")) =>
        "ip" \in DOMAIN file /\ file["ip"] = wanted.ip
=============================================================================
