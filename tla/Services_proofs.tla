--------------------------- MODULE Services_proofs ---------------------------
(***************************************************************************)
(* The configuration file: nothing that was set is lost outside the windows *)
(* that ConfigFile names, for any number of requests and rows.  And the    *)
(* five components that share no variable, side by side as MCServices has  *)
(* them: each keeps its own invariant while another one runs.              *)
(***************************************************************************)
EXTENDS MCServices, InputPages_proofs, Senders_proofs

(***************************************************************************)
(* The inductive invariant                                                 *)
(***************************************************************************)
Keys   == {"ip", "flag"}
Values == Requests \cup {"old", "0", "1"}
Files  == {f \in UNION {[S -> Values] : S \in SUBSET Keys} :
              "flag" \in DOMAIN f => f["flag"] \in {"0", "1"}}
Cgi    == [pc : {"off", "update", "commit", "set", "open", "done"}, kind : {"ip", "limits"},
           copy : Files, tx : SUBSET (Requests \X Rows), todo : SUBSET Rows]

Types ==
    /\ ConfigTypeOK
    /\ cgi \in [Requests -> Cgi] /\ file \in Files /\ (main # "freed" => dic \in Files)
    /\ wanted = [ip |-> wanted.ip, rows |-> wanted.rows]

Limits(r) == cgi[r].kind = "limits"

\* Where a request is in its handler.
Handling ==
    \A r \in Requests :
        /\ At(r, "update") \/ At(r, "commit") => Limits(r)
        /\ At(r, "set") \/ At(r, "open") => cgi[r].todo = {}
        /\ At(r, "open") /\ Limits(r) => FlagOf(cgi[r].copy) = "1"

\* Rows that were updated are in the table, or in the transaction that is still open.
RowsOf(r) == {r} \X (Rows \ cgi[r].todo)
RowsKept ==
    /\ wanted.rows \subseteq table
    /\ \A r \in Requests : Active(r) /\ Limits(r) => RowsOf(r) \subseteq table \cup cgi[r].tx

\* The file, and each copy that is not behind it, have the setting that was asked for last.
HasIp(f, value) == "ip" \in DOMAIN f /\ f["ip"] = value
Asks(r) == IF At(r, "open") /\ ~Limits(r) THEN r ELSE wanted.ip
IpKept ==
    /\ file # Empty => HasIp(file, wanted.ip)
    /\ file = Empty => thread = "open" \/ \E r \in Requests : At(r, "open")
    /\ "app" \notin behind /\ main # "freed" => HasIp(dic, wanted.ip)
    /\ \A r \in Requests : Active(r) /\ r \notin behind => HasIp(cgi[r].copy, Asks(r))

\* As long as a change of the table waits for the thread, and no request is about to set
\* the flag, the flag is set wherever the file could be written from.
Pending == table # known /\ ~update /\ \A r \in Requests : Active(r) => ~Limits(r)
FlagKept ==
    Pending => /\ file # Empty => FlagOf(file) = "1"
               /\ "app" \notin behind /\ main # "freed" => FlagOf(dic) = "1"
               /\ \A r \in Requests : Active(r) /\ r \notin behind => FlagOf(cgi[r].copy) = "1"

Kept == ~overlap => RowsKept /\ IpKept /\ FlagKept
IInv == Types /\ Handling /\ Kept

----------------------------------------------------------------------------
(***************************************************************************)
(* Contents of files                                                       *)
(***************************************************************************)
LEMMA FileFacts ==
    ASSUME NEW f \in Files
    PROVE  /\ DOMAIN f \subseteq Keys /\ f \in [DOMAIN f -> Values]
           /\ f # NoDic /\ FlagOf(f) \in {"0", "1"}
           /\ \A value : HasIp(f, value) => f # Empty
<1>1. DOMAIN f \subseteq Keys /\ f \in [DOMAIN f -> Values]
  BY DEF Files
<1>2. f # NoDic
  <2>1. "freed" \in DOMAIN NoDic /\ "freed" \notin Keys
    BY DEF NoDic, Keys
  <2>2. QED BY <1>1, <2>1
<1>3. FlagOf(f) \in {"0", "1"}
  BY DEF Files, FlagOf
<1>4. \A value : HasIp(f, value) => f # Empty
  BY DEF HasIp, Empty
<1>5. QED BY <1>1, <1>2, <1>3, <1>4

LEMMA SetFacts ==
    ASSUME NEW f \in Files, NEW key \in Keys, NEW value \in Values,
           key = "flag" => value \in {"0", "1"}
    PROVE  LET g == iniparser_set(f, key, value)
           IN  /\ g \in Files
               /\ key = "flag" => FlagOf(g) = value /\ \A v : HasIp(f, v) => HasIp(g, v)
               /\ key = "ip" => FlagOf(g) = FlagOf(f) /\ HasIp(g, value)
<1> DEFINE g == iniparser_set(f, key, value)
<1>1. g = [y \in {key} \cup DOMAIN f |-> IF y = key THEN value ELSE f[y]]
  BY FileFacts DEF iniparser_set
<1>2. g \in Files
  <2>1. {key} \cup DOMAIN f \in SUBSET Keys /\ g \in [{key} \cup DOMAIN f -> Values]
    BY <1>1, FileFacts
  <2>2. "flag" \in DOMAIN g => g["flag"] \in {"0", "1"}
    BY <1>1 DEF Files
  <2>3. QED BY <2>1, <2>2 DEF Files
<1>3. key = "flag" => FlagOf(g) = value /\ \A v : HasIp(f, v) => HasIp(g, v)
  BY <1>1 DEF FlagOf, HasIp
<1>4. key = "ip" => FlagOf(g) = FlagOf(f) /\ HasIp(g, value)
  BY <1>1 DEF FlagOf, HasIp
<1>5. QED BY <1>2, <1>3, <1>4

LEMMA FirstFiles ==
    /\ Empty \in Files
    /\ [ip |-> "old", flag |-> "0"] \in Files /\ HasIp([ip |-> "old", flag |-> "0"], "old")
<1>1. Empty \in Files
  <2>1. Empty \in [{} -> Values] /\ {} \in SUBSET Keys
    BY DEF Empty
  <2>2. QED BY <2>1 DEF Files, Empty
<1>2. [ip |-> "old", flag |-> "0"] \in Files
  <2>1. [ip |-> "old", flag |-> "0"] \in [Keys -> Values] /\ Keys \in SUBSET Keys
    BY DEF Keys, Values
  <2>2. QED BY <2>1 DEF Files
<1>3. QED BY <1>1, <1>2 DEF HasIp

LEMMA InitInv == ConfigInit => IInv
<1> SUFFICES ASSUME ConfigInit PROVE IInv
  OBVIOUS
<1>1. Types
  <2>1. /\ cgi \in [Requests -> Cgi] /\ file \in Files /\ dic \in Files
        /\ \A r \in Requests : cgi[r].tx = {} /\ cgi[r].pc = "off"
    BY FirstFiles DEF ConfigInit, Cgi
  <2>2. DOMAIN file \subseteq Keys /\ dic # NoDic /\ DOMAIN dic \subseteq Keys
    BY <2>1, FileFacts
  <2>3. unseen \in BOOLEAN /\ update \in BOOLEAN /\ overlap \in BOOLEAN
    BY Zenon DEF ConfigInit
  <2>4. QED BY <2>1, <2>2, <2>3 DEF Types, ConfigTypeOK, ConfigInit, Keys
<1>2. Handling
  BY DEF ConfigInit, Handling, At
<1>3. Kept
  <2>1. HasIp(file, wanted.ip) /\ file # Empty /\ dic = file
    BY FirstFiles, FileFacts DEF ConfigInit
  <2>2. \A r \in Requests : ~Active(r)
    BY DEF ConfigInit, Active
  <2>3. QED BY <2>1, <2>2 DEF ConfigInit, Kept, RowsKept, IpKept, FlagKept, Pending
<1>4. QED BY <1>1, <1>2, <1>3 DEF IInv

----------------------------------------------------------------------------
(***************************************************************************)
(* The requests                                                            *)
(***************************************************************************)
LEMMA RequestType ==
    ASSUME Types, NEW r \in Requests
    PROVE  /\ cgi[r] \in Cgi /\ cgi[r].copy \in Files /\ cgi[r].tx \subseteq {r} \X Rows
           /\ cgi[r].todo \subseteq Rows
BY DEF Types, ConfigTypeOK, Cgi

\* One request changes, the others do not.
LEMMA OneChanges ==
    ASSUME Types, NEW r \in Requests, NEW next \in Cgi, next.tx \subseteq {r} \X Rows,
           cgi' = [cgi EXCEPT ![r] = next]
    PROVE  /\ cgi' \in [Requests -> Cgi]
           /\ \A q \in Requests : cgi'[q].tx \subseteq {q} \X Rows
           /\ cgi'[r] = next /\ \A q \in Requests \ {r} : cgi'[q] = cgi[q]
BY RequestType DEF Types

LEMMA StartInv ==
    ASSUME IInv, NEW r \in Requests, Start(r) PROVE IInv'
<1> USE DEF ini, app, web
<1>1. PICK kind \in {"ip", "limits"} :
         cgi' = [cgi EXCEPT ![r] = [pc |-> IF kind = "ip" THEN "set" ELSE "update",
                                    kind |-> kind, copy |-> file, tx |-> {},
                                    todo |-> IF kind = "ip" THEN {} ELSE Rows]]
  BY DEF Start
<1> DEFINE next == [pc |-> IF kind = "ip" THEN "set" ELSE "update",
                    kind |-> kind, copy |-> file, tx |-> {},
                    todo |-> IF kind = "ip" THEN {} ELSE Rows]
<1>2. next \in Cgi /\ next.tx \subseteq {r} \X Rows
  BY DEF IInv, Types, Cgi
<1>3. /\ cgi' \in [Requests -> Cgi]
      /\ \A q \in Requests : cgi'[q].tx \subseteq {q} \X Rows
      /\ cgi'[r] = next /\ \A q \in Requests \ {r} : cgi'[q] = cgi[q]
  BY <1>1, <1>2, OneChanges DEF IInv
<1>4. /\ behind' = behind \ {r} /\ overlap' = (overlap \/ file = Empty)
      /\ UNCHANGED <<file, unseen, dic, main, alarm_flag, thread, update, known, table, wanted,
                     losses>>
      /\ ~Active(r) /\ r # "app"
  BY ConfigAssumption DEF Start, Parse, At, Active
<1>5. Types'
  <2>1. overlap' \in BOOLEAN
    BY <1>4, Zenon
  <2>2. QED BY <1>3, <1>4, <2>1 DEF IInv, Types, ConfigTypeOK
<1>6. Handling'
  BY <1>3 DEF IInv, Handling, At, Limits
<1>7. Kept'
  <2> SUFFICES ASSUME ~overlap' PROVE RowsKept' /\ IpKept' /\ FlagKept'
    BY DEF Kept
  <2>1. ~overlap /\ file # Empty /\ RowsKept /\ IpKept /\ FlagKept
    BY <1>4 DEF IInv, Kept
  <2>2. RowsKept'
    BY <1>3, <1>4, <2>1 DEF RowsKept, RowsOf, Active, At, Limits
  <2>3. IpKept'
    BY <1>3, <1>4, <2>1 DEF IpKept, Asks, Active, At, Limits
  <2>4. FlagKept'
    BY <1>3, <1>4, <2>1 DEF FlagKept, Pending, Active, At, Limits
  <2>5. QED BY <2>2, <2>3, <2>4
<1>8. QED BY <1>5, <1>6, <1>7 DEF IInv

LEMMA UpdateInv ==
    ASSUME IInv, NEW r \in Requests, Update(r) PROVE IInv'
<1> USE DEF app, web
<1> DEFINE old == cgi[r]
           Busy == \E q \in Requests \ {r} : cgi[q].tx # {}
<1>1. /\ At(r, "update") /\ Limits(r) /\ Active(r)
      /\ UNCHANGED <<file, unseen, dic, main, alarm_flag, thread, update, known, table, behind,
                     wanted, losses>>
  BY DEF IInv, Handling, Update, At, Active
<1>2. PICK row \in cgi[r].todo :
        IF Busy
        THEN /\ cgi' = [cgi EXCEPT ![r].todo = @ \ {row},
                                   ![r].pc = IF cgi[r].todo = {row} THEN "set" ELSE @]
             /\ overlap' = TRUE
        ELSE /\ cgi' = [cgi EXCEPT ![r].todo = @ \ {row}, ![r].pc = "commit",
                                   ![r].tx = @ \cup {<<r, row>>}]
             /\ UNCHANGED overlap
  BY DEF Update
<1>3. old \in Cgi /\ old.tx \subseteq {r} \X Rows /\ row \in Rows /\ Types
  BY RequestType DEF IInv
<1>4. CASE Busy
  <2> DEFINE next == [old EXCEPT !.todo = @ \ {row},
                                 !.pc = IF old.todo = {row} THEN "set" ELSE @]
  <2>1. next \in Cgi /\ next.tx \subseteq {r} \X Rows /\ cgi' = [cgi EXCEPT ![r] = next]
    BY <1>2, <1>3, <1>4 DEF Cgi, Types
  <2> HIDE DEF next
  <2>2. /\ cgi' \in [Requests -> Cgi]
        /\ \A q \in Requests : cgi'[q].tx \subseteq {q} \X Rows
        /\ cgi'[r] = next /\ \A q \in Requests \ {r} : cgi'[q] = cgi[q]
    BY <2>1, OneChanges DEF IInv
  <2>3. /\ next.pc \in {"update", "set"} /\ next.kind = "limits"
        /\ next.pc = "set" => next.todo = {}
    BY <1>1, <1>3 DEF next, Cgi, At, Limits
  <2>4. Types' /\ overlap' = TRUE
    BY <1>1, <1>2, <1>4, <2>2 DEF IInv, Types, ConfigTypeOK
  <2>5. Handling'
    BY <2>2, <2>3 DEF IInv, Handling, At, Limits
  <2>6. QED BY <2>4, <2>5 DEF IInv, Kept
<1>5. CASE ~Busy
  <2> DEFINE next == [old EXCEPT !.todo = @ \ {row}, !.pc = "commit",
                                 !.tx = @ \cup {<<r, row>>}]
  <2>1. next \in Cgi /\ next.tx \subseteq {r} \X Rows /\ cgi' = [cgi EXCEPT ![r] = next]
    <3>1. old.tx \cup {<<r, row>>} \subseteq {r} \X Rows
      BY <1>3
    <3>2. {r} \X Rows \subseteq Requests \X Rows
      OBVIOUS
    <3>3. next \in Cgi /\ next.tx \subseteq {r} \X Rows
      BY <1>3, <3>1, <3>2 DEF Cgi
    <3>4. cgi' = [cgi EXCEPT ![r] = next]
      BY <1>2, <1>3, <1>5 DEF Types
    <3>5. QED BY <3>3, <3>4
  <2> HIDE DEF next
  <2>2. /\ cgi' \in [Requests -> Cgi]
        /\ \A q \in Requests : cgi'[q].tx \subseteq {q} \X Rows
        /\ cgi'[r] = next /\ \A q \in Requests \ {r} : cgi'[q] = cgi[q]
    BY <2>1, OneChanges DEF IInv
  <2>3. /\ next.pc = "commit" /\ next.kind = "limits" /\ next.copy = old.copy
        /\ next.todo = old.todo \ {row} /\ next.tx = old.tx \cup {<<r, row>>}
    BY <1>1, <1>3 DEF next, Cgi, At, Limits
  <2>4. Types' /\ overlap' = overlap
    BY <1>1, <1>2, <1>5, <2>2 DEF IInv, Types, ConfigTypeOK
  <2>5. Handling'
    BY <2>2, <2>3 DEF IInv, Handling, At, Limits
  <2>6. Kept'
    <3> SUFFICES ASSUME ~overlap' PROVE RowsKept' /\ IpKept' /\ FlagKept'
      BY DEF Kept
    <3>1. RowsKept /\ IpKept /\ FlagKept
      BY <2>4 DEF IInv, Kept
    <3>2. RowsKept'
      <4>1. RowsOf(r) \subseteq table \cup old.tx
        BY <1>1, <3>1 DEF RowsKept
      <4>2. RowsOf(r)' \subseteq RowsOf(r) \cup {<<r, row>>}
        BY <2>2, <2>3 DEF RowsOf
      <4>3. QED BY <1>1, <2>2, <2>3, <3>1, <4>1, <4>2 DEF RowsKept, RowsOf, Active, Limits
    <3>3. IpKept'
      BY <1>1, <2>2, <2>3, <3>1 DEF IpKept, Asks, Active, At, Limits
    <3>4. FlagKept'
      BY <1>1, <2>2, <2>3 DEF FlagKept, Pending, Active, Limits
    <3>5. QED BY <3>2, <3>3, <3>4
  <2>7. QED BY <2>4, <2>5, <2>6 DEF IInv
<1>6. QED BY <1>4, <1>5

LEMMA CommitInv ==
    ASSUME IInv, NEW r \in Requests, Commit(r) PROVE IInv'
<1> USE DEF ini, app
<1> DEFINE old  == cgi[r]
           next == [old EXCEPT !.pc = IF old.todo = {} THEN "set" ELSE "update",
                               !.tx = IF thread = "reading" THEN @ ELSE {}]
<1>1. /\ At(r, "commit") /\ Limits(r) /\ Active(r)
      /\ table' = IF thread = "reading" THEN table ELSE table \cup old.tx
      /\ UNCHANGED <<file, unseen, dic, main, alarm_flag, thread, update, known, behind,
                     wanted, losses, overlap>>
  BY DEF IInv, Handling, Commit, At, Active
<1>2. old \in Cgi /\ old.tx \subseteq {r} \X Rows
  BY RequestType DEF IInv
<1>3. next \in Cgi /\ next.tx \subseteq {r} \X Rows /\ cgi' = [cgi EXCEPT ![r] = next]
  BY <1>2 DEF IInv, Types, Commit, Cgi
<1>4. /\ next.pc \in {"set", "update"} /\ (next.pc = "set" => next.todo = {})
      /\ next.kind = "limits" /\ next.copy = old.copy /\ next.todo = old.todo
      /\ next.tx = IF thread = "reading" THEN old.tx ELSE {}
  BY <1>1, <1>2 DEF Cgi, Limits
<1> HIDE DEF next
<1>5. /\ cgi' \in [Requests -> Cgi]
      /\ \A q \in Requests : cgi'[q].tx \subseteq {q} \X Rows
      /\ cgi'[r] = next /\ \A q \in Requests \ {r} : cgi'[q] = cgi[q]
  BY <1>3, OneChanges DEF IInv
<1>6. table \subseteq table' /\ table' \subseteq Requests \X Rows
  BY <1>1, <1>2 DEF IInv, Types, ConfigTypeOK
<1>7. Types'
  BY <1>1, <1>5, <1>6 DEF IInv, Types, ConfigTypeOK
<1>8. Handling'
  BY <1>4, <1>5 DEF IInv, Handling, At, Limits
<1>9. Kept'
  <2> SUFFICES ASSUME ~overlap' PROVE RowsKept' /\ IpKept' /\ FlagKept'
    BY DEF Kept
  <2>1. RowsKept /\ IpKept /\ FlagKept
    BY <1>1 DEF IInv, Kept
  <2>2. RowsKept'
    <3>1. RowsOf(r) \subseteq table' \cup next.tx
      BY <1>1, <1>4, <2>1 DEF RowsKept
    <3>2. QED BY <1>1, <1>4, <1>5, <1>6, <2>1, <3>1 DEF RowsKept, RowsOf, Active, Limits
  <2>3. IpKept'
    BY <1>1, <1>4, <1>5, <2>1 DEF IpKept, Asks, Active, At, Limits
  <2>4. FlagKept'
    BY <1>1, <1>4, <1>5 DEF FlagKept, Pending, Active, Limits
  <2>5. QED BY <2>2, <2>3, <2>4
<1>10. QED BY <1>7, <1>8, <1>9 DEF IInv

LEMMA HandleInv ==
    ASSUME IInv, NEW r \in Requests, Handle(r) PROVE IInv'
<1> USE DEF app
<1> DEFINE old  == cgi[r]
           next == [old EXCEPT !.copy = SetProfile(r), !.pc = "open"]
<1>1. /\ At(r, "set") /\ Active(r) /\ old.todo = {}
      /\ file' = Empty /\ unseen' \in {unseen, TRUE} /\ overlap' = (overlap \/ r \in behind)
      /\ UNCHANGED <<dic, main, alarm_flag, thread, update, known, table, behind, wanted, losses>>
  BY DEF IInv, Handling, Handle, Truncate, At, Active
<1>2. old \in Cgi /\ old.copy \in Files /\ old.tx \subseteq {r} \X Rows
  BY RequestType DEF IInv
<1>3. /\ SetProfile(r) \in Files
      /\ Limits(r) => /\ FlagOf(SetProfile(r)) = "1"
                      /\ \A v : HasIp(old.copy, v) => HasIp(SetProfile(r), v)
      /\ ~Limits(r) => /\ FlagOf(SetProfile(r)) = FlagOf(old.copy)
                       /\ HasIp(SetProfile(r), r)
  <2>1. "flag" \in Keys /\ "ip" \in Keys /\ r \in Values /\ "1" \in Values
    BY DEF Keys, Values
  <2>2. CASE Limits(r)
    <3>1. SetProfile(r) = iniparser_set(old.copy, "flag", "1")
      BY <2>2 DEF SetProfile, Limits
    <3>2. QED BY <1>2, <2>1, <2>2, <3>1, SetFacts
  <2>3. CASE ~Limits(r)
    <3>1. SetProfile(r) = iniparser_set(old.copy, "ip", r)
      BY <1>2, <2>3 DEF SetProfile, Limits, Cgi
    <3>2. QED BY <1>2, <2>1, <2>3, <3>1, SetFacts
  <2>4. QED BY <2>2, <2>3
<1>4. next \in Cgi /\ next.tx \subseteq {r} \X Rows /\ cgi' = [cgi EXCEPT ![r] = next]
  BY <1>2, <1>3 DEF IInv, Types, Handle, Cgi
<1>5. /\ next.pc = "open" /\ next.kind = old.kind /\ next.copy = SetProfile(r)
      /\ next.todo = {} /\ next.tx = old.tx
  BY <1>1, <1>2 DEF Cgi
<1> HIDE DEF next
<1>6. /\ cgi' \in [Requests -> Cgi]
      /\ \A q \in Requests : cgi'[q].tx \subseteq {q} \X Rows
      /\ cgi'[r] = next /\ \A q \in Requests \ {r} : cgi'[q] = cgi[q]
  BY <1>4, OneChanges DEF IInv
<1>7. Types'
  <2>1. overlap' \in BOOLEAN
    BY <1>1, Zenon
  <2>2. unseen' \in BOOLEAN
    BY <1>1 DEF IInv, Types, ConfigTypeOK
  <2>3. file' \in Files /\ DOMAIN file' \subseteq {"ip", "flag"}
    BY <1>1, FirstFiles DEF Empty
  <2>4. QED BY <1>1, <1>6, <2>1, <2>2, <2>3 DEF IInv, Types, ConfigTypeOK
<1>8. Handling'
  BY <1>3, <1>5, <1>6 DEF IInv, Handling, At, Limits
<1>9. Kept'
  <2> SUFFICES ASSUME ~overlap' PROVE RowsKept' /\ IpKept' /\ FlagKept'
    BY DEF Kept
  <2>1. r \notin behind /\ RowsKept /\ IpKept /\ FlagKept
    BY <1>1 DEF IInv, Kept
  <2>2. RowsKept'
    BY <1>1, <1>5, <1>6, <2>1 DEF RowsKept, RowsOf, Active, Limits
  <2>3. IpKept'
    <3>1. HasIp(old.copy, wanted.ip)
      BY <1>1, <2>1 DEF IpKept, Asks, At
    <3>2. HasIp(next.copy, Asks(r)')
      BY <1>1, <1>3, <1>5, <1>6, <3>1 DEF Asks, At, Limits
    <3>3. QED BY <1>1, <1>5, <1>6, <2>1, <3>2 DEF IpKept, Asks, Active, At, Limits
  <2>4. FlagKept'
    BY <1>1, <1>3, <1>5, <1>6, <2>1 DEF FlagKept, Pending, Active, Limits
  <2>5. QED BY <2>2, <2>3, <2>4
<1>10. QED BY <1>7, <1>8, <1>9 DEF IInv

LEMMA FinishInv ==
    ASSUME IInv, NEW r \in Requests, Finish(r) PROVE IInv'
<1> USE DEF app
<1> DEFINE old  == cgi[r]
           next == [old EXCEPT !.pc = "done", !.copy = Empty, !.tx = {}]
<1>1. /\ At(r, "open") /\ Active(r) /\ old.todo = {} /\ (Limits(r) => FlagOf(old.copy) = "1")
      /\ unseen' \in {unseen, TRUE}
      /\ overlap' = (overlap \/ r \in behind \/ (old.tx # {} \/ ~unseen'))
      /\ behind' = ({"app"} \cup {q \in Requests : Active(q)}) \ {r}
      /\ UNCHANGED <<dic, main, alarm_flag, thread, update, known, table, losses>>
      /\ r # "app"
  BY ConfigAssumption DEF IInv, Handling, Finish, Store, At, Active
<1>2. old \in Cgi /\ old.copy \in Files /\ old.tx \subseteq {r} \X Rows
  BY RequestType DEF IInv
<1>3. file' = old.copy
  BY <1>2, FileFacts DEF Finish, Store
<1>4. next \in Cgi /\ next.tx \subseteq {r} \X Rows /\ cgi' = [cgi EXCEPT ![r] = next]
  BY <1>2, FirstFiles DEF IInv, Types, Finish, Cgi
<1>5. next.pc = "done"
  BY <1>2 DEF Cgi
<1> HIDE DEF next
<1>6. /\ cgi' \in [Requests -> Cgi]
      /\ \A q \in Requests : cgi'[q].tx \subseteq {q} \X Rows
      /\ cgi'[r] = next /\ \A q \in Requests \ {r} : cgi'[q] = cgi[q]
  BY <1>4, OneChanges DEF IInv
<1>10. /\ wanted'.rows = IF Limits(r) THEN wanted.rows \cup ({r} \X Rows) ELSE wanted.rows
       /\ wanted'.ip = IF Limits(r) THEN wanted.ip ELSE r
       /\ wanted' = [ip |-> wanted'.ip, rows |-> wanted'.rows]
  <2>1. CASE Limits(r)
    <3>1. wanted' = [wanted EXCEPT !.rows = @ \cup ({r} \X Rows)]
      BY <2>1 DEF Finish, Limits
    <3>2. QED BY <2>1, <3>1 DEF IInv, Types
  <2>2. CASE ~Limits(r)
    <3>1. wanted' = [wanted EXCEPT !.ip = r]
      BY <1>2, <2>2 DEF Finish, Limits, Cgi
    <3>2. QED BY <2>2, <3>1 DEF IInv, Types
  <2>3. QED BY <2>1, <2>2
<1>7. Types'
  <2>1. overlap' \in BOOLEAN
    BY <1>1, Zenon
  <2>2. unseen' \in BOOLEAN
    BY <1>1 DEF IInv, Types, ConfigTypeOK
  <2>3. file' \in Files /\ DOMAIN file' \subseteq {"ip", "flag"}
    BY <1>2, <1>3, FileFacts DEF Keys
  <2>4. QED BY <1>1, <1>6, <1>10, <2>1, <2>2, <2>3 DEF IInv, Types, ConfigTypeOK
<1>8. Handling'
  BY <1>5, <1>6 DEF IInv, Handling, At, Limits
<1>9. Kept'
  <2> SUFFICES ASSUME ~overlap' PROVE RowsKept' /\ IpKept' /\ FlagKept'
    BY DEF Kept
  <2>1. r \notin behind /\ old.tx = {} /\ RowsKept /\ IpKept /\ FlagKept
    BY <1>1 DEF IInv, Kept
  <2>2. ~Active(r)' /\ \A q \in Requests : Active(q)' => q \in behind' /\ q # r /\ cgi'[q] = cgi[q]
    BY <1>1, <1>5, <1>6 DEF Active
  <2>3. RowsKept'
    <3>1. Limits(r) => {r} \X Rows \subseteq table
      BY <1>1, <2>1 DEF RowsKept, RowsOf
    <3>2. wanted.rows' \subseteq table'
      BY <1>1, <1>10, <2>1, <3>1 DEF RowsKept
    <3>3. QED BY <1>1, <2>1, <2>2, <3>2 DEF RowsKept, RowsOf, Active, Limits
  <2>4. IpKept'
    <3>1. HasIp(old.copy, Asks(r)) /\ Asks(r) = wanted'.ip
      BY <1>1, <1>10, <2>1 DEF IpKept, Asks
    <3>2. HasIp(file', wanted'.ip) /\ file' # Empty
      BY <1>2, <1>3, <3>1, FileFacts
    <3>3. QED BY <1>1, <2>2, <3>2 DEF IpKept
  <2>5. FlagKept'
    <3>1. Pending' => FlagOf(old.copy) = "1"
      BY <1>1, <1>6, <2>1, <2>2 DEF FlagKept, Pending, Active, Limits
    <3>2. QED BY <1>1, <1>3, <2>2, <3>1 DEF FlagKept
  <2>6. QED BY <2>3, <2>4, <2>5
<1>11. QED BY <1>7, <1>8, <1>9 DEF IInv

----------------------------------------------------------------------------
(***************************************************************************)
(* snmp_app: the requests stay as they are                                 *)
(***************************************************************************)
LEMMA ReloadInv == ASSUME IInv, Reload PROVE IInv'
<1> USE DEF ini, web
<1>1. /\ main' = "freed" /\ dic' = NoDic
      /\ UNCHANGED <<file, unseen, behind, overlap, alarm_flag, thread, update, known, cgi, table,
                     wanted, losses>>
  BY DEF Reload
<1>2. Types'
  BY <1>1 DEF IInv, Types, ConfigTypeOK, NoDic
<1>3. Handling' /\ Kept'
  BY <1>1 DEF IInv, Handling, Kept, RowsKept, RowsOf, IpKept, Asks, FlagKept, Pending, Active, At, Limits
<1>4. QED BY <1>2, <1>3 DEF IInv

LEMMA LoadInv == ASSUME IInv, Load PROVE IInv'
<1> USE DEF web
<1>1. /\ main' = "loaded" /\ dic' = file
      /\ behind' = behind \ {"app"} /\ overlap' = (overlap \/ file = Empty)
      /\ UNCHANGED <<file, unseen, alarm_flag, thread, update, known, cgi, table, wanted, losses>>
      /\ "app" \notin Requests
  BY ConfigAssumption DEF Load, Parse
<1>2. Types'
  <2>1. overlap' \in BOOLEAN
    BY <1>1, Zenon
  <2>2. dic' \in Files /\ dic' # NoDic /\ DOMAIN dic' \subseteq {"ip", "flag", "freed"}
    BY <1>1, FileFacts DEF IInv, Types, Keys
  <2>3. QED BY <1>1, <2>1, <2>2 DEF IInv, Types, ConfigTypeOK
<1>3. Handling'
  BY <1>1 DEF IInv, Handling, At, Limits
<1>4. Kept'
  <2> SUFFICES ASSUME ~overlap' PROVE RowsKept' /\ IpKept' /\ FlagKept'
    BY DEF Kept
  <2>1. file # Empty /\ RowsKept /\ IpKept /\ FlagKept
    BY <1>1 DEF IInv, Kept
  <2>2. RowsKept'
    BY <1>1, <2>1 DEF RowsKept, RowsOf, Active, Limits
  <2>3. IpKept'
    BY <1>1, <2>1 DEF IpKept, Asks, Active, At, Limits
  <2>4. FlagKept'
    BY <1>1, <2>1 DEF FlagKept, Pending, Active, Limits
  <2>5. QED BY <2>2, <2>3, <2>4
<1>5. QED BY <1>2, <1>3, <1>4 DEF IInv

LEMMA StatInv == ASSUME IInv, Stat PROVE IInv'
<1> USE DEF web
<1>1. /\ main = "loaded" /\ main' = "idle" /\ unseen' = FALSE
      /\ overlap' = (overlap \/ "app" \in behind) /\ alarm_flag' = FlagOf(dic)
      /\ UNCHANGED <<file, behind, dic, thread, update, known, cgi, table, wanted, losses>>
  BY DEF Stat
<1>2. Types'
  <2>1. overlap' \in BOOLEAN /\ unseen' \in BOOLEAN
    BY <1>1, Zenon
  <2>2. alarm_flag' \in {"0", "1"}
    BY <1>1, FileFacts DEF IInv, Types
  <2>3. QED BY <1>1, <2>1, <2>2 DEF IInv, Types, ConfigTypeOK
<1>3. Handling'
  BY <1>1 DEF IInv, Handling, At, Limits
<1>4. Kept'
  BY <1>1 DEF IInv, Kept, RowsKept, RowsOf, IpKept, Asks, FlagKept, Pending, Active, At, Limits
<1>5. QED BY <1>2, <1>3, <1>4 DEF IInv

\* TakeFlag and ReadTable.
LEMMA ThreadGoesOnInv == ASSUME IInv, TakeFlag \/ ReadTable PROVE IInv'
<1> USE DEF ini, web
<1>1. /\ thread = "idle" /\ thread' \in {"idle", "reading"}
      /\ update' \in BOOLEAN /\ (update => update')
      /\ UNCHANGED <<file, unseen, behind, overlap, dic, main, alarm_flag, known, cgi, table, wanted,
                     losses>>
  BY DEF TakeFlag, ReadTable, IInv, Types, ConfigTypeOK
<1>2. Types'
  BY <1>1 DEF IInv, Types, ConfigTypeOK
<1>3. Handling' /\ Kept'
  BY <1>1 DEF IInv, Handling, Kept, RowsKept, RowsOf, IpKept, Asks, FlagKept, Pending, Active, At, Limits
<1>4. QED BY <1>2, <1>3 DEF IInv

LEMMA TableReadInv == ASSUME IInv, TableRead PROVE IInv'
<1> USE DEF ini, web
<1>1. /\ thread = "reading" /\ thread' = "clear" /\ known' \in {known, table}
      /\ UNCHANGED <<file, unseen, behind, overlap, dic, main, alarm_flag, update, cgi, table, wanted,
                     losses>>
  BY DEF TableRead
<1>2. Types'
  <2>1. known' \subseteq table
    BY <1>1 DEF IInv, Types, ConfigTypeOK
  <2>2. QED BY <1>1, <2>1 DEF IInv, Types, ConfigTypeOK
<1>3. Handling'
  BY <1>1 DEF IInv, Handling, At, Limits
<1>3a. Kept'
  <2>1. Pending' => Pending
    BY <1>1 DEF Pending, Active, Limits
  <2>2. FlagKept => FlagKept'
    BY <1>1, <2>1 DEF FlagKept, Active
  <2>3. (RowsKept => RowsKept') /\ (IpKept => IpKept')
    BY <1>1 DEF RowsKept, RowsOf, IpKept, Asks, Active, At, Limits
  <2>4. QED BY <1>1, <2>2, <2>3 DEF IInv, Kept
<1>4. QED BY <1>2, <1>3, <1>3a DEF IInv

LEMMA ClearInv == ASSUME IInv, Clear PROVE IInv'
<1> USE DEF web
<1>1. /\ thread = "clear" /\ thread' = "dump" /\ update' = FALSE /\ alarm_flag' = "0"
      /\ dic' = iniparser_set(dic, "flag", "0") /\ overlap' = (overlap \/ table # known)
      /\ UNCHANGED <<file, unseen, behind, main, known, cgi, table, wanted, losses>>
  BY DEF Clear
<1>2. /\ main = "freed" => dic' = dic
      /\ main # "freed" => dic' \in Files /\ \A v : HasIp(dic, v) => HasIp(dic', v)
  <2>1. CASE main = "freed"
    BY <1>1, <2>1 DEF IInv, Types, ConfigTypeOK, iniparser_set
  <2>2. CASE main # "freed"
    <3>1. dic \in Files /\ "flag" \in Keys /\ "0" \in Values
      BY <2>2 DEF IInv, Types, Keys, Values
    <3>2. QED BY <1>1, <2>2, <3>1, SetFacts
  <2>3. QED BY <2>1, <2>2
<1>3. Types'
  <2>1. overlap' \in BOOLEAN
    BY <1>1, Zenon
  <2>2. DOMAIN dic' \subseteq {"ip", "flag", "freed"} /\ (dic' = NoDic <=> main = "freed")
    BY <1>2, FileFacts DEF IInv, Types, ConfigTypeOK, Keys
  <2>3. update' \in BOOLEAN
    BY <1>1
  <2>4. QED BY <1>1, <1>2, <2>1, <2>2, <2>3 DEF IInv, Types, ConfigTypeOK
<1>4. Handling'
  BY <1>1 DEF IInv, Handling, At, Limits
<1>5. Kept'
  <2> SUFFICES ASSUME ~overlap' PROVE RowsKept' /\ IpKept' /\ FlagKept'
    BY DEF Kept
  <2>1. table = known /\ RowsKept /\ IpKept /\ FlagKept
    BY <1>1 DEF IInv, Kept
  <2>2. RowsKept' /\ FlagKept'
    BY <1>1, <2>1 DEF RowsKept, RowsOf, FlagKept, Pending, Active, Limits
  <2>3. IpKept'
    BY <1>1, <1>2, <2>1 DEF IpKept, Asks, Active, At, Limits
  <2>4. QED BY <2>2, <2>3
<1>6. QED BY <1>3, <1>4, <1>5 DEF IInv

LEMMA DumpOpensInv == ASSUME IInv, DumpOpens PROVE IInv'
<1> USE DEF web
<1>1. /\ thread' = "open" /\ file' = Empty /\ unseen' \in {unseen, TRUE}
      /\ overlap' = (overlap \/ "app" \in behind)
      /\ UNCHANGED <<behind, dic, main, alarm_flag, update, known, cgi, table, wanted, losses>>
  BY DEF DumpOpens, Truncate
<1>2. Types'
  <2>1. overlap' \in BOOLEAN
    BY <1>1, Zenon
  <2>2. file' \in Files /\ DOMAIN file' \subseteq {"ip", "flag"}
    BY <1>1, FirstFiles DEF Empty
  <2>3. QED BY <1>1, <2>1, <2>2 DEF IInv, Types, ConfigTypeOK
<1>3. Handling'
  BY <1>1 DEF IInv, Handling, At, Limits
<1>4. Kept'
  BY <1>1 DEF IInv, Kept, RowsKept, RowsOf, IpKept, Asks, FlagKept, Pending, Active, At, Limits
<1>5. QED BY <1>2, <1>3, <1>4 DEF IInv

LEMMA DumpClosesInv == ASSUME IInv, DumpCloses PROVE IInv'
<1> USE DEF web
<1>1. /\ thread' = "idle" /\ file' = (IF dic = NoDic THEN file ELSE dic)
      /\ unseen' \in {unseen, TRUE}
      /\ overlap' = (overlap \/ "app" \in behind \/ dic = NoDic)
      /\ behind' = ({"app"} \cup {q \in Requests : Active(q)}) \ {"app"}
      /\ UNCHANGED <<dic, main, alarm_flag, update, known, cgi, table, wanted, losses>>
  BY DEF DumpCloses, Store
<1>2. Types'
  <2>1. overlap' \in BOOLEAN
    BY <1>1, Zenon
  <2>2. file' \in Files /\ DOMAIN file' \subseteq {"ip", "flag"}
    BY <1>1, FileFacts DEF IInv, Types, ConfigTypeOK, Keys
  <2>3. unseen' \in BOOLEAN
    BY <1>1 DEF IInv, Types, ConfigTypeOK
  <2>4. QED BY <1>1, <2>1, <2>2, <2>3 DEF IInv, Types, ConfigTypeOK
<1>3. Handling'
  BY <1>1 DEF IInv, Handling, At, Limits
<1>4. Kept'
  <2> SUFFICES ASSUME ~overlap' PROVE RowsKept' /\ IpKept' /\ FlagKept'
    BY DEF Kept
  <2>1. "app" \notin behind /\ dic # NoDic /\ RowsKept /\ IpKept /\ FlagKept
    BY <1>1 DEF IInv, Kept
  <2>2. file' = dic /\ main # "freed" /\ dic \in Files
    BY <1>1, <2>1 DEF IInv, Types, ConfigTypeOK
  <2>3. RowsKept'
    BY <1>1, <2>1 DEF RowsKept, RowsOf, Active, Limits
  <2>4. HasIp(dic, wanted.ip) /\ dic # Empty
    BY <2>1, <2>2, FileFacts DEF IpKept
  <2>5. \A q \in Requests : Active(q)' => q \in behind'
    BY <1>1, ConfigAssumption DEF Active
  <2>6. IpKept'
    <3>1. HasIp(file', wanted'.ip) /\ HasIp(dic', wanted'.ip) /\ file' # Empty
      BY <1>1, <2>2, <2>4
    <3>2. QED BY <2>5, <3>1 DEF IpKept
  <2>7. FlagKept'
    BY <1>1, <2>1, <2>2, <2>5 DEF FlagKept, Pending, Active, Limits
  <2>8. QED BY <2>3, <2>6, <2>7
<1>5. QED BY <1>2, <1>3, <1>4 DEF IInv

LEMMA PowerLossInv == ASSUME IInv, PowerLoss PROVE IInv'
<1>1. /\ dic' = file /\ main' = "idle" /\ unseen' = FALSE /\ alarm_flag' = FlagOf(file)
      /\ thread' = "idle" /\ update' = TRUE /\ known' = {} /\ behind' = {}
      /\ overlap' = (overlap \/ file = Empty)
      /\ UNCHANGED <<file, table, wanted>>
  BY DEF PowerLoss
<1>2. \A r \in Requests :
         cgi'[r] = IF Active(r) THEN [cgi[r] EXCEPT !.pc = "done", !.tx = {}, !.copy = Empty]
                                ELSE cgi[r]
  BY DEF PowerLoss
<1>3. /\ cgi' \in [Requests -> Cgi]
      /\ \A r \in Requests : cgi'[r].tx \subseteq {r} \X Rows /\ ~Active(r)'
  <2>1. cgi' = [r \in Requests |-> cgi'[r]]
    BY DEF PowerLoss
  <2>2. ASSUME NEW r \in Requests
        PROVE  cgi'[r] \in Cgi /\ cgi'[r].tx \subseteq {r} \X Rows /\ ~Active(r)'
    <3>1. CASE Active(r)
      <4>1. cgi'[r] = [cgi[r] EXCEPT !.pc = "done", !.tx = {}, !.copy = Empty]
        BY <1>2, <3>1
      <4>2. cgi[r] \in Cgi /\ Empty \in Files
        BY FirstFiles DEF IInv, Types
      <4>3. cgi'[r] \in Cgi /\ cgi'[r].tx = {} /\ cgi'[r].pc = "done"
        BY <4>1, <4>2 DEF Cgi
      <4>4. QED BY <4>3 DEF Active
    <3>2. CASE ~Active(r)
      <4>1. cgi'[r] = cgi[r] /\ cgi[r] \in Cgi /\ cgi[r].tx \subseteq {r} \X Rows
        BY <1>2, <3>2 DEF IInv, Types, ConfigTypeOK
      <4>2. QED BY <3>2, <4>1 DEF Active
    <3>3. QED BY <3>1, <3>2
  <2>3. QED BY <2>1, <2>2
<1>4. Types'
  <2>1. overlap' \in BOOLEAN /\ unseen' \in BOOLEAN /\ update' \in BOOLEAN
    BY <1>1, Zenon
  <2>2. /\ dic' \in Files /\ dic' # NoDic /\ DOMAIN dic' \subseteq {"ip", "flag", "freed"}
        /\ alarm_flag' \in {"0", "1"}
    BY <1>1, FileFacts DEF IInv, Types, Keys
  <2>3. QED BY <1>1, <1>3, <2>1, <2>2 DEF IInv, Types, ConfigTypeOK
<1>5. Handling'
  BY <1>3 DEF Handling, At, Active
<1>6. Kept'
  <2> SUFFICES ASSUME ~overlap' PROVE RowsKept' /\ IpKept' /\ FlagKept'
    BY DEF Kept
  <2>1. file # Empty /\ RowsKept /\ IpKept
    BY <1>1 DEF IInv, Kept
  <2>2. RowsKept' /\ FlagKept'
    BY <1>1, <1>3, <2>1 DEF RowsKept, FlagKept, Pending
  <2>3. IpKept'
    BY <1>1, <1>3, <2>1 DEF IpKept
  <2>4. QED BY <2>2, <2>3
<1>7. QED BY <1>4, <1>5, <1>6 DEF IInv

----------------------------------------------------------------------------
\* Every step of ConfigFile keeps the invariant.
LEMMA ConfigNextInv == ASSUME IInv, [ConfigNext]_configVars PROVE IInv'
<1>1. CASE Main
  BY <1>1, ReloadInv, LoadInv, StatInv DEF Main
<1>2. CASE Thread
  BY <1>2, ThreadGoesOnInv, TableReadInv, ClearInv, DumpOpensInv, DumpClosesInv DEF Thread
<1>3. CASE PowerLoss
  BY <1>3, PowerLossInv
<1>4. ASSUME NEW r \in Requests, Start(r) \/ Request(r) PROVE IInv'
  BY <1>4, StartInv, UpdateInv, CommitInv, HandleInv, FinishInv DEF Request
<1>5. CASE UNCHANGED configVars
  BY <1>5 DEF configVars, IInv, Types, ConfigTypeOK, Handling, Kept, RowsKept, RowsOf, IpKept, Asks,
              FlagKept, Pending, Active, At, Limits
<1>6. QED BY <1>1, <1>2, <1>3, <1>4, <1>5 DEF ConfigNext

\* A setting or a change of the table stays where it will be read from, in every step.
THEOREM InductiveInvariant == ConfigSpec => []IInv
<1>1. ConfigInit => IInv
  BY InitInv
<1>2. IInv /\ [ConfigNext]_configVars => IInv'
  BY ConfigNextInv
<1>3. QED BY <1>1, <1>2, PTL DEF ConfigSpec

\* Types of the variables (preference.c, the handlers of main.c), for any requests and rows.
THEOREM TypeCorrect == ConfigSpec => []ConfigTypeOK
<1>1. IInv => ConfigTypeOK
  BY DEF IInv, Types
<1>2. QED BY <1>1, InductiveInvariant, PTL

\* dump_profile, preference_reload, execute_no_query: what a request has reported as set is in
\* file or table, and a change of the table keeps the flag that makes the thread read it, as
\* long as no two of them met in one of the windows that the code leaves open.
THEOREM NothingLost == ConfigSpec => []KeptWithoutOverlap
<1>1. IInv => KeptWithoutOverlap
  <2> SUFFICES ASSUME IInv, ~overlap, thread # "open", ~\E r \in Requests : At(r, "open")
               PROVE  /\ "ip" \in DOMAIN file /\ file["ip"] = wanted.ip
                      /\ wanted.rows \subseteq table
                      /\ table # known => \/ update \/ FlagOf(file) = "1" \/ alarm_flag = "1"
                                          \/ \E r \in Requests : Active(r)
    BY DEF KeptWithoutOverlap
  <2>1. file # Empty /\ RowsKept /\ IpKept /\ FlagKept
    BY DEF IInv, Kept, IpKept
  <2>2. QED BY <2>1 DEF RowsKept, IpKept, HasIp, FlagKept, Pending
<1>2. QED BY <1>1, InductiveInvariant, PTL

----------------------------------------------------------------------------
(***************************************************************************)
(* Side by side                                                            *)
(***************************************************************************)
\* Each of the five has its invariant, whichever of them runs.
ServicesIInv == IInv /\ DataIInv /\ DiIInv /\ SmtpIInv /\ ModemIInv

LEMMA ServicesInit == ASSUME Init PROVE ServicesIInv
<1>1. ConfigInit /\ DataInit /\ DiInit /\ SmtpInit /\ ModemInit
  BY DEF Init
<1>2. QED BY <1>1, InitInv, DataInitInv, DiInitInv, SmtpInitInv, ModemInitInv DEF ServicesIInv

\* A step is a step of one component, and for each of the others it changes nothing.
LEMMA StepOfOne ==
    ASSUME [Next]_vars
    PROVE  /\ [ConfigNext]_configVars /\ [DataNext]_dataVars /\ [DiNext]_diVars
           /\ [SmtpNext]_smtpVars /\ [ModemNext]_modemVars
<1>1. CASE UNCHANGED vars
  BY <1>1 DEF vars
<1>2. CASE service = "config" /\ ConfigNext /\ NotConfig
  BY <1>2 DEF NotConfig
<1>3. CASE service = "data" /\ DataNext /\ NotData
  BY <1>3 DEF NotData
<1>4. CASE service = "di" /\ DiNext /\ NotDi
  BY <1>4 DEF NotDi
<1>5. CASE service = "mail" /\ SmtpNext /\ NotMail
  BY <1>5 DEF NotMail
<1>6. CASE service = "sms" /\ ModemNext /\ NotSms
  BY <1>6 DEF NotSms
<1>7. QED BY <1>1, <1>2, <1>3, <1>4, <1>5, <1>6 DEF Next

\* Each component keeps its invariant in every behaviour of the composition.
THEOREM ServicesInductiveInvariant == Spec => []ServicesIInv
<1>1. Init => ServicesIInv
  BY ServicesInit
<1>2. ServicesIInv /\ [Next]_vars => ServicesIInv'
  <2> SUFFICES ASSUME ServicesIInv, [Next]_vars PROVE ServicesIInv'
    OBVIOUS
  <2>1. /\ [ConfigNext]_configVars /\ [DataNext]_dataVars /\ [DiNext]_diVars
        /\ [SmtpNext]_smtpVars /\ [ModemNext]_modemVars
    BY StepOfOne
  <2>2. IInv' /\ DataIInv' /\ DiIInv' /\ SmtpIInv' /\ ModemIInv'
    BY <2>1, ConfigNextInv, DataNextInv, DiNextInv, SmtpNextInv, ModemNextInv DEF ServicesIInv
  <2>3. QED BY <2>2 DEF ServicesIInv
<1>3. QED BY <1>1, <1>2, PTL DEF Spec

\* Types of the variables of the five components (preference.c and main.c, shm_object.c, di_thread.c,
\* smtp.c, modem.c), for any values of their constants: what services checks on one choice of them.
THEOREM ServicesTypeCorrect == Spec => []TypeOK
<1>1. ServicesIInv => TypeOK
  BY DEF ServicesIInv, IInv, Types, DataIInv, DiIInv, SmtpIInv, SmtpTypes, ModemIInv, ModemTypes, TypeOK
<1>2. QED BY <1>1, ServicesInductiveInvariant, PTL
=============================================================================
