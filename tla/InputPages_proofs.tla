--------------------------- MODULE InputPages_proofs ---------------------------
(***************************************************************************)
(* The digital inputs: their alarms match (DiPoll), for any number of inputs *)
(* and any levels; and the page they are shown in is read whole (RealData), *)
(* for any number of elements, pages and CGI processes.                    *)
(***************************************************************************)
EXTENDS RealData, DiPoll, TLAPS

(***************************************************************************)
(* The page in shared memory                                               *)
(***************************************************************************)
Inside(p) == pc[p] \in {"copy", "v"}

\* Who is between semaphore_p and semaphore_v holds the semaphore, and nobody does as long
\* as its creator has still to set it.
Exclusion ==
    /\ \A p \in Processes : Inside(p) <=> holder = p
    /\ holder # Nobody => sem = 0
    /\ \A p \in Processes : pc[p] = "setval" => sem = 0 /\ holder = Nobody
    /\ \A p, q \in Processes : pc[p] = "setval" /\ pc[q] = "setval" => p = q
    /\ sem = NoSem => \A p \in Processes : pc[p] = "semaphore"

\* Who is past get_shm has a segment, and a segment that nobody created holds nothing.
Attached ==
    /\ \A p \in Processes :
          pc[p] \in {"memset", "work", "p", "copy", "v", "use"} => segment # NoSegment
    /\ segment = NoSegment => put = Zero

\* How far the page has come into the segment, and the segment to a reader.
PutSoFar ==
    spoilt # "again" =>
        /\ pc["di"] = "copy" => \A n \in Index : n < k["di"] => segment[n] = page[n]
        /\ pc["di"] = "v"    => \A n \in Index : segment[n] = page[n]
SegmentIsPut ==
    spoilt = "no" /\ ~Inside("di") /\ segment # NoSegment => \A n \in Index : segment[n] = put[n]
GotSoFar ==
    spoilt = "no" =>
        \A p \in Readers :
            /\ pc[p] = "copy" => \A n \in Index : n < k[p] => copy[p][n] = put[n]
            /\ pc[p] = "v"    => \A n \in Index : copy[p][n] = put[n]

Contents == PutSoFar /\ SegmentIsPut /\ GotSoFar

DataIInv == DataTypeOK /\ Exclusion /\ Attached /\ Contents

LEMMA PageNames ==
    /\ "di" \in Processes /\ "beep" \in Processes /\ Nobody \notin Processes
    /\ Readers = Processes \ {"di"}
    /\ N \in Nat \ {0}
    /\ Zero \in [Index -> {0, 1}]
    /\ \A s \in [Index -> {0, 1}] : s # NoSegment
<1>1. /\ "di" \in Processes /\ "beep" \in Processes /\ Nobody \notin Processes
      /\ Readers = Processes \ {"di"} /\ N \in Nat \ {0}
  BY DataAssumption DEF Processes, App, Readers, Nobody
<1>2. Zero \in [Index -> {0, 1}]
  BY DEF Zero
<1>3. ASSUME NEW s \in [Index -> {0, 1}] PROVE s # NoSegment
  <2>1. 1 \in DOMAIN s
    BY <1>1 DEF Index
  <2>2. DOMAIN NoSegment = {}
    BY DEF NoSegment
  <2>3. QED BY <2>1, <2>2
<1>4. QED BY <1>1, <1>2, <1>3

LEMMA DataInitInv == DataInit => DataIInv
<1> SUFFICES ASSUME DataInit PROVE DataIInv
  OBVIOUS
<1>1. DataTypeOK
  <2>1. /\ pc \in [Processes -> {"semaphore", "setval", "attach", "create", "memset", "work",
                                 "p", "copy", "v", "use"}]
        /\ k \in [Processes -> Index] /\ copy \in [Readers -> [Index -> {0, 1}]]
    BY PageNames DEF DataInit, Index
  <2>2. QED BY <2>1, PageNames DEF DataInit, DataTypeOK
<1>2. Exclusion
  BY PageNames DEF DataInit, Exclusion, Inside
<1>3. Attached
  BY DEF DataInit, Attached
<1>4. Contents
  BY PageNames DEF DataInit, Contents, PutSoFar, SegmentIsPut, GotSoFar
<1>5. QED BY <1>1, <1>2, <1>3, <1>4 DEF DataIInv

\* semaphore_create and set_semvalue.
LEMMA SemaphoreInv ==
    ASSUME DataIInv, NEW p \in Processes,
           semaphore_create(p) \/ set_semvalue(p)
    PROVE  DataIInv'
<1>1. DataTypeOK'
  BY DEF DataIInv, DataTypeOK, semaphore_create, Semget, set_semvalue, MoveTo, beeper
<1>2. Exclusion'
  <2>1. CASE semaphore_create(p)
    BY <2>1, PageNames DEF DataIInv, DataTypeOK, Exclusion, Inside, semaphore_create, Semget, MoveTo, NoSem
  <2>2. CASE set_semvalue(p)
    BY <2>2, PageNames DEF DataIInv, DataTypeOK, Exclusion, Inside, set_semvalue, MoveTo, NoSem
  <2>3. QED BY <2>1, <2>2
<1>3. Attached'
  BY DEF DataIInv, DataTypeOK, Attached, semaphore_create, Semget, set_semvalue, MoveTo
<1>4. Contents'
  BY PageNames DEF DataIInv, DataTypeOK, Contents, PutSoFar, SegmentIsPut, GotSoFar, Inside,
               semaphore_create, Semget, set_semvalue, MoveTo
<1>5. QED BY <1>1, <1>2, <1>3, <1>4 DEF DataIInv

\* get_shm and the memset of a new segment.
LEMMA AttachInv ==
    ASSUME DataIInv, NEW p \in Processes, Attach(p) \/ Create(p)
    PROVE  DataIInv'
<1>1. DataTypeOK'
  BY PageNames DEF DataIInv, DataTypeOK, Attach, Create, MoveTo, beeper, shared
<1>2. Exclusion'
  <2>1. /\ sem' = sem /\ holder' = holder
        /\ \A q \in Processes : pc'[q] = IF q = p THEN pc'[p] ELSE pc[q]
        /\ pc[p] \in {"attach", "create"} /\ pc'[p] \in {"create", "work", "memset"}
    BY DEF DataIInv, DataTypeOK, Attach, Create, MoveTo, shared
  <2>2. QED BY <2>1, PageNames DEF DataIInv, Exclusion, Inside
<1>3. Attached'
  BY PageNames DEF DataIInv, DataTypeOK, Attached, Attach, Create, MoveTo, shared
<1>4. Contents'
  <2>1. CASE Attach(p)
    BY <2>1, PageNames DEF DataIInv, DataTypeOK, Contents, PutSoFar, SegmentIsPut, GotSoFar, Inside,
                       Attach, MoveTo, shared
  <2>2. CASE Create(p)
    <3>1. PutSoFar' /\ GotSoFar'
      BY <2>2, PageNames DEF DataIInv, DataTypeOK, Attached, Contents, PutSoFar, GotSoFar, Create, MoveTo
    <3>2. SegmentIsPut'
      BY <2>2, PageNames DEF DataIInv, DataTypeOK, Attached, Contents, SegmentIsPut, Inside, Create, MoveTo
    <3>3. QED BY <3>1, <3>2 DEF Contents
  <2>3. QED BY <2>1, <2>2
<1>5. QED BY <1>1, <1>2, <1>3, <1>4 DEF DataIInv

LEMMA MemsetInv ==
    ASSUME DataIInv, NEW p \in Processes, Memset(p) PROVE DataIInv'
<1>1. DataTypeOK'
  BY PageNames DEF DataIInv, DataTypeOK, Memset, MoveTo, beeper
<1>2. Exclusion'
  BY PageNames DEF DataIInv, DataTypeOK, Exclusion, Inside, Memset, MoveTo
<1>3. Attached'
  BY PageNames DEF DataIInv, DataTypeOK, Attached, Memset, MoveTo
<1>4. \A q \in Processes : pc'[q] \in {"copy", "v"} => pc'[q] = pc[q] /\ q # p
  BY DEF DataIInv, DataTypeOK, Memset, MoveTo
<1>5. PutSoFar'
  BY <1>4, PageNames DEF PutSoFar, Memset
<1>6. SegmentIsPut'
  BY <1>4, PageNames DEF DataIInv, DataTypeOK, SegmentIsPut, Inside, Memset, MoveTo, Zero
<1>7. GotSoFar'
  BY <1>4, PageNames DEF DataIInv, Contents, GotSoFar, Memset
<1>8. QED BY <1>1, <1>2, <1>3, <1>5, <1>6, <1>7 DEF DataIInv, Contents

LEMMA PInv ==
    ASSUME DataIInv, NEW p \in Processes, semaphore_p(p) PROVE DataIInv'
<1>1. DataTypeOK'
  BY PageNames DEF DataIInv, DataTypeOK, semaphore_p, MoveTo, beeper, NoSem, Index
<1>2. sem = 1 /\ sem' = 0 /\ holder = Nobody
  BY DEF DataIInv, DataTypeOK, Exclusion, semaphore_p, NoSem
<1>3. Exclusion'
  BY <1>2, PageNames DEF DataIInv, DataTypeOK, Exclusion, Inside, semaphore_p, MoveTo, NoSem
<1>4. Attached'
  BY DEF DataIInv, DataTypeOK, Attached, semaphore_p, MoveTo
<1>5. Contents'
  <2>1. \A q \in Processes : /\ q # p => pc'[q] = pc[q] /\ k'[q] = k[q]
                             /\ q = p => pc'[q] = "copy" /\ k'[q] = 1 /\ pc[q] \notin {"copy", "v"}
    BY DEF DataIInv, DataTypeOK, semaphore_p, MoveTo
  <2>2. \A n \in Index : ~(n < 1)
    BY DEF Index
  <2>3. QED BY <2>1, <2>2, PageNames DEF DataIInv, Contents, PutSoFar, SegmentIsPut, GotSoFar, Inside,
                                     semaphore_p
<1>6. QED BY <1>1, <1>3, <1>4, <1>5 DEF DataIInv

\* memcpy, of shm_put and of shm_get.
LEMMA CopyInv ==
    ASSUME DataIInv, NEW p \in Processes, Copy(p) PROVE DataIInv'
<1>1. segment \in [Index -> {0, 1}] /\ pc[p] = "copy" /\ holder = p /\ k[p] \in Index
  BY DEF DataIInv, DataTypeOK, Attached, Exclusion, Inside, Copy
<1>2. /\ pc' \in [Processes -> {"semaphore", "setval", "attach", "create", "memset", "work",
                                "p", "copy", "v", "use"}]
      /\ k' \in [Processes -> Index]
      /\ \A q \in Processes \ {p} : pc'[q] = pc[q] /\ k'[q] = k[q]
      /\ \/ k[p] < N /\ pc'[p] = "copy" /\ k'[p] = k[p] + 1
         \/ k[p] = N /\ pc'[p] = "v" /\ k'[p] = 1
  <2>1. N \in Nat /\ k[p] \in 1..N /\ pc[p] = "copy"
    BY <1>1, PageNames DEF Index
  <2>2. CASE k[p] < N
    <3>1. k[p] + 1 \in Index
      BY <2>1, <2>2 DEF Index
    <3>2. k' = [k EXCEPT ![p] = k[p] + 1] /\ pc' = pc
      BY <2>2 DEF Copy
    <3>3. QED BY <2>1, <2>2, <3>1, <3>2 DEF DataIInv, DataTypeOK
  <2>3. CASE ~(k[p] < N)
    <3>1. k[p] = N /\ 1 \in Index
      BY <2>1, <2>3 DEF Index
    <3>2. k' = [k EXCEPT ![p] = 1] /\ pc' = [pc EXCEPT ![p] = "v"]
      BY <2>3 DEF Copy, MoveTo
    <3>3. QED BY <3>1, <3>2 DEF DataIInv, DataTypeOK
  <2>4. QED BY <2>2, <2>3
<1>3. \A q \in Processes \ {p} : ~Inside(q) /\ ~Inside(q)'
  BY <1>1, <1>2 DEF DataIInv, Exclusion, Inside
<1>4. DataTypeOK'
  <2>1. CASE p = "di"
    <3>1. segment' \in [Index -> {0, 1}] /\ copy' = copy
      BY <1>1, <2>1 DEF DataIInv, DataTypeOK, Copy
    <3>2. QED BY <1>2, <3>1 DEF DataIInv, DataTypeOK, Copy, beeper
  <2>2. CASE p # "di"
    <3>1. copy' \in [Readers -> [Index -> {0, 1}]] /\ segment' = segment
      BY <1>1, <2>2, PageNames DEF DataIInv, DataTypeOK, Copy
    <3>2. QED BY <1>2, <3>1 DEF DataIInv, DataTypeOK, Copy, beeper
  <2>3. QED BY <2>1, <2>2
<1>5. Exclusion'
  BY <1>1, <1>2 DEF DataIInv, Exclusion, Inside, Copy, NoSem
<1>6. Attached'
  BY <1>1, <1>2, <1>4, PageNames DEF DataIInv, DataTypeOK, Attached, Copy
<1>7. CASE p = "di"
  <2>1. \A n \in Index : segment'[n] = IF n = k[p] THEN page[n] ELSE segment[n]
    BY <1>1, <1>7 DEF Copy
  <2>2. page' = page /\ spoilt' = spoilt
    BY DEF Copy
  <2>3. PutSoFar'
    BY <1>1, <1>2, <1>7, <2>1, <2>2, DataAssumption DEF DataIInv, Contents, PutSoFar, Index
  <2>4. SegmentIsPut' /\ GotSoFar'
    BY <1>2, <1>3, <1>7, PageNames DEF SegmentIsPut, GotSoFar, Inside
  <2>5. QED BY <1>4, <1>5, <1>6, <2>3, <2>4 DEF DataIInv, Contents
<1>8. CASE p # "di"
  <2>1. /\ \A n \in Index : copy'[p][n] = IF n = k[p] THEN segment[n] ELSE copy[p][n]
        /\ segment' = segment /\ put' = put /\ spoilt' = spoilt
    BY <1>1, <1>8, PageNames DEF DataIInv, DataTypeOK, Copy
  <2>2. spoilt = "no" => \A n \in Index : segment[n] = put[n]
    BY <1>1, <1>3, <1>8, PageNames DEF DataIInv, Contents, SegmentIsPut
  <2> DEFINE got(n) == copy'[p][n] = put[n]
  <2>3. spoilt = "no" => \A n \in Index : n < k[p] \/ n = k[p] => got(n)
    <3>1. spoilt = "no" => \A n \in Index : n < k[p] => copy[p][n] = put[n]
      BY <1>1, <1>8, PageNames DEF DataIInv, Contents, GotSoFar
    <3>2. QED BY <2>1, <2>2, <3>1
  <2> HIDE DEF got
  <2>4. /\ spoilt = "no" /\ pc'[p] = "copy" => \A n \in Index : n < k'[p] => got(n)
        /\ spoilt = "no" /\ pc'[p] = "v" => \A n \in Index : got(n)
    <3>1. N \in Nat /\ k[p] \in 1..N
      BY <1>1, PageNames DEF Index
    <3>2. QED BY <1>2, <2>3, <3>1 DEF Index
  <2>5. GotSoFar'
    BY <1>3, <2>1, <2>4, PageNames DEF GotSoFar, Inside, got
  <2>6. PutSoFar' /\ SegmentIsPut'
    BY <1>2, <1>3, <1>8, <2>1, <2>2, PageNames DEF PutSoFar, SegmentIsPut, Inside
  <2>7. QED BY <1>4, <1>5, <1>6, <2>5, <2>6 DEF DataIInv, Contents
<1>9. QED BY <1>7, <1>8

LEMMA VInv ==
    ASSUME DataIInv, NEW p \in Processes, semaphore_v(p) PROVE DataIInv'
<1>1. pc[p] = "v" /\ holder = p /\ sem = 0
  BY PageNames DEF DataIInv, Exclusion, Inside, semaphore_v
<1>2. /\ \A q \in Processes \ {p} : pc'[q] = pc[q] /\ ~Inside(q)
      /\ pc'[p] \in {"work", "use"}
  BY <1>1 DEF DataIInv, DataTypeOK, Exclusion, Inside, semaphore_v, MoveTo
<1>3. DataTypeOK'
  BY <1>1 DEF DataIInv, DataTypeOK, semaphore_v, MoveTo, beeper
<1>4. Exclusion'
  BY <1>1, <1>2, PageNames DEF DataIInv, Exclusion, Inside, semaphore_v, NoSem
<1>5. Attached'
  BY <1>1, <1>2 DEF DataIInv, Attached, semaphore_v
<1>6. PutSoFar' /\ GotSoFar'
  BY <1>2, PageNames DEF PutSoFar, GotSoFar, Inside
<1>7. SegmentIsPut'
  BY <1>1, <1>2, PageNames DEF DataIInv, DataTypeOK, Contents, PutSoFar, SegmentIsPut, Inside, semaphore_v
<1>8. QED BY <1>3, <1>4, <1>5, <1>6, <1>7 DEF DataIInv, Contents

\* The steps outside the semaphore: a pass, the beeper, its settings and an answer.
LEMMA OutsideInv ==
    ASSUME DataIInv,
           Poll \/ Beep \/ ChangeBeep \/ \E p \in Queries : Answer(p)
    PROVE  DataIInv'
<1>1. \A q \in Processes :
         /\ pc'[q] = pc[q] \/ (pc[q] \in {"work", "use"} /\ pc'[q] \in {"p", "work", "semaphore"})
         /\ Inside(q) \/ Inside(q)' => pc'[q] = pc[q] /\ (q \in Readers => copy'[q] = copy[q])
  BY PageNames DEF DataIInv, DataTypeOK, Inside, Poll, Beep, ChangeBeep, Answer, MoveTo, Processes
<1>2. /\ sem' = sem /\ holder' = holder /\ segment' = segment /\ put' = put
      /\ spoilt' = spoilt /\ k' = k
      /\ Inside("di") => page' = page
  BY DEF Poll, Beep, ChangeBeep, Answer, shared, Inside
<1>3. DataTypeOK'
  <2>1. CASE Poll
    BY <2>1, PageNames, DataAssumption DEF DataIInv, DataTypeOK, Poll, MoveTo, shared, beeper, Index
  <2>2. CASE Beep
    <3>1. out' \in {0, 1} /\ last_value' \in {0, 1} /\ unset' \in BOOLEAN
      BY <2>2 DEF DataIInv, DataTypeOK, Beep, Drive
    <3>2. QED BY <2>2, <3>1, PageNames DEF DataIInv, DataTypeOK, Beep, MoveTo, shared
  <2>3. CASE ChangeBeep
    BY <2>3 DEF DataIInv, DataTypeOK, ChangeBeep, shared
  <2>4. CASE \E p \in Queries : Answer(p)
    <3>1. PICK p \in Queries : Answer(p)
      BY <2>4
    <3>2. /\ pc' \in [Processes -> {"semaphore", "setval", "attach", "create", "memset",
                                    "work", "p", "copy", "v", "use"}]
          /\ copy' \in [Readers -> [Index -> {0, 1}]]
      BY <3>1, PageNames DEF DataIInv, DataTypeOK, Answer, MoveTo
    <3>3. QED BY <3>1, <3>2 DEF DataIInv, DataTypeOK, Answer, shared, beeper
  <2>5. QED BY <2>1, <2>2, <2>3, <2>4
<1>4. Exclusion'
  BY <1>1, <1>2 DEF DataIInv, Exclusion, Inside
<1>5. Attached'
  BY <1>1, <1>2 DEF DataIInv, Attached
<1>6. Contents'
  BY <1>1, <1>2, PageNames DEF DataIInv, Contents, PutSoFar, SegmentIsPut, GotSoFar, Inside
<1>7. QED BY <1>3, <1>4, <1>5, <1>6 DEF DataIInv

\* A process dies, and SEM_UNDO gives back what it held.
LEMMA DeathInv ==
    ASSUME DataIInv, AppDies \/ \E p \in Queries : Kill(p) PROVE DataIInv'
<1>1. PICK dead \in SUBSET Processes :
         /\ Undo(dead)
         /\ pc' = [q \in Processes |-> IF q \in dead THEN "semaphore" ELSE pc[q]]
         /\ \A q \in Processes \ dead : k'[q] = k[q] /\ (q \in Readers => copy'[q] = copy[q])
         /\ "di" \in dead => spoilt' = IF Inside("di") THEN "yes" ELSE spoilt
         /\ "di" \notin dead => spoilt' = spoilt /\ page' = page
         /\ segment' = segment /\ put' = put
  <2>1. CASE AppDies
    <3>1. App \subseteq Processes /\ "di" \in App
      BY DEF App, Processes
    <3>2. \A q \in Processes \ App : k'[q] = k[q] /\ (q \in Readers => copy'[q] = copy[q])
      BY <2>1 DEF AppDies, DataIInv, DataTypeOK, App
    <3>3. QED BY <2>1, <3>1, <3>2 DEF AppDies, Inside
  <2>2. ASSUME NEW p \in Queries, Kill(p)
        PROVE  /\ Undo({p})
               /\ pc' = [q \in Processes |-> IF q \in {p} THEN "semaphore" ELSE pc[q]]
               /\ \A q \in Processes \ {p} : k'[q] = k[q] /\ (q \in Readers => copy'[q] = copy[q])
               /\ "di" \notin {p} /\ {p} \in SUBSET Processes
               /\ spoilt' = spoilt /\ page' = page /\ segment' = segment /\ put' = put
    BY <2>2, DataAssumption DEF Kill, MoveTo, DataIInv, DataTypeOK, Processes
  <2>3. QED BY <2>1, <2>2
<1>2. DataTypeOK'
  <2>1. /\ pc' \in [Processes -> {"semaphore", "setval", "attach", "create", "memset", "work",
                                  "p", "copy", "v", "use"}]
        /\ sem' \in {NoSem, 0, 1} /\ holder' \in Processes \cup {Nobody}
    <3>1. holder \in dead => sem = 0
      BY PageNames DEF DataIInv, Exclusion
    <3>2. QED BY <1>1, <3>1 DEF DataIInv, DataTypeOK, Undo
  <2>2. CASE AppDies
    <3>1. k' \in [Processes -> Index] /\ copy' \in [Readers -> [Index -> {0, 1}]]
      BY <2>2, PageNames DEF AppDies, DataIInv, DataTypeOK, Index
    <3>2. out' \in {0, 1} /\ last_value' \in {0, 1} /\ unset' \in BOOLEAN
      BY <2>2 DEF AppDies, Drive, DataIInv, DataTypeOK
    <3>3. QED BY <1>1, <2>1, <2>2, <3>1, <3>2, PageNames DEF AppDies, DataIInv, DataTypeOK
  <2>3. CASE \E p \in Queries : Kill(p)
    <3>1. PICK p \in Queries : Kill(p)
      BY <2>3
    <3>2. 1 \in Index
      BY PageNames DEF Index
    <3>3. k' \in [Processes -> Index] /\ copy' \in [Readers -> [Index -> {0, 1}]]
      BY <3>1, <3>2, PageNames DEF Kill, DataIInv, DataTypeOK
    <3>4. QED BY <1>1, <2>1, <3>1, <3>3 DEF Kill, beeper, DataIInv, DataTypeOK
  <2>4. QED BY <2>2, <2>3
<1>3. \A q \in Processes :
         /\ pc'[q] = IF q \in dead THEN "semaphore" ELSE pc[q]
         /\ Inside(q)' <=> q \notin dead /\ Inside(q)
  BY <1>1 DEF Inside
<1>4. Exclusion'
  <2>1. CASE holder \in dead
    <3>1. sem = 0 /\ sem' = 1 /\ holder' = Nobody /\ holder # Nobody
      BY <1>1, <2>1, PageNames DEF Undo, DataIInv, Exclusion
    <3>2. QED BY <1>3, <2>1, <3>1, PageNames DEF DataIInv, Exclusion, NoSem
  <2>2. CASE holder \notin dead
    BY <1>1, <1>3, <2>2 DEF Undo, DataIInv, Exclusion, NoSem
  <2>3. QED BY <2>1, <2>2
<1>5. Attached'
  BY <1>1, <1>3 DEF DataIInv, Attached
<1>6. PutSoFar'
  BY <1>1, <1>3, PageNames DEF DataIInv, Contents, PutSoFar, Inside
<1>7. SegmentIsPut' /\ GotSoFar'
  BY <1>1, <1>3, PageNames DEF DataIInv, Contents, SegmentIsPut, GotSoFar, Inside
<1>8. QED BY <1>2, <1>4, <1>5, <1>6, <1>7 DEF DataIInv, Contents

----------------------------------------------------------------------------
\* Every step of RealData keeps the invariant.
LEMMA DataNextInv == ASSUME DataIInv, [DataNext]_dataVars PROVE DataIInv'
<1>1. ASSUME NEW p \in Processes, Share(p) PROVE DataIInv'
  BY <1>1, SemaphoreInv, AttachInv, MemsetInv, CopyInv, VInv DEF Share
<1>2. ASSUME NEW p \in Processes, semaphore_p(p) PROVE DataIInv'
  BY <1>2, PInv
<1>3. CASE Poll \/ Beep \/ ChangeBeep \/ \E p \in Queries : Answer(p)
  BY <1>3, OutsideInv
<1>4. CASE AppDies \/ \E p \in Queries : Kill(p)
  BY <1>4, DeathInv
<1>5. CASE dataVars' = dataVars
  <2>1. DataTypeOK' /\ Exclusion' /\ Attached'
    BY <1>5 DEF dataVars, DataIInv, DataTypeOK, Exclusion, Attached, Inside
  <2>2. Contents'
    BY <1>5 DEF dataVars, DataIInv, Contents, PutSoFar, SegmentIsPut, GotSoFar, Inside
  <2>3. QED BY <2>1, <2>2 DEF DataIInv
<1>6. QED BY <1>1, <1>2, <1>3, <1>4, <1>5 DEF DataNext

\* The invariant is inductive, for any number of elements and CGI processes.
THEOREM DataInductiveInvariant == DataSpec => []DataIInv
<1>1. DataInit => DataIInv
  BY DataInitInv
<1>2. DataIInv /\ [DataNext]_dataVars => DataIInv'
  BY DataNextInv
<1>3. QED BY <1>1, <1>2, PTL DEF DataSpec

\* Types of the variables.
THEOREM DataTypeCorrect == DataSpec => []DataTypeOK
<1>1. DataIInv => DataTypeOK
  BY DEF DataIInv
<1>2. QED BY <1>1, DataInductiveInvariant, PTL

\* Two processes are never between semaphore_p and semaphore_v at a time, whoever creates the
\* semaphore, dies and is undone.
OneInside == \A p, q \in Processes : Inside(p) /\ Inside(q) => p = q
THEOREM MutualExclusion == DataSpec => []OneInside
<1>1. DataIInv => OneInside
  BY DEF DataIInv, Exclusion, OneInside
<1>2. QED BY <1>1, DataInductiveInvariant, PTL

\* What a reader takes under the semaphore is one page as it was put, for any number of
\* elements, pages and CGI processes.
THEOREM ReadsWholeCopies == DataSpec => []WholeCopies
<1>1. DataIInv => WholeCopies
  <2> SUFFICES ASSUME DataIInv, NEW p \in Readers, pc[p] = "v", spoilt = "no" PROVE copy[p] = put
    BY DEF WholeCopies
  <2>1. copy[p] \in [Index -> {0, 1}] /\ put \in [Index -> {0, 1}]
    BY DEF DataIInv, DataTypeOK
  <2>2. \A n \in Index : copy[p][n] = put[n]
    BY DEF DataIInv, Contents, GotSoFar
  <2>3. QED BY <2>1, <2>2
<1>2. QED BY <1>1, DataInductiveInvariant, PTL

----------------------------------------------------------------------------
(***************************************************************************)
(* The alarms of the inputs                                                *)
(***************************************************************************)
\* DiAlarmsMatch is inductive but for the flag: it is cleared at the end of a pass, and by
\* then the levels were read, or the pass missed a change, or its query was refused.
FlagWasSeen == passing /\ update_di_param_flag => level = di_cfg \/ missed

DiIInv == DiTypeOK /\ DiAlarmsMatch /\ FlagWasSeen

\* No input is beyond its level when its level is 2, "none".
LEMMA LevelsAreLevels ==
    ASSUME NEW l \in Levels \cup {NeverRead}, NEW n \in Inputs PROVE l[n] \in 0..2
BY DiAssumption DEF Inputs, NeverRead

LEMMA DiInitInv == DiInit => DiIInv
<1> SUFFICES ASSUME DiInit PROVE DiIInv
  OBVIOUS
<1>1. DiTypeOK
  <2>1. /\ alarm_status \in [Inputs -> BOOLEAN] /\ raised \in [Inputs -> BOOLEAN]
        /\ alarm_type \in [Inputs -> 0..2]
    BY DEF DiInit
  <2>2. missed \in BOOLEAN
    BY DEF DiInit
  <2>3. QED BY <2>1, <2>2 DEF DiInit, DiTypeOK
<1>2. DiAlarmsMatch /\ FlagWasSeen
  BY DEF DiInit, DiAlarmsMatch, FlagWasSeen
<1>3. QED BY <1>1, <1>2 DEF DiIInv

LEMMA PassInv ==
    ASSUME DiIInv, Pass PROVE DiIInv'
<1>1. PICK value \in [Inputs -> {0, 1}], noRecord \in SUBSET Inputs, noAlarm \in SUBSET Inputs :
        LET on(n)   == value[n] = level'[n]
            turned  == {n \in Inputs : on(n) # alarm_status[n]}
            latches == turned \ noRecord
        IN  /\ alarm_status' = [n \in Inputs |-> IF n \in latches
                                                THEN Latched(alarm_status[n], on(n))
                                                ELSE alarm_status[n]]
            /\ raised' = [n \in Inputs |-> IF n \in latches \ noAlarm THEN on(n)
                                                                     ELSE raised[n]]
            /\ lost' = (lost \ latches) \cup (latches \cap noAlarm)
            /\ refused' = turned \cap noRecord
            /\ update_di_realdata(value)
  BY DEF Pass
<1> DEFINE on(n)   == value[n] = level'[n]
           turned  == {n \in Inputs : on(n) # alarm_status[n]}
           latches == turned \ noRecord
<1>2. /\ alarm_status' = [n \in Inputs |-> IF n \in latches THEN on(n) ELSE alarm_status[n]]
      /\ raised' = [n \in Inputs |-> IF n \in latches \ noAlarm THEN on(n) ELSE raised[n]]
      /\ lost' = (lost \ latches) \cup (latches \cap noAlarm)
      /\ refused' = turned \cap noRecord
  BY <1>1 DEF Latched
<1>3. alarm_type' = [n \in Inputs |-> IF level'[n] = 2 THEN 2
                                     ELSE IF value[n] = level'[n] THEN 1 ELSE 0]
  BY <1>1 DEF update_di_realdata
<1>4. /\ IF update_di_param_flag THEN update_di_param ELSE level' = level /\ missed' = missed
      /\ passing' = TRUE /\ di_cfg' = di_cfg /\ di_alarm_flag' = di_alarm_flag
      /\ update_di_param_flag' = update_di_param_flag
      /\ restarts' = restarts /\ ~passing
  BY DEF Pass
<1>5. level' \in Levels \cup {NeverRead} /\ missed' \in BOOLEAN
  BY <1>4 DEF DiIInv, DiTypeOK, update_di_param
<1>6. DiTypeOK'
  <2>1. alarm_status' \in [Inputs -> BOOLEAN] /\ raised' \in [Inputs -> BOOLEAN]
    BY <1>2 DEF DiIInv, DiTypeOK
  <2>2. alarm_type' \in [Inputs -> 0..2]
    BY <1>3
  <2>3. lost' \subseteq Inputs /\ refused' \subseteq Inputs
    BY <1>2 DEF DiIInv, DiTypeOK
  <2>4. QED BY <1>4, <1>5, <2>1, <2>2, <2>3 DEF DiIInv, DiTypeOK
<1>7. ASSUME NEW n \in Inputs
      PROVE  (alarm_type'[n] = 1) = alarm_status'[n] \/ n \in refused'
  <2>1. (alarm_type'[n] = 1) <=> on(n)
    BY <1>3, <1>5, LevelsAreLevels
  <2>2. alarm_status[n] \in BOOLEAN /\ alarm_status'[n] \in BOOLEAN
    BY <1>6 DEF DiIInv, DiTypeOK
  <2>3. CASE n \in latches
    BY <1>2, <2>1, <2>2, <2>3
  <2>4. CASE n \in turned \cap noRecord
    BY <1>2, <2>4
  <2>5. CASE n \notin turned
    <3>1. alarm_status'[n] = alarm_status[n] /\ on(n) = alarm_status[n]
      BY <1>2, <2>2, <2>5
    <3>2. QED BY <3>1, <2>1, <2>2
  <2>6. QED BY <2>3, <2>4, <2>5
<1>8. ASSUME NEW n \in Inputs PROVE alarm_status'[n] = raised'[n] \/ n \in lost'
  BY <1>2 DEF DiIInv, DiAlarmsMatch
<1>9. level' = di_cfg' \/ di_alarm_flag' \/ missed' \/ (update_di_param_flag' /\ ~passing')
  <2>1. CASE update_di_param_flag
    BY <1>4, <2>1 DEF update_di_param
  <2>2. CASE ~update_di_param_flag
    BY <1>4, <2>2 DEF DiIInv, DiAlarmsMatch
  <2>3. QED BY <2>1, <2>2
<1>10. FlagWasSeen'
  BY <1>4 DEF FlagWasSeen, update_di_param
<1>11. QED BY <1>6, <1>7, <1>8, <1>9, <1>10 DEF DiIInv, DiAlarmsMatch

LEMMA PassEndsInv == ASSUME DiIInv, PassEnds PROVE DiIInv'
<1>1. DiTypeOK'
  BY DEF DiIInv, DiTypeOK, PassEnds, TakeOrClear
<1>2. DiAlarmsMatch' /\ FlagWasSeen'
  BY DEF DiIInv, DiTypeOK, DiAlarmsMatch, FlagWasSeen, PassEnds, TakeOrClear
<1>3. QED BY <1>1, <1>2 DEF DiIInv

LEMMA ChangeLevelInv == ASSUME DiIInv, ChangeLevel PROVE DiIInv'
<1>1. DiTypeOK'
  BY DEF DiIInv, DiTypeOK, ChangeLevel
<1>2. DiAlarmsMatch' /\ FlagWasSeen'
  BY DEF DiIInv, DiAlarmsMatch, FlagWasSeen, ChangeLevel
<1>3. QED BY <1>1, <1>2 DEF DiIInv

LEMMA RestartInv == ASSUME DiIInv, Restart PROVE DiIInv'
<1>1. DiTypeOK'
  <2>1. alarm_status' \in [Inputs -> BOOLEAN] /\ alarm_type' \in [Inputs -> 0..2]
    BY DEF Restart
  <2>2. level' \in Levels \cup {NeverRead} /\ missed' \in BOOLEAN
    BY DEF DiIInv, DiTypeOK, Restart, FirstRead
  <2>3. QED BY <2>1, <2>2 DEF DiIInv, DiTypeOK, Restart
<1>2. DiAlarmsMatch' /\ FlagWasSeen'
  BY DEF DiIInv, DiAlarmsMatch, FlagWasSeen, Restart, FirstRead
<1>3. QED BY <1>1, <1>2 DEF DiIInv

\* Every step of DiPoll keeps the invariant.
LEMMA DiNextInv == ASSUME DiIInv, [DiNext]_diVars PROVE DiIInv'
<1>1. CASE Pass
  BY <1>1, PassInv
<1>2. CASE PassEnds
  BY <1>2, PassEndsInv
<1>3. CASE ChangeLevel
  BY <1>3, ChangeLevelInv
<1>4. CASE Restart
  BY <1>4, RestartInv
<1>5. CASE diVars' = diVars
  BY <1>5 DEF diVars, DiIInv, DiTypeOK, DiAlarmsMatch, FlagWasSeen, Inputs, NeverRead
<1>6. QED BY <1>1, <1>2, <1>3, <1>4, <1>5 DEF DiNext

\* The invariant is inductive, for any number of inputs and any levels a user may set.
THEOREM DiInductiveInvariant == DiSpec => []DiIInv
<1>1. DiInit => DiIInv
  BY DiInitInv
<1>2. DiIInv /\ [DiNext]_diVars => DiIInv'
  BY DiNextInv
<1>3. QED BY <1>1, <1>2, PTL DEF DiSpec

\* Types of the variables.
THEOREM DiTypeCorrect == DiSpec => []DiTypeOK
<1>1. DiIInv => DiTypeOK
  BY DEF DiIInv
<1>2. QED BY <1>1, DiInductiveInvariant, PTL

\* What the page shows, what is latched and what the notifiers were offered last agree, for
\* any number of inputs, whatever finds no block, whenever the levels change and whichever
\* query for them is refused.
THEOREM AlarmsMatch == DiSpec => []DiAlarmsMatch
<1>1. DiIInv => DiAlarmsMatch
  BY DEF DiIInv
<1>2. QED BY <1>1, DiInductiveInvariant, PTL
================================================================================
