----------------------------- MODULE AgentQueue -----------------------------
(***************************************************************************)
(* What the email thread and the SNMP agent may rely on: a queue in which  *)
(* alarms wait in the order in which they were offered.  One is refused    *)
(* only when there is no place.  A writer that dies in a push costs a      *)
(* place for ever or leaves its alarm behind unannounced; the reader then  *)
(* stops one alarm short of the end.                                       *)
(***************************************************************************)
EXTENDS Integers, Sequences

CONSTANT Capacity

VARIABLES
    offers,            \* the alarms offered; each is known by its number
    queue, given,      \* those that wait, and those the reader took
    writer, reader,    \* how far the two have come
    lost, hidden       \* places nobody gives back; alarms that wait unannounced

vars == <<offers, queue, given, writer, reader, lost, hidden>>

Init ==
    /\ offers = 0 /\ queue = <<>> /\ given = <<>>
    /\ writer = "idle" /\ reader = "idle" /\ lost = 0 /\ hidden = 0

One(condition) == IF condition THEN 1 ELSE 0
InUse     == Len(queue) + lost + One(writer = "writing") + One(reader = "freeing")
Announced == Len(queue) - hidden - One(writer = "entered") - One(reader = "reading")

Offer ==
    /\ writer = "idle"
    /\ offers' = offers + 1
    /\ writer' = IF InUse < Capacity THEN "writing" ELSE "idle"
    /\ UNCHANGED <<queue, given, reader, lost, hidden>>

Enter ==
    /\ writer = "writing" /\ writer' = "entered"
    /\ queue' = Append(queue, offers)
    /\ UNCHANGED <<offers, given, reader, lost, hidden>>

Announce ==
    /\ writer = "entered" /\ writer' = "idle"
    /\ UNCHANGED <<offers, queue, given, reader, lost, hidden>>

Die ==
    /\ writer # "idle" /\ writer' = "idle"
    /\ lost'   = lost   + One(writer = "writing")
    /\ hidden' = hidden + One(writer = "entered")
    /\ UNCHANGED <<offers, queue, given, reader>>

Read ==
    /\ reader = "idle" /\ Announced > 0
    /\ reader' = "reading"
    /\ UNCHANGED <<offers, queue, given, writer, lost, hidden>>

Give ==
    /\ reader = "reading" /\ reader' = "freeing"
    /\ given' = Append(given, Head(queue)) /\ queue' = Tail(queue)
    /\ UNCHANGED <<offers, writer, lost, hidden>>

Free ==
    /\ reader = "freeing" /\ reader' = "idle"
    /\ UNCHANGED <<offers, queue, given, writer, lost, hidden>>

Next == Offer \/ Enter \/ Announce \/ Die \/ Read \/ Give \/ Free

Spec == Init /\ [][Next]_vars
=============================================================================
