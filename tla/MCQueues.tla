------------------------------- MODULE MCQueues -------------------------------
(***************************************************************************)
(* The three queues of snmp_app that hold a fixed number of elements, each *)
(* with the abstract queue or book that it implements: the ring between    *)
(* two threads, the list between snmp_app and the SNMP agent, the alarms   *)
(* inside an alarm thread.  They share no variable: a behaviour is a       *)
(* behaviour of one of them, and the others stay as they begin.            *)
(***************************************************************************)
EXTENDS RingBuffer, LfQueue, SendQueue

VARIABLES used         \* the queue that is used

vars == <<used, ringVars, lfVars, sendVars>>

Init == used \in {"ring", "list", "alarms"} /\ RingInit /\ LfInit /\ SendInit

\* Beyond the bound on pushes the list is not used any more.
ListAtBound == pushes = MaxPush /\ UNCHANGED lfVars

Next == \/ used = "ring"   /\ RingNext                 /\ UNCHANGED <<used, lfVars, sendVars>>
        \/ used = "list"   /\ (LfNext \/ ListAtBound)  /\ UNCHANGED <<used, ringVars, sendVars>>
        \/ used = "alarms" /\ SendNext                 /\ UNCHANGED <<used, ringVars, lfVars>>

\* The users of each queue, when it is the one that is used: a push that has begun goes on and
\* the agent polls; the alarm thread goes round, whether or not alarms come, and time passes.
Run(which, A) == used = which /\ A
Fairness ==
    /\ \A p \in Producers : WF_lfVars(Run("list", PushGoesOn(p)))
    /\ \A c \in Consumers : WF_lfVars(Run("list", PopStep(c)))
    /\ WF_sendVars(Run("alarms", Round))
    /\ \A i \in Slots : WF_sendVars(Run("alarms", TimePasses(i)))
Spec == Init /\ [][Next]_vars /\ Fairness

----------------------------------------------------------------------------
\* The type invariants of the queues.
TypeOK == RingTypeOK /\ LfTypeOK /\ SendTypeOK
=============================================================================
