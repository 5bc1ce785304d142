----------------------------- MODULE AlarmBook -----------------------------
(***************************************************************************)
(* What an alarm thread promises those it sends alarms to: a book with at  *)
(* most one entry to an alarm.  An alarm that comes is entered in place of *)
(* its predecessor, or anew while there is room; in the round that follows *)
(* every entry that is new or due is sent once; an entry leaves with the   *)
(* last of its sends.                                                      *)
(***************************************************************************)
EXTENDS Integers, FiniteSets

CONSTANTS
    Keys,        \* the alarms
    Capacity,    \* the most that can wait
    SendTimes,   \* how often a new RAISE may be sent
    Again        \* how often one that comes again while its entry waits

VARIABLES
    book,        \* of each alarm that waits: its type, its sends left, when it was last sent
    todo         \* the alarms that this round has still to look at

vars == <<book, todo>>

Types    == {"RAISE", "DISCARD"}
Waiting  == DOMAIN book
Room     == Cardinality(Waiting) < Capacity
New(type, left) == [type |-> type, left |-> left, timing |-> "never"]

Init == book = [key \in {} |-> New("RAISE", Again)] /\ todo = {}

SendsOf(key, type) ==
    IF type = "DISCARD" THEN {1} ELSE IF key \in Waiting THEN {Again} ELSE SendTimes

Enter(key, entry) ==
    book' = [k \in Waiting \cup {key} |-> IF k = key THEN entry ELSE book[k]]

Take(key, type) ==
    /\ todo = {} /\ todo' = DOMAIN book'
    /\ IF key \in Waiting \/ Room
       THEN \E left \in SendsOf(key, type) : Enter(key, New(type, left))
       ELSE UNCHANGED book

TakeNothing == todo = {} /\ todo' = Waiting /\ UNCHANGED book

Strike(key) == book' = [k \in Waiting \ {key} |-> book[k]]

Send(key) ==
    IF book[key].left = 1
    THEN Strike(key)
    ELSE Enter(key, [book[key] EXCEPT !.left = @ - 1, !.timing = "recent"])

Settle(key) ==
    /\ key \in todo /\ todo' = todo \ {key}
    /\ IF book[key].timing = "recent" THEN UNCHANGED book ELSE Send(key)

ComesDue(key) ==
    /\ key \in Waiting /\ book[key].timing = "recent"
    /\ Enter(key, [book[key] EXCEPT !.timing = "due"])
    /\ UNCHANGED todo

Next ==
    \/ TakeNothing \/ \E key \in Keys, type \in Types : Take(key, type)
    \/ \E key \in Keys : Settle(key) \/ ComesDue(key)

Spec == Init /\ [][Next]_vars
=============================================================================
