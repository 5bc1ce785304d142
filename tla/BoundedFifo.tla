---------------------------- MODULE BoundedFifo ----------------------------
(***************************************************************************)
(* What a queue promises the threads that share it: elements leave in the  *)
(* order in which they came, a push is refused exactly when Capacity       *)
(* elements wait and a pop exactly when none does.                         *)
(***************************************************************************)
EXTENDS Integers, Sequences

CONSTANTS Data, NoData, Capacity

VARIABLES
    queue,     \* the elements that wait, oldest first
    last       \* the last call: what it was, what it returned, the element it gave

vars == <<queue, last>>

Call(op, ret, d) == [op |-> op, ret |-> ret, data |-> d]

Init == queue = <<>> /\ last = Call("create", 0, NoData)

Push(d) ==
    IF Len(queue) < Capacity
    THEN queue' = Append(queue, d) /\ last' = Call("push", 0, d)
    ELSE queue' = queue /\ last' = Call("push", -1, d)

Pop ==
    IF queue # <<>>
    THEN queue' = Tail(queue) /\ last' = Call("pop", 0, Head(queue))
    ELSE queue' = queue /\ last' = Call("pop", -1, NoData)

Next == (\E d \in Data : Push(d)) \/ Pop

Spec == Init /\ [][Next]_vars
=============================================================================
