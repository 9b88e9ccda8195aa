------------------------------ MODULE BoundedFIFO ------------------------------
(***************************************************************************)
(* What a queue of the scheduler promises (interface queue of               *)
(* scheduling/queue.go): a sequence of at most Capacity requests, served in *)
(* the order in which they were accepted.  Its callers hold its lock, so an *)
(* operation is one step; ret is what it returns.                           *)
(***************************************************************************)
EXTENDS Naturals, Sequences

CONSTANTS Values,    \* the requests, *scheduledRequest
          Capacity,  \* the argument of NewFIFOQueue
          Nil        \* the nil request

VARIABLES queue, ret

fifo == <<queue, ret>>

Init == queue = <<>> /\ ret = <<"New", Nil>>

Enqueue(v) ==
    IF Len(queue) < Capacity
    THEN queue' = Append(queue, v) /\ ret' = <<"Enqueue", TRUE>>
    ELSE queue' = queue /\ ret' = <<"Enqueue", FALSE>>

Dequeue ==
    IF queue = <<>>
    THEN queue' = queue /\ ret' = <<"Dequeue", Nil>>
    ELSE queue' = Tail(queue) /\ ret' = <<"Dequeue", Head(queue)>>

Front ==
    /\ queue' = queue
    /\ ret' = <<"Front", IF queue = <<>> THEN Nil ELSE Head(queue)>>

Length == queue' = queue /\ ret' = <<"Len", Len(queue)>>

Next == Front \/ Length \/ Dequeue \/ \E v \in Values : Enqueue(v)

Spec == Init /\ [][Next]_fifo
================================================================================
