------------------------------- MODULE FIFOQueue -------------------------------
(***************************************************************************)
(* The circular queue of client/src/scheduling/queue.go.  Indices start at  *)
(* 0 as in the code.  The queue is built by NewFIFOQueue with Capacity >= 1 *)
(* (it returns nil otherwise); a caller holds its lock around an operation. *)
(***************************************************************************)
EXTENDS Integers, Sequences

CONSTANTS Values,    \* the requests, *scheduledRequest
          Capacity,  \* the argument of NewFIFOQueue
          Nil        \* the nil request

ASSUME QueueAssumption ==
    /\ Capacity \in Nat \ {0}
    /\ Nil \notin Values

VARIABLES data, head, tail, size,
          ret        \* the last operation and the value it returned

vars == <<data, head, tail, size, ret>>

Indices == 0..(Capacity - 1)

TypeOK ==
    /\ data \in [Indices -> Values \cup {Nil}]
    /\ head \in Indices /\ tail \in Indices
    /\ size \in 0..Capacity

Init ==
    /\ data = [i \in Indices |-> Nil]
    /\ head = 0 /\ tail = 0 /\ size = 0
    /\ ret = <<"New", Nil>>

IsEmpty == size = 0

(* Mutant of IsFull: one request too many is accepted. *)
IsFullLate == size > Capacity

IsFull == size = Capacity

Enqueue(v) ==
    \/ /\ IsFull
       /\ ret' = <<"Enqueue", FALSE>>
       /\ UNCHANGED <<data, head, tail, size>>
    \/ /\ ~IsFull
       /\ data' = [data EXCEPT ![tail] = v]
       /\ tail' = (tail + 1) % Capacity
       /\ size' = size + 1
       /\ ret' = <<"Enqueue", TRUE>>
       /\ UNCHANGED head

(* Mutant of Dequeue: the successor of head is not taken modulo Capacity    *)
(* but modulo the number of requests.                                       *)
DequeueWrapsEarly ==
    \/ /\ IsEmpty
       /\ ret' = <<"Dequeue", Nil>>
       /\ UNCHANGED <<data, head, tail, size>>
    \/ /\ ~IsEmpty
       /\ ret' = <<"Dequeue", data[head]>>
       /\ head' = (head + 1) % size
       /\ size' = size - 1
       /\ UNCHANGED <<data, tail>>

Dequeue ==
    \/ /\ IsEmpty
       /\ ret' = <<"Dequeue", Nil>>
       /\ UNCHANGED <<data, head, tail, size>>
    \/ /\ ~IsEmpty
       /\ ret' = <<"Dequeue", data[head]>>
       /\ head' = (head + 1) % Capacity
       /\ size' = size - 1
       /\ UNCHANGED <<data, tail>>

Front ==
    /\ ret' = <<"Front", IF IsEmpty THEN Nil ELSE data[head]>>
    /\ UNCHANGED <<data, head, tail, size>>

Length ==
    /\ ret' = <<"Len", size>>
    /\ UNCHANGED <<data, head, tail, size>>

Next == Front \/ Length \/ Dequeue \/ \E v \in Values : Enqueue(v)

Spec == Init /\ [][Next]_vars

-----------------------------------------------------------------------------
(* The requests in the queue, oldest first. *)
Contents == [i \in 1..size |-> data[(head + i - 1) % Capacity]]

Abstract == INSTANCE BoundedFIFO WITH queue <- Contents

(* The circular queue implements a bounded FIFO queue: requests leave in    *)
(* the order in which they were accepted, one is refused exactly when       *)
(* Capacity are queued, and every value returned is that of the sequence,   *)
(* wherever the indices have wrapped.                                       *)
ImplementsFIFO == Abstract!Spec
================================================================================
