---------------------------- MODULE FIFOQueueProofs ----------------------------
(***************************************************************************)
(* The circular queue implements the bounded FIFO queue for every capacity  *)
(* and every set of requests.  The inductive invariant ties tail to head    *)
(* and size; the rest is arithmetic on indices modulo Capacity.             *)
(***************************************************************************)
EXTENDS FIFOQueue, SequenceTheorems, TLAPS

(* tail is the slot after the last request. *)
TailFollows == tail = (head + size) % Capacity

Inv == TypeOK /\ TailFollows

Wrapped(x) == IF x < Capacity THEN x ELSE x - Capacity

(* An index computed by the queue needs at most one subtraction. *)
LEMMA Wrap ==
    ASSUME NEW x \in Int, 0 <= x, x < 2 * Capacity
    PROVE  x % Capacity = Wrapped(x)
<1>1. CASE x < Capacity
  BY <1>1, QueueAssumption DEF Wrapped
<1>2. CASE x >= Capacity
  BY <1>2, QueueAssumption DEF Wrapped
<1> QED
  BY <1>1, <1>2, QueueAssumption

-----------------------------------------------------------------------------
(* The inductive invariant. *)

LEMMA InitInv == Init => Inv
<1> SUFFICES ASSUME Init
             PROVE  Inv
  OBVIOUS
<1> USE QueueAssumption
<1>1. 0 % Capacity = 0
  OBVIOUS
<1> QED
  BY <1>1 DEF Init, Inv, TypeOK, TailFollows, Indices

LEMMA NextInv == Inv /\ [Next]_vars => Inv'
<1> SUFFICES ASSUME Inv, [Next]_vars
             PROVE  Inv'
  OBVIOUS
<1> USE QueueAssumption DEF Inv, TypeOK, TailFollows, Indices
<1>1. ASSUME NEW v \in Values, Enqueue(v)
      PROVE  Inv'
  <2>1. CASE IsFull
    BY <1>1, <2>1 DEF Enqueue
  <2>2. CASE ~IsFull
    <3>1. /\ data' = [data EXCEPT ![tail] = v]
          /\ tail' = (tail + 1) % Capacity
          /\ size' = size + 1 /\ head' = head
      BY <1>1, <2>2 DEF Enqueue
    <3>2. size' \in 0..Capacity /\ size < Capacity
      BY <2>2, <3>1 DEF IsFull
    <3>3. tail = Wrapped(head + size)
      BY <3>2, Wrap
    <3>4. tail' = Wrapped(tail + 1)
      BY <3>1, Wrap
    <3>5. (head + (size + 1)) % Capacity = Wrapped(head + (size + 1))
      BY <3>2, Wrap
    <3>6. Wrapped(tail + 1) = Wrapped(head + (size + 1)) /\ Wrapped(tail + 1) \in Indices
      BY <3>2, <3>3 DEF Wrapped
    <3> QED
      BY <3>1, <3>2, <3>4, <3>5, <3>6
  <2> QED
    BY <2>1, <2>2
<1>2. CASE Dequeue
  <2>1. CASE IsEmpty
    BY <1>2, <2>1 DEF Dequeue
  <2>2. CASE ~IsEmpty
    <3>1. /\ head' = (head + 1) % Capacity /\ size' = size - 1
          /\ data' = data /\ tail' = tail
      BY <1>2, <2>2 DEF Dequeue
    <3>2. size' \in 0..Capacity /\ size >= 1
      BY <2>2, <3>1 DEF IsEmpty
    <3>3. head' = Wrapped(head + 1)
      BY <3>1, Wrap
    <3>4. head' \in Indices
      BY <3>3 DEF Wrapped
    <3>5. tail = Wrapped(head + size)
      BY Wrap
    <3>6. (head' + size') % Capacity = Wrapped(head' + size')
      BY <3>2, <3>4, Wrap
    <3>7. Wrapped(head' + size') = Wrapped(head + size)
      BY <3>1, <3>2, <3>3 DEF Wrapped
    <3> QED
      BY <3>1, <3>2, <3>4, <3>5, <3>6, <3>7
  <2> QED
    BY <2>1, <2>2
<1>3. CASE Front \/ Length \/ UNCHANGED vars
  BY <1>3 DEF Front, Length, vars
<1> QED
  BY <1>1, <1>2, <1>3 DEF Next

(* The types of the queue: the indices stay inside the array. *)
THEOREM TypeCorrect == Spec => []TypeOK
<1>1. Inv => TypeOK
  BY DEF Inv
<1> QED
  BY <1>1, InitInv, NextInv, PTL DEF Spec

-----------------------------------------------------------------------------
(* The sequence the array stands for. *)

(* The slot of the i-th request. *)
Slot(i) == Wrapped(head + i - 1)

LEMMA ContentsIsSeq ==
    ASSUME Inv
    PROVE  /\ Contents = [i \in 1..size |-> data[Slot(i)]]
           /\ \A i \in 1..size : Slot(i) \in Indices
           /\ Contents \in Seq(Values \cup {Nil})
           /\ Len(Contents) = size
           /\ (Contents = <<>>) <=> (size = 0)
           /\ size > 0 => Head(Contents) = data[head]
<1> USE QueueAssumption DEF Inv, TypeOK, Indices
<1>1. ASSUME NEW i \in 1..size
      PROVE  (head + i - 1) % Capacity = Slot(i) /\ Slot(i) \in Indices
  <2>1. head + i - 1 \in Int /\ 0 <= head + i - 1 /\ head + i - 1 < 2 * Capacity
    OBVIOUS
  <2>2. (head + i - 1) % Capacity = Wrapped(head + i - 1)
    BY <2>1, Wrap
  <2>3. Slot(i) \in Indices
    BY <2>1 DEF Slot, Wrapped
  <2> QED
    BY <2>2, <2>3 DEF Slot
<1>2. Contents = [i \in 1..size |-> data[Slot(i)]]
  BY <1>1 DEF Contents
<1>3. \A i \in 1..size : data[Slot(i)] \in Values \cup {Nil}
  BY <1>1
<1>4. Contents \in Seq(Values \cup {Nil}) /\ Len(Contents) = size
  BY <1>2, <1>3
<1>5. Contents = <<>> <=> size = 0
  BY <1>4
<1>6. ASSUME size > 0
      PROVE  Head(Contents) = data[head]
  <2>1. Slot(1) = head
    BY DEF Slot, Wrapped
  <2>2. Contents[1] = data[head]
    BY <1>2, <1>6, <2>1
  <2> QED
    BY <1>4, <1>5, <1>6, <2>2
<1> QED
  BY <1>1, <1>2, <1>4, <1>5, <1>6

(* An accepted request goes to a slot that is not in use. *)
LEMMA EnqueueAppends ==
    ASSUME Inv, Inv', NEW v \in Values, Enqueue(v), ~IsFull
    PROVE  Contents' = Append(Contents, v)
<1> USE QueueAssumption DEF Inv, TypeOK, Indices
<1>1. /\ data' = [data EXCEPT ![tail] = v]
      /\ size' = size + 1 /\ head' = head
      /\ size # Capacity
  BY DEF Enqueue, IsFull
<1>2. size < Capacity /\ tail = Wrapped(head + size)
  BY <1>1, Wrap DEF TailFollows
<1>3. Contents' = [i \in 1..(size + 1) |-> data'[Slot(i)]]
  <2>1. \A i \in 1..(size + 1) : (head + i - 1) % Capacity = Slot(i)
    BY <1>2, Wrap DEF Slot
  <2> QED
    BY <1>1, <2>1 DEF Contents
<1>4. \A i \in 1..size : Slot(i) # tail
  BY <1>2 DEF Slot, Wrapped
<1>5. Slot(size + 1) = tail
  BY <1>2 DEF Slot, Wrapped
<1>6. \A i \in 1..size : data'[Slot(i)] = Contents[i]
  BY <1>1, <1>4, ContentsIsSeq
<1>7. data'[Slot(size + 1)] = v
  BY <1>1, <1>5
<1>8. Append(Contents, v) = [i \in 1..(size + 1) |-> IF i = size + 1 THEN v ELSE Contents[i]]
  BY ContentsIsSeq
<1>9. \A i \in 1..(size + 1) : data'[Slot(i)] = IF i = size + 1 THEN v ELSE Contents[i]
  BY <1>6, <1>7
<1> QED
  BY <1>3, <1>8, <1>9

LEMMA SeqIsFunction ==
    ASSUME NEW S, NEW q \in Seq(S)
    PROVE  q = [i \in 1..Len(q) |-> q[i]]
  OBVIOUS

LEMMA TailShifts ==
    ASSUME NEW S, NEW q \in Seq(S), q # <<>>
    PROVE  Tail(q) = [i \in 1..(Len(q) - 1) |-> q[i + 1]]
<1>1. /\ Tail(q) \in Seq(S) /\ Len(Tail(q)) = Len(q) - 1
      /\ \A i \in 1..Len(Tail(q)) : Tail(q)[i] = q[i + 1]
  BY HeadTailProperties
<1>2. Tail(q) = [i \in 1..Len(Tail(q)) |-> Tail(q)[i]]
  BY <1>1, SeqIsFunction
<1> QED
  BY <1>1, <1>2

(* The next request is in the slot after head. *)
LEMMA DequeueTakesTail ==
    ASSUME Inv, Inv', Dequeue, ~IsEmpty
    PROVE  Contents' = Tail(Contents)
<1> USE QueueAssumption DEF Inv, TypeOK, Indices
<1>1. /\ head' = (head + 1) % Capacity
      /\ size' = size - 1 /\ data' = data /\ size > 0
  BY DEF Dequeue, IsEmpty
<1>2. head' = Wrapped(head + 1)
  BY <1>1, Wrap
<1>3. \A i \in 1..(size - 1) : Slot(i)' = Slot(i + 1)
  BY <1>2 DEF Slot, Wrapped
<1>4. Contents' = [i \in 1..(size - 1) |-> data[Slot(i)']]
  <2>1. head' \in Indices
    BY <1>2 DEF Wrapped
  <2>2. \A i \in 1..(size - 1) : (head' + i - 1) % Capacity = Slot(i)'
    BY <1>1, <2>1, Wrap DEF Slot
  <2> QED
    BY <1>1, <2>2 DEF Contents
<1>5. Tail(Contents) = [i \in 1..(size - 1) |-> Contents[i + 1]]
  <2>1. Contents \in Seq(Values \cup {Nil}) /\ Contents # <<>> /\ Len(Contents) = size
    BY <1>1, ContentsIsSeq
  <2> QED
    BY <2>1, TailShifts
<1>6. \A i \in 1..(size - 1) : Contents[i + 1] = data[Slot(i + 1)]
  <2>1. ASSUME NEW i \in 1..(size - 1)
        PROVE  i + 1 \in 1..size
    OBVIOUS
  <2> QED
    BY <2>1, ContentsIsSeq
<1> QED
  BY <1>3, <1>4, <1>5, <1>6

-----------------------------------------------------------------------------
(* Every step of the circular queue is a step of the bounded FIFO queue     *)
(* under the mapping Contents, or leaves it unchanged.                      *)
LEMMA StepRefines ==
    ASSUME Inv, Inv', [Next]_vars
    PROVE  [Abstract!Next]_(Abstract!fifo)
<1> USE QueueAssumption DEF Abstract!fifo, Abstract!Next
<1>1. ASSUME NEW v \in Values, Enqueue(v)
      PROVE  Abstract!Enqueue(v)
  <2>1. CASE IsFull
    <3>1. Len(Contents) = Capacity
      BY <2>1, ContentsIsSeq DEF IsFull
    <3>2. Contents' = Contents /\ ret' = <<"Enqueue", FALSE>>
      BY <1>1, <2>1 DEF Enqueue, Contents
    <3> QED
      BY <3>1, <3>2 DEF Abstract!Enqueue
  <2>2. CASE ~IsFull
    <3>1. Len(Contents) < Capacity
      BY <2>2, ContentsIsSeq DEF IsFull, Inv, TypeOK
    <3>2. Contents' = Append(Contents, v) /\ ret' = <<"Enqueue", TRUE>>
      BY <1>1, <2>2, EnqueueAppends DEF Enqueue
    <3> QED
      BY <3>1, <3>2 DEF Abstract!Enqueue
  <2> QED
    BY <2>1, <2>2
<1>2. CASE Dequeue
  <2>1. CASE IsEmpty
    <3>1. Contents' = Contents /\ ret' = <<"Dequeue", Nil>>
      BY <1>2, <2>1 DEF Dequeue, Contents
    <3> QED
      BY <2>1, <3>1, ContentsIsSeq DEF IsEmpty, Abstract!Dequeue
  <2>2. CASE ~IsEmpty
    <3>1. Contents # <<>> /\ Head(Contents) = data[head]
      BY <2>2, ContentsIsSeq DEF IsEmpty, Inv, TypeOK
    <3>2. Contents' = Tail(Contents) /\ ret' = <<"Dequeue", data[head]>>
      BY <1>2, <2>2, DequeueTakesTail DEF Dequeue
    <3> QED
      BY <3>1, <3>2 DEF Abstract!Dequeue
  <2> QED
    BY <1>2, <2>1, <2>2
<1>3. CASE Front
  <2>1. Contents' = Contents
    BY <1>3 DEF Front, Contents
  <2> QED
    BY <1>3, <2>1, ContentsIsSeq DEF Front, IsEmpty, Inv, TypeOK, Abstract!Front
<1>4. CASE Length
  <2>1. Contents' = Contents
    BY <1>4 DEF Length, Contents
  <2> QED
    BY <1>4, <2>1, ContentsIsSeq DEF Length, Abstract!Length
<1>5. CASE UNCHANGED vars
  BY <1>5 DEF vars, Contents
<1> QED
  BY <1>1, <1>2, <1>3, <1>4, <1>5 DEF Next

(* The circular queue implements the bounded FIFO queue. *)
THEOREM QueueImplementsFIFO == Spec => ImplementsFIFO
<1>1. Init => Abstract!Init
  BY DEF Init, Abstract!Init, Contents
<1>2. Inv /\ Inv' /\ [Next]_vars => [Abstract!Next]_(Abstract!fifo)
  BY StepRefines
<1> QED
  BY <1>1, <1>2, InitInv, NextInv, PTL DEF Spec, ImplementsFIFO, Abstract!Spec
================================================================================
