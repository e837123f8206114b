------------------------------ MODULE FifoQueue ------------------------------
(***************************************************************************)
(* Fifo_Queue.c: a circular buffer that is filled from its last index      *)
(* downwards.  rear and front name the youngest and the oldest element;    *)
(* both stay where they are when the last element is taken.                *)
(***************************************************************************)
EXTENDS Integers, Sequences

\* NULL; the elements are positive numbers.
Null == 0

Fifo_initQ(size) == [elem |-> [k \in 0..size-1 |-> Null], size |-> size,
                     front |-> size - 1, rear |-> size - 1, count |-> 0]

is_queue_full(q) == q.count = q.size

\* The index after k, going round.
Below(q, k) == IF k = 0 THEN q.size - 1 ELSE k - 1

Fifo_enqueue(q, ptr) ==
    LET rear == IF q.count = 0 THEN q.rear ELSE Below(q, q.rear)
    IN  IF is_queue_full(q) THEN q
        ELSE [q EXCEPT !.elem[rear] = ptr, !.rear = rear, !.count = @ + 1]

\* Slip: front goes on also when the last element is taken.
deque_goes_on(q) ==
    IF q.count = 0 THEN q
    ELSE [q EXCEPT !.elem[q.front] = Null, !.front = Below(q, @), !.count = @ - 1]

\* The queue without its oldest element, and that element.
Fifo_deque(q) ==
    IF q.count = 0 THEN q
    ELSE [q EXCEPT !.elem[q.front] = Null, !.count = @ - 1,
                   !.front = IF q.front = q.rear THEN @ ELSE Below(q, @)]

Oldest(q) == IF q.count = 0 THEN Null ELSE q.elem[q.front]

\* What the buffer stands for, the oldest element first.
Contents(q) == [k \in 1..q.count |-> q.elem[(q.front - (k - 1)) % q.size]]
==============================================================================
