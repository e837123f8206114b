--------------------------- MODULE ProducerConsumer ---------------------------
(***************************************************************************)
(* The producers and consumers of references/ProducerConsumer: a producer  *)
(* fills the empty queue of integers, a consumer drains the full one, each *)
(* once, and all of them wait on one condition variable.  The queue is a   *)
(* ring whose rear stays behind on the first element that enters it.       *)
(***************************************************************************)
EXTENDS Integers, Sequences

CONSTANTS Producers, Consumers,
          QSize    \* Q_DEFAULT_SIZE, 5 in the code

ASSUME ProducerConsumerAssumption ==
    Producers \cap Consumers = {} /\ QSize \in Nat \ {0}

PcThreads == Producers \cup Consumers

VARIABLES q,           \* Queue_t: elem (0 stands for NULL), front, rear, count
          q_mutex,     \* who holds it: nobody or one thread
          qpc,         \* where each thread is
          produced,    \* the static counter of new_int
          consumed     \* history: the integers taken from the queue, in order

pcVars == <<q, q_mutex, qpc, produced, consumed>>

\* initQ and the creation of the threads.
PcInit == /\ q = [elem |-> [n \in 0 .. QSize - 1 |-> 0], front |-> 0, rear |-> 0, count |-> 0]
          /\ q_mutex = {}
          /\ qpc = [w \in PcThreads |-> "locks"]
          /\ produced = 0
          /\ consumed = <<>>

is_queue_empty == q.count = 0
is_queue_full == q.count = QSize

After(n) == IF n = QSize - 1 THEN 0 ELSE n + 1

\* The caller has seen that the queue is not full.
enqueue(e) ==
    IF is_queue_empty THEN [q EXCEPT !.elem[q.front] = e, !.count = @ + 1]
    ELSE [q EXCEPT !.rear = After(@), !.elem[After(q.rear)] = e, !.count = @ + 1]

\* What is left in a queue that was not empty: the front stays on the last element.
deque == [q EXCEPT !.elem[q.front] = 0, !.count = @ - 1,
                   !.front = IF q.front = q.rear THEN @ ELSE After(@)]

\* The critical section starts, or the thread sleeps until somebody broadcasts; an
\* assertion that fails ends the program.
pc_enter(w, mustWait, asserted) ==
    /\ qpc[w] = "locks" /\ q_mutex = {}
    /\ \/ /\ mustWait
          /\ qpc' = [qpc EXCEPT ![w] = "asleep"] /\ UNCHANGED q_mutex
       \/ /\ ~mustWait /\ asserted
          /\ qpc' = [qpc EXCEPT ![w] = "works"] /\ q_mutex' = {w}
       \/ /\ ~mustWait /\ ~asserted
          /\ qpc' = [v \in PcThreads |-> "aborted"] /\ UNCHANGED q_mutex
    /\ UNCHANGED <<q, produced, consumed>>

\* Slip: one thread is woken instead of all of them.
pc_signal_one(w) ==
    /\ qpc[w] = "works"
    /\ LET sleepers == {v \in PcThreads : qpc[v] = "asleep"}
       IN  \/ sleepers = {} /\ qpc' = [qpc EXCEPT ![w] = "done"]
           \/ \E v \in sleepers : qpc' = [qpc EXCEPT ![w] = "done", ![v] = "locks"]
    /\ q_mutex' = {}
    /\ UNCHANGED <<q, produced, consumed>>

\* The broadcast and the unlock that follows it.
pc_leave(w) ==
    /\ qpc[w] = "works"
    /\ qpc' = [v \in PcThreads |-> IF v = w THEN "done"
                                 ELSE IF qpc[v] = "asleep" THEN "locks" ELSE qpc[v]]
    /\ q_mutex' = {}
    /\ UNCHANGED <<q, produced, consumed>>

\* The producer: waits while the queue is full, asserts that it is empty, fills it.
prod_fn(w) ==
    \/ pc_enter(w, is_queue_full, is_queue_empty)
    \/ /\ qpc[w] = "works" /\ ~is_queue_full
       /\ produced' = produced + 1
       /\ q' = enqueue(produced + 1)
       /\ UNCHANGED <<q_mutex, qpc, consumed>>
    \/ is_queue_full /\ pc_leave(w)

\* The consumer: waits while the queue is empty, asserts that it is full, drains it.
cons_fn(w) ==
    \/ pc_enter(w, is_queue_empty, is_queue_full)
    \/ /\ qpc[w] = "works" /\ ~is_queue_empty
       /\ consumed' = Append(consumed, q.elem[q.front])
       /\ q' = deque
       /\ UNCHANGED <<q_mutex, qpc, produced>>
    \/ is_queue_empty /\ pc_leave(w)

pc_spurious_wakeup(w) ==
    /\ qpc[w] = "asleep"
    /\ qpc' = [qpc EXCEPT ![w] = "locks"]
    /\ UNCHANGED <<q, q_mutex, produced, consumed>>

PcNext == \/ \E w \in Producers : prod_fn(w)
          \/ \E w \in Consumers : cons_fn(w)
          \/ \E w \in PcThreads : pc_spurious_wakeup(w)

PcSpec == PcInit /\ [][PcNext]_pcVars

\* A thread that can go on does.
PcFairness == /\ \A w \in Producers : WF_pcVars(prod_fn(w))
              /\ \A w \in Consumers : WF_pcVars(cons_fn(w))

----------------------------------------------------------------------------

\* With as many consumers as producers the program ends, no assertion having
\* failed, and the integers have come out of the ring one by one in the order in
\* which they went in.
PcHandsOverEverything ==
    <>(/\ \A w \in PcThreads : qpc[w] = "done"
       /\ consumed = [n \in 1 .. produced |-> n])
==============================================================================
