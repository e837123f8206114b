------------------------------ MODULE WaitQueue ------------------------------
(***************************************************************************)
(* The wait queue of threadlib (wait_queue_t), as operators on its value.  *)
(* The construct that embeds a queue keeps it in a variable of its own and *)
(* runs these operators under its own mutex, as the library does with the  *)
(* application mutex it caches.                                            *)
(*                                                                         *)
(*   count   thread_wait_count                                             *)
(*   line    priority_wait_queue_head: the threads in insertion order (an  *)
(*           ordinary queue has no list; its line stays empty)             *)
(*   asleep  the threads inside pthread_cond_wait, not yet woken           *)
(*                                                                         *)
(* In a priority queue every thread sleeps on its own condition variable,  *)
(* in an ordinary one all of them share the queue's.                       *)
(***************************************************************************)
EXTENDS Integers, SequencesExt

wait_queue_init == [count |-> 0, line |-> <<>>, asleep |-> {}]

\* The waiting half of wait_queue_test_and_wait: the predicate said block.
\* The comparator of the library's users returns 1 always, so the priority
\* insertion is at the end.
block(wq, t, priority) ==
    [count  |-> wq.count + 1,
     line   |-> IF priority THEN Append(wq.line, t) ELSE wq.line,
     asleep |-> wq.asleep \cup {t}]

\* remove_glthread on the thread's own node; a node in no list is left alone.
unlink(line, t) ==
    IF \E i \in 1..Len(line) : line[i] = t
    THEN RemoveAt(line, CHOOSE i \in 1..Len(line) : line[i] = t)
    ELSE line

\* Slip: the thread that was first to be signalled stays in the line.
resume_in_line(wq, t) == [wq EXCEPT !.count = @ - 1]

\* pthread_cond_wait returned: the thread is counted out and unlinked, and
\* goes back to the predicate.
resume(wq, t) ==
    [count |-> wq.count - 1, line |-> unlink(wq.line, t), asleep |-> wq.asleep]

\* wait_queue_signal on a priority queue: the condition variable of the first
\* thread of the line is signalled.  The thread stays in the line until it
\* runs, so a second signal before that finds the same thread.
wait_queue_signal_priority(wq) ==
    IF wq.count = 0 \/ wq.line = <<>> THEN wq
    ELSE [wq EXCEPT !.asleep = @ \ {Head(wq.line)}]

wait_queue_broadcast(wq) == [wq EXCEPT !.asleep = {}]

\* pthread_cond_wait may return without a signal.
spurious(wq, t) == [wq EXCEPT !.asleep = @ \ {t}]
==============================================================================
