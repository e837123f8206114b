--------------------------- MODULE FirstAssemblyLine ---------------------------
(***************************************************************************)
(* AssemblyLine/asl.c, the first assembly line, with the chain of stages   *)
(* of its test: every stage has a queue and a worker, who counts itself out*)
(* of operation when its queue is empty and in again when it is woken, and *)
(* hands an object on by queueing it at the next stage.  The destroyer     *)
(* stops new objects, waits until no worker is in operation, then cancels  *)
(* and joins the workers from the last stage to the first.                 *)
(*                                                                         *)
(* A worker notices a cancellation in its wait and where it prints.  There *)
(* is no cleanup handler: who ends in the wait has got the mutex of its    *)
(* queue back and keeps it, and nobody can queue anything there any more.  *)
(***************************************************************************)
EXTENDS Integers, SequencesExt

CONSTANTS FaStages, FaCars     \* how many stages the chain has, how many cars go in

ASSUME FirstLineAssumption == FaStages \in Nat \ {0} /\ FaCars \in Nat

Chain == 1 .. FaStages

VARIABLES object_queue,      \* object_queue[s]: the objects queued at stage s
          fa_worker,         \* "looking", "asleep", "woken", "working", "handing";
                             \* "dead" in its wait, with q_mutex, or "ended" where it
                             \* printed; "astray" in a freed stage
          fa_object,         \* the object the worker has, or 0
          fa_cancelled,      \* the workers that were cancelled
          fa_freed,          \* the stages that were freed
          n_workers_in_operation, accept_new_object,
          emitted,
          fa_next,           \* the next car main queues
          fa_main, fa_stray  \* fa_stray: a freed stage was used

faStage == <<object_queue, fa_worker, fa_object, emitted, fa_stray>>
faVars == <<faStage, fa_cancelled, fa_freed, n_workers_in_operation, accept_new_object, fa_next, fa_main>>

asl_create_new == accept_new_object = TRUE

\* asl_create_new_stage, for every stage of the chain: it waits until the worker
\* has counted itself in.
asl_create_new_stage == /\ object_queue = [s \in Chain |-> <<>>]
                        /\ fa_worker = [s \in Chain |-> "looking"]
                        /\ fa_object = [s \in Chain |-> 0]
                        /\ n_workers_in_operation = FaStages

\* main.
FaInit == /\ asl_create_new /\ asl_create_new_stage
          /\ fa_cancelled = {} /\ fa_freed = {}
          /\ emitted = <<>>
          /\ fa_next = 1 /\ fa_main = "queueing" /\ fa_stray = FALSE

-----------------------------------------------------------------------------
\* A woken worker counts itself in before it looks at its queue again.
worker_counts_in(s) ==
    /\ fa_worker[s] = "woken"
    /\ fa_worker' = [fa_worker EXCEPT ![s] = "looking"]
    /\ n_workers_in_operation' = n_workers_in_operation + 1
    /\ UNCHANGED <<object_queue, fa_object, fa_cancelled, fa_freed, accept_new_object,
                   emitted, fa_next, fa_main, fa_stray>>

\* Slip: the worker counts itself out and tells nobody.
looks_and_tells_nobody(s) ==
    /\ fa_worker[s] = "looking"
    /\ IF object_queue[s] = <<>>
       THEN /\ fa_worker' = [fa_worker EXCEPT ![s] = "asleep"]
            /\ n_workers_in_operation' = n_workers_in_operation - 1
            /\ UNCHANGED <<object_queue, fa_object>>
       ELSE /\ fa_worker' = [fa_worker EXCEPT ![s] = "working"]
            /\ fa_object' = [fa_object EXCEPT ![s] = Head(object_queue[s])]
            /\ object_queue' = [object_queue EXCEPT ![s] = Tail(@)]
            /\ UNCHANGED n_workers_in_operation
    /\ UNCHANGED <<fa_cancelled, fa_freed, accept_new_object, emitted, fa_next, fa_main, fa_stray>>

\* An empty queue sends the worker to sleep, out of operation, and tells a
\* destroyer that waits.
worker_looks(s) ==
    /\ fa_worker[s] = "looking"
    /\ IF object_queue[s] = <<>>
       THEN /\ fa_worker' = [fa_worker EXCEPT ![s] = "asleep"]
            /\ n_workers_in_operation' = n_workers_in_operation - 1
            /\ fa_main' = IF ~accept_new_object /\ fa_main = "waiting" THEN "told" ELSE fa_main
            /\ UNCHANGED <<object_queue, fa_object>>
       ELSE /\ fa_worker' = [fa_worker EXCEPT ![s] = "working"]
            /\ fa_object' = [fa_object EXCEPT ![s] = Head(object_queue[s])]
            /\ object_queue' = [object_queue EXCEPT ![s] = Tail(@)]
            /\ UNCHANGED <<n_workers_in_operation, fa_main>>
    /\ UNCHANGED <<fa_cancelled, fa_freed, accept_new_object, emitted, fa_next, fa_stray>>

\* It prints, and the work on the object is done.
worker_works(s) ==
    /\ fa_worker[s] = "working"
    /\ fa_worker' = [fa_worker EXCEPT ![s] = "handing"]
    /\ UNCHANGED <<object_queue, fa_object, fa_cancelled, fa_freed, n_workers_in_operation,
                   accept_new_object, emitted, fa_next, fa_main, fa_stray>>

\* Slip: the object is put first in the queue.
enqueue_first(s, o, worker) ==
    /\ fa_worker[s] # "dead"
    /\ object_queue' = [object_queue EXCEPT ![s] = <<o>> \o @]
    /\ fa_worker' = IF object_queue[s] = <<>> /\ worker[s] = "asleep"
                    THEN [worker EXCEPT ![s] = "woken"] ELSE worker

\* Slip: an idle worker is not signalled.
enqueue_quietly(s, o, worker) ==
    /\ fa_worker[s] # "dead"
    /\ object_queue' = [object_queue EXCEPT ![s] = Append(@, o)]
    /\ fa_worker' = worker

\* asl_stage_enqueue: who finds the queue empty signals the worker.  Nobody gets
\* by the mutex that a dead worker keeps.
asl_stage_enqueue(s, o, worker) ==
    /\ fa_worker[s] # "dead"
    /\ object_queue' = [object_queue EXCEPT ![s] = Append(@, o)]
    /\ fa_worker' = IF object_queue[s] = <<>> /\ worker[s] = "asleep"
                    THEN [worker EXCEPT ![s] = "woken"] ELSE worker

\* The object goes to the next stage.
worker_hands_on(s) ==
    /\ fa_worker[s] = "handing" /\ s < FaStages /\ s + 1 \notin fa_freed
    /\ fa_object' = [fa_object EXCEPT ![s] = 0]
    /\ asl_stage_enqueue(s + 1, fa_object[s], [fa_worker EXCEPT ![s] = "looking"])
    /\ UNCHANGED <<fa_cancelled, fa_freed, n_workers_in_operation, accept_new_object,
                   emitted, fa_next, fa_main, fa_stray>>

\* The next stage was freed: the object goes into what was its queue, or the
\* worker does not come back from there.
worker_goes_astray(s) ==
    /\ fa_worker[s] = "handing" /\ s + 1 \in fa_freed
    /\ \/ /\ fa_worker' = [fa_worker EXCEPT ![s] = "looking"]
          /\ fa_object' = [fa_object EXCEPT ![s] = 0]
          /\ object_queue' = [object_queue EXCEPT ![s + 1] = Append(@, fa_object[s])]
       \/ /\ fa_worker' = [fa_worker EXCEPT ![s] = "astray"]
          /\ UNCHANGED <<object_queue, fa_object>>
    /\ fa_stray' = TRUE
    /\ UNCHANGED <<fa_cancelled, fa_freed, n_workers_in_operation, accept_new_object,
                   emitted, fa_next, fa_main>>

\* asl_emit_cbk: the object leaves the line.
worker_emits(s) ==
    /\ fa_worker[s] = "handing" /\ s = FaStages
    /\ fa_worker' = [fa_worker EXCEPT ![s] = "looking"]
    /\ fa_object' = [fa_object EXCEPT ![s] = 0]
    /\ emitted' = Append(emitted, fa_object[s])
    /\ UNCHANGED <<object_queue, fa_cancelled, fa_freed, n_workers_in_operation,
                   accept_new_object, fa_next, fa_main, fa_stray>>

\* A cancelled worker dies in its wait, with the mutex, or ends where it prints:
\* before the work, and at the last stage also when it emits.  It is not counted
\* out.
worker_is_cancelled(s) ==
    /\ s \in fa_cancelled
    /\ \/ fa_worker[s] \in {"asleep", "woken"} /\ fa_worker' = [fa_worker EXCEPT ![s] = "dead"]
       \/ /\ fa_worker[s] = "working" \/ (fa_worker[s] = "handing" /\ s = FaStages)
          /\ fa_worker' = [fa_worker EXCEPT ![s] = "ended"]
    /\ UNCHANGED <<object_queue, fa_object, fa_cancelled, fa_freed, n_workers_in_operation,
                   accept_new_object, emitted, fa_next, fa_main, fa_stray>>

worker_thread_fn(s) ==
    \/ worker_counts_in(s) \/ worker_looks(s) \/ worker_works(s)
    \/ worker_hands_on(s) \/ worker_goes_astray(s) \/ worker_emits(s)
    \/ worker_is_cancelled(s)

fa_spurious_wakeup(s) ==
    /\ fa_worker[s] = "asleep" /\ s \notin fa_cancelled
    /\ fa_worker' = [fa_worker EXCEPT ![s] = "woken"]
    /\ UNCHANGED <<object_queue, fa_object, fa_cancelled, fa_freed, n_workers_in_operation,
                   accept_new_object, emitted, fa_next, fa_main, fa_stray>>

-----------------------------------------------------------------------------
\* main queues its cars at the root stage, then destroys the line.
asl_enqueue ==
    /\ fa_main = "queueing" /\ fa_next <= FaCars /\ accept_new_object
    /\ asl_stage_enqueue(1, fa_next, fa_worker)
    /\ fa_next' = fa_next + 1
    /\ UNCHANGED <<fa_object, fa_cancelled, fa_freed, n_workers_in_operation, accept_new_object,
                   emitted, fa_main, fa_stray>>

\* asl_destroy up to its wait, and when it is told.
asl_destroy ==
    /\ \/ fa_main = "queueing" /\ fa_next > FaCars
       \/ fa_main = "told"
    /\ accept_new_object' = FALSE
    /\ fa_main' = IF n_workers_in_operation > 0 THEN "waiting" ELSE "cleaning"
    /\ UNCHANGED <<faStage, fa_cancelled, fa_freed, n_workers_in_operation, fa_next>>

\* asl_stage_cleanup, on the last stage that is left: cancel its worker, join
\* it and free the stage.  A mutex that is kept is not destroyed, and nobody
\* looks at that.
asl_stage_cleanup(s) ==
    /\ fa_main = "cleaning" /\ fa_freed = s + 1 .. FaStages
    /\ \/ s \notin fa_cancelled /\ fa_cancelled' = fa_cancelled \cup {s} /\ UNCHANGED fa_freed
       \/ fa_worker[s] \in {"dead", "ended"} /\ fa_freed' = fa_freed \cup {s} /\ UNCHANGED fa_cancelled
    /\ UNCHANGED <<faStage, n_workers_in_operation, accept_new_object, fa_next, fa_main>>

\* The assertion at the end of asl_destroy.
fa_assert_idle ==
    /\ fa_main = "cleaning" /\ fa_freed = Chain
    /\ fa_main' = IF n_workers_in_operation = 0 THEN "done" ELSE "aborted"
    /\ UNCHANGED <<faStage, fa_cancelled, fa_freed, n_workers_in_operation, accept_new_object, fa_next>>

fa_main_fn == asl_enqueue \/ asl_destroy \/ (\E s \in Chain : asl_stage_cleanup(s)) \/ fa_assert_idle

FaNext == fa_main_fn \/ \E s \in Chain : worker_thread_fn(s) \/ fa_spurious_wakeup(s)

FaSpec == FaInit /\ [][FaNext]_faVars

\* Every thread runs, and there are not for ever spurious wake-ups, which could
\* keep an idle line in operation.
FaFairness == /\ \A s \in Chain : /\ WF_faVars(worker_thread_fn(s))
                                 /\ WF_faVars(worker_is_cancelled(s))
              /\ WF_faVars(fa_main_fn)
              /\ <>[][\A s \in Chain : ~fa_spurious_wakeup(s)]_faVars

FaFairSpec == FaSpec /\ FaFairness

-----------------------------------------------------------------------------
\* The cars leave the line in the order in which they came: no car overtakes
\* another at a hand-over.
FaCarsInOrder == \A i, j \in DOMAIN emitted : i < j => emitted[i] < emitted[j]

\* No car is left behind: whatever main queued has left the line, is queued or
\* is in the hands of a worker, and no worker sleeps beside a car.
FaNoCarLeftBehind ==
    /\ \A c \in 1 .. fa_next - 1 :
          \/ \E j \in DOMAIN emitted : emitted[j] = c
          \/ \E s \in Chain : fa_object[s] = c \/ \E i \in DOMAIN object_queue[s] : object_queue[s][i] = c
    /\ \A s \in Chain : fa_worker[s] = "asleep" => object_queue[s] = <<>>

\* The destroyer finds the workers out of operation, and when it then finds the
\* queues empty as well, all cars have left the line, it comes to its end and
\* its assertion holds.
FaLineIsDestroyed ==
    /\ <>(fa_main = "cleaning")
    /\ (/\ fa_main = "cleaning" /\ fa_cancelled = {} /\ n_workers_in_operation = 0
        /\ \A s \in Chain : object_queue[s] = <<>>)
          ~> (fa_main = "done" /\ Len(emitted) = FaCars /\ ~fa_stray)

==============================================================================
