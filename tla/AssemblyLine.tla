----------------------------- MODULE AssemblyLine -----------------------------
(***************************************************************************)
(* The assembly line of threadlib.  Objects lie in the slots of a ring;    *)
(* worker k does the k-th piece of work.  In every cycle the engine wakes  *)
(* all workers, each works at its slot and moves one slot on, and the      *)
(* engine waits until all sleep again; then a new object may enter at the  *)
(* slot of worker 0.  AslWorkers look at their slot, and move, without the    *)
(* mutex; everything else is done under it.                                *)
(***************************************************************************)
EXTENDS FifoQueue, FiniteSets

CONSTANTS Size,         \* asl_size: the slots and the workers
          WaitSize,     \* the size of the wait list, 50 in the code
          MaxPushes,    \* how many objects the application pushes
          PushAnytime   \* whether it pushes also in a cycle that has emptied the line

\* A line of one slot has no last worker: Tn is set for i > 0 only.
ASSUME AssemblyLineAssumption ==
    /\ Size \in Nat \ {0, 1} /\ WaitSize \in Nat \ {0} /\ MaxPushes \in Nat
    /\ PushAnytime \in BOOLEAN

AslWorkers == 0..Size-1
Slots == 0..Size-1
T0 == 0
Tn == Size - 1

VARIABLES asl_q,            \* the object in each slot
          wait_lst_fq, n_workers_ready, asl_state, curr_slot,
          apc,              \* where each worker is
          workers_asleep,   \* the workers in pthread_cond_wait
          main_pc,          \* the thread that sets the line up: tests, sleeps, ready
          engine,           \* the engine: none, starts, collects, halted
          engine_asleep,    \* whether it is in pthread_cond_wait
          pushed,           \* how many objects were pushed: the objects are 1..pushed
          work_done,        \* history: the workers that worked on each object
          finished          \* history: the objects handed to asl_process_finished_product

lineVars == <<asl_q, wait_lst_fq, curr_slot, pushed, work_done, finished>>
schedVars == <<n_workers_ready, asl_state, apc, workers_asleep, main_pc, engine, engine_asleep>>
aslVars == <<lineVars, schedVars>>

Count == Cardinality({s \in Slots : asl_q[s] # Null})

\* assembly_line_get_new_assembly_line and the creation of the workers.
AslInit ==
    /\ asl_q = [s \in Slots |-> Null]
    /\ wait_lst_fq = Fifo_initQ(WaitSize)
    /\ n_workers_ready = 0 /\ asl_state = "ASL_NOT_STARTED"
    /\ curr_slot = [w \in AslWorkers |-> w]
    /\ apc = [w \in AslWorkers |-> "starts"]
    /\ workers_asleep = {}
    /\ main_pc = "tests"
    /\ engine = "none" /\ engine_asleep = FALSE
    /\ pushed = 0 /\ work_done = [o \in 1..MaxPushes |-> <<>>] /\ finished = <<>>

----------------------------------------------------------------------------

\* The thread that sets up the line waits in asl_ready_wq for its workers.
asl_wait_until_all_workers_ready ==
    /\ main_pc \in {"tests", "woken"}
    /\ main_pc' = IF n_workers_ready # Size THEN "sleeps" ELSE "ready"
    /\ UNCHANGED <<lineVars, n_workers_ready, asl_state, apc, workers_asleep,
                   engine, engine_asleep>>

sleep_at_slot(w) == /\ n_workers_ready' = n_workers_ready + 1
                    /\ workers_asleep' = workers_asleep \cup {w}
                    /\ apc' = [apc EXCEPT ![w] = "sleeps"]

worker_ready(w) ==
    /\ apc[w] = "starts"
    /\ sleep_at_slot(w)
    /\ main_pc' = IF n_workers_ready + 1 = Size /\ main_pc = "sleeps" THEN "woken" ELSE main_pc
    /\ UNCHANGED <<lineVars, asl_state, engine, engine_asleep>>

\* The worker is woken, looks at its slot and works on what is there.
worker_work(w) ==
    /\ apc[w] = "sleeps" /\ w \notin workers_asleep
    /\ LET object == asl_q[curr_slot[w]] IN
       IF object = Null
       THEN apc' = [apc EXCEPT ![w] = "moves"] /\ UNCHANGED work_done
       ELSE /\ work_done' = [work_done EXCEPT ![object] = Append(@, w)]
            /\ apc' = [apc EXCEPT ![w] = IF w = Tn THEN "removes" ELSE "moves"]
    /\ UNCHANGED <<asl_q, wait_lst_fq, curr_slot, pushed, finished, n_workers_ready,
                   asl_state, workers_asleep, main_pc, engine, engine_asleep>>

\* The last worker takes the finished object out.
worker_remove(w) ==
    /\ apc[w] = "removes"
    /\ asl_q' = [asl_q EXCEPT ![curr_slot[w]] = Null]
    /\ finished' = Append(finished, asl_q[curr_slot[w]])
    /\ apc' = [apc EXCEPT ![w] = "moves"]
    /\ UNCHANGED <<wait_lst_fq, curr_slot, pushed, work_done, n_workers_ready, asl_state,
                   workers_asleep, main_pc, engine, engine_asleep>>

worker_move(w) ==
    /\ apc[w] = "moves"
    /\ curr_slot' = [curr_slot EXCEPT ![w] = IF @ = 0 THEN Size - 1 ELSE @ - 1]
    /\ apc' = [apc EXCEPT ![w] = "reports"]
    /\ UNCHANGED <<asl_q, wait_lst_fq, pushed, work_done, finished, n_workers_ready,
                   asl_state, workers_asleep, main_pc, engine, engine_asleep>>

\* Slip: the count is compared before it is incremented.
reports_late(w) ==
    /\ apc[w] = "reports"
    /\ sleep_at_slot(w)
    /\ engine_asleep' = (engine_asleep /\ n_workers_ready # Size)
    /\ UNCHANGED <<lineVars, asl_state, main_pc, engine>>

\* The last worker of a cycle signals the engine.
worker_report(w) ==
    /\ apc[w] = "reports"
    /\ sleep_at_slot(w)
    /\ engine_asleep' = (engine_asleep /\ n_workers_ready + 1 # Size)
    /\ UNCHANGED <<lineVars, asl_state, main_pc, engine>>

----------------------------------------------------------------------------

\* The head of the engine's loop: all workers are signalled.
engine_kick ==
    /\ asl_state' = "ASL_IN_PROGRESS"
    /\ n_workers_ready' = 0 /\ workers_asleep' = {}
    /\ engine' = "collects" /\ engine_asleep' = TRUE

engine_start ==
    /\ engine = "starts"
    /\ engine_kick
    /\ UNCHANGED <<lineVars, apc, main_pc>>

\* The line with an object put at the slot of worker 0, which is asserted to be
\* empty; Fifo_insert_or_replace_at_index would replace what is there.
assembly_line_enqueue_new_item(object) == [asl_q EXCEPT ![curr_slot[T0]] = object]

\* The oldest object of the wait list enters, if there is one.
admit_from_wait_list ==
    /\ wait_lst_fq' = Fifo_deque(wait_lst_fq)
    /\ asl_q' = IF Oldest(wait_lst_fq) = Null THEN asl_q
                ELSE assembly_line_enqueue_new_item(Oldest(wait_lst_fq))
    /\ UNCHANGED <<curr_slot, pushed, work_done, finished>>

\* Slip: the engine does not count the workers again when it wakes up.
collects_early ==
    /\ engine = "collects" /\ ~engine_asleep
    /\ admit_from_wait_list
    /\ IF Count # 0 \/ Oldest(wait_lst_fq) # Null THEN engine_kick
       ELSE /\ asl_state' = "ASL_WAIT" /\ engine' = "halted" /\ engine_asleep' = TRUE
            /\ UNCHANGED <<n_workers_ready, workers_asleep>>
    /\ UNCHANGED <<apc, main_pc>>

\* The engine wakes up during a cycle: it waits on, or begins the next cycle,
\* or halts because the line is empty.
engine_collect ==
    /\ engine = "collects" /\ ~engine_asleep
    /\ \/ /\ n_workers_ready # Size
          /\ engine_asleep' = TRUE
          /\ UNCHANGED <<lineVars, asl_state, n_workers_ready, workers_asleep, engine>>
       \/ /\ n_workers_ready = Size
          /\ admit_from_wait_list
          /\ \/ (Count # 0 \/ Oldest(wait_lst_fq) # Null) /\ engine_kick
             \/ /\ Count = 0 /\ Oldest(wait_lst_fq) = Null
                /\ asl_state' = "ASL_WAIT" /\ engine' = "halted" /\ engine_asleep' = TRUE
                /\ UNCHANGED <<n_workers_ready, workers_asleep>>
    /\ UNCHANGED <<apc, main_pc>>

engine_resume ==
    /\ engine = "halted" /\ ~engine_asleep
    /\ engine_kick
    /\ UNCHANGED <<lineVars, apc, main_pc>>

\* pthread_cond_wait of the engine returned by itself.
engine_spurious_wakeup ==
    /\ engine_asleep
    /\ engine_asleep' = FALSE
    /\ UNCHANGED <<lineVars, n_workers_ready, asl_state, apc, workers_asleep, main_pc, engine>>

----------------------------------------------------------------------------

\* Slip: a push enters the line whenever the slot of worker 0 is free.
pushes_past_the_others ==
    /\ pushed' = pushed + 1
    /\ IF asl_q[curr_slot[T0]] = Null
       THEN /\ asl_q' = [asl_q EXCEPT ![curr_slot[T0]] = pushed + 1]
            /\ UNCHANGED wait_lst_fq
       ELSE /\ ~is_queue_full(wait_lst_fq)
            /\ wait_lst_fq' = Fifo_enqueue(wait_lst_fq, pushed + 1)
            /\ UNCHANGED asl_q

\* A new object enters an empty line at once and waits for a place otherwise.
push_object ==
    /\ pushed' = pushed + 1
    /\ \/ /\ Count = 0
          /\ asl_q' = assembly_line_enqueue_new_item(pushed + 1)
          /\ UNCHANGED wait_lst_fq
       \/ /\ Count # 0 /\ ~is_queue_full(wait_lst_fq)      \* else assert(0)
          /\ wait_lst_fq' = Fifo_enqueue(wait_lst_fq, pushed + 1)
          /\ UNCHANGED asl_q

\* assembly_line_engine_start, called with the mutex held.
assembly_line_engine_start ==
    \/ engine = "none" /\ engine' = "starts" /\ UNCHANGED <<asl_state, engine_asleep>>
    \/ /\ engine # "none" /\ asl_state = "ASL_WAIT"
       /\ asl_state' = "ASL_IN_PROGRESS" /\ engine_asleep' = FALSE
       /\ UNCHANGED engine
    \/ /\ engine # "none" /\ asl_state # "ASL_WAIT"
       /\ UNCHANGED <<asl_state, engine, engine_asleep>>

\* All workers sleep.
AtRest == n_workers_ready = Size

assembly_line_push_new_item ==
    /\ main_pc = "ready" /\ pushed < MaxPushes
    /\ PushAnytime \/ Count # 0 \/ engine # "collects"
    /\ push_object
    /\ assembly_line_engine_start
    /\ UNCHANGED <<curr_slot, work_done, finished, n_workers_ready, apc, workers_asleep, main_pc>>

----------------------------------------------------------------------------

asl_engine_fn == engine_start \/ engine_collect \/ engine_resume
worker_thread_init(w) == \/ worker_ready(w) \/ worker_work(w) \/ worker_remove(w)
                         \/ worker_move(w) \/ worker_report(w)

AslNext == \/ asl_wait_until_all_workers_ready
           \/ asl_engine_fn \/ engine_spurious_wakeup
           \/ assembly_line_push_new_item
           \/ \E w \in AslWorkers : worker_thread_init(w)

AslSpec == AslInit /\ [][AslNext]_aslVars

----------------------------------------------------------------------------

\* The engine counts exactly the workers that sleep, so that it never works
\* beside one; when all sleep they stand at the slots one after the other, and
\* two workers never work at one slot.
AslLineKept ==
    /\ n_workers_ready = Cardinality(workers_asleep)
    /\ AtRest => \A w \in AslWorkers : curr_slot[w] = (curr_slot[T0] + w) % Size
    /\ \A v, w \in AslWorkers \ workers_asleep :
          v # w /\ apc[v] = "sleeps" /\ apc[w] \in {"sleeps", "removes"}
          => curr_slot[v] # curr_slot[w]

\* assembly_line_enqueue_new_item asserts that the slot of worker 0 is empty:
\* when the engine is about to admit an object, it is.
AslSlotOfT0Empty ==
    engine = "collects" /\ AtRest /\ wait_lst_fq.count # 0 => asl_q[curr_slot[T0]] = Null

\* Every object is worked on by all workers, one after the other, before it is
\* finished, and the objects are finished in the order in which they were pushed.
AslWorkedInOrder ==
    /\ \A o \in 1..MaxPushes : work_done[o] = [k \in 1..Len(work_done[o]) |-> k - 1]
    /\ \A k \in 1..Len(finished) : finished[k] = k /\ Len(work_done[k]) = Size

\* The buffer of the wait list holds the youngest objects, oldest first: those
\* pushed that are neither in the line nor finished.
AslWaitListIsAQueue ==
    LET entered == Len(finished) + Count
    IN  Contents(wait_lst_fq) = [k \in 1..pushed - entered |-> entered + k]

\* Whatever is pushed is finished.
AslEverythingFinishes == \A o \in 1..MaxPushes : pushed >= o ~> Len(finished) >= o
==============================================================================
