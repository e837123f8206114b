------------------------------ MODULE MapReduce ------------------------------
(***************************************************************************)
(* The map-reduce of the course's threadlib: the caller starts one thread  *)
(* per mapper, sleeps on a wait queue until all have counted themselves    *)
(* out, starts the reducer and waits for its semaphore; others may ask     *)
(* meanwhile whether it is in progress.  What happens under mr_mutex is    *)
(* one step: the predicate of the wait queue takes it and the sleep or the *)
(* caller's unlock gives it back.                                          *)
(***************************************************************************)
EXTENDS Integers, FiniteSets

CONSTANT NMappers

ASSUME MapReduceAssumption == NMappers \in Nat \ {0}

Mappers == 1 .. NMappers

VARIABLES mappers_in_progress, is_reducer_in_progress,
          mapper_at,             \* "none", "started", "mapped" or "ended"
          reducer_at,            \* "none", "started", "reducing", "reduced" or "ended"
          mapper_result_array,   \* the mappers whose result is stored
          reducer_result,        \* the mappers whose results the reducer has seen
          reducer_finished_semaphore,
          mr_caller              \* where map_reduce_start is

mrVars == <<mappers_in_progress, is_reducer_in_progress, mapper_at, reducer_at,
            mapper_result_array, reducer_result, reducer_finished_semaphore, mr_caller>>

map_reduce_init == /\ mappers_in_progress = NMappers /\ is_reducer_in_progress = FALSE
                   /\ mapper_result_array = {} /\ reducer_result = {}
                   /\ reducer_finished_semaphore = 0

\* main, up to the call of map_reduce_start.
MrInit == /\ map_reduce_init
          /\ mapper_at = [i \in Mappers |-> "none"] /\ reducer_at = "none"
          /\ mr_caller = "starting"

-----------------------------------------------------------------------------
mapperVars == <<mappers_in_progress, mapper_at, mapper_result_array>>
reducerVars == <<is_reducer_in_progress, reducer_at, reducer_result, reducer_finished_semaphore>>

\* mapper_wrapper: the application's function, and the counting under the mutex
\* with its broadcast.
mapper_fn(i) ==
    /\ mapper_at[i] = "started"
    /\ mapper_at' = [mapper_at EXCEPT ![i] = "mapped"]
    /\ mapper_result_array' = mapper_result_array \cup {i}
    /\ UNCHANGED <<mappers_in_progress, reducerVars, mr_caller>>

mapper_counts_out(i) ==
    /\ mapper_at[i] = "mapped"
    /\ mapper_at' = [mapper_at EXCEPT ![i] = "ended"]
    /\ mappers_in_progress' = mappers_in_progress - 1
    /\ mr_caller' = IF mr_caller = "asleep" THEN "woken" ELSE mr_caller
    /\ UNCHANGED <<mapper_result_array, reducerVars>>

\* Slip: the mapper broadcasts before it counts itself out.
mapper_broadcasts_first(i) ==
    /\ mapper_at[i] \in {"started", "mapped"}
    /\ IF mapper_at[i] = "started"
       THEN /\ mr_caller' = IF mr_caller = "asleep" THEN "woken" ELSE mr_caller
            /\ mapper_at' = [mapper_at EXCEPT ![i] = "mapped"]
            /\ mapper_result_array' = mapper_result_array \cup {i}
            /\ UNCHANGED mappers_in_progress
       ELSE /\ mappers_in_progress' = mappers_in_progress - 1
            /\ mapper_at' = [mapper_at EXCEPT ![i] = "ended"]
            /\ UNCHANGED <<mapper_result_array, mr_caller>>
    /\ UNCHANGED reducerVars

mapper_wrapper(i) == mapper_fn(i) \/ mapper_counts_out(i)

reducer_wrapper ==
    \/ /\ reducer_at = "started"
       /\ is_reducer_in_progress' = TRUE /\ reducer_at' = "reducing"
       /\ UNCHANGED <<mapperVars, reducer_result, reducer_finished_semaphore, mr_caller>>
    \/ /\ reducer_at = "reducing"
       /\ reducer_result' = mapper_result_array /\ reducer_at' = "reduced"
       /\ UNCHANGED <<mapperVars, is_reducer_in_progress, reducer_finished_semaphore, mr_caller>>
    \/ /\ reducer_at = "reduced" /\ is_reducer_in_progress
       /\ is_reducer_in_progress' = FALSE
       /\ UNCHANGED <<mapperVars, reducer_at, reducer_result, reducer_finished_semaphore, mr_caller>>
    \/ /\ reducer_at = "reduced" /\ ~is_reducer_in_progress
       /\ reducer_finished_semaphore' = reducer_finished_semaphore + 1
       /\ reducer_at' = "ended"
       /\ UNCHANGED <<mapperVars, is_reducer_in_progress, reducer_result, mr_caller>>

-----------------------------------------------------------------------------
\* map_reduce_start starts the mappers one after the other.
start_mapper ==
    /\ mr_caller = "starting"
    /\ \E i \in Mappers :
          /\ mapper_at[i] = "none"
          /\ \A j \in 1 .. i - 1 : mapper_at[j] # "none"
          /\ mapper_at' = [mapper_at EXCEPT ![i] = "started"]
    /\ UNCHANGED <<mappers_in_progress, mapper_result_array, reducerVars, mr_caller>>

\* wait_queue_test_and_wait, and what follows it under the mutex.
wq_is_any_mapper_in_progress ==
    /\ \/ mr_caller = "starting" /\ \A i \in Mappers : mapper_at[i] # "none"
       \/ mr_caller = "woken"
    /\ mr_caller' = IF mappers_in_progress > 0 THEN "asleep" ELSE "mapped"
    /\ UNCHANGED <<mapperVars, reducerVars>>

mr_spurious_wakeup ==
    /\ mr_caller = "asleep" /\ mr_caller' = "woken"
    /\ UNCHANGED <<mapperVars, reducerVars>>

start_reducer ==
    /\ mr_caller = "mapped" /\ mr_caller' = "reducing" /\ reducer_at' = "started"
    /\ UNCHANGED <<mapperVars, is_reducer_in_progress, reducer_result, reducer_finished_semaphore>>

\* The wait for the reducer, the reader of its result and map_reduce_cleanup:
\* what the mappers and the reducer have stored is given up.
map_reduce_cleanup ==
    /\ mr_caller = "reducing" /\ reducer_finished_semaphore > 0
    /\ reducer_finished_semaphore' = reducer_finished_semaphore - 1
    /\ mr_caller' = "done"
    /\ mapper_result_array' = {}
    /\ UNCHANGED <<mappers_in_progress, mapper_at, is_reducer_in_progress, reducer_at, reducer_result>>

map_reduce_start == \/ start_mapper \/ wq_is_any_mapper_in_progress
                    \/ start_reducer \/ map_reduce_cleanup

MrNext == \/ \E i \in Mappers : mapper_wrapper(i)
          \/ reducer_wrapper \/ map_reduce_start \/ mr_spurious_wakeup

MrSpec == MrInit /\ [][MrNext]_mrVars

\* map_reduce_is_in_progress, as somebody else asks it.
map_reduce_is_in_progress == mappers_in_progress > 0 \/ is_reducer_in_progress

-----------------------------------------------------------------------------
\* The caller gets the result, and the result is made of what every mapper
\* stored: no mapper's count runs ahead of its result, no wake-up of the caller
\* is missed, and the reducer's post is not taken before there is a result.
\* Who is told that nothing is in progress may rely on the mappers' results.
MrReducesEverything ==
    /\ <>(mr_caller = "done")
    /\ [](mr_caller = "done" => reducer_result = Mappers)
    /\ [](map_reduce_is_in_progress \/ mr_caller = "done" \/ mapper_result_array = Mappers)
==============================================================================
