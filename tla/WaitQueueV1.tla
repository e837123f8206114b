----------------------------- MODULE WaitQueueV1 -----------------------------
(***************************************************************************)
(* The first wait queue and its demonstration: threads that wait until     *)
(* appl_result is false, and a main that makes it false and signals the    *)
(* queue once per thread.  The queue learns the application's mutex from   *)
(* the predicate of who waits, and forgets it when nobody is counted.  The *)
(* predicate should take the mutex; the demonstration's does not, so that  *)
(* its threads wait and unlock without owning it: an unlock then frees the *)
(* mutex, whoever holds it.  V1Locks chooses.                              *)
(***************************************************************************)
EXTENDS Integers, FiniteSets

CONSTANTS V1Threads,
          V1Locks       \* whether the predicate takes the mutex, as it should

ASSUME V1Assumption == /\ IsFiniteSet(V1Threads) /\ V1Locks \in BOOLEAN
                       /\ "nobody" \notin V1Threads

VARIABLES thread_wait_count, appln_mutex_known,
          appl_result, v1_holder,
          v1_at, v1_register,
          v1_main, v1_signals

v1Queue == <<thread_wait_count, appln_mutex_known>>
v1Vars == <<v1Queue, appl_result, v1_holder, v1_at, v1_register, v1_main, v1_signals>>

v1_wait_queue_init == thread_wait_count = 0 /\ appln_mutex_known = FALSE

V1Init == /\ v1_wait_queue_init
          /\ appl_result = TRUE /\ v1_holder = "nobody"
          /\ v1_at = [t \in V1Threads |-> "start"]
          /\ v1_register = [t \in V1Threads |-> 0]
          /\ v1_main = "begin" /\ v1_signals = Cardinality(V1Threads)

V1Go(t, from, to) == v1_at[t] = from /\ v1_at' = [v1_at EXCEPT ![t] = to]

-----------------------------------------------------------------------------
\* appln_cond_test_fn with the mutex to lock, and without.
appln_cond_test_fn(t) ==
    /\ V1Go(t, "start", IF appl_result THEN "block" ELSE "pass")
    /\ V1Locks => v1_holder = "nobody"
    /\ v1_holder' = IF V1Locks THEN t ELSE v1_holder
    /\ UNCHANGED <<v1Queue, appl_result, v1_register, v1_main, v1_signals>>

\* wait_queue_test_and_wait after the predicate: the queue takes note of the
\* mutex.  Counting is a read and a write of the counter.
v1_note_mutex(t) ==
    /\ V1Go(t, "block", "count") \/ V1Go(t, "pass", "leave")
    /\ appln_mutex_known' = TRUE
    /\ UNCHANGED <<thread_wait_count, appl_result, v1_holder, v1_register, v1_main, v1_signals>>

v1_read_count(t) ==
    /\ V1Go(t, "count", "counting") \/ V1Go(t, "discount", "discounting")
    /\ v1_register' = [v1_register EXCEPT ![t] = thread_wait_count]
    /\ UNCHANGED <<v1Queue, appl_result, v1_holder, v1_main, v1_signals>>

v1_sleep(t) ==
    /\ V1Go(t, "counting", "asleep")
    /\ thread_wait_count' = v1_register[t] + 1
    /\ v1_holder' = "nobody"
    /\ v1_register' = [v1_register EXCEPT ![t] = 0]
    /\ UNCHANGED <<appln_mutex_known, appl_result, v1_main, v1_signals>>

v1_wake(t) ==
    /\ v1_holder = "nobody" /\ V1Go(t, "woken", "discount")
    /\ v1_holder' = t
    /\ UNCHANGED <<v1Queue, appl_result, v1_register, v1_main, v1_signals>>

v1_retest(t) ==
    /\ V1Go(t, "discounting", IF appl_result THEN "count" ELSE "leave")
    /\ thread_wait_count' = v1_register[t] - 1
    /\ v1_register' = [v1_register EXCEPT ![t] = 0]
    /\ UNCHANGED <<appln_mutex_known, appl_result, v1_holder, v1_main, v1_signals>>

\* Slip: whoever leaves makes the queue forget the mutex.
v1_leave_forgets(t) ==
    /\ V1Go(t, "leave", "left")
    /\ appln_mutex_known' = FALSE
    /\ v1_holder' = "nobody"
    /\ UNCHANGED <<thread_wait_count, appl_result, v1_register, v1_main, v1_signals>>

\* The end of it: who leaves nobody behind makes the queue forget the mutex.
v1_leave(t) ==
    /\ V1Go(t, "leave", "left")
    /\ appln_mutex_known' = (appln_mutex_known /\ thread_wait_count # 0)
    /\ v1_holder' = "nobody"
    /\ UNCHANGED <<thread_wait_count, appl_result, v1_register, v1_main, v1_signals>>

v1_spurious_wakeup(t) ==
    /\ V1Go(t, "asleep", "woken")
    /\ UNCHANGED <<v1Queue, appl_result, v1_holder, v1_register, v1_main, v1_signals>>

thread_fn_callback(t) ==
    \/ appln_cond_test_fn(t) \/ v1_note_mutex(t) \/ v1_read_count(t) \/ v1_sleep(t)
    \/ v1_wake(t) \/ v1_retest(t) \/ v1_leave(t)

-----------------------------------------------------------------------------
\* wait_queue_signal: the pointer to the mutex is tested, and read again to lock.
v1_test_pointer ==
    /\ v1_main = "signal" /\ v1_signals > 0
    /\ IF appln_mutex_known
       THEN v1_main' = "lock" /\ UNCHANGED v1_signals
       ELSE v1_signals' = v1_signals - 1 /\ UNCHANGED v1_main
    /\ UNCHANGED <<v1Queue, appl_result, v1_holder, v1_at, v1_register>>

v1_signal ==
    LET asleep == {t \in V1Threads : v1_at[t] = "asleep"}
    IN /\ v1_main = "lock"
       /\ IF ~appln_mutex_known
          THEN v1_main' = "crashed" /\ UNCHANGED <<v1_signals, v1_at>>
          ELSE /\ v1_holder = "nobody"
               /\ v1_main' = "signal" /\ v1_signals' = v1_signals - 1
               /\ IF thread_wait_count = 0 \/ asleep = {} THEN UNCHANGED v1_at
                  ELSE \E t \in asleep : v1_at' = [v1_at EXCEPT ![t] = "woken"]
       /\ UNCHANGED <<v1Queue, appl_result, v1_holder, v1_register>>

\* main, whose sleep(3) orders nothing.
v1_main_fn ==
    \/ /\ v1_main = "begin" /\ v1_main' = "signal" /\ appl_result' = FALSE
       /\ UNCHANGED <<v1Queue, v1_holder, v1_at, v1_register, v1_signals>>
    \/ v1_test_pointer \/ v1_signal
    \/ /\ v1_main = "signal" /\ v1_signals = 0 /\ \A t \in V1Threads : v1_at[t] = "left"
       /\ v1_main' = "joined"
       /\ UNCHANGED <<v1Queue, appl_result, v1_holder, v1_at, v1_register, v1_signals>>

V1Next == /\ v1_main # "crashed"
          /\ \/ v1_main_fn
             \/ \E t \in V1Threads : thread_fn_callback(t) \/ v1_spurious_wakeup(t)

V1Spec == V1Init /\ [][V1Next]_v1Vars

-----------------------------------------------------------------------------
\* With a predicate that takes the mutex, the counter counts the threads that
\* sleep or have to wake, and while there are any the queue knows their mutex:
\* a signal reaches whoever sleeps.
V1SleepersAreCounted ==
    V1Locks =>
      /\ thread_wait_count = Cardinality({t \in V1Threads :
             v1_at[t] \in {"asleep", "woken", "discount", "discounting"}})
      /\ thread_wait_count > 0 => appln_mutex_known

==============================================================================
