------------------------------ MODULE RecMutex ------------------------------
(***************************************************************************)
(* The recursive mutex (rec_mutex_t), built from a plain mutex and one     *)
(* condition variable.  state_mutex is held for the whole of each call but *)
(* while waiting, so a call is one action, or two if it waits.             *)
(***************************************************************************)
EXTENDS Clients

VARIABLES n, locking_thread, n_waited,  \* the fields of rec_mutex_t
          rec_asleep,                       \* the threads in pthread_cond_wait on cv
          rec_waiting,                      \* the threads inside the loop of rec_mutex_lock
          depth                         \* depth[t]: the locks client t holds

recVars == <<n, locking_thread, n_waited, rec_asleep, rec_waiting, depth>>

RecInit == /\ n = 0
           /\ locking_thread = NoThread
           /\ n_waited = 0
           /\ rec_asleep = {}
           /\ rec_waiting = {}
           /\ depth = [t \in Threads |-> 0]

----------------------------------------------------------------------------

\* The loop condition of case 3.
rec_must_wait(t) == locking_thread \notin {NoThread, t}

\* rec_mutex_lock, cases 1 and 2: the mutex is free, or the caller's own.
rec_acquire(t) ==
    /\ n' = IF n = 0 THEN 1 ELSE (n + 1) % Wrap
    /\ locking_thread' = t
    /\ depth' = [depth EXCEPT ![t] = @ + 1]

rec_mutex_lock(t) ==
    /\ t \notin rec_waiting /\ depth[t] < MaxDepth
    /\ \/ /\ n = 0 \/ locking_thread = t
          /\ rec_acquire(t)
          /\ UNCHANGED <<n_waited, rec_asleep, rec_waiting>>
       \/ /\ n # 0 /\ rec_must_wait(t)
          /\ n_waited' = (n_waited + 1) % Wrap
          /\ rec_asleep' = rec_asleep \cup {t}
          /\ rec_waiting' = rec_waiting \cup {t}
          /\ UNCHANGED <<n, locking_thread, depth>>

\* Slip: the woken thread takes the mutex without testing the condition again.
rec_woken_without_test(t) ==
    /\ t \in rec_waiting \ rec_asleep
    /\ n_waited' = n_waited - 1
    /\ rec_waiting' = rec_waiting \ {t}
    /\ n' = 1
    /\ locking_thread' = t
    /\ depth' = [depth EXCEPT ![t] = @ + 1]
    /\ UNCHANGED rec_asleep

\* Slip: the thread that got the mutex is still counted as waiting.
rec_woken_still_counted(t) ==
    /\ t \in rec_waiting \ rec_asleep
    /\ ~rec_must_wait(t)
    /\ rec_waiting' = rec_waiting \ {t}
    /\ n' = 1
    /\ locking_thread' = t
    /\ depth' = [depth EXCEPT ![t] = @ + 1]
    /\ UNCHANGED <<n_waited, rec_asleep>>

\* The woken thread tests the loop condition, and takes the lock or waits on.
rec_mutex_lock_woken(t) ==
    /\ t \in rec_waiting \ rec_asleep
    /\ \/ /\ rec_must_wait(t)
          /\ rec_asleep' = rec_asleep \cup {t}
          /\ UNCHANGED <<n, locking_thread, n_waited, rec_waiting, depth>>
       \/ /\ ~rec_must_wait(t)
          /\ n_waited' = n_waited - 1
          /\ rec_waiting' = rec_waiting \ {t}
          /\ n' = 1
          /\ locking_thread' = t
          /\ depth' = [depth EXCEPT ![t] = @ + 1]
          /\ UNCHANGED rec_asleep

rec_spurious_wakeup(t) ==
    /\ t \in rec_asleep
    /\ rec_asleep' = rec_asleep \ {t}
    /\ UNCHANGED <<n, locking_thread, n_waited, rec_waiting, depth>>

\* Slip: nobody is woken.
rec_no_signal == UNCHANGED rec_asleep

\* pthread_cond_signal wakes one sleeper, if there is any.
rec_signal ==
    IF n_waited > 0 /\ rec_asleep # {}
    THEN \E u \in rec_asleep : rec_asleep' = rec_asleep \ {u}
    ELSE UNCHANGED rec_asleep

\* rec_mutex_unlock by a thread that owns the mutex (it asserts the caller does).
rec_mutex_unlock(t) ==
    /\ t \notin rec_waiting /\ depth[t] > 0
    /\ locking_thread = t /\ n > 0
    /\ n' = n - 1
    /\ depth' = [depth EXCEPT ![t] = @ - 1]
    /\ IF n = 1 THEN rec_signal /\ locking_thread' = NoThread
                ELSE UNCHANGED <<rec_asleep, locking_thread>>
    /\ UNCHANGED <<n_waited, rec_waiting>>

RecNext ==
    \E t \in Threads : \/ rec_mutex_lock(t)
                       \/ rec_mutex_lock_woken(t)
                       \/ rec_spurious_wakeup(t)
                       \/ rec_mutex_unlock(t)

RecSpec == RecInit /\ [][RecNext]_recVars

\* The scheduler runs a thread that was woken, and clients give locks back.
RecFairness ==
    \A t \in Threads : /\ WF_recVars(rec_mutex_lock_woken(t))
                       /\ WF_recVars(rec_mutex_unlock(t))

----------------------------------------------------------------------------

RecTypeOK == /\ n \in 0 .. Wrap - 1
             /\ locking_thread \in Threads \cup {NoThread}
             /\ n_waited \in 0 .. Wrap - 1
             /\ rec_waiting \in SUBSET Threads
             /\ rec_asleep \in SUBSET rec_waiting
             /\ depth \in [Threads -> 0 .. MaxDepth]

\* Only the owner holds locks, and n is how many: what every assertion of
\* rec_mutex_lock and rec_mutex_unlock relies on.
RecOwnerHoldsAll ==
    /\ n = 0 <=> locking_thread = NoThread
    /\ \A t \in Threads : depth[t] = IF t = locking_thread THEN n ELSE 0

\* No lost wake-up: whenever the mutex is free, somebody who waits for it is
\* awake.  A newcomer may overtake the woken thread, which then sleeps again,
\* and the next unlock must not count on the signal it consumed.
RecNoLostWakeup ==
    locking_thread = NoThread /\ rec_waiting # {} => rec_waiting \ rec_asleep # {}

\* Nobody using the mutex means that rec_mutex_destroy may be called: all its
\* assertions hold, that of the waiting count among them.
RecDestroyable ==
    rec_waiting = {} /\ (\A t \in Threads : depth[t] = 0)
        => n = 0 /\ locking_thread = NoThread /\ n_waited = 0

\* A recursive mutex is a reader/writer access with a single writer.
RecAccess == INSTANCE RWAccess WITH
              inside <- [t \in Threads |-> IF depth[t] > 0 THEN "WRITER" ELSE "NONE"],
              limit  <- [c \in {"READER", "WRITER"} |-> 1]
RecImplementsAccess == RecAccess!Spec

\* A thread waiting means that the mutex changes hands.
RecProgress == rec_waiting # {} ~> (\E t \in Threads : depth[t] > 0)
=============================================================================
