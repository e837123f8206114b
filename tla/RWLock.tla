------------------------------- MODULE RWLock -------------------------------
(***************************************************************************)
(* The read/write lock (rw_lock_t of rw_locks/rw_locks.c): many readers or *)
(* one writer, and both may nest their locks.  state_mutex is held for the *)
(* whole of each call but while waiting on the single condition variable.  *)
(***************************************************************************)
EXTENDS Clients

VARIABLES n_locks, is_locked_by_reader, is_locked_by_writer, writer_thread,
          n_reader_waiting, n_writer_waiting,   \* the fields of rw_lock_t
          rw_asleep,          \* the threads in pthread_cond_wait on cv
          rd_waiting,      \* the threads in the loop of rw_lock_rd_lock
          wr_waiting,      \* the threads in the loop of rw_lock_wr_lock
          rd_held, wr_held \* the locks the clients hold: <<thread, place>>

rwFields == <<n_locks, is_locked_by_reader, is_locked_by_writer, writer_thread>>
rwCounts == <<n_reader_waiting, n_writer_waiting>>
rwVars == <<rwFields, rwCounts, rw_asleep, rd_waiting, wr_waiting, rd_held, wr_held>>

rw_holds(t, held) == \E k \in 1 .. MaxDepth : <<t, k>> \in held
rw_running(t) == t \notin rd_waiting \cup wr_waiting

\* rw_lock_init leaves n_locks alone; the locks of the repository are static,
\* so it starts at 0.
RWInit == /\ n_locks = 0
          /\ is_locked_by_reader = FALSE /\ is_locked_by_writer = FALSE
          /\ writer_thread = NoThread
          /\ n_reader_waiting = 0 /\ n_writer_waiting = 0
          /\ rw_asleep = {} /\ rd_waiting = {} /\ wr_waiting = {}
          /\ rd_held = {} /\ wr_held = {}

----------------------------------------------------------------------------

\* One more read lock is counted, and given to t.
rw_count_reader(t) ==
    /\ \E k \in 1 .. MaxDepth : /\ <<t, k>> \notin rd_held
                                /\ rd_held' = rd_held \cup {<<t, k>>}
    /\ n_locks' = (n_locks + 1) % Wrap
    /\ UNCHANGED <<is_locked_by_writer, writer_thread, wr_held>>

\* One more write lock is counted, and given to t.
rw_count_writer(t) ==
    /\ \E k \in 1 .. MaxDepth : /\ <<t, k>> \notin wr_held
                                /\ wr_held' = wr_held \cup {<<t, k>>}
    /\ n_locks' = (n_locks + 1) % Wrap
    /\ is_locked_by_writer' = TRUE
    /\ writer_thread' = t
    /\ UNCHANGED <<is_locked_by_reader, rd_held>>

\* rw_lock_rd_lock.  A thread that holds the write lock would wait for itself,
\* so clients do not ask.
rw_lock_rd_lock(t) ==
    /\ rw_running(t) /\ ~rw_holds(t, wr_held)
    /\ \/ /\ ~is_locked_by_writer
          /\ rw_count_reader(t)
          /\ is_locked_by_reader' = TRUE
          /\ UNCHANGED <<rwCounts, rw_asleep, rd_waiting, wr_waiting>>
       \/ /\ is_locked_by_writer
          /\ n_reader_waiting' = n_reader_waiting + 1
          /\ rd_waiting' = rd_waiting \cup {t}
          /\ rw_asleep' = rw_asleep \cup {t}
          /\ UNCHANGED <<rwFields, n_writer_waiting, wr_waiting, rd_held, wr_held>>

\* A woken reader: it marks the lock as the readers' only if it is the first.
rw_lock_rd_woken(t) ==
    /\ t \in rd_waiting \ rw_asleep
    /\ \/ /\ is_locked_by_writer
          /\ rw_asleep' = rw_asleep \cup {t}
          /\ UNCHANGED <<rwFields, rwCounts, rd_waiting, wr_waiting, rd_held, wr_held>>
       \/ /\ ~is_locked_by_writer
          /\ is_locked_by_reader' = (is_locked_by_reader \/ n_locks = 0)
          /\ rw_count_reader(t)
          /\ n_reader_waiting' = n_reader_waiting - 1
          /\ rd_waiting' = rd_waiting \ {t}
          /\ UNCHANGED <<n_writer_waiting, rw_asleep, wr_waiting>>

\* rw_lock_wr_lock: the lock is free, or the caller's own, or to be waited for.
\* Clients do not ask while they hold a read lock: they would wait for themselves.
rw_lock_wr_lock(t) ==
    /\ rw_running(t) /\ ~rw_holds(t, rd_held)
    /\ \/ /\ \/ ~is_locked_by_reader /\ ~is_locked_by_writer
             \/ is_locked_by_writer /\ writer_thread = t
          /\ rw_count_writer(t)
          /\ UNCHANGED <<rwCounts, rw_asleep, rd_waiting, wr_waiting>>
       \/ /\ is_locked_by_reader \/ is_locked_by_writer
          /\ ~(is_locked_by_writer /\ writer_thread = t)
          /\ n_writer_waiting' = n_writer_waiting + 1
          /\ wr_waiting' = wr_waiting \cup {t}
          /\ rw_asleep' = rw_asleep \cup {t}
          /\ UNCHANGED <<rwFields, n_reader_waiting, rd_waiting, rd_held, wr_held>>

\* Slip: the loop condition looks for a writer only.
rw_wakes_over_readers(t) ==
    /\ t \in wr_waiting \ rw_asleep
    /\ ~is_locked_by_writer
    /\ rw_count_writer(t)
    /\ n_writer_waiting' = n_writer_waiting - 1
    /\ wr_waiting' = wr_waiting \ {t}
    /\ UNCHANGED <<n_reader_waiting, rw_asleep, rd_waiting>>

rw_lock_wr_woken(t) ==
    /\ t \in wr_waiting \ rw_asleep
    /\ \/ /\ is_locked_by_reader \/ is_locked_by_writer
          /\ rw_asleep' = rw_asleep \cup {t}
          /\ UNCHANGED <<rwFields, rwCounts, rd_waiting, wr_waiting, rd_held, wr_held>>
       \/ /\ ~is_locked_by_reader /\ ~is_locked_by_writer
          /\ rw_count_writer(t)
          /\ n_writer_waiting' = n_writer_waiting - 1
          /\ wr_waiting' = wr_waiting \ {t}
          /\ UNCHANGED <<n_reader_waiting, rw_asleep, rd_waiting>>

rw_spurious_wakeup(t) ==
    /\ t \in rw_asleep
    /\ rw_asleep' = rw_asleep \ {t}
    /\ UNCHANGED <<rwFields, rwCounts, rd_waiting, wr_waiting, rd_held, wr_held>>

\* Slip: the writers' count is forgotten.
rw_broadcast_to_readers == rw_asleep' = IF n_reader_waiting > 0 THEN {} ELSE rw_asleep

\* The last unlock wakes everybody, if anybody is counted as waiting.
rw_broadcast ==
    rw_asleep' = IF n_reader_waiting > 0 \/ n_writer_waiting > 0
                 THEN {} ELSE rw_asleep

\* rw_lock_unlock by the thread that holds the write lock.
rw_unlock_writer(t) ==
    /\ rw_running(t) /\ is_locked_by_writer /\ n_locks > 0
    /\ \E k \in 1 .. MaxDepth : /\ <<t, k>> \in wr_held
                                /\ wr_held' = wr_held \ {<<t, k>>}
    /\ n_locks' = n_locks - 1
    /\ IF n_locks = 1
       THEN rw_broadcast /\ is_locked_by_writer' = FALSE /\ writer_thread' = NoThread
       ELSE UNCHANGED <<rw_asleep, is_locked_by_writer, writer_thread>>
    /\ UNCHANGED <<is_locked_by_reader, rwCounts, rd_waiting, wr_waiting, rd_held>>

\* rw_lock_unlock by a thread that holds a read lock.
rw_unlock_reader(t) ==
    /\ rw_running(t) /\ ~is_locked_by_writer /\ is_locked_by_reader /\ n_locks > 0
    /\ \E k \in 1 .. MaxDepth : /\ <<t, k>> \in rd_held
                                /\ rd_held' = rd_held \ {<<t, k>>}
    /\ n_locks' = n_locks - 1
    /\ IF n_locks = 1
       THEN rw_broadcast /\ is_locked_by_reader' = FALSE
       ELSE UNCHANGED <<rw_asleep, is_locked_by_reader>>
    /\ UNCHANGED <<is_locked_by_writer, writer_thread, rwCounts,
                   rd_waiting, wr_waiting, wr_held>>

rw_lock_unlock(t) == rw_unlock_writer(t) \/ rw_unlock_reader(t)

RWNext ==
    \E t \in Threads : \/ rw_lock_rd_lock(t) \/ rw_lock_rd_woken(t)
                       \/ rw_lock_wr_lock(t) \/ rw_lock_wr_woken(t)
                       \/ rw_spurious_wakeup(t)
                       \/ rw_lock_unlock(t)

RWSpec == RWInit /\ [][RWNext]_rwVars

----------------------------------------------------------------------------

RWTypeOK == /\ n_locks \in 0 .. Wrap - 1
            /\ is_locked_by_reader \in BOOLEAN /\ is_locked_by_writer \in BOOLEAN
            /\ writer_thread \in Threads \cup {NoThread}
            /\ n_reader_waiting \in 0 .. Wrap - 1
            /\ n_writer_waiting \in 0 .. Wrap - 1
            /\ rd_waiting \in SUBSET Threads /\ wr_waiting \in SUBSET Threads
            /\ rw_asleep \in SUBSET (rd_waiting \cup wr_waiting)
            /\ rd_held \in SUBSET Places /\ wr_held \in SUBSET Places

\* Readers and a writer never hold the lock together, nor two writers, and
\* the fields of the lock say who holds it: what every assertion of the code
\* relies on, and what cs_status_check of its test asserts of the clients.
RWExclusion ==
    /\ n_locks = Cardinality(rd_held) + Cardinality(wr_held)
    /\ rd_held = {} \/ wr_held = {}
    /\ is_locked_by_reader <=> rd_held # {}
    /\ is_locked_by_writer <=> wr_held # {}
    /\ wr_held # {} <=> writer_thread # NoThread
    /\ wr_held \subseteq {writer_thread} \X (1 .. MaxDepth)
    /\ n_reader_waiting = Cardinality(rd_waiting)
    /\ n_writer_waiting = Cardinality(wr_waiting)

\* No lost wake-up: when the lock is free, nobody sleeps on it.
RWNoLostWakeup == n_locks = 0 => rw_asleep = {}

\* A read/write lock is a reader/writer access with one writer at a time; a
\* nested lock or unlock is no step of it.
RWLockAccess == INSTANCE RWAccess WITH
              inside <- [t \in Threads |-> IF rw_holds(t, rd_held) THEN "READER"
                                           ELSE IF rw_holds(t, wr_held) THEN "WRITER"
                                           ELSE "NONE"],
              limit  <- [c \in {"READER", "WRITER"} |->
                            IF c = "READER" THEN Cardinality(Threads) ELSE 1]
RWImplementsAccess == RWLockAccess!Spec
==============================================================================
