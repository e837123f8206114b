----------------------------- MODULE BiasedRWLock -----------------------------
(***************************************************************************)
(* The customizable read/write lock: limits for both classes, and a        *)
(* biasedness that says who waits on which condition variable and whom an  *)
(* unlock wakes; with the threads of its test, which count themselves in   *)
(* and out of the critical section.  What happens under state_mutex is one *)
(* step.  Blocking is written for some settings only: elsewhere it is a    *)
(* failed assertion, which stops the program.                              *)
(***************************************************************************)
EXTENDS Integers, FiniteSets

CONSTANTS BiReaders, BiWriters,
          BiMaxLimit       \* bound: the limits considered for each class

BiThreads == BiReaders \cup BiWriters
Biases == {"NEUTRAL", "READERS", "WRITERS", "OPPOSITE"}

ASSUME BiasedAssumption == /\ IsFiniteSet(BiReaders) /\ IsFiniteSet(BiWriters)
                           /\ BiReaders \cap BiWriters = {} /\ BiMaxLimit \in Nat \ {0}

VARIABLES bi_limit, biasedness, bi_locks, bi_by_reader, bi_by_writer,
          who_used_cs,     \* the class that used the critical section last
          bi_at,           \* where each thread is
          bi_n_r, bi_n_w,  \* the test's counters n_r and n_w
          bi_aborted

biLock == <<bi_locks, bi_by_reader, bi_by_writer, who_used_cs>>
biConf == <<bi_limit, biasedness>>
biVars == <<biConf, biLock, bi_at, bi_n_r, bi_n_w, bi_aborted>>

\* The condition variables, each the name of the place its sleepers are at.
Cvs == {"cv", "cv_readers", "cv_writers"}
bi_reader_waiting == {t \in BiReaders : bi_at[t] \in Cvs \cup {"woken"}}
bi_writer_waiting == {t \in BiWriters : bi_at[t] \in Cvs \cup {"woken"}}
BiHolders(S) == {t \in S : bi_at[t] \in {"granted", "counted", "done"}}
BiMoved(t, place) == [bi_at EXCEPT ![t] = place]

biased_lock_init == /\ bi_locks = 0 /\ bi_by_reader = FALSE /\ bi_by_writer = FALSE
                    /\ who_used_cs = "READER"

\* rw_lock_set_max_readers_writers and rw_lock_set_biasedness.
SetMaxReadersWriters == bi_limit \in [{"READER", "WRITER"} -> 1 .. BiMaxLimit]
SetBiasedness == biasedness \in Biases

\* main, with more limits and settings than its own.
BiInit == /\ biased_lock_init /\ SetMaxReadersWriters /\ SetBiasedness
          /\ bi_at = [t \in BiThreads |-> "away"]
          /\ bi_n_r = 0 /\ bi_n_w = 0 /\ bi_aborted = FALSE

-----------------------------------------------------------------------------
\* rw_lock_block_reader_thread and rw_lock_block_writer_thread.  A writer that
\* a bias for writers made wait runs into the default case when it wakes.
block_reader(t) ==
    /\ CASE biasedness = "NEUTRAL" -> bi_at' = BiMoved(t, "cv") /\ UNCHANGED bi_aborted
         [] biasedness = "READERS" -> bi_at' = BiMoved(t, "cv_readers") /\ UNCHANGED bi_aborted
         [] OTHER -> bi_aborted' = TRUE /\ UNCHANGED bi_at
    /\ UNCHANGED biLock

block_writer(t) ==
    /\ CASE biasedness = "NEUTRAL" -> bi_at' = BiMoved(t, "cv") /\ UNCHANGED bi_aborted
         [] biasedness = "WRITERS" -> bi_at' = BiMoved(t, "cv_writers") /\ UNCHANGED bi_aborted
         [] OTHER -> bi_aborted' = TRUE /\ UNCHANGED bi_at
    /\ UNCHANGED biLock

\* Slip: a reader is let in while the writers' limit is not used up.
rd_lock_wrong_limit(t) ==
    /\ t \in BiReaders /\ bi_at[t] \in {"away", "woken"}
    /\ IF bi_by_writer \/ bi_locks = bi_limit["WRITER"]
       THEN block_reader(t)
       ELSE /\ bi_at' = BiMoved(t, "granted")
            /\ bi_locks' = bi_locks + 1
            /\ bi_by_reader' = (bi_by_reader \/ bi_locks = 0)
            /\ UNCHANGED <<bi_by_writer, who_used_cs, bi_aborted>>
    /\ UNCHANGED <<biConf, bi_n_r, bi_n_w>>

biased_rd_lock(t) ==
    /\ t \in BiReaders /\ bi_at[t] \in {"away", "woken"}
    /\ IF \/ bi_by_writer \/ bi_locks = bi_limit["READER"]
          \/ /\ bi_locks = 0 /\ bi_writer_waiting # {}
             /\ biasedness = "OPPOSITE" /\ who_used_cs = "READER"
       THEN block_reader(t)
       ELSE /\ bi_at' = BiMoved(t, "granted")
            /\ bi_locks' = bi_locks + 1
            /\ bi_by_reader' = (bi_by_reader \/ bi_locks = 0)
            /\ UNCHANGED <<bi_by_writer, who_used_cs, bi_aborted>>
    /\ UNCHANGED <<biConf, bi_n_r, bi_n_w>>

biased_wr_lock(t) ==
    /\ t \in BiWriters /\ bi_at[t] \in {"away", "woken"}
    /\ IF bi_at[t] = "woken" /\ biasedness = "WRITERS"
       THEN bi_aborted' = TRUE /\ UNCHANGED <<biLock, bi_at>>
       ELSE IF \/ bi_by_reader \/ bi_locks = bi_limit["WRITER"]
               \/ /\ bi_locks = 0 /\ bi_reader_waiting # {}
                  /\ biasedness = "OPPOSITE" /\ who_used_cs = "WRITER"
       THEN block_writer(t)
       ELSE /\ bi_at' = BiMoved(t, "granted")
            /\ bi_locks' = bi_locks + 1
            /\ bi_by_writer' = (bi_by_writer \/ bi_locks = 0)
            /\ UNCHANGED <<bi_by_reader, who_used_cs, bi_aborted>>
    /\ UNCHANGED <<biConf, bi_n_r, bi_n_w>>

-----------------------------------------------------------------------------
\* Slip: pthread_cond_signal where all are meant.
wakes_only_one(at, c) ==
    LET one == CHOOSE t \in BiThreads : at[t] = c
    IN  IF \E t \in BiThreads : at[t] = c THEN [at EXCEPT ![one] = "woken"] ELSE at

BiAwoken(at, c) == [t \in BiThreads |-> IF at[t] = c THEN "woken" ELSE at[t]]
BiOneAwoken(at, c) == IF \E t \in BiThreads : at[t] = c
                      THEN {[at EXCEPT ![t] = "woken"] : t \in {u \in BiThreads : at[u] = c}}
                      ELSE {at}

\* rw_lock_signal, which the last thread out calls: the variable to broadcast.
Signalled(reader_leaves) ==
    CASE biasedness = "NEUTRAL" -> "cv"
      [] biasedness = "READERS" -> IF bi_reader_waiting # {} THEN "cv_readers" ELSE "cv_writers"
      [] biasedness = "WRITERS" -> IF bi_writer_waiting # {} THEN "cv_writers" ELSE "cv_readers"
      [] biasedness = "OPPOSITE" ->
            IF reader_leaves
            THEN IF bi_writer_waiting # {} THEN "cv_writers" ELSE "cv_readers"
            ELSE IF bi_reader_waiting # {} THEN "cv_readers" ELSE "cv_writers"

\* rw_lock_unlock.  One who leaves others of its class inside wakes one of its
\* class; where all share one variable it wakes everybody.
biased_unlock(t) ==
    LET writer == bi_by_writer
        at == BiMoved(t, "away")
        mine == IF writer THEN bi_writer_waiting ELSE bi_reader_waiting
    IN /\ bi_at[t] = "done" /\ bi_locks > 0
       /\ bi_locks' = bi_locks - 1
       /\ IF bi_locks = 1
          THEN /\ bi_by_writer' = FALSE
               /\ bi_by_reader' = (writer /\ bi_by_reader)
               /\ who_used_cs' = IF writer THEN "WRITER" ELSE "READER"
               /\ bi_at' = BiAwoken(at, Signalled(~writer))
          ELSE /\ bi_at' \in IF mine = {} THEN {at}
                             ELSE IF biasedness = "NEUTRAL" THEN {BiAwoken(at, "cv")}
                             ELSE BiOneAwoken(at, IF writer THEN "cv_writers" ELSE "cv_readers")
               /\ UNCHANGED <<bi_by_reader, bi_by_writer, who_used_cs>>
       /\ UNCHANGED <<biConf, bi_n_r, bi_n_w, bi_aborted>>

bi_spurious_wakeup(t) ==
    /\ bi_at[t] \in Cvs
    /\ bi_at' = BiMoved(t, "woken")
    /\ UNCHANGED <<biConf, biLock, bi_n_r, bi_n_w, bi_aborted>>

-----------------------------------------------------------------------------
\* The test's threads: count in, check, count out.  cs_status_check asserts
\* that one class is inside, within its limit.
cs_status_ok == \/ bi_n_r = 0 /\ bi_n_w <= bi_limit["WRITER"]
                \/ bi_n_w = 0 /\ bi_n_r <= bi_limit["READER"]

bi_enter_cs(t) ==
    /\ bi_at[t] = "granted"
    /\ bi_at' = BiMoved(t, "counted")
    /\ bi_n_r' = IF t \in BiReaders THEN bi_n_r + 1 ELSE bi_n_r
    /\ bi_n_w' = IF t \in BiWriters THEN bi_n_w + 1 ELSE bi_n_w
    /\ UNCHANGED <<biConf, biLock, bi_aborted>>

bi_leave_cs(t) ==
    /\ bi_at[t] = "counted"
    /\ IF ~cs_status_ok
       THEN bi_aborted' = TRUE /\ UNCHANGED <<bi_at, bi_n_r, bi_n_w>>
       ELSE /\ bi_at' = BiMoved(t, "done")
            /\ bi_n_r' = IF t \in BiReaders THEN bi_n_r - 1 ELSE bi_n_r
            /\ bi_n_w' = IF t \in BiWriters THEN bi_n_w - 1 ELSE bi_n_w
            /\ UNCHANGED bi_aborted
    /\ UNCHANGED <<biConf, biLock>>

biased_read_fn(t) ==
    \/ biased_rd_lock(t)
    \/ t \in BiReaders /\ (bi_enter_cs(t) \/ bi_leave_cs(t) \/ biased_unlock(t))
biased_write_fn(t) ==
    \/ biased_wr_lock(t)
    \/ t \in BiWriters /\ (bi_enter_cs(t) \/ bi_leave_cs(t) \/ biased_unlock(t))

BiNext == /\ ~bi_aborted
          /\ \E t \in BiThreads : biased_read_fn(t) \/ biased_write_fn(t) \/ bi_spurious_wakeup(t)

BiSpec == BiInit /\ [][BiNext]_biVars

-----------------------------------------------------------------------------
\* With the neutral setting nobody sleeps at a lock that has room for its
\* class, whoever has come or gone since it fell asleep; and nothing fails.
BiNobodyForgotten ==
    biasedness = "NEUTRAL" =>
      /\ ~bi_aborted
      /\ \A t \in BiThreads : bi_at[t] = "cv" =>
           \/ t \in BiReaders /\ (bi_by_writer \/ bi_locks = bi_limit["READER"])
           \/ t \in BiWriters /\ (bi_by_reader \/ bi_locks = bi_limit["WRITER"])

\* With every setting, the lock is a reader/writer access with limits, as long
\* as the program lives.
BiasedAccess == INSTANCE RWAccess WITH
    Threads <- BiThreads,
    inside <- [t \in BiThreads |-> IF t \in BiHolders(BiReaders) THEN "READER"
                                   ELSE IF t \in BiHolders(BiWriters) THEN "WRITER" ELSE "NONE"],
    limit <- bi_limit
BiImplementsAccess == BiasedAccess!Spec
==============================================================================
