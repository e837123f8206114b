----------------------------- MODULE LockProofs -----------------------------
(***************************************************************************)
(* The recursive mutex and the read/write lock, for any number of threads, *)
(* any nesting depth and any counter width that holds them: the invariants *)
(* the runs check are proved from one inductive invariant for each lock,   *)
(* and every step of a lock is a step of the abstract access or leaves it  *)
(* alone.                                                                  *)
(***************************************************************************)
EXTENDS RecMutex, RWLock, CountingProofs

-----------------------------------------------------------------------------
\* The recursive mutex.

\* The waiting count is the number of threads in the loop of rec_mutex_lock:
\* without it an unlock could believe that there is nobody to signal.
RecWaitersCounted == n_waited = Cardinality(rec_waiting)

\* A thread that waits does not hold the mutex, so it holds no lock at all.
RecOwnerRuns == locking_thread \notin rec_waiting

RecInv == /\ RecTypeOK /\ RecOwnerHoldsAll /\ RecNoLostWakeup
          /\ RecWaitersCounted /\ RecOwnerRuns

----------------------------------------------------------------------------

\* A fresh recursive mutex satisfies the inductive invariant.
LEMMA RecInvInit == RecInit => RecInv
  <1> SUFFICES ASSUME RecInit PROVE RecInv
    OBVIOUS
  <1> USE DEF RecInit
  <1>1. RecTypeOK
    BY ClientsAssumption DEF RecTypeOK
  <1>2. RecOwnerHoldsAll
    BY DEF RecOwnerHoldsAll
  <1>3. RecWaitersCounted
    BY FS_EmptySet DEF RecWaitersCounted
  <1>4. RecNoLostWakeup /\ RecOwnerRuns
    BY DEF RecNoLostWakeup, RecOwnerRuns
  <1> QED
    BY <1>1, <1>2, <1>3, <1>4 DEF RecInv

\* A thread that takes a free mutex, or its own, keeps owner, count and depth
\* in agreement: the counter does not wrap, for it is the thread's depth.
LEMMA RecAcquireStep ==
    ASSUME RecInv, NEW t \in Threads, depth[t] < MaxDepth,
           n = 0 \/ locking_thread = t, rec_acquire(t)
    PROVE  /\ n' = n + 1 /\ n' \in 1 .. Wrap - 1
           /\ locking_thread' = t
           /\ depth' \in [Threads -> 0 .. MaxDepth]
           /\ RecOwnerHoldsAll'
  <1> USE DEF RecInv, RecTypeOK, RecOwnerHoldsAll
  <1>1. n = depth[t] /\ n \in Nat /\ depth[t] \in Nat
    OBVIOUS
  <1>2. n + 1 \in Nat /\ n + 1 <= MaxDepth /\ n + 1 < Wrap
    BY <1>1, ClientsAssumption
  <1>3. (n + 1) % Wrap = n + 1
    BY <1>2, NoWrap, ClientsAssumption
  <1>4. n' = n + 1 /\ locking_thread' = t /\ depth' = [depth EXCEPT ![t] = @ + 1]
    BY <1>1, <1>3 DEF rec_acquire
  <1>5. n' \in 1 .. Wrap - 1
    BY <1>1, <1>2, <1>4, ClientsAssumption
  <1>6. depth' \in [Threads -> 0 .. MaxDepth]
    BY <1>1, <1>4, ClientsAssumption
  <1>7. RecOwnerHoldsAll'
    <2>1. depth'[t] = n'
      BY <1>1, <1>4
    <2>2. \A u \in Threads \ {t} : depth'[u] = 0
      BY <1>1, <1>4
    <2>3. n' # 0 /\ locking_thread' # NoThread
      BY <1>4, <1>5, ClientsAssumption
    <2> QED
      BY <2>1, <2>2, <2>3, <1>4
  <1> QED
    BY <1>4, <1>5, <1>6, <1>7

\* Every step of the recursive mutex preserves the inductive invariant.
LEMMA RecInvNext == RecInv /\ [RecNext]_recVars => RecInv'
  <1> SUFFICES ASSUME RecInv, [RecNext]_recVars PROVE RecInv'
    OBVIOUS
  <1> USE DEF RecInv
  <1>1. CASE UNCHANGED recVars
    BY <1>1 DEF recVars, RecTypeOK, RecOwnerHoldsAll, RecWaitersCounted,
                RecNoLostWakeup, RecOwnerRuns
  <1>2. ASSUME NEW t \in Threads, rec_mutex_lock(t) PROVE RecInv'
    <2>1. CASE n = 0 \/ locking_thread = t
      <3>1. rec_acquire(t) /\ UNCHANGED <<n_waited, rec_asleep, rec_waiting>>
        BY <1>2, <2>1 DEF rec_mutex_lock, rec_must_wait, RecOwnerHoldsAll
      <3>2. depth[t] < MaxDepth
        BY <1>2 DEF rec_mutex_lock
      <3>3. /\ n' \in 1 .. Wrap - 1 /\ locking_thread' = t
            /\ depth' \in [Threads -> 0 .. MaxDepth] /\ RecOwnerHoldsAll'
        BY <2>1, <3>1, <3>2, RecAcquireStep
      <3>4. RecTypeOK'
        BY <3>1, <3>3 DEF RecTypeOK
      <3>5. RecWaitersCounted'
        BY <3>1 DEF RecWaitersCounted
      <3>6. RecNoLostWakeup'
        BY <3>3, ClientsAssumption DEF RecNoLostWakeup
      <3>7. RecOwnerRuns'
        BY <1>2, <3>1, <3>3 DEF rec_mutex_lock, RecOwnerRuns
      <3> QED
        BY <3>3, <3>4, <3>5, <3>6, <3>7
    <2>2. CASE ~(n = 0 \/ locking_thread = t)
      <3>1. /\ n_waited' = (n_waited + 1) % Wrap
            /\ rec_asleep' = rec_asleep \cup {t}
            /\ rec_waiting' = rec_waiting \cup {t}
            /\ UNCHANGED <<n, locking_thread, depth>>
            /\ t \notin rec_waiting
        BY <1>2, <2>2 DEF rec_mutex_lock
      <3>2. locking_thread # NoThread
        BY <2>2 DEF RecOwnerHoldsAll
      <3>3. /\ n_waited + 1 = Cardinality(rec_waiting')
            /\ n_waited + 1 \in Nat /\ n_waited + 1 < Wrap
        <4>1. rec_waiting \in SUBSET Threads /\ IsFiniteSet(Threads)
          BY ClientsAssumption DEF RecTypeOK
        <4>2. /\ Cardinality(rec_waiting \cup {t}) = Cardinality(rec_waiting) + 1
              /\ Cardinality(rec_waiting) + 1 <= Cardinality(Threads)
          BY <3>1, <4>1, CountOneMore
        <4>3. Cardinality(rec_waiting) \in Nat /\ Cardinality(Threads) \in Nat
          BY <4>1, CountOfSubset
        <4> QED
          BY <3>1, <4>2, <4>3, ClientsAssumption DEF RecWaitersCounted
      <3>4. n_waited' = n_waited + 1
        BY <3>1, <3>3, NoWrap, ClientsAssumption
      <3>5. RecWaitersCounted'
        BY <3>3, <3>4 DEF RecWaitersCounted
      <3>6. RecTypeOK'
        BY <3>1, <3>3, <3>4, ClientsAssumption DEF RecTypeOK
      <3>7. RecOwnerHoldsAll'
        BY <3>1 DEF RecOwnerHoldsAll
      <3>8. RecNoLostWakeup' /\ RecOwnerRuns'
        BY <2>2, <3>1, <3>2 DEF RecNoLostWakeup, RecOwnerRuns
      <3> QED
        BY <3>5, <3>6, <3>7, <3>8
    <2> QED
      BY <2>1, <2>2
  <1>3. ASSUME NEW t \in Threads, rec_mutex_lock_woken(t) PROVE RecInv'
    <2>1. t \in rec_waiting \ rec_asleep
      BY <1>3 DEF rec_mutex_lock_woken
    <2>2. CASE rec_must_wait(t)
      <3>1. /\ rec_asleep' = rec_asleep \cup {t}
            /\ UNCHANGED <<n, locking_thread, n_waited, rec_waiting, depth>>
        BY <1>3, <2>2 DEF rec_mutex_lock_woken
      <3> QED
        BY <2>1, <2>2, <3>1
           DEF rec_must_wait, RecTypeOK, RecOwnerHoldsAll, RecWaitersCounted,
               RecNoLostWakeup, RecOwnerRuns
    <2>3. CASE ~rec_must_wait(t)
      <3>1. /\ n_waited' = n_waited - 1
            /\ rec_waiting' = rec_waiting \ {t}
            /\ n' = 1
            /\ locking_thread' = t
            /\ depth' = [depth EXCEPT ![t] = @ + 1]
            /\ UNCHANGED rec_asleep
        BY <1>3, <2>3 DEF rec_mutex_lock_woken
      <3>2. n = 0 /\ locking_thread = NoThread
        BY <2>1, <2>3 DEF rec_must_wait, RecOwnerRuns, RecOwnerHoldsAll
      <3>3. RecOwnerHoldsAll'
        BY <3>1, <3>2, ClientsAssumption DEF RecOwnerHoldsAll, RecTypeOK
      <3>4. RecWaitersCounted' /\ n_waited > 0
        BY <2>1, <3>1, CountOneLess, ClientsAssumption DEF RecWaitersCounted, RecTypeOK
      <3>5. RecTypeOK'
        BY <2>1, <3>1, <3>2, <3>4, ClientsAssumption DEF RecTypeOK, RecOwnerHoldsAll
      <3>6. RecNoLostWakeup' /\ RecOwnerRuns'
        BY <3>1, ClientsAssumption DEF RecNoLostWakeup, RecOwnerRuns
      <3> QED
        BY <3>3, <3>4, <3>5, <3>6
    <2> QED
      BY <2>2, <2>3
  <1>4. ASSUME NEW t \in Threads, rec_spurious_wakeup(t) PROVE RecInv'
    BY <1>4 DEF rec_spurious_wakeup, RecTypeOK, RecOwnerHoldsAll, RecWaitersCounted,
                RecNoLostWakeup, RecOwnerRuns
  <1>5. ASSUME NEW t \in Threads, rec_mutex_unlock(t) PROVE RecInv'
    <2>1. /\ locking_thread = t /\ n > 0 /\ depth[t] = n
          /\ n' = n - 1
          /\ depth' = [depth EXCEPT ![t] = @ - 1]
          /\ UNCHANGED <<n_waited, rec_waiting>>
      BY <1>5 DEF rec_mutex_unlock, RecOwnerHoldsAll
    <2>2. /\ n' \in 0 .. Wrap - 1
          /\ depth' \in [Threads -> 0 .. MaxDepth]
          /\ depth'[t] = n'
          /\ \A u \in Threads \ {t} : depth'[u] = 0
      BY <2>1, ClientsAssumption DEF RecTypeOK, RecOwnerHoldsAll
    <2>3. RecWaitersCounted'
      BY <2>1 DEF RecWaitersCounted
    <2>4. CASE n = 1
      <3>1. rec_signal /\ locking_thread' = NoThread
        BY <1>5, <2>4 DEF rec_mutex_unlock
      <3>2. rec_asleep' \subseteq rec_asleep
        BY <3>1 DEF rec_signal
      <3>3. RecTypeOK' /\ RecOwnerHoldsAll' /\ RecOwnerRuns'
        BY <2>1, <2>2, <2>4, <3>1, <3>2, ClientsAssumption
           DEF RecTypeOK, RecOwnerHoldsAll, RecOwnerRuns
      <3>4. ASSUME rec_waiting # {} PROVE rec_waiting \ rec_asleep' # {}
        <4>1. n_waited > 0
          BY <3>4, CountOfSubset, ClientsAssumption DEF RecWaitersCounted, RecTypeOK
        <4> QED
          BY <3>1, <3>4, <4>1 DEF rec_signal, RecTypeOK
      <3> QED
        BY <2>1, <2>3, <3>3, <3>4 DEF RecNoLostWakeup
    <2>5. CASE n # 1
      <3>1. UNCHANGED <<rec_asleep, locking_thread>>
        BY <1>5, <2>5 DEF rec_mutex_unlock
      <3> QED
        BY <2>1, <2>2, <2>3, <2>5, <3>1
           DEF RecTypeOK, RecOwnerHoldsAll, RecNoLostWakeup, RecOwnerRuns
    <2> QED
      BY <2>4, <2>5
  <1> QED
    BY <1>1, <1>2, <1>3, <1>4, <1>5 DEF RecNext

\* The counters and sets of the recursive mutex keep their types: n and n_waited
\* never wrap around, however the threads nest, wait and are woken.
THEOREM RecTypeCorrect == RecSpec => []RecTypeOK
  BY RecInvInit, RecInvNext, PTL DEF RecSpec, RecInv

\* Only the owner holds the mutex, n times: mutual exclusion of the sections
\* between rec_mutex_lock and rec_mutex_unlock, and the code's assertions.
THEOREM RecMutualExclusion == RecSpec => []RecOwnerHoldsAll
  BY RecInvInit, RecInvNext, PTL DEF RecSpec, RecInv

\* A free mutex never leaves all of its waiters asleep: the signal of the last
\* unlock, given before the owner is cleared, is not lost.
THEOREM RecWakeupsKept == RecSpec => []RecNoLostWakeup
  BY RecInvInit, RecInvNext, PTL DEF RecSpec, RecInv

\* The assertions of rec_mutex_destroy hold as soon as nobody uses the mutex.
THEOREM RecCanBeDestroyed == RecSpec => []RecDestroyable
  <1>1. RecInv => RecDestroyable
    BY FS_EmptySet DEF RecInv, RecTypeOK, RecOwnerHoldsAll, RecWaitersCounted, RecDestroyable
  <1> QED
    BY <1>1, RecInvInit, RecInvNext, PTL DEF RecSpec

----------------------------------------------------------------------------
\* What the abstract access sees of the mutex.
RecInside == [t \in Threads |-> IF depth[t] > 0 THEN "WRITER" ELSE "NONE"]

\* One thread's depth changed: the access sees the class of that thread change.
LEMMA RecInsideAfter ==
    ASSUME NEW t \in Threads, NEW c,
           \A u \in Threads \ {t} : depth'[u] = depth[u],
           c = IF depth'[t] > 0 THEN "WRITER" ELSE "NONE"
    PROVE  RecInside' = [RecInside EXCEPT ![t] = c]
  <1>1. \A u \in Threads : RecInside'[u] = [RecInside EXCEPT ![t] = c][u]
    BY DEF RecInside
  <1>2. /\ RecInside' = [u \in Threads |-> RecInside'[u]]
        /\ [RecInside EXCEPT ![t] = c] = [u \in Threads |-> [RecInside EXCEPT ![t] = c][u]]
    BY DEF RecInside
  <1> QED
    BY <1>1, <1>2

\* The abstract access counts as this module does.
LEMMA RecSameCount == ASSUME NEW S PROVE RecAccess!Cardinality(S) = Cardinality(S)
  BY DEF RecAccess!Cardinality, Cardinality

\* A step of the mutex is an Enter or a Leave of the access, or leaves it alone:
\* nested locks and unlocks, waiting and waking are all invisible.
LEMMA RecStepSimulation ==
    RecInv /\ [RecNext]_recVars => [RecAccess!Next]_(RecAccess!accessVars)
  <1> SUFFICES ASSUME RecInv, [RecNext]_recVars
               PROVE  RecAccess!Next \/ UNCHANGED RecInside
    BY DEF RecAccess!accessVars, RecInside
  <1> USE DEF RecInv
  <1>0. CASE UNCHANGED depth
    BY <1>0 DEF RecInside
  <1>d. depth \in [Threads -> Nat]
    BY ClientsAssumption DEF RecTypeOK
  <1>1. ASSUME NEW t \in Threads, locking_thread = NoThread, depth[t] = 0,
               depth' = [depth EXCEPT ![t] = @ + 1]
        PROVE  RecAccess!Next
    <2>1. RecInside = [u \in Threads |-> "NONE"]
      BY <1>1, <1>d, ClientsAssumption DEF RecInside, RecOwnerHoldsAll
    <2>2. RecInside' = [RecInside EXCEPT ![t] = "WRITER"]
      <3>1. depth'[t] = 1 /\ \A u \in Threads \ {t} : depth'[u] = depth[u]
        BY <1>1, <1>d
      <3> QED
        BY <3>1, RecInsideAfter
    <2>3. RecAccess!Users("WRITER") = {}
      BY <2>1 DEF RecAccess!Users, RecInside
    <2>4. RecAccess!Cardinality(RecAccess!Users("WRITER")) < 1
      BY <2>3, FS_EmptySet, RecSameCount
    <2>5. RecAccess!Enter(t, "WRITER")
      <3> SUFFICES /\ RecInside[t] = "NONE"
                   /\ \A u \in Threads : RecInside[u] \in {"NONE", "WRITER"}
                   /\ RecInside' = [RecInside EXCEPT ![t] = "WRITER"]
        BY <2>4 DEF RecAccess!Enter, RecInside
      <3> QED
        BY <1>1, <2>1, <2>2
    <2> QED
      BY <1>1, <2>5 DEF RecAccess!Next, RecAccess!Classes
  <1>2. ASSUME NEW t \in Threads, NEW d \in Nat, depth[t] > 0, d > 0,
               depth' = [depth EXCEPT ![t] = d]
        PROVE  UNCHANGED RecInside
    BY <1>2, <1>d DEF RecInside
  <1>3. ASSUME NEW t \in Threads, depth[t] = 1, depth' = [depth EXCEPT ![t] = @ - 1]
        PROVE  RecAccess!Next
    <2>1. depth'[t] = 0 /\ \A u \in Threads \ {t} : depth'[u] = depth[u]
      BY <1>3, <1>d
    <2>2. RecInside[t] = "WRITER" /\ RecInside' = [RecInside EXCEPT ![t] = "NONE"]
      BY <1>3, <2>1, RecInsideAfter DEF RecInside
    <2>3. RecAccess!Leave(t)
      BY <1>3, <2>2 DEF RecAccess!Leave, RecInside
    <2> QED
      BY <2>3 DEF RecAccess!Next
  <1>4. ASSUME NEW t \in Threads, rec_mutex_lock(t)
        PROVE  RecAccess!Next \/ UNCHANGED RecInside
    <2>1. CASE n = 0 \/ locking_thread = t
      <3>1. depth' = [depth EXCEPT ![t] = @ + 1]
        BY <1>4, <2>1 DEF rec_mutex_lock, rec_must_wait, rec_acquire, RecOwnerHoldsAll
      <3>2. CASE n = 0
        BY <1>1, <3>1, <3>2, ClientsAssumption DEF RecOwnerHoldsAll
      <3>3. CASE n # 0
        <4>1. depth[t] > 0 /\ depth[t] + 1 \in Nat /\ depth[t] + 1 > 0
          BY <1>d, <2>1, <3>3 DEF RecOwnerHoldsAll
        <4> QED
          BY <1>2, <3>1, <4>1
      <3> QED
        BY <3>2, <3>3
    <2>2. CASE ~(n = 0 \/ locking_thread = t)
      BY <1>0, <1>4, <2>2 DEF rec_mutex_lock
    <2> QED
      BY <2>1, <2>2
  <1>5. ASSUME NEW t \in Threads, rec_mutex_lock_woken(t)
        PROVE  RecAccess!Next \/ UNCHANGED RecInside
    <2>1. CASE rec_must_wait(t)
      BY <1>0, <1>5, <2>1 DEF rec_mutex_lock_woken
    <2>2. CASE ~rec_must_wait(t)
      <3>1. /\ depth' = [depth EXCEPT ![t] = @ + 1]
            /\ locking_thread = NoThread /\ n = 0
        BY <1>5, <2>2 DEF rec_mutex_lock_woken, rec_must_wait, RecOwnerRuns, RecOwnerHoldsAll
      <3> QED
        BY <1>1, <3>1, ClientsAssumption DEF RecOwnerHoldsAll
    <2> QED
      BY <2>1, <2>2
  <1>6. ASSUME NEW t \in Threads, rec_spurious_wakeup(t)
        PROVE  RecAccess!Next \/ UNCHANGED RecInside
    BY <1>0, <1>6 DEF rec_spurious_wakeup
  <1>7. ASSUME NEW t \in Threads, rec_mutex_unlock(t)
        PROVE  RecAccess!Next \/ UNCHANGED RecInside
    <2>1. depth[t] > 0 /\ depth' = [depth EXCEPT ![t] = @ - 1]
      BY <1>7 DEF rec_mutex_unlock
    <2>2. CASE depth[t] = 1
      BY <1>3, <2>1, <2>2
    <2>3. CASE depth[t] # 1
      <3>1. depth[t] - 1 \in Nat /\ depth[t] - 1 > 0
        BY <1>d, <2>1, <2>3
      <3> QED
        BY <1>2, <2>1, <3>1
    <2> QED
      BY <2>2, <2>3
  <1>8. CASE UNCHANGED recVars
    BY <1>0, <1>8 DEF recVars
  <1> QED
    BY <1>4, <1>5, <1>6, <1>7, <1>8 DEF RecNext

\* The recursive mutex implements the reader/writer access with one writer.
THEOREM RecRefinesAccess == RecSpec => RecImplementsAccess
  <1>1. RecInit => RecAccess!Init
    BY DEF RecInit, RecAccess!Init, RecAccess!Classes
  <1> QED
    BY <1>1, RecInvInit, RecInvNext, RecStepSimulation, PTL
       DEF RecSpec, RecImplementsAccess, RecAccess!Spec

-----------------------------------------------------------------------------
\* The read/write lock.

RWInv == RWTypeOK /\ RWExclusion /\ RWNoLostWakeup

\* The clients' places are finite in number.
LEMMA PlacesFinite == IsFiniteSet(Places)
  <1>1. IsFiniteSet(1 .. MaxDepth)
    BY FS_Interval, ClientsAssumption
  <1> QED
    BY <1>1, FS_Product, ClientsAssumption DEF Places

----------------------------------------------------------------------------

\* A fresh lock satisfies the inductive invariant.
LEMMA RWInvInit == RWInit => RWInv
  <1> SUFFICES ASSUME RWInit PROVE RWInv
    OBVIOUS
  <1> USE DEF RWInit
  <1>1. RWTypeOK
    <2>1. 0 \in 0 .. Wrap - 1
      BY ClientsAssumption
    <2> QED
      BY <2>1 DEF RWTypeOK
  <1>2. RWExclusion
    BY FS_EmptySet DEF RWExclusion
  <1>3. RWNoLostWakeup
    BY DEF RWNoLostWakeup
  <1> QED
    BY <1>1, <1>2, <1>3 DEF RWInv

\* One more lock is counted without wrapping around.
LEMMA OneMoreLock ==
    ASSUME NEW held \in SUBSET Places, NEW p \in Places, p \notin held
    PROVE  /\ Cardinality(held \cup {p}) = Cardinality(held) + 1
           /\ Cardinality(held) + 1 \in 1 .. Wrap - 1
           /\ (Cardinality(held) + 1) % Wrap = Cardinality(held) + 1
  <1>1. /\ Cardinality(held \cup {p}) = Cardinality(held) + 1
        /\ Cardinality(held) + 1 <= Cardinality(Places)
    BY PlacesFinite, CountOneMore
  <1>2. Cardinality(held) \in Nat /\ Cardinality(Places) \in Nat
    BY PlacesFinite, CountOfSubset
  <1>3. Cardinality(held) + 1 < Wrap /\ Cardinality(held) + 1 \in Nat /\ Wrap \in Nat
    BY <1>1, <1>2, ClientsAssumption
  <1>4. (Cardinality(held) + 1) % Wrap = Cardinality(held) + 1
    BY <1>3, NoWrap
  <1> QED
    BY <1>1, <1>2, <1>3, <1>4

\* A read lock given to a thread while no writer holds the lock.
LEMMA CountReaderStep ==
    ASSUME RWInv, NEW t \in Threads, ~is_locked_by_writer, rw_count_reader(t),
           is_locked_by_reader' = TRUE
    PROVE  /\ n_locks' \in 1 .. Wrap - 1
           /\ rd_held' \in SUBSET Places /\ rd_held' # {}
           /\ n_locks' = Cardinality(rd_held') + Cardinality(wr_held')
           /\ UNCHANGED <<is_locked_by_writer, writer_thread, wr_held>>
  <1> PICK k \in 1 .. MaxDepth : <<t, k>> \notin rd_held /\ rd_held' = rd_held \cup {<<t, k>>}
    BY DEF rw_count_reader
  <1>1. wr_held = {} /\ wr_held' = {} /\ Cardinality(wr_held) = 0 /\ Cardinality(wr_held') = 0
    BY FS_EmptySet DEF RWInv, RWExclusion, rw_count_reader
  <1>2. <<t, k>> \in Places
    BY DEF Places
  <1>3. /\ Cardinality(rd_held') = Cardinality(rd_held) + 1
        /\ Cardinality(rd_held) + 1 \in 1 .. Wrap - 1
        /\ (Cardinality(rd_held) + 1) % Wrap = Cardinality(rd_held) + 1
    BY <1>2, OneMoreLock DEF RWInv, RWTypeOK
  <1>4. Cardinality(rd_held) \in Nat
    BY CountOfSubset, PlacesFinite DEF RWInv, RWTypeOK
  <1>5. n_locks = Cardinality(rd_held)
    BY <1>1, <1>4 DEF RWInv, RWExclusion
  <1>6. n_locks' = Cardinality(rd_held')
    BY <1>3, <1>5 DEF rw_count_reader
  <1>7. rd_held' \in SUBSET Places /\ rd_held' # {}
    BY <1>2 DEF RWInv, RWTypeOK
  <1>8. UNCHANGED <<is_locked_by_writer, writer_thread, wr_held>>
    BY DEF rw_count_reader
  <1> QED
    BY <1>1, <1>3, <1>4, <1>6, <1>7, <1>8

\* A write lock given to a thread that finds the lock free, or its own.
LEMMA CountWriterStep ==
    ASSUME RWInv, NEW t \in Threads, ~is_locked_by_reader,
           is_locked_by_writer => writer_thread = t, rw_count_writer(t)
    PROVE  /\ n_locks' \in 1 .. Wrap - 1
           /\ wr_held' \in SUBSET Places /\ wr_held' # {}
           /\ wr_held' \subseteq {t} \X (1 .. MaxDepth)
           /\ n_locks' = Cardinality(rd_held') + Cardinality(wr_held')
           /\ rd_held' = {} /\ ~is_locked_by_reader'
           /\ is_locked_by_writer' = TRUE /\ writer_thread' = t
  <1> PICK k \in 1 .. MaxDepth : <<t, k>> \notin wr_held /\ wr_held' = wr_held \cup {<<t, k>>}
    BY DEF rw_count_writer
  <1>1. rd_held = {} /\ rd_held' = {} /\ Cardinality(rd_held) = 0 /\ Cardinality(rd_held') = 0
    BY FS_EmptySet DEF RWInv, RWExclusion, rw_count_writer
  <1>2. <<t, k>> \in Places
    BY DEF Places
  <1>3. /\ Cardinality(wr_held') = Cardinality(wr_held) + 1
        /\ Cardinality(wr_held) + 1 \in 1 .. Wrap - 1
        /\ (Cardinality(wr_held) + 1) % Wrap = Cardinality(wr_held) + 1
    BY <1>2, OneMoreLock DEF RWInv, RWTypeOK
  <1>4. Cardinality(wr_held) \in Nat
    BY CountOfSubset, PlacesFinite DEF RWInv, RWTypeOK
  <1>5. n_locks = Cardinality(wr_held)
    BY <1>1, <1>4 DEF RWInv, RWExclusion
  <1>6. n_locks' = Cardinality(wr_held')
    BY <1>3, <1>5 DEF rw_count_writer
  <1>7. wr_held' \in SUBSET Places /\ wr_held' # {}
    BY <1>2 DEF RWInv, RWTypeOK
  <1>8. wr_held \subseteq {t} \X (1 .. MaxDepth)
    BY DEF RWInv, RWExclusion
  <1>9. UNCHANGED is_locked_by_reader /\ is_locked_by_writer' = TRUE /\ writer_thread' = t
    BY DEF rw_count_writer
  <1> QED
    BY <1>1, <1>3, <1>4, <1>6, <1>7, <1>8, <1>9

\* One more waiter is counted without wrapping around, one less without
\* going below zero.
LEMMA WaiterCount ==
    ASSUME NEW S \in SUBSET Threads
    PROVE  /\ Cardinality(S) = 0 <=> S = {}
           /\ \A t \in Threads \ S : /\ Cardinality(S \cup {t}) = Cardinality(S) + 1
                                     /\ Cardinality(S) + 1 \in 0 .. Wrap - 1
           /\ \A t \in S : /\ Cardinality(S \ {t}) = Cardinality(S) - 1
                           /\ Cardinality(S) - 1 \in 0 .. Wrap - 1
  <1>1. /\ Cardinality(S) \in Nat /\ Cardinality(Threads) \in Nat
        /\ Cardinality(S) <= Cardinality(Threads) /\ Cardinality(Threads) < Wrap
        /\ Cardinality(S) = 0 <=> S = {}
    BY CountOfSubset, ClientsAssumption
  <1>2. ASSUME NEW t \in Threads \ S
        PROVE  /\ Cardinality(S \cup {t}) = Cardinality(S) + 1
               /\ Cardinality(S) + 1 \in 0 .. Wrap - 1
    <2>1. /\ Cardinality(S \cup {t}) = Cardinality(S) + 1
          /\ Cardinality(S) + 1 <= Cardinality(Threads)
      BY CountOneMore, ClientsAssumption
    <2> QED
      BY <1>1, <2>1, ClientsAssumption
  <1>3. ASSUME NEW t \in S
        PROVE  /\ Cardinality(S \ {t}) = Cardinality(S) - 1
               /\ Cardinality(S) - 1 \in 0 .. Wrap - 1
    <2>1. Cardinality(S \ {t}) = Cardinality(S) - 1 /\ Cardinality(S) > 0
      BY CountOneLess, ClientsAssumption
    <2> QED
      BY <1>1, <2>1, ClientsAssumption
  <1> QED
    BY <1>1, <1>2, <1>3

\* The broadcast of the last unlock reaches everybody asleep: if nobody is
\* counted as waiting, nobody is asleep.
LEMMA BroadcastReachesAll == ASSUME RWInv, rw_broadcast PROVE rw_asleep' = {}
  <1>1. CASE n_reader_waiting > 0 \/ n_writer_waiting > 0
    BY <1>1 DEF rw_broadcast
  <1>2. CASE ~(n_reader_waiting > 0 \/ n_writer_waiting > 0)
    <2>1. n_reader_waiting = 0 /\ n_writer_waiting = 0
      BY <1>2 DEF RWInv, RWTypeOK
    <2>2. rd_waiting = {} /\ wr_waiting = {}
      BY <2>1, WaiterCount DEF RWInv, RWTypeOK, RWExclusion
    <2> QED
      BY <1>2, <2>2 DEF rw_broadcast, RWInv, RWTypeOK
  <1> QED
    BY <1>1, <1>2

\* One lock less: what an unlock does to the count of the locks held.
LEMMA OneLockLess ==
    ASSUME NEW held \in SUBSET Places, NEW p \in held
    PROVE  /\ Cardinality(held \ {p}) = Cardinality(held) - 1
           /\ Cardinality(held) \in Nat /\ Cardinality(held) > 0
           /\ Cardinality(held) = 1 <=> held \ {p} = {}
  <1>1. Cardinality(held \ {p}) = Cardinality(held) - 1 /\ Cardinality(held) > 0
    BY PlacesFinite, CountOneLess
  <1>2. Cardinality(held) \in Nat /\ Cardinality(held \ {p}) \in Nat
    BY PlacesFinite, CountOfSubset
  <1>3. Cardinality(held \ {p}) = 0 <=> held \ {p} = {}
    <2>1. held \ {p} \in SUBSET Places
      OBVIOUS
    <2> QED
      BY <2>1, PlacesFinite, CountOfSubset
  <1> QED
    BY <1>1, <1>2, <1>3

\* A reader that gets the lock leaves the invariant intact, whoever waits.
LEMMA ReaderGranted ==
    ASSUME RWInv, NEW t \in Threads, ~is_locked_by_writer, rw_count_reader(t),
           is_locked_by_reader' = TRUE, UNCHANGED <<n_writer_waiting, rw_asleep, wr_waiting>>,
           rd_waiting' \in SUBSET Threads, rw_asleep' \subseteq rd_waiting' \cup wr_waiting',
           n_reader_waiting' \in 0 .. Wrap - 1, n_reader_waiting' = Cardinality(rd_waiting')
    PROVE  RWInv'
  <1>1. /\ n_locks' \in 1 .. Wrap - 1
        /\ rd_held' \in SUBSET Places /\ rd_held' # {}
        /\ n_locks' = Cardinality(rd_held') + Cardinality(wr_held')
        /\ UNCHANGED <<is_locked_by_writer, writer_thread, wr_held>>
    BY CountReaderStep
  <1>2. n_locks' \in 0 .. Wrap - 1 /\ n_locks' # 0
    BY <1>1, ClientsAssumption
  <1>3. RWTypeOK'
    BY <1>1, <1>2 DEF RWTypeOK, RWInv
  <1>4. RWExclusion'
    BY <1>1 DEF RWExclusion, RWInv
  <1>5. RWNoLostWakeup'
    BY <1>2 DEF RWNoLostWakeup
  <1> QED
    BY <1>3, <1>4, <1>5 DEF RWInv

\* So does a writer that gets the lock.
LEMMA WriterGranted ==
    ASSUME RWInv, NEW t \in Threads, ~is_locked_by_reader,
           is_locked_by_writer => writer_thread = t, rw_count_writer(t),
           UNCHANGED <<n_reader_waiting, rw_asleep, rd_waiting>>,
           wr_waiting' \in SUBSET Threads, rw_asleep' \subseteq rd_waiting' \cup wr_waiting',
           n_writer_waiting' \in 0 .. Wrap - 1, n_writer_waiting' = Cardinality(wr_waiting')
    PROVE  RWInv'
  <1>1. /\ n_locks' \in 1 .. Wrap - 1
        /\ wr_held' \in SUBSET Places /\ wr_held' # {}
        /\ wr_held' \subseteq {t} \X (1 .. MaxDepth)
        /\ n_locks' = Cardinality(rd_held') + Cardinality(wr_held')
        /\ rd_held' = {} /\ ~is_locked_by_reader'
        /\ is_locked_by_writer' = TRUE /\ writer_thread' = t
    BY CountWriterStep
  <1>2. n_locks' \in 0 .. Wrap - 1 /\ n_locks' # 0 /\ t # NoThread
    BY <1>1, ClientsAssumption
  <1>3. UNCHANGED is_locked_by_reader
    BY DEF rw_count_writer
  <1>4. RWTypeOK'
    BY <1>1, <1>2, <1>3 DEF RWTypeOK, RWInv
  <1>5. RWExclusion'
    BY <1>1, <1>2 DEF RWExclusion, RWInv
  <1>6. RWNoLostWakeup'
    BY <1>2 DEF RWNoLostWakeup
  <1> QED
    BY <1>4, <1>5, <1>6 DEF RWInv

\* A thread that goes to sleep, or sleeps again, does so on a lock that is held.
LEMMA WaiterSleeps ==
    ASSUME RWInv, is_locked_by_reader \/ is_locked_by_writer,
           UNCHANGED <<rwFields, rd_held, wr_held>>,
           rd_waiting' \in SUBSET Threads, wr_waiting' \in SUBSET Threads,
           rw_asleep' \subseteq rd_waiting' \cup wr_waiting',
           n_reader_waiting' \in 0 .. Wrap - 1, n_reader_waiting' = Cardinality(rd_waiting'),
           n_writer_waiting' \in 0 .. Wrap - 1, n_writer_waiting' = Cardinality(wr_waiting')
    PROVE  RWInv'
  <1>1. RWTypeOK'
    BY DEF RWTypeOK, RWInv, rwFields
  <1>2. RWExclusion'
    BY DEF RWExclusion, RWInv, rwFields
  <1>3. n_locks # 0
    <2>1. /\ Cardinality(rd_held) \in Nat /\ Cardinality(wr_held) \in Nat
          /\ Cardinality(rd_held) = 0 <=> rd_held = {}
          /\ Cardinality(wr_held) = 0 <=> wr_held = {}
      BY PlacesFinite, CountOfSubset DEF RWInv, RWTypeOK
    <2> QED
      BY <2>1 DEF RWInv, RWExclusion
  <1>4. RWNoLostWakeup'
    BY <1>3 DEF RWNoLostWakeup, rwFields
  <1> QED
    BY <1>1, <1>2, <1>4 DEF RWInv

\* An unlock by the writer, nested or last, leaves the invariant intact.
LEMMA UnlockWriterStep == ASSUME RWInv, NEW t \in Threads, rw_unlock_writer(t) PROVE RWInv'
  <1> PICK k \in 1 .. MaxDepth : <<t, k>> \in wr_held /\ wr_held' = wr_held \ {<<t, k>>}
    BY DEF rw_unlock_writer
  <1>1. rd_held = {} /\ rd_held' = {} /\ Cardinality(rd_held) = 0 /\ Cardinality(rd_held') = 0
    BY FS_EmptySet DEF RWInv, RWExclusion, rw_unlock_writer
  <1>2. /\ Cardinality(wr_held') = Cardinality(wr_held) - 1
        /\ Cardinality(wr_held) \in Nat /\ Cardinality(wr_held) > 0
        /\ Cardinality(wr_held) = 1 <=> wr_held' = {}
    BY OneLockLess DEF RWInv, RWTypeOK
  <1>3. n_locks = Cardinality(wr_held)
    BY <1>1, <1>2 DEF RWInv, RWExclusion
  <1>4. n_locks' = n_locks - 1
    BY DEF rw_unlock_writer
  <1>5. n_locks' = Cardinality(rd_held') + Cardinality(wr_held')
    BY <1>1, <1>2, <1>3, <1>4
  <1>6. n_locks' \in 0 .. Wrap - 1
    BY <1>2, <1>3, <1>4, ClientsAssumption DEF RWInv, RWTypeOK
  <1>7. UNCHANGED <<is_locked_by_reader, rwCounts, rd_waiting, wr_waiting, rd_held>>
    BY DEF rw_unlock_writer
  <1>8. CASE n_locks = 1
    <2>1. is_locked_by_writer' = FALSE /\ writer_thread' = NoThread /\ rw_asleep' = {}
      BY <1>8, BroadcastReachesAll DEF rw_unlock_writer
    <2>2. wr_held' = {}
      BY <1>2, <1>3, <1>8
    <2>3. RWTypeOK'
      BY <1>1, <1>6, <1>7, <2>1, <2>2 DEF RWInv, RWTypeOK, rwCounts
    <2>4. RWExclusion'
      BY <1>1, <1>5, <1>7, <2>1, <2>2 DEF RWInv, RWExclusion, rwCounts
    <2> QED
      BY <2>1, <2>3, <2>4 DEF RWInv, RWNoLostWakeup
  <1>9. CASE n_locks # 1
    <2>1. UNCHANGED <<rw_asleep, is_locked_by_writer, writer_thread>>
      BY <1>9 DEF rw_unlock_writer
    <2>2. wr_held' # {} /\ n_locks' # 0
      BY <1>2, <1>3, <1>4, <1>9
    <2>3. RWTypeOK'
      BY <1>6, <1>7, <2>1 DEF RWInv, RWTypeOK, rwCounts
    <2>4. RWExclusion'
      BY <1>1, <1>5, <1>7, <2>1, <2>2 DEF RWInv, RWExclusion, rwCounts
    <2> QED
      BY <2>2, <2>3, <2>4 DEF RWInv, RWNoLostWakeup
  <1> QED
    BY <1>8, <1>9

\* An unlock by a reader, one of several or the last.
LEMMA UnlockReaderStep == ASSUME RWInv, NEW t \in Threads, rw_unlock_reader(t) PROVE RWInv'
  <1> PICK k \in 1 .. MaxDepth : <<t, k>> \in rd_held /\ rd_held' = rd_held \ {<<t, k>>}
    BY DEF rw_unlock_reader
  <1>1. wr_held = {} /\ wr_held' = {} /\ Cardinality(wr_held) = 0 /\ Cardinality(wr_held') = 0
    BY FS_EmptySet DEF RWInv, RWExclusion, rw_unlock_reader
  <1>2. /\ Cardinality(rd_held') = Cardinality(rd_held) - 1
        /\ Cardinality(rd_held) \in Nat /\ Cardinality(rd_held) > 0
        /\ Cardinality(rd_held) = 1 <=> rd_held' = {}
    BY OneLockLess DEF RWInv, RWTypeOK
  <1>3. n_locks = Cardinality(rd_held)
    BY <1>1, <1>2 DEF RWInv, RWExclusion
  <1>4. n_locks' = n_locks - 1
    BY DEF rw_unlock_reader
  <1>5. n_locks' = Cardinality(rd_held') + Cardinality(wr_held')
    BY <1>1, <1>2, <1>3, <1>4
  <1>6. n_locks' \in 0 .. Wrap - 1
    BY <1>2, <1>3, <1>4, ClientsAssumption DEF RWInv, RWTypeOK
  <1>7. UNCHANGED <<is_locked_by_writer, writer_thread, rwCounts, rd_waiting, wr_waiting, wr_held>>
    BY DEF rw_unlock_reader
  <1>8. CASE n_locks = 1
    <2>1. is_locked_by_reader' = FALSE /\ rw_asleep' = {}
      BY <1>8, BroadcastReachesAll DEF rw_unlock_reader
    <2>2. rd_held' = {}
      BY <1>2, <1>3, <1>8
    <2>3. RWTypeOK'
      BY <1>6, <1>7, <2>1, <2>2 DEF RWInv, RWTypeOK, rwCounts
    <2>4. RWExclusion'
      BY <1>1, <1>5, <1>7, <2>1, <2>2 DEF RWInv, RWExclusion, rwCounts
    <2> QED
      BY <2>1, <2>3, <2>4 DEF RWInv, RWNoLostWakeup
  <1>9. CASE n_locks # 1
    <2>1. UNCHANGED <<rw_asleep, is_locked_by_reader>>
      BY <1>9 DEF rw_unlock_reader
    <2>2. rd_held' # {} /\ n_locks' # 0
      BY <1>2, <1>3, <1>4, <1>9
    <2>3. RWTypeOK'
      BY <1>6, <1>7, <2>1 DEF RWInv, RWTypeOK, rwCounts
    <2>4. RWExclusion'
      BY <1>1, <1>5, <1>7, <2>1, <2>2 DEF RWInv, RWExclusion, rwCounts
    <2> QED
      BY <2>2, <2>3, <2>4 DEF RWInv, RWNoLostWakeup
  <1> QED
    BY <1>8, <1>9

\* Every step of the read/write lock preserves the inductive invariant.
LEMMA RWInvNext == RWInv /\ [RWNext]_rwVars => RWInv'
  <1> SUFFICES ASSUME RWInv, [RWNext]_rwVars PROVE RWInv'
    OBVIOUS
  <1>0. /\ rd_waiting \in SUBSET Threads /\ wr_waiting \in SUBSET Threads
        /\ rw_asleep \subseteq rd_waiting \cup wr_waiting
        /\ n_reader_waiting \in 0 .. Wrap - 1 /\ n_reader_waiting = Cardinality(rd_waiting)
        /\ n_writer_waiting \in 0 .. Wrap - 1 /\ n_writer_waiting = Cardinality(wr_waiting)
    BY DEF RWInv, RWTypeOK, RWExclusion
  <1>1. CASE UNCHANGED rwVars
    BY <1>1 DEF rwVars, rwFields, rwCounts, RWInv, RWTypeOK, RWExclusion, RWNoLostWakeup
  <1>2. ASSUME NEW t \in Threads, rw_lock_rd_lock(t) PROVE RWInv'
    <2>1. CASE ~is_locked_by_writer
      <3>1. /\ rw_count_reader(t) /\ is_locked_by_reader' = TRUE
            /\ UNCHANGED <<rwCounts, rw_asleep, rd_waiting, wr_waiting>>
        BY <1>2, <2>1 DEF rw_lock_rd_lock
      <3> QED
        BY <1>0, <2>1, <3>1, ReaderGranted DEF rwCounts
    <2>2. CASE is_locked_by_writer
      <3>1. /\ t \notin rd_waiting
            /\ n_reader_waiting' = n_reader_waiting + 1
            /\ rd_waiting' = rd_waiting \cup {t}
            /\ rw_asleep' = rw_asleep \cup {t}
            /\ UNCHANGED <<rwFields, n_writer_waiting, wr_waiting, rd_held, wr_held>>
        BY <1>2, <2>2 DEF rw_lock_rd_lock, rw_running
      <3>2. n_reader_waiting' \in 0 .. Wrap - 1 /\ n_reader_waiting' = Cardinality(rd_waiting')
        BY <1>0, <3>1, WaiterCount
      <3> QED
        BY <1>0, <2>2, <3>1, <3>2, WaiterSleeps
    <2> QED
      BY <2>1, <2>2
  <1>3. ASSUME NEW t \in Threads, rw_lock_rd_woken(t) PROVE RWInv'
    <2>1. CASE is_locked_by_writer
      <3>1. /\ t \in rd_waiting /\ rw_asleep' = rw_asleep \cup {t}
            /\ UNCHANGED <<rwFields, rwCounts, rd_waiting, wr_waiting, rd_held, wr_held>>
        BY <1>3, <2>1 DEF rw_lock_rd_woken
      <3> QED
        BY <1>0, <2>1, <3>1, WaiterSleeps DEF rwCounts
    <2>2. CASE ~is_locked_by_writer
      <3>1. /\ t \in rd_waiting \ rw_asleep
            /\ is_locked_by_reader' = (is_locked_by_reader \/ n_locks = 0)
            /\ rw_count_reader(t)
            /\ n_reader_waiting' = n_reader_waiting - 1
            /\ rd_waiting' = rd_waiting \ {t}
            /\ UNCHANGED <<n_writer_waiting, rw_asleep, wr_waiting>>
        BY <1>3, <2>2 DEF rw_lock_rd_woken
      <3>2. is_locked_by_reader' = TRUE
        <4>1. ~is_locked_by_reader => rd_held = {} /\ wr_held = {}
          BY <2>2 DEF RWInv, RWExclusion
        <4>2. ~is_locked_by_reader => n_locks = 0
          <5>1. n_locks = Cardinality(rd_held) + Cardinality(wr_held)
            BY DEF RWInv, RWExclusion
          <5>2. Cardinality({}) = 0
            BY FS_EmptySet
          <5> QED
            BY <4>1, <5>1, <5>2
        <4> QED
          BY <3>1, <4>2
      <3>3. n_reader_waiting' \in 0 .. Wrap - 1 /\ n_reader_waiting' = Cardinality(rd_waiting')
        BY <1>0, <3>1, WaiterCount
      <3>4. rw_asleep' \subseteq rd_waiting' \cup wr_waiting'
        BY <1>0, <3>1
      <3> QED
        BY <1>0, <2>2, <3>1, <3>2, <3>3, <3>4, ReaderGranted
    <2> QED
      BY <2>1, <2>2
  <1>4. ASSUME NEW t \in Threads, rw_lock_wr_lock(t) PROVE RWInv'
    <2>1. CASE \/ ~is_locked_by_reader /\ ~is_locked_by_writer
               \/ is_locked_by_writer /\ writer_thread = t
      <3>1. rw_count_writer(t) /\ UNCHANGED <<rwCounts, rw_asleep, rd_waiting, wr_waiting>>
        BY <1>4, <2>1 DEF rw_lock_wr_lock
      <3>2. ~is_locked_by_reader /\ (is_locked_by_writer => writer_thread = t)
        BY <2>1 DEF RWInv, RWExclusion
      <3> QED
        BY <1>0, <3>1, <3>2, WriterGranted DEF rwCounts
    <2>2. CASE ~(\/ ~is_locked_by_reader /\ ~is_locked_by_writer
                 \/ is_locked_by_writer /\ writer_thread = t)
      <3>1. /\ t \notin wr_waiting
            /\ n_writer_waiting' = n_writer_waiting + 1
            /\ wr_waiting' = wr_waiting \cup {t}
            /\ rw_asleep' = rw_asleep \cup {t}
            /\ UNCHANGED <<rwFields, n_reader_waiting, rd_waiting, rd_held, wr_held>>
        BY <1>4, <2>2 DEF rw_lock_wr_lock, rw_running
      <3>2. n_writer_waiting' \in 0 .. Wrap - 1 /\ n_writer_waiting' = Cardinality(wr_waiting')
        BY <1>0, <3>1, WaiterCount
      <3> QED
        BY <1>0, <2>2, <3>1, <3>2, WaiterSleeps
    <2> QED
      BY <2>1, <2>2
  <1>5. ASSUME NEW t \in Threads, rw_lock_wr_woken(t) PROVE RWInv'
    <2>1. CASE is_locked_by_reader \/ is_locked_by_writer
      <3>1. /\ t \in wr_waiting /\ rw_asleep' = rw_asleep \cup {t}
            /\ UNCHANGED <<rwFields, rwCounts, rd_waiting, wr_waiting, rd_held, wr_held>>
        BY <1>5, <2>1 DEF rw_lock_wr_woken
      <3> QED
        BY <1>0, <2>1, <3>1, WaiterSleeps DEF rwCounts
    <2>2. CASE ~(is_locked_by_reader \/ is_locked_by_writer)
      <3>1. /\ t \in wr_waiting \ rw_asleep
            /\ rw_count_writer(t)
            /\ n_writer_waiting' = n_writer_waiting - 1
            /\ wr_waiting' = wr_waiting \ {t}
            /\ UNCHANGED <<n_reader_waiting, rw_asleep, rd_waiting>>
        BY <1>5, <2>2 DEF rw_lock_wr_woken
      <3>2. n_writer_waiting' \in 0 .. Wrap - 1 /\ n_writer_waiting' = Cardinality(wr_waiting')
        BY <1>0, <3>1, WaiterCount
      <3>3. rw_asleep' \subseteq rd_waiting' \cup wr_waiting'
        BY <1>0, <3>1
      <3> QED
        BY <1>0, <2>2, <3>1, <3>2, <3>3, WriterGranted
    <2> QED
      BY <2>1, <2>2
  <1>6. ASSUME NEW t \in Threads, rw_spurious_wakeup(t) PROVE RWInv'
    BY <1>6 DEF rw_spurious_wakeup, rwFields, rwCounts, RWInv, RWTypeOK, RWExclusion,
                RWNoLostWakeup
  <1>7. ASSUME NEW t \in Threads, rw_lock_unlock(t) PROVE RWInv'
    BY <1>7, UnlockWriterStep, UnlockReaderStep DEF rw_lock_unlock
  <1> QED
    BY <1>1, <1>2, <1>3, <1>4, <1>5, <1>6, <1>7 DEF RWNext

\* The counters and sets of the read/write lock keep their types: n_locks does
\* not wrap around as long as the places of the clients fit in it.
THEOREM RWTypeCorrect == RWSpec => []RWTypeOK
  BY RWInvInit, RWInvNext, PTL DEF RWSpec, RWInv

\* Readers and the writer exclude each other, and the fields say who is in.
THEOREM RWMutualExclusion == RWSpec => []RWExclusion
  BY RWInvInit, RWInvNext, PTL DEF RWSpec, RWInv

\* Nobody sleeps on a free lock.
THEOREM RWWakeupsKept == RWSpec => []RWNoLostWakeup
  BY RWInvInit, RWInvNext, PTL DEF RWSpec, RWInv

----------------------------------------------------------------------------
\* The lock as a reader/writer access.

RWInside == [t \in Threads |-> IF rw_holds(t, rd_held) THEN "READER"
                               ELSE IF rw_holds(t, wr_held) THEN "WRITER"
                               ELSE "NONE"]
RWLimit == [c \in {"READER", "WRITER"} |-> IF c = "READER" THEN Cardinality(Threads) ELSE 1]

\* Both modules mean the same by the size of a set.
LEMMA RWSameCount == ASSUME NEW S PROVE RWLockAccess!Cardinality(S) = Cardinality(S)
  BY DEF RWLockAccess!Cardinality, Cardinality

\* What t holds does not change what the others are inside as.
LEMMA RWInsideAfter ==
    ASSUME NEW t \in Threads, NEW c,
           \A u \in Threads \ {t} : /\ rw_holds(u, rd_held') <=> rw_holds(u, rd_held)
                                    /\ rw_holds(u, wr_held') <=> rw_holds(u, wr_held),
           RWInside'[t] = c
    PROVE  RWInside' = [RWInside EXCEPT ![t] = c]
  <1>1. \A u \in Threads \ {t} : RWInside'[u] = RWInside[u]
    BY DEF RWInside
  <1>2. \A u \in Threads : RWInside'[u] = [RWInside EXCEPT ![t] = c][u]
    BY <1>1 DEF RWInside
  <1>3. RWInside' = [u \in Threads |-> RWInside'[u]]
    BY DEF RWInside
  <1>4. [RWInside EXCEPT ![t] = c] = [u \in Threads |-> [RWInside EXCEPT ![t] = c][u]]
    BY DEF RWInside
  <1> QED
    BY <1>2, <1>3, <1>4

\* A thread that does not hold the lock gets a read lock.
LEMMA RWEnterReader ==
    ASSUME RWInv, NEW t \in Threads, NEW k \in 1 .. MaxDepth, wr_held = {}, wr_held' = {},
           rd_held' = rd_held \cup {<<t, k>>}
    PROVE  RWLockAccess!Next \/ UNCHANGED RWInside
  <1>1. \A u \in Threads : ~rw_holds(u, wr_held) /\ ~rw_holds(u, wr_held')
    BY DEF rw_holds
  <1>2. rw_holds(t, rd_held') /\ \A u \in Threads \ {t} : rw_holds(u, rd_held') <=> rw_holds(u, rd_held)
    BY DEF rw_holds
  <1>3. RWInside'[t] = "READER"
    BY <1>2 DEF RWInside
  <1>4. RWInside' = [RWInside EXCEPT ![t] = "READER"]
    BY <1>1, <1>2, <1>3, RWInsideAfter
  <1>5. CASE rw_holds(t, rd_held)
    BY <1>4, <1>5 DEF RWInside
  <1>6. CASE ~rw_holds(t, rd_held)
    <2>1. RWInside[t] = "NONE" /\ \A u \in Threads : RWInside[u] \in {"NONE", "READER"}
      BY <1>1, <1>6 DEF RWInside
    <2>2. RWLockAccess!Users("READER") \in SUBSET Threads /\ t \notin RWLockAccess!Users("READER")
      BY <1>1, <1>6 DEF RWLockAccess!Users
    <2>3. /\ Cardinality(RWLockAccess!Users("READER")) + 1 <= Cardinality(Threads)
          /\ Cardinality(RWLockAccess!Users("READER")) \in Nat /\ Cardinality(Threads) \in Nat
      BY <2>2, CountOneMore, CountOfSubset, ClientsAssumption
    <2>4. RWLockAccess!Cardinality(RWLockAccess!Users("READER")) < Cardinality(Threads)
      BY <2>3, RWSameCount
    <2>5. RWLockAccess!Enter(t, "READER")
      BY <1>4, <2>1, <2>4 DEF RWLockAccess!Enter, RWInside
    <2> QED
      BY <2>5 DEF RWLockAccess!Next, RWLockAccess!Classes
  <1> QED
    BY <1>5, <1>6

\* A thread gets a write lock: the first one, or one more.
LEMMA RWEnterWriter ==
    ASSUME RWInv, NEW t \in Threads, NEW k \in 1 .. MaxDepth, rd_held = {}, rd_held' = {},
           wr_held # {} => writer_thread = t, wr_held' = wr_held \cup {<<t, k>>}
    PROVE  RWLockAccess!Next \/ UNCHANGED RWInside
  <1>1. \A u \in Threads : ~rw_holds(u, rd_held) /\ ~rw_holds(u, rd_held')
    BY DEF rw_holds
  <1>2. rw_holds(t, wr_held') /\ \A u \in Threads \ {t} : rw_holds(u, wr_held') <=> rw_holds(u, wr_held)
    BY DEF rw_holds
  <1>3. RWInside'[t] = "WRITER"
    BY <1>1, <1>2 DEF RWInside
  <1>4. RWInside' = [RWInside EXCEPT ![t] = "WRITER"]
    BY <1>1, <1>2, <1>3, RWInsideAfter
  <1>5. \A u \in Threads \ {t} : ~rw_holds(u, wr_held)
    BY DEF rw_holds, RWInv, RWExclusion
  <1>6. CASE rw_holds(t, wr_held)
    BY <1>1, <1>4, <1>6 DEF RWInside
  <1>7. CASE ~rw_holds(t, wr_held)
    <2>1. \A u \in Threads : RWInside[u] = "NONE"
      BY <1>1, <1>5, <1>7 DEF RWInside
    <2>2. RWLockAccess!Users("WRITER") = {}
      BY <2>1 DEF RWLockAccess!Users, RWInside
    <2>3. RWLockAccess!Cardinality(RWLockAccess!Users("WRITER")) < 1
      BY <2>2, FS_EmptySet, RWSameCount
    <2>4. RWLockAccess!Enter(t, "WRITER")
      BY <1>4, <2>1, <2>3 DEF RWLockAccess!Enter, RWInside
    <2> QED
      BY <2>4 DEF RWLockAccess!Next, RWLockAccess!Classes
  <1> QED
    BY <1>6, <1>7

\* A thread gives one of its locks back: it leaves with the last one.
LEMMA RWLeave ==
    ASSUME RWInv, NEW t \in Threads, NEW k \in 1 .. MaxDepth,
           \/ /\ <<t, k>> \in rd_held /\ rd_held' = rd_held \ {<<t, k>>}
              /\ wr_held = {} /\ wr_held' = {}
           \/ /\ <<t, k>> \in wr_held /\ wr_held' = wr_held \ {<<t, k>>}
              /\ rd_held = {} /\ rd_held' = {}
    PROVE  RWLockAccess!Next \/ UNCHANGED RWInside
  <1>1. \A u \in Threads \ {t} : /\ rw_holds(u, rd_held') <=> rw_holds(u, rd_held)
                                 /\ rw_holds(u, wr_held') <=> rw_holds(u, wr_held)
    BY DEF rw_holds
  <1>2. RWInside[t] # "NONE"
    BY DEF RWInside, rw_holds
  <1>3. RWInside' = [RWInside EXCEPT ![t] = RWInside'[t]]
    BY <1>1, RWInsideAfter
  <1>4. CASE RWInside'[t] = "NONE"
    <2>1. RWLockAccess!Leave(t)
      BY <1>2, <1>3, <1>4 DEF RWLockAccess!Leave, RWInside
    <2> QED
      BY <2>1 DEF RWLockAccess!Next
  <1>5. CASE RWInside'[t] # "NONE"
    <2>1. RWInside'[t] = RWInside[t]
      BY <1>5 DEF RWInside, rw_holds
    <2> QED
      BY <1>3, <2>1 DEF RWInside
  <1> QED
    BY <1>4, <1>5

\* Every step of the lock is an Enter, a Leave, or invisible.
LEMMA RWStepSimulation ==
    RWInv /\ [RWNext]_rwVars => [RWLockAccess!Next]_(RWLockAccess!accessVars)
  <1> SUFFICES ASSUME RWInv, [RWNext]_rwVars
               PROVE  RWLockAccess!Next \/ UNCHANGED RWInside
    BY DEF RWLockAccess!accessVars, RWInside
  <1>0. CASE UNCHANGED <<rd_held, wr_held>>
    BY <1>0 DEF RWInside
  <1>1. ASSUME NEW t \in Threads, ~is_locked_by_writer, rw_count_reader(t)
        PROVE  RWLockAccess!Next \/ UNCHANGED RWInside
    <2>1. wr_held = {} /\ wr_held' = {}
      BY <1>1 DEF RWInv, RWExclusion, rw_count_reader
    <2> QED
      BY <1>1, <2>1, RWEnterReader DEF rw_count_reader
  <1>2. ASSUME NEW t \in Threads, ~is_locked_by_reader, is_locked_by_writer => writer_thread = t,
               rw_count_writer(t)
        PROVE  RWLockAccess!Next \/ UNCHANGED RWInside
    <2>1. rd_held = {} /\ rd_held' = {} /\ (wr_held # {} => writer_thread = t)
      BY <1>2 DEF RWInv, RWExclusion, rw_count_writer
    <2> QED
      BY <1>2, <2>1, RWEnterWriter DEF rw_count_writer
  <1>3. ASSUME NEW t \in Threads, rw_unlock_writer(t) \/ rw_unlock_reader(t)
        PROVE  RWLockAccess!Next \/ UNCHANGED RWInside
    <2>1. CASE rw_unlock_writer(t)
      <3>1. rd_held = {} /\ rd_held' = {}
        BY <2>1 DEF rw_unlock_writer, RWInv, RWExclusion
      <3> QED
        BY <2>1, <3>1, RWLeave DEF rw_unlock_writer
    <2>2. CASE rw_unlock_reader(t)
      <3>1. wr_held = {} /\ wr_held' = {}
        BY <2>2 DEF rw_unlock_reader, RWInv, RWExclusion
      <3> QED
        BY <2>2, <3>1, RWLeave DEF rw_unlock_reader
    <2> QED
      BY <1>3, <2>1, <2>2
  <1>4. ASSUME NEW t \in Threads, rw_lock_rd_lock(t) \/ rw_lock_rd_woken(t)
        PROVE  RWLockAccess!Next \/ UNCHANGED RWInside
    BY <1>0, <1>1, <1>4 DEF rw_lock_rd_lock, rw_lock_rd_woken
  <1>5. ASSUME NEW t \in Threads, rw_lock_wr_lock(t) \/ rw_lock_wr_woken(t)
        PROVE  RWLockAccess!Next \/ UNCHANGED RWInside
    <2>1. is_locked_by_writer => ~is_locked_by_reader
      BY DEF RWInv, RWExclusion
    <2> QED
      BY <1>0, <1>2, <1>5, <2>1 DEF rw_lock_wr_lock, rw_lock_wr_woken
  <1>6. ASSUME NEW t \in Threads, rw_spurious_wakeup(t)
        PROVE  RWLockAccess!Next \/ UNCHANGED RWInside
    BY <1>0, <1>6 DEF rw_spurious_wakeup
  <1>7. CASE UNCHANGED rwVars
    BY <1>0, <1>7 DEF rwVars
  <1> QED
    BY <1>3, <1>4, <1>5, <1>6, <1>7 DEF RWNext, rw_lock_unlock

\* The read/write lock implements the reader/writer access, with as many
\* readers as there are threads and one writer.
THEOREM RWRefinesAccess == RWSpec => RWImplementsAccess
  <1>1. RWInit => RWLockAccess!Init
    <2> SUFFICES ASSUME RWInit PROVE RWLockAccess!Init
      OBVIOUS
    <2>1. RWInside = [t \in Threads |-> "NONE"]
      BY DEF RWInit, RWInside, rw_holds
    <2>2. RWLimit \in [{"READER", "WRITER"} -> Nat]
      BY FS_CardinalityType, ClientsAssumption DEF RWLimit
    <2> QED
      BY <2>1, <2>2 DEF RWLockAccess!Init, RWLockAccess!Classes, RWInside, RWLimit
  <1> QED
    BY <1>1, RWInvInit, RWInvNext, RWStepSimulation, PTL
       DEF RWSpec, RWImplementsAccess, RWLockAccess!Spec
=============================================================================
