---------------------------- MODULE MonitorProofs ----------------------------
(***************************************************************************)
(* The monitor, for any number of readers and writers and any limits: its  *)
(* counters and queues keep their types, and its clients exclude each      *)
(* other; the queues know who waits, and nobody sleeps alone next to an    *)
(* idle resource.  The inductive invariants add to the properties that the *)
(* queues count their waiters, that strict alternation has limits of 1,    *)
(* and that the status says of which class the threads inside are.         *)
(***************************************************************************)
EXTENDS Monitor, CountingProofs, SequenceTheorems

WaitingOf(c) == {t \in Threads : pc[t] = "waiting" /\ thread_op(t) = c}

\* The waiters of each class are counted.
Counted == \A c \in Classes : wait_q[c].count = Cardinality(WaitingOf(c))

MonInv == TypeOK /\ Counted

\* There are finitely many threads, so sets of them can be counted.
LEMMA ThreadsFinite == IsFiniteSet(Threads)
  BY MonitorAssumption, FS_Union DEF Threads

\* Every thread belongs to one of the two classes.
LEMMA ClassOfThread == \A t \in Threads : thread_op(t) \in Classes
  BY DEF thread_op, Classes

\* A fresh monitor satisfies the inductive invariant.
LEMMA MonInvInit == Init => MonInv
  <1> SUFFICES ASSUME Init PROVE MonInv
    OBVIOUS
  <1> USE DEF Init
  <1>1. TypeOK
    <2>1. n_max \in [Classes -> Nat]
      BY MonitorAssumption DEF Classes
    <2>2. wait_q \in [Classes -> [count : Nat, line : Seq(Threads), asleep : SUBSET Threads]]
      BY DEF wait_queue_init
    <2> QED
      BY <2>1, <2>2 DEF TypeOK, Classes
  <1>2. Counted
    BY FS_EmptySet DEF Counted, WaitingOf, wait_queue_init
  <1> QED
    BY <1>1, <1>2 DEF MonInv

Queue == [count : Nat, line : Seq(Threads), asleep : SUBSET Threads]

\* A thread that leaves the line leaves a line.
LEMMA UnlinkType ==
    ASSUME NEW line \in Seq(Threads), NEW t PROVE unlink(line, t) \in Seq(Threads)
  <1> DEFINE i == CHOOSE k \in 1 .. Len(line) : line[k] = t
  <1>1. CASE \E k \in 1 .. Len(line) : line[k] = t
    <2>1. i \in 1 .. Len(line)
      BY <1>1
    <2> HIDE DEF i
    <2>2. /\ SubSeq(line, 1, i - 1) \in Seq(Threads)
          /\ SubSeq(line, i + 1, Len(line)) \in Seq(Threads)
      <3>1. \A k \in 1 .. Len(line) : line[k] \in Threads
        OBVIOUS
      <3> QED
        BY <2>1, <3>1, SubSeqProperties
    <2>3. RemoveAt(line, i) \in Seq(Threads)
      BY <2>2 DEF RemoveAt
    <2>4. unlink(line, t) = RemoveAt(line, i)
      BY <1>1, Zenon DEF unlink, i
    <2> QED
      BY <2>3, <2>4
  <1>2. CASE ~ \E k \in 1 .. Len(line) : line[k] = t
    BY <1>2 DEF unlink
  <1> QED
    BY <1>1, <1>2

\* What the operations of the wait queue make of a queue.
LEMMA QueueTypes ==
    ASSUME NEW wq \in Queue, NEW t \in Threads
    PROVE  /\ block(wq, t, TRUE) \in Queue /\ block(wq, t, TRUE).count = wq.count + 1
           /\ wq.count > 0 => resume(wq, t) \in Queue
           /\ resume(wq, t).count = wq.count - 1
           /\ wait_queue_signal_priority(wq) \in Queue
           /\ wait_queue_signal_priority(wq).count = wq.count
           /\ wait_queue_broadcast(wq) \in Queue
           /\ wait_queue_broadcast(wq).count = wq.count
           /\ spurious(wq, t) \in Queue /\ spurious(wq, t).count = wq.count
  <1>1. block(wq, t, TRUE) \in Queue /\ block(wq, t, TRUE).count = wq.count + 1
    BY DEF block, Queue
  <1>2. (wq.count > 0 => resume(wq, t) \in Queue) /\ resume(wq, t).count = wq.count - 1
    <2>1. unlink(wq.line, t) \in Seq(Threads)
      BY UnlinkType DEF Queue
    <2> QED
      BY <2>1 DEF resume, Queue
  <1>3. /\ wait_queue_signal_priority(wq) \in Queue
        /\ wait_queue_signal_priority(wq).count = wq.count
    BY DEF wait_queue_signal_priority, Queue
  <1>4. wait_queue_broadcast(wq) \in Queue /\ wait_queue_broadcast(wq).count = wq.count
    BY DEF wait_queue_broadcast, Queue
  <1>5. spurious(wq, t) \in Queue /\ spurious(wq, t).count = wq.count
    BY DEF spurious, Queue
  <1> QED
    BY <1>1, <1>2, <1>3, <1>4, <1>5

\* The waiters of a class without a thread, and with it again.
LEMMA WaitersCount ==
    ASSUME NEW c \in Classes, NEW t \in Threads
    PROVE  /\ Cardinality(WaitingOf(c)) \in Nat /\ Cardinality(WaitingOf(c) \ {t}) \in Nat
           /\ t \in WaitingOf(c) =>
                /\ Cardinality(WaitingOf(c) \ {t}) = Cardinality(WaitingOf(c)) - 1
                /\ Cardinality(WaitingOf(c)) > 0
           /\ Cardinality((WaitingOf(c) \ {t}) \cup {t}) = Cardinality(WaitingOf(c) \ {t}) + 1
  <1>1. WaitingOf(c) \in SUBSET Threads /\ WaitingOf(c) \ {t} \in SUBSET Threads
    BY DEF WaitingOf
  <1>2. Cardinality(WaitingOf(c)) \in Nat /\ Cardinality(WaitingOf(c) \ {t}) \in Nat
    BY <1>1, CountOfSubset, ThreadsFinite
  <1>3. ASSUME t \in WaitingOf(c)
        PROVE  /\ Cardinality(WaitingOf(c) \ {t}) = Cardinality(WaitingOf(c)) - 1
               /\ Cardinality(WaitingOf(c)) > 0
    BY <1>1, <1>3, CountOneLess, ThreadsFinite
  <1>4. Cardinality((WaitingOf(c) \ {t}) \cup {t}) = Cardinality(WaitingOf(c) \ {t}) + 1
    BY <1>1, CountOneMore, ThreadsFinite
  <1> QED
    BY <1>2, <1>3, <1>4

----------------------------------------------------------------------------

\* The predicate and what follows it, for queues in which t is not counted.
LEMMA TestAndWaitStep ==
    ASSUME MonInv, NEW t \in Threads, NEW queues \in [Classes -> Queue],
           \A c \in Classes : queues[c].count = Cardinality(WaitingOf(c) \ {t}),
           test_and_wait(t, queues)
    PROVE  MonInv'
  <1> DEFINE d == thread_op(t)
  <1>1. d \in Classes
    BY ClassOfThread
  <1>2. CASE monitor_is_resource_available(d) /\ grant(t, queues)
    <2>1. pc' = [pc EXCEPT ![t] = "granted"] /\ wait_q' = queues
      BY <1>2 DEF grant
    <2>2. \A c \in Classes : WaitingOf(c)' = WaitingOf(c) \ {t}
      BY <2>1 DEF MonInv, TypeOK, WaitingOf
    <2>3. Counted'
      BY <2>1, <2>2 DEF Counted
    <2>4. TypeOK'
      <3>1. n_curr' \in [Classes -> Nat]
        BY <1>1, <1>2 DEF grant, MonInv, TypeOK
      <3>2. resource_status' \in {"AVAILABLE", "BUSY_BY_READER", "BUSY_BY_WRITER"}
        BY <1>2 DEF grant, BusyBy
      <3>3. who_accessed_cs_last' \in {"ANY"} \cup Classes
        BY <1>1, <1>2 DEF grant
      <3>4. pc' \in [Threads -> {"idle", "requesting", "waiting", "granted",
                                 "released", "turned_away", "stopped"}]
        BY <2>1 DEF MonInv, TypeOK
      <3> QED
        BY <2>1, <3>1, <3>2, <3>3, <3>4 DEF test_and_wait, MonInv, TypeOK, Queue, settings
    <2> QED
      BY <2>3, <2>4 DEF MonInv
  <1>3. CASE wait(t, queues)
    <2>1. /\ pc' = [pc EXCEPT ![t] = "waiting"]
          /\ wait_q' = [queues EXCEPT ![d] = block(queues[d], t, TRUE)]
      BY <1>3 DEF wait
    <2>2. /\ wait_q' \in [Classes -> Queue]
          /\ \A c \in Classes : wait_q'[c].count =
                IF c = d THEN queues[c].count + 1 ELSE queues[c].count
      <3>1. /\ block(queues[d], t, TRUE) \in Queue
            /\ block(queues[d], t, TRUE).count = queues[d].count + 1
        BY <1>1, QueueTypes
      <3> HIDE DEF d
      <3> QED
        BY <1>1, <2>1, <3>1
    <2>3. \A c \in Classes : WaitingOf(c)' = IF c = d THEN (WaitingOf(c) \ {t}) \cup {t}
                                             ELSE WaitingOf(c) \ {t}
      BY <2>1 DEF MonInv, TypeOK, WaitingOf
    <2>4. Counted'
      BY <2>2, <2>3, WaitersCount DEF Counted
    <2>5. TypeOK'
      <3>1. pc' \in [Threads -> {"idle", "requesting", "waiting", "granted",
                                 "released", "turned_away", "stopped"}]
        BY <2>1 DEF MonInv, TypeOK
      <3> QED
        BY <1>3, <2>2, <3>1 DEF wait, test_and_wait, MonInv, TypeOK, Queue, settings
    <2> QED
      BY <2>4, <2>5 DEF MonInv
  <1> QED
    BY <1>2, <1>3 DEF test_and_wait

\* A thread that does not come or go as a waiter leaves the counts alone.
LEMMA CountedKept ==
    ASSUME MonInv, NEW t \in Threads, NEW place, place # "waiting", pc[t] # "waiting",
           pc' = [pc EXCEPT ![t] = place],
           \A c \in Classes : wait_q'[c].count = wait_q[c].count
    PROVE  Counted'
  <1>1. \A c \in Classes : WaitingOf(c)' = WaitingOf(c)
    BY DEF WaitingOf, MonInv, TypeOK
  <1> QED
    BY <1>1 DEF MonInv, Counted

\* A thread that asks for access gets in or becomes the last in line.
LEMMA RequestStep == ASSUME MonInv, NEW t \in Threads, Request(t) PROVE MonInv'
  <1>1. wait_q \in [Classes -> Queue]
    BY DEF MonInv, TypeOK, Queue
  <1>2. \A c \in Classes : wait_q[c].count = Cardinality(WaitingOf(c) \ {t})
    <2>1. \A c \in Classes : WaitingOf(c) \ {t} = WaitingOf(c)
      BY DEF Request, WaitingOf
    <2> QED
      BY <2>1 DEF MonInv, Counted
  <1> QED
    BY <1>1, <1>2, TestAndWaitStep DEF Request

\* A woken thread gets in, or goes back to sleep where it stood.
LEMMA WakeStep == ASSUME MonInv, NEW t \in Threads, Wake(t) PROVE MonInv'
  <1> DEFINE d == thread_op(t)
             queues == [wait_q EXCEPT ![d] = resume(wait_q[d], t)]
  <1>1. d \in Classes /\ wait_q \in [Classes -> Queue]
    BY ClassOfThread DEF MonInv, TypeOK, Queue
  <1>2. t \in WaitingOf(d) /\ \A c \in Classes : c # d => WaitingOf(c) \ {t} = WaitingOf(c)
    BY DEF Wake, WaitingOf
  <1>3. wait_q[d].count = Cardinality(WaitingOf(d)) /\ wait_q[d].count > 0
    BY <1>1, <1>2, WaitersCount DEF MonInv, Counted
  <1>4. resume(wait_q[d], t) \in Queue /\ resume(wait_q[d], t).count = wait_q[d].count - 1
    BY <1>1, <1>3, QueueTypes
  <1>5. queues \in [Classes -> Queue]
    BY <1>1, <1>4
  <1>6. \A c \in Classes : queues[c].count = Cardinality(WaitingOf(c) \ {t})
    BY <1>1, <1>2, <1>3, <1>4, WaitersCount DEF MonInv, Counted
  <1>7. test_and_wait(t, queues)
    BY DEF Wake
  <1> QED
    BY <1>5, <1>6, <1>7, TestAndWaitStep

\* A spurious wake-up leaves line and count alone.
LEMMA SpuriousStep == ASSUME MonInv, NEW t \in Threads, SpuriousWakeup(t) PROVE MonInv'
  <1> DEFINE d == thread_op(t)
  <1>1. d \in Classes /\ wait_q \in [Classes -> Queue]
    BY ClassOfThread DEF MonInv, TypeOK, Queue
  <1>2. spurious(wait_q[d], t) \in Queue /\ spurious(wait_q[d], t).count = wait_q[d].count
    BY <1>1, QueueTypes
  <1>3. wait_q' \in [Classes -> Queue] /\ \A c \in Classes : wait_q'[c].count = wait_q[c].count
    BY <1>1, <1>2 DEF SpuriousWakeup
  <1>4. TypeOK'
    BY <1>3 DEF SpuriousWakeup, MonInv, TypeOK, Queue, settings
  <1>5. Counted'
    BY <1>3 DEF SpuriousWakeup, MonInv, Counted, WaitingOf
  <1> QED
    BY <1>4, <1>5 DEF MonInv

\* A release takes one from its own counter and wakes without moving anybody.
LEMMA ReleaseStep == ASSUME MonInv, NEW t \in Threads, Release(t) PROVE MonInv'
  <1> DEFINE d == thread_op(t)
             m == n_curr[d] - 1
  <1>1. d \in Classes /\ Other(d) \in Classes /\ wait_q \in [Classes -> Queue]
    BY ClassOfThread DEF MonInv, TypeOK, Queue, Other, Classes
  <1>2. CASE n_curr[d] > 0 /\ hand_over(t)
    <2>1. m \in Nat /\ n_curr' \in [Classes -> Nat]
      BY <1>1, <1>2 DEF hand_over, MonInv, TypeOK
    <2>2. /\ wait_queue_signal_priority(wait_q[d]) \in Queue
          /\ wait_queue_signal_priority(wait_q[d]).count = wait_q[d].count
          /\ wait_queue_broadcast(wait_q[Other(d)]) \in Queue
          /\ wait_queue_broadcast(wait_q[Other(d)]).count = wait_q[Other(d)].count
      BY <1>1, QueueTypes
    <2>3. wait_q' \in [Classes -> Queue] /\ \A c \in Classes : wait_q'[c].count = wait_q[c].count
      BY <1>1, <1>2, <2>2 DEF hand_over, wake_after_release
    <2>4. TypeOK'
      <3>1. pc' \in [Threads -> {"idle", "requesting", "waiting", "granted",
                                 "released", "turned_away", "stopped"}]
        BY <1>2 DEF hand_over, MonInv, TypeOK
      <3>2. is_deleted' \in BOOLEAN
        BY <1>2 DEF hand_over, MonInv, TypeOK, monitor_check_and_delete_monitor
      <3> QED
        BY <1>2, <2>1, <2>3, <3>1, <3>2 DEF hand_over, Release, MonInv, TypeOK, Queue, settings
    <2>5. Counted'
      BY <1>2, <2>3, CountedKept DEF hand_over, Release
    <2> QED
      BY <2>4, <2>5 DEF MonInv
  <1>3. CASE abort
    <2>1. TypeOK'
      BY <1>3 DEF abort, Release, MonInv, TypeOK, settings
    <2>2. Counted'
      BY <1>3 DEF abort, MonInv, Counted, WaitingOf
    <2> QED
      BY <2>1, <2>2 DEF MonInv
  <1> QED
    BY <1>2, <1>3 DEF Release

\* Every step keeps the inductive invariant.
LEMMA MonInvNext == MonInv /\ [Next]_vars => MonInv'
  <1> SUFFICES ASSUME MonInv, [Next]_vars PROVE MonInv'
    OBVIOUS
  <1>1. ASSUME NEW t \in Threads, TestShutdown(t) PROVE MonInv'
    <2>1. TypeOK'
      BY <1>1 DEF TestShutdown, MonInv, TypeOK, settings
    <2>2. Counted'
      BY <1>1, CountedKept DEF TestShutdown
    <2> QED
      BY <2>1, <2>2 DEF MonInv
  <1>2. ASSUME NEW t \in Threads, TestDeleted(t) PROVE MonInv'
    <2>1. TypeOK'
      BY <1>2 DEF TestDeleted, MonInv, TypeOK, settings
    <2>2. Counted'
      BY <1>2, CountedKept DEF TestDeleted
    <2> QED
      BY <2>1, <2>2 DEF MonInv
  <1>3. CASE ShutDown
    <2>1. TypeOK'
      BY <1>3 DEF ShutDown, MonInv, TypeOK, settings
    <2>2. Counted'
      BY <1>3 DEF ShutDown, MonInv, Counted, WaitingOf
    <2> QED
      BY <2>1, <2>2 DEF MonInv
  <1>4. CASE UNCHANGED vars
    <2>1. TypeOK'
      BY <1>4 DEF vars, settings, MonInv, TypeOK
    <2>2. Counted'
      BY <1>4 DEF vars, settings, MonInv, Counted, WaitingOf
    <2> QED
      BY <2>1, <2>2 DEF MonInv
  <1> QED
    BY <1>1, <1>2, <1>3, <1>4, RequestStep, WakeStep, SpuriousStep, ReleaseStep DEF Next, Step

\* The fields of the monitor keep their types, whatever its clients do: no
\* counter of threads inside or waiting ever goes below zero.
THEOREM TypeCorrect == Spec => []TypeOK
  <1>1. MonInv => TypeOK
    BY DEF MonInv
  <1> QED
    BY <1>1, MonInvInit, MonInvNext, PTL DEF Spec

----------------------------------------------------------------------------
\* Exclusion, for callers that give up when the monitor turns them away.

NobodyTurnedAway == \A t \in Threads : pc[t] # "turned_away"
AlternationHasOne == strict_alternation => \A c \in Classes : n_max[c] = 1

ExInv == MonInv /\ Exclusion /\ NobodyTurnedAway /\ AlternationHasOne

\* A fresh monitor has nobody inside.
LEMMA ExInvInit == Init => ExInv
  <1> SUFFICES ASSUME Init PROVE ExInv
    OBVIOUS
  <1> USE DEF Init
  <1>1. \A c \in Classes : Granted(c) = {}
    BY DEF Granted
  <1>2. \A c \in Classes : n_max[c] \in Nat \ {0}
    BY MonitorAssumption DEF Classes
  <1>3. Exclusion
    <2>1. \A c \in Classes : n_curr[c] = Cardinality(Granted(c)) /\ n_curr[c] <= n_max[c]
      BY <1>1, <1>2, FS_EmptySet
    <2>2. \A c \in Classes : resource_status = BusyBy(c) <=> n_curr[c] > 0
      BY DEF BusyBy
    <2>3. Granted("READER") = {}
      BY <1>1 DEF Classes
    <2> QED
      BY <2>1, <2>2, <2>3 DEF Exclusion
  <1>4. NobodyTurnedAway /\ AlternationHasOne
    BY DEF NobodyTurnedAway, AlternationHasOne
  <1> QED
    BY <1>3, <1>4, MonInvInit DEF ExInv

\* The other class.
LEMMA OtherClass ==
    ASSUME NEW c \in Classes
    PROVE  /\ Other(c) \in Classes /\ Other(c) # c /\ BusyBy(c) # BusyBy(Other(c))
           /\ BusyBy(c) # "AVAILABLE"
           /\ \A d \in Classes : d = c \/ d = Other(c)
  BY DEF Classes, Other, BusyBy

\* The counters of threads inside as sets of threads.
LEMMA GrantedCount ==
    ASSUME NEW c \in Classes
    PROVE  /\ Granted(c) \in SUBSET Threads
           /\ Cardinality(Granted(c)) \in Nat
           /\ Cardinality(Granted(c)) = 0 <=> Granted(c) = {}
           /\ \A t \in Threads \ Granted(c) :
                 Cardinality(Granted(c) \cup {t}) = Cardinality(Granted(c)) + 1
           /\ \A t \in Granted(c) :
                 Cardinality(Granted(c) \ {t}) = Cardinality(Granted(c)) - 1
  <1>1. Granted(c) \in SUBSET Threads
    BY DEF Granted
  <1>2. ASSUME NEW t \in Threads \ Granted(c)
        PROVE  Cardinality(Granted(c) \cup {t}) = Cardinality(Granted(c)) + 1
    BY <1>1, CountOneMore, ThreadsFinite
  <1>3. ASSUME NEW t \in Granted(c)
        PROVE  Cardinality(Granted(c) \ {t}) = Cardinality(Granted(c)) - 1
    BY <1>1, CountOneLess, ThreadsFinite
  <1> QED
    BY <1>1, <1>2, <1>3, CountOfSubset, ThreadsFinite

\* A thread that neither gets in nor gets out disturbs nobody.
LEMMA QuietStep ==
    ASSUME ExInv, NEW t \in Threads, NEW place, place # "granted", pc[t] # "granted",
           pc' = [pc EXCEPT ![t] = place], UNCHANGED <<n_curr, n_max, resource_status>>
    PROVE  Exclusion' /\ \A c \in Classes : Granted(c)' = Granted(c)
  <1>1. \A c \in Classes : Granted(c)' = Granted(c)
    BY DEF Granted, ExInv, MonInv, TypeOK
  <1> QED
    BY <1>1 DEF ExInv, Exclusion, Classes, BusyBy

\* A thread of class c gets in beside others of its class at most.
LEMMA EnterStep ==
    ASSUME ExInv, NEW t \in Threads, NEW queues, pc[t] # "granted",
           monitor_is_resource_available(thread_op(t)), grant(t, queues), UNCHANGED n_max
    PROVE  /\ Exclusion'
           /\ Granted(Other(thread_op(t))) = {}
           /\ Cardinality(Granted(thread_op(t))) < n_max[thread_op(t)]
  <1> DEFINE c == thread_op(t)
             o == Other(c)
  <1>1. /\ c \in Classes /\ o \in Classes /\ o # c /\ BusyBy(c) # BusyBy(o)
        /\ BusyBy(o) # "AVAILABLE" /\ \A d \in Classes : d = c \/ d = o
    BY ClassOfThread, OtherClass
  <1>2. /\ pc' = [pc EXCEPT ![t] = "granted"] /\ resource_status' = BusyBy(c)
        /\ n_curr' = [n_curr EXCEPT ![c] = @ + 1]
    BY DEF grant
  <1>3. n_curr \in [Classes -> Nat] /\ n_max \in [Classes -> Nat]
    BY DEF ExInv, MonInv, TypeOK
  <1>4. resource_status # BusyBy(o) /\ n_curr[c] < n_max[c]
    BY <1>1 DEF monitor_is_resource_available
  <1>5. n_curr[o] = 0 /\ Granted(o) = {}
    BY <1>1, <1>3, <1>4, GrantedCount DEF ExInv, Exclusion
  <1>6. t \notin Granted(c) /\ Granted(c)' = Granted(c) \cup {t} /\ Granted(o)' = {}
    BY <1>1, <1>2, <1>5 DEF Granted, ExInv, MonInv, TypeOK
  <1>7. n_curr'[c] = n_curr[c] + 1 /\ n_curr'[o] = 0
    BY <1>1, <1>2, <1>3, <1>5
  <1>8. n_curr'[c] = Cardinality(Granted(c)') /\ n_curr'[o] = Cardinality(Granted(o)')
    BY <1>1, <1>6, <1>7, GrantedCount, FS_EmptySet DEF ExInv, Exclusion
  <1>9. n_curr'[c] <= n_max'[c] /\ n_curr'[o] <= n_max'[o]
    BY <1>1, <1>3, <1>4, <1>7
  <1>10. \A d \in Classes : resource_status' = BusyBy(d) <=> n_curr'[d] > 0
    BY <1>1, <1>2, <1>3, <1>7
  <1>11. Granted("READER")' = {} \/ Granted("WRITER")' = {}
    BY <1>1, <1>6 DEF Classes
  <1>12. Exclusion'
    BY <1>1, <1>8, <1>9, <1>10, <1>11 DEF Exclusion
  <1> QED
    BY <1>1, <1>4, <1>5, <1>12 DEF ExInv, Exclusion

\* A thread that was granted the resource gives it back.
LEMMA LeaveStep ==
    ASSUME ExInv, NEW t \in Threads, pc[t] = "granted", hand_over(t), UNCHANGED n_max
    PROVE  Exclusion'
  <1> DEFINE c == thread_op(t)
             o == Other(c)
  <1>1. /\ c \in Classes /\ o \in Classes /\ o # c /\ BusyBy(c) # BusyBy(o)
        /\ BusyBy(c) # "AVAILABLE" /\ BusyBy(o) # "AVAILABLE"
        /\ \A d \in Classes : d = c \/ d = o
    BY ClassOfThread, OtherClass
  <1>2. n_curr \in [Classes -> Nat] /\ n_max \in [Classes -> Nat]
    BY DEF ExInv, MonInv, TypeOK
  <1>3. /\ pc' = [pc EXCEPT ![t] = "released"]
        /\ n_curr' = [n_curr EXCEPT ![c] = n_curr[c] - 1]
        /\ resource_status' = IF n_curr[c] - 1 = 0 THEN "AVAILABLE" ELSE resource_status
    BY DEF hand_over
  <1>4. t \in Granted(c)
    BY <1>1 DEF Granted
  <1>5. Granted(o) = {} /\ n_curr[o] = 0
    <2>1. Granted(o) = {}
      BY <1>1, <1>4 DEF ExInv, Exclusion, Classes
    <2> QED
      BY <1>1, <2>1, FS_EmptySet DEF ExInv, Exclusion
  <1>6. Granted(c)' = Granted(c) \ {t} /\ Granted(o)' = {}
    BY <1>1, <1>3, <1>4, <1>5 DEF Granted, ExInv, MonInv, TypeOK
  <1>7. n_curr'[c] = n_curr[c] - 1 /\ n_curr'[o] = 0
    BY <1>1, <1>2, <1>3, <1>5
  <1>8. n_curr'[c] = Cardinality(Granted(c)') /\ n_curr'[o] = Cardinality(Granted(o)')
    BY <1>1, <1>4, <1>6, <1>7, GrantedCount, FS_EmptySet DEF ExInv, Exclusion
  <1>9. n_curr[c] > 0
    <2>1. Cardinality(Granted(c)) \in Nat /\ Cardinality(Granted(c)) # 0
      BY <1>1, <1>4, GrantedCount
    <2> QED
      BY <1>1, <2>1 DEF ExInv, Exclusion
  <1>10. n_curr'[c] <= n_max'[c] /\ n_curr'[o] <= n_max'[o]
    <2>1. n_curr[c] <= n_max[c]
      BY <1>1 DEF ExInv, Exclusion
    <2> QED
      BY <1>1, <1>2, <1>7, <2>1
  <1>11. \A d \in Classes : resource_status' = BusyBy(d) <=> n_curr'[d] > 0
    <2>1. resource_status = BusyBy(c)
      BY <1>1, <1>9 DEF ExInv, Exclusion
    <2> QED
      BY <1>1, <1>2, <1>3, <1>7, <1>9, <2>1
  <1>12. Granted("READER")' = {} \/ Granted("WRITER")' = {}
    BY <1>1, <1>6 DEF Classes
  <1> QED
    BY <1>1, <1>8, <1>10, <1>11, <1>12 DEF Exclusion

\* Every step is one of the three.
LEMMA StepKinds ==
    ASSUME ExInv, StopAfterShutdown, Next
    PROVE  /\ UNCHANGED settings /\ NobodyTurnedAway'
           /\ \/ \E t \in Threads, queues \in [Classes -> Queue] :
                   /\ pc[t] \in {"requesting", "waiting"}
                   /\ monitor_is_resource_available(thread_op(t)) /\ grant(t, queues)
              \/ \E t \in Threads : pc[t] = "granted" /\ hand_over(t)
              \/ /\ UNCHANGED <<n_curr, resource_status, who_accessed_cs_last>>
                 /\ \/ \E t \in Threads, place \in {"idle", "requesting", "waiting", "stopped"} :
                         pc[t] # "granted" /\ pc' = [pc EXCEPT ![t] = place]
                    \/ UNCHANGED pc
  <1> DEFINE Kind ==
        \/ \E t \in Threads, queues \in [Classes -> Queue] :
              /\ pc[t] \in {"requesting", "waiting"}
              /\ monitor_is_resource_available(thread_op(t)) /\ grant(t, queues)
        \/ \E t \in Threads : pc[t] = "granted" /\ hand_over(t)
        \/ /\ UNCHANGED <<n_curr, resource_status, who_accessed_cs_last>>
           /\ \/ \E t \in Threads, place \in {"idle", "requesting", "waiting", "stopped"} :
                    pc[t] # "granted" /\ pc' = [pc EXCEPT ![t] = place]
              \/ UNCHANGED pc
  <1>t. pc \in [Threads -> {"idle", "requesting", "waiting", "granted",
                            "released", "turned_away", "stopped"}]
    BY DEF ExInv, MonInv, TypeOK
  <1>a. ASSUME NEW t \in Threads, NEW place, place # "turned_away",
               pc' = [pc EXCEPT ![t] = place]
        PROVE  NobodyTurnedAway'
    BY <1>a, <1>t DEF ExInv, NobodyTurnedAway
  <1>1. ASSUME NEW t \in Threads, TestShutdown(t)
        PROVE  UNCHANGED settings /\ NobodyTurnedAway' /\ Kind
    <2>1. PICK place \in {"requesting", "stopped"} : pc' = [pc EXCEPT ![t] = place]
      BY <1>1 DEF TestShutdown
    <2> QED
      BY <1>1, <1>a, <2>1 DEF TestShutdown, settings
  <1>2. ASSUME NEW t \in Threads, NEW queues \in [Classes -> Queue],
               pc[t] \in {"requesting", "waiting"}, test_and_wait(t, queues)
        PROVE  UNCHANGED settings /\ NobodyTurnedAway' /\ Kind
    <2>1. CASE monitor_is_resource_available(thread_op(t)) /\ grant(t, queues)
      <3>1. pc' = [pc EXCEPT ![t] = "granted"]
        BY <2>1 DEF grant
      <3> QED
        BY <1>2, <1>a, <2>1, <3>1 DEF test_and_wait, settings
    <2>2. CASE wait(t, queues)
      <3>1. /\ pc' = [pc EXCEPT ![t] = "waiting"]
            /\ UNCHANGED <<n_curr, resource_status, who_accessed_cs_last>>
        BY <2>2 DEF wait
      <3> QED
        BY <1>2, <1>a, <3>1 DEF test_and_wait, settings
    <2> QED
      BY <1>2, <2>1, <2>2 DEF test_and_wait
  <1>3. ASSUME NEW t \in Threads, Request(t)
        PROVE  UNCHANGED settings /\ NobodyTurnedAway' /\ Kind
    <2>1. wait_q \in [Classes -> Queue]
      BY DEF ExInv, MonInv, TypeOK, Queue
    <2>2. pc[t] = "requesting" /\ test_and_wait(t, wait_q)
      BY <1>3 DEF Request
    <2> QED
      BY <1>2, <2>1, <2>2
  <1>4. ASSUME NEW t \in Threads, Wake(t)
        PROVE  UNCHANGED settings /\ NobodyTurnedAway' /\ Kind
    <2> DEFINE d == thread_op(t)
    <2>1. pc[t] = "waiting" /\ d \in Classes /\ wait_q \in [Classes -> Queue] /\ t \in WaitingOf(d)
      BY <1>4, ClassOfThread DEF Wake, ExInv, MonInv, TypeOK, Queue, WaitingOf
    <2>2. wait_q[d].count > 0
      BY <2>1, WaitersCount DEF ExInv, MonInv, Counted
    <2>3. resume(wait_q[d], t) \in Queue
      BY <2>1, <2>2, QueueTypes
    <2>4. [wait_q EXCEPT ![d] = resume(wait_q[d], t)] \in [Classes -> Queue]
      BY <2>1, <2>3
    <2>5. test_and_wait(t, [wait_q EXCEPT ![d] = resume(wait_q[d], t)])
      BY <1>4 DEF Wake
    <2> QED
      BY <1>2, <2>1, <2>4, <2>5
  <1>5. ASSUME NEW t \in Threads, SpuriousWakeup(t)
        PROVE  UNCHANGED settings /\ NobodyTurnedAway' /\ Kind
    BY <1>5 DEF SpuriousWakeup, settings, ExInv, NobodyTurnedAway
  <1>6. ASSUME NEW t \in Threads, Release(t)
        PROVE  UNCHANGED settings /\ NobodyTurnedAway' /\ Kind
    <2> DEFINE d == thread_op(t)
    <2>1. pc[t] = "granted"
      BY <1>6 DEF Release, ExInv, NobodyTurnedAway
    <2>2. n_curr[d] > 0
      <3>1. d \in Classes /\ t \in Granted(d)
        BY <2>1, ClassOfThread DEF Granted
      <3>2. Cardinality(Granted(d)) \in Nat /\ Cardinality(Granted(d)) # 0
        BY <3>1, GrantedCount
      <3> QED
        BY <3>1, <3>2 DEF ExInv, Exclusion
    <2>3. hand_over(t) /\ UNCHANGED settings
      BY <1>6, <2>2 DEF Release, settings
    <2>4. pc' = [pc EXCEPT ![t] = "released"]
      BY <2>3 DEF hand_over
    <2> QED
      BY <1>a, <2>1, <2>3, <2>4
  <1>7. ASSUME NEW t \in Threads, TestDeleted(t)
        PROVE  UNCHANGED settings /\ NobodyTurnedAway' /\ Kind
    <2>1. /\ pc[t] = "released" /\ pc' = [pc EXCEPT ![t] = "idle"]
          /\ UNCHANGED <<settings, n_curr, resource_status, who_accessed_cs_last>>
      BY <1>7 DEF TestDeleted
    <2> QED
      BY <1>a, <2>1
  <1>8. CASE ShutDown
    BY <1>8 DEF ShutDown, settings, ExInv, NobodyTurnedAway
  <1> QED
    BY <1>1, <1>3, <1>4, <1>5, <1>6, <1>7, <1>8 DEF Next, Step

\* Every step keeps exclusion, if who is turned away stays away.
LEMMA ExInvNext == ExInv /\ StopAfterShutdown /\ [Next]_vars => ExInv'
  <1> SUFFICES ASSUME ExInv, StopAfterShutdown, [Next]_vars PROVE ExInv'
    OBVIOUS
  <1>1. MonInv'
    BY MonInvNext DEF ExInv
  <1>2. CASE Next
    <2>1. UNCHANGED settings /\ NobodyTurnedAway'
      BY <1>2, StepKinds
    <2>2. UNCHANGED <<n_max, strict_alternation>>
      BY <2>1 DEF settings
    <2>3. AlternationHasOne'
      BY <2>2 DEF ExInv, AlternationHasOne
    <2>4. Exclusion'
      <3>1. ASSUME NEW t \in Threads, NEW queues \in [Classes -> Queue],
                   pc[t] \in {"requesting", "waiting"},
                   monitor_is_resource_available(thread_op(t)), grant(t, queues)
            PROVE  Exclusion'
        BY <2>2, <3>1, EnterStep
      <3>2. ASSUME NEW t \in Threads, pc[t] = "granted", hand_over(t) PROVE Exclusion'
        BY <2>2, <3>2, LeaveStep
      <3>3. ASSUME NEW t \in Threads, NEW place \in {"idle", "requesting", "waiting", "stopped"},
                   pc[t] # "granted", pc' = [pc EXCEPT ![t] = place],
                   UNCHANGED <<n_curr, resource_status>>
            PROVE  Exclusion'
        BY <2>2, <3>3, QuietStep
      <3>4. CASE UNCHANGED <<pc, n_curr, resource_status>>
        BY <2>2, <3>4 DEF ExInv, Exclusion, Granted, Classes, BusyBy
      <3> QED
        BY <1>2, <3>1, <3>2, <3>3, <3>4, StepKinds
    <2> QED
      BY <1>1, <2>1, <2>3, <2>4 DEF ExInv
  <1>3. CASE UNCHANGED vars
    BY <1>1, <1>3 DEF vars, settings, ExInv, Exclusion, Granted, NobodyTurnedAway,
                      AlternationHasOne
  <1> QED
    BY <1>2, <1>3

\* The clients of a monitor exclude each other and keep its limits, and its
\* counters and its status say who is in, if a caller that is turned away
\* does not go on as if it was let in.
THEOREM MutualExclusion == ASSUME StopAfterShutdown PROVE Spec => []Exclusion
  <1>1. ExInv /\ [Next]_vars => ExInv'
    BY ExInvNext
  <1>2. ExInv => Exclusion
    BY DEF ExInv
  <1> QED
    BY <1>1, <1>2, ExInvInit, PTL DEF Spec

\* With strict alternation, a thread gets in only when the other class was in
\* before it.
LEMMA AlternationStep ==
    ASSUME ExInv, StopAfterShutdown, [Next]_vars, strict_alternation,
           NEW t \in Threads, pc[t] # "granted", pc'[t] = "granted"
    PROVE  who_accessed_cs_last # thread_op(t)
  <1>1. Next
    BY DEF vars
  <1>2. pc \in [Threads -> {"idle", "requesting", "waiting", "granted",
                            "released", "turned_away", "stopped"}]
    BY DEF ExInv, MonInv, TypeOK
  <1>3. ASSUME NEW u \in Threads, NEW queues \in [Classes -> Queue],
               monitor_is_resource_available(thread_op(u)), grant(u, queues)
        PROVE  who_accessed_cs_last # thread_op(t)
    <2> DEFINE c == thread_op(u)
    <2>1. u = t /\ c \in Classes
      BY <1>2, <1>3, ClassOfThread DEF grant
    <2>2. n_curr[c] = 0
      <3>1. n_max[c] = 1 /\ n_curr[c] \in Nat
        BY <2>1 DEF ExInv, AlternationHasOne, MonInv, TypeOK
      <3> QED
        BY <1>3, <3>1 DEF monitor_is_resource_available
    <2>3. resource_status = "AVAILABLE"
      BY <1>3, <2>1, <2>2 DEF monitor_is_resource_available, ExInv, Exclusion
    <2> QED
      BY <1>3, <2>1, <2>3 DEF monitor_is_resource_available
  <1>4. ASSUME NEW u \in Threads, hand_over(u) PROVE FALSE
    BY <1>2, <1>4 DEF hand_over
  <1>5. ASSUME NEW u \in Threads, NEW place \in {"idle", "requesting", "waiting", "stopped"},
               pc' = [pc EXCEPT ![u] = place]
        PROVE  FALSE
    BY <1>2, <1>5
  <1> QED
    BY <1>1, <1>3, <1>4, <1>5, StepKinds

\* Two threads that are let in one after the other are of different classes,
\* for every monitor on which strict alternation was set.
THEOREM Alternation == ASSUME StopAfterShutdown PROVE Spec => StrictAlternation
  <1>1. ExInv /\ [Next]_vars => ExInv'
    BY ExInvNext
  <1>2. ExInv /\ [Next]_vars =>
          [\A t \in Threads : strict_alternation /\ pc[t] # "granted" /\ pc'[t] = "granted"
                              => who_accessed_cs_last # thread_op(t)]_vars
    BY AlternationStep
  <1> QED
    BY <1>1, <1>2, ExInvInit, PTL DEF Spec, StrictAlternation

----------------------------------------------------------------------------
\* The monitor as a reader/writer access.

Inside == [t \in Threads |-> IF pc[t] = "granted" THEN thread_op(t) ELSE "NONE"]

\* Both modules mean the same by the size of a set.
LEMMA SameCount == ASSUME NEW S PROVE Access!Cardinality(S) = Cardinality(S)
  BY DEF Access!Cardinality, Cardinality

\* The name of no class is the one that stands for nobody.
LEMMA ClassesNotNone == "NONE" \notin Classes
  BY DEF Classes

\* A grant is an Enter, a release a Leave; everything else is invisible.
LEMMA StepSimulation ==
    ASSUME ExInv, StopAfterShutdown, [Next]_vars
    PROVE  [Access!Next]_(Access!accessVars)
  <1> SUFFICES Access!Next \/ UNCHANGED <<Inside, n_max>>
    BY DEF Access!accessVars, Inside
  <1>1. CASE UNCHANGED vars
    BY <1>1 DEF vars, settings, Inside
  <1>2. CASE Next
    <2>1. UNCHANGED n_max
      BY <1>2, StepKinds DEF settings
    <2>2. pc \in [Threads -> {"idle", "requesting", "waiting", "granted",
                              "released", "turned_away", "stopped"}]
      BY DEF ExInv, MonInv, TypeOK
    <2>3. ASSUME NEW t \in Threads, NEW queues \in [Classes -> Queue],
                 pc[t] \in {"requesting", "waiting"},
                 monitor_is_resource_available(thread_op(t)), grant(t, queues)
          PROVE  Access!Next
      <3> DEFINE c == thread_op(t)
      <3>1. c \in Classes /\ pc' = [pc EXCEPT ![t] = "granted"]
        BY <2>3, ClassOfThread DEF grant
      <3>2. Granted(Other(c)) = {} /\ Cardinality(Granted(c)) < n_max[c]
        BY <2>1, <2>3, EnterStep
      <3>3. \A u \in Threads : Inside[u] \in {"NONE", c}
        BY <3>1, <3>2, ClassOfThread, OtherClass DEF Inside, Granted
      <3>4. Access!Users(c) = Granted(c)
        BY <3>1, ClassesNotNone DEF Access!Users, Granted
      <3>5. Access!Cardinality(Access!Users(c)) < n_max[c]
        BY <3>2, <3>4, SameCount
      <3>6. Inside' = [Inside EXCEPT ![t] = c]
        BY <2>2, <3>1 DEF Inside
      <3>7. Inside[t] = "NONE"
        BY <2>3 DEF Inside
      <3>8. Access!Enter(t, c)
        BY <2>1, <3>3, <3>5, <3>6, <3>7 DEF Access!Enter, Inside
      <3> QED
        BY <3>1, <3>8 DEF Access!Next, Access!Classes, Classes
    <2>4. ASSUME NEW t \in Threads, pc[t] = "granted", hand_over(t)
          PROVE  Access!Next
      <3>1. pc' = [pc EXCEPT ![t] = "released"]
        BY <2>4 DEF hand_over
      <3>2. Inside' = [Inside EXCEPT ![t] = "NONE"]
        BY <2>2, <3>1 DEF Inside
      <3>3. Inside[t] # "NONE"
        BY <2>4, ClassOfThread, ClassesNotNone DEF Inside
      <3>4. Access!Leave(t)
        BY <2>1, <3>2, <3>3 DEF Access!Leave, Inside
      <3> QED
        BY <3>4 DEF Access!Next
    <2>5. ASSUME NEW t \in Threads, NEW place \in {"idle", "requesting", "waiting", "stopped"},
                 pc[t] # "granted", pc' = [pc EXCEPT ![t] = place]
          PROVE  UNCHANGED Inside
      BY <2>2, <2>5 DEF Inside
    <2>6. CASE UNCHANGED pc
      BY <2>1, <2>6 DEF Inside
    <2> QED
      BY <1>2, <2>1, <2>3, <2>4, <2>5, <2>6, StepKinds
  <1> QED
    BY <1>1, <1>2

\* The monitor implements the reader/writer access: whatever its readers,
\* writers and limits are, its clients see nothing else.
THEOREM RefinesAccess == ASSUME StopAfterShutdown PROVE Spec => ImplementsAccess
  <1>1. Init => Access!Init
    <2> SUFFICES ASSUME Init PROVE Access!Init
      OBVIOUS
    <2>1. n_max \in [Classes -> Nat] /\ \A t \in Threads : pc[t] = "idle"
      BY MonInvInit DEF MonInv, TypeOK, Init
    <2> QED
      BY <2>1 DEF Access!Init, Access!Classes, Classes
  <1>2. ExInv /\ [Next]_vars => ExInv' /\ [Access!Next]_(Access!accessVars)
    BY ExInvNext, StepSimulation
  <1> QED
    BY <1>1, <1>2, ExInvInit, PTL DEF Spec, ImplementsAccess, Access!Spec

----------------------------------------------------------------------------
\* The queues say who waits, and somebody is awake to find an idle resource.
\* This holds for every client, also one that goes on when it is turned away.

\* A thread that was not in the line is put at its end.
LEMMA LineWith ==
    ASSUME NEW line \in Seq(Threads), NEW t \in Threads, IsInjective(line), t \notin ToSet(line)
    PROVE  /\ Append(line, t) \in Seq(Threads) /\ Len(Append(line, t)) = Len(line) + 1
           /\ ToSet(Append(line, t)) = ToSet(line) \cup {t} /\ IsInjective(Append(line, t))
  <1> DEFINE p == Append(line, t)
             n == Len(line)
  <1>1. /\ p \in Seq(Threads) /\ Len(p) = n + 1 /\ n \in Nat /\ p[n + 1] = t
        /\ \A i \in 1 .. n : p[i] = line[i]
    OBVIOUS
  <1>2. DOMAIN p = 1 .. n + 1 /\ DOMAIN line = 1 .. n
    BY <1>1
  <1> HIDE DEF p, n
  <1>3. \A i \in DOMAIN p : i = n + 1 \/ (i \in DOMAIN line /\ p[i] = line[i])
    BY <1>1, <1>2
  <1>4. /\ n + 1 \in DOMAIN p
        /\ \A i \in DOMAIN line : i \in DOMAIN p /\ p[i] = line[i] /\ line[i] # t
    BY <1>1, <1>2 DEF ToSet
  <1>5. ToSet(p) = ToSet(line) \cup {t}
    BY <1>1, <1>3, <1>4 DEF ToSet
  <1>6. IsInjective(p)
    BY <1>1, <1>3, <1>4 DEF IsInjective
  <1> QED
    BY <1>1, <1>5, <1>6 DEF p, n

\* A thread that was in the line is taken out of it, and the others stay.
LEMMA LineWithout ==
    ASSUME NEW line \in Seq(Threads), NEW t \in ToSet(line), IsInjective(line)
    PROVE  /\ unlink(line, t) \in Seq(Threads) /\ Len(unlink(line, t)) = Len(line) - 1
           /\ ToSet(unlink(line, t)) = ToSet(line) \ {t} /\ IsInjective(unlink(line, t))
  <1> DEFINE i == CHOOSE k \in 1 .. Len(line) : line[k] = t
             n == Len(line)
             p == unlink(line, t)
  <1>1. \E k \in 1 .. Len(line) : line[k] = t
    BY DEF ToSet
  <1>2. i \in 1 .. n /\ line[i] = t
    BY <1>1
  <1>3. p = SubSeq(line, 1, i - 1) \o SubSeq(line, i + 1, n)
    BY <1>1, Zenon DEF unlink, RemoveAt
  <1> HIDE DEF i, p
  <1>4. n \in Nat /\ DOMAIN line = 1 .. n /\ i \in Nat
    BY <1>2
  <1>5. /\ SubSeq(line, 1, i - 1) \in Seq(Threads) /\ Len(SubSeq(line, 1, i - 1)) = i - 1
        /\ \A k \in 1 .. i - 1 : SubSeq(line, 1, i - 1)[k] = line[k]
    <2>1. \A k \in 1 .. n : line[k] \in Threads
      OBVIOUS
    <2> QED
      BY <1>2, <1>4, <2>1, SubSeqProperties
  <1>6. /\ SubSeq(line, i + 1, n) \in Seq(Threads) /\ Len(SubSeq(line, i + 1, n)) = n - i
        /\ \A k \in 1 .. n - i : SubSeq(line, i + 1, n)[k] = line[i + k]
    <2> DEFINE b == SubSeq(line, i + 1, n)
    <2>1. \A k \in i + 1 .. n : line[k] \in Threads
      BY <1>4
    <2>2. /\ b \in Seq(Threads) /\ Len(b) = IF i + 1 <= n THEN n - (i + 1) + 1 ELSE 0
          /\ \A k \in 1 .. n - (i + 1) + 1 : b[k] = line[i + 1 + k - 1]
      BY <1>4, <2>1, SubSeqProperties
    <2> HIDE DEF b, n
    <2>3. n - (i + 1) + 1 = n - i /\ (i + 1 <= n \/ n - i = 0)
      BY <1>2, <1>4
    <2>4. \A k \in 1 .. n - i : i + 1 + k - 1 = i + k
      BY <1>4
    <2>5. Len(b) = n - i
      BY <2>2, <2>3
    <2> QED
      BY <2>2, <2>3, <2>4, <2>5 DEF b
  <1>7. /\ p \in Seq(Threads) /\ Len(p) = n - 1
        /\ \A k \in 1 .. n - 1 : p[k] = IF k < i THEN line[k] ELSE line[k + 1]
    <2> DEFINE a == SubSeq(line, 1, i - 1)
               b == SubSeq(line, i + 1, n)
    <2>1. a \in Seq(Threads) /\ Len(a) = i - 1 /\ b \in Seq(Threads) /\ Len(b) = n - i
      BY <1>5, <1>6
    <2>2. /\ p \in Seq(Threads) /\ Len(p) = Len(a) + Len(b)
          /\ \A k \in 1 .. Len(a) + Len(b) : p[k] = IF k <= Len(a) THEN a[k] ELSE b[k - Len(a)]
      BY <1>3, <2>1, ConcatProperties
    <2>3. /\ \A k \in 1 .. i - 1 : a[k] = line[k]
          /\ \A k \in 1 .. n - i : b[k] = line[i + k]
      BY <1>5, <1>6
    <2> HIDE DEF a, b, n
    <2>4. Len(a) + Len(b) = n - 1
      BY <1>4, <2>1
    <2>5. ASSUME NEW k \in 1 .. n - 1
          PROVE  p[k] = IF k < i THEN line[k] ELSE line[k + 1]
      <3>1. p[k] = IF k <= i - 1 THEN a[k] ELSE b[k - (i - 1)]
        BY <2>1, <2>2, <2>4
      <3>2. CASE k < i
        BY <1>4, <2>3, <3>1, <3>2
      <3>3. CASE k >= i
        <4>1. ~(k <= i - 1) /\ k - (i - 1) \in 1 .. n - i /\ i + (k - (i - 1)) = k + 1
          BY <1>4, <3>3
        <4> QED
          BY <1>4, <2>3, <3>1, <3>3, <4>1
      <3> QED
        BY <1>4, <3>2, <3>3
    <2> QED
      BY <2>2, <2>4, <2>5
  <1>8. DOMAIN p = 1 .. n - 1
    BY <1>4, <1>7
  <1> HIDE DEF n
  <1>9. \A k \in DOMAIN p : \E j \in DOMAIN line :
           j # i /\ p[k] = line[j] /\ j = IF k < i THEN k ELSE k + 1
    BY <1>2, <1>4, <1>7, <1>8
  <1>10. \A j \in DOMAIN line : j # i => \E k \in DOMAIN p : p[k] = line[j]
    <2> SUFFICES ASSUME NEW j \in 1 .. n, j # i PROVE \E k \in 1 .. n - 1 : p[k] = line[j]
      BY <1>4, <1>8
    <2>1. CASE j < i
      BY <1>2, <1>4, <1>7, <2>1
    <2>2. CASE j > i
      <3>1. j - 1 \in 1 .. n - 1 /\ ~(j - 1 < i) /\ (j - 1) + 1 = j
        BY <1>2, <1>4, <2>2
      <3> QED
        BY <1>7, <3>1
    <2> QED
      BY <1>4, <2>1, <2>2
  <1>11. \A k, j \in DOMAIN line : line[k] = line[j] => k = j
    BY DEF IsInjective
  <1>12. ToSet(p) = ToSet(line) \ {t}
    <2>1. \A x \in ToSet(p) : x \in ToSet(line) /\ x # t
      BY <1>2, <1>4, <1>9, <1>11 DEF ToSet
    <2>2. \A x \in ToSet(line) : x # t => x \in ToSet(p)
      BY <1>2, <1>10 DEF ToSet
    <2> QED
      BY <2>1, <2>2
  <1>13. IsInjective(p)
    <2> SUFFICES ASSUME NEW k \in DOMAIN p, NEW j \in DOMAIN p, p[k] = p[j] PROVE k = j
      BY DEF IsInjective
    <2>1. PICK k2 \in DOMAIN line : p[k] = line[k2] /\ k2 = IF k < i THEN k ELSE k + 1
      BY <1>9
    <2>2. PICK j2 \in DOMAIN line : p[j] = line[j2] /\ j2 = IF j < i THEN j ELSE j + 1
      BY <1>9
    <2>3. k2 = j2
      BY <1>11, <2>1, <2>2
    <2> QED
      BY <1>4, <1>8, <2>1, <2>2, <2>3
  <1> QED
    BY <1>7, <1>12, <1>13 DEF p, n

\* A queue and the threads that wait in it agree.
Agreed(wq, S) ==
    /\ wq.count = Len(wq.line) /\ IsInjective(wq.line)
    /\ ToSet(wq.line) = S /\ wq.asleep \subseteq S

\* What the operations of the wait queue make of a queue and its waiters.
LEMMA QueueAgreements ==
    ASSUME NEW wq \in Queue, NEW S, Agreed(wq, S), NEW t \in Threads
    PROVE  /\ t \notin S => Agreed(block(wq, t, TRUE), S \cup {t})
           /\ t \in S /\ t \notin wq.asleep => Agreed(resume(wq, t), S \ {t})
           /\ Agreed(wait_queue_signal_priority(wq), S)
           /\ Agreed(wait_queue_broadcast(wq), S)
           /\ Agreed(spurious(wq, t), S)
  <1>1. wq.line \in Seq(Threads) /\ IsInjective(wq.line) /\ ToSet(wq.line) = S
    BY DEF Agreed, Queue
  <1>2. ASSUME t \notin S PROVE Agreed(block(wq, t, TRUE), S \cup {t})
    <2>1. /\ Len(Append(wq.line, t)) = Len(wq.line) + 1
          /\ ToSet(Append(wq.line, t)) = S \cup {t} /\ IsInjective(Append(wq.line, t))
      BY <1>1, <1>2, LineWith
    <2> QED
      BY <2>1 DEF Agreed, block
  <1>3. ASSUME t \in S, t \notin wq.asleep PROVE Agreed(resume(wq, t), S \ {t})
    <2>1. /\ Len(unlink(wq.line, t)) = Len(wq.line) - 1
          /\ ToSet(unlink(wq.line, t)) = S \ {t} /\ IsInjective(unlink(wq.line, t))
      BY <1>1, <1>3, LineWithout
    <2> QED
      BY <1>3, <2>1 DEF Agreed, resume
  <1>4. Agreed(wait_queue_signal_priority(wq), S)
    BY DEF Agreed, wait_queue_signal_priority, Queue
  <1>5. Agreed(wait_queue_broadcast(wq), S)
    BY DEF Agreed, wait_queue_broadcast, Queue
  <1>6. Agreed(spurious(wq, t), S)
    BY DEF Agreed, spurious, Queue
  <1> QED
    BY <1>2, <1>3, <1>4, <1>5, <1>6

\* A signal to a queue in which somebody waits, or a broadcast, leaves somebody awake.
LEMMA SomebodyIsAwake ==
    ASSUME NEW wq \in Queue, NEW S, Agreed(wq, S), wq.count > 0
    PROVE  /\ \E t \in S : t \notin wait_queue_signal_priority(wq).asleep
           /\ \E t \in S : t \notin wait_queue_broadcast(wq).asleep
  <1>1. wq.line \in Seq(Threads) /\ wq.line # <<>> /\ Len(wq.line) > 0
    BY DEF Agreed, Queue
  <1>2. 1 \in DOMAIN wq.line /\ Head(wq.line) = wq.line[1]
    BY <1>1
  <1>3. Head(wq.line) \in S
    BY <1>2 DEF Agreed, ToSet
  <1>4. Head(wq.line) \notin wait_queue_signal_priority(wq).asleep
    BY <1>1 DEF wait_queue_signal_priority, Queue
  <1>5. Head(wq.line) \notin wait_queue_broadcast(wq).asleep
    BY DEF wait_queue_broadcast, Queue
  <1> QED
    BY <1>3, <1>4, <1>5

QueuesKnow == \A c \in Classes : Agreed(wait_q[c], WaitingOf(c))
StatusTells == \A c \in Classes : resource_status = BusyBy(c) <=> n_curr[c] > 0
LimitsPositive == \A c \in Classes : n_max[c] > 0

\* NoStrandedWaiter, also of a monitor that is freed.
SomebodyComes ==
    ~strict_alternation /\ Asleep # {} /\ (\A c \in Classes : n_curr[c] = 0)
        => \E t \in Waiting : t \notin Asleep

WaitInv == MonInv /\ QueuesKnow /\ StatusTells /\ LimitsPositive /\ SomebodyComes

\* A fresh monitor has nobody asleep.
LEMMA WaitInvInit == Init => WaitInv
  <1> SUFFICES ASSUME Init PROVE WaitInv
    OBVIOUS
  <1> USE DEF Init
  <1>1. \A c \in Classes : WaitingOf(c) = {} /\ wait_q[c] = [count |-> 0, line |-> <<>>, asleep |-> {}]
    BY DEF WaitingOf, wait_queue_init
  <1>2. QueuesKnow
    BY <1>1 DEF QueuesKnow, Agreed, ToSet, IsInjective
  <1>3. StatusTells
    BY DEF StatusTells, BusyBy
  <1>4. LimitsPositive
    BY MonitorAssumption DEF LimitsPositive, Classes
  <1>5. Asleep = {}
    BY <1>1 DEF Asleep, Classes
  <1>6. SomebodyComes
    BY <1>5 DEF SomebodyComes
  <1> QED
    BY <1>2, <1>3, <1>4, <1>6, MonInvInit DEF WaitInv

\* A waiter of one class that is awake after a step is asleep in neither queue.
LEMMA AwakeIsAwake ==
    ASSUME \A d \in Classes : Agreed(wait_q'[d], WaitingOf(d)'),
           NEW c \in Classes, NEW t \in WaitingOf(c)', t \notin wait_q'[c].asleep
    PROVE  (t \in Waiting /\ t \notin Asleep)'
  <1>1. \A d \in Classes : wait_q'[d].asleep \subseteq WaitingOf(d)'
    BY DEF Agreed
  <1>2. \A d \in Classes : d # c => t \notin wait_q'[d].asleep
    BY <1>1 DEF WaitingOf
  <1>3. t \notin wait_q'["READER"].asleep /\ t \notin wait_q'["WRITER"].asleep
    BY <1>2 DEF Classes
  <1> QED
    BY <1>3 DEF Asleep, Waiting, WaitingOf

\* Who is refused finds somebody inside; who is not is inside.
LEMMA WaitTestStep ==
    ASSUME WaitInv, MonInv', NEW t \in Threads, NEW queues \in [Classes -> Queue],
           \A c \in Classes : Agreed(queues[c], WaitingOf(c) \ {t}),
           test_and_wait(t, queues)
    PROVE  WaitInv'
  <1> DEFINE d == thread_op(t)
             o == Other(d)
  <1>1. /\ d \in Classes /\ o \in Classes /\ o # d /\ BusyBy(d) # BusyBy(o)
        /\ BusyBy(d) # "AVAILABLE" /\ BusyBy(o) # "AVAILABLE"
        /\ \A c \in Classes : c = d \/ c = o
    BY ClassOfThread, OtherClass
  <1>2. /\ n_curr \in [Classes -> Nat] /\ UNCHANGED <<n_max, strict_alternation>>
        /\ pc \in [Threads -> {"idle", "requesting", "waiting", "granted",
                               "released", "turned_away", "stopped"}]
    BY DEF WaitInv, MonInv, TypeOK, test_and_wait, settings
  <1>3. LimitsPositive'
    BY <1>2 DEF WaitInv, LimitsPositive
  <1>4. CASE monitor_is_resource_available(d) /\ grant(t, queues)
    <2>1. /\ pc' = [pc EXCEPT ![t] = "granted"] /\ wait_q' = queues
          /\ n_curr' = [n_curr EXCEPT ![d] = @ + 1] /\ resource_status' = BusyBy(d)
      BY <1>4 DEF grant
    <2>2. \A c \in Classes : WaitingOf(c)' = WaitingOf(c) \ {t}
      BY <1>2, <2>1 DEF WaitingOf
    <2>3. QueuesKnow'
      BY <2>1, <2>2 DEF QueuesKnow, Agreed
    <2>4. n_curr[o] = 0
      BY <1>1, <1>2, <1>4 DEF monitor_is_resource_available, WaitInv, StatusTells
    <2>5. n_curr'[d] > 0 /\ n_curr'[o] = 0
      BY <1>1, <1>2, <2>1, <2>4
    <2>6. StatusTells'
      BY <1>1, <2>1, <2>5 DEF StatusTells
    <2>7. SomebodyComes'
      BY <1>1, <2>5 DEF SomebodyComes
    <2> QED
      BY <1>3, <2>3, <2>6, <2>7 DEF WaitInv
  <1>5. CASE ~monitor_is_resource_available(d) /\ wait(t, queues)
    <2>1. /\ pc' = [pc EXCEPT ![t] = "waiting"]
          /\ wait_q' = [queues EXCEPT ![d] = block(queues[d], t, TRUE)]
          /\ UNCHANGED <<n_curr, resource_status>>
      BY <1>5 DEF wait
    <2>2. \A c \in Classes : WaitingOf(c)' = IF c = d THEN (WaitingOf(c) \ {t}) \cup {t}
                                              ELSE WaitingOf(c) \ {t}
      BY <1>2, <2>1 DEF WaitingOf
    <2>3. Agreed(block(queues[d], t, TRUE), (WaitingOf(d) \ {t}) \cup {t})
      BY <1>1, QueueAgreements
    <2>4. /\ wait_q'[d] = block(queues[d], t, TRUE)
          /\ \A c \in Classes : c # d => wait_q'[c] = queues[c]
      BY <1>1, <2>1
    <2>5. \A c \in Classes : Agreed(wait_q'[c], WaitingOf(c)')
      BY <2>2, <2>3, <2>4
    <2>6. QueuesKnow'
      BY <2>5 DEF QueuesKnow, Agreed
    <2>7. StatusTells'
      BY <2>1 DEF WaitInv, StatusTells
    <2>8. ~strict_alternation => \E c \in Classes : n_curr[c] > 0
      <3> SUFFICES ASSUME ~strict_alternation, n_curr[d] = 0, n_curr[o] = 0 PROVE FALSE
        BY <1>1, <1>2
      <3>1. resource_status = "AVAILABLE"
        BY <1>1 DEF WaitInv, StatusTells, MonInv, TypeOK, BusyBy, Classes
      <3>2. n_curr[d] < n_max[d]
        BY <1>1 DEF WaitInv, LimitsPositive
      <3> QED
        BY <1>5, <3>1, <3>2 DEF monitor_is_resource_available
    <2>9. SomebodyComes'
      BY <1>2, <2>1, <2>8 DEF SomebodyComes
    <2> QED
      BY <1>3, <2>6, <2>7, <2>9 DEF WaitInv
  <1> QED
    BY <1>4, <1>5 DEF test_and_wait

\* A request is such a test with the queues as they are.
LEMMA WaitRequestStep == ASSUME WaitInv, NEW t \in Threads, Request(t) PROVE WaitInv'
  <1>1. wait_q \in [Classes -> Queue] /\ MonInv'
    BY RequestStep DEF WaitInv, MonInv, TypeOK, Queue
  <1>2. \A c \in Classes : WaitingOf(c) \ {t} = WaitingOf(c)
    BY DEF Request, WaitingOf
  <1>3. \A c \in Classes : Agreed(wait_q[c], WaitingOf(c) \ {t})
    BY <1>2 DEF WaitInv, QueuesKnow
  <1> QED
    BY <1>1, <1>3, WaitTestStep DEF Request

\* A woken thread leaves its queue, and makes the test again.
LEMMA WaitWakeStep == ASSUME WaitInv, NEW t \in Threads, Wake(t) PROVE WaitInv'
  <1> DEFINE d == thread_op(t)
             queues == [wait_q EXCEPT ![d] = resume(wait_q[d], t)]
  <1>1. d \in Classes /\ wait_q \in [Classes -> Queue] /\ MonInv'
    BY ClassOfThread, WakeStep DEF WaitInv, MonInv, TypeOK, Queue
  <1>2. /\ t \in WaitingOf(d) /\ t \notin wait_q[d].asleep
        /\ \A c \in Classes : c # d => WaitingOf(c) \ {t} = WaitingOf(c)
    BY DEF Wake, WaitingOf
  <1>3. \A c \in Classes : Agreed(wait_q[c], WaitingOf(c))
    BY DEF WaitInv, QueuesKnow
  <1>4. Agreed(resume(wait_q[d], t), WaitingOf(d) \ {t})
    BY <1>1, <1>2, <1>3, QueueAgreements
  <1>5. wait_q[d].count > 0
    BY <1>1, <1>2, WaitersCount DEF WaitInv, MonInv, Counted
  <1>6. resume(wait_q[d], t) \in Queue
    BY <1>1, <1>5, QueueTypes
  <1>7. queues \in [Classes -> Queue]
    BY <1>1, <1>6
  <1>8. \A c \in Classes : Agreed(queues[c], WaitingOf(c) \ {t})
    BY <1>1, <1>2, <1>3, <1>4
  <1>9. test_and_wait(t, queues)
    BY DEF Wake
  <1> QED
    BY <1>1, <1>7, <1>8, <1>9, WaitTestStep

\* Who wakes up by itself is awake.
LEMMA WaitSpuriousStep == ASSUME WaitInv, NEW t \in Threads, SpuriousWakeup(t) PROVE WaitInv'
  <1> DEFINE d == thread_op(t)
  <1>1. d \in Classes /\ wait_q \in [Classes -> Queue] /\ MonInv'
    BY ClassOfThread, SpuriousStep DEF WaitInv, MonInv, TypeOK, Queue
  <1>2. /\ wait_q' = [wait_q EXCEPT ![d] = spurious(@, t)] /\ t \in WaitingOf(d)
        /\ UNCHANGED <<pc, n_curr, n_max, strict_alternation, resource_status>>
    BY DEF SpuriousWakeup, settings, WaitingOf
  <1>3. \A c \in Classes : WaitingOf(c)' = WaitingOf(c)
    BY <1>2 DEF WaitingOf
  <1>4. Agreed(spurious(wait_q[d], t), WaitingOf(d))
    BY <1>1, QueueAgreements DEF WaitInv, QueuesKnow
  <1>5. \A c \in Classes : Agreed(wait_q'[c], WaitingOf(c)')
    BY <1>1, <1>2, <1>3, <1>4 DEF WaitInv, QueuesKnow
  <1>6. QueuesKnow'
    BY <1>5 DEF QueuesKnow, Agreed
  <1>7. StatusTells' /\ LimitsPositive'
    BY <1>2 DEF WaitInv, StatusTells, LimitsPositive
  <1>8. t \in WaitingOf(d)' /\ t \notin wait_q'[d].asleep
    <2>1. t \notin spurious(wait_q[d], t).asleep
      BY <1>1 DEF spurious, Queue
    <2> QED
      BY <1>1, <1>2, <1>3, <2>1
  <1>9. (t \in Waiting /\ t \notin Asleep)'
    BY <1>1, <1>5, <1>8, AwakeIsAwake
  <1>10. SomebodyComes'
    BY <1>9 DEF SomebodyComes
  <1> QED
    BY <1>1, <1>6, <1>7, <1>10 DEF WaitInv

\* The last one out wakes one of its own class, or if none waits all others.
LEMMA WaitReleaseStep == ASSUME WaitInv, NEW t \in Threads, Release(t) PROVE WaitInv'
  <1> DEFINE d == thread_op(t)
             o == Other(d)
             m == n_curr[d] - 1
  <1>1. /\ d \in Classes /\ o \in Classes /\ o # d /\ BusyBy(d) # BusyBy(o)
        /\ BusyBy(d) # "AVAILABLE" /\ BusyBy(o) # "AVAILABLE"
        /\ \A c \in Classes : c = d \/ c = o
    BY ClassOfThread, OtherClass
  <1>2. /\ wait_q \in [Classes -> Queue] /\ n_curr \in [Classes -> Nat] /\ MonInv'
        /\ pc \in [Threads -> {"idle", "requesting", "waiting", "granted",
                               "released", "turned_away", "stopped"}]
    BY ReleaseStep DEF WaitInv, MonInv, TypeOK, Queue
  <1>3. UNCHANGED <<n_max, strict_alternation>> /\ pc[t] # "waiting"
    BY DEF Release, settings
  <1>4. LimitsPositive'
    BY <1>3 DEF WaitInv, LimitsPositive
  <1>5. CASE n_curr[d] > 0 /\ hand_over(t)
    <2>1. /\ n_curr' = [n_curr EXCEPT ![d] = m] /\ pc' = [pc EXCEPT ![t] = "released"]
          /\ resource_status' = IF m = 0 THEN "AVAILABLE" ELSE resource_status
          /\ wait_q' = wake_after_release(d, m)
      BY <1>5 DEF hand_over
    <2>2. n_curr'[d] = m /\ n_curr'[o] = n_curr[o] /\ m \in Nat
      BY <1>1, <1>2, <1>5, <2>1
    <2>3. resource_status = BusyBy(d) /\ n_curr[o] = 0
      BY <1>1, <1>2, <1>5 DEF WaitInv, StatusTells
    <2>4. StatusTells'
      <3>1. n_curr'[o] > 0 <=> resource_status' = BusyBy(o)
        BY <1>1, <2>1, <2>2, <2>3
      <3>2. n_curr'[d] > 0 <=> resource_status' = BusyBy(d)
        <4>1. CASE m = 0
          <5>1. ~(n_curr'[d] > 0)
            BY <2>2, <4>1
          <5>2. resource_status' # BusyBy(d)
            BY <1>1, <2>1, <4>1
          <5> QED
            BY <5>1, <5>2
        <4>2. CASE m # 0
          <5>1. n_curr'[d] > 0
            BY <1>1, <1>2, <2>2, <4>2
          <5>2. resource_status' = BusyBy(d)
            BY <2>1, <2>3, <4>2
          <5> QED
            BY <5>1, <5>2
        <4> QED
          BY <4>1, <4>2
      <3> QED
        BY <1>1, <3>1, <3>2 DEF StatusTells
    <2>5. \A c \in Classes : WaitingOf(c)' = WaitingOf(c)
      BY <1>2, <1>3, <2>1 DEF WaitingOf
    <2>6. \A c \in Classes : Agreed(wait_q[c], WaitingOf(c))
      BY DEF WaitInv, QueuesKnow
    <2>7. CASE wait_q[d].count > 0
      <3>1. /\ wait_q'[d] = wait_queue_signal_priority(wait_q[d]) /\ wait_q'[o] = wait_q[o]
        BY <1>1, <1>2, <2>1, <2>7 DEF wake_after_release
      <3>2. \A c \in Classes : Agreed(wait_q'[c], WaitingOf(c)')
        <4>1. Agreed(wait_queue_signal_priority(wait_q[d]), WaitingOf(d))
          BY <1>1, <1>2, <2>6, QueueAgreements
        <4>2. Agreed(wait_q'[d], WaitingOf(d)') /\ Agreed(wait_q'[o], WaitingOf(o)')
          BY <1>1, <2>5, <2>6, <3>1, <4>1
        <4> QED
          BY <1>1, <4>2
      <3>3. QueuesKnow'
        BY <3>2 DEF QueuesKnow, Agreed
      <3>4. \E u \in WaitingOf(d)' : u \notin wait_q'[d].asleep
        BY <1>1, <1>2, <2>5, <2>6, <2>7, <3>1, SomebodyIsAwake
      <3>5. \E u : (u \in Waiting /\ u \notin Asleep)'
        BY <1>1, <3>2, <3>4, AwakeIsAwake
      <3>6. SomebodyComes'
        BY <3>5 DEF SomebodyComes
      <3> QED
        BY <1>2, <1>4, <2>4, <3>3, <3>6 DEF WaitInv
    <2>8. CASE ~(wait_q[d].count > 0) /\ m = 0 /\ wait_q[o].count > 0
      <3>1. /\ wait_q'[o] = wait_queue_broadcast(wait_q[o]) /\ wait_q'[d] = wait_q[d]
        BY <1>1, <1>2, <2>1, <2>8 DEF wake_after_release
      <3>2. \A c \in Classes : Agreed(wait_q'[c], WaitingOf(c)')
        <4>1. Agreed(wait_queue_broadcast(wait_q[o]), WaitingOf(o))
          BY <1>1, <1>2, <2>6, QueueAgreements
        <4>2. Agreed(wait_q'[d], WaitingOf(d)') /\ Agreed(wait_q'[o], WaitingOf(o)')
          BY <1>1, <2>5, <2>6, <3>1, <4>1
        <4> QED
          BY <1>1, <4>2
      <3>3. QueuesKnow'
        BY <3>2 DEF QueuesKnow, Agreed
      <3>4. \E u \in WaitingOf(o)' : u \notin wait_q'[o].asleep
        BY <1>1, <1>2, <2>5, <2>6, <2>8, <3>1, SomebodyIsAwake
      <3>5. \E u : (u \in Waiting /\ u \notin Asleep)'
        BY <1>1, <3>2, <3>4, AwakeIsAwake
      <3>6. SomebodyComes'
        BY <3>5 DEF SomebodyComes
      <3> QED
        BY <1>2, <1>4, <2>4, <3>3, <3>6 DEF WaitInv
    <2>9. CASE ~(wait_q[d].count > 0) /\ ~(m = 0 /\ wait_q[o].count > 0)
      <3>1. wait_q' = wait_q
        BY <2>1, <2>9 DEF wake_after_release
      <3>2. QueuesKnow'
        BY <2>5, <2>6, <3>1 DEF QueuesKnow, Agreed
      <3>3. CASE m = 0
        <4>1. \A c \in Classes : wait_q[c].count = 0
          <5>1. wait_q[d].count \in Nat /\ wait_q[o].count \in Nat
            BY <1>1, <1>2 DEF Queue
          <5>2. wait_q[d].count = 0 /\ wait_q[o].count = 0
            BY <2>9, <3>3, <5>1
          <5> QED
            BY <1>1, <5>2
        <4>2. \A c \in Classes : wait_q[c].asleep = {}
          <5>1. \A c \in Classes : WaitingOf(c) \in SUBSET Threads
            BY DEF WaitingOf
          <5>2. \A c \in Classes : WaitingOf(c) = {}
            <6>1. \A c \in Classes : Cardinality(WaitingOf(c)) = 0
              BY <4>1 DEF WaitInv, MonInv, Counted
            <6> QED
              BY <5>1, <6>1, CountOfSubset, ThreadsFinite
          <5> QED
            BY <2>6, <5>2 DEF Agreed
        <4>3. Asleep' = {}
          BY <3>1, <4>2 DEF Asleep, Classes
        <4>4. SomebodyComes'
          BY <4>3 DEF SomebodyComes
        <4> QED
          BY <1>2, <1>4, <2>4, <3>2, <4>4 DEF WaitInv
      <3>4. CASE m # 0
        <4>1. SomebodyComes'
          BY <1>1, <2>2, <3>4 DEF SomebodyComes
        <4> QED
          BY <1>2, <1>4, <2>4, <3>2, <4>1 DEF WaitInv
      <3> QED
        BY <3>3, <3>4
    <2> QED
      BY <2>7, <2>8, <2>9
  <1>6. CASE abort
    BY <1>2, <1>3, <1>6 DEF abort, WaitInv, QueuesKnow, Agreed, WaitingOf, StatusTells,
       LimitsPositive, SomebodyComes, Asleep, Waiting
  <1> QED
    BY <1>5, <1>6 DEF Release

\* Every step keeps the queues and somebody awake.
LEMMA WaitInvNext == WaitInv /\ [Next]_vars => WaitInv'
  <1> SUFFICES ASSUME WaitInv, [Next]_vars PROVE WaitInv'
    OBVIOUS
  <1>1. MonInv'
    BY MonInvNext DEF WaitInv
  <1>2. ASSUME UNCHANGED <<n_max, strict_alternation, n_curr, resource_status, wait_q>>,
               \A u \in Threads : pc'[u] = "waiting" <=> pc[u] = "waiting"
        PROVE  WaitInv'
    <2>1. Waiting' = Waiting /\ Asleep' = Asleep /\ \A c \in Classes : WaitingOf(c)' = WaitingOf(c)
      BY <1>2 DEF Waiting, Asleep, WaitingOf
    <2>2. QueuesKnow'
      BY <1>2, <2>1 DEF WaitInv, QueuesKnow, Agreed
    <2>3. StatusTells' /\ LimitsPositive' /\ SomebodyComes'
      BY <1>2, <2>1 DEF WaitInv, StatusTells, LimitsPositive, SomebodyComes
    <2> QED
      BY <1>1, <2>2, <2>3 DEF WaitInv
  <1>3. pc \in [Threads -> {"idle", "requesting", "waiting", "granted",
                            "released", "turned_away", "stopped"}]
    BY DEF WaitInv, MonInv, TypeOK
  <1>4. ASSUME NEW t \in Threads, TestShutdown(t) \/ TestDeleted(t) PROVE WaitInv'
    BY <1>2, <1>3, <1>4 DEF TestShutdown, TestDeleted, settings
  <1>5. CASE ShutDown
    BY <1>2, <1>5 DEF ShutDown, settings
  <1>6. CASE UNCHANGED vars
    BY <1>2, <1>6 DEF vars, settings
  <1> QED
    BY <1>4, <1>5, <1>6, WaitRequestStep, WaitWakeStep, WaitSpuriousStep, WaitReleaseStep
       DEF Next, Step

\* The counters, the lines and the sleeping threads of the wait queues agree.
THEOREM QueuesDoAgree == Spec => []QueuesAgree
  <1>1. WaitInv => QueuesAgree
    BY DEF WaitInv, QueuesKnow, Agreed, QueuesAgree, WaitingOf, Waiting
  <1> QED
    BY <1>1, WaitInvInit, WaitInvNext, PTL DEF Spec

\* No wake-up is lost: nobody sleeps alone next to an idle resource.
THEOREM NobodyStranded == Spec => []NoStrandedWaiter
  <1>1. WaitInv => NoStrandedWaiter
    BY DEF WaitInv, SomebodyComes, NoStrandedWaiter
  <1> QED
    BY <1>1, WaitInvInit, WaitInvNext, PTL DEF Spec
==============================================================================
