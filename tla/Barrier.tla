------------------------------- MODULE Barrier -------------------------------
(***************************************************************************)
(* The thread barrier of threadlib (th_barrier_t).  The last thread of a   *)
(* round closes the barrier and signals one waiter; each waiter that runs  *)
(* signals the next, and the last of them opens the barrier again.  The    *)
(* mutex is held throughout but while waiting.                             *)
(***************************************************************************)
EXTENDS Integers, FiniteSets

CONSTANTS BarThreads,
          Thresholds,   \* the thresholds a barrier may be given
          MaxRounds     \* how often a thread comes to the barrier

\* With a threshold of 1 the first thread closes the barrier for good.
ASSUME BarrierAssumption ==
    /\ IsFiniteSet(BarThreads)
    /\ Thresholds \subseteq Nat \ {0, 1}
    /\ MaxRounds \in Nat

VARIABLES bar_threshold, curr_wait_count, is_ready_again,   \* th_barrier_t
          bar_asleep,      \* the threads in pthread_cond_wait on cv
          busy_asleep,     \* the threads in pthread_cond_wait on busy_cv
          bpc,             \* where each thread is: out, busy (first wait), waiting
          cleared,         \* how many barricades each thread has cleared
          bar_dispersed    \* history: a waiter was woken before its round was full

barVars == <<bar_threshold, curr_wait_count, is_ready_again, bar_asleep,
             busy_asleep, bpc, cleared, bar_dispersed>>

BarInit ==
    /\ bar_threshold \in Thresholds
    /\ curr_wait_count = 0
    /\ is_ready_again = TRUE
    /\ bar_asleep = {} /\ busy_asleep = {}
    /\ bpc = [t \in BarThreads |-> "out"]
    /\ cleared = [t \in BarThreads |-> 0]
    /\ bar_dispersed = FALSE

BarWaiting == {t \in BarThreads : bpc[t] = "waiting"}

----------------------------------------------------------------------------

\* pthread_cond_signal on cv.
bar_signal ==
    IF bar_asleep = {} THEN UNCHANGED bar_asleep
    ELSE \E u \in bar_asleep : bar_asleep' = bar_asleep \ {u}

bar_clear(t) == /\ bpc' = [bpc EXCEPT ![t] = "out"]
                /\ cleared' = [cleared EXCEPT ![t] = @ + 1]

\* thread_barrier_barricade when the barrier is ready: the last thread of the
\* round goes on, the others wait.
bar_gather(t) ==
    /\ is_ready_again
    /\ \/ /\ curr_wait_count + 1 = bar_threshold
          /\ is_ready_again' = FALSE
          /\ bar_signal /\ bar_clear(t)
          /\ UNCHANGED curr_wait_count
       \/ /\ curr_wait_count + 1 # bar_threshold
          /\ curr_wait_count' = curr_wait_count + 1
          /\ bar_asleep' = bar_asleep \cup {t}
          /\ bpc' = [bpc EXCEPT ![t] = "waiting"]
          /\ UNCHANGED <<is_ready_again, cleared>>

\* The loop on busy_cv, and what follows it.
bar_try(t) ==
    /\ \/ bar_gather(t) /\ UNCHANGED busy_asleep
       \/ /\ ~is_ready_again
          /\ busy_asleep' = busy_asleep \cup {t}
          /\ bpc' = [bpc EXCEPT ![t] = "busy"]
          /\ UNCHANGED <<is_ready_again, curr_wait_count, bar_asleep, cleared>>
    /\ UNCHANGED <<bar_threshold, bar_dispersed>>

thread_barrier_barricade(t) ==
    /\ bpc[t] = "out" /\ cleared[t] < MaxRounds
    /\ bar_try(t)

bar_busy_woken(t) ==
    /\ bpc[t] = "busy" /\ t \notin busy_asleep
    /\ bar_try(t)

\* Slip: the woken waiter does not signal the next one.
bar_chain_broken(t) ==
    /\ bpc[t] = "waiting" /\ t \notin bar_asleep
    /\ curr_wait_count' = curr_wait_count - 1
    /\ IF curr_wait_count = 1
       THEN is_ready_again' = TRUE /\ busy_asleep' = {}
       ELSE UNCHANGED <<is_ready_again, busy_asleep>>
    /\ bar_clear(t)
    /\ UNCHANGED <<bar_threshold, bar_asleep, bar_dispersed>>

\* Slip: the barrier is opened by the first waiter that leaves.
bar_opened_early(t) ==
    /\ bpc[t] = "waiting" /\ t \notin bar_asleep
    /\ curr_wait_count' = curr_wait_count - 1
    /\ is_ready_again' = TRUE /\ busy_asleep' = {} /\ bar_signal
    /\ bar_clear(t)
    /\ UNCHANGED <<bar_threshold, bar_dispersed>>

\* A waiter that is woken leaves, without a test, and passes the wake-up on.
bar_woken(t) ==
    /\ bpc[t] = "waiting" /\ t \notin bar_asleep
    /\ curr_wait_count' = curr_wait_count - 1
    /\ IF curr_wait_count = 1
       THEN is_ready_again' = TRUE /\ busy_asleep' = {} /\ UNCHANGED bar_asleep
       ELSE bar_signal /\ UNCHANGED <<is_ready_again, busy_asleep>>
    /\ bar_clear(t)
    /\ UNCHANGED <<bar_threshold, bar_dispersed>>

\* thread_barrier_signal_all wakes one waiter of a round that is not full.
thread_barrier_signal_all ==
    /\ is_ready_again /\ curr_wait_count # 0
    /\ bar_signal
    /\ bar_dispersed' = TRUE
    /\ UNCHANGED <<bar_threshold, curr_wait_count, is_ready_again, busy_asleep, bpc, cleared>>

\* pthread_cond_wait returned by itself: the wait on cv is not in a loop, so
\* that the round is dispersed; the wait on busy_cv is.
bar_spurious_wakeup(t) ==
    \/ /\ t \in bar_asleep
       /\ bar_asleep' = bar_asleep \ {t}
       /\ bar_dispersed' = (bar_dispersed \/ is_ready_again)
       /\ UNCHANGED <<bar_threshold, curr_wait_count, is_ready_again, busy_asleep, bpc, cleared>>
    \/ /\ t \in busy_asleep
       /\ busy_asleep' = busy_asleep \ {t}
       /\ UNCHANGED <<bar_threshold, curr_wait_count, is_ready_again, bar_asleep, bpc,
                      cleared, bar_dispersed>>

BarNext == \/ thread_barrier_signal_all
           \/ \E t \in BarThreads : \/ thread_barrier_barricade(t)
                                 \/ bar_busy_woken(t) \/ bar_woken(t)
                                 \/ bar_spurious_wakeup(t)

BarSpec == BarInit /\ [][BarNext]_barVars

\* The scheduler runs a thread that was woken.
BarFairness == \A t \in BarThreads : WF_barVars(bar_busy_woken(t) \/ bar_woken(t))

----------------------------------------------------------------------------

\* The count is the number of the waiters, always less than the threshold; a
\* closed barrier has a waiter on its way out, so that the chain of signals is
\* not broken, and nobody sleeps at the door of an open one.
BarChainUnbroken ==
    /\ curr_wait_count = Cardinality(BarWaiting)
    /\ curr_wait_count < bar_threshold
    /\ ~is_ready_again => BarWaiting \ bar_asleep # {}
    /\ is_ready_again => busy_asleep = {}

\* The barrier as a meeting: the waiters of an open barrier have gathered,
\* those of a closed one are leaving.
BarMeeting == INSTANCE Meeting WITH
                Threads   <- BarThreads,
                threshold <- bar_threshold,
                gathered  <- IF is_ready_again THEN BarWaiting ELSE {},
                leaving   <- IF is_ready_again THEN {} ELSE BarWaiting,
                dispersed <- bar_dispersed
BarImplementsMeeting == BarMeeting!Spec

\* A barrier that a full round has closed opens again.
BarReopens == ~is_ready_again ~> is_ready_again
==============================================================================
