------------------------------- MODULE Monitor -------------------------------
(***************************************************************************)
(* The monitor of threadlib (monitor_t): readers and writers ask it for a  *)
(* resource, wait in one priority wait queue per class, and tell it when   *)
(* they are done.                                                          *)
(*                                                                         *)
(* monitor_talk_mutex is held from its lock to the next unlock or wait, so *)
(* such a section is one action.  The code gives it up three times, and so *)
(* does the model: between the shutdown test and the wait queue, while     *)
(* waiting, and before is_deleted is read.                                 *)
(***************************************************************************)
EXTENDS WaitQueue

CONSTANTS Readers, Writers,    \* the client threads, by thread_op
          Limits,              \* the limits init_monitor may be given
          ShutsDown,           \* whether the application calls monitor_shut_down
          StopAfterShutdown    \* whether a caller gives up when turned away
                               \* (FALSE: as thread_fn, it cannot tell)

ASSUME MonitorAssumption ==
    /\ Readers \cap Writers = {}
    /\ IsFiniteSet(Readers) /\ IsFiniteSet(Writers)
    /\ Limits \subseteq [{"READER", "WRITER"} -> Nat \ {0}]
    /\ ShutsDown \in BOOLEAN /\ StopAfterShutdown \in BOOLEAN

Threads == Readers \cup Writers
Classes == {"READER", "WRITER"}
thread_op(t) == IF t \in Readers THEN "READER" ELSE "WRITER"
Other(c) == IF c = "READER" THEN "WRITER" ELSE "READER"
BusyBy(c) == IF c = "READER" THEN "BUSY_BY_READER" ELSE "BUSY_BY_WRITER"

VARIABLES n_max,                \* n_readers_max_limit, n_writers_max_limit
          n_curr,               \* n_curr_readers, n_curr_writers
          resource_status,
          wait_q,               \* reader_thread_wait_q, writer_thread_wait_q
          strict_alternation,
          who_accessed_cs_last,
          shutdown, is_deleted,
          life,                 \* the monitor's memory: live, freed; aborted: an assert failed
          pc                    \* where each client thread is

vars == <<n_max, n_curr, resource_status, wait_q, strict_alternation,
          who_accessed_cs_last, shutdown, is_deleted, life, pc>>

settings == <<n_max, strict_alternation>>

----------------------------------------------------------------------------

\* init_monitor, and monitor_set_strict_alternation_behavior, which asserts
\* that both limits are 1.
Init ==
    /\ n_max \in Limits
    /\ strict_alternation \in
         IF n_max = [c \in Classes |-> 1] THEN BOOLEAN ELSE {FALSE}
    /\ n_curr = [c \in Classes |-> 0]
    /\ resource_status = "AVAILABLE"
    /\ wait_q = [c \in Classes |-> wait_queue_init]
    /\ who_accessed_cs_last = "ANY"
    /\ shutdown = FALSE
    /\ is_deleted = FALSE
    /\ life = "live"
    /\ pc = [t \in Threads |-> "idle"]

\* The first section of monitor_request_access_permission.  It returns void:
\* a caller that was turned away is not told so.
TestShutdown(t) ==
    /\ life = "live" /\ pc[t] = "idle"
    /\ pc' = [pc EXCEPT ![t] = IF ~shutdown THEN "requesting"
                               ELSE IF StopAfterShutdown THEN "stopped"
                               ELSE "turned_away"]
    /\ UNCHANGED <<settings, n_curr, resource_status, wait_q,
                   who_accessed_cs_last, shutdown, is_deleted, life>>

\* Slips in the predicate: one thread too many; the alternation is not looked at.
limit_overrun(c) ==
    /\ n_curr[c] <= n_max[c]
    /\ resource_status \in {"AVAILABLE", BusyBy(c)}
    /\ resource_status = "AVAILABLE" /\ strict_alternation
          => who_accessed_cs_last # c

no_alternation(c) ==
    /\ n_curr[c] < n_max[c]
    /\ resource_status \in {"AVAILABLE", BusyBy(c)}

\* The predicate of the wait queues: there is room for the class, nobody of
\* the other class is in, and the class may be next.
monitor_is_resource_available(c) ==
    /\ n_curr[c] < n_max[c]
    /\ resource_status \in {"AVAILABLE", BusyBy(c)}
    /\ resource_status = "AVAILABLE" /\ strict_alternation
          => who_accessed_cs_last # c

\* The rest of the request: t joins the active threads and is counted.
grant(t, queues) ==
    LET c == thread_op(t) IN
    /\ wait_q' = queues
    /\ n_curr' = [n_curr EXCEPT ![c] = @ + 1]
    /\ resource_status' = BusyBy(c)
    /\ who_accessed_cs_last' = c
    /\ pc' = [pc EXCEPT ![t] = "granted"]

wait(t, queues) ==
    LET c == thread_op(t) IN
    /\ wait_q' = [queues EXCEPT ![c] = block(@, t, TRUE)]
    /\ pc' = [pc EXCEPT ![t] = "waiting"]
    /\ UNCHANGED <<n_curr, resource_status, who_accessed_cs_last>>

\* wait_queue_test_and_wait from its predicate call to the return or the
\* next wait, with the queues as they are when the predicate is called.
test_and_wait(t, queues) ==
    /\ \/ monitor_is_resource_available(thread_op(t)) /\ grant(t, queues)
       \/ ~monitor_is_resource_available(thread_op(t)) /\ wait(t, queues)
    /\ UNCHANGED <<settings, shutdown, is_deleted, life>>

Request(t) ==
    /\ life = "live" /\ pc[t] = "requesting"
    /\ test_and_wait(t, wait_q)

\* A woken thread has the mutex again and tests the predicate again.
Wake(t) ==
    /\ life = "live" /\ pc[t] = "waiting"
    /\ t \notin wait_q[thread_op(t)].asleep
    /\ test_and_wait(t, [wait_q EXCEPT ![thread_op(t)] = resume(@, t)])

SpuriousWakeup(t) ==
    /\ life = "live" /\ pc[t] = "waiting"
    /\ t \in wait_q[thread_op(t)].asleep
    /\ wait_q' = [wait_q EXCEPT ![thread_op(t)] = spurious(@, t)]
    /\ UNCHANGED <<settings, n_curr, resource_status, who_accessed_cs_last,
                   shutdown, is_deleted, life, pc>>

\* Slip: the status is looked at before it is set to available.
deleted_if_available ==
    /\ resource_status = "AVAILABLE"
    /\ \A c \in Classes : wait_q[c].count = 0

\* monitor_check_and_delete_monitor, for a monitor just marked available.
\* The shutdown flag is not looked at.
monitor_check_and_delete_monitor ==
    \A c \in Classes : wait_q[c].count = 0

\* Slips: the other class is not woken, or the own class is not.
no_broadcast(c, m) ==
    IF wait_q[c].count > 0
    THEN [wait_q EXCEPT ![c] = wait_queue_signal_priority(@)] ELSE wait_q

no_signal(c, m) ==
    IF m = 0 /\ wait_q[Other(c)].count > 0
    THEN [wait_q EXCEPT ![Other(c)] = wait_queue_broadcast(@)] ELSE wait_q

\* Which waiters the release of a thread of class c wakes, m threads of the
\* class being left inside: one of its own class if any waits, else all of
\* the other class once nobody is left.
wake_after_release(c, m) ==
    IF wait_q[c].count > 0
    THEN [wait_q EXCEPT ![c] = wait_queue_signal_priority(@)]
    ELSE IF m = 0 /\ wait_q[Other(c)].count > 0
    THEN [wait_q EXCEPT ![Other(c)] = wait_queue_broadcast(@)]
    ELSE wait_q

\* monitor_inform_resource_released up to the unlock.
hand_over(t) ==
    LET c == thread_op(t)
        m == n_curr[c] - 1
    IN  /\ n_curr' = [n_curr EXCEPT ![c] = m]
        /\ resource_status' = IF m = 0 THEN "AVAILABLE" ELSE resource_status
        /\ is_deleted' = (is_deleted \/ (m = 0 /\ monitor_check_and_delete_monitor))
        /\ wait_q' = wake_after_release(c, m)
        /\ pc' = [pc EXCEPT ![t] = "released"]
        /\ UNCHANGED life

\* Its assertion: nobody of the class is counted.  Only a thread that was
\* turned away meets it, for it is not counted itself.
abort == /\ life' = "aborted"
         /\ UNCHANGED <<n_curr, resource_status, is_deleted, wait_q, pc>>

Release(t) ==
    /\ life = "live" /\ pc[t] \in {"granted", "turned_away"}
    /\ IF n_curr[thread_op(t)] > 0 THEN hand_over(t) ELSE abort
    /\ UNCHANGED <<settings, who_accessed_cs_last, shutdown>>

\* After the unlock: is_deleted is read, and the monitor freed, unlocked.
\* What a thread does to a freed monitor is not modelled: the model stops.
TestDeleted(t) ==
    /\ life = "live" /\ pc[t] = "released"
    /\ life' = IF is_deleted THEN "freed" ELSE "live"
    /\ pc' = [pc EXCEPT ![t] = "idle"]
    /\ UNCHANGED <<settings, n_curr, resource_status, wait_q,
                   who_accessed_cs_last, shutdown, is_deleted>>

\* monitor_shut_down, by the main thread.
ShutDown ==
    /\ life = "live" /\ ShutsDown /\ ~shutdown
    /\ shutdown' = TRUE
    /\ UNCHANGED <<settings, n_curr, resource_status, wait_q,
                   who_accessed_cs_last, is_deleted, life, pc>>

\* A call, once made, runs to its end; so does the client's use of the resource.
Step(t) == Request(t) \/ Wake(t) \/ Release(t) \/ TestDeleted(t)

Next == \/ \E t \in Threads : TestShutdown(t) \/ Step(t) \/ SpuriousWakeup(t)
        \/ ShutDown

Spec == Init /\ [][Next]_vars

\* The scheduler runs every thread that can run.
FairSpec == Spec /\ \A t \in Threads : WF_vars(Step(t))

----------------------------------------------------------------------------
Granted(c)  == {t \in Threads : pc[t] = "granted" /\ thread_op(t) = c}
Waiting     == {t \in Threads : pc[t] = "waiting"}
Asleep      == wait_q["READER"].asleep \cup wait_q["WRITER"].asleep

TypeOK ==
    /\ n_max \in [Classes -> Nat]
    /\ n_curr \in [Classes -> Nat]
    /\ resource_status \in {"AVAILABLE", "BUSY_BY_READER", "BUSY_BY_WRITER"}
    /\ wait_q \in [Classes -> [count  : Nat,
                               line   : Seq(Threads),
                               asleep : SUBSET Threads]]
    /\ strict_alternation \in BOOLEAN
    /\ who_accessed_cs_last \in {"ANY"} \cup Classes
    /\ shutdown \in BOOLEAN
    /\ is_deleted \in BOOLEAN
    /\ life \in {"live", "freed", "aborted"}
    /\ pc \in [Threads -> {"idle", "requesting", "waiting", "granted",
                           "released", "turned_away", "stopped"}]

\* The monitor's counters are the threads inside, its status says which class
\* they are of, and no class is over its limit or in with the other.
Exclusion ==
    /\ \A c \in Classes : /\ n_curr[c] = Cardinality(Granted(c))
                          /\ n_curr[c] <= n_max[c]
                          /\ resource_status = BusyBy(c) <=> n_curr[c] > 0
    /\ Granted("READER") = {} \/ Granted("WRITER") = {}

\* No lost wake-up: while the monitor lives and nobody is inside, a sleeping
\* waiter of a monitor without strict alternation is never alone: some waiter
\* is awake and on its way to the predicate.  It relates the choice of whom
\* to wake on release to what the woken thread does when it is refused.
NoStrandedWaiter ==
    life = "live" /\ ~strict_alternation /\ Asleep # {}
    /\ (\A c \in Classes : n_curr[c] = 0)
        => \E t \in Waiting : t \notin Asleep

\* The two places that say who waits agree: the counter the release and the
\* deletion test read, and the line that names the thread to signal.
QueuesAgree ==
    life = "live" =>
    \A c \in Classes :
        /\ wait_q[c].count = Len(wait_q[c].line)
        /\ IsInjective(wait_q[c].line)
        /\ ToSet(wait_q[c].line) = {t \in Waiting : thread_op(t) = c}
        /\ wait_q[c].asleep \subseteq ToSet(wait_q[c].line)

\* Strict alternation: two consecutive grants are of different classes.
StrictAlternation ==
    [][\A t \in Threads :
         strict_alternation /\ pc[t] # "granted" /\ pc'[t] = "granted"
             => who_accessed_cs_last # thread_op(t)]_vars

\* The monitor's clients see a reader/writer access as RWAccess describes it.
Access == INSTANCE RWAccess WITH
              inside <- [t \in Threads |-> IF pc[t] = "granted"
                                           THEN thread_op(t) ELSE "NONE"],
              limit  <- n_max
ImplementsAccess == Access!Spec

\* Somebody waiting means that somebody gets in, again and again: the monitor
\* without strict alternation never locks up (it may be freed, though).
SomebodyGetsIn ==
    (Waiting # {} /\ ~strict_alternation)
        ~> (life # "live" \/ \E c \in Classes : Granted(c) # {})

\* A shut-down monitor that is in use when it is shut down serves whoever
\* waits and is then freed: the shop closes behind its last customer.
ShutDownCompletes ==
    (shutdown /\ ~strict_alternation /\ \E c \in Classes : Granted(c) # {})
        ~> (life = "freed")

----------------------------------------------------------------------------
\* What the comments of the code say, and the code does not do.

\* threadlib.c 1387: "Only the last thread exiting out the monitor will see
\* is_deleted flag set to true ... there wont be any concurrent threads
\* accessing the monitor at this point".
OnlyTheLastThreadFrees ==
    life = "freed" => \A t \in Threads : pc[t] \in {"idle", "stopped"}

==============================================================================
