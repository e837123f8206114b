----------------------------- MODULE ThreadPool -----------------------------
(***************************************************************************)
(* The thread pool of threadlib (thread_pool_t).  Callers dispatch jobs:   *)
(* each takes a worker from the pool, sets it up and wakes it; the worker  *)
(* runs the job (stage 2), goes back to the pool, posts the semaphore of a *)
(* caller that waits for it, and sleeps (stage 3).                         *)
(*                                                                         *)
(* The pool's mutex guards the list and nothing else: the set-up of a      *)
(* worker and the reset of its semaphore pointer run without it, so each   *)
(* of these is an action of its own.                                       *)
(***************************************************************************)
EXTENDS Integers, SequencesExt

CONSTANTS Workers,
          Callers, BlockingCallers,  \* the callers that set block_caller
          MaxCalls,                  \* how many jobs a caller dispatches
          NoWorker, NoCaller         \* NULL

ASSUME PoolAssumption ==
    /\ BlockingCallers \subseteq Callers
    /\ MaxCalls \in Nat
    /\ NoWorker \notin Workers /\ NoCaller \notin Callers

VARIABLES pool,       \* pool_head: the threads of the list, first one first
          wpc,        \* where each worker is; "unborn": !thread_created
          semaphore,  \* thread->semaphore: the caller whose semaphore it is
          job,        \* the stage 2 argument in the thread's execution data
          cpc,        \* where each caller is in stage 1
          thread,     \* the variable thread of the caller
          posted,     \* the value of the caller's semaphore
          calls,      \* how many jobs the caller has dispatched
          done,       \* the jobs whose stage 2 has been run
          broken      \* a node was inserted that is in the list already

workerVars == <<wpc, done>>
callerVars == <<cpc, thread, calls>>
vars == <<pool, semaphore, job, posted, broken, workerVars, callerVars>>

Job(c) == <<c, calls[c]>>
Jobs == Callers \X (1 .. MaxCalls)
NoJob == <<NoCaller, 0>>

Init == /\ pool = <<>>
        /\ wpc = [w \in Workers |-> "new"]
        /\ semaphore = [w \in Workers |-> NoCaller]
        /\ job = [w \in Workers |-> NoJob]
        /\ cpc = [c \in Callers |-> "idle"]
        /\ thread = [c \in Callers |-> NoWorker]
        /\ posted = [c \in Callers |-> 0]
        /\ calls = [c \in Callers |-> 0]
        /\ done = {}
        /\ broken = FALSE

----------------------------------------------------------------------------
\* THE APPLICATION

\* thread_pool_insert_new_thread.  The comparison function of the library's
\* user puts every thread at the front.
InsertNew(w) ==
    /\ wpc[w] = "new"
    /\ wpc' = [wpc EXCEPT ![w] = "unborn"]
    /\ pool' = <<w>> \o pool
    /\ UNCHANGED <<semaphore, job, posted, broken, done, callerVars>>

\* Slip: the first thread is looked at, and left in the list.
first_thread(c) ==
    /\ thread' = [thread EXCEPT ![c] = Head(pool)]
    /\ UNCHANGED pool

\* thread_pool_get_thread, from a pool that is not empty.
dequeue_thread(c) ==
    /\ thread' = [thread EXCEPT ![c] = Head(pool)]
    /\ pool' = Tail(pool)

\* The start of a dispatch: with an empty pool it returns, and the job is dropped.
GetThread(c) ==
    /\ cpc[c] = "idle" /\ calls[c] < MaxCalls
    /\ calls' = [calls EXCEPT ![c] = @ + 1]
    /\ \/ pool = <<>> /\ UNCHANGED <<pool, thread, cpc>>
       \/ pool # <<>> /\ dequeue_thread(c) /\ cpc' = [cpc EXCEPT ![c] = "setting"]
    /\ UNCHANGED <<semaphore, job, posted, broken, workerVars>>

\* Slips: the new argument is not stored; the semaphore is not cached; it is
\* initialised with 1.
set_up_old_job(c) ==
    /\ cpc[c] = "setting"
    /\ semaphore' = [semaphore EXCEPT
         ![thread[c]] = IF c \in BlockingCallers THEN c ELSE NoCaller]
    /\ posted' = [posted EXCEPT ![c] = 0]
    /\ job' = [job EXCEPT ![thread[c]] = IF @ = NoJob THEN Job(c) ELSE @]
    /\ cpc' = [cpc EXCEPT ![c] = "firing"]
    /\ UNCHANGED <<pool, broken, thread, calls, workerVars>>

set_up_no_semaphore(c) ==
    /\ cpc[c] = "setting"
    /\ posted' = [posted EXCEPT ![c] = 0]
    /\ job' = [job EXCEPT ![thread[c]] = Job(c)]
    /\ cpc' = [cpc EXCEPT ![c] = "firing"]
    /\ UNCHANGED <<pool, semaphore, broken, thread, calls, workerVars>>

set_up_semaphore_1(c) ==
    /\ cpc[c] = "setting"
    /\ semaphore' = [semaphore EXCEPT
         ![thread[c]] = IF c \in BlockingCallers THEN c ELSE NoCaller]
    /\ posted' = [posted EXCEPT ![c] = 1]
    /\ job' = [job EXCEPT ![thread[c]] = Job(c)]
    /\ cpc' = [cpc EXCEPT ![c] = "firing"]
    /\ UNCHANGED <<pool, broken, thread, calls, workerVars>>

\* The set-up of the worker: the semaphore pointer, stage 2 and its argument.
SetUp(c) ==
    /\ cpc[c] = "setting"
    /\ semaphore' = [semaphore EXCEPT
         ![thread[c]] = IF c \in BlockingCallers THEN c ELSE NoCaller]
    /\ posted' = [posted EXCEPT ![c] = 0]
    /\ job' = [job EXCEPT ![thread[c]] = Job(c)]
    /\ cpc' = [cpc EXCEPT ![c] = "firing"]
    /\ UNCHANGED <<pool, broken, thread, calls, workerVars>>

\* Slip: only a thread that was not created is started.
fire_unborn_only(c) ==
    /\ cpc[c] = "firing"
    /\ wpc' = [wpc EXCEPT ![thread[c]] = IF @ = "unborn" THEN "running" ELSE @]
    /\ cpc' = [cpc EXCEPT ![c] = IF c \in BlockingCallers THEN "waiting" ELSE "idle"]
    /\ UNCHANGED <<pool, semaphore, job, posted, broken, done, thread, calls>>

\* thread_pool_run_thread: create the thread, or signal its condition variable,
\* which is lost on a thread that is not asleep.
Fire(c) ==
    /\ cpc[c] = "firing"
    /\ wpc' = [wpc EXCEPT
         ![thread[c]] = IF @ \in {"unborn", "asleep"} THEN "running" ELSE @]
    /\ cpc' = [cpc EXCEPT ![c] = IF c \in BlockingCallers THEN "waiting" ELSE "idle"]
    /\ UNCHANGED <<pool, semaphore, job, posted, broken, done, thread, calls>>

\* sem_wait returns, and the semaphore is destroyed and freed.
SemWait(c) ==
    /\ cpc[c] = "waiting" /\ posted[c] > 0
    /\ posted' = [posted EXCEPT ![c] = @ - 1]
    /\ cpc' = [cpc EXCEPT ![c] = "resetting"]
    /\ UNCHANGED <<pool, semaphore, job, broken, thread, calls, workerVars>>

\* thread->semaphore = NULL, when the thread may be somebody else's already.
ResetSemaphore(c) ==
    /\ cpc[c] = "resetting"
    /\ semaphore' = [semaphore EXCEPT ![thread[c]] = NoCaller]
    /\ cpc' = [cpc EXCEPT ![c] = "idle"]
    /\ UNCHANGED <<pool, job, posted, broken, thread, calls, workerVars>>

----------------------------------------------------------------------------
\* THE WORKERS

\* Stage 2.
RunJob(w) ==
    /\ wpc[w] = "running"
    /\ done' = done \cup {job[w]}
    /\ wpc' = [wpc EXCEPT ![w] = "done"]
    /\ UNCHANGED <<pool, semaphore, job, posted, broken, callerVars>>

\* Stage 3, from the lock to pthread_cond_wait.
Park(w) ==
    /\ wpc[w] = "done"
    /\ pool' = <<w>> \o pool
    /\ broken' = (w \in ToSet(pool))
    /\ posted' = [c \in Callers |-> IF semaphore[w] = c THEN posted[c] + 1 ELSE posted[c]]
    /\ wpc' = [wpc EXCEPT ![w] = "asleep"]
    /\ UNCHANGED <<semaphore, job, done, callerVars>>

\* pthread_cond_wait returned by itself.  It is not in a loop: the worker runs
\* its last job again.
SpuriousWakeup(w) ==
    /\ wpc[w] = "asleep"
    /\ wpc' = [wpc EXCEPT ![w] = "running"]
    /\ UNCHANGED <<pool, semaphore, job, posted, broken, done, callerVars>>

CallerStep(c) == SetUp(c) \/ Fire(c) \/ SemWait(c) \/ ResetSemaphore(c)
WorkerStep(w) == RunJob(w) \/ Park(w)

\* What a corrupted list does is not modelled: the model stops.
Next == /\ ~broken
        /\ \/ \E c \in Callers : GetThread(c) \/ CallerStep(c)
           \/ \E w \in Workers : InsertNew(w) \/ WorkerStep(w)

SafetySpec == Init /\ [][Next]_vars

\* The scheduler runs whoever can run; a caller may stop between two calls.
Spec == /\ SafetySpec
        /\ \A c \in Callers : WF_vars(CallerStep(c))
        /\ \A w \in Workers : WF_vars(WorkerStep(w))

\* The pool on a system whose condition variables wake up without a signal.
SpuriousNext == Next \/ (~broken /\ \E w \in Workers : SpuriousWakeup(w))
SpuriousSpec == Init /\ [][SpuriousNext]_vars

----------------------------------------------------------------------------
Holders(w) == {c \in Callers : thread[c] = w /\ cpc[c] \in {"setting", "firing"}}

\* A worker that rests is in the pool, once, or held by one caller that is
\* setting it up; a worker that works is neither.  This is what the two
\* assertions on wait_glue say, and what keeps a job from being overwritten.
NobodyLost ==
    /\ IsInjective(pool)
    /\ \A w \in Workers :
        /\ wpc[w] \in {"unborn", "asleep"}
             => \/ w \in ToSet(pool) /\ Holders(w) = {}
                \/ w \notin ToSet(pool) /\ \E c \in Callers : Holders(w) = {c}
        /\ wpc[w] \in {"new", "running", "done"}
             => w \notin ToSet(pool) /\ Holders(w) = {}

\* No job is run twice, though workers keep the argument of their last job.
JobsRunOnce ==
    [][\A w \in Workers : wpc[w] = "running" /\ wpc'[w] = "done" => job[w] \notin done]_vars

\* A caller that waited gets its answer after its own job has been run.
AnswersAreTrue ==
    [][\A c \in Callers : cpc[c] = "waiting" /\ cpc'[c] = "resetting"
                              => Job(c) \in done]_vars

\* A job given to a worker is run.
JobsGetDone ==
    \A j \in Jobs : (\E c \in Callers : cpc[c] = "firing" /\ Job(c) = j) ~> (j \in done)

\* "Wait for the thread to finish the Stage 2 and Stage 3 work ... notify the
\* parent thread": a caller that waits for its job is notified.
CallersReturn ==
    \A c \in Callers : cpc[c] = "waiting" ~> cpc[c] = "resetting"

\* "This fn assumes that thread has already been removed from thread pool":
\* the assertion of thread_pool_run_thread.
FiredThreadLeftThePool ==
    \A c \in Callers : cpc[c] = "firing" => thread[c] \notin ToSet(pool)
=============================================================================
