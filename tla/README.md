# The threads library and its problems, in TLA+

The repository is a collection of C and C++ programs about threads: a library of
synchronisation constructs built from `pthread_mutex_t` and `pthread_cond_t`
(`src/references/ThreadSyncAdv/threadlib`, "threadlib" below), locks and semaphores built the
same way in directories of their own, the constructs' first versions, and solutions of textbook
problems that use them. Everything interesting in it happens between threads: who holds
which mutex, who sleeps on which condition variable, who is woken, and what has changed by the
time the woken thread runs. That is what the modules here model, what TLC checks on small
instances and what TLAPS proves for all sizes.

`PROJECT.json` maps every definition to the lines it models and lists the runs, the mutants
(slips that each property is shown to catch), the hazards and the theorems.

## 1. Inventory

Sources are under `src/references` unless they begin with `NFC`, which is under
`src/Multithreading_Thread_Synchronization`; `T` is `ThreadSyncAdv/threadlib/threadlib.c`,
`CD` is `ThreadSyncAdv/threadlib/CourseDev`.

| component | state | operations | what makes it correct | modules |
|---|---|---|---|---|
| monitor (`T` 1000-1470) | counters and limits of readers and writers, status, two priority wait queues, strict alternation, shutdown and deletion flags | request, release, shut down | exclusion and limits, nobody sleeps next to a free resource, alternation, orderly shutdown | `Monitor`, `WaitQueue`, `RWAccess`, `MonitorProofs` |
| wait queue (`T` 555-765; `CD/section_thread_map_reduce`) | wait count, priority line, condition variables | test and wait, signal, broadcast | count and line agree, a signal reaches a waiter | `WaitQueue` in the monitor, `TrafficLight` and `MapReduce` with the plain queue |
| first wait queue (`WaitQueues/wait_queue_v1.c`) | count, borrowed mutex, condition variable | test and wait, signal | the sleepers are those that are counted | `WaitQueueV1`, `PrimitivesProofs` |
| recursive mutex (`recursive_mutex/`) | depth, owner, count of waiters | lock, unlock, destroy | one owner, no lost wake-up, destroyable when unused | `RecMutex`, `Clients`, `LockProofs` |
| read/write lock (`rw_locks/`) | number of locks, class, writer, counts of waiters | read lock, write lock, unlock, destroy | exclusion with nested locks, no lost wake-up | `RWLock`, `Clients`, `LockProofs` |
| bridge (`rw_locks/monitor/`) | as the read/write lock, with limits and two flags that shut a class out; the bridge's counters | lock, arrive, exit, unlock | one way at a time, limits, both sides get their turn | `BridgeLock`, `PrimitivesProofs` |
| customizable read/write lock (`customizable_rw_locks/`) | as above, with limits and a bias | configure, lock, unlock | limits, nobody asleep whom no unlock will find | `BiasedRWLock`, `PrimitivesProofs` |
| thread-safe CRUD manager (`ThreadSafeCruds/`) | flag word, counters and condition variables of each node; lists of nodes per state; two levels of mutexes | request and release of read, write, create, delete | writers alone, one creation or deletion at a time, flags and lists agree, everybody is served | `CrudMgr`, `CrudMgrProofs` |
| first monitor (`Monitors/`) | status, two wait lists, list of users | request, release | writer alone, a waiter is resumed | `FirstMonitor`, `PrimitivesProofs` |
| thread pool (`T` 40-290) | list of parked threads; per thread its job and semaphore pointer | insert, dispatch (with or without waiting), park | no worker lost or shared, each job run once, waiting callers answered | `ThreadPool`, `WorkProofs` |
| thread barrier (`T` 910-1000, `ThreadBarrier/`) | threshold, wait count, readiness, two condition variables | barricade, signal all | a round passes together, the next one starts when it has left | `Barrier`, `Meeting`, `PrimitivesProofs` |
| event pair (`T` 360-520) | two semaphores, one for the start | init, wait, hand off | the shared memory is one party's at a time | `EventPair`, `PrimitivesProofs` |
| counting semaphore (`Semaphores/`) | permit counter, condition variable | wait, post | no permit lost; the odd/even program prints in order | `StrictCounter` |
| assembly line (`T` 1560-1960, `Fifo_Queue.c`) | ring of slots, wait list, count of workers ready, state | set up, push, engine and worker cycle | engine and workers keep step, objects pass all workers in order, nothing lost | `AssemblyLine`, `FifoQueue`, `WorkProofs` |
| first assembly line (`AssemblyLine/asl.c`) | a queue per stage, count of workers in operation | enqueue, work, hand on, destroy | order kept, no car left behind, the line comes to be destroyed | `FirstAssemblyLine`, `WorkProofs` |
| map-reduce (`CD/section_thread_map_reduce`) | count of mappers in progress, wait queue, semaphore, results | start, map, reduce, ask | the reducer starts after all mappers, the caller gets the whole result | `MapReduce` |
| thread pause (`ThreadPausing/`, `CD/section_thread_pause`, `MasterSlave/`) | pause flag, condition variables | pause, resume, test and pause | a thread stops only for a command that still holds, who pauses is told | `ThreadPause`, `PrimitivesProofs` |
| dining philosophers (`DiningPhilosopherProblem/`) | user, mutex and condition variable of each spoon | take both, release both | no spoon used twice, nobody sleeps for nothing, no gridlock | `DiningPhilosophers`, `ProgramsProofs` |
| producer/consumer (`ProducerConsumer/`) | ring queue with one mutex and one condition variable | produce, consume | the program ends, everything is handed over | `ProducerConsumer` |
| CRUD (`CRUD/`) | list of students with its lock; lock and reference count of each student | create, read, update, delete | count = users, no use after free, deferred destruction happens | `StudentList`, `ProgramsProofs` |
| traffic light (`CD/section_thread_map_reduce/TrafficLightProblem`) | lights, a wait queue per direction | set, wait, drive | nobody sleeps at green | `TrafficLight`, `ProgramsProofs` |
| vaccination centre (`rw_locks/monitor/covidVaccination`) | capacity, count and waiting list of each age group | enter, exit | capacities, whoever is listed will be called | `VaccinationCentre`, `ProgramsProofs` |
| route table (`NFC/data/`) | routes with their subscribers | add, update, remove, modify, subscribe, notify | a subscriber does not fall behind what its route is | `RouteTable`, `ProgramsProofs` |
| routing table with notification chains (`ThreadBasics/NFC/`) | entries, each with a chain of call backs | add or update, delete, register | a client does not fall behind what its entry holds, and hears of its end | `NotifChain`, `ProgramsProofs` |
| cancellation (`ThreadBasics/ThreadCancellation/`, `EventListeners/`) | what each thread owns, its handlers and cancellability | run, cancel, clean up | nothing is left behind | `ThreadCancel`, `ProgramsProofs` |
| shared array (`Atomic/`, `ThreadBasics/MutexExample/`) | array, atomic flag | sum, swap | the asserted sum | `SharedArray` |
| intrusive lists (`gluethread/`, `CRUD/LinkedList/`) | links of both directions; heap of nodes, head and count | insertions, removals, delete-safe loops | a list keeps the items its calls say, links agree | `GlThread`, `SinglyList`, `ListsOfItems`, `WaitingLine`, `ListProofs` |

The components not modelled, and why, are in section 8.

How they interact. The constructs are called, not messaged: a client thread runs the code of
the construct under the construct's mutex. The monitor embeds two wait queues, which
cache the monitor's mutex and call its predicate back; the map-reduce job and the traffic light
do the same with a plain queue. The assembly line embeds a wait list and a
FIFO queue; the thread pool's workers run callbacks of the application between two sections of
the pool; the pool's dispatcher and its worker share a semaphore by pointer. The CRUD manager has
two levels: each node's own mutex and the mutex of the manager's lists. The textbook programs use
plain mutexes and condition variables.

What is hard. (a) What a thread knew before it slept or unlocked is old when it goes on: the
monitor tests its shutdown flag in one section and queues in another; the pool resets a pointer
in a thread that is no longer its own; the CRUD manager changes flags and lists in two sections.
(b) A signal wakes a thread that may find its place taken: whether the wake-up is lost depends on
what the woken thread does next. (c) Threads of two classes share one condition variable. (d)
`pthread_cond_wait` may return without a signal, and half of the waits of the repository are not
in loops. (e) Rounds: a barrier or an assembly line is used again while the threads of the last
round are still leaving. (f) Cancellation strikes between an allocation and its handler.

## 2. How the modules are built

A section of code under a mutex is one action: another thread that needs the mutex cannot look
inside. The action ends where the mutex is given up, that is at an unlock or in `pthread_cond_wait`,
and whatever the code does without a mutex, or under a mutex others do not need, is an action
of its own. Where two mutexes are held at a time, or one is held over several actions, the mutex
is a variable. A condition variable is the set of the threads that sleep in it: a signal
removes any one of them (or the one thread, when it has a condition variable of its own), a
broadcast all of them. A removed thread has still to get the mutex: the action by which it goes on
is separate, and newcomers may come first. A spurious wake-up removes a thread from the set without
a signal. Where the code tests its condition again, the woken action has the same branches as
the first one; where it does not, it has not.

A C assertion that clients cannot violate is stated as a part of an invariant; one that they can
violate is a branch that stops the model (`life = "aborted"`, `bi_aborted`, `cmAborted`).
Counters that the code declares as `uint16_t` wrap at `Wrap` in `RecMutex` and `RWLock`.

Definitions called "Slip" are not part of any behaviour: they are the mutants of
`PROJECT.json`, each the mistake that one property is there to catch.

### Correspondence

* **Monitor.** `TestShutdown` is the first section of `monitor_request_access_permission`,
  `Request` the rest up to the grant or the sleep, `Wake` what a woken thread does,
  `Release` `monitor_inform_resource_released` up to its unlock, and `TestDeleted` the
  unprotected look at `is_deleted` after it, with the free. Variables have the names of the fields.
  `StopAfterShutdown` says what a client does when a shut-down monitor turns it away: give up, or go
  on as `thread_fn` does because the call returns void.
* **WaitQueue** has operators on the value of a queue, because a queue runs under its owner's mutex.
* **RecMutex**, **RWLock**: one action per call and one for the woken half of each lock;
  `depth`, `rd_held`, `wr_held` say what the clients hold.
* **BridgeLock**: `bridge_rd_lock` and `bridge_wr_lock` are both halves of the locks (the first test
  lets nobody in whom the loop would stop), `ArriveBridge` and `ExitBridge` the vehicle's sections;
  `ExitBridge` unlocks with the bridge's mutex held. **BiasedRWLock** likewise; an `assert(0)` of an
  unwritten setting sets `bi_aborted`.
* **CrudMgr**: `rdr_thread_fn`, `writer_thread_fn`, `delete_thread_fn` and `cm_add_new_student` look
  the node up; `read_admission`, `write_admission` and `delete_admission` are the sections that
  decide between waiting and entering a state; `enter_listed` and `exit_listed` are the second halves of
  `crud_node_enter_state` and `crud_node_exit_state`, in the manager's lists; `crud_request_*` end a
  request, `release_*` are the four branches of `crud_request_release`; `WokenByRelease` is whom they
  signal. A freed node that is looked at is `cm_stray_access`.
* **FirstMonitor**: `fm_request`, `fm_resume`, `fm_release`; a resumed thread tests nothing.
* **ThreadPool**: the caller's side is `GetThread`, `SetUp` (unprotected), `Fire`, `SemWait`,
  `ResetSemaphore` (unprotected); the worker's is `RunJob` (stage 2) and `Park` (stage 3).
* **Barrier**: `thread_barrier_barricade`, `bar_busy_woken`, `bar_woken` are the three
  parts of the barricade, `thread_barrier_signal_all` the early dispersal.
* **EventPair**, **StrictCounter**: the two programs with their semaphores.
* **AssemblyLine**: the thread that sets up, the engine (`engine_start`, `engine_collect`,
  `engine_resume`), the workers (`worker_work`, `worker_remove`, `worker_move`,
  `worker_report`; the slot is read and changed without the mutex) and the application's push.
  `FifoQueue` has the ring buffer with the indices of the code.
* **FirstAssemblyLine**: a woken worker counts itself in (`worker_counts_in`), looks at its queue and counts
  itself out if it is empty (`worker_looks`), prints and works (`worker_works`), and hands on (`worker_hands_on`) or
  emits (`worker_emits`). `asl_destroy` to `asl_stage_cleanup` are main's way through the destruction: who is
  cancelled in its wait is `"dead"` and keeps the mutex of its queue, so that `asl_stage_enqueue` does not get by there;
  who is cancelled where it prints has `"ended"`; who hands on to a stage that was freed goes astray
  (`worker_goes_astray`), with either outcome: the object lies in what was the queue, or the worker does not come back.
* **MapReduce**: `mapper_wrapper`, `reducer_wrapper` and the steps of `map_reduce_start`.
* **ThreadPause**: `pa_*` is the course's, `ps_*` the pause structure, `ms` the slaves.
* **WaitQueueV1**: the wait up to the sleep, the retest and the way out are five steps, because
  the queue's mutex pointer and count are read outside the mutex; `v1_test_pointer` and `v1_signal` are
  the two reads of the signaller.
* **DiningPhilosophers**: `ph_take_left` to `ph_put_right` are the sections of `philosopher_fn`;
  two mutexes at a time are held in `ph_give_up` and in the release, which `spoon_mutex` shows.
* **ProducerConsumer**: an enqueue or dequeue is a step of its own; the mutex is a variable.
* **StudentList**: the list's lock and each student's, as holders; a dropped reference, and the
  destruction by whoever dropped the last one, are steps without any lock.
* **TrafficLight**: the menu sets a light (`tl_set`) and wakes its queue (`tl_broadcast`) in two steps; the
  mutex a car takes is that of the first face for every direction, as in the code.
* **VaccinationCentre**: entering, `Citizen_Apply_Vaccine`, and leaving with `default_next_citizen`.
* **RouteTable**: nothing is locked, so each lookup, link, change and round of callbacks is a step, and the
  steps of the subscriber and of the publisher come in any order. A modification gives the node another mask, other
  data or both.
* **NotifChain**: the same for the table of `ThreadBasics/NFC`, with a step for each client that is called.
  No caller of `nfc_invoke_notif_chain` gives a key, so the comparison of keys is left out. Deleting
  an entry is `rt_delete_rt_entry`; the publisher's menu has a place for it and does not call it.
* **ThreadCancel**: a thread function is a script of the calls that matter, run by `CnStep`
  and broken off by `CnCancelled`.
* **SinglyList**: every function of the library as an operator on a heap, and a loop that is under way while
  nodes are deleted. **GlThread**: every function as a change of the two link functions.

## 3. Abstract specifications

* **RWAccess**: threads are inside as readers or as writers, one class at a time, and no more of
  them than the limit of the class. The monitor, the recursive mutex (one writer), the
  read/write lock (all readers or one writer), the bridge and the customizable lock (two limits)
  each implement it; the refinement mapping forgets counters, queues, flags and sleepers, so a nested
  lock, a wait, a wake-up and a vehicle's arrival are stutters.
* **Meeting**: threads gather until there are enough, then those leave, then the next gather. The
  barrier implements it: the waiters of an open barrier have gathered, those of a closed one
  are leaving. Gathered threads leave on their own only after a dispersal, which is
  `thread_barrier_signal_all` or a spurious wake-up.
* **ListsOfItems**: each list holds a sequence of items; the calls change it as their names say.
  `SinglyList` implements it although a deletion copies the successor over the node and frees
  that one, and although loops run while nodes are deleted.
* **WaitingLine**: items wait in a line in the order of their rank and, within a rank, of their arrival;
  the first one is served. `GlThread` implements it for the list that is filled by priority.

## 4. The runs

Where components share a run, an extra variable picks one of them in the initial state, the others
stand still, and each property speaks of its own component: the state space is the sum. `OneStart`
in the MC modules fixes the configuration of those that stand still, so that it is not a choice.
A property of such a run with a name of its own is the conjunction of the components' properties;
its definition in the MC module says which.

| run | instance | distinct states | what it shows |
|---|---|---|---|
| `primitives` | 3 threads at the recursive mutex and the read/write lock, nested twice, `Wrap` 8; 2 and 2 vehicles at the bridge and 2 and 2 threads at the biased lock, every pair of limits up to 2, every bias; 2 readers and 2 writers at the first monitor; barrier: 4 threads, thresholds 2, 3, 4, two rounds, dispersal; event pair up to 20; odd/even up to 7; 2 slaves and 2 pausers; 3 threads at the first wait queue; 2 producers, 2 consumers, queue of 5; spurious wake-ups wherever the code tests again | 42,324 | refinement of `RWAccess` by four locks, no lost wake-up, `rec_mutex_destroy`'s assertions hold when nobody uses the mutex, the assertions of the bridge, both sides drive; nobody at the biased lock or the first monitor sleeps whom nobody will find; the barrier's chain of wake-ups, refinement of `Meeting`, it opens again; one turn in the event pair; all numbers in order; paused threads are wanted paused, who pauses is told; the sleepers of the first wait queue are counted; the producers' program hands everything over |
| `programs` | monitor with 2 readers, 2 writers, limits 2/1 and 1/1, with and without strict alternation, shutdown at any moment; 5 philosophers; 4 CRUD threads, 2 roll numbers, 3 students; 4 citizens of two groups, capacities up to 2; 2 cars from each side; the five cancellable programs; routes of 1 destination and 2 masks, 2 subscribers of it, 2 data, 2 nodes; notification chains with 2 clients of one destination, 2 data, 2 entries, deletions; 2 singly linked lists of 3 nodes; 4 doubly linked nodes in 2 lists | 163,007 | wait queues and counts agree, no stranded waiter, alternation, refinement of `RWAccess`, progress and orderly shutdown of the monitor; sleeping philosophers are owed a signal; reference counts, no use after free, deferred destruction; listed citizens will be called and cars from the east wake at green; no step lets a subscriber fall behind, in either routing table; cancellation leaves nothing and ends; both lists keep what they promise |
| `work` | pool: 2 workers, 3 callers with 2 jobs, one of which waits; assembly line: 3 workers, wait list of 2, 5 objects; first line: 3 stages, 3 cars, then destroyed, with spurious wake-ups; 4 mappers | 137,963 | no worker lost or shared, each job once, answers only after the job, jobs done, callers return; engine and workers in step, objects in order in both lines, no car of the first line left behind, everything finished, the destroyer of the first line finds the workers out of operation and, if the queues are empty then, ends well after every car was emitted; the reducer has every result |
| `crud_manager` | 2 readers, a writer, a deleter and a creator with at most one request each, one listed node and one unborn; spurious wake-ups | 235,809 | one creation or deletion at a time, a writer is alone, flags and lists agree, readers and one writer are all served |

Eight runs end in a counterexample, each of a sentence of the repository that the code does not
keep:

| run | what happens | said at |
|---|---|---|
| `crud_manager_deleted` | a deletion leaves its pending state and enters the deletion proper after it gave back the node's mutex: a reader that asks in between is granted the node that is being deleted | `CrudMgr.cpp` 835-838, 967 |
| `first_monitor` | resumed readers are not in the list of users: the first one to leave takes the resource for idle and hands it to a writer | `monitor.h` 52-54 |
| `atomic_sum` | the result of `atomic_flag_test_and_set` is thrown away: the sum is taken during a swap | `atomic_demo.c` 72 |
| `monitor_freed` | a client has passed the shutdown test and is not queued yet; another leaves the monitor idle, sees `is_deleted`, and frees it, although nobody shut it down | `T` 1386-1390 |
| `thread_pool_lost_post` | a caller that was answered resets the semaphore pointer that the next caller has just set in the same worker: the next caller waits for ever | `T` 160-166, 188-190 |
| `thread_pool_spurious` | a parked worker wakes up without a signal, runs its old job and parks again while a caller sets it up: the assertion of `thread_pool_run_thread` fails | `T` 105-109 |
| `assembly_line_late_push` | an object is pushed into the line that the running cycle has just emptied, the next one goes to the wait list, and the engine admits it to the same slot | `T` 1637-1645, 1915-1919 |
| `dining_gridlock` | all five philosophers give up at once, each holding the mutex of its right spoon and wanting that of the left one | `assignment_din_ph_soln.c` 175-176, 213 |

### Bounds, and why they are enough

* *Two threads of each class* are the least for a waiter of the own class, one of the other class
  and one inside; limits up to 2 give a resource that is busy but not full, and both orders of the limits.
* *Locks*: three threads give an owner, a woken thread and a newcomer; a nesting of two is the
  first one that is nested. `Wrap` only has to exceed the counts; the proofs are for any.
* *CRUD manager*: two readers are the first that share; one writer and one deleter meet readers, and each
  other; the creator and the deleter meet in the manager's lists. `CmRounds` is chosen per
  client between 0 and 1, so the runs without a writer or deleter are among them. A second writer is not
  served always (section 7).
* *Thread pool*: with fewer workers than callers the pool runs empty and a worker is dispatched
  again while its last caller is on its way out. The run that passes has one waiting caller;
  two of them are `thread_pool_lost_post`.
* *Barrier*: a threshold below the number of threads lets a newcomer meet the leaving round, an
  equal one is what the demonstrations use; two rounds are the first reuse.
* *Assembly lines*: three workers have a first, a last and one in between; five objects with
  a wait list of two go round both rings more than once. The first line has three stages, so that a
  worker in the middle hands on and is handed to.
* *Philosophers, producers, queue*: the numbers of the code. *CRUD*: the two roll numbers let a student be
  replaced while another is in use; three allocations are two deletions beyond the first.
* *Lists*: three nodes have a first, a middle and a last; data that differ but compare equal tell
  the functions that compare by content from those that compare by pointer.
* *Route table*: two subscribers of one destination share a list; a second mask makes another route
  of it; two nodes are a placeholder and a route of its key that updates it or is linked beside it.
* *Notification chains*: two clients are the first where one finds an entry that the other had made without data, or both
  make one; two entries are two of the same destination, or one deleted and made again. The publisher goes on for ever in both
  tables. The proof bounds neither, and has any number of destinations (a run with two gives the same result in
  400,000 states).

No run uses symmetry: the liveness properties would not allow it.

### Fairness

Weak fairness is given to a thread's next step once a call has begun, and to the release of
what a client holds: a thread that can run is scheduled in the end, and the clients of the
repository do not keep a lock for ever. No fairness is given to beginning a call, to
spurious wake-ups, to shutdown, dispersal, or pushes. Weak fairness needs the steps to stay enabled: a
woken thread stays woken, and since a section under a mutex is a single action, the mutex is never
in the way of one in these models. Where a mutex is a variable (`ProducerConsumer`), no
section is entered again and again, so weak fairness is still enough; a user of `StudentList` waits for a
student's lock while it holds the list's, and nothing is claimed of a student that is still listed.
The programs that run once and end (odd/even, producers and consumers, map-reduce, the first line) are
scheduled from their start. In the first line each worker also notices a cancellation in the end when it is where it can, and
spurious wake-ups end at some time: each of them puts an idle worker in operation for a moment, and the destroyer, which
waits for a moment without, would never be told if they came all the time.

`CrudMgr` has strong fairness for each client: both its mutexes are variables that others take again and
again, so the assumption is that a mutex starves nobody; with spurious wake-ups a sleeper may be woken
and sleep again, which does not count as progress for it. `CmEverybodyServed` says that all requests,
which are finitely many, come to their end. Strong fairness is also assumed in `dining_gridlock`, where it makes
the result stronger: even then the philosophers stay locked.

In the composed runs the fairness of a component is stated for its own variables and only while it
is the one that is picked; where the component's own definition of fairness quantifies over what TLC can only
evaluate as a constant, the MC module writes the conjuncts out.

Deadlock is not checked: the system really may stop everywhere. The monitor is freed, the callers
have made their calls, the threads have passed their rounds, the program has ended.

## 5. What is proved

All proofs are for every value of the constants that satisfies the named assumptions of the
modules, checked by TLAPS with Z3, Zenon and LS4.

| module | theorems | inductive invariant |
|---|---|---|
| `LockProofs` | `RecTypeCorrect`, `RecMutualExclusion`, `RecWakeupsKept`, `RecCanBeDestroyed`, `RecRefinesAccess`; `RWTypeCorrect`, `RWMutualExclusion`, `RWWakeupsKept`, `RWRefinesAccess` | `RecInv`: the properties, and that `n_waited` counts the waiters and the owner does not wait. Without the count, `n_waited` says nothing of who can be signalled. `RWInv`: types, exclusion and no lost wake-up together. The lock does not know its readers; the count is right because the set of places held is finite and each unlock takes one away |
| `CrudMgrProofs` | `CrudMgrInvariant`; `CrudMgrOneBuilder`, `CrudMgrWriterAlone`, `CrudMgrBooksAgree` | `CmInv`: types; which mutexes each client has in its hands at each place; what has been entered and what not by a client half-way into or out of a state (`CmBooks`); the counters are the numbers of those that are in (`CmGrantedCounted`, `CmDeletersCounted`); and whoever is past the test for creations and deletions is the only one. A flag is set in one section and its list changed in another, under another mutex, so flags and lists disagree whenever somebody is between the two: the invariant says who that is, and that no second client can be there for the same state of the same node, because both ends are under the node's mutex or both under the manager's |
| `MonitorProofs` | `TypeCorrect`; `MutualExclusion`, `Alternation`, `RefinesAccess`; `QueuesDoAgree`, `NobodyStranded` | `MonInv`: types, and the wait counts are the numbers of waiters, so they never go below zero. `ExInv` adds `Exclusion`, that nobody was turned away, and that alternation comes with limits of 1. `WaitInv` adds to `MonInv` that count, line and sleepers of each queue are those of the threads that wait, that the status says whose counter is not 0, and that limits are positive: who is refused has then found somebody inside, and who is signalled is the head of a line that is not empty |
| `PrimitivesProofs` | `BarChainHolds`, `BarRefinesMeeting`; `EpTurnIsOne`; `BrAssertionsHold`, `BrRefinesAccess`; `BiRefinesAccess`; `PrimitivesForgetNobody`, `PrimitivesAccountForSleepers` | `BarInv`: the chain, and that a waiter awake at an open barrier means a dispersal. Without the latter the first waiter to leave could not be told from one of a full round. `EpInv`: types, the turn at one place, and that before the client is born nothing was handed over. `BrInv`: `n_locks` counts the holders of both classes, the two class flags say which class holds, the bridge's counters count those of the holders that are on it. The assertions only speak of the bridge's counters, which are behind the lock's by the vehicles between the grant and the arrival; the hand-over flags do not occur in it: they matter for liveness only. `BiInv`: the same books for the biased lock and the test's counters, and for the neutral setting that whoever sleeps would find no room: a thread can go on sleeping only if every unlock that makes room wakes all. `FmInv`: a waiter is in one list, once, and the resource is used or given to somebody signalled whenever it is not available. `PaInv`: a slave between its test and its sleep has the mutex. `V1Inv`: with the predicate's mutex one thread at a time works on the counter, so what it read is still true when it writes |
| `WorkProofs` | `PoolLosesNobody`, `PoolRunsJobsOnce`, `PoolAnswersTruly`; `WorkKeepsTheLine`, `WorkKeepsTheOrder`, `WorkAdmitsIntoAFreeSlot` | `PoolInv`: `NobodyLost` is inductive with the types; for the jobs, what is done or running was dispatched and is in nobody else's hands; for the answers, a semaphore pointer is that of a caller whose last worker it was, so a post means that this caller's job is done, although the pointer may be reset too late and a post lost. `FaLineInv`: the cars of every stage are in order and younger than those further down; whatever was queued is emitted, in a queue or in hand; and a freed stage has a worker that ended or died, so that nobody but the worker before it, gone astray, uses its queue. `AlInv` has three parts. `AlSched` says who is where when the engine rests, starts or collects. `AlPlaces(b)` says, for some slot `b`, that worker `w` stands `w` slots behind `b`, or one slot on if it has moved in this cycle; a cycle that ends makes `b` one less, going round. `AlData(b)`: counted from `b`, the objects in the ring are the next `Count` ones after the finished, the oldest furthest on, each with as many pieces of work done as workers have looked at it; the last slot is empty once its worker is through with it; and the circular buffer of the wait list holds, index by index, the objects pushed after those |
| `ProgramsProofs` | `PhSpoonsInHand`, `PhNobodySleepsForNothing`; `CrudCountsHold`, `CrudNoUseAfterFree`; `ProgramsRememberSleepers`, `ProgramsCancelCleanly`, `ProgramsKeepSubscribersUp`; `ProgramsLinksAreSound`, `ProgramsKeepTheListsPromise` | `PhInv`: types, and each spoon's user is the philosopher whose place says so. The sleeper's invariant rests on it: who makes a philosopher sleep has the spoon on its right, so it is past the only silent way to give one back. `CrudInv`: types (a student is listed once, and not any more while it is being removed), the counts, and the second property. Who drops the last reference has the only one: the others in hand are a set of size 0. `VcInv`: a class with a sleeper in its list has as many awake as free seats. `TlInv`: a car that has tested its light has the mutex. `CnTidy`: at each call of its script a thread owns, and has handlers for, what two tables (`Owned`, `Handled`) say, and at the calls that are cancellation points the first is part of the second. `RtInv` and `NfInv` are only what the steps need of each other: types; what is linked, looked up or about to be linked was allocated; a subscriber in a list has finished that registration or is in the middle of it, in this very node; and it is in one list (in `NfInv`, in one chain of each destination), so that a round for one route cannot overwrite what it knows of another. `NfInv` adds that a client was told only of what it asked for, and that the publisher, on its way along a chain, has only clients of that chain before it. That nobody falls behind is then shown for each action on its own (`RtStepKeepsUp`, `NfStepKeepsUp`) |
| `ListProofs` | `GlLinksKept`, `GlNobodyIsCutOff`, `GlRefinesLine`; `LlListsAreSound`, `LlRefinesLists` | `GlListInv`: types, the two directions agree, the links hold two lists, one from each base, with every linked node in one of them at one place, and the list filled by priority is in the order of the ranks. `LlInv` has two parts. `LlKeeps(heap, LlChains)`: following the links from each head meets a sequence of nodes, all live, no node at two places of the lists, as many as the count says, the last one without a successor; and a node that is in no list has no successor, so that a new one can be put anywhere. `LlLoopIn(loop, LlChains)`: a loop that is under way stands at a place `k` of its list, has saved the node behind it and has not lost the one in front of it, also when the node at `k` was deleted by its body |
| `CountingProofs` | lemmas | counting one thread more or less, no wrap-around below `Wrap`, and that a nonempty set of numbers has a least element |

`MutualExclusion`, `Alternation` and `RefinesAccess` assume `StopAfterShutdown`: a client that
goes on after having been turned away takes another one's place in the count (section 7). Without shutdown
nobody is turned away and the assumption is void. `QueuesDoAgree` and `NobodyStranded` need no such assumption.
`WorkKeepsTheOrder` and `WorkAdmitsIntoAFreeSlot` assume that `PushAnytime` is FALSE: a push that meets an empty
line in the middle of a cycle puts its object where the engine then puts another, which is what the run
`assembly_line_late_push` shows. `WorkKeepsTheLine` needs no such assumption.
`ProgramsKeepSubscribersUp` assumes nothing of the order in which the threads of a table run, and nothing bounds the
clients, destinations, entries or changes. It speaks of steps: who knows what its route is knows it after the next step,
or its own subscription was late (`RtComesLate`, `NfComesLate`). That nobody is ever late is not so: section 7.
The theorems about a property that an MC module states for several programs (`NobodyIsForgotten`,
`SleepersAreRemembered`, ...) are about the specification of that module: the program that is at work keeps its own
invariant, and the others do not move.
What the links of a list contain is a walk along them (`GlChain`, `LlChain`), a recursive function on the numbers.
The proofs do not follow the walk through a change. They name the sequence that the change leaves behind
(`ListWithOneMore`, `ListWithOneLess`), check that each link leads from one of its places to the next, and
`GlChainIs` and `LlChainOf` say that a walk over such links is that sequence: there is one sequence of
distinct nodes that starts at the head, follows the links and ends where they do. `LlRefinesLists` takes every call of the library
this way, the searches, the copies and the union included. The calls that fill a list
from others, the copy and the union, are followed item by item. Where an induction is needed (that a walk is determined,
that a list is filled up to the last item) the proof takes the least index at which the claim fails, which `LeastElement`
provides.
The lists' theorems assume `LlBounds` (the data are numbers, the heap is finite) and `GlBasesApart`
(finitely many nodes, and the bases are none of them); how many there are does not matter.
The refinement theorems show that the initial states map to initial states and that
each step maps to a step or a stutter; LS4 does the rest.

### Only model-checked

* All liveness properties (`SomebodyGetsIn`, `ShutDownCompletes`, `RecProgress`, `BrBothSidesDrive`,
  `JobsGetDone`, `CallersReturn`, `BarReopens`, `ScPrintsAll`, `PcHandsOverEverything`, `PauserIsTold`,
  `AslEverythingFinishes`, `FaLineIsDestroyed`, `MrReducesEverything`, `CrudDeferredIsDestroyed`, `CancelledEnds`,
  `CmEverybodyServed`): the prover does not do fairness and ENABLED.
* `MapReduce`, `StrictCounter`, `ProducerConsumer` and `SharedArray`, which have a liveness property or a finding only.

## 6. Assumptions of the models

* The mutexes and condition variables behave as POSIX says; threads are cancelled in `ThreadCancel`
  and `FirstAssemblyLine` only, where the code does it.
* The comparator of the monitor's queues returns 1 always, as in the code, so a line is in the
  order of insertion.
* The read/write locks are static, as in the repository: `RWInit` starts `n_locks` at 0 though
  `rw_lock_init` does not set it.
* Clients pair their calls, do not ask for the read lock while they hold the write lock or the
  other way round (they would wait for themselves), and unlock what they hold.
* Once a monitor is freed, or an assertion has failed, the model stops.
* The routing tables: changing a list by one element, writing a route, and in `RouteTable` one round of callbacks,
  is indivisible; the code has no lock there, so that two threads may also meet inside of one of these, which is a data
  race. Memory that is given back keeps its content and is not given out again: what is read or written after a `free`
  is not checked, only who was told what.
* A stage of the first line that was freed is memory whose content may be anything: a worker that hands on to it comes back or
  does not. Its own thread does not use it any more.
* A student's address is not used again after it was freed. In the CRUD manager a freed node keeps its
  contents, or the program dies at its use: `cm_stray_access` allows both.
* A change of the CRUD manager's flag word is indivisible. (It is not, in C, when two mutexes guard it at
  once; that is the window of `crud_manager_deleted`, which is found without tearing.)
* The names of the actors that are not threads of a set (the traffic light's menu, and nobody as the owner of a mutex)
  are no names of cars or threads: `TrafficAssumption`, `V1Assumption`.
* In `WaitQueueV1` with `V1Locks` the predicate takes the application's mutex, as the comment at `wait_queue_v1.c` 39-41 demands.
  The demonstration's predicate does not: with `V1Locks` FALSE its threads unlock a mutex they do not own.

## 7. Behaviour left out on purpose, and known to be bad

* Spurious wake-ups of `sema_wait`, of the waits without a loop in threadlib's assembly line, and of the first monitor.
  Nothing could be stated of these if they happened.
* A barrier with a threshold of 1: the first thread closes it and nobody waits who could open it.
  An assembly line of one worker: it has no last worker, and nothing leaves the line.
  A push to a full wait list: `assert(0)`. Each is a named assumption or guard.
* Strict alternation with two threads of a class: the release signals a waiter of its own class (`T` 1346),
  whose predicate then refuses; a waiter of the other class, whose turn it is, sleeps on.
  `SomebodyGetsIn` and `NoStrandedWaiter` are therefore stated for monitors without alternation.
* `monitor_request_access_permission` returns void also when the monitor is shut down (`T` 1246, against
  `threadlib.h` 379-382): a client that goes on uses the resource without a grant. The runs have
  `StopAfterShutdown` TRUE; with FALSE exclusion fails.
* In the odd/even program with 15 as the last number, as in the code, the odd thread waits for
  an even one that has ended (`semaphore_strict_counter.c` 57). `ScPrintsAll` says that all numbers are
  printed before that.
* Jobs dispatched to an empty pool are dropped (a branch of `GetThread`); `JobsGetDone` speaks of the
  jobs that got a worker.
* The customizable lock writes out the waits of some settings only and ends in `assert(0)` in the others
  (`customizable_rw_locks/rw_locks.c` 36-39, 53-60): a reader's wait under `WRITERS`, a writer's under `READERS`
  and, once it wakes, under `WRITERS`, everybody's under `OPPOSITE`. All settings are in the run, and stop there.
* The CRUD manager. A deleter that readers keep out sleeps on `rdrs_cv` (`CrudMgr.cpp` 762), the last
  reader signals `delete_thread_cv` (1063): the deleter sleeps on unless readers wait as well. With two
  writers, the first to leave may wake only the other writer while a reader sleeps. Both end in threads
  that wait for ever, which is why `CmEverybodyServed` is stated for readers and at most one writer. A
  freed node stays in the `no_op` list (216), and the assertions at 908-913 and 974 fail in windows
  between the two mutexes; both stop the model.
* The traffic light returns the mutex of face 0 for every direction (`tr_light.c` 58): a car from the
  west tests and sleeps under a mutex that the menu does not take for it, and can sleep through green.
  `TlEastWakesOnGreen` is stated for the east only.
* `thread_resume` leaves `should_pause` set (`thread_pause.c` 33): a thread that is
  resumed finds it in its loop and goes back to sleep for good, and the assertion of the destructor (61) fails.
  `PauserIsTold` speaks of the pause only.
* The first assembly line, destroyed before its cars are through. A worker counts itself out before its wait (`asl.c` 63) and
  in only when it runs again (65), so that the count is 0 while one that was signalled (165) is still on its way;
  `testapp.c` 101-104 destroys the line right after the last car was queued. `asl_destroy` ("Now happily shut down all
  threads", 210) then cancels the last worker in `pthread_cond_wait` (64). That gets `q_mutex` back and, without a cleanup
  handler, dies with it. A worker before it, which has taken its car, waits at 162 for that mutex, which is no
  cancellation point, and is never joined (193); or it comes a little later and works in a stage that was freed (196). Two
  stages and two cars are enough: `<>(fa_main \in {"done", "aborted"})` fails. Also, a car in a queue, or with a worker
  cancelled where it prints, is lost, and a worker that was woken again and is cancelled where it prints is not
  counted out, so that the assertion at 217 fails. All of this is behaviour of the model. `FaNoCarLeftBehind` therefore says
  where each car is, and `FaLineIsDestroyed` promises the end only if the count is 0 and the queues are empty before anybody
  is cancelled.
* The routing tables: a thread finds, makes and enters a route in several steps, and two threads may be at the same one.
  Both make one for the same key, and the older one is never found again. In `NFC/data` the publisher may change or remove the
  placeholder that a subscriber has just linked (`route_table_subscriber.c` 46) before the subscriber has entered its list (61):
  it is never told, although "Subscribers are notified immediately upon route changes" (`NFC/README.md` 555; 155 says that
  both work in one thread). In `ThreadBasics/NFC` the publisher may make, or update, the entry that a client did
  not find (`rt.c` 198) before the client is in its chain (222): the client takes it for its own (209) and is not called. These
  are the exceptions of `RtComesLate` and `NfComesLate`, and the only ones for routes in the table. The programs' `main` functions
  let a second pass between the starts of their threads (`main_demo.c` 203, "to ensure output clarity", `rtm_publisher.c` 117-123), so in
  the demonstrations a thread has to be delayed by more than that for any of it.
* The vaccination centre takes a citizen off its list and signals the class: a sleeper of the class that is
  still listed may take the signal, and the unlisted one sleeps. `VcListedIsRemembered` speaks of the listed.
* `wait_queue_signal` of the first queue tests the mutex pointer (84) and reads it again after the last
  waiter may have cleared it: the null pointer is the "crashed" of `v1_signal`.
* `singly_ll_add_ordered_data` compares with the function for equality, and a node that is removed by value
  is not freed: both are as in the code, and `ListsOfItems` promises no order. Data are not NULL (`LlBounds`), so that the test
  for it in `copy_singly_ll` (28) has nothing to skip; `ITERATE_LIST_BREAK2` is a `break` that nothing uses, and would leave
  the loop like its end.
* `student_object_count` and the marks of a student: written without a lock, read by nobody who
  decides anything.

## 8. Not modelled

* `NFC/nfc/notif.c`, the copy of the chains beside the route table, which calls none of it, and `rt_raw.c`, the
  table before it had chains; the comparison of keys in a chain, which nothing reaches;
* the copies of threadlib at the stages of its course: the last version of each construct is modelled, and
  those that only a stage has (pause, map-reduce, traffic light) from that stage;
* the sleeping barber: unfinished; `barber_fn` returns at once and a chair is used that is not declared;
* the deadlock demonstration: two mutexes in opposite orders on purpose, with nothing promised;
* examples of single calls (create, join, detach, a pipe): no protocol of their own.

Partly modelled: the wait queue without its destruction under waiting threads; of the event listeners, the
server's resources and its cancellation, not the sockets; of the thread basics, the cancellable threads and
the shared array.

## 9. Order of work, and what is left

Done, the core first: monitor with its wait queues and `RWAccess`; recursive mutex and read/write
lock; thread pool; barrier, event pair, semaphore; assembly line; the textbook programs; then the bridge,
the customizable lock, the CRUD manager, the first versions of monitor, wait queue and assembly line, pause,
map-reduce, traffic light, vaccination centre, routes, notification chains, cancellation and the lists; proofs of the locks, the
monitor with its queues, the barrier, the philosophers, the event pair, the bridge, the thread pool's safety, the
students' reference counts, both kinds of linked lists with what they promise, the CRUD manager's safety, the assembly lines, the biased
lock as a reader/writer access, who sleeps at the first monitor, the first wait queue, the vaccination centre and the traffic light,
and the subscribers of the two routing tables.

Left: the lock-ups listed in section 7 as runs of their own.
