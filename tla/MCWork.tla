------------------------------- MODULE MCWork -------------------------------
(* The places where threads are given work to do - the thread pool, the two  *)
(* assembly lines and the map-reduce job - one at a time: the run picks the  *)
(* one that is at work, and the others stay as they were initialised.        *)
EXTENDS ThreadPool, AssemblyLine, FirstAssemblyLine, MapReduce

VARIABLE at_work

poolVars == vars
workVars == <<poolVars, aslVars, faVars, mrVars, at_work>>

WorkInit == /\ at_work \in {"pool", "assembly_line", "first_line", "map_reduce"}
            /\ Init /\ AslInit /\ FaInit /\ MrInit

WorkNext ==
    \/ at_work = "pool" /\ Next /\ UNCHANGED <<aslVars, faVars, mrVars, at_work>>
    \/ at_work = "assembly_line" /\ AslNext /\ UNCHANGED <<poolVars, faVars, mrVars, at_work>>
    \/ at_work = "first_line" /\ FaNext /\ UNCHANGED <<poolVars, aslVars, mrVars, at_work>>
    \/ at_work = "map_reduce" /\ MrNext /\ UNCHANGED <<poolVars, aslVars, faVars, at_work>>

\* The fairness of the one that is at work.  In the first assembly line there are
\* not for ever spurious wake-ups.
WorkFairness ==
    /\ \A c \in Callers : WF_poolVars(at_work = "pool" /\ CallerStep(c))
    /\ \A w \in Workers : WF_poolVars(at_work = "pool" /\ WorkerStep(w))
    /\ WF_aslVars(at_work = "assembly_line" /\ asl_wait_until_all_workers_ready)
    /\ WF_aslVars(at_work = "assembly_line" /\ asl_engine_fn)
    /\ \A w \in AslWorkers : WF_aslVars(at_work = "assembly_line" /\ worker_thread_init(w))
    /\ \A s \in Chain : /\ WF_faVars(at_work = "first_line" /\ worker_thread_fn(s))
                        /\ WF_faVars(at_work = "first_line" /\ worker_is_cancelled(s))
    /\ WF_faVars(at_work = "first_line" /\ fa_main_fn)
    /\ <>[][\A s \in Chain : ~fa_spurious_wakeup(s)]_faVars
    /\ \A i \in Mappers : WF_mrVars(at_work = "map_reduce" /\ mapper_wrapper(i))
    /\ WF_mrVars(at_work = "map_reduce" /\ reducer_wrapper)
    /\ WF_mrVars(at_work = "map_reduce" /\ map_reduce_start)

WorkSpec == WorkInit /\ [][WorkNext]_workVars /\ WorkFairness

\* Objects leave both assembly lines in the order in which they entered, those
\* of threadlib after they had waited in the order in which they came and every
\* worker had its turn; in the first line none of them is ever left behind.
ObjectsKeepTheirOrder == /\ AslWorkedInOrder /\ AslWaitListIsAQueue
                         /\ FaCarsInOrder /\ FaNoCarLeftBehind

\* Every job of the pool is done, and every caller that waits for its job returns.
PoolServesEverybody == at_work = "pool" => JobsGetDone /\ CallersReturn

\* Whatever is pushed into the assembly line of threadlib is finished, the first
\* line is destroyed when its workers are out of operation, and the caller of a
\* map-reduce job gets the whole result.
WorkIsFinished == /\ at_work = "assembly_line" => AslEverythingFinishes
                  /\ at_work = "first_line" => FaLineIsDestroyed
                  /\ at_work = "map_reduce" => MrReducesEverything
==============================================================================
