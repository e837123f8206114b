----------------------------- MODULE ThreadPause -----------------------------
(***************************************************************************)
(* Three ways to pause a thread.                                           *)
(*                                                                         *)
(* The course's (section_thread_pause): flags in the thread's record, under*)
(* its state_mutex; an application writes and tests, a menu pauses and     *)
(* resumes.                                                                *)
(*                                                                         *)
(* The pause structure of ThreadPausing, whose pause waits until the thread*)
(* has stopped; its user is modelled from its interface.                   *)
(*                                                                         *)
(* The slaves of MasterSlave, whose status the master sets under the mutex *)
(* to resume them and without it to stop them.                             *)
(***************************************************************************)
EXTENDS FiniteSets

CONSTANTS Slaves, Pausers

VARIABLES pa_flags, pa_at,               \* of the course's thread
          should_pause, ps_at, ps_user,  \* of the pause structure
          block_status, ms_at            \* of the slaves

paVars == <<pa_flags, pa_at>>
psVars == <<should_pause, ps_at, ps_user>>
msVars == <<block_status, ms_at>>
pauseVars == <<paVars, psVars, msVars>>

\* thread_create and thread_run, and thread_pause_struct_init.
pa_init == pa_flags = {"RUNNING"} /\ pa_at = "writing"
thread_pause_struct_init == should_pause = FALSE

PauseInit == /\ pa_init
             /\ thread_pause_struct_init /\ ps_at = "working"
             /\ ps_user = [u \in Pausers |-> "idle"]
             /\ block_status = [s \in Slaves |-> FALSE]
             /\ ms_at = [s \in Slaves |-> "writing"]

-----------------------------------------------------------------------------
\* Slip: a pause marks the thread whether it runs or not.
pa_pause_always == pa_flags' = pa_flags \cup {"MARKED"} /\ UNCHANGED pa_at

\* thread_pause, thread_resume and thread_test_and_pause of the course.
pa_pause == /\ pa_flags' = IF "RUNNING" \in pa_flags THEN pa_flags \cup {"MARKED"} ELSE pa_flags
            /\ UNCHANGED pa_at

pa_resume == /\ pa_at' = IF "PAUSED" \in pa_flags /\ pa_at = "paused" THEN "signalled" ELSE pa_at
             /\ UNCHANGED pa_flags

pa_test_and_pause ==
    \/ /\ pa_at = "writing" /\ "MARKED" \in pa_flags
       /\ pa_flags' = (pa_flags \ {"MARKED", "RUNNING"}) \cup {"PAUSED"}
       /\ pa_at' = "paused"
    \/ /\ pa_at = "signalled"
       /\ pa_flags' = (pa_flags \ {"PAUSED"}) \cup {"RUNNING"}
       /\ pa_at' = "writing"

\* main and write_into_file_fn.
pa_next == pa_pause \/ pa_resume \/ pa_test_and_pause

-----------------------------------------------------------------------------
\* thread_pause of the pause structure, for user u: it waits to be told, and
\* takes any wake-up for the news.
ps_pause(u) ==
    \/ /\ ps_user[u] = "idle"
       /\ ps_user' = [ps_user EXCEPT ![u] = IF should_pause THEN "paused" ELSE "waiting"]
       /\ should_pause' = TRUE
       /\ UNCHANGED ps_at
    \/ /\ ps_user[u] = "told"
       /\ ps_user' = [ps_user EXCEPT ![u] = "paused"]
       /\ UNCHANGED <<should_pause, ps_at>>

\* thread_resume signals, and leaves should_pause as it is.
ps_resume(u) ==
    /\ ps_user[u] = "paused"
    /\ ps_user' = [ps_user EXCEPT ![u] = "resumed"]
    /\ ps_at' = IF ps_at = "asleep" THEN "woken" ELSE ps_at
    /\ UNCHANGED should_pause

\* thread_destroy_pause_struct asserts that nobody wants the thread to pause.
ps_destroy(u) ==
    /\ ps_user[u] = "resumed" /\ \A v \in Pausers \ {u} : ps_user[v] \in {"idle", "resumed"}
    /\ ps_user' = [ps_user EXCEPT ![u] = IF should_pause THEN "aborted" ELSE "destroyed"]
    /\ UNCHANGED <<should_pause, ps_at>>

\* thread_test_and_pause.
Told(S) == IF {u \in S : ps_user[u] = "waiting"} = {} THEN {ps_user}
           ELSE {[ps_user EXCEPT ![u] = "told"] : u \in {v \in S : ps_user[v] = "waiting"}}

\* Slip: the thread says that it has stopped when it goes on.
ps_tells_late ==
    \/ /\ ps_at = "working" /\ should_pause
       /\ ps_at' = "asleep" /\ UNCHANGED <<should_pause, ps_user>>
    \/ /\ ps_at = "woken"
       /\ ps_at' = IF should_pause THEN "asleep" ELSE "working"
       /\ ps_user' \in Told(Pausers)
       /\ UNCHANGED should_pause

ps_test_and_pause ==
    \/ /\ ps_at = "working" /\ should_pause
       /\ ps_at' = "asleep" /\ ps_user' \in Told(Pausers)
       /\ UNCHANGED should_pause
    \/ /\ ps_at = "woken"
       /\ ps_at' = IF should_pause THEN "asleep" ELSE "working"
       /\ UNCHANGED <<should_pause, ps_user>>

ps_next == ps_test_and_pause \/ \E u \in Pausers : ps_pause(u) \/ ps_resume(u) \/ ps_destroy(u)

-----------------------------------------------------------------------------

\* resume_thread, and the stop that the master's main does without the mutex.
resume_thread(s) ==
    /\ ms_at[s] # "testing"      \* the slave holds the mutex while it tests
    /\ block_status' = [block_status EXCEPT ![s] = FALSE]
    /\ ms_at' = IF ms_at[s] = "blocked" THEN [ms_at EXCEPT ![s] = "resumed"] ELSE ms_at

stop_thread(s) == block_status' = [block_status EXCEPT ![s] = TRUE] /\ UNCHANGED ms_at

\* pthread_insert_pause_point: a test under the mutex, and one wait.
pthread_insert_pause_point(s) ==
    \/ /\ ms_at[s] = "writing" /\ block_status[s]
       /\ ms_at' = [ms_at EXCEPT ![s] = "testing"]
       /\ UNCHANGED block_status
    \/ /\ ms_at[s] \in {"testing", "resumed"}
       /\ ms_at' = [ms_at EXCEPT ![s] = IF @ = "testing" THEN "blocked" ELSE "writing"]
       /\ UNCHANGED block_status

ms_next == \E s \in Slaves : resume_thread(s) \/ stop_thread(s) \/ pthread_insert_pause_point(s)

-----------------------------------------------------------------------------
\* A wake-up without a signal, of any of the threads that sleep.
pause_spurious_wakeup ==
    \/ /\ pa_at = "paused" /\ pa_at' = "signalled"
       /\ UNCHANGED <<pa_flags, psVars, msVars>>
    \/ /\ ps_at = "asleep" /\ ps_at' = "woken"
       /\ UNCHANGED <<should_pause, ps_user, paVars, msVars>>
    \/ \E u \in Pausers : /\ ps_user[u] = "waiting"
                          /\ ps_user' = [ps_user EXCEPT ![u] = "told"]
                          /\ UNCHANGED <<should_pause, ps_at, paVars, msVars>>
    \/ \E s \in Slaves : /\ ms_at[s] = "blocked"
                         /\ ms_at' = [ms_at EXCEPT ![s] = "resumed"]
                         /\ UNCHANGED <<block_status, paVars, psVars>>

\* The three programs side by side.
PauseNext == \/ pa_next /\ UNCHANGED <<psVars, msVars>>
             \/ ps_next /\ UNCHANGED <<paVars, msVars>>
             \/ ms_next /\ UNCHANGED <<paVars, psVars>>
             \/ pause_spurious_wakeup

PauseFairness == /\ WF_pauseVars(pa_test_and_pause /\ UNCHANGED <<psVars, msVars>>)
                 /\ WF_pauseVars(ps_test_and_pause /\ UNCHANGED <<paVars, msVars>>)
                 /\ \A u \in Pausers : WF_pauseVars(ps_pause(u) /\ UNCHANGED <<paVars, msVars>>)
PauseSpec == PauseInit /\ [][PauseNext]_pauseVars

-----------------------------------------------------------------------------
\* Nobody is paused by a command that was taken back: the course's thread is
\* marked only when it runs, so that a pause does not stop it once more after
\* the resume, and a slave that is blocked has been stopped since its last resume.
PausedIsWanted ==
    /\ "MARKED" \in pa_flags => pa_at = "writing"
    /\ \A s \in Slaves : ms_at[s] = "blocked" => block_status[s]

\* Whoever pauses through the structure is told when the thread has stopped.
PauserIsTold == \A u \in Pausers : ps_user[u] = "waiting" ~> ps_user[u] = "paused"

==============================================================================
