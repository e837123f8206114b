------------------------------- MODULE Meeting -------------------------------
(***************************************************************************)
(* What a thread barrier promises: threads gather until threshold of them  *)
(* are there, all of these leave, and the next ones gather when they left. *)
(* Once somebody disperses a gathering (thread_barrier_signal_all, or the  *)
(* system by waking a thread), gathered threads may leave on their own.    *)
(***************************************************************************)
EXTENDS Integers, FiniteSets

CONSTANT Threads

VARIABLES threshold,
          gathered,   \* the threads that are waiting for the others
          leaving,    \* those of a complete gathering that are not out yet
          dispersed   \* whether a gathering was ever dispersed

meetingVars == <<threshold, gathered, leaving, dispersed>>

Init == /\ threshold \in Nat
        /\ gathered = {} /\ leaving = {} /\ dispersed = FALSE

Join(t) == /\ leaving = {} /\ t \notin gathered
           /\ Cardinality(gathered) + 1 < threshold
           /\ gathered' = gathered \cup {t}
           /\ UNCHANGED <<threshold, leaving, dispersed>>

\* The last one does not wait.
Complete(t) == /\ leaving = {} /\ t \notin gathered
               /\ Cardinality(gathered) + 1 = threshold
               /\ leaving' = gathered /\ gathered' = {}
               /\ UNCHANGED <<threshold, dispersed>>

Leave(t) == /\ t \in leaving
            /\ leaving' = leaving \ {t}
            /\ UNCHANGED <<threshold, gathered, dispersed>>

Disperse == /\ dispersed' = TRUE
            /\ UNCHANGED <<threshold, gathered, leaving>>

LeaveEarly(t) == /\ dispersed /\ t \in gathered
                 /\ gathered' = gathered \ {t}
                 /\ UNCHANGED <<threshold, leaving, dispersed>>

Next == \/ Disperse
        \/ \E t \in Threads : Join(t) \/ Complete(t) \/ Leave(t) \/ LeaveEarly(t)

Spec == Init /\ [][Next]_meetingVars
==============================================================================
