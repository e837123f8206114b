---------------------------- MODULE MCPrimitives ----------------------------
(* The locks and the other objects threads wait at, one at a time: the run   *)
(* picks the object that is exercised, and the others stay as they were      *)
(* initialised.                                                              *)
EXTENDS RecMutex, RWLock, BridgeLock, BiasedRWLock, FirstMonitor, Barrier, EventPair,
        StrictCounter, ThreadPause, WaitQueueV1, ProducerConsumer

VARIABLE exercised

\* One choice for what is not exercised is enough.
OneStart ==
    /\ exercised # "bridge" => br_limit = <<1, 1>>
    /\ exercised # "biased" => biasedness = "NEUTRAL" /\ \A c \in DOMAIN bi_limit : bi_limit[c] = 1
    /\ exercised # "barrier" => bar_threshold = 2

Init == /\ exercised \in {"rec_mutex", "rw_lock", "bridge", "biased", "first_monitor", "barrier",
                          "event_pair", "semaphore", "pause", "wait_queue", "queue"}
        /\ RecInit /\ RWInit /\ BrInit /\ BiInit /\ FmInit /\ BarInit /\ EpInit /\ ScInit
        /\ PauseInit /\ V1Init /\ PcInit
        /\ OneStart

locksVars == <<recVars, rwVars, brVars, biVars, fmVars>>
pointsVars == <<barVars, epVars, scVars, pauseVars, v1Vars, pcVars>>
allVars == <<locksVars, pointsVars, exercised>>

LocksNext ==
    \/ exercised = "rec_mutex" /\ RecNext /\ UNCHANGED <<rwVars, brVars, biVars, fmVars>>
    \/ exercised = "rw_lock" /\ RWNext /\ UNCHANGED <<recVars, brVars, biVars, fmVars>>
    \/ exercised = "bridge" /\ BrNext /\ UNCHANGED <<recVars, rwVars, biVars, fmVars>>
    \/ exercised = "biased" /\ BiNext /\ UNCHANGED <<recVars, rwVars, brVars, fmVars>>
    \/ exercised = "first_monitor" /\ FmNext /\ UNCHANGED <<recVars, rwVars, brVars, biVars>>

PointsNext ==
    \/ exercised = "barrier" /\ BarNext /\ UNCHANGED <<epVars, scVars, pauseVars, v1Vars, pcVars>>
    \/ exercised = "event_pair" /\ EpNext /\ UNCHANGED <<barVars, scVars, pauseVars, v1Vars, pcVars>>
    \/ exercised = "semaphore" /\ ScNext /\ UNCHANGED <<barVars, epVars, pauseVars, v1Vars, pcVars>>
    \/ exercised = "pause" /\ PauseNext /\ UNCHANGED <<barVars, epVars, scVars, v1Vars, pcVars>>
    \/ exercised = "wait_queue" /\ V1Next /\ UNCHANGED <<barVars, epVars, scVars, pauseVars, pcVars>>
    \/ exercised = "queue" /\ PcNext /\ UNCHANGED <<barVars, epVars, scVars, pauseVars, v1Vars>>

Next == \/ LocksNext /\ UNCHANGED <<pointsVars, exercised>>
        \/ PointsNext /\ UNCHANGED <<locksVars, exercised>>

\* The fairness of the object that is exercised.
Fairness == \/ exercised = "rec_mutex" /\ RecFairness
            \/ exercised = "bridge" /\ BrFairness
            \/ exercised = "barrier" /\ BarFairness
            \/ exercised = "semaphore" /\ ScFairness
            \/ exercised = "pause" /\ PauseFairness
            \/ exercised = "queue" /\ PcFairness
            \/ exercised \in {"rw_lock", "biased", "first_monitor", "event_pair", "wait_queue"}

Spec == Init /\ [][Next]_allVars /\ Fairness

\* The recursive mutex is taken again and again by somebody, and neither side
\* of the bridge is left out.
LocksMakeProgress == /\ exercised = "rec_mutex" => RecProgress
                     /\ exercised = "bridge" => BrBothSidesDrive

\* Nobody sleeps at the biased lock or waits at the first monitor who will not
\* be found by somebody.
NobodyIsForgotten == BiNobodyForgotten /\ FmNobodyWaitsForNobody

\* The course's thread and the slaves stop for a command that still holds, and
\* the sleepers of the first wait queue are those it has counted.
SleepersAreAccountedFor == PausedIsWanted /\ V1SleepersAreCounted

\* What must come to an end comes to an end: the leaving of a barrier, the
\* counting, the pausing and the handing over of everything produced.
ScEnds == exercised = "semaphore" => ScPrintsAll
PcEnds == exercised = "queue" => PcHandsOverEverything
PauseEnds == exercised = "pause" => PauserIsTold
BarEnds == exercised = "barrier" => BarReopens
MeetingsEnd == ScEnds /\ PcEnds /\ PauseEnds /\ BarEnds
==============================================================================
