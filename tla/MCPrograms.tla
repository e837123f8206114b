----------------------------- MODULE MCPrograms -----------------------------
(* The monitor of threadlib with its clients, the textbook problems, the     *)
(* demonstrations and the lists of the repository, one at a time: the run    *)
(* picks the program that is at work, and the others stay as they were       *)
(* initialised.                                                              *)
EXTENDS Monitor, DiningPhilosophers, StudentList, VaccinationCentre, TrafficLight, RouteTable, NotifChain,
        ThreadCancel, SinglyList, GlThread

SubscribedTwice == <<"a", "a">>      \* what the two subscribers subscribe to
WantedByBoth == <<<<"a">>, <<"a">>>>    \* what the two clients register for

MonitorLimits ==          \* of the readers/writers and of the strict producer/consumer
    {[c \in {"READER", "WRITER"} |-> IF c = "READER" THEN readers ELSE 1] : readers \in {1, 2}}

VARIABLE program

monitorVars == vars

problemVars == <<monitorVars, phVars, crudVars, vcVars, tlVars, cnVars>>
listVars == <<rtVars, nfVars, llVars, glVars>>
programVars == <<problemVars, listVars, program>>

\* One choice for what is not at work is enough.
OneStart ==
    /\ program # "vaccination" => /\ \A c \in Citizens : age[c] = CHOOSE a \in Ages : TRUE
                                  /\ \A k \in DOMAIN max_allowed : max_allowed[k] = 1
    /\ program # "monitor" => ~strict_alternation /\ n_max["READER"] = 1
    /\ program # "cancellation" => cn_program = "plain"

ProgramsInit ==
    /\ program \in {"monitor", "dining", "students", "vaccination", "traffic",
                    "cancellation", "routes", "chains", "list", "glthread"}
    /\ Init /\ PhInit /\ CrudInit /\ VcInit /\ TlInit /\ CnInit
    /\ RtInit /\ NfInit /\ LlInit /\ GlInit
    /\ OneStart

ProblemNext ==
    \/ program = "monitor" /\ Next
       /\ UNCHANGED <<phVars, crudVars, vcVars, tlVars, cnVars>>
    \/ program = "dining" /\ PhNext
       /\ UNCHANGED <<monitorVars, crudVars, vcVars, tlVars, cnVars>>
    \/ program = "students" /\ CrudNext
       /\ UNCHANGED <<monitorVars, phVars, vcVars, tlVars, cnVars>>
    \/ program = "vaccination" /\ VcNext
       /\ UNCHANGED <<monitorVars, phVars, crudVars, tlVars, cnVars>>
    \/ program = "traffic" /\ TlNext
       /\ UNCHANGED <<monitorVars, phVars, crudVars, vcVars, cnVars>>
    \/ program = "cancellation" /\ CnNext
       /\ UNCHANGED <<monitorVars, phVars, crudVars, vcVars, tlVars>>

ListNext ==
    \/ program = "routes" /\ RtNext /\ UNCHANGED <<nfVars, llVars, glVars>>
    \/ program = "chains" /\ NfNext /\ UNCHANGED <<rtVars, llVars, glVars>>
    \/ program = "list" /\ LlNext /\ UNCHANGED <<rtVars, nfVars, glVars>>
    \/ program = "glthread" /\ GlNext /\ UNCHANGED <<rtVars, nfVars, llVars>>

ProgramsNext == \/ ProblemNext /\ UNCHANGED <<listVars, program>>
                \/ ListNext /\ UNCHANGED <<problemVars, program>>

\* The fairness of the program that is at work.
ProgramsFairness ==
    /\ \A t \in Threads : WF_monitorVars(program = "monitor" /\ Step(t))
    /\ \A t \in CrudThreads : WF_crudVars(program = "students" /\ CrudGoesOn(t))
    /\ \A t \in CancelThreads :
          /\ WF_cnVars(program = "cancellation" /\ Now(t).op # "point" /\ CnStep(t))
          /\ WF_cnVars(program = "cancellation" /\ CnCancelled(t))

ProgramsSpec == ProgramsInit /\ [][ProgramsNext]_programVars /\ ProgramsFairness

\* Whoever sleeps will be remembered: the client in the monitor's queues, the
\* citizen that is listed, and the car from the east.
SleepersAreRemembered == QueuesAgree /\ VcListedIsRemembered /\ TlEastWakesOnGreen

\* In both routing tables nobody who asked to be told falls behind what is there,
\* however the threads that subscribe and the one that publishes overlap.
SubscribersKeepUp == [][RtKeepsUp]_rtVars /\ [][NfKeepsUp]_nfVars

\* Somebody gets in as long as somebody waits, and a monitor that is shut down
\* in use is freed when everybody was served.
MonitorServes == program = "monitor" => SomebodyGetsIn /\ ShutDownCompletes

\* The student whose deletion was deferred and the thread that was cancelled
\* come to the end they are meant to come to.
EndsAreReached == /\ program = "students" => CrudDeferredIsDestroyed
                  /\ program = "cancellation" => CancelledEnds

\* Both kinds of lists implement what is promised of them, and no linked node
\* drops out of both lists that share the nodes.
ListsKeepTheirPromise == LlImplementsLists /\ GlImplementsLine /\ []GlNobodyCutOff
==============================================================================
