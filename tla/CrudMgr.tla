------------------------------- MODULE CrudMgr -------------------------------
(***************************************************************************)
(* The thread-safe CRUD manager: threads ask a node for permission to      *)
(* read, write, create or delete it, work, and release it.                 *)
(*                                                                         *)
(* A node's flags are changed under the node's mutex or, in the second     *)
(* half of a deletion and in a creation, under the manager's mutex alone.  *)
(* A step ends where one of the two is taken or given back, and where      *)
(* crud_node_enter_state and crud_node_exit_state turn from the flags of   *)
(* the node to the lists of the manager.  Each change of the flag word is  *)
(* one indivisible step.  A failed assertion stops the program.            *)
(***************************************************************************)
EXTENDS Integers, SequencesExt

CONSTANTS CmReaders, CmWriters, CmDeleters, CmCreators,  \* the clients
          CmStudents,   \* the nodes listed from the start
          CmUnborn,     \* the nodes the creators will add
          CmRounds,     \* bound: the requests each client makes at most
          NoClient, NoNode

CmClients == CmReaders \cup CmWriters \cup CmDeleters \cup CmCreators
CmNodes == CmStudents \cup CmUnborn

CmPending == {"pending_read", "pending_write", "pending_delete", "pending_create"}
CmInProgress == {"read_in_progress", "write_in_progress",
                 "delete_in_progress", "create_in_progress"}
CmStates == CmPending \cup CmInProgress \cup {"no_op"}

\* States of a node that cannot be entered twice.
EnteredOnce == (CmInProgress \ {"read_in_progress"}) \cup {"pending_create", "no_op"}

\* A client has one part, and the nodes of the creators are new.  The counters
\* are of type uint8_t; a deleter may be counted twice.
ASSUME CrudMgrAssumption ==
    /\ CmReaders \cap (CmWriters \cup CmDeleters \cup CmCreators) = {}
    /\ CmWriters \cap (CmDeleters \cup CmCreators) = {}
    /\ CmDeleters \cap CmCreators = {}
    /\ IsFiniteSet(CmClients) /\ Cardinality(CmClients) < 128
    /\ IsFiniteSet(CmStudents) /\ CmStudents \cap CmUnborn = {}
    /\ NoClient \notin CmClients /\ NoNode \notin CmNodes
    /\ CmRounds \in Nat

VARIABLES
  cmStatus,    \* cmStatus[n]: the flags set in crud_node_status
  cmCounter,   \* cmCounter[n][s]: the threads in state s of node n
  cmOp,        \* cmOp[n]: curr_op, as the state in progress, or "none"
  cmLists,     \* cmLists[s]: the manager's list of nodes in state s
  cmEnrolled,  \* the nodes in the application's list of students
  cmFreed,     \* the nodes whose memory was given back
  cmMutex,     \* cmMutex[n]: the owner of the node's state_mutex
  cmMgr,       \* the owner of the manager's state_mutex
  cmAt,        \* cmAt[t]: where a client is: place, node, aim and next place
  cmLeft,      \* cmLeft[t]: the requests the client will still make
  cmAborted    \* an assertion of the library or of the application failed

cmNodeVars == <<cmStatus, cmCounter, cmOp, cmLists>>
cmAppVars == <<cmEnrolled, cmFreed>>
cmVars == <<cmNodeVars, cmAppVars, cmMutex, cmMgr, cmAt, cmLeft, cmAborted>>

CmRole(t) == CASE t \in CmReaders -> "read_in_progress"
               [] t \in CmWriters -> "write_in_progress"
               [] t \in CmDeleters -> "delete_in_progress"
               [] t \in CmCreators -> "create_in_progress"

CmNode(t) == cmAt[t].node
CmIs(t, place) == cmAt[t].place = place

\* While asleep in the wait for a condition variable of the node.
Asleep(n, places) == {t \in CmClients : cmAt[t].node = n /\ cmAt[t].place \in places}
ReadersAsleep(n) == Asleep(n, {"rdrs_cv"})
WritersAsleep(n) == Asleep(n, {"writers_cv"})
DeleterAsleep(n) == Asleep(n, {"delete_thread_cv", "delete_thread_cv_mgr"})
CreatorAsleep(n) == Asleep(n, {"create_thread_cv"})
OneOf(S) == IF S = {} THEN {{}} ELSE {{t} : t \in S}

\* A wait that gave up the manager's mutex must take that one again.
WokenPlace(p) == IF p \in {"delete_thread_cv_mgr", "create_thread_cv"} THEN "woken_mgr" ELSE "woken"
Woken(at, S) == [t \in CmClients |->
                   IF t \in S THEN [at[t] EXCEPT !.place = WokenPlace(@)] ELSE at[t]]

-----------------------------------------------------------------------------
\* Moving on: the mutexes the new place does not hold are given back.

HoldsNode == {"deciding", "signalling"}
HoldsMgr == {"claim", "claimed"}

GiveBack(t, place) ==
    /\ cmMutex' = IF place \in HoldsNode THEN cmMutex
                  ELSE [n \in CmNodes |-> IF cmMutex[n] = t THEN NoClient ELSE cmMutex[n]]
    /\ cmMgr' = IF cmMgr = t /\ place \notin HoldsMgr THEN NoClient ELSE cmMgr

Goto(t, place) ==
    /\ GiveBack(t, place)
    /\ cmAt' = [cmAt EXCEPT ![t].place = place, ![t].aim = "none", ![t].next = "none"]

\* The request is answered or the work is done; others are woken on the way.
Finish(t, woken) ==
    /\ GiveBack(t, "idle")
    /\ cmAt' = Woken([cmAt EXCEPT ![t] = [place |-> "idle", node |-> NoNode,
                                          aim |-> "none", next |-> "none"]], woken)
    /\ cmLeft' = [cmLeft EXCEPT ![t] = @ - 1]

CmFail == /\ cmAborted' = TRUE
          /\ UNCHANGED <<cmNodeVars, cmAppVars, cmAt, cmLeft>>
CmAbort == CmFail /\ UNCHANGED <<cmMutex, cmMgr>>

-----------------------------------------------------------------------------
\* The states of a node.

crud_node_in_use(st) == st \cap (CmPending \cup CmInProgress) # {}

\* A node that is in no list stays so.
remove_glthread(q, n) ==
    IF Contains(q, n) THEN RemoveAt(q, CHOOSE k \in 1..Len(q) : q[k] = n) ELSE q

Present(n, s) == s \in cmStatus[n] /\ cmCounter[n][s] > 0 /\ Contains(cmLists[s], n)
Absent(n, s) == s \notin cmStatus[n] /\ cmCounter[n][s] = 0 /\ ~Contains(cmLists[s], n)

OpOnEntry(n, s) == IF s \in CmInProgress THEN s ELSE cmOp[n]
OpOnExit(n, s) == IF s \in CmInProgress THEN "none" ELSE cmOp[n]

\* One more thread in a state the node is in, or the flag is set and the lists
\* of the manager come next.
crud_node_enter_state(t, n, s, next) ==
    \/ /\ s \in cmStatus[n] \ EnteredOnce
       /\ cmCounter' = [cmCounter EXCEPT ![n][s] = @ + 1]
       /\ Goto(t, next)
       /\ UNCHANGED <<cmStatus, cmOp, cmLists, cmAppVars, cmLeft, cmAborted>>
    \/ /\ Absent(n, s)
       /\ cmStatus' = [cmStatus EXCEPT ![n] = @ \cup {s}]
       /\ cmOp' = [cmOp EXCEPT ![n] = OpOnEntry(n, s)]
       /\ cmAt' = [cmAt EXCEPT ![t].place = "entering", ![t].aim = s, ![t].next = next]
       /\ UNCHANGED <<cmCounter, cmLists, cmAppVars, cmMutex, cmMgr, cmLeft, cmAborted>>
    \/ /\ ~Absent(n, s) /\ s \notin cmStatus[n] \ EnteredOnce
       /\ CmAbort

\* The rest of it, under the manager's mutex: the node is listed, and is no
\* longer without operation.
enter_listed(t) ==
    LET n == CmNode(t)
        s == cmAt[t].aim
    IN /\ CmIs(t, "entering") /\ cmMgr \in {t, NoClient}
       /\ cmCounter' = [cmCounter EXCEPT ![n] =
                          [@ EXCEPT ![s] = 1, !["no_op"] = 0]]
       /\ cmLists' = [cmLists EXCEPT ![s] = <<n>> \o @,
                                     !["no_op"] = remove_glthread(@, n)]
       /\ cmStatus' = [cmStatus EXCEPT ![n] = @ \ {"no_op"}]
       /\ Goto(t, cmAt[t].next)
       /\ UNCHANGED <<cmOp, cmAppVars, cmLeft, cmAborted>>

\* One thread less in the state; the caller holds the mutexes of `next'.
crud_node_exit_state(t, n, s, next) ==
    \/ /\ ~Present(n, s)
       /\ CmFail
    \/ /\ Present(n, s)
       /\ cmCounter' = [cmCounter EXCEPT ![n][s] = @ - 1]
       /\ IF cmCounter[n][s] > 1
          THEN /\ cmAt' = [cmAt EXCEPT ![t].place = next, ![t].aim = "none", ![t].next = "none"]
               /\ UNCHANGED <<cmStatus, cmOp>>
          ELSE /\ cmStatus' = [cmStatus EXCEPT ![n] = @ \ {s}]
               /\ cmOp' = [cmOp EXCEPT ![n] = OpOnExit(n, s)]
               /\ cmAt' = [cmAt EXCEPT ![t].place = "leaving", ![t].aim = s, ![t].next = next]
       /\ UNCHANGED <<cmLists, cmAppVars, cmLeft, cmAborted>>

\* Slip: the node stays in the list of the state it leaves.
exit_still_listed(t) ==
    LET n == CmNode(t)
    IN /\ CmIs(t, "leaving") /\ cmMgr \in {t, NoClient}
       /\ cmAt' = [cmAt EXCEPT ![t].place = cmAt[t].next, ![t].aim = "none", ![t].next = "none"]
       /\ IF crud_node_in_use(cmStatus[n]) THEN UNCHANGED <<cmStatus, cmCounter, cmLists, cmOp>>
          ELSE /\ cmStatus' = [cmStatus EXCEPT ![n] = @ \cup {"no_op"}]
               /\ cmCounter' = [cmCounter EXCEPT ![n]["no_op"] = 1]
               /\ cmLists' = [cmLists EXCEPT !["no_op"] = <<n>> \o @]
               /\ cmOp' = [cmOp EXCEPT ![n] = "none"]
       /\ UNCHANGED <<cmMutex, cmMgr, cmAppVars, cmLeft, cmAborted>>

\* A node that nobody uses goes back to the state without operation.
exit_listed(t) ==
    LET n == CmNode(t)
        s == cmAt[t].aim
        unused == ~crud_node_in_use(cmStatus[n])
        lists == [cmLists EXCEPT ![s] = remove_glthread(@, n)]
    IN /\ CmIs(t, "leaving") /\ cmMgr \in {t, NoClient}
       /\ IF unused /\ ~Absent(n, "no_op")
          THEN CmAbort
          ELSE /\ cmLists' = IF unused THEN [lists EXCEPT !["no_op"] = <<n>> \o @] ELSE lists
               /\ cmCounter' = IF unused THEN [cmCounter EXCEPT ![n]["no_op"] = 1] ELSE cmCounter
               /\ cmStatus' = IF unused THEN [cmStatus EXCEPT ![n] = @ \cup {"no_op"}] ELSE cmStatus
               /\ cmOp' = IF unused THEN [cmOp EXCEPT ![n] = "none"] ELSE cmOp
               /\ cmAt' = [cmAt EXCEPT ![t].place = cmAt[t].next, ![t].aim = "none", ![t].next = "none"]
               /\ UNCHANGED <<cmMutex, cmMgr, cmAppVars, cmLeft, cmAborted>>

-----------------------------------------------------------------------------
\* The requests, up to the first look at the node's state.

\* stud_lst_lookup_student takes no lock: the node may be deleted and freed
\* before it is used.
cm_lookup(t) ==
    /\ CmIs(t, "idle") /\ cmLeft[t] > 0
    /\ \E n \in cmEnrolled :
          cmAt' = [cmAt EXCEPT ![t].place = "asking", ![t].node = n]
    /\ UNCHANGED <<cmNodeVars, cmAppVars, cmMutex, cmMgr, cmLeft, cmAborted>>

\* Using the memory of a node that was freed: the program dies, or finds what
\* was there before.
cm_stray_access(t) ==
    /\ ~CmIs(t, "idle") /\ CmNode(t) \in cmFreed
    /\ CmAbort

\* A new node has no operation; its creator asks the manager at once.
crud_node_init(t) ==
    /\ CmIs(t, "idle") /\ cmLeft[t] > 0 /\ t \in CmCreators /\ cmMgr = NoClient
    /\ \E n \in CmUnborn :
          /\ cmStatus[n] = {} /\ \A u \in CmClients : CmNode(u) # n
          /\ cmStatus' = [cmStatus EXCEPT ![n] = {"no_op"}]
          /\ cmCounter' = [cmCounter EXCEPT ![n]["no_op"] = 1]
          /\ cmLists' = [cmLists EXCEPT !["no_op"] = <<n>> \o @]
          /\ cmAt' = [cmAt EXCEPT ![t].place = "to_mgr", ![t].node = n]
    /\ UNCHANGED <<cmOp, cmAppVars, cmMutex, cmMgr, cmLeft, cmAborted>>

Unwelcome == {"pending_delete", "pending_create", "delete_in_progress", "create_in_progress"}

\* A deletion or creation of the node turns the request down; otherwise the
\* node's mutex is held through the loop that follows.
Admission(t) ==
    LET n == CmNode(t)
    IN /\ CmIs(t, "asking") /\ cmMutex[n] = NoClient
       /\ IF cmStatus[n] \cap Unwelcome # {}
          THEN /\ Finish(t, {})
               /\ UNCHANGED <<cmNodeVars, cmAppVars, cmAborted>>
          ELSE /\ cmMutex' = [cmMutex EXCEPT ![n] = t]
               /\ cmAt' = [cmAt EXCEPT ![t].place = "deciding"]
               /\ UNCHANGED <<cmNodeVars, cmAppVars, cmMgr, cmLeft, cmAborted>>

read_admission(t) == t \in CmReaders /\ Admission(t)
write_admission(t) == t \in CmWriters /\ Admission(t)
delete_admission(t) == t \in CmDeleters /\ Admission(t)

\* Awake again: the mutex, and one thread less pending.
PendingOf(t) == CASE t \in CmReaders -> "pending_read"
                  [] t \in CmWriters -> "pending_write"
                  [] t \in CmDeleters -> "pending_delete"
                  [] t \in CmCreators -> "pending_create"

cm_awake(t) ==
    LET n == CmNode(t)
    IN /\ CmIs(t, "woken") /\ cmMutex[n] = NoClient
       /\ cmMutex' = [cmMutex EXCEPT ![n] = t]
       /\ crud_node_exit_state(t, n, PendingOf(t), "deciding")
       /\ UNCHANGED cmMgr

cm_awake_mgr(t) ==
    /\ CmIs(t, "woken_mgr") /\ cmMgr = NoClient
    /\ cmMgr' = t
    /\ crud_node_exit_state(t, CmNode(t), PendingOf(t), "claim")
    /\ UNCHANGED cmMutex

-----------------------------------------------------------------------------
\* The loops.  Each tests the flags in a fixed order: the verdict is the first
\* that applies.

First(tests, st) ==
    LET hits == {i \in DOMAIN tests : tests[i][1] \in st}
    IN IF hits = {} THEN "impossible"
       ELSE tests[CHOOSE i \in hits : \A j \in hits : i <= j][2]

ReadVerdict == <<
    <<"pending_delete", "quit">>, <<"pending_create", "impossible">>,
    <<"delete_in_progress", "impossible">>, <<"create_in_progress", "impossible">>,
    <<"write_in_progress", "wait">>, <<"no_op", "grant">>,
    <<"read_in_progress", "grant">>, <<"pending_read", "grant">>, <<"pending_write", "wait">> >>

WriteVerdict == <<
    <<"pending_delete", "quit">>, <<"pending_create", "impossible">>,
    <<"delete_in_progress", "impossible">>, <<"create_in_progress", "impossible">>,
    <<"write_in_progress", "wait">>, <<"no_op", "grant">>,
    <<"read_in_progress", "wait">>, <<"pending_read", "grant">>, <<"pending_write", "grant">> >>

DeleteVerdict == <<
    <<"write_in_progress", "wait">>, <<"read_in_progress", "wait_with_readers">>,
    <<"pending_read", "wait">>, <<"pending_write", "wait">>,
    <<"pending_delete", "refuse">>, <<"pending_create", "refuse">>,
    <<"delete_in_progress", "refuse">>, <<"create_in_progress", "refuse">>, <<"no_op", "grant">> >>

\* Readers and writers who find the node marked for deletion leave, and wake
\* everybody else who waits at it.
Quit(t) ==
    LET n == CmNode(t)
    IN /\ \E d \in OneOf(DeleterAsleep(n)) :
             Finish(t, ReadersAsleep(n) \cup WritersAsleep(n) \cup d)
       /\ UNCHANGED <<cmNodeVars, cmAppVars, cmAborted>>

crud_request_read(t) ==
    LET n == CmNode(t)
        verdict == First(ReadVerdict, cmStatus[n])
    IN /\ CmIs(t, "deciding") /\ t \in CmReaders
       /\ \/ verdict = "quit" /\ Quit(t)
          \/ verdict = "impossible" /\ CmAbort
          \/ verdict = "wait" /\ crud_node_enter_state(t, n, "pending_read", "rdrs_cv")
          \/ verdict = "grant" /\ crud_node_enter_state(t, n, "read_in_progress", "working")

\* Slip: a writer joins the readers.
crud_write_joins_readers(t) ==
    LET verdict == First(ReadVerdict, cmStatus[CmNode(t)])
    IN /\ CmIs(t, "deciding") /\ t \in CmWriters
       /\ \/ verdict = "quit" /\ Quit(t)
          \/ verdict = "impossible" /\ CmAbort
          \/ verdict = "wait" /\ crud_node_enter_state(t, CmNode(t), "pending_write", "writers_cv")
          \/ verdict = "grant" /\ crud_node_enter_state(t, CmNode(t), "write_in_progress", "working")

crud_request_write(t) ==
    LET n == CmNode(t)
        verdict == First(WriteVerdict, cmStatus[n])
    IN /\ CmIs(t, "deciding") /\ t \in CmWriters
       /\ \/ verdict = "quit" /\ Quit(t)
          \/ verdict = "impossible" /\ CmAbort
          \/ verdict = "wait" /\ crud_node_enter_state(t, n, "pending_write", "writers_cv")
          \/ verdict = "grant" /\ crud_node_enter_state(t, n, "write_in_progress", "working")

\* A deleter whom readers keep waiting sleeps on the readers' variable.
crud_request_delete(t) ==
    LET n == CmNode(t)
        verdict == First(DeleteVerdict, cmStatus[n])
    IN /\ CmIs(t, "deciding") /\ t \in CmDeleters
       /\ \/ /\ verdict = "refuse" /\ Finish(t, {})
             /\ UNCHANGED <<cmNodeVars, cmAppVars, cmAborted>>
          \/ verdict = "wait" /\ crud_node_enter_state(t, n, "pending_delete", "delete_thread_cv")
          \/ verdict = "wait_with_readers" /\ crud_node_enter_state(t, n, "pending_delete", "rdrs_cv")
          \/ /\ verdict = "grant" /\ Present(n, "no_op")
             /\ crud_node_enter_state(t, n, "pending_delete", "to_mgr")
          \/ (verdict = "impossible" \/ (verdict = "grant" /\ ~Present(n, "no_op"))) /\ CmAbort

-----------------------------------------------------------------------------
\* Creation, and the second half of a deletion: under the manager's mutex
\* alone, and only while nobody creates or deletes any node.

SomebodyCreatesOrDeletes ==
    cmLists["create_in_progress"] # <<>> \/ cmLists["delete_in_progress"] # <<>>

cm_lock_mgr(t) ==
    /\ CmIs(t, "to_mgr") /\ cmMgr = NoClient
    /\ cmMgr' = t
    /\ cmAt' = [cmAt EXCEPT ![t].place = "claim"]
    /\ UNCHANGED <<cmNodeVars, cmAppVars, cmMutex, cmLeft, cmAborted>>

\* Slip: creation does not look for other creators and deleters.
create_without_asking(t) ==
    /\ CmIs(t, "claim") /\ t \in CmCreators
    /\ crud_node_enter_state(t, CmNode(t), "create_in_progress", "working")

crud_request_create(t) ==
    LET n == CmNode(t)
    IN /\ CmIs(t, "claim") /\ t \in CmCreators
       /\ IF SomebodyCreatesOrDeletes
          THEN crud_node_enter_state(t, n, "pending_create", "create_thread_cv")
          ELSE crud_node_enter_state(t, n, "create_in_progress", "working")

delete_claim(t) ==
    LET n == CmNode(t)
    IN /\ CmIs(t, "claim") /\ t \in CmDeleters
       /\ IF SomebodyCreatesOrDeletes
          THEN crud_node_enter_state(t, n, "pending_delete", "delete_thread_cv_mgr")
          ELSE /\ crud_node_exit_state(t, n, "pending_delete", "claimed")
               /\ UNCHANGED <<cmMutex, cmMgr>>

delete_claimed(t) ==
    /\ CmIs(t, "claimed")
    /\ crud_node_enter_state(t, CmNode(t), "delete_in_progress", "working")

-----------------------------------------------------------------------------
\* The application's work, and the release.

\* The clients assert that the operation under way is theirs.  The release
\* looks at it once more without a mutex and goes by what it finds.
Work(t, enrolled) ==
    LET n == CmNode(t)
    IN /\ CmIs(t, "working")
       /\ IF cmOp[n] # CmRole(t) THEN CmAbort
          ELSE /\ cmEnrolled' = enrolled
               /\ cmAt' = [cmAt EXCEPT ![t].place = "releasing", ![t].aim = cmOp[n]]
               /\ UNCHANGED <<cmNodeVars, cmFreed, cmMutex, cmMgr, cmLeft, cmAborted>>

rdr_thread_fn(t) == t \in CmReaders /\ (cm_lookup(t) \/ Work(t, cmEnrolled))
writer_thread_fn(t) == t \in CmWriters /\ (cm_lookup(t) \/ Work(t, cmEnrolled))
delete_thread_fn(t) == t \in CmDeleters /\ (cm_lookup(t) \/ Work(t, cmEnrolled \ {CmNode(t)}))
cm_add_new_student(t) == t \in CmCreators /\ Work(t, cmEnrolled \cup {CmNode(t)})

Release(t, op) ==
    LET n == CmNode(t)
    IN /\ CmIs(t, "releasing") /\ cmAt[t].aim = op /\ cmMutex[n] = NoClient
       /\ cmMutex' = [cmMutex EXCEPT ![n] = t]
       /\ crud_node_exit_state(t, n, op, "signalling")
       /\ UNCHANGED cmMgr

\* Slip: a reader who leaves forgets the writers.
WokenButWriters(n) ==
    CASE "pending_read" \in cmStatus[n] -> {ReadersAsleep(n)}
      [] "pending_delete" \in cmStatus[n] /\ "pending_read" \notin cmStatus[n] -> OneOf(DeleterAsleep(n))
      [] OTHER -> {{}}

\* Whom a reader or writer who leaves wakes: all readers that wait, else a
\* writer, else the deleter; nobody while others are still reading.
WokenByRelease(n) ==
    CASE "read_in_progress" \in cmStatus[n] -> {{}}
      [] "read_in_progress" \notin cmStatus[n] /\ "pending_read" \in cmStatus[n] -> {ReadersAsleep(n)}
      [] cmStatus[n] \cap {"read_in_progress", "pending_read"} = {}
         /\ "pending_write" \in cmStatus[n] -> OneOf(WritersAsleep(n))
      [] cmStatus[n] \cap {"read_in_progress", "pending_read", "pending_write"} = {}
         /\ "pending_delete" \in cmStatus[n] -> OneOf(DeleterAsleep(n))
      [] OTHER -> {{}}

SignalAndLeave(t) ==
    /\ CmIs(t, "signalling")
    /\ \E S \in WokenByRelease(CmNode(t)) : Finish(t, S)
    /\ UNCHANGED <<cmNodeVars, cmAppVars, cmAborted>>

release_read(t) ==
    Release(t, "read_in_progress") \/ (t \in CmReaders /\ SignalAndLeave(t))
release_write(t) ==
    Release(t, "write_in_progress") \/ (t \in CmWriters /\ SignalAndLeave(t))

\* A node just created or deleted must be unused; the node's mutex is given
\* back before the manager's is taken for the rest.
LeaveNode(t) ==
    /\ CmIs(t, "signalling")
    /\ IF crud_node_in_use(cmStatus[CmNode(t)])
       THEN CmAbort
       ELSE /\ Goto(t, "announcing")
            /\ UNCHANGED <<cmNodeVars, cmAppVars, cmLeft, cmAborted>>

\* One waiting creator is woken, else one of the waiting deleters of the node
\* that was listed last; what is signalled is that node's variable.
Announcement ==
    CASE cmLists["pending_create"] # <<>> -> OneOf(CreatorAsleep(Head(cmLists["pending_create"])))
      [] cmLists["pending_create"] = <<>> /\ cmLists["pending_delete"] # <<>> ->
            OneOf(DeleterAsleep(Head(cmLists["pending_delete"])))
      [] OTHER -> {{}}

\* The deleter frees the node without taking it out of the manager's lists.
Announce(t) ==
    /\ CmIs(t, "announcing") /\ cmMgr = NoClient
    /\ IF SomebodyCreatesOrDeletes
       THEN CmAbort
       ELSE /\ \E S \in Announcement : Finish(t, S)
            /\ cmFreed' = IF t \in CmDeleters THEN cmFreed \cup {CmNode(t)} ELSE cmFreed
            /\ UNCHANGED <<cmNodeVars, cmEnrolled, cmAborted>>

release_create(t) ==
    \/ Release(t, "create_in_progress")
    \/ t \in CmCreators /\ (LeaveNode(t) \/ Announce(t))
release_delete(t) ==
    \/ Release(t, "delete_in_progress")
    \/ t \in CmDeleters /\ (LeaveNode(t) \/ Announce(t))

\* pthread_cond_wait may return without a signal.
cm_spurious_wakeup(t) ==
    /\ cmAt[t].place \in {"rdrs_cv", "writers_cv", "delete_thread_cv",
                          "delete_thread_cv_mgr", "create_thread_cv"}
    /\ cmAt' = Woken(cmAt, {t})
    /\ UNCHANGED <<cmNodeVars, cmAppVars, cmMutex, cmMgr, cmLeft, cmAborted>>

-----------------------------------------------------------------------------
\* The nodes enrolled from the start have been initialised one by one.
CmInit ==
    /\ cmStatus = [n \in CmNodes |-> IF n \in CmStudents THEN {"no_op"} ELSE {}]
    /\ cmCounter = [n \in CmNodes |-> [s \in CmStates |->
                      IF s = "no_op" /\ n \in CmStudents THEN 1 ELSE 0]]
    /\ cmOp = [n \in CmNodes |-> "none"]
    /\ cmLists = [s \in CmStates |-> IF s = "no_op" THEN SetToSeq(CmStudents) ELSE <<>>]
    /\ cmEnrolled = CmStudents /\ cmFreed = {}
    /\ cmMutex = [n \in CmNodes |-> NoClient] /\ cmMgr = NoClient
    /\ cmAt = [t \in CmClients |-> [place |-> "idle", node |-> NoNode,
                                    aim |-> "none", next |-> "none"]]
    /\ cmLeft \in [CmClients -> 0 .. CmRounds]
    /\ cmAborted = FALSE

CmStep(t) ==
    \/ rdr_thread_fn(t) \/ writer_thread_fn(t) \/ delete_thread_fn(t)
    \/ crud_node_init(t) \/ cm_add_new_student(t)
    \/ read_admission(t) \/ write_admission(t) \/ delete_admission(t)
    \/ cm_awake(t) \/ cm_awake_mgr(t) \/ enter_listed(t) \/ exit_listed(t)
    \/ crud_request_read(t) \/ crud_request_write(t) \/ crud_request_delete(t)
    \/ cm_lock_mgr(t) \/ crud_request_create(t) \/ delete_claim(t) \/ delete_claimed(t)
    \/ release_read(t) \/ release_write(t)
    \/ release_create(t) \/ release_delete(t)

CmNext == /\ ~cmAborted
          /\ \E t \in CmClients : CmStep(t) \/ cm_stray_access(t) \/ cm_spurious_wakeup(t)

\* A client that can go on does so in the end.
CmFairness == \A t \in CmClients : SF_cmVars(~cmAborted /\ CmStep(t))

CmSpec == CmInit /\ [][CmNext]_cmVars /\ CmFairness

-----------------------------------------------------------------------------
\* Whoever was granted a node and has not begun to give it back.
Granted(n, role) == {t \in CmClients : /\ CmNode(t) = n /\ CmRole(t) = role
                                       /\ cmAt[t].place \in {"working", "releasing"}}

\* In the whole manager only one thread at a time creates or deletes a node.
CmOneBuilder ==
    Cardinality(UNION {Granted(n, "create_in_progress") \cup Granted(n, "delete_in_progress")
                        : n \in CmNodes}) <= 1

\* A thread that writes a node shares it with no reader and no other writer.
CmWriterAlone ==
    \A n \in CmNodes : Granted(n, "write_in_progress") # {} =>
       Cardinality(Granted(n, "write_in_progress") \cup Granted(n, "read_in_progress")) = 1

\* Flags, counters and the manager's lists tell the same story of every node
\* that nobody is in the middle of changing.
CmBooksAgree ==
    \A n \in CmNodes : (\A t \in CmClients : CmNode(t) # n \/ cmAt[t].place \notin {"entering", "leaving"})
      => \A s \in CmStates : Present(n, s) \/ Absent(n, s)

\* With any number of readers and one writer, and nobody who creates or
\* deletes, everybody is served.
CmEverybodyServed ==
    ((\A t \in CmDeleters \cup CmCreators : cmLeft[t] = 0)
     /\ Cardinality({t \in CmWriters : cmLeft[t] > 0}) <= 1)
    => <>(\A t \in CmClients : cmLeft[t] = 0)

\* Nobody is given a node that is being deleted.
CmDeletedAlone ==
    \A n \in CmNodes : Granted(n, "delete_in_progress") # {} =>
      Granted(n, "read_in_progress") \cup Granted(n, "write_in_progress") = {}
==============================================================================
