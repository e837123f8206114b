----------------------------- MODULE ThreadCancel -----------------------------
(***************************************************************************)
(* Threads that are cancelled while they own things: the slaves of         *)
(* ThreadCancellation, which write into a file each until the menu cancels *)
(* them, and the UDP server of EventListeners, which hands its creator the *)
(* handle to cancel it by.                                                 *)
(*                                                                         *)
(* A thread function is a script of the calls that matter to a             *)
(* cancellation.  How the library runs one is modelled from POSIX: an      *)
(* asynchronous cancellation strikes anywhere, a deferred one at a         *)
(* cancellation point, where it also runs the handlers that were pushed;   *)
(* a thread that returns runs none.  One program runs at a time.           *)
(***************************************************************************)
EXTENDS Integers, Sequences, FiniteSets

CONSTANT CancelThreads

VARIABLES cn_program, cn_running, cn_thread
cnVars == <<cn_program, cn_running, cn_thread>>

Do(op, arg) == [op |-> op, arg |-> arg, to |-> 0]
Again(k) == [op |-> "again", arg |-> "none", to |-> k]

\* Slip: the memory's handler is pushed when the file is open.
deferred_slave_pushes_late ==
    <<Do("type", "deferred"), Do("open", "file"), Do("push", "memory"), Do("push", "file"),
      Do("point", "fwrite"), Do("point", "sleep"), Do("point", "testcancel"), Again(5)>>

\* write_into_file, of the four programs.
deferred_slave ==
    <<Do("type", "deferred"), Do("push", "memory"), Do("open", "file"), Do("push", "file"),
      Do("point", "fwrite"), Do("point", "sleep"), Do("point", "testcancel"), Again(5)>>
cleaning_slave ==
    <<Do("type", "async"), Do("push", "memory"), Do("open", "file"), Do("push", "file"),
      Do("point", "fwrite"), Do("point", "sleep"), Again(5)>>
async_slave == <<Do("type", "async"), Do("open", "file"), Do("point", "fwrite"), Do("point", "sleep"), Again(3)>>
plain_slave == <<Do("open", "file"), Do("point", "fwrite"), Do("point", "sleep"), Again(2)>>

\* _udp_server_create_and_start.
udp_server ==
    <<Do("type", "deferred"), Do("free", "arg"), Do("get", "socket"), Do("try", "bind"), Do("take", "buffer"),
      Do("push", "socket"), Do("push", "buffer"), Do("point", "recvfrom"), Do("point", "testcancel"), Again(8)>>

\* What a program's threads run, what main allocates for each of them, and
\* whether anybody cancels them: the first program's menu only asks.
deferred_main == [script |-> deferred_slave, arg |-> "memory", cancels |-> TRUE]
cleaning_main == [script |-> cleaning_slave, arg |-> "memory", cancels |-> TRUE]
async_main    == [script |-> async_slave, arg |-> "memory", cancels |-> TRUE]
plain_main    == [script |-> plain_slave, arg |-> "memory", cancels |-> FALSE]
udp_server_create_and_start == [script |-> udp_server, arg |-> "arg", cancels |-> TRUE]

Programs == [deferred |-> deferred_main, cleaning |-> cleaning_main, async |-> async_main,
             plain |-> plain_main, listener |-> udp_server_create_and_start]

Program == Programs[cn_program]
Now(t) == Program.script[cn_thread[t].at]
Going(t) == cn_running /\ cn_thread[t].ended = "no"

-----------------------------------------------------------------------------
CnInit == /\ cn_program \in DOMAIN Programs /\ cn_running = TRUE
          /\ cn_thread = [t \in CancelThreads |-> [at |-> 1, owns |-> {Program.arg}, pushed |-> {},
                                                   async |-> FALSE, asked |-> FALSE, ended |-> "no"]]

Forward(t, changed) == cn_thread' = [cn_thread EXCEPT ![t] = [changed EXCEPT !.at = @ + 1]]

\* The next call of the script.  A cancellation point that finds a request does
\* not return; fopen may be one.
CnStep(t) ==
    /\ Going(t) /\ UNCHANGED <<cn_program, cn_running>>
    /\ LET th == cn_thread[t]
           op == Now(t).op
           x  == Now(t).arg
       IN  \/ op = "type" /\ Forward(t, [th EXCEPT !.async = x = "async"])
           \/ op = "push" /\ Forward(t, [th EXCEPT !.pushed = @ \cup {x}])
           \/ op = "free" /\ Forward(t, [th EXCEPT !.owns = @ \ {x}])
           \/ op \in {"open", "get", "take"} /\ Forward(t, [th EXCEPT !.owns = @ \cup {x}])
           \/ op = "try" /\ Forward(t, th)
           \/ op \in {"open", "get", "try"} /\ cn_thread' = [cn_thread EXCEPT ![t].ended = "returned"]
           \/ op = "point" /\ ~th.asked /\ Forward(t, th)
           \/ op = "again" /\ cn_thread' = [cn_thread EXCEPT ![t].at = Now(t).to]

\* The request is carried out: memory_cleanup_handler, file_cleanup_handler and
\* those of the UDP server release what they were pushed for.
CnCancelled(t) ==
    /\ Going(t) /\ cn_thread[t].asked
    /\ cn_thread[t].async \/ Now(t).op \in {"open", "point"}
    /\ cn_thread' = [cn_thread EXCEPT ![t].ended = "cancelled", ![t].owns = @ \ cn_thread[t].pushed]
    /\ UNCHANGED <<cn_program, cn_running>>

\* The menu: pthread_cancel, or a number that is no slave's and ends the process.
pthread_cancel(t) ==
    /\ cn_running /\ Program.cancels
    /\ cn_thread' = [cn_thread EXCEPT ![t].asked = TRUE]
    /\ UNCHANGED <<cn_program, cn_running>>

menu_exit == cn_running /\ cn_running' = FALSE /\ UNCHANGED <<cn_program, cn_thread>>

CnNext == menu_exit \/ \E t \in CancelThreads : CnStep(t) \/ CnCancelled(t) \/ pthread_cancel(t)

\* A thread goes on to its next cancellation point, and there to its end.
CnFairness == \A t \in CancelThreads : /\ WF_cnVars(Now(t).op # "point" /\ CnStep(t))
                                       /\ WF_cnVars(CnCancelled(t))
CnSpec == CnInit /\ [][CnNext]_cnVars /\ CnFairness

-----------------------------------------------------------------------------
\* A thread whose cancellation is deferred leaves nothing behind, wherever the
\* request meets it: memory, file, socket and buffer are released.
CancelLeavesNothing ==
    cn_program \in {"deferred", "listener"} =>
        \A t \in CancelThreads : cn_thread[t].ended = "cancelled" => cn_thread[t].owns = {}

\* Who is asked to end does end.
CancelledEnds == \A t \in CancelThreads :
                     cn_thread[t].asked ~> ~cn_running \/ cn_thread[t].ended # "no"
==============================================================================
