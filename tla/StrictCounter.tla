---------------------------- MODULE StrictCounter ----------------------------
(***************************************************************************)
(* The counting semaphore of references/Semaphores (sema_t) and the        *)
(* program it is used in: two threads that print the odd and the even      *)
(* numbers up to LastNumber, in turns.  sema_wait does not test its condition    *)
(* again, so that the program relies on the absence of spurious wake-ups;  *)
(* the model has none.  With an odd LastNumber the odd thread waits for ever     *)
(* after its last number.                                                  *)
(***************************************************************************)
EXTENDS Integers

CONSTANT LastNumber    \* 15 in the code

ASSUME StrictCounterAssumption == LastNumber \in Nat \ {0, 1}

Parties == {"odd", "even"}
Other(p) == IF p = "odd" THEN "even" ELSE "odd"

VARIABLES permit_counter,  \* the counter of the semaphore each party waits for
          sema_asleep,     \* the parties in pthread_cond_wait
          i,               \* the loop variable of each party
          spc,             \* where each party is: prints, posts, waits, woken, done
          printed          \* history: the numbers printed, and the last of them

scVars == <<permit_counter, sema_asleep, i, spc, printed>>

ScInit ==
    /\ permit_counter = [p \in Parties |-> 0]
    /\ sema_asleep = {}
    /\ i = [p \in Parties |-> IF p = "odd" THEN 1 ELSE 2]
    /\ spc = [p \in Parties |-> IF p = "odd" THEN "prints" ELSE "waits"]
    /\ printed = [count |-> 0, last |-> 0]

\* The rest of the loop's body, its step and its test.
sc_loop(p) ==
    /\ i' = [i EXCEPT ![p] = @ + 2]
    /\ spc' = [spc EXCEPT ![p] =
                IF i[p] + 2 > LastNumber THEN "done"
                ELSE IF p = "odd" THEN "prints" ELSE "waits"]

sc_after_wait(p) ==
    IF p = "odd" THEN sc_loop(p)
    ELSE spc' = [spc EXCEPT ![p] = "prints"] /\ UNCHANGED i

\* sema_wait: the permit is taken on credit.
sema_wait(p) ==
    /\ spc[p] = "waits"
    /\ permit_counter' = [permit_counter EXCEPT ![p] = @ - 1]
    /\ IF permit_counter[p] - 1 < 0
       THEN /\ sema_asleep' = sema_asleep \cup {p}
            /\ spc' = [spc EXCEPT ![p] = "woken"] /\ UNCHANGED i
       ELSE sc_after_wait(p) /\ UNCHANGED sema_asleep
    /\ UNCHANGED printed

sema_woken(p) ==
    /\ spc[p] = "woken" /\ p \notin sema_asleep
    /\ sc_after_wait(p)
    /\ UNCHANGED <<permit_counter, sema_asleep, printed>>

\* Slip: the counter is looked at after it was incremented.
sema_post_tests_late(p) ==
    /\ spc[p] = "posts"
    /\ permit_counter' = [permit_counter EXCEPT ![Other(p)] = @ + 1]
    /\ sema_asleep' = IF permit_counter[Other(p)] + 1 < 0
                      THEN sema_asleep \ {Other(p)} ELSE sema_asleep
    /\ IF p = "odd"
       THEN spc' = [spc EXCEPT ![p] = "waits"] /\ UNCHANGED i
       ELSE sc_loop(p)
    /\ UNCHANGED printed

\* sema_post: the wake-up is sent when the counter shows a thread on credit.
sema_post(p) ==
    /\ spc[p] = "posts"
    /\ permit_counter' = [permit_counter EXCEPT ![Other(p)] = @ + 1]
    /\ sema_asleep' = IF permit_counter[Other(p)] < 0
                      THEN sema_asleep \ {Other(p)} ELSE sema_asleep
    /\ IF p = "odd"
       THEN spc' = [spc EXCEPT ![p] = "waits"] /\ UNCHANGED i
       ELSE sc_loop(p)
    /\ UNCHANGED printed

sc_print(p) ==
    /\ spc[p] = "prints"
    /\ printed' = [count |-> printed.count + 1, last |-> i[p]]
    /\ spc' = [spc EXCEPT ![p] = "posts"]
    /\ UNCHANGED <<permit_counter, sema_asleep, i>>

ScNext == \E p \in Parties : sema_wait(p) \/ sema_woken(p) \/ sema_post(p) \/ sc_print(p)

ScSpec == ScInit /\ [][ScNext]_scVars

\* A thread that can run does.
ScFairness == WF_scVars(ScNext)

----------------------------------------------------------------------------

\* Every sleeper is on credit, so that a post can see it, and the numbers come out
\* in order, none twice and none left out.
ScInOrder ==
    /\ \A p \in sema_asleep : permit_counter[p] < 0
    /\ printed.last = printed.count

\* They do so all along, until the last one is printed.
ScPrintsAll == []ScInOrder /\ <>(printed.count = LastNumber)
==============================================================================
