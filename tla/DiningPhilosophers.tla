-------------------------- MODULE DiningPhilosophers --------------------------
(***************************************************************************)
(* The dining philosophers of references/DiningPhilosopherProblem: each    *)
(* spoon has a mutex and a condition variable of its own.  A philosopher   *)
(* takes the left spoon, sleeping for it if need be, then tries the right  *)
(* one, and gives the left one back when the right one is taken.           *)
(* Between its steps a philosopher holds at most two of the mutexes; what  *)
(* happens under a mutex that needs no other one is a single action.       *)
(***************************************************************************)
EXTENDS Integers

CONSTANT N    \* philosophers and spoons: N_PHILOSOPHER

ASSUME DiningAssumption == N \in Nat \ {0, 1}

Philosophers == 0 .. N - 1
Spoons == 0 .. N - 1
Nobody == -1

VARIABLES spoon_user,    \* who uses each spoon: is_used and phil
          spoon_mutex,   \* who holds the mutex of each spoon
          ph             \* where each philosopher is

phVars == <<spoon_user, spoon_mutex, ph>>

phil_get_left_spoon(p) == p
phil_get_right_spoon(p) == IF p = 0 THEN N - 1 ELSE p - 1

PhInit == /\ spoon_user = [s \in Spoons |-> Nobody]
          /\ spoon_mutex = [s \in Spoons |-> Nobody]
          /\ ph = [p \in Philosophers |-> "takes left"]

Unlocked(s) == spoon_mutex[s] = Nobody

\* The left spoon is grabbed, or waited for; after a wake-up the mutex is locked
\* and the spoon looked at as before.
ph_take_left(p) ==
    LET left == phil_get_left_spoon(p)
    IN  /\ ph[p] \in {"takes left", "awake"} /\ Unlocked(left)
        /\ \/ /\ spoon_user[left] \notin {Nobody, p}
              /\ ph' = [ph EXCEPT ![p] = "asleep"]
              /\ UNCHANGED spoon_user
           \/ /\ spoon_user[left] \in {Nobody, p}
              /\ spoon_user' = [spoon_user EXCEPT ![left] = p]
              /\ ph' = [ph EXCEPT ![p] = "tries right"]
        /\ UNCHANGED spoon_mutex

\* The right spoon is taken without a wait; when it is in use its mutex is kept.
ph_try_right(p) ==
    LET right == phil_get_right_spoon(p)
    IN  /\ ph[p] = "tries right" /\ Unlocked(right)
        /\ \/ /\ spoon_user[right] \in {Nobody, p}
              /\ spoon_user' = [spoon_user EXCEPT ![right] = p]
              /\ ph' = [ph EXCEPT ![p] = "eats"]
              /\ UNCHANGED spoon_mutex
           \/ /\ spoon_user[right] \notin {Nobody, p}
              /\ spoon_mutex' = [spoon_mutex EXCEPT ![right] = p]
              /\ ph' = [ph EXCEPT ![p] = "gives up"]
              /\ UNCHANGED spoon_user

\* The left spoon is given back, under the mutex of the right one too, and
\* without a signal.
ph_give_up(p) ==
    LET left == phil_get_left_spoon(p)
    IN  /\ ph[p] = "gives up" /\ Unlocked(left)
        /\ spoon_user' = [spoon_user EXCEPT ![left] = Nobody]
        /\ spoon_mutex' = [spoon_mutex EXCEPT ![phil_get_right_spoon(p)] = Nobody]
        /\ ph' = [ph EXCEPT ![p] = "takes left"]

\* phil_eat, and the first lock of philosopher_release_both_spoons.
ph_lock_left(p) ==
    LET left == phil_get_left_spoon(p)
    IN  /\ ph[p] = "eats" /\ Unlocked(left)
        /\ spoon_mutex' = [spoon_mutex EXCEPT ![left] = p]
        /\ ph' = [ph EXCEPT ![p] = "puts left"]
        /\ UNCHANGED spoon_user

\* A signal for spoon s wakes one of those asleep on it; only the philosopher on
\* whose left it lies ever sleeps there.
Sleepers(s) == {q \in Philosophers : ph[q] = "asleep" /\ phil_get_left_spoon(q) = s}

ph_signal(p, s, next) ==
    \/ /\ Sleepers(s) = {} /\ ph' = [ph EXCEPT ![p] = next]
    \/ \E q \in Sleepers(s) : ph' = [ph EXCEPT ![p] = next, ![q] = "awake"]

ph_put_left(p) ==
    LET left == phil_get_left_spoon(p)
        right == phil_get_right_spoon(p)
    IN  /\ ph[p] = "puts left" /\ Unlocked(right)
        /\ spoon_user' = [spoon_user EXCEPT ![left] = Nobody]
        /\ spoon_mutex' = [spoon_mutex EXCEPT ![left] = Nobody, ![right] = p]
        /\ ph_signal(p, left, "puts right")

\* Slip: only the spoon on the left is signalled for.
ph_put_right_unsignalled(p) ==
    LET right == phil_get_right_spoon(p)
    IN  /\ ph[p] = "puts right"
        /\ spoon_user' = [spoon_user EXCEPT ![right] = Nobody]
        /\ spoon_mutex' = [spoon_mutex EXCEPT ![right] = Nobody]
        /\ ph_signal(p, phil_get_left_spoon(p), "takes left")

ph_put_right(p) ==
    LET right == phil_get_right_spoon(p)
    IN  /\ ph[p] = "puts right"
        /\ spoon_user' = [spoon_user EXCEPT ![right] = Nobody]
        /\ spoon_mutex' = [spoon_mutex EXCEPT ![right] = Nobody]
        /\ ph_signal(p, right, "takes left")

ph_spurious_wakeup(p) ==
    /\ ph[p] = "asleep"
    /\ ph' = [ph EXCEPT ![p] = "awake"]
    /\ UNCHANGED <<spoon_user, spoon_mutex>>

philosopher_fn(p) ==
    \/ ph_take_left(p) \/ ph_try_right(p) \/ ph_give_up(p)
    \/ ph_lock_left(p) \/ ph_put_left(p) \/ ph_put_right(p)

PhNext == \E p \in Philosophers : philosopher_fn(p) \/ ph_spurious_wakeup(p)

PhSpec == PhInit /\ [][PhNext]_phVars

\* Even a philosopher who gets every mutex that is free again and again, which
\* is more than pthreads promises.
PhFairness == \A p \in Philosophers : SF_phVars(philosopher_fn(p))

PhFairSpec == PhSpec /\ PhFairness

----------------------------------------------------------------------------

\* The assertions of phil_eat, philosopher_release_both_spoons and of the way
\* back after a failed attempt: a philosopher has the spoons it thinks it has, and
\* none besides, although it puts them down and looks at them one at a time.
PhHasItsSpoons ==
    \A p \in Philosophers, s \in Spoons :
        spoon_user[s] = p <=>
            \/ /\ s = phil_get_left_spoon(p)
               /\ ph[p] \in {"tries right", "gives up", "eats", "puts left"}
            \/ /\ s = phil_get_right_spoon(p)
               /\ ph[p] \in {"eats", "puts left", "puts right"}

\* Who gives a spoon back after a failed attempt signals nobody, and still nobody
\* sleeps for a free spoon: it is in the hand of a philosopher who will signal.
PhSleeperIsOwedASignal ==
    \A p \in Philosophers : ph[p] = "asleep" =>
        \E q \in Philosophers \ {p} :
            /\ spoon_user[phil_get_left_spoon(p)] = q
            /\ phil_get_right_spoon(q) = phil_get_left_spoon(p)
            /\ ph[q] \in {"eats", "puts left", "puts right"}

\* What the messages of a failed attempt say: a philosopher who finds the right
\* spoon in use releases the left one as well.
PhReleasesTheLeft ==
    \A p \in Philosophers : ph[p] = "gives up" ~> ph[p] = "takes left"
==============================================================================
