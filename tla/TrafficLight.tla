----------------------------- MODULE TrafficLight -----------------------------
(***************************************************************************)
(* The traffic light of the course: cars test their light and sleep on the *)
(* wait queue of their direction while it is red; a menu sets the lights   *)
(* and wakes the queue of a direction that turns green.  The menu works    *)
(* under the mutex of the direction, the cars, whatever their direction,   *)
(* under the mutex of the first one, EAST.                                 *)
(***************************************************************************)
EXTENDS Naturals

CONSTANTS EastCars, WestCars

ASSUME TrafficAssumption == {"menu", "nobody"} \cap (EastCars \cup WestCars) = {}

Cars == EastCars \cup WestCars
Directions == {"EAST", "WEST"}      \* those that have cars
Colours == {"RED", "YELLOW", "GREEN"}

VARIABLES light,      \* light[d]: the colour that is on, at first "OFF"
          face_mutex, \* who holds the mutex of EAST: a car, "menu" or "nobody"
          to_wake,    \* the direction whose queue the menu is about to wake, or "NONE"
          tl_at       \* "road", "stopped", "asleep", "woken" or "moving"

tlVars == <<light, face_mutex, to_wake, tl_at>>

dirn(c) == IF c \in EastCars THEN "EAST" ELSE "WEST"

tr_light_init == light = [d \in Directions |-> "OFF"]

\* main.
TlInit == /\ tr_light_init
          /\ face_mutex = "nobody" /\ to_wake = "NONE"
          /\ tl_at = [c \in Cars |-> "road"]

-----------------------------------------------------------------------------
\* The predicate of the wait queue, which takes the mutex and keeps it: for the
\* first test and, after a wake-up has brought the mutex back, for the next.
thread_block_on_tr_light(c) ==
    /\ tl_at[c] \in {"road", "woken"} /\ face_mutex = "nobody"
    /\ face_mutex' = c
    /\ tl_at' = [tl_at EXCEPT ![c] = IF light[dirn(c)] = "RED" THEN "stopped" ELSE "moving"]
    /\ UNCHANGED <<light, to_wake>>

\* wait_queue_test_and_wait: who has to stop goes to sleep, which frees the mutex.
tl_wait(c) ==
    /\ tl_at[c] = "stopped"
    /\ tl_at' = [tl_at EXCEPT ![c] = "asleep"]
    /\ face_mutex' = "nobody"
    /\ UNCHANGED <<light, to_wake>>

tl_spurious_wakeup(c) ==
    /\ tl_at[c] = "asleep"
    /\ tl_at' = [tl_at EXCEPT ![c] = "woken"]
    /\ UNCHANGED <<light, face_mutex, to_wake>>

\* thread_move: test, write to the log, leave the critical section, drive on.
thread_move(c) ==
    \/ thread_block_on_tr_light(c)
    \/ tl_wait(c)
    \/ /\ tl_at[c] = "moving"
       /\ tl_at' = [tl_at EXCEPT ![c] = "road"]
       /\ face_mutex' = "nobody"
       /\ UNCHANGED <<light, to_wake>>

\* Slip: the menu sets a light without taking its mutex.
tl_set_unlocked(d, col) ==
    /\ to_wake = "NONE"
    /\ light' = [light EXCEPT ![d] = col]
    /\ to_wake' = IF col = "GREEN" THEN d ELSE "NONE"
    /\ UNCHANGED <<face_mutex, tl_at>>

\* user_menu: take the direction's mutex and set its light; a light that turns
\* green has its queue woken before the mutex is given back.
tl_set(d, col) ==
    /\ to_wake = "NONE"
    /\ d = "EAST" => face_mutex = "nobody"
    /\ light' = [light EXCEPT ![d] = col]
    /\ IF col = "GREEN"
       THEN /\ to_wake' = d
            /\ face_mutex' = IF d = "EAST" THEN "menu" ELSE face_mutex
       ELSE UNCHANGED <<to_wake, face_mutex>>
    /\ UNCHANGED tl_at

tl_broadcast ==
    /\ to_wake # "NONE"
    /\ tl_at' = [c \in Cars |-> IF tl_at[c] = "asleep" /\ dirn(c) = to_wake
                                THEN "woken" ELSE tl_at[c]]
    /\ face_mutex' = IF face_mutex = "menu" THEN "nobody" ELSE face_mutex
    /\ to_wake' = "NONE"
    /\ UNCHANGED light

user_menu == \/ \E d \in Directions, col \in Colours : tl_set(d, col)
             \/ tl_broadcast

TlNext == user_menu \/ \E c \in Cars : thread_move(c) \/ tl_spurious_wakeup(c)

TlSpec == TlInit /\ [][TlNext]_tlVars

-----------------------------------------------------------------------------
TlNoneSleepsAtGreen(S) ==
    \A c \in S : tl_at[c] = "asleep" /\ light[dirn(c)] = "GREEN" => to_wake = dirn(c)

\* A car from the east does not sleep through its green light: between its test
\* and its sleep the menu cannot turn the light, for both hold the same mutex.
TlEastWakesOnGreen == TlNoneSleepsAtGreen(EastCars)

==============================================================================
