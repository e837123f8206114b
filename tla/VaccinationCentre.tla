--------------------------- MODULE VaccinationCentre ---------------------------
(***************************************************************************)
(* The vaccination centre: a monitor for classes of citizens, each class   *)
(* with a capacity, a waiting list and a condition variable of its own.    *)
(* Who leaves takes the next citizen off the lists, its own class first,   *)
(* and signals the condition variable of that citizen's class; which of    *)
(* the sleepers wakes is up to the condition variable.  What happens under *)
(* state_mutex is one step.                                                *)
(***************************************************************************)
EXTENDS Integers, FiniteSets, SequencesExt

CONSTANTS Citizens,
          Ages,           \* bound: the ages considered
          MaxCapacity     \* bound: the capacities considered for each class

ASSUME CentreAssumption == /\ IsFiniteSet(Citizens) /\ Ages \subseteq 0 .. 255
                           /\ MaxCapacity \in Nat \ {0}

\* The classes in their order, which also is the order of the search.
CitizenTypes == <<"TEENAGER", "ADULT", "SR_ADULT", "OLD">>

citizen_type(a) == CASE a \in 13 .. 19 -> 1
                     [] a \in 20 .. 35 -> 2
                     [] a \in 36 .. 60 -> 3
                     [] OTHER -> 4

VARIABLES age, max_allowed, current, waiting_list, is_vaccinated,
          vc_at     \* "outside", "asleep", "awake" (signalled), "inside" or "gone"

vcConf == <<age, max_allowed>>
vcVars == <<vcConf, current, waiting_list, is_vaccinated, vc_at>>

Type(c) == citizen_type(age[c])
VcAt(place, k) == {c \in Citizens : vc_at[c] = place /\ Type(c) = k}

\* Covid_Center_init, and Covid_Center_Set_Capacity with one limit for all.
Covid_Center_init == /\ current = [k \in DOMAIN CitizenTypes |-> 0]
                     /\ waiting_list = [k \in DOMAIN CitizenTypes |-> <<>>]
Covid_Center_Set_Capacity(limit) == max_allowed = [k \in DOMAIN CitizenTypes |-> limit]

\* main, with more citizens than its three.
VcInit == /\ Covid_Center_init
          /\ \E limit \in 1 .. MaxCapacity : Covid_Center_Set_Capacity(limit)
          /\ age \in [Citizens -> Ages]
          /\ is_vaccinated = [c \in Citizens |-> FALSE]
          /\ vc_at = [c \in Citizens |-> "outside"]

-----------------------------------------------------------------------------
\* Enter_Covid_Vaccination_Center: a citizen is put into the list also when
\* there is room for it, and takes itself off when it goes in.
Enter_Covid_Vaccination_Center(c) ==
    LET k == Type(c)
        listed == IF vc_at[c] = "outside" THEN Append(waiting_list[k], c) ELSE waiting_list[k]
    IN /\ vc_at[c] \in {"outside", "awake"}
       /\ IF max_allowed[k] = current[k]
          THEN /\ vc_at' = [vc_at EXCEPT ![c] = "asleep"]
               /\ waiting_list' = [waiting_list EXCEPT ![k] = listed]
               /\ UNCHANGED current
          ELSE /\ vc_at' = [vc_at EXCEPT ![c] = "inside"]
               /\ waiting_list' = [waiting_list EXCEPT ![k] = RemoveFirst(listed, c)]
               /\ current' = [current EXCEPT ![k] = @ + 1]
       /\ UNCHANGED <<vcConf, is_vaccinated>>

Citizen_Apply_Vaccine(c) ==
    /\ vc_at[c] = "inside" /\ ~is_vaccinated[c]
    /\ is_vaccinated' = [is_vaccinated EXCEPT ![c] = TRUE]
    /\ UNCHANGED <<vcConf, current, waiting_list, vc_at>>

\* Slip: the search begins with the next class.
next_citizen_of_others(k) ==
    LET later(i) == ((k + i) % 4) + 1
    IN later(CHOOSE i \in 0 .. 3 : /\ waiting_list[later(i)] # <<>>
                                   /\ \A j \in 0 .. i - 1 : waiting_list[later(j)] = <<>>)

\* The class default_next_citizen takes a citizen from when one of class k
\* leaves: the first one, from k on and going round, whose list is not empty.
default_next_citizen(k) ==
    LET later(i) == ((k - 1 + i) % 4) + 1
    IN later(CHOOSE i \in 0 .. 3 : /\ waiting_list[later(i)] # <<>>
                                   /\ \A j \in 0 .. i - 1 : waiting_list[later(j)] = <<>>)

Exit_Covid_Vaccination_Center(c) ==
    LET k == Type(c)
        left == [vc_at EXCEPT ![c] = "gone"]
    IN /\ vc_at[c] = "inside" /\ is_vaccinated[c]
       /\ current' = [current EXCEPT ![k] = @ - 1]
       /\ IF \A j \in DOMAIN CitizenTypes : waiting_list[j] = <<>>
          THEN vc_at' = left /\ UNCHANGED waiting_list
          ELSE LET n == default_next_citizen(k)
               IN /\ waiting_list' = [waiting_list EXCEPT ![n] = Tail(@)]
                  /\ IF VcAt("asleep", n) = {} THEN vc_at' = left
                     ELSE \E s \in VcAt("asleep", n) : vc_at' = [left EXCEPT ![s] = "awake"]
       /\ UNCHANGED <<vcConf, is_vaccinated>>

\* A wake-up without a signal.
VcSpuriousWakeup(c) ==
    /\ vc_at[c] = "asleep"
    /\ vc_at' = [vc_at EXCEPT ![c] = "awake"]
    /\ UNCHANGED <<vcConf, current, waiting_list, is_vaccinated>>

vaccination_drive(c) == \/ Enter_Covid_Vaccination_Center(c)
                        \/ Citizen_Apply_Vaccine(c)
                        \/ Exit_Covid_Vaccination_Center(c)

VcNext == \E c \in Citizens : vaccination_drive(c) \/ VcSpuriousWakeup(c)

VcSpec == VcInit /\ [][VcNext]_vcVars

-----------------------------------------------------------------------------
\* A citizen that sleeps and still is in its list is not forgotten: its class
\* is full, and the one who leaves will look there first, or one of its class
\* is awake and will take the seat and leave it in turn.
VcListedIsRemembered ==
    \A k \in DOMAIN CitizenTypes : \A c \in ToSet(waiting_list[k]) :
        vc_at[c] = "asleep" =>
            current[k] = max_allowed[k] \/ VcAt("awake", k) # {}

==============================================================================
