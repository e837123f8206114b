--------------------------- MODULE ProgramsProofs --------------------------
(***************************************************************************)
(* The programs of the repository, for any number of their threads: who    *)
(* dines has its spoons and who sleeps there is owed a signal; the lists   *)
(* of threadlib and of the CRUD programs keep their links and their counts; *)
(* a cancelled thread leaves nothing behind; and whoever sleeps, in the    *)
(* monitor, at the vaccination centre or at the traffic light, is          *)
(* remembered; and the subscribers of the routing tables are kept up to    *)
(* date.  Each program has its own invariant, which a step of another      *)
(* program does not touch.                                                 *)
(***************************************************************************)
EXTENDS MCPrograms, MonitorProofs, ListProofs

----------------------------------------------------------------------------
(* The dining philosophers. *)

Places == {"takes left", "asleep", "awake", "tries right", "gives up",
           "eats", "puts left", "puts right"}

PhTyped == /\ spoon_user \in [Spoons -> Philosophers \cup {Nobody}]
           /\ spoon_mutex \in [Spoons -> Philosophers \cup {Nobody}]
           /\ ph \in [Philosophers -> Places]

\* The two spoons of a philosopher are different ones, and no two philosophers
\* have the same one on the same side.
LEMMA SpoonsOfAPhilosopher ==
    ASSUME NEW p \in Philosophers
    PROVE  /\ phil_get_left_spoon(p) \in Spoons
           /\ phil_get_right_spoon(p) \in Spoons
           /\ phil_get_left_spoon(p) # phil_get_right_spoon(p)
           /\ \A q \in Philosophers :
                /\ phil_get_left_spoon(q) = phil_get_left_spoon(p) => q = p
                /\ phil_get_right_spoon(q) = phil_get_right_spoon(p) => q = p
BY DiningAssumption DEF Philosophers, Spoons, phil_get_left_spoon, phil_get_right_spoon

\* A signal changes the place of the philosopher who gives it, and wakes at most
\* one other, who sleeps on the spoon signalled for.
LEMMA SignalWakes ==
    ASSUME NEW p \in Philosophers, NEW s \in Spoons, NEW next \in Places,
           PhTyped, ph[p] # "asleep", ph_signal(p, s, next)
    PROVE  /\ ph' \in [Philosophers -> Places]
           /\ ph'[p] = next
           /\ \A q \in Philosophers \ {p} :
                \/ ph'[q] = ph[q]
                \/ ph[q] = "asleep" /\ ph'[q] = "awake" /\ phil_get_left_spoon(q) = s
           /\ \A q \in Philosophers \ {p} :
                ph[q] = "asleep" /\ phil_get_left_spoon(q) = s => ph'[q] = "awake"
<1>1. CASE Sleepers(s) = {} /\ ph' = [ph EXCEPT ![p] = next]
  BY <1>1 DEF PhTyped, Sleepers, Places
<1>2. ASSUME NEW q \in Sleepers(s), ph' = [ph EXCEPT ![p] = next, ![q] = "awake"]
      PROVE  /\ ph' \in [Philosophers -> Places]
             /\ ph'[p] = next
             /\ \A r \in Philosophers \ {p} :
                  \/ ph'[r] = ph[r]
                  \/ ph[r] = "asleep" /\ ph'[r] = "awake" /\ phil_get_left_spoon(r) = s
             /\ \A r \in Philosophers \ {p} :
                  ph[r] = "asleep" /\ phil_get_left_spoon(r) = s => ph'[r] = "awake"
  <2>1. q \in Philosophers /\ q # p /\ ph[q] = "asleep" /\ phil_get_left_spoon(q) = s
    BY <1>2 DEF Sleepers
  <2>2. \A r \in Philosophers : phil_get_left_spoon(r) = s => r = q
    BY <2>1 DEF phil_get_left_spoon
  <2> QED BY <1>2, <2>1, <2>2 DEF PhTyped, Places
<1> QED BY <1>1, <1>2 DEF ph_signal

PhInv == PhTyped /\ PhHasItsSpoons

\* A freshly laid table satisfies the inductive invariant.
LEMMA PhInit_PhInv == PhInit => PhInv
<1> SUFFICES ASSUME PhInit PROVE PhInv
  OBVIOUS
<1>1. PhTyped
  BY DEF PhInit, PhTyped, Places
<1>2. ASSUME NEW p \in Philosophers, NEW s \in Spoons
      PROVE  spoon_user[s] # p /\ ph[p] = "takes left"
  <2>1. p # Nobody
    BY DEF Philosophers, Nobody
  <2> QED BY <2>1 DEF PhInit
<1>3. PhHasItsSpoons
  BY <1>2 DEF PhHasItsSpoons
<1> QED BY <1>1, <1>3 DEF PhInv

\* The spoons a philosopher has at a place.
Has(place, q, s) ==
    \/ /\ s = phil_get_left_spoon(q)
       /\ place \in {"tries right", "gives up", "eats", "puts left"}
    \/ /\ s = phil_get_right_spoon(q)
       /\ place \in {"eats", "puts left", "puts right"}

\* A step in which p takes or gives back only spoons that are free or its own, and
\* the others stay at places where they have the same spoons, needs to be looked
\* at for p alone.
LEMMA OnlyItsOwnSpoons ==
    ASSUME NEW p \in Philosophers, PhHasItsSpoons,
           \A s \in Spoons : \/ spoon_user'[s] = spoon_user[s]
                             \/ /\ spoon_user[s] \in {Nobody, p}
                                /\ spoon_user'[s] \in {Nobody, p},
           \A q \in Philosophers \ {p}, s \in Spoons :
               Has(ph'[q], q, s) <=> Has(ph[q], q, s),
           \A s \in Spoons : spoon_user'[s] = p <=> Has(ph'[p], p, s)
    PROVE  PhHasItsSpoons'
<1>1. SUFFICES ASSUME NEW q \in Philosophers, NEW s \in Spoons
               PROVE  spoon_user'[s] = q <=> Has(ph'[q], q, s)
  BY DEF PhHasItsSpoons, Has, phil_get_left_spoon, phil_get_right_spoon
<1>2. spoon_user[s] = q <=> Has(ph[q], q, s)
  BY DEF PhHasItsSpoons, Has
<1>3. q # Nobody
  BY DEF Philosophers, Nobody
<1>4. CASE q = p
  BY <1>4
<1>5. CASE q # p
  BY <1>2, <1>3, <1>5
<1> QED BY <1>4, <1>5

\* Every step keeps it.
LEMMA PhNext_PhInv == PhInv /\ [PhNext]_phVars => PhInv'
<1> SUFFICES ASSUME PhInv, [PhNext]_phVars PROVE PhInv'
  OBVIOUS
<1> USE DEF PhInv
<1>u. CASE UNCHANGED phVars
  BY <1>u DEF phVars, PhTyped, PhHasItsSpoons
<1>n. ASSUME NEW p \in Philosophers, philosopher_fn(p) \/ ph_spurious_wakeup(p)
      PROVE  PhInv'
  <2> DEFINE left_spoon == phil_get_left_spoon(p)
             right_spoon == phil_get_right_spoon(p)
  <2>s. left_spoon \in Spoons /\ right_spoon \in Spoons /\ left_spoon # right_spoon
    BY SpoonsOfAPhilosopher
  <2>n. p # Nobody
    BY DEF Nobody, Philosophers
  <2>h. \A s \in Spoons : spoon_user[s] = p <=> Has(ph[p], p, s)
    BY DEF PhHasItsSpoons, Has
  <2>p. \A place : \A s : Has(place, p, s) <=>
            \/ s = left_spoon /\ place \in {"tries right", "gives up", "eats", "puts left"}
            \/ s = right_spoon /\ place \in {"eats", "puts left", "puts right"}
    BY DEF Has
  <2>w. \A q : \A s : ~Has("asleep", q, s) /\ ~Has("awake", q, s) /\ ~Has("takes left", q, s)
    BY DEF Has
  <2> HIDE DEF left_spoon, right_spoon
  <2>1. CASE ph_take_left(p)
    <3>1. CASE spoon_user[left_spoon] \notin {Nobody, p}
      <4>1. /\ ph[p] \in {"takes left", "awake"} /\ ph' = [ph EXCEPT ![p] = "asleep"]
            /\ UNCHANGED <<spoon_user, spoon_mutex>>
        BY <2>1, <3>1 DEF ph_take_left, left_spoon
      <4>2. PhTyped'
        BY <4>1 DEF PhTyped, Places
      <4>3. \A s \in Spoons : spoon_user'[s] = p <=> Has(ph'[p], p, s)
        BY <4>1, <2>h DEF PhTyped, Has
      <4>4. \A q \in Philosophers \ {p} : ph'[q] = ph[q]
        BY <4>1 DEF PhTyped
      <4> QED BY <4>1, <4>2, <4>3, <4>4, OnlyItsOwnSpoons
    <3>2. CASE spoon_user[left_spoon] \in {Nobody, p}
      <4>1. /\ ph[p] \in {"takes left", "awake"} /\ ph' = [ph EXCEPT ![p] = "tries right"]
            /\ spoon_user' = [spoon_user EXCEPT ![left_spoon] = p] /\ UNCHANGED spoon_mutex
        BY <2>1, <3>2 DEF ph_take_left, left_spoon
      <4>2. PhTyped'
        BY <4>1 DEF PhTyped, Places
      <4>3. \A s \in Spoons : spoon_user'[s] = p <=> Has(ph'[p], p, s)
        BY <4>1, <2>s, <2>h DEF PhTyped, Has, left_spoon, right_spoon
      <4> QED BY <3>2, <4>1, <4>2, <4>3, <2>s, OnlyItsOwnSpoons DEF PhTyped
    <3> QED BY <3>1, <3>2
  <2>2. CASE ph_try_right(p)
    <3>1. CASE spoon_user[right_spoon] \in {Nobody, p}
      <4>1. /\ ph[p] = "tries right" /\ ph' = [ph EXCEPT ![p] = "eats"]
            /\ spoon_user' = [spoon_user EXCEPT ![right_spoon] = p] /\ UNCHANGED spoon_mutex
        BY <2>2, <3>1 DEF ph_try_right, right_spoon
      <4>2. PhTyped'
        BY <4>1 DEF PhTyped, Places
      <4>3. \A s \in Spoons : spoon_user'[s] = p <=> Has(ph'[p], p, s)
        BY <4>1, <2>s, <2>h DEF PhTyped, Has, left_spoon, right_spoon
      <4> QED BY <3>1, <4>1, <4>2, <4>3, <2>s, OnlyItsOwnSpoons DEF PhTyped
    <3>2. CASE spoon_user[right_spoon] \notin {Nobody, p}
      <4>1. /\ ph[p] = "tries right" /\ ph' = [ph EXCEPT ![p] = "gives up"]
            /\ spoon_mutex' = [spoon_mutex EXCEPT ![right_spoon] = p] /\ UNCHANGED spoon_user
        BY <2>2, <3>2 DEF ph_try_right, right_spoon
      <4>2. PhTyped'
        BY <4>1 DEF PhTyped, Places
      <4>3. \A s \in Spoons : spoon_user'[s] = p <=> Has(ph'[p], p, s)
        BY <4>1, <2>h DEF PhTyped, Has, left_spoon, right_spoon
      <4> QED BY <4>1, <4>2, <4>3, OnlyItsOwnSpoons DEF PhTyped
    <3> QED BY <3>1, <3>2
  <2>3. CASE ph_give_up(p)
    <3>1. /\ ph[p] = "gives up" /\ ph' = [ph EXCEPT ![p] = "takes left"]
          /\ spoon_user' = [spoon_user EXCEPT ![left_spoon] = Nobody]
          /\ spoon_mutex' = [spoon_mutex EXCEPT ![right_spoon] = Nobody]
      BY <2>3 DEF ph_give_up, left_spoon, right_spoon
    <3>2. PhTyped'
      BY <3>1 DEF PhTyped, Places
    <3>3. spoon_user[left_spoon] = p
      BY <3>1, <2>s, <2>h, <2>p
    <3>4. \A s \in Spoons : spoon_user'[s] = p <=> Has(ph'[p], p, s)
      BY <3>1, <2>s, <2>n, <2>h, <2>p, <2>w DEF PhTyped
    <3> QED BY <3>1, <3>2, <3>3, <3>4, <2>s, OnlyItsOwnSpoons DEF PhTyped
  <2>4. CASE ph_lock_left(p)
    <3>1. /\ ph[p] = "eats" /\ ph' = [ph EXCEPT ![p] = "puts left"]
          /\ spoon_mutex' = [spoon_mutex EXCEPT ![left_spoon] = p] /\ UNCHANGED spoon_user
      BY <2>4 DEF ph_lock_left, left_spoon
    <3>2. PhTyped'
      BY <3>1 DEF PhTyped, Places
    <3>3. \A s \in Spoons : spoon_user'[s] = p <=> Has(ph'[p], p, s)
      BY <3>1, <2>h DEF PhTyped, Has, left_spoon, right_spoon
    <3> QED BY <3>1, <3>2, <3>3, OnlyItsOwnSpoons DEF PhTyped
  <2>5. CASE ph_put_left(p)
    <3>1. /\ ph' \in [Philosophers -> Places] /\ ph'[p] = "puts right"
          /\ \A q \in Philosophers \ {p} :
               ph'[q] = ph[q] \/ (ph[q] = "asleep" /\ ph'[q] = "awake")
      BY <2>5, <2>s, SignalWakes DEF ph_put_left, left_spoon, Places
    <3>2. /\ ph[p] = "puts left"
          /\ spoon_user' = [spoon_user EXCEPT ![left_spoon] = Nobody]
          /\ spoon_user' \in [Spoons -> Philosophers \cup {Nobody}]
          /\ spoon_mutex' \in [Spoons -> Philosophers \cup {Nobody}]
      BY <2>5, <2>s DEF ph_put_left, PhTyped, left_spoon, right_spoon
    <3>3. spoon_user[left_spoon] = p
      BY <3>2, <2>s, <2>h, <2>p
    <3>4. \A s \in Spoons : spoon_user'[s] = p <=> Has(ph'[p], p, s)
      BY <3>1, <3>2, <2>s, <2>n, <2>h DEF PhTyped, Has, left_spoon, right_spoon
    <3>5. \A q \in Philosophers \ {p}, s \in Spoons : Has(ph'[q], q, s) <=> Has(ph[q], q, s)
      BY <3>1, <2>w
    <3>6. PhTyped'
      BY <3>1, <3>2 DEF PhTyped
    <3>7. PhHasItsSpoons'
      BY <3>2, <3>3, <3>4, <3>5, <2>s, OnlyItsOwnSpoons DEF PhTyped
    <3> QED BY <3>6, <3>7
  <2>6. CASE ph_put_right(p)
    <3>1. /\ ph' \in [Philosophers -> Places] /\ ph'[p] = "takes left"
          /\ \A q \in Philosophers \ {p} :
               ph'[q] = ph[q] \/ (ph[q] = "asleep" /\ ph'[q] = "awake")
      BY <2>6, <2>s, SignalWakes DEF ph_put_right, right_spoon, Places
    <3>2. /\ ph[p] = "puts right"
          /\ spoon_user' = [spoon_user EXCEPT ![right_spoon] = Nobody]
          /\ spoon_user' \in [Spoons -> Philosophers \cup {Nobody}]
          /\ spoon_mutex' \in [Spoons -> Philosophers \cup {Nobody}]
      BY <2>6, <2>s DEF ph_put_right, PhTyped, left_spoon, right_spoon
    <3>3. spoon_user[right_spoon] = p
      BY <3>2, <2>s, <2>h, <2>p
    <3>4. \A s \in Spoons : spoon_user'[s] = p <=> Has(ph'[p], p, s)
      BY <3>1, <3>2, <2>s, <2>n, <2>h, <2>p, <2>w DEF PhTyped
    <3>5. \A q \in Philosophers \ {p}, s \in Spoons : Has(ph'[q], q, s) <=> Has(ph[q], q, s)
      BY <3>1, <2>w
    <3>6. PhTyped'
      BY <3>1, <3>2 DEF PhTyped
    <3>7. PhHasItsSpoons'
      BY <3>2, <3>3, <3>4, <3>5, <2>s, OnlyItsOwnSpoons DEF PhTyped
    <3> QED BY <3>6, <3>7
  <2>7. CASE ph_spurious_wakeup(p)
    <3>1. /\ ph[p] = "asleep" /\ ph' = [ph EXCEPT ![p] = "awake"]
          /\ UNCHANGED <<spoon_user, spoon_mutex>>
      BY <2>7 DEF ph_spurious_wakeup
    <3>2. PhTyped'
      BY <3>1 DEF PhTyped, Places
    <3>3. \A s \in Spoons : spoon_user'[s] = p <=> Has(ph'[p], p, s)
      BY <3>1, <2>h DEF PhTyped, Has
    <3> QED BY <3>1, <3>2, <3>3, <2>w, OnlyItsOwnSpoons DEF PhTyped
  <2> QED BY <1>n, <2>1, <2>2, <2>3, <2>4, <2>5, <2>6, <2>7 DEF philosopher_fn
<1> QED BY <1>u, <1>n DEF PhNext

\* Every philosopher has the spoons the assertions of the code say it has, and
\* none besides.
THEOREM PhSpoonsInHand == PhSpec => []PhHasItsSpoons
<1>1. PhInv => PhHasItsSpoons
  BY DEF PhInv
<1> QED BY PhInit_PhInv, PhNext_PhInv, <1>1, PTL DEF PhSpec

\* A philosopher who falls asleep does so because the one on the other side of the
\* spoon has it in its right hand, and until that one has signalled it keeps it.
LEMMA PhNext_Owed ==
    PhInv /\ PhSleeperIsOwedASignal /\ [PhNext]_phVars => PhSleeperIsOwedASignal'
<1> DEFINE Owes(q, r) == /\ spoon_user[phil_get_left_spoon(r)] = q
                         /\ phil_get_right_spoon(q) = phil_get_left_spoon(r)
                         /\ ph[q] \in {"eats", "puts left", "puts right"}
<1> SUFFICES ASSUME PhInv, PhSleeperIsOwedASignal, [PhNext]_phVars,
                    NEW r \in Philosophers, ph'[r] = "asleep"
             PROVE  \E q \in Philosophers \ {r} : Owes(q, r)'
  BY DEF PhSleeperIsOwedASignal, phil_get_left_spoon, phil_get_right_spoon
<1> USE DEF PhInv
<1>u. CASE UNCHANGED phVars
  BY <1>u DEF phVars, PhSleeperIsOwedASignal
<1>n. ASSUME NEW p \in Philosophers, philosopher_fn(p) \/ ph_spurious_wakeup(p)
      PROVE  \E q \in Philosophers \ {r} : Owes(q, r)'
  <2>r. /\ phil_get_left_spoon(r) \in Spoons
        /\ \A q \in Philosophers : phil_get_left_spoon(q) = phil_get_left_spoon(r) => q = r
    BY SpoonsOfAPhilosopher
  <2>p. /\ phil_get_left_spoon(p) \in Spoons /\ phil_get_right_spoon(p) \in Spoons
        /\ phil_get_left_spoon(p) # phil_get_right_spoon(p)
    BY SpoonsOfAPhilosopher
  <2>1. CASE ph[r] = "asleep"
    <3>1. PICK q \in Philosophers \ {r} : Owes(q, r)
      BY <2>1 DEF PhSleeperIsOwedASignal
    <3>2. q # Nobody
      BY DEF Philosophers, Nobody
    <3>3. CASE ph_take_left(p) \/ ph_give_up(p)
      <4>1. p # r /\ p # q /\ phil_get_left_spoon(p) # phil_get_left_spoon(r)
        BY <2>1, <2>r, <3>1, <3>3 DEF ph_take_left, ph_give_up
      <4> QED BY <2>r, <2>p, <3>1, <3>3, <4>1 DEF ph_take_left, ph_give_up, PhTyped
    <3>4. CASE ph_try_right(p)
      BY <2>r, <2>p, <3>1, <3>2, <3>4 DEF ph_try_right, PhTyped
    <3>5. CASE ph_lock_left(p)
      BY <3>1, <3>5 DEF ph_lock_left, PhTyped
    <3>6. CASE ph_put_left(p)
      <4>1. p # r /\ phil_get_left_spoon(p) # phil_get_left_spoon(r)
        BY <2>1, <2>r, <3>6 DEF ph_put_left
      <4>2. /\ ph'[p] = "puts right"
            /\ q # p => ph'[q] = ph[q]
        BY <2>p, <3>1, <3>6, SignalWakes DEF ph_put_left, Places
      <4> QED BY <2>r, <3>1, <3>6, <4>1, <4>2 DEF ph_put_left, PhTyped
    <3>7. CASE ph_put_right(p)
      <4>0. p # r /\ ph[p] # "asleep" /\ ph_signal(p, phil_get_right_spoon(p), "takes left")
        BY <2>1, <3>7 DEF ph_put_right
      <4>s. /\ \A v \in Philosophers \ {p} :
                 \/ ph'[v] = ph[v]
                 \/ ph[v] = "asleep" /\ ph'[v] = "awake"
            /\ \A v \in Philosophers \ {p} :
                 ph[v] = "asleep" /\ phil_get_left_spoon(v) = phil_get_right_spoon(p)
                     => ph'[v] = "awake"
        <5>1. "takes left" \in Places /\ PhTyped
          BY DEF Places
        <5>2. ASSUME NEW s \in Spoons, s = phil_get_right_spoon(p)
              PROVE  /\ \A v \in Philosophers \ {p} :
                          \/ ph'[v] = ph[v]
                          \/ ph[v] = "asleep" /\ ph'[v] = "awake"
                     /\ \A v \in Philosophers \ {p} :
                          ph[v] = "asleep" /\ phil_get_left_spoon(v) = s => ph'[v] = "awake"
          <6>1. ph_signal(p, s, "takes left")
            BY <4>0, <5>2
          <6> QED BY <4>0, <5>1, <6>1, SignalWakes
        <5> QED BY <2>p, <5>2
      <4>1. /\ phil_get_right_spoon(p) # phil_get_left_spoon(r)
            /\ q # p => ph'[q] = ph[q]
        <5>1. phil_get_right_spoon(p) # phil_get_left_spoon(r)
          BY <2>1, <4>0, <4>s
        <5>2. q # p => ph'[q] = ph[q]
          BY <3>1, <4>s
        <5> QED BY <5>1, <5>2
      <4> QED BY <2>r, <3>1, <3>7, <4>1 DEF ph_put_right, PhTyped
    <3>8. CASE ph_spurious_wakeup(p)
      BY <3>1, <3>8 DEF ph_spurious_wakeup, PhTyped
    <3> QED BY <1>n, <3>3, <3>4, <3>5, <3>6, <3>7, <3>8 DEF philosopher_fn
  <2>2. CASE ph[r] # "asleep"
    <3>1. p = r /\ ph_take_left(p) /\ spoon_user[phil_get_left_spoon(p)] \notin {Nobody, p}
      <4>1. CASE ph_put_left(p)
        BY <2>2, <2>p, <4>1, SignalWakes DEF ph_put_left, Places
      <4>2. CASE ph_put_right(p)
        BY <2>2, <2>p, <4>2, SignalWakes DEF ph_put_right, Places
      <4>3. CASE ph_try_right(p) \/ ph_give_up(p) \/ ph_lock_left(p) \/ ph_spurious_wakeup(p)
        BY <2>2, <4>3 DEF ph_try_right, ph_give_up, ph_lock_left, ph_spurious_wakeup, PhTyped
      <4>4. CASE ph_take_left(p)
        BY <2>2, <4>4 DEF ph_take_left, PhTyped
      <4> QED BY <1>n, <4>1, <4>2, <4>3, <4>4 DEF philosopher_fn
    <3>2. PICK q \in Philosophers \ {r} : spoon_user[phil_get_left_spoon(r)] = q
      BY <3>1, <2>r DEF PhTyped
    <3>3. Owes(q, r)
      BY <3>2, <2>r DEF PhHasItsSpoons
    <3> QED BY <3>1, <3>2, <3>3 DEF ph_take_left, PhTyped
  <2> QED BY <2>1, <2>2
<1> QED BY <1>u, <1>n DEF PhNext

\* Nobody sleeps for a spoon that is free, or that will be put down in silence.
THEOREM PhNobodySleepsForNothing == PhSpec => []PhSleeperIsOwedASignal
<1>1. PhInit => PhSleeperIsOwedASignal
  BY DEF PhInit, PhSleeperIsOwedASignal
<1> QED BY PhInit_PhInv, PhNext_PhInv, PhNext_Owed, <1>1, PTL DEF PhSpec

----------------------------------------------------------------------------
(* The CRUD list. *)

\* What the list and the threads know is a student that was allocated, a
\* student is listed once, and one that is being removed is not.
CrudTypeOK ==
    /\ allocated \in 0 .. MaxStudents
    /\ stud_lst \in [RollNos -> 0 .. allocated]
    /\ \A r, q \in RollNos : stud_lst[r] = stud_lst[q] => r = q \/ stud_lst[r] = NoStudent
    /\ freed \subseteq 1 .. allocated
    /\ ref_count \in [Students -> Nat]
    /\ stud \in [CrudThreads -> 0 .. allocated]
    /\ crud_at \in [CrudThreads ->
                      {"idle", "found", "uses", "drops", "destroys", "removed"}]
    /\ \A t \in CrudThreads : crud_at[t] = "idle" <=> stud[t] = NoStudent
    /\ crud_at["creator"] = "idle"
    /\ crud_at["deleter"] = "removed" => ~Listed(stud["deleter"])

\* The list has a reference, also while the deleter has not dropped it yet.
Kept(s) == Listed(s) \/ BeingRemoved(s)
CrudCounts ==
    \A s \in Students : ref_count[s] = Cardinality(InHand(s)) + (IF Kept(s) THEN 1 ELSE 0)

CrudInv == CrudTypeOK /\ CrudCounts /\ CrudUsedIsAlive

\* Only finitely many threads can have a student in hand.
LEMMA CrudHands ==
  ASSUME NEW s
  PROVE  /\ IsFiniteSet(CrudThreads)
         /\ InHand(s) \in SUBSET CrudThreads
         /\ Cardinality(InHand(s)) \in Nat
         /\ Cardinality(InHand(s)) = 0 <=> InHand(s) = {}
<1>1. CrudThreads = ((({} \cup {"reader"}) \cup {"updater"}) \cup {"creator"}) \cup {"deleter"}
  BY DEF CrudThreads, Users
<1>2. IsFiniteSet(CrudThreads)
  BY <1>1, FS_EmptySet, FS_AddElement
<1>3. InHand(s) \in SUBSET CrudThreads
  BY DEF InHand
<1> QED
  BY <1>2, <1>3, CountOfSubset

\* At most the reader, the updater and the deleter have a student in hand.
LEMMA CrudAtMostFour == CrudTypeOK /\ CrudCounts => CrudCountsItsUsers
<1> SUFFICES ASSUME CrudTypeOK, CrudCounts, NEW s \in Students PROVE ref_count[s] <= 4
  BY DEF CrudCounts, CrudCountsItsUsers, Kept
<1> DEFINE Three == (({} \cup {"reader"}) \cup {"updater"}) \cup {"deleter"}
<1>1. InHand(s) \in SUBSET Three
  BY DEF InHand, CrudTypeOK, Students, NoStudent, CrudThreads, Users
<1>2. IsFiniteSet(Three) /\ Cardinality(Three) = 3
  <2>1. IsFiniteSet({}) /\ Cardinality({}) = 0
    BY FS_EmptySet
  <2>2. IsFiniteSet({} \cup {"reader"}) /\ Cardinality({} \cup {"reader"}) = 1
    BY <2>1, FS_AddElement
  <2>3. /\ IsFiniteSet(({} \cup {"reader"}) \cup {"updater"})
        /\ Cardinality(({} \cup {"reader"}) \cup {"updater"}) = 2
    BY <2>2, FS_AddElement
  <2>4. "deleter" \notin ({} \cup {"reader"}) \cup {"updater"}
    OBVIOUS
  <2>5. /\ IsFiniteSet((({} \cup {"reader"}) \cup {"updater"}) \cup {"deleter"})
        /\ Cardinality((({} \cup {"reader"}) \cup {"updater"}) \cup {"deleter"}) = 2 + 1
    BY <2>3, <2>4, FS_AddElement
  <2> QED
    BY <2>5
<1>3. Cardinality(InHand(s)) <= 3 /\ Cardinality(InHand(s)) \in Nat
  BY <1>1, <1>2, CountOfSubset
<1> QED
  BY <1>3 DEF CrudCounts

\* At first there is no student.
LEMMA CrudInvInit == CrudInit => CrudInv
<1> SUFFICES ASSUME CrudInit PROVE CrudInv
  OBVIOUS
<1>1. CrudTypeOK
  BY StudentAssumption DEF CrudInit, CrudTypeOK, NoStudent, Students, CrudThreads, Users
<1>2. \A s \in Students : InHand(s) = {} /\ ~Kept(s)
  BY DEF CrudInit, InHand, Kept, Listed, BeingRemoved, Students, NoStudent, CrudThreads, Users
<1>3. CrudCounts
  BY <1>2, CrudHands DEF CrudCounts, CrudInit
<1>4. CrudUsedIsAlive
  BY DEF CrudUsedIsAlive, CrudInit
<1> QED
  BY <1>1, <1>3, <1>4 DEF CrudInv

\* A step that changes neither who has what nor what is listed keeps the counts.
LEMMA CrudSameCounts ==
  ASSUME CrudCounts, UNCHANGED ref_count,
         \A s \in Students : InHand(s)' = InHand(s) /\ (Kept(s)' <=> Kept(s))
  PROVE  CrudCounts'
  BY DEF CrudCounts

\* One thread more has s0 in hand, and nobody else's count changes.
LEMMA CrudTakes ==
  ASSUME CrudTypeOK, CrudCounts, NEW t \in CrudThreads, NEW s0 \in Students,
         t \notin InHand(s0),
         ref_count' = [ref_count EXCEPT ![s0] = @ + 1],
         \A s \in Students : /\ InHand(s)' = IF s = s0 THEN InHand(s) \cup {t} ELSE InHand(s)
                             /\ (Kept(s)' <=> Kept(s))
  PROVE  CrudCounts' /\ ref_count' \in [Students -> Nat]
<1>1. Cardinality(InHand(s0) \cup {t}) = Cardinality(InHand(s0)) + 1
  BY CrudHands, CountOneMore
<1>2. \A s \in Students : Cardinality(InHand(s)) \in Nat
  BY CrudHands
<1>3. \A s \in Students : ref_count'[s] = IF s = s0 THEN ref_count[s] + 1 ELSE ref_count[s]
  BY DEF CrudTypeOK
<1>4. ref_count' \in [Students -> Nat]
  BY DEF CrudTypeOK
<1>5. CrudCounts'
  <2> SUFFICES ASSUME NEW s \in Students
               PROVE  ref_count'[s] = Cardinality(InHand(s)') + (IF Kept(s)' THEN 1 ELSE 0)
    BY DEF CrudCounts
  <2>1. ref_count[s] = Cardinality(InHand(s)) + (IF Kept(s) THEN 1 ELSE 0)
    BY DEF CrudCounts
  <2>2. CASE s = s0
    BY <1>1, <1>2, <1>3, <2>1, <2>2
  <2>3. CASE s # s0
    BY <1>3, <2>1, <2>3
  <2> QED
    BY <2>2, <2>3
<1> QED
  BY <1>4, <1>5

\* A lookup under the list's lock counts the thread that has found the student.
LEMMA CrudLooksUp ==
  ASSUME CrudInv, NEW t \in Users, crud_lookup(t) PROVE CrudInv'
<1>1. PICK r \in RollNos :
        /\ stud_lst[r] # NoStudent
        /\ stud' = [stud EXCEPT ![t] = stud_lst[r]]
        /\ ref_count' = [ref_count EXCEPT ![stud_lst[r]] = @ + 1]
  BY DEF crud_lookup, student_lst_lookup
<1> DEFINE s0 == stud_lst[r]
<1>2. /\ crud_at[t] = "idle" /\ crud_at' = [crud_at EXCEPT ![t] = "found"]
      /\ UNCHANGED <<stud_lst, allocated, freed>>
  BY DEF crud_lookup
<1>3. t \in CrudThreads /\ t # "deleter" /\ t # "creator"
  BY DEF CrudThreads, Users
<1>4. s0 \in Students /\ s0 \in 1 .. allocated /\ Listed(s0)
  BY <1>1, StudentAssumption DEF CrudInv, CrudTypeOK, Students, NoStudent, Listed
<1>5. t \notin InHand(s0)
  BY <1>2, <1>3, <1>4 DEF InHand, CrudInv, CrudTypeOK, NoStudent, Students
<1>6. \A s \in Students : /\ InHand(s)' = IF s = s0 THEN InHand(s) \cup {t} ELSE InHand(s)
                          /\ (Kept(s)' <=> Kept(s))
  <2>1. /\ stud["deleter"]' = stud["deleter"] /\ crud_at["deleter"]' = crud_at["deleter"]
    BY <1>1, <1>2, <1>3 DEF CrudInv, CrudTypeOK, CrudThreads
  <2>2. stud[t] = NoStudent
    BY <1>2, <1>3 DEF CrudInv, CrudTypeOK
  <2> QED
    BY <1>1, <1>2, <1>3, <2>1, <2>2
       DEF InHand, Kept, Listed, BeingRemoved, CrudInv, CrudTypeOK, Students, NoStudent
<1>7. CrudCounts' /\ ref_count' \in [Students -> Nat]
  BY <1>1, <1>3, <1>4, <1>5, <1>6, CrudTakes DEF CrudInv
<1>8. CrudTypeOK'
  BY <1>1, <1>2, <1>3, <1>4, <1>7
     DEF CrudInv, CrudTypeOK, Students, NoStudent, Listed, CrudThreads
<1>9. CrudUsedIsAlive'
  BY <1>1, <1>2, <1>3, <1>4 DEF CrudInv, CrudTypeOK, CrudUsedIsAlive, Listed
<1> QED
  BY <1>7, <1>8, <1>9 DEF CrudInv

\* A user locks the student it has found, and unlocks it again.
LEMMA CrudUses ==
  ASSUME CrudInv, NEW t \in Users, crud_lock_student(t) \/ crud_use(t) PROVE CrudInv'
<1>1. /\ crud_at[t] \in {"found", "uses"}
      /\ crud_at' = [crud_at EXCEPT ![t] = IF crud_at[t] = "found" THEN "uses" ELSE "drops"]
      /\ UNCHANGED <<stud_lst, allocated, freed, ref_count, stud>>
  BY DEF crud_lock_student, crud_use
<1>2. t \in CrudThreads /\ t # "deleter" /\ t # "creator"
  BY DEF CrudThreads, Users
<1>3. \A s \in Students : InHand(s)' = InHand(s) /\ (Kept(s)' <=> Kept(s))
  BY <1>1, <1>2 DEF InHand, Kept, Listed, BeingRemoved, CrudInv, CrudTypeOK
<1>4. CrudCounts'
  BY <1>1, <1>3, CrudSameCounts DEF CrudInv
<1>5. CrudTypeOK'
  BY <1>1, <1>2 DEF CrudInv, CrudTypeOK, Listed
<1>6. CrudUsedIsAlive'
  BY <1>1, <1>2 DEF CrudInv, CrudTypeOK, CrudUsedIsAlive, Listed
<1> QED
  BY <1>4, <1>5, <1>6 DEF CrudInv

\* Who drops the last reference knows that nobody else has or finds the student.
LEMMA CrudDrops ==
  ASSUME CrudInv, NEW t \in CrudThreads, thread_using_object_done(t) PROVE CrudInv'
<1> DEFINE s0 == stud[t]
<1>1. /\ crud_at[t] = "drops"
      /\ ref_count' = [ref_count EXCEPT ![s0] = @ - 1]
      /\ UNCHANGED <<stud_lst, allocated, freed>>
  BY DEF thread_using_object_done
<1>2. s0 \in Students /\ t \in InHand(s0)
  BY <1>1, StudentAssumption DEF CrudInv, CrudTypeOK, Students, NoStudent, InHand
<1>3. /\ Cardinality(InHand(s0) \ {t}) = Cardinality(InHand(s0)) - 1
      /\ Cardinality(InHand(s0)) > 0 /\ Cardinality(InHand(s0)) \in Nat
      /\ IsFiniteSet(InHand(s0) \ {t})
  <2>1. IsFiniteSet(CrudThreads) /\ InHand(s0) \in SUBSET CrudThreads /\ Cardinality(InHand(s0)) \in Nat
    BY CrudHands
  <2>2. InHand(s0) \ {t} \in SUBSET CrudThreads
    BY <2>1
  <2> QED
    BY <1>2, <2>1, <2>2, CountOneLess, CountOfSubset
<1>4. /\ crud_at'[t] \in {"destroys", "idle"}
      /\ stud'[t] \in {s0, NoStudent}
      /\ crud_at'[t] = "idle" <=> stud'[t] = NoStudent
      /\ crud_at'[t] = "destroys" <=> ref_count[s0] = 1
      /\ \A v \in CrudThreads \ {t} : stud'[v] = stud[v] /\ crud_at'[v] = crud_at[v]
      /\ stud' \in [CrudThreads -> 0 .. allocated]
      /\ crud_at' \in [CrudThreads ->
                         {"idle", "found", "uses", "drops", "destroys", "removed"}]
  <2>1. /\ stud \in [CrudThreads -> 0 .. allocated] /\ 0 \in 0 .. allocated
        /\ crud_at \in [CrudThreads ->
                           {"idle", "found", "uses", "drops", "destroys", "removed"}]
        /\ s0 # NoStudent
    BY <1>2, StudentAssumption DEF CrudInv, CrudTypeOK, Students, NoStudent
  <2>2. CASE ref_count[s0] = 1
    <3>1. crud_at' = [crud_at EXCEPT ![t] = "destroys"] /\ stud' = stud
      BY <2>2 DEF thread_using_object_done
    <3> QED
      BY <2>1, <2>2, <3>1
  <2>3. CASE ref_count[s0] # 1
    <3>1. crud_at' = [crud_at EXCEPT ![t] = "idle"] /\ stud' = [stud EXCEPT ![t] = NoStudent]
      BY <2>3 DEF thread_using_object_done
    <3> QED
      BY <2>1, <2>3, <3>1 DEF NoStudent
  <2> QED
    BY <2>2, <2>3
<1>5. \A s \in Students : /\ InHand(s)' = IF s = s0 THEN InHand(s) \ {t} ELSE InHand(s)
                          /\ (Kept(s)' <=> Kept(s))
  <2>1. \A s \in Students : InHand(s)' = IF s = s0 THEN InHand(s) \ {t} ELSE InHand(s)
    BY <1>1, <1>2, <1>4 DEF InHand, Students, NoStudent
  <2>2. \A s \in Students : Kept(s)' <=> Kept(s)
    <3>1. CASE t = "deleter"
      BY <1>1, <1>4, <3>1 DEF Kept, Listed, BeingRemoved
    <3>2. CASE t # "deleter"
      BY <1>1, <1>4, <3>2 DEF Kept, Listed, BeingRemoved, CrudThreads
    <3> QED
      BY <3>1, <3>2
  <2> QED
    BY <2>1, <2>2
<1>6. CrudCounts' /\ ref_count' \in [Students -> Nat]
  <2>1. \A s \in Students : ref_count'[s] = IF s = s0 THEN ref_count[s] - 1 ELSE ref_count[s]
    BY <1>1 DEF CrudInv, CrudTypeOK
  <2>2. ref_count[s0] > 0 /\ ref_count \in [Students -> Nat]
    BY <1>2, <1>3 DEF CrudInv, CrudCounts, CrudTypeOK
  <2>3. ASSUME NEW s \in Students
        PROVE  ref_count'[s] = Cardinality(InHand(s)') + (IF Kept(s)' THEN 1 ELSE 0)
    <3>1. ref_count[s] = Cardinality(InHand(s)) + (IF Kept(s) THEN 1 ELSE 0)
      BY DEF CrudInv, CrudCounts
    <3>2. CASE s = s0
      BY <1>3, <1>5, <2>1, <3>1, <3>2
    <3>3. CASE s # s0
      BY <1>5, <2>1, <3>1, <3>3
    <3> QED
      BY <3>2, <3>3
  <2> QED
    BY <1>1, <1>2, <2>2, <2>3 DEF CrudCounts
<1>7. CrudTypeOK'
  <2>1. t # "creator"
    BY <1>1 DEF CrudInv, CrudTypeOK
  <2> QED
    BY <1>1, <1>4, <1>6, <2>1 DEF CrudInv, CrudTypeOK, Listed, CrudThreads
<1>8. ref_count[s0] = 1 => ~Listed(s0) /\ \A v \in CrudThreads \ {t} : stud[v] # s0
  <2> SUFFICES ASSUME ref_count[s0] = 1
               PROVE  ~Listed(s0) /\ \A v \in CrudThreads \ {t} : stud[v] # s0
    OBVIOUS
  <2>1. ~Kept(s0) /\ Cardinality(InHand(s0) \ {t}) = 0
    BY <1>2, <1>3 DEF CrudInv, CrudCounts
  <2>2. InHand(s0) \ {t} = {}
    BY <1>3, <2>1, FS_EmptySet
  <2>3. \A v \in CrudThreads \ {t} : crud_at[v] = "destroys" => stud[v] # s0
    BY DEF CrudInv, CrudUsedIsAlive
  <2> QED
    BY <2>1, <2>2, <2>3 DEF Kept, InHand
<1>9. CrudUsedIsAlive'
  <2>1. /\ \A s : Listed(s)' <=> Listed(s)
        /\ s0 # NoStudent
    BY <1>1, <1>2 DEF Listed, Students, NoStudent
  <2>2. ASSUME NEW s \in freed' PROVE ~Listed(s)' /\ \A v \in CrudThreads : stud'[v] # s
    <3>1. s \in freed /\ s # NoStudent
      BY <1>1 DEF CrudInv, CrudTypeOK, NoStudent
    <3>2. ~Listed(s) /\ \A v \in CrudThreads : stud[v] # s
      BY <3>1 DEF CrudInv, CrudUsedIsAlive
    <3> QED
      BY <1>4, <2>1, <3>1, <3>2
  <2>3. ASSUME NEW u \in CrudThreads, crud_at'[u] = "destroys"
        PROVE  ~Listed(stud'[u]) /\ \A v \in CrudThreads \ {u} : stud'[v] # stud'[u]
    <3>1. CASE u = t
      <4>1. stud'[t] = s0 /\ ref_count[s0] = 1
        BY <1>4, <2>3, <3>1 DEF NoStudent
      <4> QED
        BY <1>4, <1>8, <3>1, <4>1
    <3>2. CASE u # t
      <4>1. crud_at[u] = "destroys" /\ stud'[u] = stud[u] /\ stud[u] # NoStudent
        BY <1>4, <2>3, <3>2 DEF CrudInv, CrudTypeOK
      <4>2. ~Listed(stud[u]) /\ \A v \in CrudThreads \ {u} : stud[v] # stud[u]
        BY <4>1 DEF CrudInv, CrudUsedIsAlive
      <4> QED
        BY <1>4, <3>2, <4>1, <4>2
    <3> QED
      BY <3>1, <3>2
  <2> QED
    BY <1>1, <2>1, <2>2, <2>3 DEF CrudUsedIsAlive, Listed
<1> QED
  BY <1>6, <1>7, <1>9 DEF CrudInv

\* Destroying a student that nobody has or finds takes it from nobody.
LEMMA CrudDestroys ==
  ASSUME CrudInv, NEW t \in CrudThreads, student_destroy(t) PROVE CrudInv'
<1>1. /\ crud_at[t] = "destroys" /\ freed' = freed \cup {stud[t]}
      /\ stud' = [stud EXCEPT ![t] = NoStudent] /\ crud_at' = [crud_at EXCEPT ![t] = "idle"]
      /\ UNCHANGED <<stud_lst, allocated, ref_count>>
  BY DEF student_destroy
<1>2. stud[t] \in 1 .. allocated
  BY <1>1 DEF CrudInv, CrudTypeOK, NoStudent
<1>3. \A s \in Students : InHand(s)' = InHand(s) /\ (Kept(s)' <=> Kept(s))
  <2>1. \A s \in Students : InHand(s)' = InHand(s)
    BY <1>1 DEF InHand, CrudInv, CrudTypeOK, NoStudent, Students
  <2>2. \A s \in Students : Kept(s)' <=> Kept(s)
    <3>1. CASE t = "deleter"
      BY <1>1, <3>1 DEF Kept, Listed, BeingRemoved, CrudInv, CrudTypeOK
    <3>2. CASE t # "deleter"
      BY <1>1, <3>2 DEF Kept, Listed, BeingRemoved, CrudInv, CrudTypeOK
    <3> QED
      BY <3>1, <3>2
  <2> QED
    BY <2>1, <2>2
<1>4. CrudCounts'
  BY <1>1, <1>3, CrudSameCounts DEF CrudInv
<1>5. CrudTypeOK'
  <2>1. /\ stud \in [CrudThreads -> 0 .. allocated] /\ 0 \in 0 .. allocated
        /\ crud_at \in [CrudThreads ->
                           {"idle", "found", "uses", "drops", "destroys", "removed"}]
        /\ t # "creator"
    BY <1>1, StudentAssumption DEF CrudInv, CrudTypeOK
  <2>2. /\ stud' \in [CrudThreads -> 0 .. allocated]
        /\ crud_at' \in [CrudThreads ->
                            {"idle", "found", "uses", "drops", "destroys", "removed"}]
        /\ stud'[t] = NoStudent /\ crud_at'[t] = "idle"
        /\ \A v \in CrudThreads \ {t} : stud'[v] = stud[v] /\ crud_at'[v] = crud_at[v]
    BY <1>1, <2>1 DEF NoStudent
  <2>3. \A v \in CrudThreads : crud_at'[v] = "idle" <=> stud'[v] = NoStudent
    BY <2>2 DEF CrudInv, CrudTypeOK
  <2>4. crud_at'["creator"] = "idle"
    BY <2>1, <2>2 DEF CrudInv, CrudTypeOK, CrudThreads
  <2>5. crud_at'["deleter"] = "removed" => ~Listed(stud["deleter"])'
    BY <1>1, <2>2 DEF CrudInv, CrudTypeOK, Listed, CrudThreads
  <2>6. freed' \subseteq 1 .. allocated
    BY <1>1, <1>2 DEF CrudInv, CrudTypeOK
  <2> QED
    BY <1>1, <2>2, <2>3, <2>4, <2>5, <2>6 DEF CrudInv, CrudTypeOK
<1>6. CrudUsedIsAlive'
  BY <1>1, <1>2 DEF CrudInv, CrudTypeOK, CrudUsedIsAlive, Listed, NoStudent
<1> QED
  BY <1>4, <1>5, <1>6 DEF CrudInv

\* A new student is counted by the list alone.
LEMMA CrudCreates ==
  ASSUME CrudInv, create_fn PROVE CrudInv'
<1> DEFINE new == allocated + 1
<1>1. PICK r \in RollNos : stud_lst[r] = NoStudent /\ stud_lst' = [stud_lst EXCEPT ![r] = new]
  BY DEF create_fn, student_lst_lookup, student_lst_insert
<1>2. /\ allocated < MaxStudents /\ allocated' = new
      /\ ref_count' = [ref_count EXCEPT ![new] = 1]
      /\ UNCHANGED <<freed, stud, crud_at>>
  BY DEF create_fn
<1>3. /\ new \in Students /\ allocated \in Nat /\ 0 .. allocated \subseteq 0 .. new
      /\ new \notin 0 .. allocated
  BY <1>2, StudentAssumption DEF CrudInv, CrudTypeOK, Students
<1>4. /\ \A s \in Students : Listed(s)' <=> Listed(s) \/ s = new
      /\ ~Listed(new) /\ \A t \in CrudThreads : stud[t] # new
  BY <1>1, <1>3 DEF Listed, CrudInv, CrudTypeOK, NoStudent, Students
<1>5. \A s \in Students : /\ InHand(s)' = InHand(s)
                          /\ (Kept(s)' <=> Kept(s) \/ s = new)
  BY <1>2, <1>4 DEF InHand, Kept, BeingRemoved
<1>6. InHand(new) = {}
  BY <1>4 DEF InHand
<1>7. CrudCounts'
  <2> SUFFICES ASSUME NEW s \in Students
               PROVE  ref_count'[s] = Cardinality(InHand(s)') + (IF Kept(s)' THEN 1 ELSE 0)
    BY DEF CrudCounts
  <2>1. CASE s = new
    <3>1. Cardinality(InHand(s)') = 0
      BY <1>5, <1>6, <2>1, CrudHands
    <3> QED
      BY <1>2, <1>5, <2>1, <3>1 DEF CrudInv, CrudTypeOK
  <2>2. CASE s # new
    BY <1>2, <1>5, <2>2 DEF CrudInv, CrudTypeOK, CrudCounts
  <2> QED
    BY <2>1, <2>2
<1>8. CrudTypeOK'
  <2>1. stud_lst' \in [RollNos -> 0 .. allocated']
    BY <1>1, <1>2, <1>3 DEF CrudInv, CrudTypeOK
  <2>2. \A p, q \in RollNos : stud_lst'[p] = stud_lst'[q] => p = q \/ stud_lst'[p] = NoStudent
    BY <1>1, <1>3 DEF CrudInv, CrudTypeOK
  <2>3. crud_at["deleter"] = "removed" => ~Listed(stud["deleter"])'
    BY <1>1, <1>2, <1>4 DEF CrudInv, CrudTypeOK, Listed, CrudThreads
  <2>4. ref_count' \in [Students -> Nat]
    BY <1>2 DEF CrudInv, CrudTypeOK
  <2>5. allocated' \in 0 .. MaxStudents
    BY <1>2, <1>3 DEF Students
  <2> QED
    BY <1>2, <1>3, <2>1, <2>2, <2>3, <2>4, <2>5 DEF CrudInv, CrudTypeOK
<1>9. CrudUsedIsAlive'
  <2>1. \A s \in freed : s \in Students /\ s # new
    BY <1>3, StudentAssumption DEF CrudInv, CrudTypeOK, Students
  <2>2. \A t \in CrudThreads : crud_at[t] = "destroys" => stud[t] \in Students /\ stud[t] # new
    BY <1>3, StudentAssumption DEF CrudInv, CrudTypeOK, Students, NoStudent
  <2> QED
    BY <1>2, <1>4, <2>1, <2>2 DEF CrudInv, CrudUsedIsAlive
<1> QED
  BY <1>7, <1>8, <1>9 DEF CrudInv

\* The reference of the list becomes the deleter's to drop.
LEMMA CrudRemoves ==
  ASSUME CrudInv, delete_remove PROVE CrudInv'
<1>1. PICK r \in RollNos :
        /\ stud_lst[r] # NoStudent
        /\ stud' = [stud EXCEPT !["deleter"] = stud_lst[r]]
        /\ ref_count' = [ref_count EXCEPT ![stud_lst[r]] = @ + 1]
        /\ stud_lst' = [stud_lst EXCEPT ![r] = NoStudent]
  BY DEF delete_remove, student_lst_lookup, student_lst_remove
<1> DEFINE s0 == stud_lst[r]
<1>2. /\ crud_at["deleter"] = "idle" /\ crud_at' = [crud_at EXCEPT !["deleter"] = "removed"]
      /\ UNCHANGED <<allocated, freed>>
  BY DEF delete_remove
<1>3. "deleter" \in CrudThreads /\ stud["deleter"] = NoStudent
  BY <1>2 DEF CrudThreads, CrudInv, CrudTypeOK
<1>4. s0 \in Students /\ s0 \in 1 .. allocated /\ Listed(s0)
  BY <1>1, StudentAssumption DEF CrudInv, CrudTypeOK, Students, NoStudent, Listed
<1>5. "deleter" \notin InHand(s0)
  BY <1>3, <1>4 DEF InHand, NoStudent, Students
<1>6. \A s \in Students : Listed(s)' <=> Listed(s) /\ s # s0
  BY <1>1, <1>4 DEF Listed, CrudInv, CrudTypeOK, Students, NoStudent
<1>7. \A s \in Students :
        /\ InHand(s)' = IF s = s0 THEN InHand(s) \cup {"deleter"} ELSE InHand(s)
        /\ (Kept(s)' <=> Kept(s))
  <2>1. stud'["deleter"] = s0 /\ crud_at'["deleter"] = "removed"
    BY <1>1, <1>2, <1>3 DEF CrudInv, CrudTypeOK
  <2>2. \A s \in Students :
          InHand(s)' = IF s = s0 THEN InHand(s) \cup {"deleter"} ELSE InHand(s)
    BY <1>1, <1>2, <1>3 DEF InHand, CrudInv, CrudTypeOK, Students, NoStudent
  <2>3. \A s \in Students : Kept(s)' <=> Kept(s)
    BY <1>2, <1>4, <1>6, <2>1 DEF Kept, BeingRemoved
  <2> QED
    BY <2>2, <2>3
<1>8. CrudCounts' /\ ref_count' \in [Students -> Nat]
  BY <1>1, <1>3, <1>4, <1>5, <1>7, CrudTakes DEF CrudInv
<1>9. CrudTypeOK'
  <2>1. stud_lst' \in [RollNos -> 0 .. allocated] /\ stud' \in [CrudThreads -> 0 .. allocated]
    BY <1>1, <1>3, <1>4 DEF CrudInv, CrudTypeOK, NoStudent
  <2>2. \A p, q \in RollNos : stud_lst'[p] = stud_lst'[q] => p = q \/ stud_lst'[p] = NoStudent
    BY <1>1 DEF CrudInv, CrudTypeOK
  <2>3. ~Listed(stud["deleter"])'
    BY <1>1, <1>3, <1>4, <1>6 DEF CrudInv, CrudTypeOK
  <2>4. \A t \in CrudThreads : crud_at'[t] = "idle" <=> stud'[t] = NoStudent
    BY <1>1, <1>2, <1>4 DEF CrudInv, CrudTypeOK, NoStudent
  <2> QED
    BY <1>2, <1>8, <2>1, <2>2, <2>3, <2>4 DEF CrudInv, CrudTypeOK, CrudThreads
<1>10. CrudUsedIsAlive'
  <2>1. \A s \in freed : s \in Students /\ s # s0
    BY <1>4, StudentAssumption DEF CrudInv, CrudTypeOK, CrudUsedIsAlive, Students
  <2>2. \A t \in CrudThreads : crud_at[t] = "destroys" =>
          t # "deleter" /\ stud[t] \in Students /\ stud[t] # s0
    BY <1>2, <1>4, StudentAssumption
       DEF CrudInv, CrudTypeOK, CrudUsedIsAlive, Students, NoStudent
  <2> QED
    BY <1>1, <1>2, <1>3, <1>6, <2>1, <2>2 DEF CrudInv, CrudTypeOK, CrudUsedIsAlive, NoStudent
<1> QED
  BY <1>8, <1>9, <1>10 DEF CrudInv

\* The deleter then drops the reference the list had.
LEMMA CrudUnlists ==
  ASSUME CrudInv, delete_unlist PROVE CrudInv'
<1> DEFINE s0 == stud["deleter"]
<1>1. /\ crud_at["deleter"] = "removed" /\ crud_at' = [crud_at EXCEPT !["deleter"] = "drops"]
      /\ ref_count' = [ref_count EXCEPT ![s0] = @ - 1]
      /\ UNCHANGED <<stud_lst, allocated, freed, stud>>
  BY DEF delete_unlist
<1>2. "deleter" \in CrudThreads
  BY DEF CrudThreads
<1>3. s0 \in Students /\ ~Listed(s0) /\ Kept(s0)
  BY <1>1, <1>2, StudentAssumption
     DEF CrudInv, CrudTypeOK, Students, NoStudent, Kept, BeingRemoved
<1>4. \A s \in Students : /\ InHand(s)' = InHand(s)
                          /\ (Kept(s)' <=> Kept(s) /\ s # s0)
  <2>1. \A s \in Students : InHand(s)' = InHand(s)
    BY <1>1 DEF InHand, CrudInv, CrudTypeOK
  <2>2. crud_at'["deleter"] = "drops"
    BY <1>1, <1>2 DEF CrudInv, CrudTypeOK
  <2> QED
    BY <1>1, <1>3, <2>1, <2>2 DEF Kept, Listed, BeingRemoved
<1>5. CrudCounts' /\ ref_count' \in [Students -> Nat]
  <2>1. \A s \in Students : ref_count'[s] = IF s = s0 THEN ref_count[s] - 1 ELSE ref_count[s]
    BY <1>1 DEF CrudInv, CrudTypeOK
  <2>2. Cardinality(InHand(s0)) \in Nat
    BY CrudHands
  <2>3. ref_count[s0] > 0 /\ ref_count \in [Students -> Nat]
    BY <1>3, <2>2 DEF CrudInv, CrudCounts, CrudTypeOK
  <2>4. ASSUME NEW s \in Students
        PROVE  ref_count'[s] = Cardinality(InHand(s)') + (IF Kept(s)' THEN 1 ELSE 0)
    <3>1. ref_count[s] = Cardinality(InHand(s)) + (IF Kept(s) THEN 1 ELSE 0)
      BY DEF CrudInv, CrudCounts
    <3>2. CASE s = s0
      BY <1>3, <1>4, <2>1, <2>2, <3>1, <3>2
    <3>3. CASE s # s0
      BY <1>4, <2>1, <3>1, <3>3
    <3> QED
      BY <3>2, <3>3
  <2> QED
    BY <1>1, <1>3, <2>3, <2>4 DEF CrudCounts
<1>6. CrudTypeOK'
  BY <1>1, <1>2, <1>5 DEF CrudInv, CrudTypeOK, Listed, CrudThreads
<1>7. CrudUsedIsAlive'
  BY <1>1, <1>2 DEF CrudInv, CrudTypeOK, CrudUsedIsAlive, Listed
<1> QED
  BY <1>5, <1>6, <1>7 DEF CrudInv

\* Every step of the four threads keeps the invariant.
LEMMA CrudInvHolds == CrudSpec => []CrudInv
<1>1. CrudInv /\ [CrudNext]_crudVars => CrudInv'
  <2> SUFFICES ASSUME CrudInv, [CrudNext]_crudVars PROVE CrudInv'
    OBVIOUS
  <2>1. CASE crud_lookup("reader") \/ crud_lookup("updater")
    BY <2>1, CrudLooksUp DEF Users
  <2>2. ASSUME NEW t \in CrudThreads, CrudGoesOn(t) PROVE CrudInv'
    BY <2>2, CrudUses, CrudDrops, CrudDestroys, CrudUnlists DEF CrudGoesOn
  <2>3. CASE create_fn
    BY <2>3, CrudCreates
  <2>4. CASE delete_remove
    BY <2>4, CrudRemoves
  <2>5. CASE UNCHANGED crudVars
    BY <2>5 DEF crudVars, CrudInv, CrudTypeOK, CrudCounts, CrudUsedIsAlive, Kept, Listed,
       BeingRemoved, InHand
  <2> QED
    BY <2>1, <2>2, <2>3, <2>4, <2>5
       DEF CrudNext, reader_fn, update_fn, delete_fn, CrudThreads, Users
<1> QED
  BY <1>1, CrudInvInit, PTL DEF CrudSpec

\* The count of every student is what it is meant to count, and at most 4.
THEOREM CrudCountsHold == CrudSpec => []CrudCountsItsUsers
BY CrudInvHolds, CrudAtMostFour, PTL DEF CrudInv

\* No thread has, or can find, a student that was destroyed.
THEOREM CrudNoUseAfterFree == CrudSpec => []CrudUsedIsAlive
BY CrudInvHolds, PTL DEF CrudInv

----------------------------------------------------------------------------
(* The threads that are cancelled. *)

\* What the two cancellable programs own, and have handlers for, before call k
\* of their scripts.
Owned(p, k) ==
    IF p = "deferred"
    THEN {"memory"} \cup (IF k > 3 THEN {"file"} ELSE {})
    ELSE (IF k < 3 THEN {"arg"} ELSE {}) \cup (IF k > 3 THEN {"socket"} ELSE {})
            \cup (IF k > 5 THEN {"buffer"} ELSE {})
Handled(p, k) ==
    IF p = "deferred"
    THEN (IF k > 2 THEN {"memory"} ELSE {}) \cup (IF k > 4 THEN {"file"} ELSE {})
    ELSE (IF k > 6 THEN {"socket"} ELSE {}) \cup (IF k > 7 THEN {"buffer"} ELSE {})

\* How a thread of theirs stands: alive it owns what is due, and cancelled nothing.
Tidy(p, th) ==
    /\ DOMAIN th = {"at", "owns", "pushed", "async", "asked", "ended"}
    /\ th.at \in DOMAIN Programs[p].script /\ ~th.async
    /\ th.ended = "no" => th.owns = Owned(p, th.at) /\ th.pushed = Handled(p, th.at)
    /\ th.ended = "cancelled" => th.owns = {}

CnTidy ==
    cn_program \in {"deferred", "listener"} =>
        /\ DOMAIN cn_thread = CancelThreads
        /\ \A t \in CancelThreads : Tidy(cn_program, cn_thread[t])

\* The script a thread of a cancellable program runs, call by call.
LEMMA TheScripts ==
  /\ Programs["deferred"].script = deferred_slave /\ Programs["deferred"].arg = "memory"
  /\ Programs["listener"].script = udp_server /\ Programs["listener"].arg = "arg"
  /\ DOMAIN deferred_slave = 1 .. 8 /\ DOMAIN udp_server = 1 .. 10
BY DEF Programs, deferred_main, udp_server_create_and_start, deferred_slave, udp_server

\* A thread starts with what main has allocated for it.
LEMMA CnInitTidy == CnInit => CnTidy
<1> SUFFICES ASSUME CnInit, NEW t \in CancelThreads, cn_program \in {"deferred", "listener"}
             PROVE  Tidy(cn_program, cn_thread[t])
  BY DEF CnTidy, CnInit
<1>1. cn_thread[t] = [at |-> 1, owns |-> {Program.arg}, pushed |-> {},
                      async |-> FALSE, asked |-> FALSE, ended |-> "no"]
  BY DEF CnInit
<1>2. /\ 1 \in DOMAIN Programs[cn_program].script
      /\ {Program.arg} = Owned(cn_program, 1) /\ {} = Handled(cn_program, 1)
  BY TheScripts DEF Owned, Handled, Program
<1> QED
  BY <1>1, <1>2 DEF Tidy

\* One call of a cancellable program does to what is owned and handled what the
\* tables say.
LEMMA CnOneCall ==
  ASSUME NEW p \in {"deferred", "listener"}, NEW k \in DOMAIN Programs[p].script
  PROVE  LET op == Programs[p].script[k].op
             x  == Programs[p].script[k].arg
         IN  /\ op = "type" => x # "async" /\ Owned(p, k + 1) = Owned(p, k) /\ Handled(p, k + 1) = Handled(p, k)
             /\ op = "push" => Owned(p, k + 1) = Owned(p, k) /\ Handled(p, k + 1) = Handled(p, k) \cup {x}
             /\ op = "free" => Owned(p, k + 1) = Owned(p, k) \ {x} /\ Handled(p, k + 1) = Handled(p, k)
             /\ op \in {"open", "get", "take"} =>
                   Owned(p, k + 1) = Owned(p, k) \cup {x} /\ Handled(p, k + 1) = Handled(p, k)
             /\ op \in {"try", "point"} => Owned(p, k + 1) = Owned(p, k) /\ Handled(p, k + 1) = Handled(p, k)
             /\ op # "again" => k + 1 \in DOMAIN Programs[p].script
             /\ op = "again" =>
                   LET to == Programs[p].script[k].to
                   IN  to \in DOMAIN Programs[p].script /\ Owned(p, to) = Owned(p, k) /\ Handled(p, to) = Handled(p, k)
             /\ op \in {"open", "point"} => Owned(p, k) \subseteq Handled(p, k)
<1>1. CASE p = "deferred"
  <2>1. /\ Programs[p].script = deferred_slave /\ k \in 1 .. 8
        /\ DOMAIN Programs[p].script = 1 .. 8
    BY <1>1, TheScripts
  <2>2. \/ k = 1 /\ Programs[p].script[k] = Do("type", "deferred")
        \/ k = 2 /\ Programs[p].script[k] = Do("push", "memory")
        \/ k = 3 /\ Programs[p].script[k] = Do("open", "file")
        \/ k = 4 /\ Programs[p].script[k] = Do("push", "file")
        \/ k \in 5 .. 7 /\ Programs[p].script[k].op = "point"
        \/ k = 8 /\ Programs[p].script[k] = Again(5)
    BY <2>1 DEF deferred_slave, Do
  <2> QED
    BY <1>1, <2>1, <2>2 DEF Owned, Handled, Do, Again
<1>2. CASE p = "listener"
  <2>1. /\ Programs[p].script = udp_server /\ k \in 1 .. 10
        /\ DOMAIN Programs[p].script = 1 .. 10
    BY <1>2, TheScripts
  <2>2. \/ k = 1 /\ Programs[p].script[k] = Do("type", "deferred")
        \/ k = 2 /\ Programs[p].script[k] = Do("free", "arg")
        \/ k = 3 /\ Programs[p].script[k] = Do("get", "socket")
        \/ k = 4 /\ Programs[p].script[k] = Do("try", "bind")
        \/ k = 5 /\ Programs[p].script[k] = Do("take", "buffer")
        \/ k = 6 /\ Programs[p].script[k] = Do("push", "socket")
        \/ k = 7 /\ Programs[p].script[k] = Do("push", "buffer")
        \/ k \in 8 .. 9 /\ Programs[p].script[k].op = "point"
        \/ k = 10 /\ Programs[p].script[k] = Again(8)
    BY <2>1 DEF udp_server, Do
  <2> QED
    BY <1>2, <2>1, <2>2 DEF Owned, Handled, Do, Again
<1> QED
  BY <1>1, <1>2

\* Every step of a thread, its cancellation and its end leave it tidy.
LEMMA CnNextTidy == CnTidy /\ [CnNext]_cnVars => CnTidy'
<1> SUFFICES ASSUME CnTidy, [CnNext]_cnVars, cn_program' \in {"deferred", "listener"}
             PROVE  /\ DOMAIN cn_thread' = CancelThreads
                    /\ \A t \in CancelThreads : Tidy(cn_program', cn_thread'[t])
  BY DEF CnTidy
<1> DEFINE p == cn_program
<1>1. cn_program' = p /\ p \in {"deferred", "listener"}
  BY DEF CnNext, cnVars, menu_exit, CnStep, CnCancelled, pthread_cancel
<1>3. /\ DOMAIN cn_thread = CancelThreads
      /\ \A t \in CancelThreads : Tidy(p, cn_thread[t])
  BY <1>1 DEF CnTidy
<1>4. ASSUME NEW t \in CancelThreads, NEW th, cn_thread' = [cn_thread EXCEPT ![t] = th], Tidy(p, th)
      PROVE  /\ DOMAIN cn_thread' = CancelThreads
             /\ \A u \in CancelThreads : Tidy(p, cn_thread'[u])
  <2>1. /\ DOMAIN cn_thread' = CancelThreads
        /\ \A u \in CancelThreads : cn_thread'[u] = IF u = t THEN th ELSE cn_thread[u]
    BY <1>3, <1>4
  <2> QED
    BY <1>3, <1>4, <2>1
<1>5. CASE UNCHANGED cn_thread
  BY <1>1, <1>3, <1>5
<1>6. ASSUME NEW t \in CancelThreads, CnStep(t)
      PROVE  \E th : cn_thread' = [cn_thread EXCEPT ![t] = th] /\ Tidy(p, th)
  <2> DEFINE th == cn_thread[t]
             k == th.at
             op == Programs[p].script[k].op
             x == Programs[p].script[k].arg
             to == Programs[p].script[k].to
  <2>1. /\ Tidy(p, th) /\ th.ended = "no" /\ k \in DOMAIN Programs[p].script
        /\ Now(t) = Programs[p].script[k]
    BY <1>3, <1>6 DEF CnStep, Going, Now, Tidy, Program
  <2>2. ASSUME NEW c, Forward(t, c), op # "again",
               DOMAIN c = {"at", "owns", "pushed", "async", "asked", "ended"},
               c.at = k, c.async = FALSE, c.ended = "no",
               c.owns = Owned(p, k + 1), c.pushed = Handled(p, k + 1)
        PROVE  \E new : cn_thread' = [cn_thread EXCEPT ![t] = new] /\ Tidy(p, new)
    <3> DEFINE new == [c EXCEPT !.at = @ + 1]
    <3>1. cn_thread' = [cn_thread EXCEPT ![t] = new]
      BY <2>2 DEF Forward
    <3>2. k + 1 \in DOMAIN Programs[p].script
      BY <1>1, <2>1, <2>2, CnOneCall
    <3>3. Tidy(p, new)
      BY <2>2, <3>2 DEF Tidy
    <3> QED
      BY <3>1, <3>3
  <2>3. /\ DOMAIN th = {"at", "owns", "pushed", "async", "asked", "ended"}
        /\ th.owns = Owned(p, k) /\ th.pushed = Handled(p, k) /\ th.async = FALSE
    BY <2>1 DEF Tidy
  <2>4. CASE op = "type" /\ Forward(t, [th EXCEPT !.async = x = "async"])
    BY <1>1, <2>1, <2>2, <2>3, <2>4, CnOneCall
  <2>5. CASE op = "push" /\ Forward(t, [th EXCEPT !.pushed = @ \cup {x}])
    BY <1>1, <2>1, <2>2, <2>3, <2>5, CnOneCall
  <2>6. CASE op = "free" /\ Forward(t, [th EXCEPT !.owns = @ \ {x}])
    BY <1>1, <2>1, <2>2, <2>3, <2>6, CnOneCall
  <2>7. CASE op \in {"open", "get", "take"} /\ Forward(t, [th EXCEPT !.owns = @ \cup {x}])
    BY <1>1, <2>1, <2>2, <2>3, <2>7, CnOneCall
  <2>8. CASE op \in {"try", "point"} /\ Forward(t, th)
    BY <1>1, <2>1, <2>2, <2>3, <2>8, CnOneCall
  <2>9. CASE cn_thread' = [cn_thread EXCEPT ![t].ended = "returned"]
    <3>1. cn_thread' = [cn_thread EXCEPT ![t] = [th EXCEPT !.ended = "returned"]]
      BY <2>9
    <3>2. Tidy(p, [th EXCEPT !.ended = "returned"])
      BY <2>1 DEF Tidy
    <3> QED
      BY <3>1, <3>2
  <2>10. CASE op = "again" /\ cn_thread' = [cn_thread EXCEPT ![t].at = to]
    <3>1. cn_thread' = [cn_thread EXCEPT ![t] = [th EXCEPT !.at = to]]
      BY <2>10
    <3>2. Tidy(p, [th EXCEPT !.at = to])
      BY <1>1, <2>1, <2>3, <2>10, CnOneCall DEF Tidy
    <3> QED
      BY <3>1, <3>2
  <2> QED
    BY <1>6, <2>1, <2>4, <2>5, <2>6, <2>7, <2>8, <2>9, <2>10 DEF CnStep
<1>7. ASSUME NEW t \in CancelThreads, CnCancelled(t)
      PROVE  \E th : cn_thread' = [cn_thread EXCEPT ![t] = th] /\ Tidy(p, th)
  <2> DEFINE th == cn_thread[t]
             new == [th EXCEPT !.ended = "cancelled", !.owns = @ \ th.pushed]
  <2>1. /\ Tidy(p, th) /\ th.ended = "no" /\ ~th.async
        /\ Now(t) = Programs[p].script[th.at]
    BY <1>3, <1>7 DEF CnCancelled, Going, Now, Tidy, Program
  <2>2. th.owns \ th.pushed = {}
    <3>1. /\ th.at \in DOMAIN Programs[p].script
          /\ th.owns = Owned(p, th.at) /\ th.pushed = Handled(p, th.at)
      BY <2>1 DEF Tidy
    <3>2. Programs[p].script[th.at].op \in {"open", "point"}
      BY <1>7, <2>1 DEF CnCancelled
    <3>3. Owned(p, th.at) \subseteq Handled(p, th.at)
      BY <1>1, <3>1, <3>2, CnOneCall
    <3> QED
      BY <3>1, <3>3
  <2>3. cn_thread' = [cn_thread EXCEPT ![t] = new]
    BY <1>7 DEF CnCancelled
  <2>4. Tidy(p, new)
    BY <2>1, <2>2 DEF Tidy
  <2> QED
    BY <2>3, <2>4
<1>8. ASSUME NEW t \in CancelThreads, pthread_cancel(t)
      PROVE  \E th : cn_thread' = [cn_thread EXCEPT ![t] = th] /\ Tidy(p, th)
  <2>1. cn_thread' = [cn_thread EXCEPT ![t] = [cn_thread[t] EXCEPT !.asked = TRUE]]
    BY <1>8 DEF pthread_cancel
  <2>2. Tidy(p, [cn_thread[t] EXCEPT !.asked = TRUE])
    BY <1>3 DEF Tidy
  <2> QED
    BY <2>1, <2>2
<1> QED
  BY <1>1, <1>4, <1>5, <1>6, <1>7, <1>8 DEF CnNext, cnVars, menu_exit

\* A cancelled thread of these programs owns nothing.
LEMMA CnTidyIsClean == CnTidy => CancelLeavesNothing
BY DEF CnTidy, Tidy, CancelLeavesNothing

----------------------------------------------------------------------------
(* The traffic light. *)

\* A car that has tested its light has the mutex until it sleeps or drives, and
\* a car from the east that is about to sleep has seen a light that is still
\* red; the menu keeps the mutex from turning the east green until it has woken
\* its queue.
TlInv ==
    /\ light \in [Directions -> Colours \cup {"OFF"}]
    /\ tl_at \in [Cars -> {"road", "stopped", "asleep", "woken", "moving"}]
    /\ to_wake = "EAST" => face_mutex = "menu"
    /\ \A c \in Cars : tl_at[c] \in {"stopped", "moving"} => face_mutex = c
    /\ \A c \in EastCars : tl_at[c] = "stopped" => light["EAST"] = "RED"
    /\ TlEastWakesOnGreen

\* A new light is switched off, and every car is on the road.
LEMMA TlInitInv == TlInit => TlInv
BY DEF TlInit, TlInv, tr_light_init, TlEastWakesOnGreen, TlNoneSleepsAtGreen, Directions, Cars

\* Every step keeps it.
LEMMA TlNextInv == TlInv /\ [TlNext]_tlVars => TlInv'
<1> SUFFICES ASSUME TlInv, [TlNext]_tlVars PROVE TlInv'
  OBVIOUS
<1> USE DEF TlInv, TlEastWakesOnGreen, TlNoneSleepsAtGreen
<1>0. /\ EastCars \subseteq Cars /\ "menu" \notin Cars /\ "nobody" \notin Cars
      /\ \A c \in EastCars : dirn(c) = "EAST"
      /\ \A c \in Cars : dirn(c) \in Directions
      /\ "EAST" \in Directions
  BY TrafficAssumption DEF Cars, dirn, Directions
<1>1. CASE UNCHANGED tlVars
  BY <1>1 DEF tlVars, dirn
<1>2. ASSUME NEW c \in Cars, thread_block_on_tr_light(c) PROVE TlInv'
  BY <1>0, <1>2 DEF thread_block_on_tr_light, dirn
<1>3. ASSUME NEW c \in Cars, tl_wait(c) PROVE TlInv'
  BY <1>0, <1>3 DEF tl_wait, dirn
<1>4. ASSUME NEW c \in Cars, tl_spurious_wakeup(c) PROVE TlInv'
  BY <1>0, <1>4 DEF tl_spurious_wakeup, dirn
<1>5. ASSUME NEW c \in Cars, thread_move(c) PROVE TlInv'
  BY <1>0, <1>2, <1>3, <1>5 DEF thread_move, dirn
<1>6. ASSUME NEW d \in Directions, NEW col \in Colours, tl_set(d, col) PROVE TlInv'
  BY <1>0, <1>6 DEF tl_set, Directions, dirn
<1>7. CASE tl_broadcast
  BY <1>0, <1>7 DEF tl_broadcast, dirn
<1> QED
  BY <1>1, <1>4, <1>5, <1>6, <1>7 DEF TlNext, user_menu

----------------------------------------------------------------------------
(* Lists that change by one element. *)

\* Taking an element off a list leaves the others.
LEMMA ListWithout ==
  ASSUME NEW S, NEW l \in Seq(S), NEW c
  PROVE  /\ RemoveFirst(l, c) \in Seq(S)
         /\ ToSet(l) \ {c} \subseteq ToSet(RemoveFirst(l, c))
         /\ ToSet(RemoveFirst(l, c)) \subseteq ToSet(l)
         /\ IsInjective(l) => /\ IsInjective(RemoveFirst(l, c))
                              /\ c \notin ToSet(RemoveFirst(l, c))
<1>1. CASE ~\E i \in 1 .. Len(l) : l[i] = c
  BY <1>1 DEF RemoveFirst, ToSet
<1>2. CASE \E i \in 1 .. Len(l) : l[i] = c
  <2> DEFINE I == {i \in 1 .. Len(l) : l[i] = c}
             k == Min(I)
             a == SubSeq(l, 1, k - 1)
             b == SubSeq(l, k + 1, Len(l))
             r == a \o b
             at(i) == IF i < k THEN i ELSE i + 1
  <2>1. RemoveFirst(l, c) = r
    BY <1>2 DEF RemoveFirst, RemoveAt, SelectInSeq
  <2>2. k \in 1 .. Len(l) /\ l[k] = c
    <3>1. I \in SUBSET Nat /\ I # {}
      BY <1>2
    <3>2. \E x \in I : \A y \in I : x <= y
      BY <3>1, LeastElement
    <3> QED
      BY <3>2 DEF Min
  <2> HIDE DEF k
  <2>3. /\ a \in Seq(S) /\ Len(a) = k - 1 /\ \A i \in 1 .. (k - 1) : a[i] = l[i]
    BY <2>2, SubSeqProperties
  <2>4. /\ b \in Seq(S) /\ Len(b) = Len(l) - k /\ \A i \in 1 .. (Len(l) - k) : b[i] = l[k + i]
    BY <2>2, SubSeqProperties
  <2> HIDE DEF a, b
  <2>5. /\ r \in Seq(S) /\ Len(r) = Len(a) + Len(b)
        /\ \A i \in 1 .. Len(a) + Len(b) : r[i] = IF i <= Len(a) THEN a[i] ELSE b[i - Len(a)]
    BY <2>3, <2>4, ConcatProperties, Zenon
  <2> HIDE DEF r
  <2>6. Len(r) = Len(l) - 1
    BY <2>2, <2>3, <2>4, <2>5
  <2>7. ASSUME NEW i \in 1 .. Len(r) PROVE at(i) \in 1 .. Len(l) /\ at(i) # k /\ r[i] = l[at(i)]
    <3>1. CASE i < k
      BY <3>1, <2>2, <2>3, <2>4, <2>5, <2>6
    <3>2. CASE ~(i < k)
      <4>0. Len(a) = k - 1 /\ Len(b) = Len(l) - k /\ Len(r) = Len(l) - 1
        BY <2>3, <2>4, <2>6
      <4>1. i - (k - 1) \in 1 .. (Len(l) - k) /\ r[i] = b[i - (k - 1)]
        <5>1. k \in Nat /\ Len(l) \in Nat /\ ~(i <= k - 1)
          BY <3>2, <2>2
        <5>2. i - (k - 1) \in 1 .. (Len(l) - k)
          BY <4>0, <5>1
        <5>3. r[i] = IF i <= Len(a) THEN a[i] ELSE b[i - Len(a)]
          BY <2>5
        <5> QED
          BY <4>0, <5>1, <5>2, <5>3
      <4>2. r[i] = l[k + (i - (k - 1))] /\ k + (i - (k - 1)) = i + 1
        BY <4>1, <2>2, <2>4
      <4> QED
        BY <3>2, <4>1, <4>2, <2>2, <2>6
    <3> QED
      BY <3>1, <3>2
  <2>8. ASSUME NEW j \in 1 .. Len(l), j # k PROVE \E i \in 1 .. Len(r) : at(i) = j
    <3>1. CASE j < k
      <4>1. j \in 1 .. Len(r) /\ at(j) = j
        BY <3>1, <2>2, <2>6
      <4> QED
        BY <4>1
    <3>2. CASE ~(j < k)
      <4>1. j - 1 \in 1 .. Len(r) /\ at(j - 1) = j
        BY <3>2, <2>2, <2>6, <2>8
      <4> QED
        BY <4>1
    <3> QED
      BY <3>1, <3>2
  <2>9. DOMAIN r = 1 .. Len(r) /\ DOMAIN l = 1 .. Len(l)
    BY <2>5
  <2>10. ToSet(r) \subseteq ToSet(l) /\ ToSet(l) \ {c} \subseteq ToSet(r)
    <3>1. ToSet(r) \subseteq ToSet(l)
      BY <2>7, <2>9 DEF ToSet
    <3>2. ASSUME NEW x \in ToSet(l), x # c PROVE x \in ToSet(r)
      <4>1. PICK j \in 1 .. Len(l) : l[j] = x
        BY <2>9 DEF ToSet
      <4>2. PICK i \in 1 .. Len(r) : at(i) = j
        BY <2>2, <2>8, <3>2, <4>1
      <4>3. r[i] = x
        BY <2>7, <4>1, <4>2
      <4> QED
        BY <2>9, <4>3 DEF ToSet
    <3> QED
      BY <3>1, <3>2
  <2>11. ASSUME IsInjective(l) PROVE IsInjective(r) /\ c \notin ToSet(r)
    <3>0. \A x, y \in 1 .. Len(l) : l[x] = l[y] => x = y
      BY <2>9, <2>11 DEF IsInjective
    <3>1. ASSUME NEW i \in 1 .. Len(r), NEW j \in 1 .. Len(r), r[i] = r[j] PROVE i = j
      <4>1. at(i) = at(j)
        BY <2>7, <3>0, <3>1
      <4> QED
        BY <4>1, <2>2
    <3>2. \A i \in 1 .. Len(r) : r[i] # c
      BY <2>2, <2>7, <3>0
    <3> QED
      BY <2>9, <3>1, <3>2 DEF IsInjective, ToSet
  <2> QED
    BY <2>1, <2>5, <2>10, <2>11
<1> QED
  BY <1>1, <1>2

\* What is put in front of a list is in it, and so is what was in it.
LEMMA ListWithFirst ==
  ASSUME NEW S, NEW l \in Seq(S), NEW c \in S
  PROVE  /\ <<c>> \o l \in Seq(S) /\ ToSet(<<c>> \o l) = ToSet(l) \cup {c}
         /\ IsInjective(l) /\ c \notin ToSet(l) => IsInjective(<<c>> \o l)
<1> DEFINE r == <<c>> \o l
<1>1. /\ r \in Seq(S) /\ Len(r) = Len(l) + 1 /\ r[1] = c
      /\ \A i \in 1 .. Len(l) : r[i + 1] = l[i]
  OBVIOUS
<1> HIDE DEF r
<1>2. DOMAIN r = 1 .. Len(r) /\ DOMAIN l = 1 .. Len(l)
  BY <1>1
<1>3. ASSUME NEW i \in 1 .. Len(r), i # 1 PROVE i - 1 \in 1 .. Len(l) /\ r[i] = l[i - 1]
  BY <1>1, <1>3
<1>4. ToSet(r) = ToSet(l) \cup {c}
  <2>1. ToSet(r) \subseteq ToSet(l) \cup {c}
    BY <1>1, <1>2, <1>3 DEF ToSet
  <2>2. \A i \in 1 .. Len(l) : i + 1 \in 1 .. Len(r)
    BY <1>1
  <2>3. ToSet(l) \cup {c} \subseteq ToSet(r)
    BY <1>1, <1>2, <2>2 DEF ToSet
  <2> QED
    BY <2>1, <2>3
<1>5. ASSUME IsInjective(l), c \notin ToSet(l) PROVE IsInjective(r)
  <2>1. ASSUME NEW i \in 1 .. Len(r), NEW j \in 1 .. Len(r), r[i] = r[j] PROVE i = j
    <3>1. \A x, y \in 1 .. Len(l) : l[x] = l[y] => x = y
      BY <1>2, <1>5 DEF IsInjective
    <3>2. \A x \in 1 .. Len(l) : l[x] # c
      BY <1>2, <1>5 DEF ToSet
    <3>3. i = 1 => j = 1
      BY <1>1, <1>3, <2>1, <3>2
    <3>4. j = 1 => i = 1
      BY <1>1, <1>3, <2>1, <3>2
    <3>5. CASE i # 1 /\ j # 1
      BY <1>3, <2>1, <3>1, <3>5
    <3> QED
      BY <3>3, <3>4, <3>5
  <2> QED
    BY <1>2, <2>1 DEF IsInjective
<1> QED
  BY <1>1, <1>4, <1>5 DEF r

----------------------------------------------------------------------------
(* The vaccination centre. *)

VcClasses == 1 .. 4

\* Seats for the awake: with a sleeper in its list, a class has as many awake
\* as it has free seats.
VcSeatsAreTaken ==
    \A k \in VcClasses : \A c \in ToSet(waiting_list[k]) :
        vc_at[c] = "asleep" => Cardinality(VcAt("awake", k)) + current[k] >= max_allowed[k]

VcInv ==
    /\ age \in [Citizens -> Ages] /\ vc_at \in [Citizens -> {"outside", "asleep", "awake", "inside", "gone"}]
    /\ max_allowed \in [VcClasses -> Int] /\ current \in [VcClasses -> Int]
    /\ waiting_list \in [VcClasses -> Seq(Citizens)]
    /\ \A k \in VcClasses : /\ current[k] <= max_allowed[k]
                            /\ \A c \in ToSet(waiting_list[k]) : Type(c) = k
    /\ VcSeatsAreTaken

\* Every age has a class.
LEMMA VcClass == \A a : citizen_type(a) \in VcClasses
BY DEF citizen_type, VcClasses

\* The classes are numbered from 1 to 4.
LEMMA VcClassNames == DOMAIN CitizenTypes = VcClasses
BY DEF CitizenTypes, VcClasses

\* Taking a citizen off a list adds nobody to it.
LEMMA VcListWithout ==
  ASSUME NEW l \in Seq(Citizens), NEW c
  PROVE  RemoveFirst(l, c) \in Seq(Citizens) /\ ToSet(RemoveFirst(l, c)) \subseteq ToSet(l)
BY ListWithout

\* Where a seat becomes free, those who wait for it are asked first.
LEMMA VcOwnClassFirst ==
  ASSUME NEW k \in VcClasses, \E j \in VcClasses : waiting_list[j] # <<>>
  PROVE  /\ default_next_citizen(k) \in VcClasses
         /\ waiting_list[default_next_citizen(k)] # <<>>
         /\ waiting_list[k] # <<>> => default_next_citizen(k) = k
<1> DEFINE later(i) == ((k - 1 + i) % 4) + 1
           P(i) == /\ waiting_list[later(i)] # <<>>
                   /\ \A j \in 0 .. i - 1 : waiting_list[later(j)] = <<>>
           i0 == CHOOSE i \in 0 .. 3 : P(i)
<1>1. default_next_citizen(k) = later(i0)
  BY DEF default_next_citizen
<1>2. \A i \in 0 .. 3 : later(i) \in VcClasses
  BY DEF VcClasses
<1>3. later(0) = k
  BY DEF VcClasses
<1>4. PICK i \in 0 .. 3 : waiting_list[later(i)] # <<>>
  <2>1. PICK j \in VcClasses : waiting_list[j] # <<>>
    OBVIOUS
  <2>2. \E i \in 0 .. 3 : later(i) = j
    BY DEF VcClasses
  <2> QED
    BY <2>1, <2>2
<1>5. \E x \in 0 .. 3 : P(x)
  <2> DEFINE S == {x \in 0 .. 3 : waiting_list[later(x)] # <<>>}
  <2>1. S \in SUBSET Nat /\ S # {}
    BY <1>4
  <2>2. PICK x \in S : \A y \in S : x <= y
    BY <2>1, LeastElement
  <2>3. \A y \in 0 .. x - 1 : waiting_list[later(y)] = <<>>
    BY <2>2
  <2> QED
    BY <2>2, <2>3
<1>6. i0 \in 0 .. 3 /\ P(i0)
  BY <1>5
<1> HIDE DEF i0
<1>7. waiting_list[k] # <<>> => i0 = 0
  BY <1>3, <1>6
<1> QED
  BY <1>1, <1>2, <1>3, <1>6, <1>7

\* A new centre is empty, and so are its lists.
LEMMA VcInitInv == VcInit => VcInv
<1> SUFFICES ASSUME VcInit PROVE VcInv
  OBVIOUS
<1>1. \A k \in VcClasses : ToSet(waiting_list[k]) = {} /\ current[k] = 0
  BY VcClassNames DEF VcInit, Covid_Center_init, ToSet
<1>2. /\ max_allowed \in [VcClasses -> Int] /\ \A k \in VcClasses : max_allowed[k] >= 0
  BY VcClassNames, CentreAssumption DEF VcInit, Covid_Center_Set_Capacity
<1>3. current \in [VcClasses -> Int] /\ waiting_list \in [VcClasses -> Seq(Citizens)]
  BY VcClassNames DEF VcInit, Covid_Center_init
<1> QED
  BY <1>1, <1>2, <1>3 DEF VcInit, VcInv, VcSeatsAreTaken

\* The awake of a class can be counted.
LEMMA VcCounted ==
  \A k : /\ VcAt("awake", k) \in SUBSET Citizens /\ IsFiniteSet(VcAt("awake", k))
         /\ Cardinality(VcAt("awake", k)) \in Nat
<1>1. \A k : VcAt("awake", k) \in SUBSET Citizens
  BY DEF VcAt
<1> QED
  BY <1>1, CentreAssumption, FS_Subset, FS_CardinalityType

\* A citizen enters or goes to sleep in front of a class that is full.
LEMMA VcEnterInv ==
  ASSUME VcInv, NEW c \in Citizens, Enter_Covid_Vaccination_Center(c)
  PROVE  VcInv'
<1> DEFINE k == Type(c)
           listed == IF vc_at[c] = "outside" THEN Append(waiting_list[k], c) ELSE waiting_list[k]
<1>1. k \in VcClasses /\ \A d \in Citizens : Type(d)' = Type(d)
  BY VcClass DEF Type, Enter_Covid_Vaccination_Center, vcConf
<1>2. /\ age' = age /\ max_allowed' = max_allowed
  BY DEF Enter_Covid_Vaccination_Center, vcConf
<1>3. listed \in Seq(Citizens) /\ ToSet(listed) \subseteq ToSet(waiting_list[k]) \cup {c}
  <2>1. waiting_list[k] \in Seq(Citizens)
    BY <1>1 DEF VcInv
  <2>2. \A i \in 1 .. Len(Append(waiting_list[k], c)) :
           Append(waiting_list[k], c)[i] \in ToSet(waiting_list[k]) \cup {c}
    BY <2>1 DEF ToSet
  <2> QED
    BY <2>1, <2>2 DEF ToSet
<1>4. CASE max_allowed[k] = current[k]
  <2>1. /\ vc_at' = [vc_at EXCEPT ![c] = "asleep"]
        /\ waiting_list' = [waiting_list EXCEPT ![k] = listed]
        /\ current' = current
    BY <1>4 DEF Enter_Covid_Vaccination_Center
  <2>2. \A j \in VcClasses : VcAt("awake", j)' = VcAt("awake", j) \ {c}
    BY <1>1, <2>1 DEF VcAt, VcInv
  <2>3. \A j \in VcClasses \ {k} : VcAt("awake", j)' = VcAt("awake", j)
    BY <2>2 DEF VcAt
  <2>4. \A j \in VcClasses : Cardinality(VcAt("awake", j)') \in Nat
    BY <2>2, VcCounted, FS_Subset, FS_CardinalityType
  <2>5. ASSUME NEW j \in VcClasses, NEW d \in ToSet(waiting_list'[j]), vc_at'[d] = "asleep"
        PROVE  Cardinality(VcAt("awake", j)') + current'[j] >= max_allowed'[j]
    <3>1. CASE j = k
      BY <1>2, <1>4, <2>1, <2>4, <3>1 DEF VcInv
    <3>2. CASE j # k
      <4>1. d \in ToSet(waiting_list[j]) /\ Type(d) = j /\ d # c
        BY <1>1, <2>1, <3>2 DEF VcInv
      <4>2. d \in Citizens
        BY <4>1 DEF VcInv, ToSet
      <4>3. vc_at[d] = "asleep"
        BY <2>1, <2>5, <4>1, <4>2 DEF VcInv
      <4>4. Cardinality(VcAt("awake", j)) + current[j] >= max_allowed[j]
        BY <4>1, <4>3 DEF VcInv, VcSeatsAreTaken
      <4> QED
        BY <1>2, <2>1, <2>3, <3>2, <4>4
    <3> QED
      BY <3>1, <3>2
  <2>6. VcSeatsAreTaken'
    BY <2>5 DEF VcSeatsAreTaken
  <2>7. waiting_list' \in [VcClasses -> Seq(Citizens)] /\ current' \in [VcClasses -> Int]
    BY <1>1, <1>3, <2>1 DEF VcInv
  <2>8. \A j \in VcClasses : \A d \in ToSet(waiting_list'[j]) : Type(d)' = j
    BY <1>1, <1>2, <1>3, <2>1 DEF VcInv, Type
  <2> QED
    BY <1>2, <2>1, <2>6, <2>7, <2>8 DEF VcInv
<1>5. CASE max_allowed[k] # current[k]
  <2>1. /\ vc_at' = [vc_at EXCEPT ![c] = "inside"]
        /\ waiting_list' = [waiting_list EXCEPT ![k] = RemoveFirst(listed, c)]
        /\ current' = [current EXCEPT ![k] = @ + 1]
    BY <1>5 DEF Enter_Covid_Vaccination_Center
  <2>2. \A j \in VcClasses : VcAt("awake", j)' = VcAt("awake", j) \ {c}
    BY <1>1, <2>1 DEF VcAt, VcInv
  <2>3. \A j \in VcClasses \ {k} : VcAt("awake", j)' = VcAt("awake", j)
    BY <2>2 DEF VcAt
  <2>4. /\ Cardinality(VcAt("awake", k)') \in Nat
        /\ Cardinality(VcAt("awake", k)') + 1 >= Cardinality(VcAt("awake", k))
    <3>1. CASE c \in VcAt("awake", k)
      <4>1. Cardinality(VcAt("awake", k) \ {c}) = Cardinality(VcAt("awake", k)) - 1
        BY <3>1, VcCounted, FS_RemoveElement
      <4>2. Cardinality(VcAt("awake", k) \ {c}) \in Nat /\ Cardinality(VcAt("awake", k)) \in Nat
        BY VcCounted, FS_Subset, FS_CardinalityType
      <4> QED
        BY <1>1, <2>2, <4>1, <4>2
    <3>2. CASE c \notin VcAt("awake", k)
      <4>1. VcAt("awake", k) \ {c} = VcAt("awake", k)
        BY <3>2
      <4> QED
        BY <1>1, <2>2, <4>1, VcCounted
    <3> QED
      BY <3>1, <3>2
  <2>5. ASSUME NEW j \in VcClasses, NEW d \in ToSet(waiting_list'[j]), vc_at'[d] = "asleep"
        PROVE  Cardinality(VcAt("awake", j)') + current'[j] >= max_allowed'[j]
    <3>1. d \in ToSet(waiting_list[j]) \cup {c}
      BY <1>1, <1>3, <2>1, VcListWithout DEF VcInv
    <3>2. d # c
      BY <2>1, <2>5 DEF VcInv
    <3>3. d \in Citizens
      BY <3>1 DEF VcInv, ToSet
    <3>4. vc_at[d] = "asleep"
      BY <2>1, <2>5, <3>2, <3>3 DEF VcInv
    <3>5. Cardinality(VcAt("awake", j)) + current[j] >= max_allowed[j]
      BY <3>1, <3>2, <3>4 DEF VcInv, VcSeatsAreTaken
    <3>6. CASE j = k
      BY <1>1, <1>2, <2>1, <2>4, <3>5, <3>6, VcCounted DEF VcInv
    <3>7. CASE j # k
      BY <1>2, <2>1, <2>3, <3>5, <3>7
    <3> QED
      BY <3>6, <3>7
  <2>6. VcSeatsAreTaken'
    BY <2>5 DEF VcSeatsAreTaken
  <2>7. waiting_list' \in [VcClasses -> Seq(Citizens)] /\ current' \in [VcClasses -> Int]
    <3>1. RemoveFirst(listed, c) \in Seq(Citizens)
      BY <1>3, VcListWithout
    <3>2. current[k] + 1 \in Int
      BY <1>1 DEF VcInv
    <3> QED
      BY <1>1, <2>1, <3>1, <3>2 DEF VcInv
  <2>8. \A j \in VcClasses : \A d \in ToSet(waiting_list'[j]) : Type(d)' = j
    BY <1>1, <1>2, <1>3, <2>1, VcListWithout DEF VcInv, Type
  <2>9. \A j \in VcClasses : current'[j] <= max_allowed'[j]
    BY <1>1, <1>2, <1>5, <2>1 DEF VcInv
  <2>10. vc_at' \in [Citizens -> {"outside", "asleep", "awake", "inside", "gone"}]
    BY <2>1 DEF VcInv
  <2> QED
    BY <1>2, <2>6, <2>7, <2>8, <2>9, <2>10 DEF VcInv
<1> QED
  BY <1>4, <1>5

\* A sleeper wakes and will look whether there is a seat.
LEMMA VcSpuriousInv ==
  ASSUME VcInv, NEW c \in Citizens, VcSpuriousWakeup(c)
  PROVE  VcInv'
<1>1. /\ vc_at[c] = "asleep" /\ vc_at' = [vc_at EXCEPT ![c] = "awake"]
      /\ UNCHANGED <<age, max_allowed, current, waiting_list>>
  BY DEF VcSpuriousWakeup, vcConf
<1>2. \A j \in VcClasses : VcAt("awake", j) \subseteq VcAt("awake", j)'
  BY <1>1 DEF VcAt, VcInv, Type
<1>3. \A j \in VcClasses : VcAt("awake", j)' \in SUBSET Citizens
  BY <1>1 DEF VcAt
<1>4. \A j \in VcClasses : /\ Cardinality(VcAt("awake", j)') \in Nat
                           /\ Cardinality(VcAt("awake", j)) <= Cardinality(VcAt("awake", j)')
  BY <1>2, <1>3, VcCounted, CentreAssumption, FS_Subset, FS_CardinalityType
<1>5. ASSUME NEW j \in VcClasses, NEW d \in ToSet(waiting_list'[j]), vc_at'[d] = "asleep"
      PROVE  Cardinality(VcAt("awake", j)') + current'[j] >= max_allowed'[j]
  <2>1. d \in ToSet(waiting_list[j]) /\ d \in Citizens
    BY <1>1 DEF VcInv, ToSet
  <2>2. Cardinality(VcAt("awake", j)) + current[j] >= max_allowed[j]
    BY <1>1, <1>5, <2>1 DEF VcInv, VcSeatsAreTaken
  <2> QED
    BY <1>1, <1>4, <2>2, VcCounted DEF VcInv
<1>6. VcSeatsAreTaken'
  BY <1>5 DEF VcSeatsAreTaken
<1>7. \A d : Type(d)' = Type(d)
  BY <1>1 DEF Type
<1> QED
  BY <1>1, <1>6, <1>7 DEF VcInv

\* Who leaves frees a seat and wakes a sleeper of its class, if one is listed.
LEMMA VcExitInv ==
  ASSUME VcInv, NEW c \in Citizens, Exit_Covid_Vaccination_Center(c)
  PROVE  VcInv'
<1> DEFINE k == Type(c)
           n == default_next_citizen(k)
<1>1. /\ k \in VcClasses /\ vc_at[c] = "inside"
      /\ current' = [current EXCEPT ![k] = @ - 1]
      /\ age' = age /\ max_allowed' = max_allowed /\ \A d : Type(d)' = Type(d)
  BY VcClass DEF Type, Exit_Covid_Vaccination_Center, vcConf
<1>2. /\ waiting_list' \in [VcClasses -> Seq(Citizens)]
      /\ \A j \in VcClasses : ToSet(waiting_list'[j]) \subseteq ToSet(waiting_list[j])
      /\ vc_at' \in [Citizens -> {"outside", "asleep", "awake", "inside", "gone"}]
      /\ \A d \in Citizens : vc_at[d] = "awake" => vc_at'[d] = "awake"
      /\ \A d \in Citizens : vc_at'[d] = "asleep" => vc_at[d] = "asleep"
      /\ \A d \in ToSet(waiting_list[k]) :
            vc_at[d] = "asleep" => \E s \in VcAt("asleep", k) : vc_at'[s] = "awake"
  <2> DEFINE fewer == [vc_at EXCEPT ![c] = "gone"]
  <2>1. CASE \A j \in VcClasses : waiting_list[j] = <<>>
    <3>1. vc_at' = fewer /\ waiting_list' = waiting_list
      BY <2>1, VcClassNames DEF Exit_Covid_Vaccination_Center
    <3>2. ToSet(waiting_list[k]) = {}
      BY <1>1, <2>1 DEF ToSet
    <3> QED
      BY <1>1, <3>1, <3>2 DEF VcInv
  <2>2. CASE ~\A j \in VcClasses : waiting_list[j] = <<>>
    <3>1. /\ n \in VcClasses /\ waiting_list[n] # <<>>
          /\ waiting_list[k] # <<>> => n = k
      BY <1>1, <2>2, VcOwnClassFirst
    <3>2. /\ waiting_list' = [waiting_list EXCEPT ![n] = Tail(@)]
          /\ IF VcAt("asleep", n) = {} THEN vc_at' = fewer
             ELSE \E s \in VcAt("asleep", n) : vc_at' = [fewer EXCEPT ![s] = "awake"]
      BY <2>2, VcClassNames DEF Exit_Covid_Vaccination_Center
    <3> HIDE DEF n
    <3>3. waiting_list' \in [VcClasses -> Seq(Citizens)]
      BY <3>1, <3>2 DEF VcInv
    <3>4. ToSet(Tail(waiting_list[n])) \subseteq ToSet(waiting_list[n])
      <4>1. waiting_list[n] \in Seq(Citizens)
        BY <3>1 DEF VcInv
      <4>2. /\ Len(Tail(waiting_list[n])) = Len(waiting_list[n]) - 1
            /\ \A i \in 1 .. Len(Tail(waiting_list[n])) :
                  /\ Tail(waiting_list[n])[i] = waiting_list[n][i + 1]
                  /\ i + 1 \in 1 .. Len(waiting_list[n])
        BY <3>1, <4>1
      <4>3. /\ DOMAIN Tail(waiting_list[n]) = 1 .. Len(Tail(waiting_list[n]))
            /\ DOMAIN waiting_list[n] = 1 .. Len(waiting_list[n])
        BY <3>1, <4>1
      <4> QED
        BY <4>2, <4>3 DEF ToSet
    <3>5. \A j \in VcClasses : ToSet(waiting_list'[j]) \subseteq ToSet(waiting_list[j])
      BY <3>1, <3>2, <3>4 DEF VcInv
    <3>6. VcAt("asleep", n) \subseteq Citizens /\ \A s \in VcAt("asleep", n) : vc_at[s] = "asleep"
      BY DEF VcAt
    <3>7. /\ vc_at' \in [Citizens -> {"outside", "asleep", "awake", "inside", "gone"}]
          /\ \A d \in Citizens : vc_at[d] = "awake" => vc_at'[d] = "awake"
          /\ \A d \in Citizens : vc_at'[d] = "asleep" => vc_at[d] = "asleep"
          /\ VcAt("asleep", n) # {} => \E s \in VcAt("asleep", n) : vc_at'[s] = "awake"
      BY <1>1, <3>2, <3>6 DEF VcInv
    <3>8. ASSUME NEW d \in ToSet(waiting_list[k]), vc_at[d] = "asleep"
          PROVE  \E s \in VcAt("asleep", k) : vc_at'[s] = "awake"
      <4>1. waiting_list[k] \in Seq(Citizens) /\ Type(d) = k
        BY <1>1, <3>8 DEF VcInv
      <4>2. d \in Citizens /\ waiting_list[k] # <<>>
        BY <4>1, <3>8 DEF ToSet
      <4>3. n = k /\ d \in VcAt("asleep", k)
        BY <3>1, <3>8, <4>1, <4>2 DEF VcAt
      <4> QED
        BY <3>7, <4>3
    <3> QED
      BY <3>3, <3>5, <3>7, <3>8
  <2> QED
    BY <2>1, <2>2
<1>3. /\ \A j \in VcClasses : VcAt("awake", j) \subseteq VcAt("awake", j)'
      /\ \A j \in VcClasses : VcAt("awake", j)' \in SUBSET Citizens
  BY <1>1, <1>2 DEF VcAt
<1>4. \A j \in VcClasses : /\ Cardinality(VcAt("awake", j)') \in Nat
                           /\ Cardinality(VcAt("awake", j)) <= Cardinality(VcAt("awake", j)')
  BY <1>3, VcCounted, CentreAssumption, FS_Subset, FS_CardinalityType
<1>5. ASSUME NEW d \in ToSet(waiting_list[k]), vc_at[d] = "asleep"
      PROVE  Cardinality(VcAt("awake", k)) + 1 <= Cardinality(VcAt("awake", k)')
  <2>1. PICK s \in VcAt("asleep", k) : vc_at'[s] = "awake"
    BY <1>2, <1>5
  <2>2. s \notin VcAt("awake", k) /\ s \in VcAt("awake", k)'
    BY <1>1, <2>1 DEF VcAt
  <2>3. VcAt("awake", k) \cup {s} \subseteq VcAt("awake", k)'
    BY <1>1, <1>3, <2>2
  <2>4. IsFiniteSet(VcAt("awake", k)')
    BY <1>1, <1>3, CentreAssumption, FS_Subset
  <2>5. Cardinality(VcAt("awake", k) \cup {s}) = Cardinality(VcAt("awake", k)) + 1
    BY <2>2, VcCounted, FS_AddElement
  <2> QED
    BY <2>3, <2>4, <2>5, FS_Subset
<1>6. ASSUME NEW j \in VcClasses, NEW d \in ToSet(waiting_list'[j]), vc_at'[d] = "asleep"
      PROVE  Cardinality(VcAt("awake", j)') + current'[j] >= max_allowed'[j]
  <2>0. d \in ToSet(waiting_list[j])
    BY <1>2
  <2>1. d \in ToSet(waiting_list[j]) /\ d \in Citizens
    BY <2>0 DEF VcInv, ToSet
  <2>2. vc_at[d] = "asleep"
    BY <1>2, <1>6, <2>1
  <2>3. Cardinality(VcAt("awake", j)) + current[j] >= max_allowed[j]
    BY <2>1, <2>2 DEF VcInv, VcSeatsAreTaken
  <2>4. /\ Cardinality(VcAt("awake", j)) \in Nat /\ Cardinality(VcAt("awake", j)') \in Nat
        /\ Cardinality(VcAt("awake", j)) <= Cardinality(VcAt("awake", j)')
        /\ current[j] \in Int /\ max_allowed[j] \in Int
    BY <1>4, VcCounted DEF VcInv
  <2>5. CASE j = k
    BY <1>1, <1>5, <2>1, <2>2, <2>3, <2>4, <2>5 DEF VcInv
  <2>6. CASE j # k
    BY <1>1, <2>3, <2>4, <2>6 DEF VcInv
  <2> QED
    BY <2>5, <2>6
<1>7. VcSeatsAreTaken'
  BY <1>6 DEF VcSeatsAreTaken
<1>8. /\ current' \in [VcClasses -> Int]
      /\ \A j \in VcClasses : current'[j] <= max_allowed'[j]
  BY <1>1 DEF VcInv
<1> QED
  BY <1>1, <1>2, <1>7, <1>8 DEF VcInv

\* Every step keeps it.
LEMMA VcNextInv == VcInv /\ [VcNext]_vcVars => VcInv'
<1> SUFFICES ASSUME VcInv, [VcNext]_vcVars PROVE VcInv'
  OBVIOUS
<1>1. CASE UNCHANGED <<age, max_allowed, current, waiting_list, vc_at>>
  <2>1. \A d : Type(d)' = Type(d)
    BY <1>1 DEF Type
  <2>2. \A j \in VcClasses : VcAt("awake", j)' = VcAt("awake", j)
    BY <1>1, <2>1 DEF VcAt
  <2> QED
    BY <1>1, <2>1, <2>2 DEF VcInv, VcSeatsAreTaken
<1> QED
  BY <1>1, VcEnterInv, VcExitInv, VcSpuriousInv
  DEF VcNext, vaccination_drive, Citizen_Apply_Vaccine, vcVars, vcConf

\* With a sleeper in its list and a free seat, a class has somebody awake.
LEMMA VcListedRemembered == VcInv => VcListedIsRemembered
<1> SUFFICES ASSUME VcInv, NEW k \in VcClasses, NEW c \in ToSet(waiting_list[k]), vc_at[c] = "asleep",
                    VcAt("awake", k) = {}
             PROVE  current[k] = max_allowed[k]
  BY VcClassNames DEF VcListedIsRemembered
<1>1. Cardinality(VcAt("awake", k)) = 0
  BY FS_EmptySet
<1> QED
  BY <1>1 DEF VcInv, VcSeatsAreTaken

----------------------------------------------------------------------------
(* The routing tables: the subscribers of the routes. *)

RtAnyData == RouteData \cup {"", "placeholder"}
RtSteps == {"idle", "add", "link", "announce", "update", "notify", "enter", "told",
            "remove", "unlink", "modify"}
RtPlace == [step : RtSteps, key : Keys \cup {<<>>}, node : 0 .. MaxNodes,
            new : 0 .. MaxNodes, then : {"idle", "enter"}]
RtNode == [key : Keys \cup {<<>>}, data : RtAnyData, subscriber_list : Seq(Subs)]

RtTypeOK ==
    /\ route_list \in Seq(Nodes) /\ rt_allocated \in 0 .. MaxNodes
    /\ route \in [Nodes -> RtNode]
    /\ rt_at \in [RtThreads -> RtPlace]
    /\ subs_id \in 1 .. Len(SubscribedDests) + 1
    /\ heard \in [Subs -> RtAnyData \cup {"nothing", "deleted"}]

RtListed(s, n) == s \in ToSet(route[n].subscriber_list)

\* A place that is right for thread t: the nodes it works on were allocated.
RtRightPlace(t, place, up_to) ==
    /\ place.node \in 0 .. up_to /\ place.new \in 0 .. up_to
    /\ place.step \in {"add", "link", "announce", "update"} => place.new # NoNode
    /\ place.step \in {"update", "notify", "told", "remove", "unlink", "modify"}
          => place.node # NoNode
    /\ place.step = "enter" => place.node # NoNode \/ place.new # NoNode
    /\ place.step = "modify" => place.key \in Keys
    /\ t = "publisher" => place.step \notin {"enter", "told"} /\ place.then = "idle"
    /\ t = "subscriber" => place.step \notin {"remove", "unlink", "modify"}

\* A subscription is done, or has entered the list in which its thread is to be
\* told; and no subscriber is in two lists.
RtOneList ==
    \A n \in Nodes, s \in Subs : RtListed(s, n) =>
        /\ n <= rt_allocated
        /\ \/ s < subs_id
           \/ s = subs_id /\ At("subscriber", "told") /\ rt_at["subscriber"].node = n
        /\ \A m \in Nodes : RtListed(s, m) => m = n

RtInv == /\ RtTypeOK /\ ToSet(route_list) \subseteq 1 .. rt_allocated
         /\ \A t \in RtThreads : RtRightPlace(t, rt_at[t], rt_allocated)
         /\ ~At("subscriber", "idle") => subs_id \in Subs
         /\ RtOneList

\* A step lets nobody fall behind, in the table or out of it.
RtStepKeepsUp ==
    \A n \in Nodes, s \in Subs :
        RtListed(s, n)' => \/ RtKnows(s, n)'
                           \/ RtListed(s, n) /\ ~RtKnows(s, n)
                           \/ RtComesLate(s, n)

\* A subscription and a thread are what the demonstration says.
LEMMA RtConstants ==
  /\ Subs = 1 .. Len(SubscribedDests) /\ Len(SubscribedDests) \in Nat
  /\ \A s \in Subs : <<SubscribedDests[s], FirstMask>> \in Keys
  /\ "publisher" \in RtThreads /\ "subscriber" \in RtThreads
  /\ Nodes = 1 .. MaxNodes /\ MaxNodes \in Nat /\ NoNode = 0 /\ NoNode \notin Nodes
BY RouteTableAssumption DEF Subs, Keys, RtThreads, Nodes, NoNode

\* A lookup finds nothing or a linked route.
LEMMA RtLookup ==
  ASSUME RtInv, NEW key
  PROVE  LET n == get_route_table_node_by_dest_and_mask(key)
         IN n = NoNode \/ n \in 1 .. rt_allocated
<1> DEFINE n == get_route_table_node_by_dest_and_mask(key)
           I == {i \in 1 .. Len(route_list) : route[route_list[i]].key = key}
<1>1. /\ route_list \in Seq(Nodes) /\ DOMAIN route_list = 1 .. Len(route_list)
      /\ ToSet(route_list) \subseteq 1 .. rt_allocated
  BY DEF RtInv, RtTypeOK
<1>2. CASE I = {}
  BY <1>2 DEF get_route_table_node_by_dest_and_mask, SelectInSeq
<1>3. CASE I # {}
  <2> DEFINE k == Min(I)
  <2>1. \E x \in I : \A y \in I : x <= y
    <3>1. I \in SUBSET Nat
      OBVIOUS
    <3> QED
      BY <1>3, <3>1, LeastElement
  <2>2. k \in I
    BY <2>1 DEF Min
  <2>3. k \in 1 .. Len(route_list) /\ k # 0
    BY <2>2
  <2>4. n = route_list[k]
    BY <1>3, <2>3 DEF get_route_table_node_by_dest_and_mask, SelectInSeq
  <2> HIDE DEF k, I
  <2>5. route_list[k] \in ToSet(route_list)
    BY <1>1, <2>3 DEF ToSet
  <2> QED
    BY <1>1, <2>4, <2>5
<1> QED
  BY <1>2, <1>3

\* At first the table is empty and nobody has subscribed.
LEMMA RtInitInv == RtInit => RtInv
<1> SUFFICES ASSUME RtInit PROVE RtInv
  OBVIOUS
<1>1. route_list = <<>> /\ <<>> \in Seq(Nodes) /\ <<>> \in Seq(Subs)
  BY EmptySeq, Zenon DEF RtInit, init_route_table
<1>2. ToSet(route_list) = {} /\ ToSet(<<>>) = {}
  BY <1>1 DEF ToSet
<1>3. subs_id = 1 /\ rt_allocated = 0 /\ heard = [s \in Subs |-> "nothing"]
  BY DEF RtInit
<1>4. /\ rt_at = [t \in RtThreads |-> Idle]
      /\ route = [n \in Nodes |-> [key |-> <<>>, data |-> "", subscriber_list |-> <<>>]]
  BY DEF RtInit
<1>5. RtTypeOK
  <2>1. Idle \in RtPlace
    BY RtConstants DEF Idle, RtSteps, RtPlace
  <2>2. [key |-> <<>>, data |-> "", subscriber_list |-> <<>>] \in RtNode
    BY <1>1 DEF RtAnyData, RtNode
  <2>3. /\ rt_allocated \in 0 .. MaxNodes /\ subs_id \in 1 .. Len(SubscribedDests) + 1
        /\ heard \in [Subs -> RtAnyData \cup {"nothing", "deleted"}]
    BY <1>3, RtConstants
  <2>4. route \in [Nodes -> RtNode] /\ rt_at \in [RtThreads -> RtPlace]
    BY <1>4, <2>1, <2>2, Zenon
  <2> QED
    BY <1>1, <2>3, <2>4, Zenon DEF RtTypeOK
<1>6. \A t \in RtThreads : rt_at[t] = Idle
  BY <1>4
<1>7. \A t \in RtThreads : RtRightPlace(t, rt_at[t], rt_allocated)
  BY <1>3, <1>6, RtConstants DEF RtRightPlace, Idle
<1>8. At("subscriber", "idle")
  BY <1>6, RtConstants DEF At, Idle
<1>9. RtOneList
  BY <1>2, <1>4 DEF RtOneList, RtListed
<1> QED
  BY <1>2, <1>5, <1>7, <1>8, <1>9 DEF RtInv

\* A step of thread t that enters nobody, neither ends nor begins a subscription
\* that is to be told, and goes to a right place keeps the invariant.
LEMMA RtGoes ==
  ASSUME RtInv, NEW t \in RtThreads, NEW place \in RtPlace,
         rt_at' = [rt_at EXCEPT ![t] = place],
         rt_at[t].step # "told", place.step # "told",
         t = "subscriber" /\ place.step # "idle" => subs_id \in Subs,
         route' \in [Nodes -> RtNode],
         \A n \in Nodes, s \in Subs : RtListed(s, n)' <=> RtListed(s, n),
         rt_allocated' \in rt_allocated .. MaxNodes, subs_id' = subs_id,
         RtRightPlace(t, place, rt_allocated'),
         route_list' \in Seq(Nodes), ToSet(route_list') \subseteq 1 .. rt_allocated',
         heard' \in [Subs -> RtAnyData \cup {"nothing", "deleted"}]
  PROVE  RtInv' /\ rt_at'[t] = place /\ \A u \in RtThreads \ {t} : rt_at'[u] = rt_at[u]
<1>1. rt_at'[t] = place /\ \A u \in RtThreads \ {t} : rt_at'[u] = rt_at[u]
  BY DEF RtInv, RtTypeOK
<1>2. rt_allocated \in Nat /\ rt_allocated' \in Nat /\ rt_allocated <= rt_allocated'
      /\ rt_allocated' \in 0 .. MaxNodes
  BY RtConstants DEF RtInv, RtTypeOK
<1>3. RtTypeOK'
  BY <1>2 DEF RtInv, RtTypeOK
<1>4. \A u \in RtThreads : RtRightPlace(u, rt_at'[u], rt_allocated')
  <2> SUFFICES ASSUME NEW u \in RtThreads \ {t} PROVE RtRightPlace(u, rt_at'[u], rt_allocated')
    BY <1>1
  <2>1. RtRightPlace(u, rt_at[u], rt_allocated)
    BY DEF RtInv
  <2> QED
    BY <1>1, <1>2, <2>1 DEF RtRightPlace
<1>5. ~At("subscriber", "idle")' => subs_id' \in Subs
  BY <1>1, RtConstants DEF RtInv, At
<1>6. \A n : At("subscriber", "told") /\ rt_at["subscriber"].node = n
                => At("subscriber", "told")' /\ rt_at'["subscriber"].node = n
  BY <1>1, RtConstants DEF At
<1>7. RtOneList'
  <2> SUFFICES ASSUME NEW n \in Nodes, NEW s \in Subs, RtListed(s, n)
               PROVE  /\ n <= rt_allocated'
                      /\ \/ s < subs_id
                         \/ s = subs_id /\ At("subscriber", "told")' /\ rt_at'["subscriber"].node = n
                      /\ \A m \in Nodes : RtListed(s, m) => m = n
    BY DEF RtOneList
  <2>1. /\ n <= rt_allocated /\ \A m \in Nodes : RtListed(s, m) => m = n
        /\ s < subs_id \/ (s = subs_id /\ At("subscriber", "told") /\ rt_at["subscriber"].node = n)
    BY DEF RtInv, RtOneList
  <2>2. n \in Nat
    BY RtConstants
  <2> QED
    BY <1>2, <1>6, <2>1, <2>2
<1> QED
  BY <1>1, <1>3, <1>4, <1>5, <1>7 DEF RtInv

\* If the step tells nobody and nobody's route becomes another, nobody falls behind.
LEMMA RtQuiet ==
  ASSUME RtInv, NEW t \in RtThreads, NEW place \in RtPlace,
         rt_at'[t] = place, \A u \in RtThreads \ {t} : rt_at'[u] = rt_at[u],
         rt_at[t].step \notin {"told", "notify"}, place.step # "unlink",
         \A n \in Nodes, s \in Subs :
            RtListed(s, n)' => RtListed(s, n) /\ route'[n].data = route[n].data,
         heard' = heard, subs_id' = subs_id
  PROVE  RtStepKeepsUp
<1> SUFFICES ASSUME NEW n \in Nodes, NEW s \in Subs, RtListed(s, n)', RtKnows(s, n)
             PROVE  RtKnows(s, n)'
  BY DEF RtStepKeepsUp
<1>1. route'[n].data = route[n].data
  OBVIOUS
<1>2. RtIsDeleted(n)' => RtIsDeleted(n)
  BY RtConstants DEF RtIsDeleted, At
<1>3. CASE heard[s] = "deleted" \/ (heard[s] = route[n].data /\ ~RtIsDeleted(n))
  BY <1>1, <1>2, <1>3 DEF RtKnows
<1>4. ASSUME NEW u \in RtThreads, At(u, "notify"), rt_at[u].node = n
      PROVE  RtKnows(s, n)'
  BY <1>4 DEF RtKnows, At
<1>5. CASE At("subscriber", "told") /\ rt_at["subscriber"].node = n /\ subs_id = s
  BY <1>5, RtConstants DEF RtKnows, At
<1> QED
  BY <1>3, <1>4, <1>5 DEF RtKnows

\* A thread makes a route and goes on to add it.
LEMMA RtCreates ==
  ASSUME RtInv, NEW t \in RtThreads, NEW key \in Keys, NEW data \in RtAnyData,
         NEW then \in {"idle", "enter"}, create_and_add(t, key, data, then),
         rt_at[t].step = "idle", subs_id' = subs_id, t = "publisher" => then = "idle",
         t = "subscriber" => subs_id \in Subs
  PROVE  RtInv' /\ RtStepKeepsUp
<1>0. PICK new : new = rt_allocated + 1
  OBVIOUS
<1> DEFINE node == [key |-> key, data |-> data, subscriber_list |-> <<>>]
           place == [step |-> "add", key |-> key, node |-> new, new |-> new, then |-> then]
<1>1. /\ rt_allocated < MaxNodes /\ rt_allocated' = new
      /\ route' = [route EXCEPT ![new] = node]
      /\ rt_at' = [rt_at EXCEPT ![t] = place]
      /\ UNCHANGED <<route_list, rt_freed, heard>>
  BY <1>0 DEF create_and_add, Go
<1>2. /\ rt_allocated \in Nat /\ new \in Nodes /\ new \in 0 .. MaxNodes /\ ~(new <= rt_allocated)
      /\ new \in rt_allocated .. MaxNodes /\ new # NoNode /\ new \in 0 .. new
      /\ 1 .. rt_allocated \subseteq 1 .. new
  BY <1>0, <1>1, RtConstants DEF RtInv, RtTypeOK
<1>3. node \in RtNode /\ ToSet(node.subscriber_list) = {} /\ route \in [Nodes -> RtNode]
  BY EmptySeq DEF RtNode, RtInv, RtTypeOK, ToSet
<1>4. place \in RtPlace /\ place.step = "add" /\ place.node = new /\ place.new = new
      /\ place.then = then
  BY <1>2 DEF RtPlace, RtSteps
<1> HIDE DEF node, place
<1>5. \A s \in Subs : ~RtListed(s, new)
  BY <1>2 DEF RtInv, RtOneList
<1>6. /\ route' \in [Nodes -> RtNode] /\ route'[new] = node
      /\ \A n \in Nodes \ {new} : route'[n] = route[n]
  BY <1>1, <1>2, <1>3
<1>7. \A s \in Subs : ~RtListed(s, new)'
  BY <1>3, <1>6 DEF RtListed
<1>8. \A n \in Nodes \ {new}, s \in Subs : RtListed(s, n)' <=> RtListed(s, n)
  BY <1>6 DEF RtListed
<1>9. RtRightPlace(t, place, rt_allocated')
  BY <1>1, <1>2, <1>4 DEF RtRightPlace
<1>10. route_list' \in Seq(Nodes) /\ ToSet(route_list') \subseteq 1 .. rt_allocated'
       /\ heard' \in [Subs -> RtAnyData \cup {"nothing", "deleted"}]
  BY <1>1, <1>2 DEF RtInv, RtTypeOK
<1>11. \A n \in Nodes, s \in Subs : RtListed(s, n)' <=> RtListed(s, n)
  BY <1>5, <1>7, <1>8
<1>12. RtInv' /\ rt_at'[t] = place /\ \A u \in RtThreads \ {t} : rt_at'[u] = rt_at[u]
  BY <1>1, <1>2, <1>4, <1>6, <1>9, <1>10, <1>11, RtGoes
<1>13. \A n \in Nodes, s \in Subs :
          RtListed(s, n)' => RtListed(s, n) /\ route'[n].data = route[n].data
  BY <1>6, <1>7, <1>8
<1>14. RtStepKeepsUp
  BY <1>1, <1>4, <1>12, <1>13, RtQuiet
<1> QED
  BY <1>12, <1>14

\* A thread goes on from a lookup, or links or unlinks a route: no route is written
\* and nobody is told.
LEMMA RtGoesOn ==
  ASSUME RtInv, NEW t \in RtThreads, NEW place \in RtPlace,
         rt_at' = [rt_at EXCEPT ![t] = place],
         rt_at[t].step \notin {"told", "notify"}, place.step \notin {"told", "unlink"},
         t = "subscriber" /\ place.step # "idle" => subs_id \in Subs,
         RtRightPlace(t, place, rt_allocated),
         UNCHANGED <<route, rt_allocated, subs_id, heard>>,
         route_list' \in Seq(Nodes), ToSet(route_list') \subseteq 1 .. rt_allocated
  PROVE  RtInv' /\ RtStepKeepsUp
<1>1. /\ route' \in [Nodes -> RtNode] /\ rt_allocated' \in rt_allocated .. MaxNodes
      /\ heard' \in [Subs -> RtAnyData \cup {"nothing", "deleted"}]
      /\ \A n \in Nodes, s \in Subs : RtListed(s, n)' <=> RtListed(s, n)
  BY RtConstants DEF RtInv, RtTypeOK, RtListed
<1>2. RtInv' /\ rt_at'[t] = place /\ \A u \in RtThreads \ {t} : rt_at'[u] = rt_at[u]
  BY <1>1, RtGoes
<1>3. RtStepKeepsUp
  BY <1>1, <1>2, RtQuiet
<1> QED
  BY <1>2, <1>3

\* A place is a place, and right for its thread.
LEMMA RtAPlace ==
  ASSUME RtInv, NEW t \in RtThreads
  PROVE  /\ rt_at[t] \in RtPlace /\ RtRightPlace(t, rt_at[t], rt_allocated)
         /\ rt_allocated \in Nat /\ rt_allocated <= MaxNodes /\ MaxNodes \in Nat
         /\ 1 .. rt_allocated \subseteq Nodes /\ 0 .. rt_allocated \subseteq 0 .. MaxNodes
         /\ t = "subscriber" /\ rt_at[t].step # "idle" => subs_id \in Subs
         /\ route_list \in Seq(Nodes) /\ ToSet(route_list) \subseteq 1 .. rt_allocated
BY RtConstants DEF RtInv, RtTypeOK, At

\* The steps of adding that tell nobody yet, but for the one that writes the route.
LEMMA RtAddsQuietly ==
  ASSUME RtInv, NEW t \in RtThreads, add_looks_up(t) \/ add_links(t)
  PROVE  RtInv' /\ RtStepKeepsUp
<1> DEFINE me == rt_at[t]
<1>1. /\ me \in RtPlace /\ RtRightPlace(t, me, rt_allocated)
      /\ 0 .. rt_allocated \subseteq 0 .. MaxNodes /\ 1 .. rt_allocated \subseteq Nodes
      /\ t = "subscriber" /\ me.step # "idle" => subs_id \in Subs
      /\ route_list \in Seq(Nodes) /\ ToSet(route_list) \subseteq 1 .. rt_allocated
      /\ rt_allocated \in Nat
  BY RtAPlace
<1>2. CASE add_looks_up(t)
  <2> DEFINE n == get_route_table_node_by_dest_and_mask(me.key)
             place == IF n = NoNode THEN [me EXCEPT !.step = "link"]
                      ELSE [me EXCEPT !.step = "update", !.node = n]
  <2>1. /\ me.step = "add" /\ rt_at' = [rt_at EXCEPT ![t] = place]
        /\ UNCHANGED <<route_list, route, rt_freed, rt_allocated, subs_id, heard>>
    BY <1>2 DEF add_looks_up, At, Go
  <2>2. n # NoNode => n \in 1 .. rt_allocated /\ n \in 0 .. rt_allocated
    BY <1>1, RtLookup
  <2> HIDE DEF n
  <2>3. /\ place \in RtPlace /\ place.new = me.new /\ place.then = me.then
        /\ \/ place.step = "link" /\ place.node = me.node
           \/ place.step = "update" /\ place.node = n /\ n # NoNode
    BY <1>1, <2>2 DEF RtPlace, RtSteps
  <2> HIDE DEF place
  <2>4. RtRightPlace(t, place, rt_allocated)
    BY <1>1, <2>1, <2>2, <2>3 DEF RtRightPlace
  <2> QED
    BY <1>1, <2>1, <2>3, <2>4, RtGoesOn
<1>3. CASE add_links(t)
  <2> DEFINE l == <<me.new>> \o route_list
             place == [me EXCEPT !.step = "announce"]
  <2>1. /\ me.step = "link" /\ rt_at' = [rt_at EXCEPT ![t] = place] /\ route_list' = l
        /\ UNCHANGED <<route, rt_freed, rt_allocated, subs_id, heard>>
    BY <1>3 DEF add_links, At, Go
  <2>2. me.new \in 1 .. rt_allocated /\ me.new \in Nodes
    BY <1>1, <2>1, RtConstants DEF RtRightPlace
  <2>3. l \in Seq(Nodes) /\ ToSet(l) = ToSet(route_list) \cup {me.new}
    BY <1>1, <2>2, ListWithFirst
  <2> HIDE DEF l
  <2>4. /\ place \in RtPlace /\ place.step = "announce" /\ place.new = me.new
        /\ place.then = me.then /\ place.node = me.node
    BY <1>1 DEF RtPlace, RtSteps
  <2> HIDE DEF place
  <2>5. RtRightPlace(t, place, rt_allocated)
    BY <1>1, <2>1, <2>4 DEF RtRightPlace
  <2>6. route_list' \in Seq(Nodes) /\ ToSet(route_list') \subseteq 1 .. rt_allocated
    BY <1>1, <2>1, <2>2, <2>3
  <2> QED
    BY <1>1, <2>1, <2>4, <2>5, <2>6, RtGoesOn
<1> QED
  BY <1>2, <1>3

\* What is written to a route will be told.
LEMMA RtWrites ==
  ASSUME RtInv, NEW t \in RtThreads,
         add_updates(t) \/ (t = "publisher" /\ modify_route_table_node)
  PROVE  RtInv' /\ RtStepKeepsUp
<1> DEFINE me == rt_at[t]
           n == me.node
           place == [me EXCEPT !.step = "notify"]
<1>1. /\ me \in RtPlace /\ RtRightPlace(t, me, rt_allocated)
      /\ 0 .. rt_allocated \subseteq 0 .. MaxNodes /\ 1 .. rt_allocated \subseteq Nodes
      /\ t = "subscriber" /\ me.step # "idle" => subs_id \in Subs
      /\ route_list \in Seq(Nodes) /\ ToSet(route_list) \subseteq 1 .. rt_allocated
      /\ rt_allocated \in Nat /\ rt_allocated <= MaxNodes
  BY RtAPlace
<1>2. /\ me.step \in {"update", "modify"} /\ rt_at' = [rt_at EXCEPT ![t] = place]
      /\ UNCHANGED <<route_list, rt_freed, rt_allocated, subs_id, heard>>
  BY DEF add_updates, modify_route_table_node, At, Go
<1>3. n \in Nodes /\ (me.step = "update" => me.new \in Nodes) /\ (me.step = "modify" => me.key \in Keys)
      /\ n # NoNode
  BY <1>1, <1>2, RtConstants DEF RtRightPlace
<1>4. route \in [Nodes -> RtNode] /\ route[n] \in RtNode
  BY <1>3 DEF RtInv, RtTypeOK
<1>5. PICK new \in RtNode : /\ route' = [route EXCEPT ![n] = new]
                            /\ new.subscriber_list = route[n].subscriber_list
  <2>1. CASE add_updates(t)
    <3> DEFINE new == [route[n] EXCEPT !.data = route[me.new].data]
    <3>1. route[me.new] \in RtNode
      BY <1>3, <1>4, <2>1 DEF add_updates, At
    <3>2. new \in RtNode /\ new.subscriber_list = route[n].subscriber_list
      BY <1>4, <3>1 DEF RtNode
    <3>3. route' = [route EXCEPT ![n] = new]
      BY <2>1 DEF add_updates
    <3> QED
      BY <3>2, <3>3
  <2>2. CASE t = "publisher" /\ modify_route_table_node
    <3>1. PICK data \in RouteData \cup {route[n].data} :
             route' = [route EXCEPT ![n].key = me.key, ![n].data = data]
      BY <2>2 DEF modify_route_table_node
    <3> DEFINE half == [route[n] EXCEPT !.key = me.key]
               new == [half EXCEPT !.data = data]
    <3>2. me.key \in Keys
      BY <1>3, <2>2 DEF modify_route_table_node, At
    <3>3. new \in RtNode /\ new.subscriber_list = route[n].subscriber_list
      BY <1>4, <3>2 DEF RtNode, RtAnyData
    <3>4. route' = [[route EXCEPT ![n].key = me.key] EXCEPT ![n].data = data]
      BY <3>1
    <3>5. route' = [route EXCEPT ![n] = new]
      BY <1>3, <1>4, <3>4
    <3> QED
      BY <3>3, <3>5
  <2> QED
    BY <2>1, <2>2
<1>6. /\ place \in RtPlace /\ place.step = "notify" /\ place.node = n /\ place.then = me.then
      /\ place.new = me.new
  BY <1>1 DEF RtPlace, RtSteps
<1> HIDE DEF place
<1>7. /\ route' \in [Nodes -> RtNode]
      /\ \A m \in Nodes : /\ route'[m].subscriber_list = route[m].subscriber_list
                          /\ m # n => route'[m] = route[m]
  BY <1>3, <1>4, <1>5
<1>8. \A m \in Nodes, s \in Subs : RtListed(s, m)' <=> RtListed(s, m)
  BY <1>7 DEF RtListed
<1>9. RtRightPlace(t, place, rt_allocated)
  BY <1>1, <1>2, <1>6, <1>3 DEF RtRightPlace
<1>10. rt_allocated' \in rt_allocated .. MaxNodes
       /\ heard' \in [Subs -> RtAnyData \cup {"nothing", "deleted"}]
  BY <1>1, <1>2 DEF RtInv, RtTypeOK
<1>11. RtInv' /\ rt_at'[t] = place /\ \A u \in RtThreads \ {t} : rt_at'[u] = rt_at[u]
  BY <1>1, <1>2, <1>6, <1>7, <1>8, <1>9, <1>10, RtGoes
<1>12. RtStepKeepsUp
  <2> SUFFICES ASSUME NEW m \in Nodes, NEW s \in Subs, RtListed(s, m), RtKnows(s, m)
               PROVE  RtKnows(s, m)'
    BY <1>8 DEF RtStepKeepsUp
  <2>1. CASE m = n
    BY <1>6, <1>11, <2>1 DEF RtKnows, At
  <2>2. CASE m # n
    <3>1. route'[m].data = route[m].data /\ heard' = heard /\ subs_id' = subs_id
      BY <1>2, <1>7, <2>2
    <3>2. RtIsDeleted(m)' => RtIsDeleted(m)
      BY <1>6, <1>11, RtConstants DEF RtIsDeleted, At
    <3>3. CASE heard[s] = "deleted" \/ (heard[s] = route[m].data /\ ~RtIsDeleted(m))
      BY <3>1, <3>2, <3>3 DEF RtKnows
    <3>4. ASSUME NEW u \in RtThreads, At(u, "notify"), rt_at[u].node = m
          PROVE  RtKnows(s, m)'
      BY <1>2, <1>11, <3>4 DEF RtKnows, At
    <3>5. CASE At("subscriber", "told") /\ rt_at["subscriber"].node = m /\ subs_id = s
      BY <1>2, <1>11, <3>1, <3>5, RtConstants DEF RtKnows, At
    <3> QED
      BY <3>3, <3>4, <3>5 DEF RtKnows
  <2> QED
    BY <2>1, <2>2
<1> QED
  BY <1>11, <1>12

\* All in the list of a route hear what it is, or that it ends.
LEMMA RtTells ==
  ASSUME RtInv, NEW t \in RtThreads,
         add_announces(t) \/ add_notifies(t) \/ (t = "publisher" /\ remove_notifies)
  PROVE  RtInv' /\ RtStepKeepsUp
<1> DEFINE me == rt_at[t]
<1>1. /\ me \in RtPlace /\ RtRightPlace(t, me, rt_allocated)
      /\ 0 .. rt_allocated \subseteq 0 .. MaxNodes /\ 1 .. rt_allocated \subseteq Nodes
      /\ t = "subscriber" /\ me.step # "idle" => subs_id \in Subs
      /\ route_list \in Seq(Nodes) /\ ToSet(route_list) \subseteq 1 .. rt_allocated
      /\ rt_allocated \in Nat /\ rt_allocated <= MaxNodes
  BY RtAPlace
<1>2. PICK n, news, step :
         /\ heard' = [s \in Subs |-> IF RtListed(s, n) THEN news ELSE heard[s]]
         /\ rt_at' = [rt_at EXCEPT ![t] = [me EXCEPT !.step = step]]
         /\ \/ me.step = "announce" /\ n = me.new /\ step = me.then /\ news = route[n].data
            \/ me.step = "notify" /\ n = me.node /\ step = me.then /\ news = route[n].data
            \/ /\ me.step = "remove" /\ t = "publisher" /\ n = me.node /\ step = "unlink"
               /\ news = "deleted"
  BY DEF add_announces, add_notifies, remove_notifies, notify_subscribers, Go, At, RtListed
<1>3. UNCHANGED <<route_list, route, rt_allocated, subs_id>>
  BY DEF add_announces, add_notifies, remove_notifies
<1>4. n \in Nodes /\ n # NoNode
  BY <1>1, <1>2, RtConstants DEF RtRightPlace
<1>5. route \in [Nodes -> RtNode] /\ route[n] \in RtNode
  BY <1>4 DEF RtInv, RtTypeOK
<1> DEFINE place == [me EXCEPT !.step = step]
<1>6. /\ place \in RtPlace /\ place.step = step /\ place.node = me.node /\ place.new = me.new
      /\ place.then = me.then /\ place.key = me.key /\ step \in {"idle", "enter", "unlink"}
  BY <1>1, <1>2 DEF RtPlace, RtSteps
<1>7. rt_at' = [rt_at EXCEPT ![t] = place]
  BY <1>2
<1> HIDE DEF place
<1>8. RtRightPlace(t, place, rt_allocated)
  BY <1>1, <1>2, <1>4, <1>6 DEF RtRightPlace, RtPlace
<1>9. news \in RtAnyData \cup {"deleted"}
  BY <1>2, <1>5 DEF RtNode
<1>10. /\ heard' \in [Subs -> RtAnyData \cup {"nothing", "deleted"}]
       /\ rt_allocated' \in rt_allocated .. MaxNodes /\ route' \in [Nodes -> RtNode]
  BY <1>1, <1>2, <1>3, <1>5, <1>9 DEF RtInv, RtTypeOK
<1>11. \A m \in Nodes, s \in Subs : RtListed(s, m)' <=> RtListed(s, m)
  BY <1>3 DEF RtListed
<1>12. RtInv' /\ rt_at'[t] = place /\ \A u \in RtThreads \ {t} : rt_at'[u] = rt_at[u]
  <2>1. t = "subscriber" /\ place.step # "idle" => subs_id \in Subs
    BY <1>1, <1>2
  <2>2. me.step # "told" /\ place.step # "told"
    BY <1>2, <1>6
  <2>3. route_list' \in Seq(Nodes) /\ ToSet(route_list') \subseteq 1 .. rt_allocated'
    BY <1>1, <1>3
  <2> QED
    BY <1>3, <1>6, <1>7, <1>8, <1>10, <1>11, <2>1, <2>2, <2>3, RtGoes
<1>13. RtStepKeepsUp
  <2> SUFFICES ASSUME NEW m \in Nodes, NEW s \in Subs, RtListed(s, m), RtKnows(s, m)
               PROVE  RtKnows(s, m)' \/ RtComesLate(s, m)
    BY <1>11 DEF RtStepKeepsUp
  <2>1. CASE m = n
    <3>1. heard'[s] = news
      BY <1>2, <2>1
    <3>2. CASE news = "deleted"
      BY <3>1, <3>2 DEF RtKnows
    <3>3. CASE news = route[n].data /\ me.step \in {"announce", "notify"}
      <4>1. CASE RtIsDeleted(n)'
        <5>1. t = "subscriber" /\ RtIsDeleted(n)
          BY <1>1, <1>2, <1>6, <1>12, <3>3, <4>1, RtConstants
          DEF RtIsDeleted, At, RtRightPlace, RtThreads
        <5> QED
          BY <1>2, <2>1, <3>3, <5>1 DEF RtComesLate
      <4>2. CASE ~RtIsDeleted(n)'
        BY <1>3, <2>1, <3>1, <3>3, <4>2 DEF RtKnows
      <4> QED
        BY <4>1, <4>2
    <3> QED
      BY <1>2, <3>2, <3>3
  <2>2. CASE m # n
    <3>1. ~RtListed(s, n)
      BY <1>4, <2>2 DEF RtInv, RtOneList
    <3>2. heard'[s] = heard[s] /\ route'[m].data = route[m].data /\ subs_id' = subs_id
      BY <1>2, <1>3, <3>1
    <3>3. RtIsDeleted(m)' => RtIsDeleted(m)
      BY <1>2, <1>6, <1>12, <2>2, RtConstants DEF RtIsDeleted, At, RtPlace
    <3>4. CASE heard[s] = "deleted" \/ (heard[s] = route[m].data /\ ~RtIsDeleted(m))
      BY <3>2, <3>3, <3>4 DEF RtKnows
    <3>5. ASSUME NEW u \in RtThreads, At(u, "notify"), rt_at[u].node = m
          PROVE  RtKnows(s, m)'
      BY <1>2, <1>12, <2>2, <3>5 DEF RtKnows, At
    <3>6. CASE At("subscriber", "told") /\ rt_at["subscriber"].node = m /\ subs_id = s
      BY <1>2, <1>12, <3>2, <3>6, RtConstants DEF RtKnows, At
    <3> QED
      BY <3>4, <3>5, <3>6 DEF RtKnows
  <2> QED
    BY <2>1, <2>2
<1> QED
  BY <1>12, <1>13

\* The publisher looks a route up, or unlinks it.
LEMMA RtPublisherGoesOn ==
  ASSUME RtInv,
         \/ \E key \in Keys : publisher_finds(key, "remove", key)
         \/ \E key \in Keys, mask \in Masks : publisher_finds(key, "modify", <<key[1], mask>>)
         \/ remove_unlinks
  PROVE  RtInv' /\ RtStepKeepsUp
<1> DEFINE me == rt_at["publisher"]
<1>1. /\ me \in RtPlace /\ RtRightPlace("publisher", me, rt_allocated)
      /\ 0 .. rt_allocated \subseteq 0 .. MaxNodes /\ 1 .. rt_allocated \subseteq Nodes
      /\ route_list \in Seq(Nodes) /\ ToSet(route_list) \subseteq 1 .. rt_allocated
      /\ rt_allocated \in Nat /\ "publisher" \in RtThreads
  BY RtAPlace, RtConstants
<1>2. ASSUME NEW key \in Keys, NEW step \in {"remove", "modify"}, NEW new \in Keys,
             publisher_finds(key, step, new)
      PROVE  RtInv' /\ RtStepKeepsUp
  <2> DEFINE n == get_route_table_node_by_dest_and_mask(key)
             place == [Idle EXCEPT !.step = step, !.key = new, !.node = n]
  <2>1. /\ me.step = "idle" /\ n # NoNode /\ rt_at' = [rt_at EXCEPT !["publisher"] = place]
        /\ UNCHANGED <<route_list, route, rt_freed, rt_allocated, subs_id, heard>>
    BY <1>2 DEF publisher_finds, At, Go
  <2>2. n \in 0 .. rt_allocated /\ NoNode \in 0 .. rt_allocated /\ NoNode \in 0 .. MaxNodes
    BY <1>1, RtLookup, RtConstants
  <2> HIDE DEF n
  <2>3. /\ place \in RtPlace /\ place.step = step /\ place.node = n /\ place.key = new
        /\ place.then = "idle" /\ place.new = NoNode
    BY <1>1, <2>2 DEF RtPlace, RtSteps, Idle
  <2> HIDE DEF place
  <2>4. RtRightPlace("publisher", place, rt_allocated)
    BY <2>1, <2>2, <2>3 DEF RtRightPlace
  <2> QED
    BY <1>1, <2>1, <2>3, <2>4, RtGoesOn
<1>3. CASE remove_unlinks
  <2> DEFINE l == RemoveFirst(route_list, me.node)
  <2>1. /\ me.step = "unlink" /\ route_list' = l
        /\ rt_at' = [rt_at EXCEPT !["publisher"] = Idle]
        /\ UNCHANGED <<route, rt_allocated, subs_id, heard>>
    BY <1>3 DEF remove_unlinks, At, Go
  <2>2. l \in Seq(Nodes) /\ ToSet(l) \subseteq ToSet(route_list)
    BY <1>1, ListWithout
  <2> HIDE DEF l
  <2>3. Idle \in RtPlace /\ Idle.step = "idle" /\ RtRightPlace("publisher", Idle, rt_allocated)
    BY <1>1, RtConstants DEF Idle, RtPlace, RtSteps, RtRightPlace
  <2>4. route_list' \in Seq(Nodes) /\ ToSet(route_list') \subseteq 1 .. rt_allocated
    BY <1>1, <2>1, <2>2
  <2> QED
    BY <1>1, <2>1, <2>3, <2>4, RtGoesOn
<1>4. \A key \in Keys, mask \in Masks : <<key[1], mask>> \in Keys
  BY DEF Keys
<1> QED
  BY <1>2, <1>3, <1>4

\* A subscription begins: the route is there, or a placeholder is made.
LEMMA RtSubscribes ==
  ASSUME RtInv, subscribe_looks_up
  PROVE  RtInv' /\ RtStepKeepsUp
<1> DEFINE key == <<SubscribedDests[subs_id], FirstMask>>
           n == get_route_table_node_by_dest_and_mask(key)
           place == [Idle EXCEPT !.step = "enter", !.key = key, !.node = n]
<1>1. rt_at["subscriber"].step = "idle" /\ subs_id \in Subs /\ subs_id' = subs_id /\ key \in Keys
  BY RtConstants DEF subscribe_looks_up, At
<1>2. CASE n = NoNode
  <2>1. create_and_add("subscriber", key, "placeholder", "enter")
    BY <1>2 DEF subscribe_looks_up
  <2> HIDE DEF key
  <2>2. "placeholder" \in RtAnyData
    BY DEF RtAnyData
  <2> QED
    BY <1>1, <2>1, <2>2, RtCreates, RtConstants
<1>3. CASE n # NoNode
  <2>1. /\ rt_at' = [rt_at EXCEPT !["subscriber"] = place]
        /\ UNCHANGED <<route_list, route, rt_freed, rt_allocated, heard>>
    BY <1>3 DEF subscribe_looks_up, Go
  <2>2. /\ route_list \in Seq(Nodes) /\ ToSet(route_list) \subseteq 1 .. rt_allocated
        /\ 0 .. rt_allocated \subseteq 0 .. MaxNodes /\ rt_allocated \in Nat
    BY RtAPlace, RtConstants
  <2>3. n \in 0 .. rt_allocated /\ NoNode \in 0 .. rt_allocated /\ NoNode \in 0 .. MaxNodes
    BY <2>2, RtLookup, RtConstants
  <2> HIDE DEF n, key
  <2>4. /\ place \in RtPlace /\ place.step = "enter" /\ place.node = n /\ place.new = NoNode
    BY <1>1, <2>2, <2>3 DEF RtPlace, RtSteps, Idle
  <2> HIDE DEF place
  <2>5. RtRightPlace("subscriber", place, rt_allocated)
    BY <1>3, <2>3, <2>4 DEF RtRightPlace
  <2> QED
    BY <1>1, <2>1, <2>2, <2>4, <2>5, RtGoesOn, RtConstants
<1> QED
  BY <1>2, <1>3

\* The subscriber enters a list, and will be told what the route is unless it knows.
LEMMA RtEnters ==
  ASSUME RtInv, subscribe_enters
  PROVE  RtInv' /\ RtStepKeepsUp
<1> DEFINE me == rt_at["subscriber"]
           n == IF me.new = NoNode THEN me.node ELSE me.new
           l == <<subs_id>> \o route[n].subscriber_list
           place == IF me.new = NoNode THEN [me EXCEPT !.step = "told"] ELSE Idle
<1>0. "subscriber" \in RtThreads /\ "publisher" \in RtThreads /\ "publisher" # "subscriber"
  BY RtConstants
<1>1. /\ me \in RtPlace /\ RtRightPlace("subscriber", me, rt_allocated)
      /\ 0 .. rt_allocated \subseteq 0 .. MaxNodes /\ 1 .. rt_allocated \subseteq Nodes
      /\ rt_allocated \in Nat
  BY <1>0, RtAPlace
<1>2. /\ me.step = "enter"
      /\ route' = [route EXCEPT ![n].subscriber_list = l]
      /\ heard' = IF me.new = NoNode THEN heard ELSE [heard EXCEPT ![subs_id] = "placeholder"]
      /\ rt_at' = [rt_at EXCEPT !["subscriber"] = place]
      /\ subs_id' = IF me.new = NoNode THEN subs_id ELSE subs_id + 1
      /\ UNCHANGED <<route_list, rt_freed, rt_allocated>>
  BY DEF subscribe_enters, Go, At
<1>3. subs_id \in Subs /\ n \in 1 .. rt_allocated /\ n \in Nodes /\ n \in Nat /\ n <= rt_allocated
  BY <1>0, <1>1, <1>2, RtAPlace, RtConstants DEF RtRightPlace
<1>4. route \in [Nodes -> RtNode] /\ route[n] \in RtNode /\ heard \in [Subs -> RtAnyData \cup {"nothing", "deleted"}]
  BY <1>3 DEF RtInv, RtTypeOK
<1>5. l \in Seq(Subs) /\ ToSet(l) = ToSet(route[n].subscriber_list) \cup {subs_id}
  BY <1>3, <1>4, ListWithFirst DEF RtNode
<1>6. /\ place \in RtPlace
      /\ me.new = NoNode => place.step = "told" /\ place.node = n /\ place.new = NoNode
      /\ me.new # NoNode => place = Idle
      /\ RtRightPlace("subscriber", place, rt_allocated)
  <2>1. CASE me.new = NoNode
    <3> DEFINE told == [me EXCEPT !.step = "told"]
    <3>1. told \in RtPlace /\ told.step = "told" /\ told.node = me.node /\ told.new = me.new
      BY <1>1 DEF RtPlace, RtSteps
    <3> HIDE DEF told
    <3>2. RtRightPlace("subscriber", told, rt_allocated)
      BY <1>1, <1>2, <2>1, <3>1 DEF RtRightPlace
    <3> QED
      BY <2>1, <3>1, <3>2 DEF told
  <2>2. CASE me.new # NoNode
    BY <1>1, <2>2, RtConstants DEF Idle, RtPlace, RtSteps, RtRightPlace
  <2> QED
    BY <2>1, <2>2
<1> DEFINE entered == [route[n] EXCEPT !.subscriber_list = l]
<1>7. entered \in RtNode /\ entered.subscriber_list = l /\ entered.data = route[n].data
  BY <1>4, <1>5 DEF RtNode
<1>8. route' = [route EXCEPT ![n] = entered]
  BY <1>2
<1> HIDE DEF l, place, entered
<1>9. /\ route' \in [Nodes -> RtNode] /\ route'[n] = entered
      /\ \A m \in Nodes \ {n} : route'[m] = route[m]
  BY <1>3, <1>4, <1>7, <1>8
<1>10. /\ rt_at'["subscriber"] = place /\ rt_at'["publisher"] = rt_at["publisher"]
       /\ rt_at' \in [RtThreads -> RtPlace]
  BY <1>0, <1>2, <1>6 DEF RtInv, RtTypeOK
<1>11. \A m \in Nodes, s \in Subs : RtListed(s, m)' <=> RtListed(s, m) \/ (m = n /\ s = subs_id)
  BY <1>3, <1>5, <1>7, <1>9 DEF RtListed
<1>12. \A m \in Nodes, s \in Subs : RtListed(s, m) => /\ s < subs_id /\ m <= rt_allocated
                                                      /\ \A k \in Nodes : RtListed(s, k) => k = m
  BY <1>2 DEF RtInv, RtOneList, At
<1>13. RtInv'
  <2>1. RtTypeOK'
    <3>1. subs_id' \in 1 .. Len(SubscribedDests) + 1
      BY <1>2, <1>3, RtConstants
    <3>2. heard' \in [Subs -> RtAnyData \cup {"nothing", "deleted"}]
      BY <1>2, <1>4 DEF RtAnyData
    <3> QED
      BY <1>2, <1>9, <1>10, <3>1, <3>2 DEF RtInv, RtTypeOK
  <2>2. \A t \in RtThreads : RtRightPlace(t, rt_at'[t], rt_allocated')
    BY <1>2, <1>6, <1>10 DEF RtInv, RtThreads
  <2>3. ~At("subscriber", "idle")' => subs_id' \in Subs
    BY <1>2, <1>3, <1>6, <1>10 DEF At, Idle
  <2>4. RtOneList'
    <3> SUFFICES ASSUME NEW m \in Nodes, NEW s \in Subs, RtListed(s, m)'
                 PROVE  /\ m <= rt_allocated
                        /\ \/ s < subs_id'
                           \/ s = subs_id' /\ At("subscriber", "told")' /\ rt_at'["subscriber"].node = m
                        /\ \A k \in Nodes : RtListed(s, k)' => k = m
      BY <1>2 DEF RtOneList
    <3>1. CASE m = n /\ s = subs_id
      <4>1. \A k \in Nodes : RtListed(s, k)' => k = m
        BY <1>3, <1>11, <1>12, <3>1, RtConstants
      <4>2. CASE me.new = NoNode
        BY <1>2, <1>3, <1>6, <1>10, <3>1, <4>1, <4>2 DEF At
      <4>3. CASE me.new # NoNode
        BY <1>2, <1>3, <3>1, <4>1, <4>3, RtConstants
      <4> QED
        BY <4>2, <4>3
    <3>2. CASE RtListed(s, m)
      <4>1. s < subs_id /\ m <= rt_allocated /\ s # subs_id
        BY <1>3, <1>12, <3>2, RtConstants
      <4>2. \A k \in Nodes : RtListed(s, k)' => k = m
        BY <1>11, <1>12, <3>2, <4>1
      <4>3. s < subs_id'
        BY <1>2, <1>3, <4>1, RtConstants
      <4> QED
        BY <4>1, <4>2, <4>3
    <3> QED
      BY <1>11, <3>1, <3>2
  <2>5. ToSet(route_list') \subseteq 1 .. rt_allocated'
    BY <1>2 DEF RtInv
  <2> QED
    BY <2>1, <2>2, <2>3, <2>4, <2>5 DEF RtInv
<1>14. RtStepKeepsUp
  <2> SUFFICES ASSUME NEW m \in Nodes, NEW s \in Subs, RtListed(s, m)', RtListed(s, m) => RtKnows(s, m)
               PROVE  RtKnows(s, m)' \/ RtComesLate(s, m)
    BY DEF RtStepKeepsUp
  <2>0. RtIsDeleted(m)' <=> RtIsDeleted(m)
    BY <1>10 DEF RtIsDeleted, At
  <2>1. CASE m = n /\ s = subs_id
    <3>1. CASE me.new = NoNode
      BY <1>2, <1>6, <1>10, <2>1, <3>1 DEF RtKnows, At
    <3>2. CASE me.new # NoNode
      <4>1. heard'[s] = "placeholder" /\ route'[m].data = route[m].data
        BY <1>2, <1>4, <1>3, <1>7, <1>9, <2>1, <3>2
      <4> QED
        BY <1>2, <2>0, <2>1, <3>2, <4>1 DEF RtKnows, RtComesLate, At
    <3> QED
      BY <3>1, <3>2
  <2>2. CASE RtListed(s, m)
    <3>1. s < subs_id /\ s # subs_id
      BY <1>3, <1>12, <2>2, RtConstants
    <3>2. heard'[s] = heard[s] /\ route'[m].data = route[m].data
      BY <1>2, <1>4, <1>7, <1>9, <3>1
    <3>3. CASE heard[s] = "deleted" \/ (heard[s] = route[m].data /\ ~RtIsDeleted(m))
      BY <2>0, <3>2, <3>3 DEF RtKnows
    <3>4. ASSUME NEW u \in RtThreads, At(u, "notify"), rt_at[u].node = m
          PROVE  RtKnows(s, m)'
      BY <1>2, <1>10, <3>4 DEF RtKnows, At, RtThreads
    <3> QED
      BY <1>2, <2>2, <3>3, <3>4 DEF RtKnows, At
  <2> QED
    BY <1>11, <2>1, <2>2
<1> QED
  BY <1>13, <1>14

\* The subscriber is told what the route it entered is.
LEMMA RtIsTold ==
  ASSUME RtInv, subscribe_is_told
  PROVE  RtInv' /\ RtStepKeepsUp
<1> DEFINE me == rt_at["subscriber"]
           n == me.node
<1>0. "subscriber" \in RtThreads /\ "publisher" \in RtThreads /\ "publisher" # "subscriber"
  BY RtConstants
<1>1. /\ me.step = "told" /\ heard' = [heard EXCEPT ![subs_id] = route[n].data]
      /\ subs_id' = subs_id + 1 /\ rt_at' = [rt_at EXCEPT !["subscriber"] = Idle]
      /\ UNCHANGED <<route_list, route, rt_freed, rt_allocated>>
  BY DEF subscribe_is_told, At, Go
<1>2. subs_id \in Subs /\ n \in Nodes /\ rt_allocated \in Nat
  BY <1>0, <1>1, RtAPlace, RtConstants DEF RtRightPlace
<1>3. /\ route \in [Nodes -> RtNode] /\ route[n] \in RtNode
      /\ heard \in [Subs -> RtAnyData \cup {"nothing", "deleted"}]
  BY <1>2 DEF RtInv, RtTypeOK
<1>4. Idle.step = "idle" /\ Idle \in RtPlace /\ RtRightPlace("subscriber", Idle, rt_allocated)
  BY <1>2, RtConstants DEF Idle, RtSteps, RtPlace, RtRightPlace
<1>5. /\ rt_at'["subscriber"] = Idle /\ rt_at'["publisher"] = rt_at["publisher"]
      /\ rt_at' \in [RtThreads -> RtPlace]
  BY <1>0, <1>1, <1>4 DEF RtInv, RtTypeOK
<1>6. \A m, s : RtListed(s, m)' <=> RtListed(s, m)
  BY <1>1 DEF RtListed
<1>7. \A m \in Nodes, s \in Subs : RtListed(s, m) =>
         /\ s < subs_id \/ (s = subs_id /\ m = n)
         /\ m <= rt_allocated /\ \A k \in Nodes : RtListed(s, k) => k = m
  BY DEF RtInv, RtOneList
<1>8. RtInv'
  <2>1. RtTypeOK'
    <3>1. subs_id' \in 1 .. Len(SubscribedDests) + 1
      BY <1>1, <1>2, RtConstants
    <3>2. heard' \in [Subs -> RtAnyData \cup {"nothing", "deleted"}]
      BY <1>1, <1>3 DEF RtNode
    <3> QED
      BY <1>1, <1>5, <3>1, <3>2 DEF RtInv, RtTypeOK
  <2>2. \A t \in RtThreads : RtRightPlace(t, rt_at'[t], rt_allocated')
    BY <1>1, <1>4, <1>5 DEF RtInv, RtThreads
  <2>3. At("subscriber", "idle")'
    BY <1>4, <1>5 DEF At
  <2>4. \A m \in Nodes, s \in Subs : RtListed(s, m) => s < subs_id'
    BY <1>1, <1>2, <1>7, RtConstants
  <2>5. RtOneList'
    BY <1>1, <1>6, <1>7, <2>4 DEF RtOneList
  <2> QED
    BY <1>1, <2>1, <2>2, <2>3, <2>5 DEF RtInv
<1>9. RtStepKeepsUp
  <2> SUFFICES ASSUME NEW m \in Nodes, NEW s \in Subs, RtListed(s, m), RtKnows(s, m)
               PROVE  RtKnows(s, m)' \/ RtComesLate(s, m)
    BY <1>6 DEF RtStepKeepsUp
  <2>0. (RtIsDeleted(m)' <=> RtIsDeleted(m)) /\ route' = route
    BY <1>1, <1>5 DEF RtIsDeleted, At
  <2>1. CASE s = subs_id
    <3>1. m = n /\ heard'[s] = route[m].data
      BY <1>1, <1>2, <1>3, <1>7, <2>1, RtConstants
    <3> QED
      BY <2>0, <3>1 DEF RtKnows, RtComesLate
  <2>2. CASE s # subs_id
    <3>1. heard'[s] = heard[s]
      BY <1>1, <1>3, <2>2
    <3>2. CASE heard[s] = "deleted" \/ (heard[s] = route[m].data /\ ~RtIsDeleted(m))
      BY <2>0, <3>1, <3>2 DEF RtKnows
    <3>3. ASSUME NEW u \in RtThreads, At(u, "notify"), rt_at[u].node = m
          PROVE  RtKnows(s, m)'
      BY <1>1, <1>5, <3>3 DEF RtKnows, At, RtThreads
    <3> QED
      BY <2>2, <3>2, <3>3 DEF RtKnows
  <2> QED
    BY <2>1, <2>2
<1> QED
  BY <1>8, <1>9

\* Every step keeps the invariant and lets nobody fall behind.
LEMMA RtNextKeepsUp == RtInv /\ [RtNext]_rtVars => RtInv' /\ [RtKeepsUp]_rtVars
<1> SUFFICES ASSUME RtInv, [RtNext]_rtVars PROVE RtInv' /\ [RtKeepsUp]_rtVars
  OBVIOUS
<1>1. CASE UNCHANGED rtVars
  BY <1>1 DEF rtVars, RtInv, RtTypeOK, RtRightPlace, RtOneList, RtListed, At
<1>2. CASE RtNext
  <2>1. ASSUME NEW t \in RtThreads, add_route_table_node(t) PROVE RtInv' /\ RtStepKeepsUp
    BY <2>1, RtAddsQuietly, RtWrites, RtTells DEF add_route_table_node
  <2>2. ASSUME subscriber_thread_fn PROVE RtInv' /\ RtStepKeepsUp
    BY <2>1, <2>2, RtSubscribes, RtEnters, RtIsTold, RtConstants DEF subscriber_thread_fn
  <2>3. ASSUME NEW key \in Keys, NEW data \in RouteData, publisher_adds(key, data)
        PROVE  RtInv' /\ RtStepKeepsUp
    <3>1. /\ create_and_add("publisher", key, data, "idle") /\ subs_id' = subs_id
          /\ rt_at["publisher"].step = "idle" /\ data \in RtAnyData
      BY <2>3 DEF publisher_adds, At, RtAnyData
    <3> QED
      BY <3>1, RtCreates, RtConstants
  <2>4. ASSUME publisher_thread_fn PROVE RtInv' /\ RtStepKeepsUp
    BY <2>1, <2>3, <2>4, RtPublisherGoesOn, RtWrites, RtTells, RtConstants DEF publisher_thread_fn
  <2>5. RtInv' /\ RtStepKeepsUp
    BY <1>2, <2>2, <2>4 DEF RtNext
  <2>6. RtStepKeepsUp => RtKeepsUp
    BY DEF RtStepKeepsUp, RtKeepsUp, RtListed
  <2> QED
    BY <2>5, <2>6
<1> QED
  BY <1>1, <1>2

----------------------------------------------------------------------------
(* The routing tables: the clients of the notification chains. *)

NfAnyData == NfData \cup {"none"}
NfOps == {"NFC_UNKNOWN", "NFC_ADD", "NFC_MOD", "NFC_DEL"}
NfSteps == {"idle", "update", "link", "enter", "told", "invoke", "calls", "free"}
NfEntry == [dest : NfDests \cup {""}, data : NfAnyData, nfc : Seq(NfClients)]
NfPlace == [step : NfSteps, dest : NfDests \cup {""}, data : NfAnyData, entry : 0 .. MaxEntries,
            creates : BOOLEAN, op : NfOps, rest : Seq(NfClients)]
NfNews == [op : NfOps, data : NfAnyData]
NfNoNews == [op |-> "NFC_UNKNOWN", data |-> "none"]

NfTypeOK ==
    /\ rt_table \in Seq(Entries) /\ nf_allocated \in 0 .. MaxEntries
    /\ rt_entry \in [Entries -> NfEntry]
    /\ nf_at \in [NfThreads -> NfPlace]
    /\ nf_asked \in [NfClients -> Nat] /\ \A c \in NfClients : nf_asked[c] <= Len(NfWanted[c])
    /\ nf_heard \in [NfClients -> [NfDests -> NfNews]]

NfListed(c, e) == c \in ToSet(rt_entry[e].nfc)

\* Client c has asked for d, and it may have been told of it.
NfHasAsked(c, d) == \E k \in 1 .. nf_asked[c] : NfWanted[c][k] = d
NfHad(c, d) == \/ NfHasAsked(c, d)
               \/ NfIn(c, "told") /\ rt_entry[nf_at[c].entry].dest = d

\* Where a client may be: the entry it enters, and is told of, is one of the
\* destination that it asks for.
NfClientStands(c) ==
    LET me == nf_at[c]
    IN /\ me.step \in {"idle", "update", "link", "enter", "told"} /\ me.data = "none"
       /\ me.step # "idle" => /\ nf_asked[c] < Len(NfWanted[c])
                              /\ me.dest = NfWanted[c][nf_asked[c] + 1]
       /\ me.step \in {"link", "enter", "told"} => rt_entry[me.entry].dest = me.dest

\* Where the publisher may be: it calls nobody who is not in the chain.
NfPublisherStands ==
    LET me == nf_at[Publisher]
    IN /\ me.step \in {"idle", "update", "link", "invoke", "calls", "free"}
       /\ me.step \in {"idle", "update", "link"} => me.op # "NFC_DEL"
       /\ me.step \in {"update", "link"} => me.data # "none" /\ me.dest \in NfDests
       /\ me.step = "calls" => \A c \in ToSet(me.rest) : NfListed(c, me.entry)
       /\ me.step = "free" => me.op = "NFC_DEL"

NfStands(t) ==
    /\ nf_at[t].entry \in 0 .. nf_allocated
    /\ nf_at[t].step \in {"link", "enter", "told", "invoke", "calls", "free"}
          => nf_at[t].entry # NoEntry
    /\ t \in NfClients => NfClientStands(t)
    /\ t = Publisher => NfPublisherStands

\* A client in the chain of an entry has asked for it, or has just entered; and it
\* is in no other chain of the same destination.
NfOneChain ==
    \A e \in Entries, c \in NfClients : NfListed(c, e) =>
        /\ e <= nf_allocated
        /\ \/ NfHasAsked(c, rt_entry[e].dest)
           \/ NfIn(c, "told") /\ nf_at[c].entry = e
        /\ \A f \in Entries : NfListed(c, f) /\ rt_entry[f].dest = rt_entry[e].dest => f = e

NfInv == /\ NfTypeOK /\ ToSet(rt_table) \subseteq 1 .. nf_allocated
         /\ \A e \in 1 .. nf_allocated : rt_entry[e].dest \in NfDests
         /\ \A t \in NfThreads : NfStands(t)
         /\ NfOneChain
         /\ \A c \in NfClients, d \in NfDests : nf_heard[c][d] # NfNoNews => NfHad(c, d)

\* A step lets nobody fall behind, in the table or out of it, and takes nobody out
\* of a chain who is not told of the deletion.
NfStepKeepsUp ==
    \A e \in Entries, c \in NfClients :
        /\ NfListed(c, e)' => \/ NfKnows(c, e)'
                              \/ NfListed(c, e) /\ ~NfKnows(c, e)
                              \/ NfComesLate(c, e)
        /\ NfListed(c, e) /\ ~NfListed(c, e)' => NfIsDeleted(e) /\ ~IsToBeTold(c, e)

\* The clients are numbered, and the publisher comes after them.
LEMMA NfConstants ==
  /\ NfClients = 1 .. Len(NfWanted) /\ Len(NfWanted) \in Nat /\ Publisher = Len(NfWanted) + 1
  /\ Publisher \notin NfClients /\ Publisher \in NfThreads /\ NfClients \subseteq NfThreads
  /\ \A t \in NfThreads : t \in NfClients \/ t = Publisher
  /\ \A c \in NfClients : /\ NfWanted[c] \in Seq(NfDests) /\ Len(NfWanted[c]) \in Nat
                          /\ \A k \in 1 .. Len(NfWanted[c]) : NfWanted[c][k] \in NfDests
                          /\ \A j, k \in 1 .. Len(NfWanted[c]) : NfWanted[c][j] = NfWanted[c][k] => j = k
  /\ Entries = 1 .. MaxEntries /\ MaxEntries \in Nat /\ NoEntry = 0 /\ NoEntry \notin Entries
<1>1. /\ NfClients = 1 .. Len(NfWanted) /\ Len(NfWanted) \in Nat /\ Publisher = Len(NfWanted) + 1
      /\ Publisher \notin NfClients /\ Publisher \in NfThreads /\ NfClients \subseteq NfThreads
      /\ \A t \in NfThreads : t \in NfClients \/ t = Publisher
  BY NotifChainAssumption DEF NfClients, Publisher, NfThreads
<1>2. ASSUME NEW c \in NfClients
      PROVE  /\ NfWanted[c] \in Seq(NfDests) /\ Len(NfWanted[c]) \in Nat
             /\ \A k \in 1 .. Len(NfWanted[c]) : NfWanted[c][k] \in NfDests
             /\ \A j, k \in 1 .. Len(NfWanted[c]) : NfWanted[c][j] = NfWanted[c][k] => j = k
  <2>1. NfWanted[c] \in Seq(NfDests) /\ IsInjective(NfWanted[c])
    BY <1>1, NotifChainAssumption DEF NfClients
  <2>2. DOMAIN NfWanted[c] = 1 .. Len(NfWanted[c]) /\ Len(NfWanted[c]) \in Nat
    BY <2>1
  <2>3. \A k \in 1 .. Len(NfWanted[c]) : NfWanted[c][k] \in NfDests
    BY <2>1
  <2> QED
    BY <2>1, <2>2, <2>3 DEF IsInjective
<1> QED
  BY <1>1, <1>2, NotifChainAssumption DEF Entries, NoEntry

\* A lookup finds nothing or a linked entry of the destination.
LEMMA NfLookup ==
  ASSUME NfInv, NEW dest
  PROVE  LET e == rt_look_up_rt_entry(dest)
         IN e = NoEntry \/ (e \in 1 .. nf_allocated /\ e \in Entries /\ rt_entry[e].dest = dest)
<1> DEFINE e == rt_look_up_rt_entry(dest)
           I == {i \in 1 .. Len(rt_table) : rt_entry[rt_table[i]].dest = dest}
<1>1. /\ rt_table \in Seq(Entries) /\ DOMAIN rt_table = 1 .. Len(rt_table)
      /\ ToSet(rt_table) \subseteq 1 .. nf_allocated
  BY DEF NfInv, NfTypeOK
<1>2. CASE I = {}
  BY <1>2 DEF rt_look_up_rt_entry, SelectInSeq
<1>3. CASE I # {}
  <2> DEFINE k == Min(I)
  <2>1. \E x \in I : \A y \in I : x <= y
    <3>1. I \in SUBSET Nat
      OBVIOUS
    <3> QED
      BY <1>3, <3>1, LeastElement
  <2>2. k \in I
    BY <2>1 DEF Min
  <2>3. k \in 1 .. Len(rt_table) /\ rt_entry[rt_table[k]].dest = dest /\ k # 0
    BY <2>2
  <2>4. e = rt_table[k]
    BY <1>3, <2>3 DEF rt_look_up_rt_entry, SelectInSeq
  <2> HIDE DEF k, I
  <2>5. rt_table[k] \in ToSet(rt_table) /\ rt_table[k] \in Entries
    BY <1>1, <2>3 DEF ToSet
  <2> QED
    BY <1>1, <2>3, <2>4, <2>5
<1> QED
  BY <1>2, <1>3

\* At first the table is empty and nobody has asked for anything.
LEMMA NfInitInv == NfInit => NfInv
<1> SUFFICES ASSUME NfInit PROVE NfInv
  OBVIOUS
<1>1. rt_table = <<>> /\ <<>> \in Seq(Entries) /\ <<>> \in Seq(NfClients)
  BY EmptySeq, Zenon DEF NfInit, rt_init_rt_table
<1>2. ToSet(rt_table) = {} /\ ToSet(<<>>) = {}
  BY <1>1 DEF ToSet
<1>3. nf_allocated = 0 /\ nf_asked = [c \in NfClients |-> 0]
      /\ nf_heard = [c \in NfClients |-> [d \in NfDests |-> NfNoNews]]
  BY DEF NfInit, NfNoNews
<1>4. /\ nf_at = [t \in NfThreads |-> NotInACall]
      /\ rt_entry = [e \in Entries |-> [dest |-> "", data |-> "none", nfc |-> <<>>]]
  BY DEF NfInit
<1>5. /\ NotInACall.step = "idle" /\ NotInACall.data = "none" /\ NotInACall.entry = NoEntry
      /\ NotInACall.op # "NFC_DEL" /\ NotInACall \in NfPlace
  BY <1>1, NfConstants DEF NotInACall, NfPlace, NfSteps, NfAnyData, NfOps
<1>6. NfTypeOK
  <2>1. [dest |-> "", data |-> "none", nfc |-> <<>>] \in NfEntry /\ NfNoNews \in NfNews
    BY <1>1 DEF NfEntry, NfAnyData, NfNews, NfNoNews, NfOps
  <2>2. /\ nf_allocated \in 0 .. MaxEntries /\ nf_asked \in [NfClients -> Nat]
        /\ \A c \in NfClients : nf_asked[c] <= Len(NfWanted[c])
    BY <1>3, NfConstants
  <2>3. rt_entry \in [Entries -> NfEntry] /\ nf_at \in [NfThreads -> NfPlace]
    BY <1>4, <1>5, <2>1, Zenon
  <2>4. nf_heard \in [NfClients -> [NfDests -> NfNews]]
    BY <1>3, <2>1, Zenon
  <2> QED
    BY <1>1, <2>2, <2>3, <2>4, Zenon DEF NfTypeOK
<1>7. \A t \in NfThreads : NfStands(t)
  <2> SUFFICES ASSUME NEW t \in NfThreads PROVE NfStands(t)
    OBVIOUS
  <2>1. nf_at[t] = NotInACall
    BY <1>4
  <2>2. t \in NfClients => NfClientStands(t)
    BY <1>5, <2>1 DEF NfClientStands
  <2>3. t = Publisher => NfPublisherStands
    BY <1>5, <2>1 DEF NfPublisherStands
  <2> QED
    BY <1>3, <1>5, <2>1, <2>2, <2>3, NfConstants DEF NfStands
<1>8. \A e \in Entries : ToSet(rt_entry[e].nfc) = {}
  BY <1>2, <1>4
<1>9. NfOneChain /\ \A e \in 1 .. nf_allocated : rt_entry[e].dest \in NfDests
  BY <1>3, <1>8 DEF NfOneChain, NfListed
<1>10. \A c \in NfClients, d \in NfDests : nf_heard[c][d] # NfNoNews => NfHad(c, d)
  BY <1>3
<1> QED
  BY <1>2, <1>6, <1>7, <1>9, <1>10 DEF NfInv

\* What the invariant says of the place of a thread.
LEMMA NfAPlace ==
  ASSUME NfInv, NEW t \in NfThreads
  PROVE  /\ nf_at[t] \in NfPlace /\ NfStands(t)
         /\ nf_allocated \in Nat /\ nf_allocated <= MaxEntries /\ MaxEntries \in Nat
         /\ 1 .. nf_allocated \subseteq Entries /\ 0 .. nf_allocated \subseteq 0 .. MaxEntries
         /\ rt_table \in Seq(Entries) /\ ToSet(rt_table) \subseteq 1 .. nf_allocated
         /\ rt_entry \in [Entries -> NfEntry] /\ nf_heard \in [NfClients -> [NfDests -> NfNews]]
BY NfConstants DEF NfInv, NfTypeOK

\* A step of thread t that changes no chain, answers no registration and goes to
\* a right place keeps the invariant.
LEMMA NfGoes ==
  ASSUME NfInv, NEW t \in NfThreads, NEW place \in NfPlace,
         nf_at' = [nf_at EXCEPT ![t] = place],
         nf_at[t].step # "told", place.step # "told",
         rt_entry' \in [Entries -> NfEntry],
         \A e \in 1 .. nf_allocated : rt_entry'[e].dest = rt_entry[e].dest,
         \A e \in Entries, c \in NfClients : NfListed(c, e)' <=> NfListed(c, e),
         nf_allocated' \in nf_allocated .. MaxEntries,
         \A e \in 1 .. nf_allocated' : rt_entry'[e].dest \in NfDests,
         nf_asked' = nf_asked, nf_heard' \in [NfClients -> [NfDests -> NfNews]],
         \A c \in NfClients, d \in NfDests : nf_heard'[c][d] = nf_heard[c][d] \/ NfHad(c, d),
         NfStands(t)',
         rt_table' \in Seq(Entries), ToSet(rt_table') \subseteq 1 .. nf_allocated'
  PROVE  NfInv' /\ nf_at'[t] = place /\ \A u \in NfThreads \ {t} : nf_at'[u] = nf_at[u]
<1>1. nf_at'[t] = place /\ \A u \in NfThreads \ {t} : nf_at'[u] = nf_at[u]
  BY DEF NfInv, NfTypeOK
<1>2. nf_allocated \in Nat /\ nf_allocated' \in Nat /\ nf_allocated <= nf_allocated'
      /\ nf_allocated' \in 0 .. MaxEntries
  BY NfConstants DEF NfInv, NfTypeOK
<1>3. NfTypeOK'
  BY <1>2 DEF NfInv, NfTypeOK
<1>4. \A c \in NfClients : NfIn(c, "told")' <=> NfIn(c, "told")
  BY <1>1, NfConstants DEF NfIn
<1>5. \A c \in NfClients : NfIn(c, "told") => /\ nf_at'[c] = nf_at[c] /\ nf_at[c].entry \in 1 .. nf_allocated
                                              /\ rt_entry'[nf_at[c].entry].dest = rt_entry[nf_at[c].entry].dest
  <2> SUFFICES ASSUME NEW c \in NfClients, NfIn(c, "told")
               PROVE  nf_at'[c] = nf_at[c] /\ nf_at[c].entry \in 1 .. nf_allocated
    OBVIOUS
  <2>1. c \in NfThreads /\ NfStands(c)
    BY NfConstants DEF NfInv
  <2> QED
    BY <1>1, <1>2, <2>1, NfConstants DEF NfIn, NfStands
<1>6. \A u \in NfThreads \ {t} : NfStands(u)'
  <2> SUFFICES ASSUME NEW u \in NfThreads \ {t} PROVE NfStands(u)'
    OBVIOUS
  <2>1. NfStands(u) /\ nf_at'[u] = nf_at[u] /\ u \in NfThreads /\ nf_at[u] \in NfPlace
    BY <1>1 DEF NfInv, NfTypeOK
  <2>2. nf_at[u].entry \in 0 .. nf_allocated /\ nf_at[u].entry \in 0 .. nf_allocated'
    BY <1>2, <2>1 DEF NfStands
  <2>3. ASSUME u \in NfClients PROVE NfClientStands(u)'
    <3>1. nf_at[u].step \in {"link", "enter", "told"} => nf_at[u].entry \in 1 .. nf_allocated
      BY <1>2, <2>1, <2>2, NfConstants DEF NfStands
    <3> QED
      BY <2>1, <2>3, <3>1 DEF NfStands, NfClientStands
  <2>4. ASSUME u = Publisher PROVE NfPublisherStands'
    <3>1. NfPublisherStands /\ nf_at'[Publisher] = nf_at[Publisher]
      BY <2>1, <2>4 DEF NfStands
    <3>2. ASSUME nf_at[Publisher].step = "calls", NEW c \in ToSet(nf_at[Publisher].rest)
          PROVE  NfListed(c, nf_at[Publisher].entry)'
      <4>1. nf_at[Publisher].entry \in Entries
        BY <2>1, <2>2, <2>4, <3>2, NfConstants, NfAPlace DEF NfStands
      <4>3. NfListed(c, nf_at[Publisher].entry)
        BY <3>1, <3>2 DEF NfPublisherStands
      <4>2. c \in NfClients
        <5>1. nf_at[Publisher].rest \in Seq(NfClients)
          BY <2>1, <2>4 DEF NfPlace
        <5> QED
          BY <3>2, <5>1 DEF ToSet
      <4> QED
        BY <3>1, <4>1, <4>2, <4>3 DEF NfListed
    <3> QED
      BY <3>1, <3>2 DEF NfPublisherStands
  <2> QED
    BY <2>1, <2>2, <2>3, <2>4 DEF NfStands
<1>7. \A c, d : NfHasAsked(c, d)' <=> NfHasAsked(c, d)
  BY DEF NfHasAsked
<1>8. NfOneChain'
  <2> SUFFICES ASSUME NEW e \in Entries, NEW c \in NfClients, NfListed(c, e)
               PROVE  /\ e <= nf_allocated'
                      /\ \/ NfHasAsked(c, rt_entry'[e].dest)
                         \/ NfIn(c, "told")' /\ nf_at'[c].entry = e
                      /\ \A f \in Entries :
                            NfListed(c, f) /\ rt_entry'[f].dest = rt_entry'[e].dest => f = e
    BY <1>7 DEF NfOneChain
  <2>1. \A f \in Entries : NfListed(c, f) => f <= nf_allocated /\ f \in 1 .. nf_allocated
                                             /\ rt_entry'[f].dest = rt_entry[f].dest
    BY NfConstants, <1>2 DEF NfInv, NfOneChain
  <2>2. /\ NfHasAsked(c, rt_entry[e].dest) \/ (NfIn(c, "told") /\ nf_at[c].entry = e)
        /\ \A f \in Entries : NfListed(c, f) /\ rt_entry[f].dest = rt_entry[e].dest => f = e
    BY DEF NfInv, NfOneChain
  <2>3. e <= nf_allocated'
    BY <1>2, <2>1
  <2> QED
    BY <1>4, <1>5, <2>1, <2>2, <2>3
<1>9. \A c \in NfClients, d \in NfDests : NfHad(c, d) => NfHad(c, d)'
  BY <1>4, <1>5, <1>7 DEF NfHad
<1>10. \A c \in NfClients, d \in NfDests : nf_heard'[c][d] # NfNoNews => NfHad(c, d)'
  BY <1>9 DEF NfInv
<1>11. \A u \in NfThreads : NfStands(u)'
  BY <1>6
<1> QED
  BY <1>1, <1>3, <1>8, <1>10, <1>11 DEF NfInv

\* If nobody is told, no entry begins or ends to be deleted, and no run begins or
\* goes on, nobody falls behind.
LEMMA NfQuiet ==
  ASSUME NfInv, NEW t \in NfThreads, NEW place \in NfPlace,
         nf_at'[t] = place, \A u \in NfThreads \ {t} : nf_at'[u] = nf_at[u],
         nf_at[t].step \notin {"told", "invoke", "calls"},
         t = Publisher => nf_at[t].op # "NFC_DEL" /\ place.op # "NFC_DEL",
         \A e \in Entries, c \in NfClients : NfListed(c, e)' <=> NfListed(c, e),
         \A e \in Entries, c \in NfClients : NfListed(c, e) =>
            rt_entry'[e].data = rt_entry[e].data /\ rt_entry'[e].dest = rt_entry[e].dest,
         nf_heard' = nf_heard
  PROVE  NfStepKeepsUp
<1> SUFFICES ASSUME NEW e \in Entries, NEW c \in NfClients, NfListed(c, e), NfKnows(c, e)
             PROVE  NfKnows(c, e)'
  BY DEF NfStepKeepsUp
<1>1. rt_entry'[e].data = rt_entry[e].data /\ rt_entry'[e].dest = rt_entry[e].dest
  OBVIOUS
<1>2. NfIsDeleted(e)' <=> NfIsDeleted(e)
  BY NfConstants DEF NfIsDeleted
<1>3. IsToBeTold(c, e) => IsToBeTold(c, e)'
  BY DEF IsToBeTold, NfIn
<1>4. NfIn(c, "told") /\ nf_at[c].entry = e => NfIn(c, "told")' /\ nf_at'[c].entry = e
  BY NfConstants DEF NfIn
<1>5. nf_heard'[c][rt_entry'[e].dest] = nf_heard[c][rt_entry[e].dest]
  BY <1>1
<1> QED
  BY <1>1, <1>2, <1>3, <1>4, <1>5 DEF NfKnows

\* A step that touches no entry: a thread asks, finds, links or begins.
LEMMA NfGoesOn ==
  ASSUME NfInv, NEW t \in NfThreads, NEW place \in NfPlace,
         nf_at' = [nf_at EXCEPT ![t] = place],
         nf_at[t].step \notin {"told", "invoke", "calls"}, place.step # "told",
         t = Publisher => nf_at[t].op # "NFC_DEL" /\ place.op # "NFC_DEL",
         UNCHANGED <<rt_entry, nf_allocated, nf_asked, nf_heard>>, NfStands(t)',
         rt_table' \in Seq(Entries), ToSet(rt_table') \subseteq 1 .. nf_allocated
  PROVE  NfInv' /\ NfStepKeepsUp
<1>1. /\ \A e \in Entries, c \in NfClients : NfListed(c, e)' <=> NfListed(c, e)
      /\ rt_entry' \in [Entries -> NfEntry] /\ nf_heard' \in [NfClients -> [NfDests -> NfNews]]
      /\ nf_allocated' \in nf_allocated .. MaxEntries
      /\ \A e \in 1 .. nf_allocated' : rt_entry'[e].dest \in NfDests
  BY NfAPlace DEF NfListed, NfInv
<1>2. NfInv' /\ nf_at'[t] = place /\ \A u \in NfThreads \ {t} : nf_at'[u] = nf_at[u]
  BY <1>1, NfGoes
<1>3. NfStepKeepsUp
  BY <1>1, <1>2, NfQuiet
<1> QED
  BY <1>2, <1>3

\* A client asks for its next destination.
LEMMA NfAsks ==
  ASSUME NfInv, NEW c \in NfClients, register_looks_up(c)
  PROVE  NfInv' /\ NfStepKeepsUp
<1> DEFINE dest == NfWanted[c][nf_asked[c] + 1]
           e == rt_look_up_rt_entry(dest)
           place == [NotInACall EXCEPT !.step = IF e = NoEntry THEN "update" ELSE "enter",
                                       !.dest = dest, !.entry = e, !.creates = (e = NoEntry)]
<1>0. c \in NfThreads /\ c # Publisher
  BY NfConstants
<1>1. /\ nf_at[c].step = "idle" /\ nf_asked[c] # Len(NfWanted[c])
      /\ nf_at' = [nf_at EXCEPT ![c] = place]
      /\ UNCHANGED <<rt_table, rt_entry, nf_freed, nf_allocated, nf_asked, nf_heard>>
  BY DEF register_looks_up, NfGo, NfIn, Registered
<1>2. nf_asked[c] \in Nat /\ nf_asked[c] < Len(NfWanted[c])
  BY <1>1, NfConstants DEF NfInv, NfTypeOK
<1>3. dest \in NfDests
  <2>1. nf_asked[c] + 1 \in 1 .. Len(NfWanted[c])
    BY <1>2, NfConstants
  <2> QED
    BY <2>1, NfConstants
<1>4. e = NoEntry \/ (e \in 1 .. nf_allocated /\ e \in Entries /\ rt_entry[e].dest = dest)
  BY NfLookup
<1>5. nf_at \in [NfThreads -> NfPlace]
  BY DEF NfInv, NfTypeOK
<1> HIDE DEF e
<1>6. /\ place \in NfPlace /\ place.entry = e /\ place.dest = dest /\ place.data = "none"
      /\ place.step = (IF e = NoEntry THEN "update" ELSE "enter")
  <2>1. <<>> \in Seq(NfClients) /\ e \in 0 .. MaxEntries
    BY <1>4, EmptySeq, NfConstants
  <2> HIDE DEF dest
  <2> QED
    BY <1>3, <2>1 DEF NotInACall, NfPlace, NfSteps, NfAnyData, NfOps
<1> HIDE DEF place
<1>7. nf_at'[c] = place
  BY <1>0, <1>1, <1>5
<1>8. NfStands(c)'
  <2>1. nf_allocated \in Nat
    BY <1>0, NfAPlace
  <2>2. NfClientStands(c)'
    BY <1>1, <1>2, <1>4, <1>6, <1>7 DEF NfClientStands
  <2> QED
    BY <1>0, <1>1, <1>4, <1>6, <1>7, <2>1, <2>2, NfConstants DEF NfStands
<1>9. rt_table' \in Seq(Entries) /\ ToSet(rt_table') \subseteq 1 .. nf_allocated
  BY <1>0, <1>1, NfAPlace
<1>10. place.step # "told" /\ nf_at[c].step \notin {"told", "invoke", "calls"}
  BY <1>1, <1>6
<1> QED
  BY <1>0, <1>1, <1>6, <1>8, <1>9, <1>10, NfGoesOn

\* The publisher begins to update an entry.
LEMMA NfBegins ==
  ASSUME NfInv, NEW dest \in NfDests, NEW data \in NfData, publisher_updates(dest, data)
  PROVE  NfInv' /\ NfStepKeepsUp
<1> DEFINE place == [NotInACall EXCEPT !.step = "update", !.dest = dest, !.data = data,
                                       !.op = "NFC_MOD"]
<1>0. Publisher \in NfThreads /\ Publisher \notin NfClients
  BY NfConstants
<1>1. /\ nf_at[Publisher].step = "idle" /\ nf_at' = [nf_at EXCEPT ![Publisher] = place]
      /\ UNCHANGED <<rt_table, rt_entry, nf_freed, nf_allocated, nf_asked, nf_heard>>
  BY DEF publisher_updates, NfGo, NfIn
<1>2. /\ place \in NfPlace /\ place.step = "update" /\ place.data = data /\ place.dest = dest
      /\ place.op = "NFC_MOD" /\ place.entry = NoEntry
  <2>1. <<>> \in Seq(NfClients) /\ NoEntry \in 0 .. MaxEntries
    BY EmptySeq, NfConstants
  <2> QED
    BY <2>1 DEF NotInACall, NfPlace, NfSteps, NfAnyData, NfOps
<1> HIDE DEF place
<1>3. nf_at'[Publisher] = place
  BY <1>0, <1>1 DEF NfInv, NfTypeOK
<1>4. nf_at[Publisher].op # "NFC_DEL"
  BY <1>0, <1>1, NfAPlace DEF NfStands, NfPublisherStands
<1>5. data # "none"
  BY NotifChainAssumption
<1>6. NfStands(Publisher)'
  <2>1. nf_allocated \in Nat
    BY <1>0, NfAPlace
  <2>2. NfPublisherStands'
    BY <1>2, <1>3, <1>5 DEF NfPublisherStands
  <2> QED
    BY <1>0, <1>1, <1>2, <1>3, <2>1, <2>2, NfConstants DEF NfStands
<1>7. rt_table' \in Seq(Entries) /\ ToSet(rt_table') \subseteq 1 .. nf_allocated
  BY <1>0, <1>1, NfAPlace
<1> QED
  BY <1>0, <1>1, <1>2, <1>4, <1>6, <1>7, NfGoesOn

\* An entry is made, with nobody in its chain.
LEMMA NfCreates ==
  ASSUME NfInv, NEW t \in NfThreads, update_creates(t)
  PROVE  NfInv' /\ NfStepKeepsUp
<1> DEFINE me == nf_at[t]
<1>0. PICK new : new = nf_allocated + 1
  OBVIOUS
<1> DEFINE entry == [dest |-> me.dest, data |-> me.data, nfc |-> nfc_create_new_notif_chain]
           place == [me EXCEPT !.step = "link", !.entry = new]
<1>1. /\ me.step = "update" /\ nf_allocated < MaxEntries /\ nf_allocated' = new
      /\ rt_entry' = [rt_entry EXCEPT ![new] = entry]
      /\ nf_at' = [nf_at EXCEPT ![t] = place]
      /\ UNCHANGED <<rt_table, nf_freed, nf_asked, nf_heard>>
  BY <1>0 DEF update_creates, NfGo, NfIn
<1>2. /\ me \in NfPlace /\ NfStands(t) /\ nf_allocated \in Nat
      /\ rt_entry \in [Entries -> NfEntry] /\ nf_heard \in [NfClients -> [NfDests -> NfNews]]
      /\ rt_table \in Seq(Entries) /\ ToSet(rt_table) \subseteq 1 .. nf_allocated
      /\ t \in NfClients \/ t = Publisher
  BY NfAPlace, NfConstants
<1>3. /\ new \in Entries /\ new \in 0 .. MaxEntries /\ ~(new <= nf_allocated) /\ new # NoEntry
      /\ new \in nf_allocated .. MaxEntries /\ new \in 0 .. new
      /\ 1 .. nf_allocated \subseteq Entries /\ 1 .. new = 1 .. nf_allocated \cup {new}
      /\ new \notin 1 .. nf_allocated
  BY <1>0, <1>1, <1>2, NfConstants
<1>4. me.dest \in NfDests
  <2>1. CASE t = Publisher
    BY <1>1, <1>2, <2>1 DEF NfStands, NfPublisherStands
  <2>2. CASE t \in NfClients
    <3>1. nf_asked[t] < Len(NfWanted[t]) /\ me.dest = NfWanted[t][nf_asked[t] + 1] /\ nf_asked[t] \in Nat
      BY <1>1, <1>2, <2>2 DEF NfStands, NfClientStands, NfInv, NfTypeOK
    <3>2. nf_asked[t] + 1 \in 1 .. Len(NfWanted[t])
      BY <2>2, <3>1, NfConstants
    <3> QED
      BY <2>2, <3>1, <3>2, NfConstants
  <2> QED
    BY <1>2, <2>1, <2>2
<1>5. entry \in NfEntry /\ entry.dest = me.dest /\ ToSet(entry.nfc) = {}
  <2>1. <<>> \in Seq(NfClients) /\ ToSet(<<>>) = {}
    BY EmptySeq DEF ToSet
  <2> QED
    BY <1>2, <1>4, <2>1 DEF NfEntry, NfPlace, nfc_create_new_notif_chain
<1>6. /\ place \in NfPlace /\ place.step = "link" /\ place.entry = new /\ place.dest = me.dest
      /\ place.data = me.data /\ place.op = me.op
  BY <1>2, <1>3 DEF NfPlace, NfSteps
<1> HIDE DEF entry, place
<1>7. /\ rt_entry' \in [Entries -> NfEntry] /\ rt_entry'[new] = entry
      /\ \A e \in Entries \ {new} : rt_entry'[e] = rt_entry[e]
  BY <1>1, <1>2, <1>3, <1>5
<1>8. \A e \in Entries, c \in NfClients : NfListed(c, e)' <=> NfListed(c, e)
  <2>1. \A c \in NfClients : ~NfListed(c, new)
    BY <1>3 DEF NfInv, NfOneChain
  <2>2. \A c \in NfClients : \A e : e = new => ~NfListed(c, e)'
    BY <1>5, <1>7 DEF NfListed
  <2>3. \A e \in Entries \ {new}, c \in NfClients : NfListed(c, e)' <=> NfListed(c, e)
    BY <1>7 DEF NfListed
  <2> QED
    BY <2>1, <2>2, <2>3
<1>9. /\ \A e \in 1 .. nf_allocated : rt_entry'[e] = rt_entry[e] /\ rt_entry'[e].dest = rt_entry[e].dest
      /\ \A e \in 1 .. nf_allocated' : rt_entry'[e].dest \in NfDests
  <2>1. \A e \in 1 .. nf_allocated : rt_entry'[e] = rt_entry[e]
    BY <1>3, <1>7
  <2> QED
    BY <1>1, <1>3, <1>4, <1>5, <1>7, <2>1 DEF NfInv
<1>10. nf_at'[t] = place
  BY <1>1, <1>6 DEF NfInv, NfTypeOK
<1>11. NfStands(t)'
  <2>1. ASSUME t \in NfClients PROVE NfClientStands(t)'
    BY <1>1, <1>2, <1>5, <1>6, <1>7, <1>10, <2>1 DEF NfStands, NfClientStands
  <2>2. ASSUME t = Publisher PROVE NfPublisherStands'
    BY <1>1, <1>2, <1>6, <1>10, <2>2 DEF NfStands, NfPublisherStands
  <2> QED
    BY <1>1, <1>3, <1>6, <1>10, <2>1, <2>2 DEF NfStands
<1>12. /\ rt_table' \in Seq(Entries) /\ ToSet(rt_table') \subseteq 1 .. nf_allocated'
       /\ nf_heard' \in [NfClients -> [NfDests -> NfNews]]
       /\ \A c \in NfClients, d \in NfDests : nf_heard'[c][d] = nf_heard[c][d] \/ NfHad(c, d)
       /\ nf_at[t].step \notin {"told", "invoke", "calls"} /\ place.step # "told"
  BY <1>1, <1>2, <1>3, <1>6
<1>13. NfInv' /\ nf_at'[t] = place /\ \A u \in NfThreads \ {t} : nf_at'[u] = nf_at[u]
  BY <1>1, <1>3, <1>6, <1>7, <1>8, <1>9, <1>11, <1>12, NfGoes
<1>14. \A e \in Entries, c \in NfClients : NfListed(c, e) =>
          rt_entry'[e].data = rt_entry[e].data /\ rt_entry'[e].dest = rt_entry[e].dest
  <2>1. \A e \in Entries, c \in NfClients : NfListed(c, e) => e # new
    BY <1>3 DEF NfInv, NfOneChain
  <2> QED
    BY <1>7, <2>1
<1>15. t = Publisher => me.op # "NFC_DEL" /\ place.op # "NFC_DEL"
  BY <1>1, <1>2, <1>6 DEF NfStands, NfPublisherStands
<1>16. NfStepKeepsUp
  BY <1>1, <1>6, <1>8, <1>12, <1>13, <1>14, <1>15, NfQuiet
<1> QED
  BY <1>13, <1>16

\* The entry is linked: its maker goes on to enter it, or to run along its chain.
LEMMA NfLinks ==
  ASSUME NfInv, NEW t \in NfThreads, update_links(t)
  PROVE  NfInv' /\ NfStepKeepsUp
<1> DEFINE me == nf_at[t]
           l == <<me.entry>> \o rt_table
<1>1. /\ me.step = "link" /\ rt_table' = l
      /\ nf_at' = [nf_at EXCEPT ![t] = IF me.data = "none" THEN NfReturns(t)
                                       ELSE [me EXCEPT !.step = "invoke"]]
      /\ UNCHANGED <<rt_entry, nf_freed, nf_allocated, nf_asked, nf_heard>>
  BY DEF update_links, NfGo, NfIn
<1>2. /\ me \in NfPlace /\ NfStands(t) /\ nf_allocated \in Nat /\ 1 .. nf_allocated \subseteq Entries
      /\ rt_table \in Seq(Entries) /\ ToSet(rt_table) \subseteq 1 .. nf_allocated
      /\ t \in NfClients \/ t = Publisher
  BY NfAPlace, NfConstants
<1>3. me.entry \in 1 .. nf_allocated /\ me.entry \in Entries
  BY <1>1, <1>2, NfConstants DEF NfStands
<1>4. l \in Seq(Entries) /\ ToSet(l) = ToSet(rt_table) \cup {me.entry}
  BY <1>2, <1>3, ListWithFirst
<1> HIDE DEF l
<1>5. /\ t \in NfClients => me.data = "none" /\ t # Publisher
      /\ t = Publisher => me.data # "none" /\ me.op # "NFC_DEL"
  BY <1>1, <1>2, NfConstants DEF NfStands, NfClientStands, NfPublisherStands
<1>6. PICK step : /\ step = IF t \in NfClients THEN "enter" ELSE "invoke"
                  /\ nf_at' = [nf_at EXCEPT ![t] = [me EXCEPT !.step = step]]
  BY <1>1, <1>2, <1>5 DEF NfReturns
<1> DEFINE place == [me EXCEPT !.step = step]
<1>7. /\ place \in NfPlace /\ place.step = step /\ place.entry = me.entry /\ place.dest = me.dest
      /\ place.data = me.data /\ place.op = me.op
  BY <1>2, <1>6 DEF NfPlace, NfSteps
<1>8. nf_at' = [nf_at EXCEPT ![t] = place]
  BY <1>6
<1> HIDE DEF place
<1>9. nf_at'[t] = place
  BY <1>7, <1>8 DEF NfInv, NfTypeOK
<1>10. NfStands(t)'
  <2>1. ASSUME t \in NfClients PROVE NfClientStands(t)'
    BY <1>1, <1>2, <1>6, <1>7, <1>9, <2>1 DEF NfStands, NfClientStands
  <2>2. ASSUME t = Publisher PROVE NfPublisherStands'
    BY <1>5, <1>6, <1>7, <1>9, <2>2, NfConstants DEF NfStands, NfPublisherStands
  <2> QED
    BY <1>1, <1>2, <1>3, <1>7, <1>9, <2>1, <2>2, NfConstants DEF NfStands
<1>11. rt_table' \in Seq(Entries) /\ ToSet(rt_table') \subseteq 1 .. nf_allocated
  BY <1>1, <1>2, <1>3, <1>4
<1>12. /\ place.step # "told" /\ me.step \notin {"told", "invoke", "calls"}
       /\ t = Publisher => me.op # "NFC_DEL" /\ place.op # "NFC_DEL"
  BY <1>1, <1>5, <1>6, <1>7
<1> QED
  BY <1>1, <1>7, <1>8, <1>10, <1>11, <1>12, NfGoesOn

\* The publisher writes an entry, or takes it out of the table: it goes on to run
\* along the chain.
LEMMA NfAnnounces ==
  ASSUME NfInv, NEW e \in Entries, e \in 1 .. nf_allocated, NEW place \in NfPlace,
         nf_at' = [nf_at EXCEPT ![Publisher] = place],
         nf_at[Publisher].step \in {"idle", "update"},
         place.step = "invoke", place.entry = e,
         rt_entry' \in [Entries -> NfEntry],
         \A f \in Entries : /\ rt_entry'[f].dest = rt_entry[f].dest /\ rt_entry'[f].nfc = rt_entry[f].nfc
                            /\ f # e => rt_entry'[f].data = rt_entry[f].data,
         UNCHANGED <<nf_allocated, nf_asked, nf_heard>>,
         rt_table' \in Seq(Entries), ToSet(rt_table') \subseteq 1 .. nf_allocated
  PROVE  NfInv' /\ NfStepKeepsUp
<1>0. Publisher \in NfThreads /\ Publisher \notin NfClients
  BY NfConstants
<1>1. /\ \A f \in Entries, c \in NfClients : NfListed(c, f)' <=> NfListed(c, f)
      /\ nf_heard' \in [NfClients -> [NfDests -> NfNews]] /\ nf_allocated' \in nf_allocated .. MaxEntries
      /\ \A f \in 1 .. nf_allocated : rt_entry'[f].dest = rt_entry[f].dest
      /\ \A f \in 1 .. nf_allocated' : rt_entry'[f].dest \in NfDests
      /\ 1 .. nf_allocated \subseteq Entries /\ nf_allocated \in Nat
  <2>1. \A f \in Entries, c \in NfClients : NfListed(c, f)' <=> NfListed(c, f)
    BY DEF NfListed
  <2>2. /\ nf_heard \in [NfClients -> [NfDests -> NfNews]] /\ nf_allocated \in Nat
        /\ nf_allocated <= MaxEntries /\ MaxEntries \in Nat /\ 1 .. nf_allocated \subseteq Entries
    BY <1>0, NfAPlace
  <2>3. \A f \in 1 .. nf_allocated : rt_entry'[f].dest = rt_entry[f].dest /\ rt_entry[f].dest \in NfDests
    BY <2>2 DEF NfInv
  <2> QED
    BY <2>1, <2>2, <2>3
<1>2. nf_at'[Publisher] = place
  BY <1>0 DEF NfInv, NfTypeOK
<1>3. NfStands(Publisher)'
  BY <1>0, <1>1, <1>2, NfConstants DEF NfStands, NfPublisherStands
<1>4. NfInv' /\ \A u \in NfThreads \ {Publisher} : nf_at'[u] = nf_at[u]
  BY <1>0, <1>1, <1>2, <1>3, NfGoes
<1>5. nf_at[Publisher].op # "NFC_DEL"
  BY <1>0, NfAPlace DEF NfStands, NfPublisherStands
<1>6. NfStepKeepsUp
  <2> SUFFICES ASSUME NEW f \in Entries, NEW c \in NfClients, NfListed(c, f), NfKnows(c, f)
               PROVE  NfKnows(c, f)'
    BY <1>1 DEF NfStepKeepsUp
  <2>1. CASE f = e
    BY <1>0, <1>2, <2>1 DEF NfKnows, IsToBeTold, NfIn
  <2>2. CASE f # e
    <3>1. ~NfIsDeleted(f) /\ ~NfIsDeleted(f)'
      BY <1>2, <1>5, <2>2 DEF NfIsDeleted
    <3>2. nf_heard'[c][rt_entry'[f].dest] = nf_heard[c][rt_entry[f].dest] /\ rt_entry'[f].data = rt_entry[f].data
      BY <2>2
    <3>3. IsToBeTold(c, f) => IsToBeTold(c, f)'
      BY <1>4 DEF IsToBeTold, NfIn
    <3>4. NfIn(c, "told") /\ nf_at[c].entry = f => NfIn(c, "told")' /\ nf_at'[c].entry = f
      BY <1>0, <1>4, NfConstants DEF NfIn
    <3> QED
      BY <3>1, <3>2, <3>3, <3>4 DEF NfKnows
  <2> QED
    BY <2>1, <2>2
<1> QED
  BY <1>4, <1>6

\* The entry is there: the client goes on to enter it, and the publisher writes it.
LEMMA NfFinds ==
  ASSUME NfInv, NEW t \in NfThreads, update_finds(t)
  PROVE  NfInv' /\ NfStepKeepsUp
<1> DEFINE me == nf_at[t]
           e == rt_look_up_rt_entry(me.dest)
           found == [me EXCEPT !.entry = e]
<1>1. /\ me.step = "update" /\ e # NoEntry
      /\ IF found.data = "none"
         THEN nf_at' = [nf_at EXCEPT ![t] = [found EXCEPT !.step = "enter"]] /\ UNCHANGED rt_entry
         ELSE /\ nf_at' = [nf_at EXCEPT ![t] = [found EXCEPT !.step = "invoke"]]
              /\ rt_entry' = [rt_entry EXCEPT ![e].data = found.data]
      /\ UNCHANGED <<rt_table, nf_freed, nf_allocated, nf_asked, nf_heard>>
  BY DEF update_finds, NfGo, NfIn
<1>2. /\ me \in NfPlace /\ NfStands(t) /\ nf_allocated \in Nat
      /\ rt_table \in Seq(Entries) /\ ToSet(rt_table) \subseteq 1 .. nf_allocated
      /\ t \in NfClients \/ t = Publisher
      /\ rt_entry \in [Entries -> NfEntry] /\ nf_at \in [NfThreads -> NfPlace]
  BY NfAPlace, NfConstants DEF NfInv, NfTypeOK
<1>3. /\ e \in 1 .. nf_allocated /\ e \in Entries /\ rt_entry[e].dest = me.dest
      /\ e \in 0 .. nf_allocated /\ e \in 0 .. MaxEntries
  BY <1>1, NfLookup, NfConstants
<1> HIDE DEF e
<1>4. /\ found \in NfPlace /\ found.step = me.step /\ found.entry = e /\ found.dest = me.dest
      /\ found.data = me.data /\ found.op = me.op
  BY <1>2, <1>3 DEF NfPlace
<1> HIDE DEF found
<1>5. CASE t \in NfClients
  <2> DEFINE place == [found EXCEPT !.step = "enter"]
  <2>1. me.data = "none" /\ t # Publisher
    BY <1>2, <1>5, NfConstants DEF NfStands, NfClientStands
  <2>2. /\ place \in NfPlace /\ place.step = "enter" /\ place.entry = e /\ place.dest = me.dest
        /\ place.data = me.data
    BY <1>4 DEF NfPlace, NfSteps
  <2>3. nf_at' = [nf_at EXCEPT ![t] = place] /\ UNCHANGED rt_entry
    BY <1>1, <1>4, <2>1
  <2> HIDE DEF place
  <2>4. nf_at'[t] = place
    BY <1>2, <2>3
  <2>5. NfClientStands(t)'
    BY <1>1, <1>2, <1>3, <1>5, <2>1, <2>2, <2>3, <2>4 DEF NfStands, NfClientStands
  <2>6. NfStands(t)'
    BY <1>1, <1>3, <2>1, <2>2, <2>4, <2>5 DEF NfStands
  <2> QED
    BY <1>1, <1>2, <2>1, <2>2, <2>3, <2>6, NfGoesOn
<1>6. CASE t = Publisher
  <2> DEFINE place == [found EXCEPT !.step = "invoke"]
             new == [rt_entry[e] EXCEPT !.data = me.data]
  <2>1. me.data # "none"
    BY <1>1, <1>2, <1>6 DEF NfStands, NfPublisherStands
  <2>2. place \in NfPlace /\ place.step = "invoke" /\ place.entry = e
    BY <1>4 DEF NfPlace, NfSteps
  <2>3. nf_at' = [nf_at EXCEPT ![t] = place] /\ rt_entry' = [rt_entry EXCEPT ![e] = new]
    BY <1>1, <1>4, <2>1
  <2>4. /\ new \in NfEntry /\ new.dest = rt_entry[e].dest /\ new.nfc = rt_entry[e].nfc
    BY <1>2, <1>3 DEF NfEntry, NfPlace
  <2> HIDE DEF place, new
  <2>5. /\ rt_entry' \in [Entries -> NfEntry] /\ rt_entry'[e] = new
        /\ \A f \in Entries \ {e} : rt_entry'[f] = rt_entry[f]
    BY <1>2, <1>3, <2>3, <2>4
  <2>6. \A f \in Entries : /\ rt_entry'[f].dest = rt_entry[f].dest /\ rt_entry'[f].nfc = rt_entry[f].nfc
                           /\ f # e => rt_entry'[f].data = rt_entry[f].data
    BY <2>4, <2>5
  <2> QED
    BY <1>1, <1>2, <1>3, <1>6, <2>2, <2>3, <2>5, <2>6, NfAnnounces
<1> QED
  BY <1>2, <1>5, <1>6

\* The entry leaves the table, and its clients will be told.
LEMMA NfDeletion ==
  ASSUME NfInv, NEW dest \in NfDests, rt_delete_rt_entry(dest)
  PROVE  NfInv' /\ NfStepKeepsUp
<1>1. PICK e \in Entries : NfDeletes(dest, e) /\ rt_entry_remove(e) /\ UNCHANGED rt_entry
  BY DEF rt_delete_rt_entry
<1> DEFINE place == [NotInACall EXCEPT !.step = "invoke", !.dest = dest, !.entry = e, !.op = "NFC_DEL"]
           l == RemoveFirst(rt_table, e)
<1>2. /\ nf_at[Publisher].step = "idle" /\ e = rt_look_up_rt_entry(dest) /\ e # NoEntry
      /\ nf_at' = [nf_at EXCEPT ![Publisher] = place] /\ rt_table' = l
      /\ UNCHANGED <<rt_entry, nf_freed, nf_allocated, nf_asked, nf_heard>>
  BY <1>1 DEF NfDeletes, rt_entry_remove, NfGo, NfIn
<1>3. /\ rt_table \in Seq(Entries) /\ ToSet(rt_table) \subseteq 1 .. nf_allocated
      /\ rt_entry \in [Entries -> NfEntry]
  BY NfAPlace, NfConstants
<1>4. e \in 1 .. nf_allocated /\ e \in 0 .. MaxEntries /\ <<>> \in Seq(NfClients)
  BY <1>2, NfLookup, NfConstants, EmptySeq
<1>5. place \in NfPlace /\ place.step = "invoke" /\ place.entry = e
  BY <1>4 DEF NotInACall, NfPlace, NfSteps, NfAnyData, NfOps
<1>6. l \in Seq(Entries) /\ ToSet(l) \subseteq ToSet(rt_table)
  BY <1>3, ListWithout
<1> HIDE DEF place, l
<1>7. rt_table' \in Seq(Entries) /\ ToSet(rt_table') \subseteq 1 .. nf_allocated
  BY <1>2, <1>3, <1>6
<1> QED
  BY <1>2, <1>3, <1>4, <1>5, <1>7, NfAnnounces

\* The publisher runs along a chain: the elements that are there are called one by
\* one, each with the entry as it is.
LEMMA NfInvokes ==
  ASSUME NfInv, nfc_invoke_notif_chain(Publisher)
  PROVE  NfInv' /\ NfStepKeepsUp
<1> DEFINE me == nf_at[Publisher]
           e == me.entry
<1>0. Publisher \in NfThreads /\ Publisher \notin NfClients
  BY NfConstants
<1>1. /\ me.step \in {"invoke", "calls"}
      /\ UNCHANGED <<rt_table, rt_entry, nf_freed, nf_allocated, nf_asked>>
  BY DEF nfc_invoke_notif_chain, invoke_begins, invoke_calls, invoke_ends, NfIn
<1>2. /\ me \in NfPlace /\ NfStands(Publisher) /\ NfPublisherStands /\ nf_allocated \in Nat
      /\ nf_allocated <= MaxEntries /\ MaxEntries \in Nat
      /\ rt_table \in Seq(Entries) /\ ToSet(rt_table) \subseteq 1 .. nf_allocated
      /\ rt_entry \in [Entries -> NfEntry] /\ nf_heard \in [NfClients -> [NfDests -> NfNews]]
      /\ nf_at \in [NfThreads -> NfPlace]
  BY <1>0, NfAPlace DEF NfStands, NfInv, NfTypeOK
<1>3. e \in 1 .. nf_allocated /\ e \in Entries /\ e \in 0 .. MaxEntries
  BY <1>1, <1>2, NfConstants DEF NfStands
<1>4. rt_entry[e].dest \in NfDests /\ rt_entry[e].nfc \in Seq(NfClients) /\ rt_entry[e].data \in NfAnyData
  BY <1>2, <1>3 DEF NfInv, NfEntry
<1>5. \A f \in Entries, c \in NfClients : NfListed(c, f)' <=> NfListed(c, f)
  BY <1>1 DEF NfListed
<1>6. /\ rt_entry' \in [Entries -> NfEntry] /\ nf_allocated' \in nf_allocated .. MaxEntries
      /\ rt_table' \in Seq(Entries) /\ ToSet(rt_table') \subseteq 1 .. nf_allocated'
      /\ \A f \in 1 .. nf_allocated' : rt_entry'[f].dest \in NfDests
      /\ \A f \in 1 .. nf_allocated : rt_entry'[f].dest = rt_entry[f].dest
  BY <1>1, <1>2 DEF NfInv
<1>7. CASE invoke_begins(Publisher)
  <2> DEFINE place == [me EXCEPT !.step = "calls", !.rest = rt_entry[e].nfc]
  <2>1. /\ me.step = "invoke" /\ nf_at' = [nf_at EXCEPT ![Publisher] = place] /\ nf_heard' = nf_heard
    BY <1>7 DEF invoke_begins, NfGo, NfIn
  <2>2. /\ place \in NfPlace /\ place.step = "calls" /\ place.rest = rt_entry[e].nfc
        /\ place.entry = e /\ place.op = me.op
    BY <1>2, <1>4 DEF NfPlace, NfSteps
  <2> HIDE DEF place
  <2>3. nf_at'[Publisher] = place
    BY <1>0, <1>2, <2>1
  <2>4. NfStands(Publisher)'
    BY <1>0, <1>1, <1>2, <2>2, <2>3 DEF NfStands, NfPublisherStands, NfListed
  <2>5. NfInv' /\ \A u \in NfThreads \ {Publisher} : nf_at'[u] = nf_at[u]
    BY <1>0, <1>1, <1>2, <1>5, <1>6, <2>1, <2>2, <2>4, NfGoes
  <2>6. NfStepKeepsUp
    <3> SUFFICES ASSUME NEW f \in Entries, NEW c \in NfClients, NfListed(c, f), NfKnows(c, f)
                 PROVE  NfKnows(c, f)'
      BY <1>5 DEF NfStepKeepsUp
    <3>1. NfIsDeleted(f)' <=> NfIsDeleted(f)
      BY <2>2, <2>3 DEF NfIsDeleted
    <3>2. IsToBeTold(c, f) => IsToBeTold(c, f)'
      <4> SUFFICES ASSUME NEW t \in NfThreads, nf_at[t].entry = f,
                          NfIn(t, "invoke") \/ (NfIn(t, "calls") /\ c \in ToSet(nf_at[t].rest))
                   PROVE  IsToBeTold(c, f)'
        BY DEF IsToBeTold
      <4>1. CASE t = Publisher
        BY <1>0, <2>2, <2>3, <4>1 DEF IsToBeTold, NfIn, NfListed
      <4>2. CASE t # Publisher
        BY <2>5, <4>2 DEF IsToBeTold, NfIn
      <4> QED
        BY <4>1, <4>2
    <3>3. NfIn(c, "told") /\ nf_at[c].entry = f => NfIn(c, "told")' /\ nf_at'[c].entry = f
      BY <1>0, <2>5, NfConstants DEF NfIn
    <3> QED
      BY <1>1, <2>1, <3>1, <3>2, <3>3 DEF NfKnows
  <2> QED
    BY <2>5, <2>6
<1>8. CASE invoke_calls(Publisher)
  <2> DEFINE first == Head(me.rest)
             news == [op |-> me.op, data |-> rt_entry[e].data]
             place == [me EXCEPT !.rest = Tail(me.rest)]
  <2>1. /\ me.step = "calls" /\ me.rest # <<>> /\ nf_at' = [nf_at EXCEPT ![Publisher] = place]
        /\ nf_heard' = [nf_heard EXCEPT ![first][rt_entry[e].dest] = news]
    BY <1>8 DEF invoke_calls, test_cb, NfGo, NfIn
  <2>2. /\ first \in NfClients /\ Tail(me.rest) \in Seq(NfClients)
        /\ first \in ToSet(me.rest) /\ ToSet(Tail(me.rest)) \subseteq ToSet(me.rest)
        /\ \A c \in ToSet(me.rest) : c = first \/ c \in ToSet(Tail(me.rest))
    <3>1. me.rest \in Seq(NfClients)
      BY <1>2 DEF NfPlace
    <3> DEFINE r == me.rest
    <3> HIDE DEF r
    <3>2. r \in Seq(NfClients) /\ r # <<>>
      BY <2>1, <3>1 DEF r
    <3>3. /\ Head(r) = r[1] /\ 1 \in 1 .. Len(r) /\ Tail(r) \in Seq(NfClients) /\ Head(r) \in NfClients
          /\ Len(Tail(r)) = Len(r) - 1 /\ \A i \in 1 .. Len(r) - 1 : Tail(r)[i] = r[i + 1]
          /\ Len(r) \in Nat
      BY <3>2
    <3>4. DOMAIN r = 1 .. Len(r) /\ DOMAIN Tail(r) = 1 .. Len(r) - 1
      BY <3>2, <3>3
    <3>5. \A i \in 1 .. Len(r) : i = 1 \/ (i - 1 \in 1 .. Len(r) - 1 /\ Tail(r)[i - 1] = r[i])
      BY <3>3
    <3>6. \A i \in 1 .. Len(r) - 1 : i + 1 \in 1 .. Len(r) /\ Tail(r)[i] = r[i + 1]
      BY <3>3
    <3>7. /\ Head(r) \in ToSet(r) /\ ToSet(Tail(r)) \subseteq ToSet(r)
          /\ \A c \in ToSet(r) : c = Head(r) \/ c \in ToSet(Tail(r))
      <4>1. Head(r) \in ToSet(r)
        BY <3>3, <3>4 DEF ToSet
      <4>2. ToSet(Tail(r)) \subseteq ToSet(r)
        BY <3>4, <3>6 DEF ToSet
      <4>3. ASSUME NEW c \in ToSet(r) PROVE c = Head(r) \/ c \in ToSet(Tail(r))
        <5>1. PICK i \in 1 .. Len(r) : r[i] = c
          BY <3>4, <4>3 DEF ToSet
        <5> QED
          BY <3>3, <3>4, <3>5, <5>1 DEF ToSet
      <4> QED
        BY <4>1, <4>2, <4>3
    <3> QED
      BY <3>3, <3>7 DEF r
  <2>3. /\ place \in NfPlace /\ place.step = "calls" /\ place.rest = Tail(me.rest)
        /\ place.entry = e /\ place.op = me.op
    BY <1>2, <2>1, <2>2 DEF NfPlace
  <2>4. news \in NfNews /\ news.op = me.op /\ news.data = rt_entry[e].data
    BY <1>2, <1>4 DEF NfNews, NfPlace
  <2> HIDE DEF place, news, first
  <2>5. nf_at'[Publisher] = place
    BY <1>0, <1>2, <2>1
  <2>6. NfListed(first, e)
    BY <1>2, <2>1, <2>2 DEF NfPublisherStands
  <2>7. /\ nf_heard' \in [NfClients -> [NfDests -> NfNews]]
        /\ nf_heard'[first][rt_entry[e].dest] = news
        /\ \A c \in NfClients, d \in NfDests :
              c # first \/ d # rt_entry[e].dest => nf_heard'[c][d] = nf_heard[c][d]
    BY <1>2, <1>4, <2>1, <2>2, <2>4
  <2>8. NfHad(first, rt_entry[e].dest)
    BY <1>3, <2>2, <2>6 DEF NfInv, NfOneChain, NfHad
  <2>9. NfStands(Publisher)'
    BY <1>0, <1>1, <1>2, <2>1, <2>2, <2>3, <2>5 DEF NfStands, NfPublisherStands, NfListed
  <2>10. NfInv' /\ \A u \in NfThreads \ {Publisher} : nf_at'[u] = nf_at[u]
    <3>1. \A c \in NfClients, d \in NfDests : nf_heard'[c][d] = nf_heard[c][d] \/ NfHad(c, d)
      BY <2>7, <2>8
    <3>2. me.step # "told" /\ place.step # "told"
      BY <2>1, <2>3
    <3> QED
      BY <1>0, <1>1, <1>2, <1>5, <1>6, <2>1, <2>3, <2>7, <2>9, <3>1, <3>2, NfGoes
  <2>11. NfStepKeepsUp
    <3> SUFFICES ASSUME NEW f \in Entries, NEW c \in NfClients, NfListed(c, f), NfKnows(c, f)
                 PROVE  NfKnows(c, f)'
      BY <1>5 DEF NfStepKeepsUp
    <3>1. NfIsDeleted(f)' <=> NfIsDeleted(f)
      BY <2>3, <2>5 DEF NfIsDeleted
    <3>2. CASE c = first /\ f = e
      <4>1. nf_heard'[c][rt_entry'[f].dest] = news /\ rt_entry'[f].data = rt_entry[e].data
        BY <1>1, <2>7, <3>2
      <4> QED
        BY <2>4, <3>1, <3>2, <4>1 DEF NfKnows, NfIsDeleted
    <3>3. CASE ~(c = first /\ f = e)
      <4>1. nf_heard'[c][rt_entry'[f].dest] = nf_heard[c][rt_entry[f].dest] /\ rt_entry'[f] = rt_entry[f]
        <5>0. f <= nf_allocated
          BY <1>2 DEF NfInv, NfOneChain
        <5>1. f \in 1 .. nf_allocated
          BY <5>0, NfConstants DEF NfInv, NfTypeOK
        <5>2. rt_entry[f].dest \in NfDests
          BY <5>1 DEF NfInv
        <5>3. c # first \/ rt_entry[f].dest # rt_entry[e].dest
          BY <1>3, <2>6, <3>3 DEF NfInv, NfOneChain
        <5> QED
          BY <1>1, <2>7, <5>2, <5>3
      <4>2. IsToBeTold(c, f) => IsToBeTold(c, f)'
        <5> SUFFICES ASSUME NEW t \in NfThreads, nf_at[t].entry = f,
                            NfIn(t, "invoke") \/ (NfIn(t, "calls") /\ c \in ToSet(nf_at[t].rest))
                     PROVE  IsToBeTold(c, f)'
          BY DEF IsToBeTold
        <5>1. CASE t = Publisher
          BY <1>0, <2>1, <2>2, <2>3, <2>5, <3>3, <5>1 DEF IsToBeTold, NfIn
        <5>2. CASE t # Publisher
          BY <2>10, <5>2 DEF IsToBeTold, NfIn
        <5> QED
          BY <5>1, <5>2
      <4>3. NfIn(c, "told") /\ nf_at[c].entry = f => NfIn(c, "told")' /\ nf_at'[c].entry = f
        BY <1>0, <2>10, NfConstants DEF NfIn
      <4> QED
        BY <3>1, <4>1, <4>2, <4>3 DEF NfKnows
    <3> QED
      BY <3>2, <3>3
  <2> QED
    BY <2>10, <2>11
<1>9. CASE invoke_ends(Publisher)
  <2>1. /\ me.step = "calls" /\ me.rest = <<>> /\ nf_at' = [nf_at EXCEPT ![Publisher] = NfReturns(Publisher)]
        /\ nf_heard' = nf_heard
    BY <1>9 DEF invoke_ends, NfGo, NfIn
  <2>0. PICK place : place = NfReturns(Publisher)
    OBVIOUS
  <2>2. /\ place \in NfPlace /\ place.step \in {"free", "idle"}
        /\ place.step = "free" => me.op = "NFC_DEL" /\ place.op = "NFC_DEL" /\ place.entry = e
        /\ place.step = "idle" => me.op # "NFC_DEL" /\ place.op # "NFC_DEL" /\ place.entry = NoEntry
    <3>1. <<>> \in Seq(NfClients) /\ NoEntry \in 0 .. MaxEntries
      BY EmptySeq, NfConstants
    <3>2. CASE me.op = "NFC_DEL"
      <4>1. place = [me EXCEPT !.step = "free"]
        BY <2>0, <3>2 DEF NfReturns
      <4> QED
        BY <1>2, <3>2, <4>1 DEF NfPlace, NfSteps
    <3>3. CASE me.op # "NFC_DEL"
      <4>1. place = NotInACall
        BY <2>0, <3>3 DEF NfReturns
      <4> QED
        BY <3>1, <3>3, <4>1 DEF NotInACall, NfPlace, NfSteps, NfAnyData, NfOps
    <3> QED
      BY <3>2, <3>3
  <2>3. nf_at' = [nf_at EXCEPT ![Publisher] = place]
    BY <2>0, <2>1
  <2>4. nf_at'[Publisher] = place
    BY <1>0, <1>2, <2>3
  <2>5. NfStands(Publisher)'
    BY <1>0, <1>1, <1>2, <1>3, <2>2, <2>4, NfConstants DEF NfStands, NfPublisherStands
  <2>6. NfInv' /\ \A u \in NfThreads \ {Publisher} : nf_at'[u] = nf_at[u]
    <3>1. me.step # "told" /\ place.step # "told"
      BY <2>1, <2>2
    <3> QED
      BY <1>0, <1>1, <1>2, <1>5, <1>6, <2>1, <2>2, <2>3, <2>5, <3>1, NfGoes
  <2>7. NfStepKeepsUp
    <3> SUFFICES ASSUME NEW f \in Entries, NEW c \in NfClients, NfListed(c, f), NfKnows(c, f)
                 PROVE  NfKnows(c, f)'
      BY <1>5 DEF NfStepKeepsUp
    <3>1. NfIsDeleted(f)' <=> NfIsDeleted(f)
      BY <2>2, <2>4 DEF NfIsDeleted
    <3>2. IsToBeTold(c, f) => IsToBeTold(c, f)'
      <4>1. ToSet(<<>>) = {}
        BY DEF ToSet
      <4>2. ASSUME NEW t \in NfThreads, nf_at[t].entry = f,
                   NfIn(t, "invoke") \/ (NfIn(t, "calls") /\ c \in ToSet(nf_at[t].rest))
            PROVE  t # Publisher
        BY <2>1, <4>1, <4>2 DEF NfIn
      <4> QED
        BY <2>6, <4>2 DEF IsToBeTold, NfIn
    <3>3. NfIn(c, "told") /\ nf_at[c].entry = f => NfIn(c, "told")' /\ nf_at'[c].entry = f
      BY <1>0, <2>6, NfConstants DEF NfIn
    <3> QED
      BY <1>1, <2>1, <3>1, <3>2, <3>3 DEF NfKnows
  <2> QED
    BY <2>6, <2>7
<1> QED
  BY <1>7, <1>8, <1>9 DEF nfc_invoke_notif_chain

\* A client enters the chain of an entry of its destination, where it was in no
\* chain; it will be told what the entry holds unless it had the entry made.
LEMMA NfEnters ==
  ASSUME NfInv, NEW c \in NfClients, nfc_register_notif_chain(c)
  PROVE  NfInv' /\ NfStepKeepsUp
<1> DEFINE me == nf_at[c]
           e == me.entry
           l == <<c>> \o rt_entry[e].nfc
           place == IF me.creates THEN NotInACall ELSE [me EXCEPT !.step = "told"]
<1>0. c \in NfThreads /\ c # Publisher /\ Publisher \in NfThreads
  BY NfConstants
<1>1. /\ me.step = "enter" /\ rt_entry' = [rt_entry EXCEPT ![e].nfc = l]
      /\ nf_at' = [nf_at EXCEPT ![c] = place]
      /\ nf_asked' = IF me.creates THEN [nf_asked EXCEPT ![c] = @ + 1] ELSE nf_asked
      /\ UNCHANGED <<rt_table, nf_freed, nf_allocated, nf_heard>>
  BY DEF nfc_register_notif_chain, NfGo, NfIn
<1>2. /\ me \in NfPlace /\ NfStands(c) /\ NfClientStands(c) /\ nf_allocated \in Nat
      /\ 1 .. nf_allocated \subseteq Entries
      /\ rt_entry \in [Entries -> NfEntry] /\ nf_at \in [NfThreads -> NfPlace]
      /\ nf_asked \in [NfClients -> Nat]
  BY <1>0, NfAPlace DEF NfStands, NfInv, NfTypeOK
<1>3. /\ e \in 1 .. nf_allocated /\ e \in Entries /\ e <= nf_allocated
      /\ nf_asked[c] < Len(NfWanted[c]) /\ nf_asked[c] \in Nat
      /\ rt_entry[e].dest = NfWanted[c][nf_asked[c] + 1]
      /\ rt_entry[e].dest \in NfDests /\ me.data = "none"
  BY <1>1, <1>2, NfConstants DEF NfStands, NfClientStands, NfInv
<1>4. l \in Seq(NfClients) /\ ToSet(l) = ToSet(rt_entry[e].nfc) \cup {c}
  <2>1. rt_entry[e].nfc \in Seq(NfClients)
    BY <1>2, <1>3 DEF NfEntry
  <2> QED
    BY <2>1, ListWithFirst
<1> DEFINE entered == [rt_entry[e] EXCEPT !.nfc = l]
<1>5. /\ entered \in NfEntry /\ entered.nfc = l
      /\ entered.dest = rt_entry[e].dest /\ entered.data = rt_entry[e].data
  BY <1>2, <1>3, <1>4 DEF NfEntry
<1>6. rt_entry' = [rt_entry EXCEPT ![e] = entered]
  BY <1>1
<1>7. /\ place \in NfPlace
      /\ me.creates => place.step = "idle" /\ place.entry = NoEntry /\ place.data = "none"
      /\ ~me.creates => /\ place.step = "told" /\ place.entry = e /\ place.data = "none"
                        /\ place.dest = me.dest
  <2>1. <<>> \in Seq(NfClients) /\ NoEntry \in 0 .. MaxEntries
    BY EmptySeq, NfConstants
  <2>2. CASE me.creates
    BY <2>1, <2>2 DEF NotInACall, NfPlace, NfSteps, NfAnyData, NfOps
  <2>3. CASE ~me.creates
    BY <1>2, <1>3, <2>3 DEF NfPlace, NfSteps
  <2> HIDE DEF place
  <2> QED
    BY <2>2, <2>3
<1> HIDE DEF l, entered, place
<1>8. /\ rt_entry' \in [Entries -> NfEntry]
      /\ \A f \in Entries : /\ rt_entry'[f].dest = rt_entry[f].dest /\ rt_entry'[f].data = rt_entry[f].data
                            /\ f # e => rt_entry'[f] = rt_entry[f]
      /\ rt_entry'[e].nfc = l
  BY <1>2, <1>3, <1>5, <1>6
<1>9. \A f \in Entries, b \in NfClients : NfListed(b, f)' <=> NfListed(b, f) \/ (f = e /\ b = c)
  BY <1>3, <1>4, <1>8 DEF NfListed
<1>10. nf_at'[c] = place /\ \A t \in NfThreads \ {c} : nf_at'[t] = nf_at[t]
  BY <1>0, <1>1, <1>2
<1>11. ~NfHasAsked(c, rt_entry[e].dest) /\ ~NfHad(c, rt_entry[e].dest)
  <2>1. \A k \in 1 .. nf_asked[c] : NfWanted[c][k] # rt_entry[e].dest
    <3>1. nf_asked[c] + 1 \in 1 .. Len(NfWanted[c])
      BY <1>3, NfConstants
    <3>2. \A k \in 1 .. nf_asked[c] : k \in 1 .. Len(NfWanted[c]) /\ k # nf_asked[c] + 1
      BY <1>3, NfConstants
    <3> QED
      BY <1>3, <3>1, <3>2, NfConstants
  <2> QED
    BY <1>1, <2>1 DEF NfHasAsked, NfHad, NfIn
<1>12. \A f \in Entries : rt_entry[f].dest = rt_entry[e].dest => ~NfListed(c, f)
  BY <1>1, <1>11 DEF NfInv, NfOneChain, NfIn
<1>13. \A b \in NfClients : \A d : NfHasAsked(b, d) => NfHasAsked(b, d)'
  <2>1. \A b \in NfClients : nf_asked[b] \in Nat /\ nf_asked'[b] \in Nat /\ nf_asked[b] <= nf_asked'[b]
    BY <1>1, <1>2
  <2> QED
    BY <2>1 DEF NfHasAsked
<1>14. \A d : me.creates /\ d = rt_entry[e].dest => NfHasAsked(c, d)'
  <2>1. me.creates => nf_asked'[c] = nf_asked[c] + 1
    BY <1>1, <1>2
  <2>2. nf_asked[c] + 1 \in 1 .. nf_asked[c] + 1
    BY <1>3
  <2> QED
    BY <1>3, <1>8, <2>1, <2>2 DEF NfHasAsked
<1>15. NfInv'
  <2>1. NfTypeOK'
    <3>1. nf_at' \in [NfThreads -> NfPlace]
      BY <1>1, <1>2, <1>7
    <3>2. nf_asked' \in [NfClients -> Nat] /\ \A b \in NfClients : nf_asked'[b] <= Len(NfWanted[b])
      BY <1>1, <1>2, <1>3, NfConstants DEF NfInv, NfTypeOK
    <3> QED
      BY <1>1, <1>8, <3>1, <3>2 DEF NfInv, NfTypeOK
  <2>2. \A t \in NfThreads : NfStands(t)'
    <3> SUFFICES ASSUME NEW t \in NfThreads PROVE NfStands(t)'
      OBVIOUS
    <3>1. NfStands(t) /\ nf_allocated' = nf_allocated
      BY <1>1 DEF NfInv
    <3>2. CASE t = c
      <4>1. NfClientStands(c)'
        BY <1>1, <1>2, <1>3, <1>7, <1>8, <1>10 DEF NfClientStands
      <4> QED
        BY <1>0, <1>2, <1>3, <1>7, <1>10, <3>1, <3>2, <4>1, NfConstants DEF NfStands
    <3>3. CASE t # c
      <4>1. nf_at'[t] = nf_at[t] /\ nf_at[t].entry \in 0 .. nf_allocated
        BY <1>10, <3>1, <3>3 DEF NfStands
      <4>2. \A f \in 0 .. nf_allocated : f # NoEntry => f \in Entries
        <5>1. \A f \in 0 .. nf_allocated : f # 0 => f \in 1 .. nf_allocated
          BY <1>2
        <5> QED
          BY <1>2, <5>1, NfConstants
      <4>3. ASSUME t \in NfClients PROVE NfClientStands(t)'
        <5>1. nf_asked'[t] = nf_asked[t]
          BY <1>1, <1>2, <3>3, <4>3
        <5> QED
          BY <1>8, <3>1, <4>1, <4>2, <4>3, <5>1 DEF NfStands, NfClientStands
      <4>4. ASSUME t = Publisher PROVE NfPublisherStands'
        <5>1. NfPublisherStands /\ nf_at'[Publisher] = nf_at[Publisher]
          BY <3>1, <4>1, <4>4 DEF NfStands
        <5>2. nf_at[Publisher].rest \in Seq(NfClients)
          BY <1>0, <1>2 DEF NfPlace
        <5>3. \A b \in ToSet(nf_at[Publisher].rest) : b \in NfClients
          BY <5>2 DEF ToSet
        <5>4. nf_at[Publisher].step = "calls" => nf_at[Publisher].entry \in Entries
          BY <3>1, <4>1, <4>2, <4>4 DEF NfStands
        <5>5. nf_at[Publisher].step = "calls" => \A b \in ToSet(nf_at[Publisher].rest) :
                 b \in ToSet(rt_entry'[nf_at[Publisher].entry].nfc)
          BY <1>9, <5>1, <5>3, <5>4 DEF NfPublisherStands, NfListed
        <5> QED
          BY <5>1, <5>5 DEF NfPublisherStands, NfListed
      <4> QED
        BY <3>1, <4>1, <4>3, <4>4 DEF NfStands
    <3> QED
      BY <3>2, <3>3
  <2>3. NfOneChain'
    <3> SUFFICES ASSUME NEW f \in Entries, NEW b \in NfClients, NfListed(b, f)'
                 PROVE  /\ f <= nf_allocated'
                        /\ NfHasAsked(b, rt_entry[f].dest)' \/ (NfIn(b, "told")' /\ nf_at'[b].entry = f)
                        /\ \A g \in Entries :
                              NfListed(b, g)' /\ rt_entry[g].dest = rt_entry[f].dest => g = f
      BY <1>8 DEF NfOneChain, NfHasAsked
    <3>1. CASE f = e /\ b = c
      <4>1. NfHasAsked(b, rt_entry[f].dest)' \/ (NfIn(b, "told")' /\ nf_at'[b].entry = f)
        <5>1. CASE me.creates
          <6>1. PICK d : d = rt_entry[e].dest
            OBVIOUS
          <6>2. NfHasAsked(b, d)' /\ rt_entry'[f].dest = d
            BY <1>3, <1>8, <1>14, <3>1, <5>1, <6>1
          <6> QED
            BY <6>2 DEF NfHasAsked
        <5>2. CASE ~me.creates
          BY <1>7, <1>10, <3>1, <5>2 DEF NfIn
        <5> QED
          BY <5>1, <5>2
      <4>2. \A g \in Entries : NfListed(b, g)' /\ rt_entry[g].dest = rt_entry[f].dest => g = f
        BY <1>9, <1>12, <3>1
      <4> QED
        BY <1>1, <1>3, <3>1, <4>1, <4>2
    <3>2. CASE NfListed(b, f) /\ ~(f = e /\ b = c)
      <4>1. /\ f <= nf_allocated
            /\ NfHasAsked(b, rt_entry[f].dest) \/ (NfIn(b, "told") /\ nf_at[b].entry = f)
            /\ \A g \in Entries : NfListed(b, g) /\ rt_entry[g].dest = rt_entry[f].dest => g = f
        BY <3>2 DEF NfInv, NfOneChain
      <4>2. NfHasAsked(b, rt_entry[f].dest)' \/ (NfIn(b, "told")' /\ nf_at'[b].entry = f)
        <5>1. CASE NfHasAsked(b, rt_entry[f].dest)
          <6>1. NfHasAsked(b, rt_entry[f].dest) => NfHasAsked(b, rt_entry[f].dest)'
            <7>1. \A d : NfHasAsked(b, d) => NfHasAsked(b, d)'
              BY <1>13
            <7> QED
              BY <1>8, <7>1 DEF NfHasAsked
          <6> QED
            BY <5>1, <6>1
        <5>2. CASE NfIn(b, "told") /\ nf_at[b].entry = f
          <6>1. b # c /\ b \in NfThreads
            BY <1>1, <5>2, NfConstants DEF NfIn
          <6> QED
            BY <1>10, <5>2, <6>1 DEF NfIn
        <5> QED
          BY <4>1, <5>1, <5>2
      <4>3. ASSUME NEW g \in Entries, NfListed(b, g)', rt_entry[g].dest = rt_entry[f].dest
            PROVE  g = f
        <5>1. CASE NfListed(b, g)
          BY <4>1, <4>3, <5>1
        <5>2. CASE g = e /\ b = c
          BY <1>12, <3>2, <4>3, <5>2
        <5> QED
          BY <1>9, <4>3, <5>1, <5>2
      <4> QED
        BY <1>1, <4>1, <4>2, <4>3
    <3> QED
      BY <1>9, <3>1, <3>2
  <2>4. \A b \in NfClients, d \in NfDests : nf_heard'[b][d] # NfNoNews => NfHad(b, d)'
    <3> SUFFICES ASSUME NEW b \in NfClients, NEW d \in NfDests, NfHad(b, d) PROVE NfHad(b, d)'
      BY <1>1 DEF NfInv
    <3>1. CASE NfHasAsked(b, d)
      BY <1>13, <3>1 DEF NfHad
    <3>2. CASE NfIn(b, "told") /\ rt_entry[nf_at[b].entry].dest = d
      <4>1. b # c /\ b \in NfThreads
        BY <1>1, <3>2, NfConstants DEF NfIn
      <4>2. nf_at'[b] = nf_at[b] /\ nf_at[b].entry \in 1 .. nf_allocated
        BY <1>2, <1>10, <3>2, <4>1, NfConstants DEF NfInv, NfStands, NfIn
      <4>3. rt_entry'[nf_at[b].entry].dest = d
        BY <1>2, <1>8, <3>2, <4>2
      <4> QED
        BY <3>2, <4>2, <4>3 DEF NfHad, NfIn
    <3> QED
      BY <3>1, <3>2 DEF NfHad
  <2>5. /\ ToSet(rt_table') \subseteq 1 .. nf_allocated'
        /\ \A f \in 1 .. nf_allocated' : rt_entry'[f].dest \in NfDests
    BY <1>1, <1>2, <1>8 DEF NfInv
  <2> QED
    BY <2>1, <2>2, <2>3, <2>4, <2>5 DEF NfInv
<1>16. NfStepKeepsUp
  <2> SUFFICES ASSUME NEW f \in Entries, NEW b \in NfClients, NfListed(b, f)',
                      NfListed(b, f) => NfKnows(b, f)
               PROVE  NfKnows(b, f)' \/ NfComesLate(b, f)
    BY <1>9 DEF NfStepKeepsUp
  <2>0. (NfIsDeleted(f)' <=> NfIsDeleted(f)) /\ rt_entry'[f].data = rt_entry[f].data
        /\ nf_heard'[b][rt_entry'[f].dest] = nf_heard[b][rt_entry[f].dest]
    BY <1>0, <1>1, <1>8, <1>10 DEF NfIsDeleted
  <2>1. CASE f = e /\ b = c
    <3>1. CASE ~me.creates
      BY <1>7, <1>10, <2>1, <3>1 DEF NfKnows, NfIn
    <3>2. CASE me.creates
      <4>1. nf_heard[c][rt_entry[e].dest] = NfNoNews
        BY <1>3, <1>11 DEF NfInv
      <4>2. CASE rt_entry[e].data # "none" \/ NfIsDeleted(e)
        BY <1>1, <2>1, <3>2, <4>2 DEF NfComesLate, NfIn
      <4>3. CASE rt_entry[e].data = "none" /\ ~NfIsDeleted(e)
        BY <2>0, <2>1, <4>1, <4>3 DEF NfKnows, NfNoNews
      <4> QED
        BY <4>2, <4>3
    <3> QED
      BY <3>1, <3>2
  <2>2. CASE NfListed(b, f)
    <3>1. IsToBeTold(b, f) => IsToBeTold(b, f)'
      <4>1. \A t \in NfThreads : NfIn(t, "invoke") \/ NfIn(t, "calls") => nf_at'[t] = nf_at[t]
        BY <1>1, <1>10 DEF NfIn
      <4> QED
        BY <4>1 DEF IsToBeTold, NfIn
    <3>2. NfIn(b, "told") /\ nf_at[b].entry = f => NfIn(b, "told")' /\ nf_at'[b].entry = f
      BY <1>1, <1>10, NfConstants DEF NfIn
    <3> QED
      BY <2>0, <2>2, <3>1, <3>2 DEF NfKnows
  <2> QED
    BY <1>9, <2>1, <2>2
<1> QED
  BY <1>15, <1>16

\* The client is told what the entry holds, and has registered.
LEMMA NfIsTold ==
  ASSUME NfInv, NEW c \in NfClients, register_is_told(c)
  PROVE  NfInv' /\ NfStepKeepsUp
<1> DEFINE me == nf_at[c]
           e == me.entry
           news == [op |-> "NFC_ADD", data |-> rt_entry[e].data]
<1>0. c \in NfThreads /\ c # Publisher /\ Publisher \in NfThreads
  BY NfConstants
<1>1. /\ me.step = "told" /\ nf_heard' = [nf_heard EXCEPT ![c][rt_entry[e].dest] = news]
      /\ nf_at' = [nf_at EXCEPT ![c] = NotInACall]
      /\ nf_asked' = [nf_asked EXCEPT ![c] = @ + 1]
      /\ UNCHANGED <<rt_table, rt_entry, nf_freed, nf_allocated>>
  BY DEF register_is_told, test_cb, NfGo, NfIn
<1>2. /\ me \in NfPlace /\ NfStands(c) /\ NfClientStands(c) /\ nf_allocated \in Nat
      /\ 1 .. nf_allocated \subseteq Entries
      /\ rt_entry \in [Entries -> NfEntry] /\ nf_at \in [NfThreads -> NfPlace]
      /\ nf_asked \in [NfClients -> Nat] /\ nf_heard \in [NfClients -> [NfDests -> NfNews]]
  BY <1>0, NfAPlace DEF NfStands, NfInv, NfTypeOK
<1>3. /\ e \in 1 .. nf_allocated /\ e \in Entries
      /\ nf_asked[c] < Len(NfWanted[c]) /\ nf_asked[c] \in Nat
      /\ rt_entry[e].dest = NfWanted[c][nf_asked[c] + 1]
      /\ rt_entry[e].dest \in NfDests
  <2>1. /\ e \in 0 .. nf_allocated /\ e # NoEntry /\ nf_asked[c] < Len(NfWanted[c])
        /\ rt_entry[e].dest = me.dest /\ me.dest = NfWanted[c][nf_asked[c] + 1]
    BY <1>1, <1>2 DEF NfStands, NfClientStands
  <2>2. e \in 1 .. nf_allocated /\ e \in Entries
    BY <1>2, <2>1 DEF NoEntry
  <2> QED
    BY <1>2, <2>1, <2>2 DEF NfInv
<1>4. news \in NfNews /\ news.data = rt_entry[e].data
  BY <1>2, <1>3 DEF NfNews, NfOps, NfEntry
<1>5. /\ NotInACall \in NfPlace /\ NotInACall.step = "idle" /\ NotInACall.entry = NoEntry
      /\ NotInACall.data = "none"
  <2>1. <<>> \in Seq(NfClients) /\ NoEntry \in 0 .. MaxEntries
    BY EmptySeq, NfConstants
  <2> QED
    BY <2>1 DEF NotInACall, NfPlace, NfSteps, NfAnyData, NfOps
<1> HIDE DEF news
<1>6. /\ nf_at'[c] = NotInACall /\ \A t \in NfThreads \ {c} : nf_at'[t] = nf_at[t]
      /\ nf_at' \in [NfThreads -> NfPlace]
  BY <1>0, <1>1, <1>2, <1>5
<1>7. /\ nf_heard' \in [NfClients -> [NfDests -> NfNews]] /\ nf_heard'[c][rt_entry[e].dest] = news
      /\ \A b \in NfClients, d \in NfDests :
            b # c \/ d # rt_entry[e].dest => nf_heard'[b][d] = nf_heard[b][d]
  BY <1>1, <1>2, <1>3, <1>4
<1>8. /\ nf_asked' \in [NfClients -> Nat] /\ nf_asked'[c] = nf_asked[c] + 1
      /\ \A b \in NfClients : b # c => nf_asked'[b] = nf_asked[b]
  BY <1>1, <1>2
<1>9. \A f, b : NfListed(b, f)' <=> NfListed(b, f)
  BY <1>1 DEF NfListed
<1>10. \A b \in NfClients : \A d : NfHasAsked(b, d) => NfHasAsked(b, d)'
  <2>1. \A b \in NfClients : nf_asked[b] \in Nat /\ nf_asked'[b] \in Nat /\ nf_asked[b] <= nf_asked'[b]
    BY <1>2, <1>8
  <2> QED
    BY <2>1 DEF NfHasAsked
<1>11. \A d : d = rt_entry[e].dest => NfHasAsked(c, d)'
  <2>1. nf_asked[c] + 1 \in 1 .. nf_asked[c] + 1
    BY <1>3
  <2> QED
    BY <1>1, <1>3, <1>8, <2>1 DEF NfHasAsked
<1>12. \A b \in NfClients, d \in NfDests : NfHad(b, d) => NfHad(b, d)'
  <2> SUFFICES ASSUME NEW b \in NfClients, NEW d \in NfDests, NfHad(b, d) PROVE NfHad(b, d)'
    OBVIOUS
  <2>1. CASE NfHasAsked(b, d)
    BY <1>10, <2>1 DEF NfHad
  <2>2. CASE b = c /\ rt_entry[nf_at[b].entry].dest = d
    BY <1>11, <2>2 DEF NfHad
  <2>3. CASE b # c /\ NfIn(b, "told") /\ rt_entry[nf_at[b].entry].dest = d
    BY <1>1, <1>6, <2>3, NfConstants DEF NfHad, NfIn
  <2> QED
    BY <2>1, <2>2, <2>3 DEF NfHad
<1>13. NfInv'
  <2>1. NfTypeOK'
    <3>1. \A b \in NfClients : nf_asked'[b] <= Len(NfWanted[b])
      BY <1>3, <1>8, NfConstants DEF NfInv, NfTypeOK
    <3> QED
      BY <1>1, <1>6, <1>7, <1>8, <3>1 DEF NfInv, NfTypeOK
  <2>2. \A t \in NfThreads : NfStands(t)'
    <3> SUFFICES ASSUME NEW t \in NfThreads PROVE NfStands(t)'
      OBVIOUS
    <3>1. NfStands(t) /\ nf_allocated' = nf_allocated /\ rt_entry' = rt_entry
      BY <1>1 DEF NfInv
    <3>2. CASE t = c
      <4>1. NfClientStands(c)'
        BY <1>5, <1>6 DEF NfClientStands
      <4> QED
        BY <1>0, <1>2, <1>5, <1>6, <3>1, <3>2, <4>1, NfConstants DEF NfStands
    <3>3. CASE t # c
      <4>1. nf_at'[t] = nf_at[t] /\ (t \in NfClients => nf_asked'[t] = nf_asked[t])
        BY <1>6, <1>8, <3>3
      <4>2. t = Publisher => NfPublisherStands'
        BY <3>1, <4>1 DEF NfStands, NfPublisherStands, NfListed
      <4>3. t \in NfClients => NfClientStands(t)'
        BY <3>1, <4>1 DEF NfStands, NfClientStands
      <4> QED
        BY <3>1, <4>1, <4>2, <4>3 DEF NfStands
    <3> QED
      BY <3>2, <3>3
  <2>3. NfOneChain'
    <3> SUFFICES ASSUME NEW f \in Entries, NEW b \in NfClients, NfListed(b, f)
                 PROVE  NfHasAsked(b, rt_entry[f].dest)' \/ (NfIn(b, "told")' /\ nf_at'[b].entry = f)
      BY <1>1, <1>9 DEF NfInv, NfOneChain, NfHasAsked
    <3>1. CASE NfHasAsked(b, rt_entry[f].dest)
      <4>1. NfHasAsked(b, rt_entry[f].dest) => NfHasAsked(b, rt_entry[f].dest)'
        BY <1>1, <1>10 DEF NfHasAsked
      <4> QED
        BY <3>1, <4>1
    <3>2. CASE NfIn(b, "told") /\ nf_at[b].entry = f /\ b = c
      <4>1. rt_entry'[f].dest = rt_entry[e].dest
        BY <1>1, <3>2
      <4>2. \A d : d = rt_entry[e].dest => NfHasAsked(b, d)'
        BY <1>11, <3>2
      <4> QED
        BY <4>1, <4>2 DEF NfHasAsked
    <3>3. CASE NfIn(b, "told") /\ nf_at[b].entry = f /\ b # c
      BY <1>6, <3>3, NfConstants DEF NfIn
    <3> QED
      BY <3>1, <3>2, <3>3 DEF NfInv, NfOneChain
  <2>4. \A b \in NfClients, d \in NfDests : nf_heard'[b][d] # NfNoNews => NfHad(b, d)'
    <3>1. NfHad(c, rt_entry[e].dest)
      BY <1>1 DEF NfHad, NfIn
    <3> QED
      BY <1>7, <1>12, <3>1 DEF NfInv
  <2>5. /\ ToSet(rt_table') \subseteq 1 .. nf_allocated'
        /\ \A f \in 1 .. nf_allocated' : rt_entry'[f].dest \in NfDests
    BY <1>1 DEF NfInv
  <2> QED
    BY <2>1, <2>2, <2>3, <2>4, <2>5 DEF NfInv
<1>14. NfStepKeepsUp
  <2> SUFFICES ASSUME NEW f \in Entries, NEW b \in NfClients, NfListed(b, f), NfKnows(b, f)
               PROVE  NfKnows(b, f)' \/ NfComesLate(b, f)
    BY <1>9 DEF NfStepKeepsUp
  <2>0. (NfIsDeleted(f)' <=> NfIsDeleted(f)) /\ rt_entry' = rt_entry
    BY <1>0, <1>1, <1>6 DEF NfIsDeleted
  <2>1. CASE f = e /\ b = c
    BY <1>1, <1>4, <1>7, <2>0, <2>1 DEF NfKnows, NfComesLate, NfIn
  <2>2. CASE ~(f = e /\ b = c)
    <3>1. nf_heard'[b][rt_entry[f].dest] = nf_heard[b][rt_entry[f].dest]
      <4>1. f \in 1 .. nf_allocated
        BY <1>2, NfConstants DEF NfInv, NfOneChain
      <4>2. rt_entry[f].dest \in NfDests
        BY <4>1 DEF NfInv
      <4>3. b # c \/ rt_entry[f].dest # rt_entry[e].dest
        <5>1. SUFFICES ASSUME b = c, rt_entry[f].dest = rt_entry[e].dest PROVE FALSE
          OBVIOUS
        <5>2. NfHasAsked(c, rt_entry[e].dest)
          BY <2>2, <5>1 DEF NfInv, NfOneChain
        <5>3. nf_asked[c] + 1 \in 1 .. Len(NfWanted[c])
          BY <1>3, NfConstants
        <5>4. \A k \in 1 .. nf_asked[c] : k \in 1 .. Len(NfWanted[c]) /\ k # nf_asked[c] + 1
          BY <1>3, NfConstants
        <5> QED
          BY <1>3, <5>2, <5>3, <5>4, NfConstants DEF NfHasAsked
      <4> QED
        BY <1>7, <4>2, <4>3
    <3>2. IsToBeTold(b, f) => IsToBeTold(b, f)'
      <4>1. \A t \in NfThreads : NfIn(t, "invoke") \/ NfIn(t, "calls") => nf_at'[t] = nf_at[t]
        BY <1>1, <1>6 DEF NfIn
      <4> QED
        BY <4>1 DEF IsToBeTold, NfIn
    <3>3. NfIn(b, "told") /\ nf_at[b].entry = f => NfIn(b, "told")' /\ nf_at'[b].entry = f
      BY <1>1, <1>6, <2>2, NfConstants DEF NfIn
    <3> QED
      BY <2>0, <3>1, <3>2, <3>3 DEF NfKnows
  <2> QED
    BY <2>1, <2>2
<1> QED
  BY <1>13, <1>14

\* The run along the chain is over: the chain goes, and everybody in it was told.
LEMMA NfFrees ==
  ASSUME NfInv, delete_frees
  PROVE  NfInv' /\ NfStepKeepsUp
<1> DEFINE me == nf_at[Publisher]
           e == me.entry
           emptied == [rt_entry[e] EXCEPT !.nfc = <<>>]
<1>0. Publisher \in NfThreads /\ Publisher \notin NfClients
  BY NfConstants
<1>1. /\ me.step = "free" /\ rt_entry' = [rt_entry EXCEPT ![e] = emptied]
      /\ nf_at' = [nf_at EXCEPT ![Publisher] = NotInACall]
      /\ UNCHANGED <<rt_table, nf_allocated, nf_asked, nf_heard>>
  BY DEF delete_frees, nfc_delete_all_nfce, NfGo, NfIn
<1>2. /\ me \in NfPlace /\ NfStands(Publisher) /\ NfPublisherStands /\ nf_allocated \in Nat
      /\ 1 .. nf_allocated \subseteq Entries
      /\ rt_entry \in [Entries -> NfEntry] /\ nf_at \in [NfThreads -> NfPlace]
  BY <1>0, NfAPlace DEF NfStands, NfInv, NfTypeOK
<1>3. /\ e \in 1 .. nf_allocated /\ e \in Entries /\ me.op = "NFC_DEL"
  <2>1. e \in 0 .. nf_allocated /\ e # NoEntry /\ me.op = "NFC_DEL"
    BY <1>1, <1>2 DEF NfStands, NfPublisherStands
  <2> QED
    BY <1>2, <2>1 DEF NoEntry
<1>4. <<>> \in Seq(NfClients) /\ ToSet(<<>>) = {} /\ NoEntry \in 0 .. MaxEntries
  BY EmptySeq, NfConstants DEF ToSet
<1>5. /\ emptied \in NfEntry /\ emptied.nfc = <<>>
      /\ emptied.dest = rt_entry[e].dest /\ emptied.data = rt_entry[e].data
  BY <1>2, <1>3, <1>4 DEF NfEntry
<1>6. /\ NotInACall \in NfPlace /\ NotInACall.step = "idle" /\ NotInACall.op # "NFC_DEL"
      /\ NotInACall.entry = NoEntry
  BY <1>4 DEF NotInACall, NfPlace, NfSteps, NfAnyData, NfOps
<1> HIDE DEF emptied
<1>7. /\ rt_entry' \in [Entries -> NfEntry] /\ rt_entry'[e].nfc = <<>>
      /\ \A f \in Entries : /\ rt_entry'[f].dest = rt_entry[f].dest /\ rt_entry'[f].data = rt_entry[f].data
                            /\ f # e => rt_entry'[f] = rt_entry[f]
  BY <1>1, <1>2, <1>3, <1>5
<1>8. \A f \in Entries, c \in NfClients : NfListed(c, f)' <=> NfListed(c, f) /\ f # e
  BY <1>4, <1>7 DEF NfListed
<1>9. /\ nf_at'[Publisher] = NotInACall /\ \A t \in NfThreads \ {Publisher} : nf_at'[t] = nf_at[t]
      /\ nf_at' \in [NfThreads -> NfPlace]
  BY <1>0, <1>1, <1>2, <1>6
<1>10. \A c, d : NfHasAsked(c, d)' <=> NfHasAsked(c, d)
  BY <1>1 DEF NfHasAsked
<1>11. \A c \in NfClients : nf_at'[c] = nf_at[c]
  BY <1>9, NfConstants
<1>12. \A t \in NfThreads : /\ nf_at[t].entry \in 0 .. nf_allocated
                            /\ nf_at[t].step \in {"link", "enter", "told"} => nf_at[t].entry \in Entries
  <2> SUFFICES ASSUME NEW t \in NfThreads
               PROVE  /\ nf_at[t].entry \in 0 .. nf_allocated
                      /\ nf_at[t].step \in {"link", "enter", "told"} => nf_at[t].entry \in Entries
    OBVIOUS
  <2>1. NfStands(t)
    BY DEF NfInv
  <2> QED
    BY <1>2, <2>1 DEF NfStands, NoEntry
<1>13. NfInv'
  <2>1. NfTypeOK'
    BY <1>1, <1>7, <1>9 DEF NfInv, NfTypeOK
  <2>2. \A t \in NfThreads : NfStands(t)'
    <3> SUFFICES ASSUME NEW t \in NfThreads PROVE NfStands(t)'
      OBVIOUS
    <3>1. NfStands(t) /\ nf_allocated' = nf_allocated /\ nf_asked' = nf_asked
      BY <1>1 DEF NfInv
    <3>2. CASE t = Publisher
      BY <1>0, <1>2, <1>6, <1>9, <3>1, <3>2 DEF NfStands, NfPublisherStands, NoEntry
    <3>3. CASE t # Publisher
      <4>1. t \in NfClients /\ nf_at'[t] = nf_at[t]
        BY <1>11, <3>3, NfConstants
      <4>2. NfClientStands(t)'
        BY <1>7, <1>12, <3>1, <4>1 DEF NfStands, NfClientStands
      <4> QED
        BY <3>1, <3>3, <4>1, <4>2 DEF NfStands
    <3> QED
      BY <3>2, <3>3
  <2>3. NfOneChain'
    <3> SUFFICES ASSUME NEW f \in Entries, NEW c \in NfClients, NfListed(c, f), f # e
                 PROVE  /\ f <= nf_allocated
                        /\ NfHasAsked(c, rt_entry[f].dest) \/ (NfIn(c, "told") /\ nf_at[c].entry = f)
                        /\ \A g \in Entries : NfListed(c, g) /\ rt_entry[g].dest = rt_entry[f].dest => g = f
      BY <1>1, <1>7, <1>8, <1>11 DEF NfOneChain, NfHasAsked, NfIn
    <3> QED
      BY DEF NfInv, NfOneChain
  <2>4. \A c \in NfClients, d \in NfDests : nf_heard'[c][d] # NfNoNews => NfHad(c, d)'
    <3> SUFFICES ASSUME NEW c \in NfClients, NEW d \in NfDests, NfHad(c, d) PROVE NfHad(c, d)'
      BY <1>1 DEF NfInv
    <3>1. NfIn(c, "told") => rt_entry'[nf_at[c].entry].dest = rt_entry[nf_at[c].entry].dest
      BY <1>7, <1>12, NfConstants DEF NfIn
    <3> QED
      BY <1>10, <1>11, <3>1 DEF NfHad, NfIn
  <2>5. /\ ToSet(rt_table') \subseteq 1 .. nf_allocated'
        /\ \A f \in 1 .. nf_allocated' : rt_entry'[f].dest \in NfDests
    BY <1>1, <1>2, <1>7 DEF NfInv
  <2> QED
    BY <2>1, <2>2, <2>3, <2>4, <2>5 DEF NfInv
<1>14. \A t \in NfThreads : ~NfIn(t, "invoke") /\ ~NfIn(t, "calls")
  <2> SUFFICES ASSUME NEW t \in NfThreads PROVE ~NfIn(t, "invoke") /\ ~NfIn(t, "calls")
    OBVIOUS
  <2>1. NfStands(t)
    BY DEF NfInv
  <2> QED
    BY <1>1, <2>1, NfConstants DEF NfStands, NfClientStands, NfIn
<1>15. NfStepKeepsUp
  <2> SUFFICES ASSUME NEW f \in Entries, NEW c \in NfClients, NfListed(c, f)
               PROVE  /\ f # e /\ NfKnows(c, f) => NfKnows(c, f)'
                      /\ f = e => NfIsDeleted(f) /\ ~IsToBeTold(c, f)
    BY <1>8 DEF NfStepKeepsUp
  <2>1. f = e => NfIsDeleted(f) /\ ~IsToBeTold(c, f)
    BY <1>3, <1>14 DEF NfIsDeleted, IsToBeTold
  <2>2. ASSUME f # e, NfKnows(c, f) PROVE NfKnows(c, f)'
    <3>1. ~NfIsDeleted(f) /\ ~NfIsDeleted(f)' /\ ~IsToBeTold(c, f)
      BY <1>6, <1>9, <1>14, <2>2 DEF NfIsDeleted, IsToBeTold
    <3>2. nf_heard'[c][rt_entry'[f].dest] = nf_heard[c][rt_entry[f].dest] /\ rt_entry'[f].data = rt_entry[f].data
      BY <1>1, <1>7
    <3>3. NfIn(c, "told") /\ nf_at[c].entry = f => NfIn(c, "told")' /\ nf_at'[c].entry = f
      BY <1>11 DEF NfIn
    <3> QED
      BY <2>2, <3>1, <3>2, <3>3 DEF NfKnows
  <2> QED
    BY <2>1, <2>2
<1> QED
  BY <1>13, <1>15

\* Every step keeps the invariant and lets nobody fall behind.
LEMMA NfNextKeepsUp == NfInv /\ [NfNext]_nfVars => NfInv' /\ [NfKeepsUp]_nfVars
<1> SUFFICES ASSUME NfInv, [NfNext]_nfVars PROVE NfInv' /\ [NfKeepsUp]_nfVars
  OBVIOUS
<1>1. CASE UNCHANGED nfVars
  <2>1. /\ rt_table' = rt_table /\ rt_entry' = rt_entry /\ nf_allocated' = nf_allocated
        /\ nf_at' = nf_at /\ nf_asked' = nf_asked /\ nf_heard' = nf_heard
    BY <1>1 DEF nfVars
  <2>2. NfTypeOK'
    BY <2>1 DEF NfInv, NfTypeOK
  <2>3. \A t \in NfThreads : NfStands(t)'
    BY <2>1 DEF NfInv, NfStands, NfClientStands, NfPublisherStands, NfListed, NfHasAsked, NfIn
  <2>4. NfOneChain'
    BY <2>1 DEF NfInv, NfOneChain, NfListed, NfHasAsked, NfIn
  <2>5. \A c \in NfClients, d \in NfDests : nf_heard'[c][d] # NfNoNews => NfHad(c, d)'
    BY <2>1 DEF NfInv, NfHad, NfHasAsked, NfIn
  <2> QED
    BY <1>1, <2>1, <2>2, <2>3, <2>4, <2>5 DEF NfInv
<1>2. CASE NfNext
  <2>1. ASSUME NEW t \in NfThreads, rt_add_or_update_rt_entry(t) PROVE NfInv' /\ NfStepKeepsUp
    BY <2>1, NfCreates, NfFinds, NfLinks DEF rt_add_or_update_rt_entry
  <2>2. ASSUME NEW c \in NfClients, client_thread_fn(c) PROVE NfInv' /\ NfStepKeepsUp
    <3>1. c \in NfThreads
      BY NfConstants
    <3> QED
      BY <2>1, <2>2, <3>1, NfAsks, NfEnters, NfIsTold DEF client_thread_fn
  <2>3. ASSUME nf_publisher_thread_fn PROVE NfInv' /\ NfStepKeepsUp
    <3>1. Publisher \in NfThreads
      BY NfConstants
    <3> QED
      BY <2>1, <2>3, <3>1, NfBegins, NfDeletion, NfFrees, NfInvokes DEF nf_publisher_thread_fn
  <2>4. NfInv' /\ NfStepKeepsUp
    BY <1>2, <2>2, <2>3 DEF NfNext
  <2>5. NfStepKeepsUp => NfKeepsUp
    BY DEF NfStepKeepsUp, NfKeepsUp, NfListed
  <2> QED
    BY <2>4, <2>5
<1> QED
  BY <1>1, <1>2

----------------------------------------------------------------------------
(* The two routing tables. *)

\* For any number of clients, routes and entries, and in whatever order the threads
\* go on, nobody who asked to be told falls behind but at the two places named.
THEOREM ProgramsKeepSubscribersUp == ProgramsSpec => SubscribersKeepUp
<1>1. ProgramsInit => RtInv /\ NfInv
  BY RtInitInv, NfInitInv DEF ProgramsInit
<1>2. [ProgramsNext]_programVars => [RtNext]_rtVars /\ [NfNext]_nfVars
  BY DEF ProgramsNext, ProblemNext, ListNext, programVars, listVars
<1> QED
  BY <1>1, <1>2, RtNextKeepsUp, NfNextKeepsUp, PTL DEF ProgramsSpec, SubscribersKeepUp

----------------------------------------------------------------------------
(* The programs together. *)

\* What the programs whose sleepers must be remembered keep.
ProgramsInv == WaitInv /\ VcInv /\ TlInv

\* Each program starts well, and only the one that is at work moves.
LEMMA ProgramsKeepTheirInvariants == ProgramsSpec => [](ProgramsInv /\ CnTidy)
<1>1. ProgramsInit => ProgramsInv /\ CnTidy
  BY WaitInvInit, VcInitInv, TlInitInv, CnInitTidy DEF ProgramsInit, ProgramsInv
<1>2. ProgramsInv /\ CnTidy /\ [ProgramsNext]_programVars => (ProgramsInv /\ CnTidy)'
  <2> SUFFICES ASSUME ProgramsInv, CnTidy, [ProgramsNext]_programVars PROVE (ProgramsInv /\ CnTidy)'
    OBVIOUS
  <2>1. /\ [Next]_vars /\ [VcNext]_vcVars /\ [TlNext]_tlVars /\ [CnNext]_cnVars
    BY DEF ProgramsNext, ProblemNext, ListNext, programVars, problemVars, monitorVars
  <2> QED
    BY <2>1, WaitInvNext, VcNextInv, TlNextInv, CnNextTidy DEF ProgramsInv
<1> QED
  BY <1>1, <1>2, PTL DEF ProgramsSpec

\* The counters, the lines and the sleeping threads of the monitor agree, a citizen
\* that sleeps in its list is behind a full class or behind one that is awake, and
\* no car from the east sleeps through its green light.
THEOREM ProgramsRememberSleepers == ProgramsSpec => []SleepersAreRemembered
<1>1. ProgramsInv => SleepersAreRemembered
  <2>1. WaitInv => QueuesAgree
    BY DEF WaitInv, QueuesKnow, Agreed, QueuesAgree, WaitingOf, Waiting
  <2>2. TlInv => TlEastWakesOnGreen
    BY DEF TlInv
  <2> QED
    BY <2>1, <2>2, VcListedRemembered DEF ProgramsInv, SleepersAreRemembered
<1> QED
  BY <1>1, ProgramsKeepTheirInvariants, PTL

\* Wherever a deferred cancellation meets a thread of the two programs that push
\* their handlers, memory, file, socket and buffer are released.
THEOREM ProgramsCancelCleanly == ProgramsSpec => []CancelLeavesNothing
BY ProgramsKeepTheirInvariants, CnTidyIsClean, PTL

----------------------------------------------------------------------------
(* The lists next to the other programs. *)

\* The node by node invariants of both kinds of lists, which a step of another
\* program does not touch.
LEMMA ProgramsKeepTheLists == ProgramsSpec => [](GlListInv /\ LlInv)
<1>1. ProgramsInit => GlListInv /\ LlInv
  BY GlListInvInit, LlInvInit DEF ProgramsInit
<1>2. GlListInv /\ LlInv /\ [ProgramsNext]_programVars => (GlListInv /\ LlInv)'
  <2> SUFFICES ASSUME GlListInv, LlInv, [ProgramsNext]_programVars PROVE (GlListInv /\ LlInv)'
    OBVIOUS
  <2>1. [GlNext]_glVars /\ [LlNext]_llVars
    BY DEF ProgramsNext, ProblemNext, ListNext, programVars, listVars
  <2> QED
    BY <2>1, GlListInvNext, LlInvNext
<1> QED
  BY <1>1, <1>2, PTL DEF ProgramsSpec

\* The run's own statement for any number of nodes, lists and items: every list
\* of students ends, counts its nodes and shares none, also under a loop that
\* deletes, and the links of threadlib's lists stay each other's inverse.
THEOREM ProgramsLinksAreSound == ProgramsSpec => [](LlSound /\ GlLinksAgree)
<1>1. GlListInv => GlLinksAgree
  BY DEF GlListInv, GlInv
<1> QED
  BY <1>1, LlInvSuffices, ProgramsKeepTheLists, PTL

\* Both kinds of lists implement what is promised of them, lists of items and a
\* waiting line, and no linked node drops out of the lists that share the nodes.
THEOREM ProgramsKeepTheListsPromise == ProgramsSpec => ListsKeepTheirPromise
<1>1. ProgramsInit => Line!LineInit /\ Lists!ListsInit
  BY GlListInvInit, LlInvInit DEF ProgramsInit, Line!LineInit
<1>2. GlListInv /\ LlInv /\ [ProgramsNext]_programVars
        => /\ [Line!LineNext]_(GlChain(PriorityBase))
           /\ [Lists!ListsNext]_([l \in LlLists |-> LlContents(heap, l)])
  <2> SUFFICES ASSUME GlListInv, LlInv, [ProgramsNext]_programVars
               PROVE  /\ [Line!LineNext]_(GlChain(PriorityBase))
                      /\ [Lists!ListsNext]_([l \in LlLists |-> LlContents(heap, l)])
    OBVIOUS
  <2>1. [GlNext]_glVars /\ [LlNext]_llVars
    BY DEF ProgramsNext, ProblemNext, ListNext, programVars, listVars
  <2> QED
    BY <2>1, GlStepOfALine, LlStepOfLists
<1>3. GlListInv => GlNobodyCutOff
  BY GlListInvSuffices
<1> QED
  BY <1>1, <1>2, <1>3, ProgramsKeepTheLists, PTL
  DEF ProgramsSpec, ListsKeepTheirPromise, LlImplementsLists, GlImplementsLine, Line!LineSpec, Lists!ListsSpec

============================================================================
