----------------------------- MODULE StudentList -----------------------------
(***************************************************************************)
(* The CRUD program of references/CRUD: a reader, an updater, a creator    *)
(* and a deleter thread work for ever on a list of students.  The list has *)
(* a read/write lock, each student one of its own, and a reference count:  *)
(* one reference for being in the list and one for each thread that uses   *)
(* the student.  Whoever drops the last one destroys it.  A student is     *)
(* known by its address, which the model does not use again; MaxStudents   *)
(* bounds the allocations.                                                 *)
(***************************************************************************)
EXTENDS Integers, FiniteSets

CONSTANTS RollNos,       \* the roll numbers, 0 .. MAX_ROLL_NO - 1 in the code
          MaxStudents    \* bound: students allocated

ASSUME StudentAssumption == MaxStudents \in Nat

Users == {"reader", "updater"}             \* those who look a student up to use it
CrudThreads == Users \cup {"creator", "deleter"}
Students == 1 .. MaxStudents
NoStudent == 0

VARIABLES stud_lst,     \* the list: the student with each roll number
          allocated,    \* how many students were allocated
          freed,        \* those given back
          ref_count,    \* of each student
          lst_lock,     \* who holds the lock of the list
          stud_lock,    \* who holds the lock of each student
          stud,         \* the student each thread has in hand
          crud_at           \* where each thread is

crudVars == <<stud_lst, allocated, freed, ref_count, lst_lock, stud_lock, stud, crud_at>>

\* pthread_rwlock_t, by its holders.
Unheld == [readers |-> {}, writers |-> {}]
RdLock(l) == l.writers = {}
WrLock(l) == l = Unheld
RdLocked(l, t) == [l EXCEPT !.readers = @ \cup {t}]
WrLocked(l, t) == [l EXCEPT !.writers = @ \cup {t}]
RwUnlocked(l, t) == [readers |-> l.readers \ {t}, writers |-> l.writers \ {t}]

\* The list by roll number, under its lock.
student_lst_lookup(r) == stud_lst[r]
student_lst_insert(r, s) == stud_lst' = [stud_lst EXCEPT ![r] = s]
student_lst_remove(r) == stud_lst' = [stud_lst EXCEPT ![r] = NoStudent]

CrudInit ==
    /\ stud_lst = [r \in RollNos |-> NoStudent]
    /\ allocated = 0 /\ freed = {}
    /\ ref_count = [s \in Students |-> 0]
    /\ lst_lock = Unheld
    /\ stud_lock = [s \in Students |-> Unheld]
    /\ stud = [t \in CrudThreads |-> NoStudent]
    /\ crud_at = [t \in CrudThreads |-> "idle"]

\* Slip: the thread does not count itself before it leaves the list.
crud_lookup_uncounted(t) ==
    /\ crud_at[t] = "idle" /\ RdLock(lst_lock)
    /\ \E r \in RollNos :
        /\ student_lst_lookup(r) # NoStudent
        /\ stud' = [stud EXCEPT ![t] = student_lst_lookup(r)]
    /\ lst_lock' = RdLocked(lst_lock, t)
    /\ crud_at' = [crud_at EXCEPT ![t] = "found"]
    /\ UNCHANGED <<stud_lst, allocated, freed, ref_count, stud_lock>>

\* A student is looked up and counted under the list's lock; a lookup that finds
\* none leaves everything as it was.
crud_lookup(t) ==
    /\ crud_at[t] = "idle" /\ RdLock(lst_lock)
    /\ \E r \in RollNos :
        /\ student_lst_lookup(r) # NoStudent
        /\ stud' = [stud EXCEPT ![t] = student_lst_lookup(r)]
        /\ ref_count' = [ref_count EXCEPT ![student_lst_lookup(r)] = @ + 1]
    /\ lst_lock' = RdLocked(lst_lock, t)
    /\ crud_at' = [crud_at EXCEPT ![t] = "found"]
    /\ UNCHANGED <<stud_lst, allocated, freed, stud_lock>>

\* What the reader and the updater do differently: the lock they take of the student.
reader_fn_locks == /\ RdLock(stud_lock[stud["reader"]])
                   /\ stud_lock' = [stud_lock EXCEPT ![stud["reader"]] = RdLocked(@, "reader")]
update_fn_locks == /\ WrLock(stud_lock[stud["updater"]])
                   /\ stud_lock' = [stud_lock EXCEPT ![stud["updater"]] = WrLocked(@, "updater")]

\* The student is locked for what t wants of it, and then the list is unlocked.
crud_lock_student(t) ==
    /\ crud_at[t] = "found"
    /\ \/ t = "reader" /\ reader_fn_locks
       \/ t = "updater" /\ update_fn_locks
    /\ lst_lock' = RwUnlocked(lst_lock, t)
    /\ crud_at' = [crud_at EXCEPT ![t] = "uses"]
    /\ UNCHANGED <<stud_lst, allocated, freed, ref_count, stud>>

\* The student is read or updated, and unlocked.
crud_use(t) ==
    /\ crud_at[t] = "uses"
    /\ stud_lock' = [stud_lock EXCEPT ![stud[t]] = RwUnlocked(@, t)]
    /\ crud_at' = [crud_at EXCEPT ![t] = "drops"]
    /\ UNCHANGED <<stud_lst, allocated, freed, ref_count, lst_lock, stud>>

\* Slip: only the deleter looks whether its reference was the last one.
crud_drop_unseen(t) ==
    /\ crud_at[t] = "drops"
    /\ ref_count' = [ref_count EXCEPT ![stud[t]] = @ - 1]
    /\ IF ref_count[stud[t]] = 1 /\ t = "deleter"
       THEN crud_at' = [crud_at EXCEPT ![t] = "destroys"] /\ UNCHANGED stud
       ELSE /\ crud_at' = [crud_at EXCEPT ![t] = "idle"]
            /\ stud' = [stud EXCEPT ![t] = NoStudent]
    /\ UNCHANGED <<stud_lst, allocated, freed, lst_lock, stud_lock>>

\* thread_using_object_done, which tells the thread whether it was the last one.
thread_using_object_done(t) ==
    /\ crud_at[t] = "drops"
    /\ ref_count' = [ref_count EXCEPT ![stud[t]] = @ - 1]
    /\ IF ref_count[stud[t]] = 1
       THEN crud_at' = [crud_at EXCEPT ![t] = "destroys"] /\ UNCHANGED stud
       ELSE /\ crud_at' = [crud_at EXCEPT ![t] = "idle"]
            /\ stud' = [stud EXCEPT ![t] = NoStudent]
    /\ UNCHANGED <<stud_lst, allocated, freed, lst_lock, stud_lock>>

student_destroy(t) ==
    /\ crud_at[t] = "destroys"
    /\ freed' = freed \cup {stud[t]}
    /\ stud' = [stud EXCEPT ![t] = NoStudent]
    /\ crud_at' = [crud_at EXCEPT ![t] = "idle"]
    /\ UNCHANGED <<stud_lst, allocated, ref_count, lst_lock, stud_lock>>

\* All of create_fn is under the list's lock: one step for the other threads.
create_fn ==
    /\ WrLock(lst_lock) /\ allocated < MaxStudents
    /\ \E r \in RollNos :
        /\ student_lst_lookup(r) = NoStudent
        /\ student_lst_insert(r, allocated + 1)
    /\ allocated' = allocated + 1
    /\ ref_count' = [ref_count EXCEPT ![allocated + 1] = 1]
    /\ UNCHANGED <<freed, lst_lock, stud_lock, stud, crud_at>>

\* The deleter takes a student out of the list and counts itself.
delete_remove ==
    /\ crud_at["deleter"] = "idle" /\ WrLock(lst_lock)
    /\ \E r \in RollNos :
        /\ student_lst_lookup(r) # NoStudent
        /\ stud' = [stud EXCEPT !["deleter"] = student_lst_lookup(r)]
        /\ ref_count' = [ref_count EXCEPT ![student_lst_lookup(r)] = @ + 1]
        /\ student_lst_remove(r)
    /\ lst_lock' = WrLocked(lst_lock, "deleter")
    /\ crud_at' = [crud_at EXCEPT !["deleter"] = "removed"]
    /\ UNCHANGED <<allocated, freed, stud_lock>>

\* Slip: the reference of the list is kept.
delete_keeps_reference ==
    /\ crud_at["deleter"] = "removed"
    /\ lst_lock' = RwUnlocked(lst_lock, "deleter")
    /\ crud_at' = [crud_at EXCEPT !["deleter"] = "drops"]
    /\ UNCHANGED <<stud_lst, allocated, freed, ref_count, stud_lock, stud>>

\* It drops the reference of the list, and its own one after the unlock.
delete_unlist ==
    /\ crud_at["deleter"] = "removed"
    /\ ref_count' = [ref_count EXCEPT ![stud["deleter"]] = @ - 1]
    /\ lst_lock' = RwUnlocked(lst_lock, "deleter")
    /\ crud_at' = [crud_at EXCEPT !["deleter"] = "drops"]
    /\ UNCHANGED <<stud_lst, allocated, freed, stud_lock, stud>>

\* An operation that was begun goes on.
CrudGoesOn(t) ==
    \/ t \in Users /\ (crud_lock_student(t) \/ crud_use(t))
    \/ t = "deleter" /\ delete_unlist
    \/ thread_using_object_done(t) \/ student_destroy(t)

\* The four threads, each in a loop for ever.
reader_fn == crud_lookup("reader") \/ CrudGoesOn("reader")
update_fn == crud_lookup("updater") \/ CrudGoesOn("updater")
delete_fn == delete_remove \/ CrudGoesOn("deleter")

CrudNext == reader_fn \/ update_fn \/ create_fn \/ delete_fn

\* A thread that can go on does.
CrudFairness == \A t \in CrudThreads : WF_crudVars(CrudGoesOn(t))

CrudSpec == CrudInit /\ [][CrudNext]_crudVars /\ CrudFairness

----------------------------------------------------------------------------

Listed(s) == \E r \in RollNos : stud_lst[r] = s
BeingRemoved(s) == stud["deleter"] = s /\ crud_at["deleter"] = "removed"
InHand(s) == {t \in CrudThreads : stud[t] = s /\ crud_at[t] # "destroys"}

\* The count is what it is meant to count, whatever the threads do between two
\* looks at it: so the assertions of ref_count_dec, delete_fn and student_destroy
\* hold, and it never exceeds 4.
CrudCountsItsUsers ==
    \A s \in Students :
        /\ ref_count[s] = Cardinality(InHand(s))
                          + (IF Listed(s) \/ BeingRemoved(s) THEN 1 ELSE 0)
        /\ ref_count[s] <= 4

\* Nobody has, or can find, a student that was destroyed, and only one thread
\* destroys it, when nobody else has it any more.
CrudUsedIsAlive ==
    /\ \A s \in freed : ~Listed(s) /\ \A t \in CrudThreads : stud[t] # s
    /\ \A t \in CrudThreads : crud_at[t] = "destroys" =>
           ~Listed(stud[t]) /\ \A v \in CrudThreads \ {t} : stud[v] # stud[t]

\* A student whose deletion was deferred is destroyed in the end.
CrudDeferredIsDestroyed ==
    \A s \in Students : (s <= allocated /\ ~Listed(s)) ~> s \in freed
==============================================================================
