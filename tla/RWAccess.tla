------------------------------ MODULE RWAccess ------------------------------
(***************************************************************************)
(* What every reader/writer construct of this repository promises: threads *)
(* of one class at a time, and no more of them than the limit of their     *)
(* class.  The monitor of threadlib and the read/write locks are shown to  *)
(* implement this specification.                                           *)
(***************************************************************************)
EXTENDS Integers, FiniteSets

CONSTANT Threads

Classes == {"READER", "WRITER"}

VARIABLES inside,   \* inside[t]: the class t uses the resource as, or "NONE"
          limit     \* limit[c]: how many threads of class c fit in together

accessVars == <<inside, limit>>

Users(c) == {t \in Threads : inside[t] = c}

Init == /\ inside = [t \in Threads |-> "NONE"]
        /\ limit \in [Classes -> Nat]

Enter(t, c) == /\ inside[t] = "NONE"
               /\ \A u \in Threads : inside[u] \in {"NONE", c}
               /\ Cardinality(Users(c)) < limit[c]
               /\ inside' = [inside EXCEPT ![t] = c]
               /\ UNCHANGED limit

Leave(t) == /\ inside[t] # "NONE"
            /\ inside' = [inside EXCEPT ![t] = "NONE"]
            /\ UNCHANGED limit

Next == \E t \in Threads : \/ \E c \in Classes : Enter(t, c)
                           \/ Leave(t)

Spec == Init /\ [][Next]_accessVars
=============================================================================
