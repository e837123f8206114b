------------------------------- MODULE Clients -------------------------------
(***************************************************************************)
(* The client threads of the locks, and the width of the locks' counters.  *)
(***************************************************************************)
EXTENDS Integers, FiniteSets

CONSTANTS Threads,
          NoThread,     \* the pthread_t 0 of a lock nobody owns
          Wrap,         \* 2^16: the counters are uint16_t
          MaxDepth      \* how deep a client nests its locks

Places == Threads \X (1 .. MaxDepth)

\* The counters are wide enough for what the clients do with them.
ASSUME ClientsAssumption ==
    /\ NoThread \notin Threads
    /\ IsFiniteSet(Threads)
    /\ MaxDepth \in Nat \ {0}
    /\ Wrap \in Nat
    /\ MaxDepth < Wrap /\ Cardinality(Threads) < Wrap /\ Cardinality(Places) < Wrap
==============================================================================
