------------------------------- MODULE GlThread -------------------------------
(***************************************************************************)
(* The doubly linked lists that threadlib strings its threads on           *)
(* (glthread.c): a node is embedded in the structure it stands for, and a  *)
(* list is a node that stands for nothing, its base.  The caller holds the *)
(* mutex of the pool or of the wait queue the list belongs to.             *)
(*                                                                         *)
(* Two lists share the nodes: one is filled by priority, as the pool's and *)
(* the wait queues' are, the other by position.                            *)
(***************************************************************************)
EXTENDS Integers, SequencesExt

CONSTANTS GlNodes,          \* the embedded nodes
          PriorityBase, PlainBase,
          Urgent,           \* the nodes that the comparator puts before the others
          NoGl              \* NULL

ASSUME GlBasesApart == /\ IsFiniteSet(GlNodes)
                       /\ PriorityBase # PlainBase
                       /\ {PriorityBase, PlainBase} \cap GlNodes = {}
                       /\ NoGl \notin GlNodes \cup {PriorityBase, PlainBase}

VARIABLES left, right
glVars == <<left, right>>

AllGl == GlNodes \cup {PriorityBase, PlainBase}
GlRank(n) == IF n \in Urgent THEN 0 ELSE 1
Unlinked(n) == left[n] = NoGl /\ right[n] = NoGl

\* The nodes of a list, as ITERATE_GLTHREAD_BEGIN meets them.
GlChain(b) ==
    LET at[k \in 0..Cardinality(GlNodes)] ==
            IF k = 0 THEN right[b] ELSE IF at[k - 1] = NoGl THEN NoGl ELSE right[at[k - 1]]
        met == Cardinality({k \in 1..Cardinality(GlNodes) : at[k - 1] # NoGl})
    IN  [k \in 1..met |-> at[k - 1]]

get_glthread_list_count(b) == Len(GlChain(b))

\* The nodes the links lead to from a node on: those in every set that has its
\* right neighbour and is closed under going right.
GlBehind(x) ==
    {n \in AllGl : \A S \in SUBSET AllGl :
        right[x] \in S \cup {NoGl} /\ (\A m \in S : right[m] \in S \cup {NoGl})
            => n \in S}

init_glthread == left = [n \in AllGl |-> NoGl] /\ right = [n \in AllGl |-> NoGl]

\* Slip: the old successor still points back at curr.
add_next_one_way(curr, new) ==
    /\ right' = [right EXCEPT ![curr] = new, ![new] = IF right[curr] = NoGl THEN @ ELSE right[curr]]
    /\ left' = [left EXCEPT ![new] = curr]

glthread_add_next(curr, new) ==
    /\ right' = [right EXCEPT ![curr] = new, ![new] = IF right[curr] = NoGl THEN @ ELSE right[curr]]
    /\ left' = [n \in AllGl |-> IF n = new THEN curr ELSE IF n = right[curr] THEN new ELSE left[n]]

\* Of a node that has one before it: the callers pass no base.
glthread_add_before(curr, new) ==
    /\ left[curr] # NoGl
    /\ right' = [right EXCEPT ![left[curr]] = new, ![new] = curr]
    /\ left' = [left EXCEPT ![new] = left[curr], ![curr] = new]

\* The neighbours, where there are any, become neighbours of each other.
remove_glthread(curr) ==
    /\ right' = [n \in AllGl |-> IF n = curr THEN NoGl ELSE IF n = left[curr] THEN right[curr] ELSE right[n]]
    /\ left' = [n \in AllGl |-> IF n = curr THEN NoGl ELSE IF n = right[curr] THEN left[curr] ELSE left[n]]

\* Every node of the loop is removed; the first one's removal clears the base.
delete_glthread_list(b) ==
    LET gone == GlBehind(b)
    IN  /\ right' = [n \in AllGl |-> IF n \in gone \cup {b} THEN NoGl ELSE right[n]]
        /\ left' = [n \in AllGl |-> IF n \in gone THEN NoGl ELSE left[n]]

\* Behind the node of the list, or the base, that has nothing to its right.
glthread_add_last(b, new) ==
    \E last \in {b} \cup GlBehind(b) : right[last] = NoGl /\ glthread_add_next(last, new)

\* Slip: equals are let in front.
priority_insert_before_equals(b, new) ==
    \E p \in {b} \cup GlBehind(b) :
        /\ \A q \in GlBehind(b) \ GlBehind(p) : GlRank(q) < GlRank(new)
        /\ right[p] # NoGl => GlRank(right[p]) >= GlRank(new)
        /\ glthread_add_next(p, new)

\* Behind the first node, from the base on, whose right neighbour comes after
\* the new one (comp_fn says -1) or is not there.
glthread_priority_insert(b, new) ==
    \E p \in {b} \cup GlBehind(b) :
        /\ \A q \in GlBehind(b) \ GlBehind(p) : GlRank(q) <= GlRank(new)
        /\ right[p] # NoGl => GlRank(right[p]) > GlRank(new)
        /\ glthread_add_next(p, new)

dequeue_glthread_first(b) ==
    /\ right[b] # NoGl
    /\ remove_glthread(right[b])

-----------------------------------------------------------------------------
GlInit == init_glthread
GlNext ==
    \/ \E n \in GlNodes :
         /\ Unlinked(n)
         /\ \/ glthread_priority_insert(PriorityBase, n)
            \/ glthread_add_last(PlainBase, n)
            \/ \E c \in {PlainBase} \cup GlBehind(PlainBase) : glthread_add_next(c, n)
            \/ \E c \in GlBehind(PlainBase) : glthread_add_before(c, n)
    \/ \E n \in GlNodes : remove_glthread(n)
    \/ \E b \in {PriorityBase, PlainBase} : dequeue_glthread_first(b) \/ delete_glthread_list(b)
GlSpec == GlInit /\ [][GlNext]_glVars

-----------------------------------------------------------------------------
\* The two directions agree: a node is the right neighbour of another exactly
\* when that one is its left neighbour, and nothing stands to the left of a base.
GlLinksAgree ==
    /\ \A n, m \in AllGl : right[n] = m <=> left[m] = n
    /\ left[PriorityBase] = NoGl /\ left[PlainBase] = NoGl

\* A node that is linked lies in one of the lists: no removal or insertion cuts
\* part of a list off.
GlNobodyCutOff ==
    get_glthread_list_count(PriorityBase) + get_glthread_list_count(PlainBase)
        = Cardinality({n \in GlNodes : ~Unlinked(n)})

\* The list the pool and the wait queues fill is a line ordered by priority,
\* first come first served among equals.
Line == INSTANCE WaitingLine WITH People <- GlNodes, Rank <- GlRank, line <- GlChain(PriorityBase)
GlImplementsLine == Line!LineSpec
==============================================================================
