------------------------------ MODULE SinglyList ------------------------------
(***************************************************************************)
(* The singly linked list of the student program (LinkedListApi), node by  *)
(* node: every function is an operator from the heap before the call to    *)
(* the heap after it.  One thread calls them; the program's lock around    *)
(* its list is modelled with the students.                                 *)
(*                                                                         *)
(* heap   next, data   of every node; live the nodes that are allocated    *)
(*        head, count  of every list (head, node_count)                    *)
(* loop   a delete-safe loop that is under way (ITERATE_LIST_BEGIN2)       *)
(*                                                                         *)
(* Data are pointers, modelled by numbers: what two of them point at is    *)
(* equal when their halves are.  An allocation returns the first free node.*)
(***************************************************************************)
EXTENDS Integers, SequencesExt

CONSTANTS LlLists, LlData, MaxLlNodes

\* 0 is NULL, which nobody enters in a list: copy_singly_ll would leave it out.
ASSUME LlBounds == MaxLlNodes \in Nat /\ LlData \subseteq Nat \ {0}

VARIABLES heap, loop
llVars == <<heap, loop>>

NoLink == 0
LlNodes == 1..MaxLlNodes
EqualContent(d, e) == d \div 2 = e \div 2

\* The nodes from the head on, as a loop along next meets them.
LlChain(h, l) ==
    LET at[k \in 0..MaxLlNodes] ==
            IF k = 0 THEN h.head[l]
            ELSE IF at[k - 1] = NoLink THEN NoLink ELSE h.next[at[k - 1]]
        met == Cardinality({k \in 1..MaxLlNodes : at[k - 1] # NoLink})
    IN  [k \in 1..met |-> at[k - 1]]

LlContents(h, l) == [k \in DOMAIN LlChain(h, l) |-> h.data[LlChain(h, l)[k]]]
FirstOf(nodes, places) == IF places = {} THEN NoLink ELSE nodes[Min(places)]
Previous(h, l, n) == CHOOSE m \in Range(LlChain(h, l)) : h.next[m] = n

FreeNodes(h) == LlNodes \ h.live
Loose(h) == h.live \ UNION {Range(LlChain(h, l)) : l \in LlLists}
\* Nobody reads a freed node: its contents are forgotten.
LlFree(h, S) == [h EXCEPT !.live = @ \ S, !.next = [n \in LlNodes |-> IF n \in S THEN NoLink ELSE @[n]],
                          !.data = [n \in LlNodes |-> IF n \in S THEN NoLink ELSE @[n]]]

-----------------------------------------------------------------------------
init_singly_ll(h, l) == [h EXCEPT !.head[l] = NoLink, !.count[l] = 0]
singly_ll_set_comparison_fn(h, l) == h       \* one comparator serves every list
is_singly_ll_empty(h, l) == h.count[l] = 0

NewNode(h) == Min(FreeNodes(h))
singly_ll_init_node(h, d) ==
    [h EXCEPT !.live = @ \cup {NewNode(h)}, !.data[NewNode(h)] = d, !.next[NewNode(h)] = NoLink]

singly_ll_add_node(h, l, n) ==
    [h EXCEPT !.next[n] = IF h.head[l] = NoLink THEN @ ELSE h.head[l],
              !.head[l] = n, !.count[l] = @ + 1]

\* The search runs over node_count nodes.
singly_ll_get_node_by_data_ptr(h, l, d) ==
    FirstOf(LlChain(h, l), {k \in DOMAIN LlChain(h, l) : k <= h.count[l] /\ LlContents(h, l)[k] = d})

singly_ll_add_node_by_val(h, l, d) ==
    IF singly_ll_get_node_by_data_ptr(h, l, d) # NoLink THEN h
    ELSE singly_ll_add_node(singly_ll_init_node(h, d), l, NewNode(h))

\* A node that is not the last takes over its successor's data, and the
\* successor is freed.
singly_ll_delete_node(h, l, n) ==
    LET counted == [h EXCEPT !.count[l] = @ - 1]
        after   == h.next[n]
    IN  IF h.head[l] = NoLink THEN h
        ELSE IF after # NoLink
             THEN LlFree([counted EXCEPT !.data[n] = h.data[after], !.next[n] = h.next[after]], {after})
        ELSE IF h.count[l] = 1 /\ h.head[l] = n
             THEN LlFree([counted EXCEPT !.head[l] = NoLink], {n})
        ELSE LlFree([counted EXCEPT !.next[Previous(h, l, n)] = NoLink], {n})

\* Slip: the node before it loses the rest of the list.
remove_node_cuts_rest(h, l, n) ==
    IF h.head[l] = NoLink \/ ~Contains(SubSeq(LlChain(h, l), 1, h.count[l]), n) THEN h
    ELSE IF h.head[l] = n
         THEN [h EXCEPT !.head[l] = h.next[n], !.count[l] = @ - 1, !.next[n] = NoLink]
    ELSE [h EXCEPT !.next = [@ EXCEPT ![Previous(h, l, n)] = NoLink, ![n] = NoLink],
                   !.count[l] = @ - 1]

\* The node leaves the list and stays allocated; -1 when it is not there.
singly_ll_remove_node(h, l, n) ==
    IF h.head[l] = NoLink \/ ~Contains(SubSeq(LlChain(h, l), 1, h.count[l]), n) THEN h
    ELSE IF h.head[l] = n
         THEN [h EXCEPT !.head[l] = h.next[n], !.count[l] = @ - 1, !.next[n] = NoLink]
    ELSE [h EXCEPT !.next = [@ EXCEPT ![Previous(h, l, n)] = h.next[n], ![n] = NoLink],
                   !.count[l] = @ - 1]

NodeLike(h, l, d) ==
    FirstOf(LlChain(h, l), {k \in DOMAIN LlChain(h, l) : EqualContent(LlContents(h, l)[k], d)})
NodeWith(h, l, d) ==
    FirstOf(LlChain(h, l), {k \in DOMAIN LlChain(h, l) : LlContents(h, l)[k] = d})

singly_ll_delete_node_by_value(h, l, d) ==
    IF NodeLike(h, l, d) = NoLink THEN h ELSE singly_ll_delete_node(h, l, NodeLike(h, l, d))

singly_ll_remove_node_by_value(h, l, d) ==
    IF NodeLike(h, l, d) = NoLink THEN h ELSE singly_ll_remove_node(h, l, NodeLike(h, l, d))

singly_ll_remove_node_by_dataptr(h, l, d) ==
    IF NodeWith(h, l, d) = NoLink THEN h ELSE singly_ll_remove_node(h, l, NodeWith(h, l, d))

singly_ll_delete_node_by_data_ptr(h, l, d) ==
    LET n == singly_ll_get_node_by_data_ptr(h, l, d)
    IN  IF n = NoLink THEN h ELSE LlFree(singly_ll_remove_node(h, l, n), {n})

reverse_singly_ll(h, l) ==
    LET c == LlChain(h, l)
    IN  IF is_singly_ll_empty(h, l) \/ h.count[l] = 1 THEN h
        ELSE [h EXCEPT !.next = [n \in LlNodes |-> IF n = c[1] THEN NoLink
                                                   ELSE IF n \in Range(c) THEN Previous(h, l, n)
                                                   ELSE @[n]],
                       !.head[l] = c[Len(c)]]

delete_singly_ll(h, l) ==
    IF is_singly_ll_empty(h, l) THEN h
    ELSE LlFree([h EXCEPT !.head[l] = NoLink, !.count[l] = 0], Range(LlChain(h, l)))

AddAll(h, l, s) ==
    LET upTo[k \in 0..Len(s)] ==
            IF k = 0 THEN h ELSE singly_ll_add_node_by_val(upTo[k - 1], l, s[k])
    IN  upTo[Len(s)]

\* The list is read after the other one is emptied.
copy_singly_ll(h, src, dst) ==
    LET emptied == delete_singly_ll(h, dst)
    IN  singly_ll_set_comparison_fn(AddAll(emptied, dst, LlContents(emptied, src)), dst)

union_singly_ll(h, l1, l2, res) ==
    AddAll(AddAll(singly_ll_set_comparison_fn(init_singly_ll(h, res), res), res, LlContents(h, l1)),
           res, LlContents(h, l2))

\* A new node after node m.
AddAfter(h, l, m, d) ==
    LET g == singly_ll_init_node(h, d)
    IN  [g EXCEPT !.next = [@ EXCEPT ![NewNode(h)] = h.next[m], ![m] = NewNode(h)], !.count[l] = @ + 1]

\* With one node in the list a larger item goes in front of it, through the
\* call that takes no duplicates; in a longer list an item goes behind the first
\* node whose successor is larger, or not there.
singly_ll_add_ordered_data(h, l, d) ==
    LET c == LlChain(h, l)
        ends == {k \in DOMAIN c : k < Len(c) => h.data[c[k + 1]] > d}
    IN  IF \/ is_singly_ll_empty(h, l)
           \/ h.count[l] = 1 /\ h.data[h.head[l]] < d
        THEN singly_ll_add_node_by_val(h, l, d)
        ELSE IF h.count[l] = 1 THEN AddAfter(h, l, h.head[l], d)
        ELSE IF d < h.data[h.head[l]]
             THEN singly_ll_add_node(singly_ll_init_node(h, d), l, NewNode(h))
        ELSE AddAfter(h, l, FirstOf(c, ends), d)

-----------------------------------------------------------------------------
Idle_loop == [l |-> "none", node |-> NoLink, saved |-> NoLink, prev |-> NoLink]
Next_of(h, n) == IF n = NoLink THEN NoLink ELSE h.next[n]

\* The delete-safe loop: where it starts, and how it goes on.
loop_begin2(l) ==
    /\ loop = Idle_loop /\ heap.head[l] # NoLink
    /\ loop' = [l |-> l, node |-> heap.head[l], saved |-> heap.next[heap.head[l]], prev |-> NoLink]
    /\ UNCHANGED heap

loop_end2 ==
    /\ loop # Idle_loop
    /\ loop' = IF loop.saved = NoLink THEN Idle_loop
               ELSE [loop EXCEPT !.prev = IF loop.node # NoLink THEN loop.node ELSE @,
                                 !.node = loop.saved, !.saved = Next_of(heap, loop.saved)]
    /\ UNCHANGED heap

\* Slip: the loop deletes its node with the function.
loop_deletes_by_function ==
    /\ loop.node # NoLink
    /\ heap' = singly_ll_delete_node(heap, loop.l, loop.node)
    /\ loop' = [loop EXCEPT !.node = NoLink]

\* ITERATIVE_LIST_NODE_DELETE2.
loop_delete2 ==
    /\ loop.node # NoLink
    /\ LET after == heap.next[loop.node]
           unlinked == IF loop.prev = NoLink THEN [heap EXCEPT !.head[loop.l] = after]
                       ELSE [heap EXCEPT !.next[loop.prev] = after]
       IN  heap' = LlFree([unlinked EXCEPT !.count[loop.l] = @ - 1], {loop.node})
    /\ loop' = [loop EXCEPT !.node = NoLink]

\* A call outside a loop.
LlCall ==
    /\ loop = Idle_loop /\ UNCHANGED loop
    /\ \E l \in LlLists :
         \/ \E d \in LlData : FreeNodes(heap) # {} /\ heap' = singly_ll_add_node_by_val(heap, l, d)
         \/ \E d \in LlData : FreeNodes(heap) # {} /\ heap' = singly_ll_add_ordered_data(heap, l, d)
         \/ \E n \in Loose(heap) : heap' = singly_ll_add_node(heap, l, n)
         \/ \E n \in Range(LlChain(heap, l)) : heap' = singly_ll_delete_node(heap, l, n)
         \/ \E n \in heap.live : heap' = singly_ll_remove_node(heap, l, n)
         \/ \E d \in LlData : heap' = singly_ll_delete_node_by_value(heap, l, d)
         \/ \E d \in LlData : heap' = singly_ll_remove_node_by_value(heap, l, d)
         \/ \E d \in LlData : heap' = singly_ll_remove_node_by_dataptr(heap, l, d)
         \/ \E d \in LlData : heap' = singly_ll_delete_node_by_data_ptr(heap, l, d)
         \/ heap' = reverse_singly_ll(heap, l)
         \/ heap' = delete_singly_ll(heap, l)
         \/ \E src \in LlLists : /\ Len(LlChain(heap, src)) <= Cardinality(FreeNodes(delete_singly_ll(heap, l)))
                                 /\ heap' = copy_singly_ll(heap, src, l)
         \/ \E l1, l2 \in LlLists \ {l} :
              /\ is_singly_ll_empty(heap, l)
              /\ Len(LlChain(heap, l1)) + Len(LlChain(heap, l2)) <= Cardinality(FreeNodes(heap))
              /\ heap' = union_singly_ll(heap, l1, l2, l)

LlInit == /\ heap = [next |-> [n \in LlNodes |-> NoLink], data |-> [n \in LlNodes |-> NoLink], live |-> {},
                     head |-> [l \in LlLists |-> NoLink], count |-> [l \in LlLists |-> 0]]
          /\ loop = Idle_loop
LlNext == LlCall \/ loop_end2 \/ loop_delete2 \/ \E l \in LlLists : loop_begin2(l)
LlSpec == LlInit /\ [][LlNext]_llVars

-----------------------------------------------------------------------------
\* Every list ends, holds as many nodes as it counts, all allocated and none in
\* another list; and whatever a loop has deleted, it stands in the list at the
\* link it took, with allocated nodes to go on from.
LlSound ==
    /\ \A l \in LlLists : /\ Len(LlChain(heap, l)) = heap.count[l]
                          /\ Range(LlChain(heap, l)) \subseteq heap.live
                          /\ \A k \in LlLists \ {l} : Range(LlChain(heap, l)) \cap Range(LlChain(heap, k)) = {}
    /\ loop # Idle_loop =>
         LET here == IF loop.node # NoLink THEN loop.node ELSE loop.saved
         IN  /\ here = IF loop.prev = NoLink THEN heap.head[loop.l] ELSE heap.next[loop.prev]
             /\ {loop.node, loop.saved, loop.prev} \subseteq heap.live \cup {NoLink}
             /\ loop.saved = IF loop.node # NoLink THEN heap.next[loop.node] ELSE here

\* Node by node the lists do what lists of items promise: an item that is
\* deleted through its successor's node takes nothing else with it.
Lists == INSTANCE ListsOfItems WITH Names <- LlLists, Items <- LlData,
                                    contents <- [l \in LlLists |-> LlContents(heap, l)]
LlImplementsLists == Lists!ListsSpec
==============================================================================
