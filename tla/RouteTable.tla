------------------------------ MODULE RouteTable ------------------------------
(***************************************************************************)
(* The route table of the publish/subscribe demonstration: a publisher     *)
(* adds, removes and modifies routes, a subscriber thread registers        *)
(* subscriptions at routes, and every change of a route calls back the     *)
(* subscribers in its list.  Nothing is locked: a thread looks a route up  *)
(* in one step and works on it in later ones.  The demonstration's main    *)
(* lets a second pass between the start of the two threads, for the sake   *)
(* of the output; nothing orders their steps.                              *)
(*                                                                         *)
(* Changing the list by one route, writing a route, and one round of       *)
(* callbacks, is one step.  Memory that is given back keeps its content    *)
(* and is not given out again.                                             *)
(***************************************************************************)
EXTENDS Integers, SequencesExt

CONSTANTS Dests, Masks,        \* bound: the addresses and masks considered
          RouteData,           \* bound: the interfaces and gateways the publisher gives
          SubscribedDests,     \* what subscriber 1, 2, ... subscribes to
          FirstMask,           \* the mask of every subscription
          MaxNodes             \* bound: the nodes allocated

ASSUME RouteTableAssumption ==
    /\ SubscribedDests \in Seq(Dests) /\ FirstMask \in Masks
    /\ MaxNodes \in Nat
    /\ "placeholder" \notin RouteData /\ "deleted" \notin RouteData

Keys == Dests \X Masks
Nodes == 1 .. MaxNodes
Subs == DOMAIN SubscribedDests
RtThreads == {"subscriber", "publisher"}
NoNode == 0

VARIABLES route_list,     \* the linked nodes, youngest first
          route,          \* route[n]: key, data and subscriber_list of node n
          rt_freed,       \* the nodes given back
          rt_allocated,   \* how many nodes were allocated
          rt_at,          \* rt_at[t]: what thread t does, on which node
          subs_id,        \* the subscription the subscriber thread is at
          heard           \* heard[s]: what subscriber s was told last

rtVars == <<route_list, route, rt_freed, rt_allocated, rt_at, subs_id, heard>>

Idle == [step |-> "idle", key |-> <<>>, node |-> NoNode, new |-> NoNode, then |-> "idle"]

init_route_table == route_list = <<>>

RtInit == /\ init_route_table /\ rt_freed = {} /\ rt_allocated = 0
          /\ route = [n \in Nodes |-> [key |-> <<>>, data |-> "", subscriber_list |-> <<>>]]
          /\ rt_at = [t \in RtThreads |-> Idle]
          /\ subs_id = 1
          /\ heard = [s \in Subs |-> "nothing"]

-----------------------------------------------------------------------------
\* get_route_table_node_by_dest_and_mask: the first node of the list with the key.
get_route_table_node_by_dest_and_mask(key) ==
    LET place == SelectInSeq(route_list, LAMBDA n : route[n].key = key)
    IN IF place = 0 THEN NoNode ELSE route_list[place]

\* Slip: the round begins behind the first of the list.
notify_all_but_first(n, news) ==
    heard' = [s \in Subs |-> IF /\ s \in ToSet(route[n].subscriber_list)
                                /\ s # Head(route[n].subscriber_list)
                             THEN news ELSE heard[s]]

\* notify_subscribers: every subscriber in the list of node n hears news.
notify_subscribers(n, news) ==
    heard' = [s \in Subs |-> IF s \in ToSet(route[n].subscriber_list) THEN news ELSE heard[s]]

At(t, step) == rt_at[t].step = step
Go(t, changes) == rt_at' = [rt_at EXCEPT ![t] = changes]

\* create_route_table_node, and the call of add_route_table_node for the result;
\* after it the thread goes on at step then.
create_and_add(t, key, data, then) ==
    /\ rt_allocated < MaxNodes
    /\ rt_allocated' = rt_allocated + 1
    /\ route' = [route EXCEPT ![rt_allocated'] = [key |-> key, data |-> data, subscriber_list |-> <<>>]]
    /\ Go(t, [step |-> "add", key |-> key, node |-> rt_allocated', new |-> rt_allocated', then |-> then])
    /\ UNCHANGED <<route_list, rt_freed, heard>>

\* add_route_table_node looks for a route of the same key.  A new route goes into
\* the list, and whoever has subscribed to it since then is told; one that is there
\* takes the new data, its subscribers are told, and the new node is freed,
\* although the caller has it.
add_looks_up(t) ==
    /\ At(t, "add")
    /\ LET existing == get_route_table_node_by_dest_and_mask(rt_at[t].key)
       IN Go(t, IF existing = NoNode THEN [rt_at[t] EXCEPT !.step = "link"]
                ELSE [rt_at[t] EXCEPT !.step = "update", !.node = existing])
    /\ UNCHANGED <<route_list, route, rt_freed, rt_allocated, subs_id, heard>>

add_links(t) ==
    /\ At(t, "link")
    /\ route_list' = <<rt_at[t].new>> \o route_list
    /\ Go(t, [rt_at[t] EXCEPT !.step = "announce"])
    /\ UNCHANGED <<route, rt_freed, rt_allocated, subs_id, heard>>

add_announces(t) ==
    /\ At(t, "announce")
    /\ notify_subscribers(rt_at[t].new, route[rt_at[t].new].data)
    /\ Go(t, [rt_at[t] EXCEPT !.step = rt_at[t].then])
    /\ UNCHANGED <<route_list, route, rt_freed, rt_allocated, subs_id>>

add_updates(t) ==
    /\ At(t, "update")
    /\ route' = [route EXCEPT ![rt_at[t].node].data = route[rt_at[t].new].data]
    /\ Go(t, [rt_at[t] EXCEPT !.step = "notify"])
    /\ UNCHANGED <<route_list, rt_freed, rt_allocated, subs_id, heard>>

add_notifies(t) ==
    /\ At(t, "notify")
    /\ notify_subscribers(rt_at[t].node, route[rt_at[t].node].data)
    /\ rt_freed' = IF rt_at[t].new = NoNode THEN rt_freed ELSE rt_freed \cup {rt_at[t].new}
    /\ Go(t, [rt_at[t] EXCEPT !.step = rt_at[t].then])
    /\ UNCHANGED <<route_list, route, rt_allocated, subs_id>>

add_route_table_node(t) ==
    add_looks_up(t) \/ add_links(t) \/ add_announces(t) \/ add_updates(t) \/ add_notifies(t)

-----------------------------------------------------------------------------
\* add_subscriber_to_route_table: look the route up; if there is none, make a
\* placeholder; enter its list; be told at once what is there, unless it is the
\* placeholder just made.
subscribe_looks_up ==
    LET key == <<SubscribedDests[subs_id], FirstMask>>
        n == get_route_table_node_by_dest_and_mask(key)
    IN /\ At("subscriber", "idle") /\ subs_id \in Subs
       /\ IF n = NoNode
          THEN create_and_add("subscriber", key, "placeholder", "enter")
          ELSE /\ Go("subscriber", [Idle EXCEPT !.step = "enter", !.key = key, !.node = n])
               /\ UNCHANGED <<route_list, route, rt_freed, rt_allocated, heard>>
       /\ UNCHANGED subs_id

\* Slip: who enters the list of a route that is there is not told of it.
enters_untold ==
    LET me == rt_at["subscriber"]
        n == IF me.new = NoNode THEN me.node ELSE me.new
    IN /\ At("subscriber", "enter")
       /\ route' = [route EXCEPT ![n].subscriber_list = <<subs_id>> \o @]
       /\ Go("subscriber", Idle)
       /\ subs_id' = subs_id + 1
       /\ UNCHANGED <<route_list, rt_freed, rt_allocated, heard>>

\* The node it enters is the one it made, be it in the list or freed.
subscribe_enters ==
    LET me == rt_at["subscriber"]
        n == IF me.new = NoNode THEN me.node ELSE me.new
    IN /\ At("subscriber", "enter")
       /\ route' = [route EXCEPT ![n].subscriber_list = <<subs_id>> \o @]
       /\ heard' = IF me.new = NoNode THEN heard ELSE [heard EXCEPT ![subs_id] = "placeholder"]
       /\ Go("subscriber", IF me.new = NoNode THEN [me EXCEPT !.step = "told"] ELSE Idle)
       /\ subs_id' = IF me.new = NoNode THEN subs_id ELSE subs_id + 1
       /\ UNCHANGED <<route_list, rt_freed, rt_allocated>>

subscribe_is_told ==
    /\ At("subscriber", "told")
    /\ heard' = [heard EXCEPT ![subs_id] = route[rt_at["subscriber"].node].data]
    /\ subs_id' = subs_id + 1
    /\ Go("subscriber", Idle)
    /\ UNCHANGED <<route_list, route, rt_freed, rt_allocated>>

subscriber_thread_fn == \/ subscribe_looks_up \/ subscribe_enters \/ subscribe_is_told
                        \/ add_route_table_node("subscriber")

-----------------------------------------------------------------------------
\* publisher_thread_fn: the routes added at first and those of the menu.
publisher_adds(key, data) ==
    /\ At("publisher", "idle") /\ create_and_add("publisher", key, data, "idle")
    /\ UNCHANGED subs_id

publisher_finds(key, step, new) ==
    LET n == get_route_table_node_by_dest_and_mask(key)
    IN /\ At("publisher", "idle") /\ n # NoNode
       /\ Go("publisher", [Idle EXCEPT !.step = step, !.key = new, !.node = n])
       /\ UNCHANGED <<route_list, route, rt_freed, rt_allocated, subs_id, heard>>

\* remove_route_table_node tells the subscribers, then unlinks and frees the node.
remove_notifies ==
    /\ At("publisher", "remove")
    /\ notify_subscribers(rt_at["publisher"].node, "deleted")
    /\ Go("publisher", [rt_at["publisher"] EXCEPT !.step = "unlink"])
    /\ UNCHANGED <<route_list, route, rt_freed, rt_allocated, subs_id>>

remove_unlinks ==
    /\ At("publisher", "unlink")
    /\ route_list' = RemoveFirst(route_list, rt_at["publisher"].node)
    /\ rt_freed' = rt_freed \cup {rt_at["publisher"].node}
    /\ Go("publisher", Idle)
    /\ UNCHANGED <<route, rt_allocated, subs_id, heard>>

\* modify_route_table_node gives the node a new mask, new data or both, and
\* notifies; nothing asks whether there is a route with the new mask.
modify_route_table_node ==
    LET me == rt_at["publisher"]
    IN /\ At("publisher", "modify")
       /\ \E data \in RouteData \cup {route[me.node].data} :
             route' = [route EXCEPT ![me.node].key = me.key, ![me.node].data = data]
       /\ Go("publisher", [me EXCEPT !.step = "notify"])
       /\ UNCHANGED <<route_list, rt_freed, rt_allocated, subs_id, heard>>

publisher_thread_fn ==
    \/ \E key \in Keys, data \in RouteData : publisher_adds(key, data)
    \/ \E key \in Keys : publisher_finds(key, "remove", key)
    \/ \E key \in Keys, mask \in Masks : publisher_finds(key, "modify", <<key[1], mask>>)
    \/ remove_notifies \/ remove_unlinks \/ modify_route_table_node
    \/ add_route_table_node("publisher")

RtNext == subscriber_thread_fn \/ publisher_thread_fn

RtSpec == RtInit /\ [][RtNext]_rtVars

-----------------------------------------------------------------------------
\* The callbacks that tell of the end of route n are over; it is unlinked next.
RtIsDeleted(n) == At("publisher", "unlink") /\ rt_at["publisher"].node = n

\* Subscriber s was told what route n is now, or that it comes to its end, or
\* somebody is about to tell it.
RtKnows(s, n) ==
    \/ heard[s] = "deleted" \/ (heard[s] = route[n].data /\ ~RtIsDeleted(n))
    \/ \E t \in RtThreads : At(t, "notify") /\ rt_at[t].node = n
    \/ At("subscriber", "told") /\ rt_at["subscriber"].node = n /\ subs_id = s

\* The two ways to fall behind: the subscriber enters the node that it made itself,
\* and somebody else has given that node data since; or the subscriber thread is
\* still at work on a route whose end was already told.
RtComesLate(s, n) ==
    \/ /\ At("subscriber", "enter") /\ rt_at["subscriber"].new = n /\ subs_id = s
       /\ route[n].data # "placeholder"
    \/ RtIsDeleted(n) /\ n \in {rt_at["subscriber"].node, rt_at["subscriber"].new}

\* In whatever order the two threads go on, no step lets a subscriber of a route in
\* the table fall behind, whether it subscribed before the route was changed, or
\* between the change and its round of callbacks, or after it.
RtKeepsUp ==
    \A n \in Nodes, s \in Subs :
        (n \in ToSet(route_list) /\ s \in ToSet(route[n].subscriber_list))' =>
            \/ RtKnows(s, n)'
            \/ s \in ToSet(route[n].subscriber_list) /\ ~RtKnows(s, n)
            \/ RtComesLate(s, n)

==============================================================================
