------------------------------ MODULE NotifChain ------------------------------
(***************************************************************************)
(* The routing table with notification chains: every entry of the table    *)
(* has a chain of call backs, client threads register in the chains, and   *)
(* a publisher thread that updates or deletes an entry runs through its    *)
(* chain.  Nothing is locked: a thread looks an entry up in one step and   *)
(* works on it in later ones, and calls one client at a time.  main lets a *)
(* second pass before it starts the next thread; nothing orders the steps  *)
(* of the threads.                                                         *)
(*                                                                         *)
(* Changing the table or a chain by one element, and writing an entry, is  *)
(* one step.  Memory that is given back keeps its content and is not given *)
(* out again.                                                              *)
(*                                                                         *)
(* A destination stands for the address and the mask of an entry.          *)
(***************************************************************************)
EXTENDS Integers, SequencesExt

CONSTANTS NfDests, NfData,     \* bound: the destinations, and the data they are given
          NfWanted,            \* NfWanted[c]: the destinations client c registers for
          MaxEntries,          \* bound: the entries allocated
          PublisherDeletes     \* the menu leaves "Delete rt table entry" to the reader

ASSUME NotifChainAssumption ==
    /\ NfWanted \in Seq(Seq(NfDests))
    /\ \A c \in DOMAIN NfWanted : IsInjective(NfWanted[c])
    /\ MaxEntries \in Nat /\ PublisherDeletes \in BOOLEAN
    /\ "none" \notin NfData

NfClients == DOMAIN NfWanted
Publisher == Len(NfWanted) + 1
NfThreads == NfClients \cup {Publisher}
Entries == 1 .. MaxEntries
NoEntry == 0

VARIABLES rt_table,       \* the linked entries, youngest first
          rt_entry,       \* rt_entry[e]: destination, data and chain of entry e
          nf_freed,       \* the entries given back
          nf_allocated,   \* how many entries were allocated
          nf_at,          \* nf_at[t]: what thread t does, and on which entry
          nf_asked,       \* nf_asked[c]: how many registrations of client c are done
          nf_heard        \* nf_heard[c][d]: what client c was told last about d

nfVars == <<rt_table, rt_entry, nf_freed, nf_allocated, nf_at, nf_asked, nf_heard>>

NotInACall == [step |-> "idle", dest |-> "", data |-> "none", entry |-> NoEntry,
               creates |-> FALSE, op |-> "NFC_UNKNOWN", rest |-> <<>>]

rt_init_rt_table == rt_table = <<>>

NfInit == /\ rt_init_rt_table /\ nf_freed = {} /\ nf_allocated = 0
          /\ rt_entry = [e \in Entries |-> [dest |-> "", data |-> "none", nfc |-> <<>>]]
          /\ nf_at = [t \in NfThreads |-> NotInACall]
          /\ nf_asked = [c \in NfClients |-> 0]
          /\ nf_heard = [c \in NfClients |->
                            [d \in NfDests |-> [op |-> "NFC_UNKNOWN", data |-> "none"]]]

NfIn(t, step) == nf_at[t].step = step
NfGo(t, changed) == nf_at' = [nf_at EXCEPT ![t] = changed]
Registered(c) == nf_asked[c] = Len(NfWanted[c])

-----------------------------------------------------------------------------
\* The first entry of the table for dest.
rt_look_up_rt_entry(dest) ==
    LET place == SelectInSeq(rt_table, LAMBDA e : rt_entry[e].dest = dest)
    IN IF place = 0 THEN NoEntry ELSE rt_table[place]

\* What the caller of rt_add_or_update_rt_entry and of rt_delete_rt_entry does next.
NfReturns(t) ==
    IF t # Publisher THEN [nf_at[t] EXCEPT !.step = "enter"]
    ELSE IF nf_at[t].op = "NFC_DEL" THEN [nf_at[t] EXCEPT !.step = "free"]
    ELSE NotInACall

nfc_create_new_notif_chain == <<>>

\* rt_add_or_update_rt_entry looks the destination up, also for the client that
\* has just done so.  There is none: a new entry, with an empty chain.
update_creates(t) ==
    /\ NfIn(t, "update") /\ rt_look_up_rt_entry(nf_at[t].dest) = NoEntry
    /\ nf_allocated < MaxEntries
    /\ nf_allocated' = nf_allocated + 1
    /\ rt_entry' = [rt_entry EXCEPT ![nf_allocated'] =
                        [dest |-> nf_at[t].dest, data |-> nf_at[t].data,
                         nfc |-> nfc_create_new_notif_chain]]
    /\ NfGo(t, [nf_at[t] EXCEPT !.step = "link", !.entry = nf_allocated'])
    /\ UNCHANGED <<rt_table, nf_freed, nf_asked, nf_heard>>

\* There is one: a client has no data for it and returns, the publisher writes.
update_finds(t) ==
    LET e == rt_look_up_rt_entry(nf_at[t].dest)
        me == [nf_at[t] EXCEPT !.entry = e]
    IN /\ NfIn(t, "update") /\ e # NoEntry
       /\ IF me.data = "none"
          THEN NfGo(t, [me EXCEPT !.step = "enter"]) /\ UNCHANGED rt_entry
          ELSE /\ NfGo(t, [me EXCEPT !.step = "invoke"])
               /\ rt_entry' = [rt_entry EXCEPT ![e].data = me.data]
       /\ UNCHANGED <<rt_table, nf_freed, nf_allocated, nf_asked, nf_heard>>

update_links(t) ==
    /\ NfIn(t, "link")
    /\ rt_table' = <<nf_at[t].entry>> \o rt_table
    /\ NfGo(t, IF nf_at[t].data = "none" THEN NfReturns(t) ELSE [nf_at[t] EXCEPT !.step = "invoke"])
    /\ UNCHANGED <<rt_entry, nf_freed, nf_allocated, nf_asked, nf_heard>>

\* nfc_invoke_notif_chain: no caller gives a key, so every element of the chain
\* is called, in its order, with the entry as it is at that moment.
invoke_begins(t) ==
    /\ NfIn(t, "invoke")
    /\ NfGo(t, [nf_at[t] EXCEPT !.step = "calls", !.rest = rt_entry[nf_at[t].entry].nfc])
    /\ UNCHANGED <<rt_table, rt_entry, nf_freed, nf_allocated, nf_asked, nf_heard>>

\* test_cb prints what it was told.
test_cb(c, e, op) ==
    nf_heard' = [nf_heard EXCEPT ![c][rt_entry[e].dest] = [op |-> op, data |-> rt_entry[e].data]]

invoke_calls(t) ==
    /\ NfIn(t, "calls") /\ nf_at[t].rest # <<>>
    /\ test_cb(Head(nf_at[t].rest), nf_at[t].entry, nf_at[t].op)
    /\ NfGo(t, [nf_at[t] EXCEPT !.rest = Tail(@)])
    /\ UNCHANGED <<rt_table, rt_entry, nf_freed, nf_allocated, nf_asked>>

invoke_ends(t) ==
    /\ NfIn(t, "calls") /\ nf_at[t].rest = <<>>
    /\ NfGo(t, NfReturns(t))
    /\ UNCHANGED <<rt_table, rt_entry, nf_freed, nf_allocated, nf_asked, nf_heard>>

rt_add_or_update_rt_entry(t) ==
    update_creates(t) \/ update_finds(t) \/ update_links(t)

nfc_invoke_notif_chain(t) == invoke_begins(t) \/ invoke_calls(t) \/ invoke_ends(t)

-----------------------------------------------------------------------------
\* rt_table_register_for_notification: a client that finds no entry for its next
\* destination has one made without data.
register_looks_up(c) ==
    LET dest == NfWanted[c][nf_asked[c] + 1]
        e == rt_look_up_rt_entry(dest)
    IN /\ NfIn(c, "idle") /\ ~Registered(c)
       /\ NfGo(c, [NotInACall EXCEPT !.step = IF e = NoEntry THEN "update" ELSE "enter",
                                     !.dest = dest, !.entry = e, !.creates = (e = NoEntry)])
       /\ UNCHANGED <<rt_table, rt_entry, nf_freed, nf_allocated, nf_asked, nf_heard>>

\* nfc_register_notif_chain: a copy of the element goes to the front of the chain.
\* Whoever had the entry made is not called.
nfc_register_notif_chain(c) ==
    /\ NfIn(c, "enter")
    /\ rt_entry' = [rt_entry EXCEPT ![nf_at[c].entry].nfc = <<c>> \o @]
    /\ IF nf_at[c].creates
       THEN NfGo(c, NotInACall) /\ nf_asked' = [nf_asked EXCEPT ![c] = @ + 1]
       ELSE NfGo(c, [nf_at[c] EXCEPT !.step = "told"]) /\ UNCHANGED nf_asked
    /\ UNCHANGED <<rt_table, nf_freed, nf_allocated, nf_heard>>

register_is_told(c) ==
    /\ NfIn(c, "told")
    /\ test_cb(c, nf_at[c].entry, "NFC_ADD")
    /\ NfGo(c, NotInACall)
    /\ nf_asked' = [nf_asked EXCEPT ![c] = @ + 1]
    /\ UNCHANGED <<rt_table, rt_entry, nf_freed, nf_allocated>>

client_thread_fn(c) == \/ register_looks_up(c) \/ nfc_register_notif_chain(c)
                       \/ register_is_told(c) \/ rt_add_or_update_rt_entry(c)

-----------------------------------------------------------------------------
\* The default entries of the publisher, and those of its menu.
publisher_updates(dest, data) ==
    /\ NfIn(Publisher, "idle")
    /\ NfGo(Publisher, [NotInACall EXCEPT !.step = "update", !.dest = dest, !.data = data,
                                          !.op = "NFC_MOD"])
    /\ UNCHANGED <<rt_table, rt_entry, nf_freed, nf_allocated, nf_asked, nf_heard>>

rt_entry_remove(e) == rt_table' = RemoveFirst(rt_table, e)

nfc_delete_all_nfce(e) == rt_entry' = [rt_entry EXCEPT ![e].nfc = <<>>]

NfDeletes(dest, e) ==
    /\ PublisherDeletes /\ NfIn(Publisher, "idle")
    /\ e = rt_look_up_rt_entry(dest) /\ e # NoEntry
    /\ NfGo(Publisher, [NotInACall EXCEPT !.step = "invoke", !.dest = dest, !.entry = e,
                                          !.op = "NFC_DEL"])
    /\ UNCHANGED <<nf_freed, nf_allocated, nf_asked, nf_heard>>

\* Slip: the chain is emptied before it is run through.
delete_empties_the_chain(dest) ==
    \E e \in Entries : NfDeletes(dest, e) /\ rt_entry_remove(e) /\ nfc_delete_all_nfce(e)

\* rt_delete_rt_entry: the entry leaves the table, its clients are told, and then
\* the elements of its chain, the chain and the entry are freed.
rt_delete_rt_entry(dest) ==
    \E e \in Entries : NfDeletes(dest, e) /\ rt_entry_remove(e) /\ UNCHANGED rt_entry

delete_frees ==
    /\ NfIn(Publisher, "free")
    /\ nfc_delete_all_nfce(nf_at[Publisher].entry)
    /\ nf_freed' = nf_freed \cup {nf_at[Publisher].entry}
    /\ NfGo(Publisher, NotInACall)
    /\ UNCHANGED <<rt_table, nf_allocated, nf_asked, nf_heard>>

nf_publisher_thread_fn ==
    \/ \E dest \in NfDests, data \in NfData : publisher_updates(dest, data)
    \/ \E dest \in NfDests : rt_delete_rt_entry(dest)
    \/ delete_frees
    \/ rt_add_or_update_rt_entry(Publisher) \/ nfc_invoke_notif_chain(Publisher)

NfNext == nf_publisher_thread_fn \/ \E c \in NfClients : client_thread_fn(c)

NfSpec == NfInit /\ [][NfNext]_nfVars

-----------------------------------------------------------------------------
\* What the run along the chain of entry e still has to say to client c.
IsToBeTold(c, e) ==
    \E t \in NfThreads : /\ nf_at[t].entry = e
                         /\ NfIn(t, "invoke") \/ (NfIn(t, "calls") /\ c \in ToSet(nf_at[t].rest))

\* The publisher deletes entry e.
NfIsDeleted(e) == nf_at[Publisher].op = "NFC_DEL" /\ nf_at[Publisher].entry = e

\* Client c was told what entry e holds, or that it is deleted, or is about to be.
NfKnows(c, e) ==
    LET told == nf_heard[c][rt_entry[e].dest]
    IN \/ IF NfIsDeleted(e) THEN told.op = "NFC_DEL" ELSE told.data = rt_entry[e].data
       \/ IsToBeTold(c, e)
       \/ NfIn(c, "told") /\ nf_at[c].entry = e

\* The two ways to fall behind: the client enters the entry that it had made, and
\* the publisher has given it data since; or its registration goes on while the
\* entry is deleted.
NfComesLate(c, e) ==
    /\ nf_at[c].entry = e
    /\ \/ NfIn(c, "enter") /\ nf_at[c].creates /\ (rt_entry[e].data # "none" \/ NfIsDeleted(e))
       \/ NfIn(c, "told") /\ NfIsDeleted(e)

\* In whatever order clients and publisher go on, no step lets a client in the
\* chain of an entry fall behind, whether it entered before the publisher wrote or
\* deleted the entry, before or while the publisher runs along the chain, or after
\* that; and nobody is taken out of a chain before the run that tells of the
\* deletion has come by.
NfKeepsUp ==
    \A e \in Entries, c \in NfClients :
        /\ ((e \in ToSet(rt_table) \/ NfIsDeleted(e)) /\ c \in ToSet(rt_entry[e].nfc))' =>
            \/ NfKnows(c, e)'
            \/ c \in ToSet(rt_entry[e].nfc) /\ ~NfKnows(c, e)
            \/ NfComesLate(c, e)
        /\ c \in ToSet(rt_entry[e].nfc) /\ c \notin ToSet(rt_entry[e].nfc)' =>
            NfIsDeleted(e) /\ ~IsToBeTold(c, e)

==============================================================================
