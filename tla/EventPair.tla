------------------------------ MODULE EventPair ------------------------------
(***************************************************************************)
(* The event pair of threadlib: a client and a server share one memory and *)
(* hand it to each other with two semaphores.  Its only users are          *)
(* server_fn, client_fn and the main function beside it, which are modelled*)
(* with it; the requests are doubled by the server until the client sees   *)
(* one greater than Limit (1024 in the code).                              *)
(***************************************************************************)
EXTENDS Integers

CONSTANT Limit

ASSUME EventPairAssumption == Limit \in Nat \ {0}

VARIABLES server_sem0, client_sem0, initial_sync_sem0,   \* event_pair_t
          global_shared_memory,
          epc,      \* where each party is: main, server, client
          seen      \* history: the last value the client took for a response

epVars == <<server_sem0, client_sem0, initial_sync_sem0, global_shared_memory, epc, seen>>

\* A semaphore before sem_init.
EpRaw == -1

EpInit ==
    /\ server_sem0 = 0 /\ initial_sync_sem0 = 0     \* event_pair_server_init
    /\ client_sem0 = EpRaw
    /\ global_shared_memory = 1
    /\ epc = [main |-> "syncs", server |-> "starts", client |-> "unborn"]
    /\ seen = 0

\* main waits for the server, initialises the client's side and starts it.
event_pair_client_init ==
    /\ epc["main"] = "syncs" /\ initial_sync_sem0 > 0
    /\ initial_sync_sem0' = initial_sync_sem0 - 1
    /\ client_sem0' = 0
    /\ epc' = [epc EXCEPT !["main"] = "gone", !["client"] = "asks"]
    /\ UNCHANGED <<server_sem0, global_shared_memory, seen>>

ep_server_start ==
    /\ epc["server"] = "starts"
    /\ initial_sync_sem0' = initial_sync_sem0 + 1
    /\ epc' = [epc EXCEPT !["server"] = "waits"]
    /\ UNCHANGED <<server_sem0, client_sem0, global_shared_memory, seen>>

\* Slip: the server hands off already when it takes the request.
ep_server_hands_off_first ==
    /\ epc["server"] = "waits" /\ server_sem0 > 0
    /\ server_sem0' = server_sem0 - 1
    /\ client_sem0' = client_sem0 + 1
    /\ epc' = [epc EXCEPT !["server"] = "works"]
    /\ UNCHANGED <<initial_sync_sem0, global_shared_memory, seen>>

event_pair_server_wait ==
    /\ epc["server"] = "waits" /\ server_sem0 > 0
    /\ server_sem0' = server_sem0 - 1
    /\ epc' = [epc EXCEPT !["server"] = "works"]
    /\ UNCHANGED <<client_sem0, initial_sync_sem0, global_shared_memory, seen>>

ep_server_work ==
    /\ epc["server"] = "works"
    /\ global_shared_memory' = global_shared_memory * 2
    /\ epc' = [epc EXCEPT !["server"] = "answers"]
    /\ UNCHANGED <<server_sem0, client_sem0, initial_sync_sem0, seen>>

event_pair_server_handoff ==
    /\ epc["server"] = "answers"
    /\ client_sem0' = client_sem0 + 1
    /\ epc' = [epc EXCEPT !["server"] = "waits"]
    /\ UNCHANGED <<server_sem0, initial_sync_sem0, global_shared_memory, seen>>

event_pair_client_handoff ==
    /\ epc["client"] = "asks"
    /\ server_sem0' = server_sem0 + 1
    /\ epc' = [epc EXCEPT !["client"] = "waits"]
    /\ UNCHANGED <<client_sem0, initial_sync_sem0, global_shared_memory, seen>>

\* The response is taken; beyond Limit the client ends the process.
event_pair_client_wait ==
    /\ epc["client"] = "waits" /\ client_sem0 > 0
    /\ client_sem0' = client_sem0 - 1
    /\ seen' = global_shared_memory
    /\ epc' = [epc EXCEPT !["client"] =
                IF global_shared_memory > Limit THEN "exits" ELSE "asks"]
    /\ UNCHANGED <<server_sem0, initial_sync_sem0, global_shared_memory>>

\* exit(0) by the client ends the server as well.
EpRunning == epc["client"] # "exits"

EpNext == /\ EpRunning
          /\ \/ event_pair_client_init \/ ep_server_start
             \/ event_pair_server_wait \/ ep_server_work \/ event_pair_server_handoff
             \/ event_pair_client_handoff \/ event_pair_client_wait

EpSpec == EpInit /\ [][EpNext]_epVars

----------------------------------------------------------------------------

\* The turn is at one place: with a party that may touch the memory, or on its
\* way to one in a semaphore; the client's semaphore is not used before it is
\* initialised, and every response the client took was made for its request.
EpOneTurn ==
    /\ epc["client"] # "unborn" =>
         server_sem0 + client_sem0
           + (IF epc["server"] \in {"works", "answers"} THEN 1 ELSE 0)
           + (IF epc["client"] \in {"asks", "exits"} THEN 1 ELSE 0) = 1
    /\ client_sem0 = EpRaw => server_sem0 = 0 /\ epc["server"] \notin {"works", "answers"}
    /\ epc["client"] \in {"asks", "exits"} /\ seen # 0 => seen = global_shared_memory
==============================================================================
