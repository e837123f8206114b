------------------------------ MODULE BridgeLock ------------------------------
(***************************************************************************)
(* The bridge on which vehicles drive one way at a time, and its monitor:  *)
(* the read/write lock of rw_locks/monitor, with a limit for each class    *)
(* and two flags with which the last one off hands the lock to the other   *)
(* class.  Vehicles from left to right are its readers, the others its     *)
(* writers.  What happens under state_mutex, and under bridge_check_mutex, *)
(* is one step.                                                            *)
(***************************************************************************)
EXTENDS Integers, FiniteSets

CONSTANTS LRVehicles, RLVehicles,
          BrMaxLimit    \* bound: the limits considered for each class

Vehicles == LRVehicles \cup RLVehicles

ASSUME BridgeAssumption ==
    /\ IsFiniteSet(LRVehicles) /\ IsFiniteSet(RLVehicles)
    /\ LRVehicles \cap RLVehicles = {}
    /\ BrMaxLimit \in Nat \ {0}

VARIABLES br_limit,            \* n_max_readers and n_max_writers
          br_locks,            \* n_locks
          by_reader, by_writer,              \* is_locked_by_reader, _writer
          no_readers, no_writers,            \* dont_allow_readers, _writers
          br_at,               \* where each vehicle is
          n_LR, n_RL           \* the bridge's own counters

brLock == <<br_locks, by_reader, by_writer, no_readers, no_writers>>
brVars == <<br_limit, brLock, br_at, n_LR, n_RL>>

Max_readers == br_limit[1]
Max_writers == br_limit[2]

\* A thread is counted as waiting until it has its mutex back.
InWait(S) == {v \in S : br_at[v] \in {"asleep", "woken"}}
BrHolders(S) == {v \in S : br_at[v] \in {"granted", "on_bridge"}}
Moved(v, place) == [br_at EXCEPT ![v] = place]
Awoken(at, S) == [v \in Vehicles |-> IF v \in S /\ at[v] = "asleep" THEN "woken" ELSE at[v]]

bridge_lock_init == /\ br_locks = 0 /\ by_reader = FALSE /\ by_writer = FALSE
                    /\ no_readers = FALSE /\ no_writers = FALSE

\* main, with more limits than its 1 and 1.
BrInit == /\ br_limit \in (1 .. BrMaxLimit) \X (1 .. BrMaxLimit)
          /\ bridge_lock_init
          /\ br_at = [v \in Vehicles |-> "away"]
          /\ n_LR = 0 /\ n_RL = 0

\* The loops of rw_lock_rd_lock and rw_lock_wr_lock go on while this holds.
ReadersWait == by_writer \/ br_locks = Max_readers \/ no_readers
WritersWait == by_reader \/ br_locks = Max_writers \/ no_writers

\* Slip: the loop forgets the hand-over.
bridge_rd_lock_unfair(v) ==
    /\ v \in LRVehicles /\ br_at[v] \in {"away", "woken"}
    /\ IF by_writer \/ br_locks = Max_readers
       THEN br_at' = Moved(v, "asleep") /\ UNCHANGED brLock
       ELSE /\ br_at' = Moved(v, "granted")
            /\ br_locks' = br_locks + 1
            /\ by_reader' = (by_reader \/ br_locks = 0)
            /\ UNCHANGED <<by_writer, no_readers, no_writers>>
    /\ UNCHANGED <<br_limit, n_LR, n_RL>>

\* Slip: a writer does not look for readers.
bridge_wr_lock_blind(v) ==
    /\ v \in RLVehicles /\ br_at[v] \in {"away", "woken"}
    /\ IF br_locks = Max_writers \/ no_writers
       THEN br_at' = Moved(v, "asleep") /\ UNCHANGED brLock
       ELSE /\ br_at' = Moved(v, "granted")
            /\ br_locks' = br_locks + 1
            /\ by_writer' = (by_writer \/ br_locks = 0)
            /\ UNCHANGED <<by_reader, no_readers, no_writers>>
    /\ UNCHANGED <<br_limit, n_LR, n_RL>>

\* A free lock is taken at once; what the first test lets through, the loop
\* lets through as well.
bridge_rd_lock(v) ==
    /\ v \in LRVehicles /\ br_at[v] \in {"away", "woken"}
    /\ IF ReadersWait
       THEN br_at' = Moved(v, "asleep") /\ UNCHANGED brLock
       ELSE /\ br_at' = Moved(v, "granted")
            /\ br_locks' = br_locks + 1
            /\ by_reader' = (by_reader \/ br_locks = 0)
            /\ UNCHANGED <<by_writer, no_readers, no_writers>>
    /\ UNCHANGED <<br_limit, n_LR, n_RL>>

bridge_wr_lock(v) ==
    /\ v \in RLVehicles /\ br_at[v] \in {"away", "woken"}
    /\ IF WritersWait
       THEN br_at' = Moved(v, "asleep") /\ UNCHANGED brLock
       ELSE /\ br_at' = Moved(v, "granted")
            /\ br_locks' = br_locks + 1
            /\ by_writer' = (by_writer \/ br_locks = 0)
            /\ UNCHANGED <<by_reader, no_readers, no_writers>>
    /\ UNCHANGED <<br_limit, n_LR, n_RL>>

\* ArriveBridge counts the vehicle after the lock was granted.
ArriveBridge(v) ==
    /\ br_at[v] = "granted"
    /\ br_at' = Moved(v, "on_bridge")
    /\ n_LR' = IF v \in LRVehicles THEN n_LR + 1 ELSE n_LR
    /\ n_RL' = IF v \in RLVehicles THEN n_RL + 1 ELSE n_RL
    /\ UNCHANGED <<br_limit, brLock>>

\* rw_lock_unlock.  While others of the class stay, one waiting vehicle of the
\* class is woken.  The last one wakes all of the other class if any wait, and
\* shuts its own class out until they had their turn; else it wakes its own,
\* and lets both compete.
OneWoken(at, S) == IF \E u \in S : at[u] = "asleep"
                   THEN {Awoken(at, {u}) : u \in {w \in S : at[w] = "asleep"}}
                   ELSE {at}

unlock_writer(v) ==
    /\ by_writer
    /\ br_locks' = br_locks - 1
    /\ IF br_locks > 1
       THEN /\ br_at' \in OneWoken(Moved(v, "away"), RLVehicles)
            /\ UNCHANGED <<by_writer, no_readers, no_writers>>
       ELSE /\ by_writer' = FALSE
            /\ no_readers' = FALSE
            /\ no_writers' = (no_writers \/ InWait(LRVehicles) # {})
            /\ br_at' = Awoken(Moved(v, "away"),
                               IF InWait(LRVehicles) # {} THEN LRVehicles ELSE RLVehicles)
    /\ UNCHANGED by_reader

unlock_reader(v) ==
    /\ ~by_writer /\ by_reader
    /\ br_locks' = br_locks - 1
    /\ IF br_locks > 1
       THEN /\ br_at' \in OneWoken(Moved(v, "away"), LRVehicles)
            /\ UNCHANGED <<by_reader, no_readers, no_writers>>
       ELSE /\ by_reader' = FALSE
            /\ no_writers' = FALSE
            /\ no_readers' = (no_readers \/ InWait(RLVehicles) # {})
            /\ br_at' = Awoken(Moved(v, "away"),
                               IF InWait(RLVehicles) # {} THEN RLVehicles ELSE LRVehicles)
    /\ UNCHANGED by_writer

\* ExitBridge unlocks first and counts the vehicle out with the same
\* bridge_check_mutex held.
ExitBridge(v) ==
    /\ br_at[v] = "on_bridge" /\ br_locks > 0
    /\ unlock_writer(v) \/ unlock_reader(v)
    /\ n_LR' = IF v \in LRVehicles THEN n_LR - 1 ELSE n_LR
    /\ n_RL' = IF v \in RLVehicles THEN n_RL - 1 ELSE n_RL
    /\ UNCHANGED br_limit

bridge_spurious_wakeup(v) ==
    /\ br_at[v] = "asleep"
    /\ br_at' = Moved(v, "woken")
    /\ UNCHANGED <<br_limit, brLock, n_LR, n_RL>>

\* The two thread functions: for ever onto the bridge and off it again.
LR_thread_fn(v) == bridge_rd_lock(v) \/ (v \in LRVehicles /\ (ArriveBridge(v) \/ ExitBridge(v)))
RL_thread_fn(v) == bridge_wr_lock(v) \/ (v \in RLVehicles /\ (ArriveBridge(v) \/ ExitBridge(v)))

BrNext == \E v \in Vehicles : LR_thread_fn(v) \/ RL_thread_fn(v) \/ bridge_spurious_wakeup(v)

BrSpec == BrInit /\ [][BrNext]_brVars

\* A thread that can go on does, but none is owed a wake-up without a signal.
BrFairness == \A v \in Vehicles : WF_brVars(LR_thread_fn(v) \/ RL_thread_fn(v))

-----------------------------------------------------------------------------
\* What bridge_access asserts each time a vehicle drives: one way at a time,
\* and no more vehicles than the limit; and no assertion of the lock fails.
BrAssertions ==
    /\ n_LR >= 0 /\ n_RL >= 0
    /\ \/ n_LR = 0 /\ n_RL <= Max_writers
       \/ n_RL = 0 /\ n_LR <= Max_readers
    /\ ~(by_reader /\ by_writer)
    /\ BrHolders(Vehicles) # {} => br_locks > 0

\* With one vehicle at a time, whoever waits on one side of the bridge sees a
\* vehicle of that side drive: the hand-over leaves no side out.
BrBothSidesDrive ==
    br_limit = <<1, 1>> =>
      /\ (InWait(LRVehicles) # {}) ~> (BrHolders(LRVehicles) # {})
      /\ (InWait(RLVehicles) # {}) ~> (BrHolders(RLVehicles) # {})

\* The monitor of the bridge is a reader/writer access with limits.
BridgeAccess == INSTANCE RWAccess WITH
    Threads <- Vehicles,
    inside <- [v \in Vehicles |-> IF v \in BrHolders(LRVehicles) THEN "READER"
                                  ELSE IF v \in BrHolders(RLVehicles) THEN "WRITER" ELSE "NONE"],
    limit <- [c \in {"READER", "WRITER"} |-> IF c = "READER" THEN Max_readers ELSE Max_writers]
BrImplementsAccess == BridgeAccess!Spec
==============================================================================
