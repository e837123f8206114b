-------------------------- MODULE PrimitivesProofs -------------------------
(***************************************************************************)
(* The objects threads wait at, for any number of threads and any limits:  *)
(* the turn of the event pair is handed to and fro; the bridge and the     *)
(* biased lock implement the abstract reader/writer access; nobody is      *)
(* forgotten who sleeps at the biased lock or at the first monitor;        *)
(* threads stop, and are counted as asleep, for a reason; and the barrier  *)
(* wakes everybody who waits at it.                                        *)
(***************************************************************************)
EXTENDS MCPrimitives, CountingProofs, SequenceTheorems

----------------------------------------------------------------------------
(* The event pair and the bridge. *)

EpTypeOK ==
    /\ server_sem0 \in Nat /\ initial_sync_sem0 \in Nat
    /\ client_sem0 \in Nat \cup {EpRaw}
    /\ global_shared_memory \in Nat /\ seen \in Nat
    /\ epc \in [{"main", "server", "client"} ->
                  {"syncs", "gone", "starts", "waits", "works", "answers",
                   "unborn", "asks", "exits"}]

\* Before the client is there nothing has been handed over.
EpBeforeClient ==
    IF epc["client"] = "unborn"
    THEN /\ epc["main"] = "syncs" /\ client_sem0 = EpRaw /\ server_sem0 = 0 /\ seen = 0
         /\ epc["server"] \in {"starts", "waits"}
    ELSE epc["main"] = "gone" /\ client_sem0 # EpRaw

EpInv == EpTypeOK /\ EpBeforeClient /\ EpOneTurn

\* The invariant of the event pair holds in every reachable state.
LEMMA EpInvHolds == EpSpec => []EpInv
<1> USE DEF EpRaw
<1>1. EpInit => EpInv
  BY DEF EpInit, EpInv, EpTypeOK, EpBeforeClient, EpOneTurn
<1>2. EpInv /\ [EpNext]_epVars => EpInv'
  <2> SUFFICES ASSUME EpInv, [EpNext]_epVars PROVE EpInv'
    OBVIOUS
  <2> USE DEF EpInv, EpTypeOK, EpBeforeClient, EpOneTurn
  <2>1. CASE event_pair_client_init
    BY <2>1 DEF event_pair_client_init
  <2>2. CASE ep_server_start
    BY <2>2 DEF ep_server_start
  <2>3. CASE event_pair_server_wait
    BY <2>3 DEF event_pair_server_wait
  <2>4. CASE ep_server_work
    BY <2>4 DEF ep_server_work
  <2>5. CASE event_pair_server_handoff
    BY <2>5 DEF event_pair_server_handoff
  <2>6. CASE event_pair_client_handoff
    BY <2>6 DEF event_pair_client_handoff
  <2>7. CASE event_pair_client_wait
    BY <2>7 DEF event_pair_client_wait
  <2>8. CASE UNCHANGED epVars
    BY <2>8 DEF epVars
  <2> QED
    BY <2>1, <2>2, <2>3, <2>4, <2>5, <2>6, <2>7, <2>8 DEF EpNext
<1> QED
  BY <1>1, <1>2, PTL DEF EpSpec

\* The turn of the event pair is always at exactly one place, and what the
\* client takes for a response is one.
THEOREM EpTurnIsOne == EpSpec => []EpOneTurn
BY EpInvHolds, PTL DEF EpInv

-----------------------------------------------------------------------------

OnBridge(S) == {v \in S : br_at[v] = "on_bridge"}

BrTypeOK ==
    /\ br_limit \in (1 .. BrMaxLimit) \X (1 .. BrMaxLimit)
    /\ br_locks \in Nat
    /\ by_reader \in BOOLEAN /\ by_writer \in BOOLEAN
    /\ no_readers \in BOOLEAN /\ no_writers \in BOOLEAN
    /\ br_at \in [Vehicles -> {"away", "asleep", "woken", "granted", "on_bridge"}]

\* The lock counts its holders, knows their class and keeps their limit; the
\* bridge counts the holders that are on it.
BrCounts ==
    /\ br_locks = Cardinality(BrHolders(LRVehicles)) + Cardinality(BrHolders(RLVehicles))
    /\ by_reader <=> BrHolders(LRVehicles) # {}
    /\ by_writer <=> BrHolders(RLVehicles) # {}
    /\ ~(by_reader /\ by_writer)
    /\ Cardinality(BrHolders(LRVehicles)) <= Max_readers
    /\ Cardinality(BrHolders(RLVehicles)) <= Max_writers
    /\ n_LR = Cardinality(OnBridge(LRVehicles))
    /\ n_RL = Cardinality(OnBridge(RLVehicles))

BrInv == BrTypeOK /\ BrCounts

\* The vehicles that hold the lock or are on the bridge can be counted.
LEMMA BrSetsCounted ==
  ASSUME NEW S \in {LRVehicles, RLVehicles}
  PROVE  /\ IsFiniteSet(S)
         /\ BrHolders(S) \in SUBSET S /\ OnBridge(S) \in SUBSET BrHolders(S)
         /\ Cardinality(BrHolders(S)) \in Nat /\ Cardinality(OnBridge(S)) \in Nat
         /\ Cardinality(OnBridge(S)) <= Cardinality(BrHolders(S))
         /\ Cardinality(BrHolders(S)) = 0 <=> BrHolders(S) = {}
         /\ Cardinality(OnBridge(S)) = 0 <=> OnBridge(S) = {}
<1>1. IsFiniteSet(S)
  BY BridgeAssumption
<1>2. BrHolders(S) \in SUBSET S /\ OnBridge(S) \in SUBSET BrHolders(S)
  BY DEF BrHolders, OnBridge
<1>3. /\ IsFiniteSet(BrHolders(S)) /\ Cardinality(BrHolders(S)) \in Nat
      /\ Cardinality(BrHolders(S)) = 0 <=> BrHolders(S) = {}
  BY <1>1, <1>2, CountOfSubset
<1>4. /\ Cardinality(OnBridge(S)) \in Nat
      /\ Cardinality(OnBridge(S)) <= Cardinality(BrHolders(S))
      /\ Cardinality(OnBridge(S)) = 0 <=> OnBridge(S) = {}
  BY <1>2, <1>3, CountOfSubset
<1> QED
  BY <1>1, <1>2, <1>3, <1>4

\* What the code asserts follows from the counts.
LEMMA BrCountsSuffice == BrInv => BrAssertions
<1> SUFFICES ASSUME BrInv PROVE BrAssertions
  OBVIOUS
<1>1. /\ n_LR \in Nat /\ n_RL \in Nat
      /\ n_LR <= Max_readers /\ n_RL <= Max_writers
  BY BrSetsCounted DEF BrInv, BrCounts, BrTypeOK, Max_readers, Max_writers
<1>2. n_LR = 0 \/ n_RL = 0
  BY BrSetsCounted DEF BrInv, BrCounts
<1>3. BrHolders(Vehicles) # {} => br_locks > 0
  <2>1. BrHolders(Vehicles) = BrHolders(LRVehicles) \cup BrHolders(RLVehicles)
    BY DEF BrHolders, Vehicles
  <2> QED
    BY <2>1, BrSetsCounted DEF BrInv, BrCounts
<1> QED
  BY <1>1, <1>2, <1>3 DEF BrAssertions, BrInv, BrCounts

\* A step that moves no vehicle in or out, and not onto the bridge.
LEMMA BrNobodyMoves ==
  ASSUME BrInv, UNCHANGED <<br_limit, br_locks, by_reader, by_writer, n_LR, n_RL>>,
         no_readers' \in BOOLEAN, no_writers' \in BOOLEAN,
         br_at' \in [Vehicles -> {"away", "asleep", "woken", "granted", "on_bridge"}],
         \A v \in Vehicles : br_at'[v] = br_at[v] \/
              {br_at[v], br_at'[v]} \cap {"granted", "on_bridge"} = {}
  PROVE  /\ BrInv'
         /\ UNCHANGED <<BrHolders(LRVehicles), BrHolders(RLVehicles)>>
<1>1. UNCHANGED <<BrHolders(LRVehicles), BrHolders(RLVehicles),
                  OnBridge(LRVehicles), OnBridge(RLVehicles)>>
  BY DEF BrHolders, OnBridge, Vehicles
<1> QED
  BY <1>1 DEF BrInv, BrTypeOK, BrCounts, Max_readers, Max_writers

\* The sets behind the counts when one vehicle moves, whoever else is woken.
LEMMA BrOneMoves ==
  ASSUME BrTypeOK, NEW v \in Vehicles, NEW W \in SUBSET Vehicles,
         NEW place \in {"away", "granted", "on_bridge"},
         br_at' \in {Moved(v, place), Awoken(Moved(v, place), W)}
  PROVE  /\ br_at' \in [Vehicles -> {"away", "asleep", "woken", "granted", "on_bridge"}]
         /\ \A S \in {LRVehicles, RLVehicles} :
              /\ v \notin S => UNCHANGED <<BrHolders(S), OnBridge(S)>>
              /\ v \in S /\ place = "away" =>
                    /\ BrHolders(S)' = BrHolders(S) \ {v}
                    /\ OnBridge(S)' = OnBridge(S) \ {v}
              /\ v \in S /\ place = "granted" =>
                    /\ BrHolders(S)' = BrHolders(S) \cup {v}
                    /\ OnBridge(S)' = OnBridge(S) \ {v}
              /\ v \in S /\ place = "on_bridge" =>
                    /\ BrHolders(S)' = BrHolders(S) \cup {v}
                    /\ OnBridge(S)' = OnBridge(S) \cup {v}
<1>1. \A u \in Vehicles :
        IF u = v THEN br_at'[u] = place
        ELSE br_at'[u] = br_at[u] \/ (br_at[u] = "asleep" /\ br_at'[u] = "woken")
  BY DEF Awoken, Moved, BrTypeOK
<1>2. br_at' \in [Vehicles -> {"away", "asleep", "woken", "granted", "on_bridge"}]
  BY DEF Awoken, Moved, BrTypeOK
<1>3. LRVehicles \subseteq Vehicles /\ RLVehicles \subseteq Vehicles
  BY DEF Vehicles
<1>4. ASSUME NEW S \in {LRVehicles, RLVehicles}
      PROVE  /\ v \notin S => UNCHANGED <<BrHolders(S), OnBridge(S)>>
             /\ v \in S /\ place = "away" =>
                    /\ BrHolders(S)' = BrHolders(S) \ {v}
                    /\ OnBridge(S)' = OnBridge(S) \ {v}
             /\ v \in S /\ place = "granted" =>
                    /\ BrHolders(S)' = BrHolders(S) \cup {v}
                    /\ OnBridge(S)' = OnBridge(S) \ {v}
             /\ v \in S /\ place = "on_bridge" =>
                    /\ BrHolders(S)' = BrHolders(S) \cup {v}
                    /\ OnBridge(S)' = OnBridge(S) \cup {v}
  <2>1. /\ BrHolders(S) = {u \in S : br_at[u] \in {"granted", "on_bridge"}}
        /\ BrHolders(S)' = {u \in S : br_at'[u] \in {"granted", "on_bridge"}}
        /\ OnBridge(S) = {u \in S : br_at[u] = "on_bridge"}
        /\ OnBridge(S)' = {u \in S : br_at'[u] = "on_bridge"}
        /\ S \subseteq Vehicles
    BY <1>3 DEF BrHolders, OnBridge
  <2> QED
    BY <2>1, <1>1
<1> QED
  BY <1>2, <1>4

\* An empty bridge satisfies the inductive invariant.
LEMMA BrInvInit == BrInit => BrInv
<1> SUFFICES ASSUME BrInit PROVE BrInv
  OBVIOUS
<1>1. BrTypeOK
  BY DEF BrInit, bridge_lock_init, BrTypeOK
<1>2. \A S \in {LRVehicles, RLVehicles} : BrHolders(S) = {} /\ OnBridge(S) = {}
  BY DEF BrInit, BrHolders, OnBridge, Vehicles
<1>3. \A S \in {LRVehicles, RLVehicles} :
        Cardinality(BrHolders(S)) = 0 /\ Cardinality(OnBridge(S)) = 0
  BY <1>2, BrSetsCounted
<1> QED
  BY <1>1, <1>2, <1>3 DEF BrInv, BrCounts, BrInit, bridge_lock_init, BrTypeOK,
     Max_readers, Max_writers

\* A reader that is let in joins readers, below the limit.
LEMMA BrReaderIn ==
  ASSUME BrInv, NEW v \in LRVehicles, br_at[v] \in {"away", "woken"}, ~ReadersWait,
         bridge_rd_lock(v)
  PROVE  /\ BrInv'
         /\ BrHolders(RLVehicles) = {} /\ v \notin BrHolders(LRVehicles)
         /\ Cardinality(BrHolders(LRVehicles)) < Max_readers
         /\ BrHolders(LRVehicles)' = BrHolders(LRVehicles) \cup {v}
         /\ BrHolders(RLVehicles)' = BrHolders(RLVehicles)
         /\ UNCHANGED br_limit
<1>1. /\ br_at' = Moved(v, "granted") /\ br_locks' = br_locks + 1
      /\ by_reader' = (by_reader \/ br_locks = 0)
      /\ UNCHANGED <<br_limit, by_writer, no_readers, no_writers, n_LR, n_RL>>
  BY DEF bridge_rd_lock
<1>2. v \in Vehicles /\ v \notin RLVehicles
  BY BridgeAssumption DEF Vehicles
<1>3. /\ v \notin BrHolders(LRVehicles) /\ v \notin OnBridge(LRVehicles)
  BY DEF BrHolders, OnBridge
<1>4. /\ br_at' \in [Vehicles -> {"away", "asleep", "woken", "granted", "on_bridge"}]
      /\ BrHolders(LRVehicles)' = BrHolders(LRVehicles) \cup {v}
      /\ OnBridge(LRVehicles)' = OnBridge(LRVehicles) \ {v}
      /\ UNCHANGED <<BrHolders(RLVehicles), OnBridge(RLVehicles)>>
  BY <1>1, <1>2, BrOneMoves DEF BrInv
<1>5. OnBridge(LRVehicles)' = OnBridge(LRVehicles)
  BY <1>3, <1>4
<1>6. Cardinality(BrHolders(LRVehicles) \cup {v}) = Cardinality(BrHolders(LRVehicles)) + 1
  BY <1>3, BrSetsCounted, CountOneMore
<1>7. /\ ~by_writer /\ br_locks # Max_readers
      /\ BrHolders(RLVehicles) = {} /\ br_locks = Cardinality(BrHolders(LRVehicles))
  BY BrSetsCounted DEF ReadersWait, BrInv, BrCounts
<1>8. Cardinality(BrHolders(LRVehicles)) < Max_readers
  BY <1>7, BrSetsCounted DEF BrInv, BrCounts, BrTypeOK, Max_readers
<1>9. BrTypeOK'
  BY <1>1, <1>4 DEF BrInv, BrTypeOK
<1>10. BrCounts'
  <2>1. /\ br_locks \in Nat /\ Max_readers' = Max_readers /\ Max_writers' = Max_writers
        /\ Cardinality(BrHolders(LRVehicles)) \in Nat
        /\ Cardinality(BrHolders(RLVehicles)) = 0
    BY <1>1, <1>7, BrSetsCounted DEF BrInv, BrTypeOK, Max_readers, Max_writers
  <2>2. /\ br_locks' = Cardinality(BrHolders(LRVehicles)') + Cardinality(BrHolders(RLVehicles)')
        /\ Cardinality(BrHolders(LRVehicles)') <= Max_readers'
        /\ Cardinality(BrHolders(RLVehicles)') <= Max_writers'
    <3>1. Max_readers \in Nat /\ Max_writers \in Nat
      BY DEF BrInv, BrTypeOK, Max_readers, Max_writers
    <3> QED
      BY <1>1, <1>4, <1>6, <1>7, <1>8, <2>1, <3>1
  <2>3. by_reader' /\ ~by_writer' /\ BrHolders(LRVehicles)' # {} /\ BrHolders(RLVehicles)' = {}
    <3>1. br_locks = 0 \/ by_reader
      BY <1>7, BrSetsCounted DEF BrInv, BrCounts
    <3>2. ~by_writer
      BY <1>7 DEF BrInv, BrCounts
    <3> QED
      BY <1>1, <1>4, <1>7, <3>1, <3>2
  <2>4. /\ n_LR' = Cardinality(OnBridge(LRVehicles)')
        /\ n_RL' = Cardinality(OnBridge(RLVehicles)')
    BY <1>1, <1>4, <1>5 DEF BrInv, BrCounts
  <2> QED
    BY <2>2, <2>3, <2>4 DEF BrCounts
<1> QED
  BY <1>1, <1>3, <1>4, <1>7, <1>8, <1>9, <1>10 DEF BrInv

\* The same from the other side.
LEMMA BrWriterIn ==
  ASSUME BrInv, NEW v \in RLVehicles, br_at[v] \in {"away", "woken"}, ~WritersWait,
         bridge_wr_lock(v)
  PROVE  /\ BrInv'
         /\ BrHolders(LRVehicles) = {} /\ v \notin BrHolders(RLVehicles)
         /\ Cardinality(BrHolders(RLVehicles)) < Max_writers
         /\ BrHolders(RLVehicles)' = BrHolders(RLVehicles) \cup {v}
         /\ BrHolders(LRVehicles)' = BrHolders(LRVehicles)
         /\ UNCHANGED br_limit
<1>1. /\ br_at' = Moved(v, "granted") /\ br_locks' = br_locks + 1
      /\ by_writer' = (by_writer \/ br_locks = 0)
      /\ UNCHANGED <<br_limit, by_reader, no_readers, no_writers, n_LR, n_RL>>
  BY DEF bridge_wr_lock
<1>2. v \in Vehicles /\ v \notin LRVehicles
  BY BridgeAssumption DEF Vehicles
<1>3. /\ v \notin BrHolders(RLVehicles) /\ v \notin OnBridge(RLVehicles)
  BY DEF BrHolders, OnBridge
<1>4. /\ br_at' \in [Vehicles -> {"away", "asleep", "woken", "granted", "on_bridge"}]
      /\ BrHolders(RLVehicles)' = BrHolders(RLVehicles) \cup {v}
      /\ OnBridge(RLVehicles)' = OnBridge(RLVehicles) \ {v}
      /\ UNCHANGED <<BrHolders(LRVehicles), OnBridge(LRVehicles)>>
  BY <1>1, <1>2, BrOneMoves DEF BrInv
<1>5. OnBridge(RLVehicles)' = OnBridge(RLVehicles)
  BY <1>3, <1>4
<1>6. Cardinality(BrHolders(RLVehicles) \cup {v}) = Cardinality(BrHolders(RLVehicles)) + 1
  BY <1>3, BrSetsCounted, CountOneMore
<1>7. /\ ~by_reader /\ br_locks # Max_writers
      /\ BrHolders(LRVehicles) = {} /\ br_locks = Cardinality(BrHolders(RLVehicles))
  BY BrSetsCounted DEF WritersWait, BrInv, BrCounts
<1>8. Cardinality(BrHolders(RLVehicles)) < Max_writers
  BY <1>7, BrSetsCounted DEF BrInv, BrCounts, BrTypeOK, Max_writers
<1>9. BrTypeOK'
  BY <1>1, <1>4 DEF BrInv, BrTypeOK
<1>10. BrCounts'
  <2>1. /\ br_locks \in Nat /\ Max_readers' = Max_readers /\ Max_writers' = Max_writers
        /\ Cardinality(BrHolders(RLVehicles)) \in Nat
        /\ Cardinality(BrHolders(LRVehicles)) = 0
    BY <1>1, <1>7, BrSetsCounted DEF BrInv, BrTypeOK, Max_readers, Max_writers
  <2>2. /\ br_locks' = Cardinality(BrHolders(LRVehicles)') + Cardinality(BrHolders(RLVehicles)')
        /\ Cardinality(BrHolders(RLVehicles)') <= Max_writers'
        /\ Cardinality(BrHolders(LRVehicles)') <= Max_readers'
    <3>1. Max_writers \in Nat /\ Max_readers \in Nat
      BY DEF BrInv, BrTypeOK, Max_readers, Max_writers
    <3> QED
      BY <1>1, <1>4, <1>6, <1>7, <1>8, <2>1, <3>1
  <2>3. by_writer' /\ ~by_reader' /\ BrHolders(RLVehicles)' # {} /\ BrHolders(LRVehicles)' = {}
    <3>1. br_locks = 0 \/ by_writer
      BY <1>7, BrSetsCounted DEF BrInv, BrCounts
    <3>2. ~by_reader
      BY <1>7 DEF BrInv, BrCounts
    <3> QED
      BY <1>1, <1>4, <1>7, <3>1, <3>2
  <2>4. /\ n_LR' = Cardinality(OnBridge(LRVehicles)')
        /\ n_RL' = Cardinality(OnBridge(RLVehicles)')
    BY <1>1, <1>4, <1>5 DEF BrInv, BrCounts
  <2> QED
    BY <2>2, <2>3, <2>4 DEF BrCounts
<1> QED
  BY <1>1, <1>3, <1>4, <1>7, <1>8, <1>9, <1>10 DEF BrInv

\* The bridge counts a vehicle that holds the lock.
LEMMA BrArrives ==
  ASSUME BrInv, NEW v \in Vehicles, ArriveBridge(v)
  PROVE  BrInv' /\ UNCHANGED <<BrHolders(LRVehicles), BrHolders(RLVehicles), br_limit>>
<1>1. /\ br_at[v] = "granted" /\ br_at' = Moved(v, "on_bridge")
      /\ UNCHANGED <<br_limit, br_locks, by_reader, by_writer, no_readers, no_writers>>
  BY DEF ArriveBridge, brLock
<1>2. /\ br_at' \in [Vehicles -> {"away", "asleep", "woken", "granted", "on_bridge"}]
      /\ \A S \in {LRVehicles, RLVehicles} :
           IF v \in S THEN /\ BrHolders(S)' = BrHolders(S) \cup {v}
                          /\ OnBridge(S)' = OnBridge(S) \cup {v}
                     ELSE UNCHANGED <<BrHolders(S), OnBridge(S)>>
  BY <1>1, BrOneMoves DEF BrInv
<1>3. \A S \in {LRVehicles, RLVehicles} :
        /\ v \in S => v \in BrHolders(S) /\ v \notin OnBridge(S)
        /\ BrHolders(S)' = BrHolders(S)
  BY <1>1, <1>2 DEF BrHolders, OnBridge
<1>4. /\ \A S \in {LRVehicles, RLVehicles} :
           Cardinality(OnBridge(S)') = IF v \in S THEN Cardinality(OnBridge(S)) + 1
                                      ELSE Cardinality(OnBridge(S))
  BY <1>2, <1>3, BrSetsCounted, CountOneMore
<1>5. BrTypeOK'
  BY <1>1, <1>2 DEF BrInv, BrTypeOK
<1>6. BrCounts'
  BY <1>1, <1>3, <1>4, BrSetsCounted
     DEF BrInv, BrCounts, BrTypeOK, Max_readers, Max_writers, ArriveBridge
<1> QED
  BY <1>1, <1>3, <1>5, <1>6 DEF BrInv

\* The lock's own part of the way off the bridge, whomever it wakes.
LEMMA BrUnlocks ==
  ASSUME BrInv, NEW v \in Vehicles, ExitBridge(v)
  PROVE  /\ br_locks' = br_locks - 1
         /\ no_readers' \in BOOLEAN /\ no_writers' \in BOOLEAN
         /\ by_writer' = (by_writer /\ br_locks > 1)
         /\ by_reader' = (by_reader /\ br_locks > 1)
         /\ \E W \in SUBSET Vehicles :
              br_at' \in {Moved(v, "away"), Awoken(Moved(v, "away"), W)}
         /\ UNCHANGED br_limit
<1>1. \A S \in {LRVehicles, RLVehicles} : \A at \in OneWoken(Moved(v, "away"), S) :
        \E W \in SUBSET Vehicles : at \in {Moved(v, "away"), Awoken(Moved(v, "away"), W)}
  BY DEF OneWoken, Vehicles
<1>2. LRVehicles \in SUBSET Vehicles /\ RLVehicles \in SUBSET Vehicles
  BY DEF Vehicles
<1>3. UNCHANGED br_limit
  BY DEF ExitBridge
<1>4. CASE unlock_writer(v)
  BY <1>1, <1>2, <1>3, <1>4 DEF unlock_writer, BrInv, BrTypeOK, BrCounts
<1>5. CASE unlock_reader(v)
  BY <1>1, <1>2, <1>3, <1>5 DEF unlock_reader, BrInv, BrTypeOK, BrCounts
<1> QED
  BY <1>4, <1>5 DEF ExitBridge

\* A vehicle that drives off gives back its place on the bridge and in the lock.
LEMMA BrLeaves ==
  ASSUME BrInv, NEW v \in Vehicles, ExitBridge(v)
  PROVE  /\ BrInv' /\ UNCHANGED br_limit
         /\ v \in BrHolders(LRVehicles) \cup BrHolders(RLVehicles)
         /\ BrHolders(LRVehicles)' = BrHolders(LRVehicles) \ {v}
         /\ BrHolders(RLVehicles)' = BrHolders(RLVehicles) \ {v}
<1>1. PICK W \in SUBSET Vehicles :
        br_at' \in {Moved(v, "away"), Awoken(Moved(v, "away"), W)}
  BY BrUnlocks
<1>2. br_at[v] = "on_bridge"
  BY DEF ExitBridge
<1>3. \A S \in {LRVehicles, RLVehicles} :
        v \in S => v \in BrHolders(S) /\ v \in OnBridge(S)
  BY <1>2 DEF BrHolders, OnBridge
<1>4. /\ br_at' \in [Vehicles -> {"away", "asleep", "woken", "granted", "on_bridge"}]
      /\ \A S \in {LRVehicles, RLVehicles} :
           IF v \in S THEN /\ BrHolders(S)' = BrHolders(S) \ {v}
                          /\ OnBridge(S)' = OnBridge(S) \ {v}
                     ELSE UNCHANGED <<BrHolders(S), OnBridge(S)>>
  <2>1. BrTypeOK /\ "away" \in {"away", "granted", "on_bridge"}
    BY DEF BrInv
  <2>2. /\ br_at' \in [Vehicles -> {"away", "asleep", "woken", "granted", "on_bridge"}]
        /\ \A S \in {LRVehicles, RLVehicles} :
             /\ v \notin S => UNCHANGED <<BrHolders(S), OnBridge(S)>>
             /\ v \in S => /\ BrHolders(S)' = BrHolders(S) \ {v}
                           /\ OnBridge(S)' = OnBridge(S) \ {v}
    BY <1>1, <2>1, BrOneMoves
  <2> QED
    BY <2>2
<1>5. \A S \in {LRVehicles, RLVehicles} :
        /\ Cardinality(BrHolders(S)') = IF v \in S THEN Cardinality(BrHolders(S)) - 1
                                        ELSE Cardinality(BrHolders(S))
        /\ Cardinality(OnBridge(S)') = IF v \in S THEN Cardinality(OnBridge(S)) - 1
                                       ELSE Cardinality(OnBridge(S))
  BY <1>3, <1>4, BrSetsCounted, CountOneLess
<1>6. /\ v \in LRVehicles => by_reader /\ ~by_writer
      /\ v \in RLVehicles => by_writer /\ ~by_reader
      /\ v \in LRVehicles \/ v \in RLVehicles
      /\ ~(v \in LRVehicles /\ v \in RLVehicles)
  BY <1>3, BridgeAssumption DEF BrInv, BrCounts, Vehicles
<1>7. BrTypeOK'
  <2>1. br_locks' \in Nat
    BY BrUnlocks DEF BrInv, BrTypeOK, ExitBridge
  <2>2. by_reader' \in BOOLEAN /\ by_writer' \in BOOLEAN
    BY BrUnlocks
  <2>3. br_limit' \in (1 .. BrMaxLimit) \X (1 .. BrMaxLimit)
    BY BrUnlocks DEF BrInv, BrTypeOK
  <2> QED
    BY <1>4, <2>1, <2>2, <2>3, BrUnlocks DEF BrTypeOK
<1>8. \A S \in {LRVehicles, RLVehicles} :
        /\ BrHolders(S)' \subseteq BrHolders(S)
        /\ Cardinality(BrHolders(S)') = 0 <=> BrHolders(S)' = {}
  BY <1>4, BrSetsCounted, CountOfSubset
<1>9. BrCounts'
  <2>1. /\ Max_readers' = Max_readers /\ Max_writers' = Max_writers
        /\ Max_readers \in Nat /\ Max_writers \in Nat
    BY BrUnlocks DEF BrInv, BrTypeOK, Max_readers, Max_writers
  <2>2. \A S \in {LRVehicles, RLVehicles} :
          /\ Cardinality(BrHolders(S)) \in Nat /\ Cardinality(OnBridge(S)) \in Nat
          /\ Cardinality(BrHolders(S)) = 0 <=> BrHolders(S) = {}
    BY BrSetsCounted
  <2>3. /\ br_locks' = Cardinality(BrHolders(LRVehicles)') + Cardinality(BrHolders(RLVehicles)')
        /\ Cardinality(BrHolders(LRVehicles)') <= Max_readers'
        /\ Cardinality(BrHolders(RLVehicles)') <= Max_writers'
    BY <1>5, <1>6, <2>1, <2>2, BrUnlocks DEF BrInv, BrCounts
  <2>4. /\ n_LR' = Cardinality(OnBridge(LRVehicles)')
        /\ n_RL' = Cardinality(OnBridge(RLVehicles)')
    BY <1>5, <2>2 DEF BrInv, BrCounts, ExitBridge
  <2>5. /\ by_reader' <=> BrHolders(LRVehicles)' # {}
        /\ by_writer' <=> BrHolders(RLVehicles)' # {}
        /\ ~(by_reader' /\ by_writer')
    <3>1. CASE v \in LRVehicles
      <4>1. BrHolders(RLVehicles)' = {} /\ ~by_writer' /\ (by_reader' <=> br_locks > 1)
        BY <1>4, <1>6, <3>1, BrUnlocks DEF BrInv, BrCounts
      <4>2. br_locks = Cardinality(BrHolders(LRVehicles))
        BY <1>6, <2>2, <3>1 DEF BrInv, BrCounts
      <4> QED
        BY <1>5, <1>8, <2>2, <3>1, <4>1, <4>2
    <3>2. CASE v \in RLVehicles
      <4>1. BrHolders(LRVehicles)' = {} /\ ~by_reader' /\ (by_writer' <=> br_locks > 1)
        BY <1>4, <1>6, <3>2, BrUnlocks DEF BrInv, BrCounts
      <4>2. br_locks = Cardinality(BrHolders(RLVehicles))
        BY <1>6, <2>2, <3>2 DEF BrInv, BrCounts
      <4> QED
        BY <1>5, <1>8, <2>2, <3>2, <4>1, <4>2
    <3> QED
      BY <1>6, <3>1, <3>2
  <2> QED
    BY <2>3, <2>4, <2>5 DEF BrCounts
<1>10. \A S \in {LRVehicles, RLVehicles} : BrHolders(S)' = BrHolders(S) \ {v}
  BY <1>4, BrSetsCounted
<1> QED
  BY <1>3, <1>6, <1>7, <1>9, <1>10, BrUnlocks DEF BrInv

-----------------------------------------------------------------------------

\* The class a vehicle uses the bridge as, and the limits, as RWAccess sees them.
BrInside == [v \in Vehicles |-> IF v \in BrHolders(LRVehicles) THEN "READER"
                                ELSE IF v \in BrHolders(RLVehicles) THEN "WRITER" ELSE "NONE"]
BrLimits == [c \in {"READER", "WRITER"} |-> IF c = "READER" THEN Max_readers ELSE Max_writers]

\* Both modules mean the same by the size of a set.
LEMMA BrSameCount == ASSUME NEW S PROVE BridgeAccess!Cardinality(S) = Cardinality(S)
  BY DEF BridgeAccess!Cardinality, Cardinality

\* The users of the abstract resource are the holders of the lock.
LEMMA BrInsideIsWhoHolds ==
  ASSUME BrInv
  PROVE  /\ BridgeAccess!Users("READER") = BrHolders(LRVehicles)
         /\ BridgeAccess!Users("WRITER") = BrHolders(RLVehicles)
<1>1. /\ BrHolders(LRVehicles) \subseteq Vehicles /\ BrHolders(RLVehicles) \subseteq Vehicles
      /\ BrHolders(LRVehicles) \cap BrHolders(RLVehicles) = {}
  BY BridgeAssumption DEF BrHolders, Vehicles
<1> QED
  BY <1>1 DEF BridgeAccess!Users

\* A step that leaves the holders alone stutters.
LEMMA BrStutter ==
  ASSUME UNCHANGED <<BrHolders(LRVehicles), BrHolders(RLVehicles), br_limit>>
  PROVE  UNCHANGED <<BrInside, BrLimits>>
  BY DEF BrInside, BrLimits, Max_readers, Max_writers

\* Every step keeps the counts, and is a step of the abstract access.
LEMMA BrStep ==
  ASSUME BrInv, BrNext
  PROVE  BrInv' /\ (BridgeAccess!Next \/ UNCHANGED <<BrInside, BrLimits>>)
<1>1. PICK v \in Vehicles : LR_thread_fn(v) \/ RL_thread_fn(v) \/ bridge_spurious_wakeup(v)
  BY DEF BrNext
<1>2. CASE bridge_rd_lock(v) /\ ReadersWait
  <2>1. /\ br_at[v] \in {"away", "woken"} /\ br_at' = Moved(v, "asleep")
        /\ UNCHANGED <<br_limit, br_locks, by_reader, by_writer, no_readers, no_writers, n_LR, n_RL>>
    BY <1>2 DEF bridge_rd_lock, brLock
  <2> QED
    BY <2>1, BrNobodyMoves, BrStutter DEF Moved, BrInv, BrTypeOK
<1>3. CASE bridge_wr_lock(v) /\ WritersWait
  <2>1. /\ br_at[v] \in {"away", "woken"} /\ br_at' = Moved(v, "asleep")
        /\ UNCHANGED <<br_limit, br_locks, by_reader, by_writer, no_readers, no_writers, n_LR, n_RL>>
    BY <1>3 DEF bridge_wr_lock, brLock
  <2> QED
    BY <2>1, BrNobodyMoves, BrStutter DEF Moved, BrInv, BrTypeOK
<1>4. CASE bridge_rd_lock(v) /\ ~ReadersWait
  <2>1. v \in LRVehicles /\ br_at[v] \in {"away", "woken"}
    BY <1>4 DEF bridge_rd_lock
  <2>2. /\ BrInv'
        /\ BrHolders(RLVehicles) = {} /\ v \notin BrHolders(LRVehicles)
        /\ Cardinality(BrHolders(LRVehicles)) < Max_readers
        /\ BrHolders(LRVehicles)' = BrHolders(LRVehicles) \cup {v}
        /\ BrHolders(RLVehicles)' = BrHolders(RLVehicles)
        /\ UNCHANGED br_limit
    BY <1>4, <2>1, BrReaderIn
  <2>3. BrInside' = [BrInside EXCEPT ![v] = "READER"] /\ UNCHANGED BrLimits
    BY <2>2 DEF BrInside, BrLimits, Max_readers, Max_writers
  <2>4. BridgeAccess!Cardinality(BridgeAccess!Users("READER")) < BrLimits["READER"]
    BY <2>2, BrSameCount, BrInsideIsWhoHolds DEF BrLimits
  <2>5. BridgeAccess!Enter(v, "READER")
    BY <2>2, <2>3, <2>4 DEF BridgeAccess!Enter, BrInside, BrLimits
  <2> QED
    BY <2>2, <2>5 DEF BridgeAccess!Next, BridgeAccess!Classes
<1>5. CASE bridge_wr_lock(v) /\ ~WritersWait
  <2>1. v \in RLVehicles /\ br_at[v] \in {"away", "woken"}
    BY <1>5 DEF bridge_wr_lock
  <2>2. /\ BrInv'
        /\ BrHolders(LRVehicles) = {} /\ v \notin BrHolders(RLVehicles)
        /\ Cardinality(BrHolders(RLVehicles)) < Max_writers
        /\ BrHolders(RLVehicles)' = BrHolders(RLVehicles) \cup {v}
        /\ BrHolders(LRVehicles)' = BrHolders(LRVehicles)
        /\ UNCHANGED br_limit
    BY <1>5, <2>1, BrWriterIn
  <2>3. BrInside' = [BrInside EXCEPT ![v] = "WRITER"] /\ UNCHANGED BrLimits
    BY <2>2 DEF BrInside, BrLimits, Max_readers, Max_writers
  <2>4. BridgeAccess!Cardinality(BridgeAccess!Users("WRITER")) < BrLimits["WRITER"]
    BY <2>2, BrSameCount, BrInsideIsWhoHolds DEF BrLimits
  <2>5. BridgeAccess!Enter(v, "WRITER")
    BY <2>2, <2>3, <2>4 DEF BridgeAccess!Enter, BrInside, BrLimits
  <2> QED
    BY <2>2, <2>5 DEF BridgeAccess!Next, BridgeAccess!Classes
<1>6. CASE ArriveBridge(v)
  BY <1>6, BrArrives, BrStutter
<1>7. CASE ExitBridge(v)
  <2>1. /\ BrInv' /\ UNCHANGED br_limit
        /\ v \in BrHolders(LRVehicles) \cup BrHolders(RLVehicles)
        /\ BrHolders(LRVehicles)' = BrHolders(LRVehicles) \ {v}
        /\ BrHolders(RLVehicles)' = BrHolders(RLVehicles) \ {v}
    BY <1>7, BrLeaves
  <2>2. BrInside' = [BrInside EXCEPT ![v] = "NONE"] /\ UNCHANGED BrLimits
    BY <2>1 DEF BrInside, BrLimits, Max_readers, Max_writers
  <2>3. BridgeAccess!Leave(v)
    BY <2>1, <2>2 DEF BridgeAccess!Leave, BrInside, BrLimits
  <2> QED
    BY <2>1, <2>3 DEF BridgeAccess!Next
<1>8. CASE bridge_spurious_wakeup(v)
  <2>1. /\ br_at[v] = "asleep" /\ br_at' = Moved(v, "woken")
        /\ UNCHANGED <<br_limit, br_locks, by_reader, by_writer, no_readers, no_writers, n_LR, n_RL>>
    BY <1>8 DEF bridge_spurious_wakeup, brLock
  <2> QED
    BY <2>1, BrNobodyMoves, BrStutter DEF Moved, BrInv, BrTypeOK
<1> QED
  BY <1>1, <1>2, <1>3, <1>4, <1>5, <1>6, <1>7, <1>8 DEF LR_thread_fn, RL_thread_fn

\* Where nothing changes, nothing changes for the abstract resource.
LEMMA BrIdle ==
  ASSUME BrInv, UNCHANGED brVars
  PROVE  BrInv' /\ UNCHANGED <<BrInside, BrLimits>>
<1>1. /\ UNCHANGED <<br_limit, br_locks, by_reader, by_writer, n_LR, n_RL, br_at>>
      /\ no_readers' = no_readers /\ no_writers' = no_writers
  BY DEF brVars, brLock
<1> QED
  BY <1>1, BrNobodyMoves, BrStutter DEF BrInv, BrTypeOK

\* Vehicles drive one way at a time and within the limit of their way, and no
\* assertion of the lock fails, for any number of vehicles and any limits.
THEOREM BrAssertionsHold == BrSpec => []BrAssertions
<1>1. BrInv /\ [BrNext]_brVars => BrInv'
  BY BrStep, BrIdle
<1> QED
  BY <1>1, BrInvInit, BrCountsSuffice, PTL DEF BrSpec

\* The monitor of the bridge implements the abstract access.
THEOREM BrRefinesAccess == BrSpec => BrImplementsAccess
<1>1. BrInit => BridgeAccess!Init
  <2> SUFFICES ASSUME BrInit PROVE BridgeAccess!Init
    OBVIOUS
  <2>1. BrInside = [v \in Vehicles |-> "NONE"]
    BY DEF BrInit, BrInside, BrHolders, Vehicles
  <2>2. BrLimits \in [{"READER", "WRITER"} -> Nat]
    BY DEF BrInit, BrLimits, Max_readers, Max_writers
  <2> QED
    BY <2>1, <2>2 DEF BridgeAccess!Init, BridgeAccess!Classes, BrInside, BrLimits
<1>2. BrInv /\ [BrNext]_brVars => BrInv'
  BY BrStep, BrIdle
<1>3. BrInv /\ [BrNext]_brVars => [BridgeAccess!Next]_<<BrInside, BrLimits>>
  BY BrStep, BrIdle
<1>4. BrInv /\ [BrNext]_brVars => [BridgeAccess!Next]_(BridgeAccess!accessVars)
  BY <1>3 DEF BridgeAccess!accessVars, BrInside, BrLimits
<1> QED
  BY <1>1, <1>2, <1>4, BrInvInit, PTL DEF BrSpec, BrImplementsAccess, BridgeAccess!Spec

----------------------------------------------------------------------------
(* The biased lock. *)

BiPlaces == Cvs \cup {"away", "woken", "granted", "counted", "done"}
BiCounted(S) == {t \in S : bi_at[t] = "counted"}
BiClasses == {BiReaders, BiWriters}

BiTyped ==
    /\ bi_at \in [BiThreads -> BiPlaces]
    /\ bi_limit \in [{"READER", "WRITER"} -> Nat \ {0}] /\ biasedness \in Biases
    /\ bi_locks \in Nat /\ bi_by_reader \in BOOLEAN /\ bi_by_writer \in BOOLEAN
    /\ bi_aborted \in BOOLEAN /\ bi_n_r \in Int /\ bi_n_w \in Int

\* The lock knows how many hold it and which class they are of, and the test
\* knows who has counted itself in.
BiBooks ==
    /\ bi_locks = Cardinality(BiHolders(BiReaders)) + Cardinality(BiHolders(BiWriters))
    /\ bi_by_reader <=> BiHolders(BiReaders) # {}
    /\ bi_by_writer <=> BiHolders(BiWriters) # {}
    /\ BiHolders(BiReaders) = {} \/ BiHolders(BiWriters) = {}
    /\ Cardinality(BiHolders(BiReaders)) <= bi_limit["READER"]
    /\ Cardinality(BiHolders(BiWriters)) <= bi_limit["WRITER"]
    /\ bi_n_r = Cardinality(BiCounted(BiReaders))
    /\ bi_n_w = Cardinality(BiCounted(BiWriters))

\* All sleepers of the neutral lock share one variable.
BiNeutralSleep ==
    biasedness = "NEUTRAL" =>
        \A t \in BiThreads : bi_at[t] \notin {"cv_readers", "cv_writers"}

BiInv == BiTyped /\ BiBooks /\ BiNeutralSleep /\ BiNobodyForgotten

\* Thread t goes to place, and sleepers may be woken.
BiStep(t, place) ==
    /\ bi_at' \in [BiThreads -> BiPlaces] /\ bi_at'[t] = place
    /\ \A u \in BiThreads \ {t} :
          bi_at'[u] = bi_at[u] \/ (bi_at[u] \in Cvs /\ bi_at'[u] = "woken")

\* The holders of the lock and the counted among them are finite sets of threads.
LEMMA BiFinite ==
  ASSUME NEW S \in BiClasses
  PROVE  /\ IsFiniteSet(S) /\ S \subseteq BiThreads
         /\ BiHolders(S) \in SUBSET S /\ BiCounted(S) \in SUBSET BiHolders(S)
         /\ IsFiniteSet(BiHolders(S)) /\ IsFiniteSet(BiCounted(S))
         /\ Cardinality(BiHolders(S)) \in Nat /\ Cardinality(BiCounted(S)) \in Nat
         /\ Cardinality(BiCounted(S)) <= Cardinality(BiHolders(S))
         /\ Cardinality(BiHolders(S)) = 0 <=> BiHolders(S) = {}
<1>1. IsFiniteSet(S) /\ S \subseteq BiThreads
  BY BiasedAssumption DEF BiClasses, BiThreads
<1>2. BiHolders(S) \in SUBSET S /\ BiCounted(S) \in SUBSET BiHolders(S)
  BY DEF BiHolders, BiCounted
<1> QED
  BY <1>1, <1>2, CountOfSubset

\* Only the thread that moves enters or leaves a set of holders.
LEMMA BiHoldersAfter ==
  ASSUME BiTyped, NEW t \in BiThreads, NEW place \in BiPlaces, BiStep(t, place), NEW S \in BiClasses
  PROVE  /\ place \in {"granted", "counted", "done"} /\ t \in S => BiHolders(S)' = BiHolders(S) \cup {t}
         /\ place \notin {"granted", "counted", "done"} \/ t \notin S => BiHolders(S)' = BiHolders(S) \ {t}
         /\ place = "counted" /\ t \in S => BiCounted(S)' = BiCounted(S) \cup {t}
         /\ place # "counted" \/ t \notin S => BiCounted(S)' = BiCounted(S) \ {t}
<1>1. S \subseteq BiThreads
  BY BiFinite
<1>2. \A u \in BiThreads \ {t} :
        /\ bi_at'[u] \in {"granted", "counted", "done"} <=> bi_at[u] \in {"granted", "counted", "done"}
        /\ bi_at'[u] = "counted" <=> bi_at[u] = "counted"
  BY DEF BiStep, Cvs
<1>3. bi_at'[t] = place
  BY DEF BiStep
<1>4. /\ BiHolders(S)' = {u \in S : bi_at'[u] \in {"granted", "counted", "done"}}
      /\ BiCounted(S)' = {u \in S : bi_at'[u] = "counted"}
  BY DEF BiHolders, BiCounted, BiClasses
<1> QED
  BY <1>1, <1>2, <1>3, <1>4 DEF BiHolders, BiCounted

\* Nobody holds a new lock, or sleeps at it.
LEMMA BiInitInv == BiInit => BiInv
<1> SUFFICES ASSUME BiInit PROVE BiInv
  OBVIOUS
<1>1. \A S \in BiClasses : BiHolders(S) = {} /\ BiCounted(S) = {}
  <2>1. \A t \in BiThreads : bi_at[t] = "away"
    BY DEF BiInit
  <2> QED
    BY <2>1, BiFinite DEF BiHolders, BiCounted, BiClasses
<1>2. BiBooks
  <2>1. /\ BiHolders(BiReaders) = {} /\ BiHolders(BiWriters) = {}
        /\ BiCounted(BiReaders) = {} /\ BiCounted(BiWriters) = {}
    BY <1>1 DEF BiClasses
  <2>2. bi_limit \in [{"READER", "WRITER"} -> Nat]
    BY BiasedAssumption DEF BiInit, SetMaxReadersWriters
  <2> QED
    BY <2>1, <2>2, FS_EmptySet DEF BiInit, biased_lock_init, BiBooks
<1>3. BiTyped
  <2>1. bi_limit \in [{"READER", "WRITER"} -> Nat \ {0}]
    BY BiasedAssumption DEF BiInit, SetMaxReadersWriters
  <2>2. bi_at \in [BiThreads -> BiPlaces]
    BY DEF BiInit, BiPlaces
  <2>3. bi_by_reader \in BOOLEAN /\ bi_by_writer \in BOOLEAN /\ bi_aborted \in BOOLEAN
    BY Zenon DEF BiInit, biased_lock_init
  <2> QED
    BY <2>1, <2>2, <2>3 DEF BiInit, biased_lock_init, SetBiasedness, BiTyped
<1>4. BiNeutralSleep /\ BiNobodyForgotten
  BY DEF BiInit, BiNeutralSleep, BiNobodyForgotten
<1> QED
  BY <1>2, <1>3, <1>4 DEF BiInv

\* What the lock promises when nobody has come in or gone out.
BiSameHolders == /\ BiHolders(BiReaders)' = BiHolders(BiReaders)
                 /\ BiHolders(BiWriters)' = BiHolders(BiWriters)

\* A thread outside that stays outside changes no book.
LEMMA BiQuiet ==
  ASSUME BiTyped, BiBooks, NEW t \in BiThreads, NEW place \in Cvs \cup {"away", "woken"},
         bi_at[t] \in Cvs \cup {"away", "woken"}, BiStep(t, place),
         UNCHANGED <<bi_limit, bi_locks, bi_by_reader, bi_by_writer, bi_n_r, bi_n_w>>
  PROVE  BiBooks' /\ BiSameHolders
<1>1. ASSUME NEW S \in BiClasses
      PROVE  BiHolders(S)' = BiHolders(S) /\ BiCounted(S)' = BiCounted(S)
  <2>1. t \notin BiHolders(S) /\ t \notin BiCounted(S)
    BY DEF BiHolders, BiCounted, Cvs
  <2>2. place \in BiPlaces /\ place \notin {"granted", "counted", "done"}
    BY DEF BiPlaces, Cvs
  <2>3. BiHolders(S)' = BiHolders(S) \ {t} /\ BiCounted(S)' = BiCounted(S) \ {t}
    BY <2>2, BiHoldersAfter, Zenon
  <2> QED
    BY <2>1, <2>3
<1>2. /\ BiSameHolders
      /\ BiCounted(BiReaders)' = BiCounted(BiReaders) /\ BiCounted(BiWriters)' = BiCounted(BiWriters)
  BY <1>1 DEF BiClasses, BiSameHolders
<1> QED
  BY <1>2 DEF BiBooks, BiSameHolders

\* Who finds no room goes to sleep, or runs into an assertion.
LEMMA BiBlockInv ==
  ASSUME BiInv, NEW t \in BiThreads, bi_at[t] \in {"away", "woken"},
         UNCHANGED <<biConf, bi_n_r, bi_n_w>>,
         \/ t \in BiReaders /\ block_reader(t)
            /\ (biasedness = "NEUTRAL" => bi_by_writer \/ bi_locks = bi_limit["READER"])
         \/ t \in BiWriters /\ block_writer(t)
            /\ (biasedness = "NEUTRAL" => bi_by_reader \/ bi_locks = bi_limit["WRITER"])
  PROVE  BiInv' /\ BiSameHolders
<1>1. /\ UNCHANGED <<bi_limit, biasedness, bi_locks, bi_by_reader, bi_by_writer, bi_n_r, bi_n_w>>
      /\ bi_aborted' \in BOOLEAN /\ (biasedness = "NEUTRAL" => bi_aborted' = bi_aborted)
      /\ \/ \E place \in Cvs : /\ bi_at' = BiMoved(t, place)
                               /\ biasedness = "NEUTRAL" => place = "cv"
         \/ biasedness # "NEUTRAL" /\ bi_at' = bi_at
  BY DEF block_reader, block_writer, biConf, biLock, Cvs, BiInv, BiTyped
<1>2. \E place \in Cvs \cup {"away", "woken"} :
         /\ BiStep(t, place) /\ bi_at' = BiMoved(t, place)
         /\ biasedness = "NEUTRAL" => place = "cv"
  <2>1. CASE \E place \in Cvs : /\ bi_at' = BiMoved(t, place)
                                /\ biasedness = "NEUTRAL" => place = "cv"
    BY <2>1 DEF BiMoved, BiStep, BiInv, BiTyped, BiPlaces
  <2>2. CASE biasedness # "NEUTRAL" /\ bi_at' = bi_at
    BY <2>2 DEF BiMoved, BiStep, BiInv, BiTyped, BiPlaces
  <2> QED
    BY <1>1, <2>1, <2>2
<1>3. PICK place \in Cvs \cup {"away", "woken"} :
         /\ BiStep(t, place) /\ bi_at' = BiMoved(t, place)
         /\ biasedness = "NEUTRAL" => place = "cv"
  BY <1>2
<1>4. BiBooks' /\ BiSameHolders
  BY <1>1, <1>3, BiQuiet DEF BiInv
<1>5. BiTyped'
  BY <1>1, <1>3 DEF BiTyped, BiStep, BiInv
<1>6. BiNeutralSleep' /\ BiNobodyForgotten'
  <2> SUFFICES ASSUME biasedness = "NEUTRAL"
               PROVE  BiNeutralSleep' /\ BiNobodyForgotten'
    BY <1>1 DEF BiNeutralSleep, BiNobodyForgotten
  <2>1. bi_at' = [bi_at EXCEPT ![t] = "cv"] /\ ~bi_aborted'
    BY <1>1, <1>3 DEF BiMoved, BiInv, BiNobodyForgotten
  <2>2. \A u \in BiThreads : bi_at'[u] = IF u = t THEN "cv" ELSE bi_at[u]
    BY <2>1 DEF BiInv, BiTyped
  <2>3. BiNeutralSleep'
    BY <2>2, <1>1 DEF BiInv, BiNeutralSleep
  <2>4. \/ t \in BiReaders /\ (bi_by_writer \/ bi_locks = bi_limit["READER"])
        \/ t \in BiWriters /\ (bi_by_reader \/ bi_locks = bi_limit["WRITER"])
    OBVIOUS
  <2> QED
    BY <1>1, <2>1, <2>2, <2>3, <2>4 DEF BiInv, BiNobodyForgotten
<1> QED
  BY <1>4, <1>5, <1>6 DEF BiInv

\* A class that is let in is alone, and within its limit.
BiGrant(t, S, c) ==
    /\ t \in S /\ t \notin BiHolders(S)
    /\ BiHolders(BiReaders) \cup BiHolders(BiWriters) = BiHolders(S)
    /\ BiHolders(S)' = BiHolders(S) \cup {t}
    /\ \A R \in BiClasses \ {S} : BiHolders(R) = {} /\ BiHolders(R)' = {}
    /\ Cardinality(BiHolders(S)) < bi_limit[c]

\* A reader is granted the lock, goes to sleep, or fails an assertion.
LEMMA BiReadInv ==
  ASSUME BiInv, NEW t \in BiReaders, biased_rd_lock(t)
  PROVE  BiInv' /\ (BiSameHolders \/ BiGrant(t, BiReaders, "READER"))
<1>1. t \in BiThreads /\ bi_at[t] \in {"away", "woken"}
  BY DEF biased_rd_lock, BiThreads
<1>2. CASE \/ bi_by_writer \/ bi_locks = bi_limit["READER"]
           \/ /\ bi_locks = 0 /\ bi_writer_waiting # {}
              /\ biasedness = "OPPOSITE" /\ who_used_cs = "READER"
  BY <1>1, <1>2, BiBlockInv DEF biased_rd_lock
<1>3. CASE ~(bi_by_writer \/ bi_locks = bi_limit["READER"]) /\ bi_at' = BiMoved(t, "granted")
           /\ bi_locks' = bi_locks + 1
           /\ bi_by_reader' = (bi_by_reader \/ bi_locks = 0)
           /\ UNCHANGED <<bi_limit, biasedness, bi_by_writer, bi_aborted, bi_n_r, bi_n_w>>
  <2>1. BiStep(t, "granted") /\ "granted" \in BiPlaces
    BY <1>1, <1>3 DEF BiStep, BiMoved, BiInv, BiTyped, BiPlaces
  <2>2. /\ BiHolders(BiReaders)' = BiHolders(BiReaders) \cup {t}
        /\ BiHolders(BiWriters)' = BiHolders(BiWriters) \ {t}
        /\ BiCounted(BiReaders)' = BiCounted(BiReaders) \ {t}
        /\ BiCounted(BiWriters)' = BiCounted(BiWriters) \ {t}
    <3>1. t \in BiReaders /\ t \notin BiWriters /\ BiReaders \in BiClasses /\ BiWriters \in BiClasses
      BY BiasedAssumption DEF BiClasses
    <3>2. BiTyped
      BY DEF BiInv
    <3> QED
      BY <1>1, <2>1, <3>1, <3>2, BiHoldersAfter
  <2>3. /\ t \notin BiHolders(BiReaders) /\ t \notin BiCounted(BiReaders) /\ t \notin BiCounted(BiWriters)
        /\ BiHolders(BiWriters) = {}
    BY <1>1, <1>3 DEF BiHolders, BiCounted, BiInv, BiBooks
  <2>4. /\ IsFiniteSet(BiHolders(BiReaders)) /\ Cardinality(BiHolders(BiReaders)) \in Nat
        /\ Cardinality(BiHolders(BiWriters)) = 0
    BY <2>3, BiFinite, FS_EmptySet DEF BiClasses
  <2>5. Cardinality(BiHolders(BiReaders)') = Cardinality(BiHolders(BiReaders)) + 1
    BY <2>2, <2>3, <2>4, FS_AddElement
  <2>6. bi_locks = Cardinality(BiHolders(BiReaders)) /\ bi_limit["READER"] \in Nat
    BY <2>4 DEF BiInv, BiBooks, BiTyped
  <2>7. Cardinality(BiHolders(BiReaders)) < bi_limit["READER"]
    BY <1>3, <2>4, <2>6 DEF BiInv, BiBooks
  <2>8. bi_by_reader <=> BiHolders(BiReaders) # {}
    BY DEF BiInv, BiBooks
  <2>9. bi_by_reader'
    BY <1>3, <2>4, <2>6, <2>8, FS_EmptySet
  <2>10. BiBooks'
    BY <1>3, <2>2, <2>3, <2>4, <2>5, <2>6, <2>7, <2>9 DEF BiBooks, BiInv
  <2>11. BiTyped' /\ BiNeutralSleep'
    BY <1>1, <1>3, <2>1 DEF BiTyped, BiInv, BiStep, BiNeutralSleep, BiMoved
  <2>12. BiNobodyForgotten'
    <3> SUFFICES ASSUME biasedness = "NEUTRAL", NEW u \in BiThreads, bi_at'[u] = "cv"
                 PROVE  ~bi_aborted' /\ u \in BiWriters
      BY <1>3, <2>9 DEF BiNobodyForgotten, BiInv
    <3>1. bi_at[u] = "cv"
      BY <1>3 DEF BiMoved, BiInv, BiTyped
    <3> QED
      BY <1>3, <3>1 DEF BiInv, BiNobodyForgotten
  <2>13. BiGrant(t, BiReaders, "READER")
    BY <2>2, <2>3, <2>7 DEF BiGrant, BiClasses
  <2> QED
    BY <2>10, <2>11, <2>12, <2>13 DEF BiInv
<1> QED
  BY <1>2, <1>3 DEF biased_rd_lock, biConf

\* A writer likewise; it preempts nobody who holds the lock.
LEMMA BiWriteInv ==
  ASSUME BiInv, NEW t \in BiWriters, biased_wr_lock(t)
  PROVE  BiInv' /\ (BiSameHolders \/ BiGrant(t, BiWriters, "WRITER"))
<1>1. t \in BiThreads /\ bi_at[t] \in {"away", "woken"}
  BY DEF biased_wr_lock, BiThreads
<1>0. CASE bi_at[t] = "woken" /\ biasedness = "WRITERS" /\ bi_aborted' = TRUE
           /\ UNCHANGED <<bi_limit, biasedness, bi_locks, bi_by_reader, bi_by_writer, bi_at, bi_n_r, bi_n_w>>
  <2>1. BiStep(t, "woken")
    BY <1>0, <1>1 DEF BiStep, BiInv, BiTyped
  <2>2. BiBooks' /\ BiSameHolders
    BY <1>0, <1>1, <2>1, BiQuiet DEF BiInv
  <2> QED
    BY <1>0, <2>2 DEF BiInv, BiTyped, BiNeutralSleep, BiNobodyForgotten
<1>2. CASE /\ ~(bi_at[t] = "woken" /\ biasedness = "WRITERS")
           /\ \/ bi_by_reader \/ bi_locks = bi_limit["WRITER"]
              \/ /\ bi_locks = 0 /\ bi_reader_waiting # {}
                 /\ biasedness = "OPPOSITE" /\ who_used_cs = "WRITER"
  BY <1>1, <1>2, BiBlockInv DEF biased_wr_lock
<1>3. CASE ~(bi_by_reader \/ bi_locks = bi_limit["WRITER"]) /\ bi_at' = BiMoved(t, "granted")
           /\ bi_locks' = bi_locks + 1
           /\ bi_by_writer' = (bi_by_writer \/ bi_locks = 0)
           /\ UNCHANGED <<bi_limit, biasedness, bi_by_reader, bi_aborted, bi_n_r, bi_n_w>>
  <2>1. BiStep(t, "granted") /\ "granted" \in BiPlaces
    BY <1>1, <1>3 DEF BiStep, BiMoved, BiInv, BiTyped, BiPlaces
  <2>2. /\ BiHolders(BiWriters)' = BiHolders(BiWriters) \cup {t}
        /\ BiHolders(BiReaders)' = BiHolders(BiReaders) \ {t}
        /\ BiCounted(BiWriters)' = BiCounted(BiWriters) \ {t}
        /\ BiCounted(BiReaders)' = BiCounted(BiReaders) \ {t}
    <3>1. t \in BiWriters /\ t \notin BiReaders /\ BiWriters \in BiClasses /\ BiReaders \in BiClasses
      BY BiasedAssumption DEF BiClasses
    <3>2. BiTyped
      BY DEF BiInv
    <3> QED
      BY <1>1, <2>1, <3>1, <3>2, BiHoldersAfter
  <2>3. /\ t \notin BiHolders(BiWriters) /\ t \notin BiCounted(BiWriters) /\ t \notin BiCounted(BiReaders)
        /\ BiHolders(BiReaders) = {}
    BY <1>1, <1>3 DEF BiHolders, BiCounted, BiInv, BiBooks
  <2>4. /\ IsFiniteSet(BiHolders(BiWriters)) /\ Cardinality(BiHolders(BiWriters)) \in Nat
        /\ Cardinality(BiHolders(BiReaders)) = 0
    BY <2>3, BiFinite, FS_EmptySet DEF BiClasses
  <2>5. Cardinality(BiHolders(BiWriters)') = Cardinality(BiHolders(BiWriters)) + 1
    BY <2>2, <2>3, <2>4, FS_AddElement
  <2>6. bi_locks = Cardinality(BiHolders(BiWriters)) /\ bi_limit["WRITER"] \in Nat
    BY <2>4 DEF BiInv, BiBooks, BiTyped
  <2>7. Cardinality(BiHolders(BiWriters)) < bi_limit["WRITER"]
    BY <1>3, <2>4, <2>6 DEF BiInv, BiBooks
  <2>8. bi_by_writer <=> BiHolders(BiWriters) # {}
    BY DEF BiInv, BiBooks
  <2>9. bi_by_writer'
    BY <1>3, <2>4, <2>6, <2>8, FS_EmptySet
  <2>10. BiBooks'
    BY <1>3, <2>2, <2>3, <2>4, <2>5, <2>6, <2>7, <2>9 DEF BiBooks, BiInv
  <2>11. BiTyped' /\ BiNeutralSleep'
    BY <1>1, <1>3, <2>1 DEF BiTyped, BiInv, BiStep, BiNeutralSleep, BiMoved
  <2>12. BiNobodyForgotten'
    <3> SUFFICES ASSUME biasedness = "NEUTRAL", NEW u \in BiThreads, bi_at'[u] = "cv"
                 PROVE  ~bi_aborted' /\ u \in BiReaders
      BY <1>3, <2>9 DEF BiNobodyForgotten, BiInv
    <3>1. bi_at[u] = "cv"
      BY <1>3 DEF BiMoved, BiInv, BiTyped
    <3> QED
      BY <1>3, <3>1 DEF BiInv, BiNobodyForgotten
  <2>13. BiGrant(t, BiWriters, "WRITER")
    BY <2>2, <2>3, <2>7 DEF BiGrant, BiClasses
  <2> QED
    BY <2>10, <2>11, <2>12, <2>13 DEF BiInv
<1>4. CASE bi_at[t] = "woken" /\ biasedness = "WRITERS"
  BY <1>0, <1>4 DEF biased_wr_lock, biConf, biLock
<1>5. CASE /\ ~(bi_at[t] = "woken" /\ biasedness = "WRITERS")
           /\ ~ \/ bi_by_reader \/ bi_locks = bi_limit["WRITER"]
                \/ /\ bi_locks = 0 /\ bi_reader_waiting # {}
                   /\ biasedness = "OPPOSITE" /\ who_used_cs = "WRITER"
  BY <1>3, <1>5 DEF biased_wr_lock, biConf
<1> QED
  BY <1>2, <1>4, <1>5

\* A thread is of one class.
LEMMA BiClassOf ==
  ASSUME NEW t \in BiThreads
  PROVE  /\ BiReaders \in BiClasses /\ BiWriters \in BiClasses
         /\ t \in BiReaders <=> t \notin BiWriters
BY BiasedAssumption DEF BiClasses, BiThreads

\* Counting in.
LEMMA BiCountInInv ==
  ASSUME BiInv, ~bi_aborted, NEW t \in BiThreads, bi_enter_cs(t)
  PROVE  BiInv' /\ BiSameHolders
<1>1. /\ bi_at[t] = "granted" /\ bi_at' = BiMoved(t, "counted")
      /\ bi_n_r' = IF t \in BiReaders THEN bi_n_r + 1 ELSE bi_n_r
      /\ bi_n_w' = IF t \in BiWriters THEN bi_n_w + 1 ELSE bi_n_w
      /\ UNCHANGED <<bi_limit, biasedness, bi_locks, bi_by_reader, bi_by_writer, bi_aborted>>
  BY DEF bi_enter_cs, biConf, biLock
<1>2. BiTyped /\ BiStep(t, "counted") /\ "counted" \in BiPlaces
  BY <1>1 DEF BiStep, BiMoved, BiInv, BiTyped, BiPlaces
<1>3. ASSUME NEW S \in BiClasses
      PROVE  /\ BiHolders(S)' = BiHolders(S)
             /\ t \in S => BiCounted(S)' = BiCounted(S) \cup {t} /\ t \notin BiCounted(S)
             /\ t \notin S => BiCounted(S)' = BiCounted(S)
  <2>1. /\ t \in S => BiHolders(S)' = BiHolders(S) \cup {t} /\ BiCounted(S)' = BiCounted(S) \cup {t}
        /\ t \notin S => BiHolders(S)' = BiHolders(S) \ {t} /\ BiCounted(S)' = BiCounted(S) \ {t}
    BY <1>2, BiHoldersAfter, Zenon
  <2>2. /\ t \in S => t \in BiHolders(S) /\ t \notin BiCounted(S)
        /\ t \notin S => t \notin BiHolders(S) /\ t \notin BiCounted(S)
    BY <1>1 DEF BiHolders, BiCounted
  <2> QED
    BY <2>1, <2>2
<1>4. ASSUME NEW S \in BiClasses, t \in S
      PROVE  Cardinality(BiCounted(S)') = Cardinality(BiCounted(S)) + 1
  BY <1>3, <1>4, BiFinite, FS_AddElement
<1>5. BiBooks'
  BY <1>1, <1>3, <1>4, BiClassOf DEF BiInv, BiBooks
<1>6. BiTyped'
  BY <1>1, <1>2 DEF BiTyped, BiStep
<1>7. BiNeutralSleep' /\ BiNobodyForgotten'
  <2>1. \A u \in BiThreads : bi_at'[u] \in Cvs => bi_at'[u] = bi_at[u]
    BY <1>1 DEF BiMoved, BiInv, BiTyped, Cvs
  <2> QED
    BY <1>1, <2>1 DEF BiInv, BiNeutralSleep, BiNobodyForgotten, Cvs
<1> QED
  BY <1>3, <1>5, <1>6, <1>7, BiClassOf DEF BiInv, BiSameHolders

\* Who is counted holds the lock: one class, within its limit.
LEMMA BiCheckHolds == BiInv => cs_status_ok
<1> SUFFICES ASSUME BiInv PROVE cs_status_ok
  OBVIOUS
<1>1. \A S \in BiClasses : /\ Cardinality(BiCounted(S)) \in Nat /\ Cardinality(BiHolders(S)) \in Nat
                           /\ Cardinality(BiCounted(S)) <= Cardinality(BiHolders(S))
                           /\ BiHolders(S) = {} => Cardinality(BiHolders(S)) = 0
  BY BiFinite
<1>2. BiReaders \in BiClasses /\ BiWriters \in BiClasses
  BY DEF BiClasses
<1>3. bi_limit["READER"] \in Nat /\ bi_limit["WRITER"] \in Nat
  BY DEF BiInv, BiTyped
<1> QED
  BY <1>1, <1>2, <1>3 DEF BiInv, BiBooks, cs_status_ok

\* The check, and counting out.
LEMMA BiCountOutInv ==
  ASSUME BiInv, ~bi_aborted, NEW t \in BiThreads, bi_leave_cs(t)
  PROVE  BiInv' /\ BiSameHolders
<1>1. /\ bi_at[t] = "counted" /\ bi_at' = BiMoved(t, "done")
      /\ bi_n_r' = IF t \in BiReaders THEN bi_n_r - 1 ELSE bi_n_r
      /\ bi_n_w' = IF t \in BiWriters THEN bi_n_w - 1 ELSE bi_n_w
      /\ UNCHANGED <<bi_limit, biasedness, bi_locks, bi_by_reader, bi_by_writer, bi_aborted>>
  BY BiCheckHolds DEF bi_leave_cs, biConf, biLock
<1>2. BiTyped /\ BiStep(t, "done") /\ "done" \in BiPlaces
  BY <1>1 DEF BiStep, BiMoved, BiInv, BiTyped, BiPlaces
<1>3. ASSUME NEW S \in BiClasses
      PROVE  /\ BiHolders(S)' = BiHolders(S)
             /\ t \in S => BiCounted(S)' = BiCounted(S) \ {t} /\ t \in BiCounted(S)
             /\ t \notin S => BiCounted(S)' = BiCounted(S)
  <2>1. /\ t \in S => BiHolders(S)' = BiHolders(S) \cup {t} /\ BiCounted(S)' = BiCounted(S) \ {t}
        /\ t \notin S => BiHolders(S)' = BiHolders(S) \ {t} /\ BiCounted(S)' = BiCounted(S) \ {t}
    BY <1>2, BiHoldersAfter, Zenon
  <2>2. /\ t \in S => t \in BiHolders(S) /\ t \in BiCounted(S)
        /\ t \notin S => t \notin BiHolders(S) /\ t \notin BiCounted(S)
    BY <1>1 DEF BiHolders, BiCounted
  <2> QED
    BY <2>1, <2>2
<1>4. ASSUME NEW S \in BiClasses, t \in S
      PROVE  Cardinality(BiCounted(S)') = Cardinality(BiCounted(S)) - 1
  BY <1>3, <1>4, BiFinite, FS_RemoveElement
<1>5. BiBooks'
  BY <1>1, <1>3, <1>4, BiClassOf DEF BiInv, BiBooks
<1>6. BiTyped'
  BY <1>1, <1>2 DEF BiTyped, BiStep
<1>7. BiNeutralSleep' /\ BiNobodyForgotten'
  <2>1. \A u \in BiThreads : bi_at'[u] \in Cvs => bi_at'[u] = bi_at[u]
    BY <1>1 DEF BiMoved, BiInv, BiTyped, Cvs
  <2> QED
    BY <1>1, <2>1 DEF BiInv, BiNeutralSleep, BiNobodyForgotten, Cvs
<1> QED
  BY <1>3, <1>5, <1>6, <1>7, BiClassOf DEF BiInv, BiSameHolders

\* A sleeper wakes for no reason.
LEMMA BiSpuriousInv ==
  ASSUME BiInv, NEW t \in BiThreads, bi_spurious_wakeup(t)
  PROVE  BiInv' /\ BiSameHolders
<1>1. /\ bi_at[t] \in Cvs /\ bi_at' = BiMoved(t, "woken")
      /\ UNCHANGED <<bi_limit, biasedness, bi_locks, bi_by_reader, bi_by_writer,
                     bi_aborted, bi_n_r, bi_n_w>>
  BY DEF bi_spurious_wakeup, biConf, biLock
<1>2. BiStep(t, "woken") /\ BiTyped'
  BY <1>1 DEF BiStep, BiMoved, BiInv, BiTyped, BiPlaces
<1>3. BiBooks' /\ BiSameHolders
  BY <1>1, <1>2, BiQuiet DEF BiInv
<1>4. \A u \in BiThreads : bi_at'[u] \in Cvs => bi_at'[u] = bi_at[u]
  BY <1>1 DEF BiMoved, BiInv, BiTyped, Cvs
<1>5. BiNeutralSleep' /\ BiNobodyForgotten'
  BY <1>1, <1>4 DEF BiInv, BiNeutralSleep, BiNobodyForgotten, Cvs
<1> QED
  BY <1>2, <1>3, <1>5 DEF BiInv

\* An unlock takes one holder out, and with the neutral setting wakes whoever
\* could have its place.
BiLeaves(t) == /\ t \in BiHolders(BiReaders) \cup BiHolders(BiWriters)
               /\ BiHolders(BiReaders)' = BiHolders(BiReaders) \ {t}
               /\ BiHolders(BiWriters)' = BiHolders(BiWriters) \ {t}

\* Who unlocks takes one from the holders, and wakes those who have room then.
LEMMA BiUnlockInv ==
  ASSUME BiInv, NEW t \in BiThreads, biased_unlock(t)
  PROVE  BiInv' /\ BiLeaves(t)
<1> DEFINE writer == bi_by_writer
           at == BiMoved(t, "away")
           mine == IF writer THEN bi_writer_waiting ELSE bi_reader_waiting
<1>1. /\ bi_at[t] = "done" /\ bi_locks' = bi_locks - 1 /\ bi_locks > 0
      /\ UNCHANGED <<bi_limit, biasedness, bi_aborted, bi_n_r, bi_n_w>>
  BY DEF biased_unlock, biConf
<1>2. \/ /\ bi_locks = 1 /\ bi_by_writer' = FALSE /\ bi_by_reader' = (writer /\ bi_by_reader)
         /\ \E c \in Cvs : bi_at' = BiAwoken(at, c) /\ (biasedness = "NEUTRAL" => c = "cv")
      \/ /\ bi_locks # 1 /\ UNCHANGED <<bi_by_reader, bi_by_writer>>
         /\ \/ mine = {} /\ bi_at' = at
            \/ mine # {} /\ biasedness = "NEUTRAL" /\ bi_at' = BiAwoken(at, "cv")
            \/ mine # {} /\ biasedness # "NEUTRAL" /\ \E c \in Cvs : bi_at' \in BiOneAwoken(at, c)
  <2>1. Signalled(~writer) \in Cvs /\ (biasedness = "NEUTRAL" => Signalled(~writer) = "cv")
    BY DEF Signalled, Cvs, BiInv, BiTyped, Biases
  <2> QED
    BY <2>1 DEF biased_unlock, Cvs
<1>11. /\ bi_locks = 1 => ~bi_by_writer' /\ (bi_by_reader' <=> writer /\ bi_by_reader)
       /\ bi_locks # 1 => (bi_by_reader' <=> bi_by_reader) /\ (bi_by_writer' <=> bi_by_writer)
       /\ bi_by_reader' \in BOOLEAN /\ bi_by_writer' \in BOOLEAN
  <2>1. bi_by_reader \in BOOLEAN /\ bi_by_writer \in BOOLEAN
    BY DEF BiInv, BiTyped
  <2>2. CASE bi_locks = 1
    <3>1. bi_by_writer' = FALSE /\ bi_by_reader' = (writer /\ bi_by_reader)
      BY <1>2, <2>2
    <3>2. (writer /\ bi_by_reader) \in BOOLEAN
      BY <2>1, Zenon
    <3> QED
      BY <2>1, <2>2, <3>1, <3>2, Zenon
  <2>3. CASE bi_locks # 1
    <3>1. bi_by_writer' = bi_by_writer /\ bi_by_reader' = bi_by_reader
      BY <1>2, <2>3
    <3> QED
      BY <2>1, <2>3, <3>1, Zenon
  <2> QED
    BY <2>2, <2>3
<1>3. at \in [BiThreads -> BiPlaces] /\ \A u \in BiThreads : at[u] = IF u = t THEN "away" ELSE bi_at[u]
  BY DEF BiMoved, BiInv, BiTyped, BiPlaces
<1>4. BiStep(t, "away")
  <2> HIDE DEF at
  <2>1. ASSUME NEW c \in Cvs, bi_at' = BiAwoken(at, c) PROVE BiStep(t, "away")
    BY <1>3, <2>1 DEF BiAwoken, BiStep, BiPlaces, Cvs
  <2>2. ASSUME NEW c \in Cvs, bi_at' \in BiOneAwoken(at, c) PROVE BiStep(t, "away")
    BY <1>3, <2>2 DEF BiOneAwoken, BiStep, BiPlaces, Cvs
  <2>3. CASE bi_at' = at
    BY <1>3, <2>3 DEF BiStep
  <2> QED
    BY <1>2, <2>1, <2>2, <2>3 DEF Cvs
<1>5. ASSUME NEW S \in BiClasses
      PROVE  /\ BiHolders(S)' = BiHolders(S) \ {t} /\ BiCounted(S)' = BiCounted(S)
             /\ t \in S => t \in BiHolders(S)
             /\ t \notin S => t \notin BiHolders(S)
  <2>1. BiHolders(S)' = BiHolders(S) \ {t} /\ BiCounted(S)' = BiCounted(S) \ {t}
    BY <1>4, BiHoldersAfter DEF BiPlaces, BiInv
  <2>2. t \notin BiCounted(S) /\ (t \in S <=> t \in BiHolders(S))
    BY <1>1 DEF BiHolders, BiCounted
  <2> QED
    BY <2>1, <2>2
<1>6. BiLeaves(t)
  BY <1>5, BiClassOf DEF BiLeaves
<1>7. BiBooks' /\ (bi_locks # 1 => IF t \in BiReaders THEN bi_by_reader' /\ ~writer ELSE bi_by_writer' /\ writer)
  <2> DEFINE R == BiHolders(BiReaders)
             W == BiHolders(BiWriters)
  <2>1. /\ R' = R \ {t} /\ W' = W \ {t}
        /\ BiCounted(BiReaders)' = BiCounted(BiReaders) /\ BiCounted(BiWriters)' = BiCounted(BiWriters)
        /\ t \in BiReaders => t \in R /\ t \notin W
        /\ t \notin BiReaders => t \in W /\ t \notin R
    BY <1>5, BiClassOf
  <2>2. /\ IsFiniteSet(R) /\ IsFiniteSet(W) /\ Cardinality(R) \in Nat /\ Cardinality(W) \in Nat
        /\ Cardinality(R) = 0 <=> R = {}
        /\ Cardinality(W) = 0 <=> W = {}
    BY BiFinite, BiClassOf
  <2>3. /\ IsFiniteSet(R \ {t}) /\ IsFiniteSet(W \ {t})
        /\ Cardinality(R \ {t}) = 0 <=> R \ {t} = {}
        /\ Cardinality(W \ {t}) = 0 <=> W \ {t} = {}
    BY <2>2, FS_Subset, FS_EmptySet
  <2>4. /\ bi_locks = Cardinality(R) + Cardinality(W)
        /\ bi_by_reader <=> R # {}
        /\ bi_by_writer <=> W # {}
        /\ R = {} \/ W = {}
        /\ Cardinality(R) <= bi_limit["READER"] /\ Cardinality(W) <= bi_limit["WRITER"]
        /\ bi_limit["READER"] \in Nat /\ bi_limit["WRITER"] \in Nat
    BY DEF BiInv, BiBooks, BiTyped
  <2>5. CASE t \in BiReaders
    <3>1. Cardinality(R \ {t}) = Cardinality(R) - 1
      BY <2>1, <2>2, <2>5, FS_RemoveElement
    <3>2. R # {} /\ W = {} /\ W' = {} /\ Cardinality(W) = 0 /\ bi_by_reader /\ ~bi_by_writer
      BY <2>1, <2>2, <2>4, <2>5
    <3>3. Cardinality(R') = Cardinality(R) - 1 /\ Cardinality(W') = 0
      BY <2>1, <3>1, <3>2, <2>2
    <3>d. bi_by_reader /\ ~writer
      BY <3>2
    <3>a. bi_locks = 1 <=> R' = {}
      BY <2>1, <2>2, <2>3, <2>4, <3>1, <3>2
    <3>b. bi_locks = 1 => ~bi_by_reader'
      BY ONLY <1>11, <3>d, Zenon
    <3>5. bi_locks # 1 => bi_by_reader'
      BY ONLY <1>11, <3>d, Zenon
    <3>c. ~bi_by_writer'
      BY ONLY <1>11, <3>d, Zenon
    <3>4. (bi_by_reader' <=> R' # {}) /\ ~bi_by_writer'
      BY <3>a, <3>b, <3>5, <3>c, Zenon
    <3>6. /\ bi_n_r' = Cardinality(BiCounted(BiReaders))' /\ bi_n_w' = Cardinality(BiCounted(BiWriters))'
          /\ bi_limit' = bi_limit
      BY <1>1, <2>1 DEF BiInv, BiBooks
    <3>7. /\ bi_locks' = Cardinality(R') + Cardinality(W')
          /\ Cardinality(R') <= bi_limit["READER"] /\ Cardinality(W') <= bi_limit["WRITER"]
      BY <1>1, <2>2, <2>4, <3>2, <3>3
    <3>8. BiBooks'
      BY <3>2, <3>4, <3>6, <3>7, Zenon DEF BiBooks
    <3> QED
      BY <2>5, <3>2, <3>5, <3>8, Zenon
  <2>6. CASE t \notin BiReaders
    <3>1. Cardinality(W \ {t}) = Cardinality(W) - 1
      BY <2>1, <2>2, <2>6, FS_RemoveElement
    <3>2. W # {} /\ R = {} /\ R' = {} /\ Cardinality(R) = 0 /\ bi_by_writer /\ ~bi_by_reader
      BY <2>1, <2>2, <2>4, <2>6
    <3>3. Cardinality(W') = Cardinality(W) - 1 /\ Cardinality(R') = 0
      BY <2>1, <3>1, <3>2, <2>2
    <3>d. writer /\ ~bi_by_reader
      BY <3>2
    <3>a. bi_locks = 1 <=> W' = {}
      BY <2>1, <2>2, <2>3, <2>4, <3>1, <3>2
    <3>b. bi_locks = 1 => ~bi_by_writer'
      BY ONLY <1>11, <3>d, Zenon
    <3>5. bi_locks # 1 => bi_by_writer'
      BY ONLY <1>11, <3>d, Zenon
    <3>c. ~bi_by_reader'
      BY ONLY <1>11, <3>d, Zenon
    <3>4. (bi_by_writer' <=> W' # {}) /\ ~bi_by_reader'
      BY <3>a, <3>b, <3>5, <3>c, Zenon
    <3>6. /\ bi_n_r' = Cardinality(BiCounted(BiReaders))' /\ bi_n_w' = Cardinality(BiCounted(BiWriters))'
          /\ bi_limit' = bi_limit
      BY <1>1, <2>1 DEF BiInv, BiBooks
    <3>7. /\ bi_locks' = Cardinality(R') + Cardinality(W')
          /\ Cardinality(R') <= bi_limit["READER"] /\ Cardinality(W') <= bi_limit["WRITER"]
      BY <1>1, <2>2, <2>4, <3>2, <3>3
    <3>8. BiBooks'
      BY <3>2, <3>4, <3>6, <3>7, Zenon DEF BiBooks
    <3> QED
      BY <2>6, <3>2, <3>5, <3>8, Zenon
  <2> QED
    BY <2>5, <2>6
<1>8. BiTyped'
  <2>1. bi_locks' \in Nat
    BY <1>1 DEF BiInv, BiTyped
  <2> QED
    BY <1>1, <1>4, <1>11, <2>1 DEF BiTyped, BiStep, BiInv
<1>9. BiNeutralSleep'
  BY <1>1, <1>4 DEF BiNeutralSleep, BiStep, BiInv, Cvs
<1>10. BiNobodyForgotten'
  <2> SUFFICES ASSUME biasedness = "NEUTRAL", NEW u \in BiThreads, bi_at'[u] = "cv"
               PROVE  \/ u \in BiReaders /\ bi_by_writer'
                      \/ u \in BiWriters /\ bi_by_reader'
    BY <1>1 DEF BiNobodyForgotten, BiInv
  <2>1. ~(bi_at' = BiAwoken(at, "cv"))
    BY DEF BiAwoken
  <2>2. bi_locks # 1 /\ mine = {} /\ bi_at' = at
    BY <1>2, <2>1
  <2>3. bi_at[u] = "cv"
    BY <1>3, <2>2
  <2>4. u \notin (IF writer THEN BiWriters ELSE BiReaders)
    BY <2>2, <2>3 DEF bi_writer_waiting, bi_reader_waiting, Cvs
  <2> QED
    BY <1>7, <2>2, <2>4, BiClassOf
<1> QED
  BY <1>6, <1>7, <1>8, <1>9, <1>10 DEF BiInv

\* What a step means to those who see only who is inside.
BiVisible == \/ BiSameHolders
             \/ \E t \in BiThreads : \/ BiGrant(t, BiReaders, "READER")
                                     \/ BiGrant(t, BiWriters, "WRITER")
                                     \/ BiLeaves(t)

\* Every step keeps the invariant, and is one step of the abstract access or none.
LEMMA BiNextInv == BiInv /\ [BiNext]_biVars => BiInv' /\ BiVisible /\ bi_limit' = bi_limit
<1> SUFFICES ASSUME BiInv, [BiNext]_biVars PROVE BiInv' /\ BiVisible /\ bi_limit' = bi_limit
  OBVIOUS
<1>1. CASE UNCHANGED biVars
  <2>1. \A S \in BiClasses : BiHolders(S)' = BiHolders(S) /\ BiCounted(S)' = BiCounted(S)
    BY <1>1 DEF biVars, BiHolders, BiCounted, BiClasses
  <2>2. BiBooks' /\ BiSameHolders
    BY <1>1, <2>1 DEF biVars, biConf, biLock, BiInv, BiBooks, BiClasses, BiSameHolders
  <2>3. /\ UNCHANGED <<bi_at, bi_limit, biasedness, bi_locks, bi_by_reader, bi_by_writer,
                       bi_n_r, bi_n_w>>
        /\ bi_aborted' = bi_aborted
    BY <1>1 DEF biVars, biConf, biLock
  <2> QED
    BY <2>2, <2>3 DEF BiInv, BiTyped, BiNeutralSleep, BiNobodyForgotten, BiVisible
<1>2. ASSUME BiNext PROVE bi_limit' = bi_limit
  BY <1>2 DEF BiNext, biased_read_fn, biased_write_fn, bi_spurious_wakeup, biased_rd_lock, biased_wr_lock,
              bi_enter_cs, bi_leave_cs, biased_unlock, biConf
<1>3. ASSUME BiNext PROVE BiInv' /\ BiVisible
  <2>1. PICK t \in BiThreads : biased_read_fn(t) \/ biased_write_fn(t) \/ bi_spurious_wakeup(t)
    BY <1>3 DEF BiNext
  <2>2. ~bi_aborted
    BY <1>3 DEF BiNext
  <2>3. CASE biased_rd_lock(t)
    BY <2>3, BiReadInv DEF biased_rd_lock, BiVisible
  <2>4. CASE biased_wr_lock(t)
    BY <2>4, BiWriteInv DEF biased_wr_lock, BiVisible
  <2>5. CASE bi_enter_cs(t) \/ bi_leave_cs(t)
    BY <2>2, <2>5, BiCountInInv, BiCountOutInv DEF BiVisible
  <2>6. CASE biased_unlock(t)
    BY <2>6, BiUnlockInv DEF BiVisible
  <2>7. CASE bi_spurious_wakeup(t)
    BY <2>7, BiSpuriousInv DEF BiVisible
  <2> QED
    BY <2>1, <2>3, <2>4, <2>5, <2>6, <2>7 DEF biased_read_fn, biased_write_fn
<1> QED
  BY <1>1, <1>2, <1>3

\* The class each thread holds the lock as.
BiInside == [t \in BiThreads |-> IF t \in BiHolders(BiReaders) THEN "READER"
                                ELSE IF t \in BiHolders(BiWriters) THEN "WRITER" ELSE "NONE"]

\* Both modules mean the same by the size of a set.
LEMMA BiSameCount == ASSUME NEW S PROVE BiasedAccess!Cardinality(S) = Cardinality(S)
  BY DEF BiasedAccess!Cardinality, Cardinality

\* The users of the abstract resource are the holders of the lock.
LEMMA BiInsideIsWhoHolds ==
  /\ BiHolders(BiReaders) \subseteq BiThreads /\ BiHolders(BiWriters) \subseteq BiThreads
  /\ BiHolders(BiReaders) \cap BiHolders(BiWriters) = {}
  /\ BiasedAccess!Users("READER") = BiHolders(BiReaders)
  /\ BiasedAccess!Users("WRITER") = BiHolders(BiWriters)
<1>1. /\ BiHolders(BiReaders) \subseteq BiThreads /\ BiHolders(BiWriters) \subseteq BiThreads
      /\ BiHolders(BiReaders) \cap BiHolders(BiWriters) = {}
  BY BiasedAssumption DEF BiHolders, BiThreads
<1> QED
  BY <1>1 DEF BiasedAccess!Users

\* Who is granted the lock enters the abstract resource, who unlocks leaves it.
LEMMA BiStepsOfAccess ==
  ASSUME BiVisible, bi_limit' = bi_limit
  PROVE  [BiasedAccess!Next]_<<BiInside, bi_limit>>
<1>1. CASE BiSameHolders
  BY <1>1 DEF BiSameHolders, BiInside
<1>2. ASSUME NEW t \in BiThreads, BiGrant(t, BiReaders, "READER") PROVE BiasedAccess!Next
  <2>1. BiInside' = [BiInside EXCEPT ![t] = "READER"]
    BY <1>2 DEF BiInside, BiGrant, BiClasses
  <2>2. BiasedAccess!Cardinality(BiasedAccess!Users("READER")) < bi_limit["READER"]
    BY <1>2, BiSameCount, BiInsideIsWhoHolds DEF BiGrant
  <2>3. BiasedAccess!Enter(t, "READER")
    BY <1>2, <2>1, <2>2 DEF BiasedAccess!Enter, BiInside, BiGrant, BiClasses
  <2> QED
    BY <2>3 DEF BiasedAccess!Next, BiasedAccess!Classes
<1>3. ASSUME NEW t \in BiThreads, BiGrant(t, BiWriters, "WRITER") PROVE BiasedAccess!Next
  <2>1. BiInside' = [BiInside EXCEPT ![t] = "WRITER"]
    <3>1. BiReaders \in BiClasses \ {BiWriters}
      BY <1>3, BiasedAssumption DEF BiGrant, BiClasses
    <3>2. /\ BiHolders(BiReaders) = {} /\ BiHolders(BiReaders)' = {}
          /\ BiHolders(BiWriters)' = BiHolders(BiWriters) \cup {t}
      BY <1>3, <3>1 DEF BiGrant, BiClasses
    <3> QED
      BY <3>2 DEF BiInside
  <2>2. BiasedAccess!Cardinality(BiasedAccess!Users("WRITER")) < bi_limit["WRITER"]
    BY <1>3, BiSameCount, BiInsideIsWhoHolds DEF BiGrant
  <2>3. BiasedAccess!Enter(t, "WRITER")
    BY <1>3, <2>1, <2>2 DEF BiasedAccess!Enter, BiInside, BiGrant, BiClasses
  <2> QED
    BY <2>3 DEF BiasedAccess!Next, BiasedAccess!Classes
<1>4. ASSUME NEW t \in BiThreads, BiLeaves(t) PROVE BiasedAccess!Next
  <2>1. BiInside' = [BiInside EXCEPT ![t] = "NONE"]
    BY <1>4 DEF BiInside, BiLeaves
  <2>2. BiasedAccess!Leave(t)
    BY <1>4, <2>1 DEF BiasedAccess!Leave, BiInside, BiLeaves
  <2> QED
    BY <2>2 DEF BiasedAccess!Next
<1> QED
  BY <1>1, <1>2, <1>3, <1>4 DEF BiVisible

\* The lock begins as the abstract access does.
LEMMA BiInitOfAccess == BiInit => BiasedAccess!Init
<1> SUFFICES ASSUME BiInit PROVE BiasedAccess!Init
  OBVIOUS
<1>1. BiInside = [t \in BiThreads |-> "NONE"]
  BY DEF BiInit, BiInside, BiHolders, BiThreads
<1>2. bi_limit \in [{"READER", "WRITER"} -> Nat]
  BY BiasedAssumption DEF BiInit, SetMaxReadersWriters
<1> QED
  BY <1>1, <1>2 DEF BiasedAccess!Init, BiasedAccess!Classes, BiInside

\* For any readers, writers, limits and biasedness the customizable lock lets
\* one class in at a time, within its limit: it is a reader/writer access.
THEOREM BiRefinesAccess == BiSpec => BiImplementsAccess
<1>1. BiInv /\ [BiNext]_biVars => BiInv'
  BY BiNextInv
<1>2. BiInv /\ [BiNext]_biVars => [BiasedAccess!Next]_<<BiInside, bi_limit>>
  BY BiNextInv, BiStepsOfAccess
<1>3. BiInv /\ [BiNext]_biVars => [BiasedAccess!Next]_(BiasedAccess!accessVars)
  BY <1>2 DEF BiasedAccess!accessVars, BiInside
<1> QED
  BY <1>1, <1>3, BiInitInv, BiInitOfAccess, PTL DEF BiSpec, BiImplementsAccess, BiasedAccess!Spec

----------------------------------------------------------------------------
(* The first monitor. *)

\* Who waits is in the list of its class, once; and whoever is counted as a
\* user uses the resource.
FmLists ==
    /\ fm_at \in [FmThreads -> {"away", "waiting", "signalled", "using"}]
    /\ reader_thread_wait_q \in Seq(FmReaders) /\ writer_thread_wait_q \in Seq(FmWriters)
    /\ {t \in FmThreads : fm_at[t] = "waiting"} =
          Range(reader_thread_wait_q) \cup Range(writer_thread_wait_q)
    /\ \A m, j \in 1 .. Len(writer_thread_wait_q) :
          writer_thread_wait_q[m] = writer_thread_wait_q[j] => m = j
    /\ resource_using_threads_q \in SUBSET {t \in FmThreads : fm_at[t] = "using"}

\* The resource is given to nobody only when nobody waits, and to somebody
\* only when there is somebody to release it.
FmGiven ==
    IF resource_status = "AVAILABLE"
    THEN reader_thread_wait_q = <<>> /\ writer_thread_wait_q = <<>>
    ELSE \E t \in FmThreads : fm_at[t] \in {"using", "signalled"}

FmInv == FmLists /\ FmGiven

\* The two ways to speak of the elements of a list.
LEMMA FmSameRange == ASSUME NEW S, NEW s \in Seq(S) PROVE ToSet(s) = Range(s)
  BY DEF ToSet, Range

\* A waiting thread is behind a user, or behind one that was given the resource.
LEMMA FmInvSuffices == FmInv => FmNobodyWaitsForNobody
<1> SUFFICES ASSUME FmInv PROVE FmNobodyWaitsForNobody
  OBVIOUS
<1>1. /\ ToSet(reader_thread_wait_q) = Range(reader_thread_wait_q)
      /\ ToSet(writer_thread_wait_q) = Range(writer_thread_wait_q)
  BY FmSameRange DEF FmInv, FmLists
<1>2. CASE resource_status = "AVAILABLE"
  <2>1. Range(reader_thread_wait_q) = {} /\ Range(writer_thread_wait_q) = {}
    BY <1>2 DEF FmInv, FmGiven, Range
  <2> QED
    BY <1>1, <2>1 DEF FmInv, FmLists, FmNobodyWaitsForNobody
<1>3. CASE resource_status # "AVAILABLE"
  BY <1>1, <1>3 DEF FmInv, FmLists, FmGiven, FmNobodyWaitsForNobody
<1> QED
  BY <1>2, <1>3

\* A new monitor is free and nobody waits.
LEMMA FmInitInv == FmInit => FmInv
<1> SUFFICES ASSUME FmInit PROVE FmInv
  OBVIOUS
<1>1. /\ reader_thread_wait_q = <<>> /\ writer_thread_wait_q = <<>> /\ resource_status = "AVAILABLE"
      /\ resource_using_threads_q = {} /\ fm_at = [t \in FmThreads |-> "away"]
  BY DEF FmInit, init_monitor
<1>2. Range(reader_thread_wait_q) = {} /\ Range(writer_thread_wait_q) = {}
  BY <1>1 DEF Range
<1> QED
  BY <1>1, <1>2 DEF FmInv, FmLists, FmGiven

\* A request finds the resource free, or goes to the list of its class.
LEMMA FmRequestInv ==
  ASSUME FmInv, NEW t \in FmThreads, fm_request(t)
  PROVE  FmInv'
<1> USE DEF FmInv
<1>1. fm_at[t] = "away"
  BY DEF fm_request
<1>2. CASE \/ resource_status = "AVAILABLE"
           \/ t \in FmReaders /\ resource_status = "BUSY_BY_READER"
  <2>1. /\ resource_status' = FmBusyBy(t) /\ fm_at' = [fm_at EXCEPT ![t] = "using"]
        /\ resource_using_threads_q' = resource_using_threads_q \cup {t}
        /\ UNCHANGED <<reader_thread_wait_q, writer_thread_wait_q>>
    BY <1>2 DEF fm_request
  <2>2. {v \in FmThreads : fm_at'[v] = "waiting"} = {u \in FmThreads : fm_at[u] = "waiting"}
    BY <1>1, <2>1 DEF FmLists
  <2>3. FmGiven'
    BY <2>1 DEF FmGiven, FmBusyBy, FmLists
  <2>4. resource_using_threads_q' \in SUBSET {v \in FmThreads : fm_at'[v] = "using"}
    BY <2>1 DEF FmLists
  <2> QED
    BY <2>1, <2>2, <2>3, <2>4 DEF FmLists
<1>3. CASE ~(\/ resource_status = "AVAILABLE"
             \/ t \in FmReaders /\ resource_status = "BUSY_BY_READER")
  <2>1. /\ fm_at' = [fm_at EXCEPT ![t] = "waiting"]
        /\ UNCHANGED <<resource_status, resource_using_threads_q>>
        /\ resource_status # "AVAILABLE"
    BY <1>3 DEF fm_request, monitor_wait_list_client_thread
  <2>2. {v \in FmThreads : fm_at'[v] = "waiting"} = {u \in FmThreads : fm_at[u] = "waiting"} \cup {t}
    BY <2>1 DEF FmLists
  <2>3. FmGiven' /\ resource_using_threads_q' \in SUBSET {v \in FmThreads : fm_at'[v] = "using"}
    BY <1>1, <2>1 DEF FmGiven, FmLists
  <2>4. fm_at' \in [FmThreads -> {"away", "waiting", "signalled", "using"}]
    BY <2>1 DEF FmLists
  <2>5. CASE t \in FmReaders
    <3>1. reader_thread_wait_q' = <<t>> \o reader_thread_wait_q /\ UNCHANGED writer_thread_wait_q
      BY <1>3, <2>5 DEF fm_request, monitor_wait_list_client_thread
    <3>2. /\ reader_thread_wait_q' \in Seq(FmReaders)
          /\ Range(reader_thread_wait_q') = Range(reader_thread_wait_q) \cup {t}
      <4>1. /\ Len(reader_thread_wait_q') = Len(reader_thread_wait_q) + 1
            /\ \A m \in 1 .. Len(reader_thread_wait_q) + 1 :
                  reader_thread_wait_q'[m] = IF m = 1 THEN t ELSE reader_thread_wait_q[m - 1]
            /\ reader_thread_wait_q' \in Seq(FmReaders)
        BY <2>5, <3>1 DEF FmLists
      <4>2. ASSUME NEW x \in Range(reader_thread_wait_q) PROVE x \in Range(reader_thread_wait_q')
        <5>1. PICK m \in 1 .. Len(reader_thread_wait_q) : reader_thread_wait_q[m] = x
          BY DEF Range, FmLists
        <5>2. /\ m + 1 \in 1 .. Len(reader_thread_wait_q) + 1 /\ m + 1 # 1 /\ (m + 1) - 1 = m
              /\ m + 1 \in 1 .. Len(reader_thread_wait_q')
          BY <4>1, <5>1 DEF FmLists
        <5>3. reader_thread_wait_q'[m + 1] = x
          BY <4>1, <5>1, <5>2
        <5> QED
          BY <5>2, <5>3 DEF Range
      <4>3. t \in Range(reader_thread_wait_q')
        BY <4>1 DEF Range, FmLists
      <4>4. ASSUME NEW x \in Range(reader_thread_wait_q') PROVE x \in Range(reader_thread_wait_q) \cup {t}
        BY <4>1 DEF Range, FmLists
      <4> QED
        BY <4>1, <4>2, <4>3, <4>4
    <3> QED
      BY <2>2, <2>3, <2>4, <3>1, <3>2 DEF FmLists
  <2>6. CASE t \notin FmReaders
    <3>1. writer_thread_wait_q' = <<t>> \o writer_thread_wait_q /\ UNCHANGED reader_thread_wait_q
      BY <1>3, <2>6 DEF fm_request, monitor_wait_list_client_thread
    <3>2. t \in FmWriters /\ t \notin Range(writer_thread_wait_q)
      BY <1>1, <2>6 DEF FmLists, FmThreads
    <3>3. /\ Len(writer_thread_wait_q') = Len(writer_thread_wait_q) + 1
          /\ \A m \in 1 .. Len(writer_thread_wait_q) + 1 :
                writer_thread_wait_q'[m] = IF m = 1 THEN t ELSE writer_thread_wait_q[m - 1]
          /\ writer_thread_wait_q' \in Seq(FmWriters)
          /\ Len(writer_thread_wait_q) \in Nat
      BY <3>1, <3>2 DEF FmLists
    <3>4. Range(writer_thread_wait_q') = Range(writer_thread_wait_q) \cup {t}
      <4>2. ASSUME NEW x \in Range(writer_thread_wait_q) PROVE x \in Range(writer_thread_wait_q')
        <5>1. PICK m \in 1 .. Len(writer_thread_wait_q) : writer_thread_wait_q[m] = x
          BY DEF Range, FmLists
        <5>2. m + 1 \in 1 .. Len(writer_thread_wait_q') /\ writer_thread_wait_q'[m + 1] = x
          BY <3>3, <5>1 DEF FmLists
        <5> QED
          BY <5>2 DEF Range
      <4>3. t \in Range(writer_thread_wait_q')
        BY <3>3 DEF Range, FmLists
      <4>4. ASSUME NEW x \in Range(writer_thread_wait_q') PROVE x \in Range(writer_thread_wait_q) \cup {t}
        BY <3>3 DEF Range, FmLists
      <4> QED
        BY <4>2, <4>3, <4>4
    <3>5. \A m \in 1 .. Len(writer_thread_wait_q) : writer_thread_wait_q[m] # t
      BY <3>2 DEF Range, FmLists
    <3>6. ASSUME NEW m \in 1 .. Len(writer_thread_wait_q'), NEW j \in 1 .. Len(writer_thread_wait_q'),
                 writer_thread_wait_q'[m] = writer_thread_wait_q'[j]
          PROVE  m = j
      <4>1. CASE m = 1 \/ j = 1
        BY <3>3, <3>5, <3>6, <4>1
      <4>2. CASE m # 1 /\ j # 1
        <5>1. /\ m - 1 \in 1 .. Len(writer_thread_wait_q) /\ j - 1 \in 1 .. Len(writer_thread_wait_q)
              /\ writer_thread_wait_q[m - 1] = writer_thread_wait_q[j - 1]
          BY <3>3, <3>6, <4>2
        <5>2. m - 1 = j - 1
          BY <5>1 DEF FmLists
        <5> QED
          BY <5>2, <3>3
      <4> QED
        BY <4>1, <4>2
    <3> QED
      BY <2>2, <2>3, <2>4, <3>1, <3>3, <3>4, <3>6 DEF FmLists
  <2> QED
    BY <2>5, <2>6
<1> QED
  BY <1>2, <1>3

\* A signalled thread takes the resource.
LEMMA FmResumeInv ==
  ASSUME FmInv, NEW t \in FmThreads, fm_resume(t)
  PROVE  FmInv'
<1> USE DEF FmInv
<1>1. /\ fm_at[t] = "signalled" /\ fm_at' = [fm_at EXCEPT ![t] = "using"]
      /\ resource_status' = FmBusyBy(t)
      /\ UNCHANGED <<reader_thread_wait_q, writer_thread_wait_q, resource_using_threads_q>>
  BY DEF fm_resume
<1>2. {v \in FmThreads : fm_at'[v] = "waiting"} = {u \in FmThreads : fm_at[u] = "waiting"}
  BY <1>1 DEF FmLists
<1>3. FmGiven' /\ resource_using_threads_q' \in SUBSET {v \in FmThreads : fm_at'[v] = "using"}
  BY <1>1 DEF FmGiven, FmBusyBy, FmLists
<1> QED
  BY <1>1, <1>2, <1>3 DEF FmLists

\* Who releases the resource last hands it on to whoever waits.
LEMMA FmReleaseInv ==
  ASSUME FmInv, NEW t \in FmThreads, fm_release(t)
  PROVE  FmInv'
<1> USE DEF FmInv
<1> DEFINE left == [fm_at EXCEPT ![t] = "away"]
           others == resource_using_threads_q \ {t}
<1>1. fm_at[t] = "using" /\ resource_using_threads_q' = others
  BY DEF fm_release
<1>2. /\ left \in [FmThreads -> {"away", "waiting", "signalled", "using"}]
      /\ {u \in FmThreads : left[u] = "waiting"} = {u \in FmThreads : fm_at[u] = "waiting"}
      /\ others \in SUBSET {u \in FmThreads : left[u] = "using"}
  BY <1>1 DEF FmLists
<1>3. CASE others # {}
  <2>1. fm_at' = left /\ UNCHANGED <<resource_status, reader_thread_wait_q, writer_thread_wait_q>>
    BY <1>3 DEF fm_release
  <2>2. \E u \in FmThreads : left[u] \in {"using", "signalled"}
    BY <1>2, <1>3
  <2>3. FmGiven'
    BY <2>1, <2>2 DEF FmGiven
  <2> QED
    BY <1>1, <1>2, <2>1, <2>3 DEF FmLists
<1>4. CASE others = {} /\ reader_thread_wait_q # <<>>
  <2>1. /\ fm_at' = [u \in FmThreads |-> IF u \in ToSet(reader_thread_wait_q) THEN "signalled" ELSE left[u]]
        /\ resource_status' = "BUSY_BY_READER" /\ reader_thread_wait_q' = <<>>
        /\ UNCHANGED writer_thread_wait_q
    BY <1>4 DEF fm_release
  <2>2. ToSet(reader_thread_wait_q) = Range(reader_thread_wait_q)
    BY FmSameRange DEF FmLists
  <2>3. Range(reader_thread_wait_q) \cap Range(writer_thread_wait_q) = {}
    BY FirstMonitorAssumption DEF Range, FmLists
  <2>4. PICK u \in FmThreads : u \in Range(reader_thread_wait_q)
    BY <1>4 DEF Range, FmLists, FmThreads
  <2>5. Range(reader_thread_wait_q') = {}
    BY <2>1 DEF Range
  <2>6. {v \in FmThreads : fm_at'[v] = "waiting"} = Range(writer_thread_wait_q)
    BY <1>2, <2>1, <2>2, <2>3 DEF FmLists
  <2>7. FmGiven'
    BY <2>1, <2>2, <2>4 DEF FmGiven
  <2>8. fm_at' \in [FmThreads -> {"away", "waiting", "signalled", "using"}]
    BY <1>2, <2>1
  <2>9. /\ reader_thread_wait_q' \in Seq(FmReaders) /\ writer_thread_wait_q' \in Seq(FmWriters)
        /\ \A m, j \in 1 .. Len(writer_thread_wait_q') :
              writer_thread_wait_q'[m] = writer_thread_wait_q'[j] => m = j
    BY <2>1 DEF FmLists
  <2>10. {v \in FmThreads : fm_at'[v] = "waiting"} =
            Range(reader_thread_wait_q') \cup Range(writer_thread_wait_q')
    BY <2>1, <2>5, <2>6
  <2>11. resource_using_threads_q' \in SUBSET {v \in FmThreads : fm_at'[v] = "using"}
    BY <1>1, <1>4
  <2> HIDE DEF left, others
  <2> QED
    BY <2>7, <2>8, <2>9, <2>10, <2>11 DEF FmLists
<1>5. CASE others = {} /\ reader_thread_wait_q = <<>> /\ writer_thread_wait_q # <<>>
  <2> DEFINE w == Head(writer_thread_wait_q)
  <2>1. /\ fm_at' = [left EXCEPT ![w] = "signalled"]
        /\ resource_status' = "BUSY_BY_WRITER"
        /\ writer_thread_wait_q' = Tail(writer_thread_wait_q)
        /\ UNCHANGED reader_thread_wait_q
    BY <1>5 DEF fm_release
  <2>2. /\ w = writer_thread_wait_q[1] /\ w \in FmWriters /\ w \in FmThreads
        /\ Len(writer_thread_wait_q) \in Nat \ {0}
        /\ writer_thread_wait_q' \in Seq(FmWriters)
        /\ Len(writer_thread_wait_q') = Len(writer_thread_wait_q) - 1
        /\ \A m \in 1 .. Len(writer_thread_wait_q) - 1 : writer_thread_wait_q'[m] = writer_thread_wait_q[m + 1]
    BY <1>5, <2>1 DEF FmLists, FmThreads
  <2>3. Range(writer_thread_wait_q') = Range(writer_thread_wait_q) \ {w}
    <3>1. ASSUME NEW x \in Range(writer_thread_wait_q), x # w PROVE x \in Range(writer_thread_wait_q')
      <4>1. PICK m \in 1 .. Len(writer_thread_wait_q) : writer_thread_wait_q[m] = x
        BY DEF Range, FmLists
      <4>2. m - 1 \in 1 .. Len(writer_thread_wait_q') /\ writer_thread_wait_q'[m - 1] = x
        BY <2>2, <3>1, <4>1
      <4> QED
        BY <2>2, <4>2 DEF Range
    <3>2. ASSUME NEW x \in Range(writer_thread_wait_q') PROVE x \in Range(writer_thread_wait_q) /\ x # w
      <4>1. PICK m \in 1 .. Len(writer_thread_wait_q') : writer_thread_wait_q'[m] = x
        BY <2>2 DEF Range
      <4>2. m + 1 \in 1 .. Len(writer_thread_wait_q) /\ writer_thread_wait_q[m + 1] = x /\ m + 1 # 1
        BY <2>2, <4>1
      <4>3. 1 \in 1 .. Len(writer_thread_wait_q)
        BY <2>2
      <4> QED
        BY <2>2, <4>2, <4>3 DEF Range, FmLists
    <3> QED
      BY <3>1, <3>2
  <2>4. \A m, j \in 1 .. Len(writer_thread_wait_q') :
            writer_thread_wait_q'[m] = writer_thread_wait_q'[j] => m = j
    <3> SUFFICES ASSUME NEW m \in 1 .. Len(writer_thread_wait_q'), NEW j \in 1 .. Len(writer_thread_wait_q'),
                        writer_thread_wait_q'[m] = writer_thread_wait_q'[j]
                 PROVE  m = j
      OBVIOUS
    <3>1. /\ m + 1 \in 1 .. Len(writer_thread_wait_q) /\ j + 1 \in 1 .. Len(writer_thread_wait_q)
          /\ writer_thread_wait_q[m + 1] = writer_thread_wait_q[j + 1]
      BY <2>2
    <3>2. m + 1 = j + 1
      BY <3>1 DEF FmLists
    <3> QED
      BY <2>2, <3>2
  <2>5. Range(reader_thread_wait_q) = {}
    BY <1>5 DEF Range
  <2>6. {v \in FmThreads : fm_at'[v] = "waiting"} = Range(writer_thread_wait_q) \ {w}
    BY <1>2, <2>1, <2>2, <2>5 DEF FmLists
  <2>7. FmGiven'
    BY <1>2, <2>1, <2>2 DEF FmGiven
  <2>8. fm_at' \in [FmThreads -> {"away", "waiting", "signalled", "using"}]
    BY <1>2, <2>1, <2>2
  <2> QED
    BY <1>1, <1>5, <2>1, <2>2, <2>3, <2>4, <2>5, <2>6, <2>7, <2>8 DEF FmLists
<1>6. CASE others = {} /\ reader_thread_wait_q = <<>> /\ writer_thread_wait_q = <<>>
  <2>1. /\ fm_at' = left /\ resource_status' = "AVAILABLE"
        /\ UNCHANGED <<reader_thread_wait_q, writer_thread_wait_q>>
    BY <1>6 DEF fm_release
  <2>2. FmGiven'
    BY <1>6, <2>1 DEF FmGiven
  <2> QED
    BY <1>1, <1>2, <2>1, <2>2 DEF FmLists
<1> QED
  BY <1>3, <1>4, <1>5, <1>6

\* Every step keeps it.
LEMMA FmNextInv == FmInv /\ [FmNext]_fmVars => FmInv'
<1> SUFFICES ASSUME FmInv, [FmNext]_fmVars PROVE FmInv'
  OBVIOUS
<1>1. CASE UNCHANGED fmVars
  BY <1>1 DEF fmVars, FmInv, FmLists, FmGiven
<1>2. ASSUME NEW t \in FmThreads, thread_fn(t) PROVE FmInv'
  BY <1>2, FmRequestInv, FmResumeInv, FmReleaseInv DEF thread_fn
<1> QED
  BY <1>1, <1>2 DEF FmNext

----------------------------------------------------------------------------
(* Pausing threads, and the first wait queue. *)

\* The course's thread runs exactly while it writes, and a slave that has read
\* its status before it sleeps keeps the mutex meanwhile.
PaInv ==
    /\ pa_at \in {"writing", "paused", "signalled"}
    /\ "RUNNING" \in pa_flags <=> pa_at = "writing"
    /\ "MARKED" \in pa_flags => pa_at = "writing"
    /\ ms_at \in [Slaves -> {"writing", "testing", "blocked", "resumed"}]
    /\ block_status \in [Slaves -> BOOLEAN]
    /\ \A s \in Slaves : ms_at[s] \in {"testing", "blocked"} => block_status[s]

\* At first everybody writes.
LEMMA PaInitInv == PauseInit => PaInv /\ PausedIsWanted
  BY DEF PauseInit, pa_init, PaInv, PausedIsWanted

\* Every step keeps it, and whoever goes to sleep is still told to pause.
LEMMA PaNextInv == PaInv /\ [PauseNext]_pauseVars => PaInv' /\ PausedIsWanted'
<1> SUFFICES ASSUME PaInv, [PauseNext]_pauseVars PROVE PaInv'
  BY DEF PaInv, PausedIsWanted
<1>1. CASE UNCHANGED pauseVars
  BY <1>1 DEF pauseVars, paVars, msVars, PaInv
<1>2. CASE pa_next /\ UNCHANGED <<psVars, msVars>>
  BY <1>2 DEF pa_next, pa_pause, pa_resume, pa_test_and_pause, msVars, PaInv
<1>3. CASE ps_next /\ UNCHANGED <<paVars, msVars>>
  BY <1>3 DEF paVars, msVars, PaInv
<1>4. CASE ms_next /\ UNCHANGED <<paVars, psVars>>
  <2>1. PICK s \in Slaves : resume_thread(s) \/ stop_thread(s) \/ pthread_insert_pause_point(s)
    BY <1>4 DEF ms_next
  <2>2. CASE resume_thread(s)
    BY <1>4, <2>2 DEF resume_thread, paVars, PaInv
  <2>3. CASE stop_thread(s)
    BY <1>4, <2>3 DEF stop_thread, paVars, PaInv
  <2>4. CASE pthread_insert_pause_point(s)
    BY <1>4, <2>4 DEF pthread_insert_pause_point, paVars, PaInv
  <2> QED
    BY <2>1, <2>2, <2>3, <2>4
<1>5. CASE pause_spurious_wakeup
  BY <1>5 DEF pause_spurious_wakeup, paVars, msVars, PaInv
<1> QED
  BY <1>1, <1>2, <1>3, <1>4, <1>5 DEF PauseNext

V1Owning == {"block", "pass", "count", "counting", "discount", "discounting", "leave"}
V1Counted == {t \in V1Threads : v1_at[t] \in {"asleep", "woken", "discount", "discounting"}}

\* One thread at a time works on the queue, and what it has read of the counter
\* is still true when it writes.
V1Inv ==
    V1Locks =>
      /\ v1_at \in [V1Threads -> V1Owning \cup {"start", "asleep", "woken", "left"}]
      /\ v1_register \in [V1Threads -> Nat]
      /\ \A t \in V1Threads : v1_at[t] \in V1Owning => v1_holder = t
      /\ \A t \in V1Threads : v1_at[t] \in {"counting", "discounting"} =>
            v1_register[t] = thread_wait_count
      /\ thread_wait_count = Cardinality(V1Counted)
      /\ \A t \in V1Threads : v1_at[t] \in {"count", "counting"} => appln_mutex_known
      /\ thread_wait_count > 0 => appln_mutex_known

\* Nobody sleeps in a new queue.
LEMMA V1InitInv == V1Init => V1Inv
<1> SUFFICES ASSUME V1Init, V1Locks PROVE V1Inv
  BY DEF V1Inv
<1>1. V1Counted = {}
  BY DEF V1Init, V1Counted
<1> QED
  BY <1>1, FS_EmptySet DEF V1Init, v1_wait_queue_init, V1Inv, V1Owning

\* What is asked of the counter is part of the invariant.
LEMMA V1InvSuffices == V1Inv => V1SleepersAreCounted
  BY DEF V1Inv, V1Counted, V1SleepersAreCounted

\* A move between places that count alike leaves the count as it is, one to a
\* place that counts adds to it, one away takes from it.
LEMMA V1CountAfter ==
  ASSUME V1Inv, V1Locks, NEW t \in V1Threads, NEW place, v1_at' = [v1_at EXCEPT ![t] = place]
  PROVE  LET before == v1_at[t] \in {"asleep", "woken", "discount", "discounting"}
             after == place \in {"asleep", "woken", "discount", "discounting"}
         IN /\ Cardinality(V1Counted) \in Nat
            /\ before <=> after => Cardinality(V1Counted)' = Cardinality(V1Counted)
            /\ ~before /\ after => Cardinality(V1Counted)' = Cardinality(V1Counted) + 1
            /\ before /\ ~after => Cardinality(V1Counted)' = Cardinality(V1Counted) - 1
<1> DEFINE before == v1_at[t] \in {"asleep", "woken", "discount", "discounting"}
           after == place \in {"asleep", "woken", "discount", "discounting"}
<1>1. V1Counted \in SUBSET V1Threads /\ IsFiniteSet(V1Threads)
  BY V1Assumption DEF V1Counted
<1>2. /\ V1Counted' = IF after THEN V1Counted \cup {t} ELSE V1Counted \ {t}
      /\ before <=> t \in V1Counted
  BY DEF V1Inv, V1Counted
<1>3. t \notin V1Counted => Cardinality(V1Counted \cup {t}) = Cardinality(V1Counted) + 1
  BY <1>1, CountOneMore
<1>4. t \in V1Counted => Cardinality(V1Counted \ {t}) = Cardinality(V1Counted) - 1
  BY <1>1, CountOneLess
<1>5. Cardinality(V1Counted) \in Nat
  BY <1>1, CountOfSubset
<1>6. /\ t \in V1Counted => V1Counted \cup {t} = V1Counted
      /\ t \notin V1Counted => V1Counted \ {t} = V1Counted
  OBVIOUS
<1> QED
  BY <1>2, <1>3, <1>4, <1>5, <1>6

\* Every step keeps it.
LEMMA V1NextInv == V1Inv /\ [V1Next]_v1Vars => V1Inv'
<1> SUFFICES ASSUME V1Inv, V1Locks, [V1Next]_v1Vars PROVE V1Inv'
  BY DEF V1Inv
<1> USE DEF V1Owning
<1>1. CASE UNCHANGED v1Vars
  BY <1>1 DEF v1Vars, v1Queue, V1Inv, V1Counted
<1>2. ASSUME UNCHANGED <<v1Queue, v1_holder, v1_at, v1_register>> PROVE V1Inv'
  BY <1>2 DEF v1Queue, V1Inv, V1Counted
<1>3. CASE v1_main_fn
  <2>1. CASE v1_signal /\ v1_at' # v1_at
    <3>1. PICK t \in V1Threads : v1_at[t] = "asleep" /\ v1_at' = [v1_at EXCEPT ![t] = "woken"]
      BY <2>1 DEF v1_signal
    <3>2. UNCHANGED <<thread_wait_count, appln_mutex_known, v1_holder, v1_register>>
      BY <2>1 DEF v1_signal, v1Queue
    <3>3. thread_wait_count' = Cardinality(V1Counted)'
      BY <3>1, <3>2, V1CountAfter DEF V1Inv
    <3> QED
      BY <3>1, <3>2, <3>3 DEF V1Inv
  <2>2. CASE ~(v1_signal /\ v1_at' # v1_at)
    <3>1. UNCHANGED <<v1Queue, v1_holder, v1_at, v1_register>>
      BY <1>3, <2>2 DEF v1_main_fn, v1_test_pointer, v1_signal
    <3> QED
      BY <1>2, <3>1
  <2> QED
    BY <2>1, <2>2
<1>4. ASSUME NEW t \in V1Threads, thread_fn_callback(t) \/ v1_spurious_wakeup(t) PROVE V1Inv'
  <2>0. \A u \in V1Threads : v1_holder = "nobody" => v1_at[u] \notin V1Owning
    BY V1Assumption DEF V1Inv
  <2>1. CASE appln_cond_test_fn(t)
    <3>1. PICK place \in {"block", "pass"} : v1_at[t] = "start" /\ v1_at' = [v1_at EXCEPT ![t] = place]
      BY <2>1 DEF appln_cond_test_fn, V1Go
    <3>2. /\ v1_holder = "nobody" /\ v1_holder' = t
          /\ UNCHANGED <<thread_wait_count, appln_mutex_known, v1_register>>
      BY <2>1 DEF appln_cond_test_fn, v1Queue
    <3>3. thread_wait_count' = Cardinality(V1Counted)'
      BY <3>1, <3>2, V1CountAfter DEF V1Inv
    <3> QED
      BY <2>0, <3>1, <3>2, <3>3 DEF V1Inv
  <2>2. CASE v1_note_mutex(t)
    <3>1. PICK place \in {"count", "leave"} :
             v1_at[t] \in {"block", "pass"} /\ v1_at' = [v1_at EXCEPT ![t] = place]
      BY <2>2 DEF v1_note_mutex, V1Go
    <3>2. appln_mutex_known' = TRUE /\ UNCHANGED <<thread_wait_count, v1_holder, v1_register>>
      BY <2>2 DEF v1_note_mutex
    <3>3. thread_wait_count' = Cardinality(V1Counted)'
      BY <3>1, <3>2, V1CountAfter DEF V1Inv
    <3> QED
      BY <3>1, <3>2, <3>3 DEF V1Inv
  <2>3. CASE v1_read_count(t)
    <3>1. \/ v1_at[t] = "count" /\ v1_at' = [v1_at EXCEPT ![t] = "counting"]
          \/ v1_at[t] = "discount" /\ v1_at' = [v1_at EXCEPT ![t] = "discounting"]
      BY <2>3 DEF v1_read_count, V1Go
    <3>2. /\ v1_register' = [v1_register EXCEPT ![t] = thread_wait_count]
          /\ UNCHANGED <<thread_wait_count, appln_mutex_known, v1_holder>>
      BY <2>3 DEF v1_read_count, v1Queue
    <3>3. thread_wait_count' = Cardinality(V1Counted)' /\ thread_wait_count \in Nat
      BY <3>1, <3>2, V1CountAfter DEF V1Inv
    <3>4. v1_at' \in [V1Threads -> V1Owning \cup {"start", "asleep", "woken", "left"}]
      BY <3>1 DEF V1Inv
    <3> QED
      BY <3>1, <3>2, <3>3, <3>4 DEF V1Inv
  <2>4. CASE v1_sleep(t)
    <3>1. v1_at[t] = "counting" /\ v1_at' = [v1_at EXCEPT ![t] = "asleep"]
      BY <2>4 DEF v1_sleep, V1Go
    <3>2. /\ thread_wait_count' = thread_wait_count + 1 /\ v1_holder' = "nobody"
          /\ v1_register' = [v1_register EXCEPT ![t] = 0] /\ UNCHANGED appln_mutex_known
          /\ appln_mutex_known
      BY <2>4, <3>1 DEF v1_sleep, V1Inv
    <3>3. thread_wait_count' = Cardinality(V1Counted)'
      BY <3>1, <3>2, V1CountAfter DEF V1Inv
    <3>4. \A u \in V1Threads \ {t} : v1_at[u] \notin V1Owning
      BY <3>1 DEF V1Inv
    <3> QED
      BY <3>1, <3>2, <3>3, <3>4 DEF V1Inv
  <2>5. CASE v1_wake(t)
    <3>1. v1_at[t] = "woken" /\ v1_at' = [v1_at EXCEPT ![t] = "discount"]
      BY <2>5 DEF v1_wake, V1Go
    <3>2. /\ v1_holder = "nobody" /\ v1_holder' = t
          /\ UNCHANGED <<thread_wait_count, appln_mutex_known, v1_register>>
      BY <2>5 DEF v1_wake, v1Queue
    <3>3. thread_wait_count' = Cardinality(V1Counted)'
      BY <3>1, <3>2, V1CountAfter DEF V1Inv
    <3> QED
      BY <2>0, <3>1, <3>2, <3>3 DEF V1Inv
  <2>6. CASE v1_retest(t)
    <3>1. PICK place \in {"count", "leave"} :
             v1_at[t] = "discounting" /\ v1_at' = [v1_at EXCEPT ![t] = place]
      BY <2>6 DEF v1_retest, V1Go
    <3>2. /\ thread_wait_count' = thread_wait_count - 1
          /\ v1_register' = [v1_register EXCEPT ![t] = 0] /\ UNCHANGED <<appln_mutex_known, v1_holder>>
      BY <2>6, <3>1 DEF v1_retest, V1Inv
    <3>3. thread_wait_count' = Cardinality(V1Counted)'
      <4>1. Cardinality(V1Counted)' = Cardinality(V1Counted) - 1
        <5>1. CASE place = "count"
          BY <3>1, <5>1, V1CountAfter
        <5>2. CASE place = "leave"
          BY <3>1, <5>2, V1CountAfter
        <5> QED
          BY <3>1, <5>1, <5>2
      <4>2. thread_wait_count = Cardinality(V1Counted)
        BY DEF V1Inv
      <4> QED
        BY <3>2, <4>1, <4>2
    <3>4. \A u \in V1Threads \ {t} : v1_at[u] \notin V1Owning
      BY <3>1 DEF V1Inv
    <3>5. thread_wait_count > 0 /\ appln_mutex_known
      <4>1. t \in V1Counted /\ V1Counted \in SUBSET V1Threads /\ IsFiniteSet(V1Threads)
        BY <3>1, V1Assumption DEF V1Counted
      <4>2. Cardinality(V1Counted) > 0
        BY <4>1, CountOneLess
      <4> QED
        BY <4>2 DEF V1Inv
    <3> QED
      BY <3>1, <3>2, <3>3, <3>4, <3>5 DEF V1Inv
  <2>7. CASE v1_leave(t)
    <3>1. v1_at[t] = "leave" /\ v1_at' = [v1_at EXCEPT ![t] = "left"]
      BY <2>7 DEF v1_leave, V1Go
    <3>2. v1_holder' = "nobody" /\ UNCHANGED <<thread_wait_count, v1_register>>
      BY <2>7 DEF v1_leave
    <3>6. appln_mutex_known' = (appln_mutex_known /\ thread_wait_count # 0)
      BY <2>7 DEF v1_leave
    <3>3. thread_wait_count' = Cardinality(V1Counted)'
      <4>1. Cardinality(V1Counted)' = Cardinality(V1Counted)
        <5>1. /\ v1_at[t] \notin {"asleep", "woken", "discount", "discounting"}
              /\ "left" \notin {"asleep", "woken", "discount", "discounting"}
          BY <3>1
        <5>2. V1Counted' = V1Counted
          BY <3>1, <5>1 DEF V1Counted, V1Inv
        <5> QED
          BY <5>2
      <4>2. thread_wait_count = Cardinality(V1Counted)
        BY DEF V1Inv
      <4> QED
        BY <3>2, <4>1, <4>2
    <3>4. \A u \in V1Threads \ {t} : v1_at[u] \notin V1Owning
      BY <3>1 DEF V1Inv
    <3>5. thread_wait_count > 0 => appln_mutex_known'
      <4>1. thread_wait_count > 0 => thread_wait_count # 0
        BY V1CountAfter, <3>1 DEF V1Inv
      <4>2. thread_wait_count > 0 => appln_mutex_known
        BY DEF V1Inv
      <4> QED
        BY <3>6, <4>1, <4>2, Zenon
    <3> QED
      BY <3>1, <3>2, <3>3, <3>4, <3>5 DEF V1Inv
  <2>8. CASE v1_spurious_wakeup(t)
    <3>1. v1_at[t] = "asleep" /\ v1_at' = [v1_at EXCEPT ![t] = "woken"]
      BY <2>8 DEF v1_spurious_wakeup, V1Go
    <3>2. UNCHANGED <<thread_wait_count, appln_mutex_known, v1_holder, v1_register>>
      BY <2>8 DEF v1_spurious_wakeup, v1Queue
    <3>3. thread_wait_count' = Cardinality(V1Counted)'
      BY <3>1, <3>2, V1CountAfter DEF V1Inv
    <3> QED
      BY <3>1, <3>2, <3>3 DEF V1Inv
  <2> QED
    BY <1>4, <2>1, <2>2, <2>3, <2>4, <2>5, <2>6, <2>7, <2>8 DEF thread_fn_callback
<1> QED
  BY <1>1, <1>3, <1>4 DEF V1Next

----------------------------------------------------------------------------
(* The objects together. *)

\* What the objects keep whose sleepers are accounted for.
PrimitivesInv == /\ BiInv /\ FmInv
                 /\ PaInv /\ PausedIsWanted /\ V1Inv

\* Each object starts well, and only the one that is exercised changes.
LEMMA PrimitivesKeepTheirInvariants == Spec => []PrimitivesInv
<1>1. Init => PrimitivesInv
  BY BiInitInv, FmInitInv, PaInitInv, V1InitInv DEF Init, PrimitivesInv
<1>2. PrimitivesInv /\ [Next]_allVars => PrimitivesInv'
  <2> SUFFICES ASSUME PrimitivesInv, [Next]_allVars PROVE PrimitivesInv'
    OBVIOUS
  <2>1. [BiNext]_biVars /\ [FmNext]_fmVars /\ [PauseNext]_pauseVars /\ [V1Next]_v1Vars
    BY DEF Next, LocksNext, PointsNext, allVars, locksVars, pointsVars
  <2> QED
    BY <2>1, BiNextInv, FmNextInv, PaNextInv, V1NextInv DEF PrimitivesInv
<1> QED
  BY <1>1, <1>2, PTL DEF Spec

\* With the neutral setting nobody sleeps at a biased lock that has room for its
\* class, and whoever waits at the first monitor is in the list where a user, or
\* one who was signalled, will find it.
THEOREM PrimitivesForgetNobody == Spec => []NobodyIsForgotten
<1>1. PrimitivesInv => NobodyIsForgotten
  BY FmInvSuffices DEF PrimitivesInv, NobodyIsForgotten, BiInv
<1> QED
  BY <1>1, PrimitivesKeepTheirInvariants, PTL

\* Nobody is paused by a command that was taken back, and the first wait queue
\* has counted its sleepers as long as their predicate takes the mutex.
THEOREM PrimitivesAccountForSleepers == Spec => []SleepersAreAccountedFor
<1>1. PrimitivesInv => SleepersAreAccountedFor
  BY V1InvSuffices DEF PrimitivesInv, SleepersAreAccountedFor
<1> QED
  BY <1>1, PrimitivesKeepTheirInvariants, PTL


----------------------------------------------------------------------------
(* The thread barrier, for any threshold from 2: the chain of wake-ups does not *)
(* break, and the barrier is a meeting.  The inductive invariant adds that only *)
(* waiters sleep on cv, and that a waiter of an open barrier that is awake was  *)
(* dispersed.                                                                   *)

BarPlaces == {"out", "busy", "waiting"}

BarFields == /\ bar_threshold \in Nat \ {0, 1}
             /\ curr_wait_count \in Nat
             /\ is_ready_again \in BOOLEAN /\ bar_dispersed \in BOOLEAN
             /\ bar_asleep \subseteq BarWaiting
             /\ bpc \in [BarThreads -> BarPlaces]

BarEarlyIsDispersed == is_ready_again /\ BarWaiting \ bar_asleep # {} => bar_dispersed

BarInv == BarFields /\ BarChainUnbroken /\ BarEarlyIsDispersed

\* The waiters with one thread more or less.
LEMMA BarWaitingCount ==
    ASSUME NEW t \in BarThreads
    PROVE  /\ BarWaiting \in SUBSET BarThreads
           /\ Cardinality(BarWaiting) \in Nat
           /\ Cardinality(BarWaiting) = 0 <=> BarWaiting = {}
           /\ t \notin BarWaiting => Cardinality(BarWaiting \cup {t}) = Cardinality(BarWaiting) + 1
           /\ t \in BarWaiting => Cardinality(BarWaiting \ {t}) = Cardinality(BarWaiting) - 1
  <1>1. BarWaiting \in SUBSET BarThreads
    BY DEF BarWaiting
  <1> QED
    BY <1>1, CountOneMore, CountOneLess, CountOfSubset, BarrierAssumption

\* A fresh barrier satisfies the inductive invariant.
LEMMA BarInvInit == BarInit => BarInv
  <1> SUFFICES ASSUME BarInit PROVE BarInv
    OBVIOUS
  <1>1. BarWaiting = {}
    BY DEF BarInit, BarWaiting
  <1>2. bar_threshold \in Nat \ {0, 1} /\ bar_threshold > 0
    BY BarrierAssumption DEF BarInit
  <1>3. BarFields
    BY <1>2 DEF BarInit, BarFields, BarPlaces
  <1> QED
    BY <1>1, <1>2, <1>3, FS_EmptySet DEF BarInit, BarInv, BarChainUnbroken, BarEarlyIsDispersed

\* A signal leaves nobody asleep who was awake, and wakes one if any sleeps.
LEMMA BarSignal ==
    ASSUME bar_signal
    PROVE  /\ bar_asleep' \subseteq bar_asleep
           /\ bar_asleep # {} => bar_asleep \ bar_asleep' # {}
  BY DEF bar_signal

\* A thread that joins an open barrier.
LEMMA BarJoinStep ==
    ASSUME BarInv, NEW t \in BarThreads, bpc[t] # "waiting",
           is_ready_again, curr_wait_count + 1 # bar_threshold,
           curr_wait_count' = curr_wait_count + 1, bar_asleep' = bar_asleep \cup {t},
           bpc' = [bpc EXCEPT ![t] = "waiting"],
           UNCHANGED <<is_ready_again, bar_threshold, bar_dispersed, busy_asleep>>
    PROVE  BarInv' /\ BarWaiting' = BarWaiting \cup {t} /\ t \notin BarWaiting
  <1>1. BarWaiting' = BarWaiting \cup {t} /\ t \notin BarWaiting
    BY DEF BarInv, BarFields, BarWaiting
  <1>2. curr_wait_count' = Cardinality(BarWaiting') /\ curr_wait_count' < bar_threshold'
    BY <1>1, BarWaitingCount DEF BarInv, BarFields, BarChainUnbroken
  <1>3. BarFields'
    BY <1>1 DEF BarInv, BarFields, BarPlaces
  <1> QED
    BY <1>1, <1>2, <1>3 DEF BarInv, BarChainUnbroken, BarEarlyIsDispersed

\* The thread that completes a round.
LEMMA BarCompleteStep ==
    ASSUME BarInv, NEW t \in BarThreads, bpc[t] # "waiting",
           is_ready_again, curr_wait_count + 1 = bar_threshold,
           is_ready_again' = FALSE, bar_signal, bpc' = [bpc EXCEPT ![t] = "out"],
           UNCHANGED <<curr_wait_count, bar_threshold, bar_dispersed>>
    PROVE  BarInv' /\ BarWaiting' = BarWaiting /\ t \notin BarWaiting
  <1>1. BarWaiting' = BarWaiting /\ t \notin BarWaiting
    BY DEF BarInv, BarFields, BarWaiting
  <1>2. BarWaiting # {}
    <2>1. curr_wait_count = Cardinality(BarWaiting) /\ curr_wait_count # 0
      BY DEF BarInv, BarFields, BarChainUnbroken
    <2> QED
      BY <2>1, BarWaitingCount
  <1>3. bar_asleep' \subseteq bar_asleep /\ BarWaiting' \ bar_asleep' # {}
    BY <1>1, <1>2, BarSignal DEF BarInv, BarFields
  <1>4. BarFields'
    BY <1>1, <1>3 DEF BarInv, BarFields, BarPlaces
  <1>5. BarChainUnbroken'
    BY <1>1, <1>3 DEF BarInv, BarChainUnbroken
  <1> QED
    BY <1>1, <1>4, <1>5 DEF BarInv, BarEarlyIsDispersed

\* A waiter that leaves.
LEMMA BarLeaveStep ==
    ASSUME BarInv, NEW t \in BarThreads, bar_woken(t)
    PROVE  /\ BarInv'
           /\ BarWaiting' = BarWaiting \ {t} /\ t \in BarWaiting
           /\ is_ready_again => is_ready_again' /\ bar_dispersed
           /\ ~is_ready_again /\ is_ready_again' => BarWaiting' = {}
  <1>1. /\ bpc[t] = "waiting" /\ t \notin bar_asleep /\ bpc' = [bpc EXCEPT ![t] = "out"]
        /\ curr_wait_count' = curr_wait_count - 1
        /\ UNCHANGED <<bar_threshold, bar_dispersed>>
    BY DEF bar_woken, bar_clear
  <1>2. BarWaiting' = BarWaiting \ {t} /\ t \in BarWaiting
    BY <1>1 DEF BarInv, BarFields, BarWaiting
  <1>3. curr_wait_count' = Cardinality(BarWaiting') /\ curr_wait_count > 0
    <2>1. /\ curr_wait_count = Cardinality(BarWaiting) /\ curr_wait_count \in Nat
          /\ Cardinality(BarWaiting \ {t}) = Cardinality(BarWaiting) - 1
      BY <1>2, BarWaitingCount DEF BarInv, BarFields, BarChainUnbroken
    <2>2. Cardinality(BarWaiting) # 0
      BY <1>2, BarWaitingCount
    <2> QED
      BY <1>1, <1>2, <2>1, <2>2
  <1>4. curr_wait_count' \in Nat /\ curr_wait_count' < bar_threshold'
    BY <1>1, <1>3 DEF BarInv, BarFields, BarChainUnbroken
  <1>5. is_ready_again => bar_dispersed
    BY <1>1, <1>2 DEF BarInv, BarEarlyIsDispersed
  <1>6. CASE curr_wait_count = 1
    <2>1. is_ready_again' = TRUE /\ busy_asleep' = {} /\ bar_asleep' = bar_asleep
      BY <1>6 DEF bar_woken
    <2>2. BarWaiting' = {}
      <3>1. Cardinality(BarWaiting \ {t}) = 0
        BY <1>1, <1>2, <1>3, <1>6
      <3>2. BarWaiting \ {t} \in SUBSET BarThreads
        BY DEF BarWaiting
      <3> QED
        BY <1>2, <3>1, <3>2, CountOfSubset, BarrierAssumption
    <2>3. bar_asleep' \subseteq BarWaiting'
      BY <1>1, <1>2, <2>1 DEF BarInv, BarFields
    <2>4. BarFields'
      BY <1>1, <1>4, <2>1, <2>3 DEF BarInv, BarFields, BarPlaces
    <2> QED
      BY <1>2, <1>3, <1>4, <1>5, <2>1, <2>2, <2>4 DEF BarInv, BarChainUnbroken, BarEarlyIsDispersed
  <1>7. CASE curr_wait_count # 1
    <2>1. bar_signal /\ UNCHANGED <<is_ready_again, busy_asleep>>
      BY <1>7 DEF bar_woken
    <2>2. bar_asleep' \subseteq BarWaiting' /\ bar_asleep' \subseteq bar_asleep
      BY <1>1, <1>2, <2>1, BarSignal DEF BarInv, BarFields
    <2>3. BarWaiting' # {}
      <3>1. curr_wait_count' # 0
        BY <1>1, <1>3, <1>7 DEF BarInv, BarFields
      <3> QED
        BY <1>3, <3>1, FS_EmptySet
    <2>4. BarWaiting' \ bar_asleep' # {}
      <3>1. CASE bar_asleep = {}
        BY <2>2, <2>3, <3>1
      <3>2. CASE bar_asleep # {}
        BY <1>1, <1>2, <2>1, <3>2, BarSignal DEF BarInv, BarFields
      <3> QED
        BY <3>1, <3>2
    <2>5. BarFields'
      BY <1>1, <1>4, <2>1, <2>2 DEF BarInv, BarFields, BarPlaces
    <2>6. BarChainUnbroken'
      BY <1>3, <1>4, <2>1, <2>4 DEF BarInv, BarChainUnbroken
    <2> QED
      BY <1>1, <1>2, <1>5, <2>1, <2>5, <2>6 DEF BarInv, BarEarlyIsDispersed
  <1> QED
    BY <1>6, <1>7

\* A thread that has to wait until the round before has left.
LEMMA BarBusyStep ==
    ASSUME BarInv, NEW t \in BarThreads, bpc[t] # "waiting", ~is_ready_again,
           bpc' = [bpc EXCEPT ![t] = "busy"],
           UNCHANGED <<is_ready_again, curr_wait_count, bar_asleep, bar_threshold, bar_dispersed>>
    PROVE  BarInv' /\ BarWaiting' = BarWaiting
  <1>1. BarWaiting' = BarWaiting
    BY DEF BarInv, BarFields, BarWaiting
  <1>2. BarFields'
    BY <1>1 DEF BarInv, BarFields, BarPlaces
  <1> QED
    BY <1>1, <1>2 DEF BarInv, BarChainUnbroken, BarEarlyIsDispersed

----------------------------------------------------------------------------
\* The barrier as a meeting.

Gathered == IF is_ready_again THEN BarWaiting ELSE {}
Leaving == IF is_ready_again THEN {} ELSE BarWaiting

\* Both modules mean the same by the size of a set.
LEMMA BarSameCount == ASSUME NEW S PROVE BarMeeting!Cardinality(S) = Cardinality(S)
  BY DEF BarMeeting!Cardinality, Cardinality

\* A step of the meeting, or none.
BarMeets == BarMeeting!Next \/ UNCHANGED <<bar_threshold, Gathered, Leaving, bar_dispersed>>

\* A call of the barricade, or what follows the wait for the door.
LEMMA BarTryStep ==
    ASSUME BarInv, NEW t \in BarThreads, bpc[t] # "waiting", bar_try(t)
    PROVE  BarInv' /\ BarMeets
  <1>1. CASE is_ready_again /\ curr_wait_count + 1 = bar_threshold
    <2>1. /\ is_ready_again' = FALSE /\ bar_signal /\ bpc' = [bpc EXCEPT ![t] = "out"]
          /\ UNCHANGED <<curr_wait_count, bar_threshold, bar_dispersed>>
      BY <1>1 DEF bar_try, bar_gather, bar_clear
    <2>2. BarInv' /\ BarWaiting' = BarWaiting /\ t \notin BarWaiting
      BY <1>1, <2>1, BarCompleteStep
    <2>3. BarMeeting!Complete(t)
      <3>1. BarMeeting!Cardinality(Gathered) + 1 = bar_threshold
        BY <1>1, BarSameCount DEF Gathered, BarInv, BarChainUnbroken
      <3> QED
        BY <1>1, <2>1, <2>2, <3>1 DEF BarMeeting!Complete, Gathered
    <2> QED
      BY <2>2, <2>3 DEF BarMeets, BarMeeting!Next
  <1>2. CASE is_ready_again /\ curr_wait_count + 1 # bar_threshold
    <2>1. /\ curr_wait_count' = curr_wait_count + 1 /\ bar_asleep' = bar_asleep \cup {t}
          /\ bpc' = [bpc EXCEPT ![t] = "waiting"]
          /\ UNCHANGED <<is_ready_again, bar_threshold, bar_dispersed, busy_asleep>>
      BY <1>2 DEF bar_try, bar_gather
    <2>2. BarInv' /\ BarWaiting' = BarWaiting \cup {t} /\ t \notin BarWaiting
      BY <1>2, <2>1, BarJoinStep
    <2>3. BarMeeting!Join(t)
      <3>1. BarMeeting!Cardinality(Gathered) + 1 < bar_threshold
        BY <1>2, BarSameCount DEF Gathered, BarInv, BarChainUnbroken, BarFields
      <3> QED
        BY <1>2, <2>1, <2>2, <3>1 DEF BarMeeting!Join, Gathered
    <2> QED
      BY <2>2, <2>3 DEF BarMeets, BarMeeting!Next
  <1>3. CASE ~is_ready_again
    <2>1. /\ bpc' = [bpc EXCEPT ![t] = "busy"]
          /\ UNCHANGED <<is_ready_again, curr_wait_count, bar_asleep, bar_threshold, bar_dispersed>>
      BY <1>3 DEF bar_try, bar_gather
    <2>2. BarInv' /\ BarWaiting' = BarWaiting
      BY <1>3, <2>1, BarBusyStep
    <2> QED
      BY <2>1, <2>2 DEF BarMeets, Gathered, Leaving
  <1> QED
    BY <1>1, <1>2, <1>3

\* The dispersal starts: nobody moves, and the meeting sees it begin.
LEMMA BarSignalAllStep ==
    ASSUME BarInv, thread_barrier_signal_all PROVE BarInv' /\ BarMeets
  <1>1. /\ is_ready_again /\ bar_signal /\ bar_dispersed' = TRUE
        /\ UNCHANGED <<bar_threshold, curr_wait_count, is_ready_again, busy_asleep, bpc>>
    BY DEF thread_barrier_signal_all
  <1>2. BarWaiting' = BarWaiting /\ bar_asleep' \subseteq bar_asleep
    BY <1>1, BarSignal DEF BarWaiting
  <1>3. BarInv'
    BY <1>1, <1>2 DEF BarInv, BarFields, BarChainUnbroken, BarEarlyIsDispersed
  <1>4. BarMeeting!Disperse
    BY <1>1, <1>2 DEF BarMeeting!Disperse
  <1> QED
    BY <1>3, <1>4 DEF BarMeets, BarMeeting!Next

\* A spurious wake-up moves nobody.
LEMMA BarSpuriousStep ==
    ASSUME BarInv, NEW t \in BarThreads, bar_spurious_wakeup(t) PROVE BarInv' /\ BarMeets
  <1>1. /\ UNCHANGED <<bar_threshold, curr_wait_count, is_ready_again, bpc>>
        /\ bar_asleep' \subseteq bar_asleep
        /\ is_ready_again => busy_asleep' = busy_asleep
        /\ \/ bar_dispersed' = (bar_dispersed \/ is_ready_again)
           \/ bar_dispersed' = bar_dispersed /\ bar_asleep' = bar_asleep
    BY DEF bar_spurious_wakeup, BarInv, BarChainUnbroken
  <1>2. BarWaiting' = BarWaiting
    BY <1>1 DEF BarWaiting
  <1>3. BarInv'
    BY <1>1, <1>2 DEF BarInv, BarFields, BarChainUnbroken, BarEarlyIsDispersed
  <1>4. BarMeets
    <2>1. CASE bar_dispersed' = (bar_dispersed \/ is_ready_again) /\ is_ready_again
      BY <1>1, <1>2, <2>1 DEF BarMeets, BarMeeting!Next, BarMeeting!Disperse
    <2>2. CASE bar_dispersed' = (bar_dispersed \/ is_ready_again) /\ ~is_ready_again
      <3>1. bar_dispersed' = bar_dispersed
        BY <2>2 DEF BarInv, BarFields
      <3> QED
        BY <1>1, <1>2, <2>2, <3>1 DEF BarMeets, Gathered, Leaving
    <2>3. CASE bar_dispersed' = bar_dispersed
      BY <1>1, <1>2, <2>3 DEF BarMeets, Gathered, Leaving
    <2> QED
      BY <1>1, <2>1, <2>2, <2>3
  <1> QED
    BY <1>3, <1>4

\* A waiter that goes on leaves the meeting, one that sleeps on is not seen by it.
LEMMA BarWokenMeets ==
    ASSUME BarInv, NEW t \in BarThreads, bar_woken(t) PROVE BarInv' /\ BarMeets
  <1>1. /\ BarInv' /\ BarWaiting' = BarWaiting \ {t} /\ t \in BarWaiting
        /\ is_ready_again => is_ready_again' /\ bar_dispersed
        /\ ~is_ready_again /\ is_ready_again' => BarWaiting' = {}
    BY BarLeaveStep
  <1>2. UNCHANGED <<bar_threshold, bar_dispersed>>
    BY DEF bar_woken
  <1>3. CASE is_ready_again
    BY <1>1, <1>2, <1>3 DEF BarMeets, BarMeeting!Next, BarMeeting!LeaveEarly
  <1>4. CASE ~is_ready_again
    BY <1>1, <1>2, <1>4 DEF BarMeets, BarMeeting!Next, BarMeeting!Leave
  <1> QED
    BY <1>1, <1>3, <1>4

\* Every step keeps the invariant and is a step of the meeting, or invisible.
LEMMA BarStep == BarInv /\ [BarNext]_barVars => BarInv' /\ BarMeets
  <1> SUFFICES ASSUME BarInv, [BarNext]_barVars PROVE BarInv' /\ BarMeets
    OBVIOUS
  <1>1. ASSUME NEW t \in BarThreads, thread_barrier_barricade(t) \/ bar_busy_woken(t)
        PROVE  BarInv' /\ BarMeets
    BY <1>1, BarTryStep DEF thread_barrier_barricade, bar_busy_woken
  <1>2. CASE UNCHANGED barVars
    <2>1. BarWaiting' = BarWaiting
      BY <1>2 DEF barVars, BarWaiting
    <2> QED
      BY <1>2, <2>1 DEF barVars, BarInv, BarFields, BarChainUnbroken, BarEarlyIsDispersed,
                        BarMeets, Gathered, Leaving
  <1> QED
    BY <1>1, <1>2, BarSignalAllStep, BarSpuriousStep, BarWokenMeets DEF BarNext

\* As long as the barrier is closed one of its waiters is awake, the count is
\* the number of waiters and less than the threshold, and nobody sleeps at an
\* open door.
THEOREM BarChainHolds == BarSpec => []BarChainUnbroken
  <1>1. BarInv => BarChainUnbroken
    BY DEF BarInv
  <1> QED
    BY <1>1, BarInvInit, BarStep, PTL DEF BarSpec

\* The barrier implements the meeting: threshold threads leave together, the
\* next ones gather when they are out, and only a dispersed round leaves early.
THEOREM BarRefinesMeeting == BarSpec => BarImplementsMeeting
  <1>1. BarInit => BarMeeting!Init
    <2> SUFFICES ASSUME BarInit PROVE BarMeeting!Init
      OBVIOUS
    <2>1. BarWaiting = {} /\ bar_threshold \in Nat
      BY BarrierAssumption DEF BarInit, BarWaiting
    <2> QED
      BY <2>1 DEF BarInit, BarMeeting!Init
  <1>2. BarMeets => [BarMeeting!Next]_(BarMeeting!meetingVars)
    BY DEF BarMeets, BarMeeting!meetingVars, Gathered, Leaving
  <1> QED
    BY <1>1, <1>2, BarInvInit, BarStep, PTL DEF BarSpec, BarImplementsMeeting, BarMeeting!Spec
=============================================================================
