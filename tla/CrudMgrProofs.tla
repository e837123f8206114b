---------------------------- MODULE CrudMgrProofs ----------------------------
(***************************************************************************)
(* The thread-safe CRUD manager, for any number of clients, nodes and      *)
(* requests: the books of a node are in order whenever nobody is in the    *)
(* middle of changing them, a writer is alone with its node, and in the    *)
(* whole manager one thread at a time creates or deletes.  All three come  *)
(* from one inductive invariant, which tells what each client at each      *)
(* place has done to the books and which mutex it has in its hands.        *)
(***************************************************************************)
EXTENDS CrudMgr, CountingProofs, SequenceTheorems

Build == {"create_in_progress", "delete_in_progress"}

\* The states whose flags are changed with the node's mutex held.
UnderNode == {"read_in_progress", "write_in_progress",
              "pending_read", "pending_write", "pending_delete"}

\* What a client can be in the middle of entering, and where it goes then.
Entries(t) ==
    CASE t \in CmReaders -> {<<"pending_read", "rdrs_cv">>, <<"read_in_progress", "working">>}
      [] t \in CmWriters -> {<<"pending_write", "writers_cv">>, <<"write_in_progress", "working">>}
      [] t \in CmDeleters -> {<<"pending_delete", "delete_thread_cv">>, <<"pending_delete", "rdrs_cv">>,
                              <<"pending_delete", "to_mgr">>, <<"delete_in_progress", "working">>}
      [] t \in CmCreators -> {<<"pending_create", "create_thread_cv">>,
                              <<"create_in_progress", "working">>}

\* The same for a state it leaves.
Exits(t) ==
    CASE t \in CmReaders -> {<<"pending_read", "deciding">>, <<"read_in_progress", "signalling">>}
      [] t \in CmWriters -> {<<"pending_write", "deciding">>, <<"write_in_progress", "signalling">>}
      [] t \in CmDeleters -> {<<"pending_delete", "deciding">>, <<"pending_delete", "claimed">>,
                              <<"delete_in_progress", "signalling">>}
      [] t \in CmCreators -> {<<"pending_create", "claim">>, <<"create_in_progress", "signalling">>}

PlacesOf(t) ==
    CASE t \in CmReaders -> {"asking", "deciding", "rdrs_cv", "woken",
                             "working", "releasing", "signalling"}
      [] t \in CmWriters -> {"asking", "deciding", "writers_cv", "woken",
                             "working", "releasing", "signalling"}
      [] t \in CmDeleters -> {"asking", "deciding", "delete_thread_cv", "rdrs_cv", "woken",
                              "to_mgr", "claim", "delete_thread_cv_mgr", "woken_mgr", "claimed",
                              "working", "releasing", "signalling", "announcing"}
      [] t \in CmCreators -> {"to_mgr", "claim", "create_thread_cv", "woken_mgr",
                              "working", "releasing", "signalling", "announcing"}

CmPlaces == {"idle", "entering", "leaving", "asking", "deciding", "rdrs_cv", "writers_cv",
             "delete_thread_cv", "delete_thread_cv_mgr", "create_thread_cv", "woken", "woken_mgr",
             "working", "releasing", "signalling", "to_mgr", "claim", "claimed", "announcing"}
CmRecords == [place : CmPlaces, node : CmNodes \cup {NoNode},
              aim : CmStates \cup {"none"}, next : CmPlaces \cup {"none"}]

Entering(t, n, s) == CmIs(t, "entering") /\ CmNode(t) = n /\ cmAt[t].aim = s
Leaving(t, n, s) == CmIs(t, "leaving") /\ CmNode(t) = n /\ cmAt[t].aim = s
Listed(n, s) == Contains(cmLists[s], n)

\* A client that asked for a node is at a place of its own part.
CmClientOK(t) ==
    \/ CmIs(t, "idle")
    \/ /\ CmNode(t) \in CmNodes
       /\ \/ cmAt[t].place \in PlacesOf(t) /\ (CmIs(t, "releasing") => cmAt[t].aim = CmRole(t))
          \/ CmIs(t, "entering") /\ <<cmAt[t].aim, cmAt[t].next>> \in Entries(t)
          \/ CmIs(t, "leaving") /\ <<cmAt[t].aim, cmAt[t].next>> \in Exits(t)

CmTypeOK ==
    /\ cmStatus \in [CmNodes -> SUBSET CmStates]
    /\ cmCounter \in [CmNodes -> [CmStates -> Nat]]
    /\ cmLists \in [CmStates -> Seq(CmNodes)]
    /\ cmMutex \in [CmNodes -> CmClients \cup {NoClient}]
    /\ cmMgr \in CmClients \cup {NoClient}
    /\ cmAt \in [CmClients -> CmRecords]
    /\ cmEnrolled \in SUBSET CmNodes /\ cmAborted \in BOOLEAN
    /\ \A t \in CmClients : CmClientOK(t)

\* Who has which mutex in its hands, as long as no assertion failed.
UsesNode(t) == \/ cmAt[t].place \in HoldsNode
               \/ CmIs(t, "entering") /\ cmAt[t].aim \in UnderNode
               \/ CmIs(t, "leaving") /\ cmAt[t].next \in HoldsNode
UsesMgr(t) == \/ cmAt[t].place \in HoldsMgr
              \/ CmIs(t, "entering") /\ cmAt[t].aim \notin UnderNode
              \/ CmIs(t, "leaving") /\ cmAt[t].next \in HoldsMgr

CmMutexes == \A t \in CmClients : /\ UsesNode(t) => cmMutex[CmNode(t)] = t
                                  /\ UsesMgr(t) => cmMgr = t

\* Half way into a state only the flag says so, half way out of it only the list,
\* and one client at a time is half way into or out of a state.
CmHalfWay ==
    /\ \A t, u \in CmClients, n \in CmNodes, s \in CmStates :
          /\ Entering(t, n, s) /\ Entering(u, n, s) => t = u
          /\ Leaving(t, n, s) /\ Leaving(u, n, s) => t = u
    /\ \A t \in CmClients, n \in CmNodes, s \in CmStates :
          /\ Entering(t, n, s) => s \in cmStatus[n] /\ cmCounter[n][s] = 0 /\ ~Listed(n, s)
          /\ Leaving(t, n, s) => s \notin cmStatus[n] /\ cmCounter[n][s] = 0 /\ Listed(n, s)

\* The books agree on every state that nobody is half way into or out of.
CmSettled ==
    \A n \in CmNodes, s \in CmStates :
       Present(n, s) \/ Absent(n, s) \/ \E t \in CmClients : Entering(t, n, s) \/ Leaving(t, n, s)

\* A node is in a list once.
CmListedOnce == \A s \in CmStates : IsInjective(cmLists[s])

\* A counter of a state in progress counts who was granted the node in it.
CmGrantedCounted ==
    \A n \in CmNodes, s \in CmInProgress :
       /\ cmCounter[n][s] = Cardinality(Granted(n, s))
       /\ s \in EnteredOnce => cmCounter[n][s] <= 1

\* A deleter is counted as pending from its first wait or from the first half
\* of the deletion on, and once more while it waits for the manager.
CountedOnce(n) == {t \in CmDeleters : CmNode(t) = n /\ cmAt[t].place \in
                     {"delete_thread_cv", "rdrs_cv", "woken", "to_mgr", "claim",
                      "delete_thread_cv_mgr", "woken_mgr"}}
CountedTwice(n) == {t \in CmDeleters : CmNode(t) = n /\ cmAt[t].place \in
                     {"delete_thread_cv_mgr", "woken_mgr"}}
CmDeletersCounted ==
    \A n \in CmNodes : cmCounter[n]["pending_delete"]
                        = Cardinality(CountedOnce(n)) + Cardinality(CountedTwice(n))

\* A node without operation is in no other state, but one being entered.
CmNoOpAlone ==
    \A n \in CmNodes : \A s \in cmStatus[n] \ {"no_op"} :
       "no_op" \in cmStatus[n] => \E t \in CmClients : Entering(t, n, s)

CmReadOrWrite ==
    \A n \in CmNodes : ~({"read_in_progress", "write_in_progress"} \subseteq cmStatus[n])

\* One node at most is listed as being created or deleted, and none while a
\* client that found the lists empty goes on.
PastTheTest(t) == \/ CmIs(t, "claimed")
                  \/ CmIs(t, "entering") /\ cmAt[t].aim \in Build
                  \/ CmIs(t, "leaving") /\ cmAt[t].next = "claimed"
CmOneListed ==
    /\ \A n, m \in CmNodes : \A s, r \in Build :
          Listed(n, s) /\ Listed(m, r) => n = m /\ s = r
    /\ \A t \in CmClients : PastTheTest(t) => ~SomebodyCreatesOrDeletes

CmBooks == /\ CmHalfWay /\ CmSettled /\ CmListedOnce
           /\ CmGrantedCounted /\ CmDeletersCounted
           /\ CmNoOpAlone /\ CmReadOrWrite /\ CmOneListed

CmInv == CmTypeOK /\ (cmAborted \/ CmMutexes) /\ CmBooks

-----------------------------------------------------------------------------
\* Taking a node out of a list that has it once takes nothing else out.
LEMMA ListWithout ==
  ASSUME NEW T, NEW q \in Seq(T), IsInjective(q), NEW n
  PROVE  /\ remove_glthread(q, n) \in Seq(T)
         /\ IsInjective(remove_glthread(q, n))
         /\ \A m : Contains(remove_glthread(q, n), m) <=> Contains(q, m) /\ m # n
<1>1. CASE ~Contains(q, n)
  BY <1>1 DEF remove_glthread
<1>2. CASE Contains(q, n)
  <2> DEFINE k == CHOOSE i \in 1..Len(q) : q[i] = n
             p == RemoveAt(q, k)
  <2>1. k \in 1..Len(q) /\ q[k] = n
    BY <1>2 DEF Contains
  <2>2. remove_glthread(q, n) = p
    BY <1>2 DEF remove_glthread
  <2> HIDE DEF k
  <2> DEFINE a == SubSeq(q, 1, k - 1)
             b == SubSeq(q, k + 1, Len(q))
  <2>a. /\ a \in Seq(T) /\ Len(a) = k - 1
        /\ \A i \in 1..(k - 1) : a[i] = q[i]
    BY <2>1, SubSeqProperties
  <2>b. /\ b \in Seq(T) /\ Len(b) = Len(q) - k
        /\ \A i \in 1..(Len(q) - k) : b[i] = q[k + i]
    BY <2>1, SubSeqProperties
  <2>p. p = a \o b
    BY DEF RemoveAt
  <2> HIDE DEF a, b, p
  <2>c. /\ a \o b \in Seq(T)
        /\ Len(a \o b) = Len(a) + Len(b)
        /\ \A i \in 1 .. Len(a) + Len(b) : (a \o b)[i] =
                     IF i <= Len(a) THEN a[i] ELSE b[i - Len(a)]
    BY <2>a, <2>b, ConcatProperties, Zenon
  <2>l. Len(q) \in Nat
    OBVIOUS
  <2>3. p \in Seq(T) /\ Len(p) = Len(q) - 1
    BY <2>1, <2>a, <2>b, <2>c, <2>l, <2>p
  <2>4. \A i \in 1..Len(p) : p[i] = IF i < k THEN q[i] ELSE q[i + 1]
    <3> SUFFICES ASSUME NEW i \in 1..Len(p) PROVE p[i] = IF i < k THEN q[i] ELSE q[i + 1]
      OBVIOUS
    <3>1. p[i] = IF i <= k - 1 THEN a[i] ELSE b[i - (k - 1)]
      BY <2>1, <2>a, <2>b, <2>c, <2>l, <2>p, <2>3
    <3>2. CASE i < k
      BY <3>1, <3>2, <2>1, <2>l, <2>a
    <3>3. CASE ~(i < k)
      <4>1. i - (k - 1) \in 1..(Len(q) - k) /\ k + (i - (k - 1)) = i + 1
        BY <3>3, <2>1, <2>l, <2>3
      <4> QED
        BY <3>1, <3>3, <4>1, <2>1, <2>l, <2>b
    <3> QED
      BY <3>2, <3>3
  <2>5. IsInjective(p)
    <3>1. SUFFICES ASSUME NEW i \in 1..Len(p), NEW j \in 1..Len(p), p[i] = p[j]
                   PROVE  i = j
      BY <2>3 DEF IsInjective
    <3> DEFINE u(x) == IF x < k THEN x ELSE x + 1
    <3>2. u(i) \in 1..Len(q) /\ u(j) \in 1..Len(q) /\ q[u(i)] = q[u(j)]
      BY <3>1, <2>1, <2>3, <2>4, <2>l
    <3>3. u(i) = u(j)
      BY <3>2 DEF IsInjective
    <3> QED
      BY <3>3, <2>1, <2>3, <2>l
  <2>6. ASSUME NEW m PROVE Contains(p, m) <=> Contains(q, m) /\ m # n
    <3>1. ASSUME Contains(p, m) PROVE Contains(q, m) /\ m # n
      <4>1. PICK i \in 1..Len(p) : p[i] = m
        BY <3>1 DEF Contains
      <4>2. CASE i < k
        <5>1. i \in 1..Len(q) /\ q[i] = m /\ i # k
          BY <4>1, <4>2, <2>1, <2>3, <2>4
        <5> QED
          BY <5>1, <2>1 DEF Contains, IsInjective
      <4>3. CASE ~(i < k)
        <5>1. i + 1 \in 1..Len(q) /\ q[i + 1] = m /\ i + 1 # k
          BY <4>1, <4>3, <2>1, <2>3, <2>4
        <5> QED
          BY <5>1, <2>1 DEF Contains, IsInjective
      <4> QED
        BY <4>2, <4>3
    <3>2. ASSUME Contains(q, m), m # n PROVE Contains(p, m)
      <4>1. PICK j \in 1..Len(q) : q[j] = m
        BY <3>2 DEF Contains
      <4>2. CASE j < k
        <5>1. j \in 1..Len(p) /\ p[j] = m
          BY <4>1, <4>2, <2>1, <2>3, <2>4
        <5> QED
          BY <5>1 DEF Contains
      <4>3. CASE ~(j < k)
        <5>1. j # k
          BY <4>1, <3>2, <2>1
        <5>2. j - 1 \in 1..Len(p) /\ p[j - 1] = m
          BY <4>1, <4>3, <5>1, <2>1, <2>3, <2>4
        <5> QED
          BY <5>2 DEF Contains
      <4> QED
        BY <4>2, <4>3
    <3> QED
      BY <3>1, <3>2
  <2> QED
    BY <2>2, <2>3, <2>5, <2>6
<1> QED
  BY <1>1, <1>2

\* Putting a node that is not there in front.
LEMMA ListWith ==
  ASSUME NEW T, NEW q \in Seq(T), IsInjective(q), NEW n \in T, ~Contains(q, n)
  PROVE  /\ <<n>> \o q \in Seq(T) /\ IsInjective(<<n>> \o q)
         /\ \A m : Contains(<<n>> \o q, m) <=> m = n \/ Contains(q, m)
<1> DEFINE p == <<n>> \o q
<1>1. p \in Seq(T) /\ Len(p) = Len(q) + 1 /\ p[1] = n
  OBVIOUS
<1>2. \A i \in 1..Len(q) : p[i + 1] = q[i]
  OBVIOUS
<1>3. \A i \in 1..Len(p) : i = 1 \/ (i - 1 \in 1..Len(q) /\ p[i] = q[i - 1])
  BY <1>1, <1>2
<1> HIDE DEF p
<1>4. IsInjective(p)
  <2>1. \A i \in 1..Len(p) : i # 1 => p[i] # n
    BY <1>3 DEF Contains
  <2>2. \A i, j \in 1..Len(p) : i # 1 /\ j # 1 /\ p[i] = p[j] => i = j
    BY <1>1, <1>3 DEF IsInjective
  <2> QED
    BY <2>1, <2>2, <1>1 DEF IsInjective
<1>5. ASSUME NEW m PROVE Contains(p, m) <=> m = n \/ Contains(q, m)
  <2>1. Contains(p, m) => m = n \/ Contains(q, m)
    BY <1>1, <1>3 DEF Contains
  <2>2. m = n => Contains(p, m)
    BY <1>1 DEF Contains
  <2>3. ASSUME NEW j \in 1..Len(q), q[j] = m PROVE Contains(p, m)
    <3>1. j + 1 \in 1..Len(p) /\ p[j + 1] = m
      BY <1>1, <1>2, <2>3
    <3> QED
      BY <3>1 DEF Contains
  <2> QED
    BY <2>1, <2>2, <2>3 DEF Contains
<1> QED
  BY <1>1, <1>4, <1>5 DEF p

\* The list of the students enrolled from the start.
LEMMA StudentsListed ==
  /\ SetToSeq(CmStudents) \in Seq(CmNodes) /\ IsInjective(SetToSeq(CmStudents))
  /\ \A m : Contains(SetToSeq(CmStudents), m) <=> m \in CmStudents
<1> DEFINE k == Cardinality(CmStudents)
           f == SetToSeq(CmStudents)
<1>1. k \in Nat /\ ExistsBijection(1..k, CmStudents)
  BY FS_CardinalityType, CrudMgrAssumption
<1>2. \E g \in [1..k -> CmStudents] : IsInjective(g)
  BY <1>1 DEF ExistsBijection, Bijection, Injection
<1>3. f \in [1..k -> CmStudents] /\ IsInjective(f)
  BY <1>2 DEF SetToSeq
<1>4. f \in Seq(CmStudents) /\ Len(f) = k
  BY <1>1, <1>3
<1>5. ASSUME NEW m \in CmStudents PROVE \E i \in 1..k : f[i] = m
  <2>1. IsFiniteSet(1..k) /\ Cardinality(1..k) = k
    BY <1>1, FS_Interval
  <2>2. f \in Surjection(1..k, CmStudents)
    BY <1>3, <2>1, CrudMgrAssumption, FS_Injection, <1>1
       DEF Injection
  <2> QED
    BY <2>2 DEF Surjection
<1> QED
  BY <1>3, <1>4, <1>5 DEF Contains, CmNodes

-----------------------------------------------------------------------------
\* What the part of a client says about it.
LEMMA Parts ==
  ASSUME NEW t \in CmClients
  PROVE  \/ /\ t \in CmReaders /\ t \notin CmWriters /\ t \notin CmDeleters /\ t \notin CmCreators
            /\ CmRole(t) = "read_in_progress" /\ PendingOf(t) = "pending_read"
            /\ Entries(t) = {<<"pending_read", "rdrs_cv">>, <<"read_in_progress", "working">>}
            /\ Exits(t) = {<<"pending_read", "deciding">>, <<"read_in_progress", "signalling">>}
            /\ PlacesOf(t) = {"asking", "deciding", "rdrs_cv", "woken",
                              "working", "releasing", "signalling"}
         \/ /\ t \notin CmReaders /\ t \in CmWriters /\ t \notin CmDeleters /\ t \notin CmCreators
            /\ CmRole(t) = "write_in_progress" /\ PendingOf(t) = "pending_write"
            /\ Entries(t) = {<<"pending_write", "writers_cv">>, <<"write_in_progress", "working">>}
            /\ Exits(t) = {<<"pending_write", "deciding">>, <<"write_in_progress", "signalling">>}
            /\ PlacesOf(t) = {"asking", "deciding", "writers_cv", "woken",
                              "working", "releasing", "signalling"}
         \/ /\ t \notin CmReaders /\ t \notin CmWriters /\ t \in CmDeleters /\ t \notin CmCreators
            /\ CmRole(t) = "delete_in_progress" /\ PendingOf(t) = "pending_delete"
            /\ Entries(t) = {<<"pending_delete", "delete_thread_cv">>, <<"pending_delete", "rdrs_cv">>,
                             <<"pending_delete", "to_mgr">>, <<"delete_in_progress", "working">>}
            /\ Exits(t) = {<<"pending_delete", "deciding">>, <<"pending_delete", "claimed">>,
                           <<"delete_in_progress", "signalling">>}
            /\ PlacesOf(t) = {"asking", "deciding", "delete_thread_cv", "rdrs_cv", "woken",
                              "to_mgr", "claim", "delete_thread_cv_mgr", "woken_mgr", "claimed",
                              "working", "releasing", "signalling", "announcing"}
         \/ /\ t \notin CmReaders /\ t \notin CmWriters /\ t \notin CmDeleters /\ t \in CmCreators
            /\ CmRole(t) = "create_in_progress" /\ PendingOf(t) = "pending_create"
            /\ Entries(t) = {<<"pending_create", "create_thread_cv">>,
                             <<"create_in_progress", "working">>}
            /\ Exits(t) = {<<"pending_create", "claim">>, <<"create_in_progress", "signalling">>}
            /\ PlacesOf(t) = {"to_mgr", "claim", "create_thread_cv", "woken_mgr",
                              "working", "releasing", "signalling", "announcing"}
<1>1. \/ t \in CmReaders /\ t \notin CmWriters /\ t \notin CmDeleters /\ t \notin CmCreators
      \/ t \notin CmReaders /\ t \in CmWriters /\ t \notin CmDeleters /\ t \notin CmCreators
      \/ t \notin CmReaders /\ t \notin CmWriters /\ t \in CmDeleters /\ t \notin CmCreators
      \/ t \notin CmReaders /\ t \notin CmWriters /\ t \notin CmDeleters /\ t \in CmCreators
  BY CrudMgrAssumption DEF CmClients
<1> QED
  BY <1>1 DEF CmRole, PendingOf, Entries, Exits, PlacesOf

\* Before anybody asks, the students have no operation and nobody holds a mutex.
LEMMA CmInvInit == CmInit => CmInv
<1> SUFFICES ASSUME CmInit PROVE CmInv
  OBVIOUS
<1> USE DEF CmInit
<1>1. \A t \in CmClients : CmIs(t, "idle")
  BY DEF CmIs
<1>2. \A s \in CmStates : /\ cmLists[s] \in Seq(CmNodes) /\ IsInjective(cmLists[s])
                          /\ \A n : Listed(n, s) <=> s = "no_op" /\ n \in CmStudents
  <2> SUFFICES ASSUME NEW s \in CmStates
               PROVE  /\ cmLists[s] \in Seq(CmNodes) /\ IsInjective(cmLists[s])
                      /\ \A n : Listed(n, s) <=> s = "no_op" /\ n \in CmStudents
    OBVIOUS
  <2>1. CASE s = "no_op"
    BY <2>1, StudentsListed DEF Listed
  <2>2. CASE s # "no_op"
    <3>1. cmLists[s] = <<>>
      BY <2>2
    <3> QED
      BY <2>2, <3>1 DEF Listed, Contains, IsInjective
  <2> QED
    BY <2>1, <2>2
<1>3. CmTypeOK
  <2>1. \A t \in CmClients : CmClientOK(t)
    BY <1>1 DEF CmClientOK
  <2>2. cmLists \in [CmStates -> Seq(CmNodes)]
    BY <1>2
  <2>3. cmStatus \in [CmNodes -> SUBSET CmStates]
    BY DEF CmStates
  <2>4. cmCounter \in [CmNodes -> [CmStates -> Nat]]
    OBVIOUS
  <2>5. /\ cmMutex \in [CmNodes -> CmClients \cup {NoClient}]
        /\ cmMgr \in CmClients \cup {NoClient} /\ cmAborted \in BOOLEAN
        /\ cmEnrolled \in SUBSET CmNodes
    BY DEF CmNodes
  <2>6. cmAt \in [CmClients -> CmRecords]
    <3>1. [place |-> "idle", node |-> NoNode, aim |-> "none", next |-> "none"]
             \in CmRecords
      BY DEF CmRecords, CmPlaces
    <3> QED
      BY <3>1, Zenon
  <2> QED
    BY <2>1, <2>2, <2>3, <2>4, <2>5, <2>6 DEF CmTypeOK
<1>4. CmMutexes
  BY <1>1 DEF CmMutexes, UsesNode, UsesMgr, CmIs, HoldsNode, HoldsMgr
<1>5. CmHalfWay
  BY <1>1 DEF CmHalfWay, Entering, Leaving, CmIs
<1>6. CmSettled
  BY <1>2, CrudMgrAssumption DEF CmSettled, Present, Absent, Listed
<1>7. CmListedOnce
  BY <1>2 DEF CmListedOnce
<1>8. CmGrantedCounted
  <2>1. \A n, s : Granted(n, s) = {}
    BY <1>1 DEF Granted, CmIs
  <2>2. \A n \in CmNodes, s \in CmInProgress : cmCounter[n][s] = 0
    BY DEF CmInProgress, CmStates
  <2>3. Cardinality({}) = 0
    BY FS_EmptySet
  <2> QED
    BY ONLY <2>1, <2>2, <2>3 DEF CmGrantedCounted
<1>9. CmDeletersCounted
  <2>1. \A n : CountedOnce(n) = {} /\ CountedTwice(n) = {}
    BY <1>1 DEF CountedOnce, CountedTwice, CmIs, CmClients
  <2>2. \A n \in CmNodes : cmCounter[n]["pending_delete"] = 0
    BY DEF CmPending, CmStates
  <2>3. Cardinality({}) = 0
    BY FS_EmptySet
  <2> QED
    BY ONLY <2>1, <2>2, <2>3 DEF CmDeletersCounted
<1>10. CmNoOpAlone /\ CmReadOrWrite
  BY DEF CmNoOpAlone, CmReadOrWrite
<1>11. CmOneListed
  <2>1. \A s \in Build : s # "no_op" /\ s \in CmStates
    BY DEF Build, CmStates, CmInProgress
  <2>2. \A t \in CmClients : ~PastTheTest(t)
    BY <1>1 DEF PastTheTest, CmIs
  <2> QED
    BY <1>2, <2>1, <2>2 DEF CmOneListed
<1> QED
  BY <1>3, <1>4, <1>5, <1>6, <1>7, <1>8, <1>9, <1>10, <1>11 DEF CmInv, CmBooks

-----------------------------------------------------------------------------
\* One client moves; the others stay where they are, but those it wakes.
AsleepAt == {"rdrs_cv", "writers_cv", "delete_thread_cv", "delete_thread_cv_mgr", "create_thread_cv"}
Wakes(u) == /\ cmAt[u].place \in AsleepAt
            /\ cmAt'[u] = [cmAt[u] EXCEPT !.place = WokenPlace(@)]
Moves(t) == /\ cmAt' \in [CmClients -> CmRecords]
            /\ \A u \in CmClients \ {t} : cmAt'[u] = cmAt[u] \/ Wakes(u)

\* A client that is woken keeps its node, and was and is at a wait.
LEMMA WokenMoves ==
  ASSUME CmTypeOK, NEW u \in CmClients, Wakes(u)
  PROVE  /\ cmAt'[u].node = cmAt[u].node /\ cmAt'[u].node \in CmNodes
         /\ cmAt'[u].place \in {"woken", "woken_mgr"}
         /\ cmAt'[u].place \in PlacesOf(u)
         /\ u \in CmDeleters =>
               \/ cmAt[u].place \in {"rdrs_cv", "delete_thread_cv"} /\ cmAt'[u].place = "woken"
               \/ cmAt[u].place = "delete_thread_cv_mgr" /\ cmAt'[u].place = "woken_mgr"
<1>1. cmAt[u] \in CmRecords /\ CmClientOK(u)
  BY DEF CmTypeOK
<1>2. cmAt[u].node \in CmNodes /\ cmAt[u].place \in PlacesOf(u)
  BY <1>1 DEF Wakes, AsleepAt, CmClientOK, CmIs, CmNode
<1>3. cmAt'[u].node = cmAt[u].node /\ cmAt'[u].place = WokenPlace(cmAt[u].place)
  BY <1>1 DEF Wakes, CmRecords
<1> QED
  BY <1>2, <1>3, Parts DEF Wakes, AsleepAt, WokenPlace

\* Which sets the mover enters and leaves.
LEMMA OneMoves ==
  ASSUME CmTypeOK, NEW t \in CmClients, Moves(t)
  PROVE  /\ \A u \in CmClients \ {t} : \A n, s :
              /\ Entering(u, n, s)' <=> Entering(u, n, s)
              /\ Leaving(u, n, s)' <=> Leaving(u, n, s)
         /\ \A u \in CmClients \ {t} : PastTheTest(u)' <=> PastTheTest(u)
         /\ \A n, s : Granted(n, s)' =
               IF cmAt'[t].node = n /\ CmRole(t) = s /\ cmAt'[t].place \in {"working", "releasing"}
               THEN Granted(n, s) \cup {t} ELSE Granted(n, s) \ {t}
         /\ \A n : CountedOnce(n)' =
               IF t \in CmDeleters /\ cmAt'[t].node = n /\ cmAt'[t].place \in
                     {"delete_thread_cv", "rdrs_cv", "woken", "to_mgr", "claim",
                      "delete_thread_cv_mgr", "woken_mgr"}
               THEN CountedOnce(n) \cup {t} ELSE CountedOnce(n) \ {t}
         /\ \A n : CountedTwice(n)' =
               IF t \in CmDeleters /\ cmAt'[t].node = n /\ cmAt'[t].place \in
                     {"delete_thread_cv_mgr", "woken_mgr"}
               THEN CountedTwice(n) \cup {t} ELSE CountedTwice(n) \ {t}
<1>0. CmDeleters \subseteq CmClients
  BY DEF CmClients
<1>1. \A u \in CmClients \ {t} : cmAt'[u] = cmAt[u] \/ Wakes(u)
  BY DEF Moves
<1>2. \A u \in CmClients : Wakes(u) =>
         /\ cmAt'[u].node = cmAt[u].node /\ cmAt[u].place \in AsleepAt
         /\ cmAt'[u].place \in {"woken", "woken_mgr"}
         /\ u \in CmDeleters =>
               \/ cmAt[u].place \in {"rdrs_cv", "delete_thread_cv"} /\ cmAt'[u].place = "woken"
               \/ cmAt[u].place = "delete_thread_cv_mgr" /\ cmAt'[u].place = "woken_mgr"
  BY WokenMoves DEF Wakes
<1>3. \A u \in CmClients \ {t} : \A n, s :
              /\ Entering(u, n, s)' <=> Entering(u, n, s)
              /\ Leaving(u, n, s)' <=> Leaving(u, n, s)
  BY <1>1, <1>2 DEF Entering, Leaving, CmIs, CmNode, AsleepAt
<1>4. \A u \in CmClients \ {t} : PastTheTest(u)' <=> PastTheTest(u)
  BY <1>1, <1>2 DEF PastTheTest, CmIs, AsleepAt
<1>5. ASSUME NEW n, NEW s
      PROVE  Granted(n, s)' =
               IF cmAt'[t].node = n /\ CmRole(t) = s /\ cmAt'[t].place \in {"working", "releasing"}
               THEN Granted(n, s) \cup {t} ELSE Granted(n, s) \ {t}
  <2>1. \A u \in CmClients \ {t} : u \in Granted(n, s)' <=> u \in Granted(n, s)
    BY <1>1, <1>2 DEF Granted, CmNode, AsleepAt
  <2>2. Granted(n, s) \subseteq CmClients /\ Granted(n, s)' \subseteq CmClients
    BY DEF Granted
  <2>3. t \in Granted(n, s)' <=>
           cmAt'[t].node = n /\ CmRole(t) = s /\ cmAt'[t].place \in {"working", "releasing"}
    BY DEF Granted, CmNode
  <2> QED
    BY <2>1, <2>2, <2>3
<1>6. ASSUME NEW n
      PROVE  CountedOnce(n)' =
               IF t \in CmDeleters /\ cmAt'[t].node = n /\ cmAt'[t].place \in
                     {"delete_thread_cv", "rdrs_cv", "woken", "to_mgr", "claim",
                      "delete_thread_cv_mgr", "woken_mgr"}
               THEN CountedOnce(n) \cup {t} ELSE CountedOnce(n) \ {t}
  <2>1. \A u \in CmDeleters \ {t} : u \in CountedOnce(n)' <=> u \in CountedOnce(n)
    BY <1>0, <1>1, <1>2 DEF CountedOnce, CmNode
  <2>2. CountedOnce(n) \subseteq CmDeleters /\ CountedOnce(n)' \subseteq CmDeleters
    BY DEF CountedOnce
  <2>3. t \in CountedOnce(n)' <=>
           t \in CmDeleters /\ cmAt'[t].node = n /\ cmAt'[t].place \in
                     {"delete_thread_cv", "rdrs_cv", "woken", "to_mgr", "claim",
                      "delete_thread_cv_mgr", "woken_mgr"}
    BY DEF CountedOnce, CmNode
  <2> QED
    BY <2>1, <2>2, <2>3
<1>7. ASSUME NEW n
      PROVE  CountedTwice(n)' =
               IF t \in CmDeleters /\ cmAt'[t].node = n /\ cmAt'[t].place \in
                     {"delete_thread_cv_mgr", "woken_mgr"}
               THEN CountedTwice(n) \cup {t} ELSE CountedTwice(n) \ {t}
  <2>1. \A u \in CmDeleters \ {t} : u \in CountedTwice(n)' <=> u \in CountedTwice(n)
    BY <1>0, <1>1, <1>2 DEF CountedTwice, CmNode
  <2>2. CountedTwice(n) \subseteq CmDeleters /\ CountedTwice(n)' \subseteq CmDeleters
    BY DEF CountedTwice
  <2>3. t \in CountedTwice(n)' <=>
           t \in CmDeleters /\ cmAt'[t].node = n /\ cmAt'[t].place \in
                     {"delete_thread_cv_mgr", "woken_mgr"}
    BY DEF CountedTwice, CmNode
  <2> QED
    BY <2>1, <2>2, <2>3
<1> QED
  BY <1>3, <1>4, <1>5, <1>6, <1>7

\* The counted sets are finite: one more, one less.
LEMMA CountsMove ==
  ASSUME NEW S \in SUBSET CmClients, NEW t \in CmClients
  PROVE  /\ Cardinality(S) \in Nat
         /\ Cardinality(S \cup {t}) = IF t \in S THEN Cardinality(S) ELSE Cardinality(S) + 1
         /\ Cardinality(S \ {t}) = IF t \in S THEN Cardinality(S) - 1 ELSE Cardinality(S)
         /\ t \in S => Cardinality(S) > 0
<1>1. IsFiniteSet(CmClients)
  BY CrudMgrAssumption
<1>2. CASE t \in S
  <2>1. S \cup {t} = S
    BY <1>2
  <2> QED
    BY <1>1, <1>2, <2>1, CountOfSubset, CountOneLess
<1>3. CASE t \notin S
  <2>1. S \ {t} = S
    BY <1>3
  <2> QED
    BY <1>1, <1>3, <2>1, CountOfSubset, CountOneMore
<1> QED
  BY <1>2, <1>3

\* The types, when one client moves.
LEMMA TypesMove ==
  ASSUME CmTypeOK, NEW t \in CmClients, Moves(t), CmClientOK(t)',
         cmStatus' \in [CmNodes -> SUBSET CmStates],
         cmCounter' \in [CmNodes -> [CmStates -> Nat]],
         cmLists' \in [CmStates -> Seq(CmNodes)],
         cmMutex' \in [CmNodes -> CmClients \cup {NoClient}],
         cmMgr' \in CmClients \cup {NoClient},
         cmEnrolled' \in SUBSET CmNodes, cmAborted' \in BOOLEAN
  PROVE  CmTypeOK'
<1>1. ASSUME NEW u \in CmClients PROVE CmClientOK(u)'
  <2>1. CASE u = t
    BY <2>1
  <2>2. CASE u # t /\ cmAt'[u] = cmAt[u]
    BY <2>2 DEF CmTypeOK, CmClientOK, CmIs, CmNode
  <2>3. CASE u # t /\ Wakes(u)
    BY <2>3, WokenMoves DEF CmClientOK, CmIs, CmNode
  <2> QED
    BY <2>1, <2>2, <2>3 DEF Moves
<1> QED
  BY <1>1 DEF CmTypeOK, Moves

\* The mutexes, when the mover takes and gives back only its own.
LEMMA MutexesMove ==
  ASSUME CmTypeOK, CmMutexes, NEW t \in CmClients, Moves(t),
         \A n \in CmNodes : cmMutex'[n] = cmMutex[n] \/ cmMutex[n] \in {t, NoClient},
         cmMgr' = cmMgr \/ cmMgr \in {t, NoClient},
         UsesNode(t)' => cmMutex'[cmAt'[t].node] = t,
         UsesMgr(t)' => cmMgr' = t
  PROVE  CmMutexes'
<1> SUFFICES ASSUME NEW u \in CmClients
             PROVE  /\ UsesNode(u)' => cmMutex'[cmAt'[u].node] = u
                    /\ UsesMgr(u)' => cmMgr' = u
  BY DEF CmMutexes, CmNode
<1>1. CASE u = t
  BY <1>1
<1>2. CASE u # t /\ cmAt'[u] = cmAt[u]
  <2>1. (UsesNode(u)' <=> UsesNode(u)) /\ (UsesMgr(u)' <=> UsesMgr(u))
    BY <1>2 DEF UsesNode, UsesMgr, CmIs
  <2>2. UsesNode(u) => cmMutex[cmAt[u].node] = u /\ cmAt[u].node \in CmNodes
    BY DEF CmMutexes, CmNode, CmTypeOK, CmClientOK, UsesNode, CmIs, HoldsNode
  <2>3. UsesMgr(u) => cmMgr = u
    BY DEF CmMutexes
  <2> QED
    BY <1>2, <2>1, <2>2, <2>3, CrudMgrAssumption
<1>3. CASE u # t /\ Wakes(u)
  <2>1. ~UsesNode(u)' /\ ~UsesMgr(u)'
    BY <1>3, WokenMoves DEF UsesNode, UsesMgr, CmIs, HoldsNode, HoldsMgr
  <2> QED
    BY <2>1
<1> QED
  BY <1>1, <1>2, <1>3 DEF Moves

\* A move that the books do not notice.
CalmPlaces == {"idle", "asking", "deciding", "signalling", "announcing"}
Calm(t) == \/ cmAt'[t] = cmAt[t]
           \/ Wakes(t)
           \/ cmAt[t].place \in CalmPlaces /\ cmAt'[t].place \in CalmPlaces
           \/ /\ cmAt'[t].node = cmAt[t].node
              /\ \/ cmAt[t].place = "working" /\ cmAt'[t].place = "releasing"
                 \/ cmAt[t].place = "to_mgr" /\ cmAt'[t].place = "claim"

\* A client that moves but is on neither way, before or after, leaves the books as they are.
LEMMA CalmBooks ==
  ASSUME CmTypeOK, CmBooks, NEW t \in CmClients, Moves(t), Calm(t),
         UNCHANGED <<cmStatus, cmCounter, cmLists>>
  PROVE  CmBooks'
<1>1. /\ \A n, s : Entering(t, n, s)' <=> Entering(t, n, s)
      /\ \A n, s : Leaving(t, n, s)' <=> Leaving(t, n, s)
      /\ PastTheTest(t)' <=> PastTheTest(t)
  BY WokenMoves DEF Calm, Wakes, CalmPlaces, AsleepAt, Entering, Leaving, PastTheTest, CmIs, CmNode
<1>2. /\ \A n, s : (cmAt'[t].node = n /\ CmRole(t) = s /\ cmAt'[t].place \in {"working", "releasing"})
                     <=> t \in Granted(n, s)
  BY WokenMoves DEF Calm, Wakes, CalmPlaces, AsleepAt, Granted, CmNode
<1>3. \A n : (t \in CmDeleters /\ cmAt'[t].node = n /\ cmAt'[t].place \in
                     {"delete_thread_cv", "rdrs_cv", "woken", "to_mgr", "claim",
                      "delete_thread_cv_mgr", "woken_mgr"}) <=> t \in CountedOnce(n)
  BY WokenMoves DEF Calm, CalmPlaces, CountedOnce, CmNode
<1>4. \A n : (t \in CmDeleters /\ cmAt'[t].node = n /\ cmAt'[t].place \in
                     {"delete_thread_cv_mgr", "woken_mgr"}) <=> t \in CountedTwice(n)
  BY WokenMoves DEF Calm, CalmPlaces, CountedTwice, CmNode
<1>5. \A n, s : Granted(n, s)' = Granted(n, s)
  BY <1>2, OneMoves
<1>6. \A n : CountedOnce(n)' = CountedOnce(n) /\ CountedTwice(n)' = CountedTwice(n)
  BY <1>3, <1>4, OneMoves
<1>7. \A u \in CmClients : \A n, s : /\ Entering(u, n, s)' <=> Entering(u, n, s)
                                     /\ Leaving(u, n, s)' <=> Leaving(u, n, s)
  BY <1>1, OneMoves
<1>8. \A u \in CmClients : PastTheTest(u)' <=> PastTheTest(u)
  BY <1>1, OneMoves
<1>9. /\ \A n, s : (Listed(n, s)' <=> Listed(n, s)) /\ (Present(n, s)' <=> Present(n, s))
                   /\ (Absent(n, s)' <=> Absent(n, s))
      /\ SomebodyCreatesOrDeletes' <=> SomebodyCreatesOrDeletes
  BY DEF Listed, Present, Absent, SomebodyCreatesOrDeletes
<1> USE DEF CmBooks
<1>10. CmHalfWay'
  BY <1>7, <1>9 DEF CmHalfWay
<1>11. CmSettled'
  BY <1>7, <1>9 DEF CmSettled
<1>12. CmListedOnce' /\ CmReadOrWrite'
  BY DEF CmListedOnce, CmReadOrWrite
<1>13. CmGrantedCounted' /\ CmDeletersCounted'
  BY <1>5, <1>6 DEF CmGrantedCounted, CmDeletersCounted
<1>14. CmNoOpAlone'
  BY <1>7 DEF CmNoOpAlone
<1>15. CmOneListed'
  BY <1>8, <1>9 DEF CmOneListed
<1> QED
  BY <1>10, <1>11, <1>12, <1>13, <1>14, <1>15

\* One more client in a state that the node is in, and that nobody is half way into.
LEMMA JoinBooks ==
  ASSUME CmTypeOK, CmBooks, NEW t \in CmClients, Moves(t),
         NEW n \in CmNodes, cmAt[t].node = n, cmAt'[t].node = n,
         NEW s \in cmStatus[n] \ EnteredOnce, NEW next, cmAt'[t].place = next,
         \/ cmAt[t].place = "deciding" /\ <<s, next>> \in Entries(t)
         \/ /\ cmAt[t].place = "claim" /\ t \in CmDeleters
            /\ s = "pending_delete" /\ next = "delete_thread_cv_mgr",
         \A u \in CmClients : ~Entering(u, n, s),
         cmCounter' = [cmCounter EXCEPT ![n][s] = @ + 1],
         UNCHANGED <<cmStatus, cmLists>>
  PROVE  CmBooks'
<1> USE DEF CmBooks
<1>0. s \in CmStates
  BY DEF CmTypeOK
<1>1. /\ cmCounter[n][s] \in Nat
      /\ cmCounter'[n][s] = cmCounter[n][s] + 1
      /\ \A m \in CmNodes, r \in CmStates : m # n \/ r # s => cmCounter'[m][r] = cmCounter[m][r]
  BY <1>0 DEF CmTypeOK
<1>2. /\ \A m, r : ~Entering(t, m, r) /\ ~Entering(t, m, r)'
      /\ \A m, r : ~Leaving(t, m, r) /\ ~Leaving(t, m, r)'
      /\ ~PastTheTest(t) /\ ~PastTheTest(t)'
  BY Parts DEF Entering, Leaving, PastTheTest, CmIs
<1>3. \A u \in CmClients : \A m, r : /\ Entering(u, m, r)' <=> Entering(u, m, r)
                                     /\ Leaving(u, m, r)' <=> Leaving(u, m, r)
  BY <1>2, OneMoves
<1>4. \A u \in CmClients : PastTheTest(u)' <=> PastTheTest(u)
  BY <1>2, OneMoves
<1>5. /\ \A m, r : Listed(m, r)' <=> Listed(m, r)
      /\ SomebodyCreatesOrDeletes' <=> SomebodyCreatesOrDeletes
  BY DEF Listed, SomebodyCreatesOrDeletes
<1>6. Present(n, s) /\ cmCounter[n][s] > 0
  BY <1>0 DEF CmSettled, CmHalfWay, Present, Absent
<1>7. CmHalfWay'
  <2> SUFFICES ASSUME NEW u \in CmClients, NEW m \in CmNodes, NEW r \in CmStates,
                      Entering(u, m, r) \/ Leaving(u, m, r)
               PROVE  cmCounter'[m][r] = cmCounter[m][r]
    BY <1>3, <1>5 DEF CmHalfWay
  <2>1. m # n \/ r # s
    BY <1>6 DEF CmHalfWay
  <2> QED
    BY <1>1, <2>1
<1>8. CmSettled'
  <2> SUFFICES ASSUME NEW m \in CmNodes, NEW r \in CmStates
               PROVE  /\ Present(m, r) => Present(m, r)'
                      /\ Absent(m, r) => Absent(m, r)'
    BY <1>3 DEF CmSettled
  <2>1. CASE m = n /\ r = s
    BY <2>1, <1>1, <1>6 DEF Present, Absent
  <2>2. CASE m # n \/ r # s
    BY <2>2, <1>1 DEF Present, Absent
  <2> QED
    BY <2>1, <2>2
<1>9. CmListedOnce' /\ CmReadOrWrite'
  BY DEF CmListedOnce, CmReadOrWrite
<1>10. CmGrantedCounted'
  <2> SUFFICES ASSUME NEW m \in CmNodes, NEW r \in CmInProgress
               PROVE  /\ cmCounter'[m][r] = Cardinality(Granted(m, r)')
                      /\ r \in EnteredOnce => cmCounter'[m][r] <= 1
    BY DEF CmGrantedCounted
  <2>0. r \in CmStates /\ t \notin Granted(m, r) /\ Granted(m, r) \in SUBSET CmClients
    BY DEF CmStates, Granted
  <2>1. CASE m = n /\ r = s
    <3>1. CmRole(t) = r /\ next = "working" /\ r \notin EnteredOnce
      BY <2>1, Parts DEF CmInProgress
    <3>2. Granted(m, r)' = Granted(m, r) \cup {t}
      BY <3>1, <2>1, OneMoves
    <3>3. Cardinality(Granted(m, r)') = Cardinality(Granted(m, r)) + 1
      BY <3>2, <2>0, CountsMove
    <3> QED
      BY <3>1, <3>3, <2>1, <1>1 DEF CmGrantedCounted
  <2>2. CASE m # n \/ r # s
    <3>1. ~(cmAt'[t].node = m /\ CmRole(t) = r /\ cmAt'[t].place \in {"working", "releasing"})
      BY <2>2, Parts
    <3>2. Granted(m, r)' = Granted(m, r) \ {t}
      BY <3>1, OneMoves
    <3>3. Granted(m, r)' = Granted(m, r)
      BY <3>2, <2>0
    <3> QED
      BY <3>3, <2>2, <2>0, <1>1 DEF CmGrantedCounted
  <2> QED
    BY <2>1, <2>2
<1>11. CmDeletersCounted'
  <2> SUFFICES ASSUME NEW m \in CmNodes
               PROVE  cmCounter'[m]["pending_delete"]
                        = Cardinality(CountedOnce(m)') + Cardinality(CountedTwice(m)')
    BY DEF CmDeletersCounted
  <2>0. /\ CountedOnce(m) \in SUBSET CmClients /\ CountedTwice(m) \in SUBSET CmClients
        /\ Cardinality(CountedOnce(m)) \in Nat /\ Cardinality(CountedTwice(m)) \in Nat
        /\ "pending_delete" \in CmStates
        /\ cmCounter[m]["pending_delete"] = Cardinality(CountedOnce(m)) + Cardinality(CountedTwice(m))
    BY CountsMove DEF CountedOnce, CountedTwice, CmClients, CmStates, CmPending, CmDeletersCounted
  <2>1. CASE m = n /\ s = "pending_delete" /\ cmAt[t].place = "deciding"
    <3>1. /\ t \in CmDeleters /\ t \notin CountedOnce(m) /\ t \notin CountedTwice(m)
          /\ next \in {"delete_thread_cv", "rdrs_cv", "to_mgr"}
      BY <2>1, Parts DEF CountedOnce, CountedTwice
    <3>2. CountedOnce(m)' = CountedOnce(m) \cup {t} /\ CountedTwice(m)' = CountedTwice(m) \ {t}
      BY <3>1, <2>1, OneMoves
    <3>3. Cardinality(CountedOnce(m) \cup {t}) = Cardinality(CountedOnce(m)) + 1
      BY <3>1, <2>0, CountsMove
    <3>4. Cardinality(CountedTwice(m) \ {t}) = Cardinality(CountedTwice(m))
      BY <3>1, <2>0, CountsMove
    <3> QED
      BY <3>2, <3>3, <3>4, <2>0, <2>1, <1>1
  <2>2. CASE m = n /\ s = "pending_delete" /\ cmAt[t].place = "claim"
    <3>1. t \in CmDeleters /\ t \in CountedOnce(m) /\ t \notin CountedTwice(m)
          /\ next = "delete_thread_cv_mgr"
      BY <2>2, Parts DEF CountedOnce, CountedTwice, CmNode
    <3>2. CountedOnce(m)' = CountedOnce(m) \cup {t} /\ CountedTwice(m)' = CountedTwice(m) \cup {t}
      BY <3>1, <2>2, OneMoves
    <3>3. Cardinality(CountedOnce(m) \cup {t}) = Cardinality(CountedOnce(m))
      BY <3>1, <2>0, CountsMove
    <3>4. Cardinality(CountedTwice(m) \cup {t}) = Cardinality(CountedTwice(m)) + 1
      BY <3>1, <2>0, CountsMove
    <3> QED
      BY <3>2, <3>3, <3>4, <2>0, <2>2, <1>1
  <2>3. CASE m # n \/ s # "pending_delete"
    <3>1. \/ m # n
          \/ t \notin CmDeleters
      BY <2>3, Parts DEF EnteredOnce, CmInProgress
    <3>2. t \notin CountedOnce(m) /\ t \notin CountedTwice(m)
      BY <3>1 DEF CountedOnce, CountedTwice, CmNode
    <3>3. CountedOnce(m)' = CountedOnce(m) \ {t} /\ CountedTwice(m)' = CountedTwice(m) \ {t}
      BY <3>1, OneMoves
    <3>4. CountedOnce(m)' = CountedOnce(m) /\ CountedTwice(m)' = CountedTwice(m)
      BY <3>2, <3>3
    <3> QED
      BY <3>4, <2>0, <2>3, <1>1
  <2> QED
    BY <2>1, <2>2, <2>3
<1>12. CmNoOpAlone'
  BY <1>3 DEF CmNoOpAlone
<1>13. CmOneListed'
  BY <1>4, <1>5 DEF CmOneListed
<1> QED
  BY <1>7, <1>8, <1>9, <1>10, <1>11, <1>12, <1>13

\* At these places a client is counted in no counter.
Uncounted(t) ==
    /\ cmAt[t].place \notin {"working", "releasing"}
    /\ \/ t \notin CmDeleters
       \/ cmAt[t].place \notin {"delete_thread_cv", "rdrs_cv", "woken", "to_mgr", "claim",
                                "delete_thread_cv_mgr", "woken_mgr"}

\* A client that is counted neither before nor after its step changes no count.
LEMMA UncountedMove ==
  ASSUME CmTypeOK, NEW t \in CmClients, Moves(t), Uncounted(t), Uncounted(t)'
  PROVE  /\ \A n, s : Granted(n, s)' = Granted(n, s)
         /\ \A n : CountedOnce(n)' = CountedOnce(n) /\ CountedTwice(n)' = CountedTwice(n)
<1>1. \A n, s : Granted(n, s)' = Granted(n, s) \ {t} /\ t \notin Granted(n, s)
  BY OneMoves DEF Uncounted, Granted
<1>2. \A n : CountedOnce(n)' = CountedOnce(n) \ {t} /\ t \notin CountedOnce(n)
  BY OneMoves DEF Uncounted, CountedOnce
<1>3. \A n : CountedTwice(n)' = CountedTwice(n) \ {t} /\ t \notin CountedTwice(n)
  BY OneMoves DEF Uncounted, CountedTwice
<1> QED
  BY <1>1, <1>2, <1>3

\* The first half of an entry: the flag.
LEMMA EnterBooks ==
  ASSUME CmTypeOK, CmBooks, NEW t \in CmClients, Moves(t),
         NEW n \in CmNodes, cmAt'[t].node = n,
         NEW s \in CmStates \ {"no_op"}, cmAt'[t].place = "entering", cmAt'[t].aim = s,
         cmAt[t].place \in {"deciding", "claim", "claimed"},
         cmAt[t].place = "claim" => t \notin CmDeleters,
         Absent(n, s),
         cmStatus' = [cmStatus EXCEPT ![n] = @ \cup {s}],
         s = "read_in_progress" => "write_in_progress" \notin cmStatus[n],
         s = "write_in_progress" => "read_in_progress" \notin cmStatus[n],
         s \in Build => ~SomebodyCreatesOrDeletes,
         UNCHANGED <<cmCounter, cmLists>>
  PROVE  CmBooks'
<1> USE DEF CmBooks
<1>1. /\ \A m \in CmNodes : \A r : r \in cmStatus'[m] <=> r \in cmStatus[m] \/ (m = n /\ r = s)
  BY DEF CmTypeOK
<1>2. /\ \A m, r : Entering(t, m, r)' <=> m = n /\ r = s
      /\ \A m, r : ~Entering(t, m, r) /\ ~Leaving(t, m, r) /\ ~Leaving(t, m, r)'
  BY DEF Entering, Leaving, CmIs, CmNode
<1>3. /\ \A u \in CmClients \ {t} : \A m, r : Entering(u, m, r)' <=> Entering(u, m, r)
      /\ \A u \in CmClients : \A m, r : Leaving(u, m, r)' <=> Leaving(u, m, r)
  BY <1>2, OneMoves
<1>4. /\ \A m, r : Listed(m, r)' <=> Listed(m, r)
      /\ SomebodyCreatesOrDeletes' <=> SomebodyCreatesOrDeletes
  BY DEF Listed, SomebodyCreatesOrDeletes
<1>5. /\ s \notin cmStatus[n] /\ cmCounter[n][s] = 0 /\ ~Listed(n, s)
      /\ \A u \in CmClients : ~Entering(u, n, s) /\ ~Leaving(u, n, s)
  BY DEF Absent, Listed, CmHalfWay
<1>6. CmHalfWay'
  BY <1>1, <1>2, <1>3, <1>4, <1>5 DEF CmHalfWay
<1>7. CmSettled'
  <2> SUFFICES ASSUME NEW m \in CmNodes, NEW r \in CmStates
               PROVE  (Present(m, r) \/ Absent(m, r)
                         \/ \E u \in CmClients : Entering(u, m, r) \/ Leaving(u, m, r))'
    BY DEF CmSettled
  <2>1. CASE m = n /\ r = s
    BY <2>1, <1>2
  <2>2. CASE m # n \/ r # s
    <3>1. (Present(m, r)' <=> Present(m, r)) /\ (Absent(m, r)' <=> Absent(m, r))
      BY <2>2, <1>1 DEF Present, Absent
    <3> QED
      BY <3>1, <1>2, <1>3 DEF CmSettled
  <2> QED
    BY <2>1, <2>2
<1>8. CmListedOnce'
  BY DEF CmListedOnce
<1>9. CmReadOrWrite'
  BY <1>1 DEF CmReadOrWrite
<1>10. CmGrantedCounted' /\ CmDeletersCounted'
  <2>1. Uncounted(t) /\ Uncounted(t)'
    BY DEF Uncounted
  <2> QED
    BY <2>1, UncountedMove DEF CmGrantedCounted, CmDeletersCounted
<1>11. CmNoOpAlone'
  <2> SUFFICES ASSUME NEW m \in CmNodes, NEW r \in cmStatus'[m] \ {"no_op"}, "no_op" \in cmStatus'[m]
               PROVE  \E u \in CmClients : Entering(u, m, r)'
    BY DEF CmNoOpAlone
  <2>1. CASE m = n /\ r = s
    BY <2>1, <1>2
  <2>2. CASE m # n \/ r # s
    BY <2>2, <1>1, <1>2, <1>3 DEF CmNoOpAlone
  <2> QED
    BY <2>1, <2>2
<1>12. CmOneListed'
  <2>1. \A u \in CmClients : PastTheTest(u)' => ~SomebodyCreatesOrDeletes
    <3>1. PastTheTest(t)' => s \in Build
      BY DEF PastTheTest, CmIs
    <3> QED
      BY <3>1, OneMoves DEF CmOneListed
  <2> QED
    BY <2>1, <1>4 DEF CmOneListed
<1> QED
  BY <1>6, <1>7, <1>8, <1>9, <1>10, <1>11, <1>12

\* Who is half way is so by its part.
LEMMA HalfWayOf ==
  ASSUME CmTypeOK, NEW u \in CmClients
  PROVE  /\ CmIs(u, "entering") => /\ <<cmAt[u].aim, cmAt[u].next>> \in Entries(u)
                                   /\ cmAt[u].node \in CmNodes
         /\ CmIs(u, "leaving") => /\ <<cmAt[u].aim, cmAt[u].next>> \in Exits(u)
                                  /\ cmAt[u].node \in CmNodes
<1>1. CmClientOK(u)
  BY DEF CmTypeOK
<1>2. "entering" \notin PlacesOf(u) /\ "leaving" \notin PlacesOf(u)
  BY Parts
<1> QED
  BY <1>1, <1>2 DEF CmClientOK, CmIs, CmNode

\* The second half, under the manager's mutex.
LEMMA ListBooks ==
  ASSUME CmTypeOK, CmBooks, NEW t \in CmClients, Moves(t),
         NEW n \in CmNodes, NEW s \in CmStates \ {"no_op"}, Entering(t, n, s),
         NEW next, <<s, next>> \in Entries(t),
         cmAt'[t].node = n, cmAt'[t].place = next,
         s \in Build => \A u \in CmClients \ {t} : ~PastTheTest(u),
         cmCounter' = [cmCounter EXCEPT ![n] = [@ EXCEPT ![s] = 1, !["no_op"] = 0]],
         cmLists' = [cmLists EXCEPT ![s] = <<n>> \o @, !["no_op"] = remove_glthread(@, n)],
         cmStatus' = [cmStatus EXCEPT ![n] = @ \ {"no_op"}]
  PROVE  CmBooks'
<1> USE DEF CmBooks
<1>0. cmAt[t].node = n /\ cmAt[t].place = "entering" /\ cmAt[t].aim = s /\ "no_op" \in CmStates
  BY DEF Entering, CmNode, CmIs, CmStates
<1>1. /\ cmCounter'[n][s] = 1 /\ cmCounter'[n]["no_op"] = 0
      /\ \A m \in CmNodes, r \in CmStates :
            m # n \/ r \notin {s, "no_op"} => cmCounter'[m][r] = cmCounter[m][r]
  BY <1>0 DEF CmTypeOK
<1>2. \A m \in CmNodes : \A r : r \in cmStatus'[m] <=> r \in cmStatus[m] /\ ~(m = n /\ r = "no_op")
  BY DEF CmTypeOK
<1>3. s \in cmStatus[n] /\ cmCounter[n][s] = 0 /\ ~Listed(n, s)
  BY DEF CmHalfWay
<1>4. \A r \in CmStates : cmLists[r] \in Seq(CmNodes) /\ IsInjective(cmLists[r])
  BY DEF CmTypeOK, CmListedOnce
<1>5. /\ cmLists'[s] = <<n>> \o cmLists[s]
      /\ cmLists'["no_op"] = remove_glthread(cmLists["no_op"], n)
      /\ \A r \in CmStates \ {s, "no_op"} : cmLists'[r] = cmLists[r]
  BY <1>0 DEF CmTypeOK
<1>6. /\ cmLists'[s] \in Seq(CmNodes) /\ IsInjective(cmLists'[s])
      /\ \A m : Listed(m, s)' <=> m = n \/ Listed(m, s)
  <2>1. /\ <<n>> \o cmLists[s] \in Seq(CmNodes) /\ IsInjective(<<n>> \o cmLists[s])
        /\ \A m : Contains(<<n>> \o cmLists[s], m) <=> m = n \/ Contains(cmLists[s], m)
    BY <1>3, <1>4, ListWith DEF Listed
  <2> QED
    BY <2>1, <1>5, Zenon DEF Listed
<1>7. /\ cmLists'["no_op"] \in Seq(CmNodes) /\ IsInjective(cmLists'["no_op"])
      /\ \A m : Listed(m, "no_op")' <=> Listed(m, "no_op") /\ m # n
  <2>1. /\ remove_glthread(cmLists["no_op"], n) \in Seq(CmNodes)
        /\ IsInjective(remove_glthread(cmLists["no_op"], n))
        /\ \A m : Contains(remove_glthread(cmLists["no_op"], n), m)
                   <=> Contains(cmLists["no_op"], m) /\ m # n
    BY <1>0, <1>4, ListWithout
  <2> QED
    BY <2>1, <1>5, Zenon DEF Listed
<1>8. \A m, r : r \in CmStates \ {s, "no_op"} => (Listed(m, r)' <=> Listed(m, r))
  BY <1>5 DEF Listed
<1>9. /\ \A m, r : ~Entering(t, m, r)' /\ ~Leaving(t, m, r)' /\ ~Leaving(t, m, r)
      /\ ~PastTheTest(t)'
  BY <1>0, Parts DEF Entering, Leaving, PastTheTest, CmIs
<1>10. /\ \A u \in CmClients : \A m, r : Entering(u, m, r)' <=> Entering(u, m, r) /\ u # t
       /\ \A u \in CmClients : \A m, r : Leaving(u, m, r)' <=> Leaving(u, m, r)
  BY <1>9, OneMoves
<1>11. \A u \in CmClients, m \in CmNodes : ~Entering(u, m, "no_op") /\ ~Leaving(u, m, "no_op")
  BY HalfWayOf, Parts DEF Entering, Leaving, CmIs
<1>12. \A u \in CmClients \ {t} : ~Entering(u, n, s) /\ ~Leaving(u, n, s)
  BY DEF CmHalfWay
<1>13. CmHalfWay'
  <2>1. ASSUME NEW u \in CmClients \ {t}, NEW m \in CmNodes, NEW r \in CmStates,
               Entering(u, m, r) \/ Leaving(u, m, r)
        PROVE  /\ cmCounter'[m][r] = cmCounter[m][r] /\ (Listed(m, r)' <=> Listed(m, r))
               /\ r \in cmStatus'[m] <=> r \in cmStatus[m]
    <3>1. r # "no_op" /\ ~(m = n /\ r = s)
      BY <2>1, <1>11, <1>12
    <3> QED
      BY <3>1, <1>1, <1>2, <1>6, <1>8
  <2> QED
    BY <2>1, <1>9, <1>10 DEF CmHalfWay
<1>14. CmSettled'
  <2> SUFFICES ASSUME NEW m \in CmNodes, NEW r \in CmStates
               PROVE  (Present(m, r) \/ Absent(m, r)
                         \/ \E u \in CmClients : Entering(u, m, r) \/ Leaving(u, m, r))'
    BY DEF CmSettled
  <2>1. CASE m = n /\ r = s
    <3>1. cmCounter'[m][r] > 0 /\ r \in cmStatus'[m] /\ Listed(m, r)'
      BY <2>1, <1>1, <1>2, <1>3, <1>6
    <3>2. Present(m, r)'
      BY <3>1, Zenon DEF Present, Listed
    <3> QED
      BY <3>2
  <2>2. CASE m = n /\ r = "no_op"
    <3>1. cmCounter'[m][r] = 0 /\ r \notin cmStatus'[m] /\ ~Listed(m, r)'
      BY <2>2, <1>1, <1>2, <1>7
    <3>2. Absent(m, r)'
      BY <3>1, Zenon DEF Absent, Listed
    <3> QED
      BY <3>2
  <2>3. CASE m # n \/ r \notin {s, "no_op"}
    <3>1. /\ cmCounter'[m][r] = cmCounter[m][r] /\ (Listed(m, r)' <=> Listed(m, r))
          /\ r \in cmStatus'[m] <=> r \in cmStatus[m]
      BY <2>3, <1>1, <1>2, <1>6, <1>7, <1>8
    <3>2. m # n \/ r # s => ~Entering(t, m, r)
      BY <1>0 DEF Entering, CmNode
    <3>3. m = n /\ r = s => r \in {s, "no_op"}
      OBVIOUS
    <3>4. (Present(m, r)' <=> Present(m, r)) /\ (Absent(m, r)' <=> Absent(m, r))
      BY <3>1 DEF Present, Absent, Listed
    <3>6. CASE Present(m, r) \/ Absent(m, r)
      BY <3>4, <3>6
    <3>7. CASE \E u \in CmClients : Entering(u, m, r) \/ Leaving(u, m, r)
      <4>1. PICK u \in CmClients : Entering(u, m, r) \/ Leaving(u, m, r)
        BY <3>7
      <4>2. Entering(u, m, r) => u # t
        BY <2>3, <3>2, <3>3
      <4> QED
        BY <4>1, <4>2, <1>10, Zenon
    <3> QED
      BY <3>6, <3>7 DEF CmSettled
  <2>4. r \in {s, "no_op"} => r = s \/ r = "no_op"
    OBVIOUS
  <2> QED
    BY <2>1, <2>2, <2>3, <2>4, Zenon
<1>15. CmListedOnce'
  BY <1>4, <1>5, <1>6, <1>7 DEF CmListedOnce
<1>16. CmReadOrWrite'
  BY <1>2 DEF CmReadOrWrite
<1>17. CmNoOpAlone'
  <2> SUFFICES ASSUME NEW m \in CmNodes, NEW r \in cmStatus'[m] \ {"no_op"}, "no_op" \in cmStatus'[m]
               PROVE  \E u \in CmClients : Entering(u, m, r)'
    BY DEF CmNoOpAlone
  <2>1. m # n /\ r \in cmStatus[m] /\ "no_op" \in cmStatus[m]
    BY <1>2
  <2>2. PICK u \in CmClients : Entering(u, m, r)
    BY <2>1 DEF CmNoOpAlone
  <2>3. u # t
    BY <2>1, <2>2, <1>0 DEF Entering, CmNode
  <2> QED
    BY <2>2, <2>3, <1>10
<1>18. CmGrantedCounted'
  <2> SUFFICES ASSUME NEW m \in CmNodes, NEW r \in CmInProgress
               PROVE  /\ cmCounter'[m][r] = Cardinality(Granted(m, r)')
                      /\ r \in EnteredOnce => cmCounter'[m][r] <= 1
    BY DEF CmGrantedCounted
  <2>0. r \in CmStates /\ r # "no_op" /\ t \notin Granted(m, r) /\ Granted(m, r) \in SUBSET CmClients
    BY <1>0 DEF CmStates, CmInProgress, Granted
  <2>1. CASE m = n /\ r = s
    <3>1. CmRole(t) = r /\ next = "working"
      BY <2>1, Parts DEF CmInProgress
    <3>2. Granted(m, r)' = Granted(m, r) \cup {t}
      BY <3>1, <2>1, OneMoves
    <3>3. Cardinality(Granted(m, r) \cup {t}) = Cardinality(Granted(m, r)) + 1
      BY <2>0, CountsMove
    <3>4. cmCounter[m][r] = Cardinality(Granted(m, r))
      BY DEF CmGrantedCounted
    <3> QED
      BY <3>2, <3>3, <3>4, <2>1, <1>1, <1>3
  <2>2. CASE m # n \/ r # s
    <3>1. ~(cmAt'[t].node = m /\ CmRole(t) = r /\ cmAt'[t].place \in {"working", "releasing"})
      BY <2>2, Parts
    <3>2. Granted(m, r)' = Granted(m, r) \ {t}
      BY <3>1, OneMoves
    <3>3. Granted(m, r)' = Granted(m, r)
      BY <3>2, <2>0
    <3> QED
      BY <3>3, <2>2, <2>0, <1>1 DEF CmGrantedCounted
  <2> QED
    BY <2>1, <2>2
<1>19. CmDeletersCounted'
  <2> SUFFICES ASSUME NEW m \in CmNodes
               PROVE  cmCounter'[m]["pending_delete"]
                        = Cardinality(CountedOnce(m)') + Cardinality(CountedTwice(m)')
    BY DEF CmDeletersCounted
  <2>0. /\ CountedOnce(m) \in SUBSET CmClients /\ CountedTwice(m) \in SUBSET CmClients
        /\ Cardinality(CountedOnce(m)) \in Nat /\ Cardinality(CountedTwice(m)) \in Nat
        /\ "pending_delete" \in CmStates
        /\ cmCounter[m]["pending_delete"] = Cardinality(CountedOnce(m)) + Cardinality(CountedTwice(m))
        /\ t \notin CountedOnce(m) /\ t \notin CountedTwice(m)
    BY <1>0, CountsMove DEF CountedOnce, CountedTwice, CmClients, CmStates, CmPending, CmDeletersCounted
  <2>1. CASE m = n /\ s = "pending_delete"
    <3>1. /\ t \in CmDeleters /\ next \in {"delete_thread_cv", "rdrs_cv", "to_mgr"}
      BY <2>1, Parts
    <3>2. CountedOnce(m)' = CountedOnce(m) \cup {t} /\ CountedTwice(m)' = CountedTwice(m) \ {t}
      BY <3>1, <2>1, OneMoves
    <3>3. Cardinality(CountedOnce(m) \cup {t}) = Cardinality(CountedOnce(m)) + 1
      BY <2>0, CountsMove
    <3>4. Cardinality(CountedTwice(m) \ {t}) = Cardinality(CountedTwice(m))
      BY <2>0, CountsMove
    <3> QED
      BY <3>2, <3>3, <3>4, <2>0, <2>1, <1>1, <1>3
  <2>2. CASE m # n \/ s # "pending_delete"
    <3>1. CountedOnce(m)' = CountedOnce(m) \ {t} /\ CountedTwice(m)' = CountedTwice(m) \ {t}
      BY <2>2, OneMoves, Parts
    <3>2. CountedOnce(m)' = CountedOnce(m) /\ CountedTwice(m)' = CountedTwice(m)
      BY <3>1, <2>0
    <3>3. cmCounter'[m]["pending_delete"] = cmCounter[m]["pending_delete"]
      BY <2>2, <2>0, <1>1
    <3> QED
      BY <3>2, <3>3, <2>0
  <2> QED
    BY <2>1, <2>2
<1>20. CmOneListed'
  <2>1. Build \subseteq CmStates \ {"no_op"}
    BY DEF Build, CmStates, CmInProgress
  <2>2. ASSUME s \in Build PROVE CmOneListed'
    <3>1. PastTheTest(t)
      BY <2>2, <1>0 DEF PastTheTest, CmIs
    <3>2. cmLists["create_in_progress"] = <<>> /\ cmLists["delete_in_progress"] = <<>>
      BY <3>1 DEF CmOneListed, SomebodyCreatesOrDeletes
    <3>3. \A m, r : r \in Build => ~Listed(m, r)
      BY <3>2 DEF Listed, Contains, Build
    <3>4. \A m, r : r \in Build => (Listed(m, r)' <=> m = n /\ r = s)
      BY <3>3, <2>1, <1>6, <1>8
    <3>5. \A u \in CmClients : ~PastTheTest(u)'
      BY <2>2, <1>9, OneMoves
    <3> QED
      BY <3>4, <3>5 DEF CmOneListed
  <2>3. ASSUME s \notin Build PROVE CmOneListed'
    <3>1. \A r \in Build : cmLists'[r] = cmLists[r]
      BY <2>1, <2>3, <1>5
    <3>2. /\ \A m, r : r \in Build => (Listed(m, r)' <=> Listed(m, r))
          /\ SomebodyCreatesOrDeletes' <=> SomebodyCreatesOrDeletes
      BY <3>1 DEF Listed, SomebodyCreatesOrDeletes, Build
    <3>3. \A u \in CmClients : PastTheTest(u)' => PastTheTest(u)
      BY <1>9, OneMoves
    <3> QED
      BY <3>2, <3>3 DEF CmOneListed
  <2> QED
    BY <2>2, <2>3
<1> QED
  BY <1>13, <1>14, <1>15, <1>16, <1>17, <1>18, <1>19, <1>20

\* Which state a client leaves from where, and where it goes.
Exiting(t, s, next) ==
    \/ cmAt[t].place = "woken" /\ s = PendingOf(t) /\ next = "deciding"
    \/ cmAt[t].place = "woken_mgr" /\ s = PendingOf(t) /\ next = "claim"
    \/ cmAt[t].place = "claim" /\ t \in CmDeleters /\ s = "pending_delete" /\ next = "claimed"
    \/ cmAt[t].place = "releasing" /\ s = CmRole(t) /\ next = "signalling"

\* A client takes itself out of the count, whether it was the last or not; a
\* deleter counted twice is never the last.
LEMMA ExitCounts ==
  ASSUME CmTypeOK, CmGrantedCounted, CmDeletersCounted, NEW t \in CmClients, Moves(t),
         NEW n \in CmNodes, cmAt[t].node = n, cmAt'[t].node = n,
         NEW s \in CmStates, NEW next, Exiting(t, s, next), cmCounter[n][s] > 0,
         cmCounter[n][s] > 1 => cmAt'[t].place = next,
         ~(cmCounter[n][s] > 1) => cmAt'[t].place = "leaving",
         cmCounter' = [cmCounter EXCEPT ![n][s] = @ - 1]
  PROVE  /\ CmGrantedCounted' /\ CmDeletersCounted'
         /\ cmCounter'[n][s] = cmCounter[n][s] - 1 /\ cmCounter'[n][s] \in Nat
         /\ \A m \in CmNodes, r \in CmStates : m # n \/ r # s => cmCounter'[m][r] = cmCounter[m][r]
         /\ cmAt[t].place \in PlacesOf(t)
         /\ <<s, next>> \in Exits(t) \/ (next = "claim" /\ cmAt'[t].place = "claim")
<1>0. cmAt[t].place \in PlacesOf(t)
  BY DEF CmTypeOK, CmClientOK, CmIs, Exiting
<1>1. /\ cmCounter[n][s] \in Nat /\ cmCounter'[n][s] = cmCounter[n][s] - 1
      /\ cmCounter'[n][s] \in Nat
      /\ \A m \in CmNodes, r \in CmStates : m # n \/ r # s => cmCounter'[m][r] = cmCounter[m][r]
  BY DEF CmTypeOK
<1>2. CmGrantedCounted'
  <2> SUFFICES ASSUME NEW m \in CmNodes, NEW r \in CmInProgress
               PROVE  /\ cmCounter'[m][r] = Cardinality(Granted(m, r)')
                      /\ r \in EnteredOnce => cmCounter'[m][r] <= 1
    BY DEF CmGrantedCounted
  <2>0. r \in CmStates /\ Granted(m, r) \in SUBSET CmClients
    BY DEF CmStates, CmInProgress, Granted
  <2>1. cmCounter[m][r] = Cardinality(Granted(m, r)) /\ (r \in EnteredOnce => cmCounter[m][r] <= 1)
    BY DEF CmGrantedCounted
  <2>2. Granted(m, r)' = Granted(m, r) \ {t}
    <3>1. cmAt'[t].place \notin {"working", "releasing"}
      BY DEF Exiting
    <3> QED
      BY <3>1, OneMoves
  <2>3. CASE m = n /\ r = s
    <3>1. cmAt[t].place = "releasing" /\ r = CmRole(t)
      BY <2>3, Parts DEF Exiting, CmInProgress
    <3>2. t \in Granted(m, r)
      BY <3>1, <2>3 DEF Granted, CmNode
    <3>3. Cardinality(Granted(m, r) \ {t}) = Cardinality(Granted(m, r)) - 1
      BY <3>2, <2>0, CountsMove
    <3> QED
      BY <3>3, <2>1, <2>2, <2>3, <1>1
  <2>4. CASE m # n \/ r # s
    <3>1. t \notin Granted(m, r)
      BY <2>4, Parts DEF Exiting, Granted, CmNode
    <3>2. Granted(m, r)' = Granted(m, r)
      BY <3>1, <2>2
    <3> QED
      BY <3>2, <2>0, <2>1, <2>4, <1>1
  <2> QED
    BY <2>3, <2>4
<1>3. ASSUME NEW m \in CmNodes
      PROVE  /\ cmCounter'[m]["pending_delete"]
                        = Cardinality(CountedOnce(m)') + Cardinality(CountedTwice(m)')
             /\ m = n /\ t \in CmDeleters /\ cmAt[t].place = "woken_mgr"
                  => cmAt'[t].place = "claim"
  <2>0. /\ CountedOnce(m) \in SUBSET CmClients /\ CountedTwice(m) \in SUBSET CmClients
        /\ Cardinality(CountedOnce(m)) \in Nat /\ Cardinality(CountedTwice(m)) \in Nat
        /\ "pending_delete" \in CmStates
        /\ cmCounter[m]["pending_delete"] = Cardinality(CountedOnce(m)) + Cardinality(CountedTwice(m))
    BY CountsMove DEF CountedOnce, CountedTwice, CmClients, CmStates, CmPending, CmDeletersCounted
  <2>1. CASE m = n /\ t \in CmDeleters /\ cmAt[t].place \in {"woken", "claim"}
    <3>1. /\ s = "pending_delete" /\ cmAt'[t].place \in {"deciding", "claimed", "leaving"}
          /\ t \in CountedOnce(m) /\ t \notin CountedTwice(m)
      BY <2>1, Parts DEF Exiting, CountedOnce, CountedTwice, CmNode
    <3>2. CountedOnce(m)' = CountedOnce(m) \ {t} /\ CountedTwice(m)' = CountedTwice(m) \ {t}
      BY <3>1, OneMoves
    <3>3. Cardinality(CountedOnce(m) \ {t}) = Cardinality(CountedOnce(m)) - 1
      BY <3>1, <2>0, CountsMove
    <3>4. Cardinality(CountedTwice(m) \ {t}) = Cardinality(CountedTwice(m))
      BY <3>1, <2>0, CountsMove
    <3> QED
      BY <3>1, <3>2, <3>3, <3>4, <2>0, <2>1, <1>1
  <2>2. CASE m = n /\ t \in CmDeleters /\ cmAt[t].place = "woken_mgr"
    <3>1. /\ s = "pending_delete" /\ next = "claim"
          /\ t \in CountedOnce(m) /\ t \in CountedTwice(m)
      BY <2>2, Parts DEF Exiting, CountedOnce, CountedTwice, CmNode
    <3>2. Cardinality(CountedOnce(m)) > 0 /\ Cardinality(CountedTwice(m)) > 0
      BY <3>1, <2>0, CountsMove
    <3>3. cmAt'[t].place = "claim"
      BY <3>1, <3>2, <2>0, <2>2
    <3>4. CountedOnce(m)' = CountedOnce(m) \cup {t} /\ CountedTwice(m)' = CountedTwice(m) \ {t}
      BY <3>3, <2>2, OneMoves
    <3>5. Cardinality(CountedTwice(m) \ {t}) = Cardinality(CountedTwice(m)) - 1
      BY <3>1, <2>0, CountsMove
    <3>6. CountedOnce(m) \cup {t} = CountedOnce(m)
      BY <3>1
    <3>7. cmCounter'[m]["pending_delete"] = cmCounter[m]["pending_delete"] - 1
      BY <3>1, <2>2, <1>1
    <3>8. Cardinality(CountedOnce(m)') = Cardinality(CountedOnce(m))
      BY <3>4, <3>6
    <3>9. Cardinality(CountedTwice(m)') = Cardinality(CountedTwice(m)) - 1
      BY <3>4, <3>5
    <3> QED
      BY <3>3, <3>7, <3>8, <3>9, <2>0
  <2>3. CASE m # n \/ t \notin CmDeleters \/ cmAt[t].place \notin {"woken", "claim", "woken_mgr"}
    <3>1. m # n \/ s # "pending_delete"
      BY <2>3, <1>0, Parts DEF Exiting
    <3>2. t \notin CountedOnce(m) /\ t \notin CountedTwice(m)
      BY <2>3 DEF Exiting, CountedOnce, CountedTwice, CmNode
    <3>3. m # n \/ t \notin CmDeleters \/ cmAt'[t].place \in {"signalling", "leaving"}
      BY <2>3 DEF Exiting
    <3>4. CountedOnce(m)' = CountedOnce(m) \ {t} /\ CountedTwice(m)' = CountedTwice(m) \ {t}
      BY <3>3, OneMoves
    <3>5. CountedOnce(m)' = CountedOnce(m) /\ CountedTwice(m)' = CountedTwice(m)
      BY <3>2, <3>4
    <3> QED
      BY <3>1, <3>5, <2>0, <2>3, <1>1
  <2> QED
    BY <2>1, <2>2, <2>3
<1>4. CmDeletersCounted'
  BY <1>3 DEF CmDeletersCounted
<1>5. <<s, next>> \in Exits(t) \/ (next = "claim" /\ cmAt'[t].place = "claim")
  BY <1>0, <1>3, Parts DEF Exiting
<1> QED
  BY <1>0, <1>1, <1>2, <1>4, <1>5

\* One client less in a state, and others are still in it.
LEMMA ExitBooks ==
  ASSUME CmTypeOK, CmBooks, NEW t \in CmClients, Moves(t),
         NEW n \in CmNodes, cmAt[t].node = n, cmAt'[t].node = n,
         NEW s \in CmStates \ {"no_op"}, NEW next, Exiting(t, s, next),
         Present(n, s), cmCounter[n][s] > 1, cmAt'[t].place = next,
         next = "claimed" => ~SomebodyCreatesOrDeletes,
         cmCounter' = [cmCounter EXCEPT ![n][s] = @ - 1],
         UNCHANGED <<cmStatus, cmLists>>
  PROVE  CmBooks'
<1> USE DEF CmBooks
<1>1. /\ CmGrantedCounted' /\ CmDeletersCounted'
      /\ cmCounter'[n][s] = cmCounter[n][s] - 1 /\ cmCounter'[n][s] \in Nat
      /\ \A m \in CmNodes, r \in CmStates : m # n \/ r # s => cmCounter'[m][r] = cmCounter[m][r]
  <2>1. /\ cmCounter[n][s] > 0 /\ s \in CmStates /\ CmGrantedCounted /\ CmDeletersCounted
        /\ cmCounter[n][s] > 1 => cmAt'[t].place = next
        /\ ~(cmCounter[n][s] > 1) => cmAt'[t].place = "leaving"
    BY DEF Present
  <2>2. CmGrantedCounted' /\ CmDeletersCounted'
    BY <2>1, ExitCounts
  <2>3. \A m \in CmNodes, r \in CmStates : m # n \/ r # s => cmCounter'[m][r] = cmCounter[m][r]
    BY <2>1 DEF CmTypeOK
  <2>4. cmCounter'[n][s] = cmCounter[n][s] - 1 /\ cmCounter'[n][s] \in Nat
    BY <2>1 DEF CmTypeOK
  <2> QED
    BY <2>2, <2>3, <2>4
<1>2. /\ \A m, r : ~Entering(t, m, r) /\ ~Entering(t, m, r)'
      /\ \A m, r : ~Leaving(t, m, r) /\ ~Leaving(t, m, r)'
      /\ PastTheTest(t)' => ~SomebodyCreatesOrDeletes
  BY DEF Exiting, Entering, Leaving, PastTheTest, CmIs
<1>3. \A u \in CmClients : \A m, r : /\ Entering(u, m, r)' <=> Entering(u, m, r)
                                     /\ Leaving(u, m, r)' <=> Leaving(u, m, r)
  BY <1>2, OneMoves
<1>4. /\ \A m, r : Listed(m, r)' <=> Listed(m, r)
      /\ SomebodyCreatesOrDeletes' <=> SomebodyCreatesOrDeletes
  BY DEF Listed, SomebodyCreatesOrDeletes
<1>5. cmCounter[n][s] \in Nat
  BY DEF CmTypeOK
<1>6. \A u \in CmClients : ~Entering(u, n, s) /\ ~Leaving(u, n, s)
  BY <1>5 DEF CmHalfWay, Present
<1>7. CmHalfWay'
  <2>1. ASSUME NEW u \in CmClients, NEW m \in CmNodes, NEW r \in CmStates,
               Entering(u, m, r) \/ Leaving(u, m, r)
        PROVE  cmCounter'[m][r] = cmCounter[m][r]
    BY <2>1, <1>1, <1>6
  <2> QED
    BY <2>1, <1>3, <1>4 DEF CmHalfWay
<1>8. CmSettled'
  <2> SUFFICES ASSUME NEW m \in CmNodes, NEW r \in CmStates
               PROVE  /\ Present(m, r) => Present(m, r)'
                      /\ Absent(m, r) => Absent(m, r)'
    BY <1>3 DEF CmSettled
  <2>1. CASE m = n /\ r = s
    BY <2>1, <1>1, <1>5 DEF Present, Absent
  <2>2. CASE m # n \/ r # s
    BY <2>2, <1>1 DEF Present, Absent
  <2> QED
    BY <2>1, <2>2
<1>9. CmListedOnce' /\ CmReadOrWrite'
  BY DEF CmListedOnce, CmReadOrWrite
<1>10. CmNoOpAlone'
  BY <1>3 DEF CmNoOpAlone
<1>11. CmOneListed'
  BY <1>2, <1>4, OneMoves DEF CmOneListed
<1> QED
  BY <1>1, <1>7, <1>8, <1>9, <1>10, <1>11

\* The last client to leave a state takes the flag away; the list comes later.
LEMMA LeaveBooks ==
  ASSUME CmTypeOK, CmBooks, NEW t \in CmClients, Moves(t),
         NEW n \in CmNodes, cmAt[t].node = n, cmAt'[t].node = n,
         NEW s \in CmStates \ {"no_op"}, NEW next, Exiting(t, s, next),
         Present(n, s), ~(cmCounter[n][s] > 1),
         cmAt'[t].place = "leaving", cmAt'[t].aim = s, cmAt'[t].next = next,
         next = "claimed" => ~SomebodyCreatesOrDeletes,
         cmCounter' = [cmCounter EXCEPT ![n][s] = @ - 1],
         cmStatus' = [cmStatus EXCEPT ![n] = @ \ {s}],
         UNCHANGED cmLists
  PROVE  CmBooks'
<1> USE DEF CmBooks
<1>1. /\ CmGrantedCounted' /\ CmDeletersCounted'
      /\ cmCounter'[n][s] = cmCounter[n][s] - 1
      /\ \A m \in CmNodes, r \in CmStates : m # n \/ r # s => cmCounter'[m][r] = cmCounter[m][r]
  <2>1. /\ cmCounter[n][s] > 0 /\ s \in CmStates /\ CmGrantedCounted /\ CmDeletersCounted
        /\ cmCounter[n][s] > 1 => cmAt'[t].place = next
        /\ ~(cmCounter[n][s] > 1) => cmAt'[t].place = "leaving"
    BY DEF Present
  <2>2. CmGrantedCounted' /\ CmDeletersCounted'
    BY <2>1, ExitCounts
  <2>3. \A m \in CmNodes, r \in CmStates : m # n \/ r # s => cmCounter'[m][r] = cmCounter[m][r]
    BY <2>1 DEF CmTypeOK
  <2>4. cmCounter'[n][s] = cmCounter[n][s] - 1 /\ cmCounter'[n][s] \in Nat
    BY <2>1 DEF CmTypeOK
  <2> QED
    BY <2>2, <2>3, <2>4
<1>2. cmCounter[n][s] = 1 /\ cmCounter'[n][s] = 0
  BY <1>1 DEF CmTypeOK, Present
<1>3. \A m \in CmNodes : \A r : r \in cmStatus'[m] <=> r \in cmStatus[m] /\ ~(m = n /\ r = s)
  BY DEF CmTypeOK
<1>4. /\ \A m, r : ~Entering(t, m, r) /\ ~Entering(t, m, r)' /\ ~Leaving(t, m, r)
      /\ \A m, r : Leaving(t, m, r)' <=> m = n /\ r = s
      /\ PastTheTest(t)' => ~SomebodyCreatesOrDeletes
  BY DEF Exiting, Entering, Leaving, PastTheTest, CmIs, CmNode
<1>5. /\ \A u \in CmClients : \A m, r : Entering(u, m, r)' <=> Entering(u, m, r)
      /\ \A u \in CmClients \ {t} : \A m, r : Leaving(u, m, r)' <=> Leaving(u, m, r)
  BY <1>4, OneMoves
<1>6. /\ \A m, r : Listed(m, r)' <=> Listed(m, r)
      /\ SomebodyCreatesOrDeletes' <=> SomebodyCreatesOrDeletes
      /\ Listed(n, s)
  BY DEF Listed, SomebodyCreatesOrDeletes, Present
<1>7. \A u \in CmClients : ~Entering(u, n, s) /\ ~Leaving(u, n, s)
  BY <1>2 DEF CmHalfWay
<1>8. CmHalfWay'
  <2>1. ASSUME NEW u \in CmClients, NEW m \in CmNodes, NEW r \in CmStates,
               Entering(u, m, r) \/ Leaving(u, m, r)
        PROVE  /\ cmCounter'[m][r] = cmCounter[m][r]
               /\ r \in cmStatus'[m] <=> r \in cmStatus[m]
    BY <2>1, <1>1, <1>3, <1>7
  <2> QED
    BY <2>1, <1>2, <1>3, <1>4, <1>5, <1>6, <1>7 DEF CmHalfWay
<1>9. CmSettled'
  <2> SUFFICES ASSUME NEW m \in CmNodes, NEW r \in CmStates
               PROVE  (Present(m, r) \/ Absent(m, r)
                         \/ \E u \in CmClients : Entering(u, m, r) \/ Leaving(u, m, r))'
    BY DEF CmSettled
  <2>1. CASE m = n /\ r = s
    BY <2>1, <1>4
  <2>2. CASE m # n \/ r # s
    <3>1. (Present(m, r)' <=> Present(m, r)) /\ (Absent(m, r)' <=> Absent(m, r))
      BY <2>2, <1>1, <1>3 DEF Present, Absent
    <3>2. CASE Present(m, r) \/ Absent(m, r)
      BY <3>1, <3>2
    <3>3. CASE \E u \in CmClients : Entering(u, m, r) \/ Leaving(u, m, r)
      <4>1. PICK u \in CmClients : Entering(u, m, r) \/ Leaving(u, m, r)
        BY <3>3
      <4>2. u # t
        BY <4>1, <1>4
      <4> QED
        BY <4>1, <4>2, <1>5, Zenon
    <3> QED
      BY <3>2, <3>3 DEF CmSettled
  <2> QED
    BY <2>1, <2>2
<1>10. CmListedOnce' /\ CmReadOrWrite'
  BY <1>3 DEF CmListedOnce, CmReadOrWrite
<1>11. CmNoOpAlone'
  <2> SUFFICES ASSUME NEW m \in CmNodes, NEW r \in cmStatus'[m] \ {"no_op"}, "no_op" \in cmStatus'[m]
               PROVE  \E u \in CmClients : Entering(u, m, r)'
    BY DEF CmNoOpAlone
  <2>1. r \in cmStatus[m] \ {"no_op"} /\ "no_op" \in cmStatus[m]
    BY <1>3
  <2>2. PICK u \in CmClients : Entering(u, m, r)
    BY <2>1 DEF CmNoOpAlone
  <2> QED
    BY <2>2, <1>5, Zenon
<1>12. CmOneListed'
  BY <1>4, <1>6, OneMoves DEF CmOneListed
<1> QED
  BY <1>1, <1>8, <1>9, <1>10, <1>11, <1>12

\* Nobody is half way into or out of the state without operation.
LEMMA NoOpNotHalfWay ==
  ASSUME CmTypeOK, NEW u \in CmClients
  PROVE  \A m : ~Entering(u, m, "no_op") /\ ~Leaving(u, m, "no_op")
<1>1. <<"no_op", cmAt[u].next>> \notin Entries(u) /\ <<"no_op", cmAt[u].next>> \notin Exits(u)
  BY Parts
<1> QED
  BY <1>1, HalfWayOf DEF Entering, Leaving, CmIs

\* The second half of an exit: the list, and the state without operation if
\* nobody uses the node.
LEMMA DelistBooks ==
  ASSUME CmTypeOK, CmBooks, NEW t \in CmClients, Moves(t),
         NEW n \in CmNodes, NEW s \in CmStates \ {"no_op"}, Leaving(t, n, s),
         NEW next, <<s, next>> \in Exits(t), cmAt[t].next = next,
         cmAt'[t].node = n, cmAt'[t].place = next,
         \/ /\ cmLists' = [cmLists EXCEPT ![s] = remove_glthread(@, n)]
            /\ UNCHANGED <<cmStatus, cmCounter>>
         \/ /\ ~crud_node_in_use(cmStatus[n]) /\ Absent(n, "no_op")
            /\ cmLists' = [cmLists EXCEPT ![s] = remove_glthread(@, n), !["no_op"] = <<n>> \o @]
            /\ cmCounter' = [cmCounter EXCEPT ![n]["no_op"] = 1]
            /\ cmStatus' = [cmStatus EXCEPT ![n] = @ \cup {"no_op"}]
  PROVE  CmBooks'
<1> USE DEF CmBooks
<1> DEFINE unused == /\ ~crud_node_in_use(cmStatus[n]) /\ Absent(n, "no_op")
                     /\ cmLists' = [cmLists EXCEPT ![s] = remove_glthread(@, n), !["no_op"] = <<n>> \o @]
                     /\ cmCounter' = [cmCounter EXCEPT ![n]["no_op"] = 1]
                     /\ cmStatus' = [cmStatus EXCEPT ![n] = @ \cup {"no_op"}]
           used == /\ cmLists' = [cmLists EXCEPT ![s] = remove_glthread(@, n)]
                   /\ UNCHANGED <<cmStatus, cmCounter>>
<1>0. /\ cmAt[t].node = n /\ cmAt[t].place = "leaving" /\ cmAt[t].aim = s
      /\ "no_op" \in CmStates /\ s \in CmStates /\ s # "no_op"
  BY DEF Leaving, CmNode, CmIs, CmStates
<1>1. s \notin cmStatus[n] /\ cmCounter[n][s] = 0 /\ Listed(n, s)
  BY DEF CmHalfWay
<1>2. \A r \in CmStates : cmLists[r] \in Seq(CmNodes) /\ IsInjective(cmLists[r])
  BY DEF CmTypeOK, CmListedOnce
<1>3. /\ \A m \in CmNodes, r \in CmStates :
            m # n \/ r # "no_op" => /\ cmCounter'[m][r] = cmCounter[m][r]
                                    /\ r \in cmStatus'[m] <=> r \in cmStatus[m]
  BY DEF CmTypeOK
<1>4. /\ remove_glthread(cmLists[s], n) \in Seq(CmNodes)
      /\ IsInjective(remove_glthread(cmLists[s], n))
      /\ \A m : Contains(remove_glthread(cmLists[s], n), m) <=> Contains(cmLists[s], m) /\ m # n
  BY <1>0, <1>2, ListWithout
<1>5. cmLists'[s] = remove_glthread(cmLists[s], n)
  BY <1>0 DEF CmTypeOK
<1>6. /\ \A m : Listed(m, s)' <=> Listed(m, s) /\ m # n
      /\ IsInjective(cmLists'[s])
  BY <1>4, <1>5, Zenon DEF Listed
<1>7. \A r \in CmStates \ {s, "no_op"} : cmLists'[r] = cmLists[r]
  BY DEF CmTypeOK
<1>8. \A m, r : r \in CmStates \ {s, "no_op"} => (Listed(m, r)' <=> Listed(m, r))
  BY <1>7 DEF Listed
<1>9. /\ IsInjective(cmLists'["no_op"])
      /\ \A m : m # n => (Listed(m, "no_op")' <=> Listed(m, "no_op"))
      /\ \/ /\ cmStatus' = cmStatus /\ cmCounter' = cmCounter
            /\ Listed(n, "no_op")' <=> Listed(n, "no_op")
         \/ /\ cmStatus[n] = {} /\ cmStatus'[n] = {"no_op"} /\ Present(n, "no_op")'
  <2>1. CASE unused
    <3>1. cmStatus[n] = {} /\ cmStatus'[n] = {"no_op"} /\ cmCounter'[n]["no_op"] = 1
      BY <1>0, <2>1 DEF CmTypeOK, crud_node_in_use, Absent, CmStates
    <3>2. /\ IsInjective(<<n>> \o cmLists["no_op"])
          /\ \A m : Contains(<<n>> \o cmLists["no_op"], m) <=> m = n \/ Contains(cmLists["no_op"], m)
      BY <1>0, <1>2, <2>1, ListWith DEF Absent
    <3>3. cmLists'["no_op"] = <<n>> \o cmLists["no_op"]
      BY <1>0, <2>1 DEF CmTypeOK
    <3>4. /\ IsInjective(cmLists'["no_op"])
          /\ \A m : Listed(m, "no_op")' <=> m = n \/ Listed(m, "no_op")
      BY <3>2, <3>3, Zenon DEF Listed
    <3>5. cmCounter'[n]["no_op"] > 0 /\ Listed(n, "no_op")' /\ "no_op" \in cmStatus'[n]
      BY <3>1, <3>4
    <3>6. Present(n, "no_op")'
      BY <3>5, Zenon DEF Present, Listed
    <3> QED
      BY <3>1, <3>4, <3>6
  <2>2. CASE used
    <3>1. cmLists'["no_op"] = cmLists["no_op"]
      BY <1>0, <2>2 DEF CmTypeOK
    <3>2. /\ IsInjective(cmLists'["no_op"])
          /\ \A m : Listed(m, "no_op")' <=> Listed(m, "no_op")
      BY <3>1, <1>0, <1>2, Zenon DEF Listed
    <3> QED
      BY <3>2, <2>2
  <2> QED
    BY <2>1, <2>2
<1> HIDE DEF unused, used
<1>10. /\ \A m, r : ~Entering(t, m, r) /\ ~Entering(t, m, r)' /\ ~Leaving(t, m, r)'
       /\ \A m, r : Leaving(t, m, r) <=> m = n /\ r = s
       /\ PastTheTest(t)' => PastTheTest(t)
  BY <1>0, Parts DEF Entering, Leaving, PastTheTest, CmIs, CmNode
<1>11. /\ \A u \in CmClients : \A m, r : Entering(u, m, r)' <=> Entering(u, m, r)
       /\ \A u \in CmClients : \A m, r : Leaving(u, m, r)' <=> Leaving(u, m, r) /\ u # t
  BY <1>10, OneMoves
<1>12. \A u \in CmClients \ {t} : ~Entering(u, n, s) /\ ~Leaving(u, n, s)
  BY DEF CmHalfWay
<1>13. CmHalfWay'
  <2>1. ASSUME NEW u \in CmClients \ {t}, NEW m \in CmNodes, NEW r \in CmStates,
               Entering(u, m, r) \/ Leaving(u, m, r)
        PROVE  /\ cmCounter'[m][r] = cmCounter[m][r] /\ (Listed(m, r)' <=> Listed(m, r))
               /\ r \in cmStatus'[m] <=> r \in cmStatus[m]
    <3>1. r # "no_op" /\ ~(m = n /\ r = s)
      BY <2>1, <1>12, NoOpNotHalfWay
    <3> QED
      BY <3>1, <1>3, <1>6, <1>8
  <2> QED
    BY <2>1, <1>10, <1>11 DEF CmHalfWay
<1>14. CmSettled'
  <2> SUFFICES ASSUME NEW m \in CmNodes, NEW r \in CmStates
               PROVE  (Present(m, r) \/ Absent(m, r)
                         \/ \E u \in CmClients : Entering(u, m, r) \/ Leaving(u, m, r))'
    BY DEF CmSettled
  <2>1. CASE m = n /\ r = s
    <3>1. cmCounter'[m][r] = 0 /\ r \notin cmStatus'[m] /\ ~Listed(m, r)'
      BY <2>1, <1>0, <1>1, <1>3, <1>6
    <3>2. Absent(m, r)'
      BY <3>1, Zenon DEF Absent, Listed
    <3> QED
      BY <3>2
  <2>2. CASE m = n /\ r = "no_op" /\ Present(n, "no_op")'
    BY <2>2
  <2>3. CASE ~(m = n /\ r = s) /\ ~(m = n /\ r = "no_op" /\ Present(n, "no_op")')
    <3>1. /\ cmCounter'[m][r] = cmCounter[m][r] /\ (Listed(m, r)' <=> Listed(m, r))
          /\ r \in cmStatus'[m] <=> r \in cmStatus[m]
      BY <2>3, <1>0, <1>3, <1>6, <1>8, <1>9
    <3>2. (Present(m, r)' <=> Present(m, r)) /\ (Absent(m, r)' <=> Absent(m, r))
      BY <3>1 DEF Present, Absent, Listed
    <3>3. CASE Present(m, r) \/ Absent(m, r)
      BY <3>2, <3>3
    <3>4. CASE \E u \in CmClients : Entering(u, m, r) \/ Leaving(u, m, r)
      <4>1. PICK u \in CmClients : Entering(u, m, r) \/ Leaving(u, m, r)
        BY <3>4
      <4>2. Leaving(u, m, r) => u # t
        BY <2>3, <1>10
      <4> QED
        BY <4>1, <4>2, <1>11, Zenon
    <3> QED
      BY <3>3, <3>4 DEF CmSettled
  <2> QED
    BY <2>1, <2>2, <2>3, Zenon
<1>15. CmListedOnce'
  BY <1>2, <1>6, <1>7, <1>9 DEF CmListedOnce
<1>16. CmReadOrWrite'
  BY <1>9, <1>3 DEF CmReadOrWrite, CmStates, CmInProgress
<1>17. CmNoOpAlone'
  <2> SUFFICES ASSUME NEW m \in CmNodes, NEW r \in cmStatus'[m] \ {"no_op"}, "no_op" \in cmStatus'[m]
               PROVE  \E u \in CmClients : Entering(u, m, r)'
    BY DEF CmNoOpAlone
  <2>1. r \in cmStatus[m] \ {"no_op"} /\ "no_op" \in cmStatus[m]
    <3>1. CASE m = n
      BY <3>1, <1>9
    <3>2. CASE m # n
      <4>1. cmStatus'[m] = cmStatus[m]
        BY <3>2 DEF CmTypeOK
      <4> QED
        BY <4>1
    <3> QED
      BY <3>1, <3>2
  <2>2. PICK u \in CmClients : Entering(u, m, r)
    BY <2>1 DEF CmNoOpAlone
  <2> QED
    BY <2>2, <1>11, Zenon
<1>18. CmGrantedCounted' /\ CmDeletersCounted'
  <2>1. Uncounted(t) /\ Uncounted(t)'
    BY <1>0, Parts DEF Uncounted
  <2>2. \A r \in CmInProgress \cup {"pending_delete"} : r \in CmStates /\ r # "no_op"
    BY DEF CmInProgress, CmPending, CmStates
  <2>3. \A m \in CmNodes, r \in CmInProgress \cup {"pending_delete"} :
           cmCounter'[m][r] = cmCounter[m][r]
    BY <2>2, <1>3
  <2> QED
    BY <2>1, <2>3, UncountedMove DEF CmGrantedCounted, CmDeletersCounted
<1>19. CmOneListed'
  <2>1. Build \subseteq CmStates \ {"no_op"}
    BY DEF Build, CmStates, CmInProgress
  <2>2. \A m, r : r \in Build => (Listed(m, r)' => Listed(m, r))
    BY <2>1, <1>6, <1>8
  <2>3. ASSUME NEW u \in CmClients, PastTheTest(u)' PROVE ~SomebodyCreatesOrDeletes'
    <3>1. PastTheTest(u)
      BY <2>3, <1>10, OneMoves
    <3>2. cmLists["create_in_progress"] = <<>> /\ cmLists["delete_in_progress"] = <<>>
      BY <3>1 DEF CmOneListed, SomebodyCreatesOrDeletes
    <3>3. s \notin Build
      BY <3>2, <1>1 DEF Listed, Contains, Build
    <3>4. \A r \in Build : cmLists'[r] = cmLists[r]
      BY <3>3, <2>1, <1>7
    <3> QED
      BY <3>2, <3>4 DEF SomebodyCreatesOrDeletes, Build
  <2> QED
    BY <2>2, <2>3 DEF CmOneListed
<1> QED
  BY <1>13, <1>14, <1>15, <1>16, <1>17, <1>18, <1>19

\* A new node: in the state without operation, and in its list.
LEMMA BirthBooks ==
  ASSUME CmTypeOK, CmBooks, NEW t \in CmClients, Moves(t), t \notin CmDeleters,
         NEW n \in CmNodes, cmStatus[n] = {}, \A u \in CmClients : CmNode(u) # n,
         cmAt[t].place = "idle", cmAt'[t].place = "to_mgr",
         cmStatus' = [cmStatus EXCEPT ![n] = {"no_op"}],
         cmCounter' = [cmCounter EXCEPT ![n]["no_op"] = 1],
         cmLists' = [cmLists EXCEPT !["no_op"] = <<n>> \o @]
  PROVE  CmBooks'
<1> USE DEF CmBooks
<1>0. "no_op" \in CmStates
  BY DEF CmStates
<1>1. Absent(n, "no_op")
  <2>1. \A u \in CmClients : ~Entering(u, n, "no_op") /\ ~Leaving(u, n, "no_op")
    BY NoOpNotHalfWay
  <2> QED
    BY <1>0, <2>1 DEF CmSettled, Present
<1>2. \A r \in CmStates : cmLists[r] \in Seq(CmNodes) /\ IsInjective(cmLists[r])
  BY DEF CmTypeOK, CmListedOnce
<1>3. \A m \in CmNodes, r \in CmStates :
            m # n \/ r # "no_op" => /\ cmCounter'[m][r] = cmCounter[m][r]
                                    /\ r \in cmStatus'[m] <=> r \in cmStatus[m]
  BY DEF CmTypeOK
<1>4. /\ IsInjective(<<n>> \o cmLists["no_op"])
      /\ \A m : Contains(<<n>> \o cmLists["no_op"], m) <=> m = n \/ Contains(cmLists["no_op"], m)
  BY <1>0, <1>1, <1>2, ListWith DEF Absent
<1>5. /\ cmLists'["no_op"] = <<n>> \o cmLists["no_op"]
      /\ \A r \in CmStates \ {"no_op"} : cmLists'[r] = cmLists[r]
  BY <1>0 DEF CmTypeOK
<1>6. /\ IsInjective(cmLists'["no_op"])
      /\ \A m : Listed(m, "no_op")' <=> m = n \/ Listed(m, "no_op")
  BY <1>4, <1>5, Zenon DEF Listed
<1>7. \A m, r : r \in CmStates \ {"no_op"} => (Listed(m, r)' <=> Listed(m, r))
  BY <1>5 DEF Listed
<1>8. Present(n, "no_op")'
  <2>1. cmCounter'[n]["no_op"] > 0 /\ "no_op" \in cmStatus'[n] /\ Listed(n, "no_op")'
    BY <1>0, <1>6 DEF CmTypeOK
  <2> QED
    BY <2>1, Zenon DEF Present, Listed
<1>9. /\ \A m, r : ~Entering(t, m, r) /\ ~Entering(t, m, r)'
      /\ \A m, r : ~Leaving(t, m, r) /\ ~Leaving(t, m, r)'
      /\ ~PastTheTest(t) /\ ~PastTheTest(t)'
  BY DEF Entering, Leaving, PastTheTest, CmIs
<1>10. \A u \in CmClients : \A m, r : /\ Entering(u, m, r)' <=> Entering(u, m, r)
                                      /\ Leaving(u, m, r)' <=> Leaving(u, m, r)
  BY <1>9, OneMoves
<1>11. CmHalfWay'
  <2>1. ASSUME NEW u \in CmClients, NEW m \in CmNodes, NEW r \in CmStates,
               Entering(u, m, r) \/ Leaving(u, m, r)
        PROVE  /\ cmCounter'[m][r] = cmCounter[m][r] /\ (Listed(m, r)' <=> Listed(m, r))
               /\ r \in cmStatus'[m] <=> r \in cmStatus[m]
    <3>1. r # "no_op"
      BY <2>1, NoOpNotHalfWay
    <3> QED
      BY <3>1, <1>3, <1>7
  <2> QED
    BY <2>1, <1>10 DEF CmHalfWay
<1>12. CmSettled'
  <2> SUFFICES ASSUME NEW m \in CmNodes, NEW r \in CmStates
               PROVE  (Present(m, r) \/ Absent(m, r)
                         \/ \E u \in CmClients : Entering(u, m, r) \/ Leaving(u, m, r))'
    BY DEF CmSettled
  <2>1. CASE m = n /\ r = "no_op"
    BY <2>1, <1>8
  <2>2. CASE m # n \/ r # "no_op"
    <3>1. /\ cmCounter'[m][r] = cmCounter[m][r] /\ (Listed(m, r)' <=> Listed(m, r))
          /\ r \in cmStatus'[m] <=> r \in cmStatus[m]
      BY <2>2, <1>3, <1>6, <1>7
    <3>2. (Present(m, r)' <=> Present(m, r)) /\ (Absent(m, r)' <=> Absent(m, r))
      BY <3>1 DEF Present, Absent, Listed
    <3>3. CASE Present(m, r) \/ Absent(m, r)
      BY <3>2, <3>3
    <3>4. CASE \E u \in CmClients : Entering(u, m, r) \/ Leaving(u, m, r)
      <4>1. PICK u \in CmClients : Entering(u, m, r) \/ Leaving(u, m, r)
        BY <3>4
      <4> QED
        BY <4>1, <1>10, Zenon
    <3> QED
      BY <3>3, <3>4 DEF CmSettled
  <2> QED
    BY <2>1, <2>2
<1>13. CmListedOnce'
  BY <1>2, <1>5, <1>6 DEF CmListedOnce
<1>14. CmReadOrWrite'
  BY <1>3 DEF CmReadOrWrite, CmStates, CmInProgress
<1>15. CmNoOpAlone'
  <2> SUFFICES ASSUME NEW m \in CmNodes, NEW r \in cmStatus'[m] \ {"no_op"}, "no_op" \in cmStatus'[m]
               PROVE  \E u \in CmClients : Entering(u, m, r)'
    BY DEF CmNoOpAlone
  <2>1. r \in cmStatus[m] \ {"no_op"} /\ "no_op" \in cmStatus[m]
    BY DEF CmTypeOK
  <2>2. PICK u \in CmClients : Entering(u, m, r)
    BY <2>1 DEF CmNoOpAlone
  <2> QED
    BY <2>2, <1>10, Zenon
<1>16. CmGrantedCounted' /\ CmDeletersCounted'
  <2>1. Uncounted(t) /\ Uncounted(t)'
    BY DEF Uncounted
  <2>2. \A r \in CmInProgress \cup {"pending_delete"} : r \in CmStates /\ r # "no_op"
    BY DEF CmInProgress, CmPending, CmStates
  <2>3. \A m \in CmNodes, r \in CmInProgress \cup {"pending_delete"} :
           cmCounter'[m][r] = cmCounter[m][r]
    BY <2>2, <1>3
  <2> QED
    BY <2>1, <2>3, UncountedMove DEF CmGrantedCounted, CmDeletersCounted
<1>17. CmOneListed'
  <2>1. Build \subseteq CmStates \ {"no_op"}
    BY DEF Build, CmStates, CmInProgress
  <2>2. \A r \in Build : cmLists'[r] = cmLists[r]
    BY <2>1, <1>5
  <2>3. /\ \A m, r : r \in Build => (Listed(m, r)' <=> Listed(m, r))
        /\ SomebodyCreatesOrDeletes' <=> SomebodyCreatesOrDeletes
    BY <2>2 DEF Listed, SomebodyCreatesOrDeletes, Build
  <2>4. \A u \in CmClients : PastTheTest(u)' => PastTheTest(u)
    BY <1>9, OneMoves
  <2> QED
    BY <2>3, <2>4 DEF CmOneListed
<1> QED
  BY <1>11, <1>12, <1>13, <1>14, <1>15, <1>16, <1>17

-----------------------------------------------------------------------------
\* The steps.  A client whose place does not need a mutex gives it back.
OthersKeepTheirs(t) ==
    /\ cmMutex' \in [CmNodes -> CmClients \cup {NoClient}]
    /\ cmMgr' \in CmClients \cup {NoClient}
    /\ \A n \in CmNodes : cmMutex'[n] = cmMutex[n] \/ cmMutex[n] \in {t, NoClient}
    /\ cmMgr' = cmMgr \/ cmMgr \in {t, NoClient}

\* Who takes or gives back its own mutexes leaves the others theirs.
LEMMA GivesBack ==
  ASSUME CmTypeOK, NEW t \in CmClients, NEW place, GiveBack(t, place)
  PROVE  /\ OthersKeepTheirs(t)
         /\ place \in HoldsNode => cmMutex' = cmMutex
         /\ place \in HoldsMgr => cmMgr' = cmMgr
<1>1. CASE place \in HoldsNode
  BY <1>1 DEF GiveBack, OthersKeepTheirs, CmTypeOK
<1>2. CASE place \notin HoldsNode
  <2>1. cmMutex' = [n \in CmNodes |-> IF cmMutex[n] = t THEN NoClient ELSE cmMutex[n]]
    BY <1>2 DEF GiveBack
  <2> QED
    BY <1>2, <2>1 DEF GiveBack, OthersKeepTheirs, CmTypeOK
<1> QED
  BY <1>1, <1>2

\* Nor does a step that touches no mutex take any away.
LEMMA UntouchedMutexes ==
  ASSUME CmTypeOK, NEW t \in CmClients, UNCHANGED <<cmMutex, cmMgr>>
  PROVE  OthersKeepTheirs(t)
BY DEF OthersKeepTheirs, CmTypeOK

\* A failed assertion leaves the books as they are.
LEMMA FailInv ==
  ASSUME CmInv, NEW t \in CmClients, CmFail, OthersKeepTheirs(t)
  PROVE  CmInv'
<1> USE DEF CmInv
<1>1. Moves(t) /\ Calm(t) /\ UNCHANGED <<cmStatus, cmCounter, cmLists>> /\ cmAborted' = TRUE
  BY DEF CmFail, cmNodeVars, Moves, Calm, CmTypeOK
<1>2. CmBooks'
  BY <1>1, CalmBooks
<1>3. CmClientOK(t)'
  BY DEF CmFail, CmTypeOK, CmClientOK, CmIs, CmNode
<1>4. CmTypeOK'
  <2>1. /\ cmStatus' \in [CmNodes -> SUBSET CmStates]
        /\ cmCounter' \in [CmNodes -> [CmStates -> Nat]]
        /\ cmLists' \in [CmStates -> Seq(CmNodes)]
        /\ cmEnrolled' \in SUBSET CmNodes /\ cmAborted' \in BOOLEAN
    BY <1>1 DEF CmFail, cmAppVars, CmTypeOK
  <2> QED
    BY <1>1, <1>3, <2>1, TypesMove DEF OthersKeepTheirs
<1> QED
  BY <1>1, <1>2, <1>4

\* An assertion that fails stops everybody where it is.
LEMMA AbortInv ==
  ASSUME CmInv, NEW t \in CmClients, CmAbort
  PROVE  CmInv'
BY FailInv, UntouchedMutexes DEF CmAbort, CmInv

\* Steps that the books do not notice.
LEMMA CalmInv ==
  ASSUME CmInv, ~cmAborted, NEW t \in CmClients, Moves(t), Calm(t), CmClientOK(t)',
         UNCHANGED <<cmStatus, cmCounter, cmLists>>, OthersKeepTheirs(t),
         cmEnrolled' \in SUBSET CmNodes, cmAborted' \in BOOLEAN,
         UsesNode(t)' => cmMutex'[cmAt'[t].node] = t,
         UsesMgr(t)' => cmMgr' = t
  PROVE  CmInv'
<1> USE DEF CmInv
<1>1. CmBooks'
  BY CalmBooks
<1>2. CmTypeOK'
  <2>1. /\ cmStatus' \in [CmNodes -> SUBSET CmStates]
        /\ cmCounter' \in [CmNodes -> [CmStates -> Nat]]
        /\ cmLists' \in [CmStates -> Seq(CmNodes)]
    BY DEF CmTypeOK
  <2> QED
    BY <2>1, TypesMove DEF OthersKeepTheirs
<1>3. CmMutexes'
  BY MutexesMove DEF OthersKeepTheirs
<1> QED
  BY <1>1, <1>2, <1>3

\* Who is at a place has its mutex.
LEMMA InHand ==
  ASSUME CmInv, ~cmAborted, NEW t \in CmClients
  PROVE  /\ UsesNode(t) => cmMutex[cmAt[t].node] = t
         /\ UsesMgr(t) => cmMgr = t
         /\ cmAt[t] \in CmRecords
         /\ CmClientOK(t)
         /\ ~CmIs(t, "idle") => cmAt[t].node \in CmNodes
BY DEF CmInv, CmMutexes, CmNode, CmTypeOK, CmClientOK

\* A deleter that was counted keeps the counter above zero.
LEMMA CountedIsPositive ==
  ASSUME CmInv, NEW t \in CmDeleters, NEW n \in CmNodes, cmAt[t].node = n,
         cmAt[t].place = "claim"
  PROVE  cmCounter[n]["pending_delete"] > 0
<1>1. t \in CountedOnce(n) /\ t \in CmClients
  BY DEF CountedOnce, CmNode, CmClients
<1>2. CountedOnce(n) \in SUBSET CmClients /\ CountedTwice(n) \in SUBSET CmClients
  BY DEF CountedOnce, CountedTwice, CmClients
<1>3. Cardinality(CountedOnce(n)) \in Nat /\ Cardinality(CountedTwice(n)) \in Nat
      /\ Cardinality(CountedOnce(n)) > 0
  BY <1>1, <1>2, CountsMove
<1>4. cmCounter[n]["pending_delete"] = Cardinality(CountedOnce(n)) + Cardinality(CountedTwice(n))
  BY DEF CmInv, CmBooks, CmDeletersCounted
<1> QED
  BY <1>3, <1>4

\* A client enters a state from a place where it has the mutex for it.
LEMMA EnterInv ==
  ASSUME CmInv, ~cmAborted, NEW t \in CmClients, NEW n \in CmNodes, cmAt[t].node = n,
         NEW s \in CmStates \ {"no_op"}, NEW next, crud_node_enter_state(t, n, s, next),
         cmAt[t].place \in {"deciding", "claim", "claimed"},
         \/ /\ <<s, next>> \in Entries(t)
            /\ cmAt[t].place = "deciding" <=> s \in UnderNode
            /\ cmAt[t].place = "claim" => t \notin CmDeleters
         \/ /\ cmAt[t].place = "claim" /\ t \in CmDeleters
            /\ s = "pending_delete" /\ next = "delete_thread_cv_mgr",
         s = "read_in_progress" => "write_in_progress" \notin cmStatus[n],
         s = "write_in_progress" => "read_in_progress" \notin cmStatus[n],
         s \in Build => ~SomebodyCreatesOrDeletes
  PROVE  CmInv'
<1> USE DEF CmInv
<1>0. cmAt[t] \in CmRecords /\ cmAt \in [CmClients -> CmRecords] /\ next \in CmPlaces
  <2>1. next \in {"rdrs_cv", "writers_cv", "delete_thread_cv", "to_mgr", "working",
                  "create_thread_cv", "delete_thread_cv_mgr"}
    BY Parts
  <2> QED
    BY <2>1 DEF CmTypeOK, CmPlaces
<1>1. CASE s \in cmStatus[n] \ EnteredOnce /\ cmCounter' = [cmCounter EXCEPT ![n][s] = @ + 1]
           /\ Goto(t, next) /\ UNCHANGED <<cmStatus, cmOp, cmLists, cmAppVars, cmLeft, cmAborted>>
  <2>1. /\ cmAt' = [cmAt EXCEPT ![t].place = next, ![t].aim = "none", ![t].next = "none"]
        /\ GiveBack(t, next)
    BY <1>1 DEF Goto
  <2>2. cmAt'[t] \in CmRecords
    BY <1>0, <2>1 DEF CmRecords
  <2>3. Moves(t) /\ cmAt'[t].place = next /\ cmAt'[t].node = n
    BY <1>0, <2>1, <2>2 DEF Moves, CmRecords
  <2>4. next \in {"rdrs_cv", "writers_cv", "delete_thread_cv", "to_mgr", "working",
                  "create_thread_cv", "delete_thread_cv_mgr"} /\ next \in PlacesOf(t)
    BY Parts
  <2>5. /\ \/ cmAt[t].place = "deciding" /\ <<s, next>> \in Entries(t) /\ s \in UnderNode
           \/ /\ cmAt[t].place = "claim" /\ t \in CmDeleters
              /\ s = "pending_delete" /\ next = "delete_thread_cv_mgr"
    BY <1>1, Parts DEF EnteredOnce, CmInProgress, UnderNode
  <2>6. \A u \in CmClients : ~Entering(u, n, s)
    <3> SUFFICES ASSUME NEW u \in CmClients, Entering(u, n, s) PROVE FALSE
      OBVIOUS
    <3>1. CASE cmAt[t].place = "deciding"
      <4>1. UsesNode(t) /\ UsesNode(u) /\ cmAt[u].node = n /\ u # t
        BY <2>5, <3>1 DEF UsesNode, HoldsNode, Entering, CmIs, CmNode
      <4> QED
        BY <4>1, InHand
    <3>2. CASE cmAt[t].place = "claim"
      BY <2>5, <3>2, CountedIsPositive DEF CmBooks, CmHalfWay
    <3> QED
      BY <2>5, <3>1, <3>2
  <2>7. CmBooks'
    BY <1>1, <2>3, <2>5, <2>6, JoinBooks
  <2>8. CmClientOK(t)' /\ ~UsesNode(t)' /\ ~UsesMgr(t)'
    BY <2>3, <2>4 DEF CmClientOK, CmIs, CmNode, UsesNode, UsesMgr, HoldsNode, HoldsMgr
  <2>9. OthersKeepTheirs(t)
    BY <2>1, GivesBack
  <2>10. CmTypeOK'
    <3>1. /\ cmStatus' \in [CmNodes -> SUBSET CmStates]
          /\ cmLists' \in [CmStates -> Seq(CmNodes)]
          /\ cmEnrolled' \in SUBSET CmNodes /\ cmAborted' \in BOOLEAN
      BY <1>1 DEF CmTypeOK, cmAppVars
    <3>2. cmCounter' \in [CmNodes -> [CmStates -> Nat]]
      BY <1>1 DEF CmTypeOK
    <3> QED
      BY <2>3, <2>8, <2>9, <3>1, <3>2, TypesMove DEF OthersKeepTheirs
  <2>11. CmMutexes'
    BY <2>3, <2>8, <2>9, MutexesMove DEF OthersKeepTheirs
  <2> QED
    BY <2>7, <2>10, <2>11
<1>2. CASE /\ Absent(n, s)
           /\ cmStatus' = [cmStatus EXCEPT ![n] = @ \cup {s}]
           /\ cmAt' = [cmAt EXCEPT ![t].place = "entering", ![t].aim = s, ![t].next = next]
           /\ UNCHANGED <<cmCounter, cmLists, cmAppVars, cmMutex, cmMgr, cmLeft, cmAborted>>
  <2>1. cmAt'[t] \in CmRecords
    BY <1>0, <1>2 DEF CmRecords, CmPlaces
  <2>2. /\ Moves(t) /\ cmAt'[t].place = "entering" /\ cmAt'[t].node = n
        /\ cmAt'[t].aim = s /\ cmAt'[t].next = next
    BY <1>0, <1>2, <2>1 DEF Moves, CmRecords
  <2>3. /\ <<s, next>> \in Entries(t)
        /\ cmAt[t].place = "deciding" <=> s \in UnderNode
        /\ cmAt[t].place = "claim" => t \notin CmDeleters
    BY <1>2, CountedIsPositive DEF Absent
  <2>4. CmBooks'
    BY <1>2, <2>2, <2>3, EnterBooks
  <2>5. CmClientOK(t)'
    BY <2>2, <2>3 DEF CmClientOK, CmIs, CmNode
  <2>6. /\ UsesNode(t)' => cmMutex'[cmAt'[t].node] = t
        /\ UsesMgr(t)' => cmMgr' = t
    <3>1. UsesNode(t)' => UsesNode(t)
      BY <2>2, <2>3 DEF UsesNode, HoldsNode, CmIs
    <3>2. UsesMgr(t)' => UsesMgr(t)
      BY <2>2, <2>3 DEF UsesMgr, HoldsMgr, CmIs
    <3> QED
      BY <1>2, <2>2, <3>1, <3>2, InHand
  <2>7. OthersKeepTheirs(t)
    BY <1>2, UntouchedMutexes
  <2>8. CmTypeOK'
    <3>1. /\ cmStatus' \in [CmNodes -> SUBSET CmStates]
          /\ cmCounter' \in [CmNodes -> [CmStates -> Nat]]
          /\ cmLists' \in [CmStates -> Seq(CmNodes)]
          /\ cmEnrolled' \in SUBSET CmNodes /\ cmAborted' \in BOOLEAN
      BY <1>2 DEF CmTypeOK, cmAppVars
    <3> QED
      BY <2>2, <2>5, <2>7, <3>1, TypesMove DEF OthersKeepTheirs
  <2>9. CmMutexes'
    BY <2>2, <2>6, <2>7, MutexesMove DEF OthersKeepTheirs
  <2> QED
    BY <2>4, <2>8, <2>9
<1>3. CASE CmAbort
  BY <1>3, AbortInv
<1> QED
  BY <1>1, <1>2, <1>3 DEF crud_node_enter_state

\* A client leaves a state with the mutexes of the place where it goes.
LEMMA ExitInv ==
  ASSUME CmInv, ~cmAborted, NEW t \in CmClients, NEW n \in CmNodes, cmAt[t].node = n,
         NEW s \in CmStates \ {"no_op"}, NEW next, crud_node_exit_state(t, n, s, next),
         Exiting(t, s, next), next = "claimed" => ~SomebodyCreatesOrDeletes,
         OthersKeepTheirs(t),
         next \in HoldsNode => cmMutex'[n] = t,
         next \in HoldsMgr => cmMgr' = t
  PROVE  CmInv'
<1> USE DEF CmInv
<1>0. /\ cmAt[t] \in CmRecords /\ cmAt \in [CmClients -> CmRecords]
      /\ next \in {"deciding", "claim", "claimed", "signalling"}
  BY InHand DEF CmTypeOK, Exiting
<1>1. CASE CmFail
  BY <1>1, FailInv
<1>2. CASE /\ Present(n, s)
           /\ cmCounter' = [cmCounter EXCEPT ![n][s] = @ - 1]
           /\ cmCounter[n][s] > 1
           /\ cmAt' = [cmAt EXCEPT ![t].place = next, ![t].aim = "none", ![t].next = "none"]
           /\ UNCHANGED <<cmStatus, cmOp, cmLists, cmAppVars, cmLeft, cmAborted>>
  <2>1. cmAt'[t] \in CmRecords
    BY <1>0, <1>2 DEF CmRecords, CmPlaces
  <2>2. Moves(t) /\ cmAt'[t].place = next /\ cmAt'[t].node = n
    BY <1>0, <1>2, <2>1 DEF Moves, CmRecords
  <2>3. CmBooks'
    BY <1>2, <2>2, ExitBooks
  <2>4. cmAt[t].place \in PlacesOf(t)
    BY InHand DEF CmClientOK, CmIs, Exiting
  <2>5. next \in PlacesOf(t)
    BY <2>4, Parts DEF Exiting
  <2>6. CmClientOK(t)'
    BY <1>0, <2>2, <2>5 DEF CmClientOK, CmIs, CmNode
  <2>7. /\ UsesNode(t)' => cmMutex'[cmAt'[t].node] = t
        /\ UsesMgr(t)' => cmMgr' = t
    BY <1>0, <2>2 DEF UsesNode, UsesMgr, CmIs
  <2>8. CmTypeOK'
    <3>1. /\ cmStatus' \in [CmNodes -> SUBSET CmStates]
          /\ cmLists' \in [CmStates -> Seq(CmNodes)]
          /\ cmEnrolled' \in SUBSET CmNodes /\ cmAborted' \in BOOLEAN
      BY <1>2 DEF CmTypeOK, cmAppVars
    <3>2. cmCounter' \in [CmNodes -> [CmStates -> Nat]]
      <4>1. cmCounter[n][s] - 1 \in Nat
        BY <1>2 DEF CmTypeOK
      <4> QED
        BY <1>2, <4>1 DEF CmTypeOK
    <3> QED
      BY <2>2, <2>6, <3>1, <3>2, TypesMove DEF OthersKeepTheirs
  <2>9. CmMutexes'
    BY <2>2, <2>7, MutexesMove DEF OthersKeepTheirs
  <2> QED
    BY <2>3, <2>8, <2>9
<1>3. CASE /\ Present(n, s)
           /\ cmCounter' = [cmCounter EXCEPT ![n][s] = @ - 1]
           /\ ~(cmCounter[n][s] > 1)
           /\ cmStatus' = [cmStatus EXCEPT ![n] = @ \ {s}]
           /\ cmAt' = [cmAt EXCEPT ![t].place = "leaving", ![t].aim = s, ![t].next = next]
           /\ UNCHANGED <<cmLists, cmAppVars, cmLeft, cmAborted>>
  <2>1. cmAt'[t] \in CmRecords
    BY <1>0, <1>3 DEF CmRecords, CmPlaces
  <2>2. /\ Moves(t) /\ cmAt'[t].place = "leaving" /\ cmAt'[t].node = n
        /\ cmAt'[t].aim = s /\ cmAt'[t].next = next
    BY <1>0, <1>3, <2>1 DEF Moves, CmRecords
  <2>3. CmBooks'
    BY <1>3, <2>2, LeaveBooks
  <2>4. <<s, next>> \in Exits(t)
    <3>1. cmCounter[n][s] > 0 /\ CmGrantedCounted /\ CmDeletersCounted
      BY <1>3 DEF Present, CmBooks
    <3> QED
      BY <1>3, <2>2, <3>1, ExitCounts
  <2>5. CmClientOK(t)'
    BY <2>2, <2>4 DEF CmClientOK, CmIs, CmNode
  <2>6. /\ UsesNode(t)' => cmMutex'[cmAt'[t].node] = t
        /\ UsesMgr(t)' => cmMgr' = t
    BY <2>2 DEF UsesNode, UsesMgr, CmIs, HoldsNode, HoldsMgr
  <2>7. CmTypeOK'
    <3>1. /\ cmStatus' \in [CmNodes -> SUBSET CmStates]
          /\ cmLists' \in [CmStates -> Seq(CmNodes)]
          /\ cmEnrolled' \in SUBSET CmNodes /\ cmAborted' \in BOOLEAN
      BY <1>3 DEF CmTypeOK, cmAppVars
    <3>2. cmCounter' \in [CmNodes -> [CmStates -> Nat]]
      <4>1. cmCounter[n][s] - 1 \in Nat
        BY <1>3 DEF CmTypeOK, Present
      <4> QED
        BY <1>3, <4>1 DEF CmTypeOK
    <3> QED
      BY <2>2, <2>5, <3>1, <3>2, TypesMove DEF OthersKeepTheirs
  <2>8. CmMutexes'
    BY <2>2, <2>6, MutexesMove DEF OthersKeepTheirs
  <2> QED
    BY <2>3, <2>7, <2>8
<1> QED
  BY <1>1, <1>2, <1>3 DEF crud_node_exit_state
\* The second half of an entry.
LEMMA ListInv ==
  ASSUME CmInv, ~cmAborted, NEW t \in CmClients, enter_listed(t)
  PROVE  CmInv'
<1> USE DEF CmInv
<1> DEFINE n == CmNode(t)
           s == cmAt[t].aim
           next == cmAt[t].next
<1>0. CmIs(t, "entering") /\ <<s, next>> \in Entries(t) /\ n \in CmNodes
  BY HalfWayOf DEF enter_listed, CmNode
<1>1. /\ s \in CmStates \ {"no_op"}
      /\ next \in {"rdrs_cv", "writers_cv", "delete_thread_cv", "to_mgr", "working",
                   "create_thread_cv"}
      /\ next \in PlacesOf(t)
  BY <1>0, Parts DEF CmStates, CmPending, CmInProgress
<1>2. /\ cmCounter' = [cmCounter EXCEPT ![n] = [@ EXCEPT ![s] = 1, !["no_op"] = 0]]
      /\ cmLists' = [cmLists EXCEPT ![s] = <<n>> \o @, !["no_op"] = remove_glthread(@, n)]
      /\ cmStatus' = [cmStatus EXCEPT ![n] = @ \ {"no_op"}]
      /\ cmMgr \in {t, NoClient}
      /\ cmAt' = [cmAt EXCEPT ![t].place = next, ![t].aim = "none", ![t].next = "none"]
      /\ GiveBack(t, next)
      /\ UNCHANGED <<cmOp, cmAppVars, cmLeft, cmAborted>>
  BY DEF enter_listed, Goto
<1>3. cmAt[t] \in CmRecords /\ cmAt \in [CmClients -> CmRecords]
  BY DEF CmTypeOK
<1>4. cmAt'[t] \in CmRecords
  BY <1>1, <1>2, <1>3 DEF CmRecords, CmPlaces
<1>5. Moves(t) /\ cmAt'[t].place = next /\ cmAt'[t].node = n
  BY <1>2, <1>3, <1>4 DEF Moves, CmRecords, CmNode
<1>6. Entering(t, n, s)
  BY <1>0 DEF Entering
<1>7. s \in Build => \A u \in CmClients \ {t} : ~PastTheTest(u)
  <2>1. ASSUME s \in Build, NEW u \in CmClients \ {t}, PastTheTest(u) PROVE FALSE
    <3>1. UsesMgr(u)
      BY ONLY <2>1 DEF PastTheTest, UsesMgr, HoldsMgr, Build, UnderNode, CmIs
    <3> QED
      BY <1>2, <2>1, <3>1, InHand, CrudMgrAssumption
  <2> QED
    BY <2>1
<1>8. CmBooks'
  BY <1>0, <1>1, <1>2, <1>5, <1>6, <1>7, ListBooks
<1>9. CmClientOK(t)' /\ ~UsesNode(t)' /\ ~UsesMgr(t)'
  BY <1>0, <1>1, <1>5 DEF CmClientOK, CmIs, CmNode, UsesNode, UsesMgr, HoldsNode, HoldsMgr
<1>10. OthersKeepTheirs(t)
  BY <1>2, GivesBack
<1>11. CmTypeOK'
  <2>1. /\ cmStatus' \in [CmNodes -> SUBSET CmStates]
        /\ cmEnrolled' \in SUBSET CmNodes /\ cmAborted' \in BOOLEAN
    BY <1>2 DEF CmTypeOK, cmAppVars
  <2>2. cmCounter' \in [CmNodes -> [CmStates -> Nat]]
    BY <1>2 DEF CmTypeOK
  <2>3. cmLists' \in [CmStates -> Seq(CmNodes)]
    <3>1. cmLists[s] \in Seq(CmNodes) /\ "no_op" \in CmStates
      BY <1>1 DEF CmTypeOK, CmStates
    <3>2. <<n>> \o cmLists[s] \in Seq(CmNodes)
      BY <1>0, <3>1
    <3>3. remove_glthread(cmLists["no_op"], n) \in Seq(CmNodes)
      BY <1>0, <3>1, ListWithout DEF CmTypeOK, CmBooks, CmListedOnce
    <3> QED
      BY <1>1, <1>2, <3>2, <3>3 DEF CmTypeOK
  <2> QED
    BY <1>5, <1>9, <1>10, <2>1, <2>2, <2>3, TypesMove DEF OthersKeepTheirs
<1>12. CmMutexes'
  BY <1>5, <1>9, <1>10, MutexesMove DEF OthersKeepTheirs
<1> QED
  BY <1>8, <1>11, <1>12

\* The second half of an exit.
LEMMA DelistInv ==
  ASSUME CmInv, ~cmAborted, NEW t \in CmClients, exit_listed(t)
  PROVE  CmInv'
<1> USE DEF CmInv
<1> DEFINE n == CmNode(t)
           s == cmAt[t].aim
           next == cmAt[t].next
           unused == ~crud_node_in_use(cmStatus[n])
           lists == [cmLists EXCEPT ![s] = remove_glthread(@, n)]
<1>0. CmIs(t, "leaving") /\ <<s, next>> \in Exits(t) /\ n \in CmNodes
  BY HalfWayOf DEF exit_listed, CmNode
<1>1. /\ s \in CmStates \ {"no_op"}
      /\ next \in {"deciding", "claim", "claimed", "signalling"}
      /\ next \in PlacesOf(t)
  BY <1>0, Parts DEF CmStates, CmPending, CmInProgress
<1>2. CASE CmAbort
  BY <1>2, AbortInv
<1>3. CASE /\ ~(unused /\ ~Absent(n, "no_op"))
           /\ cmLists' = IF unused THEN [lists EXCEPT !["no_op"] = <<n>> \o @] ELSE lists
           /\ cmCounter' = IF unused THEN [cmCounter EXCEPT ![n]["no_op"] = 1] ELSE cmCounter
           /\ cmStatus' = IF unused THEN [cmStatus EXCEPT ![n] = @ \cup {"no_op"}] ELSE cmStatus
           /\ cmAt' = [cmAt EXCEPT ![t].place = next, ![t].aim = "none", ![t].next = "none"]
           /\ UNCHANGED <<cmMutex, cmMgr, cmAppVars, cmLeft, cmAborted>>
  <2>1. cmAt[t] \in CmRecords /\ cmAt \in [CmClients -> CmRecords]
    BY DEF CmTypeOK
  <2>2. cmAt'[t] \in CmRecords
    BY <1>1, <1>3, <2>1 DEF CmRecords, CmPlaces
  <2>3. Moves(t) /\ cmAt'[t].place = next /\ cmAt'[t].node = n
    BY <1>3, <2>1, <2>2 DEF Moves, CmRecords, CmNode
  <2>4. Leaving(t, n, s)
    BY <1>0 DEF Leaving
  <2>5. "no_op" \in CmStates /\ cmLists \in [CmStates -> Seq(CmNodes)]
    BY DEF CmTypeOK, CmStates
  <2>6. \/ /\ cmLists' = [cmLists EXCEPT ![s] = remove_glthread(@, n)]
           /\ UNCHANGED <<cmStatus, cmCounter>>
        \/ /\ unused /\ Absent(n, "no_op")
           /\ cmLists' = [cmLists EXCEPT ![s] = remove_glthread(@, n), !["no_op"] = <<n>> \o @]
           /\ cmCounter' = [cmCounter EXCEPT ![n]["no_op"] = 1]
           /\ cmStatus' = [cmStatus EXCEPT ![n] = @ \cup {"no_op"}]
    <3>1. CASE ~unused
      BY ONLY <1>3, <3>1
    <3>2. CASE unused
      <4>1. lists["no_op"] = cmLists["no_op"]
        BY ONLY <1>1, <2>5
      <4>2. /\ cmLists' = [lists EXCEPT !["no_op"] = <<n>> \o lists["no_op"]]
            /\ cmCounter' = [cmCounter EXCEPT ![n]["no_op"] = 1]
            /\ cmStatus' = [cmStatus EXCEPT ![n] = @ \cup {"no_op"}]
            /\ Absent(n, "no_op")
        BY ONLY <1>3, <3>2
      <4>3. cmLists' = [lists EXCEPT !["no_op"] = <<n>> \o cmLists["no_op"]]
        BY ONLY <4>1, <4>2
      <4>4. [lists EXCEPT !["no_op"] = <<n>> \o cmLists["no_op"]]
              = [cmLists EXCEPT ![s] = remove_glthread(@, n), !["no_op"] = <<n>> \o @]
        BY ONLY <1>1, <2>5
      <4> QED
        BY ONLY <3>2, <4>2, <4>3, <4>4
    <3> QED
      BY ONLY <3>1, <3>2
  <2>7. CmBooks'
    BY <1>0, <1>1, <2>3, <2>4, <2>6, DelistBooks
  <2>8. CmClientOK(t)'
    BY <1>0, <1>1, <2>3 DEF CmClientOK, CmIs, CmNode
  <2>9. /\ UsesNode(t)' => cmMutex'[cmAt'[t].node] = t
        /\ UsesMgr(t)' => cmMgr' = t
    <3>1. /\ UsesNode(t)' => UsesNode(t)
          /\ UsesMgr(t)' => UsesMgr(t)
      BY <1>0, <1>1, <2>3 DEF UsesNode, UsesMgr, CmIs
    <3> QED
      BY <1>3, <2>3, <3>1, InHand DEF CmNode
  <2>10. OthersKeepTheirs(t)
    BY <1>3, UntouchedMutexes
  <2>11. CmTypeOK'
    <3>1. cmEnrolled' \in SUBSET CmNodes /\ cmAborted' \in BOOLEAN
      BY <1>3 DEF CmTypeOK, cmAppVars
    <3>2. cmCounter' \in [CmNodes -> [CmStates -> Nat]]
      <4>1. cmCounter \in [CmNodes -> [CmStates -> Nat]]
        BY DEF CmTypeOK
      <4>2. \/ cmCounter' = cmCounter
            \/ cmCounter' = [cmCounter EXCEPT ![n]["no_op"] = 1]
        BY ONLY <2>6
      <4> QED
        BY ONLY <4>1, <4>2
    <3>3. cmStatus' \in [CmNodes -> SUBSET CmStates]
      <4>1. cmStatus \in [CmNodes -> SUBSET CmStates]
        BY DEF CmTypeOK
      <4>2. \/ cmStatus' = cmStatus
            \/ cmStatus' = [cmStatus EXCEPT ![n] = @ \cup {"no_op"}]
        BY ONLY <2>6
      <4> QED
        BY ONLY <2>5, <4>1, <4>2
    <3>4. cmLists' \in [CmStates -> Seq(CmNodes)]
      <4>1. /\ remove_glthread(cmLists[s], n) \in Seq(CmNodes)
            /\ <<n>> \o cmLists["no_op"] \in Seq(CmNodes)
        BY <1>0, <1>1, <2>5, ListWithout DEF CmBooks, CmListedOnce
      <4> QED
        BY <1>1, <2>5, <2>6, <4>1
    <3> QED
      BY <2>3, <2>8, <2>10, <3>1, <3>2, <3>3, <3>4, TypesMove DEF OthersKeepTheirs
  <2>12. CmMutexes'
    BY <2>3, <2>9, <2>10, MutexesMove DEF OthersKeepTheirs
  <2> QED
    BY <2>7, <2>11, <2>12
<1> QED
  BY <1>2, <1>3 DEF exit_listed

\* A creator brings its node to life.
LEMMA BirthInv ==
  ASSUME CmInv, ~cmAborted, NEW t \in CmClients, crud_node_init(t)
  PROVE  CmInv'
<1> USE DEF CmInv
<1>1. PICK n \in CmUnborn :
         /\ cmStatus[n] = {} /\ \A u \in CmClients : CmNode(u) # n
         /\ cmStatus' = [cmStatus EXCEPT ![n] = {"no_op"}]
         /\ cmCounter' = [cmCounter EXCEPT ![n]["no_op"] = 1]
         /\ cmLists' = [cmLists EXCEPT !["no_op"] = <<n>> \o @]
         /\ cmAt' = [cmAt EXCEPT ![t].place = "to_mgr", ![t].node = n]
  BY DEF crud_node_init
<1>2. /\ CmIs(t, "idle") /\ t \in CmCreators /\ n \in CmNodes
      /\ UNCHANGED <<cmOp, cmAppVars, cmMutex, cmMgr, cmLeft, cmAborted>>
  BY DEF crud_node_init, CmNodes
<1>3. cmAt[t] \in CmRecords /\ cmAt \in [CmClients -> CmRecords]
  BY DEF CmTypeOK
<1>4. cmAt'[t] \in CmRecords
  BY <1>1, <1>2, <1>3 DEF CmRecords, CmPlaces
<1>5. Moves(t) /\ cmAt'[t].place = "to_mgr" /\ cmAt'[t].node = n
  BY <1>1, <1>3, <1>4 DEF Moves, CmRecords
<1>6. t \notin CmDeleters /\ "to_mgr" \in PlacesOf(t)
  BY <1>2, Parts
<1>7. CmBooks'
  BY <1>1, <1>2, <1>5, <1>6, BirthBooks DEF CmIs
<1>8. CmClientOK(t)' /\ ~UsesNode(t)' /\ ~UsesMgr(t)'
  BY <1>2, <1>5, <1>6 DEF CmClientOK, CmIs, CmNode, UsesNode, UsesMgr, HoldsNode, HoldsMgr
<1>9. OthersKeepTheirs(t)
  BY <1>2, UntouchedMutexes
<1>10. CmTypeOK'
  <2>1. /\ "no_op" \in CmStates
        /\ cmEnrolled' \in SUBSET CmNodes /\ cmAborted' \in BOOLEAN
    BY <1>2 DEF CmTypeOK, cmAppVars, CmStates
  <2>2. cmStatus' \in [CmNodes -> SUBSET CmStates]
    BY <1>1, <2>1 DEF CmTypeOK
  <2>3. cmCounter' \in [CmNodes -> [CmStates -> Nat]]
    BY <1>1 DEF CmTypeOK
  <2>4. cmLists' \in [CmStates -> Seq(CmNodes)]
    BY <1>1, <1>2, <2>1 DEF CmTypeOK
  <2> QED
    BY <1>5, <1>8, <1>9, <2>1, <2>2, <2>3, <2>4, TypesMove DEF OthersKeepTheirs
<1>11. CmMutexes'
  BY <1>5, <1>8, <1>9, MutexesMove DEF OthersKeepTheirs
<1> QED
  BY <1>7, <1>10, <1>11
\* Others are woken only where they wait for a condition variable.
Sleepers == {u \in CmClients : cmAt[u].place \in AsleepAt}

\* Only sleepers are woken.
LEMMA WokenSets ==
  ASSUME CmTypeOK
  PROVE  /\ \A n : /\ ReadersAsleep(n) \subseteq Sleepers /\ WritersAsleep(n) \subseteq Sleepers
                   /\ DeleterAsleep(n) \subseteq Sleepers /\ CreatorAsleep(n) \subseteq Sleepers
         /\ \A n : \A S \in OneOf(DeleterAsleep(n)) : S \subseteq Sleepers
         /\ \A n : \A S \in WokenByRelease(n) : S \subseteq Sleepers
         /\ \A S \in Announcement : S \subseteq Sleepers
<1>1. ASSUME NEW n
      PROVE  /\ ReadersAsleep(n) \subseteq Sleepers /\ WritersAsleep(n) \subseteq Sleepers
             /\ DeleterAsleep(n) \subseteq Sleepers /\ CreatorAsleep(n) \subseteq Sleepers
  BY DEF ReadersAsleep, WritersAsleep, DeleterAsleep, CreatorAsleep, Asleep, Sleepers, AsleepAt
<1>2. \A T : T \subseteq Sleepers => \A S \in OneOf(T) : S \subseteq Sleepers
  BY DEF OneOf
<1>3. ASSUME NEW n, NEW S \in WokenByRelease(n) PROVE S \subseteq Sleepers
  <2>1. \/ S = {} \/ S = ReadersAsleep(n) \/ S \in OneOf(WritersAsleep(n))
        \/ S \in OneOf(DeleterAsleep(n))
    BY <1>3 DEF WokenByRelease
  <2> QED
    BY <1>1, <1>2, <2>1
<1>4. ASSUME NEW S \in Announcement PROVE S \subseteq Sleepers
  <2>1. \/ S = {} \/ S \in OneOf(CreatorAsleep(Head(cmLists["pending_create"])))
        \/ S \in OneOf(DeleterAsleep(Head(cmLists["pending_delete"])))
    BY <1>4 DEF Announcement
  <2> QED
    BY <1>1, <1>2, <2>1
<1> QED
  BY <1>1, <1>2, <1>3, <1>4

\* A request that is over.
LEMMA FinishInv ==
  ASSUME CmInv, ~cmAborted, NEW t \in CmClients, cmAt[t].place \in CalmPlaces,
         NEW S \in SUBSET Sleepers, Finish(t, S),
         UNCHANGED <<cmStatus, cmCounter, cmLists>>,
         cmEnrolled' \in SUBSET CmNodes, cmAborted' \in BOOLEAN
  PROVE  CmInv'
<1> USE DEF CmInv
<1> DEFINE idle == [place |-> "idle", node |-> NoNode, aim |-> "none", next |-> "none"]
           at == [cmAt EXCEPT ![t] = idle]
<1>1. cmAt \in [CmClients -> CmRecords] /\ idle \in CmRecords
  BY DEF CmTypeOK, CmRecords, CmPlaces
<1>2. t \notin S /\ S \subseteq CmClients /\ \A u \in S : cmAt[u].place \in AsleepAt
  BY DEF Sleepers, CalmPlaces, AsleepAt
<1>3. /\ cmAt' = [u \in CmClients |->
                    IF u \in S THEN [at[u] EXCEPT !.place = WokenPlace(@)] ELSE at[u]]
      /\ GiveBack(t, "idle")
  BY DEF Finish, Woken
<1>4. cmAt'[t] = idle
  BY <1>1, <1>2, <1>3
<1>5. ASSUME NEW u \in CmClients \ {t} PROVE cmAt'[u] = cmAt[u] \/ Wakes(u)
  BY <1>1, <1>2, <1>3 DEF Wakes
<1>6. ASSUME NEW u \in CmClients PROVE cmAt'[u] \in CmRecords
  <2>1. CASE u = t
    BY <1>1, <1>4, <2>1
  <2>2. CASE u \in S
    <3>1. cmAt'[u] = [cmAt[u] EXCEPT !.place = WokenPlace(cmAt[u].place)] /\ cmAt[u] \in CmRecords
      BY <1>1, <1>2, <1>3, <2>2
    <3>2. WokenPlace(cmAt[u].place) \in CmPlaces
      BY DEF WokenPlace, CmPlaces
    <3> QED
      BY <3>1, <3>2 DEF CmRecords
  <2>3. CASE u # t /\ u \notin S
    BY <1>1, <1>3, <2>3
  <2> QED
    BY <2>1, <2>2, <2>3
<1>7. Moves(t)
  BY <1>3, <1>5, <1>6 DEF Moves
<1>8. cmAt'[t].place = "idle" /\ Calm(t)
  BY <1>4 DEF Calm, CalmPlaces
<1>9. CmClientOK(t)' /\ ~UsesNode(t)' /\ ~UsesMgr(t)'
  BY <1>8 DEF CmClientOK, CmIs, UsesNode, UsesMgr, HoldsNode, HoldsMgr
<1>10. OthersKeepTheirs(t)
  BY <1>3, GivesBack
<1> QED
  BY <1>7, <1>8, <1>9, <1>10, CalmInv

\* The first test that applies is the one that counts.
LEMMA FirstHit ==
  ASSUME NEW tests, DOMAIN tests = 1..9, NEW st, NEW i \in 1..9, tests[i][1] \in st
  PROVE  \E k \in 1..i : tests[k][1] \in st /\ First(tests, st) = tests[k][2]
<1> DEFINE hits == {j \in DOMAIN tests : tests[j][1] \in st}
           k == CHOOSE j \in hits : \A l \in hits : j <= l
<1>1. i \in hits /\ hits \in SUBSET Nat
  OBVIOUS
<1>2. \E j \in hits : \A l \in hits : j <= l
  <2> HIDE DEF hits
  <2> QED
    BY <1>1, LeastElement
<1>3. k \in hits /\ k <= i
  BY <1>1, <1>2
<1>4. First(tests, st) = tests[k][2]
  BY <1>1 DEF First
<1>5. k \in 1..i /\ tests[k][1] \in st
  BY <1>3
<1> QED
  BY <1>4, <1>5

\* Nobody is let in beside a writer, and no writer beside readers, unless the
\* node has just left the state without operation.
LEMMA Granting ==
  ASSUME NEW st
  PROVE  /\ First(ReadVerdict, st) = "grant" => "write_in_progress" \notin st
         /\ First(WriteVerdict, st) = "grant" =>
               /\ "write_in_progress" \notin st
               /\ "read_in_progress" \in st => "no_op" \in st
<1>1. /\ DOMAIN ReadVerdict = 1..9 /\ ReadVerdict[5][1] = "write_in_progress"
      /\ \A k \in 1..5 : ReadVerdict[k][2] # "grant"
  BY DEF ReadVerdict
<1>2. /\ DOMAIN WriteVerdict = 1..9 /\ WriteVerdict[5][1] = "write_in_progress"
      /\ \A k \in 1..5 : WriteVerdict[k][2] # "grant"
      /\ WriteVerdict[6][1] = "no_op"
      /\ WriteVerdict[7][1] = "read_in_progress" /\ WriteVerdict[7][2] # "grant"
  BY DEF WriteVerdict
<1>3. First(ReadVerdict, st) = "grant" => "write_in_progress" \notin st
  <2> SUFFICES ASSUME First(ReadVerdict, st) = "grant", "write_in_progress" \in st PROVE FALSE
    OBVIOUS
  <2>1. PICK k \in 1..5 : First(ReadVerdict, st) = ReadVerdict[k][2]
    BY <1>1, FirstHit
  <2> QED
    BY <1>1, <2>1
<1>4. First(WriteVerdict, st) = "grant" => "write_in_progress" \notin st
  <2> SUFFICES ASSUME First(WriteVerdict, st) = "grant", "write_in_progress" \in st PROVE FALSE
    OBVIOUS
  <2>1. PICK k \in 1..5 : First(WriteVerdict, st) = WriteVerdict[k][2]
    BY <1>2, FirstHit
  <2> QED
    BY <1>2, <2>1
<1>5. First(WriteVerdict, st) = "grant" => ("read_in_progress" \in st => "no_op" \in st)
  <2> SUFFICES ASSUME First(WriteVerdict, st) = "grant", "read_in_progress" \in st
               PROVE  "no_op" \in st
    OBVIOUS
  <2>1. PICK k \in 1..7 : WriteVerdict[k][1] \in st /\ First(WriteVerdict, st) = WriteVerdict[k][2]
    BY <1>2, FirstHit
  <2>2. k = 6
    BY <1>2, <2>1
  <2> QED
    BY <1>2, <2>1, <2>2
<1> QED
  BY <1>3, <1>4, <1>5

-----------------------------------------------------------------------------
\* The requests.  A request starts without a mutex.
LEMMA LookupInv ==
  ASSUME CmInv, ~cmAborted, NEW t \in CmClients, t \notin CmCreators, cm_lookup(t)
  PROVE  CmInv'
<1>1. PICK n \in cmEnrolled : cmAt' = [cmAt EXCEPT ![t].place = "asking", ![t].node = n]
  BY DEF cm_lookup
<1>2. /\ cmAt[t].place = "idle" /\ cmAt \in [CmClients -> CmRecords] /\ n \in CmNodes
      /\ UNCHANGED <<cmStatus, cmCounter, cmLists, cmEnrolled, cmMutex, cmMgr, cmAborted>>
      /\ cmEnrolled \in SUBSET CmNodes /\ cmAborted \in BOOLEAN
  BY <1>1 DEF cm_lookup, CmIs, cmNodeVars, cmAppVars, CmInv, CmTypeOK
<1>3. cmAt'[t] \in CmRecords
  BY <1>1, <1>2 DEF CmRecords, CmPlaces
<1>4. Moves(t) /\ cmAt'[t].place = "asking" /\ cmAt'[t].node = n
  BY <1>1, <1>2, <1>3 DEF Moves, CmRecords
<1>5. Calm(t) /\ "asking" \in PlacesOf(t)
  BY <1>2, <1>4, Parts DEF Calm, CalmPlaces
<1>6. CmClientOK(t)' /\ ~UsesNode(t)' /\ ~UsesMgr(t)'
  BY <1>2, <1>4, <1>5 DEF CmClientOK, CmIs, CmNode, UsesNode, UsesMgr, HoldsNode, HoldsMgr
<1>7. OthersKeepTheirs(t)
  BY <1>2, UntouchedMutexes DEF CmInv
<1> QED
  BY <1>2, <1>4, <1>5, <1>6, <1>7, CalmInv

\* A client passes the admission, or finds the node being created or deleted and is out.
LEMMA AdmissionInv ==
  ASSUME CmInv, ~cmAborted, NEW t \in CmClients, Admission(t)
  PROVE  CmInv'
<1> DEFINE n == CmNode(t)
<1>1. /\ cmAt[t].place = "asking" /\ cmAt \in [CmClients -> CmRecords]
      /\ cmMutex \in [CmNodes -> CmClients \cup {NoClient}] /\ cmMutex[n] = NoClient
      /\ cmEnrolled \in SUBSET CmNodes /\ cmAborted \in BOOLEAN
  BY DEF Admission, CmIs, CmInv, CmTypeOK
<1>2. n \in CmNodes /\ "asking" \in PlacesOf(t)
  BY <1>1, InHand DEF CmClientOK, CmIs, CmNode
<1>3. CASE Finish(t, {}) /\ UNCHANGED <<cmNodeVars, cmAppVars, cmAborted>>
  <2>1. UNCHANGED <<cmStatus, cmCounter, cmLists, cmEnrolled, cmAborted>>
    BY <1>3 DEF cmNodeVars, cmAppVars
  <2> QED
    BY <1>1, <1>3, <2>1, FinishInv DEF CalmPlaces
<1>4. CASE /\ cmMutex' = [cmMutex EXCEPT ![n] = t]
           /\ cmAt' = [cmAt EXCEPT ![t].place = "deciding"]
           /\ UNCHANGED <<cmNodeVars, cmAppVars, cmMgr, cmLeft, cmAborted>>
  <2>1. UNCHANGED <<cmStatus, cmCounter, cmLists, cmEnrolled, cmAborted>>
    BY <1>4 DEF cmNodeVars, cmAppVars
  <2>2. cmAt'[t] \in CmRecords
    BY <1>1, <1>4 DEF CmRecords, CmPlaces
  <2>3. Moves(t) /\ cmAt'[t].place = "deciding" /\ cmAt'[t].node = n
    BY <1>1, <1>4, <2>2 DEF Moves, CmRecords, CmNode
  <2>4. Calm(t) /\ "deciding" \in PlacesOf(t)
    BY <1>1, <1>2, <2>3, Parts DEF Calm, CalmPlaces
  <2>5. /\ CmClientOK(t)' /\ ~UsesMgr(t)'
        /\ cmMutex'[cmAt'[t].node] = t
    BY <1>1, <1>2, <1>4, <2>3, <2>4 DEF CmClientOK, CmIs, CmNode, UsesMgr, HoldsMgr
  <2>6. OthersKeepTheirs(t)
    BY <1>1, <1>4 DEF OthersKeepTheirs, CmInv, CmTypeOK
  <2> QED
    BY <1>1, <2>1, <2>3, <2>4, <2>5, <2>6, CalmInv
<1> QED
  BY <1>3, <1>4 DEF Admission

\* Awake, with the mutex again.
LEMMA AwakeInv ==
  ASSUME CmInv, ~cmAborted, NEW t \in CmClients, cm_awake(t)
  PROVE  CmInv'
<1> DEFINE n == CmNode(t)
<1>1. /\ cmAt[t].place = "woken" /\ cmMutex[n] = NoClient
      /\ cmMutex' = [cmMutex EXCEPT ![n] = t]
      /\ crud_node_exit_state(t, n, PendingOf(t), "deciding")
      /\ UNCHANGED cmMgr
  BY DEF cm_awake, CmIs
<1>2. n \in CmNodes /\ cmAt[t].node = n
  BY <1>1, InHand DEF CmIs, CmNode
<1>3. PendingOf(t) \in CmStates \ {"no_op"}
  BY Parts DEF CmStates, CmPending
<1>4. Exiting(t, PendingOf(t), "deciding")
  BY <1>1 DEF Exiting
<1>5. OthersKeepTheirs(t) /\ cmMutex'[n] = t /\ "deciding" \notin HoldsMgr
  BY <1>1, <1>2 DEF OthersKeepTheirs, CmInv, CmTypeOK, HoldsMgr
<1> QED
  BY <1>1, <1>2, <1>3, <1>4, <1>5, ExitInv

\* A woken creator or deleter has the lists again and looks once more.
LEMMA AwakeMgrInv ==
  ASSUME CmInv, ~cmAborted, NEW t \in CmClients, cm_awake_mgr(t)
  PROVE  CmInv'
<1> DEFINE n == CmNode(t)
<1>1. /\ cmAt[t].place = "woken_mgr" /\ cmMgr = NoClient
      /\ cmMgr' = t
      /\ crud_node_exit_state(t, n, PendingOf(t), "claim")
      /\ UNCHANGED cmMutex
  BY DEF cm_awake_mgr, CmIs
<1>2. n \in CmNodes /\ cmAt[t].node = n
  BY <1>1, InHand DEF CmIs, CmNode
<1>3. PendingOf(t) \in CmStates \ {"no_op"}
  BY Parts DEF CmStates, CmPending
<1>4. Exiting(t, PendingOf(t), "claim")
  BY <1>1 DEF Exiting
<1>5. OthersKeepTheirs(t) /\ "claim" \notin HoldsNode
  BY <1>1 DEF OthersKeepTheirs, CmInv, CmTypeOK, HoldsNode
<1> QED
  BY <1>1, <1>2, <1>3, <1>4, <1>5, ExitInv

\* The decisions, with the node's mutex held.
LEMMA QuitInv ==
  ASSUME CmInv, ~cmAborted, NEW t \in CmClients, CmIs(t, "deciding"), Quit(t)
  PROVE  CmInv'
<1>1. PICK d \in OneOf(DeleterAsleep(CmNode(t))) :
         Finish(t, ReadersAsleep(CmNode(t)) \cup WritersAsleep(CmNode(t)) \cup d)
  BY DEF Quit
<1>2. /\ UNCHANGED <<cmStatus, cmCounter, cmLists, cmEnrolled, cmAborted>>
      /\ cmEnrolled \in SUBSET CmNodes /\ cmAborted \in BOOLEAN
  BY DEF Quit, cmNodeVars, cmAppVars, CmInv, CmTypeOK
<1>3. ReadersAsleep(CmNode(t)) \cup WritersAsleep(CmNode(t)) \cup d \in SUBSET Sleepers
  BY WokenSets DEF CmInv
<1> QED
  BY <1>1, <1>2, <1>3, FinishInv DEF CmIs, CalmPlaces

\* A reader is granted the node, or sleeps, or is turned away.
LEMMA ReadInv ==
  ASSUME CmInv, ~cmAborted, NEW t \in CmClients, crud_request_read(t)
  PROVE  CmInv'
<1> DEFINE n == CmNode(t)
           verdict == First(ReadVerdict, cmStatus[n])
<1>1. /\ cmAt[t].place = "deciding" /\ CmIs(t, "deciding")
      /\ Entries(t) = {<<"pending_read", "rdrs_cv">>, <<"read_in_progress", "working">>}
  BY Parts DEF crud_request_read, CmIs
<1>2. n \in CmNodes /\ cmAt[t].node = n
  BY <1>1, InHand DEF CmIs, CmNode
<1>3. /\ {"pending_read", "read_in_progress"} \subseteq UnderNode
      /\ {"pending_read", "read_in_progress"} \subseteq CmStates \ {"no_op"}
      /\ {"pending_read", "read_in_progress"} \cap Build = {}
  BY DEF UnderNode, CmStates, CmPending, CmInProgress, Build
<1>4. CASE crud_node_enter_state(t, n, "pending_read", "rdrs_cv")
  BY <1>1, <1>2, <1>3, <1>4, EnterInv
<1>5. CASE verdict = "grant" /\ crud_node_enter_state(t, n, "read_in_progress", "working")
  BY <1>1, <1>2, <1>3, <1>5, EnterInv, Granting
<1> QED
  BY <1>1, <1>4, <1>5, QuitInv, AbortInv DEF crud_request_read

\* So is a writer.
LEMMA WriteInv ==
  ASSUME CmInv, ~cmAborted, NEW t \in CmClients, crud_request_write(t)
  PROVE  CmInv'
<1> DEFINE n == CmNode(t)
           verdict == First(WriteVerdict, cmStatus[n])
<1>1. /\ cmAt[t].place = "deciding" /\ CmIs(t, "deciding")
      /\ Entries(t) = {<<"pending_write", "writers_cv">>, <<"write_in_progress", "working">>}
  BY Parts DEF crud_request_write, CmIs
<1>2. n \in CmNodes /\ cmAt[t].node = n
  BY <1>1, InHand DEF CmIs, CmNode
<1>3. /\ {"pending_write", "write_in_progress"} \subseteq UnderNode
      /\ {"pending_write", "write_in_progress"} \subseteq CmStates \ {"no_op"}
      /\ {"pending_write", "write_in_progress"} \cap Build = {}
  BY DEF UnderNode, CmStates, CmPending, CmInProgress, Build
<1>4. CASE crud_node_enter_state(t, n, "pending_write", "writers_cv")
  BY <1>1, <1>2, <1>3, <1>4, EnterInv
<1>5. CASE verdict = "grant" /\ crud_node_enter_state(t, n, "write_in_progress", "working")
  <2>1. "read_in_progress" \notin cmStatus[n]
    <3> SUFFICES ASSUME "read_in_progress" \in cmStatus[n] PROVE FALSE
      OBVIOUS
    <3>1. "no_op" \in cmStatus[n]
      BY <1>5, Granting
    <3>2. PICK u \in CmClients : Entering(u, n, "read_in_progress")
      BY <1>2, <3>1 DEF CmInv, CmBooks, CmNoOpAlone
    <3>3. UsesNode(u) /\ UsesNode(t) /\ cmAt[u].node = n /\ cmAt[u].place = "entering"
      BY <1>1, <3>2 DEF UsesNode, HoldsNode, UnderNode, Entering, CmIs, CmNode
    <3>4. cmMutex[n] = u /\ cmMutex[n] = t
      BY <1>2, <3>3, InHand
    <3> QED
      BY <1>1, <3>3, <3>4
  <2> QED
    BY <1>1, <1>2, <1>3, <1>5, <2>1, EnterInv
<1> QED
  BY <1>1, <1>4, <1>5, QuitInv, AbortInv DEF crud_request_write

\* A deleter marks the node, or sleeps, or is turned away.
LEMMA DeleteInv ==
  ASSUME CmInv, ~cmAborted, NEW t \in CmClients, crud_request_delete(t)
  PROVE  CmInv'
<1> DEFINE n == CmNode(t)
<1>1. /\ cmAt[t].place = "deciding" /\ CmIs(t, "deciding")
      /\ \A next \in {"delete_thread_cv", "rdrs_cv", "to_mgr"} :
            <<"pending_delete", next>> \in Entries(t)
  BY Parts DEF crud_request_delete, CmIs
<1>2. n \in CmNodes /\ cmAt[t].node = n
  BY <1>1, InHand DEF CmIs, CmNode
<1>3. /\ "pending_delete" \in UnderNode /\ "pending_delete" \in CmStates \ {"no_op"}
      /\ "pending_delete" \notin Build
  BY DEF UnderNode, CmStates, CmPending, CmInProgress, Build
<1>4. ASSUME NEW next \in {"delete_thread_cv", "rdrs_cv", "to_mgr"},
             crud_node_enter_state(t, n, "pending_delete", next)
      PROVE  CmInv'
  BY <1>1, <1>2, <1>3, <1>4, EnterInv
<1>5. CASE Finish(t, {}) /\ UNCHANGED <<cmNodeVars, cmAppVars, cmAborted>>
  <2>1. /\ UNCHANGED <<cmStatus, cmCounter, cmLists, cmEnrolled, cmAborted>>
        /\ cmEnrolled \in SUBSET CmNodes /\ cmAborted \in BOOLEAN
    BY <1>5 DEF cmNodeVars, cmAppVars, CmInv, CmTypeOK
  <2> QED
    BY <1>1, <1>5, <2>1, FinishInv DEF CalmPlaces
<1> QED
  BY <1>4, <1>5, AbortInv DEF crud_request_delete
\* Under the manager's mutex.
LEMMA LockMgrInv ==
  ASSUME CmInv, ~cmAborted, NEW t \in CmClients, cm_lock_mgr(t)
  PROVE  CmInv'
<1>1. /\ cmAt[t].place = "to_mgr" /\ cmMgr = NoClient /\ cmMgr' = t
      /\ cmAt' = [cmAt EXCEPT ![t].place = "claim"] /\ cmAt \in [CmClients -> CmRecords]
      /\ UNCHANGED <<cmStatus, cmCounter, cmLists, cmEnrolled, cmMutex, cmAborted>>
      /\ cmEnrolled \in SUBSET CmNodes /\ cmAborted \in BOOLEAN
  BY DEF cm_lock_mgr, CmIs, cmNodeVars, cmAppVars, CmInv, CmTypeOK
<1>2. cmAt[t].node \in CmNodes /\ "to_mgr" \in PlacesOf(t)
  BY <1>1, InHand DEF CmClientOK, CmIs
<1>3. cmAt'[t] \in CmRecords
  BY <1>1 DEF CmRecords, CmPlaces
<1>4. Moves(t) /\ cmAt'[t].place = "claim" /\ cmAt'[t].node = cmAt[t].node
  BY <1>1, <1>3 DEF Moves, CmRecords
<1>5. Calm(t) /\ "claim" \in PlacesOf(t)
  BY <1>1, <1>2, <1>4, Parts DEF Calm
<1>6. CmClientOK(t)' /\ ~UsesNode(t)'
  BY <1>2, <1>4, <1>5 DEF CmClientOK, CmIs, CmNode, UsesNode, HoldsNode
<1>7. OthersKeepTheirs(t)
  BY <1>1 DEF OthersKeepTheirs, CmInv, CmTypeOK
<1> QED
  BY <1>1, <1>4, <1>5, <1>6, <1>7, CalmInv

\* A creator enters the lists, unless somebody is there.
LEMMA CreateInv ==
  ASSUME CmInv, ~cmAborted, NEW t \in CmClients, crud_request_create(t)
  PROVE  CmInv'
<1> DEFINE n == CmNode(t)
<1>1. /\ cmAt[t].place = "claim" /\ t \notin CmDeleters
      /\ Entries(t) = {<<"pending_create", "create_thread_cv">>,
                       <<"create_in_progress", "working">>}
  BY Parts DEF crud_request_create, CmIs
<1>2. n \in CmNodes /\ cmAt[t].node = n
  BY <1>1, InHand DEF CmIs, CmNode
<1>3. /\ {"pending_create", "create_in_progress"} \cap UnderNode = {}
      /\ {"pending_create", "create_in_progress"} \subseteq CmStates \ {"no_op"}
      /\ "pending_create" \notin Build
  BY DEF UnderNode, CmStates, CmPending, CmInProgress, Build
<1>4. CASE crud_node_enter_state(t, n, "pending_create", "create_thread_cv")
  BY <1>1, <1>2, <1>3, <1>4, EnterInv
<1>5. CASE ~SomebodyCreatesOrDeletes /\ crud_node_enter_state(t, n, "create_in_progress", "working")
  BY <1>1, <1>2, <1>3, <1>5, EnterInv
<1> QED
  BY <1>4, <1>5 DEF crud_request_create

\* A deleter enters the lists, unless somebody is there.
LEMMA ClaimInv ==
  ASSUME CmInv, ~cmAborted, NEW t \in CmClients, delete_claim(t)
  PROVE  CmInv'
<1> DEFINE n == CmNode(t)
<1>1. cmAt[t].place = "claim" /\ CmIs(t, "claim") /\ t \in CmDeleters
  BY DEF delete_claim, CmIs
<1>2. n \in CmNodes /\ cmAt[t].node = n /\ cmMgr = t
  BY <1>1, InHand DEF CmIs, CmNode, UsesMgr, HoldsMgr
<1>3. "pending_delete" \in CmStates \ {"no_op"} /\ "pending_delete" \notin Build
  BY DEF CmStates, CmPending, Build
<1>4. CASE crud_node_enter_state(t, n, "pending_delete", "delete_thread_cv_mgr")
  BY <1>1, <1>2, <1>3, <1>4, EnterInv
<1>5. CASE /\ ~SomebodyCreatesOrDeletes
           /\ crud_node_exit_state(t, n, "pending_delete", "claimed")
           /\ UNCHANGED <<cmMutex, cmMgr>>
  <2>1. OthersKeepTheirs(t) /\ cmMgr' = t /\ "claimed" \notin HoldsNode
    BY <1>2, <1>5, UntouchedMutexes DEF CmInv, HoldsNode
  <2>2. Exiting(t, "pending_delete", "claimed")
    BY <1>1 DEF Exiting
  <2> QED
    BY <1>2, <1>3, <1>5, <2>1, <2>2, ExitInv
<1> QED
  BY <1>4, <1>5 DEF delete_claim

\* The deleter goes on from the lists to the node, or waits for its users.
LEMMA ClaimedInv ==
  ASSUME CmInv, ~cmAborted, NEW t \in CmClients, delete_claimed(t)
  PROVE  CmInv'
<1> DEFINE n == CmNode(t)
<1>1. /\ cmAt[t].place = "claimed" /\ CmIs(t, "claimed")
      /\ crud_node_enter_state(t, n, "delete_in_progress", "working")
  BY DEF delete_claimed, CmIs
<1>2. n \in CmNodes /\ cmAt[t].node = n /\ "claimed" \in PlacesOf(t)
  BY <1>1, InHand DEF CmIs, CmNode, CmClientOK
<1>3. <<"delete_in_progress", "working">> \in Entries(t)
  BY <1>2, Parts
<1>4. ~SomebodyCreatesOrDeletes
  BY <1>1 DEF CmInv, CmBooks, CmOneListed, PastTheTest
<1>5. "delete_in_progress" \in CmStates \ {"no_op"} /\ "delete_in_progress" \notin UnderNode
  BY DEF CmStates, CmInProgress, UnderNode
<1> QED
  BY <1>1, <1>2, <1>3, <1>4, <1>5, EnterInv

\* The work, and the release.
LEMMA WorkInv ==
  ASSUME CmInv, ~cmAborted, NEW t \in CmClients, NEW enrolled \in SUBSET CmNodes, Work(t, enrolled)
  PROVE  CmInv'
<1> DEFINE n == CmNode(t)
<1>1. cmAt[t].place = "working" /\ cmAt \in [CmClients -> CmRecords]
  BY DEF Work, CmIs, CmInv, CmTypeOK
<1>2. cmAt[t].node \in CmNodes /\ "working" \in PlacesOf(t)
  BY <1>1, InHand DEF CmClientOK, CmIs
<1>3. CASE CmAbort
  BY <1>3, AbortInv
<1>4. CASE /\ cmOp[n] = CmRole(t)
           /\ cmEnrolled' = enrolled
           /\ cmAt' = [cmAt EXCEPT ![t].place = "releasing", ![t].aim = cmOp[n]]
           /\ UNCHANGED <<cmNodeVars, cmFreed, cmMutex, cmMgr, cmLeft, cmAborted>>
  <2>1. UNCHANGED <<cmStatus, cmCounter, cmLists, cmMutex, cmMgr, cmAborted>> /\ cmAborted \in BOOLEAN
    BY <1>4 DEF cmNodeVars, CmInv, CmTypeOK
  <2>2. CmRole(t) \in CmStates
    BY Parts DEF CmStates, CmInProgress
  <2>3. cmAt'[t] \in CmRecords
    BY <1>1, <1>4, <2>2 DEF CmRecords, CmPlaces
  <2>4. /\ Moves(t) /\ cmAt'[t].place = "releasing" /\ cmAt'[t].node = cmAt[t].node
        /\ cmAt'[t].aim = CmRole(t)
    BY <1>1, <1>4, <2>3 DEF Moves, CmRecords
  <2>5. Calm(t) /\ "releasing" \in PlacesOf(t)
    BY <1>1, <1>2, <2>4, Parts DEF Calm
  <2>6. CmClientOK(t)' /\ ~UsesNode(t)' /\ ~UsesMgr(t)'
    BY <1>2, <2>4, <2>5
       DEF CmClientOK, CmIs, CmNode, UsesNode, UsesMgr, HoldsNode, HoldsMgr, CmRole
  <2>7. OthersKeepTheirs(t)
    BY <2>1, UntouchedMutexes DEF CmInv
  <2> QED
    BY <1>4, <2>1, <2>4, <2>5, <2>6, <2>7, CalmInv
<1> QED
  BY <1>3, <1>4 DEF Work

\* A client hands back what it was granted; its counter goes down.
LEMMA ReleaseInv ==
  ASSUME CmInv, ~cmAborted, NEW t \in CmClients, NEW op, Release(t, op)
  PROVE  CmInv'
<1> DEFINE n == CmNode(t)
<1>1. /\ cmAt[t].place = "releasing" /\ cmAt[t].aim = op /\ cmMutex[n] = NoClient
      /\ cmMutex' = [cmMutex EXCEPT ![n] = t]
      /\ crud_node_exit_state(t, n, op, "signalling")
      /\ UNCHANGED cmMgr
  BY DEF Release, CmIs
<1>2. n \in CmNodes /\ cmAt[t].node = n /\ op = CmRole(t)
  BY <1>1, InHand DEF CmClientOK, CmIs, CmNode
<1>3. op \in CmStates \ {"no_op"}
  BY <1>2, Parts DEF CmStates, CmInProgress
<1>4. Exiting(t, op, "signalling")
  BY <1>1, <1>2 DEF Exiting
<1>5. OthersKeepTheirs(t) /\ cmMutex'[n] = t /\ "signalling" \notin HoldsMgr
  BY <1>1, <1>2 DEF OthersKeepTheirs, CmInv, CmTypeOK, HoldsMgr
<1> QED
  BY <1>1, <1>2, <1>3, <1>4, <1>5, ExitInv

\* Whoever is woken, the client that signals is out.
LEMMA SignalInv ==
  ASSUME CmInv, ~cmAborted, NEW t \in CmClients, SignalAndLeave(t)
  PROVE  CmInv'
<1>1. PICK S \in WokenByRelease(CmNode(t)) : Finish(t, S)
  BY DEF SignalAndLeave
<1>2. /\ UNCHANGED <<cmStatus, cmCounter, cmLists, cmEnrolled, cmAborted>>
      /\ cmEnrolled \in SUBSET CmNodes /\ cmAborted \in BOOLEAN /\ cmAt[t].place = "signalling"
  BY DEF SignalAndLeave, cmNodeVars, cmAppVars, CmInv, CmTypeOK, CmIs
<1>3. S \in SUBSET Sleepers
  BY WokenSets DEF CmInv
<1> QED
  BY <1>1, <1>2, <1>3, FinishInv DEF CalmPlaces

\* A creator or deleter is done with the node and goes on to the lists.
LEMMA LeaveNodeInv ==
  ASSUME CmInv, ~cmAborted, NEW t \in CmDeleters \cup CmCreators, LeaveNode(t)
  PROVE  CmInv'
<1>0. t \in CmClients
  BY DEF CmClients
<1>1. cmAt[t].place = "signalling" /\ cmAt \in [CmClients -> CmRecords]
  BY DEF LeaveNode, CmIs, CmInv, CmTypeOK
<1>2. cmAt[t].node \in CmNodes
  BY <1>0, <1>1, InHand DEF CmIs
<1>3. CASE CmAbort
  BY <1>0, <1>3, AbortInv
<1>4. CASE Goto(t, "announcing") /\ UNCHANGED <<cmNodeVars, cmAppVars, cmLeft, cmAborted>>
  <2>1. /\ UNCHANGED <<cmStatus, cmCounter, cmLists, cmEnrolled, cmAborted>>
        /\ cmEnrolled \in SUBSET CmNodes /\ cmAborted \in BOOLEAN
    BY <1>4 DEF cmNodeVars, cmAppVars, CmInv, CmTypeOK
  <2>2. /\ cmAt' = [cmAt EXCEPT ![t].place = "announcing", ![t].aim = "none", ![t].next = "none"]
        /\ OthersKeepTheirs(t)
    BY <1>0, <1>4, GivesBack DEF Goto, CmInv
  <2>3. cmAt'[t] \in CmRecords
    BY <1>0, <1>1, <2>2 DEF CmRecords, CmPlaces
  <2>4. Moves(t) /\ cmAt'[t].place = "announcing" /\ cmAt'[t].node = cmAt[t].node
    BY <1>0, <1>1, <2>2, <2>3 DEF Moves, CmRecords
  <2>5. Calm(t) /\ "announcing" \in PlacesOf(t)
    BY <1>0, <1>1, <2>4, Parts DEF Calm, CalmPlaces
  <2>6. CmClientOK(t)' /\ ~UsesNode(t)' /\ ~UsesMgr(t)'
    BY <1>2, <2>4, <2>5 DEF CmClientOK, CmIs, CmNode, UsesNode, UsesMgr, HoldsNode, HoldsMgr
  <2> QED
    BY <1>0, <2>1, <2>2, <2>4, <2>5, <2>6, CalmInv
<1> QED
  BY <1>3, <1>4 DEF LeaveNode

\* The last section wakes whoever waits at the lists, and the client is out.
LEMMA AnnounceInv ==
  ASSUME CmInv, ~cmAborted, NEW t \in CmClients, Announce(t)
  PROVE  CmInv'
<1>1. CASE CmAbort
  BY <1>1, AbortInv
<1>2. CASE /\ \E S \in Announcement : Finish(t, S)
           /\ UNCHANGED <<cmNodeVars, cmEnrolled, cmAborted>>
  <2>1. PICK S \in Announcement : Finish(t, S)
    BY <1>2
  <2>2. /\ UNCHANGED <<cmStatus, cmCounter, cmLists, cmEnrolled, cmAborted>>
        /\ cmEnrolled \in SUBSET CmNodes /\ cmAborted \in BOOLEAN /\ cmAt[t].place = "announcing"
    BY <1>2 DEF Announce, cmNodeVars, CmInv, CmTypeOK, CmIs
  <2>3. S \in SUBSET Sleepers
    BY WokenSets DEF CmInv
  <2> QED
    BY <2>1, <2>2, <2>3, FinishInv DEF CalmPlaces
<1> QED
  BY <1>1, <1>2 DEF Announce

\* A sleeper that wakes for no reason stands where a woken one stands.
LEMMA SpuriousInv ==
  ASSUME CmInv, ~cmAborted, NEW t \in CmClients, cm_spurious_wakeup(t)
  PROVE  CmInv'
<1>1. /\ cmAt[t].place \in AsleepAt /\ cmAt \in [CmClients -> CmRecords]
      /\ UNCHANGED <<cmStatus, cmCounter, cmLists, cmEnrolled, cmMutex, cmMgr, cmAborted>>
      /\ cmEnrolled \in SUBSET CmNodes /\ cmAborted \in BOOLEAN
  BY DEF cm_spurious_wakeup, cmNodeVars, cmAppVars, CmInv, CmTypeOK, AsleepAt
<1>2. cmAt' = [u \in CmClients |->
                 IF u \in {t} THEN [cmAt[u] EXCEPT !.place = WokenPlace(@)] ELSE cmAt[u]]
  BY DEF cm_spurious_wakeup, Woken
<1>3. Wakes(t) /\ \A u \in CmClients \ {t} : cmAt'[u] = cmAt[u]
  BY <1>1, <1>2 DEF Wakes
<1>4. cmAt'[t] \in CmRecords
  <2>1. cmAt'[t] = [cmAt[t] EXCEPT !.place = WokenPlace(cmAt[t].place)] /\ cmAt[t] \in CmRecords
    BY <1>1, <1>2
  <2>2. WokenPlace(cmAt[t].place) \in CmPlaces
    BY DEF WokenPlace, CmPlaces
  <2> QED
    BY <2>1, <2>2 DEF CmRecords
<1>5. Moves(t) /\ Calm(t)
  BY <1>1, <1>2, <1>3, <1>4 DEF Moves, Calm
<1>6. CmClientOK(t)' /\ ~UsesNode(t)' /\ ~UsesMgr(t)'
  BY <1>3, WokenMoves DEF CmInv, CmClientOK, CmIs, CmNode, UsesNode, UsesMgr, HoldsNode, HoldsMgr
<1>7. OthersKeepTheirs(t)
  BY <1>1, UntouchedMutexes DEF CmInv
<1> QED
  BY <1>1, <1>5, <1>6, <1>7, CalmInv
-----------------------------------------------------------------------------
\* Whatever anybody does next, the books stay in order.
LEMMA CmInvNext == CmInv /\ [CmNext]_cmVars => CmInv'
<1> SUFFICES ASSUME CmInv, [CmNext]_cmVars PROVE CmInv'
  OBVIOUS
<1>1. CASE UNCHANGED cmVars
  <2>1. UNCHANGED <<cmStatus, cmCounter, cmLists, cmMutex, cmMgr, cmAt, cmEnrolled, cmAborted>>
    BY <1>1 DEF cmVars, cmNodeVars, cmAppVars
  <2>2. CmTypeOK'
    BY <2>1 DEF CmInv, CmTypeOK, CmClientOK, CmIs, CmNode
  <2>3. CmMutexes' <=> CmMutexes
    BY <2>1 DEF CmMutexes, UsesNode, UsesMgr, CmIs, CmNode
  <2>4. CmBooks'
    <3>1. CASE CmClients = {}
      <4>1. \A n, s : Granted(n, s)' = Granted(n, s)
        BY <2>1 DEF Granted, CmNode
      <4>2. \A n : CountedOnce(n)' = CountedOnce(n) /\ CountedTwice(n)' = CountedTwice(n)
        BY <2>1 DEF CountedOnce, CountedTwice, CmNode
      <4>3. CmHalfWay' /\ CmNoOpAlone' /\ CmReadOrWrite' /\ CmListedOnce'
        BY <2>1, <3>1 DEF CmInv, CmBooks, CmHalfWay, CmNoOpAlone, CmReadOrWrite, CmListedOnce
      <4>4. CmSettled' /\ CmOneListed'
        BY <2>1, <3>1 DEF CmInv, CmBooks, CmSettled, CmOneListed, Present, Absent, Listed
      <4>5. CmGrantedCounted' /\ CmDeletersCounted'
        BY <2>1, <4>1, <4>2 DEF CmInv, CmBooks, CmGrantedCounted, CmDeletersCounted
      <4> QED
        BY <4>3, <4>4, <4>5 DEF CmBooks
    <3>2. CASE CmClients # {}
      <4>1. PICK t \in CmClients : TRUE
        BY <3>2
      <4>2. Moves(t) /\ Calm(t)
        BY <2>1 DEF Moves, Calm, CmInv, CmTypeOK
      <4> QED
        BY <2>1, <4>1, <4>2, CalmBooks DEF CmInv
    <3> QED
      BY <3>1, <3>2
  <2> QED
    BY <2>1, <2>2, <2>3, <2>4 DEF CmInv
<1>2. CASE CmNext
  <2>1. ~cmAborted
    BY <1>2 DEF CmNext
  <2>2. PICK t \in CmClients : CmStep(t) \/ cm_stray_access(t) \/ cm_spurious_wakeup(t)
    BY <1>2 DEF CmNext
  <2>3. CASE cm_stray_access(t)
    BY <2>3, AbortInv DEF cm_stray_access
  <2>4. CASE cm_spurious_wakeup(t)
    BY <2>1, <2>4, SpuriousInv
  <2>5. CASE rdr_thread_fn(t) \/ writer_thread_fn(t) \/ delete_thread_fn(t) \/ cm_add_new_student(t)
    <3>1. cmEnrolled \in SUBSET CmNodes
      BY DEF CmInv, CmTypeOK
    <3>2. /\ CmIs(t, "working") => CmNode(t) \in CmNodes
          /\ CmIs(t, "working") => cmEnrolled \cup {CmNode(t)} \in SUBSET CmNodes
          /\ cmEnrolled \ {CmNode(t)} \in SUBSET CmNodes
      BY <2>1, <3>1, InHand DEF CmIs, CmNode
    <3>3. CASE cm_lookup(t) /\ t \notin CmCreators
      BY <2>1, <3>3, LookupInv
    <3>4. CASE Work(t, cmEnrolled)
      BY <2>1, <3>1, <3>4, WorkInv
    <3>5. CASE Work(t, cmEnrolled \ {CmNode(t)})
      BY <2>1, <3>2, <3>5, WorkInv
    <3>6. CASE Work(t, cmEnrolled \cup {CmNode(t)})
      <4>1. CmIs(t, "working")
        BY <3>6 DEF Work
      <4> QED
        BY <2>1, <3>2, <3>6, <4>1, WorkInv
    <3> QED
      BY <2>5, <3>3, <3>4, <3>5, <3>6, Parts
         DEF rdr_thread_fn, writer_thread_fn, delete_thread_fn, cm_add_new_student
  <2>6. CASE read_admission(t) \/ write_admission(t) \/ delete_admission(t)
    BY <2>1, <2>6, AdmissionInv DEF read_admission, write_admission, delete_admission
  <2>7. CASE crud_node_init(t) \/ enter_listed(t) \/ exit_listed(t)
    BY <2>1, <2>7, BirthInv, ListInv, DelistInv
  <2>8. CASE cm_awake(t) \/ cm_awake_mgr(t) \/ cm_lock_mgr(t)
    BY <2>1, <2>8, AwakeInv, AwakeMgrInv, LockMgrInv
  <2>9. CASE crud_request_read(t) \/ crud_request_write(t) \/ crud_request_delete(t)
    BY <2>1, <2>9, ReadInv, WriteInv, DeleteInv
  <2>10. CASE crud_request_create(t) \/ delete_claim(t) \/ delete_claimed(t)
    BY <2>1, <2>10, CreateInv, ClaimInv, ClaimedInv
  <2>11. CASE release_read(t) \/ release_write(t)
    BY <2>1, <2>11, ReleaseInv, SignalInv DEF release_read, release_write
  <2>12. CASE release_create(t) \/ release_delete(t)
    BY <2>1, <2>12, ReleaseInv, LeaveNodeInv, AnnounceInv DEF release_create, release_delete
  <2> QED
    BY <2>2, <2>3, <2>4, <2>5, <2>6, <2>7, <2>8, <2>9, <2>10, <2>11, <2>12 DEF CmStep
<1> QED
  BY <1>1, <1>2

\* Who was granted a node is in its books.
LEMMA GrantedIsPresent ==
  ASSUME CmInv, NEW n \in CmNodes, NEW s \in CmInProgress, Granted(n, s) # {}
  PROVE  /\ Present(n, s)
         /\ s \in EnteredOnce => Cardinality(Granted(n, s)) = 1
<1> USE DEF CmInv, CmBooks
<1>1. /\ Granted(n, s) \in SUBSET CmClients /\ s \in CmStates
      /\ cmCounter[n][s] = Cardinality(Granted(n, s))
      /\ s \in EnteredOnce => cmCounter[n][s] <= 1
  BY DEF Granted, CmStates, CmGrantedCounted
<1>2. Cardinality(Granted(n, s)) \in Nat /\ Cardinality(Granted(n, s)) > 0
  BY <1>1, CountsMove
<1>3. ~Absent(n, s) /\ ~\E t \in CmClients : Entering(t, n, s) \/ Leaving(t, n, s)
  BY <1>1, <1>2 DEF Absent, CmHalfWay
<1>4. Present(n, s)
  BY <1>1, <1>3 DEF CmSettled
<1> QED
  BY <1>1, <1>2, <1>4

\* One builder at most follows from one entry at most in the lists.
LEMMA OneBuilder == CmInv => CmOneBuilder
<1> SUFFICES ASSUME CmInv PROVE CmOneBuilder
  OBVIOUS
<1> DEFINE builders == UNION {Granted(n, "create_in_progress") \cup Granted(n, "delete_in_progress")
                                : n \in CmNodes}
<1>1. \A t \in builders : \E n \in CmNodes, s \in Build : t \in Granted(n, s)
  BY DEF Build
<1>2. ASSUME NEW t \in builders, NEW u \in builders PROVE t = u
  <2>1. PICK n \in CmNodes, s \in Build : t \in Granted(n, s)
    BY <1>1
  <2>2. PICK m \in CmNodes, r \in Build : u \in Granted(m, r)
    BY <1>1
  <2>3. /\ s \in CmInProgress /\ s \in EnteredOnce
        /\ r \in CmInProgress /\ r \in EnteredOnce
    BY DEF Build, CmInProgress, EnteredOnce
  <2>4. Listed(n, s) /\ Listed(m, r)
    BY <2>1, <2>2, <2>3, GrantedIsPresent DEF Present, Listed
  <2>5. n = m /\ s = r
    BY <2>4 DEF CmInv, CmBooks, CmOneListed
  <2>6. Cardinality(Granted(n, s)) = 1 /\ IsFiniteSet(Granted(n, s))
    BY <2>1, <2>3, GrantedIsPresent, FS_Subset, CrudMgrAssumption DEF Granted
  <2>7. \E x : Granted(n, s) = {x}
    BY <2>6, FS_Singleton
  <2> QED
    BY <2>1, <2>2, <2>5, <2>7
<1>3. CASE builders = {}
  BY <1>3, FS_EmptySet DEF CmOneBuilder
<1>4. CASE builders # {}
  <2>1. PICK t \in builders : TRUE
    BY <1>4
  <2>2. builders = {t}
    BY <1>2, <2>1
  <2> HIDE DEF builders
  <2>3. Cardinality(builders) = 1
    BY <2>2, FS_Singleton
  <2> QED
    BY <2>3 DEF builders, CmOneBuilder
<1> QED
  BY <1>3, <1>4

\* Who writes is alone, because the counters are the numbers of those that are in.
LEMMA WriterAlone == CmInv => CmWriterAlone
<1> SUFFICES ASSUME CmInv, NEW n \in CmNodes, Granted(n, "write_in_progress") # {}
             PROVE  Cardinality(Granted(n, "write_in_progress")
                                  \cup Granted(n, "read_in_progress")) = 1
  BY DEF CmWriterAlone
<1>1. "write_in_progress" \in CmInProgress /\ "read_in_progress" \in CmInProgress
      /\ "write_in_progress" \in EnteredOnce
  BY DEF CmInProgress, EnteredOnce
<1>2. /\ Cardinality(Granted(n, "write_in_progress")) = 1
      /\ "write_in_progress" \in cmStatus[n]
  BY <1>1, GrantedIsPresent DEF Present
<1>3. Granted(n, "read_in_progress") = {}
  <2>1. "read_in_progress" \notin cmStatus[n]
    BY <1>2 DEF CmInv, CmBooks, CmReadOrWrite
  <2> QED
    BY <1>1, <2>1, GrantedIsPresent DEF Present
<1>4. Granted(n, "write_in_progress") \cup Granted(n, "read_in_progress")
        = Granted(n, "write_in_progress")
  BY <1>3
<1> QED
  BY <1>2, <1>4

\* With nobody on the way, flags and lists say the same.
LEMMA BooksAgree == CmInv => CmBooksAgree
BY DEF CmInv, CmBooks, CmSettled, CmBooksAgree, Entering, Leaving, CmIs, CmNode

\* The invariant holds in every reachable state.
THEOREM CrudMgrInvariant == CmSpec => []CmInv
<1> QED
  BY CmInvInit, CmInvNext, PTL DEF CmSpec

\* In the whole manager only one thread at a time creates or deletes a node
\* (crud_request_create and crud_request_delete find the manager's lists empty
\* before they enter one).
THEOREM CrudMgrOneBuilder == CmSpec => []CmOneBuilder
BY CrudMgrInvariant, OneBuilder, PTL

\* Whoever writes a node has it alone: no reader and no other writer was
\* granted it (crud_request_read, crud_request_write).
THEOREM CrudMgrWriterAlone == CmSpec => []CmWriterAlone
BY CrudMgrInvariant, WriterAlone, PTL

\* Flag, counter and list of every state of a node agree whenever nobody is
\* between the two halves of crud_node_enter_state or crud_node_exit_state.
THEOREM CrudMgrBooksAgree == CmSpec => []CmBooksAgree
BY CrudMgrInvariant, BooksAgree, PTL
==============================================================================
