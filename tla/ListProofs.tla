------------------------------ MODULE ListProofs ------------------------------
(***************************************************************************)
(* The linked lists, for any number of nodes, of lists and of items.  Both *)
(* proofs read the links as sequences of nodes: a heap or a pair of link   *)
(* functions *holds* certain lists, these lists are the chains a loop      *)
(* meets, and every call turns the lists held into those that its promise  *)
(* allows.  So the doubly linked lists cut nobody off and the priority one *)
(* is a waiting line; and the singly linked lists stay apart, end, count   *)
(* their nodes, and do to their items what lists of items do.              *)
(***************************************************************************)
EXTENDS GlThread, SinglyList, CountingProofs, SequenceTheorems

----------------------------------------------------------------------------
(* Sequences: walking along links, one element more, one less. *)

\* As many numbers as the last one says.
LEMMA CountOfInterval == ASSUME NEW n \in Nat PROVE Cardinality(1..n) = n
<1>1. Cardinality(1..n) = IF 1 > n THEN 0 ELSE n - 1 + 1
  BY ONLY n \in Nat, 1 \in Int, n \in Int, FS_Interval
<1> QED
  BY <1>1

\* Following links: a function that does is the only one.
LEMMA WalkIs ==
  ASSUME NEW N \in Nat, NEW a, NEW nil, NEW next, NEW f,
         f = [k \in 0..N |-> IF k = 0 THEN a ELSE IF f[k - 1] = nil THEN nil ELSE next[f[k - 1]]]
  PROVE  (CHOOSE at : at = [k \in 0..N |-> IF k = 0 THEN a ELSE IF at[k - 1] = nil THEN nil ELSE next[at[k - 1]]]) = f
<1> DEFINE Walks(g) == g = [k \in 0..N |-> IF k = 0 THEN a ELSE IF g[k - 1] = nil THEN nil ELSE next[g[k - 1]]]
           at == CHOOSE g : Walks(g)
<1>1. Walks(f)
  OBVIOUS
<1>2. Walks(at)
  BY <1>1
<1>3. ASSUME NEW g, Walks(g) PROVE g = f
  <2>1. /\ \A k \in 0..N : g[k] = IF k = 0 THEN a ELSE IF g[k - 1] = nil THEN nil ELSE next[g[k - 1]]
        /\ \A k \in 0..N : f[k] = IF k = 0 THEN a ELSE IF f[k - 1] = nil THEN nil ELSE next[f[k - 1]]
    BY <1>1, <1>3
  <2> DEFINE D == {k \in 0..N : g[k] # f[k]}
  <2>2. D = {}
    <3>1. SUFFICES ASSUME D # {} PROVE FALSE
      OBVIOUS
    <3>2. D \in SUBSET Nat
      OBVIOUS
    <3>3. PICK x \in D : \A y \in D : x <= y
      BY <3>1, <3>2, LeastElement
    <3>4. x \in 0..N /\ x # 0
      BY <2>1, <3>3
    <3>5. x - 1 \in 0..N /\ x - 1 \notin D
      BY <3>3, <3>4
    <3> QED
      BY <2>1, <3>3, <3>4, <3>5
  <2>3. \A k \in 0..N : g[k] = f[k]
    BY <2>2
  <2>4. g = [k \in 0..N |-> g[k]] /\ f = [k \in 0..N |-> f[k]]
    <3> HIDE DEF D
    <3>1. ASSUME NEW h, Walks(h) PROVE h = [k \in 0..N |-> h[k]]
      BY <3>1
    <3> QED BY <1>1, <1>3, <3>1
  <2> HIDE DEF D, Walks
  <2> QED
    BY <2>3, <2>4
<1> QED
  BY <1>2, <1>3

\* What is met from a on along next, in at most N steps.
Met(N, a, nil, next) ==
    LET at[k \in 0..N] == IF k = 0 THEN a ELSE IF at[k - 1] = nil THEN nil ELSE next[at[k - 1]]
        met == Cardinality({k \in 1..N : at[k - 1] # nil})
    IN  [k \in 1..met |-> at[k - 1]]

\* The elements of s are met, if next leads from each to the one after it.
LEMMA MetIs ==
  ASSUME NEW N \in Nat, NEW a, NEW nil, NEW next, NEW S, NEW s \in Seq(S), nil \notin S, Len(s) <= N,
         a = IF 1 \in 1..Len(s) THEN s[1] ELSE nil,
         \A i \in 1..Len(s) : next[s[i]] = IF i + 1 \in 1..Len(s) THEN s[i + 1] ELSE nil
  PROVE  Met(N, a, nil, next) = s
<1> DEFINE on(k) == IF k \in 1..Len(s) THEN s[k] ELSE nil
           f == [k \in 0..N |-> on(k + 1)]
<1>1. Len(s) \in Nat /\ \A k \in 1..Len(s) : s[k] \in S /\ s[k] # nil
  OBVIOUS
<1>2. f = [k \in 0..N |-> IF k = 0 THEN a ELSE IF f[k - 1] = nil THEN nil ELSE next[f[k - 1]]]
  <2>1. ASSUME NEW k \in 0..N
        PROVE on(k + 1) = IF k = 0 THEN a ELSE IF f[k - 1] = nil THEN nil ELSE next[f[k - 1]]
    <3>1. CASE k = 0
      BY <3>1
    <3>2. CASE k # 0 /\ k <= Len(s)
      <4>1. f[k - 1] = s[k] /\ k \in 1..Len(s)
        BY <1>1, <3>2
      <4> QED
        BY <4>1, <1>1, <3>2
    <3>3. CASE k # 0 /\ k > Len(s)
      <4>1. f[k - 1] = nil
        BY <1>1, <3>3
      <4> QED
        BY <4>1, <3>3, <1>1
    <3> QED
      BY <3>1, <3>2, <3>3, <1>1
  <2> QED
    BY <2>1
<1>3. Met(N, a, nil, next) = [k \in 1..Cardinality({k \in 1..N : f[k - 1] # nil}) |-> f[k - 1]]
  <2> DEFINE walk == CHOOSE at : at = [k \in 0..N |-> IF k = 0 THEN a ELSE IF at[k - 1] = nil THEN nil ELSE next[at[k - 1]]]
  <2>1. walk = f
    <3> HIDE DEF f
    <3> QED
      BY ONLY N \in Nat, <1>2, WalkIs
  <2>2. Met(N, a, nil, next) = [k \in 1..Cardinality({k \in 1..N : walk[k - 1] # nil}) |-> walk[k - 1]]
    BY DEF Met
  <2> HIDE DEF f, walk
  <2> QED
    BY <2>1, <2>2
<1>4. {k \in 1..N : f[k - 1] # nil} = 1..Len(s)
  BY <1>1
<1>5. Cardinality(1..Len(s)) = Len(s)
  BY <1>1, CountOfInterval
<1>6. [k \in 1..Len(s) |-> f[k - 1]] = s
  <2>1. \A k \in 1..Len(s) : f[k - 1] = s[k]
    BY <1>1
  <2> HIDE DEF f
  <2> QED
    BY <1>1, <2>1
<1> HIDE DEF f
<1> QED
  BY <1>3, <1>4, <1>5, <1>6

\* An element more in a list.
MayComeIn(S, s, k, e) == s \in Seq(S) /\ k \in 1..(Len(s) + 1) /\ e \in S
HasOneMore(S, s, k, e, u) ==
    /\ u \in Seq(S) /\ Len(u) = Len(s) + 1
    /\ \A i \in 1..(Len(s) + 1) : u[i] = IF i < k THEN s[i] ELSE IF i = k THEN e ELSE s[i - 1]

\* An element that may come in does.
LEMMA ComesIn ==
  ASSUME NEW S, NEW s, NEW k, NEW e, MayComeIn(S, s, k, e)
  PROVE  HasOneMore(S, s, k, e, InsertAt(s, k, e))
<1> SUFFICES ASSUME s \in Seq(S), k \in 1..(Len(s) + 1), e \in S
             PROVE  HasOneMore(S, s, k, e, InsertAt(s, k, e))
  BY DEF MayComeIn
<1> DEFINE a == SubSeq(s, 1, k - 1)
           b == SubSeq(s, k, Len(s))
           m == a \o <<e>>
<1>0. Len(s) \in Nat /\ k \in Int /\ k >= 1 /\ k <= Len(s) + 1 /\ \A i \in 1..Len(s) : s[i] \in S
  OBVIOUS
<1>1. a \in Seq(S) /\ Len(a) = k - 1 /\ \A i \in 1..(k - 1) : a[i] = s[i]
  <2>1. \A i \in 1..(k - 1) : s[i] \in S
    BY <1>0
  <2> QED
    BY <1>0, <2>1, SubSeqProperties
<1>2. b \in Seq(S) /\ Len(b) = Len(s) - k + 1 /\ \A i \in 1..(Len(s) - k + 1) : b[i] = s[k + i - 1]
  <2>1. \A i \in k..Len(s) : s[i] \in S
    BY <1>0
  <2> QED
    BY <1>0, <2>1, SubSeqProperties
<1> HIDE DEF a, b
<1>3. <<e>> \in Seq(S) /\ Len(<<e>>) = 1 /\ <<e>>[1] = e
  OBVIOUS
<1>4. /\ m \in Seq(S) /\ Len(m) = k
      /\ \A i \in 1..k : m[i] = IF i < k THEN s[i] ELSE e
  <2>1. /\ m \in Seq(S) /\ Len(m) = Len(a) + 1
        /\ \A i \in 1..(Len(a) + 1) : m[i] = IF i <= Len(a) THEN a[i] ELSE <<e>>[i - Len(a)]
    BY <1>1, <1>3, ConcatProperties
  <2> HIDE DEF m
  <2> QED
    BY <1>0, <1>1, <1>3, <2>1
<1> HIDE DEF m
<1>5. InsertAt(s, k, e) = m \o b
  BY DEF InsertAt, m, a, b
<1>6. /\ m \o b \in Seq(S) /\ Len(m \o b) = Len(m) + Len(b)
      /\ \A i \in 1..(Len(m) + Len(b)) : (m \o b)[i] = IF i <= Len(m) THEN m[i] ELSE b[i - Len(m)]
  BY <1>2, <1>4, ConcatProperties, Zenon
<1> DEFINE r == m \o b
<1> HIDE DEF r
<1>7. ASSUME NEW i \in 1..(Len(s) + 1)
      PROVE  r[i] = IF i < k THEN s[i] ELSE IF i = k THEN e ELSE s[i - 1]
  <2>1. CASE i <= k
    BY <2>1, <1>0, <1>2, <1>4, <1>6 DEF r
  <2>2. CASE i > k
    <3>1. r[i] = b[i - k] /\ i - k \in 1..(Len(s) - k + 1)
      BY <2>2, <1>0, <1>2, <1>4, <1>6 DEF r
    <3>2. k + (i - k) - 1 = i - 1
      BY <1>0
    <3> QED
      BY <2>2, <3>1, <3>2, <1>0, <1>2
  <2> QED
    BY <2>1, <2>2, <1>0
<1> QED
  BY <1>0, <1>2, <1>4, <1>5, <1>6, <1>7 DEF r, HasOneMore

\* The same without these names.
LEMMA ListWithOneMore ==
  ASSUME NEW S, NEW s \in Seq(S), NEW k \in 1..(Len(s) + 1), NEW e \in S
  PROVE  /\ InsertAt(s, k, e) \in Seq(S) /\ Len(InsertAt(s, k, e)) = Len(s) + 1
         /\ \A i \in 1..(Len(s) + 1) : InsertAt(s, k, e)[i] = IF i < k THEN s[i] ELSE IF i = k THEN e ELSE s[i - 1]
<1>1. MayComeIn(S, s, k, e)
  BY DEF MayComeIn
<1>2. HasOneMore(S, s, k, e, InsertAt(s, k, e))
  BY ONLY <1>1, ComesIn
<1> QED
  BY ONLY <1>2 DEF HasOneMore

\* An element less in a list.
MayGoOut(S, s, k) == s \in Seq(S) /\ k \in 1..Len(s)
HasOneLess(S, s, k, u) ==
    /\ u \in Seq(S) /\ Len(u) = Len(s) - 1
    /\ \A i \in 1..(Len(s) - 1) : u[i] = IF i < k THEN s[i] ELSE s[i + 1]

\* An element that may go out does.
LEMMA GoesOut ==
  ASSUME NEW S, NEW s, NEW k, MayGoOut(S, s, k)
  PROVE  HasOneLess(S, s, k, RemoveAt(s, k))
<1> SUFFICES ASSUME s \in Seq(S), k \in 1..Len(s)
             PROVE  HasOneLess(S, s, k, RemoveAt(s, k))
  BY DEF MayGoOut
<1> DEFINE a == SubSeq(s, 1, k - 1)
           b == SubSeq(s, k + 1, Len(s))
<1>0. Len(s) \in Nat /\ k \in Int /\ k >= 1 /\ k <= Len(s) /\ \A i \in 1..Len(s) : s[i] \in S
  OBVIOUS
<1>1. a \in Seq(S) /\ Len(a) = k - 1 /\ \A i \in 1..(k - 1) : a[i] = s[i]
  <2>1. \A i \in 1..(k - 1) : s[i] \in S
    BY <1>0
  <2> QED
    BY <1>0, <2>1, SubSeqProperties
<1>2. b \in Seq(S) /\ Len(b) = Len(s) - k /\ \A i \in 1..(Len(s) - k) : b[i] = s[k + i]
  <2>1. \A i \in (k + 1)..Len(s) : s[i] \in S
    BY <1>0
  <2> QED
    BY <1>0, <2>1, SubSeqProperties
<1> HIDE DEF a, b
<1>3. RemoveAt(s, k) = a \o b
  BY DEF RemoveAt, a, b
<1>4. /\ a \o b \in Seq(S) /\ Len(a \o b) = Len(a) + Len(b)
      /\ \A i \in 1..(Len(a) + Len(b)) : (a \o b)[i] = IF i <= Len(a) THEN a[i] ELSE b[i - Len(a)]
  BY <1>1, <1>2, ConcatProperties, Zenon
<1> DEFINE r == a \o b
<1> HIDE DEF r
<1>5. ASSUME NEW i \in 1..(Len(s) - 1)
      PROVE  r[i] = IF i < k THEN s[i] ELSE s[i + 1]
  <2>1. CASE i < k
    BY <2>1, <1>0, <1>1, <1>2, <1>4 DEF r
  <2>2. CASE ~(i < k)
    <3>1. r[i] = b[i - (k - 1)] /\ i - (k - 1) \in 1..(Len(s) - k)
      BY <2>2, <1>0, <1>1, <1>2, <1>4 DEF r
    <3>2. k + (i - (k - 1)) = i + 1
      BY <1>0
    <3> QED
      BY <2>2, <3>1, <3>2, <1>0, <1>2
  <2> QED
    BY <2>1, <2>2, <1>0
<1> QED
  BY <1>0, <1>1, <1>2, <1>3, <1>4, <1>5 DEF r, HasOneLess

\* The same without these names.
LEMMA ListWithOneLess ==
  ASSUME NEW S, NEW s \in Seq(S), NEW k \in 1..Len(s)
  PROVE  /\ RemoveAt(s, k) \in Seq(S) /\ Len(RemoveAt(s, k)) = Len(s) - 1
         /\ \A i \in 1..(Len(s) - 1) : RemoveAt(s, k)[i] = IF i < k THEN s[i] ELSE s[i + 1]
<1>1. MayGoOut(S, s, k)
  BY DEF MayGoOut
<1>2. HasOneLess(S, s, k, RemoveAt(s, k))
  BY ONLY <1>1, GoesOut
<1> QED
  BY ONLY <1>2 DEF HasOneLess

\* A list without repetitions is no longer than there are elements.
LEMMA ListFitsItsSet ==
  ASSUME NEW S, IsFiniteSet(S), NEW s \in Seq(S), IsInjective(s)
  PROVE  /\ Cardinality(S) \in Nat /\ Len(s) \in Nat /\ Len(s) <= Cardinality(S)
         /\ Cardinality({s[i] : i \in 1..Len(s)}) = Len(s)
<1> DEFINE T == {s[i] : i \in 1..Len(s)}
<1>1. Len(s) \in Nat /\ DOMAIN s = 1..Len(s) /\ s \in [1..Len(s) -> S]
  OBVIOUS
<1>2. T \in SUBSET S
  BY <1>1
<1>3. s \in Bijection(1..Len(s), T)
  <2>1. s \in [1..Len(s) -> T]
    BY <1>1
  <2>2. \A t \in T : \E i \in 1..Len(s) : s[i] = t
    OBVIOUS
  <2> HIDE DEF T
  <2> QED
    BY <1>1, <2>1, <2>2 DEF Bijection, Injection, Surjection
<1>4. ExistsBijection(1..Len(s), T)
  <2> HIDE DEF T
  <2> QED BY <1>3 DEF ExistsBijection
<1>5. Cardinality(T) = Len(s)
  <2> HIDE DEF T
  <2> QED BY <1>1, <1>4, FS_CountingElements
<1>6. Cardinality(T) <= Cardinality(S) /\ Cardinality(S) \in Nat
  <2> HIDE DEF T
  <2> QED BY <1>2, CountOfSubset
<1> QED
  BY <1>1, <1>5, <1>6

----------------------------------------------------------------------------
(* The doubly linked lists: what they hold, and a node more or less. *)

GlTypeOK == left \in [AllGl -> AllGl \cup {NoGl}] /\ right \in [AllGl -> AllGl \cup {NoGl}]
GlInv == GlTypeOK /\ GlLinksAgree

GlAt(s, i) == IF i \in 1..Len(s) THEN s[i] ELSE NoGl

\* What is met from b on, if r leads to the right.
GlWalk(r, b) == Met(Cardinality(GlNodes), r[b], NoGl, r)

\* From b on r leads through the nodes of s and ends there.
GlRun(r, b, s) ==
    /\ s \in Seq(GlNodes) /\ IsInjective(s)
    /\ r[b] = GlAt(s, 1)
    /\ \A i \in 1..Len(s) : r[s[i]] = GlAt(s, i + 1)

\* The chain is what the links lead through.
LEMMA GlChainIs ==
  ASSUME NEW r, NEW b, NEW s, GlRun(r, b, s)
  PROVE  GlWalk(r, b) = s
<1>1. s \in Seq(GlNodes) /\ Len(s) <= Cardinality(GlNodes) /\ Cardinality(GlNodes) \in Nat
  BY ListFitsItsSet, GlBasesApart DEF GlRun
<1>2. NoGl \notin GlNodes
  BY GlBasesApart
<1>3. /\ r[b] = IF 1 \in 1..Len(s) THEN s[1] ELSE NoGl
      /\ \A i \in 1..Len(s) : r[s[i]] = IF i + 1 \in 1..Len(s) THEN s[i + 1] ELSE NoGl
  BY DEF GlRun, GlAt
<1> QED
  BY <1>1, <1>2, <1>3, MetIs DEF GlWalk

\* The list of b holds the nodes of s, that of c those of t, and who is in none
\* of them stands alone.
GlHold(l, r, b, s, c, t) ==
    /\ GlRun(r, b, s) /\ GlRun(r, c, t)
    /\ \A i \in 1..Len(s), j \in 1..Len(t) : s[i] # t[j]
    /\ \A n \in GlNodes : \/ \E i \in 1..Len(s) : s[i] = n
                          \/ \E i \in 1..Len(t) : t[i] = n
                          \/ l[n] = NoGl /\ r[n] = NoGl

\* The node, or the base, that place i of a list is to the right of.
GlLeftOf(b, s, i) == IF i = 1 THEN b ELSE s[i - 1]

\* A node comes in at place k.
LEMMA GlOneMore ==
  ASSUME GlInv, NEW b, NEW c, NEW s, NEW t, {b, c} = {PriorityBase, PlainBase},
         GlHold(left, right, b, s, c, t),
         NEW k \in 1..(Len(s) + 1), NEW new \in GlNodes, Unlinked(new),
         \A n \in AllGl : right'[n] = IF n = GlLeftOf(b, s, k) THEN new
                                      ELSE IF n = new THEN GlAt(s, k) ELSE right[n],
         \A n \in AllGl : n # new /\ n # GlAt(s, k) => left'[n] = left[n]
  PROVE  GlHold(left', right', b, InsertAt(s, k, new), c, t)
<1> DEFINE u == InsertAt(s, k, new)
<1>1. /\ s \in Seq(GlNodes) /\ t \in Seq(GlNodes) /\ Len(s) \in Nat /\ Len(t) \in Nat
      /\ DOMAIN s = 1..Len(s) /\ DOMAIN t = 1..Len(t)
  BY DEF GlHold, GlRun
<1>2. /\ u \in Seq(GlNodes) /\ Len(u) = Len(s) + 1 /\ DOMAIN u = 1..(Len(s) + 1)
      /\ \A i \in 1..(Len(s) + 1) : u[i] = IF i < k THEN s[i] ELSE IF i = k THEN new ELSE s[i - 1]
  BY <1>1, ListWithOneMore
<1>3. /\ GlNodes \subseteq AllGl /\ b \in AllGl /\ c \in AllGl /\ b \notin GlNodes /\ c \notin GlNodes
      /\ NoGl \notin AllGl /\ b # c
  BY GlBasesApart DEF AllGl
<1>4. /\ \A i \in 1..Len(s) : s[i] \in GlNodes /\ s[i] # new
      /\ \A i \in 1..Len(t) : t[i] \in GlNodes /\ t[i] # new
  <2>1. ASSUME NEW x \in AllGl, right[x] \in GlNodes PROVE right[x] # new
    BY <2>1, <1>3 DEF GlInv, GlLinksAgree, GlTypeOK, Unlinked
  <2>2. ASSUME NEW i \in 1..Len(s) PROVE s[i] # new
    <3>1. CASE i = 1
      BY <3>1, <2>1, <1>1, <1>3 DEF GlHold, GlRun, GlAt
    <3>2. CASE i # 1
      <4>0. i - 1 \in 1..Len(s) /\ (i - 1) + 1 = i
        BY <3>2, <1>1
      <4>1. s[i - 1] \in AllGl /\ right[s[i - 1]] = GlAt(s, (i - 1) + 1)
        <5>1. \A j \in 1..Len(s) : s[j] \in AllGl /\ right[s[j]] = GlAt(s, j + 1)
          BY <1>1, <1>3 DEF GlHold, GlRun
        <5> QED
          BY ONLY <4>0, <5>1
      <4>2. GlAt(s, i) = s[i] /\ s[i] \in GlNodes
        BY <1>1 DEF GlAt
      <4> QED
        BY <4>0, <4>1, <4>2, <2>1
    <3> QED
      BY <3>1, <3>2
  <2>3. ASSUME NEW i \in 1..Len(t) PROVE t[i] # new
    <3>1. CASE i = 1
      BY <3>1, <2>1, <1>1, <1>3 DEF GlHold, GlRun, GlAt
    <3>2. CASE i # 1
      <4>0. i - 1 \in 1..Len(t) /\ (i - 1) + 1 = i
        BY <3>2, <1>1
      <4>1. t[i - 1] \in AllGl /\ right[t[i - 1]] = GlAt(t, (i - 1) + 1)
        <5>1. \A j \in 1..Len(t) : t[j] \in AllGl /\ right[t[j]] = GlAt(t, j + 1)
          BY <1>1, <1>3 DEF GlHold, GlRun
        <5> QED
          BY ONLY <4>0, <5>1
      <4>2. GlAt(t, i) = t[i] /\ t[i] \in GlNodes
        BY <1>1 DEF GlAt
      <4> QED
        BY <4>0, <4>1, <4>2, <2>1
    <3> QED
      BY <3>1, <3>2
  <2> QED
    BY <2>2, <2>3, <1>1
<1>5. \A i, j \in 1..Len(s) : s[i] = s[j] => i = j
  BY <1>1 DEF GlHold, GlRun, IsInjective
<1> HIDE DEF u
<1>6. IsInjective(u)
  <2>1. ASSUME NEW i \in 1..(Len(s) + 1), NEW j \in 1..(Len(s) + 1), u[i] = u[j] PROVE i = j
    <3> DEFINE back(x) == IF x < k THEN x ELSE x - 1
    <3>1. \A x \in 1..(Len(s) + 1) : x # k => back(x) \in 1..Len(s) /\ u[x] = s[back(x)]
      BY <1>1, <1>2
    <3>2. u[k] = new
      BY <1>2
    <3>3. CASE i = k \/ j = k
      BY <3>1, <3>2, <3>3, <1>4, <2>1
    <3>4. CASE i # k /\ j # k
      <4>1. back(i) = back(j)
        BY <3>1, <3>4, <1>5, <2>1
      <4> QED
        BY <4>1, <3>4
    <3> QED
      BY <3>3, <3>4
  <2> QED
    BY <2>1, <1>2 DEF IsInjective
<1>7. right'[b] = GlAt(u, 1)
  <2>1. GlAt(u, 1) = IF k = 1 THEN new ELSE s[1]
    BY <1>1, <1>2 DEF GlAt
  <2>2. CASE k = 1
    BY <2>1, <2>2, <1>3 DEF GlLeftOf
  <2>3. CASE k # 1
    <3>1. 1 \in 1..Len(s) /\ k - 1 \in 1..Len(s)
      BY <2>3, <1>1
    <3>2. b # GlLeftOf(b, s, k) /\ b # new
      BY <2>3, <3>1, <1>3, <1>4 DEF GlLeftOf
    <3> QED
      BY <2>1, <2>3, <3>1, <3>2, <1>3 DEF GlHold, GlRun, GlAt
  <2> QED
    BY <2>2, <2>3
<1>8. ASSUME NEW i \in 1..Len(u) PROVE right'[u[i]] = GlAt(u, i + 1)
  <2>0. i \in 1..(Len(s) + 1)
    BY <1>2
  <2>1. CASE i = k
    <3>1. u[i] = new /\ new # GlLeftOf(b, s, k) /\ new \in AllGl
      BY <2>1, <1>1, <1>2, <1>3, <1>4 DEF GlLeftOf
    <3>2. right'[new] = GlAt(s, k)
      BY <3>1
    <3>3. GlAt(u, k + 1) = GlAt(s, k)
      BY <1>1, <1>2 DEF GlAt
    <3> QED
      BY <2>1, <3>1, <3>2, <3>3
  <2>2. CASE i = k - 1
    <3>0. i \in 1..Len(s) /\ k # 1 /\ i < k /\ i + 1 = k /\ k \in 1..(Len(s) + 1)
      BY <2>0, <2>2, <1>1
    <3>1. i \in 1..Len(s) /\ u[i] = s[i] /\ k # 1 /\ s[i] \in AllGl /\ u[i + 1] = new
      BY <2>0, <3>0, <1>1, <1>2, <1>3
    <3>2. s[i] = GlLeftOf(b, s, k)
      BY <2>2, <3>1 DEF GlLeftOf
    <3>3. GlAt(u, i + 1) = new
      BY <2>0, <2>2, <3>1, <1>2 DEF GlAt
    <3> QED
      BY <3>1, <3>2, <3>3
  <2>3. CASE i # k /\ i # k - 1
    <3> DEFINE j == IF i < k THEN i ELSE i - 1
    <3>1. j \in 1..Len(s) /\ u[i] = s[j] /\ j # k - 1
      BY <2>0, <2>3, <1>1, <1>2
    <3>2. s[j] \in AllGl /\ s[j] # new /\ s[j] # GlLeftOf(b, s, k)
      <4>1. CASE k = 1
        BY <4>1, <3>1, <1>3, <1>4 DEF GlLeftOf
      <4>2. CASE k # 1
        <5>1. k - 1 \in 1..Len(s)
          BY <4>2, <1>1
        <5> QED
          BY <4>2, <5>1, <3>1, <1>3, <1>4, <1>5 DEF GlLeftOf
      <4> QED
        BY <4>1, <4>2
    <3>3. right'[u[i]] = GlAt(s, j + 1)
      BY <3>1, <3>2 DEF GlHold, GlRun
    <3>4. GlAt(s, j + 1) = GlAt(u, i + 1)
      BY <2>0, <2>3, <1>1, <1>2 DEF GlAt
    <3> QED
      BY <3>3, <3>4
  <2> QED
    BY <2>1, <2>2, <2>3
<1>9. GlRun(right', b, u)
  BY <1>2, <1>6, <1>7, <1>8 DEF GlRun
<1>10. GlLeftOf(b, s, k) # c /\ \A i \in 1..Len(t) : t[i] # GlLeftOf(b, s, k)
  <2>1. CASE k = 1
    BY <2>1, <1>3, <1>4 DEF GlLeftOf
  <2>2. CASE k # 1
    <3>1. k - 1 \in 1..Len(s)
      BY <2>2, <1>1
    <3> QED
      BY <2>2, <3>1, <1>3, <1>4 DEF GlLeftOf, GlHold
  <2> QED
    BY <2>1, <2>2
<1>11. GlRun(right', c, t)
  BY <1>10, <1>3, <1>4 DEF GlHold, GlRun
<1>12. \A i \in 1..Len(u), j \in 1..Len(t) : u[i] # t[j]
  <2>1. ASSUME NEW i \in 1..(Len(s) + 1) PROVE u[i] = new \/ \E j \in 1..Len(s) : u[i] = s[j]
    <3>1. i < k => i \in 1..Len(s)
      BY <1>1
    <3>2. i > k => i - 1 \in 1..Len(s)
      BY <1>1
    <3> QED
      BY <3>1, <3>2, <1>2
  <2> QED
    BY <2>1, <1>2, <1>4 DEF GlHold
<1>13. ASSUME NEW n \in GlNodes
       PROVE  \/ \E i \in 1..Len(u) : u[i] = n
              \/ \E i \in 1..Len(t) : t[i] = n
              \/ left'[n] = NoGl /\ right'[n] = NoGl
  <2>1. CASE n = new
    BY <2>1, <1>2
  <2>2. ASSUME NEW i \in 1..Len(s), s[i] = n PROVE \E j \in 1..Len(u) : u[j] = n
    <3>1. CASE i < k
      BY <3>1, <2>2, <1>1, <1>2
    <3>2. CASE ~(i < k)
      <4>1. i + 1 \in 1..Len(u) /\ u[i + 1] = s[i]
        BY <3>2, <1>1, <1>2
      <4> QED
        BY <4>1, <2>2
    <3> QED
      BY <3>1, <3>2
  <2>3. CASE n # new /\ left[n] = NoGl /\ right[n] = NoGl /\ ~\E i \in 1..Len(s) : s[i] = n
    <3>1. n # GlLeftOf(b, s, k) /\ n # GlAt(s, k)
      BY <2>3, <1>1, <1>3 DEF GlLeftOf, GlAt
    <3> QED
      BY <2>3, <3>1, <1>3
  <2> QED
    BY <2>1, <2>2, <2>3 DEF GlHold
<1> QED
  BY <1>9, <1>11, <1>12, <1>13 DEF GlHold, u

\* The node at place k goes.
LEMMA GlOneLess ==
  ASSUME GlInv, NEW b, NEW c, NEW s, NEW t, {b, c} = {PriorityBase, PlainBase},
         GlHold(left, right, b, s, c, t), NEW k \in 1..Len(s), remove_glthread(s[k])
  PROVE  GlHold(left', right', b, RemoveAt(s, k), c, t)
<1> DEFINE u == RemoveAt(s, k)
<1>1. /\ s \in Seq(GlNodes) /\ t \in Seq(GlNodes) /\ Len(s) \in Nat /\ Len(t) \in Nat
      /\ DOMAIN s = 1..Len(s) /\ DOMAIN t = 1..Len(t)
  BY DEF GlHold, GlRun
<1>2. /\ u \in Seq(GlNodes) /\ Len(u) = Len(s) - 1 /\ DOMAIN u = 1..(Len(s) - 1)
      /\ \A i \in 1..(Len(s) - 1) : u[i] = IF i < k THEN s[i] ELSE s[i + 1]
  <2>1. /\ u \in Seq(GlNodes) /\ Len(u) = Len(s) - 1
        /\ \A i \in 1..(Len(s) - 1) : u[i] = IF i < k THEN s[i] ELSE s[i + 1]
    BY <1>1, ListWithOneLess
  <2> HIDE DEF u
  <2> QED
    BY <2>1
<1>3. /\ GlNodes \subseteq AllGl /\ b \in AllGl /\ c \in AllGl /\ b \notin GlNodes /\ c \notin GlNodes
      /\ NoGl \notin AllGl /\ b # c
  BY GlBasesApart DEF AllGl
<1>4. /\ \A i \in 1..Len(s) : s[i] \in GlNodes
      /\ \A i \in 1..Len(t) : t[i] \in GlNodes
      /\ \A i, j \in 1..Len(s) : s[i] = s[j] => i = j
  <2>1. /\ \A i \in 1..Len(s) : s[i] \in GlNodes
        /\ \A i \in 1..Len(t) : t[i] \in GlNodes
    BY <1>1
  <2>2. \A i, j \in 1..Len(s) : s[i] = s[j] => i = j
    BY <1>1 DEF GlHold, GlRun, IsInjective
  <2> QED
    BY <2>1, <2>2
<1>5. right[s[k]] = GlAt(s, k + 1)
  BY DEF GlHold, GlRun
<1>6. left[s[k]] = GlLeftOf(b, s, k)
  <2>1. CASE k = 1
    <3>1. right[b] = s[k]
      BY <2>1, <1>1 DEF GlHold, GlRun, GlAt
    <3> QED
      BY <2>1, <3>1, <1>3, <1>4 DEF GlLeftOf, GlInv, GlLinksAgree
  <2>2. CASE k # 1
    <3>1. k - 1 \in 1..Len(s)
      BY <2>2, <1>1
    <3>2. right[s[k - 1]] = GlAt(s, (k - 1) + 1)
      BY <3>1 DEF GlHold, GlRun
    <3>3. GlAt(s, (k - 1) + 1) = s[k]
      BY <1>1 DEF GlAt
    <3> QED
      BY <2>2, <3>1, <3>2, <3>3, <1>3, <1>4 DEF GlLeftOf, GlInv, GlLinksAgree
  <2> QED
    BY <2>1, <2>2
<1>7. /\ \A n \in AllGl : right'[n] = IF n = s[k] THEN NoGl
                                      ELSE IF n = GlLeftOf(b, s, k) THEN GlAt(s, k + 1) ELSE right[n]
      /\ left'[s[k]] = NoGl
      /\ \A n \in AllGl : n # s[k] /\ n # GlAt(s, k + 1) => left'[n] = left[n]
  BY <1>3, <1>4, <1>5, <1>6 DEF remove_glthread
<1> HIDE DEF u
<1>8. IsInjective(u)
  <2>1. ASSUME NEW i \in 1..(Len(s) - 1), NEW j \in 1..(Len(s) - 1), u[i] = u[j] PROVE i = j
    <3> DEFINE on(x) == IF x < k THEN x ELSE x + 1
    <3>1. on(i) \in 1..Len(s) /\ u[i] = s[on(i)] /\ on(j) \in 1..Len(s) /\ u[j] = s[on(j)]
      BY <1>1, <1>2
    <3>2. on(i) = on(j)
      BY <3>1, <2>1, <1>4
    <3> QED
      BY <3>2
  <2> QED
    BY <2>1, <1>2 DEF IsInjective
<1>9. right'[b] = GlAt(u, 1)
  <2>1. right'[b] = IF k = 1 THEN GlAt(s, 2) ELSE right[b]
    <3>1. b # s[k]
      BY <1>3, <1>4
    <3>2. b = GlLeftOf(b, s, k) <=> k = 1
      <4>1. k # 1 => k - 1 \in 1..Len(s)
        BY <1>1
      <4> QED
        BY <4>1, <1>3, <1>4 DEF GlLeftOf
    <3> QED
      BY <3>1, <3>2, <1>3, <1>7
  <2>2. GlAt(u, 1) = IF k = 1 THEN GlAt(s, 2) ELSE GlAt(s, 1)
    BY <1>1, <1>2 DEF GlAt
  <2> QED
    BY <2>1, <2>2 DEF GlHold, GlRun
<1>10. ASSUME NEW i \in 1..Len(u) PROVE right'[u[i]] = GlAt(u, i + 1)
  <2>0. i \in 1..(Len(s) - 1)
    BY <1>2
  <2>1. CASE i = k - 1
    <3>1. i \in 1..Len(s) /\ u[i] = s[i] /\ s[i] # s[k] /\ s[i] \in AllGl
      BY <2>0, <2>1, <1>1, <1>2, <1>3, <1>4
    <3>2. s[i] = GlLeftOf(b, s, k)
      BY <2>0, <2>1, <1>1 DEF GlLeftOf
    <3>3. GlAt(u, i + 1) = GlAt(s, k + 1)
      BY <2>0, <2>1, <1>1, <1>2 DEF GlAt
    <3> QED
      BY <3>1, <3>2, <3>3, <1>7
  <2>2. CASE i # k - 1
    <3> DEFINE j == IF i < k THEN i ELSE i + 1
    <3>1. j \in 1..Len(s) /\ u[i] = s[j] /\ j # k - 1 /\ j # k
      BY <2>0, <2>2, <1>1, <1>2
    <3>2. s[j] \in AllGl /\ s[j] # s[k] /\ s[j] # GlLeftOf(b, s, k)
      <4>1. CASE k = 1
        BY <4>1, <3>1, <1>3, <1>4 DEF GlLeftOf
      <4>2. CASE k # 1
        <5>1. k - 1 \in 1..Len(s)
          BY <4>2, <1>1
        <5> QED
          BY <4>2, <5>1, <3>1, <1>3, <1>4 DEF GlLeftOf
      <4> QED
        BY <4>1, <4>2
    <3>3. right'[u[i]] = GlAt(s, j + 1)
      <4>1. right[s[j]] = GlAt(s, j + 1)
        BY <3>1 DEF GlHold, GlRun
      <4>2. right'[s[j]] = right[s[j]]
        BY <3>2, <1>7
      <4> QED
        BY <3>1, <4>1, <4>2
    <3>4. GlAt(s, j + 1) = GlAt(u, i + 1)
      BY <2>0, <2>2, <1>1, <1>2 DEF GlAt
    <3> QED
      BY <3>3, <3>4
  <2> QED
    BY <2>1, <2>2
<1>11. GlRun(right', b, u)
  BY <1>2, <1>8, <1>9, <1>10 DEF GlRun
<1>12. GlLeftOf(b, s, k) # c /\ \A i \in 1..Len(t) : t[i] # GlLeftOf(b, s, k) /\ t[i] # s[k]
  <2>1. CASE k = 1
    BY <2>1, <1>3, <1>4 DEF GlLeftOf, GlHold
  <2>2. CASE k # 1
    <3>1. k - 1 \in 1..Len(s)
      BY <2>2, <1>1
    <3> QED
      BY <2>2, <3>1, <1>3, <1>4 DEF GlLeftOf, GlHold
  <2> QED
    BY <2>1, <2>2
<1>13. GlRun(right', c, t)
  <2>1. c # s[k]
    BY <1>3, <1>4
  <2>2. right'[c] = right[c]
    BY <2>1, <1>12, <1>3, <1>7
  <2>3. \A i \in 1..Len(t) : right'[t[i]] = right[t[i]]
    BY <1>12, <1>3, <1>4, <1>7
  <2> QED
    BY <2>2, <2>3 DEF GlHold, GlRun
<1>14. \A i \in 1..Len(u), j \in 1..Len(t) : u[i] # t[j]
  <2>1. ASSUME NEW i \in 1..(Len(s) - 1) PROVE \E j \in 1..Len(s) : u[i] = s[j]
    <3>1. i \in 1..Len(s) /\ i + 1 \in 1..Len(s)
      BY <1>1
    <3> QED
      BY <3>1, <1>2
  <2> QED
    BY <2>1, <1>2, <1>4 DEF GlHold
<1>15. ASSUME NEW n \in GlNodes
       PROVE  \/ \E i \in 1..Len(u) : u[i] = n
              \/ \E i \in 1..Len(t) : t[i] = n
              \/ left'[n] = NoGl /\ right'[n] = NoGl
  <2>1. CASE n = s[k]
    BY <2>1, <1>3, <1>7
  <2>2. ASSUME NEW i \in 1..Len(s), s[i] = n, i # k PROVE \E j \in 1..Len(u) : u[j] = n
    <3>1. CASE i < k
      <4>1. i \in 1..Len(u) /\ u[i] = s[i]
        BY <3>1, <1>1, <1>2
      <4> QED
        BY <4>1, <2>2
    <3>2. CASE ~(i < k)
      <4>1. i - 1 \in 1..Len(u) /\ u[i - 1] = s[i]
        BY <3>2, <2>2, <1>1, <1>2
      <4> QED
        BY <4>1, <2>2
    <3> QED
      BY <3>1, <3>2
  <2>3. CASE n # s[k] /\ left[n] = NoGl /\ right[n] = NoGl /\ ~\E i \in 1..Len(s) : s[i] = n
    <3>1. n # GlLeftOf(b, s, k) /\ n # GlAt(s, k + 1)
      BY <2>3, <1>1, <1>3 DEF GlLeftOf, GlAt
    <3> QED
      BY <2>3, <3>1, <1>3, <1>7
  <2> QED
    BY <2>1, <2>2, <2>3 DEF GlHold
<1> QED
  BY <1>11, <1>13, <1>14, <1>15 DEF GlHold, u

----------------------------------------------------------------------------
(* The doubly linked lists: what the calls do to what they hold. *)

\* The nodes behind a place of a list are those of the later places.
LEMMA GlBehindIs ==
  ASSUME NEW b \in AllGl, NEW s, GlRun(right, b, s), NEW k \in 1..(Len(s) + 1)
  PROVE  /\ GlLeftOf(b, s, k) \in AllGl /\ right[GlLeftOf(b, s, k)] = GlAt(s, k)
         /\ GlBehind(GlLeftOf(b, s, k)) = {s[i] : i \in k..Len(s)}
<1> DEFINE x == GlLeftOf(b, s, k)
           R == {s[i] : i \in k..Len(s)}
<1>1. s \in Seq(GlNodes) /\ Len(s) \in Nat /\ \A i \in 1..Len(s) : s[i] \in GlNodes /\ s[i] \in AllGl
  BY DEF GlRun, AllGl
<1>2. x \in AllGl /\ right[x] = GlAt(s, k)
  <2>1. CASE k = 1
    BY <2>1 DEF GlRun, GlLeftOf
  <2>2. CASE k # 1
    <3>1. k - 1 \in 1..Len(s) /\ (k - 1) + 1 = k
      BY <2>2, <1>1
    <3>2. \A j \in 1..Len(s) : right[s[j]] = GlAt(s, j + 1)
      BY DEF GlRun
    <3>3. right[s[k - 1]] = GlAt(s, k) /\ s[k - 1] \in AllGl
      BY <3>1, <3>2, <1>1
    <3> QED
      BY <2>2, <3>3 DEF GlLeftOf
  <2> QED
    BY <2>1, <2>2
<1>3. \A j \in 1..Len(s) : right[s[j]] = IF j < Len(s) THEN s[j + 1] ELSE NoGl
  BY <1>1 DEF GlRun, GlAt
<1>4. right[x] = IF k <= Len(s) THEN s[k] ELSE NoGl
  BY <1>1, <1>2 DEF GlAt
<1>5. R \in SUBSET AllGl /\ right[x] \in R \cup {NoGl} /\ \A m \in R : right[m] \in R \cup {NoGl}
  <2>1. R \in SUBSET AllGl
    BY <1>1
  <2>2. right[x] \in R \cup {NoGl}
    BY <1>1, <1>4
  <2>3. ASSUME NEW i \in k..Len(s) PROVE right[s[i]] \in R \cup {NoGl}
    <3>1. i \in 1..Len(s)
      BY <1>1
    <3>2. i < Len(s) => i + 1 \in k..Len(s)
      BY <1>1
    <3> QED
      BY <3>1, <3>2, <1>3
  <2> QED
    BY <2>1, <2>2, <2>3
<1>6. ASSUME NEW S \in SUBSET AllGl, right[x] \in S \cup {NoGl}, \A m \in S : right[m] \in S \cup {NoGl},
             NEW i \in k..Len(s)
      PROVE  s[i] \in S
  <2> DEFINE D == {j \in k..Len(s) : s[j] \notin S}
  <2>1. SUFFICES ASSUME D # {} PROVE FALSE
    OBVIOUS
  <2>2. D \in SUBSET Nat
    BY <1>1
  <2>3. PICK j \in D : \A y \in D : j <= y
    BY <2>1, <2>2, LeastElement
  <2>4. j \in k..Len(s) /\ s[j] \notin S /\ j \in 1..Len(s) /\ s[j] # NoGl
    BY <2>3, <1>1, GlBasesApart
  <2>5. j # k
    BY <2>4, <1>1, <1>4, <1>6
  <2>6. j - 1 \in k..Len(s) /\ j - 1 \notin D /\ j - 1 \in 1..Len(s) /\ j - 1 < Len(s) /\ (j - 1) + 1 = j
    BY <2>3, <2>4, <2>5, <1>1
  <2>7. s[j - 1] \in S
    BY <2>6
  <2>8. right[s[j - 1]] = s[j]
    BY <2>6, <1>3
  <2> QED
    BY <2>4, <2>7, <2>8, <1>6
<1>7. GlBehind(x) \subseteq R
  <2> HIDE DEF R
  <2> QED BY <1>5 DEF GlBehind
<1>8. R \subseteq GlBehind(x)
  <2>1. ASSUME NEW i \in k..Len(s) PROVE s[i] \in GlBehind(x)
    <3>1. s[i] \in AllGl
      BY <1>1
    <3> HIDE DEF x
    <3> QED
      BY <3>1, <1>6 DEF GlBehind
  <2> QED
    BY <2>1
<1> QED
  BY <1>2, <1>7, <1>8

\* The places of a list: the base, and what lies behind it.
LEMMA GlPlaces ==
  ASSUME NEW b \in AllGl, NEW s, GlRun(right, b, s), NEW x \in {b} \cup GlBehind(b)
  PROVE  \E k \in 1..(Len(s) + 1) : x = GlLeftOf(b, s, k)
<1>1. s \in Seq(GlNodes) /\ Len(s) \in Nat
  BY DEF GlRun
<1>2. 1 \in 1..(Len(s) + 1) /\ GlLeftOf(b, s, 1) = b
  BY <1>1 DEF GlLeftOf
<1>3. GlBehind(b) = {s[i] : i \in 1..Len(s)}
  <2>1. GlBehind(GlLeftOf(b, s, 1)) = {s[i] : i \in 1..Len(s)}
    BY <1>2, GlBehindIs
  <2> QED
    BY <2>1, <1>2
<1>4. ASSUME NEW i \in 1..Len(s), x = s[i] PROVE i + 1 \in 1..(Len(s) + 1) /\ x = GlLeftOf(b, s, i + 1)
  BY <1>4, <1>1 DEF GlLeftOf
<1> QED
  BY <1>2, <1>3, <1>4

\* A node of a list has the place before it to its left.
LEMMA GlMembersAreLinked ==
  ASSUME GlInv, NEW b \in {PriorityBase, PlainBase}, NEW s, GlRun(right, b, s), NEW i \in 1..Len(s)
  PROVE  /\ s[i] \in GlNodes /\ left[s[i]] = GlLeftOf(b, s, i) /\ left[s[i]] # NoGl
         /\ ~Unlinked(s[i])
<1>1. s \in Seq(GlNodes) /\ Len(s) \in Nat /\ i \in 1..(Len(s) + 1) /\ b \in AllGl
  BY DEF GlRun, AllGl
<1>2. s[i] \in GlNodes /\ s[i] \in AllGl /\ NoGl \notin AllGl
  BY <1>1, GlBasesApart DEF AllGl
<1>3. GlLeftOf(b, s, i) \in AllGl /\ right[GlLeftOf(b, s, i)] = s[i]
  BY <1>1, GlBehindIs DEF GlAt
<1>4. left[s[i]] = GlLeftOf(b, s, i)
  BY <1>2, <1>3 DEF GlInv, GlLinksAgree
<1> QED
  BY <1>2, <1>3, <1>4 DEF Unlinked

\* A node linked in to the right of a place of the list.
LEMMA GlAddNextIs ==
  ASSUME GlInv, NEW b, NEW c, NEW s, NEW t, {b, c} = {PriorityBase, PlainBase},
         GlHold(left, right, b, s, c, t),
         NEW k \in 1..(Len(s) + 1), NEW new \in GlNodes, Unlinked(new),
         glthread_add_next(GlLeftOf(b, s, k), new)
  PROVE  GlHold(left', right', b, InsertAt(s, k, new), c, t)
<1> DEFINE x == GlLeftOf(b, s, k)
<1>1. GlRun(right, b, s) /\ b \in AllGl /\ new \in AllGl /\ NoGl \notin AllGl
  BY GlBasesApart DEF GlHold, AllGl
<1>2. x \in AllGl /\ right[x] = GlAt(s, k)
  BY <1>1, GlBehindIs
<1>3. x # new
  <2>1. CASE k = 1
    BY <2>1, GlBasesApart DEF GlLeftOf
  <2>2. CASE k # 1
    <3>1. k - 1 \in 1..Len(s)
      BY <2>2, <1>1 DEF GlRun
    <3>2. ~Unlinked(s[k - 1])
      BY <3>1, <1>1, GlMembersAreLinked
    <3> QED
      BY <2>2, <3>2 DEF GlLeftOf
  <2> QED
    BY <2>1, <2>2
<1>4. \A n \in AllGl : right'[n] = IF n = x THEN new ELSE IF n = new THEN GlAt(s, k) ELSE right[n]
  BY <1>1, <1>2 DEF glthread_add_next, GlInv, GlTypeOK, Unlinked
<1>5. \A n \in AllGl : n # new /\ n # GlAt(s, k) => left'[n] = left[n]
  BY <1>2 DEF glthread_add_next
<1> QED
  BY <1>4, <1>5, GlOneMore

\* A node linked in to the left of a node of the list.
LEMMA GlAddBeforeIs ==
  ASSUME GlInv, NEW b, NEW c, NEW s, NEW t, {b, c} = {PriorityBase, PlainBase},
         GlHold(left, right, b, s, c, t),
         NEW k \in 1..Len(s), NEW new \in GlNodes, Unlinked(new),
         glthread_add_before(s[k], new)
  PROVE  GlHold(left', right', b, InsertAt(s, k, new), c, t)
<1> DEFINE x == GlLeftOf(b, s, k)
<1>1. /\ GlRun(right, b, s) /\ b \in AllGl /\ new \in AllGl /\ NoGl \notin AllGl
      /\ k \in 1..(Len(s) + 1) /\ b \in {PriorityBase, PlainBase}
  <2>1. s \in Seq(GlNodes) /\ Len(s) \in Nat
    BY DEF GlHold, GlRun
  <2>2. b \in {b, c}
    OBVIOUS
  <2>3. b \in {PriorityBase, PlainBase}
    BY <2>2, Zenon
  <2>4. k \in 1..(Len(s) + 1)
    BY <2>1
  <2>5. b \in AllGl /\ new \in AllGl /\ NoGl \notin AllGl
    BY <2>3, GlBasesApart DEF AllGl
  <2> QED
    BY <2>3, <2>4, <2>5 DEF GlHold
<1>2. x \in AllGl /\ right[x] = s[k] /\ GlAt(s, k) = s[k]
  BY <1>1, GlBehindIs DEF GlAt
<1>3. left[s[k]] = x /\ s[k] \in GlNodes /\ s[k] # new /\ s[k] # NoGl
  BY <1>1, GlMembersAreLinked, GlBasesApart
<1>4. \A n \in AllGl : right'[n] = IF n = x THEN new ELSE IF n = new THEN GlAt(s, k) ELSE right[n]
  <2>1. right' = [right EXCEPT ![x] = new, ![new] = s[k]]
    BY <1>3 DEF glthread_add_before
  <2>2. x # new
    BY <1>1, <1>2, <1>3 DEF Unlinked
  <2> QED
    BY <2>1, <2>2, <1>1, <1>2 DEF GlInv, GlTypeOK
<1>5. \A n \in AllGl : n # new /\ n # GlAt(s, k) => left'[n] = left[n]
  BY <1>1, <1>2 DEF glthread_add_before, GlInv, GlTypeOK
<1> QED
  BY <1>1, <1>4, <1>5, GlOneMore

\* Deleting a list from its base on leaves nobody in it, and nobody half linked.
LEMMA GlDeleteIs ==
  ASSUME GlInv, NEW b, NEW c, NEW s, NEW t, {b, c} = {PriorityBase, PlainBase},
         GlHold(left, right, b, s, c, t), delete_glthread_list(b)
  PROVE  GlHold(left', right', b, <<>>, c, t)
<1>1. /\ GlRun(right, b, s) /\ b \in AllGl /\ c \in AllGl /\ b # c /\ GlNodes \subseteq AllGl
      /\ c \notin GlNodes /\ b \notin GlNodes
  BY GlBasesApart DEF GlHold, GlRun, AllGl
<1>2. s \in Seq(GlNodes) /\ t \in Seq(GlNodes) /\ Len(s) \in Nat
  BY DEF GlHold, GlRun
<1>3. GlBehind(b) = {s[i] : i \in 1..Len(s)}
  <2>1. 1 \in 1..(Len(s) + 1) /\ GlLeftOf(b, s, 1) = b
    BY <1>2 DEF GlLeftOf
  <2>2. GlBehind(GlLeftOf(b, s, 1)) = {s[i] : i \in 1..Len(s)}
    BY <2>1, <1>1, GlBehindIs
  <2> QED
    BY <2>1, <2>2
<1>4. /\ \A n \in AllGl : right'[n] = IF n = b \/ \E i \in 1..Len(s) : n = s[i] THEN NoGl ELSE right[n]
      /\ \A n \in AllGl : left'[n] = IF \E i \in 1..Len(s) : n = s[i] THEN NoGl ELSE left[n]
  BY <1>3 DEF delete_glthread_list
<1>5. GlRun(right', b, <<>>)
  BY <1>1, <1>4 DEF GlRun, GlAt, IsInjective
<1>6. GlRun(right', c, t)
  <2>1. right'[c] = right[c]
    BY <1>1, <1>2, <1>4
  <2>2. \A i \in 1..Len(t) : right'[t[i]] = right[t[i]]
    BY <1>1, <1>2, <1>4 DEF GlHold
  <2> QED
    BY <2>1, <2>2 DEF GlHold, GlRun
<1>7. \A n \in GlNodes : \/ \E i \in 1..Len(t) : t[i] = n
                         \/ left'[n] = NoGl /\ right'[n] = NoGl
  BY <1>1, <1>4 DEF GlHold
<1> QED
  BY <1>5, <1>6, <1>7 DEF GlHold

\* In the line whoever comes earlier is at least as urgent.
GlSorted(s) == \A i, j \in 1..Len(s) : i < j => GlRank(s[i]) <= GlRank(s[j])

\* What WaitingLine promises of a step from line p to line q.
GlLineStep(p, q) ==
    \/ q = p \/ q = <<>>
    \/ \E n \in GlNodes : /\ n \notin Range(p)
                          /\ \E k \in 1..(Len(p) + 1) :
                                /\ \A i \in DOMAIN p : i < k <=> GlRank(p[i]) <= GlRank(n)
                                /\ q = InsertAt(p, k, n)
    \/ \E n \in GlNodes, k \in DOMAIN p : p[k] = n /\ q = RemoveAt(p, k)

\* A node inserted by its priority stands behind its equals and before those
\* that come after it.
LEMMA GlPriorityIs ==
  ASSUME GlInv, NEW s, NEW t, GlHold(left, right, PriorityBase, s, PlainBase, t), GlSorted(s),
         NEW new \in GlNodes, Unlinked(new), glthread_priority_insert(PriorityBase, new)
  PROVE  \E k \in 1..(Len(s) + 1) :
            /\ GlHold(left', right', PriorityBase, InsertAt(s, k, new), PlainBase, t)
            /\ GlSorted(InsertAt(s, k, new))
            /\ GlLineStep(s, InsertAt(s, k, new))
<1> DEFINE b == PriorityBase
<1>1. GlRun(right, b, s) /\ b \in AllGl /\ s \in Seq(GlNodes) /\ Len(s) \in Nat
  BY DEF GlHold, GlRun, AllGl
<1>2. PICK x \in {b} \cup GlBehind(b) :
         /\ \A q \in GlBehind(b) \ GlBehind(x) : GlRank(q) <= GlRank(new)
         /\ right[x] # NoGl => GlRank(right[x]) > GlRank(new)
         /\ glthread_add_next(x, new)
  BY DEF glthread_priority_insert
<1>3. PICK k \in 1..(Len(s) + 1) : x = GlLeftOf(b, s, k)
  BY <1>1, GlPlaces
<1>4. /\ right[x] = GlAt(s, k) /\ GlBehind(x) = {s[i] : i \in k..Len(s)}
  BY <1>1, <1>3, GlBehindIs
<1>5. GlBehind(b) = {s[i] : i \in 1..Len(s)}
  <2>1. 1 \in 1..(Len(s) + 1) /\ GlLeftOf(b, s, 1) = b
    BY <1>1 DEF GlLeftOf
  <2>2. GlBehind(GlLeftOf(b, s, 1)) = {s[i] : i \in 1..Len(s)}
    BY <2>1, <1>1, GlBehindIs
  <2> QED
    BY <2>1, <2>2
<1>6. \A i, j \in 1..Len(s) : s[i] = s[j] => i = j
  BY <1>1 DEF GlRun, IsInjective
<1>7. \A n : GlRank(n) \in Nat
  BY DEF GlRank
<1>8. ASSUME NEW i \in 1..Len(s) PROVE i < k <=> GlRank(s[i]) <= GlRank(new)
  <2>1. CASE i < k
    <3>1. s[i] \in GlBehind(b)
      BY <1>5
    <3>2. s[i] \notin GlBehind(x)
      <4>1. ASSUME NEW j \in k..Len(s) PROVE s[i] # s[j]
        BY <2>1, <1>1, <1>6
      <4> QED
        BY <4>1, <1>4
    <3> QED
      BY <2>1, <3>1, <3>2, <1>2
  <2>2. CASE ~(i < k)
    <3>1. k \in 1..Len(s) /\ s[k] \in GlNodes
      BY <2>2, <1>1
    <3>2. right[x] = s[k] /\ s[k] # NoGl
      BY <3>1, <1>4, GlBasesApart DEF GlAt
    <3>3. GlRank(s[k]) > GlRank(new)
      BY <3>2, <1>2
    <3>4. GlRank(s[k]) <= GlRank(s[i])
      <4>1. CASE i = k
        BY <4>1, <1>7
      <4>2. CASE i # k
        BY <4>2, <2>2, <3>1 DEF GlSorted
      <4> QED
        BY <4>1, <4>2
    <3> QED
      BY <2>2, <3>3, <3>4, <1>7
  <2> QED
    BY <2>1, <2>2
<1>9. GlHold(left', right', b, InsertAt(s, k, new), PlainBase, t)
  BY <1>2, <1>3, GlAddNextIs
<1>10. GlSorted(InsertAt(s, k, new))
  <2> DEFINE u == InsertAt(s, k, new)
  <2>1. /\ Len(u) = Len(s) + 1
        /\ \A i \in 1..(Len(s) + 1) : u[i] = IF i < k THEN s[i] ELSE IF i = k THEN new ELSE s[i - 1]
    <3>1. s \in Seq(GlNodes) /\ k \in 1..(Len(s) + 1) /\ new \in GlNodes
      BY <1>1
    <3> QED
      BY ONLY <3>1, ListWithOneMore
  <2> HIDE DEF u
  <2>2. ASSUME NEW i \in 1..(Len(s) + 1), NEW j \in 1..(Len(s) + 1), i < j
        PROVE  GlRank(u[i]) <= GlRank(u[j])
    <3>1. CASE i = k
      <4>1. j - 1 \in 1..Len(s) /\ ~(j - 1 < k) /\ u[j] = s[j - 1] /\ u[i] = new
        BY <3>1, <2>1, <2>2, <1>1
      <4> QED
        BY <4>1, <1>7, <1>8
    <3>2. CASE j = k
      <4>1. i \in 1..Len(s) /\ i < k /\ u[i] = s[i] /\ u[j] = new
        BY <3>2, <2>1, <2>2, <1>1
      <4> QED
        BY <4>1, <1>8
    <3>3. CASE i # k /\ j # k
      <4> DEFINE back(y) == IF y < k THEN y ELSE y - 1
      <4>1. /\ back(i) \in 1..Len(s) /\ back(j) \in 1..Len(s) /\ back(i) < back(j)
            /\ u[i] = s[back(i)] /\ u[j] = s[back(j)]
        BY <3>3, <2>1, <2>2, <1>1
      <4> HIDE DEF back
      <4> QED
        BY <4>1 DEF GlSorted
    <3> QED
      BY <3>1, <3>2, <3>3
  <2> QED
    BY <2>1, <2>2 DEF GlSorted, u
<1>11. new \notin Range(s)
  <2>1. \A i \in 1..Len(s) : ~Unlinked(s[i])
    BY <1>1, GlMembersAreLinked
  <2> QED
    BY <2>1, <1>1 DEF Range
<1>12. GlLineStep(s, InsertAt(s, k, new))
  BY <1>1, <1>8, <1>11 DEF GlLineStep
<1> QED
  BY <1>9, <1>10, <1>12

\* A line stays in order when somebody leaves.
LEMMA GlSortedWithout ==
  ASSUME NEW s \in Seq(GlNodes), GlSorted(s), NEW k \in 1..Len(s)
  PROVE  GlSorted(RemoveAt(s, k)) /\ GlLineStep(s, RemoveAt(s, k))
<1> DEFINE u == RemoveAt(s, k)
<1>1. /\ Len(u) = Len(s) - 1 /\ Len(s) \in Nat
      /\ \A i \in 1..(Len(s) - 1) : u[i] = IF i < k THEN s[i] ELSE s[i + 1]
  <2>1. s \in Seq(GlNodes) /\ k \in 1..Len(s) /\ Len(s) \in Nat
    OBVIOUS
  <2> QED
    BY <2>1, ListWithOneLess
<1> HIDE DEF u
<1>2. ASSUME NEW i \in 1..(Len(s) - 1), NEW j \in 1..(Len(s) - 1), i < j
      PROVE  GlRank(u[i]) <= GlRank(u[j])
  <2> DEFINE on(x) == IF x < k THEN x ELSE x + 1
  <2>1. /\ on(i) \in 1..Len(s) /\ on(j) \in 1..Len(s) /\ on(i) < on(j)
        /\ u[i] = s[on(i)] /\ u[j] = s[on(j)]
    BY <1>1, <1>2
  <2> HIDE DEF on
  <2> QED
    BY <2>1 DEF GlSorted
<1>3. GlSorted(u)
  BY <1>1, <1>2 DEF GlSorted
<1>4. s[k] \in GlNodes /\ k \in DOMAIN s
  OBVIOUS
<1> QED
  BY <1>3, <1>4 DEF GlLineStep, u

----------------------------------------------------------------------------
(* The doubly linked lists: the invariant, and the theorems. *)

\* What the loops over a list rely on: from a base on one meets nodes only, and
\* none that stands alone.
LEMMA BehindABase ==
  ASSUME GlInv, NEW b \in {PriorityBase, PlainBase}, NEW n \in GlBehind(b)
  PROVE  n \in GlNodes /\ ~Unlinked(n)
<1> DEFINE S == {m \in GlNodes : left[m] # NoGl}
<1>1. NoGl \notin AllGl
  BY GlBasesApart DEF AllGl
<1>2. \A m \in AllGl : right[m] \in S \cup {NoGl}
  BY <1>1 DEF GlInv, GlTypeOK, GlLinksAgree, AllGl
<1>3. S \in SUBSET AllGl /\ b \in AllGl
  BY DEF AllGl
<1>4. right[b] \in S \cup {NoGl} /\ \A m \in S : right[m] \in S \cup {NoGl}
  BY <1>2, <1>3
<1>5. n \in S
  BY <1>3, <1>4 DEF GlBehind
<1> QED
  BY <1>5 DEF Unlinked

\* The list of a base is closed: what is to the right of the base or of one of
\* its nodes belongs to it, and what is to the left of a node is the base or
\* belongs to it.
LEMMA BehindIsClosed ==
  ASSUME GlInv, NEW b \in AllGl
  PROVE  /\ \A n \in {b} \cup GlBehind(b) : right[n] \in GlBehind(b) \cup {NoGl}
         /\ \A n \in GlBehind(b) : left[n] \in {b} \cup GlBehind(b)
<1> USE DEF GlInv, GlTypeOK
<1>1. NoGl \notin AllGl
  BY GlBasesApart DEF AllGl
<1>2. ASSUME NEW n \in {b} \cup GlBehind(b), right[n] # NoGl
      PROVE  right[n] \in GlBehind(b)
  <2>1. n \in AllGl /\ right[n] \in AllGl
    BY <1>2 DEF GlBehind
  <2>2. ASSUME NEW S \in SUBSET AllGl, right[b] \in S \cup {NoGl},
               \A m \in S : right[m] \in S \cup {NoGl}
        PROVE  right[n] \in S
    <3>1. CASE n = b
      BY <3>1, <2>2, <1>2
    <3>2. CASE n \in GlBehind(b)
      <4>1. n \in S
        BY <3>2, <2>2 DEF GlBehind
      <4> QED
        BY <4>1, <2>2, <1>2
    <3> QED
      BY <3>1, <3>2
  <2> QED
    BY <2>1, <2>2 DEF GlBehind
<1>3. ASSUME NEW n \in GlBehind(b)
      PROVE  left[n] \in {b} \cup GlBehind(b)
  <2> DEFINE S == {m \in GlBehind(b) : left[m] \in {b} \cup GlBehind(b)}
  <2>1. S \in SUBSET AllGl
    BY DEF GlBehind
  <2>2. ASSUME NEW m \in {b} \cup S, right[m] # NoGl
        PROVE  right[m] \in S
    <3>1. right[m] \in GlBehind(b)
      BY <1>2, <2>2
    <3>2. m \in AllGl /\ right[m] \in AllGl
      BY <2>2, <3>1 DEF GlBehind
    <3>3. left[right[m]] = m
      BY <3>2 DEF GlLinksAgree
    <3> QED
      BY <3>1, <3>3
  <2>3. n \in S
    BY <2>1, <2>2 DEF GlBehind
  <2> QED
    BY <2>3
<1> QED
  BY <1>2, <1>3

\* A node that stood alone is linked in to the right of another.
LEMMA AddNextKeepsLinks ==
  ASSUME GlInv, NEW curr \in AllGl, NEW new \in GlNodes, Unlinked(new), curr # new,
         glthread_add_next(curr, new)
  PROVE  GlInv'
<1> USE GlBasesApart DEF AllGl, GlInv, GlTypeOK, GlLinksAgree, Unlinked
<1>1. GlTypeOK'
  BY DEF glthread_add_next
<1>2. \A n, m \in AllGl : right'[n] = m <=> left'[m] = n
  <2> SUFFICES ASSUME NEW n \in AllGl, NEW m \in AllGl
               PROVE  right'[n] = m <=> left'[m] = n
    OBVIOUS
  <2>1. right'[n] = IF n = curr THEN new
                    ELSE IF n = new THEN right[curr] ELSE right[n]
    BY DEF glthread_add_next
  <2>2. left'[m] = IF m = new THEN curr ELSE IF m = right[curr] THEN new ELSE left[m]
    BY DEF glthread_add_next
  <2>3. right[n] = m <=> left[m] = n
    OBVIOUS
  <2>4. right[curr] = m <=> left[m] = curr
    OBVIOUS
  <2>5. right[n] # new /\ left[m] # new
    OBVIOUS
  <2> QED
    BY <2>1, <2>2, <2>3, <2>4, <2>5
<1>3. \A b \in {PriorityBase, PlainBase} : left'[b] = NoGl
  BY DEF glthread_add_next
<1> QED
  BY <1>1, <1>2, <1>3

\* A node that stood alone is linked in to the left of one that is in a list.
LEMMA AddBeforeKeepsLinks ==
  ASSUME GlInv, NEW curr \in GlNodes, NEW new \in GlNodes, Unlinked(new), curr # new,
         glthread_add_before(curr, new)
  PROVE  GlInv'
<1> USE GlBasesApart DEF AllGl, GlInv, GlTypeOK, GlLinksAgree, Unlinked
<1> DEFINE p == left[curr]
<1>1. p \in AllGl /\ right[p] = curr /\ p # new
  BY DEF glthread_add_before
<1>2. GlTypeOK'
  BY <1>1 DEF glthread_add_before
<1>3. \A n, m \in AllGl : right'[n] = m <=> left'[m] = n
  <2> SUFFICES ASSUME NEW n \in AllGl, NEW m \in AllGl
               PROVE  right'[n] = m <=> left'[m] = n
    OBVIOUS
  <2>1. right'[n] = IF n = new THEN curr ELSE IF n = p THEN new ELSE right[n]
    BY <1>1 DEF glthread_add_before
  <2>2. left'[m] = IF m = curr THEN new ELSE IF m = new THEN p ELSE left[m]
    BY <1>1 DEF glthread_add_before
  <2>3. (right[n] = m <=> left[m] = n) /\ right[n] # new /\ left[m] # new
    OBVIOUS
  <2> QED
    BY <1>1, <2>1, <2>2, <2>3
<1>4. \A b \in {PriorityBase, PlainBase} : left'[b] = NoGl
  BY <1>1 DEF glthread_add_before
<1> QED
  BY <1>2, <1>3, <1>4

\* A node is taken out: its neighbours are each other's.
LEMMA RemoveKeepsLinks ==
  ASSUME GlInv, NEW curr \in GlNodes, remove_glthread(curr)
  PROVE  GlInv'
<1> USE GlBasesApart DEF AllGl, GlInv, GlTypeOK, GlLinksAgree
<1>1. GlTypeOK'
  BY DEF remove_glthread
<1>2. \A n, m \in AllGl : right'[n] = m <=> left'[m] = n
  <2> SUFFICES ASSUME NEW n \in AllGl, NEW m \in AllGl
               PROVE  right'[n] = m <=> left'[m] = n
    OBVIOUS
  <2>1. right'[n] = IF n = curr THEN NoGl ELSE IF n = left[curr] THEN right[curr] ELSE right[n]
    BY DEF remove_glthread
  <2>2. left'[m] = IF m = curr THEN NoGl ELSE IF m = right[curr] THEN left[curr] ELSE left[m]
    BY DEF remove_glthread
  <2>3. /\ right[n] = m <=> left[m] = n
        /\ right[curr] = m <=> left[m] = curr
        /\ right[n] = curr <=> left[curr] = n
    OBVIOUS
  <2> QED
    BY <2>1, <2>2, <2>3
<1>3. \A b \in {PriorityBase, PlainBase} : left'[b] = NoGl
  BY DEF remove_glthread
<1> QED
  BY <1>1, <1>2, <1>3

\* A list is emptied from its base on.
LEMMA DeleteKeepsLinks ==
  ASSUME GlInv, NEW b \in {PriorityBase, PlainBase}, delete_glthread_list(b)
  PROVE  GlInv'
<1> DEFINE gone == GlBehind(b)
<1>1. /\ NoGl \notin AllGl /\ b \in AllGl /\ left[b] = NoGl
      /\ {PriorityBase, PlainBase} \subseteq AllGl
  BY GlBasesApart DEF AllGl, GlInv, GlLinksAgree
<1>2. gone \subseteq GlNodes
  BY BehindABase
<1>3. /\ \A n \in {b} \cup gone : right[n] \in gone \cup {NoGl}
      /\ \A n \in gone : left[n] \in {b} \cup gone
  BY <1>1, BehindIsClosed
<1> HIDE DEF gone
<1>4. /\ right' = [n \in AllGl |-> IF n \in gone \cup {b} THEN NoGl ELSE right[n]]
      /\ left' = [n \in AllGl |-> IF n \in gone THEN NoGl ELSE left[n]]
  BY DEF delete_glthread_list, gone
<1>5. GlTypeOK'
  BY <1>4 DEF GlInv, GlTypeOK
<1>6. \A n, m \in AllGl : right'[n] = m <=> left'[m] = n
  BY <1>1, <1>3, <1>4 DEF GlInv, GlTypeOK, GlLinksAgree
<1>7. left'[PriorityBase] = NoGl /\ left'[PlainBase] = NoGl
  BY <1>1, <1>4 DEF GlInv, GlLinksAgree
<1> QED
  BY <1>5, <1>6, <1>7 DEF GlInv, GlLinksAgree

\* Every call on the lists keeps the links.
LEMMA GlInvNext == GlInv /\ [GlNext]_glVars => GlInv'
<1> SUFFICES ASSUME GlInv, [GlNext]_glVars PROVE GlInv'
  OBVIOUS
<1>1. {PriorityBase, PlainBase} \cap GlNodes = {} /\ NoGl \notin AllGl
  BY GlBasesApart DEF AllGl
<1>2. ASSUME NEW n \in GlNodes, Unlinked(n), glthread_priority_insert(PriorityBase, n)
      PROVE  GlInv'
  <2>1. PICK p \in {PriorityBase} \cup GlBehind(PriorityBase) : glthread_add_next(p, n)
    BY <1>2 DEF glthread_priority_insert
  <2>2. p \in AllGl /\ p # n
    BY <1>1, <1>2, <2>1, BehindABase DEF AllGl
  <2> QED
    BY <1>2, <2>1, <2>2, AddNextKeepsLinks
<1>3. ASSUME NEW n \in GlNodes, Unlinked(n), glthread_add_last(PlainBase, n)
      PROVE  GlInv'
  <2>1. PICK p \in {PlainBase} \cup GlBehind(PlainBase) : glthread_add_next(p, n)
    BY <1>3 DEF glthread_add_last
  <2>2. p \in AllGl /\ p # n
    BY <1>1, <1>3, <2>1, BehindABase DEF AllGl
  <2> QED
    BY <1>3, <2>1, <2>2, AddNextKeepsLinks
<1>4. ASSUME NEW n \in GlNodes, Unlinked(n),
             NEW c \in {PlainBase} \cup GlBehind(PlainBase), glthread_add_next(c, n)
      PROVE  GlInv'
  <2>1. c \in AllGl /\ c # n
    BY <1>1, <1>4, BehindABase DEF AllGl
  <2> QED
    BY <1>4, <2>1, AddNextKeepsLinks
<1>5. ASSUME NEW n \in GlNodes, Unlinked(n),
             NEW c \in GlBehind(PlainBase), glthread_add_before(c, n)
      PROVE  GlInv'
  <2>1. c \in GlNodes /\ c # n
    BY <1>5, BehindABase
  <2> QED
    BY <1>5, <2>1, AddBeforeKeepsLinks
<1>6. ASSUME NEW b \in {PriorityBase, PlainBase}, dequeue_glthread_first(b)
      PROVE  GlInv'
  <2>1. right[b] \in GlNodes
    BY <1>1, <1>6 DEF dequeue_glthread_first, GlInv, GlTypeOK, GlLinksAgree, AllGl
  <2> QED
    BY <1>6, <2>1, RemoveKeepsLinks DEF dequeue_glthread_first
<1>7. CASE UNCHANGED glVars
  BY <1>7 DEF GlInv, GlTypeOK, GlLinksAgree, glVars
<1> QED
  BY <1>2, <1>3, <1>4, <1>5, <1>6, <1>7, RemoveKeepsLinks, DeleteKeepsLinks DEF GlNext

\* In the order of the links, the lists hold everybody who is linked, and the one
\* filled by priority is in order.
GlListInv ==
    /\ GlInv
    /\ GlHold(left, right, PriorityBase, GlChain(PriorityBase), PlainBase, GlChain(PlainBase))
    /\ GlSorted(GlChain(PriorityBase))

\* At first both lists are empty.
LEMMA GlListInvInit == GlInit => GlListInv /\ GlChain(PriorityBase) = <<>>
<1> SUFFICES ASSUME GlInit PROVE GlListInv /\ GlChain(PriorityBase) = <<>>
  OBVIOUS
<1>1. GlInv
  BY GlBasesApart DEF GlInit, init_glthread, GlInv, GlTypeOK, GlLinksAgree, AllGl
<1>2. ASSUME NEW b \in AllGl PROVE GlRun(right, b, <<>>)
  BY <1>2 DEF GlInit, init_glthread, GlRun, GlAt, IsInjective
<1>3. PriorityBase \in AllGl /\ PlainBase \in AllGl /\ GlNodes \subseteq AllGl
  BY DEF AllGl
<1>4. ASSUME NEW b \in AllGl PROVE GlChain(b) = <<>>
  <2>1. GlWalk(right, b) = <<>>
    BY <1>2, GlChainIs
  <2> QED
    BY <2>1 DEF GlChain, GlWalk, Met
<1>5. GlHold(left, right, PriorityBase, <<>>, PlainBase, <<>>)
  BY <1>2, <1>3 DEF GlHold, GlInit, init_glthread
<1>6. GlSorted(<<>>)
  BY DEF GlSorted
<1> QED
  BY <1>1, <1>3, <1>4, <1>5, <1>6 DEF GlListInv

\* Which lists there are after a step.
LEMMA GlListStep ==
  ASSUME GlInv, NEW s, NEW t, GlHold(left, right, PriorityBase, s, PlainBase, t), GlSorted(s),
         [GlNext]_glVars
  PROVE  \E p, q : /\ GlHold(left', right', PriorityBase, p, PlainBase, q) /\ GlSorted(p)
                   /\ GlLineStep(s, p)
<1> DEFINE b == PriorityBase
           c == PlainBase
           Goal == \E p, q : /\ GlHold(left', right', b, p, c, q) /\ GlSorted(p)
                             /\ GlLineStep(s, p)
<1>1. /\ GlRun(right, b, s) /\ GlRun(right, c, t) /\ s \in Seq(GlNodes) /\ t \in Seq(GlNodes)
      /\ Len(s) \in Nat /\ Len(t) \in Nat /\ b \in AllGl /\ c \in AllGl
  BY DEF GlHold, GlRun, AllGl
<1>2. GlLineStep(s, s) /\ GlLineStep(s, <<>>) /\ GlSorted(<<>>)
  BY DEF GlLineStep, GlSorted
<1>3. GlHold(left, right, c, t, b, s)
  BY <1>1 DEF GlHold
<1>4. ASSUME NEW u, GlHold(left', right', c, u, b, s) PROVE Goal
  <2>1. GlHold(left', right', b, s, c, u)
    BY <1>4 DEF GlHold
  <2> QED
    BY <2>1, <1>2
<1> HIDE DEF Goal
<1>5. ASSUME NEW n \in GlNodes, remove_glthread(n) PROVE Goal
  <2>1. ASSUME NEW k \in 1..Len(s), s[k] = n PROVE Goal
    <3>1. GlHold(left', right', b, RemoveAt(s, k), c, t)
      BY <1>5, <2>1, GlOneLess
    <3> QED
      BY <3>1, <1>1, <2>1, GlSortedWithout DEF Goal
  <2>2. ASSUME NEW k \in 1..Len(t), t[k] = n PROVE Goal
    <3>1. GlHold(left', right', c, RemoveAt(t, k), b, s)
      BY <1>3, <1>5, <2>2, GlOneLess
    <3> QED
      BY <3>1, <1>4
  <2>3. CASE left[n] = NoGl /\ right[n] = NoGl
    <3>1. n \in AllGl /\ NoGl \notin AllGl
      BY GlBasesApart DEF AllGl
    <3>2. left' = left /\ right' = right
      BY <3>1, <2>3, <1>5 DEF remove_glthread, GlInv, GlTypeOK
    <3> QED
      BY <3>2, <1>2 DEF Goal
  <2> QED
    BY <2>1, <2>2, <2>3 DEF GlHold
<1>6. ASSUME NEW n \in GlNodes, Unlinked(n), glthread_priority_insert(b, n) PROVE Goal
  BY <1>6, GlPriorityIs DEF Goal
<1>7. ASSUME NEW n \in GlNodes, Unlinked(n), NEW x \in {c} \cup GlBehind(c), glthread_add_next(x, n) PROVE Goal
  <2>1. PICK k \in 1..(Len(t) + 1) : x = GlLeftOf(c, t, k)
    BY <1>1, GlPlaces
  <2>2. GlHold(left', right', c, InsertAt(t, k, n), b, s)
    BY <1>3, <1>7, <2>1, GlAddNextIs
  <2> QED
    BY <2>2, <1>4
<1>8. ASSUME NEW n \in GlNodes, Unlinked(n), NEW x \in GlBehind(c), glthread_add_before(x, n) PROVE Goal
  <2>1. PICK k \in 1..Len(t) : x = t[k]
    <3>1. 1 \in 1..(Len(t) + 1) /\ GlLeftOf(c, t, 1) = c
      BY <1>1 DEF GlLeftOf
    <3>2. GlBehind(GlLeftOf(c, t, 1)) = {t[i] : i \in 1..Len(t)}
      BY <3>1, <1>1, GlBehindIs
    <3> QED
      BY <3>1, <3>2
  <2>2. GlHold(left', right', c, InsertAt(t, k, n), b, s)
    BY <1>3, <1>8, <2>1, GlAddBeforeIs
  <2> QED
    BY <2>2, <1>4
<1>9. ASSUME dequeue_glthread_first(b) PROVE Goal
  <2>1. right[b] \in GlNodes /\ remove_glthread(right[b])
    BY <1>1, <1>9 DEF dequeue_glthread_first, GlRun, GlAt
  <2> QED
    BY <2>1, <1>5
<1>10. ASSUME dequeue_glthread_first(c) PROVE Goal
  <2>1. right[c] \in GlNodes /\ remove_glthread(right[c])
    BY <1>1, <1>10 DEF dequeue_glthread_first, GlRun, GlAt
  <2> QED
    BY <2>1, <1>5
<1>11. ASSUME delete_glthread_list(b) PROVE Goal
  <2>1. GlHold(left', right', b, <<>>, c, t)
    BY <1>11, GlDeleteIs
  <2> QED
    BY <2>1, <1>2 DEF Goal
<1>12. ASSUME delete_glthread_list(c) PROVE Goal
  <2>1. GlHold(left', right', c, <<>>, b, s)
    BY <1>3, <1>12, GlDeleteIs
  <2> QED
    BY <2>1, <1>4
<1>13. CASE UNCHANGED glVars
  BY <1>13, <1>2 DEF glVars, Goal
<1> QED
  BY <1>5, <1>6, <1>7, <1>8, <1>9, <1>10, <1>11, <1>12, <1>13 DEF GlNext, glthread_add_last, Goal

\* Every step keeps the lists, and is one that the line promises.
LEMMA GlListInvNext ==
  ASSUME GlListInv, [GlNext]_glVars
  PROVE  GlListInv' /\ GlLineStep(GlChain(PriorityBase), GlChain(PriorityBase)')
<1>1. PICK p, q : /\ GlHold(left', right', PriorityBase, p, PlainBase, q) /\ GlSorted(p)
                  /\ GlLineStep(GlChain(PriorityBase), p)
  <2> DEFINE s == GlChain(PriorityBase)
             t == GlChain(PlainBase)
  <2>1. GlInv /\ GlHold(left, right, PriorityBase, s, PlainBase, t) /\ GlSorted(s)
    BY DEF GlListInv
  <2> HIDE DEF s, t
  <2>2. \E p, q : /\ GlHold(left', right', PriorityBase, p, PlainBase, q) /\ GlSorted(p)
                  /\ GlLineStep(s, p)
    BY <2>1, GlListStep
  <2> QED
    BY <2>2 DEF s
<1>2. GlChain(PriorityBase)' = p /\ GlChain(PlainBase)' = q
  <2>1. GlWalk(right', PriorityBase) = p /\ GlWalk(right', PlainBase) = q
    BY <1>1, GlChainIs DEF GlHold
  <2>2. \A b : GlChain(b)' = GlWalk(right', b)
    BY DEF GlChain, GlWalk, Met
  <2> QED
    BY <2>1, <2>2
<1>3. GlInv'
  BY GlInvNext DEF GlListInv
<1> QED
  BY <1>1, <1>2, <1>3 DEF GlListInv

\* The two lists are as long as there are linked nodes.
LEMMA GlListInvSuffices == GlListInv => GlNobodyCutOff
<1> SUFFICES ASSUME GlListInv PROVE GlNobodyCutOff
  OBVIOUS
<1> DEFINE s == GlChain(PriorityBase)
           t == GlChain(PlainBase)
           P == {s[i] : i \in 1..Len(s)}
           Q == {t[i] : i \in 1..Len(t)}
<1>1. GlInv /\ GlHold(left, right, PriorityBase, s, PlainBase, t)
  BY DEF GlListInv
<1> HIDE DEF s, t
<1>2. /\ GlRun(right, PriorityBase, s) /\ GlRun(right, PlainBase, t)
      /\ s \in Seq(GlNodes) /\ t \in Seq(GlNodes) /\ IsInjective(s) /\ IsInjective(t)
      /\ Len(s) \in Nat /\ Len(t) \in Nat
  BY <1>1 DEF GlHold, GlRun
<1>3. Cardinality(P) = Len(s) /\ Cardinality(Q) = Len(t)
  BY <1>2, GlBasesApart, ListFitsItsSet
<1>4. P \cup Q = {n \in GlNodes : ~Unlinked(n)}
  <2>1. \A i \in 1..Len(s) : s[i] \in GlNodes /\ ~Unlinked(s[i])
    BY <1>1, <1>2, GlMembersAreLinked
  <2>2. \A i \in 1..Len(t) : t[i] \in GlNodes /\ ~Unlinked(t[i])
    BY <1>1, <1>2, GlMembersAreLinked
  <2>3. \A n \in GlNodes : ~Unlinked(n) => n \in P \cup Q
    BY <1>1 DEF GlHold, Unlinked
  <2> QED
    BY <2>1, <2>2, <2>3
<1>5. P \cap Q = {}
  BY <1>1 DEF GlHold
<1>6. P \in SUBSET GlNodes /\ Q \in SUBSET GlNodes
  BY <1>2
<1> HIDE DEF P, Q
<1>7. IsFiniteSet(P) /\ IsFiniteSet(Q)
  BY <1>6, GlBasesApart, FS_Subset
<1>8. Cardinality(P \cup Q) = Cardinality(P) + Cardinality(Q) - Cardinality({})
  BY <1>5, <1>7, FS_Union
<1>9. Cardinality({}) = 0
  BY FS_EmptySet
<1>10. Len(s) + Len(t) = Cardinality({n \in GlNodes : ~Unlinked(n)})
  <2>1. Len(s) = Cardinality(P) /\ Len(t) = Cardinality(Q)
    BY <1>3
  <2>2. Cardinality(P) \in Nat /\ Cardinality(Q) \in Nat
    BY <1>7, FS_CardinalityType
  <2>3. Cardinality(P \cup Q) = Cardinality({n \in GlNodes : ~Unlinked(n)})
    BY <1>4
  <2> QED
    BY <2>1, <2>2, <2>3, <1>8, <1>9
<1> QED
  BY <1>10 DEF GlNobodyCutOff, get_glthread_list_count, s, t

\* What is kept and promised.
LEMMA GlListsAreKept == GlSpec => []GlListInv
  BY GlListInvInit, GlListInvNext, PTL DEF GlSpec

\* Whatever is inserted or removed, and wherever, right and left stay each
\* other's inverse and a base keeps nothing to its left.
THEOREM GlLinksKept == GlSpec => []GlLinksAgree
BY GlListsAreKept, PTL DEF GlListInv, GlInv

\* No insertion and no removal cuts a node off: the loops over the two lists
\* meet as many nodes as are linked.
THEOREM GlNobodyIsCutOff == GlSpec => []GlNobodyCutOff
BY GlListsAreKept, GlListInvSuffices, PTL

\* Every step does to the list by priority what a waiting line promises.
LEMMA GlStepOfALine == GlListInv /\ [GlNext]_glVars => [Line!LineNext]_(GlChain(PriorityBase))
<1> SUFFICES ASSUME GlListInv, [GlNext]_glVars PROVE [Line!LineNext]_(GlChain(PriorityBase))
  OBVIOUS
<1>1. GlLineStep(GlChain(PriorityBase), GlChain(PriorityBase)')
  BY GlListInvNext
<1> QED
  BY <1>1 DEF GlLineStep, Line!LineNext, Line!Arrives, Line!Leaves, Line!Dissolves,
              Line!Range, Line!InsertAt, Line!RemoveAt, Range, InsertAt, RemoveAt

\* The list by priority is a waiting line: whoever is inserted comes before the
\* less urgent and behind the others, and whoever leaves leaves the rest alone.
THEOREM GlRefinesLine == GlSpec => GlImplementsLine
<1>1. GlInit => Line!LineInit
  BY GlListInvInit DEF Line!LineInit
<1> QED
  BY <1>1, GlStepOfALine, GlListsAreKept, PTL DEF GlSpec, GlImplementsLine, Line!LineSpec

----------------------------------------------------------------------------
(* The singly linked lists: what a heap holds, and where a loop stands. *)

LlAt(s, i) == IF i \in 1..Len(s) THEN s[i] ELSE NoLink

LlHeaps == [next : [LlNodes -> LlNodes \cup {NoLink}], data : [LlNodes -> Nat], live : SUBSET LlNodes,
            head : [LlLists -> LlNodes \cup {NoLink}], count : [LlLists -> Nat]]

\* From hd on nx leads through the nodes of s and ends there.
LlRun(nx, hd, s) ==
    /\ s \in Seq(LlNodes)
    /\ hd = LlAt(s, 1)
    /\ \A i \in 1..Len(s) : nx[s[i]] = LlAt(s, i + 1)

\* No node stands at two places.
LlApart(c) == \A l, m \in LlLists : \A i \in 1..Len(c[l]), j \in 1..Len(c[m]) :
                  c[l][i] = c[m][j] => l = m /\ i = j
LlListed(c, n) == \E l \in LlLists : \E i \in 1..Len(c[l]) : c[l][i] = n

\* The heap h holds the lists c.
LlKeeps(h, c) ==
    /\ h \in LlHeaps /\ \A n \in h.live : h.data[n] \in LlData
    /\ c \in [LlLists -> Seq(LlNodes)] /\ LlApart(c)
    /\ \A l \in LlLists : /\ LlRun(h.next, h.head[l], c[l]) /\ h.count[l] = Len(c[l])
                          /\ \A i \in 1..Len(c[l]) : c[l][i] \in h.live
    /\ \A n \in LlNodes : h.next[n] # NoLink => LlListed(c, n)

\* The chain is what the links lead through.
LEMMA LlChainOf ==
  ASSUME NEW h, NEW l, NEW s, LlRun(h.next, h.head[l], s), IsInjective(s)
  PROVE  LlChain(h, l) = s
<1>1. s \in Seq(LlNodes) /\ Len(s) <= MaxLlNodes
  <2>1. IsFiniteSet(LlNodes) /\ Cardinality(LlNodes) = MaxLlNodes
    BY LlBounds, FS_Interval, CountOfInterval DEF LlNodes
  <2> QED
    BY <2>1, LlBounds, ListFitsItsSet DEF LlRun
<1>2. Met(MaxLlNodes, h.head[l], NoLink, h.next) = s
  <2>1. NoLink \notin LlNodes
    BY DEF NoLink, LlNodes
  <2>2. h.head[l] = IF 1 \in 1..Len(s) THEN s[1] ELSE NoLink
    BY DEF LlRun, LlAt
  <2>3. \A i \in 1..Len(s) : h.next[s[i]] = IF i + 1 \in 1..Len(s) THEN s[i + 1] ELSE NoLink
    BY DEF LlRun, LlAt
  <2> QED
    BY <1>1, <2>1, <2>2, <2>3, LlBounds, MetIs
<1>3. LlChain(h, l) = Met(MaxLlNodes, h.head[l], NoLink, h.next)
  BY DEF LlChain, Met
<1> QED
  BY <1>2, <1>3

\* The lists a heap holds are its chains.
LEMMA LlChainsAre ==
  ASSUME NEW h, NEW c, LlKeeps(h, c)
  PROVE  \A l \in LlLists : /\ LlChain(h, l) = c[l] /\ c[l] \in Seq(LlNodes) /\ Len(c[l]) \in Nat
                            /\ DOMAIN c[l] = 1..Len(c[l]) /\ h.count[l] = Len(c[l])
                            /\ LlContents(h, l) = [i \in 1..Len(c[l]) |-> h.data[c[l][i]]]
                            /\ LlContents(h, l) \in Seq(LlData)
<1> SUFFICES ASSUME NEW l \in LlLists
             PROVE /\ LlChain(h, l) = c[l] /\ c[l] \in Seq(LlNodes) /\ Len(c[l]) \in Nat
                   /\ DOMAIN c[l] = 1..Len(c[l]) /\ h.count[l] = Len(c[l])
                   /\ LlContents(h, l) = [i \in 1..Len(c[l]) |-> h.data[c[l][i]]]
                   /\ LlContents(h, l) \in Seq(LlData)
  OBVIOUS
<1>1. c[l] \in Seq(LlNodes) /\ LlRun(h.next, h.head[l], c[l]) /\ h.count[l] = Len(c[l])
  BY DEF LlKeeps
<1>2. Len(c[l]) \in Nat /\ DOMAIN c[l] = 1..Len(c[l])
  BY <1>1
<1>3. IsInjective(c[l])
  <2>1. \A i, j \in 1..Len(c[l]) : c[l][i] = c[l][j] => i = j
    BY DEF LlKeeps, LlApart
  <2> QED
    BY <2>1, <1>2 DEF IsInjective
<1>4. LlChain(h, l) = c[l]
  BY <1>1, <1>3, LlChainOf
<1>5. LlContents(h, l) = [i \in 1..Len(c[l]) |-> h.data[c[l][i]]]
  BY <1>2, <1>4 DEF LlContents
<1>6. \A i \in 1..Len(c[l]) : h.data[c[l][i]] \in LlData
  BY DEF LlKeeps
<1>7. [i \in 1..Len(c[l]) |-> h.data[c[l][i]]] \in Seq(LlData)
  BY <1>2, <1>6
<1> QED
  BY <1>1, <1>2, <1>4, <1>5, <1>7

\* A loop that is under way stands at place k of its list, and the node there
\* may be deleted already.
LlLoopIn(lp, c) ==
    /\ lp \in [l : LlLists \cup {"none"}, node : LlNodes \cup {NoLink},
               saved : LlNodes \cup {NoLink}, prev : LlNodes \cup {NoLink}]
    /\ lp # Idle_loop =>
         /\ lp.l \in LlLists
         /\ \E k \in 1..(Len(c[lp.l]) + 1) :
              /\ lp.prev = LlAt(c[lp.l], k - 1)
              /\ \/ lp.node = NoLink /\ lp.saved = LlAt(c[lp.l], k)
                 \/ k <= Len(c[lp.l]) /\ lp.node = c[lp.l][k] /\ lp.saved = LlAt(c[lp.l], k + 1)

LlChains == [l \in LlLists |-> LlChain(heap, l)]
LlInv == LlKeeps(heap, LlChains) /\ LlLoopIn(loop, LlChains)

----------------------------------------------------------------------------
(* One node comes in, goes out, or all do; a list is turned round. *)

\* A heap is what its fields say.
LEMMA LlHeapOf ==
  ASSUME NEW h, NEW c, LlKeeps(h, c)
  PROVE  /\ h.next \in [LlNodes -> LlNodes \cup {NoLink}] /\ h.data \in [LlNodes -> Nat]
         /\ h.live \in SUBSET LlNodes /\ h.head \in [LlLists -> LlNodes \cup {NoLink}]
         /\ h.count \in [LlLists -> Nat]
         /\ h = [next |-> h.next, data |-> h.data, live |-> h.live, head |-> h.head, count |-> h.count]
  BY DEF LlKeeps, LlHeaps

\* The heap g is h with node n linked in at place k of list l.
LlComesIn(h, c, l, k, n, g) ==
    /\ LlKeeps(h, c)
    /\ l \in LlLists
    /\ k \in 1..(Len(c[l]) + 1)
    /\ n \in h.live
    /\ ~LlListed(c, n)
    /\ g \in LlHeaps
    /\ g.live = h.live
    /\ \A m \in g.live : g.data[m] \in LlData
    /\ g.count = [h.count EXCEPT ![l] = @ + 1]
    /\ g.head = IF k = 1 THEN [h.head EXCEPT ![l] = n] ELSE h.head
    /\ \A m \in LlNodes : g.next[m] = IF m = n THEN LlAt(c[l], k)
                                        ELSE IF k # 1 /\ m = c[l][k - 1] THEN n ELSE h.next[m]

\* A node comes in at place k of list l.
LEMMA LlOneMore ==
  ASSUME NEW h, NEW c, NEW l, NEW k, NEW n, NEW g, LlComesIn(h, c, l, k, n, g)
  PROVE  LlKeeps(g, [c EXCEPT ![l] = InsertAt(c[l], k, n)])
<1>0. /\ LlKeeps(h, c)
      /\ l \in LlLists
      /\ k \in 1..(Len(c[l]) + 1)
      /\ n \in h.live
      /\ ~LlListed(c, n)
      /\ g \in LlHeaps
      /\ g.live = h.live
      /\ \A m \in g.live : g.data[m] \in LlData
      /\ g.count = [h.count EXCEPT ![l] = @ + 1]
      /\ g.head = IF k = 1 THEN [h.head EXCEPT ![l] = n] ELSE h.head
      /\ \A m \in LlNodes : g.next[m] = IF m = n THEN LlAt(c[l], k)
                                        ELSE IF k # 1 /\ m = c[l][k - 1] THEN n ELSE h.next[m]
  BY DEF LlComesIn
<1> USE <1>0
<1> DEFINE s == c[l]
           u == InsertAt(s, k, n)
           d == [c EXCEPT ![l] = u]
<1>1. /\ c \in [LlLists -> Seq(LlNodes)] /\ s \in Seq(LlNodes) /\ Len(s) \in Nat /\ n \in LlNodes
      /\ n # NoLink /\ \A i \in 1..Len(s) : s[i] \in LlNodes
  BY DEF LlKeeps, LlHeaps, LlNodes, NoLink
<1>2. /\ u \in Seq(LlNodes) /\ Len(u) = Len(s) + 1
      /\ \A i \in 1..(Len(s) + 1) : u[i] = IF i < k THEN s[i] ELSE IF i = k THEN n ELSE s[i - 1]
  <2>1. s \in Seq(LlNodes) /\ n \in LlNodes /\ k \in 1..(Len(s) + 1)
    BY <1>1
  <2>2. MayComeIn(LlNodes, s, k, n)
    BY <2>1 DEF MayComeIn
  <2> HIDE DEF s
  <2>3. HasOneMore(LlNodes, s, k, n, InsertAt(s, k, n))
    BY ONLY <2>2, ComesIn
  <2> QED
    BY ONLY <2>3 DEF HasOneMore, u
<1> HIDE DEF u
<1>3. d \in [LlLists -> Seq(LlNodes)] /\ d[l] = u /\ \A m \in LlLists : m # l => d[m] = c[m]
  BY <1>1, <1>2
<1>4. \A m \in LlLists : \A i \in 1..Len(c[m]) : c[m][i] \in LlNodes /\ c[m][i] # n
  BY <1>1 DEF LlListed
<1>5. /\ \A m, o \in LlLists : \A i \in 1..Len(c[m]), j \in 1..Len(c[o]) : c[m][i] = c[o][j] => m = o /\ i = j
      /\ \A i, j \in 1..Len(s) : s[i] = s[j] => i = j
  BY DEF LlKeeps, LlApart
<1>6. \A i \in 1..Len(u) : \/ i = k /\ u[i] = n
                           \/ i # k /\ (IF i < k THEN i ELSE i - 1) \in 1..Len(s)
                              /\ u[i] = s[IF i < k THEN i ELSE i - 1]
  BY <1>1, <1>2
<1>7. LlApart(d)
  <2>1. ASSUME NEW i \in 1..Len(u), NEW j \in 1..Len(u), u[i] = u[j] PROVE i = j
    <3> DEFINE at(x) == IF x < k THEN x ELSE x - 1
    <3>1. CASE i = k \/ j = k
      BY <2>1, <3>1, <1>4, <1>6
    <3>2. CASE i # k /\ j # k
      <4>1. at(i) \in 1..Len(s) /\ u[i] = s[at(i)] /\ at(j) \in 1..Len(s) /\ u[j] = s[at(j)]
        BY <3>2, <1>6
      <4>2. at(i) = at(j)
        BY ONLY <4>1, <2>1, <1>5
      <4> QED
        BY <4>2, <3>2, <1>1, <1>2
    <3> QED
      BY <3>1, <3>2
  <2>2. ASSUME NEW m \in LlLists, m # l, NEW i \in 1..Len(u), NEW j \in 1..Len(c[m]) PROVE u[i] # c[m][j]
    BY <2>2, <1>4, <1>5, <1>6
  <2>3. ASSUME NEW m \in LlLists, NEW o \in LlLists, NEW i \in 1..Len(d[m]), NEW j \in 1..Len(d[o]), d[m][i] = d[o][j]
        PROVE m = o /\ i = j
    <3>1. CASE m = l /\ o = l
      BY <2>1, <2>3, <3>1, <1>3
    <3>2. CASE m = l /\ o # l
      BY <2>2, <2>3, <3>2, <1>3
    <3>3. CASE m # l /\ o = l
      BY <2>2, <2>3, <3>3, <1>3
    <3>4. CASE m # l /\ o # l
      BY <2>3, <3>4, <1>3, <1>5
    <3> QED
      BY <3>1, <3>2, <3>3, <3>4
  <2> HIDE DEF d
  <2> QED
    BY <2>3 DEF LlApart
<1>8. \A m \in LlLists : /\ LlRun(h.next, h.head[m], c[m]) /\ h.count[m] = Len(c[m])
                         /\ \A i \in 1..Len(c[m]) : c[m][i] \in h.live
  BY DEF LlKeeps
<1>9. LlRun(g.next, g.head[l], u)
  <2>1. g.head[l] = LlAt(u, 1)
    <3>1. g.head[l] = IF k = 1 THEN n ELSE h.head[l]
      BY DEF LlKeeps, LlHeaps
    <3>2. h.head[l] = LlAt(s, 1)
      BY <1>8 DEF LlRun
    <3> QED
      BY <3>1, <3>2, <1>1, <1>2 DEF LlAt
  <2>2. ASSUME NEW i \in 1..Len(u) PROVE g.next[u[i]] = LlAt(u, i + 1)
    <3>1. CASE i = k
      BY <3>1, <1>1, <1>2 DEF LlAt
    <3>2. CASE i = k - 1
      <4>1. u[i] = s[k - 1] /\ s[k - 1] # n /\ k # 1 /\ k - 1 \in 1..Len(s) /\ u[k] = n
        BY <3>2, <1>1, <1>2, <1>4
      <4>2. g.next[u[i]] = n
        BY <4>1, <1>1
      <4> QED
        BY <3>2, <4>1, <4>2, <1>1, <1>2 DEF LlAt
    <3>3. CASE i # k /\ i # k - 1
      <4> DEFINE j == IF i < k THEN i ELSE i - 1
      <4>1. j \in 1..Len(s) /\ u[i] = s[j] /\ s[j] # n /\ j # k - 1
        BY <3>3, <1>1, <1>2, <1>4
      <4>2. k # 1 => k - 1 \in 1..Len(s) /\ s[j] # s[k - 1]
        BY <4>1, <1>1, <1>5
      <4>3. g.next[u[i]] = h.next[s[j]]
        BY <4>1, <4>2, <1>1
      <4>4. h.next[s[j]] = LlAt(s, j + 1)
        BY <4>1, <1>8 DEF LlRun
      <4>5. LlAt(s, j + 1) = LlAt(u, i + 1)
        <5>1. k \in 1..(Len(s) + 1) /\ i \in 1..(Len(s) + 1)
          BY <1>2
        <5> HIDE <1>0
        <5> HIDE DEF s
        <5>2. CASE i < k
          <6>1. j = i /\ i + 1 \in 1..Len(s) /\ i + 1 < k /\ i + 1 \in 1..(Len(s) + 1)
            BY ONLY <5>1, <5>2, <3>3, <1>1
          <6> QED
            BY <6>1, <1>2 DEF LlAt
        <5>3. CASE i > k
          <6>1. j = i - 1 /\ j + 1 = i /\ (i \in 1..Len(s) <=> i + 1 \in 1..Len(u))
            BY ONLY <5>1, <5>3, <1>1, <1>2
          <6>2. i \in 1..Len(s) => u[i + 1] = s[i]
            <7>1. i \in 1..Len(s) => i + 1 \in 1..(Len(s) + 1) /\ ~(i + 1 < k) /\ i + 1 # k /\ (i + 1) - 1 = i
              BY ONLY <5>1, <5>3, <1>1
            <7> QED
              BY ONLY <7>1, <1>2
          <6> HIDE DEF j
          <6> QED
            BY <6>1, <6>2 DEF LlAt
        <5> QED
          BY ONLY <5>1, <5>2, <5>3, <3>3, <1>1
      <4> QED
        BY <4>3, <4>4, <4>5
    <3> QED
      BY <3>1, <3>2, <3>3
  <2> QED
    BY <1>2, <2>1, <2>2 DEF LlRun
<1>10. ASSUME NEW m \in LlLists, m # l PROVE LlRun(g.next, g.head[m], c[m])
  <2>1. g.head[m] = h.head[m]
    BY <1>10 DEF LlKeeps, LlHeaps
  <2>2. ASSUME NEW i \in 1..Len(c[m]) PROVE g.next[c[m][i]] = h.next[c[m][i]]
    <3>1. k # 1 => k - 1 \in 1..Len(s)
      BY <1>1
    <3> QED
      BY <3>1, <1>4, <1>5, <1>10
  <2> QED
    BY <2>1, <2>2, <1>8 DEF LlRun
<1>11. ASSUME NEW m \in LlLists
       PROVE  /\ LlRun(g.next, g.head[m], d[m]) /\ g.count[m] = Len(d[m])
              /\ \A i \in 1..Len(d[m]) : d[m][i] \in g.live
  <2>1. CASE m = l
    <3>1. h.count \in [LlLists -> Nat] /\ h.count[l] = Len(s)
      BY <1>8 DEF LlKeeps, LlHeaps
    <3>2. g.count[l] = Len(u)
      BY <3>1, <1>2
    <3>3. \A i \in 1..Len(u) : u[i] \in g.live
      BY <1>6, <1>8
    <3> QED
      BY <2>1, <3>2, <3>3, <1>3, <1>9
  <2>2. CASE m # l
    BY <2>2, <1>3, <1>8, <1>10 DEF LlKeeps, LlHeaps
  <2> QED
    BY <2>1, <2>2
<1>12. ASSUME NEW m \in LlNodes, g.next[m] # NoLink PROVE LlListed(d, m)
  <2>1. \A i \in 1..Len(s) : \E j \in 1..Len(u) : u[j] = s[i]
    <3>1. ASSUME NEW i \in 1..Len(s) PROVE \E j \in 1..Len(u) : u[j] = s[i]
      <4>1. CASE i < k
        BY <4>1, <1>1, <1>2
      <4>2. CASE ~(i < k)
        <5>1. i + 1 \in 1..Len(u) /\ u[i + 1] = s[i]
          BY <4>2, <1>1, <1>2
        <5> QED
          BY <5>1
      <4> QED
        BY <4>1, <4>2
    <3> QED
      BY <3>1
  <2>2. k \in 1..Len(u) /\ u[k] = n
    BY <1>1, <1>2
  <2>3. LlListed(c, m) => LlListed(d, m)
    BY <2>1, <1>3 DEF LlListed
  <2>4. CASE m = n
    BY <2>2, <2>4, <1>3 DEF LlListed
  <2>5. CASE m # n /\ k # 1 /\ m = s[k - 1]
    <3>1. k - 1 \in 1..Len(s)
      BY <2>5, <1>1
    <3> QED
      BY <2>3, <2>5, <3>1 DEF LlListed
  <2>6. CASE m # n /\ ~(k # 1 /\ m = s[k - 1])
    BY <2>3, <2>6, <1>12 DEF LlKeeps
  <2> QED
    BY <2>4, <2>5, <2>6
<1> HIDE DEF d
<1>13. LlKeeps(g, d)
  BY <1>3, <1>7, <1>11, <1>12 DEF LlKeeps
<1> QED
  BY <1>13 DEF d, u

\* The heap g holds u as list l, and what h held of the others.
LlFits(h, c, l, g, u) ==
    /\ u \in Seq(LlNodes) /\ g \in LlHeaps /\ \A m \in g.live : g.data[m] \in LlData
    /\ LlRun(g.next, g.head[l], u) /\ g.count[l] = Len(u)
    /\ \A i \in 1..Len(u) : u[i] \in g.live
    /\ \A i, j \in 1..Len(u) : u[i] = u[j] => i = j
    /\ \A m \in LlLists \ {l} : \A j \in 1..Len(c[m]) :
         /\ c[m][j] \in g.live /\ g.next[c[m][j]] = h.next[c[m][j]]
         /\ \A i \in 1..Len(u) : u[i] # c[m][j]
    /\ \A m \in LlLists \ {l} : g.head[m] = h.head[m] /\ g.count[m] = h.count[m]
    /\ \A n \in LlNodes : g.next[n] # NoLink =>
         \/ \E i \in 1..Len(u) : u[i] = n
         \/ \E m \in LlLists \ {l} : \E i \in 1..Len(c[m]) : c[m][i] = n

\* A list may change as it likes, if it keeps away from the others.
LEMMA LlOtherwise ==
  ASSUME NEW h, NEW c, LlKeeps(h, c), NEW l \in LlLists, NEW u, NEW g, LlFits(h, c, l, g, u)
  PROVE  LlKeeps(g, [c EXCEPT ![l] = u])
<1>0. /\ u \in Seq(LlNodes) /\ g \in LlHeaps /\ \A m \in g.live : g.data[m] \in LlData
      /\ LlRun(g.next, g.head[l], u) /\ g.count[l] = Len(u)
      /\ \A i \in 1..Len(u) : u[i] \in g.live
      /\ \A i, j \in 1..Len(u) : u[i] = u[j] => i = j
      /\ \A m \in LlLists \ {l} : \A j \in 1..Len(c[m]) :
           /\ c[m][j] \in g.live /\ g.next[c[m][j]] = h.next[c[m][j]]
           /\ \A i \in 1..Len(u) : u[i] # c[m][j]
      /\ \A m \in LlLists \ {l} : g.head[m] = h.head[m] /\ g.count[m] = h.count[m]
      /\ \A n \in LlNodes : g.next[n] # NoLink =>
           \/ \E i \in 1..Len(u) : u[i] = n
           \/ \E m \in LlLists \ {l} : \E i \in 1..Len(c[m]) : c[m][i] = n
  BY DEF LlFits
<1> DEFINE d == [c EXCEPT ![l] = u]
<1>1. c \in [LlLists -> Seq(LlNodes)]
  BY <1>0 DEF LlKeeps
<1>2. d \in [LlLists -> Seq(LlNodes)] /\ d[l] = u /\ \A m \in LlLists : m # l => d[m] = c[m]
  BY <1>0, <1>1
<1> HIDE DEF d
<1>3. LlApart(d)
  <2>1. ASSUME NEW m \in LlLists, NEW o \in LlLists, NEW i \in 1..Len(d[m]), NEW j \in 1..Len(d[o]), d[m][i] = d[o][j]
        PROVE m = o /\ i = j
    <3>1. CASE m = l /\ o = l
      BY <1>0, <2>1, <3>1, <1>2
    <3>2. CASE m = l /\ o # l
      BY <1>0, <2>1, <3>2, <1>2
    <3>3. CASE m # l /\ o = l
      BY <1>0, <2>1, <3>3, <1>2
    <3>4. CASE m # l /\ o # l
      BY <1>0, <2>1, <3>4, <1>2 DEF LlKeeps, LlApart
    <3> QED
      BY <3>1, <3>2, <3>3, <3>4
  <2> QED
    BY <1>0, <2>1 DEF LlApart
<1>4. ASSUME NEW m \in LlLists
      PROVE  /\ LlRun(g.next, g.head[m], d[m]) /\ g.count[m] = Len(d[m])
             /\ \A i \in 1..Len(d[m]) : d[m][i] \in g.live
  <2>1. CASE m = l
    BY <1>0, <2>1, <1>2
  <2>2. CASE m # l
    <3>1. LlRun(h.next, h.head[m], c[m]) /\ h.count[m] = Len(c[m])
      BY <1>0 DEF LlKeeps
    <3>2. /\ g.head[m] = h.head[m] /\ g.count[m] = h.count[m]
          /\ \A j \in 1..Len(c[m]) : c[m][j] \in g.live /\ g.next[c[m][j]] = h.next[c[m][j]]
      BY <1>0, <2>2
    <3>3. LlRun(g.next, g.head[m], c[m])
      BY ONLY <3>1, <3>2 DEF LlRun
    <3> QED
      BY <1>0, <2>2, <3>1, <3>2, <3>3, <1>2
  <2> QED
    BY <1>0, <2>1, <2>2
<1>5. ASSUME NEW n \in LlNodes, g.next[n] # NoLink PROVE LlListed(d, n)
  BY <1>0, <1>2, <1>5 DEF LlListed
<1>6. LlKeeps(g, d)
  BY <1>0, <1>2, <1>3, <1>4, <1>5 DEF LlKeeps
<1> QED
  BY <1>6 DEF d

\* The heap g is h with the node at place k of list l linked out, and maybe freed.
LlGoesOut(h, c, l, k, g) ==
    /\ LlKeeps(h, c)
    /\ l \in LlLists
    /\ k \in 1..Len(c[l])
    /\ g \in LlHeaps
    /\ g.live = h.live \/ g.live = h.live \ {c[l][k]}
    /\ \A m \in g.live : g.data[m] \in LlData
    /\ g.count = [h.count EXCEPT ![l] = @ - 1]
    /\ g.head = IF k = 1 THEN [h.head EXCEPT ![l] = LlAt(c[l], 2)] ELSE h.head
    /\ \A m \in LlNodes : g.next[m] = IF m = c[l][k] THEN NoLink
                                        ELSE IF k # 1 /\ m = c[l][k - 1] THEN LlAt(c[l], k + 1) ELSE h.next[m]

\* The node at place k of list l leaves it, and may be freed.
LEMMA LlOneLess ==
  ASSUME NEW h, NEW c, NEW l, NEW k, NEW g, LlGoesOut(h, c, l, k, g)
  PROVE  LlKeeps(g, [c EXCEPT ![l] = RemoveAt(c[l], k)])
<1>0. /\ LlKeeps(h, c)
      /\ l \in LlLists
      /\ k \in 1..Len(c[l])
      /\ g \in LlHeaps
      /\ g.live = h.live \/ g.live = h.live \ {c[l][k]}
      /\ \A m \in g.live : g.data[m] \in LlData
      /\ g.count = [h.count EXCEPT ![l] = @ - 1]
      /\ g.head = IF k = 1 THEN [h.head EXCEPT ![l] = LlAt(c[l], 2)] ELSE h.head
      /\ \A m \in LlNodes : g.next[m] = IF m = c[l][k] THEN NoLink
                                        ELSE IF k # 1 /\ m = c[l][k - 1] THEN LlAt(c[l], k + 1) ELSE h.next[m]
  BY DEF LlGoesOut
<1> USE <1>0
<1> DEFINE s == c[l]
           u == RemoveAt(c[l], k)
<1>1. /\ c \in [LlLists -> Seq(LlNodes)] /\ s \in Seq(LlNodes) /\ Len(s) \in Nat
      /\ \A i \in 1..Len(s) : s[i] \in LlNodes /\ s[i] \in h.live
  BY DEF LlKeeps
<1>2. /\ u \in Seq(LlNodes) /\ Len(u) = Len(s) - 1
      /\ \A i \in 1..(Len(s) - 1) : u[i] = IF i < k THEN s[i] ELSE s[i + 1]
  <2>1. MayGoOut(LlNodes, s, k)
    BY <1>1 DEF MayGoOut
  <2>2. HasOneLess(LlNodes, s, k, RemoveAt(s, k))
    BY ONLY <2>1, GoesOut
  <2> HIDE DEF s
  <2> QED
    BY ONLY <2>2 DEF HasOneLess, u, s
<1> HIDE DEF u
<1>3. /\ \A m, o \in LlLists : \A i \in 1..Len(c[m]), j \in 1..Len(c[o]) : c[m][i] = c[o][j] => m = o /\ i = j
      /\ \A i, j \in 1..Len(s) : s[i] = s[j] => i = j
  BY DEF LlKeeps, LlApart
<1> DEFINE at(i) == IF i < k THEN i ELSE i + 1
<1>4. \A i \in 1..Len(u) : at(i) \in 1..Len(s) /\ at(i) # k /\ u[i] = s[at(i)]
  BY <1>1, <1>2
<1>5. ASSUME NEW j \in 1..Len(s), j # k PROVE \E i \in 1..Len(u) : u[i] = s[j]
  <2>1. CASE j < k
    <3>1. j \in 1..Len(u) /\ u[j] = s[j]
      <4>1. k \in 1..Len(s)
        OBVIOUS
      <4> HIDE <1>0
      <4> QED
        BY <4>1, <2>1, <1>1, <1>2
    <3> QED
      BY <3>1
  <2>2. CASE ~(j < k)
    <3>1. j - 1 \in 1..Len(u) /\ u[j - 1] = s[j]
      <4>1. j \in 1..Len(s) /\ k \in 1..Len(s) /\ j > k
        BY <2>2, <1>1, <1>5
      <4> HIDE <1>0
      <4>2. j - 1 \in 1..(Len(s) - 1) /\ ~(j - 1 < k) /\ (j - 1) + 1 = j
        BY <4>1, <1>1
      <4> QED
        BY <4>2, <1>2
    <3> QED
      BY <3>1
  <2> QED
    BY <2>1, <2>2
<1>6. /\ LlRun(h.next, h.head[l], s) /\ h.count[l] = Len(s)
      /\ h.count \in [LlLists -> Nat] /\ h.head \in [LlLists -> LlNodes \cup {NoLink}]
  BY DEF LlKeeps, LlHeaps
<1>7. k # 1 => k - 1 \in 1..Len(s)
  BY <1>1
<1>8. LlRun(g.next, g.head[l], u)
  <2>1. g.head[l] = LlAt(u, 1)
    <3>1. g.head[l] = IF k = 1 THEN LlAt(s, 2) ELSE h.head[l]
      BY <1>6
    <3>2. h.head[l] = LlAt(s, 1)
      BY <1>6 DEF LlRun
    <3> QED
      BY <3>1, <3>2, <1>1, <1>2 DEF LlAt
  <2>2. ASSUME NEW i \in 1..Len(u) PROVE g.next[u[i]] = LlAt(u, i + 1)
    <3>1. u[i] = s[at(i)] /\ at(i) \in 1..Len(s) /\ s[at(i)] # s[k] /\ s[at(i)] \in LlNodes
      BY <1>1, <1>3, <1>4
    <3>2. CASE i = k - 1
      <4>1. k # 1 /\ s[at(i)] = s[k - 1]
        BY <3>2, <1>1
      <4>2. g.next[u[i]] = LlAt(s, k + 1)
        BY <3>1, <4>1
      <4> QED
        BY <3>2, <4>2, <1>1, <1>2 DEF LlAt
    <3>3. CASE i # k - 1
      <4>1. ~(k # 1 /\ s[at(i)] = s[k - 1])
        BY <3>1, <3>3, <1>1, <1>3, <1>7
      <4>2. g.next[u[i]] = h.next[s[at(i)]]
        BY <3>1, <4>1
      <4>3. h.next[s[at(i)]] = LlAt(s, at(i) + 1)
        BY <3>1, <1>6 DEF LlRun
      <4>4. LlAt(s, at(i) + 1) = LlAt(u, i + 1)
        BY <3>3, <1>1, <1>2 DEF LlAt
      <4> QED
        BY <4>2, <4>3, <4>4
    <3> QED
      BY <3>2, <3>3
  <2> QED
    BY <1>2, <2>1, <2>2 DEF LlRun
<1>9. \A i, j \in 1..Len(u) : u[i] = u[j] => i = j
  <2>1. ASSUME NEW i \in 1..Len(u), NEW j \in 1..Len(u), u[i] = u[j] PROVE i = j
    <3>1. at(i) = at(j)
      <4> HIDE DEF at
      <4> QED
        BY <2>1, <1>3, <1>4
    <3> QED
      BY <3>1, <1>1, <1>2
  <2> QED
    BY <2>1
<1>10. ASSUME NEW m \in LlLists, m # l, NEW j \in 1..Len(c[m])
       PROVE  /\ c[m][j] \in g.live /\ g.next[c[m][j]] = h.next[c[m][j]]
              /\ \A i \in 1..Len(u) : u[i] # c[m][j]
  <2>1. c[m][j] \in LlNodes /\ c[m][j] \in h.live /\ \A i \in 1..Len(s) : s[i] # c[m][j]
    BY <1>1, <1>3, <1>10 DEF LlKeeps
  <2>2. g.next[c[m][j]] = h.next[c[m][j]]
    BY <2>1, <1>7
  <2> HIDE DEF at
  <2> QED
    BY <2>1, <2>2, <1>4
<1>11. ASSUME NEW n \in LlNodes, g.next[n] # NoLink
       PROVE  \/ \E i \in 1..Len(u) : u[i] = n
              \/ \E m \in LlLists \ {l} : \E i \in 1..Len(c[m]) : c[m][i] = n
  <2>1. n # s[k]
    BY <1>11
  <2>2. LlListed(c, n)
    <3>1. CASE k # 1 /\ n = s[k - 1]
      BY <3>1, <1>7 DEF LlListed
    <3>2. CASE ~(k # 1 /\ n = s[k - 1])
      BY <3>2, <2>1, <1>11 DEF LlKeeps
    <3> QED
      BY <3>1, <3>2
  <2> QED
    BY <2>1, <2>2, <1>5 DEF LlListed
<1>12. /\ g.count[l] = Len(u) /\ \A i \in 1..Len(u) : u[i] \in g.live
       /\ \A m \in LlLists \ {l} : g.head[m] = h.head[m] /\ g.count[m] = h.count[m]
  <2>1. g.count[l] = Len(u)
    BY <1>2, <1>6
  <2>2. ASSUME NEW i \in 1..Len(u) PROVE u[i] \in g.live
    <3>1. u[i] \in h.live /\ u[i] # s[k]
      BY <1>1, <1>3, <1>4
    <3> QED
      BY <3>1
  <2> QED
    BY <2>1, <2>2, <1>6
<1>13. /\ \A m \in LlLists \ {l} : \A j \in 1..Len(c[m]) :
            /\ c[m][j] \in g.live /\ g.next[c[m][j]] = h.next[c[m][j]]
            /\ \A i \in 1..Len(u) : u[i] # c[m][j]
       /\ \A n \in LlNodes : g.next[n] # NoLink =>
            \/ \E i \in 1..Len(u) : u[i] = n
            \/ \E m \in LlLists \ {l} : \E i \in 1..Len(c[m]) : c[m][i] = n
  BY <1>10, <1>11
<1>14. LlKeeps(g, [c EXCEPT ![l] = u])
  <2>1. LlFits(h, c, l, g, u)
    BY ONLY g \in LlHeaps, \A m \in g.live : g.data[m] \in LlData, <1>2, <1>8, <1>9, <1>12, <1>13 DEF LlFits
  <2> QED
    BY <2>1, LlOtherwise
<1> QED
  BY <1>14 DEF u

\* The heap g is h without the nodes of list l.
LlCleared(h, c, l, g) ==
    /\ LlKeeps(h, c)
    /\ l \in LlLists
    /\ g \in LlHeaps
    /\ \A m \in g.live : g.data[m] \in LlData
    /\ \A m \in h.live : (\A i \in 1..Len(c[l]) : c[l][i] # m) => m \in g.live
    /\ g.count = [h.count EXCEPT ![l] = 0]
    /\ g.head = [h.head EXCEPT ![l] = NoLink]
    /\ \A m \in LlNodes : g.next[m] = IF \E i \in 1..Len(c[l]) : c[l][i] = m THEN NoLink ELSE h.next[m]

\* All the nodes of list l leave it.
LEMMA LlNoneLeft ==
  ASSUME NEW h, NEW c, NEW l, NEW g, LlCleared(h, c, l, g)
  PROVE  LlKeeps(g, [c EXCEPT ![l] = <<>>])
<1>0. /\ LlKeeps(h, c)
      /\ l \in LlLists
      /\ g \in LlHeaps
      /\ \A m \in g.live : g.data[m] \in LlData
      /\ \A m \in h.live : (\A i \in 1..Len(c[l]) : c[l][i] # m) => m \in g.live
      /\ g.count = [h.count EXCEPT ![l] = 0]
      /\ g.head = [h.head EXCEPT ![l] = NoLink]
      /\ \A m \in LlNodes : g.next[m] = IF \E i \in 1..Len(c[l]) : c[l][i] = m THEN NoLink ELSE h.next[m]
  BY DEF LlCleared
<1> USE <1>0
<1> DEFINE u == <<>>
<1>1. /\ \A m \in LlLists : c[m] \in Seq(LlNodes) /\ \A i \in 1..Len(c[m]) : c[m][i] \in LlNodes /\ c[m][i] \in h.live
      /\ h.count \in [LlLists -> Nat] /\ h.head \in [LlLists -> LlNodes \cup {NoLink}]
  BY DEF LlKeeps, LlHeaps
<1>2. u \in Seq(LlNodes) /\ Len(u) = 0
  OBVIOUS
<1> HIDE DEF u
<1>3. LlRun(g.next, g.head[l], u)
  BY <1>1, <1>2 DEF LlRun, LlAt
<1>4. ASSUME NEW m \in LlLists, m # l, NEW j \in 1..Len(c[m])
      PROVE  c[m][j] \in g.live /\ g.next[c[m][j]] = h.next[c[m][j]]
  <2>1. \A i \in 1..Len(c[l]) : c[l][i] # c[m][j]
    BY <1>4 DEF LlKeeps, LlApart
  <2> QED
    BY <2>1, <1>1
<1>5. ASSUME NEW n \in LlNodes, g.next[n] # NoLink
      PROVE \E m \in LlLists \ {l} : \E i \in 1..Len(c[m]) : c[m][i] = n
  <2>1. h.next[n] # NoLink /\ \A i \in 1..Len(c[l]) : c[l][i] # n
    BY <1>5
  <2>2. LlListed(c, n)
    BY <2>1 DEF LlKeeps
  <2> QED
    BY <2>1, <2>2 DEF LlListed
<1>6. g.count[l] = Len(u) /\ \A m \in LlLists \ {l} : g.head[m] = h.head[m] /\ g.count[m] = h.count[m]
  BY <1>1, <1>2
<1>7. /\ \A m \in LlLists \ {l} : \A j \in 1..Len(c[m]) :
            /\ c[m][j] \in g.live /\ g.next[c[m][j]] = h.next[c[m][j]]
            /\ \A i \in 1..Len(u) : u[i] # c[m][j]
      /\ \A n \in LlNodes : g.next[n] # NoLink =>
            \/ \E i \in 1..Len(u) : u[i] = n
            \/ \E m \in LlLists \ {l} : \E i \in 1..Len(c[m]) : c[m][i] = n
      /\ \A i \in 1..Len(u) : u[i] \in g.live
      /\ \A i, j \in 1..Len(u) : u[i] = u[j] => i = j
  BY <1>2, <1>4, <1>5
<1>8. LlKeeps(g, [c EXCEPT ![l] = u])
  <2>1. LlFits(h, c, l, g, u)
    BY ONLY g \in LlHeaps, \A m \in g.live : g.data[m] \in LlData, <1>2, <1>3, <1>6, <1>7 DEF LlFits
  <2> QED
    BY <2>1, LlOtherwise
<1> QED
  BY <1>8 DEF u

\* The heap g is h with list l linked the other way round.
LlLinkedBack(h, c, l, g) ==
    /\ LlKeeps(h, c)
    /\ l \in LlLists
    /\ Len(c[l]) # 0
    /\ g \in LlHeaps
    /\ g.live = h.live
    /\ g.data = h.data
    /\ g.count = h.count
    /\ g.head = [h.head EXCEPT ![l] = c[l][Len(c[l])]]
    /\ \A i \in 1..Len(c[l]) : g.next[c[l][i]] = IF i = 1 THEN NoLink ELSE c[l][i - 1]
    /\ \A m \in LlNodes : (\A i \in 1..Len(c[l]) : c[l][i] # m) => g.next[m] = h.next[m]

\* List l is linked the other way round.
LEMMA LlTurned ==
  ASSUME NEW h, NEW c, NEW l, NEW g, LlLinkedBack(h, c, l, g)
  PROVE  LlKeeps(g, [c EXCEPT ![l] = Reverse(c[l])])
<1>0. /\ LlKeeps(h, c)
      /\ l \in LlLists
      /\ Len(c[l]) # 0
      /\ g \in LlHeaps
      /\ g.live = h.live
      /\ g.data = h.data
      /\ g.count = h.count
      /\ g.head = [h.head EXCEPT ![l] = c[l][Len(c[l])]]
      /\ \A i \in 1..Len(c[l]) : g.next[c[l][i]] = IF i = 1 THEN NoLink ELSE c[l][i - 1]
      /\ \A m \in LlNodes : (\A i \in 1..Len(c[l]) : c[l][i] # m) => g.next[m] = h.next[m]
  BY DEF LlLinkedBack
<1> USE <1>0
<1> DEFINE s == c[l]
           u == Reverse(c[l])
           L == Len(s)
<1>1. /\ s \in Seq(LlNodes) /\ L \in Nat /\ h.count[l] = Len(s)
      /\ \A m \in LlLists : \A i \in 1..Len(c[m]) : c[m][i] \in LlNodes /\ c[m][i] \in h.live
      /\ h.head \in [LlLists -> LlNodes \cup {NoLink}]
  BY DEF LlKeeps, LlHeaps
<1>2. u \in Seq(LlNodes) /\ Len(u) = L /\ \A i \in 1..L : u[i] = s[L - i + 1]
  <2>1. u = [i \in 1..L |-> s[(L - i) + 1]]
    BY DEF Reverse
  <2>2. \A i \in 1..L : (L - i) + 1 \in 1..L
    BY <1>1
  <2> HIDE DEF u
  <2> QED
    BY <1>1, <2>1, <2>2
<1>3. \A i, j \in 1..Len(s) : s[i] = s[j] => i = j
  BY DEF LlKeeps, LlApart
<1> HIDE DEF u
<1>4. LlRun(g.next, g.head[l], u)
  <2>1. g.head[l] = LlAt(u, 1)
    BY <1>1, <1>2 DEF LlAt
  <2>2. ASSUME NEW i \in 1..Len(u) PROVE g.next[u[i]] = LlAt(u, i + 1)
    <3>1. L - i + 1 \in 1..L /\ u[i] = s[L - i + 1]
      BY <1>1, <1>2
    <3>2. g.next[u[i]] = IF i = L THEN NoLink ELSE s[L - i]
      <4>1. g.next[s[L - i + 1]] = IF L - i + 1 = 1 THEN NoLink ELSE s[(L - i + 1) - 1]
        BY <3>1
      <4>2. (L - i + 1 = 1 <=> i = L) /\ (L - i + 1) - 1 = L - i
        BY <3>1, <1>1
      <4> QED
        BY <3>1, <4>1, <4>2
    <3> QED
      BY <3>2, <1>1, <1>2 DEF LlAt
  <2> QED
    BY <1>2, <2>1, <2>2 DEF LlRun
<1>5. \A i, j \in 1..Len(u) : u[i] = u[j] => i = j
  <2>1. ASSUME NEW i \in 1..L, NEW j \in 1..L, u[i] = u[j] PROVE i = j
    <3>1. L - i + 1 \in 1..L /\ L - j + 1 \in 1..L /\ s[L - i + 1] = s[L - j + 1]
      BY <2>1, <1>1, <1>2
    <3>2. L - i + 1 = L - j + 1
      BY <3>1, <1>3
    <3> QED
      BY <3>2, <1>1
  <2> QED
    BY <2>1, <1>2
<1>6. \A i \in 1..Len(u) : \E j \in 1..L : u[i] = s[j]
  <2>1. \A i \in 1..L : L - i + 1 \in 1..L
    BY <1>1
  <2> QED
    BY <2>1, <1>2
<1>7. \A j \in 1..L : \E i \in 1..Len(u) : u[i] = s[j]
  <2>1. \A j \in 1..L : L - j + 1 \in 1..L /\ L - (L - j + 1) + 1 = j
    BY <1>1
  <2> QED
    BY <2>1, <1>2
<1>8. ASSUME NEW m \in LlLists, m # l, NEW j \in 1..Len(c[m])
      PROVE  /\ c[m][j] \in g.live /\ g.next[c[m][j]] = h.next[c[m][j]]
             /\ \A i \in 1..Len(u) : u[i] # c[m][j]
  <2>1. \A i \in 1..Len(s) : s[i] # c[m][j]
    BY <1>8 DEF LlKeeps, LlApart
  <2> QED
    <3>1. c[m][j] \in LlNodes /\ c[m][j] \in h.live
      BY <1>1
    <3>2. g.next[c[m][j]] = h.next[c[m][j]]
      BY <2>1, <3>1
    <3>3. \A i \in 1..Len(u) : u[i] # c[m][j]
      <4> HIDE <1>0
      <4> QED
        BY <2>1, <1>6
    <3> QED
      BY <3>1, <3>2, <3>3
<1>9. ASSUME NEW n \in LlNodes, g.next[n] # NoLink
      PROVE  \/ \E i \in 1..Len(u) : u[i] = n
             \/ \E m \in LlLists \ {l} : \E i \in 1..Len(c[m]) : c[m][i] = n
  <2>1. CASE \E i \in 1..L : s[i] = n
    BY <2>1, <1>7
  <2>2. CASE ~\E i \in 1..L : s[i] = n
    <3>1. h.next[n] # NoLink /\ \A i \in 1..L : s[i] # n
      BY <2>2, <1>9
    <3>2. LlListed(c, n)
      BY <3>1 DEF LlKeeps
    <3> QED
      BY <3>1, <3>2 DEF LlListed
  <2> QED
    BY <2>1, <2>2
<1>10. /\ g.count[l] = Len(u) /\ \A i \in 1..Len(u) : u[i] \in g.live
       /\ \A m \in LlLists \ {l} : g.head[m] = h.head[m] /\ g.count[m] = h.count[m]
       /\ \A m \in g.live : g.data[m] \in LlData
  <2>1. \A m \in g.live : g.data[m] \in LlData
    BY DEF LlKeeps
  <2> QED
    BY <2>1, <1>1, <1>2, <1>6
<1>11. /\ \A m \in LlLists \ {l} : \A j \in 1..Len(c[m]) :
            /\ c[m][j] \in g.live /\ g.next[c[m][j]] = h.next[c[m][j]]
            /\ \A i \in 1..Len(u) : u[i] # c[m][j]
       /\ \A n \in LlNodes : g.next[n] # NoLink =>
            \/ \E i \in 1..Len(u) : u[i] = n
            \/ \E m \in LlLists \ {l} : \E i \in 1..Len(c[m]) : c[m][i] = n
  BY <1>8, <1>9
<1>12. LlKeeps(g, [c EXCEPT ![l] = u])
  <2>1. LlFits(h, c, l, g, u)
    BY ONLY g \in LlHeaps, <1>2, <1>4, <1>5, <1>10, <1>11 DEF LlFits
  <2> QED
    BY <2>1, LlOtherwise
<1> QED
  BY <1>12 DEF u

----------------------------------------------------------------------------
(* What becomes of the items. *)

LlAll(h) == [l \in LlLists |-> LlContents(h, l)]
LlGood(h) == \E c : LlKeeps(h, c)

\* The heap g holds u as list l, with the items v, and the other lists of c with
\* the items they have in h.
LlHasItems(h, c, l, g, u, v) ==
    /\ LlKeeps(g, [c EXCEPT ![l] = u])
    /\ \A m \in LlLists \ {l} : \A i \in 1..Len(c[m]) : g.data[c[m][i]] = h.data[c[m][i]]
    /\ v \in Seq(LlData) /\ Len(v) = Len(u) /\ \A i \in 1..Len(u) : v[i] = g.data[u[i]]

\* One list has other items, and the others have what they had.
LEMMA LlItemsAre ==
  ASSUME NEW h, NEW c, LlKeeps(h, c), NEW l \in LlLists, NEW u, NEW g, NEW v, LlHasItems(h, c, l, g, u, v)
  PROVE  LlGood(g) /\ LlAll(g) = [LlAll(h) EXCEPT ![l] = v]
<1>0. /\ LlKeeps(g, [c EXCEPT ![l] = u])
      /\ \A m \in LlLists \ {l} : \A i \in 1..Len(c[m]) : g.data[c[m][i]] = h.data[c[m][i]]
      /\ v \in Seq(LlData) /\ Len(v) = Len(u) /\ \A i \in 1..Len(u) : v[i] = g.data[u[i]]
  BY DEF LlHasItems
<1> DEFINE d == [c EXCEPT ![l] = u]
<1>1. d[l] = u /\ \A m \in LlLists : m # l => d[m] = c[m]
  BY DEF LlKeeps
<1>2. \A m \in LlLists : LlContents(h, m) = [i \in 1..Len(c[m]) |-> h.data[c[m][i]]]
  BY LlChainsAre
<1> HIDE DEF d
<1>3. \A m \in LlLists : LlContents(g, m) = [i \in 1..Len(d[m]) |-> g.data[d[m][i]]]
  <2>1. LlKeeps(g, d)
    BY <1>0 DEF d
  <2> QED
    BY <2>1, LlChainsAre
<1>4. LlContents(g, l) = v
  <2>1. LlContents(g, l) = [i \in 1..Len(u) |-> g.data[u[i]]]
    BY <1>1, <1>3
  <2>2. v = [i \in 1..Len(u) |-> v[i]]
    BY <1>0
  <2> QED
    BY <2>1, <2>2, <1>0
<1>5. ASSUME NEW m \in LlLists, m # l PROVE LlContents(g, m) = LlContents(h, m)
  <2>1. \A i \in 1..Len(c[m]) : g.data[c[m][i]] = h.data[c[m][i]]
    BY <1>0, <1>5
  <2>2. [i \in 1..Len(c[m]) |-> g.data[c[m][i]]] = [i \in 1..Len(c[m]) |-> h.data[c[m][i]]]
    BY ONLY <2>1
  <2>3. LlContents(g, m) = [i \in 1..Len(c[m]) |-> g.data[c[m][i]]]
    BY <1>1, <1>3, <1>5
  <2> QED
    BY <2>2, <2>3, <1>2
<1>6. LlAll(g) = [LlAll(h) EXCEPT ![l] = v]
  <2>1. LlAll(g) = [m \in LlLists |-> LlContents(g, m)]
    BY DEF LlAll
  <2>2. [LlAll(h) EXCEPT ![l] = v] = [m \in LlLists |-> IF m = l THEN v ELSE LlContents(h, m)]
    BY DEF LlAll
  <2> QED
    BY <2>1, <2>2, <1>4, <1>5
<1> QED
  BY <1>0, <1>6 DEF LlGood

\* The node n is in at place k of list l with an item, and the other nodes have
\* the items they had.
LlGetsItem(h, c, l, k, n, g) ==
    /\ LlKeeps(h, c) /\ l \in LlLists /\ k \in 1..(Len(c[l]) + 1) /\ n \in LlNodes
    /\ LlKeeps(g, [c EXCEPT ![l] = InsertAt(c[l], k, n)])
    /\ g.data[n] \in LlData
    /\ \A m \in LlLists : \A i \in 1..Len(c[m]) : g.data[c[m][i]] = h.data[c[m][i]]

\* An item comes in at place k.
LEMMA LlItemIn ==
  ASSUME NEW h, NEW c, NEW l, NEW k, NEW n, NEW g, LlGetsItem(h, c, l, k, n, g)
  PROVE  /\ LlGood(g) /\ k \in 1..(Len(LlContents(h, l)) + 1)
         /\ LlAll(g) = [LlAll(h) EXCEPT ![l] = InsertAt(LlContents(h, l), k, g.data[n])]
<1>a. /\ LlKeeps(h, c) /\ l \in LlLists /\ k \in 1..(Len(c[l]) + 1) /\ n \in LlNodes
      /\ LlKeeps(g, [c EXCEPT ![l] = InsertAt(c[l], k, n)])
      /\ g.data[n] \in LlData
      /\ \A m \in LlLists : \A i \in 1..Len(c[m]) : g.data[c[m][i]] = h.data[c[m][i]]
  BY DEF LlGetsItem
<1> USE <1>a
<1> DEFINE s == c[l]
           u == InsertAt(s, k, n)
           w == LlContents(h, l)
           e == g.data[n]
           v == InsertAt(w, k, e)
<1>0. s \in Seq(LlNodes) /\ Len(s) \in Nat /\ w \in Seq(LlData) /\ w = [i \in 1..Len(s) |-> h.data[s[i]]]
  BY LlChainsAre
<1> HIDE DEF w, e
<1>1. /\ s \in Seq(LlNodes) /\ Len(s) \in Nat /\ w \in Seq(LlData) /\ Len(w) = Len(s)
      /\ \A i \in 1..Len(s) : w[i] = h.data[s[i]]
  BY ONLY <1>0
<1>2. /\ u \in Seq(LlNodes) /\ Len(u) = Len(s) + 1
      /\ \A i \in 1..(Len(s) + 1) : u[i] = IF i < k THEN s[i] ELSE IF i = k THEN n ELSE s[i - 1]
  <2>1. s \in Seq(LlNodes) /\ k \in 1..(Len(s) + 1) /\ n \in LlNodes
    BY <1>1
  <2>2. MayComeIn(LlNodes, s, k, n)
    BY <2>1 DEF MayComeIn
  <2> HIDE DEF s
  <2>3. HasOneMore(LlNodes, s, k, n, InsertAt(s, k, n))
    BY ONLY <2>2, ComesIn
  <2> QED
    BY ONLY <2>3 DEF HasOneMore, u
<1>3. /\ v \in Seq(LlData) /\ Len(v) = Len(s) + 1
      /\ \A i \in 1..(Len(s) + 1) : v[i] = IF i < k THEN w[i] ELSE IF i = k THEN e ELSE w[i - 1]
  <2>1. e \in LlData
    BY DEF e
  <2>2. w \in Seq(LlData) /\ Len(w) = Len(s)
    BY <1>1
  <2>3. MayComeIn(LlData, w, k, e)
    BY ONLY <2>1, <2>2, k \in 1..(Len(s) + 1) DEF MayComeIn
  <2>4. HasOneMore(LlData, w, k, e, InsertAt(w, k, e))
    BY ONLY <2>3, ComesIn
  <2> QED
    BY ONLY <2>2, <2>4 DEF HasOneMore, v
<1> HIDE DEF u, v
<1>4. \A i \in 1..Len(u) : v[i] = g.data[u[i]]
  <2>1. ASSUME NEW i \in 1..Len(u) PROVE v[i] = g.data[u[i]]
    <3>1. CASE i = k
      BY <3>1, <1>1, <1>2, <1>3 DEF e
    <3>2. CASE i # k
      <4> DEFINE j == IF i < k THEN i ELSE i - 1
      <4>1. j \in 1..Len(s) /\ u[i] = s[j] /\ v[i] = w[j]
        BY ONLY i \in 1..Len(u), k \in 1..(Len(s) + 1), <3>2, <1>1, <1>2, <1>3
      <4>2. w[j] = h.data[s[j]] /\ g.data[s[j]] = h.data[s[j]]
        BY <4>1, <1>1
      <4> QED
        BY <4>1, <4>2
    <3> QED
      BY <3>1, <3>2
  <2> QED
    BY <2>1
<1>5. LlGood(g) /\ LlAll(g) = [LlAll(h) EXCEPT ![l] = v]
  <2>1. LlKeeps(g, [c EXCEPT ![l] = u])
    BY DEF u
  <2>2. LlHasItems(h, c, l, g, u, v)
    BY <2>1, <1>2, <1>3, <1>4 DEF LlHasItems
  <2> QED
    BY <2>2, LlItemsAre
<1> QED
  BY <1>1, <1>5 DEF v, w, e

\* The node at place k of list l is out, and the other nodes have the items that
\* are left when the one at place p goes.
LlLosesItem(h, c, l, k, p, g) ==
    /\ LlKeeps(h, c) /\ l \in LlLists /\ k \in 1..Len(c[l]) /\ p \in 1..Len(c[l])
    /\ LlKeeps(g, [c EXCEPT ![l] = RemoveAt(c[l], k)])
    /\ \A m \in LlLists \ {l} : \A i \in 1..Len(c[m]) : g.data[c[m][i]] = h.data[c[m][i]]
    /\ \A i \in 1..(Len(c[l]) - 1) :
           g.data[c[l][IF i < k THEN i ELSE i + 1]] = h.data[c[l][IF i < p THEN i ELSE i + 1]]

\* The item at place p goes, and some node.
LEMMA LlItemOut ==
  ASSUME NEW h, NEW c, NEW l, NEW k, NEW p, NEW g, LlLosesItem(h, c, l, k, p, g)
  PROVE  /\ LlGood(g) /\ p \in 1..Len(LlContents(h, l))
         /\ LlAll(g) = [LlAll(h) EXCEPT ![l] = RemoveAt(LlContents(h, l), p)]
<1>a. /\ LlKeeps(h, c) /\ l \in LlLists /\ k \in 1..Len(c[l]) /\ p \in 1..Len(c[l])
      /\ LlKeeps(g, [c EXCEPT ![l] = RemoveAt(c[l], k)])
      /\ \A m \in LlLists \ {l} : \A i \in 1..Len(c[m]) : g.data[c[m][i]] = h.data[c[m][i]]
      /\ \A i \in 1..(Len(c[l]) - 1) :
             g.data[c[l][IF i < k THEN i ELSE i + 1]] = h.data[c[l][IF i < p THEN i ELSE i + 1]]
  BY DEF LlLosesItem
<1> DEFINE s == c[l]
           u == RemoveAt(c[l], k)
           w == LlContents(h, l)
           v == RemoveAt(w, p)
<1>0. s \in Seq(LlNodes) /\ Len(s) \in Nat /\ w \in Seq(LlData) /\ w = [i \in 1..Len(s) |-> h.data[s[i]]]
  BY <1>a, LlChainsAre
<1>b. k \in 1..Len(s) /\ p \in 1..Len(s)
  BY <1>a
<1> HIDE DEF w
<1>1. /\ s \in Seq(LlNodes) /\ Len(s) \in Nat /\ w \in Seq(LlData) /\ Len(w) = Len(s)
      /\ \A i \in 1..Len(s) : w[i] = h.data[s[i]]
  BY ONLY <1>0
<1>2. /\ u \in Seq(LlNodes) /\ Len(u) = Len(s) - 1
      /\ \A i \in 1..(Len(s) - 1) : u[i] = IF i < k THEN s[i] ELSE s[i + 1]
  <2>1. MayGoOut(LlNodes, s, k)
    BY <1>1, <1>b DEF MayGoOut
  <2>2. HasOneLess(LlNodes, s, k, RemoveAt(s, k))
    BY ONLY <2>1, GoesOut
  <2> QED
    BY ONLY <2>2 DEF HasOneLess, u
<1>3. /\ v \in Seq(LlData) /\ Len(v) = Len(s) - 1
      /\ \A i \in 1..(Len(s) - 1) : v[i] = IF i < p THEN w[i] ELSE w[i + 1]
  <2>1. w \in Seq(LlData) /\ Len(w) = Len(s)
    BY <1>1
  <2>2. MayGoOut(LlData, w, p)
    BY ONLY <2>1, <1>b DEF MayGoOut
  <2>3. HasOneLess(LlData, w, p, RemoveAt(w, p))
    BY ONLY <2>2, GoesOut
  <2> QED
    BY ONLY <2>1, <2>3 DEF HasOneLess, v
<1> HIDE DEF u, v
<1>4. \A i \in 1..Len(u) : v[i] = g.data[u[i]]
  <2>1. ASSUME NEW i \in 1..Len(u) PROVE v[i] = g.data[u[i]]
    <3>1. i \in 1..(Len(s) - 1)
      BY <1>2
    <3>2. u[i] = s[IF i < k THEN i ELSE i + 1]
      BY <3>1, <1>2
    <3>3. v[i] = h.data[s[IF i < p THEN i ELSE i + 1]]
      <4>1. (IF i < p THEN i ELSE i + 1) \in 1..Len(s) /\ v[i] = w[IF i < p THEN i ELSE i + 1]
        BY ONLY <3>1, <1>1, <1>3, <1>b
      <4> QED
        BY <4>1, <1>1
    <3>4. g.data[s[IF i < k THEN i ELSE i + 1]] = h.data[s[IF i < p THEN i ELSE i + 1]]
      BY ONLY <3>1, <1>a
    <3> QED
      BY ONLY <3>2, <3>3, <3>4
  <2> QED
    BY <2>1
<1>5. LlGood(g) /\ LlAll(g) = [LlAll(h) EXCEPT ![l] = v]
  <2>1. LlKeeps(g, [c EXCEPT ![l] = u])
    BY <1>a DEF u
  <2>2. LlHasItems(h, c, l, g, u, v)
    BY <2>1, <1>2, <1>3, <1>4, <1>a DEF LlHasItems
  <2> QED
    BY <2>2, <1>a, LlItemsAre
<1> QED
  BY <1>1, <1>5, <1>a DEF v, w

----------------------------------------------------------------------------
(* The calls that add an item. *)

\* The least of a set of numbers is in it.
LEMMA LeastIsIn ==
  ASSUME NEW S \in SUBSET Nat, S # {}
  PROVE  Min(S) \in S
<1>1. \E x \in S : \A y \in S : x <= y
  BY LeastElement
<1> QED
  BY <1>1 DEF Min

\* What a search finds stands at one of the places.
LEMMA LlFoundIs ==
  ASSUME NEW s, NEW P \in SUBSET Nat
  PROVE  IF P = {} THEN FirstOf(s, P) = NoLink ELSE \E k \in P : FirstOf(s, P) = s[k]
  BY LeastIsIn DEF FirstOf

\* An allocated node is in no list.
LEMMA LlNewNode ==
  ASSUME NEW h, NEW c, LlKeeps(h, c), FreeNodes(h) # {}, NEW d \in LlData
  PROVE  LET g == singly_ll_init_node(h, d)
             n == NewNode(h)
         IN  /\ LlKeeps(g, c) /\ n \in FreeNodes(h) /\ ~LlListed(c, n)
             /\ g.live = h.live \cup {n} /\ g.data[n] = d /\ g.next = h.next
             /\ g.head = h.head /\ g.count = h.count
             /\ \A m \in h.live : g.data[m] = h.data[m]
<1> DEFINE n == NewNode(h)
           g == singly_ll_init_node(h, d)
<1>1. n \in FreeNodes(h) /\ n \in LlNodes /\ n \notin h.live
  <2>1. FreeNodes(h) \in SUBSET Nat
    BY DEF FreeNodes, LlNodes
  <2> QED
    BY <2>1, LeastIsIn DEF NewNode, FreeNodes
<1>2. /\ g.live = h.live \cup {n} /\ g.data = [h.data EXCEPT ![n] = d] /\ g.next = [h.next EXCEPT ![n] = NoLink]
      /\ g.head = h.head /\ g.count = h.count
      /\ g = [next |-> g.next, data |-> g.data, live |-> g.live, head |-> g.head, count |-> g.count]
  <2>1. g = [h EXCEPT !.live = @ \cup {n}, !.data[n] = d, !.next[n] = NoLink] /\ h \in LlHeaps
    BY DEF singly_ll_init_node, LlKeeps
  <2> HIDE DEF g, n
  <2>2. /\ g.live = h.live \cup {n} /\ g.data = [h.data EXCEPT ![n] = d] /\ g.next = [h.next EXCEPT ![n] = NoLink]
        /\ g.head = h.head /\ g.count = h.count
    BY ONLY <2>1 DEF LlHeaps
  <2>3. g = [next |-> g.next, data |-> g.data, live |-> g.live, head |-> g.head, count |-> g.count]
    BY ONLY <2>1 DEF LlHeaps
  <2> QED
    BY <2>2, <2>3
<1> HIDE DEF g, n
<1>3. ~LlListed(c, n)
  BY <1>1 DEF LlListed, LlKeeps
<1>4. h.next[n] = NoLink
  BY <1>1, <1>3 DEF LlKeeps
<1>5. g.next = h.next
  BY <1>2, <1>4, LlHeapOf
<1>6. g.data[n] = d /\ \A m \in h.live : g.data[m] = h.data[m]
  BY <1>1, <1>2, LlHeapOf
<1>7. g \in LlHeaps
  <2>1. g.next \in [LlNodes -> LlNodes \cup {NoLink}] /\ g.data \in [LlNodes -> Nat] /\ g.live \in SUBSET LlNodes
        /\ g.head \in [LlLists -> LlNodes \cup {NoLink}] /\ g.count \in [LlLists -> Nat]
    BY <1>1, <1>2, <1>5, LlHeapOf, LlBounds
  <2> QED
    BY ONLY <2>1, <1>2 DEF LlHeaps
<1>8. LlKeeps(g, c)
  BY <1>2, <1>5, <1>6, <1>7 DEF LlKeeps
<1> QED
  BY <1>1, <1>2, <1>3, <1>5, <1>6, <1>8 DEF g, n

\* A node that is in no list comes in at its head.
LEMMA LlAddNode ==
  ASSUME NEW h, NEW c, LlKeeps(h, c), NEW l \in LlLists, NEW n \in h.live, ~LlListed(c, n)
  PROVE  LET g == singly_ll_add_node(h, l, n)
         IN  /\ LlKeeps(g, [c EXCEPT ![l] = InsertAt(c[l], 1, n)])
             /\ g.live = h.live /\ g.data = h.data
             /\ 1 \in 1..(Len(LlContents(h, l)) + 1) /\ h.data[n] \in LlData
             /\ LlAll(g) = [LlAll(h) EXCEPT ![l] = InsertAt(LlContents(h, l), 1, h.data[n])]
<1> DEFINE g == singly_ll_add_node(h, l, n)
<1>1. /\ n \in LlNodes /\ h.next[n] = NoLink /\ h.head[l] = LlAt(c[l], 1) /\ h.data[n] \in LlData
      /\ Len(c[l]) \in Nat
  BY DEF LlKeeps, LlHeaps, LlRun
<1>2. /\ g.live = h.live /\ g.data = h.data
      /\ g.next = [h.next EXCEPT ![n] = IF h.head[l] = NoLink THEN @ ELSE h.head[l]]
      /\ g.head = [h.head EXCEPT ![l] = n] /\ g.count = [h.count EXCEPT ![l] = @ + 1]
      /\ g = [next |-> g.next, data |-> g.data, live |-> g.live, head |-> g.head, count |-> g.count]
  <2>1. /\ g = [h EXCEPT !.next[n] = IF h.head[l] = NoLink THEN @ ELSE h.head[l],
                          !.head[l] = n, !.count[l] = @ + 1]
        /\ h \in LlHeaps
    BY DEF singly_ll_add_node, LlKeeps
  <2> HIDE DEF g
  <2>2. /\ g.live = h.live /\ g.data = h.data
        /\ g.next = [h.next EXCEPT ![n] = IF h.head[l] = NoLink THEN @ ELSE h.head[l]]
        /\ g.head = [h.head EXCEPT ![l] = n] /\ g.count = [h.count EXCEPT ![l] = @ + 1]
    BY ONLY <2>1 DEF LlHeaps
  <2>3. g = [next |-> g.next, data |-> g.data, live |-> g.live, head |-> g.head, count |-> g.count]
    BY ONLY <2>1 DEF LlHeaps
  <2> QED
    BY <2>2, <2>3
<1> HIDE DEF g
<1>3. g \in LlHeaps
  <2>1. g.next \in [LlNodes -> LlNodes \cup {NoLink}] /\ g.data \in [LlNodes -> Nat] /\ g.live \in SUBSET LlNodes
        /\ g.head \in [LlLists -> LlNodes \cup {NoLink}] /\ g.count \in [LlLists -> Nat]
    BY <1>1, <1>2, LlHeapOf
  <2> QED
    BY ONLY <2>1, <1>2 DEF LlHeaps
<1>4. \A m \in LlNodes : g.next[m] = IF m = n THEN LlAt(c[l], 1) ELSE h.next[m]
  BY <1>1, <1>2, LlHeapOf
<1>5. \A m \in g.live : g.data[m] \in LlData
  BY <1>2 DEF LlKeeps
<1>6. LlKeeps(g, [c EXCEPT ![l] = InsertAt(c[l], 1, n)])
  <2>1. 1 \in 1..(Len(c[l]) + 1)
    BY <1>1
  <2>2. LlComesIn(h, c, l, 1, n, g)
    BY <2>1, <1>2, <1>3, <1>4, <1>5 DEF LlComesIn
  <2> QED
    BY <2>2, LlOneMore
<1>7. /\ 1 \in 1..(Len(LlContents(h, l)) + 1)
      /\ LlAll(g) = [LlAll(h) EXCEPT ![l] = InsertAt(LlContents(h, l), 1, h.data[n])]
  <2>1. 1 \in 1..(Len(c[l]) + 1) /\ g.data = h.data
    BY <1>1, <1>2
  <2>2. \A m \in LlLists : \A i \in 1..Len(c[m]) : g.data[c[m][i]] = h.data[c[m][i]]
    BY <2>1
  <2>3. g.data[n] \in LlData
    BY <2>1, <1>5, <1>2
  <2>4. LlGetsItem(h, c, l, 1, n, g)
    BY <1>1, <1>6, <2>1, <2>2, <2>3 DEF LlGetsItem
  <2>5. /\ 1 \in 1..(Len(LlContents(h, l)) + 1)
        /\ LlAll(g) = [LlAll(h) EXCEPT ![l] = InsertAt(LlContents(h, l), 1, g.data[n])]
    BY ONLY <2>4, LlItemIn
  <2> QED
    BY ONLY <2>1, <2>5
<1> QED
  BY <1>1, <1>2, <1>6, <1>7 DEF g

\* What one call may make of the items of list l.
LlMove(h, g, l) ==
    LET had == LlContents(h, l)
        Becomes(s) == LlAll(g) = [LlAll(h) EXCEPT ![l] = s]
    IN  \/ LlAll(g) = LlAll(h)
        \/ \E d \in LlData, k \in 1..(Len(had) + 1) : Becomes(InsertAt(had, k, d))
        \/ \E k \in 1..Len(had) : Becomes(RemoveAt(had, k))
        \/ Becomes(Reverse(had))
        \/ Becomes(<<>>)
        \/ \E m \in LlLists \ {l} : Becomes(Lists!Collected(LlContents(h, m)))
        \/ \E m, o \in LlLists \ {l} : Becomes(Lists!Collected(LlContents(h, m) \o LlContents(h, o)))

\* A call that finds nothing to do.
LEMMA LlNothingToDo ==
  ASSUME NEW h, NEW c, LlKeeps(h, c), NEW l
  PROVE  LlGood(h) /\ LlMove(h, h, l)
  BY DEF LlGood, LlMove

\* An item is added unless it is there already, and a node is used up.
LEMMA LlAddByVal ==
  ASSUME NEW h, NEW c, LlKeeps(h, c), NEW l \in LlLists, FreeNodes(h) # {}, NEW d \in LlData
  PROVE  LET g   == singly_ll_add_node_by_val(h, l, d)
             had == LlContents(h, l)
         IN  /\ LlGood(g) /\ FreeNodes(g) \in {FreeNodes(h), FreeNodes(h) \ {NewNode(h)}} /\ NewNode(h) \in FreeNodes(h)
             /\ LlAll(g) = IF \E i \in 1..Len(had) : had[i] = d THEN LlAll(h)
                           ELSE [LlAll(h) EXCEPT ![l] = InsertAt(had, 1, d)]
             /\ LlMove(h, g, l)
<1> DEFINE g == singly_ll_add_node_by_val(h, l, d)
           had == LlContents(h, l)
           n == NewNode(h)
           g0 == singly_ll_init_node(h, d)
           P == {k \in DOMAIN LlChain(h, l) : k <= h.count[l] /\ LlContents(h, l)[k] = d}
<1>1. /\ LlChain(h, l) = c[l] /\ Len(c[l]) \in Nat /\ DOMAIN c[l] = 1..Len(c[l]) /\ h.count[l] = Len(c[l])
      /\ had \in Seq(LlData) /\ Len(had) = Len(c[l])
  <2>1. /\ LlChain(h, l) = c[l] /\ Len(c[l]) \in Nat /\ DOMAIN c[l] = 1..Len(c[l]) /\ h.count[l] = Len(c[l])
        /\ had \in Seq(LlData) /\ had = [i \in 1..Len(c[l]) |-> h.data[c[l][i]]]
    BY LlChainsAre
  <2> HIDE DEF had
  <2>2. Len(had) = Len(c[l])
    BY ONLY <2>1
  <2> QED
    BY <2>1, <2>2
<1>2. P = {k \in 1..Len(had) : had[k] = d}
  BY <1>1
<1>3. /\ n \in FreeNodes(h)
      /\ LlKeeps(g0, c) /\ ~LlListed(c, n) /\ g0.live = h.live \cup {n} /\ g0.data[n] = d
      /\ \A m \in h.live : g0.data[m] = h.data[m]
  BY LlNewNode
<1>4. singly_ll_get_node_by_data_ptr(h, l, d) # NoLink <=> \E i \in 1..Len(had) : had[i] = d
  <2>1. P \in SUBSET Nat
    BY <1>1, <1>2
  <2>2. singly_ll_get_node_by_data_ptr(h, l, d) = FirstOf(LlChain(h, l), P)
    BY DEF singly_ll_get_node_by_data_ptr
  <2> HIDE DEF P
  <2>3. IF P = {} THEN FirstOf(LlChain(h, l), P) = NoLink ELSE \E k \in P : FirstOf(LlChain(h, l), P) = LlChain(h, l)[k]
    BY <2>1, LlFoundIs
  <2>4. \A k \in P : LlChain(h, l)[k] \in LlNodes
    BY <1>1, <1>2, LlChainsAre
  <2>5. NoLink \notin LlNodes
    BY DEF NoLink, LlNodes
  <2> QED
    BY <2>2, <2>3, <2>4, <2>5, <1>2
<1>5. CASE \E i \in 1..Len(had) : had[i] = d
  <2>1. g = h
    BY <1>4, <1>5 DEF singly_ll_add_node_by_val
  <2> QED
    BY <2>1, <1>3, <1>5, LlNothingToDo
<1>6. CASE ~\E i \in 1..Len(had) : had[i] = d
  <2>1. g = singly_ll_add_node(g0, l, n)
    BY <1>4, <1>6 DEF singly_ll_add_node_by_val
  <2> HIDE DEF g, g0, n
  <2>2. /\ LlKeeps(g, [c EXCEPT ![l] = InsertAt(c[l], 1, n)]) /\ g.live = g0.live /\ g.data = g0.data
        /\ 1 \in 1..(Len(LlContents(g0, l)) + 1)
        /\ LlAll(g) = [LlAll(g0) EXCEPT ![l] = InsertAt(LlContents(g0, l), 1, g0.data[n])]
    <3>1. n \in g0.live
      BY <1>3
    <3> QED
      BY <2>1, <3>1, <1>3, LlAddNode
  <2>3. LlAll(g0) = LlAll(h) /\ LlContents(g0, l) = had
    <3>1. ASSUME NEW m \in LlLists PROVE LlContents(g0, m) = LlContents(h, m)
      <4>1. /\ LlContents(g0, m) = [i \in 1..Len(c[m]) |-> g0.data[c[m][i]]]
            /\ LlContents(h, m) = [i \in 1..Len(c[m]) |-> h.data[c[m][i]]]
        BY <1>3, LlChainsAre
      <4>2. \A i \in 1..Len(c[m]) : g0.data[c[m][i]] = h.data[c[m][i]]
        BY <1>3 DEF LlKeeps
      <4>3. [i \in 1..Len(c[m]) |-> g0.data[c[m][i]]] = [i \in 1..Len(c[m]) |-> h.data[c[m][i]]]
        BY ONLY <4>2
      <4> QED
        BY <4>1, <4>3
    <3> QED
      BY <3>1 DEF LlAll
  <2>4. LlAll(g) = [LlAll(h) EXCEPT ![l] = InsertAt(had, 1, d)] /\ 1 \in 1..(Len(had) + 1)
    BY <2>2, <2>3, <1>3
  <2>5. FreeNodes(g) = FreeNodes(h) \ {n}
    BY <2>2, <1>3 DEF FreeNodes
  <2>6. LlGood(g)
    BY <2>2 DEF LlGood
  <2>7. LlMove(h, g, l)
    BY <2>4 DEF LlMove
  <2> QED
    BY <2>4, <2>5, <2>6, <2>7, <1>3, <1>6 DEF g, n
<1> QED
  BY <1>5, <1>6

\* A new node comes in behind the one at place k.
LEMMA LlAddAfter ==
  ASSUME NEW h, NEW c, LlKeeps(h, c), NEW l \in LlLists, FreeNodes(h) # {}, NEW d \in LlData, NEW k \in 1..Len(c[l])
  PROVE  LlGood(AddAfter(h, l, c[l][k], d)) /\ LlMove(h, AddAfter(h, l, c[l][k], d), l)
<1> DEFINE n == NewNode(h)
           b == singly_ll_init_node(h, d)
           m == c[l][k]
           g == AddAfter(h, l, m, d)
<1>1. /\ n \in FreeNodes(h) /\ n \in LlNodes
      /\ LlKeeps(b, c) /\ ~LlListed(c, n) /\ b.live = h.live \cup {n} /\ b.data[n] = d /\ b.next = h.next
      /\ b.head = h.head /\ b.count = h.count
      /\ \A x \in h.live : b.data[x] = h.data[x]
  BY LlNewNode DEF FreeNodes
<1>2. /\ m \in LlNodes /\ m # n /\ h.next[m] = LlAt(c[l], k + 1) /\ c[l] \in Seq(LlNodes) /\ Len(c[l]) \in Nat
  BY <1>1 DEF LlKeeps, LlRun, LlListed
<1>3. /\ g.next = [b.next EXCEPT ![n] = h.next[m], ![m] = n] /\ g.count = [b.count EXCEPT ![l] = @ + 1]
      /\ g.live = b.live /\ g.data = b.data /\ g.head = b.head
      /\ g = [next |-> g.next, data |-> g.data, live |-> g.live, head |-> g.head, count |-> g.count]
  <2>1. /\ g = [b EXCEPT !.next = [@ EXCEPT ![n] = h.next[m], ![m] = n], !.count[l] = @ + 1]
        /\ b \in LlHeaps
    BY <1>1 DEF AddAfter, LlKeeps
  <2> HIDE DEF g, b, n, m
  <2>2. /\ g.next = [b.next EXCEPT ![n] = h.next[m], ![m] = n] /\ g.count = [b.count EXCEPT ![l] = @ + 1]
        /\ g.live = b.live /\ g.data = b.data /\ g.head = b.head
    BY ONLY <2>1 DEF LlHeaps
  <2>3. g = [next |-> g.next, data |-> g.data, live |-> g.live, head |-> g.head, count |-> g.count]
    BY ONLY <2>1 DEF LlHeaps
  <2> QED
    BY <2>2, <2>3
<1> HIDE DEF g, b, n
<1>4. LlComesIn(b, c, l, k + 1, n, g)
  <2>1. /\ b.next \in [LlNodes -> LlNodes \cup {NoLink}] /\ b.data \in [LlNodes -> Nat]
        /\ b.live \in SUBSET LlNodes /\ b.head \in [LlLists -> LlNodes \cup {NoLink}]
        /\ b.count \in [LlLists -> Nat] /\ \A x \in b.live : b.data[x] \in LlData
    BY <1>1, LlHeapOf DEF LlKeeps
  <2>2. LlAt(c[l], k + 1) \in LlNodes \cup {NoLink}
    BY <1>2 DEF LlAt
  <2>3. g \in LlHeaps
    <3>1. g.next \in [LlNodes -> LlNodes \cup {NoLink}] /\ g.data \in [LlNodes -> Nat] /\ g.live \in SUBSET LlNodes
          /\ g.head \in [LlLists -> LlNodes \cup {NoLink}] /\ g.count \in [LlLists -> Nat]
      <4>1. [b.next EXCEPT ![n] = h.next[m], ![m] = n] \in [LlNodes -> LlNodes \cup {NoLink}]
        <5>1. h.next[m] \in LlNodes \cup {NoLink}
          BY <2>2, <1>2
        <5> HIDE DEF m
        <5> QED
          BY ONLY <5>1, <2>1, <1>1
      <4>2. [b.count EXCEPT ![l] = @ + 1] \in [LlLists -> Nat]
        BY <2>1
      <4> QED
        BY <4>1, <4>2, <2>1, <1>3
    <3> QED
      BY ONLY <3>1, <1>3 DEF LlHeaps
  <2>4. k + 1 \in 1..(Len(c[l]) + 1) /\ k + 1 # 1 /\ (k + 1) - 1 = k /\ n \in b.live
    BY <1>1, <1>2
  <2>5. \A x \in LlNodes : g.next[x] = IF x = n THEN LlAt(c[l], k + 1)
                                       ELSE IF k + 1 # 1 /\ x = c[l][(k + 1) - 1] THEN n ELSE b.next[x]
    BY <2>1, <2>4, <1>2, <1>3
  <2> QED
    BY <2>1, <2>3, <2>4, <2>5, <1>1, <1>3 DEF LlComesIn
<1>5. LlKeeps(g, [c EXCEPT ![l] = InsertAt(c[l], k + 1, n)])
  BY <1>4, LlOneMore
<1>6. /\ LlGood(g) /\ k + 1 \in 1..(Len(LlContents(h, l)) + 1)
      /\ LlAll(g) = [LlAll(h) EXCEPT ![l] = InsertAt(LlContents(h, l), k + 1, g.data[n])]
  <2>1. k + 1 \in 1..(Len(c[l]) + 1) /\ g.data[n] \in LlData
    BY <1>1, <1>2, <1>3
  <2>2. \A x \in LlLists : \A i \in 1..Len(c[x]) : g.data[c[x][i]] = h.data[c[x][i]]
    BY <1>1, <1>3 DEF LlKeeps
  <2> QED
    <3>1. LlGetsItem(h, c, l, k + 1, n, g)
      BY <2>1, <2>2, <1>1, <1>5 DEF LlGetsItem
    <3> QED
      BY ONLY <3>1, LlItemIn
<1>7. LlMove(h, g, l)
  <2>1. g.data[n] \in LlData
    BY <1>1, <1>3
  <2> QED
    BY <2>1, <1>6 DEF LlMove
<1> QED
  BY <1>6, <1>7 DEF g

\* An item that goes to its place by its value.
LEMMA LlAddOrdered ==
  ASSUME NEW h, NEW c, LlKeeps(h, c), NEW l \in LlLists, FreeNodes(h) # {}, NEW d \in LlData
  PROVE  LlGood(singly_ll_add_ordered_data(h, l, d)) /\ LlMove(h, singly_ll_add_ordered_data(h, l, d), l)
<1> DEFINE g == singly_ll_add_ordered_data(h, l, d)
           ends == {k \in DOMAIN c[l] : k < Len(c[l]) => h.data[c[l][k + 1]] > d}
<1>1. LlChain(h, l) = c[l] /\ Len(c[l]) \in Nat /\ DOMAIN c[l] = 1..Len(c[l]) /\ h.count[l] = Len(c[l])
  BY LlChainsAre
<1>2. h.head[l] = LlAt(c[l], 1)
  BY DEF LlKeeps, LlRun
<1>3. CASE is_singly_ll_empty(h, l) \/ (h.count[l] = 1 /\ h.data[h.head[l]] < d)
  <2>1. g = singly_ll_add_node_by_val(h, l, d)
    BY <1>3 DEF singly_ll_add_ordered_data
  <2> QED
    BY <2>1, LlAddByVal
<1>4. CASE ~(is_singly_ll_empty(h, l) \/ (h.count[l] = 1 /\ h.data[h.head[l]] < d)) /\ h.count[l] = 1
  <2>1. g = AddAfter(h, l, h.head[l], d)
    BY <1>4 DEF singly_ll_add_ordered_data
  <2>2. 1 \in 1..Len(c[l]) /\ h.head[l] = c[l][1]
    BY <1>1, <1>2, <1>4 DEF LlAt
  <2> QED
    BY <2>1, <2>2, LlAddAfter
<1>5. CASE ~is_singly_ll_empty(h, l) /\ h.count[l] # 1 /\ d < h.data[h.head[l]]
  <2> DEFINE b == singly_ll_init_node(h, d)
             n == NewNode(h)
  <2>1. g = singly_ll_add_node(b, l, n)
    BY <1>5 DEF singly_ll_add_ordered_data
  <2>2. /\ n \in FreeNodes(h) /\ LlKeeps(b, c) /\ ~LlListed(c, n) /\ n \in b.live /\ b.data[n] = d
        /\ \A x \in h.live : b.data[x] = h.data[x]
    BY LlNewNode
  <2> HIDE DEF g, b, n
  <2>3. LlKeeps(g, [c EXCEPT ![l] = InsertAt(c[l], 1, n)]) /\ g.data = b.data
    BY <2>1, <2>2, LlAddNode
  <2>4. /\ LlGood(g) /\ 1 \in 1..(Len(LlContents(h, l)) + 1)
        /\ LlAll(g) = [LlAll(h) EXCEPT ![l] = InsertAt(LlContents(h, l), 1, g.data[n])]
    <3>1. 1 \in 1..(Len(c[l]) + 1) /\ g.data[n] \in LlData /\ n \in LlNodes
      BY <2>2, <2>3, <1>1 DEF FreeNodes
    <3>2. \A x \in LlLists : \A i \in 1..Len(c[x]) : g.data[c[x][i]] = h.data[c[x][i]]
      BY <2>2, <2>3 DEF LlKeeps
    <3> DEFINE k == 1
    <3>3. k \in 1..(Len(c[l]) + 1) /\ LlKeeps(g, [c EXCEPT ![l] = InsertAt(c[l], k, n)])
      BY <3>1, <2>3
    <3> HIDE DEF k
    <3>4. /\ LlGood(g) /\ k \in 1..(Len(LlContents(h, l)) + 1)
          /\ LlAll(g) = [LlAll(h) EXCEPT ![l] = InsertAt(LlContents(h, l), k, g.data[n])]
      <4>1. LlGetsItem(h, c, l, k, n, g)
        BY <3>1, <3>2, <3>3 DEF LlGetsItem
      <4> QED
        BY ONLY <4>1, LlItemIn
    <3> QED
      BY <3>4 DEF k
  <2>5. LlMove(h, g, l)
    <3>1. g.data[n] \in LlData
      BY <2>2, <2>3
    <3> QED
      BY <3>1, <2>4 DEF LlMove
  <2> QED
    BY <2>4, <2>5 DEF g
<1>6. CASE ~is_singly_ll_empty(h, l) /\ h.count[l] # 1 /\ ~(d < h.data[h.head[l]])
  <2>1. g = AddAfter(h, l, FirstOf(c[l], ends), d)
    BY <1>1, <1>6 DEF singly_ll_add_ordered_data
  <2>2. Len(c[l]) \in ends
    BY <1>1, <1>6 DEF is_singly_ll_empty
  <2>3. ends \in SUBSET Nat /\ ends # {} /\ ends \subseteq 1..Len(c[l])
    BY <2>2, <1>1
  <2> HIDE DEF ends
  <2>4. PICK k \in ends : FirstOf(c[l], ends) = c[l][k]
    BY <2>3, LlFoundIs
  <2>5. k \in 1..Len(c[l])
    BY <2>3
  <2> QED
    BY <2>1, <2>4, <2>5, LlAddAfter
<1> QED
  BY <1>3, <1>4, <1>5, <1>6

\* A node linked in at the head.
LEMMA LlAddLoose ==
  ASSUME NEW h, NEW c, LlKeeps(h, c), NEW l \in LlLists, NEW n \in Loose(h)
  PROVE  LlGood(singly_ll_add_node(h, l, n)) /\ LlMove(h, singly_ll_add_node(h, l, n), l)
<1> DEFINE g == singly_ll_add_node(h, l, n)
<1>1. n \in h.live /\ ~LlListed(c, n)
  <2>1. \A m \in LlLists : LlChain(h, m) = c[m] /\ DOMAIN c[m] = 1..Len(c[m])
    BY LlChainsAre
  <2> QED
    BY <2>1 DEF Loose, LlListed, Range
<1>2. /\ LlKeeps(g, [c EXCEPT ![l] = InsertAt(c[l], 1, n)])
      /\ 1 \in 1..(Len(LlContents(h, l)) + 1) /\ h.data[n] \in LlData
      /\ LlAll(g) = [LlAll(h) EXCEPT ![l] = InsertAt(LlContents(h, l), 1, h.data[n])]
  BY <1>1, LlAddNode
<1> HIDE DEF g
<1> QED
  BY <1>2 DEF LlGood, LlMove, g

----------------------------------------------------------------------------
(* The calls that take a node out. *)

\* What freeing nodes leaves.
LEMMA LlFreeIs ==
  ASSUME NEW h \in LlHeaps, NEW S
  PROVE  LET g == LlFree(h, S)
         IN  /\ g \in LlHeaps /\ g.live = h.live \ S /\ g.head = h.head /\ g.count = h.count
             /\ \A n \in LlNodes : /\ g.next[n] = IF n \in S THEN NoLink ELSE h.next[n]
                                   /\ g.data[n] = IF n \in S THEN NoLink ELSE h.data[n]
<1> DEFINE g == LlFree(h, S)
           nx == [n \in LlNodes |-> IF n \in S THEN NoLink ELSE h.next[n]]
           dt == [n \in LlNodes |-> IF n \in S THEN NoLink ELSE h.data[n]]
<1>1. g = [h EXCEPT !.live = @ \ S, !.next = nx, !.data = dt]
  BY DEF LlFree
<1>2. /\ h.next \in [LlNodes -> LlNodes \cup {NoLink}] /\ h.data \in [LlNodes -> Nat] /\ h.live \in SUBSET LlNodes
      /\ h.head \in [LlLists -> LlNodes \cup {NoLink}] /\ h.count \in [LlLists -> Nat]
  BY DEF LlHeaps
<1>3. nx \in [LlNodes -> LlNodes \cup {NoLink}] /\ dt \in [LlNodes -> Nat]
  BY <1>2 DEF NoLink
<1>4. \A n \in LlNodes : /\ nx[n] = IF n \in S THEN NoLink ELSE h.next[n]
                         /\ dt[n] = IF n \in S THEN NoLink ELSE h.data[n]
  OBVIOUS
<1> HIDE DEF g, nx, dt
<1>5. g.next = nx /\ g.data = dt /\ g.live = h.live \ S /\ g.head = h.head /\ g.count = h.count
  BY ONLY <1>1, h \in LlHeaps DEF LlHeaps
<1>6. g = [next |-> g.next, data |-> g.data, live |-> g.live, head |-> g.head, count |-> g.count]
  BY ONLY <1>1, h \in LlHeaps DEF LlHeaps
<1>7. g \in LlHeaps
  <2>1. g.next \in [LlNodes -> LlNodes \cup {NoLink}] /\ g.data \in [LlNodes -> Nat] /\ g.live \in SUBSET LlNodes
        /\ g.head \in [LlLists -> LlNodes \cup {NoLink}] /\ g.count \in [LlLists -> Nat]
    BY <1>2, <1>3, <1>5
  <2> QED
    BY ONLY <2>1, <1>6 DEF LlHeaps
<1> QED
  BY <1>4, <1>5, <1>7 DEF g

\* The heap b is h with the node at place k of list l bypassed.
LlBypassed(h, c, l, k, b) ==
    /\ LlKeeps(h, c) /\ l \in LlLists /\ k \in 1..Len(c[l]) /\ b \in LlHeaps
    /\ b.live = h.live /\ b.data = h.data /\ b.count = [h.count EXCEPT ![l] = @ - 1]
    /\ b.head = IF k = 1 THEN [h.head EXCEPT ![l] = LlAt(c[l], 2)] ELSE h.head
    /\ \A m \in LlNodes \ {c[l][k]} :
           b.next[m] = IF k # 1 /\ m = c[l][k - 1] THEN LlAt(c[l], k + 1) ELSE h.next[m]

\* The node that is bypassed is freed, or its link is cleared.
LEMMA LlBypassedGoes ==
  ASSUME NEW h, NEW c, NEW l, NEW k, NEW b, LlBypassed(h, c, l, k, b), NEW g,
         g = LlFree(b, {c[l][k]}) \/ (g = b /\ b.next[c[l][k]] = NoLink)
  PROVE  /\ LlKeeps(g, [c EXCEPT ![l] = RemoveAt(c[l], k)]) /\ LlGood(g) /\ LlMove(h, g, l)
<1>0. /\ LlKeeps(h, c) /\ l \in LlLists /\ k \in 1..Len(c[l]) /\ b \in LlHeaps
      /\ b.live = h.live /\ b.data = h.data /\ b.count = [h.count EXCEPT ![l] = @ - 1]
      /\ b.head = IF k = 1 THEN [h.head EXCEPT ![l] = LlAt(c[l], 2)] ELSE h.head
      /\ \A m \in LlNodes \ {c[l][k]} :
             b.next[m] = IF k # 1 /\ m = c[l][k - 1] THEN LlAt(c[l], k + 1) ELSE h.next[m]
  BY DEF LlBypassed
<1> DEFINE n == c[l][k]
<1>1. /\ n \in LlNodes /\ Len(c[l]) \in Nat /\ h.live \in SUBSET LlNodes
      /\ \A m \in h.live : h.data[m] \in LlData
  BY <1>0 DEF LlKeeps, LlHeaps
<1>2. /\ g \in LlHeaps /\ g.live \in {h.live, h.live \ {n}} /\ g.head = b.head /\ g.count = b.count
      /\ \A m \in LlNodes : m # n => g.next[m] = b.next[m] /\ g.data[m] = h.data[m]
      /\ g.next[n] = NoLink /\ (n \in g.live => g.data[n] = h.data[n])
  <2>1. CASE g = LlFree(b, {n})
    <3>1. /\ g \in LlHeaps /\ g.live = b.live \ {n} /\ g.head = b.head /\ g.count = b.count
          /\ \A m \in LlNodes : /\ g.next[m] = IF m \in {n} THEN NoLink ELSE b.next[m]
                                /\ g.data[m] = IF m \in {n} THEN NoLink ELSE b.data[m]
      BY <2>1, <1>0, LlFreeIs
    <3> QED
      BY <3>1, <1>0, <1>1
  <2>2. CASE g = b /\ b.next[n] = NoLink
    BY <2>2, <1>0
  <2> QED
    BY <2>1, <2>2
<1>3. LlGoesOut(h, c, l, k, g)
  <2>1. \A m \in LlNodes : g.next[m] = IF m = c[l][k] THEN NoLink
                                       ELSE IF k # 1 /\ m = c[l][k - 1] THEN LlAt(c[l], k + 1) ELSE h.next[m]
    BY <1>0, <1>2
  <2>2. \A m \in g.live : g.data[m] \in LlData
    BY <1>1, <1>2
  <2> QED
    BY <2>1, <2>2, <1>0, <1>2 DEF LlGoesOut
<1>4. LlKeeps(g, [c EXCEPT ![l] = RemoveAt(c[l], k)])
  BY <1>3, LlOneLess
<1>5. /\ LlGood(g) /\ k \in 1..Len(LlContents(h, l))
      /\ LlAll(g) = [LlAll(h) EXCEPT ![l] = RemoveAt(LlContents(h, l), k)]
  <2>1. \A m \in LlLists : \A i \in 1..Len(c[m]) : c[m][i] \in LlNodes /\ (c[m][i] = n => m = l /\ i = k)
    BY <1>0 DEF LlKeeps, LlApart
  <2>2. \A m \in LlLists \ {l} : \A i \in 1..Len(c[m]) : g.data[c[m][i]] = h.data[c[m][i]]
    BY <2>1, <1>2
  <2>3. \A i \in 1..(Len(c[l]) - 1) :
             g.data[c[l][IF i < k THEN i ELSE i + 1]] = h.data[c[l][IF i < k THEN i ELSE i + 1]]
    <3>1. \A i \in 1..(Len(c[l]) - 1) : (IF i < k THEN i ELSE i + 1) \in 1..Len(c[l]) /\ (IF i < k THEN i ELSE i + 1) # k
      BY <1>0, <1>1
    <3> QED
      BY <3>1, <2>1, <1>0, <1>2
  <2> QED
    <3>1. LlLosesItem(h, c, l, k, k, g)
      BY <2>2, <2>3, <1>0, <1>4 DEF LlLosesItem
    <3> QED
      BY <3>1, LlItemOut
<1>6. LlMove(h, g, l)
  BY <1>5 DEF LlMove
<1> QED
  BY <1>4, <1>5, <1>6

\* The node before another one is the one before it in the list.
LEMMA LlPreviousIs ==
  ASSUME NEW h, NEW c, LlKeeps(h, c), NEW l \in LlLists, NEW k \in 2..Len(c[l])
  PROVE  Previous(h, l, c[l][k]) = c[l][k - 1]
<1>1. LlChain(h, l) = c[l] /\ c[l] \in Seq(LlNodes) /\ Len(c[l]) \in Nat /\ DOMAIN c[l] = 1..Len(c[l])
  BY LlChainsAre
<1>2. \A i \in 1..Len(c[l]) : h.next[c[l][i]] = LlAt(c[l], i + 1)
  BY DEF LlKeeps, LlRun
<1>3. \A i, j \in 1..Len(c[l]) : c[l][i] = c[l][j] => i = j
  BY DEF LlKeeps, LlApart
<1>4. k - 1 \in 1..Len(c[l]) /\ h.next[c[l][k - 1]] = c[l][k]
  <2>1. k - 1 \in 1..Len(c[l]) /\ (k - 1) + 1 = k /\ k \in 1..Len(c[l])
    BY <1>1
  <2> QED
    BY <2>1, <1>2 DEF LlAt
<1>5. \A i \in 1..Len(c[l]) : h.next[c[l][i]] = c[l][k] => i = k - 1
  <2>1. ASSUME NEW i \in 1..Len(c[l]), h.next[c[l][i]] = c[l][k] PROVE i = k - 1
    <3>1. LlAt(c[l], i + 1) = c[l][k] /\ k \in 1..Len(c[l])
      BY <2>1, <1>1, <1>2
    <3>2. c[l][k] # NoLink
      <4>1. c[l][k] \in LlNodes
        BY <3>1, <1>1
      <4> QED
        BY <4>1 DEF LlNodes, NoLink
    <3>3. i + 1 \in 1..Len(c[l]) /\ c[l][i + 1] = c[l][k]
      BY <3>1, <3>2 DEF LlAt
    <3>4. i + 1 = k
      BY <3>1, <3>3, <1>3
    <3> QED
      BY <3>4
  <2> QED
    BY <2>1
<1>6. Range(c[l]) = {c[l][i] : i \in 1..Len(c[l])}
  BY <1>1 DEF Range
<1>7. c[l][k - 1] \in Range(c[l]) /\ \A m \in Range(c[l]) : h.next[m] = c[l][k] => m = c[l][k - 1]
  BY <1>4, <1>5, <1>6
<1>8. Previous(h, l, c[l][k]) = CHOOSE m \in Range(c[l]) : h.next[m] = c[l][k]
  BY <1>1 DEF Previous
<1> QED
  BY <1>4, <1>7, <1>8

\* What stands in the links of a node of a list, and what a search along them finds.
LEMMA LlPlaceIs ==
  ASSUME NEW h, NEW c, LlKeeps(h, c), NEW l \in LlLists, NEW k \in 1..Len(c[l])
  PROVE  /\ c[l][k] \in LlNodes /\ c[l][k] # NoLink /\ c[l][k] \in h.live /\ Len(c[l]) \in Nat
         /\ h.next[c[l][k]] = LlAt(c[l], k + 1)
         /\ h.head[l] # NoLink /\ (h.head[l] = c[l][k] <=> k = 1)
         /\ h.count[l] = Len(c[l])
         /\ Contains(SubSeq(LlChain(h, l), 1, h.count[l]), c[l][k])
<1>1. LlChain(h, l) = c[l] /\ c[l] \in Seq(LlNodes) /\ Len(c[l]) \in Nat /\ h.count[l] = Len(c[l])
  BY LlChainsAre
<1>2. \A i \in 1..Len(c[l]) : c[l][i] \in LlNodes /\ c[l][i] # NoLink
  <2>1. \A i \in 1..Len(c[l]) : c[l][i] \in LlNodes
    BY <1>1
  <2>2. NoLink \notin LlNodes
    BY DEF LlNodes, NoLink
  <2> QED
    BY <2>1, <2>2
<1>3. h.head[l] = c[l][1] /\ 1 \in 1..Len(c[l])
  BY <1>1 DEF LlKeeps, LlRun, LlAt
<1>4. \A i, j \in 1..Len(c[l]) : c[l][i] = c[l][j] => i = j
  BY DEF LlKeeps, LlApart
<1>5. Contains(SubSeq(LlChain(h, l), 1, h.count[l]), c[l][k])
  <2>1. SubSeq(c[l], 1, Len(c[l])) = c[l]
    BY <1>1, SubSeqFull
  <2> QED
    BY <1>1, <2>1 DEF Contains
<1>6. h.next[c[l][k]] = LlAt(c[l], k + 1) /\ c[l][k] \in h.live
  BY DEF LlKeeps, LlRun
<1> QED
  BY <1>1, <1>2, <1>3, <1>4, <1>5, <1>6

\* A node of the list leaves it.
LEMMA LlRemoveNode ==
  ASSUME NEW h, NEW c, LlKeeps(h, c), NEW l \in LlLists, NEW k \in 1..Len(c[l])
  PROVE  LET g == singly_ll_remove_node(h, l, c[l][k])
         IN  LlBypassed(h, c, l, k, g) /\ g.next[c[l][k]] = NoLink
<1> DEFINE n == c[l][k]
           g == singly_ll_remove_node(h, l, c[l][k])
           p == Previous(h, l, n)
<1>1. /\ n \in LlNodes /\ n # NoLink /\ n \in h.live /\ Len(c[l]) \in Nat
      /\ h.next[n] = LlAt(c[l], k + 1)
      /\ h.head[l] # NoLink /\ (h.head[l] = n <=> k = 1)
      /\ Contains(SubSeq(LlChain(h, l), 1, h.count[l]), n)
  BY LlPlaceIs
<1>2. h \in LlHeaps /\ h.next \in [LlNodes -> LlNodes \cup {NoLink}] /\ h.data \in [LlNodes -> Nat]
      /\ h.live \in SUBSET LlNodes /\ h.head \in [LlLists -> LlNodes \cup {NoLink}]
      /\ h.count \in [LlLists -> Nat] /\ h.count[l] = Len(c[l]) /\ Len(c[l]) # 0
  BY DEF LlHeaps, LlKeeps
<1>3. h.count[l] - 1 \in Nat
  BY <1>1, <1>2
<1>4. CASE k = 1
  <2>1. g = [h EXCEPT !.head[l] = h.next[n], !.count[l] = @ - 1, !.next[n] = NoLink]
    BY <1>1, <1>4 DEF singly_ll_remove_node
  <2> HIDE DEF g, n
  <2>2. /\ g.next = [h.next EXCEPT ![n] = NoLink] /\ g.head = [h.head EXCEPT ![l] = h.next[n]]
        /\ g.count = [h.count EXCEPT ![l] = @ - 1] /\ g.live = h.live /\ g.data = h.data
    BY ONLY <2>1, <1>2 DEF LlHeaps
  <2>3. g = [next |-> g.next, data |-> g.data, live |-> g.live, head |-> g.head, count |-> g.count]
    BY ONLY <2>1, <1>2 DEF LlHeaps
  <2>4. g \in LlHeaps
    <3>1. g.next \in [LlNodes -> LlNodes \cup {NoLink}] /\ g.data \in [LlNodes -> Nat] /\ g.live \in SUBSET LlNodes
          /\ g.head \in [LlLists -> LlNodes \cup {NoLink}] /\ g.count \in [LlLists -> Nat]
      BY ONLY <1>1, <1>2, <1>3, <2>2
    <3> QED
      BY ONLY <3>1, <2>3 DEF LlHeaps
  <2>5. g.next[n] = NoLink /\ \A m \in LlNodes \ {n} : g.next[m] = h.next[m]
    BY <1>1, <1>2, <2>2
  <2>6. h.next[n] = LlAt(c[l], 2)
    BY <1>1, <1>4
  <2> QED
    BY <2>2, <2>4, <2>5, <2>6, <1>4 DEF LlBypassed, g, n
<1>5. CASE k # 1
  <2>1. p = c[l][k - 1] /\ p \in LlNodes /\ p # n
    <3>1. k \in 2..Len(c[l]) /\ k - 1 \in 1..Len(c[l]) /\ k - 1 # k
      BY <1>1, <1>5
    <3>2. c[l][k - 1] \in LlNodes
      BY <3>1, LlPlaceIs
    <3>3. c[l][k - 1] # n
      BY <3>1 DEF LlKeeps, LlApart
    <3> QED
      BY <3>1, <3>2, <3>3, LlPreviousIs
  <2>2. g = [h EXCEPT !.next = [@ EXCEPT ![p] = h.next[n], ![n] = NoLink], !.count[l] = @ - 1]
    BY <1>1, <1>5 DEF singly_ll_remove_node
  <2> HIDE DEF g, n, p
  <2>3. /\ g.next = [h.next EXCEPT ![p] = h.next[n], ![n] = NoLink] /\ g.head = h.head
        /\ g.count = [h.count EXCEPT ![l] = @ - 1] /\ g.live = h.live /\ g.data = h.data
    BY ONLY <2>2, <1>2 DEF LlHeaps
  <2>4. g = [next |-> g.next, data |-> g.data, live |-> g.live, head |-> g.head, count |-> g.count]
    BY ONLY <2>2, <1>2 DEF LlHeaps
  <2>5. g \in LlHeaps
    <3>1. g.next \in [LlNodes -> LlNodes \cup {NoLink}] /\ g.data \in [LlNodes -> Nat] /\ g.live \in SUBSET LlNodes
          /\ g.head \in [LlLists -> LlNodes \cup {NoLink}] /\ g.count \in [LlLists -> Nat]
      BY ONLY <1>1, <1>2, <1>3, <2>3
    <3> QED
      BY ONLY <3>1, <2>4 DEF LlHeaps
  <2>6. g.next[n] = NoLink /\ \A m \in LlNodes \ {n} : g.next[m] = IF m = p THEN h.next[n] ELSE h.next[m]
    BY <1>1, <1>2, <2>1, <2>3
  <2> QED
    BY <2>1, <2>3, <2>5, <2>6, <1>1, <1>5 DEF LlBypassed, g, n
<1> QED
  BY <1>4, <1>5

\* A node is removed if it stands in the list.
LEMMA LlRemoveIfThere ==
  ASSUME NEW h, NEW c, LlKeeps(h, c), NEW l \in LlLists, NEW n
  PROVE  LlGood(singly_ll_remove_node(h, l, n)) /\ LlMove(h, singly_ll_remove_node(h, l, n), l)
<1>1. LlChain(h, l) = c[l] /\ c[l] \in Seq(LlNodes) /\ Len(c[l]) \in Nat /\ h.count[l] = Len(c[l])
      /\ DOMAIN c[l] = 1..Len(c[l])
  BY LlChainsAre
<1>2. CASE \E k \in 1..Len(c[l]) : n = c[l][k]
  <2>1. PICK k \in 1..Len(c[l]) : n = c[l][k]
    BY <1>2
  <2> DEFINE g == singly_ll_remove_node(h, l, c[l][k])
  <2>2. LlBypassed(h, c, l, k, g) /\ g.next[c[l][k]] = NoLink
    BY LlRemoveNode
  <2> HIDE DEF g
  <2>3. LlGood(g) /\ LlMove(h, g, l)
    BY <2>2, LlBypassedGoes
  <2> QED
    BY <2>1, <2>3 DEF g
<1>3. CASE ~\E k \in 1..Len(c[l]) : n = c[l][k]
  <2>1. SubSeq(c[l], 1, Len(c[l])) = c[l]
    BY <1>1, SubSeqFull
  <2>2. ~Contains(SubSeq(LlChain(h, l), 1, h.count[l]), n)
    BY <1>1, <1>3, <2>1 DEF Contains
  <2>3. singly_ll_remove_node(h, l, n) = h
    BY <2>2 DEF singly_ll_remove_node
  <2> QED
    BY <2>3, LlNothingToDo
<1> QED
  BY <1>2, <1>3

\* A node of the list is deleted, or its successor with the data in place.
LEMMA LlDeleteNode ==
  ASSUME NEW h, NEW c, LlKeeps(h, c), NEW l \in LlLists, NEW k \in 1..Len(c[l])
  PROVE  LlGood(singly_ll_delete_node(h, l, c[l][k])) /\ LlMove(h, singly_ll_delete_node(h, l, c[l][k]), l)
<1> DEFINE n == c[l][k]
           g == singly_ll_delete_node(h, l, c[l][k])
           a == h.next[n]
           p == Previous(h, l, n)
<1>1. /\ n \in LlNodes /\ n # NoLink /\ n \in h.live /\ Len(c[l]) \in Nat
      /\ a = LlAt(c[l], k + 1) /\ h.count[l] = Len(c[l])
      /\ h.head[l] # NoLink /\ (h.head[l] = n <=> k = 1)
  BY LlPlaceIs
<1>2. h \in LlHeaps /\ h.next \in [LlNodes -> LlNodes \cup {NoLink}] /\ h.data \in [LlNodes -> Nat]
      /\ h.live \in SUBSET LlNodes /\ h.head \in [LlLists -> LlNodes \cup {NoLink}]
      /\ h.count \in [LlLists -> Nat] /\ h.count[l] = Len(c[l]) /\ Len(c[l]) # 0
  BY DEF LlHeaps, LlKeeps
<1>3. h.count[l] - 1 \in Nat
  BY <1>1, <1>2
<1>4. \A i, j \in 1..Len(c[l]) : c[l][i] = c[l][j] => i = j
  BY DEF LlKeeps, LlApart
<1>5. CASE a # NoLink
  <2> DEFINE b == [h EXCEPT !.count[l] = @ - 1, !.data[n] = h.data[a], !.next[n] = h.next[a]]
  <2>1. g = LlFree(b, {a})
    BY <1>1, <1>5 DEF singly_ll_delete_node
  <2>2. k + 1 \in 1..Len(c[l]) /\ a = c[l][k + 1]
    BY <1>1, <1>5 DEF LlAt
  <2>3. a \in LlNodes /\ a \in h.live /\ h.next[a] = LlAt(c[l], (k + 1) + 1) /\ a # n
    <3>1. c[l][k + 1] # n
      BY <2>2, <1>4
    <3> QED
      BY <2>2, <3>1, LlPlaceIs
  <2> HIDE DEF g, n, a
  <2>4. b = [h EXCEPT !.count[l] = @ - 1, !.data[n] = h.data[a], !.next[n] = h.next[a]]
    OBVIOUS
  <2> HIDE DEF b
  <2>5. /\ b.next = [h.next EXCEPT ![n] = h.next[a]] /\ b.data = [h.data EXCEPT ![n] = h.data[a]]
        /\ b.head = h.head /\ b.count = [h.count EXCEPT ![l] = @ - 1] /\ b.live = h.live
    BY ONLY <2>4, <1>2 DEF LlHeaps
  <2>6. b = [next |-> b.next, data |-> b.data, live |-> b.live, head |-> b.head, count |-> b.count]
    BY ONLY <2>4, <1>2 DEF LlHeaps
  <2>7. b \in LlHeaps
    <3>1. b.next \in [LlNodes -> LlNodes \cup {NoLink}] /\ b.data \in [LlNodes -> Nat] /\ b.live \in SUBSET LlNodes
          /\ b.head \in [LlLists -> LlNodes \cup {NoLink}] /\ b.count \in [LlLists -> Nat]
      BY ONLY <1>1, <1>2, <1>3, <2>3, <2>5
    <3> QED
      BY ONLY <3>1, <2>6 DEF LlHeaps
  <2>8. /\ g \in LlHeaps /\ g.live = h.live \ {a} /\ g.head = h.head /\ g.count = [h.count EXCEPT ![l] = @ - 1]
        /\ \A m \in LlNodes : /\ g.next[m] = IF m = a THEN NoLink ELSE IF m = n THEN h.next[a] ELSE h.next[m]
                              /\ g.data[m] = IF m = a THEN NoLink ELSE IF m = n THEN h.data[a] ELSE h.data[m]
    <3>1. /\ g \in LlHeaps /\ g.live = b.live \ {a} /\ g.head = b.head /\ g.count = b.count
          /\ \A m \in LlNodes : /\ g.next[m] = IF m \in {a} THEN NoLink ELSE b.next[m]
                                /\ g.data[m] = IF m \in {a} THEN NoLink ELSE b.data[m]
      BY <2>1, <2>7, LlFreeIs
    <3>2. \A m \in LlNodes : /\ b.next[m] = IF m = n THEN h.next[a] ELSE h.next[m]
                             /\ b.data[m] = IF m = n THEN h.data[a] ELSE h.data[m]
      BY <1>1, <1>2, <2>5
    <3> QED
      BY <3>1, <3>2, <2>5
  <2>9. LlGoesOut(h, c, l, k + 1, g)
    <3>1. k + 1 # 1 /\ (k + 1) - 1 = k
      BY <1>1
    <3>2. \A m \in LlNodes : g.next[m] = IF m = c[l][k + 1] THEN NoLink
                                         ELSE IF k + 1 # 1 /\ m = c[l][(k + 1) - 1] THEN LlAt(c[l], (k + 1) + 1)
                                         ELSE h.next[m]
      BY <2>2, <2>3, <2>8, <3>1 DEF n
    <3>3. \A m \in h.live : m \in LlNodes /\ h.data[m] \in LlData
      BY <1>2 DEF LlKeeps
    <3>4. \A m \in g.live : g.data[m] \in LlData
      BY <2>3, <2>8, <3>3
    <3> QED
      BY <2>2, <2>8, <3>1, <3>2, <3>4 DEF LlGoesOut
  <2>10. LlKeeps(g, [c EXCEPT ![l] = RemoveAt(c[l], k + 1)])
    BY <2>9, LlOneLess
  <2>11. LlLosesItem(h, c, l, k + 1, k, g)
    <3>1. \A m \in LlLists : \A i \in 1..Len(c[m]) :
             /\ c[m][i] \in LlNodes /\ (c[m][i] = n => m = l /\ i = k)
             /\ (c[m][i] = a => m = l /\ i = k + 1)
      BY <2>2 DEF LlKeeps, LlApart, n
    <3>2. \A m \in LlLists \ {l} : \A i \in 1..Len(c[m]) : g.data[c[m][i]] = h.data[c[m][i]]
      BY <3>1, <2>8
    <3>3. ASSUME NEW i \in 1..(Len(c[l]) - 1)
          PROVE  g.data[c[l][IF i < k + 1 THEN i ELSE i + 1]] = h.data[c[l][IF i < k THEN i ELSE i + 1]]
      <4>1. CASE i = k
        <5>1. g.data[c[l][k]] = h.data[c[l][k + 1]]
          BY <2>2, <2>3, <2>8, <1>1 DEF n
        <5> QED
          BY <4>1, <5>1
      <4>2. CASE i # k
        <5> DEFINE j == IF i < k THEN i ELSE i + 1
        <5>1. j \in 1..Len(c[l]) /\ j # k /\ j # k + 1 /\ (IF i < k + 1 THEN i ELSE i + 1) = j
          BY <4>2, <1>1
        <5> HIDE DEF j
        <5>2. g.data[c[l][j]] = h.data[c[l][j]]
          BY <5>1, <3>1, <2>8
        <5> QED
          BY <5>1, <5>2 DEF j
      <4> QED
        BY <4>1, <4>2
    <3> QED
      BY <3>2, <3>3, <2>2, <2>10 DEF LlLosesItem
  <2>12. /\ LlGood(g) /\ k \in 1..Len(LlContents(h, l))
         /\ LlAll(g) = [LlAll(h) EXCEPT ![l] = RemoveAt(LlContents(h, l), k)]
    BY <2>11, LlItemOut
  <2> QED
    BY <2>12 DEF LlMove, g
<1>6. CASE a = NoLink
  <2>1. k = Len(c[l]) /\ LlAt(c[l], k + 1) = NoLink
    <3>1. k + 1 \in 1..Len(c[l]) => c[l][k + 1] # NoLink
      BY LlPlaceIs
    <3> QED
      BY <3>1, <1>1, <1>6 DEF LlAt
  <2>2. CASE k = 1
    <3> DEFINE b == [h EXCEPT !.count[l] = @ - 1, !.head[l] = NoLink]
    <3>1. g = LlFree(b, {n})
      BY <2>1, <2>2, <1>1, <1>6 DEF singly_ll_delete_node
    <3> HIDE DEF g, n, a
    <3>2. b = [h EXCEPT !.count[l] = @ - 1, !.head[l] = NoLink]
      OBVIOUS
    <3> HIDE DEF b
    <3>3. /\ b.next = h.next /\ b.data = h.data
          /\ b.head = [h.head EXCEPT ![l] = NoLink] /\ b.count = [h.count EXCEPT ![l] = @ - 1] /\ b.live = h.live
      BY ONLY <3>2, <1>2 DEF LlHeaps
    <3>4. b = [next |-> b.next, data |-> b.data, live |-> b.live, head |-> b.head, count |-> b.count]
      BY ONLY <3>2, <1>2 DEF LlHeaps
    <3>5. b \in LlHeaps
      <4>1. b.next \in [LlNodes -> LlNodes \cup {NoLink}] /\ b.data \in [LlNodes -> Nat] /\ b.live \in SUBSET LlNodes
            /\ b.head \in [LlLists -> LlNodes \cup {NoLink}] /\ b.count \in [LlLists -> Nat]
        BY ONLY <1>1, <1>2, <1>3, <3>3
      <4> QED
        BY ONLY <4>1, <3>4 DEF LlHeaps
    <3>6. LlAt(c[l], 2) = NoLink
      BY <2>1, <2>2
    <3>7. LlBypassed(h, c, l, k, b)
      BY <3>3, <3>5, <3>6, <2>2 DEF LlBypassed
    <3> QED
      BY <3>1, <3>7, LlBypassedGoes DEF g, n
  <2>3. CASE k # 1
    <3> DEFINE b == [h EXCEPT !.count[l] = @ - 1, !.next[p] = NoLink]
    <3>1. g = LlFree(b, {n})
      BY <2>1, <2>3, <1>1, <1>6 DEF singly_ll_delete_node
    <3>2. p = c[l][k - 1] /\ p \in LlNodes /\ p # n
      <4>1. k \in 2..Len(c[l]) /\ k - 1 \in 1..Len(c[l]) /\ k - 1 # k
        BY <1>1, <2>3
      <4>2. c[l][k - 1] \in LlNodes
        BY <4>1, LlPlaceIs
      <4>3. c[l][k - 1] # n
        BY <4>1, <1>4
      <4> QED
        BY <4>1, <4>2, <4>3, LlPreviousIs
    <3> HIDE DEF g, n, a, p
    <3>3. b = [h EXCEPT !.count[l] = @ - 1, !.next[p] = NoLink]
      OBVIOUS
    <3> HIDE DEF b
    <3>4. /\ b.next = [h.next EXCEPT ![p] = NoLink] /\ b.data = h.data
          /\ b.head = h.head /\ b.count = [h.count EXCEPT ![l] = @ - 1] /\ b.live = h.live
      BY ONLY <3>3, <1>2 DEF LlHeaps
    <3>5. b = [next |-> b.next, data |-> b.data, live |-> b.live, head |-> b.head, count |-> b.count]
      BY ONLY <3>3, <1>2 DEF LlHeaps
    <3>6. b \in LlHeaps
      <4>1. b.next \in [LlNodes -> LlNodes \cup {NoLink}] /\ b.data \in [LlNodes -> Nat] /\ b.live \in SUBSET LlNodes
            /\ b.head \in [LlLists -> LlNodes \cup {NoLink}] /\ b.count \in [LlLists -> Nat]
        BY ONLY <1>1, <1>2, <1>3, <3>4
      <4> QED
        BY ONLY <4>1, <3>5 DEF LlHeaps
    <3>7. \A m \in LlNodes \ {n} : b.next[m] = IF m = p THEN NoLink ELSE h.next[m]
      BY <1>2, <3>2, <3>4
    <3>8. LlBypassed(h, c, l, k, b)
      BY <3>2, <3>4, <3>6, <3>7, <2>1, <2>3 DEF LlBypassed, n
    <3> QED
      BY <3>1, <3>8, LlBypassedGoes DEF g, n
  <2> QED
    BY <2>2, <2>3
<1> QED
  BY <1>5, <1>6

----------------------------------------------------------------------------
(* The calls that search, turn round and empty a list. *)

\* What a search finds is nothing, or a node of the list.
LEMMA LlSearchIs ==
  ASSUME NEW h, NEW c, LlKeeps(h, c), NEW l \in LlLists, NEW P \in SUBSET (DOMAIN LlChain(h, l))
  PROVE  FirstOf(LlChain(h, l), P) = NoLink \/ \E k \in 1..Len(c[l]) : FirstOf(LlChain(h, l), P) = c[l][k]
<1>1. LlChain(h, l) = c[l] /\ DOMAIN c[l] = 1..Len(c[l]) /\ Len(c[l]) \in Nat
  BY LlChainsAre
<1>2. P \in SUBSET Nat /\ P \subseteq 1..Len(c[l])
  BY <1>1
<1> QED
  BY <1>1, <1>2, LlFoundIs

\* The calls that look for an item, or for the node of one.
LEMMA LlByValue ==
  ASSUME NEW h, NEW c, LlKeeps(h, c), NEW l \in LlLists, NEW d
  PROVE  /\ LlGood(singly_ll_delete_node_by_value(h, l, d)) /\ LlMove(h, singly_ll_delete_node_by_value(h, l, d), l)
         /\ LlGood(singly_ll_remove_node_by_value(h, l, d)) /\ LlMove(h, singly_ll_remove_node_by_value(h, l, d), l)
         /\ LlGood(singly_ll_remove_node_by_dataptr(h, l, d)) /\ LlMove(h, singly_ll_remove_node_by_dataptr(h, l, d), l)
         /\ LlGood(singly_ll_delete_node_by_data_ptr(h, l, d)) /\ LlMove(h, singly_ll_delete_node_by_data_ptr(h, l, d), l)
<1>1. LlGood(h) /\ LlMove(h, h, l)
  BY LlNothingToDo
<1>2. NodeLike(h, l, d) = NoLink \/ \E k \in 1..Len(c[l]) : NodeLike(h, l, d) = c[l][k]
  <2> DEFINE P == {k \in DOMAIN LlChain(h, l) : EqualContent(LlContents(h, l)[k], d)}
  <2>1. NodeLike(h, l, d) = FirstOf(LlChain(h, l), P)
    BY DEF NodeLike
  <2>2. P \in SUBSET (DOMAIN LlChain(h, l))
    OBVIOUS
  <2> HIDE DEF P
  <2> QED
    BY <2>1, <2>2, LlSearchIs
<1>3. NodeWith(h, l, d) = NoLink \/ \E k \in 1..Len(c[l]) : NodeWith(h, l, d) = c[l][k]
  <2> DEFINE P == {k \in DOMAIN LlChain(h, l) : LlContents(h, l)[k] = d}
  <2>1. NodeWith(h, l, d) = FirstOf(LlChain(h, l), P)
    BY DEF NodeWith
  <2>2. P \in SUBSET (DOMAIN LlChain(h, l))
    OBVIOUS
  <2> HIDE DEF P
  <2> QED
    BY <2>1, <2>2, LlSearchIs
<1>4. \/ singly_ll_get_node_by_data_ptr(h, l, d) = NoLink
      \/ \E k \in 1..Len(c[l]) : singly_ll_get_node_by_data_ptr(h, l, d) = c[l][k]
  <2> DEFINE P == {k \in DOMAIN LlChain(h, l) : k <= h.count[l] /\ LlContents(h, l)[k] = d}
  <2>1. singly_ll_get_node_by_data_ptr(h, l, d) = FirstOf(LlChain(h, l), P)
    BY DEF singly_ll_get_node_by_data_ptr
  <2>2. P \in SUBSET (DOMAIN LlChain(h, l))
    OBVIOUS
  <2> HIDE DEF P
  <2> QED
    BY <2>1, <2>2, LlSearchIs
<1>5. LlGood(singly_ll_delete_node_by_value(h, l, d)) /\ LlMove(h, singly_ll_delete_node_by_value(h, l, d), l)
  BY <1>1, <1>2, LlDeleteNode DEF singly_ll_delete_node_by_value
<1>6. LlGood(singly_ll_remove_node_by_value(h, l, d)) /\ LlMove(h, singly_ll_remove_node_by_value(h, l, d), l)
  BY <1>1, LlRemoveIfThere DEF singly_ll_remove_node_by_value
<1>7. LlGood(singly_ll_remove_node_by_dataptr(h, l, d)) /\ LlMove(h, singly_ll_remove_node_by_dataptr(h, l, d), l)
  BY <1>1, LlRemoveIfThere DEF singly_ll_remove_node_by_dataptr
<1>8. LlGood(singly_ll_delete_node_by_data_ptr(h, l, d)) /\ LlMove(h, singly_ll_delete_node_by_data_ptr(h, l, d), l)
  <2> DEFINE n == singly_ll_get_node_by_data_ptr(h, l, d)
             g == singly_ll_delete_node_by_data_ptr(h, l, d)
  <2>1. CASE n = NoLink
    BY <2>1, <1>1 DEF singly_ll_delete_node_by_data_ptr
  <2>2. CASE n # NoLink
    <3>1. PICK k \in 1..Len(c[l]) : n = c[l][k]
      BY <2>2, <1>4
    <3> DEFINE b == singly_ll_remove_node(h, l, c[l][k])
    <3>2. g = LlFree(b, {c[l][k]})
      BY <2>2, <3>1 DEF singly_ll_delete_node_by_data_ptr
    <3>3. LlBypassed(h, c, l, k, b)
      BY LlRemoveNode
    <3> HIDE DEF g, b
    <3>4. LlGood(g) /\ LlMove(h, g, l)
      BY <3>2, <3>3, LlBypassedGoes
    <3> QED
      BY <3>4 DEF g
  <2> QED
    BY <2>1, <2>2
<1> QED
  BY <1>5, <1>6, <1>7, <1>8

\* The list is turned round.
LEMMA LlReverse ==
  ASSUME NEW h, NEW c, LlKeeps(h, c), NEW l \in LlLists
  PROVE  LlGood(reverse_singly_ll(h, l)) /\ LlMove(h, reverse_singly_ll(h, l), l)
<1> DEFINE s == c[l]
           nx == [n \in LlNodes |-> IF n = s[1] THEN NoLink
                                    ELSE IF n \in Range(s) THEN Previous(h, l, n) ELSE h.next[n]]
           g == reverse_singly_ll(h, l)
<1>1. LlChain(h, l) = s /\ s \in Seq(LlNodes) /\ Len(s) \in Nat /\ h.count[l] = Len(s) /\ DOMAIN s = 1..Len(s)
  BY LlChainsAre
<1>2. CASE is_singly_ll_empty(h, l) \/ h.count[l] = 1
  <2>1. g = h
    BY <1>2 DEF reverse_singly_ll
  <2> QED
    BY <2>1, LlNothingToDo
<1>3. CASE ~(is_singly_ll_empty(h, l) \/ h.count[l] = 1)
  <2>1. Len(s) # 0 /\ 1 \in 1..Len(s) /\ Len(s) \in 1..Len(s)
    BY <1>1, <1>3 DEF is_singly_ll_empty
  <2>2. g = [h EXCEPT !.next = nx, !.head[l] = s[Len(s)]]
    BY <1>1, <1>3 DEF reverse_singly_ll
  <2>3. h \in LlHeaps /\ h.next \in [LlNodes -> LlNodes \cup {NoLink}] /\ h.data \in [LlNodes -> Nat]
        /\ h.live \in SUBSET LlNodes /\ h.head \in [LlLists -> LlNodes \cup {NoLink}]
        /\ h.count \in [LlLists -> Nat] /\ \A i \in 1..Len(s) : s[i] \in LlNodes
    BY <1>1 DEF LlHeaps, LlKeeps
  <2>4. \A i, j \in 1..Len(s) : s[i] = s[j] => i = j
    BY DEF LlKeeps, LlApart
  <2>5. Range(s) = {s[i] : i \in 1..Len(s)}
    BY <1>1 DEF Range
  <2>6. ASSUME NEW i \in 1..Len(s) PROVE nx[s[i]] = IF i = 1 THEN NoLink ELSE s[i - 1]
    <3>1. CASE i = 1
      BY <3>1, <2>3
    <3>2. CASE i # 1
      <4>1. i \in 2..Len(s) /\ s[i] # s[1] /\ s[i] \in Range(s)
        BY <3>2, <1>1, <2>1, <2>4, <2>5
      <4>2. Previous(h, l, s[i]) = s[i - 1]
        BY <4>1, LlPreviousIs
      <4> QED
        BY <4>1, <4>2, <3>2, <2>3
    <3> QED
      BY <3>1, <3>2
  <2>7. \A m \in LlNodes : (\A i \in 1..Len(s) : s[i] # m) => nx[m] = h.next[m]
    BY <2>1, <2>5
  <2>8. nx \in [LlNodes -> LlNodes \cup {NoLink}]
    <3>1. ASSUME NEW m \in LlNodes PROVE nx[m] \in LlNodes \cup {NoLink}
      <4>1. CASE \E i \in 1..Len(s) : s[i] = m
        <5>1. PICK i \in 1..Len(s) : s[i] = m
          BY <4>1
        <5>2. i # 1 => i - 1 \in 1..Len(s)
          BY <1>1
        <5>3. nx[m] = IF i = 1 THEN NoLink ELSE s[i - 1]
          BY <5>1, <2>6
        <5> HIDE DEF nx
        <5> QED
          BY <5>2, <5>3, <2>3
      <4>2. CASE ~\E i \in 1..Len(s) : s[i] = m
        <5>1. nx[m] = h.next[m]
          BY <4>2, <2>7
        <5> HIDE DEF nx
        <5> QED
          BY <5>1, <2>3
      <4> QED
        BY <4>1, <4>2
    <3>2. nx = [m \in LlNodes |-> nx[m]]
      OBVIOUS
    <3> HIDE DEF nx
    <3> QED
      BY <3>1, <3>2
  <2> HIDE DEF g, nx
  <2>9. g.next = nx /\ g.head = [h.head EXCEPT ![l] = s[Len(s)]] /\ g.live = h.live /\ g.data = h.data
        /\ g.count = h.count
    BY ONLY <2>2, <2>3 DEF LlHeaps
  <2>10. g = [next |-> g.next, data |-> g.data, live |-> g.live, head |-> g.head, count |-> g.count]
    BY ONLY <2>2, <2>3 DEF LlHeaps
  <2>11. g \in LlHeaps
    <3>1. g.next \in [LlNodes -> LlNodes \cup {NoLink}] /\ g.data \in [LlNodes -> Nat] /\ g.live \in SUBSET LlNodes
          /\ g.head \in [LlLists -> LlNodes \cup {NoLink}] /\ g.count \in [LlLists -> Nat]
      BY <2>1, <2>3, <2>8, <2>9
    <3> QED
      BY ONLY <3>1, <2>10 DEF LlHeaps
  <2>12. LlLinkedBack(h, c, l, g)
    BY <2>1, <2>6, <2>7, <2>9, <2>11 DEF LlLinkedBack
  <2>13. LlKeeps(g, [c EXCEPT ![l] = Reverse(s)])
    BY <2>12, LlTurned
  <2>14. LlGood(g) /\ LlAll(g) = [LlAll(h) EXCEPT ![l] = Reverse(LlContents(h, l))]
    <3> DEFINE w == LlContents(h, l)
               v == Reverse(w)
               u == Reverse(s)
    <3>1. w \in Seq(LlData) /\ w = [i \in 1..Len(s) |-> h.data[s[i]]]
      BY LlChainsAre
    <3> HIDE DEF w
    <3>2. Len(w) = Len(s) /\ w \in Seq(LlData) /\ \A i \in 1..Len(s) : w[i] = h.data[s[i]]
      BY <3>1, <1>1
    <3>3. v = [i \in 1..Len(w) |-> w[(Len(w) - i) + 1]] /\ u = [i \in 1..Len(s) |-> s[(Len(s) - i) + 1]]
      BY DEF Reverse
    <3>4. \A i \in 1..Len(s) : (Len(s) - i) + 1 \in 1..Len(s)
      BY <1>1
    <3> HIDE DEF v, u
    <3>5. v \in Seq(LlData) /\ Len(v) = Len(s) /\ \A i \in 1..Len(s) : v[i] = w[(Len(s) - i) + 1]
      BY <3>2, <3>3, <3>4, <1>1
    <3>6. u \in Seq(LlNodes) /\ Len(u) = Len(s) /\ \A i \in 1..Len(s) : u[i] = s[(Len(s) - i) + 1]
      BY <3>3, <3>4, <1>1
    <3>7. LlHasItems(h, c, l, g, u, v)
      <4>1. \A i \in 1..Len(u) : v[i] = g.data[u[i]]
        <5>1. ASSUME NEW i \in 1..Len(s) PROVE v[i] = g.data[u[i]]
          <6>1. (Len(s) - i) + 1 \in 1..Len(s) /\ v[i] = w[(Len(s) - i) + 1] /\ u[i] = s[(Len(s) - i) + 1]
            BY <3>4, <3>5, <3>6
          <6>2. w[(Len(s) - i) + 1] = h.data[s[(Len(s) - i) + 1]]
            BY <6>1, <3>2
          <6> QED
            BY <6>1, <6>2, <2>9
        <5> QED
          BY <5>1, <3>6
      <4> QED
        BY <4>1, <3>5, <3>6, <2>9, <2>13 DEF LlHasItems, u
    <3> QED
      BY <3>7, LlItemsAre DEF v, w
  <2> QED
    BY <2>14 DEF LlMove, g
<1> QED
  BY <1>2, <1>3

\* The list is emptied, and its nodes are freed.
LEMMA LlDeleteAll ==
  ASSUME NEW h, NEW c, LlKeeps(h, c), NEW l \in LlLists
  PROVE  LET g == delete_singly_ll(h, l)
         IN  LlGood(g) /\ LlAll(g) = [LlAll(h) EXCEPT ![l] = <<>>] /\ LlMove(h, g, l)
<1> DEFINE s == c[l]
           g == delete_singly_ll(h, l)
           b == [h EXCEPT !.head[l] = NoLink, !.count[l] = 0]
<1>1. /\ LlChain(h, l) = s /\ s \in Seq(LlNodes) /\ Len(s) \in Nat /\ h.count[l] = Len(s) /\ DOMAIN s = 1..Len(s)
      /\ LlContents(h, l) \in Seq(LlData) /\ LlContents(h, l) = [i \in 1..Len(s) |-> h.data[s[i]]]
  BY LlChainsAre
<1>2. CASE is_singly_ll_empty(h, l)
  <2>1. g = h
    BY <1>2 DEF delete_singly_ll
  <2>2. LlContents(h, l) = <<>>
    <3>1. Len(s) = 0
      BY <1>1, <1>2 DEF is_singly_ll_empty
    <3>2. Len(LlContents(h, l)) = 0
      BY <1>1, <3>1
    <3> QED
      BY <3>2, <1>1, EmptySeq
  <2>3. [LlAll(h) EXCEPT ![l] = <<>>] = LlAll(h)
    BY <2>2 DEF LlAll
  <2> QED
    BY <2>1, <2>3, LlNothingToDo
<1>3. CASE ~is_singly_ll_empty(h, l)
  <2>1. g = LlFree(b, Range(s))
    BY <1>1, <1>3 DEF delete_singly_ll
  <2>2. h \in LlHeaps /\ h.next \in [LlNodes -> LlNodes \cup {NoLink}] /\ h.data \in [LlNodes -> Nat]
        /\ h.live \in SUBSET LlNodes /\ h.head \in [LlLists -> LlNodes \cup {NoLink}]
        /\ h.count \in [LlLists -> Nat]
    BY DEF LlHeaps, LlKeeps
  <2>3. Range(s) = {s[i] : i \in 1..Len(s)}
    BY <1>1 DEF Range
  <2>4. b = [h EXCEPT !.head[l] = NoLink, !.count[l] = 0]
    OBVIOUS
  <2> HIDE DEF g, b
  <2>5. b.next = h.next /\ b.head = [h.head EXCEPT ![l] = NoLink] /\ b.live = h.live /\ b.data = h.data
        /\ b.count = [h.count EXCEPT ![l] = 0]
    BY ONLY <2>2, <2>4 DEF LlHeaps
  <2>6. b = [next |-> b.next, data |-> b.data, live |-> b.live, head |-> b.head, count |-> b.count]
    BY ONLY <2>2, <2>4 DEF LlHeaps
  <2>7. b \in LlHeaps
    <3>1. b.next \in [LlNodes -> LlNodes \cup {NoLink}] /\ b.data \in [LlNodes -> Nat] /\ b.live \in SUBSET LlNodes
          /\ b.head \in [LlLists -> LlNodes \cup {NoLink}] /\ b.count \in [LlLists -> Nat]
      BY <2>2, <2>5
    <3> QED
      BY ONLY <3>1, <2>6 DEF LlHeaps
  <2>8. /\ g \in LlHeaps /\ g.live = h.live \ Range(s) /\ g.head = [h.head EXCEPT ![l] = NoLink]
        /\ g.count = [h.count EXCEPT ![l] = 0]
        /\ \A n \in LlNodes : /\ g.next[n] = IF n \in Range(s) THEN NoLink ELSE h.next[n]
                              /\ g.data[n] = IF n \in Range(s) THEN NoLink ELSE h.data[n]
    BY <2>1, <2>5, <2>7, LlFreeIs
  <2>9. LlCleared(h, c, l, g)
    <3>1. \A m \in g.live : g.data[m] \in LlData
      BY <2>2, <2>8 DEF LlKeeps
    <3>2. \A m \in h.live : (\A i \in 1..Len(c[l]) : c[l][i] # m) => m \in g.live
      BY <2>3, <2>8
    <3>3. \A m \in LlNodes : g.next[m] = IF \E i \in 1..Len(c[l]) : c[l][i] = m THEN NoLink ELSE h.next[m]
      BY <2>3, <2>8
    <3> QED
      BY <3>1, <3>2, <3>3, <2>8 DEF LlCleared
  <2>10. LlKeeps(g, [c EXCEPT ![l] = <<>>])
    BY <2>9, LlNoneLeft
  <2>11. LlHasItems(h, c, l, g, <<>>, <<>>)
    <3>1. ASSUME NEW m \in LlLists \ {l}, NEW i \in 1..Len(c[m]) PROVE g.data[c[m][i]] = h.data[c[m][i]]
      <4>1. c[m][i] \in LlNodes /\ \A j \in 1..Len(s) : s[j] # c[m][i]
        BY DEF LlKeeps, LlApart
      <4> QED
        BY <4>1, <2>3, <2>8
    <3> QED
      BY <3>1, <2>10 DEF LlHasItems
  <2>12. LlGood(g) /\ LlAll(g) = [LlAll(h) EXCEPT ![l] = <<>>]
    BY <2>11, LlItemsAre
  <2> QED
    BY <2>12 DEF LlMove, g
<1> QED
  BY <1>2, <1>3

----------------------------------------------------------------------------
(* The calls that fill a list from others. *)

\* What adding the items of s one after the other goes through.
AddsUp(f, h, l, s, n) ==
    f = [k \in 0..n |-> IF k = 0 THEN h ELSE singly_ll_add_node_by_val(f[k - 1], l, s[k])]

\* AddAll takes the items one after the other.
LEMMA AddAllUnfolds ==
  ASSUME NEW h, NEW l, NEW s, Len(s) \in Nat
  PROVE  \E f : AddsUp(f, h, l, s, Len(s)) /\ AddAll(h, l, s) = f[Len(s)]
<1> DEFINE D == {n \in 0..Len(s) : ~\E f : AddsUp(f, h, l, s, n)}
<1>1. D = {}
  <2>1. SUFFICES ASSUME D # {} PROVE FALSE
    OBVIOUS
  <2>2. D \in SUBSET Nat
    OBVIOUS
  <2>3. PICK n \in D : \A y \in D : n <= y
    BY <2>1, <2>2, LeastElement
  <2>4. n # 0
    <3>1. AddsUp([k \in 0..0 |-> h], h, l, s, 0)
      BY DEF AddsUp
    <3> QED
      BY <3>1, <2>3
  <2>5. n \in 1..Len(s) /\ n - 1 \in 0..Len(s) /\ n - 1 \notin D
    BY <2>3, <2>4
  <2>6. PICK f : AddsUp(f, h, l, s, n - 1)
    BY <2>5
  <2> DEFINE g == [k \in 0..n |-> IF k = n THEN singly_ll_add_node_by_val(f[n - 1], l, s[n]) ELSE f[k]]
  <2>7. \A k \in 0..(n - 1) : f[k] = IF k = 0 THEN h ELSE singly_ll_add_node_by_val(f[k - 1], l, s[k])
    BY <2>5, <2>6 DEF AddsUp
  <2>8. \A k \in 0..n : g[k] = IF k = 0 THEN h ELSE singly_ll_add_node_by_val(g[k - 1], l, s[k])
    <3>1. ASSUME NEW k \in 0..n PROVE g[k] = IF k = 0 THEN h ELSE singly_ll_add_node_by_val(g[k - 1], l, s[k])
      <4>1. CASE k = n
        <5>1. g[n - 1] = f[n - 1] /\ g[n] = singly_ll_add_node_by_val(f[n - 1], l, s[n])
          BY <2>5
        <5> QED
          BY <4>1, <5>1, <2>4
      <4>2. CASE k # n
        <5>1. k \in 0..(n - 1) /\ g[k] = f[k]
          BY <2>5, <4>2
        <5>2. k # 0 => g[k - 1] = f[k - 1]
          BY <2>5, <5>1
        <5> QED
          BY <5>1, <5>2, <2>7
      <4> QED
        BY <4>1, <4>2
    <3> QED
      BY <3>1
  <2>9. AddsUp(g, h, l, s, n)
    <3>1. g = [k \in 0..n |-> g[k]]
      OBVIOUS
    <3> HIDE DEF g
    <3>2. [k \in 0..n |-> g[k]] = [k \in 0..n |-> IF k = 0 THEN h ELSE singly_ll_add_node_by_val(g[k - 1], l, s[k])]
      BY <2>8
    <3> QED
      BY <3>1, <3>2 DEF AddsUp
  <2> HIDE DEF g
  <2> QED
    BY <2>3, <2>9
<1>2. \E f : AddsUp(f, h, l, s, Len(s))
  BY <1>1
<1> DEFINE up == CHOOSE f : f = [k \in 0..Len(s) |-> IF k = 0 THEN h ELSE singly_ll_add_node_by_val(f[k - 1], l, s[k])]
<1>3. AddsUp(up, h, l, s, Len(s))
  BY <1>2 DEF AddsUp
<1>4. AddAll(h, l, s) = up[Len(s)]
  BY DEF AddAll
<1> HIDE DEF up
<1> QED
  BY <1>3, <1>4

\* What collecting the items of s goes through.
Collects(f, s, n) ==
    f = [k \in 0..n |-> IF k = 0 THEN <<>>
                        ELSE IF Contains(f[k - 1], s[k]) THEN f[k - 1] ELSE <<s[k]>> \o f[k - 1]]

\* So does Collected.
LEMMA CollectedUnfolds ==
  ASSUME NEW s, Len(s) \in Nat
  PROVE  \E f : Collects(f, s, Len(s)) /\ Lists!Collected(s) = f[Len(s)]
<1> DEFINE D == {n \in 0..Len(s) : ~\E f : Collects(f, s, n)}
           Took(x, e) == IF Contains(x, e) THEN x ELSE <<e>> \o x
<1>0. \A f, n : Collects(f, s, n) <=> f = [k \in 0..n |-> IF k = 0 THEN <<>> ELSE Took(f[k - 1], s[k])]
  BY DEF Collects
<1> HIDE DEF Took
<1>1. D = {}
  <2>1. SUFFICES ASSUME D # {} PROVE FALSE
    OBVIOUS
  <2>2. D \in SUBSET Nat
    OBVIOUS
  <2>3. PICK n \in D : \A y \in D : n <= y
    BY <2>1, <2>2, LeastElement
  <2>4. n # 0
    <3> DEFINE z == [k \in 0..0 |-> <<>>]
    <3>1. z = [k \in 0..0 |-> IF k = 0 THEN <<>> ELSE Took(z[k - 1], s[k])]
      OBVIOUS
    <3>2. Collects(z, s, 0)
      BY <1>0, <3>1
    <3> QED
      BY <3>2, <2>3
  <2>5. n \in 1..Len(s) /\ n - 1 \in 0..Len(s) /\ n - 1 \notin D
    BY <2>3, <2>4
  <2>6. PICK f : Collects(f, s, n - 1)
    BY <2>5
  <2> DEFINE g == [k \in 0..n |-> IF k = n THEN Took(f[n - 1], s[n]) ELSE f[k]]
  <2>7. \A k \in 0..(n - 1) : f[k] = IF k = 0 THEN <<>> ELSE Took(f[k - 1], s[k])
    <3>1. f = [k \in 0..(n - 1) |-> IF k = 0 THEN <<>> ELSE Took(f[k - 1], s[k])]
      BY <2>6, <1>0
    <3> QED
      BY <3>1
  <2>8. \A k \in 0..n : g[k] = IF k = 0 THEN <<>> ELSE Took(g[k - 1], s[k])
    <3>1. ASSUME NEW k \in 0..n PROVE g[k] = IF k = 0 THEN <<>> ELSE Took(g[k - 1], s[k])
      <4>1. CASE k = n
        <5>1. g[n - 1] = f[n - 1] /\ g[n] = Took(f[n - 1], s[n])
          BY <2>5
        <5> QED
          BY <4>1, <5>1, <2>4
      <4>2. CASE k # n
        <5>1. k \in 0..(n - 1) /\ g[k] = f[k]
          BY <2>5, <4>2
        <5>2. k # 0 => g[k - 1] = f[k - 1]
          BY <2>5, <5>1
        <5> QED
          BY <5>1, <5>2, <2>7
      <4> QED
        BY <4>1, <4>2
    <3> QED
      BY <3>1
  <2>9. Collects(g, s, n)
    <3>1. g = [k \in 0..n |-> g[k]]
      OBVIOUS
    <3> HIDE DEF g
    <3>2. [k \in 0..n |-> g[k]] = [k \in 0..n |-> IF k = 0 THEN <<>> ELSE Took(g[k - 1], s[k])]
      BY <2>8
    <3> QED
      BY <3>1, <3>2, <1>0
  <2> HIDE DEF g
  <2> QED
    BY <2>3, <2>9
<1>2. \E f : Collects(f, s, Len(s))
  BY <1>1
<1> DEFINE up == CHOOSE f : f = [k \in 0..Len(s) |-> IF k = 0 THEN <<>>
                                                     ELSE IF Contains(f[k - 1], s[k]) THEN f[k - 1] ELSE <<s[k]>> \o f[k - 1]]
<1>3. Collects(up, s, Len(s))
  BY <1>2 DEF Collects
<1>4. Lists!Collected(s) = up[Len(s)]
  BY DEF Lists!Collected, Lists!Contains, Contains
<1> HIDE DEF up
<1> QED
  BY <1>3, <1>4

\* In front is place one.
LEMMA InFront ==
  ASSUME NEW S, NEW s \in Seq(S), NEW e \in S
  PROVE  InsertAt(s, 1, e) = <<e>> \o s
<1>1. /\ InsertAt(s, 1, e) \in Seq(S) /\ Len(InsertAt(s, 1, e)) = Len(s) + 1
      /\ \A i \in 1..(Len(s) + 1) : InsertAt(s, 1, e)[i] = IF i < 1 THEN s[i] ELSE IF i = 1 THEN e ELSE s[i - 1]
  <2>1. 1 \in 1..(Len(s) + 1)
    OBVIOUS
  <2> QED
    BY <2>1, ListWithOneMore
<1>2. <<e>> \in Seq(S) /\ Len(<<e>>) = 1 /\ <<e>>[1] = e
  OBVIOUS
<1>3. /\ <<e>> \o s \in Seq(S) /\ Len(<<e>> \o s) = Len(<<e>>) + Len(s)
      /\ \A i \in 1..(Len(<<e>>) + Len(s)) : (<<e>> \o s)[i] = IF i <= Len(<<e>>) THEN <<e>>[i] ELSE s[i - Len(<<e>>)]
  BY <1>2, ConcatProperties
<1> DEFINE u == InsertAt(s, 1, e)
           v == <<e>> \o s
<1>4. u \in Seq(S) /\ v \in Seq(S) /\ Len(u) = Len(v) /\ Len(s) \in Nat
  BY <1>1, <1>2, <1>3
<1>5. \A i \in 1..Len(u) : u[i] = v[i]
  <2>1. ASSUME NEW i \in 1..(Len(s) + 1) PROVE u[i] = v[i]
    <3>1. CASE i = 1
      BY <3>1, <1>1, <1>2, <1>3, <1>4
    <3>2. CASE i # 1
      BY <3>2, <1>1, <1>2, <1>3, <1>4
    <3> QED
      BY <3>1, <3>2
  <2> QED
    BY <2>1, <1>1
<1> HIDE DEF u, v
<1>6. u = v
  BY <1>4, <1>5, SeqEqual
<1> QED
  BY <1>6 DEF u, v

\* Item by item.
LEMMA CollectsEach ==
  ASSUME NEW f, NEW s, NEW n \in Nat, Collects(f, s, n)
  PROVE  \A k \in 1..n : f[k] = IF Contains(f[k - 1], s[k]) THEN f[k - 1] ELSE <<s[k]>> \o f[k - 1]
<1> DEFINE Took(x, e) == IF Contains(x, e) THEN x ELSE <<e>> \o x
<1>1. f = [k \in 0..n |-> IF k = 0 THEN <<>> ELSE Took(f[k - 1], s[k])]
  BY DEF Collects
<1> HIDE DEF Took
<1>2. ASSUME NEW k \in 1..n PROVE f[k] = Took(f[k - 1], s[k])
  <2>1. k \in 0..n /\ k # 0
    OBVIOUS
  <2> QED
    BY <1>1, <2>1
<1> QED
  BY <1>2 DEF Took

\* s stands in t behind place b.
LlPartOf(s, t, b) == b \in Nat /\ b + Len(s) <= Len(t) /\ \A i \in 1..Len(s) : t[b + i] = s[i]

\* Adding the items of s, the part of t behind place b, to what is collected of
\* the part before it.
LEMMA AddAllCollects ==
  ASSUME NEW h, LlGood(h), NEW l \in LlLists, NEW s \in Seq(LlData),
         Len(s) <= Cardinality(FreeNodes(h)),
         NEW t \in Seq(LlData), NEW b, LlPartOf(s, t, b),
         NEW f, Collects(f, t, Len(t)), LlContents(h, l) = f[b]
  PROVE  LET g == AddAll(h, l, s)
         IN  /\ LlGood(g) /\ LlAll(g) = [LlAll(h) EXCEPT ![l] = f[b + Len(s)]]
             /\ Cardinality(FreeNodes(g)) >= Cardinality(FreeNodes(h)) - Len(s)
<1> DEFINE C == Cardinality(FreeNodes(h))
           N == Len(s)
           Added(g, k) == /\ LlGood(g) /\ LlAll(g) = [LlAll(h) EXCEPT ![l] = f[b + k]]
                          /\ Cardinality(FreeNodes(g)) >= C - k
<1>0. b \in Nat /\ b + Len(s) <= Len(t) /\ \A i \in 1..Len(s) : t[b + i] = s[i]
  BY DEF LlPartOf
<1>1. PICK up : AddsUp(up, h, l, s, Len(s)) /\ AddAll(h, l, s) = up[Len(s)]
  BY AddAllUnfolds
<1>2. \A k \in 0..N : up[k] = IF k = 0 THEN h ELSE singly_ll_add_node_by_val(up[k - 1], l, s[k])
  BY <1>1 DEF AddsUp
<1>3. \A g : IsFiniteSet(FreeNodes(g)) /\ Cardinality(FreeNodes(g)) \in Nat
  <2>1. IsFiniteSet(LlNodes)
    BY LlBounds, FS_Interval DEF LlNodes
  <2> QED
    BY <2>1, FS_Subset, FS_CardinalityType DEF FreeNodes
<1>4. \A k \in 1..Len(t) : f[k] = IF Contains(f[k - 1], t[k]) THEN f[k - 1] ELSE <<t[k]>> \o f[k - 1]
  BY CollectsEach
<1>5. Added(up[0], 0)
  <2>1. up[0] = h /\ b + 0 = b
    BY <1>0, <1>2
  <2>2. [LlAll(h) EXCEPT ![l] = f[b]] = LlAll(h)
    BY DEF LlAll
  <2> QED
    BY <2>1, <2>2, <1>3
<1>6. ASSUME NEW k \in 1..N, Added(up[k - 1], k - 1) PROVE Added(up[k], k)
  <2> DEFINE g == up[k - 1]
             had == LlContents(g, l)
             d == s[k]
             z == up[k]
  <2>1. d \in LlData /\ z = singly_ll_add_node_by_val(g, l, d) /\ b + k \in 1..Len(t) /\ t[b + k] = d
        /\ (b + k) - 1 = b + (k - 1)
    BY <1>0, <1>2
  <2>2. had = f[b + (k - 1)]
    <3>1. LlAll(g)[l] = f[b + (k - 1)]
      BY <1>6 DEF LlAll
    <3> QED
      BY <3>1 DEF LlAll
  <2>3. PICK c : LlKeeps(g, c)
    BY <1>6 DEF LlGood
  <2>4. FreeNodes(g) # {}
    <3>1. Cardinality(FreeNodes(g)) >= C - (k - 1) /\ C \in Nat /\ C >= N /\ N \in Nat
      BY <1>3, <1>6
    <3>2. Cardinality(FreeNodes(g)) # 0
      BY <3>1, <1>3
    <3> QED
      BY <3>2, FS_EmptySet
  <2>5. had \in Seq(LlData)
    BY <2>3, LlChainsAre
  <2> HIDE DEF g, had, d, z
  <2>6. /\ LlGood(z) /\ FreeNodes(z) \in {FreeNodes(g), FreeNodes(g) \ {NewNode(g)}} /\ NewNode(g) \in FreeNodes(g)
        /\ LlAll(z) = IF \E i \in 1..Len(had) : had[i] = d THEN LlAll(g)
                      ELSE [LlAll(g) EXCEPT ![l] = InsertAt(had, 1, d)]
    <3>1. LlKeeps(g, c) /\ FreeNodes(g) # {} /\ d \in LlData /\ l \in LlLists
      BY <2>1, <2>3, <2>4
    <3>2. LET w == LlContents(g, l)
              y == singly_ll_add_node_by_val(g, l, d)
          IN  /\ LlGood(y) /\ FreeNodes(y) \in {FreeNodes(g), FreeNodes(g) \ {NewNode(g)}} /\ NewNode(g) \in FreeNodes(g)
              /\ LlAll(y) = IF \E i \in 1..Len(w) : w[i] = d THEN LlAll(g)
                            ELSE [LlAll(g) EXCEPT ![l] = InsertAt(w, 1, d)]
      BY ONLY <3>1, LlAddByVal
    <3>3. had = LlContents(g, l)
      BY DEF had
    <3> QED
      BY ONLY <2>1, <3>2, <3>3
  <2>7. f[b + k] = IF \E i \in 1..Len(had) : had[i] = d THEN had ELSE InsertAt(had, 1, d)
    <3>1. f[b + k] = IF Contains(had, d) THEN had ELSE <<d>> \o had
      BY <2>1, <2>2, <1>4
    <3>2. InsertAt(had, 1, d) = <<d>> \o had
      BY <2>1, <2>5, InFront
    <3> QED
      BY <3>1, <3>2 DEF Contains
  <2>8. LlAll(g) = [LlAll(h) EXCEPT ![l] = had]
    BY <1>6, <2>2 DEF g
  <2>9. LlAll(z) = [LlAll(h) EXCEPT ![l] = f[b + k]]
    <3>1. CASE \E i \in 1..Len(had) : had[i] = d
      BY <3>1, <2>6, <2>7, <2>8
    <3>2. CASE ~\E i \in 1..Len(had) : had[i] = d
      <4>1. LlAll(z) = [[LlAll(h) EXCEPT ![l] = had] EXCEPT ![l] = InsertAt(had, 1, d)]
        BY <3>2, <2>6, <2>8
      <4>2. f[b + k] = InsertAt(had, 1, d)
        BY <3>2, <2>7
      <4>3. LlAll(h) = [m \in LlLists |-> LlAll(h)[m]]
        BY DEF LlAll
      <4> QED
        BY <4>1, <4>2, <4>3
    <3> QED
      BY <3>1, <3>2
  <2>10. Cardinality(FreeNodes(z)) >= C - k
    <3>1. Cardinality(FreeNodes(g) \ {NewNode(g)}) = Cardinality(FreeNodes(g)) - 1
      BY <2>6, <1>3, FS_RemoveElement
    <3>2. Cardinality(FreeNodes(z)) \in {Cardinality(FreeNodes(g)), Cardinality(FreeNodes(g)) - 1}
      BY <3>1, <2>6
    <3>3. Cardinality(FreeNodes(g)) >= C - (k - 1)
      BY <1>6 DEF g
    <3> HIDE DEF C
    <3>4. C \in Nat /\ k \in Nat
      BY <1>3 DEF C
    <3> QED
      BY <3>2, <3>3, <3>4, <1>3
  <2> QED
    BY <2>6, <2>9, <2>10 DEF z
<1> HIDE DEF Added
<1>7. Added(up[N], N)
  <2> DEFINE D == {k \in 0..N : ~Added(up[k], k)}
  <2>1. D = {}
    <3>1. SUFFICES ASSUME D # {} PROVE FALSE
      OBVIOUS
    <3>2. D \in SUBSET Nat
      OBVIOUS
    <3>3. PICK k \in D : \A y \in D : k <= y
      BY <3>1, <3>2, LeastElement
    <3>4. k # 0
      BY <3>3, <1>5
    <3>5. k \in 1..N /\ k - 1 \in 0..N /\ k - 1 \notin D
      BY <3>3, <3>4
    <3> QED
      BY <3>3, <3>5, <1>6
  <2> QED
    BY <2>1
<1> QED
  BY <1>1, <1>7 DEF Added

\* One list is filled with what is collected of the items of another.
LEMMA LlCopyFills ==
  ASSUME NEW h, NEW c, LlKeeps(h, c), NEW src \in LlLists, NEW dst \in LlLists,
         Len(LlChain(h, src)) <= Cardinality(FreeNodes(delete_singly_ll(h, dst)))
  PROVE  LlGood(copy_singly_ll(h, src, dst)) /\ LlMove(h, copy_singly_ll(h, src, dst), dst)
<1> DEFINE e == delete_singly_ll(h, dst)
           s == LlContents(e, src)
           g == AddAll(e, dst, s)
<1>1. LlGood(e) /\ LlAll(e) = [LlAll(h) EXCEPT ![dst] = <<>>]
  BY LlDeleteAll
<1>2. copy_singly_ll(h, src, dst) = g
  BY DEF copy_singly_ll, singly_ll_set_comparison_fn
<1>3. Len(LlChain(h, src)) <= Cardinality(FreeNodes(e))
  OBVIOUS
<1> HIDE DEF e, g
<1>4. \A m \in LlLists : LlContents(e, m) = IF m = dst THEN <<>> ELSE LlContents(h, m)
  BY <1>1 DEF LlAll
<1>5. s \in Seq(LlData) /\ Len(s) \in Nat /\ Len(s) <= Cardinality(FreeNodes(e))
  <2>1. LlContents(h, src) \in Seq(LlData) /\ Len(LlContents(h, src)) = Len(LlChain(h, src))
    <3>1. /\ LlContents(h, src) \in Seq(LlData) /\ LlContents(h, src) = [i \in 1..Len(c[src]) |-> h.data[c[src][i]]]
          /\ LlChain(h, src) = c[src] /\ Len(c[src]) \in Nat
      BY LlChainsAre
    <3> QED
      BY <3>1
  <2>2. IsFiniteSet(FreeNodes(e)) /\ Cardinality(FreeNodes(e)) \in Nat
    <3>1. IsFiniteSet(LlNodes)
      BY LlBounds, FS_Interval DEF LlNodes
    <3> QED
      BY <3>1, FS_Subset, FS_CardinalityType DEF FreeNodes
  <2>3. CASE src = dst
    <3>1. s = <<>>
      BY <1>4, <2>3
    <3> QED
      BY <3>1, <2>2
  <2>4. CASE src # dst
    <3>1. s = LlContents(h, src)
      BY <1>4, <2>4
    <3> QED
      BY <3>1, <2>1, <1>3
  <2> QED
    BY <2>3, <2>4
<1>6. PICK f : Collects(f, s, Len(s)) /\ Lists!Collected(s) = f[Len(s)]
  BY <1>5, CollectedUnfolds
<1>7. LlGood(g) /\ LlAll(g) = [LlAll(e) EXCEPT ![dst] = Lists!Collected(s)]
  <2>1. LlContents(e, dst) = f[0]
    BY <1>4, <1>5, <1>6 DEF Collects
  <2>2. LlPartOf(s, s, 0)
    BY <1>5 DEF LlPartOf
  <2> HIDE DEF s
  <2>3. LET x == AddAll(e, dst, s)
        IN  LlGood(x) /\ LlAll(x) = [LlAll(e) EXCEPT ![dst] = f[0 + Len(s)]]
    <3>1. /\ LlGood(e) /\ dst \in LlLists /\ s \in Seq(LlData) /\ Len(s) <= Cardinality(FreeNodes(e))
          /\ LlPartOf(s, s, 0) /\ Collects(f, s, Len(s)) /\ LlContents(e, dst) = f[0]
      BY <1>1, <1>5, <1>6, <2>1, <2>2
    <3> QED
      BY ONLY <3>1, AddAllCollects
  <2>4. 0 + Len(s) = Len(s)
    BY <1>5
  <2> QED
    BY <2>3, <2>4, <1>6 DEF g
<1>8. LlAll(g) = [LlAll(h) EXCEPT ![dst] = Lists!Collected(s)]
  BY <1>1, <1>7 DEF LlAll
<1>9. LlMove(h, g, dst)
  <2>1. CASE src = dst
    <3>1. s = <<>>
      BY <1>4, <2>1
    <3>2. Lists!Collected(s) = <<>>
      BY <1>6, <3>1 DEF Collects
    <3> QED
      BY <3>2, <1>8 DEF LlMove
  <2>2. CASE src # dst
    <3>1. s = LlContents(h, src)
      BY <1>4, <2>2
    <3> QED
      BY <3>1, <1>8, <2>2 DEF LlMove
  <2> QED
    BY <2>1, <2>2
<1> QED
  BY <1>2, <1>7, <1>9

\* An empty list is filled with what is collected of the items of two others.
LEMMA LlUnionFills ==
  ASSUME NEW h, NEW c, LlKeeps(h, c), NEW l \in LlLists, NEW l1 \in LlLists \ {l}, NEW l2 \in LlLists \ {l},
         is_singly_ll_empty(h, l),
         Len(LlChain(h, l1)) + Len(LlChain(h, l2)) <= Cardinality(FreeNodes(h))
  PROVE  LlGood(union_singly_ll(h, l1, l2, l)) /\ LlMove(h, union_singly_ll(h, l1, l2, l), l)
<1> DEFINE fresh == init_singly_ll(h, l)
           s1 == LlContents(h, l1)
           s2 == LlContents(h, l2)
           t == s1 \o s2
           x == AddAll(h, l, s1)
           g == AddAll(x, l, s2)
<1>1. /\ s1 \in Seq(LlData) /\ Len(s1) \in Nat /\ s2 \in Seq(LlData) /\ Len(s2) \in Nat
      /\ Len(s1) + Len(s2) <= Cardinality(FreeNodes(h))
  <2>1. ASSUME NEW m \in LlLists
        PROVE  LlContents(h, m) \in Seq(LlData) /\ Len(LlContents(h, m)) = Len(LlChain(h, m))
    <3>1. /\ LlContents(h, m) \in Seq(LlData) /\ LlContents(h, m) = [k \in 1..Len(c[m]) |-> h.data[c[m][k]]]
          /\ LlChain(h, m) = c[m] /\ Len(c[m]) \in Nat
      BY LlChainsAre
    <3> QED
      BY <3>1
  <2>2. l1 \in LlLists /\ l2 \in LlLists
    OBVIOUS
  <2>3. s1 \in Seq(LlData) /\ s2 \in Seq(LlData) /\ Len(s1) = Len(LlChain(h, l1)) /\ Len(s2) = Len(LlChain(h, l2))
    BY <2>1, <2>2
  <2> HIDE DEF s1, s2
  <2>4. Len(s1) \in Nat /\ Len(s2) \in Nat
    BY <2>3
  <2> QED
    BY <2>3, <2>4
<1>2. fresh = h /\ LlContents(h, l) = <<>>
  <2>1. /\ Len(c[l]) = 0 /\ c[l] \in Seq(LlNodes) /\ h.count[l] = 0
        /\ LlContents(h, l) \in Seq(LlData) /\ LlContents(h, l) = [k \in 1..Len(c[l]) |-> h.data[c[l][k]]]
    BY LlChainsAre DEF is_singly_ll_empty
  <2>2. h \in LlHeaps /\ h.head \in [LlLists -> LlNodes \cup {NoLink}] /\ h.count \in [LlLists -> Nat]
    BY DEF LlHeaps, LlKeeps
  <2>3. h.head[l] = NoLink
    BY <2>1 DEF LlKeeps, LlRun, LlAt
  <2>4. [h.head EXCEPT ![l] = NoLink] = h.head /\ [h.count EXCEPT ![l] = 0] = h.count
    BY <2>1, <2>2, <2>3
  <2>a. fresh = [h EXCEPT !.head[l] = NoLink, !.count[l] = 0]
    BY DEF init_singly_ll
  <2>5. fresh = [next |-> h.next, data |-> h.data, live |-> h.live,
             head |-> [h.head EXCEPT ![l] = NoLink], count |-> [h.count EXCEPT ![l] = 0]]
    BY ONLY <2>2, <2>a DEF LlHeaps
  <2>6. h = [next |-> h.next, data |-> h.data, live |-> h.live, head |-> h.head, count |-> h.count]
    BY ONLY <2>2 DEF LlHeaps
  <2>7. LlContents(h, l) = <<>>
    <3>1. Len(LlContents(h, l)) = 0
      BY <2>1
    <3> QED
      BY <3>1, <2>1, EmptySeq
  <2> QED
    BY <2>4, <2>5, <2>6, <2>7
<1>3. union_singly_ll(h, l1, l2, l) = g
  BY <1>2 DEF union_singly_ll, singly_ll_set_comparison_fn
<1> HIDE DEF s1, s2, g, fresh
<1>4. /\ t \in Seq(LlData) /\ Len(t) = Len(s1) + Len(s2)
      /\ \A k \in 1..(Len(s1) + Len(s2)) : t[k] = IF k <= Len(s1) THEN s1[k] ELSE s2[k - Len(s1)]
  BY <1>1, ConcatProperties
<1> HIDE DEF t, x
<1>5. LlPartOf(s1, t, 0) /\ LlPartOf(s2, t, Len(s1))
  <2>1. \A k \in 1..Len(s1) : t[0 + k] = s1[k]
    BY <1>1, <1>4
  <2>2. ASSUME NEW k \in 1..Len(s2) PROVE t[Len(s1) + k] = s2[k]
    <3>1. Len(s1) + k \in 1..(Len(s1) + Len(s2)) /\ ~(Len(s1) + k <= Len(s1)) /\ (Len(s1) + k) - Len(s1) = k
      BY <1>1
    <3> QED
      BY <3>1, <1>4
  <2> QED
    BY <2>1, <2>2, <1>1, <1>4 DEF LlPartOf
<1>6. PICK f : Collects(f, t, Len(t)) /\ Lists!Collected(t) = f[Len(t)]
  <2>1. Len(t) \in Nat
    BY <1>4
  <2> QED
    BY <2>1, CollectedUnfolds
<1>7. f[0] = <<>>
  <2>1. 0 \in 0..Len(t)
    BY <1>4
  <2> QED
    BY <2>1, <1>6 DEF Collects
<1>8. Cardinality(FreeNodes(h)) \in Nat
  <2>1. IsFiniteSet(LlNodes)
    BY LlBounds, FS_Interval DEF LlNodes
  <2> QED
    BY <2>1, FS_Subset, FS_CardinalityType DEF FreeNodes
<1>9. /\ LlGood(x) /\ LlAll(x) = [LlAll(h) EXCEPT ![l] = f[Len(s1)]]
      /\ Cardinality(FreeNodes(x)) >= Cardinality(FreeNodes(h)) - Len(s1)
  <2>1. LlGood(h)
    BY DEF LlGood
  <2>2. Len(s1) <= Cardinality(FreeNodes(h)) /\ 0 + Len(s1) = Len(s1)
    BY <1>1, <1>8
  <2>3. LlContents(h, l) = f[0]
    BY <1>2, <1>7
  <2>4. LET y == AddAll(h, l, s1)
        IN  /\ LlGood(y) /\ LlAll(y) = [LlAll(h) EXCEPT ![l] = f[0 + Len(s1)]]
            /\ Cardinality(FreeNodes(y)) >= Cardinality(FreeNodes(h)) - Len(s1)
    <3>1. /\ LlGood(h) /\ l \in LlLists /\ s1 \in Seq(LlData) /\ Len(s1) <= Cardinality(FreeNodes(h))
          /\ t \in Seq(LlData) /\ LlPartOf(s1, t, 0) /\ Collects(f, t, Len(t)) /\ LlContents(h, l) = f[0]
      BY <2>1, <2>2, <2>3, <1>1, <1>4, <1>5, <1>6
    <3> QED
      BY ONLY <3>1, AddAllCollects
  <2> QED
    BY <2>2, <2>4 DEF x
<1>10. LlGood(g) /\ LlAll(g) = [LlAll(x) EXCEPT ![l] = f[Len(t)]]
  <2>1. Cardinality(FreeNodes(x)) \in Nat
    <3>1. IsFiniteSet(LlNodes)
      BY LlBounds, FS_Interval DEF LlNodes
    <3> QED
      BY <3>1, FS_Subset, FS_CardinalityType DEF FreeNodes
  <2>2. Len(s2) <= Cardinality(FreeNodes(x)) /\ Len(s1) + Len(s2) = Len(t)
    BY <2>1, <1>1, <1>4, <1>8, <1>9
  <2>3. LlContents(x, l) = f[Len(s1)]
    <3>1. LlAll(x)[l] = f[Len(s1)]
      BY <1>9 DEF LlAll
    <3> QED
      BY <3>1 DEF LlAll
  <2>4. LET y == AddAll(x, l, s2)
        IN  LlGood(y) /\ LlAll(y) = [LlAll(x) EXCEPT ![l] = f[Len(s1) + Len(s2)]]
    <3>1. /\ LlGood(x) /\ l \in LlLists /\ s2 \in Seq(LlData) /\ Len(s2) <= Cardinality(FreeNodes(x))
          /\ t \in Seq(LlData) /\ LlPartOf(s2, t, Len(s1)) /\ Collects(f, t, Len(t)) /\ LlContents(x, l) = f[Len(s1)]
      BY <2>2, <2>3, <1>1, <1>4, <1>5, <1>6, <1>9
    <3> QED
      BY ONLY <3>1, AddAllCollects
  <2> QED
    BY <2>2, <2>4 DEF g
<1>11. LlAll(g) = [LlAll(h) EXCEPT ![l] = Lists!Collected(t)]
  BY <1>6, <1>9, <1>10 DEF LlAll
<1>12. LlMove(h, g, l)
  BY <1>11 DEF LlMove, t, s1, s2
<1> QED
  BY <1>3, <1>10, <1>12

----------------------------------------------------------------------------
(* The steps, the invariant, and the theorems. *)

\* A call outside a loop.
LEMMA LlCallMoves ==
  ASSUME NEW c, LlKeeps(heap, c), LlCall
  PROVE  LlGood(heap') /\ \E l \in LlLists : LlMove(heap, heap', l)
<1>1. PICK l \in LlLists :
         \/ \E d \in LlData : FreeNodes(heap) # {} /\ heap' = singly_ll_add_node_by_val(heap, l, d)
         \/ \E d \in LlData : FreeNodes(heap) # {} /\ heap' = singly_ll_add_ordered_data(heap, l, d)
         \/ \E n \in Loose(heap) : heap' = singly_ll_add_node(heap, l, n)
         \/ \E n \in Range(LlChain(heap, l)) : heap' = singly_ll_delete_node(heap, l, n)
         \/ \E n \in heap.live : heap' = singly_ll_remove_node(heap, l, n)
         \/ \E d \in LlData : heap' = singly_ll_delete_node_by_value(heap, l, d)
         \/ \E d \in LlData : heap' = singly_ll_remove_node_by_value(heap, l, d)
         \/ \E d \in LlData : heap' = singly_ll_remove_node_by_dataptr(heap, l, d)
         \/ \E d \in LlData : heap' = singly_ll_delete_node_by_data_ptr(heap, l, d)
         \/ heap' = reverse_singly_ll(heap, l)
         \/ heap' = delete_singly_ll(heap, l)
         \/ \E src \in LlLists : /\ Len(LlChain(heap, src)) <= Cardinality(FreeNodes(delete_singly_ll(heap, l)))
                                 /\ heap' = copy_singly_ll(heap, src, l)
         \/ \E l1, l2 \in LlLists \ {l} :
              /\ is_singly_ll_empty(heap, l)
              /\ Len(LlChain(heap, l1)) + Len(LlChain(heap, l2)) <= Cardinality(FreeNodes(heap))
              /\ heap' = union_singly_ll(heap, l1, l2, l)
  BY DEF LlCall
<1> SUFFICES LlGood(heap') /\ LlMove(heap, heap', l)
  OBVIOUS
<1>2. CASE \E d \in LlData : FreeNodes(heap) # {} /\ heap' = singly_ll_add_node_by_val(heap, l, d)
  <2>1. PICK d \in LlData : FreeNodes(heap) # {} /\ heap' = singly_ll_add_node_by_val(heap, l, d)
    BY <1>2
  <2>2. LlGood(singly_ll_add_node_by_val(heap, l, d)) /\ LlMove(heap, singly_ll_add_node_by_val(heap, l, d), l)
    BY <2>1, LlAddByVal
  <2> QED
    BY <2>1, <2>2
<1>3. CASE \E d \in LlData : FreeNodes(heap) # {} /\ heap' = singly_ll_add_ordered_data(heap, l, d)
  BY <1>3, LlAddOrdered
<1>4. CASE \E n \in Loose(heap) : heap' = singly_ll_add_node(heap, l, n)
  BY <1>4, LlAddLoose
<1>5. CASE \E n \in Range(LlChain(heap, l)) : heap' = singly_ll_delete_node(heap, l, n)
  <2>1. PICK n \in Range(LlChain(heap, l)) : heap' = singly_ll_delete_node(heap, l, n)
    BY <1>5
  <2>2. PICK k \in 1..Len(c[l]) : n = c[l][k]
    BY LlChainsAre DEF Range
  <2> QED
    BY <2>1, <2>2, LlDeleteNode
<1>6. CASE \E n \in heap.live : heap' = singly_ll_remove_node(heap, l, n)
  BY <1>6, LlRemoveIfThere
<1>7. CASE \/ \E d \in LlData : heap' = singly_ll_delete_node_by_value(heap, l, d)
           \/ \E d \in LlData : heap' = singly_ll_remove_node_by_value(heap, l, d)
           \/ \E d \in LlData : heap' = singly_ll_remove_node_by_dataptr(heap, l, d)
           \/ \E d \in LlData : heap' = singly_ll_delete_node_by_data_ptr(heap, l, d)
  BY <1>7, LlByValue
<1>8. CASE heap' = reverse_singly_ll(heap, l)
  BY <1>8, LlReverse
<1>9. CASE heap' = delete_singly_ll(heap, l)
  <2>1. LlGood(delete_singly_ll(heap, l)) /\ LlMove(heap, delete_singly_ll(heap, l), l)
    BY LlDeleteAll
  <2> QED
    BY <1>9, <2>1
<1>10. CASE \E src \in LlLists : /\ Len(LlChain(heap, src)) <= Cardinality(FreeNodes(delete_singly_ll(heap, l)))
                                /\ heap' = copy_singly_ll(heap, src, l)
  BY <1>10, LlCopyFills
<1>11. CASE \E l1, l2 \in LlLists \ {l} :
              /\ is_singly_ll_empty(heap, l)
              /\ Len(LlChain(heap, l1)) + Len(LlChain(heap, l2)) <= Cardinality(FreeNodes(heap))
              /\ heap' = union_singly_ll(heap, l1, l2, l)
  BY <1>11, LlUnionFills
<1> QED
  BY <1>1, <1>2, <1>3, <1>4, <1>5, <1>6, <1>7, <1>8, <1>9, <1>10, <1>11

\* The chains of a heap are the lists it holds.
LEMMA LlHeldAreChains ==
  ASSUME NEW c, LlKeeps(heap, c)
  PROVE  c = LlChains
<1>1. c = [l \in LlLists |-> c[l]]
  BY DEF LlKeeps
<1>2. \A l \in LlLists : LlChain(heap, l) = c[l]
  BY LlChainsAre
<1>3. [l \in LlLists |-> LlChain(heap, l)] = [l \in LlLists |-> c[l]]
  BY <1>2
<1> QED
  BY <1>1, <1>3 DEF LlChains

\* The empty heap.
LEMMA LlInvInit == LlInit => LlInv /\ Lists!ListsInit
<1> SUFFICES ASSUME LlInit PROVE LlInv /\ Lists!ListsInit
  OBVIOUS
<1> DEFINE c == [l \in LlLists |-> <<>>]
<1>1. heap \in LlHeaps
  BY DEF LlInit, LlHeaps, NoLink
<1>2. LlKeeps(heap, c)
  <2>1. c \in [LlLists -> Seq(LlNodes)] /\ \A l \in LlLists : c[l] = <<>> /\ Len(c[l]) = 0
    OBVIOUS
  <2> HIDE DEF c
  <2>2. LlApart(c)
    BY <2>1 DEF LlApart
  <2>3. ASSUME NEW l \in LlLists
        PROVE  /\ LlRun(heap.next, heap.head[l], c[l]) /\ heap.count[l] = Len(c[l])
               /\ \A i \in 1..Len(c[l]) : c[l][i] \in heap.live
    BY <2>1 DEF LlInit, LlRun, LlAt
  <2>4. \A n \in LlNodes : heap.next[n] = NoLink
    BY DEF LlInit
  <2>5. heap.live = {}
    BY DEF LlInit
  <2> QED
    BY <1>1, <2>1, <2>2, <2>3, <2>4, <2>5 DEF LlKeeps
<1> HIDE DEF c
<1>3. c = LlChains
  BY <1>2, LlHeldAreChains
<1>4. LlLoopIn(loop, LlChains)
  BY DEF LlInit, LlLoopIn, Idle_loop
<1>5. Lists!ListsInit
  <2>1. ASSUME NEW l \in LlLists PROVE LlContents(heap, l) = <<>>
    <3>1. c[l] = <<>> /\ LlContents(heap, l) = [i \in 1..Len(c[l]) |-> heap.data[c[l][i]]]
          /\ LlContents(heap, l) \in Seq(LlData)
      BY <1>2, LlChainsAre DEF c
    <3>2. Len(LlContents(heap, l)) = 0
      BY <3>1
    <3> QED
      BY <3>1, <3>2, EmptySeq
  <2> QED
    BY <2>1 DEF Lists!ListsInit
<1> QED
  BY <1>2, <1>3, <1>4, <1>5 DEF LlInv

\* A loop begins with the first node.
LEMMA LlLoopBegins ==
  ASSUME LlInv, NEW l \in LlLists, loop_begin2(l)
  PROVE  LlInv'
<1> DEFINE c == LlChains
<1>1. /\ LlKeeps(heap, c) /\ UNCHANGED heap /\ heap.head[l] # NoLink
      /\ loop' = [l |-> l, node |-> heap.head[l], saved |-> heap.next[heap.head[l]], prev |-> NoLink]
  BY DEF LlInv, loop_begin2
<1> HIDE DEF c
<1>2. c' = c
  BY <1>1 DEF c, LlChains
<1>3. Len(c[l]) \in Nat /\ heap.head[l] = LlAt(c[l], 1)
  BY <1>1, LlChainsAre DEF LlKeeps, LlRun
<1>4. 1 \in 1..Len(c[l])
  BY <1>1, <1>3 DEF LlAt
<1>5. c[l][1] \in LlNodes /\ heap.head[l] = c[l][1] /\ heap.next[c[l][1]] = LlAt(c[l], 2)
  BY <1>1, <1>3, <1>4, LlPlaceIs DEF LlAt
<1>6. LlAt(c[l], 2) \in LlNodes \cup {NoLink} /\ LlAt(c[l], 0) = NoLink
  BY <1>1, LlPlaceIs DEF LlAt
<1>7. LlLoopIn(loop', c)
  <2>1. loop' = [l |-> l, node |-> c[l][1], saved |-> LlAt(c[l], 2), prev |-> NoLink]
    BY <1>1, <1>5
  <2>2. loop' \in [l : LlLists \cup {"none"}, node : LlNodes \cup {NoLink},
                   saved : LlNodes \cup {NoLink}, prev : LlNodes \cup {NoLink}]
    BY <2>1, <1>5, <1>6
  <2>3. loop'.l = l /\ loop'.prev = LlAt(c[l], 1 - 1) /\ loop'.node = c[l][1] /\ loop'.saved = LlAt(c[l], 1 + 1)
    BY <2>1, <1>6
  <2> QED
    BY <2>2, <2>3, <1>3, <1>4 DEF LlLoopIn
<1> QED
  BY <1>1, <1>2, <1>7 DEF LlInv, c

\* A loop goes on, or ends.
LEMMA LlLoopGoesOn ==
  ASSUME LlInv, loop_end2
  PROVE  LlInv'
<1> DEFINE c == LlChains
           l == loop.l
<1>1. /\ LlKeeps(heap, c) /\ LlLoopIn(loop, c) /\ UNCHANGED heap /\ loop # Idle_loop
      /\ loop' = IF loop.saved = NoLink THEN Idle_loop
                 ELSE [loop EXCEPT !.prev = IF loop.node # NoLink THEN loop.node ELSE @,
                                   !.node = loop.saved, !.saved = Next_of(heap, loop.saved)]
  BY DEF LlInv, loop_end2
<1> HIDE DEF c
<1>2. c' = c
  BY <1>1 DEF c, LlChains
<1>3. l \in LlLists /\ loop \in [l : LlLists \cup {"none"}, node : LlNodes \cup {NoLink},
                                 saved : LlNodes \cup {NoLink}, prev : LlNodes \cup {NoLink}]
  BY <1>1 DEF LlLoopIn
<1>4. PICK k \in 1..(Len(c[l]) + 1) :
         /\ loop.prev = LlAt(c[l], k - 1)
         /\ \/ loop.node = NoLink /\ loop.saved = LlAt(c[l], k)
            \/ k <= Len(c[l]) /\ loop.node = c[l][k] /\ loop.saved = LlAt(c[l], k + 1)
  BY <1>1 DEF LlLoopIn
<1>5. Len(c[l]) \in Nat
  BY <1>1, <1>3, LlChainsAre
<1>6. \A i \in 1..Len(c[l]) : c[l][i] \in LlNodes /\ c[l][i] # NoLink /\ heap.next[c[l][i]] = LlAt(c[l], i + 1)
  BY <1>1, <1>3, LlPlaceIs
<1>7. \A i \in Nat : LlAt(c[l], i) \in LlNodes \cup {NoLink} /\ (LlAt(c[l], i) # NoLink => i \in 1..Len(c[l]) /\ LlAt(c[l], i) = c[l][i])
  BY <1>6 DEF LlAt
<1>8. CASE loop.saved = NoLink
  BY <1>1, <1>2, <1>8 DEF LlInv, LlLoopIn, Idle_loop, c
<1>9. CASE loop.saved # NoLink
  <2> DEFINE j == IF loop.node = NoLink THEN k ELSE k + 1
  <2>1. /\ j \in 1..Len(c[l]) /\ loop.saved = c[l][j]
        /\ LlAt(c[l], j - 1) = IF loop.node # NoLink THEN loop.node ELSE loop.prev
    <3>1. CASE loop.node = NoLink
      <4>1. loop.saved = LlAt(c[l], k)
        BY <3>1, <1>4, <1>6
      <4> QED
        BY <4>1, <3>1, <1>4, <1>5, <1>7, <1>9
    <3>2. CASE loop.node # NoLink
      <4>1. k <= Len(c[l]) /\ loop.node = c[l][k] /\ loop.saved = LlAt(c[l], k + 1)
        BY <3>2, <1>4
      <4>2. LlAt(c[l], (k + 1) - 1) = c[l][k]
        BY <4>1, <1>5 DEF LlAt
      <4> QED
        BY <4>1, <4>2, <3>2, <1>5, <1>7, <1>9
    <3> QED
      BY <3>1, <3>2
  <2> HIDE DEF j
  <2>2. /\ loop'.l = l /\ loop'.prev = LlAt(c[l], j - 1) /\ loop'.node = c[l][j] /\ loop'.saved = LlAt(c[l], j + 1)
        /\ loop' = [l |-> loop'.l, node |-> loop'.node, saved |-> loop'.saved, prev |-> loop'.prev]
    <3>1. loop' = [loop EXCEPT !.prev = IF loop.node # NoLink THEN loop.node ELSE @,
                               !.node = loop.saved, !.saved = Next_of(heap, loop.saved)]
      BY <1>1, <1>9
    <3>2. Next_of(heap, loop.saved) = LlAt(c[l], j + 1)
      BY <2>1, <1>6 DEF Next_of
    <3> QED
      BY <3>1, <3>2, <2>1, <1>3
  <2>3. LlLoopIn(loop', c)
    <3>1. j - 1 \in Nat /\ j \in Nat /\ j + 1 \in Nat
      BY <2>1
    <3>2. loop' \in [l : LlLists \cup {"none"}, node : LlNodes \cup {NoLink},
                     saved : LlNodes \cup {NoLink}, prev : LlNodes \cup {NoLink}]
      BY <2>1, <2>2, <3>1, <1>3, <1>6, <1>7
    <3>3. j \in 1..(Len(c[l]) + 1) /\ j <= Len(c[l])
      BY <2>1, <1>5
    <3> QED
      BY <2>2, <3>2, <3>3, <1>3 DEF LlLoopIn
  <2> QED
    BY <1>1, <1>2, <2>3 DEF LlInv, c
<1> QED
  BY <1>8, <1>9

\* A loop deletes its node.
LEMMA LlLoopDeletes ==
  ASSUME LlInv, loop_delete2
  PROVE  LlInv' /\ LlMove(heap, heap', loop.l) /\ loop.l \in LlLists
<1> DEFINE c == LlChains
           l == loop.l
           n == loop.node
           after == heap.next[loop.node]
           unlinked == IF loop.prev = NoLink THEN [heap EXCEPT !.head[loop.l] = after]
                       ELSE [heap EXCEPT !.next[loop.prev] = after]
           b == [unlinked EXCEPT !.count[loop.l] = @ - 1]
<1>1. /\ LlKeeps(heap, c) /\ LlLoopIn(loop, c) /\ n # NoLink
      /\ heap' = LlFree(b, {n}) /\ loop' = [loop EXCEPT !.node = NoLink]
  BY DEF LlInv, loop_delete2
<1> HIDE DEF c
<1>2. l \in LlLists /\ loop \in [l : LlLists \cup {"none"}, node : LlNodes \cup {NoLink},
                                 saved : LlNodes \cup {NoLink}, prev : LlNodes \cup {NoLink}]
  BY <1>1 DEF LlLoopIn, Idle_loop
<1>3. PICK k \in 1..Len(c[l]) : loop.prev = LlAt(c[l], k - 1) /\ n = c[l][k] /\ loop.saved = LlAt(c[l], k + 1)
  <2>1. loop # Idle_loop
    BY <1>1 DEF Idle_loop
  <2>2. Len(c[l]) \in Nat
    BY <1>1, <1>2, LlChainsAre
  <2> QED
    BY <1>1, <2>1, <2>2 DEF LlLoopIn
<1>4. /\ Len(c[l]) \in Nat /\ c[l] \in Seq(LlNodes) /\ heap.next[n] = LlAt(c[l], k + 1)
      /\ \A i \in 1..Len(c[l]) : c[l][i] \in LlNodes /\ c[l][i] # NoLink
  BY <1>1, <1>2, <1>3, LlPlaceIs, LlChainsAre
<1>5. /\ heap \in LlHeaps /\ heap.next \in [LlNodes -> LlNodes \cup {NoLink}] /\ heap.data \in [LlNodes -> Nat]
      /\ heap.live \in SUBSET LlNodes /\ heap.head \in [LlLists -> LlNodes \cup {NoLink}]
      /\ heap.count \in [LlLists -> Nat] /\ heap.count[l] = Len(c[l]) /\ Len(c[l]) # 0
  BY <1>1, <1>2, <1>3, LlChainsAre DEF LlHeaps, LlKeeps
<1>6. after = LlAt(c[l], k + 1) /\ after \in LlNodes \cup {NoLink}
  BY <1>4 DEF LlAt
<1>7. LlBypassed(heap, c, l, k, b)
  <2>1. CASE k = 1
    <3>1. loop.prev = NoLink
      BY <1>3, <2>1 DEF LlAt
    <3>2. b = [[heap EXCEPT !.head[l] = after] EXCEPT !.count[l] = @ - 1]
      BY <3>1
    <3> HIDE DEF b, after
    <3>3. /\ b.next = heap.next /\ b.data = heap.data /\ b.live = heap.live /\ b.head = [heap.head EXCEPT ![l] = after]
          /\ b.count = [heap.count EXCEPT ![l] = @ - 1]
          /\ b = [next |-> b.next, data |-> b.data, live |-> b.live, head |-> b.head, count |-> b.count]
      BY ONLY <3>2, <1>5 DEF LlHeaps
    <3>4. b.head \in [LlLists -> LlNodes \cup {NoLink}] /\ b.count \in [LlLists -> Nat]
      BY <3>3, <1>2, <1>5, <1>6
    <3>5. b \in LlHeaps
      BY ONLY <3>3, <3>4, <1>5 DEF LlHeaps
    <3> QED
      BY <3>3, <3>5, <2>1, <1>1, <1>2, <1>6 DEF LlBypassed
  <2>2. CASE k # 1
    <3>1. loop.prev = c[l][k - 1] /\ loop.prev \in LlNodes /\ loop.prev # NoLink
      BY <1>3, <1>4, <2>2 DEF LlAt
    <3>2. b = [[heap EXCEPT !.next[loop.prev] = after] EXCEPT !.count[l] = @ - 1]
      BY <3>1
    <3> HIDE DEF b, after
    <3>3. /\ b.head = heap.head /\ b.data = heap.data /\ b.live = heap.live /\ b.next = [heap.next EXCEPT ![loop.prev] = after]
          /\ b.count = [heap.count EXCEPT ![l] = @ - 1]
          /\ b = [next |-> b.next, data |-> b.data, live |-> b.live, head |-> b.head, count |-> b.count]
      BY ONLY <3>2, <1>5 DEF LlHeaps
    <3>4. b.next \in [LlNodes -> LlNodes \cup {NoLink}] /\ b.count \in [LlLists -> Nat]
      <4>1. b.next \in [LlNodes -> LlNodes \cup {NoLink}]
        BY <3>1, <3>3, <1>5, <1>6 DEF after
      <4>2. b.count \in [LlLists -> Nat]
        BY <3>3, <1>2, <1>5
      <4> QED
        BY <4>1, <4>2
    <3>5. b \in LlHeaps
      BY ONLY <3>3, <3>4, <1>5 DEF LlHeaps
    <3>6. \A m \in LlNodes : b.next[m] = IF m = c[l][k - 1] THEN after ELSE heap.next[m]
      BY <3>1, <3>3, <1>5
    <3> QED
      BY <3>3, <3>5, <3>6, <2>2, <1>1, <1>2, <1>6 DEF LlBypassed
  <2> QED
    BY <2>1, <2>2
<1> HIDE DEF b, after
<1> DEFINE d == [c EXCEPT ![l] = RemoveAt(c[l], k)]
<1>8. LlKeeps(heap', d) /\ LlMove(heap, heap', l)
  <2>1. heap' = LlFree(b, {c[l][k]})
    BY <1>1, <1>3
  <2> QED
    BY <2>1, <1>7, LlBypassedGoes
<1>9. d[l] = RemoveAt(c[l], k)
  BY <1>1, <1>2 DEF LlKeeps
<1>10. /\ Len(d[l]) = Len(c[l]) - 1
       /\ \A i \in 1..(Len(c[l]) - 1) : d[l][i] = IF i < k THEN c[l][i] ELSE c[l][i + 1]
  <2> DEFINE s == c[l]
             u == RemoveAt(s, k)
  <2>1. MayGoOut(LlNodes, s, k)
    BY <1>4 DEF MayGoOut
  <2>2. HasOneLess(LlNodes, s, k, RemoveAt(s, k))
    BY ONLY <2>1, GoesOut
  <2>3. Len(u) = Len(s) - 1 /\ \A i \in 1..(Len(s) - 1) : u[i] = IF i < k THEN s[i] ELSE s[i + 1]
    BY ONLY <2>2 DEF HasOneLess, u
  <2> QED
    BY <2>3, <1>9
<1> HIDE DEF d
<1>11. /\ k \in 1..(Len(d[l]) + 1)
       /\ LlAt(d[l], k - 1) = LlAt(c[l], k - 1) /\ LlAt(d[l], k) = LlAt(c[l], k + 1)
  BY <1>3, <1>4, <1>10 DEF LlAt
<1>12. LlLoopIn(loop', d)
  <2>1. loop'.l = l /\ loop'.prev = loop.prev /\ loop'.node = NoLink /\ loop'.saved = loop.saved
        /\ loop' \in [l : LlLists \cup {"none"}, node : LlNodes \cup {NoLink},
                      saved : LlNodes \cup {NoLink}, prev : LlNodes \cup {NoLink}]
    BY <1>1, <1>2
  <2> QED
    BY <2>1, <1>2, <1>3, <1>11 DEF LlLoopIn
<1>13. d = LlChains'
  <2>1. d = [m \in LlLists |-> d[m]]
    BY <1>8 DEF LlKeeps
  <2>2. \A m \in LlLists : LlChain(heap', m) = d[m]
    BY <1>8, LlChainsAre
  <2>3. [m \in LlLists |-> LlChain(heap', m)] = [m \in LlLists |-> d[m]]
    BY <2>2
  <2> QED
    BY <2>1, <2>3 DEF LlChains
<1> QED
  BY <1>2, <1>8, <1>12, <1>13 DEF LlInv

\* Every step keeps the lists, and is one that lists of items may take.
LEMMA LlInvNext ==
  ASSUME LlInv, [LlNext]_llVars
  PROVE  LlInv' /\ (LlAll(heap') = LlAll(heap) \/ \E l \in LlLists : LlMove(heap, heap', l))
<1>1. CASE LlCall
  <2>1. LlKeeps(heap, LlChains) /\ LlLoopIn(loop, LlChains)
    BY DEF LlInv
  <2>2. LlGood(heap') /\ \E l \in LlLists : LlMove(heap, heap', l)
    BY <2>1, <1>1, LlCallMoves
  <2>3. PICK c : LlKeeps(heap', c)
    BY <2>2 DEF LlGood
  <2>4. c = LlChains'
    <3>1. c = [m \in LlLists |-> c[m]]
      BY <2>3 DEF LlKeeps
    <3>2. \A m \in LlLists : LlChain(heap', m) = c[m]
      BY <2>3, LlChainsAre
    <3>3. [m \in LlLists |-> LlChain(heap', m)] = [m \in LlLists |-> c[m]]
      BY <3>2
    <3> QED
      BY <3>1, <3>3 DEF LlChains
  <2>5. LlLoopIn(loop', LlChains')
    BY <1>1 DEF LlCall, LlLoopIn, Idle_loop
  <2> QED
    BY <2>2, <2>3, <2>4, <2>5 DEF LlInv
<1>2. CASE loop_end2
  <2>1. LlAll(heap') = LlAll(heap)
    BY <1>2 DEF loop_end2
  <2> QED
    BY <1>2, <2>1, LlLoopGoesOn
<1>3. CASE loop_delete2
  BY <1>3, LlLoopDeletes
<1>4. CASE \E l \in LlLists : loop_begin2(l)
  <2>1. LlAll(heap') = LlAll(heap)
    BY <1>4 DEF loop_begin2
  <2> QED
    BY <1>4, <2>1, LlLoopBegins
<1>5. CASE UNCHANGED llVars
  <2>1. heap' = heap /\ loop' = loop
    BY <1>5 DEF llVars
  <2>2. LlChains' = LlChains /\ LlAll(heap') = LlAll(heap)
    BY <2>1 DEF LlChains
  <2> QED
    BY <2>1, <2>2 DEF LlInv
<1> QED
  BY <1>1, <1>2, <1>3, <1>4, <1>5 DEF LlNext

\* What the invariant says of the lists and of a loop.
LEMMA LlInvSuffices == LlInv => LlSound
<1> SUFFICES ASSUME LlInv PROVE LlSound
  OBVIOUS
<1> DEFINE c == LlChains
           l == loop.l
<1>1. LlKeeps(heap, c) /\ LlLoopIn(loop, c)
  BY DEF LlInv
<1> HIDE DEF c
<1>2. \A m \in LlLists : /\ LlChain(heap, m) = c[m] /\ Len(c[m]) \in Nat /\ heap.count[m] = Len(c[m])
                         /\ Range(c[m]) = {c[m][i] : i \in 1..Len(c[m])}
  BY <1>1, LlChainsAre DEF Range
<1>3. ASSUME NEW m \in LlLists
      PROVE  /\ Len(LlChain(heap, m)) = heap.count[m]
             /\ Range(LlChain(heap, m)) \subseteq heap.live
             /\ \A k \in LlLists \ {m} : Range(LlChain(heap, m)) \cap Range(LlChain(heap, k)) = {}
  <2>1. Range(LlChain(heap, m)) \subseteq heap.live
    BY <1>1, <1>2 DEF LlKeeps
  <2>2. ASSUME NEW k \in LlLists \ {m}, NEW n \in Range(LlChain(heap, m)), n \in Range(LlChain(heap, k))
        PROVE  FALSE
    <3>1. PICK i \in 1..Len(c[m]) : n = c[m][i]
      BY <1>2
    <3>2. PICK j \in 1..Len(c[k]) : n = c[k][j]
      <4>1. k \in LlLists
        OBVIOUS
      <4>2. LlChain(heap, k) = c[k] /\ Range(c[k]) = {c[k][q] : q \in 1..Len(c[k])}
        BY <4>1, <1>2
      <4>3. n \in {c[k][q] : q \in 1..Len(c[k])}
        BY <4>2, <2>2
      <4> QED
        BY <4>3
    <3> QED
      BY <3>1, <3>2, <1>1 DEF LlKeeps, LlApart
  <2> QED
    BY <2>1, <2>2, <1>2
<1> DEFINE here == IF loop.node # NoLink THEN loop.node ELSE loop.saved
<1>4. ASSUME loop # Idle_loop
      PROVE  /\ here = IF loop.prev = NoLink THEN heap.head[l] ELSE heap.next[loop.prev]
             /\ {loop.node, loop.saved, loop.prev} \subseteq heap.live \cup {NoLink}
             /\ loop.saved = IF loop.node # NoLink THEN heap.next[loop.node] ELSE here
  <2>1. l \in LlLists
    BY <1>1, <1>4 DEF LlLoopIn
  <2>2. PICK k \in 1..(Len(c[l]) + 1) :
           /\ loop.prev = LlAt(c[l], k - 1)
           /\ \/ loop.node = NoLink /\ loop.saved = LlAt(c[l], k)
              \/ k <= Len(c[l]) /\ loop.node = c[l][k] /\ loop.saved = LlAt(c[l], k + 1)
    BY <1>1, <1>4 DEF LlLoopIn
  <2>3. Len(c[l]) \in Nat
    BY <1>2, <2>1
  <2>4. \A i \in 1..Len(c[l]) : c[l][i] \in heap.live /\ c[l][i] # NoLink /\ heap.next[c[l][i]] = LlAt(c[l], i + 1)
    BY <1>1, <2>1, LlPlaceIs
  <2>5. heap.head[l] = LlAt(c[l], 1)
    BY <1>1, <2>1 DEF LlKeeps, LlRun
  <2>6. here = LlAt(c[l], k) /\ loop.saved = IF loop.node # NoLink THEN heap.next[loop.node] ELSE here
    BY <2>2, <2>3, <2>4 DEF LlAt
  <2>7. LlAt(c[l], k) = IF loop.prev = NoLink THEN heap.head[l] ELSE heap.next[loop.prev]
    <3>1. CASE k = 1
      <4>1. loop.prev = NoLink
        BY <3>1, <2>2 DEF LlAt
      <4> QED
        BY <3>1, <4>1, <2>5
    <3>2. CASE k # 1
      <4>1. k - 1 \in 1..Len(c[l]) /\ (k - 1) + 1 = k
        BY <3>2, <2>3
      <4>2. loop.prev = c[l][k - 1] /\ loop.prev # NoLink /\ heap.next[loop.prev] = LlAt(c[l], k)
        BY <4>1, <2>2, <2>4 DEF LlAt
      <4> QED
        BY <4>2
    <3> QED
      BY <3>1, <3>2
  <2>8. \A i \in Nat : LlAt(c[l], i) \in heap.live \cup {NoLink}
    BY <2>4 DEF LlAt
  <2>9. {loop.node, loop.saved, loop.prev} \subseteq heap.live \cup {NoLink}
    <3>1. k - 1 \in Nat /\ k \in Nat /\ k + 1 \in Nat
      BY <2>3
    <3>2. loop.prev \in heap.live \cup {NoLink} /\ loop.saved \in heap.live \cup {NoLink}
      BY <3>1, <2>2, <2>8
    <3>3. loop.node \in heap.live \cup {NoLink}
      BY <2>2, <2>3, <2>4
    <3> QED
      BY <3>2, <3>3
  <2> HIDE DEF here
  <2> QED
    BY <2>6, <2>7, <2>9
<1> QED
  BY <1>3, <1>4 DEF LlSound

\* What one call makes of the items, lists of items may do.
LEMMA LlMoveIsAllowed ==
  ASSUME NEW l \in LlLists, LlMove(heap, heap', l)
  PROVE  [Lists!ListsNext]_(LlAll(heap))
<1>1. /\ \A s : Lists!Reverse(s) = Reverse(s)
      /\ \A s, k, e : Lists!InsertAt(s, k, e) = InsertAt(s, k, e)
      /\ \A s, k : Lists!RemoveAt(s, k) = RemoveAt(s, k)
  BY DEF Lists!Reverse, Reverse, Lists!InsertAt, InsertAt, Lists!RemoveAt, RemoveAt
<1>2. \A m \in LlLists : LlAll(heap)[m] = LlContents(heap, m)
  BY DEF LlAll
<1>3. \A m \in LlLists : \A s : Lists!Becomes(m, s) <=> LlAll(heap') = [LlAll(heap) EXCEPT ![m] = s]
  BY DEF Lists!Becomes, LlAll
<1> DEFINE had == LlContents(heap, l)
           Becomes(s) == LlAll(heap') = [LlAll(heap) EXCEPT ![l] = s]
<1>4. \/ LlAll(heap') = LlAll(heap)
      \/ \E d \in LlData, k \in 1..(Len(had) + 1) : Becomes(InsertAt(had, k, d))
      \/ \E k \in 1..Len(had) : Becomes(RemoveAt(had, k))
      \/ Becomes(Reverse(had))
      \/ Becomes(<<>>)
      \/ \E m \in LlLists \ {l} : Becomes(Lists!Collected(LlContents(heap, m)))
      \/ \E m, o \in LlLists \ {l} : Becomes(Lists!Collected(LlContents(heap, m) \o LlContents(heap, o)))
  BY DEF LlMove
<1>5. CASE LlAll(heap') = LlAll(heap)
  BY <1>5
<1>6. CASE \E d \in LlData, k \in 1..(Len(had) + 1) : Becomes(InsertAt(had, k, d))
  <2>1. Lists!Appears(l)
    BY <1>6, <1>1, <1>2, <1>3 DEF Lists!Appears, LlAll
  <2> QED
    BY <2>1 DEF Lists!ListsNext
<1>7. CASE \E k \in 1..Len(had) : Becomes(RemoveAt(had, k))
  <2>1. Lists!Disappears(l)
    BY <1>7, <1>1, <1>2, <1>3 DEF Lists!Disappears, LlAll
  <2> QED
    BY <2>1 DEF Lists!ListsNext
<1>8. CASE Becomes(Reverse(had))
  <2>1. Lists!TurnsRound(l)
    BY <1>8, <1>1, <1>2, <1>3 DEF Lists!TurnsRound, LlAll
  <2> QED
    BY <2>1 DEF Lists!ListsNext
<1>9. CASE Becomes(<<>>)
  <2>1. Lists!IsEmptied(l)
    BY <1>9, <1>3 DEF Lists!IsEmptied
  <2> QED
    BY <2>1 DEF Lists!ListsNext
<1>10. CASE \/ \E m \in LlLists \ {l} : Becomes(Lists!Collected(LlContents(heap, m)))
            \/ \E m, o \in LlLists \ {l} : Becomes(Lists!Collected(LlContents(heap, m) \o LlContents(heap, o)))
  <2>1. Lists!IsFilled(l)
    BY <1>10, <1>2, <1>3 DEF Lists!IsFilled, LlAll
  <2> QED
    BY <2>1 DEF Lists!ListsNext
<1> QED
  BY <1>4, <1>5, <1>6, <1>7, <1>8, <1>9, <1>10

\* In every reachable state the heap holds its chains, and a loop stands in one.
LEMMA LlListsAreKept == LlSpec => []LlInv
<1>1. LlInit => LlInv
  BY LlInvInit
<1>2. LlInv /\ [LlNext]_llVars => LlInv'
  BY LlInvNext
<1> QED
  BY <1>1, <1>2, PTL DEF LlSpec

\* Whatever is called, and whatever a loop deletes on its way, every list ends,
\* has the nodes it counts, all allocated and none in another list, and a loop
\* that is under way goes on from a node of the list.
THEOREM LlListsAreSound == LlSpec => []LlSound
  BY LlListsAreKept, LlInvSuffices, PTL

\* Every step does to the items what lists of items promise.
LEMMA LlStepOfLists ==
  LlInv /\ [LlNext]_llVars => [Lists!ListsNext]_([l \in LlLists |-> LlContents(heap, l)])
<1> SUFFICES ASSUME LlInv, [LlNext]_llVars PROVE [Lists!ListsNext]_(LlAll(heap))
  BY DEF LlAll
<1>1. LlAll(heap') = LlAll(heap) \/ \E l \in LlLists : LlMove(heap, heap', l)
  BY LlInvNext
<1> QED
  BY <1>1, LlMoveIsAllowed

\* Node by node the lists do what lists of items promise; so an item that is
\* deleted through its successor's node takes no other item with it.
THEOREM LlRefinesLists == LlSpec => LlImplementsLists
<1>1. LlInit => Lists!ListsInit
  BY LlInvInit
<1> QED
  BY <1>1, LlStepOfLists, LlListsAreKept, PTL DEF LlSpec, LlImplementsLists, Lists!ListsSpec
==============================================================================
