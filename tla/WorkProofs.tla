----------------------------- MODULE WorkProofs ----------------------------
(***************************************************************************)
(* The places where work is handed out, for any number of workers: the     *)
(* thread pool loses no worker and runs every job once; the cars of the    *)
(* first assembly line keep their order; and so do the objects of the      *)
(* assembly line of threadlib, whose invariant says where each worker      *)
(* stands in a cycle (AlSched, AlPlaces) and what lies in the slots and in *)
(* the wait list (AlData).                                                 *)
(***************************************************************************)
EXTENDS MCWork, CountingProofs, SequenceTheorems

----------------------------------------------------------------------------
(* The thread pool. *)

PoolTypeOK ==
    /\ pool \in Seq(Workers)
    /\ wpc \in [Workers -> {"new", "unborn", "asleep", "running", "done"}]
    /\ semaphore \in [Workers -> Callers \cup {NoCaller}]
    /\ job \in [Workers -> (Callers \cup {NoCaller}) \X Nat]
    /\ cpc \in [Callers -> {"idle", "setting", "firing", "waiting", "resetting"}]
    /\ thread \in [Callers -> Workers \cup {NoWorker}]
    /\ posted \in [Callers -> Nat] /\ calls \in [Callers -> Nat]
    /\ \A c \in Callers : cpc[c] # "idle" => thread[c] \in Workers

\* Only jobs that were dispatched are run; one that a caller has in hand or a
\* worker has begun is not done yet, and nobody else has it.
PoolJobs ==
    /\ \A j \in done : j \in Callers \X Nat /\ j[2] <= calls[j[1]]
    /\ \A w \in Workers : wpc[w] = "running" =>
           /\ job[w] \in Callers \X Nat /\ job[w][2] <= calls[job[w][1]] /\ job[w] \notin done
           /\ \A v \in Workers : wpc[v] = "running" /\ job[v] = job[w] => v = w
    /\ \A c \in Callers : cpc[c] \in {"setting", "firing"} =>
           /\ Job(c) \notin done
           /\ \A w \in Workers : wpc[w] = "running" => job[w] # Job(c)
    /\ \A c \in Callers : cpc[c] = "firing" => job[thread[c]] = Job(c)

\* A worker's pointer is at nobody's semaphore but that of a caller that gave it
\* a job and waits or is about to; so a post means that the job was done.
PoolAnswers ==
    /\ \A w \in Workers, c \in Callers : semaphore[w] = c =>
           /\ thread[c] = w /\ cpc[c] \in {"firing", "waiting", "resetting"}
           /\ wpc[w] = "running" => cpc[c] # "firing" /\ job[w] = Job(c)
           /\ wpc[w] = "done" => cpc[c] # "firing" /\ Job(c) \in done
    /\ \A c \in Callers : cpc[c] = "firing" => semaphore[thread[c]] \in {c, NoCaller}
    /\ \A c \in Callers \ BlockingCallers : cpc[c] = "firing" => semaphore[thread[c]] = NoCaller
    /\ \A c \in Callers :
           posted[c] > 0 => cpc[c] \in {"idle", "setting"} \/ Job(c) \in done

PoolInv == PoolTypeOK /\ NobodyLost /\ PoolJobs /\ PoolAnswers

\* Who parks is put in front of the others, and is there once.
LEMMA PutInFront ==
  ASSUME NEW S, NEW q \in Seq(S), NEW w \in S
  PROVE  /\ <<w>> \o q \in Seq(S)
         /\ ToSet(<<w>> \o q) = ToSet(q) \cup {w}
         /\ IsInjective(q) /\ w \notin ToSet(q) => IsInjective(<<w>> \o q)
<1> DEFINE p == <<w>> \o q
<1>1. p \in Seq(S) /\ Len(p) = Len(q) + 1
  OBVIOUS
<1>2. p[1] = w /\ \A i \in 1 .. Len(q) : p[i + 1] = q[i]
  OBVIOUS
<1>3. DOMAIN p = 1 .. Len(q) + 1 /\ DOMAIN q = 1 .. Len(q) /\ Len(q) \in Nat
  BY <1>1
<1>4. \A i \in DOMAIN p : i = 1 \/ (i - 1 \in DOMAIN q /\ p[i] = q[i - 1])
  BY <1>2, <1>3
<1> HIDE DEF p
<1>5. ToSet(p) = ToSet(q) \cup {w}
  <2>1. \A x \in ToSet(p) : x \in ToSet(q) \cup {w}
    BY <1>2, <1>4 DEF ToSet
  <2>2. w \in ToSet(p)
    BY <1>2, <1>3 DEF ToSet
  <2>3. \A i \in DOMAIN q : i + 1 \in DOMAIN p /\ p[i + 1] = q[i]
    BY <1>2, <1>3
  <2>4. \A x \in ToSet(q) : x \in ToSet(p)
    BY <2>3 DEF ToSet
  <2> QED
    BY <2>1, <2>2, <2>4
<1>6. ASSUME IsInjective(q), w \notin ToSet(q) PROVE IsInjective(p)
  <2> SUFFICES ASSUME NEW i \in DOMAIN p, NEW j \in DOMAIN p, p[i] = p[j] PROVE i = j
    BY DEF IsInjective
  <2>1. \A k \in DOMAIN q : q[k] # w
    BY <1>6 DEF ToSet
  <2>2. \A k, l \in DOMAIN q : q[k] = q[l] => k = l
    BY <1>6 DEF IsInjective
  <2>3. i \in Int /\ j \in Int
    BY <1>3
  <2>4. CASE i = 1 \/ j = 1
    BY <1>2, <1>4, <2>1, <2>4
  <2>5. CASE i # 1 /\ j # 1
    BY <1>4, <2>2, <2>3, <2>5
  <2> QED
    BY <2>4, <2>5
<1> QED
  BY <1>1, <1>5, <1>6 DEF p

\* Who is taken from the front is not there any more.
LEMMA TakeFirst ==
  ASSUME NEW S, NEW q \in Seq(S), q # <<>>, IsInjective(q)
  PROVE  /\ Head(q) \in ToSet(q) /\ Head(q) \in S /\ Tail(q) \in Seq(S)
         /\ ToSet(Tail(q)) = ToSet(q) \ {Head(q)}
         /\ IsInjective(Tail(q))
<1> DEFINE p == Tail(q)
<1>1. p \in Seq(S) /\ Len(p) = Len(q) - 1 /\ Len(q) \in Nat \ {0} /\ Head(q) = q[1]
  OBVIOUS
<1>2. \A i \in 1 .. Len(q) - 1 : p[i] = q[i + 1]
  OBVIOUS
<1>3. DOMAIN p = 1 .. Len(q) - 1 /\ DOMAIN q = 1 .. Len(q)
  BY <1>1
<1>4. \A i \in DOMAIN p : p[i] = q[i + 1] /\ i + 1 \in DOMAIN q /\ i + 1 # 1 /\ i \in Int
  BY <1>1, <1>2, <1>3
<1>5. \A i \in DOMAIN q : i = 1 \/ (i - 1 \in DOMAIN p /\ p[i - 1] = q[i])
  BY <1>1, <1>2, <1>3
<1>6. 1 \in DOMAIN q /\ q[1] \in S
  BY <1>1, <1>3
<1> HIDE DEF p
<1>7. \A i, j \in DOMAIN q : q[i] = q[j] => i = j
  BY DEF IsInjective
<1>8. ToSet(p) = ToSet(q) \ {q[1]}
  <2>1. \A x \in ToSet(p) : x \in ToSet(q) /\ x # q[1]
    BY <1>4, <1>6, <1>7 DEF ToSet
  <2>2. \A x \in ToSet(q) : x # q[1] => x \in ToSet(p)
    BY <1>5 DEF ToSet
  <2> QED
    BY <2>1, <2>2
<1>9. IsInjective(p)
  BY <1>4, <1>7 DEF IsInjective
<1> QED
  BY <1>1, <1>6, <1>8, <1>9 DEF p, ToSet

\* At first the pool is empty.
LEMMA PoolInvInit == Init => PoolInv
<1> SUFFICES ASSUME Init PROVE PoolInv
  OBVIOUS
<1>1. PoolTypeOK
  BY DEF Init, PoolTypeOK, NoJob
<1>2. NobodyLost
  BY DEF Init, NobodyLost, IsInjective, ToSet, Holders
<1>3. PoolJobs
  BY DEF Init, PoolJobs
<1>4. PoolAnswers
  BY PoolAssumption DEF Init, PoolAnswers
<1> QED
  BY <1>1, <1>2, <1>3, <1>4 DEF PoolInv

\* A new thread is put into the pool.
LEMMA PoolInsert ==
  ASSUME PoolInv, NEW w \in Workers, InsertNew(w) PROVE PoolInv'
<1> USE DEF PoolInv
<1>1. /\ wpc[w] = "new" /\ wpc' = [wpc EXCEPT ![w] = "unborn"] /\ pool' = <<w>> \o pool
      /\ UNCHANGED <<semaphore, job, posted, done, cpc, thread, calls>>
  BY DEF InsertNew, callerVars
<1>2. pool' \in Seq(Workers) /\ ToSet(pool') = ToSet(pool) \cup {w} /\ IsInjective(pool')
  BY <1>1, PutInFront DEF PoolTypeOK, NobodyLost
<1>3. PoolTypeOK'
  BY <1>1, <1>2 DEF PoolTypeOK
<1>4. NobodyLost'
  <2>1. \A v \in Workers : Holders(v)' = Holders(v)
    BY <1>1 DEF Holders
  <2>2. \A v \in Workers : wpc'[v] = IF v = w THEN "unborn" ELSE wpc[v]
    BY <1>1 DEF PoolTypeOK
  <2>3. w \notin ToSet(pool) /\ Holders(w) = {}
    BY <1>1 DEF NobodyLost
  <2> QED
    BY <1>2, <2>1, <2>2, <2>3 DEF NobodyLost
<1>5. PoolJobs'
  BY <1>1 DEF PoolJobs, Job, PoolTypeOK
<1>6. PoolAnswers'
  BY <1>1 DEF PoolAnswers, Job, PoolTypeOK
<1> QED
  BY <1>3, <1>4, <1>5, <1>6

\* A caller that takes a worker has it for itself, and its job is a new one.
LEMMA PoolGet ==
  ASSUME PoolInv, NEW c \in Callers, GetThread(c) PROVE PoolInv'
<1> USE DEF PoolInv
<1>1. /\ cpc[c] = "idle" /\ calls' = [calls EXCEPT ![c] = @ + 1]
      /\ UNCHANGED <<semaphore, job, posted, wpc, done>>
  BY DEF GetThread, workerVars
<1>2. calls[c] \in Nat /\ calls' \in [Callers -> Nat]
  BY <1>1 DEF PoolTypeOK
<1>3. \A b \in Callers : calls'[b] = IF b = c THEN calls[c] + 1 ELSE calls[b]
  BY <1>1 DEF PoolTypeOK
<1>4. \A b \in Callers : b # c => Job(b)' = Job(b)
  BY <1>3 DEF Job
<1>5. /\ Job(c)' = <<c, calls[c] + 1>> /\ Job(c)' \notin done
      /\ \A w \in Workers : wpc[w] = "running" => job[w] # Job(c)'
  <2>1. Job(c)' = <<c, calls[c] + 1>>
    BY <1>3 DEF Job
  <2> QED
    BY <1>2, <2>1 DEF PoolJobs
<1>6. \A j : j \in Callers \X Nat /\ j[2] <= calls[j[1]] => j[2] <= calls'[j[1]]
  <2> SUFFICES ASSUME NEW b \in Callers, NEW n \in Nat, n <= calls[b] PROVE n <= calls'[b]
    OBVIOUS
  <2> QED
    BY <1>2, <1>3
<1>7. CASE UNCHANGED <<pool, thread, cpc>>
  <2>1. PoolTypeOK'
    BY <1>1, <1>2, <1>7 DEF PoolTypeOK
  <2>2. NobodyLost'
    BY <1>1, <1>7 DEF NobodyLost, Holders
  <2>3. PoolJobs'
    BY <1>1, <1>4, <1>6, <1>7 DEF PoolJobs
  <2>4. PoolAnswers'
    BY <1>1, <1>4, <1>7 DEF PoolAnswers
  <2> QED
    BY <2>1, <2>2, <2>3, <2>4
<1>8. CASE pool # <<>> /\ dequeue_thread(c) /\ cpc' = [cpc EXCEPT ![c] = "setting"]
  <2> DEFINE w0 == Head(pool)
  <2>1. /\ thread' = [thread EXCEPT ![c] = w0] /\ pool' = Tail(pool)
        /\ cpc' = [cpc EXCEPT ![c] = "setting"]
    BY <1>8 DEF dequeue_thread
  <2>2. /\ w0 \in Workers /\ w0 \in ToSet(pool)
        /\ pool' \in Seq(Workers) /\ ToSet(pool') = ToSet(pool) \ {w0} /\ IsInjective(pool')
    BY <1>8, <2>1, TakeFirst DEF PoolTypeOK, NobodyLost
  <2> HIDE DEF w0
  <2>3. PoolTypeOK'
    BY <1>1, <1>2, <2>1, <2>2 DEF PoolTypeOK
  <2>4. /\ \A b \in Callers : cpc'[b] = IF b = c THEN "setting" ELSE cpc[b]
        /\ \A b \in Callers : thread'[b] = IF b = c THEN w0 ELSE thread[b]
    BY <2>1 DEF PoolTypeOK
  <2>5. \A w \in Workers : Holders(w)' = IF w = w0 THEN Holders(w) \cup {c} ELSE Holders(w)
    BY <1>1, <2>4 DEF Holders
  <2>6. wpc[w0] \in {"unborn", "asleep"} /\ Holders(w0) = {}
    BY <2>2 DEF NobodyLost, PoolTypeOK
  <2>7. NobodyLost'
    BY <1>1, <2>2, <2>5, <2>6 DEF NobodyLost
  <2>8. PoolJobs'
    BY <1>1, <1>4, <1>5, <1>6, <2>4 DEF PoolJobs
  <2>9. PoolAnswers'
    BY <1>1, <1>4, <2>4 DEF PoolAnswers
  <2> QED
    BY <2>3, <2>7, <2>8, <2>9
<1> QED
  BY <1>7, <1>8 DEF GetThread

\* The worker that is set up rests, and is the caller's alone.
LEMMA PoolHeld ==
  ASSUME PoolInv, NEW c \in Callers, cpc[c] \in {"setting", "firing"}
  PROVE  /\ thread[c] \in Workers /\ wpc[thread[c]] \in {"unborn", "asleep"}
         /\ Holders(thread[c]) = {c} /\ thread[c] \notin ToSet(pool)
         /\ \A b \in Callers : cpc[b] \in {"setting", "firing"} /\ thread[b] = thread[c] => b = c
<1>1. thread[c] \in Workers
  BY DEF PoolInv, PoolTypeOK
<1>2. c \in Holders(thread[c])
  BY DEF Holders
<1>3. wpc[thread[c]] \in {"unborn", "asleep"}
  BY <1>1, <1>2 DEF PoolInv, NobodyLost, PoolTypeOK
<1>4. Holders(thread[c]) = {c} /\ thread[c] \notin ToSet(pool)
  BY <1>1, <1>2, <1>3 DEF PoolInv, NobodyLost
<1> QED
  BY <1>1, <1>3, <1>4 DEF Holders

\* The set-up overwrites what the worker knew of the caller before.
LEMMA PoolSetUp ==
  ASSUME PoolInv, NEW c \in Callers, SetUp(c) PROVE PoolInv'
<1> USE DEF PoolInv
<1> DEFINE w0 == thread[c]
<1>1. /\ cpc[c] = "setting" /\ cpc' = [cpc EXCEPT ![c] = "firing"]
      /\ semaphore' = [semaphore EXCEPT ![w0] = IF c \in BlockingCallers THEN c ELSE NoCaller]
      /\ posted' = [posted EXCEPT ![c] = 0] /\ job' = [job EXCEPT ![w0] = Job(c)]
      /\ UNCHANGED <<pool, thread, calls, wpc, done>>
  BY DEF SetUp, workerVars
<1>2. /\ w0 \in Workers /\ wpc[w0] \in {"unborn", "asleep"}
      /\ \A b \in Callers : cpc[b] \in {"setting", "firing"} /\ thread[b] = w0 => b = c
  BY <1>1, PoolHeld
<1>3. Job(c) \in Callers \X Nat /\ \A b \in Callers : Job(b)' = Job(b)
  BY <1>1 DEF Job, PoolTypeOK
<1>4. PoolTypeOK'
  BY <1>1, <1>2, <1>3 DEF PoolTypeOK
<1>5. \A b \in Callers : cpc'[b] = IF b = c THEN "firing" ELSE cpc[b]
  BY <1>1 DEF PoolTypeOK
<1>6. \A w \in Workers : Holders(w)' = Holders(w)
  BY <1>1, <1>5 DEF Holders
<1>7. NobodyLost'
  BY <1>1, <1>6 DEF NobodyLost
<1>8. /\ \A w \in Workers : job'[w] = IF w = w0 THEN Job(c) ELSE job[w]
      /\ \A w \in Workers : semaphore'[w] =
             IF w = w0 THEN IF c \in BlockingCallers THEN c ELSE NoCaller ELSE semaphore[w]
      /\ \A b \in Callers : posted'[b] = IF b = c THEN 0 ELSE posted[b]
  BY <1>1 DEF PoolTypeOK
<1>9. PoolJobs'
  BY <1>1, <1>2, <1>3, <1>5, <1>8 DEF PoolJobs
<1>10. PoolAnswers'
  <2>1. ASSUME NEW w \in Workers, NEW b \in Callers, semaphore'[w] = b
        PROVE  /\ thread'[b] = w /\ cpc'[b] \in {"firing", "waiting", "resetting"}
               /\ wpc'[w] = "running" => cpc'[b] # "firing" /\ job'[w] = Job(b)'
               /\ wpc'[w] = "done" => cpc'[b] # "firing" /\ Job(b)' \in done'
    <3>1. CASE w = w0
      BY <1>1, <1>2, <1>5, <1>8, <2>1, <3>1, PoolAssumption
    <3>2. CASE w # w0
      BY <1>1, <1>3, <1>5, <1>8, <2>1, <3>2 DEF PoolAnswers
    <3> QED
      BY <3>1, <3>2
  <2>2. \A b \in Callers : cpc'[b] = "firing" => semaphore'[thread'[b]] \in {b, NoCaller}
    BY <1>1, <1>2, <1>4, <1>5, <1>8 DEF PoolAnswers, PoolTypeOK
  <2>3. \A b \in Callers \ BlockingCallers :
          cpc'[b] = "firing" => semaphore'[thread'[b]] = NoCaller
    BY <1>1, <1>2, <1>4, <1>5, <1>8 DEF PoolAnswers, PoolTypeOK
  <2>4. \A b \in Callers :
          posted'[b] > 0 => cpc'[b] \in {"idle", "setting"} \/ Job(b)' \in done'
    BY <1>1, <1>3, <1>5, <1>8 DEF PoolAnswers
  <2> QED
    BY <2>1, <2>2, <2>3, <2>4 DEF PoolAnswers
<1> QED
  BY <1>4, <1>7, <1>9, <1>10

\* The worker is awake and has the job, which nobody else has.
LEMMA PoolFire ==
  ASSUME PoolInv, NEW c \in Callers, Fire(c) PROVE PoolInv'
<1> USE DEF PoolInv
<1> DEFINE w0 == thread[c]
<1>1. /\ cpc[c] = "firing"
      /\ cpc' = [cpc EXCEPT ![c] = IF c \in BlockingCallers THEN "waiting" ELSE "idle"]
      /\ wpc' = [wpc EXCEPT ![w0] = IF @ \in {"unborn", "asleep"} THEN "running" ELSE @]
      /\ UNCHANGED <<pool, semaphore, job, posted, done, thread, calls>>
  BY DEF Fire
<1>2. /\ w0 \in Workers /\ wpc[w0] \in {"unborn", "asleep"}
      /\ Holders(w0) = {c} /\ w0 \notin ToSet(pool)
      /\ \A b \in Callers : cpc[b] \in {"setting", "firing"} /\ thread[b] = w0 => b = c
  BY <1>1, PoolHeld
<1>3. \A b \in Callers : Job(b)' = Job(b)
  BY <1>1 DEF Job
<1>4. /\ \A w \in Workers : wpc'[w] = IF w = w0 THEN "running" ELSE wpc[w]
      /\ \A b \in Callers : b # c => cpc'[b] = cpc[b]
      /\ cpc'[c] = IF c \in BlockingCallers THEN "waiting" ELSE "idle"
  BY <1>1, <1>2 DEF PoolTypeOK
<1>5. PoolTypeOK'
  BY <1>1, <1>2, <1>4 DEF PoolTypeOK
<1>6. \A w \in Workers : Holders(w)' = IF w = w0 THEN {} ELSE Holders(w)
  <2>1. \A w \in Workers : Holders(w)' = Holders(w) \ {c}
    BY <1>1, <1>4 DEF Holders
  <2>2. \A w \in Workers : w # w0 => c \notin Holders(w)
    BY DEF Holders
  <2> QED
    BY <1>2, <2>1, <2>2
<1>7. NobodyLost'
  BY <1>1, <1>2, <1>4, <1>6 DEF NobodyLost
<1>8. PoolJobs'
  <2>1. job[w0] = Job(c) /\ Job(c) \notin done /\ Job(c) \in Callers \X Nat
        /\ Job(c)[2] <= calls[Job(c)[1]]
    BY <1>1 DEF PoolJobs, Job, PoolTypeOK
  <2>2. \A w \in Workers : wpc[w] = "running" => job[w] # Job(c)
    BY <1>1 DEF PoolJobs
  <2>3. \A b \in Callers : b # c => Job(b) # Job(c)
    BY DEF Job
  <2> QED
    BY <1>1, <1>3, <1>4, <2>1, <2>2, <2>3 DEF PoolJobs
<1>9. PoolAnswers'
  <2>1. job[w0] = Job(c) /\ semaphore[w0] \in {c, NoCaller} /\ wpc'[w0] = "running"
    BY <1>1, <1>2, <1>4 DEF PoolJobs, PoolAnswers
  <2>2. c \notin BlockingCallers => semaphore[w0] = NoCaller
    BY <1>1 DEF PoolAnswers
  <2>3. ASSUME NEW w \in Workers, NEW b \in Callers, semaphore'[w] = b
        PROVE  /\ thread'[b] = w /\ cpc'[b] \in {"firing", "waiting", "resetting"}
               /\ wpc'[w] = "running" => cpc'[b] # "firing" /\ job'[w] = Job(b)'
               /\ wpc'[w] = "done" => cpc'[b] # "firing" /\ Job(b)' \in done'
    <3>1. CASE w = w0
      <4>1. b = c /\ c \in BlockingCallers
        BY <1>1, <2>1, <2>2, <2>3, <3>1, PoolAssumption
      <4> QED
        BY <1>1, <1>3, <1>4, <2>1, <3>1, <4>1
    <3>2. CASE w # w0
      <4>1. thread[b] = w /\ b # c
        BY <1>1, <2>3, <3>2 DEF PoolAnswers
      <4> QED
        BY <1>1, <1>3, <1>4, <2>3, <3>2, <4>1 DEF PoolAnswers
    <3> QED
      BY <3>1, <3>2
  <2>4. \A b \in Callers : cpc'[b] = "firing" => b # c /\ cpc[b] = "firing"
    BY <1>4
  <2>5. \A b \in Callers : b # c =>
          (posted'[b] > 0 => cpc'[b] \in {"idle", "setting"} \/ Job(b)' \in done')
    BY <1>1, <1>3, <1>4 DEF PoolAnswers
  <2>6. posted'[c] > 0 => Job(c)' \in done'
    BY <1>1, <1>3 DEF PoolAnswers
  <2> QED
    BY <1>1, <2>3, <2>4, <2>5, <2>6 DEF PoolAnswers
<1> QED
  BY <1>5, <1>7, <1>8, <1>9

\* A caller that is answered, and one that resets the pointer afterwards, perhaps
\* the one that the next caller has set.
LEMMA PoolReturns ==
  ASSUME PoolInv, NEW c \in Callers, SemWait(c) \/ ResetSemaphore(c) PROVE PoolInv'
<1> USE DEF PoolInv
<1>1. UNCHANGED <<pool, wpc, done, job, thread, calls>>
  BY DEF SemWait, ResetSemaphore, workerVars
<1>2. \A b \in Callers : Job(b)' = Job(b)
  BY <1>1 DEF Job
<1>3. CASE SemWait(c)
  <2>1. /\ cpc[c] = "waiting" /\ posted[c] > 0 /\ posted' = [posted EXCEPT ![c] = @ - 1]
        /\ cpc' = [cpc EXCEPT ![c] = "resetting"] /\ UNCHANGED semaphore
    BY <1>3 DEF SemWait
  <2>2. \A b \in Callers : cpc'[b] = IF b = c THEN "resetting" ELSE cpc[b]
    BY <2>1 DEF PoolTypeOK
  <2>3. \A b \in Callers : posted'[b] \in Nat /\ (posted'[b] > 0 => posted[b] > 0)
    BY <2>1 DEF PoolTypeOK
  <2>4. PoolTypeOK'
    BY <1>1, <2>1, <2>3 DEF PoolTypeOK
  <2>5. \A w \in Workers : Holders(w)' = Holders(w)
    BY <1>1, <2>1, <2>2 DEF Holders
  <2>6. NobodyLost'
    BY <1>1, <2>5 DEF NobodyLost
  <2>7. PoolJobs'
    BY <1>1, <1>2, <2>2 DEF PoolJobs
  <2>8. PoolAnswers'
    BY <1>1, <1>2, <2>1, <2>2, <2>3 DEF PoolAnswers
  <2> QED
    BY <2>4, <2>6, <2>7, <2>8
<1>4. CASE ResetSemaphore(c)
  <2>1. /\ cpc[c] = "resetting" /\ semaphore' = [semaphore EXCEPT ![thread[c]] = NoCaller]
        /\ cpc' = [cpc EXCEPT ![c] = "idle"] /\ UNCHANGED posted
    BY <1>4 DEF ResetSemaphore
  <2>2. /\ \A b \in Callers : cpc'[b] = IF b = c THEN "idle" ELSE cpc[b]
        /\ \A w \in Workers : semaphore'[w] = IF w = thread[c] THEN NoCaller ELSE semaphore[w]
    BY <2>1 DEF PoolTypeOK
  <2>3. PoolTypeOK'
    BY <1>1, <2>1 DEF PoolTypeOK
  <2>4. \A w \in Workers : Holders(w)' = Holders(w)
    BY <1>1, <2>1, <2>2 DEF Holders
  <2>5. NobodyLost'
    BY <1>1, <2>4 DEF NobodyLost
  <2>6. PoolJobs'
    BY <1>1, <1>2, <2>2 DEF PoolJobs
  <2>7. ASSUME NEW w \in Workers, NEW b \in Callers, semaphore'[w] = b
        PROVE  w # thread[c] /\ b # c /\ semaphore[w] = b
    BY <2>2, <2>7, PoolAssumption DEF PoolAnswers
  <2>8. \A b \in Callers : cpc'[b] = "firing" => b # c /\ cpc[b] = "firing" /\ thread[b] \in Workers
    BY <2>2 DEF PoolTypeOK
  <2>9. PoolAnswers'
    BY <1>1, <1>2, <2>1, <2>2, <2>7, <2>8 DEF PoolAnswers
  <2> QED
    BY <2>3, <2>5, <2>6, <2>9
<1> QED
  BY <1>3, <1>4

\* A job is run: it was not done, and it is nobody else's.
LEMMA PoolRuns ==
  ASSUME PoolInv, NEW w \in Workers, RunJob(w) PROVE PoolInv'
<1> USE DEF PoolInv
<1>1. /\ wpc[w] = "running" /\ wpc' = [wpc EXCEPT ![w] = "done"]
      /\ done' = done \cup {job[w]}
      /\ UNCHANGED <<pool, semaphore, job, posted, cpc, thread, calls>>
  BY DEF RunJob, callerVars
<1>2. \A v \in Workers : wpc'[v] = IF v = w THEN "done" ELSE wpc[v]
  BY <1>1 DEF PoolTypeOK
<1>3. /\ \A b \in Callers : Job(b)' = Job(b)
      /\ \A v \in Workers : Holders(v)' = Holders(v)
  BY <1>1 DEF Job, Holders
<1>4. PoolTypeOK'
  BY <1>1 DEF PoolTypeOK
<1>5. NobodyLost'
  BY <1>1, <1>2, <1>3 DEF NobodyLost
<1>6. PoolJobs'
  BY <1>1, <1>2, <1>3 DEF PoolJobs
<1>7. PoolAnswers'
  BY <1>1, <1>2, <1>3 DEF PoolAnswers
<1> QED
  BY <1>4, <1>5, <1>6, <1>7

\* A worker parks: whom it answers has had its job done.
LEMMA PoolParks ==
  ASSUME PoolInv, NEW w \in Workers, Park(w) PROVE PoolInv'
<1> USE DEF PoolInv
<1>1. /\ wpc[w] = "done" /\ wpc' = [wpc EXCEPT ![w] = "asleep"] /\ pool' = <<w>> \o pool
      /\ posted' = [c \in Callers |-> IF semaphore[w] = c THEN posted[c] + 1 ELSE posted[c]]
      /\ UNCHANGED <<semaphore, job, done, cpc, thread, calls>>
  BY DEF Park, callerVars
<1>2. \A v \in Workers : wpc'[v] = IF v = w THEN "asleep" ELSE wpc[v]
  BY <1>1 DEF PoolTypeOK
<1>3. /\ \A b \in Callers : Job(b)' = Job(b)
      /\ \A v \in Workers : Holders(v)' = Holders(v)
  BY <1>1 DEF Job, Holders
<1>4. w \notin ToSet(pool) /\ Holders(w) = {}
  BY <1>1 DEF NobodyLost
<1>5. pool' \in Seq(Workers) /\ ToSet(pool') = ToSet(pool) \cup {w} /\ IsInjective(pool')
  BY <1>1, <1>4, PutInFront DEF PoolTypeOK, NobodyLost
<1>6. posted' \in [Callers -> Nat]
  BY <1>1 DEF PoolTypeOK
<1>7. PoolTypeOK'
  BY <1>1, <1>5, <1>6 DEF PoolTypeOK
<1>8. NobodyLost'
  BY <1>2, <1>3, <1>4, <1>5 DEF NobodyLost
<1>9. PoolJobs'
  BY <1>1, <1>2, <1>3 DEF PoolJobs
<1>10. PoolAnswers'
  <2>1. \A c \in Callers : posted'[c] > 0 => posted[c] > 0 \/ semaphore[w] = c
    BY <1>1
  <2>2. \A c \in Callers : semaphore[w] = c => Job(c) \in done
    BY <1>1 DEF PoolAnswers
  <2> QED
    BY <1>1, <1>2, <1>3, <2>1, <2>2 DEF PoolAnswers
<1> QED
  BY <1>7, <1>8, <1>9, <1>10

\* Every step of the callers and the workers keeps the invariant.
LEMMA PoolInvHolds == Spec => []PoolInv
<1>1. PoolInv /\ [Next]_vars => PoolInv'
  <2> SUFFICES ASSUME PoolInv, [Next]_vars PROVE PoolInv'
    OBVIOUS
  <2>1. ASSUME NEW c \in Callers, GetThread(c) PROVE PoolInv'
    BY <2>1, PoolGet
  <2>2. ASSUME NEW c \in Callers, CallerStep(c) PROVE PoolInv'
    BY <2>2, PoolSetUp, PoolFire, PoolReturns DEF CallerStep
  <2>3. ASSUME NEW w \in Workers, InsertNew(w) \/ WorkerStep(w) PROVE PoolInv'
    BY <2>3, PoolInsert, PoolRuns, PoolParks DEF WorkerStep
  <2>4. CASE UNCHANGED vars
    <3>1. UNCHANGED <<pool, wpc, semaphore, job, cpc, thread, posted, calls, done>>
      BY <2>4 DEF vars, workerVars, callerVars
    <3>2. PoolTypeOK'
      BY <3>1 DEF PoolInv, PoolTypeOK
    <3>3. NobodyLost'
      BY <3>1 DEF PoolInv, NobodyLost, Holders
    <3>4. PoolJobs' /\ PoolAnswers'
      BY <3>1 DEF PoolInv, PoolJobs, PoolAnswers, Job
    <3> QED
      BY <3>2, <3>3, <3>4 DEF PoolInv
  <2> QED
    BY <2>1, <2>2, <2>3, <2>4 DEF Next
<1> QED
  BY <1>1, PoolInvInit, PTL DEF Spec, SafetySpec

\* For any number of workers, callers and jobs, a worker that rests is in the
\* pool once or with one caller, and one that works is in neither place.
THEOREM PoolLosesNobody == Spec => []NobodyLost
BY PoolInvHolds, PTL DEF PoolInv

\* No job is run twice.
THEOREM PoolRunsJobsOnce == Spec => JobsRunOnce
<1>1. PoolInv /\ [Next]_vars
      => [\A w \in Workers : wpc[w] = "running" /\ wpc'[w] = "done" => job[w] \notin done]_vars
  BY DEF PoolInv, PoolJobs
<1> QED
  BY <1>1, PoolInvHolds, PTL DEF JobsRunOnce, Spec, SafetySpec

\* A caller is answered after its own job was run.
THEOREM PoolAnswersTruly == Spec => AnswersAreTrue
<1>1. PoolInv /\ [Next]_vars
      => [\A c \in Callers : cpc[c] = "waiting" /\ cpc'[c] = "resetting" => Job(c) \in done]_vars
  <2> SUFFICES ASSUME PoolInv, Next, NEW c \in Callers,
                      cpc[c] = "waiting", cpc'[c] = "resetting"
               PROVE  Job(c) \in done
    OBVIOUS
  <2>1. SemWait(c)
    BY DEF Next, GetThread, CallerStep, SetUp, Fire, SemWait, ResetSemaphore, InsertNew,
       WorkerStep, RunJob, Park, callerVars, PoolInv, PoolTypeOK
  <2> QED
    BY <2>1 DEF SemWait, PoolInv, PoolAnswers
<1> QED
  BY <1>1, PoolInvHolds, PTL DEF AnswersAreTrue, Spec, SafetySpec

----------------------------------------------------------------------------
(* The first assembly line. *)

\* The cars that a stage has.
FaIn(queue, object) == {queue[i] : i \in 1 .. Len(queue)} \cup ({object} \ {0})
FaInOrder(q) == \A i, j \in 1 .. Len(q) : i < j => q[i] < q[j]

\* A stage's cars are queued as they came, behind the one that is worked on.
FaStageKept(queue, object, worker) ==
    /\ queue \in Seq(Nat \ {0}) /\ object \in Nat
    /\ FaInOrder(queue)
    /\ object # 0 => \A i \in 1 .. Len(queue) : object < queue[i]
    /\ worker \in {"looking", "asleep", "woken"} => object = 0
    /\ worker \in {"working", "handing"} => object # 0
    /\ worker = "asleep" => queue = <<>>

\* A car that is further down the line came earlier.
FaInv ==
    /\ object_queue \in [Chain -> Seq(Nat \ {0})] /\ fa_object \in [Chain -> Nat]
    /\ DOMAIN fa_worker = Chain
    /\ emitted \in Seq(Nat) /\ fa_next \in Nat \ {0}
    /\ \A s \in Chain : FaStageKept(object_queue[s], fa_object[s], fa_worker[s])
    /\ \A s, r \in Chain : s < r =>
          \A x \in FaIn(object_queue[s], fa_object[s]), y \in FaIn(object_queue[r], fa_object[r]) : y < x
    /\ \A s \in Chain : \A x \in FaIn(object_queue[s], fa_object[s]) :
          x < fa_next /\ \A j \in 1 .. Len(emitted) : emitted[j] < x
    /\ \A j \in 1 .. Len(emitted) : emitted[j] < fa_next
    /\ FaInOrder(emitted)

\* A new line has no cars.
LEMMA FaInitInv == FaInit => FaInv
  BY FirstLineAssumption DEF FaInit, asl_create_new_stage, FaInv, FaStageKept, FaInOrder, FaIn, Chain

\* Only stages whose worker has ended are freed.
FaFreedHaveEnded == fa_freed \subseteq {s \in Chain : fa_worker[s] \in {"dead", "ended"}}

\* Every car that main queued has left the line or is at a stage.
FaOut(c) == \E j \in DOMAIN emitted : emitted[j] = c
FaAt(c, s) == fa_object[s] = c \/ \E i \in DOMAIN object_queue[s] : object_queue[s][i] = c
FaThere(c) == FaOut(c) \/ \E s \in Chain : FaAt(c, s)
FaAllThere == \A c \in 1 .. fa_next - 1 : FaThere(c)

FaLineInv == FaInv /\ FaFreedHaveEnded /\ FaAllThere

\* At the beginning no car was queued and no stage freed.
LEMMA FaInitLineInv == FaInit => FaLineInv
<1> SUFFICES ASSUME FaInit PROVE FaLineInv
  OBVIOUS
<1>1. FaFreedHaveEnded /\ fa_next - 1 < 1
  BY DEF FaInit, FaFreedHaveEnded
<1> QED
  BY <1>1, FaInitInv DEF FaLineInv, FaAllThere, FaInit

\* The order of the finished cars, and that none is left behind, are parts of
\* the invariant.
LEMMA FaInvSuffices == FaLineInv => FaCarsInOrder /\ FaNoCarLeftBehind
<1> SUFFICES ASSUME FaLineInv PROVE FaCarsInOrder /\ FaNoCarLeftBehind
  OBVIOUS
<1>1. FaCarsInOrder
  BY DEF FaLineInv, FaInv, FaInOrder, FaCarsInOrder
<1>2. \A s \in Chain : fa_worker[s] = "asleep" => object_queue[s] = <<>>
  BY DEF FaLineInv, FaInv, FaStageKept
<1> QED
  BY <1>1, <1>2 DEF FaLineInv, FaAllThere, FaThere, FaOut, FaAt, FaNoCarLeftBehind

\* An object that comes last in its queue.
LEMMA FaAppended ==
  ASSUME NEW q \in Seq(Nat \ {0}), NEW o \in Nat \ {0}, NEW object \in Nat
  PROVE  /\ Append(q, o) \in Seq(Nat \ {0})
         /\ FaIn(Append(q, o), object) = FaIn(q, object) \cup {o}
         /\ FaInOrder(q) /\ (\A i \in 1 .. Len(q) : q[i] < o) => FaInOrder(Append(q, o))
<1> DEFINE p == Append(q, o)
<1>1. /\ p \in Seq(Nat \ {0}) /\ Len(p) = Len(q) + 1 /\ Len(q) \in Nat
      /\ \A i \in 1 .. Len(q) : p[i] = q[i]
      /\ p[Len(q) + 1] = o
  OBVIOUS
<1> HIDE DEF p
<1>2. FaIn(p, object) \subseteq FaIn(q, object) \cup {o}
  <2>1. ASSUME NEW i \in 1 .. Len(p) PROVE p[i] = o \/ \E j \in 1 .. Len(q) : p[i] = q[j]
    <3>1. i = Len(q) + 1 \/ i \in 1 .. Len(q)
      BY <1>1, <2>1
    <3> QED
      BY <1>1, <3>1
  <2> QED
    BY <2>1 DEF FaIn
<1>3. FaIn(q, object) \cup {o} \subseteq FaIn(p, object)
  <2>1. \A i \in 1 .. Len(q) : i \in 1 .. Len(p) /\ p[i] = q[i]
    BY <1>1
  <2>2. Len(q) + 1 \in 1 .. Len(p)
    BY <1>1
  <2> QED
    BY <1>1, <2>1, <2>2 DEF FaIn
<1>4. ASSUME FaInOrder(q), \A i \in 1 .. Len(q) : q[i] < o PROVE FaInOrder(p)
  <2> SUFFICES ASSUME NEW i \in 1 .. Len(p), NEW j \in 1 .. Len(p), i < j PROVE p[i] < p[j]
    BY DEF FaInOrder
  <2>1. i \in 1 .. Len(q) /\ p[i] = q[i]
    BY <1>1
  <2>2. CASE j = Len(q) + 1
    BY <1>1, <1>4, <2>1, <2>2
  <2>3. CASE j # Len(q) + 1
    <3>1. j \in 1 .. Len(q) /\ p[j] = q[j] /\ q[i] < q[j]
      <4>1. j \in 1 .. Len(q)
        <5>1. Len(p) = Len(q) + 1 /\ Len(q) \in Nat /\ j \in 1 .. Len(p) /\ j # Len(q) + 1
          BY <1>1, <2>3
        <5> QED
          BY ONLY <5>1
      <4>2. p[j] = q[j]
        BY <1>1, <4>1
      <4>3. \A k, l \in 1 .. Len(q) : k < l => q[k] < q[l]
        BY <1>4 DEF FaInOrder
      <4> QED
        BY <2>1, <4>1, <4>2, <4>3
    <3> QED
      BY <2>1, <3>1
  <2> QED
    BY <2>2, <2>3
<1> QED
  BY <1>1, <1>2, <1>3, <1>4 DEF p

\* The queue without its first object.
LEMMA FaTaken ==
  ASSUME NEW q \in Seq(Nat \ {0}), q # <<>>, FaInOrder(q)
  PROVE  /\ Tail(q) \in Seq(Nat \ {0}) /\ Head(q) \in Nat \ {0}
         /\ FaIn(Tail(q), Head(q)) \subseteq FaIn(q, 0)
         /\ FaInOrder(Tail(q))
         /\ \A i \in 1 .. Len(Tail(q)) : Head(q) < Tail(q)[i]
<1> DEFINE p == Tail(q)
           h == Head(q)
<1>1. /\ p \in Seq(Nat \ {0}) /\ h = q[1] /\ h \in Nat \ {0} /\ Len(q) \in Nat \ {0}
      /\ Len(p) = Len(q) - 1
      /\ \A i \in 1 .. Len(q) - 1 : p[i] = q[i + 1]
  OBVIOUS
<1> HIDE DEF p, h
<1>2. \A i \in 1 .. Len(p) : i + 1 \in 1 .. Len(q) /\ p[i] = q[i + 1]
  BY <1>1
<1>3. 1 \in 1 .. Len(q)
  BY <1>1
<1>4. FaIn(p, h) \subseteq FaIn(q, 0)
  <2> SUFFICES ASSUME NEW x \in FaIn(p, h) PROVE \E i \in 1 .. Len(q) : q[i] = x
    BY <1>1 DEF FaIn
  <2> QED
    BY <1>1, <1>2, <1>3 DEF FaIn
<1>5. \A i, j \in 1 .. Len(q) : i < j => q[i] < q[j]
  BY DEF FaInOrder
<1>6. ASSUME NEW i \in 1 .. Len(p) PROVE h < p[i]
  <2>1. i + 1 \in 1 .. Len(q) /\ p[i] = q[i + 1] /\ 1 < i + 1
    BY <1>2
  <2> QED
    BY <1>1, <1>3, <1>5, <2>1
<1>7. ASSUME NEW i \in 1 .. Len(p), NEW j \in 1 .. Len(p), i < j PROVE p[i] < p[j]
  <2>1. /\ i + 1 \in 1 .. Len(q) /\ p[i] = q[i + 1] /\ j + 1 \in 1 .. Len(q) /\ p[j] = q[j + 1]
        /\ i + 1 < j + 1
    BY <1>2, <1>7
  <2> QED
    BY <1>5, <2>1
<1> QED
  BY <1>1, <1>4, <1>6, <1>7 DEF p, h, FaInOrder

\* Where no stage gets a car, the order stays.
LEMMA FaOrderStays ==
  ASSUME FaInv,
         object_queue' \in [Chain -> Seq(Nat \ {0})], fa_object' \in [Chain -> Nat],
         DOMAIN fa_worker' = Chain, UNCHANGED <<emitted, fa_next>>,
         \A s \in Chain : /\ FaStageKept(object_queue'[s], fa_object'[s], fa_worker'[s])
                          /\ FaIn(object_queue'[s], fa_object'[s]) \subseteq FaIn(object_queue[s], fa_object[s])
  PROVE  FaInv'
<1>1. \A s, r \in Chain : s < r =>
         \A x \in FaIn(object_queue'[s], fa_object'[s]), y \in FaIn(object_queue'[r], fa_object'[r]) : y < x
  BY DEF FaInv
<1>2. \A s \in Chain : \A x \in FaIn(object_queue'[s], fa_object'[s]) :
         x < fa_next' /\ \A j \in 1 .. Len(emitted') : emitted'[j] < x
  BY DEF FaInv
<1> QED
  BY <1>1, <1>2 DEF FaInv

\* The cars that are at a stage, and what is known of one that is worked on.
LEMMA FaAtStage ==
  ASSUME FaInv, NEW s \in Chain
  PROVE  /\ object_queue[s] \in Seq(Nat \ {0}) /\ fa_object[s] \in Nat /\ Len(object_queue[s]) \in Nat
         /\ FaStageKept(object_queue[s], fa_object[s], fa_worker[s])
         /\ \A i \in 1 .. Len(object_queue[s]) :
               object_queue[s][i] \in Nat \ {0} /\ object_queue[s][i] \in FaIn(object_queue[s], fa_object[s])
         /\ fa_object[s] # 0 => fa_object[s] \in FaIn(object_queue[s], fa_object[s])
         /\ FaIn(object_queue[s], fa_object[s]) \subseteq Nat
<1>1. object_queue[s] \in Seq(Nat \ {0}) /\ fa_object[s] \in Nat
  BY DEF FaInv
<1> QED
  BY <1>1 DEF FaInv, FaIn

\* The worker takes the first object of its queue, or goes to sleep.
LEMMA FaLooksInv ==
  ASSUME FaInv, NEW s \in Chain, worker_looks(s)
  PROVE  FaInv'
<1>1. fa_worker[s] = "looking" /\ UNCHANGED <<emitted, fa_next>>
  BY DEF worker_looks
<1>2. fa_object[s] = 0 /\ object_queue[s] \in Seq(Nat \ {0}) /\ FaInOrder(object_queue[s])
  BY <1>1 DEF FaInv, FaStageKept
<1>3. CASE object_queue[s] = <<>>
  <2>1. fa_worker' = [fa_worker EXCEPT ![s] = "asleep"] /\ UNCHANGED <<object_queue, fa_object>>
    BY <1>3 DEF worker_looks
  <2>2. ASSUME NEW r \in Chain
        PROVE  /\ FaStageKept(object_queue'[r], fa_object'[r], fa_worker'[r])
               /\ FaIn(object_queue'[r], fa_object'[r]) \subseteq FaIn(object_queue[r], fa_object[r])
    <3>1. fa_worker'[r] = IF r = s THEN "asleep" ELSE fa_worker[r]
      BY <2>1 DEF FaInv
    <3> QED
      BY <1>2, <1>3, <2>1, <3>1 DEF FaInv, FaStageKept
  <2>3. /\ object_queue' \in [Chain -> Seq(Nat \ {0})] /\ fa_object' \in [Chain -> Nat]
        /\ DOMAIN fa_worker' = Chain
    BY <2>1 DEF FaInv
  <2> QED
    BY <1>1, <2>2, <2>3, FaOrderStays
<1>4. CASE object_queue[s] # <<>>
  <2>1. /\ fa_worker' = [fa_worker EXCEPT ![s] = "working"]
        /\ fa_object' = [fa_object EXCEPT ![s] = Head(object_queue[s])]
        /\ object_queue' = [object_queue EXCEPT ![s] = Tail(object_queue[s])]
    BY <1>4 DEF worker_looks
  <2>2. /\ Tail(object_queue[s]) \in Seq(Nat \ {0}) /\ Head(object_queue[s]) \in Nat \ {0}
        /\ FaIn(Tail(object_queue[s]), Head(object_queue[s])) \subseteq FaIn(object_queue[s], fa_object[s])
        /\ FaStageKept(Tail(object_queue[s]), Head(object_queue[s]), "working")
    BY <1>2, <1>4, FaTaken DEF FaStageKept
  <2>3. /\ object_queue' \in [Chain -> Seq(Nat \ {0})] /\ fa_object' \in [Chain -> Nat]
        /\ DOMAIN fa_worker' = Chain
    BY <2>1, <2>2 DEF FaInv
  <2>4. ASSUME NEW r \in Chain
        PROVE  /\ FaStageKept(object_queue'[r], fa_object'[r], fa_worker'[r])
               /\ FaIn(object_queue'[r], fa_object'[r]) \subseteq FaIn(object_queue[r], fa_object[r])
    <3>1. CASE r = s
      <4>1. /\ object_queue'[s] = Tail(object_queue[s]) /\ fa_object'[s] = Head(object_queue[s])
            /\ fa_worker'[s] = "working"
        BY <2>1 DEF FaInv
      <4> QED
        BY <2>2, <3>1, <4>1
    <3>2. CASE r # s
      <4>1. /\ object_queue'[r] = object_queue[r] /\ fa_object'[r] = fa_object[r]
            /\ fa_worker'[r] = fa_worker[r]
        BY <2>1, <3>2 DEF FaInv
      <4> QED
        BY <4>1 DEF FaInv
    <3> QED
      BY <3>1, <3>2
  <2> QED
    BY <1>1, <2>3, <2>4, FaOrderStays
<1> QED
  BY <1>3, <1>4

\* What queueing an object does, wherever that is done.
FaQueued(s, o, worker) ==
    /\ object_queue' = [object_queue EXCEPT ![s] = Append(@, o)]
    /\ fa_worker' = IF object_queue[s] = <<>> /\ worker[s] = "asleep"
                    THEN [worker EXCEPT ![s] = "woken"] ELSE worker

\* A stage that gets an object which is younger than what it has and what is
\* further down, and older than what is further up, keeps the order.
LEMMA FaEnqueueInv ==
  ASSUME FaInv, NEW s \in Chain, NEW o \in Nat \ {0}, NEW worker,
         DOMAIN worker = Chain,
         FaQueued(s, o, worker), emitted' = emitted,
         fa_object' \in [Chain -> Nat], fa_next' \in Nat \ {0}, fa_next <= fa_next', o < fa_next',
         \A r \in Chain : /\ fa_object'[r] \in {0, fa_object[r]}
                          /\ FaStageKept(object_queue[r], fa_object'[r], worker[r]),
         \A r \in Chain : \A x \in FaIn(object_queue[r], fa_object'[r]) : IF r < s THEN o < x ELSE x < o,
         \A j \in 1 .. Len(emitted) : emitted[j] < o
  PROVE  FaInv'
<1> DEFINE q == object_queue[s]
           p == Append(object_queue[s], o)
<1>1. /\ object_queue' = [object_queue EXCEPT ![s] = p]
      /\ fa_worker' = IF q = <<>> /\ worker[s] = "asleep" THEN [worker EXCEPT ![s] = "woken"] ELSE worker
  BY DEF FaQueued, FaInv
<1>2. q \in Seq(Nat \ {0}) /\ FaInOrder(q)
  BY DEF FaInv, FaStageKept
<1>3. \A i \in 1 .. Len(q) : q[i] \in FaIn(q, fa_object'[s]) /\ q[i] \in Nat
  BY <1>2 DEF FaIn
<1>4. /\ p \in Seq(Nat \ {0}) /\ FaInOrder(p)
      /\ FaIn(p, fa_object'[s]) = FaIn(q, fa_object'[s]) \cup {o}
  <2>1. \A i \in 1 .. Len(q) : q[i] < o
    BY <1>3 DEF Chain
  <2> QED
    BY <1>2, <2>1, FaAppended
<1>5. FaStageKept(p, fa_object'[s], fa_worker'[s])
  <2>1. /\ FaStageKept(q, fa_object'[s], worker[s]) /\ fa_object'[s] \in Nat
        /\ fa_object'[s] # 0 => fa_object'[s] \in FaIn(q, fa_object'[s])
    BY DEF FaIn
  <2>2. \/ fa_worker'[s] = worker[s] /\ worker[s] # "asleep"
        \/ worker[s] = "asleep" /\ fa_worker'[s] = "woken"
    BY <1>1, <2>1 DEF FaStageKept
  <2>3. fa_object'[s] # 0 => \A i \in 1 .. Len(p) : fa_object'[s] < p[i]
    <3> SUFFICES ASSUME fa_object'[s] # 0, NEW i \in 1 .. Len(p) PROVE fa_object'[s] < p[i]
      OBVIOUS
    <3>1. fa_object'[s] < o
      BY <2>1 DEF Chain
    <3>2. \A k \in 1 .. Len(q) : fa_object'[s] < q[k]
      BY <2>1 DEF FaStageKept
    <3>3. IF i = Len(q) + 1 THEN p[i] = o ELSE i \in 1 .. Len(q) /\ p[i] = q[i]
      BY <1>2
    <3> QED
      BY <3>1, <3>2, <3>3
  <2> HIDE DEF p
  <2> QED
    BY <1>4, <2>1, <2>2, <2>3 DEF FaStageKept
<1> HIDE DEF p
<1>6. \A r \in Chain \ {s} : object_queue'[r] = object_queue[r] /\ fa_worker'[r] = worker[r]
  BY <1>1 DEF FaInv
<1>7. object_queue'[s] = p
  BY <1>1 DEF FaInv
<1>8. \A r \in Chain : /\ FaIn(object_queue[r], fa_object'[r]) \subseteq FaIn(object_queue[r], fa_object[r])
                       /\ FaIn(object_queue'[r], fa_object'[r]) =
                             FaIn(object_queue[r], fa_object'[r]) \cup (IF r = s THEN {o} ELSE {})
  <2> SUFFICES ASSUME NEW r \in Chain
               PROVE  /\ FaIn(object_queue[r], fa_object'[r]) \subseteq FaIn(object_queue[r], fa_object[r])
                      /\ FaIn(object_queue'[r], fa_object'[r]) =
                            FaIn(object_queue[r], fa_object'[r]) \cup (IF r = s THEN {o} ELSE {})
    OBVIOUS
  <2>1. fa_object'[r] \in {0, fa_object[r]}
    OBVIOUS
  <2>2. FaIn(object_queue[r], fa_object'[r]) \subseteq FaIn(object_queue[r], fa_object[r])
    BY <2>1 DEF FaIn
  <2>3. CASE r = s
    BY <1>4, <1>7, <2>2, <2>3
  <2>4. CASE r # s
    <3>1. object_queue'[r] = object_queue[r]
      BY <1>6, <2>4
    <3> QED
      BY <2>2, <2>4, <3>1
  <2> QED
    BY <2>3, <2>4
<1>9. ASSUME NEW r \in Chain PROVE FaStageKept(object_queue'[r], fa_object'[r], fa_worker'[r])
  BY <1>5, <1>6, <1>7
<1>10. ASSUME NEW r \in Chain, NEW u \in Chain, r < u,
              NEW x \in FaIn(object_queue'[r], fa_object'[r]),
              NEW y \in FaIn(object_queue'[u], fa_object'[u])
       PROVE  y < x
  <2>1. CASE x \in FaIn(object_queue[r], fa_object'[r]) /\ y \in FaIn(object_queue[u], fa_object'[u])
    BY <1>8, <1>10, <2>1 DEF FaInv
  <2>2. CASE r = s /\ x = o /\ y \in FaIn(object_queue[u], fa_object'[u])
    BY <1>10, <2>2 DEF Chain
  <2>3. CASE u = s /\ y = o /\ x \in FaIn(object_queue[r], fa_object'[r])
    BY <1>10, <2>3
  <2>4. x \in FaIn(object_queue[r], fa_object'[r]) \/ (r = s /\ x = o)
    BY <1>8, <1>10
  <2>5. y \in FaIn(object_queue[u], fa_object'[u]) \/ (u = s /\ y = o)
    BY <1>8, <1>10
  <2>6. r # u
    BY <1>10 DEF Chain
  <2> QED
    BY <2>1, <2>2, <2>3, <2>4, <2>5, <2>6
<1>11. ASSUME NEW r \in Chain, NEW x \in FaIn(object_queue'[r], fa_object'[r])
       PROVE  x < fa_next' /\ \A j \in 1 .. Len(emitted') : emitted'[j] < x
  <2>1. CASE x = o
    BY <2>1
  <2>2. CASE x \in FaIn(object_queue[r], fa_object[r])
    <3>1. x < fa_next /\ x \in Nat /\ fa_next \in Nat /\ \A j \in 1 .. Len(emitted) : emitted[j] < x
      BY <2>2, FaAtStage DEF FaInv
    <3> QED
      BY <3>1
  <2> QED
    BY <1>8, <2>1, <2>2
<1>12. /\ object_queue' \in [Chain -> Seq(Nat \ {0})] /\ DOMAIN fa_worker' = Chain
       /\ emitted' \in Seq(Nat) /\ FaInOrder(emitted')
  BY <1>1, <1>4 DEF FaInv
<1>13. \A j \in 1 .. Len(emitted') : emitted'[j] < fa_next'
  BY DEF FaInv
<1> QED
  BY <1>9, <1>10, <1>11, <1>12, <1>13 DEF FaInv

\* main queues its next car, which is the youngest, at the first stage.
LEMMA FaMainEnqueueInv ==
  ASSUME FaInv, asl_enqueue
  PROVE  FaInv'
<1>1. /\ FaQueued(1, fa_next, fa_worker) /\ fa_next' = fa_next + 1
      /\ UNCHANGED <<fa_object, emitted>>
  BY DEF asl_enqueue, asl_stage_enqueue, FaQueued
<1>2. 1 \in Chain /\ fa_next \in Nat \ {0} /\ fa_object' \in [Chain -> Nat] /\ DOMAIN fa_worker = Chain
  BY <1>1, FirstLineAssumption DEF Chain, FaInv
<1>3. \A r \in Chain : /\ fa_object'[r] \in {0, fa_object[r]}
                       /\ FaStageKept(object_queue[r], fa_object'[r], fa_worker[r])
  BY <1>1 DEF FaInv
<1>4. \A r \in Chain : \A x \in FaIn(object_queue[r], fa_object'[r]) :
         IF r < 1 THEN fa_next < x ELSE x < fa_next
  BY <1>1 DEF FaInv, Chain
<1>5. \A j \in 1 .. Len(emitted) : emitted[j] < fa_next
  BY DEF FaInv
<1> QED
  BY <1>1, <1>2, <1>3, <1>4, <1>5, FaEnqueueInv

\* The worker hands its object, the oldest of its stage, on, also when the next
\* stage was freed, or it leaves the line.
LEMMA FaHandsOnInv ==
  ASSUME FaInv, FaFreedHaveEnded, NEW s \in Chain,
         \/ worker_hands_on(s) \/ worker_emits(s)
         \/ worker_goes_astray(s) /\ fa_worker'[s] = "looking"
  PROVE  FaInv'
<1> DEFINE o == fa_object[s]
           idle == [fa_worker EXCEPT ![s] = "looking"]
<1>1. fa_worker[s] = "handing" /\ fa_object' = [fa_object EXCEPT ![s] = 0] /\ fa_next' = fa_next
  BY DEF worker_hands_on, worker_emits, worker_goes_astray, FaInv
<1>2. /\ object_queue[s] \in Seq(Nat \ {0}) /\ Len(object_queue[s]) \in Nat
      /\ FaStageKept(object_queue[s], o, "handing") /\ o \in Nat \ {0}
      /\ o \in FaIn(object_queue[s], o)
  BY <1>1, FaAtStage DEF FaStageKept
<1>3. \A x \in FaIn(object_queue[s], 0) : o < x /\ x \in FaIn(object_queue[s], o)
  BY <1>2 DEF FaIn, FaStageKept
<1>4. /\ fa_object' \in [Chain -> Nat] /\ DOMAIN idle = Chain
      /\ \A r \in Chain : /\ fa_object'[r] = IF r = s THEN 0 ELSE fa_object[r]
                          /\ idle[r] = IF r = s THEN "looking" ELSE fa_worker[r]
  BY <1>1 DEF FaInv
<1>5. \A r \in Chain : /\ fa_object'[r] \in {0, fa_object[r]}
                       /\ FaStageKept(object_queue[r], fa_object'[r], idle[r])
  <2> SUFFICES ASSUME NEW r \in Chain PROVE FaStageKept(object_queue[r], fa_object'[r], idle[r])
    BY <1>4
  <2>1. CASE r = s
    <3>1. fa_object'[r] = 0 /\ idle[r] = "looking"
      BY <1>4, <2>1
    <3> QED
      BY <1>2, <2>1, <3>1 DEF FaStageKept
  <2>2. CASE r # s
    <3>1. fa_object'[r] = fa_object[r] /\ idle[r] = fa_worker[r]
      BY <1>4, <2>2
    <3> QED
      BY <3>1 DEF FaInv
  <2> QED
    BY <2>1, <2>2
<1> HIDE DEF idle
<1>6. CASE worker_hands_on(s) \/ (worker_goes_astray(s) /\ fa_worker'[s] = "looking")
  <2>2. s + 1 \in Chain
    BY <1>6, FirstLineAssumption DEF worker_hands_on, worker_goes_astray, FaFreedHaveEnded, Chain
  <2>1. FaQueued(s + 1, o, idle) /\ emitted' = emitted
    <3>1. CASE worker_hands_on(s)
      BY <3>1 DEF worker_hands_on, asl_stage_enqueue, idle, FaQueued
    <3>2. CASE worker_goes_astray(s) /\ fa_worker'[s] = "looking"
      <4>1. idle[s + 1] # "asleep"
        BY <1>4, <2>2, <3>2 DEF worker_goes_astray, FaFreedHaveEnded, Chain
      <4>2. fa_worker' = idle
        <5>1. "looking" # "astray" /\ DOMAIN fa_worker = Chain
          BY DEF FaInv
        <5> QED
          BY <3>2, <5>1 DEF worker_goes_astray, idle
      <4>3. object_queue' = [object_queue EXCEPT ![s + 1] = Append(@, o)] /\ emitted' = emitted
        <5>1. "looking" # "astray" /\ DOMAIN fa_worker = Chain
          BY DEF FaInv
        <5> QED
          BY <3>2, <5>1 DEF worker_goes_astray
      <4> QED
        BY <4>1, <4>2, <4>3 DEF FaQueued
    <3> QED
      BY <1>6, <3>1, <3>2
  <2>3. \A r \in Chain : \A x \in FaIn(object_queue[r], fa_object'[r]) : IF r < s + 1 THEN o < x ELSE x < o
    <3> SUFFICES ASSUME NEW r \in Chain, NEW x \in FaIn(object_queue[r], fa_object'[r])
                 PROVE  IF r < s + 1 THEN o < x ELSE x < o
      OBVIOUS
    <3>1. CASE r = s
      <4>1. fa_object'[r] = 0
        BY <1>4, <3>1
      <4> QED
        BY <1>3, <3>1, <4>1 DEF Chain
    <3>2. CASE r # s
      <4>1. fa_object'[r] = fa_object[r]
        BY <1>4, <3>2
      <4> QED
        BY <1>2, <3>2, <4>1 DEF FaInv, Chain
    <3> QED
      BY <3>1, <3>2
  <2>4. o < fa_next /\ (\A j \in 1 .. Len(emitted) : emitted[j] < o) /\ fa_next \in Nat \ {0}
    BY <1>2 DEF FaInv
  <2> QED
    BY <1>1, <1>2, <1>4, <1>5, <2>1, <2>2, <2>3, <2>4, FaEnqueueInv
<1>7. CASE worker_emits(s)
  <2>1. /\ emitted' = Append(emitted, o) /\ fa_worker' = idle /\ UNCHANGED object_queue
        /\ s = FaStages
    BY <1>7 DEF worker_emits, idle
  <2>2. \A j \in 1 .. Len(emitted) : emitted[j] < o
    BY <1>2 DEF FaInv
  <2>3. /\ emitted \in Seq(Nat) /\ Len(emitted) \in Nat /\ emitted' \in Seq(Nat)
        /\ Len(emitted') = Len(emitted) + 1 /\ emitted'[Len(emitted) + 1] = o
        /\ \A j \in 1 .. Len(emitted) : emitted'[j] = emitted[j]
    BY <1>2, <2>1 DEF FaInv
  <2>4. \A j \in 1 .. Len(emitted') : IF j = Len(emitted) + 1 THEN emitted'[j] = o
                                    ELSE j \in 1 .. Len(emitted) /\ emitted'[j] = emitted[j]
    BY <2>3
  <2>5. FaInOrder(emitted')
    <3> SUFFICES ASSUME NEW i \in 1 .. Len(emitted'), NEW j \in 1 .. Len(emitted'), i < j
                 PROVE  emitted'[i] < emitted'[j]
      BY DEF FaInOrder
    <3>1. i \in 1 .. Len(emitted) /\ emitted'[i] = emitted[i]
      BY <2>3, <2>4
    <3>2. CASE j = Len(emitted) + 1
      BY <2>2, <2>4, <3>1, <3>2
    <3>3. CASE j # Len(emitted) + 1
      <4>1. j \in 1 .. Len(emitted) /\ emitted'[j] = emitted[j] /\ emitted[i] < emitted[j]
        BY <2>4, <3>1, <3>3 DEF FaInv, FaInOrder
      <4> QED
        BY <3>1, <4>1
    <3> QED
      BY <3>2, <3>3
  <2>6. \A r \in Chain : /\ FaIn(object_queue[r], fa_object'[r]) \subseteq FaIn(object_queue[r], fa_object[r])
                         /\ \A x \in FaIn(object_queue[r], fa_object'[r]) : o < x
    <3> SUFFICES ASSUME NEW r \in Chain
                 PROVE  /\ FaIn(object_queue[r], fa_object'[r]) \subseteq FaIn(object_queue[r], fa_object[r])
                        /\ \A x \in FaIn(object_queue[r], fa_object'[r]) : o < x
      OBVIOUS
    <3>1. CASE r = s
      <4>1. fa_object'[r] = 0
        BY <1>4, <3>1
      <4> QED
        BY <1>3, <3>1, <4>1
    <3>2. CASE r # s
      <4>1. fa_object'[r] = fa_object[r] /\ r < s
        BY <1>4, <2>1, <3>2 DEF Chain
      <4> QED
        BY <1>2, <4>1 DEF FaInv
    <3> QED
      BY <3>1, <3>2
  <2>7. \A r, u \in Chain : r < u =>
           \A x \in FaIn(object_queue'[r], fa_object'[r]), y \in FaIn(object_queue'[u], fa_object'[u]) : y < x
    BY <2>1, <2>6 DEF FaInv
  <2>8. ASSUME NEW r \in Chain, NEW x \in FaIn(object_queue'[r], fa_object'[r])
        PROVE  x < fa_next' /\ \A j \in 1 .. Len(emitted') : emitted'[j] < x
    <3>1. x \in FaIn(object_queue[r], fa_object[r]) /\ o < x
      BY <2>1, <2>6
    <3> QED
      BY <1>1, <2>4, <3>1 DEF FaInv
  <2>9. \A j \in 1 .. Len(emitted') : emitted'[j] < fa_next'
    <3>1. o < fa_next
      BY <1>2 DEF FaInv
    <3> QED
      BY <1>1, <2>4, <3>1 DEF FaInv
  <2>10. /\ object_queue' \in [Chain -> Seq(Nat \ {0})] /\ DOMAIN fa_worker' = Chain
         /\ fa_next' \in Nat \ {0}
    BY <1>1, <1>4, <2>1 DEF FaInv
  <2>11. \A r \in Chain : FaStageKept(object_queue'[r], fa_object'[r], fa_worker'[r])
    BY <1>5, <2>1
  <2> QED
    BY <1>4, <2>3, <2>5, <2>7, <2>8, <2>9, <2>10, <2>11 DEF FaInv
<1> QED
  BY <1>6, <1>7

\* Everything else leaves the cars where they are.
LEMMA FaNextInv == FaInv /\ FaFreedHaveEnded /\ [FaNext]_faVars => FaInv'
<1> SUFFICES ASSUME FaInv, FaFreedHaveEnded, [FaNext]_faVars PROVE FaInv'
  OBVIOUS
<1>1. ASSUME UNCHANGED <<object_queue, fa_object, fa_worker, emitted, fa_next>> PROVE FaInv'
  BY <1>1 DEF FaInv
<1>2. ASSUME NEW s \in Chain, NEW place, fa_worker' = [fa_worker EXCEPT ![s] = place],
             \/ fa_worker[s] = "asleep" /\ place = "woken"
             \/ fa_worker[s] = "woken" /\ place = "looking"
             \/ fa_worker[s] = "working" /\ place = "handing"
             \/ place \in {"dead", "ended", "astray"},
             UNCHANGED <<object_queue, fa_object, emitted, fa_next>>
      PROVE  FaInv'
  <2>1. /\ object_queue' \in [Chain -> Seq(Nat \ {0})] /\ fa_object' \in [Chain -> Nat]
        /\ DOMAIN fa_worker' = Chain
    BY <1>2 DEF FaInv
  <2>2. ASSUME NEW r \in Chain
        PROVE  FaStageKept(object_queue'[r], fa_object'[r], fa_worker'[r])
    <3>1. fa_worker'[r] = IF r = s THEN place ELSE fa_worker[r]
      BY <1>2 DEF FaInv
    <3>2. FaStageKept(object_queue[r], fa_object[r], fa_worker[r])
      BY DEF FaInv
    <3> QED
      BY <1>2, <3>1, <3>2 DEF FaStageKept
  <2> QED
    BY <1>2, <2>1, <2>2, FaOrderStays
<1>3. ASSUME NEW s \in Chain, worker_thread_fn(s) \/ fa_spurious_wakeup(s) PROVE FaInv'
  <2>1. CASE worker_looks(s)
    BY <2>1, FaLooksInv
  <2>2. CASE worker_hands_on(s) \/ worker_emits(s)
    BY <2>2, FaHandsOnInv
  <2>3. CASE worker_goes_astray(s)
    <3>1. CASE fa_worker' = [fa_worker EXCEPT ![s] = "looking"]
      BY <2>3, <3>1, FaHandsOnInv DEF FaInv
    <3>2. CASE fa_worker' = [fa_worker EXCEPT ![s] = "astray"] /\ UNCHANGED <<object_queue, fa_object>>
      BY <2>3, <3>2, <1>2 DEF worker_goes_astray
    <3> QED
      BY <2>3, <3>1, <3>2 DEF worker_goes_astray
  <2>4. CASE worker_counts_in(s)
    BY <2>4, <1>2 DEF worker_counts_in
  <2>5. CASE worker_works(s)
    BY <2>5, <1>2 DEF worker_works
  <2>6. CASE worker_is_cancelled(s)
    BY <2>6, <1>2 DEF worker_is_cancelled
  <2>7. CASE fa_spurious_wakeup(s)
    BY <2>7, <1>2 DEF fa_spurious_wakeup
  <2> QED
    BY <1>3, <2>1, <2>2, <2>3, <2>4, <2>5, <2>6, <2>7 DEF worker_thread_fn
<1>4. CASE fa_main_fn
  <2>1. CASE asl_enqueue
    BY <2>1, FaMainEnqueueInv
  <2>2. CASE asl_destroy \/ (\E s \in Chain : asl_stage_cleanup(s)) \/ fa_assert_idle
    BY <2>2, <1>1 DEF asl_destroy, asl_stage_cleanup, fa_assert_idle, faStage
  <2> QED
    BY <1>4, <2>1, <2>2 DEF fa_main_fn
<1>5. CASE UNCHANGED faVars
  BY <1>5, <1>1 DEF faVars, faStage
<1> QED
  BY <1>3, <1>4, <1>5 DEF FaNext

\* A worker who has ended does nothing any more, and is the only one who is
\* joined.
LEMMA FaFreedNext == FaInv /\ FaFreedHaveEnded /\ [FaNext]_faVars => FaFreedHaveEnded'
<1> SUFFICES ASSUME FaInv, FaFreedHaveEnded, [FaNext]_faVars PROVE FaFreedHaveEnded'
  OBVIOUS
<1>1. \A r \in Chain : fa_worker[r] \in {"dead", "ended"} => fa_worker'[r] \in {"dead", "ended"}
  <2> SUFFICES ASSUME NEW r \in Chain, fa_worker[r] \in {"dead", "ended"}
               PROVE  fa_worker'[r] \in {"dead", "ended"}
    OBVIOUS
  <2>1. DOMAIN fa_worker = Chain
    BY DEF FaInv
  <2>2. ASSUME NEW s \in Chain, NEW o, NEW worker, asl_stage_enqueue(s, o, worker),
               DOMAIN worker = Chain, worker[r] = fa_worker[r]
        PROVE  fa_worker'[r] = fa_worker[r]
    BY <2>1, <2>2 DEF asl_stage_enqueue
  <2>3. ASSUME NEW s \in Chain, NEW place, fa_worker' = [fa_worker EXCEPT ![s] = place],
               fa_worker[s] \notin {"dead", "ended"}
        PROVE  fa_worker'[r] = fa_worker[r]
    BY <2>1, <2>3
  <2>4. ASSUME NEW s \in Chain, worker_hands_on(s) PROVE fa_worker'[r] = fa_worker[r]
    <3> DEFINE idle == [fa_worker EXCEPT ![s] = "looking"]
    <3>1. r # s /\ s + 1 \in Chain
      BY <2>4, FirstLineAssumption DEF worker_hands_on, Chain
    <3>2. idle[r] = fa_worker[r] /\ DOMAIN idle = Chain
      BY <2>1, <3>1
    <3>3. asl_stage_enqueue(s + 1, fa_object[s], idle)
      BY <2>4 DEF worker_hands_on
    <3> HIDE DEF idle
    <3> QED
      BY <2>2, <3>1, <3>2, <3>3
  <2>5. CASE asl_enqueue
    BY <2>1, <2>2, <2>5, FirstLineAssumption DEF asl_enqueue, Chain
  <2>6. ASSUME NEW s \in Chain, \/ worker_counts_in(s) \/ worker_looks(s) \/ worker_works(s)
                                \/ worker_goes_astray(s) \/ worker_emits(s)
                                \/ worker_is_cancelled(s) \/ fa_spurious_wakeup(s)
        PROVE  fa_worker'[r] = fa_worker[r]
    <3>1. /\ fa_worker[s] \notin {"dead", "ended"}
          /\ \E place \in {"looking", "asleep", "working", "handing", "astray", "dead", "ended", "woken"} :
                fa_worker' = [fa_worker EXCEPT ![s] = place]
      BY <2>6 DEF worker_counts_in, worker_looks, worker_works, worker_goes_astray, worker_emits,
         worker_is_cancelled, fa_spurious_wakeup
    <3> QED
      BY <2>3, <3>1
  <2>7. CASE UNCHANGED fa_worker
    BY <2>7
  <2> QED
    BY <2>4, <2>5, <2>6, <2>7 DEF FaNext, fa_main_fn, worker_thread_fn, faVars, faStage, asl_destroy,
       asl_stage_cleanup, fa_assert_idle
<1>2. \/ UNCHANGED fa_freed
      \/ \E s \in Chain : fa_worker[s] \in {"dead", "ended"} /\ fa_freed' = fa_freed \cup {s}
  BY DEF FaNext, fa_main_fn, worker_thread_fn, faVars, asl_enqueue, asl_destroy,
     asl_stage_cleanup, fa_assert_idle, worker_counts_in, worker_looks, worker_works, worker_hands_on,
     worker_goes_astray, worker_emits, worker_is_cancelled, fa_spurious_wakeup
<1> QED
  BY <1>1, <1>2 DEF FaFreedHaveEnded

\* What appending and taking leave of a queue.
LEMMA FaQueueKeeps ==
  ASSUME NEW q \in Seq(Nat), NEW o \in Nat
  PROVE  /\ \A c : (c = o \/ \E i \in DOMAIN q : q[i] = c)
                  => \E i \in DOMAIN Append(q, o) : Append(q, o)[i] = c
         /\ q # <<>> => \A c : (\E i \in DOMAIN q : q[i] = c)
                  => c = Head(q) \/ \E i \in DOMAIN Tail(q) : Tail(q)[i] = c
<1>1. ASSUME NEW c, c = o PROVE \E i \in DOMAIN Append(q, o) : Append(q, o)[i] = c
  <2>1. Len(q) + 1 \in DOMAIN Append(q, o) /\ Append(q, o)[Len(q) + 1] = o
    OBVIOUS
  <2> QED
    BY <1>1, <2>1
<1>2. ASSUME NEW c, NEW i \in DOMAIN q, q[i] = c
      PROVE  /\ \E k \in DOMAIN Append(q, o) : Append(q, o)[k] = c
             /\ q # <<>> => c = Head(q) \/ \E k \in DOMAIN Tail(q) : Tail(q)[k] = c
  <2>1. i \in DOMAIN Append(q, o) /\ Append(q, o)[i] = c
    BY <1>2
  <2>2. CASE q # <<>> /\ i # 1
    <3>1. i - 1 \in DOMAIN Tail(q) /\ Tail(q)[i - 1] = c
      BY <1>2, <2>2
    <3> QED
      BY <2>1, <3>1
  <2>3. CASE q = <<>> \/ i = 1
    BY <1>2, <2>1, <2>3
  <2> QED
    BY <2>2, <2>3
<1> QED
  BY <1>1, <1>2

\* No car goes away: it moves on, or it is finished, or it stays, and main's new
\* car is at the first stage.
LEMMA FaThereNext == FaLineInv /\ [FaNext]_faVars => FaAllThere'
<1> SUFFICES ASSUME FaLineInv, [FaNext]_faVars, NEW c \in 1 .. fa_next' - 1 PROVE FaThere(c)'
  BY DEF FaAllThere
<1>1. /\ FaInv /\ FaFreedHaveEnded /\ FaAllThere /\ fa_next \in Nat \ {0}
      /\ object_queue \in [Chain -> Seq(Nat \ {0})] /\ fa_object \in [Chain -> Nat]
      /\ emitted \in Seq(Nat)
  BY DEF FaLineInv, FaInv
<1>2. ASSUME FaThere(c), UNCHANGED <<object_queue, fa_object, emitted>> PROVE FaThere(c)'
  BY <1>2 DEF FaThere, FaOut, FaAt
<1>3. ASSUME NEW s \in Chain, NEW o \in Nat, object_queue' = [object_queue EXCEPT ![s] = Append(@, o)],
             \/ c = o
             \/ FaThere(c) /\ UNCHANGED emitted /\ \A r \in Chain : fa_object'[r] = c \/ fa_object[r] # c
      PROVE  FaThere(c)'
  <2>1. /\ \A r \in Chain : object_queue'[r] = IF r = s THEN Append(object_queue[s], o) ELSE object_queue[r]
        /\ object_queue[s] \in Seq(Nat)
    BY <1>1, <1>3
  <2>4. \A d : (d = o \/ \E i \in DOMAIN object_queue[s] : object_queue[s][i] = d)
                 => \E i \in DOMAIN object_queue'[s] : object_queue'[s][i] = d
    <3>1. object_queue'[s] = Append(object_queue[s], o)
      BY <2>1
    <3>2. \A d : (d = o \/ \E i \in DOMAIN object_queue[s] : object_queue[s][i] = d)
                   => \E i \in DOMAIN Append(object_queue[s], o) : Append(object_queue[s], o)[i] = d
      BY <2>1, FaQueueKeeps
    <3> QED
      BY <3>1, <3>2
  <2>2. CASE c = o
    <3>1. FaAt(c, s)'
      BY <2>2, <2>4 DEF FaAt
    <3> QED
      BY <3>1 DEF FaThere
  <2>3. CASE FaThere(c) /\ UNCHANGED emitted /\ \A r \in Chain : fa_object'[r] = c \/ fa_object[r] # c
    <3>1. ASSUME NEW r \in Chain, FaAt(c, r) PROVE FaAt(c, r)'
      <4>1. CASE fa_object[r] = c
        BY <2>3, <4>1 DEF FaAt
      <4>2. CASE \E i \in DOMAIN object_queue[r] : object_queue[r][i] = c
        <5>1. CASE r = s
          BY <2>4, <4>2, <5>1 DEF FaAt
        <5>2. CASE r # s
          BY <2>1, <4>2, <5>2 DEF FaAt
        <5> QED
          BY <5>1, <5>2
      <4> QED
        BY <3>1, <4>1, <4>2 DEF FaAt
    <3> QED
      BY <2>3, <3>1 DEF FaThere, FaOut
  <2> QED
    BY <1>3, <2>2, <2>3
<1>4. CASE asl_enqueue
  <2>1. /\ object_queue' = [object_queue EXCEPT ![1] = Append(@, fa_next)] /\ fa_next' = fa_next + 1
        /\ UNCHANGED <<fa_object, emitted>> /\ 1 \in Chain
    BY <1>4, FirstLineAssumption DEF asl_enqueue, asl_stage_enqueue, Chain
  <2>2. c = fa_next \/ c \in 1 .. fa_next - 1
    BY <1>1, <2>1
  <2>3. c = fa_next \/ FaThere(c)
    BY <1>1, <2>2 DEF FaAllThere
  <2> QED
    BY <1>1, <1>3, <2>1, <2>3
<1>5. CASE ~asl_enqueue
  <2>1. fa_next' = fa_next
    BY <1>5 DEF FaNext, fa_main_fn, worker_thread_fn, faVars, asl_destroy,
       asl_stage_cleanup, fa_assert_idle, worker_counts_in, worker_looks, worker_works, worker_hands_on,
       worker_goes_astray, worker_emits, worker_is_cancelled, fa_spurious_wakeup
  <2>2. FaThere(c) /\ c \in Nat \ {0}
    BY <1>1, <2>1 DEF FaAllThere
  <2>3. ASSUME NEW s \in Chain, worker_looks(s), object_queue[s] # <<>> PROVE FaThere(c)'
    <3>1. /\ fa_object' = [fa_object EXCEPT ![s] = Head(object_queue[s])]
          /\ object_queue' = [object_queue EXCEPT ![s] = Tail(object_queue[s])]
          /\ emitted' = emitted /\ fa_object[s] = 0 /\ object_queue[s] \in Seq(Nat)
      BY <1>1, <2>3 DEF worker_looks, FaInv, FaStageKept
    <3>2. ASSUME NEW r \in Chain, FaAt(c, r) PROVE FaAt(c, r)'
      <4>1. CASE r = s
        <5>1. /\ object_queue'[s] = Tail(object_queue[s]) /\ fa_object'[s] = Head(object_queue[s])
              /\ \E i \in DOMAIN object_queue[s] : object_queue[s][i] = c
          BY <1>1, <2>2, <3>1, <3>2, <4>1 DEF FaAt
        <5>2. c = Head(object_queue[s]) \/ \E i \in DOMAIN Tail(object_queue[s]) : Tail(object_queue[s])[i] = c
          BY <2>3, <3>1, <5>1, FaQueueKeeps
        <5> QED
          BY <4>1, <5>1, <5>2 DEF FaAt
      <4>2. CASE r # s
        BY <1>1, <3>1, <3>2, <4>2 DEF FaAt
      <4> QED
        BY <4>1, <4>2
    <3> QED
      BY <2>2, <3>1, <3>2 DEF FaThere, FaOut
  <2>4. ASSUME NEW s \in Chain, worker_hands_on(s) \/ worker_goes_astray(s) PROVE FaThere(c)'
    <3>1. CASE UNCHANGED <<object_queue, fa_object>>
      BY <1>2, <2>2, <2>4, <3>1 DEF worker_hands_on, worker_goes_astray
    <3>2. CASE /\ fa_object' = [fa_object EXCEPT ![s] = 0]
               /\ object_queue' = [object_queue EXCEPT ![s + 1] = Append(@, fa_object[s])]
      <4>1. s + 1 \in Chain /\ fa_object[s] \in Nat /\ UNCHANGED emitted
        BY <1>1, <2>4, FirstLineAssumption DEF worker_hands_on, worker_goes_astray, FaFreedHaveEnded, Chain
      <4>2. \A r \in Chain : fa_object'[r] = IF r = s THEN 0 ELSE fa_object[r]
        BY <1>1, <3>2
      <4> QED
        BY <1>3, <2>2, <3>2, <4>1, <4>2
    <3> QED
      BY <2>4, <3>1, <3>2 DEF worker_hands_on, worker_goes_astray, asl_stage_enqueue
  <2>5. ASSUME NEW s \in Chain, worker_emits(s) PROVE FaThere(c)'
    <3>1. /\ fa_object' = [fa_object EXCEPT ![s] = 0] /\ emitted' = Append(emitted, fa_object[s])
          /\ UNCHANGED object_queue /\ fa_object[s] \in Nat
      BY <1>1, <2>5 DEF worker_emits
    <3>2. \A d : (d = fa_object[s] \/ FaOut(d)) => FaOut(d)'
      <4>1. \A d : (d = fa_object[s] \/ \E i \in DOMAIN emitted : emitted[i] = d)
                     => \E i \in DOMAIN Append(emitted, fa_object[s]) : Append(emitted, fa_object[s])[i] = d
        BY <1>1, <3>1, FaQueueKeeps
      <4> QED
        BY <3>1, <4>1 DEF FaOut
    <3>3. ASSUME NEW r \in Chain, FaAt(c, r), c # fa_object[s] PROVE FaAt(c, r)'
      <4>1. fa_object'[r] = IF r = s THEN 0 ELSE fa_object[r]
        BY <1>1, <3>1
      <4> QED
        BY <3>1, <3>3, <4>1 DEF FaAt
    <3> QED
      BY <2>2, <3>2, <3>3 DEF FaThere
  <2>6. CASE \/ \E s \in Chain : worker_looks(s) /\ object_queue[s] # <<>>
             \/ \E s \in Chain : worker_hands_on(s) \/ worker_goes_astray(s) \/ worker_emits(s)
    BY <2>3, <2>4, <2>5, <2>6
  <2>7. CASE UNCHANGED <<object_queue, fa_object, emitted>>
    BY <1>2, <2>2, <2>7
  <2> QED
    BY <1>5, <2>6, <2>7 DEF FaNext, fa_main_fn, worker_thread_fn, faVars, faStage, asl_destroy,
       asl_stage_cleanup, fa_assert_idle, worker_counts_in, worker_looks, worker_works,
       worker_is_cancelled, fa_spurious_wakeup
<1> QED
  BY <1>4, <1>5

\* A step of the line keeps the invariant.
LEMMA FaLineNext == FaLineInv /\ [FaNext]_faVars => FaLineInv'
  BY FaNextInv, FaFreedNext, FaThereNext DEF FaLineInv

----------------------------------------------------------------------------
(* The assembly line: who works when, and where. *)

\* The slot of worker w when worker 0 is at slot b, and the slot before s.
AlUp(b, w) == IF b + w < Size THEN b + w ELSE b + w - Size
AlDown(s) == IF s = 0 THEN Size - 1 ELSE s - 1

\* Going round the ring.
LEMMA AlRing ==
  /\ \A b \in Slots, w \in AslWorkers : AlUp(b, w) \in Slots
  /\ \A b \in Slots : AlDown(b) \in Slots /\ AlUp(b, 0) = b /\ AlUp(b, Tn) = AlDown(b)
  /\ \A b \in Slots, w \in AslWorkers : AlUp(AlDown(b), w) = AlDown(AlUp(b, w))
  /\ \A b \in Slots, w \in AslWorkers \ {0} : w - 1 \in AslWorkers /\ AlUp(AlDown(b), w) = AlUp(b, w - 1)
  /\ \A b \in Slots, v, w \in AslWorkers : AlUp(b, v) = AlUp(b, w) => v = w
  /\ 0 \in AslWorkers /\ Tn \in AslWorkers /\ 0 \in Slots
  BY AssemblyLineAssumption DEF AlUp, AlDown, Slots, AslWorkers, Tn

\* Every slot belongs to one worker.
LEMMA AlEverySlot ==
  ASSUME NEW b \in Slots, NEW s \in Slots
  PROVE  \E w \in AslWorkers : s = AlUp(b, w)
<1>1. CASE s >= b
  <2>1. s - b \in AslWorkers /\ AlUp(b, s - b) = s
    BY <1>1, AssemblyLineAssumption DEF AlUp, Slots, AslWorkers
  <2> QED
    BY <2>1
<1>2. CASE s < b
  <2>1. s - b + Size \in AslWorkers /\ AlUp(b, s - b + Size) = s
    BY <1>2, AssemblyLineAssumption DEF AlUp, Slots, AslWorkers
  <2> QED
    BY <2>1
<1> QED
  BY <1>1, <1>2, AssemblyLineAssumption DEF Slots

\* What the remainder is, once round in either direction.
LEMMA AlModulo ==
  ASSUME NEW n \in Nat \ {0}, NEW a \in Int
  PROVE  /\ 0 <= a /\ a < n => a % n = a
         /\ n <= a /\ a < 2 * n => a % n = a - n
         /\ 0 - n <= a /\ a < 0 => a % n = a + n
  OBVIOUS

\* Who stands at the slot of the cycle that goes on, and has not moved; outside
\* a cycle this is everybody.
AlPending(w) == engine # "collects" \/ (w \notin workers_asleep /\ apc[w] \in {"sleeps", "removes", "moves"})

\* The engine leaves no cycle before all workers sleep.
AlSched ==
    /\ apc \in [AslWorkers -> {"starts", "sleeps", "removes", "moves", "reports"}]
    /\ curr_slot \in [AslWorkers -> Slots]
    /\ workers_asleep \in SUBSET AslWorkers /\ \A w \in workers_asleep : apc[w] = "sleeps"
    /\ n_workers_ready = Cardinality(workers_asleep)
    /\ \A w \in AslWorkers : apc[w] = "removes" => w = Tn
    /\ engine \in {"none", "starts", "collects", "halted"}
    /\ engine = "none" => /\ \A w \in AslWorkers : apc[w] = "starts" \/ w \in workers_asleep
                          /\ main_pc = "ready" => workers_asleep = AslWorkers
    /\ engine \in {"starts", "halted"} => workers_asleep = AslWorkers
    /\ engine # "none" => main_pc = "ready" /\ \A w \in AslWorkers : apc[w] # "starts"

\* b is where worker 0 stands at the beginning of the cycle.
AlPlaces(b) == \A w \in AslWorkers : curr_slot[w] = IF AlPending(w) THEN AlUp(b, w) ELSE AlDown(AlUp(b, w))

\* The number of the workers that sleep says whether all do.
LEMMA AlAllAsleep ==
  ASSUME AlSched
  PROVE  n_workers_ready = Size <=> workers_asleep = AslWorkers
<1>1. IsFiniteSet(AslWorkers) /\ Cardinality(AslWorkers) = Size
  BY FS_Interval, AssemblyLineAssumption DEF AslWorkers
<1> QED
  BY <1>1, FS_Subset DEF AlSched

\* All who sleep stand one after the other, and nobody at the slot of another.
LEMMA AlSchedSuffices ==
  ASSUME AlSched, NEW b \in Slots, AlPlaces(b)
  PROVE  AslLineKept
<1>1. ASSUME AtRest, NEW w \in AslWorkers PROVE curr_slot[w] = (curr_slot[T0] + w) % Size
  <2>1. workers_asleep = AslWorkers
    BY <1>1, AlAllAsleep DEF AtRest
  <2>2. PICK c \in Slots : \A v \in AslWorkers : curr_slot[v] = AlUp(c, v)
    <3>1. CASE engine = "collects"
      <4>1. \A v \in AslWorkers : curr_slot[v] = AlUp(AlDown(b), v) /\ AlDown(b) \in Slots
        BY <2>1, <3>1, AlRing DEF AlPlaces, AlPending
      <4> QED
        BY <4>1
    <3>2. CASE engine # "collects"
      BY <2>1, <3>2 DEF AlPlaces, AlPending
    <3> QED
      BY <3>1, <3>2
  <2>3. curr_slot[T0] = c
    BY <2>2, AlRing DEF T0
  <2>4. curr_slot[w] = AlUp(c, w)
    BY <2>2
  <2>5. c \in 0 .. Size - 1 /\ w \in 0 .. Size - 1 /\ Size \in Nat \ {0}
    BY AssemblyLineAssumption DEF Slots, AslWorkers
  <2>6. (c + w) % Size = AlUp(c, w)
    <3>1. c + w \in Int /\ 0 <= c + w /\ c + w < 2 * Size
      BY <2>5
    <3> DEFINE a == c + w
    <3>2. /\ a < Size => a % Size = a
          /\ Size <= a => a % Size = a - Size
      <4>1. a \in Int /\ 0 <= a /\ a < 2 * Size /\ Size \in Nat \ {0}
        BY <2>5, <3>1
      <4> HIDE DEF a
      <4> QED
        BY ONLY <4>1, AlModulo
    <3> QED
      BY <2>5, <3>1, <3>2 DEF AlUp
  <2> QED
    BY <2>3, <2>4, <2>6
<1>2. ASSUME NEW v \in AslWorkers \ workers_asleep, NEW w \in AslWorkers \ workers_asleep,
             v # w, apc[v] = "sleeps", apc[w] \in {"sleeps", "removes"}
      PROVE  curr_slot[v] # curr_slot[w]
  <2>1. AlPending(v) /\ AlPending(w)
    BY <1>2 DEF AlPending
  <2> QED
    BY <1>2, <2>1, AlRing DEF AlPlaces
<1> QED
  BY <1>1, <1>2 DEF AslLineKept, AlSched

\* The workers are created at the slots of their numbers.
LEMMA AlInitSched == AslInit => AlSched /\ AlPlaces(0)
<1> SUFFICES ASSUME AslInit PROVE AlSched /\ AlPlaces(0)
  OBVIOUS
<1>1. \A w \in AslWorkers : AlUp(0, w) = w /\ w \in Slots
  BY AssemblyLineAssumption DEF AlUp, AslWorkers, Slots
<1> QED
  BY <1>1, FS_EmptySet DEF AslInit, AlSched, AlPlaces, AlPending

\* A worker that goes to sleep is counted.
LEMMA AlOneAsleep ==
  ASSUME AlSched, NEW w \in AslWorkers, w \notin workers_asleep, sleep_at_slot(w)
  PROVE  n_workers_ready' = Cardinality(workers_asleep')
<1>1. IsFiniteSet(AslWorkers)
  BY FS_Interval, AssemblyLineAssumption DEF AslWorkers
<1> QED
  BY <1>1, CountOneMore DEF AlSched, sleep_at_slot

\* What the workers do.
LEMMA AlWorkerSched ==
  ASSUME AlSched, NEW b \in Slots, AlPlaces(b), NEW w \in AslWorkers, worker_thread_init(w)
  PROVE  /\ AlSched' /\ AlPlaces(b)' /\ engine' = engine
         /\ ~worker_ready(w) => engine = "collects" /\ w \notin workers_asleep
<1>1. CASE worker_ready(w)
  <2>1. /\ apc[w] = "starts" /\ apc' = [apc EXCEPT ![w] = "sleeps"]
        /\ workers_asleep' = workers_asleep \cup {w}
        /\ UNCHANGED <<curr_slot, engine>> /\ main_pc' \in {"woken", main_pc}
    BY <1>1 DEF worker_ready, sleep_at_slot, lineVars
  <2>2. w \notin workers_asleep /\ engine = "none" /\ main_pc # "ready"
    BY <2>1 DEF AlSched
  <2>3. n_workers_ready' = Cardinality(workers_asleep')
    BY <1>1, <2>2, AlOneAsleep DEF worker_ready
  <2> QED
    BY <1>1, <2>1, <2>2, <2>3 DEF AlSched, AlPlaces, AlPending
<1>2. CASE worker_work(w)
  <2>1. /\ apc[w] = "sleeps" /\ w \notin workers_asleep
        /\ UNCHANGED <<curr_slot, engine, workers_asleep, n_workers_ready, main_pc>>
    BY <1>2 DEF worker_work
  <2>2. PICK place \in {"moves", "removes"} :
           apc' = [apc EXCEPT ![w] = place] /\ (place = "removes" => w = Tn)
    BY <1>2 DEF worker_work
  <2>3. engine = "collects"
    BY <2>1 DEF AlSched
  <2>4. \A v \in AslWorkers : AlPending(v)' <=> AlPending(v)
    BY <2>1, <2>2 DEF AlPending, AlSched
  <2>5. AlSched'
    BY <2>1, <2>2, <2>3 DEF AlSched
  <2> QED
    BY <2>1, <2>3, <2>4, <2>5 DEF AlPlaces
<1>3. CASE worker_remove(w)
  <2>1. /\ apc[w] = "removes" /\ apc' = [apc EXCEPT ![w] = "moves"]
        /\ UNCHANGED <<curr_slot, engine, workers_asleep, n_workers_ready, main_pc>>
    BY <1>3 DEF worker_remove
  <2>3. engine = "collects" /\ w \notin workers_asleep
    BY <2>1 DEF AlSched
  <2>4. \A v \in AslWorkers : AlPending(v)' <=> AlPending(v)
    BY <2>1 DEF AlPending, AlSched
  <2>5. AlSched'
    BY <2>1, <2>3 DEF AlSched
  <2> QED
    BY <2>1, <2>3, <2>4, <2>5 DEF AlPlaces
<1>4. CASE worker_move(w)
  <2>1. /\ apc[w] = "moves" /\ apc' = [apc EXCEPT ![w] = "reports"]
        /\ curr_slot' = [curr_slot EXCEPT ![w] = AlDown(curr_slot[w])]
        /\ UNCHANGED <<engine, workers_asleep, n_workers_ready, main_pc>>
    BY <1>4 DEF worker_move, AlDown, AlSched
  <2>3. engine = "collects" /\ w \notin workers_asleep
    BY <2>1 DEF AlSched
  <2>4. /\ \A v \in AslWorkers \ {w} : AlPending(v)' <=> AlPending(v)
        /\ AlPending(w) /\ ~AlPending(w)'
    BY <2>1, <2>3 DEF AlPending, AlSched
  <2>5. AlSched'
    BY <2>1, <2>3, AlRing DEF AlSched
  <2>6. \A v \in AslWorkers : curr_slot'[v] = IF v = w THEN AlDown(curr_slot[w]) ELSE curr_slot[v]
    BY <2>1 DEF AlSched
  <2> QED
    BY <2>1, <2>3, <2>4, <2>5, <2>6 DEF AlPlaces
<1>5. CASE worker_report(w)
  <2>1. /\ apc[w] = "reports" /\ apc' = [apc EXCEPT ![w] = "sleeps"]
        /\ workers_asleep' = workers_asleep \cup {w}
        /\ UNCHANGED <<curr_slot, engine, main_pc>>
    BY <1>5 DEF worker_report, sleep_at_slot, lineVars
  <2>2. engine = "collects" /\ w \notin workers_asleep
    BY <2>1 DEF AlSched
  <2>3. n_workers_ready' = Cardinality(workers_asleep')
    BY <1>5, <2>2, AlOneAsleep DEF worker_report
  <2>4. \A v \in AslWorkers : AlPending(v)' <=> AlPending(v)
    BY <2>1, <2>2 DEF AlPending, AlSched
  <2>5. AlSched'
    BY <2>1, <2>2, <2>3 DEF AlSched
  <2> QED
    BY <2>1, <2>2, <2>4, <2>5 DEF AlPlaces
<1> QED
  BY <1>1, <1>2, <1>3, <1>4, <1>5 DEF worker_thread_init

\* What the engine does when all workers sleep: a cycle begins, or none.
LEMMA AlKick ==
  ASSUME AlSched, workers_asleep = AslWorkers, engine # "none", UNCHANGED <<curr_slot, apc, main_pc>>,
         \/ engine_kick
         \/ engine' = "halted" /\ UNCHANGED <<n_workers_ready, workers_asleep>>
  PROVE  AlSched' /\ \A w \in AslWorkers : AlPending(w)'
<1>1. CASE engine_kick
  BY <1>1, FS_EmptySet DEF engine_kick, AlSched, AlPending
<1>2. CASE engine' = "halted" /\ UNCHANGED <<n_workers_ready, workers_asleep>>
  BY <1>2 DEF AlSched, AlPending
<1> QED
  BY <1>1, <1>2

\* The cycle that begins is one slot further on where another has ended.
LEMMA AlEngineSched ==
  ASSUME AlSched, NEW b \in Slots, AlPlaces(b), asl_engine_fn
  PROVE  /\ AlSched'
         /\ engine = "collects" /\ workers_asleep = AslWorkers => AlPlaces(AlDown(b))'
         /\ ~(engine = "collects" /\ workers_asleep = AslWorkers) => AlPlaces(b)'
<1>1. CASE engine_start \/ engine_resume
  <2>1. engine \in {"starts", "halted"} /\ UNCHANGED <<curr_slot, apc, main_pc>> /\ engine_kick
    BY <1>1 DEF engine_start, engine_resume, lineVars
  <2>2. AlSched' /\ \A w \in AslWorkers : AlPending(w)'
    BY <2>1, AlKick DEF AlSched
  <2> QED
    BY <2>1, <2>2 DEF AlPlaces, AlPending
<1>2. CASE engine_collect /\ n_workers_ready # Size
  <2>1. UNCHANGED <<curr_slot, n_workers_ready, workers_asleep, engine, apc, main_pc>> /\ engine = "collects"
    BY <1>2 DEF engine_collect, lineVars
  <2>2. workers_asleep # AslWorkers
    BY <1>2, AlAllAsleep
  <2> QED
    BY <2>1, <2>2 DEF AlSched, AlPlaces, AlPending
<1>3. CASE engine_collect /\ n_workers_ready = Size
  <2>1. /\ engine = "collects" /\ UNCHANGED <<curr_slot, apc, main_pc>>
        /\ \/ engine_kick
           \/ engine' = "halted" /\ UNCHANGED <<n_workers_ready, workers_asleep>>
    BY <1>3 DEF engine_collect, admit_from_wait_list
  <2>2. workers_asleep = AslWorkers
    BY <1>3, AlAllAsleep
  <2>3. AlSched' /\ \A w \in AslWorkers : AlPending(w)'
    BY <2>1, <2>2, AlKick
  <2>4. \A w \in AslWorkers : curr_slot[w] = AlUp(AlDown(b), w)
    BY <2>1, <2>2, AlRing DEF AlPlaces, AlPending
  <2> QED
    BY <2>1, <2>2, <2>3, <2>4 DEF AlPlaces
<1> QED
  BY <1>1, <1>2, <1>3 DEF asl_engine_fn, engine_collect

\* What the other threads do.
LEMMA AlMainSched ==
  ASSUME AlSched, NEW b \in Slots, AlPlaces(b),
         \/ asl_wait_until_all_workers_ready \/ engine_spurious_wakeup
         \/ assembly_line_push_new_item \/ UNCHANGED aslVars
  PROVE  /\ AlSched' /\ AlPlaces(b)' /\ UNCHANGED <<apc, workers_asleep, curr_slot>>
         /\ engine' = engine \/ (engine # "collects" /\ engine' # "collects")
<1>1. CASE asl_wait_until_all_workers_ready
  <2>1. /\ UNCHANGED <<curr_slot, n_workers_ready, workers_asleep, engine, apc>>
        /\ main_pc # "ready" /\ (main_pc' = "ready" => n_workers_ready = Size)
    BY <1>1 DEF asl_wait_until_all_workers_ready, lineVars
  <2> QED
    BY <2>1, AlAllAsleep DEF AlSched, AlPlaces, AlPending
<1>2. CASE engine_spurious_wakeup \/ UNCHANGED aslVars
  <2>1. UNCHANGED <<curr_slot, n_workers_ready, workers_asleep, engine, apc, main_pc>>
    BY <1>2 DEF engine_spurious_wakeup, aslVars, schedVars, lineVars
  <2> QED
    BY <2>1 DEF AlSched, AlPlaces, AlPending
<1>3. CASE assembly_line_push_new_item
  <2>1. /\ main_pc = "ready" /\ UNCHANGED <<curr_slot, n_workers_ready, workers_asleep, apc, main_pc>>
        /\ engine' = engine \/ (engine = "none" /\ engine' = "starts")
    BY <1>3 DEF assembly_line_push_new_item, assembly_line_engine_start
  <2> QED
    BY <2>1 DEF AlSched, AlPlaces, AlPending
<1> QED
  BY <1>1, <1>2, <1>3

\* Every step keeps who works where.
LEMMA AlNextSched ==
  ASSUME AlSched, \E b \in Slots : AlPlaces(b), [AslNext]_aslVars
  PROVE  AlSched' /\ \E b \in Slots : AlPlaces(b)'
<1>1. PICK b \in Slots : AlPlaces(b)
  OBVIOUS
<1>2. AlDown(b) \in Slots
  BY AlRing
<1>3. CASE \E w \in AslWorkers : worker_thread_init(w)
  BY <1>1, <1>3, AlWorkerSched
<1>4. CASE asl_engine_fn
  BY <1>1, <1>2, <1>4, AlEngineSched
<1>5. CASE ~asl_engine_fn /\ ~\E w \in AslWorkers : worker_thread_init(w)
  BY <1>1, <1>5, AlMainSched DEF AslNext
<1> QED
  BY <1>3, <1>4, <1>5

----------------------------------------------------------------------------
(* The assembly line: its wait list. *)

\* The index d places below f in the buffer, going round.
AlBack(f, d) == IF d <= f THEN f - d ELSE f - d + WaitSize
AlIndices == 0 .. WaitSize - 1

\* The buffer of a queue whose oldest element is e + 1, the next e + 2, and so on.
AlBuffer(q, e) ==
    /\ DOMAIN q = {"elem", "size", "front", "rear", "count"}
    /\ q.elem \in [AlIndices -> Nat] /\ q.size = WaitSize
    /\ q.front \in AlIndices /\ q.rear \in AlIndices /\ q.count \in 0 .. WaitSize
    /\ q.rear = AlBack(q.front, IF q.count = 0 THEN 0 ELSE q.count - 1)
    /\ \A k \in 1 .. q.count : q.elem[AlBack(q.front, k - 1)] = e + k

\* Going round the buffer.
LEMMA AlBacks ==
  ASSUME NEW f \in AlIndices
  PROVE  /\ \A d \in AlIndices : /\ AlBack(f, d) \in AlIndices
                                 /\ AlBack(f, d) = f <=> d = 0
                                 /\ (f - d) % WaitSize = AlBack(f, d)
         /\ \A c, d \in AlIndices : AlBack(f, c) = AlBack(f, d) => c = d
         /\ \A d \in AlIndices : d + 1 \in AlIndices => AlBack(f, d + 1) = AlBack(AlBack(f, 1), d)
         /\ \A d \in AlIndices : d + 1 \in AlIndices =>
               AlBack(f, d + 1) = IF AlBack(f, d) = 0 THEN WaitSize - 1 ELSE AlBack(f, d) - 1
<1>1. f \in Int /\ 0 <= f /\ f < WaitSize /\ WaitSize \in Nat \ {0}
  BY AssemblyLineAssumption DEF AlIndices
<1>2. ASSUME NEW d \in AlIndices
      PROVE  /\ AlBack(f, d) \in AlIndices /\ (AlBack(f, d) = f <=> d = 0)
             /\ (f - d) % WaitSize = AlBack(f, d)
  <2>1. AlBack(f, d) \in AlIndices /\ (AlBack(f, d) = f <=> d = 0)
    BY <1>1 DEF AlBack, AlIndices
  <2> DEFINE a == f - d
  <2>2. a \in Int /\ 0 - WaitSize <= a /\ a < WaitSize
    BY <1>1 DEF AlIndices
  <2>3. AlBack(f, d) = IF 0 <= a THEN a ELSE a + WaitSize
    BY <1>1 DEF AlBack, AlIndices
  <2> HIDE DEF a
  <2>4. /\ 0 <= a => a % WaitSize = a
        /\ a < 0 => a % WaitSize = a + WaitSize
    BY ONLY <1>1, <2>2, AlModulo
  <2>5. a % WaitSize = AlBack(f, d)
    BY <2>2, <2>3, <2>4
  <2> QED
    BY <2>1, <2>5 DEF a
<1>3. ASSUME NEW c \in AlIndices, NEW d \in AlIndices, AlBack(f, c) = AlBack(f, d) PROVE c = d
  BY <1>1, <1>3 DEF AlBack, AlIndices
<1>4. ASSUME NEW d \in AlIndices, d + 1 \in AlIndices
      PROVE  /\ AlBack(f, d + 1) = AlBack(AlBack(f, 1), d)
             /\ AlBack(f, d + 1) = IF AlBack(f, d) = 0 THEN WaitSize - 1 ELSE AlBack(f, d) - 1
  BY <1>1, <1>4 DEF AlBack, AlIndices
<1> QED
  BY <1>2, <1>3, <1>4

\* What the buffer stands for.
LEMMA AlBufferContents ==
  ASSUME NEW q, NEW e \in Nat, AlBuffer(q, e)
  PROVE  /\ Contents(q) = [k \in 1 .. q.count |-> e + k]
         /\ q.count \in 0 .. WaitSize
<1>1. /\ q.front \in AlIndices /\ q.count \in 0 .. WaitSize /\ q.size = WaitSize
      /\ \A k \in 1 .. q.count : q.elem[AlBack(q.front, k - 1)] = e + k
  BY DEF AlBuffer
<1>2. ASSUME NEW k \in 1 .. q.count PROVE q.elem[(q.front - (k - 1)) % q.size] = e + k
  <2>1. k - 1 \in AlIndices
    BY <1>1, AssemblyLineAssumption DEF AlIndices
  <2>2. (q.front - (k - 1)) % WaitSize = AlBack(q.front, k - 1)
    BY <1>1, <2>1, AlBacks
  <2> QED
    BY <1>1, <2>2
<1> QED
  BY <1>1, <1>2 DEF Contents

\* A buffer with room takes the next element.
LEMMA AlEnqueued ==
  ASSUME NEW q, NEW e \in Nat, AlBuffer(q, e), ~is_queue_full(q)
  PROVE  /\ AlBuffer(Fifo_enqueue(q, e + q.count + 1), e)
         /\ Fifo_enqueue(q, e + q.count + 1).count = q.count + 1
<1> DEFINE p == e + q.count + 1
           rear == IF q.count = 0 THEN q.rear ELSE Below(q, q.rear)
           r == Fifo_enqueue(q, p)
<1>1. /\ DOMAIN q = {"elem", "size", "front", "rear", "count"}
      /\ q.size = WaitSize /\ q.front \in AlIndices /\ q.rear \in AlIndices /\ q.count \in 0 .. WaitSize
      /\ q.elem \in [AlIndices -> Nat]
      /\ q.rear = AlBack(q.front, IF q.count = 0 THEN 0 ELSE q.count - 1)
      /\ \A k \in 1 .. q.count : q.elem[AlBack(q.front, k - 1)] = e + k
  BY DEF AlBuffer
<1>2. /\ q.count \in AlIndices /\ 0 \in AlIndices /\ p \in Nat /\ WaitSize \in Nat \ {0}
      /\ q.count \in Int /\ 0 <= q.count /\ q.count < WaitSize
  BY <1>1, AssemblyLineAssumption DEF is_queue_full, AlIndices
<1>3. rear = AlBack(q.front, q.count)
  <2>1. CASE q.count = 0
    BY <1>1, <2>1
  <2>2. CASE q.count # 0
    <3>1. q.count - 1 \in AlIndices /\ (q.count - 1) + 1 = q.count
      BY ONLY <1>2, <2>2 DEF AlIndices
    <3>2. AlBack(q.front, (q.count - 1) + 1) =
             IF AlBack(q.front, q.count - 1) = 0 THEN WaitSize - 1 ELSE AlBack(q.front, q.count - 1) - 1
      BY <1>1, <1>2, <3>1, AlBacks
    <3> QED
      BY <1>1, <2>2, <3>1, <3>2 DEF Below
  <2> QED
    BY <2>1, <2>2
<1>4. rear \in AlIndices
  BY <1>1, <1>2, <1>3, AlBacks
<1> HIDE DEF rear, p
<1>5. r = [q EXCEPT !.elem[rear] = p, !.rear = rear, !.count = @ + 1]
  BY DEF Fifo_enqueue, rear
<1>6. /\ DOMAIN r = {"elem", "size", "front", "rear", "count"}
      /\ r.elem = [q.elem EXCEPT ![rear] = p] /\ r.rear = rear /\ r.count = q.count + 1
      /\ r.front = q.front /\ r.size = WaitSize
  BY <1>1, <1>5
<1> HIDE DEF r
<1>7. r.count \in 0 .. WaitSize /\ r.count - 1 = q.count /\ r.count # 0
  BY <1>2, <1>6 DEF AlIndices
<1>8. ASSUME NEW k \in 1 .. r.count PROVE r.elem[AlBack(r.front, k - 1)] = e + k
  <2>1. k - 1 \in AlIndices
    BY <1>2, <1>6 DEF AlIndices
  <2>2. CASE k = q.count + 1
    <3>1. k - 1 = q.count
      BY <1>2, <2>2 DEF AlIndices
    <3>2. r.elem[rear] = p
      BY <1>1, <1>4, <1>6
    <3> QED
      BY <1>2, <1>3, <1>6, <2>2, <3>1, <3>2 DEF p
  <2>3. CASE k # q.count + 1
    <3>1. k \in 1 .. q.count /\ k - 1 # q.count
      BY <1>2, <1>6, <2>3 DEF AlIndices
    <3>2. AlBack(q.front, k - 1) # rear /\ AlBack(q.front, k - 1) \in AlIndices
      BY <1>1, <1>2, <1>3, <2>1, <3>1, AlBacks
    <3> QED
      BY <1>1, <1>6, <3>1, <3>2
  <2> QED
    BY <2>2, <2>3
<1>9. AlBuffer(r, e)
  <2>1. r.elem \in [AlIndices -> Nat] /\ r.front \in AlIndices /\ r.rear \in AlIndices
    BY <1>1, <1>2, <1>4, <1>6
  <2>2. r.rear = AlBack(r.front, IF r.count = 0 THEN 0 ELSE r.count - 1)
    BY <1>3, <1>6, <1>7
  <2> QED
    BY <1>6, <1>7, <1>8, <2>1, <2>2 DEF AlBuffer
<1> QED
  BY <1>6, <1>9 DEF r, p

\* The oldest element of a buffer, and what is left when it is taken.
LEMMA AlDequeued ==
  ASSUME NEW q, NEW e \in Nat, AlBuffer(q, e), q.count # 0
  PROVE  /\ AlBuffer(Fifo_deque(q), e + 1)
         /\ Fifo_deque(q).count = q.count - 1 /\ Oldest(q) = e + 1
<1> DEFINE front == IF q.front = q.rear THEN q.front ELSE Below(q, q.front)
           r == Fifo_deque(q)
<1>1. /\ DOMAIN q = {"elem", "size", "front", "rear", "count"}
      /\ q.size = WaitSize /\ q.front \in AlIndices /\ q.rear \in AlIndices /\ q.count \in 1 .. WaitSize
      /\ q.elem \in [AlIndices -> Nat]
      /\ q.rear = AlBack(q.front, q.count - 1)
      /\ \A k \in 1 .. q.count : q.elem[AlBack(q.front, k - 1)] = e + k
  BY DEF AlBuffer
<1>2. /\ q.count - 1 \in AlIndices /\ 0 \in AlIndices /\ WaitSize \in Nat \ {0} /\ 0 + 1 = 1
      /\ q.count \in Int /\ 1 <= q.count /\ q.count <= WaitSize
      /\ q.front \in Int /\ 0 <= q.front /\ q.front < WaitSize
  BY <1>1, AssemblyLineAssumption DEF AlIndices
<1>13. /\ \A d \in AlIndices : AlBack(q.front, d) \in AlIndices
       /\ \A d \in AlIndices : (AlBack(q.front, d) = q.front) <=> (d = 0)
       /\ \A d \in AlIndices : d + 1 \in AlIndices =>
             AlBack(q.front, d + 1) = AlBack(AlBack(q.front, 1), d)
  BY <1>1, AlBacks
<1>3. Oldest(q) = e + 1
  <2>1. AlBack(q.front, 1 - 1) = q.front
    BY <1>1 DEF AlBack, AlIndices
  <2> QED
    BY <1>1, <2>1 DEF Oldest
<1>4. /\ q.count = 1 => front = q.front
      /\ q.count # 1 => front = AlBack(q.front, 1) /\ 1 \in AlIndices
  <2>1. q.front = q.rear <=> q.count - 1 = 0
    BY <1>1, <1>2, <1>13
  <2>2. q.count # 1 => 1 \in AlIndices
    BY ONLY <1>2 DEF AlIndices
  <2>3. 1 \in AlIndices => AlBack(q.front, 1) = Below(q, q.front)
    <3>1. Below(q, q.front) = IF q.front = 0 THEN WaitSize - 1 ELSE q.front - 1
      BY <1>1 DEF Below
    <3> QED
      BY ONLY <1>2, <3>1 DEF AlBack, AlIndices
  <2> QED
    BY <1>1, <2>1, <2>2, <2>3
<1>5. front \in AlIndices
  BY <1>1, <1>4, AlBacks
<1> HIDE DEF front
<1>6. r = [q EXCEPT !.elem[q.front] = Null, !.count = @ - 1, !.front = front]
  BY DEF Fifo_deque, front
<1>7. /\ DOMAIN r = {"elem", "size", "front", "rear", "count"}
      /\ r.elem = [q.elem EXCEPT ![q.front] = 0] /\ r.rear = q.rear /\ r.count = q.count - 1
      /\ r.front = front /\ r.size = WaitSize
  BY <1>1, <1>6 DEF Null
<1> HIDE DEF r
<1>8. r.count \in 0 .. WaitSize /\ r.count = q.count - 1
  BY ONLY <1>2, <1>7
<1>9. r.rear = AlBack(r.front, IF r.count = 0 THEN 0 ELSE r.count - 1)
  <2>1. CASE q.count = 1
    BY <1>1, <1>4, <1>7, <2>1
  <2>2. CASE q.count # 1
    <3>1. q.count - 2 \in AlIndices /\ (q.count - 2) + 1 = q.count - 1 /\ r.count # 0 /\ r.count - 1 = q.count - 2
      BY ONLY <1>2, <1>8, <2>2 DEF AlIndices
    <3>2. AlBack(q.front, (q.count - 2) + 1) = AlBack(AlBack(q.front, 1), q.count - 2)
      BY <1>1, <1>2, <3>1, AlBacks
    <3> QED
      BY <1>1, <1>4, <1>7, <2>2, <3>1, <3>2
  <2> QED
    BY <2>1, <2>2
<1>10. ASSUME NEW k \in 1 .. r.count PROVE r.elem[AlBack(r.front, k - 1)] = (e + 1) + k
  <2>1. /\ k + 1 \in 1 .. q.count /\ q.count # 1 /\ k \in AlIndices /\ k - 1 \in AlIndices
        /\ (k + 1) - 1 = k /\ (k - 1) + 1 = k /\ k # 0
    BY ONLY <1>2, <1>8, k \in 1 .. r.count DEF AlIndices
  <2>2. AlBack(q.front, (k - 1) + 1) = AlBack(AlBack(q.front, 1), k - 1)
    BY ONLY <1>13, <2>1
  <2>3. AlBack(r.front, k - 1) = AlBack(q.front, k)
    BY <1>4, <1>7, <2>1, <2>2
  <2>4. AlBack(q.front, k) # q.front /\ AlBack(q.front, k) \in AlIndices
    BY ONLY <1>13, <2>1
  <2>5. q.elem[AlBack(q.front, (k + 1) - 1)] = e + (k + 1)
    BY <1>1, <2>1
  <2> QED
    BY <1>1, <1>7, <2>1, <2>3, <2>4, <2>5
<1>11. r.elem \in [AlIndices -> Nat] /\ r.front \in AlIndices /\ r.rear \in AlIndices
  BY <1>1, <1>5, <1>7
<1>12. AlBuffer(r, e + 1)
  BY <1>7, <1>8, <1>9, <1>10, <1>11 DEF AlBuffer
<1> QED
  BY <1>3, <1>7, <1>12 DEF r

----------------------------------------------------------------------------
(* The assembly line: its objects. *)

\* Who has not looked at its slot in this cycle.
AlFresh(w) == engine # "collects" \/ (w \notin workers_asleep /\ apc[w] = "sleeps")

\* The line holds the n objects after f, the older ones further on.
AlOrdered(q, b, f, n) ==
    /\ q \in [Slots -> Nat]
    /\ {q[s] : s \in Slots} \ {0} = f + 1 .. f + n
    /\ \A k, l \in AslWorkers : k < l /\ q[AlUp(b, k)] # 0 /\ q[AlUp(b, l)] # 0
                                => q[AlUp(b, l)] < q[AlUp(b, k)]

\* The pieces of work come one after the other: all of them are done on what is
\* finished, and none on what has not entered.
AlWork(work, f, n) ==
    /\ work \in [1 .. MaxPushes -> Seq(AslWorkers)]
    /\ \A o \in 1 .. MaxPushes : work[o] = [k \in 1 .. Len(work[o]) |-> k - 1]
    /\ \A o \in 1 .. MaxPushes : o > f + n => Len(work[o]) = 0
    /\ \A o \in 1 .. MaxPushes : o <= f => Len(work[o]) = Size

\* As many workers have worked on an object as it has passed.
AlHad(q, b, work) ==
    \A k \in AslWorkers : q[AlUp(b, k)] # 0 =>
        Len(work[q[AlUp(b, k)]]) = IF AlFresh(k) THEN k ELSE k + 1

AlFinished == finished \in Seq(Nat) /\ \A k \in 1 .. Len(finished) : finished[k] = k

\* The last slot of a cycle is empty when its worker is through with it.
AlLastSlot(q, b) ==
    /\ apc[Tn] = "removes" => q[AlUp(b, Tn)] # 0
    /\ ~AlFresh(Tn) /\ apc[Tn] # "removes" => q[AlUp(b, Tn)] = 0

\* What is pushed and has not entered is in the wait list, and an engine that
\* rests beside an empty line has nothing to do.
AlWaiting ==
    /\ AlBuffer(wait_lst_fq, Len(finished) + Count)
    /\ pushed \in 0 .. MaxPushes /\ pushed = Len(finished) + Count + wait_lst_fq.count
    /\ engine # "collects" /\ Count = 0 => wait_lst_fq.count = 0

AlData(b) ==
    /\ AlOrdered(asl_q, b, Len(finished), Count)
    /\ AlWork(work_done, Len(finished), Count)
    /\ AlHad(asl_q, b, work_done) /\ AlLastSlot(asl_q, b)
    /\ AlFinished /\ AlWaiting

\* The objects in the line can be counted, and there are some if the count says so.
LEMMA AlCount ==
  /\ Count \in Nat
  /\ Count = 0 <=> \A s \in Slots : asl_q[s] = 0
<1> DEFINE S == {s \in Slots : asl_q[s] # 0}
<1>1. IsFiniteSet(Slots) /\ S \in SUBSET Slots
  BY FS_Interval, AssemblyLineAssumption DEF Slots
<1>2. Cardinality(S) \in Nat /\ (Cardinality(S) = 0 <=> S = {})
  BY <1>1, CountOfSubset
<1>3. Count = Cardinality(S)
  BY DEF Count, Null
<1> QED
  BY <1>2, <1>3

\* An object more, and one less.
LEMMA AlCountAfter ==
  ASSUME asl_q \in [Slots -> Nat], NEW s \in Slots, NEW x \in Nat, asl_q' = [asl_q EXCEPT ![s] = x]
  PROVE  /\ asl_q[s] = 0 /\ x # 0 => Count' = Count + 1
         /\ asl_q[s] # 0 /\ x = 0 => Count' = Count - 1
<1> DEFINE S == {r \in Slots : asl_q[r] # 0}
           T == {r \in Slots : asl_q'[r] # 0}
<1>1. IsFiniteSet(Slots) /\ S \in SUBSET Slots
  BY FS_Interval, AssemblyLineAssumption DEF Slots
<1>2. Count = Cardinality(S) /\ Count' = Cardinality(T)
  BY DEF Count, Null
<1>3. CASE asl_q[s] = 0 /\ x # 0
  <2>1. T = S \cup {s} /\ s \notin S
    BY <1>3
  <2> HIDE DEF S, T
  <2> QED
    BY <1>1, <1>2, <1>3, <2>1, CountOneMore
<1>4. CASE asl_q[s] # 0 /\ x = 0
  <2>1. T = S \ {s} /\ s \in S
    BY <1>4
  <2> HIDE DEF S, T
  <2> QED
    BY <1>1, <1>2, <1>4, <2>1, CountOneLess
<1> QED
  BY <1>3, <1>4

\* A new object at the slot of worker 0.
LEMMA AlEnters ==
  ASSUME NEW q, NEW c \in Slots, NEW f \in Nat, NEW n \in Nat,
         AlOrdered(q, c, f, n), q[c] = 0
  PROVE  AlOrdered([q EXCEPT ![c] = f + n + 1], c, f, n + 1)
<1> DEFINE r == [q EXCEPT ![c] = f + n + 1]
<1>1. /\ r \in [Slots -> Nat] /\ r[c] = f + n + 1
      /\ \A s \in Slots \ {c} : r[s] = q[s]
      /\ \A s \in Slots : q[s] # 0 => q[s] \in f + 1 .. f + n
  BY DEF AlOrdered
<1>2. AlUp(c, 0) = c /\ \A k \in AslWorkers : AlUp(c, k) \in Slots /\ (AlUp(c, k) = c <=> k = 0)
  BY AlRing
<1> HIDE DEF r
<1>3. {r[s] : s \in Slots} \ {0} = f + 1 .. f + (n + 1)
  <2>1. ASSUME NEW x \in {r[s] : s \in Slots} \ {0} PROVE x \in f + 1 .. f + (n + 1)
    <3>1. PICK s \in Slots : x = r[s]
      OBVIOUS
    <3> QED
      BY <1>1, <3>1
  <2>2. ASSUME NEW x \in f + 1 .. f + (n + 1) PROVE x \in {r[s] : s \in Slots} \ {0}
    <3>1. CASE x = f + n + 1
      BY <1>1, <3>1
    <3>2. CASE x # f + n + 1
      <4>1. x \in f + 1 .. f + n
        BY <3>2
      <4>2. PICK s \in Slots : q[s] = x /\ x # 0
        BY <4>1 DEF AlOrdered
      <4> QED
        BY <1>1, <4>2
    <3> QED
      BY <3>1, <3>2
  <2> QED
    BY <2>1, <2>2
<1>4. ASSUME NEW k \in AslWorkers, NEW l \in AslWorkers, k < l, r[AlUp(c, k)] # 0, r[AlUp(c, l)] # 0
      PROVE  r[AlUp(c, l)] < r[AlUp(c, k)]
  <2>1. l # 0 /\ AlUp(c, l) # c /\ r[AlUp(c, l)] = q[AlUp(c, l)]
    BY <1>1, <1>2, <1>4 DEF AslWorkers
  <2>2. q[AlUp(c, l)] \in f + 1 .. f + n
    BY <1>1, <1>2, <1>4, <2>1
  <2>3. CASE k = 0
    BY <1>1, <1>2, <2>1, <2>2, <2>3
  <2>4. CASE k # 0
    BY <1>1, <1>2, <1>4, <2>1, <2>4 DEF AlOrdered
  <2> QED
    BY <2>3, <2>4
<1> QED
  BY <1>1, <1>3, <1>4 DEF AlOrdered, r

\* The oldest object leaves from the slot of the last worker.
LEMMA AlLeaves ==
  ASSUME NEW q, NEW b \in Slots, NEW f \in Nat, NEW n \in Nat,
         AlOrdered(q, b, f, n), q[AlUp(b, Tn)] # 0
  PROVE  /\ q[AlUp(b, Tn)] = f + 1 /\ n # 0
         /\ AlOrdered([q EXCEPT ![AlUp(b, Tn)] = 0], b, f + 1, n - 1)
<1> DEFINE s == AlUp(b, Tn)
           r == [q EXCEPT ![s] = 0]
<1>1. s \in Slots /\ Tn \in AslWorkers
  BY AlRing
<1>2. /\ q \in [Slots -> Nat] /\ \A t \in Slots : q[t] # 0 => q[t] \in f + 1 .. f + n
      /\ r \in [Slots -> Nat] /\ r[s] = 0 /\ \A t \in Slots \ {s} : r[t] = q[t]
  BY <1>1 DEF AlOrdered
<1>3. ASSUME NEW w \in AslWorkers \ {Tn}, q[AlUp(b, w)] # 0 PROVE q[s] < q[AlUp(b, w)]
  <2>1. w < Tn
    BY AssemblyLineAssumption DEF AslWorkers, Tn
  <2> QED
    BY <1>1, <1>3, <2>1 DEF AlOrdered
<1>4. q[s] = f + 1 /\ n # 0
  <2>1. q[s] \in f + 1 .. f + n
    BY <1>1, <1>2
  <2>2. f + 1 \in f + 1 .. f + n
    BY <2>1
  <2>3. PICK t \in Slots : q[t] = f + 1
    BY <2>2 DEF AlOrdered
  <2>4. PICK w \in AslWorkers : t = AlUp(b, w)
    BY AlEverySlot
  <2>5. w # Tn => q[s] < f + 1
    BY <1>3, <2>3, <2>4
  <2>6. w = Tn
    BY <2>1, <2>5
  <2> QED
    BY <2>1, <2>3, <2>4, <2>6
<1>5. ASSUME NEW t \in Slots \ {s}, q[t] # 0 PROVE q[t] > f + 1
  <2>1. PICK w \in AslWorkers : t = AlUp(b, w)
    BY AlEverySlot
  <2> QED
    BY <1>2, <1>3, <1>4, <1>5, <2>1
<1> HIDE DEF r, s
<1>6. {r[t] : t \in Slots} \ {0} = (f + 1) + 1 .. (f + 1) + (n - 1)
  <2>1. ASSUME NEW x \in {r[t] : t \in Slots} \ {0} PROVE x \in (f + 1) + 1 .. (f + 1) + (n - 1)
    <3>1. PICK t \in Slots : x = r[t]
      OBVIOUS
    <3>2. t # s /\ x = q[t] /\ q[t] # 0
      BY <1>2, <2>1, <3>1
    <3> QED
      BY <1>2, <1>4, <1>5, <3>2
  <2>2. ASSUME NEW x \in (f + 1) + 1 .. (f + 1) + (n - 1) PROVE x \in {r[t] : t \in Slots} \ {0}
    <3>1. x \in f + 1 .. f + n /\ x # f + 1 /\ x # 0
      OBVIOUS
    <3>2. PICK t \in Slots : q[t] = x
      BY <3>1 DEF AlOrdered
    <3> QED
      BY <1>2, <1>4, <3>1, <3>2
  <2> QED
    BY <2>1, <2>2
<1>7. ASSUME NEW k \in AslWorkers, NEW l \in AslWorkers, k < l, r[AlUp(b, k)] # 0, r[AlUp(b, l)] # 0
      PROVE  r[AlUp(b, l)] < r[AlUp(b, k)]
  <2>1. AlUp(b, k) \in Slots \ {s} /\ AlUp(b, l) \in Slots \ {s}
    BY <1>2, <1>7, AlRing
  <2> QED
    BY <1>2, <1>7, <2>1 DEF AlOrdered
<1> QED
  BY <1>2, <1>4, <1>6, <1>7 DEF AlOrdered, r, s

\* The slots as the next cycle sees them.
LEMMA AlNextCycle ==
  ASSUME NEW q, NEW b \in Slots, NEW f \in Nat, NEW n \in Nat,
         AlOrdered(q, b, f, n), q[AlUp(b, Tn)] = 0
  PROVE  /\ AlOrdered(q, AlDown(b), f, n) /\ q[AlDown(b)] = 0
         /\ q[AlUp(AlDown(b), 0)] = 0
         /\ \A k \in AslWorkers \ {0} : k - 1 \in AslWorkers /\ q[AlUp(AlDown(b), k)] = q[AlUp(b, k - 1)]
<1> DEFINE c == AlDown(b)
<1>1. c \in Slots /\ AlUp(b, Tn) = c /\ AlUp(c, 0) = c
  BY AlRing
<1>2. \A k \in AslWorkers \ {0} : k - 1 \in AslWorkers /\ AlUp(c, k) = AlUp(b, k - 1)
  BY AlRing
<1> HIDE DEF c
<1>3. ASSUME NEW k \in AslWorkers, NEW l \in AslWorkers, k < l, q[AlUp(c, k)] # 0, q[AlUp(c, l)] # 0
      PROVE  q[AlUp(c, l)] < q[AlUp(c, k)]
  <2>1. k # 0 /\ l # 0 /\ k - 1 < l - 1
    BY <1>1, <1>3 DEF AslWorkers
  <2> QED
    BY <1>2, <1>3, <2>1 DEF AlOrdered
<1> QED
  BY <1>1, <1>2, <1>3 DEF AlOrdered, c

\* A step that leaves the line and the work alone.
LEMMA AlNothingMoves ==
  ASSUME NEW b \in Slots, AlData(b), UNCHANGED <<asl_q, wait_lst_fq, pushed, work_done, finished>>,
         \A w \in AslWorkers : AlFresh(w)' <=> AlFresh(w),
         apc'[Tn] = "removes" <=> apc[Tn] = "removes",
         engine' # "collects" => engine # "collects"
  PROVE  AlData(b)'
<1>1. Count' = Count
  BY DEF Count
<1>2. AlHad(asl_q, b, work_done)' /\ AlLastSlot(asl_q, b)'
  BY AlRing DEF AlData, AlHad, AlLastSlot
<1>3. AlFinished' /\ AlWaiting'
  BY <1>1 DEF AlData, AlFinished, AlWaiting
<1> QED
  BY <1>1, <1>2, <1>3 DEF AlData

\* No more objects are in the line or finished than are ever pushed.
LEMMA AlRoom ==
  ASSUME NEW b \in Slots, AlData(b)
  PROVE  Len(finished) + Count <= MaxPushes
<1>1. /\ Len(finished) \in Nat /\ Count \in Nat /\ Len(finished) + Count \in Nat
      /\ AlBuffer(wait_lst_fq, Len(finished) + Count)
  BY AlCount DEF AlData, AlFinished, AlWaiting
<1>2. wait_lst_fq.count \in 0 .. WaitSize
  BY <1>1 DEF AlBuffer
<1>3. pushed \in 0 .. MaxPushes /\ pushed = Len(finished) + Count + wait_lst_fq.count
  BY DEF AlData, AlWaiting
<1> QED
  BY <1>1, <1>2, <1>3, AssemblyLineAssumption

\* A worker works on the object at its slot.
LEMMA AlWorks ==
  ASSUME AlSched, NEW b \in Slots, AlPlaces(b), AlData(b), NEW w \in AslWorkers, worker_work(w)
  PROVE  AlData(b)'
<1> DEFINE o == asl_q[AlUp(b, w)]
           f == Len(finished)
<1>1. /\ engine = "collects" /\ w \notin workers_asleep /\ apc[w] = "sleeps"
      /\ UNCHANGED <<asl_q, wait_lst_fq, pushed, finished, engine, workers_asleep>>
  BY DEF worker_work, AlSched
<1>2. curr_slot[w] = AlUp(b, w) /\ AlUp(b, w) \in Slots
  BY <1>1, AlRing DEF AlPlaces, AlPending
<1>3. AlFresh(w)
  BY <1>1 DEF AlFresh
<1>4. Count' = Count /\ Count \in Nat /\ f \in Nat
  BY <1>1, AlCount DEF Count, AlData, AlFinished
<1>5. AlFinished' /\ AlWaiting' /\ AlOrdered(asl_q, b, Len(finished), Count)'
  BY <1>1, <1>4 DEF AlData, AlFinished, AlWaiting
<1>6. CASE o = 0
  <2>1. apc' = [apc EXCEPT ![w] = "moves"] /\ UNCHANGED work_done
    BY <1>2, <1>6 DEF worker_work, Null
  <2>2. ~AlFresh(w)' /\ \A v \in AslWorkers \ {w} : AlFresh(v)' <=> AlFresh(v)
    BY <1>1, <2>1 DEF AlFresh, AlSched
  <2>3. AlHad(asl_q, b, work_done)'
    BY <1>1, <1>6, <2>1, <2>2 DEF AlData, AlHad
  <2>4. AlLastSlot(asl_q, b)'
    <3>1. CASE w = Tn
      BY <1>1, <1>6, <2>1, <3>1 DEF AlLastSlot, AlSched
    <3>2. CASE w # Tn
      BY <1>1, <2>1, <2>2, <3>2, AlRing DEF AlData, AlLastSlot, AlSched
    <3> QED
      BY <3>1, <3>2
  <2> QED
    BY <1>4, <1>5, <2>1, <2>3, <2>4, <1>1 DEF AlData
<1>7. CASE o # 0
  <2>1. /\ work_done' = [work_done EXCEPT ![o] = Append(@, w)]
        /\ apc' = [apc EXCEPT ![w] = IF w = Tn THEN "removes" ELSE "moves"]
    BY <1>2, <1>7 DEF worker_work, Null
  <2>2. ~AlFresh(w)' /\ \A v \in AslWorkers \ {w} : AlFresh(v)' <=> AlFresh(v)
    BY <1>1, <2>1 DEF AlFresh, AlSched
  <2>3. o \in f + 1 .. f + Count /\ o \in 1 .. MaxPushes
    <3>1. o \in f + 1 .. f + Count
      BY <1>2, <1>7 DEF AlData, AlOrdered
    <3>2. f + Count <= MaxPushes
      BY AlRoom
    <3> QED
      BY <1>4, <3>1, <3>2, AssemblyLineAssumption
  <2>4. /\ work_done[o] \in Seq(AslWorkers) /\ Len(work_done[o]) = w
        /\ work_done[o] = [k \in 1 .. Len(work_done[o]) |-> k - 1]
    BY <1>3, <1>7, <2>3 DEF AlData, AlWork, AlHad
  <2>5. /\ Append(work_done[o], w) \in Seq(AslWorkers) /\ Len(Append(work_done[o], w)) = w + 1
        /\ Append(work_done[o], w) = [k \in 1 .. w + 1 |-> k - 1]
    BY <2>4 DEF AslWorkers
  <2>6. \A p \in 1 .. MaxPushes : work_done'[p] = IF p = o THEN Append(work_done[o], w) ELSE work_done[p]
    BY <2>1, <2>3 DEF AlData, AlWork
  <2>7. AlWork(work_done, Len(finished), Count)'
    <3>1. work_done' \in [1 .. MaxPushes -> Seq(AslWorkers)]
      BY <2>1, <2>3, <2>5 DEF AlData, AlWork
    <3>2. ASSUME NEW p \in 1 .. MaxPushes PROVE work_done'[p] = [k \in 1 .. Len(work_done'[p]) |-> k - 1]
      BY <2>5, <2>6 DEF AlData, AlWork
    <3>3. ASSUME NEW p \in 1 .. MaxPushes
          PROVE  /\ p > f + Count => Len(work_done'[p]) = 0
                 /\ p <= f => Len(work_done'[p]) = Size
      <4>1. p > f + Count \/ p <= f => p # o
        BY <1>4, <2>3
      <4> QED
        BY <2>6, <4>1 DEF AlData, AlWork
    <3> QED
      BY <1>1, <1>4, <3>1, <3>2, <3>3 DEF AlWork
  <2>8. AlHad(asl_q, b, work_done)'
    <3> SUFFICES ASSUME NEW k \in AslWorkers, asl_q[AlUp(b, k)] # 0
                 PROVE  Len(work_done'[asl_q[AlUp(b, k)]]) = IF AlFresh(k)' THEN k ELSE k + 1
      BY <1>1 DEF AlHad
    <3>1. CASE k = w
      BY <2>2, <2>3, <2>5, <2>6, <3>1
    <3>2. CASE k # w
      <4>1. asl_q[AlUp(b, k)] \in f + 1 .. f + Count /\ asl_q[AlUp(b, k)] \in Nat
        BY AlRing DEF AlData, AlOrdered
      <4>2. asl_q[AlUp(b, k)] # o
        <5>1. k < w \/ w < k
          BY <3>2 DEF AslWorkers
        <5>2. asl_q[AlUp(b, k)] < o \/ o < asl_q[AlUp(b, k)]
          BY <1>7, <5>1 DEF AlData, AlOrdered
        <5> QED
          BY <2>3, <4>1, <5>2
      <4>3. asl_q[AlUp(b, k)] \in 1 .. MaxPushes
        <5>1. f + Count <= MaxPushes
          BY AlRoom
        <5> QED
          BY <1>4, <4>1, <5>1, AssemblyLineAssumption
      <4>4. work_done'[asl_q[AlUp(b, k)]] = work_done[asl_q[AlUp(b, k)]]
        BY <2>6, <4>2, <4>3
      <4> QED
        BY <2>2, <3>2, <4>4 DEF AlData, AlHad
    <3> QED
      BY <3>1, <3>2
  <2>9. AlLastSlot(asl_q, b)'
    <3>1. CASE w = Tn
      BY <1>1, <1>7, <2>1, <3>1 DEF AlLastSlot, AlSched
    <3>2. CASE w # Tn
      BY <1>1, <2>1, <2>2, <3>2, AlRing DEF AlData, AlLastSlot, AlSched
    <3> QED
      BY <3>1, <3>2
  <2> QED
    BY <1>4, <1>5, <2>7, <2>8, <2>9, <1>1 DEF AlData
<1> QED
  BY <1>6, <1>7

\* The last worker takes the oldest object out, which all have worked on.
LEMMA AlRemoves ==
  ASSUME AlSched, NEW b \in Slots, AlPlaces(b), AlData(b), NEW w \in AslWorkers, worker_remove(w)
  PROVE  AlData(b)'
<1> DEFINE s == AlUp(b, Tn)
           f == Len(finished)
<1>1. /\ apc[w] = "removes" /\ w = Tn /\ w \notin workers_asleep /\ engine = "collects"
      /\ UNCHANGED <<wait_lst_fq, pushed, work_done, engine, workers_asleep>>
      /\ apc' = [apc EXCEPT ![w] = "moves"]
  BY DEF worker_remove, AlSched
<1>2. curr_slot[w] = s /\ s \in Slots /\ Tn \in AslWorkers
  BY <1>1, AlRing DEF AlPlaces, AlPending
<1>3. asl_q[s] # 0
  BY <1>1 DEF AlData, AlLastSlot
<1>4. /\ asl_q' = [asl_q EXCEPT ![s] = 0] /\ finished' = Append(finished, asl_q[s])
      /\ asl_q \in [Slots -> Nat] /\ finished \in Seq(Nat) /\ f \in Nat /\ Count \in Nat
  BY <1>2, AlCount DEF worker_remove, Null, AlData, AlOrdered, AlFinished
<1>5. asl_q[s] = f + 1 /\ Count # 0 /\ AlOrdered(asl_q', b, f + 1, Count - 1)
  BY <1>3, <1>4, AlLeaves DEF AlData
<1>6. Count' = Count - 1
  BY <1>2, <1>3, <1>4, AlCountAfter
<1>7. /\ Len(finished') = f + 1 /\ finished' \in Seq(Nat) /\ finished'[f + 1] = f + 1
      /\ \A k \in 1 .. f : finished'[k] = finished[k]
      /\ f + 1 + (Count - 1) = f + Count
  BY <1>4, <1>5
<1>8. \A v \in AslWorkers : AlFresh(v)' <=> AlFresh(v)
  BY <1>1 DEF AlFresh, AlSched
<1>9. ~AlFresh(Tn)
  BY <1>1 DEF AlFresh
<1>10. AlHad(asl_q, b, work_done)'
  <2> SUFFICES ASSUME NEW k \in AslWorkers, asl_q'[AlUp(b, k)] # 0
               PROVE  Len(work_done[asl_q'[AlUp(b, k)]]) = IF AlFresh(k) THEN k ELSE k + 1
    BY <1>1, <1>8 DEF AlHad
  <2>1. asl_q'[AlUp(b, k)] = asl_q[AlUp(b, k)]
    BY <1>4, AlRing
  <2> QED
    BY <2>1 DEF AlData, AlHad
<1>11. AlWork(work_done, f + 1, Count - 1)
  <2>1. Len(work_done[f + 1]) = Size
    <3>1. Len(work_done[asl_q[s]]) = Tn + 1
      BY <1>2, <1>3, <1>9 DEF AlData, AlHad
    <3> QED
      BY <1>5, <3>1, AssemblyLineAssumption DEF Tn
  <2>2. ASSUME NEW p \in 1 .. MaxPushes, p <= f + 1 PROVE Len(work_done[p]) = Size
    <3>1. p = f + 1 \/ p <= f
      BY <1>4, <2>2
    <3> QED
      BY <2>1, <3>1 DEF AlData, AlWork
  <2>3. f + 1 + (Count - 1) = f + Count
    BY <1>4
  <2> QED
    BY <2>2, <2>3 DEF AlData, AlWork
<1>12. AlFinished'
  <2>1. ASSUME NEW k \in 1 .. Len(finished') PROVE finished'[k] = k
    <3>1. k = f + 1 \/ k \in 1 .. f
      BY <1>4, <1>7
    <3> QED
      BY <1>7, <3>1 DEF AlData, AlFinished
  <2> QED
    BY <1>7, <2>1 DEF AlFinished
<1>13. AlLastSlot(asl_q, b)'
  <2>1. asl_q'[AlUp(b, Tn)] = 0 /\ apc'[Tn] # "removes"
    BY <1>1, <1>2, <1>4 DEF AlSched
  <2> QED
    BY <2>1 DEF AlLastSlot
<1>14. AlWaiting'
  BY <1>1, <1>6, <1>7 DEF AlData, AlWaiting
<1> QED
  BY <1>1, <1>5, <1>6, <1>7, <1>10, <1>11, <1>12, <1>13, <1>14 DEF AlData

\* A cycle ends: the next one begins one slot further on, where a waiting
\* object may enter, or the engine halts.
LEMMA AlCycleEnds ==
  ASSUME AlSched, NEW b \in Slots, AlPlaces(b), AlData(b), engine_collect, workers_asleep = AslWorkers
  PROVE  AlData(AlDown(b))'
<1> DEFINE c == AlDown(b)
           f == Len(finished)
           n == Count
<1>1. /\ engine = "collects" /\ n_workers_ready = Size /\ admit_from_wait_list
      /\ UNCHANGED <<apc, curr_slot, pushed, work_done, finished>>
  BY AlAllAsleep DEF engine_collect, admit_from_wait_list
<1>2. /\ engine_kick \/ (engine' = "halted" /\ n = 0 /\ Oldest(wait_lst_fq) = Null)
      /\ \A w \in AslWorkers : apc[w] = "sleeps" /\ ~AlFresh(w) /\ ~AlPending(w)
  BY <1>1 DEF engine_collect, AlSched, AlFresh, AlPending
<1>3. \A w \in AslWorkers : AlFresh(w)'
  BY <1>1, <1>2 DEF AlFresh, engine_kick
<1>4. c \in Slots /\ 0 \in AslWorkers /\ Tn \in AslWorkers /\ AlUp(b, 0) = b /\ AlUp(c, 0) = c
  BY AlRing
<1>5. curr_slot[T0] = c
  BY <1>2, <1>4 DEF AlPlaces, T0
<1>6. f \in Nat /\ n \in Nat /\ f + n \in Nat
  BY AlCount DEF AlData, AlFinished
<1>7. asl_q[AlUp(b, Tn)] = 0
  BY <1>2, <1>4 DEF AlData, AlLastSlot
<1>8. /\ AlOrdered(asl_q, c, f, n) /\ asl_q[c] = 0
      /\ \A k \in AslWorkers \ {0} : k - 1 \in AslWorkers /\ asl_q[AlUp(c, k)] = asl_q[AlUp(b, k - 1)]
  BY <1>6, <1>7, AlNextCycle DEF AlData
<1> HIDE DEF c, f, n
<1>9. \A k \in AslWorkers \ {0} : asl_q[AlUp(c, k)] # 0 => Len(work_done[asl_q[AlUp(c, k)]]) = k
  <2> SUFFICES ASSUME NEW k \in AslWorkers \ {0}, asl_q[AlUp(c, k)] # 0
               PROVE  Len(work_done[asl_q[AlUp(c, k)]]) = k
    OBVIOUS
  <2>1. /\ k - 1 \in AslWorkers /\ asl_q[AlUp(c, k)] = asl_q[AlUp(b, k - 1)]
    BY <1>8
  <2>2. Len(work_done[asl_q[AlUp(b, k - 1)]]) = k - 1 + 1
    BY <1>2, <2>1 DEF AlData, AlHad
  <2> QED
    BY <2>1, <2>2 DEF AslWorkers
<1>10. AlFinished' /\ f = Len(finished)'
  BY <1>1 DEF AlData, AlFinished, f
<1>11. AlBuffer(wait_lst_fq, f + n) /\ pushed \in 0 .. MaxPushes /\ pushed = f + n + wait_lst_fq.count
  BY DEF AlData, AlWaiting, f, n
<1>12. wait_lst_fq.count \in Nat
  BY <1>11, AssemblyLineAssumption DEF AlBuffer
<1>13. ASSUME NEW q, AlLastSlot(q, c)' \/ apc'[Tn] # "removes" PROVE AlLastSlot(q, c)'
  BY <1>3, <1>4, <1>13 DEF AlLastSlot
<1>14. apc'[Tn] # "removes"
  BY <1>1, <1>2, <1>4
<1>15. AlLastSlot(asl_q, c)'
  BY <1>3, <1>4, <1>14 DEF AlLastSlot
<1>16. CASE wait_lst_fq.count = 0
  <2>1. UNCHANGED <<asl_q, wait_lst_fq>>
    BY <1>1, <1>16 DEF admit_from_wait_list, Oldest, Fifo_deque, Null
  <2>2. Count' = n
    BY <2>1 DEF Count, n
  <2>3. AlHad(asl_q, c, work_done)'
    BY <1>1, <1>3, <1>4, <1>8, <1>9, <2>1 DEF AlHad
  <2>4. AlWork(work_done, Len(finished), Count)'
    BY <1>1, <2>2 DEF AlData, AlWork, f, n
  <2>5. AlOrdered(asl_q, c, Len(finished), Count)'
    BY <1>8, <1>10, <2>1, <2>2
  <2>6. AlWaiting'
    BY <1>1, <1>10, <1>11, <1>16, <2>1, <2>2 DEF AlWaiting
  <2> QED
    BY <1>10, <1>15, <2>3, <2>4, <2>5, <2>6 DEF AlData, c
<1>17. CASE wait_lst_fq.count # 0
  <2>1. /\ AlBuffer(Fifo_deque(wait_lst_fq), f + n + 1)
        /\ Fifo_deque(wait_lst_fq).count = wait_lst_fq.count - 1 /\ Oldest(wait_lst_fq) = f + n + 1
    BY <1>6, <1>11, <1>17, AlDequeued DEF f, n
  <2>2. /\ wait_lst_fq' = Fifo_deque(wait_lst_fq)
        /\ asl_q' = [asl_q EXCEPT ![c] = f + n + 1]
    BY <1>1, <1>5, <1>6, <2>1 DEF admit_from_wait_list, assembly_line_enqueue_new_item, Null, f, n
  <2>3. f + n + 1 \in Nat \ {0} /\ f \in Nat /\ n \in Nat /\ n + 1 \in Nat /\ f + (n + 1) = f + n + 1
    BY <1>6 DEF f, n
  <2>4. AlOrdered(asl_q', c, f, n + 1)
    BY <1>4, <1>8, <2>2, <2>3, AlEnters DEF c
  <2>5. asl_q \in [Slots -> Nat]
    BY <1>8 DEF AlOrdered
  <2>6. Count' = n + 1
    BY <1>4, <1>8, <2>2, <2>3, <2>5, AlCountAfter DEF n, c
  <2>7. f + n + 1 \in 1 .. MaxPushes
    BY <1>11, <1>12, <1>17, <2>3, AssemblyLineAssumption
  <2>8. Len(work_done[f + n + 1]) = 0
    BY <2>3, <2>7 DEF AlData, AlWork, f, n
  <2>9. AlHad(asl_q, c, work_done)'
    <3> SUFFICES ASSUME NEW k \in AslWorkers, asl_q'[AlUp(c, k)] # 0
                 PROVE  Len(work_done[asl_q'[AlUp(c, k)]]) = k
      BY <1>1, <1>3 DEF AlHad
    <3>1. CASE k = 0
      BY <1>4, <2>2, <2>5, <2>8, <3>1 DEF c
    <3>2. CASE k # 0
      <4>1. AlUp(c, k) # c /\ AlUp(c, k) \in Slots
        BY <1>4, <3>2, AlRing DEF c
      <4>2. asl_q'[AlUp(c, k)] = asl_q[AlUp(c, k)]
        BY <2>2, <2>5, <4>1
      <4> QED
        BY <1>9, <3>2, <4>2
    <3> QED
      BY <3>1, <3>2
  <2>10. AlWork(work_done, f, n + 1)
    <3>1. AlWork(work_done, f, n)
      BY DEF AlData, f, n
    <3>2. \A o \in 1 .. MaxPushes : o > f + (n + 1) => o > f + n
      BY <2>3
    <3> QED
      BY <3>1, <3>2 DEF AlWork
  <2>11. AlWaiting'
    <3>1. Len(finished)' + Count' = f + n + 1 /\ Count' # 0
      BY <1>10, <2>3, <2>6
    <3>2. pushed' = f + n + 1 + wait_lst_fq'.count
      BY <1>1, <1>11, <1>12, <2>1, <2>2, <2>3
    <3>3. AlBuffer(wait_lst_fq', Len(finished)' + Count')
      BY <2>1, <2>2, <3>1
    <3> QED
      BY <1>1, <1>11, <3>1, <3>2, <3>3 DEF AlWaiting
  <2>12. AlWork(work_done, Len(finished), Count)' /\ AlOrdered(asl_q, c, Len(finished), Count)'
    BY <1>1, <1>10, <2>4, <2>6, <2>10
  <2> QED
    BY <1>10, <1>15, <2>9, <2>11, <2>12 DEF AlData, c
<1> QED
  BY <1>16, <1>17

\* An object that is pushed enters the empty line, or waits.
LEMMA AlPushes ==
  ASSUME ~PushAnytime, AlSched, NEW b \in Slots, AlPlaces(b), AlData(b), assembly_line_push_new_item
  PROVE  AlData(b)'
<1> DEFINE f == Len(finished)
           n == Count
<1>1. /\ pushed < MaxPushes /\ (n # 0 \/ engine # "collects") /\ push_object
      /\ UNCHANGED <<curr_slot, work_done, finished, apc, workers_asleep>>
      /\ engine' = engine \/ (engine # "collects" /\ engine' # "collects")
  BY DEF assembly_line_push_new_item, assembly_line_engine_start
<1>2. f \in Nat /\ n \in Nat /\ f + n \in Nat
  BY AlCount DEF AlData, AlFinished
<1>3. \A w \in AslWorkers : AlFresh(w)' <=> AlFresh(w)
  BY <1>1 DEF AlFresh
<1>4. 0 \in AslWorkers /\ Tn \in AslWorkers /\ AlUp(b, 0) = b
  BY AlRing
<1>5. /\ AlBuffer(wait_lst_fq, f + n) /\ pushed \in 0 .. MaxPushes /\ pushed = f + n + wait_lst_fq.count
      /\ engine # "collects" /\ n = 0 => wait_lst_fq.count = 0
  BY DEF AlData, AlWaiting
<1> HIDE DEF f, n
<1>6. AlFinished' /\ Len(finished)' = f
  BY <1>1 DEF AlData, AlFinished, f
<1>7. wait_lst_fq.count \in Nat
  BY <1>5, AssemblyLineAssumption DEF AlBuffer
<1>8. /\ pushed' = pushed + 1
      /\ \/ n = 0 /\ asl_q' = [asl_q EXCEPT ![curr_slot[T0]] = pushed + 1] /\ UNCHANGED wait_lst_fq
         \/ /\ n # 0 /\ ~is_queue_full(wait_lst_fq) /\ UNCHANGED asl_q
            /\ wait_lst_fq' = Fifo_enqueue(wait_lst_fq, pushed + 1)
  BY <1>1 DEF push_object, assembly_line_enqueue_new_item, n
<1>9. CASE n = 0
  <2>1. engine # "collects" /\ wait_lst_fq.count = 0 /\ pushed = f
    BY <1>1, <1>2, <1>5, <1>9 DEF f
  <2>2. curr_slot[T0] = b
    BY <1>4, <2>1 DEF AlPlaces, AlPending, T0
  <2>3. /\ asl_q' = [asl_q EXCEPT ![b] = f + n + 1] /\ UNCHANGED wait_lst_fq
        /\ f + n + 1 \in Nat \ {0} /\ f + n + 1 = f + 1 /\ f \in Nat /\ n \in Nat /\ n + 1 = 1
    BY <1>2, <1>8, <1>9, <2>1, <2>2 DEF f
  <2>4. asl_q \in [Slots -> Nat] /\ \A s \in Slots : asl_q[s] = 0
    BY <1>9, AlCount DEF AlData, AlOrdered, n
  <2>5. AlOrdered(asl_q', b, f, n + 1)
    BY <2>3, <2>4, AlEnters DEF AlData, f, n
  <2>6. Count' = n + 1
    BY <2>3, <2>4, AlCountAfter DEF n
  <2>7. f + n + 1 \in 1 .. MaxPushes
    BY <1>1, <1>5, <2>1, <2>3, AssemblyLineAssumption
  <2>8. Len(work_done[f + n + 1]) = 0
    BY <2>3, <2>7 DEF AlData, AlWork, f, n
  <2>9. \A w \in AslWorkers : AlFresh(w)'
    BY <1>3, <2>1 DEF AlFresh
  <2>10. AlHad(asl_q, b, work_done)'
    <3> SUFFICES ASSUME NEW k \in AslWorkers, asl_q'[AlUp(b, k)] # 0
                 PROVE  Len(work_done[asl_q'[AlUp(b, k)]]) = k
      BY <1>1, <2>9 DEF AlHad
    <3>1. AlUp(b, k) \in Slots
      BY AlRing
    <3>2. AlUp(b, k) = b /\ asl_q'[AlUp(b, k)] = f + n + 1
      BY <2>3, <2>4, <3>1
    <3>3. k = 0
      BY <1>4, <3>2, AlRing
    <3> QED
      BY <2>8, <3>2, <3>3
  <2>11. AlLastSlot(asl_q, b)'
    <3>1. apc[Tn] # "removes"
      BY <1>4, <2>1 DEF AlSched
    <3> QED
      BY <1>1, <1>4, <2>9, <3>1 DEF AlLastSlot
  <2>12. AlWork(work_done, f, n + 1)
    <3>1. AlWork(work_done, f, n)
      BY DEF AlData, f, n
    <3>2. \A o \in 1 .. MaxPushes : o > f + (n + 1) => o > f + n
      BY <2>3
    <3> QED
      BY <3>1, <3>2 DEF AlWork
  <2>13. AlWaiting'
    <3>1. Len(finished)' + Count' = f + 1 /\ Count' # 0 /\ f + 1 \in Nat
      BY <1>6, <2>3, <2>6
    <3>2. AlBuffer(wait_lst_fq, f + 1)
      BY <1>5, <2>1 DEF AlBuffer
    <3>3. pushed' = f + 1 + wait_lst_fq'.count /\ pushed' \in 0 .. MaxPushes
      BY <1>1, <1>5, <1>8, <2>1, <2>3, AssemblyLineAssumption
    <3> QED
      BY <2>3, <3>1, <3>2, <3>3 DEF AlWaiting
  <2>14. AlWork(work_done, Len(finished), Count)' /\ AlOrdered(asl_q, b, Len(finished), Count)'
    BY <1>1, <1>6, <2>5, <2>6, <2>12
  <2> QED
    BY <1>6, <2>10, <2>11, <2>13, <2>14 DEF AlData
<1>10. CASE n # 0
  <2>1. /\ ~is_queue_full(wait_lst_fq) /\ UNCHANGED asl_q
        /\ wait_lst_fq' = Fifo_enqueue(wait_lst_fq, pushed + 1)
    BY <1>8, <1>10
  <2>2. Count' = n
    BY <2>1 DEF Count, n
  <2>3. f + n \in Nat /\ pushed + 1 = f + n + wait_lst_fq.count + 1
    BY <1>2, <1>5 DEF f, n
  <2>4. AlBuffer(wait_lst_fq', f + n) /\ wait_lst_fq'.count = wait_lst_fq.count + 1
    BY <1>5, <2>1, <2>3, AlEnqueued
  <2>5. AlHad(asl_q, b, work_done)' /\ AlLastSlot(asl_q, b)'
    BY <1>1, <1>3, <1>4, <2>1 DEF AlData, AlHad, AlLastSlot
  <2>6. AlWaiting'
    <3>1. pushed' \in 0 .. MaxPushes /\ pushed' = f + n + wait_lst_fq'.count
      BY <1>1, <1>5, <1>7, <1>8, <2>3, <2>4, AssemblyLineAssumption
    <3> QED
      BY <1>6, <1>10, <2>2, <2>4, <3>1 DEF AlWaiting
  <2>7. AlWork(work_done, Len(finished), Count)' /\ AlOrdered(asl_q, b, Len(finished), Count)'
    BY <1>1, <1>6, <2>1, <2>2 DEF AlData, f, n
  <2> QED
    BY <1>6, <2>5, <2>6, <2>7 DEF AlData
<1> QED
  BY <1>9, <1>10

\* What the others do moves nothing.
LEMMA AlOthers ==
  ASSUME AlSched, NEW b \in Slots, AlPlaces(b), AlData(b),
         \/ \E w \in AslWorkers : worker_ready(w) \/ worker_move(w) \/ worker_report(w)
         \/ engine_start \/ engine_resume \/ (engine_collect /\ workers_asleep # AslWorkers)
         \/ asl_wait_until_all_workers_ready \/ engine_spurious_wakeup \/ UNCHANGED aslVars
  PROVE  AlData(b)'
<1> USE AlNothingMoves
<1>1. Tn \in AslWorkers
  BY AlRing
<1>2. ASSUME NEW w \in AslWorkers, worker_ready(w) PROVE AlData(b)'
  <2>1. /\ UNCHANGED <<asl_q, wait_lst_fq, pushed, work_done, finished, engine>>
        /\ apc[w] = "starts" /\ apc' = [apc EXCEPT ![w] = "sleeps"] /\ engine = "none"
    BY <1>2 DEF worker_ready, sleep_at_slot, AlSched, lineVars
  <2>2. \A v \in AslWorkers : AlFresh(v)' <=> AlFresh(v)
    BY <2>1 DEF AlFresh
  <2>3. apc'[Tn] = "removes" <=> apc[Tn] = "removes"
    BY <1>1, <2>1 DEF AlSched
  <2> QED
    BY <2>1, <2>2, <2>3
<1>3. ASSUME NEW w \in AslWorkers, worker_move(w) \/ worker_report(w) PROVE AlData(b)'
  <2>1. /\ UNCHANGED <<asl_q, wait_lst_fq, pushed, work_done, finished, engine>>
        /\ apc[w] \in {"moves", "reports"} /\ w \notin workers_asleep
        /\ \/ apc' = [apc EXCEPT ![w] = "reports"] /\ UNCHANGED workers_asleep
           \/ apc' = [apc EXCEPT ![w] = "sleeps"] /\ workers_asleep' = workers_asleep \cup {w}
    BY <1>3 DEF worker_move, worker_report, sleep_at_slot, AlSched, lineVars
  <2>2. \A v \in AslWorkers : AlFresh(v)' <=> AlFresh(v)
    BY <2>1 DEF AlFresh, AlSched
  <2>3. apc'[Tn] = "removes" <=> apc[Tn] = "removes"
    BY <1>1, <2>1 DEF AlSched
  <2> QED
    BY <2>1, <2>2, <2>3
<1>4. CASE engine_start \/ engine_resume
  <2>1. /\ UNCHANGED <<asl_q, wait_lst_fq, pushed, work_done, finished, apc>>
        /\ engine \in {"starts", "halted"} /\ engine' = "collects" /\ workers_asleep' = {}
    BY <1>4 DEF engine_start, engine_resume, engine_kick, lineVars
  <2>2. \A v \in AslWorkers : AlFresh(v)' /\ AlFresh(v)
    BY <2>1 DEF AlFresh, AlSched
  <2> QED
    BY <2>1, <2>2
<1>5. CASE \/ engine_collect /\ workers_asleep # AslWorkers
           \/ asl_wait_until_all_workers_ready \/ engine_spurious_wakeup \/ UNCHANGED aslVars
  <2>1. UNCHANGED <<asl_q, wait_lst_fq, pushed, work_done, finished, apc, engine, workers_asleep>>
    BY <1>5, AlAllAsleep DEF engine_collect, asl_wait_until_all_workers_ready, engine_spurious_wakeup,
                             aslVars, lineVars, schedVars
  <2>2. \A v \in AslWorkers : AlFresh(v)' <=> AlFresh(v)
    BY <2>1 DEF AlFresh
  <2> QED
    BY <2>1, <2>2
<1> QED
  BY <1>2, <1>3, <1>4, <1>5

\* The whole invariant: b is where worker 0 stands when a cycle begins.
AlInv == AlSched /\ \E b \in Slots : AlPlaces(b) /\ AlData(b)

\* Every step keeps the whole invariant, if pushes come at the right time.
LEMMA AlNextInv == ~PushAnytime /\ AlInv /\ [AslNext]_aslVars => AlInv'
<1> SUFFICES ASSUME ~PushAnytime, AlInv, [AslNext]_aslVars PROVE AlInv'
  OBVIOUS
<1>1. AlSched
  BY DEF AlInv
<1>2. PICK b \in Slots : AlPlaces(b) /\ AlData(b)
  BY DEF AlInv
<1>3. AlDown(b) \in Slots
  BY AlRing
<1>4. ASSUME NEW w \in AslWorkers, worker_thread_init(w) PROVE AlSched' /\ AlPlaces(b)' /\ AlData(b)'
  <2>1. AlSched' /\ AlPlaces(b)'
    BY <1>1, <1>2, <1>4, AlWorkerSched
  <2>2. CASE worker_work(w)
    BY <1>1, <1>2, <2>1, <2>2, AlWorks
  <2>3. CASE worker_remove(w)
    BY <1>1, <1>2, <2>1, <2>3, AlRemoves
  <2>4. CASE worker_ready(w) \/ worker_move(w) \/ worker_report(w)
    BY <1>1, <1>2, <2>1, <2>4, AlOthers
  <2> QED
    BY <1>4, <2>2, <2>3, <2>4 DEF worker_thread_init
<1>5. CASE asl_engine_fn
  <2>1. CASE engine_collect /\ workers_asleep = AslWorkers
    <3>1. engine = "collects"
      BY <2>1 DEF engine_collect
    <3>2. AlSched' /\ AlPlaces(AlDown(b))'
      BY <1>1, <1>2, <1>5, <2>1, <3>1, AlEngineSched
    <3>3. AlData(AlDown(b))'
      BY <1>1, <1>2, <2>1, AlCycleEnds
    <3> QED
      BY <1>3, <3>2, <3>3 DEF AlInv
  <2>2. CASE engine_start \/ engine_resume \/ (engine_collect /\ workers_asleep # AslWorkers)
    <3>1. ~(engine = "collects" /\ workers_asleep = AslWorkers)
      BY <2>2 DEF engine_start, engine_resume
    <3>2. AlSched' /\ AlPlaces(b)'
      BY <1>1, <1>2, <1>5, <3>1, AlEngineSched
    <3>3. AlData(b)'
      BY <1>1, <1>2, <2>2, AlOthers
    <3> QED
      BY <3>2, <3>3 DEF AlInv
  <2> QED
    BY <1>5, <2>1, <2>2 DEF asl_engine_fn
<1>6. CASE \/ asl_wait_until_all_workers_ready \/ engine_spurious_wakeup
           \/ assembly_line_push_new_item \/ UNCHANGED aslVars
  <2>1. AlSched' /\ AlPlaces(b)'
    BY <1>1, <1>2, <1>6, AlMainSched
  <2>2. AlData(b)'
    BY <1>1, <1>2, <1>6, AlPushes, AlOthers
  <2> QED
    BY <2>1, <2>2 DEF AlInv
<1> QED
  BY <1>4, <1>5, <1>6 DEF AslNext, AlInv

\* A new line is empty.
LEMMA AlInitInv == AslInit => AlInv
<1> SUFFICES ASSUME AslInit PROVE AlInv
  OBVIOUS
<1>1. AlSched /\ AlPlaces(0) /\ 0 \in Slots
  BY AlInitSched, AlRing
<1>2. /\ asl_q = [s \in Slots |-> 0] /\ engine = "none" /\ finished = <<>> /\ pushed = 0
      /\ work_done = [o \in 1 .. MaxPushes |-> <<>>] /\ wait_lst_fq = Fifo_initQ(WaitSize)
      /\ apc = [w \in AslWorkers |-> "starts"]
  BY DEF AslInit, Null
<1>3. Len(finished) = 0 /\ Count = 0
  BY <1>2, AlCount
<1>4. AlOrdered(asl_q, 0, 0, 0)
  BY <1>2, AlRing DEF AlOrdered
<1>5. AlWork(work_done, 0, 0)
  <2>1. <<>> = [k \in 1 .. 0 |-> k - 1] /\ Len(<<>>) = 0 /\ <<>> \in Seq(AslWorkers)
    BY EmptySeq
  <2> QED
    BY <1>2, <2>1 DEF AlWork
<1>6. AlHad(asl_q, 0, work_done) /\ AlLastSlot(asl_q, 0)
  BY <1>2, AlRing DEF AlHad, AlLastSlot, AlFresh
<1>7. AlFinished
  BY <1>2 DEF AlFinished
<1>8. wait_lst_fq.count = 0 /\ AlBuffer(wait_lst_fq, 0)
  <2>1. WaitSize \in Nat \ {0}
    BY AssemblyLineAssumption
  <2> QED
    BY <1>2, <2>1 DEF AlBuffer, Fifo_initQ, AlIndices, AlBack, Null
<1>9. AlWaiting
  BY <1>2, <1>3, <1>8, AssemblyLineAssumption DEF AlWaiting
<1> QED
  BY <1>1, <1>3, <1>4, <1>5, <1>6, <1>7, <1>9 DEF AlInv, AlData

\* The invariant says all that is asked of the line.
LEMMA AlInvSuffices == AlInv => AslLineKept /\ AslWorkedInOrder /\ AslWaitListIsAQueue /\ AslSlotOfT0Empty
<1> SUFFICES ASSUME AlInv PROVE AslLineKept /\ AslWorkedInOrder /\ AslWaitListIsAQueue /\ AslSlotOfT0Empty
  OBVIOUS
<1>1. AlSched
  BY DEF AlInv
<1>2. PICK b \in Slots : AlPlaces(b) /\ AlData(b)
  BY DEF AlInv
<1>3. AslLineKept
  BY <1>1, <1>2, AlSchedSuffices
<1> DEFINE e == Len(finished) + Count
<1>4. Len(finished) \in Nat /\ Count \in Nat /\ e \in Nat
  BY <1>2, AlCount DEF AlData, AlFinished
<1>5. AslWorkedInOrder
  <2>1. Len(finished) + Count <= MaxPushes
    BY <1>2, AlRoom
  <2>2. ASSUME NEW k \in 1 .. Len(finished) PROVE finished[k] = k /\ Len(work_done[k]) = Size
    <3>1. k \in 1 .. MaxPushes /\ k <= Len(finished)
      BY <1>4, <2>1, AssemblyLineAssumption
    <3> QED
      BY <1>2, <3>1 DEF AlData, AlFinished, AlWork
  <2> QED
    BY <1>2, <2>2 DEF AslWorkedInOrder, AlData, AlWork
<1>6. AslWaitListIsAQueue
  <2>1. AlBuffer(wait_lst_fq, e) /\ pushed = e + wait_lst_fq.count
    BY <1>2 DEF AlData, AlWaiting
  <2> HIDE DEF e
  <2>2. Contents(wait_lst_fq) = [k \in 1 .. wait_lst_fq.count |-> e + k] /\ wait_lst_fq.count \in 0 .. WaitSize
    BY <1>4, <2>1, AlBufferContents
  <2>3. pushed - e = wait_lst_fq.count
    BY <1>4, <2>1, <2>2, AssemblyLineAssumption
  <2> QED
    BY <2>2, <2>3 DEF AslWaitListIsAQueue, e
<1>7. AslSlotOfT0Empty
  <2> SUFFICES ASSUME engine = "collects", AtRest PROVE asl_q[curr_slot[T0]] = 0
    BY DEF AslSlotOfT0Empty, Null
  <2>1. workers_asleep = AslWorkers
    BY <1>1, AlAllAsleep DEF AtRest
  <2>2. 0 \in AslWorkers /\ Tn \in AslWorkers /\ AlUp(b, 0) = b /\ AlUp(b, Tn) = AlDown(b)
    BY AlRing
  <2>3. curr_slot[T0] = AlDown(b)
    BY <1>2, <2>1, <2>2 DEF AlPlaces, AlPending, T0
  <2>4. asl_q[AlUp(b, Tn)] = 0
    BY <1>1, <1>2, <2>1, <2>2 DEF AlData, AlLastSlot, AlFresh, AlSched
  <2> QED
    BY <2>2, <2>3, <2>4
<1> QED
  BY <1>3, <1>5, <1>6, <1>7

----------------------------------------------------------------------------
(* The places together. *)

\* The engine counts exactly the workers that sleep, and no two workers are at
\* one slot, for any number of workers and objects.
THEOREM WorkKeepsTheLine == WorkSpec => []AslLineKept
<1> DEFINE Kept == AlSched /\ \E b \in Slots : AlPlaces(b)
<1>1. WorkInit => Kept
  BY AlInitSched, AlRing DEF WorkInit
<1>2. Kept /\ [WorkNext]_workVars => Kept'
  <2> SUFFICES ASSUME Kept, [WorkNext]_workVars PROVE Kept'
    OBVIOUS
  <2>1. [AslNext]_aslVars
    BY DEF WorkNext, workVars
  <2> QED
    BY <2>1, AlNextSched
<1>3. Kept => AslLineKept
  BY AlSchedSuffices
<1> QED
  BY <1>1, <1>2, <1>3, PTL DEF WorkSpec

\* Objects leave both assembly lines in the order in which they came, each
\* worked on by everybody in turn, and wait in that order, provided that nothing
\* is pushed in a cycle that has emptied the line; the engine might put another
\* object where that one lies.
THEOREM WorkKeepsTheOrder == ASSUME ~PushAnytime PROVE WorkSpec => []ObjectsKeepTheirOrder
<1>1. WorkInit => AlInv /\ FaLineInv
  BY AlInitInv, FaInitLineInv DEF WorkInit
<1>2. AlInv /\ FaLineInv /\ [WorkNext]_workVars => AlInv' /\ FaLineInv'
  <2> SUFFICES ASSUME AlInv, FaLineInv, [WorkNext]_workVars PROVE AlInv' /\ FaLineInv'
    OBVIOUS
  <2>1. [AslNext]_aslVars /\ [FaNext]_faVars
    BY DEF WorkNext, workVars
  <2> QED
    BY <2>1, AlNextInv, FaLineNext
<1>3. AlInv /\ FaLineInv => ObjectsKeepTheirOrder
  BY AlInvSuffices, FaInvSuffices DEF ObjectsKeepTheirOrder
<1> QED
  BY <1>1, <1>2, <1>3, PTL DEF WorkSpec

\* The slot at which the engine lets a waiting object in is empty, as it asserts.
THEOREM WorkAdmitsIntoAFreeSlot == ASSUME ~PushAnytime PROVE WorkSpec => []AslSlotOfT0Empty
<1>1. WorkInit => AlInv
  BY AlInitInv DEF WorkInit
<1>2. AlInv /\ [WorkNext]_workVars => AlInv'
  <2> SUFFICES ASSUME AlInv, [WorkNext]_workVars PROVE AlInv'
    OBVIOUS
  <2>1. [AslNext]_aslVars
    BY DEF WorkNext, workVars
  <2> QED
    BY <2>1, AlNextInv
<1> QED
  BY <1>1, <1>2, AlInvSuffices, PTL DEF WorkSpec

============================================================================
