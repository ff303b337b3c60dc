----------------------------- MODULE HostProofs -----------------------------
(***************************************************************************)
(* Proofs about the host side, for every value of the constants: the       *)
(* thread pool (util/threadpool.c), the 9p server (virtio/9p.c), transfers *)
(* (util/read-write.c, util/iovec.c), CPU lists (util/bitmap.c) and disk   *)
(* images (disk/).  Each part has its own inductive invariant.             *)
(***************************************************************************)
EXTENDS ThreadPool, Virtio9p, HostTools, DiskImage, TLAPS, FiniteSetTheorems,
        SequenceTheorems, NaturalsInduction, WellFoundedInduction

\* The least element of a set of naturals, for the arguments about the first time
\* that something fails.
LEMMA LeastNat ==
  ASSUME NEW S \in SUBSET Nat, S # {}
  PROVE  \E x \in S : \A y \in S : x <= y
<1> DEFINE R == {ss \in Nat \X Nat : ss[1] < ss[2]}
<1>1. IsWellFoundedOn(R, Nat)
  BY NatLessThanWellFounded, Zenon DEF OpToRel
<1>2. \A x, y \in Nat : x < y => <<x, y>> \in R
  OBVIOUS
<1> HIDE DEF R
<1>3. PICK x \in S : \A y \in S : ~(<<y, x>> \in R)
  BY <1>1, WFMin, Zenon
<1>4. \A y \in S : ~(y < x)
  BY <1>2, <1>3
<1> QED BY <1>4

-----------------------------------------------------------------------------
(* The thread pool                                                         *)


\* Cardinality(Workers) bounds the loop of thread_pool__exit.
LEMMA WorkersCounted == Cardinality(Workers) \in Nat
BY PoolAssumption, FS_CardinalityType

-----------------------------------------------------------------------------
(* The three list operations, on an arbitrary sequence of jobs             *)

In(s, j) == \E i \in 1 .. Len(s) : s[i] = j
Distinct(s) == \A i, k \in 1 .. Len(s) : s[i] = s[k] => i = k

\* list_add_tail links exactly one more job, and keeps the list free of
\* duplicates when that job was not linked.
LEMMA AppendLemma ==
  ASSUME NEW S, NEW s \in Seq(S), NEW j \in S
  PROVE  /\ Append(s, j) \in Seq(S)
         /\ \A k : In(Append(s, j), k) <=> In(s, k) \/ k = j
         /\ Distinct(s) /\ ~In(s, j) => Distinct(Append(s, j))
<1>1. /\ Append(s, j) \in Seq(S)
      /\ Len(Append(s, j)) = Len(s) + 1
      /\ \A i \in 1 .. Len(s) : Append(s, j)[i] = s[i]
      /\ Append(s, j)[Len(s) + 1] = j
  OBVIOUS
<1>2. Len(s) \in Nat
  OBVIOUS
<1>3. \A k : In(Append(s, j), k) <=> In(s, k) \/ k = j
  <2> DEFINE a == Append(s, j)
  <2> HIDE DEF a
  <2>1. /\ Len(a) = Len(s) + 1
        /\ \A i \in 1 .. Len(s) : a[i] = s[i]
        /\ a[Len(s) + 1] = j
    BY <1>1 DEF a
  <2>2. \A k : In(a, k) <=> In(s, k) \/ k = j
    BY <2>1, <1>2 DEF In
  <2> QED BY <2>2 DEF a
<1>4. Distinct(s) /\ ~In(s, j) => Distinct(Append(s, j))
  BY <1>1, <1>2 DEF In, Distinct
<1> QED BY <1>1, <1>3, <1>4

\* list_del_init of the node at position i removes exactly that job.
LEMMA UnlinkLemma ==
  ASSUME NEW S, NEW s \in Seq(S), NEW i \in 1 .. Len(s), Distinct(s)
  PROVE  /\ Unlink(s, i) \in Seq(S)
         /\ Distinct(Unlink(s, i))
         /\ \A k : In(Unlink(s, i), k) <=> In(s, k) /\ k # s[i]
<1> DEFINE u == Unlink(s, i)
<1>1. Len(s) \in Nat /\ Len(s) - 1 \in Nat
  OBVIOUS
<1>2. u \in Seq(S) /\ Len(u) = Len(s) - 1
  <2>1. u \in [1 .. Len(s) - 1 -> S]
    BY <1>1 DEF Unlink
  <2> QED BY <2>1, <1>1 
<1>3. \A k \in 1 .. Len(u) : u[k] = IF k < i THEN s[k] ELSE s[k + 1]
  BY <1>1, <1>2 DEF Unlink
<1> HIDE DEF u
<1>4. Distinct(u)
  BY <1>1, <1>2, <1>3 DEF Distinct
<1>5. ASSUME NEW k, In(u, k)
      PROVE  In(s, k) /\ k # s[i]
  BY <1>1, <1>2, <1>3, <1>5 DEF In, Distinct
<1>6. ASSUME NEW k, In(s, k), k # s[i]
      PROVE  In(u, k)
  <2>1. PICK p \in 1 .. Len(s) : s[p] = k
    BY <1>6 DEF In
  <2>2. CASE p < i
    BY <2>1, <2>2, <1>1, <1>2, <1>3 DEF In
  <2>3. CASE p > i
    <3>1. p - 1 \in 1 .. Len(u) /\ u[p - 1] = s[p]
      BY <2>1, <2>3, <1>1, <1>2, <1>3
    <3> QED BY <3>1, <2>1 DEF In
  <2> QED BY <2>1, <2>2, <2>3, <1>6
<1> QED BY <1>2, <1>4, <1>5, <1>6 DEF u

\* thread_pool__job_pop_locked removes exactly the first job.
LEMMA PopLemma ==
  ASSUME NEW S, NEW s \in Seq(S), s # <<>>, Distinct(s)
  PROVE  /\ Head(s) \in S
         /\ Tail(s) \in Seq(S)
         /\ Distinct(Tail(s))
         /\ In(s, Head(s))
         /\ \A k : In(Tail(s), k) <=> In(s, k) /\ k # Head(s)
<1>1. Len(s) \in Nat /\ Len(s) >= 1 /\ Head(s) = s[1] /\ Head(s) \in S
  OBVIOUS
<1>2. /\ Tail(s) \in Seq(S)
      /\ Len(Tail(s)) = Len(s) - 1
      /\ \A k \in 1 .. Len(s) - 1 : Tail(s)[k] = s[k + 1]
  OBVIOUS
<1> DEFINE u == Tail(s)
<1> HIDE DEF u
<1>3. u \in Seq(S) /\ Len(u) = Len(s) - 1 /\ \A k \in 1 .. Len(u) : u[k] = s[k + 1]
  BY <1>2 DEF u
<1>4. Distinct(u)
  BY <1>1, <1>3 DEF Distinct
<1>5. ASSUME NEW k, In(u, k)
      PROVE  In(s, k) /\ k # Head(s)
  BY <1>1, <1>3, <1>5 DEF In, Distinct
<1>6. ASSUME NEW k, In(s, k), k # Head(s)
      PROVE  In(u, k)
  <2>1. PICK p \in 1 .. Len(s) : s[p] = k
    BY <1>6 DEF In
  <2>2. p - 1 \in 1 .. Len(u) /\ u[p - 1] = s[p]
    BY <2>1, <1>1, <1>3, <1>6
  <2> QED BY <2>1, <2>2 DEF In
<1>7. In(s, Head(s))
  BY <1>1 DEF In
<1> QED BY <1>1, <1>3, <1>4, <1>5, <1>6, <1>7 DEF u

-----------------------------------------------------------------------------
(* PoolInv is an inductive invariant                                       *)

\* thread_pool__init leaves an empty list and no signalled job.
LEMMA InitInv == Init => PoolInv
<1> SUFFICES ASSUME Init PROVE PoolInv
  OBVIOUS
<1>1. queue = <<>> /\ Len(queue) = 0 /\ \A j : ~InQueue(j)
  BY DEF Init, InQueue
<1>2. TypeOK
  BY PoolAssumption, WorkersCounted DEF Init, TypeOK, Threads, WorkerPcs, CallerPcs
<1>3. Placed /\ Locked /\ CancelAlone
  BY PoolAssumption DEF Init, Placed, Locked, CancelAlone, Threads, WorkerPcs, CallerPcs
<1>4. LinkedOnce
  BY <1>1 DEF LinkedOnce
<1>5. OneOwner /\ Backed /\ WorkNotLost
  BY <1>1, PoolAssumption DEF Init, OneOwner, Backed, WorkNotLost, Holds, Threads
<1> QED BY <1>2, <1>3, <1>4, <1>5 DEF PoolInv

\* Every step of a caller, a worker or thread_pool__exit keeps PoolInv.  Each
\* action is first reduced to what it does to the list, to the program counters
\* and to the set of job holders; the conjuncts of PoolInv follow from that.
LEMMA StepInv == PoolInv /\ [Next]_vars => PoolInv'
<1> SUFFICES ASSUME PoolInv, [Next]_vars PROVE PoolInv'
  OBVIOUS
<1>0. /\ TypeOK /\ Placed /\ Locked /\ CancelAlone
      /\ LinkedOnce /\ OneOwner /\ Backed /\ WorkNotLost
  BY DEF PoolInv
<1>t. /\ \A w \in Workers : w \in Threads /\ w \notin Callers /\ w # NoThread
      /\ \A c \in Callers : c \in Threads /\ c \notin Workers /\ c # NoThread
  BY PoolAssumption DEF Threads
<1>1. ASSUME NEW t \in Callers, NEW j \in Jobs, ~Cancelling(j), DoJobLock(t, j)
      PROVE  PoolInv'
  <2>3. pc[t] = "idle" /\ mutex[j] = NoThread /\ signalcount[j] < MaxSignal
    BY <1>0, <1>t, <1>1 DEF DoJobLock, TypeOK, Placed, Locked, OneOwner, Holds, Threads
  <2>1. queue' = queue /\ \A k : InQueue(k)' <=> InQueue(k)
    BY <1>1 DEF DoJobLock, InQueue
  <2>4. /\ \A u \in Threads :
            u # t => pc'[u] = pc[u] /\ job'[u] = job[u] /\ seen'[u] = seen[u]
        /\ pc'[t] = "inc"
        /\ job'[t] = j
        /\ seen'[t] = signalcount[j]
        /\ \A k \in Jobs : (k # j => mutex'[k] = mutex[k]) /\ (k = j => mutex'[k] = t)
        /\ \A k \in Jobs : signalcount'[k] = signalcount[k]
        /\ work' = work \cup {j} /\ running' = running
    BY <2>3, <1>0, <1>t, <1>1 DEF DoJobLock, TypeOK
  <2>5. \A u \in Threads, k \in Jobs : Holds(u, k)' <=> Holds(u, k)
    BY <2>1, <2>3, <2>4, <1>t, PoolAssumption DEF Holds
  <2>6. TypeOK' /\ LinkedOnce'
    BY <2>1, <2>3, <1>0, <1>t, <1>1, PoolAssumption DEF DoJobLock, TypeOK, WorkerPcs,
       CallerPcs, LinkedOnce
  <2>7. Placed' /\ Locked' /\ CancelAlone'
    BY <2>3, <2>4, <1>0, <1>t, <1>1, PoolAssumption DEF Placed, Locked, CancelAlone,
       WorkerPcs, CallerPcs, Threads, Cancelling
  <2>8. OneOwner' /\ Backed'
    BY <2>1, <2>4, <2>5, <1>0 DEF OneOwner, Backed
  <2>9. WorkNotLost'
    <3>1. \A k \in work : k \in Jobs
      BY <1>0 DEF TypeOK
    <3> QED BY <3>1, <2>1, <2>3, <2>4, <2>5, <1>0, <1>t DEF WorkNotLost, Coming
  <2> QED BY <2>6, <2>7, <2>8, <2>9 DEF PoolInv
<1>2. ASSUME NEW t \in Callers, DoJobIncrement(t)
      PROVE  PoolInv'
  <2>1. CASE FirstSignal(seen[t])
    <3>3. pc[t] = "inc" /\ job[t] \in Jobs /\ mutex[job[t]] = t /\ signalcount[job[t]] = 0 /\ seen[t] = 0
      BY <2>1, <1>0, <1>t, <1>2 DEF DoJobIncrement, FirstSignal, TypeOK, Placed, Locked,
         OneOwner, Holds, Threads
    <3>1. queue' = queue /\ \A k : InQueue(k)' <=> InQueue(k)
      BY <2>1, <1>2 DEF DoJobIncrement, InQueue
    <3>4. /\ \A u \in Threads :
              u # t => pc'[u] = pc[u] /\ job'[u] = job[u] /\ seen'[u] = seen[u]
          /\ pc'[t] = "push"
          /\ job'[t] = job[t]
          /\ seen'[t] = seen[t]
          /\ \A k \in Jobs : mutex'[k] = mutex[k]
          /\ \A k \in Jobs : (k # job[t] => signalcount'[k] = signalcount[k]) /\ (k = job[t] => signalcount'[k] = seen[t] + 1)
          /\ work' = work /\ running' = running
      BY <2>1, <3>3, <1>0, <1>t, <1>2 DEF DoJobIncrement, TypeOK
    <3>5. \A u \in Threads, k \in Jobs : Holds(u, k)' <=> Holds(u, k) \/ (u = t /\ k = job[t])
      BY <2>1, <3>1, <3>3, <3>4, <1>t, PoolAssumption DEF Holds
    <3>0. signalcount' \in [Jobs -> 0 .. MaxSignal]
      <4>1. seen[t] + 1 \in 0 .. MaxSignal
        BY <3>3, <1>0, <1>t, PoolAssumption DEF TypeOK
      <4> QED BY <4>1, <1>0, <1>2 DEF DoJobIncrement, TypeOK
    <3>6. TypeOK' /\ LinkedOnce'
      BY <2>1, <3>1, <3>3, <3>0, <1>0, <1>t, <1>2, PoolAssumption DEF DoJobIncrement,
         TypeOK, WorkerPcs, CallerPcs, LinkedOnce
    <3>7. Placed'
      BY <2>1, <3>1, <3>3, <3>4, <1>0, <1>t DEF Placed, WorkerPcs, CallerPcs, Threads
    <3>8. Locked'
      BY <2>1, <3>1, <3>3, <3>4, <1>0, <1>t, PoolAssumption DEF Locked, Placed, Threads
    <3>9. CancelAlone'
      BY <2>1, <3>3, <3>4, <1>0, <1>t DEF CancelAlone, Threads
    <3>10. OneOwner'
      <4> SUFFICES ASSUME NEW k \in Jobs
                 PROVE  (/\ \A u, v \in Threads : Holds(u, k) /\ Holds(v, k) => u = v
                         /\ \A u \in Threads : Holds(u, k) => ~InQueue(k)
                         /\ \A u \in Threads : Holds(u, k) => signalcount[k] > 0
                         /\ InQueue(k) => signalcount[k] > 0)'
        BY DEF OneOwner
      <4>1. signalcount[k] \in Nat /\ seen[t] \in Nat
        BY <1>0, <1>t DEF TypeOK
      <4>2. (/\ \A u, v \in Threads : Holds(u, k) /\ Holds(v, k) => u = v
             /\ \A u \in Threads : Holds(u, k) => ~InQueue(k)
             /\ \A u \in Threads : Holds(u, k) => signalcount[k] > 0
             /\ InQueue(k) => signalcount[k] > 0)
        BY <1>0 DEF OneOwner
      <4> QED BY <2>1, <4>1, <4>2, <3>1, <3>3, <3>4, <3>5, <1>t
    <3>11. Backed'
      <4> SUFFICES ASSUME running, NEW k \in Jobs, signalcount'[k] > 0
                 PROVE  InQueue(k)' \/ \E u \in Threads : Holds(u, k)'
        BY <3>4 DEF Backed
      <4>1. signalcount[k] > 0 => InQueue(k) \/ \E u \in Threads : Holds(u, k)
        BY <1>0 DEF Backed
      <4>2. signalcount[k] \in Nat
        BY <1>0 DEF TypeOK
      <4> QED BY <2>1, <4>1, <4>2, <3>1, <3>3, <3>4, <3>5, <1>0, <1>t
    <3>12. WorkNotLost'
      <4> SUFFICES ASSUME running, NEW k \in work' PROVE Coming(k)'
        BY <3>4 DEF WorkNotLost
      <4>1. k \in Jobs /\ signalcount[k] \in Nat /\ (k \in work => Coming(k))
        BY <2>1, <3>4, <1>0, <1>2 DEF WorkNotLost, TypeOK
      <4>2. CASE InQueue(k)
        BY <4>1, <4>2, <3>1, <3>4, <3>3 DEF Coming
      <4>3. ASSUME NEW c \in Callers, job[c] = k, pc[c] \in {"inc", "push"}
            PROVE  Coming(k)'
        BY <2>1, <4>1, <4>3, <3>1, <3>3, <3>4, <1>0, <1>t DEF Coming, Locked, Backed,
           OneOwner, Holds
      <4>4. ASSUME NEW w \in Workers, Holds(w, k), pc[w] \in {"check", "repush"} \/ signalcount[k] > 1
            PROVE  Coming(k)'
        BY <2>1, <4>1, <4>4, <3>1, <3>3, <3>4, <3>5, <1>0, <1>t DEF Coming
      <4> QED BY <2>1, <4>1, <4>2, <4>3, <4>4, <3>3, <3>4 DEF Coming
    <3> QED BY <3>6, <3>7, <3>8, <3>9, <3>10, <3>11, <3>12 DEF PoolInv
  <2>2. CASE ~FirstSignal(seen[t])
    <3>3. pc[t] = "inc" /\ job[t] \in Jobs /\ mutex[job[t]] = t /\ signalcount[job[t]] = seen[t] /\ seen[t] > 0 /\ seen[t] < MaxSignal
      BY <2>2, <1>0, <1>t, <1>2 DEF DoJobIncrement, FirstSignal, TypeOK, Placed, Locked,
         OneOwner, Holds, Threads
    <3>1. queue' = queue /\ \A k : InQueue(k)' <=> InQueue(k)
      BY <2>2, <1>2 DEF DoJobIncrement, InQueue
    <3>4. /\ \A u \in Threads :
              u # t => pc'[u] = pc[u] /\ job'[u] = job[u] /\ seen'[u] = seen[u]
          /\ pc'[t] = "signal"
          /\ job'[t] = job[t]
          /\ seen'[t] = seen[t]
          /\ \A k \in Jobs : (k # job[t] => mutex'[k] = mutex[k]) /\ (k = job[t] => mutex'[k] = NoThread)
          /\ \A k \in Jobs : (k # job[t] => signalcount'[k] = signalcount[k]) /\ (k = job[t] => signalcount'[k] = seen[t] + 1)
          /\ work' = work /\ running' = running
      BY <2>2, <3>3, <1>0, <1>t, <1>2 DEF DoJobIncrement, TypeOK
    <3>5. \A u \in Threads, k \in Jobs : Holds(u, k)' <=> Holds(u, k)
      BY <2>2, <3>1, <3>3, <3>4, <1>t, PoolAssumption DEF Holds
    <3>0. signalcount' \in [Jobs -> 0 .. MaxSignal]
      <4>1. seen[t] + 1 \in 0 .. MaxSignal
        BY <3>3, <1>0, <1>t, PoolAssumption DEF TypeOK
      <4> QED BY <4>1, <1>0, <1>2 DEF DoJobIncrement, TypeOK
    <3>6. TypeOK' /\ LinkedOnce'
      BY <2>2, <3>1, <3>3, <3>0, <1>0, <1>t, <1>2, PoolAssumption DEF DoJobIncrement,
         TypeOK, WorkerPcs, CallerPcs, LinkedOnce
    <3>7. Placed'
      BY <2>2, <3>1, <3>3, <3>4, <1>0, <1>t DEF Placed, WorkerPcs, CallerPcs, Threads
    <3>8. Locked'
      BY <2>2, <3>1, <3>3, <3>4, <1>0, <1>t, PoolAssumption DEF Locked, Placed, Threads
    <3>9. CancelAlone'
      BY <2>2, <3>3, <3>4, <1>0, <1>t DEF CancelAlone, Threads
    <3>10. OneOwner'
      <4> SUFFICES ASSUME NEW k \in Jobs
                 PROVE  (/\ \A u, v \in Threads : Holds(u, k) /\ Holds(v, k) => u = v
                         /\ \A u \in Threads : Holds(u, k) => ~InQueue(k)
                         /\ \A u \in Threads : Holds(u, k) => signalcount[k] > 0
                         /\ InQueue(k) => signalcount[k] > 0)'
        BY DEF OneOwner
      <4>1. signalcount[k] \in Nat /\ seen[t] \in Nat
        BY <1>0, <1>t DEF TypeOK
      <4>2. (/\ \A u, v \in Threads : Holds(u, k) /\ Holds(v, k) => u = v
             /\ \A u \in Threads : Holds(u, k) => ~InQueue(k)
             /\ \A u \in Threads : Holds(u, k) => signalcount[k] > 0
             /\ InQueue(k) => signalcount[k] > 0)
        BY <1>0 DEF OneOwner
      <4> QED BY <2>2, <4>1, <4>2, <3>1, <3>3, <3>4, <3>5, <1>t
    <3>11. Backed'
      <4> SUFFICES ASSUME running, NEW k \in Jobs, signalcount'[k] > 0
                 PROVE  InQueue(k)' \/ \E u \in Threads : Holds(u, k)'
        BY <3>4 DEF Backed
      <4>1. signalcount[k] > 0 => InQueue(k) \/ \E u \in Threads : Holds(u, k)
        BY <1>0 DEF Backed
      <4>2. signalcount[k] \in Nat
        BY <1>0 DEF TypeOK
      <4> QED BY <2>2, <4>1, <4>2, <3>1, <3>3, <3>4, <3>5, <1>0, <1>t
    <3>12. WorkNotLost'
      <4> SUFFICES ASSUME running, NEW k \in work' PROVE Coming(k)'
        BY <3>4 DEF WorkNotLost
      <4>1. k \in Jobs /\ signalcount[k] \in Nat /\ (k \in work => Coming(k))
        BY <2>2, <3>4, <1>0, <1>2 DEF WorkNotLost, TypeOK
      <4>2. CASE InQueue(k)
        BY <4>1, <4>2, <3>1, <3>4, <3>3 DEF Coming
      <4>3. ASSUME NEW c \in Callers, job[c] = k, pc[c] \in {"inc", "push"}
            PROVE  Coming(k)'
        BY <2>2, <4>1, <4>3, <3>1, <3>3, <3>4, <1>0, <1>t DEF Coming, Locked, Backed,
           OneOwner, Holds
      <4>4. ASSUME NEW w \in Workers, Holds(w, k), pc[w] \in {"check", "repush"} \/ signalcount[k] > 1
            PROVE  Coming(k)'
        BY <2>2, <4>1, <4>4, <3>1, <3>3, <3>4, <3>5, <1>0, <1>t DEF Coming
      <4> QED BY <2>2, <4>1, <4>2, <4>3, <4>4, <3>3, <3>4 DEF Coming
    <3> QED BY <3>6, <3>7, <3>8, <3>9, <3>10, <3>11, <3>12 DEF PoolInv
  <2> QED BY <2>1, <2>2
<1>3. ASSUME NEW t \in Callers, DoJobPush(t)
      PROVE  PoolInv'
  <2>3. pc[t] = "push" /\ job[t] \in Jobs /\ mutex[job[t]] = t /\ Holds(t, job[t]) /\ (\A k : Holds(t, k) => k = job[t])
    BY <1>0, <1>t, <1>3 DEF DoJobPush, TypeOK, Placed, Locked, OneOwner, Holds, Threads
  <2>1. (\A k : InQueue(k)' <=> InQueue(k) \/ k = job[t]) /\ queue' \in Seq(Jobs) /\ LinkedOnce'
    <3>1. queue' = Append(queue, job[t])
      BY <1>3 DEF DoJobPush
    <3>2. queue \in Seq(Jobs) /\ Distinct(queue)
      BY <1>0 DEF TypeOK, LinkedOnce, Distinct
    <3>3. ~In(queue, job[t])
      BY <2>3, <1>0, <1>t DEF OneOwner, InQueue, In
    <3>4. Distinct(queue') /\ queue' \in Seq(Jobs) /\ \A k : In(queue', k) <=> In(queue, k) \/ k = job[t]
      BY <3>1, <3>2, <3>3, <2>3, AppendLemma
    <3> QED BY <3>4 DEF LinkedOnce, InQueue, In, Distinct
  <2>4. /\ \A u \in Threads :
            u # t => pc'[u] = pc[u] /\ job'[u] = job[u] /\ seen'[u] = seen[u]
        /\ pc'[t] = "signal"
        /\ job'[t] = job[t]
        /\ seen'[t] = seen[t]
        /\ \A k \in Jobs : (k # job[t] => mutex'[k] = mutex[k]) /\ (k = job[t] => mutex'[k] = NoThread)
        /\ \A k \in Jobs : signalcount'[k] = signalcount[k]
        /\ work' = work /\ running' = running
    BY <2>3, <1>0, <1>t, <1>3 DEF DoJobPush, TypeOK
  <2>5. \A u \in Threads, k \in Jobs : Holds(u, k)' <=> Holds(u, k) /\ u # t
    BY <2>1, <2>3, <2>4, <1>t, PoolAssumption DEF Holds
  <2>6. TypeOK' /\ LinkedOnce'
    BY <2>1, <2>3, <1>0, <1>t, <1>3, PoolAssumption DEF DoJobPush, TypeOK, WorkerPcs,
       CallerPcs
  <2>7. Placed'
    BY <2>1, <2>3, <2>4, <1>0, <1>t DEF Placed, WorkerPcs, CallerPcs, Threads
  <2>8. Locked'
    BY <2>1, <2>3, <2>4, <1>0, <1>t, PoolAssumption DEF Locked, Placed, Threads
  <2>9. CancelAlone'
    BY <2>3, <2>4, <1>0, <1>t DEF CancelAlone, Threads
  <2>10. OneOwner'
    BY <2>1, <2>3, <2>4, <2>5, <1>0, <1>t DEF OneOwner, TypeOK
  <2>11. Backed'
    <3> SUFFICES ASSUME running, NEW k \in Jobs, signalcount'[k] > 0
               PROVE  InQueue(k)' \/ \E u \in Threads : Holds(u, k)'
      BY <2>4 DEF Backed
    <3>1. signalcount[k] > 0 => InQueue(k) \/ \E u \in Threads : Holds(u, k)
      BY <1>0 DEF Backed
    <3>2. signalcount[k] \in Nat
      BY <1>0 DEF TypeOK
    <3> QED BY <3>1, <3>2, <2>1, <2>3, <2>4, <2>5, <1>0, <1>t, PoolAssumption DEF OneOwner
  <2>12. WorkNotLost'
    <3> SUFFICES ASSUME running, NEW k \in work' PROVE Coming(k)'
      BY <2>4 DEF WorkNotLost
    <3>1. k \in Jobs /\ signalcount[k] \in Nat /\ (k \in work => Coming(k))
      BY <2>4, <1>0, <1>3 DEF WorkNotLost, TypeOK
    <3>2. CASE InQueue(k)
      BY <3>1, <3>2, <2>1, <2>4 DEF Coming
    <3>3. ASSUME NEW c \in Callers, job[c] = k, pc[c] \in {"inc", "push"}
          PROVE  Coming(k)'
      BY <3>1, <3>3, <2>1, <2>3, <2>4, <1>0, <1>t DEF Coming
    <3>4. ASSUME NEW w \in Workers, Holds(w, k), pc[w] \in {"check", "repush"} \/ signalcount[k] > 1
          PROVE  Coming(k)'
      BY <3>1, <3>4, <2>1, <2>3, <2>4, <2>5, <1>0, <1>t DEF Coming
    <3> QED BY <3>1, <3>2, <3>3, <3>4, <2>3, <2>4 DEF Coming
  <2> QED BY <2>6, <2>7, <2>8, <2>9, <2>10, <2>11, <2>12 DEF PoolInv
<1>4. ASSUME NEW t \in Callers, DoJobSignal(t)
      PROVE  PoolInv'
  <2>3. pc[t] = "signal"
    BY <1>0, <1>t, <1>4 DEF DoJobSignal, TypeOK, Placed, Locked, OneOwner, Holds, Threads
  <2>1. queue' = queue /\ \A k : InQueue(k)' <=> InQueue(k)
    BY <1>4 DEF DoJobSignal, InQueue
  <2>4. /\ \A u \in Threads :
            u # t => pc'[u] = pc[u] /\ job'[u] = job[u] /\ seen'[u] = seen[u]
        /\ pc'[t] = "idle"
        /\ job'[t] = NoJob
        /\ seen'[t] = seen[t]
        /\ \A k \in Jobs : mutex'[k] = mutex[k]
        /\ \A k \in Jobs : signalcount'[k] = signalcount[k]
        /\ work' = work /\ running' = running
    BY <2>3, <1>0, <1>t, <1>4 DEF DoJobSignal, TypeOK
  <2>5. \A u \in Threads, k \in Jobs : Holds(u, k)' <=> Holds(u, k)
    BY <2>1, <2>3, <2>4, <1>t, PoolAssumption DEF Holds
  <2>6. TypeOK' /\ LinkedOnce'
    BY <2>1, <2>3, <1>0, <1>t, <1>4, PoolAssumption DEF DoJobSignal, CondSignal, TypeOK,
       WorkerPcs, CallerPcs, LinkedOnce
  <2>7. Placed' /\ Locked' /\ CancelAlone'
    BY <2>3, <2>4, <1>0, <1>t, PoolAssumption DEF Placed, Locked, CancelAlone,
       WorkerPcs, CallerPcs, Threads
  <2>8. OneOwner' /\ Backed'
    BY <2>1, <2>4, <2>5, <1>0 DEF OneOwner, Backed
  <2>9. WorkNotLost'
    <3>1. \A k \in work : k \in Jobs
      BY <1>0 DEF TypeOK
    <3> QED BY <3>1, <2>1, <2>3, <2>4, <2>5, <1>0, <1>t DEF WorkNotLost, Coming
  <2> QED BY <2>6, <2>7, <2>8, <2>9 DEF PoolInv
<1>5. ASSUME NEW t \in Callers, NEW j \in Jobs, ~Signalling(j), CancelStart(t, j)
      PROVE  PoolInv'
  <2>3. pc[t] = "idle"
    BY <1>0, <1>t, <1>5 DEF CancelStart, TypeOK, Placed, Locked, OneOwner, Holds, Threads
  <2>1. queue' = queue /\ \A k : InQueue(k)' <=> InQueue(k)
    BY <1>5 DEF CancelStart, InQueue
  <2>4. /\ \A u \in Threads :
            u # t => pc'[u] = pc[u] /\ job'[u] = job[u] /\ seen'[u] = seen[u]
        /\ pc'[t] = "cancel"
        /\ job'[t] = j
        /\ seen'[t] = seen[t]
        /\ \A k \in Jobs : mutex'[k] = mutex[k]
        /\ \A k \in Jobs : signalcount'[k] = signalcount[k]
        /\ work' = work /\ running' = running
    BY <2>3, <1>0, <1>t, <1>5 DEF CancelStart, TypeOK
  <2>5. \A u \in Threads, k \in Jobs : Holds(u, k)' <=> Holds(u, k)
    BY <2>1, <2>3, <2>4, <1>t, PoolAssumption DEF Holds
  <2>6. TypeOK' /\ LinkedOnce'
    BY <2>1, <2>3, <1>0, <1>t, <1>5, PoolAssumption DEF CancelStart, TypeOK, WorkerPcs,
       CallerPcs, LinkedOnce
  <2>7. Placed' /\ Locked' /\ CancelAlone'
    BY <2>3, <2>4, <1>0, <1>t, <1>5, PoolAssumption DEF Placed, Locked, CancelAlone,
       WorkerPcs, CallerPcs, Threads, Signalling
  <2>8. OneOwner' /\ Backed'
    BY <2>1, <2>4, <2>5, <1>0 DEF OneOwner, Backed
  <2>9. WorkNotLost'
    <3>1. \A k \in work : k \in Jobs
      BY <1>0 DEF TypeOK
    <3> QED BY <3>1, <2>1, <2>3, <2>4, <2>5, <1>0, <1>t DEF WorkNotLost, Coming
  <2> QED BY <2>6, <2>7, <2>8, <2>9 DEF PoolInv
<1>6. ASSUME NEW t \in Callers, CancelQueued(t)
      PROVE  PoolInv'
  <2>3. pc[t] = "cancel" /\ job[t] \in Jobs
    BY <1>0, <1>t, <1>6 DEF CancelQueued, TypeOK, Placed, Locked, OneOwner, Holds, Threads
  <2>1. InQueue(job[t]) /\ (\A k : InQueue(k)' <=> InQueue(k) /\ k # job[t]) /\ queue' \in Seq(Jobs) /\ LinkedOnce'
    <3>1. PICK i \in 1 .. Len(queue) : queue[i] = job[t] /\ queue' = Unlink(queue, i)
      BY <1>6 DEF CancelQueued
    <3>2. queue \in Seq(Jobs) /\ Distinct(queue)
      BY <1>0 DEF TypeOK, LinkedOnce, Distinct
    <3>3. /\ Unlink(queue, i) \in Seq(Jobs) /\ Distinct(Unlink(queue, i))
          /\ \A k : In(Unlink(queue, i), k) <=> In(queue, k) /\ k # queue[i]
      BY <3>2, UnlinkLemma
    <3>4. Distinct(queue') /\ queue' \in Seq(Jobs) /\ \A k : In(queue', k) <=> In(queue, k) /\ k # job[t]
      BY <3>1, <3>3
    <3> QED BY <3>1, <3>4 DEF LinkedOnce, InQueue, In, Distinct
  <2>4. /\ \A u \in Threads :
            u # t => pc'[u] = pc[u] /\ job'[u] = job[u] /\ seen'[u] = seen[u]
        /\ pc'[t] = "idle"
        /\ job'[t] = NoJob
        /\ seen'[t] = seen[t]
        /\ \A k \in Jobs : mutex'[k] = mutex[k]
        /\ \A k \in Jobs : (k # job[t] => signalcount'[k] = signalcount[k]) /\ (k = job[t] => signalcount'[k] = 0)
        /\ work' = work \ {job[t]} /\ running' = running
    BY <2>3, <1>0, <1>t, <1>6 DEF CancelQueued, TypeOK
  <2>5. \A u \in Threads, k \in Jobs : Holds(u, k)' <=> Holds(u, k)
    BY <2>1, <2>3, <2>4, <1>t, PoolAssumption DEF Holds
  <2>6. TypeOK' /\ LinkedOnce'
    BY <2>1, <2>3, <1>0, <1>t, <1>6, PoolAssumption DEF CancelQueued, TypeOK, WorkerPcs,
       CallerPcs
  <2>7. Placed'
    BY <2>1, <2>3, <2>4, <1>0, <1>t DEF Placed, WorkerPcs, CallerPcs, Threads
  <2>8. Locked'
    <3>1. \A u \in Callers : pc[u] = "inc" => job[u] # job[t]
      BY <2>3, <1>0 DEF CancelAlone
    <3>2. \A u \in Workers : pc[u] = "dec" => job[u] # job[t]
      BY <2>1, <2>3, <1>0, <1>t DEF OneOwner, Holds
    <3>3. \A u \in Threads : pc[u] \in {"inc", "dec"} => job[u] # job[t] /\ job[u] \in Jobs
      BY <3>1, <3>2, <1>0 DEF Placed, WorkerPcs, CallerPcs, Threads
    <3> QED BY <3>3, <2>3, <2>4, <1>0, <1>t DEF Locked, Placed
  <2>9. CancelAlone'
    BY <2>3, <2>4, <1>0, <1>t DEF CancelAlone, Threads
  <2>10. OneOwner'
    BY <2>1, <2>3, <2>4, <2>5, <1>0, <1>t DEF OneOwner, TypeOK
  <2>11. Backed'
    <3> SUFFICES ASSUME running, NEW k \in Jobs, signalcount'[k] > 0
               PROVE  InQueue(k)' \/ \E u \in Threads : Holds(u, k)'
      BY <2>4 DEF Backed
    <3>1. signalcount[k] > 0 => InQueue(k) \/ \E u \in Threads : Holds(u, k)
      BY <1>0 DEF Backed
    <3>2. signalcount[k] \in Nat
      BY <1>0 DEF TypeOK
    <3> QED BY <3>1, <3>2, <2>1, <2>3, <2>4, <2>5, <1>0, <1>t
  <2>12. WorkNotLost'
    <3> SUFFICES ASSUME running, NEW k \in work' PROVE Coming(k)'
      BY <2>4 DEF WorkNotLost
    <3>1. k \in Jobs /\ signalcount[k] \in Nat /\ (k \in work => Coming(k))
      BY <2>4, <1>0, <1>6 DEF WorkNotLost, TypeOK
    <3>2. CASE InQueue(k)
      BY <3>1, <3>2, <2>1, <2>4, <2>5, <1>t DEF Coming
    <3>3. ASSUME NEW c \in Callers, job[c] = k, pc[c] \in {"inc", "push"}
          PROVE  Coming(k)'
      BY <3>1, <3>3, <2>1, <2>3, <2>4, <1>0, <1>t DEF Coming
    <3>4. ASSUME NEW w \in Workers, Holds(w, k), pc[w] \in {"check", "repush"} \/ signalcount[k] > 1
          PROVE  Coming(k)'
      BY <3>1, <3>4, <2>1, <2>3, <2>4, <2>5, <1>0, <1>t DEF Coming, OneOwner
    <3> QED BY <3>1, <3>2, <3>3, <3>4, <2>3, <2>4 DEF Coming
  <2> QED BY <2>6, <2>7, <2>8, <2>9, <2>10, <2>11, <2>12 DEF PoolInv
<1>7. ASSUME NEW t \in Callers, CancelUnqueued(t)
      PROVE  PoolInv'
  <2>3. pc[t] = "cancel" /\ job[t] \in Jobs
    BY <1>0, <1>t, <1>7 DEF CancelUnqueued, TypeOK, Placed, Locked, OneOwner, Holds,
       Threads
  <2>1. queue' = queue /\ \A k : InQueue(k)' <=> InQueue(k)
    BY <1>7 DEF CancelUnqueued, InQueue
  <2>4. /\ \A u \in Threads :
            u # t => pc'[u] = pc[u] /\ job'[u] = job[u] /\ seen'[u] = seen[u]
        /\ pc'[t] = "idle"
        /\ job'[t] = NoJob
        /\ seen'[t] = seen[t]
        /\ \A k \in Jobs : mutex'[k] = mutex[k]
        /\ \A k \in Jobs : signalcount'[k] = signalcount[k]
        /\ work' = work /\ running' = running
    BY <2>3, <1>0, <1>t, <1>7 DEF CancelUnqueued, TypeOK
  <2>5. \A u \in Threads, k \in Jobs : Holds(u, k)' <=> Holds(u, k)
    BY <2>1, <2>3, <2>4, <1>t, PoolAssumption DEF Holds
  <2>6. TypeOK' /\ LinkedOnce'
    BY <2>1, <2>3, <1>0, <1>t, <1>7, PoolAssumption DEF CancelUnqueued, TypeOK,
       WorkerPcs, CallerPcs, LinkedOnce
  <2>7. Placed' /\ Locked' /\ CancelAlone'
    BY <2>3, <2>4, <1>0, <1>t, PoolAssumption DEF Placed, Locked, CancelAlone,
       WorkerPcs, CallerPcs, Threads
  <2>8. OneOwner' /\ Backed'
    BY <2>1, <2>4, <2>5, <1>0 DEF OneOwner, Backed
  <2>9. WorkNotLost'
    <3>1. \A k \in work : k \in Jobs
      BY <1>0 DEF TypeOK
    <3> QED BY <3>1, <2>1, <2>3, <2>4, <2>5, <1>0, <1>t DEF WorkNotLost, Coming
  <2> QED BY <2>6, <2>7, <2>8, <2>9 DEF PoolInv
<1>8. ASSUME NEW t \in Workers, WorkerTop(t)
      PROVE  PoolInv'
  <2>3. pc[t] = "top" /\ job[t] = NoJob
    BY <1>0, <1>t, <1>8 DEF WorkerTop, TypeOK, Placed, Locked, OneOwner, Holds, Threads
  <2>1. queue' = queue /\ \A k : InQueue(k)' <=> InQueue(k)
    BY <1>8 DEF WorkerTop, InQueue
  <2>4. /\ \A u \in Threads :
            u # t => pc'[u] = pc[u] /\ job'[u] = job[u] /\ seen'[u] = seen[u]
        /\ pc'[t] = IF running THEN "lock" ELSE "exited"
        /\ job'[t] = job[t]
        /\ seen'[t] = seen[t]
        /\ \A k \in Jobs : mutex'[k] = mutex[k]
        /\ \A k \in Jobs : signalcount'[k] = signalcount[k]
        /\ work' = work /\ running' = running
    BY <2>3, <1>0, <1>t, <1>8 DEF WorkerTop, TypeOK
  <2>5. \A u \in Threads, k \in Jobs : Holds(u, k)' <=> Holds(u, k)
    BY <2>1, <2>3, <2>4, <1>t, PoolAssumption DEF Holds
  <2>6. TypeOK' /\ LinkedOnce'
    BY <2>1, <2>3, <1>0, <1>t, <1>8, PoolAssumption DEF WorkerTop, TypeOK, WorkerPcs,
       CallerPcs, LinkedOnce
  <2>7. Placed' /\ Locked' /\ CancelAlone'
    BY <2>3, <2>4, <1>0, <1>t, PoolAssumption DEF Placed, Locked, CancelAlone,
       WorkerPcs, CallerPcs, Threads
  <2>8. OneOwner' /\ Backed'
    BY <2>1, <2>4, <2>5, <1>0 DEF OneOwner, Backed
  <2>9. WorkNotLost'
    <3>1. \A k \in work : k \in Jobs
      BY <1>0 DEF TypeOK
    <3> QED BY <3>1, <2>1, <2>3, <2>4, <2>5, <1>0, <1>t DEF WorkNotLost, Coming
  <2> QED BY <2>6, <2>7, <2>8, <2>9 DEF PoolInv
<1>9. ASSUME NEW t \in Workers, WorkerTake(t)
      PROVE  PoolInv'
  <2>1. CASE running /\ queue # <<>>
    <3>3. pc[t] \in {"lock", "wait"} /\ job[t] = NoJob
      BY <2>1, <1>0, <1>t, <1>9 DEF WorkerTake, TypeOK, Placed, Locked, OneOwner, Holds,
         Threads
    <3>0. queue' = Tail(queue) /\ job' = [job EXCEPT ![t] = Head(queue)]
      BY <2>1, <1>9 DEF WorkerTake
    <3>1. /\ Head(queue) \in Jobs /\ InQueue(Head(queue))
          /\ \A k : InQueue(k)' <=> InQueue(k) /\ k # Head(queue)
          /\ queue' \in Seq(Jobs) /\ LinkedOnce'
      <4>1. queue \in Seq(Jobs) /\ queue # <<>> /\ Distinct(queue)
        BY <2>1, <1>0 DEF TypeOK, LinkedOnce, Distinct
      <4>2. /\ Head(queue) \in Jobs /\ In(queue, Head(queue))
            /\ \A k : In(queue', k) <=> In(queue, k) /\ k # Head(queue)
            /\ queue' \in Seq(Jobs) /\ Distinct(queue')
        BY <4>1, <3>0, PopLemma
      <4> QED BY <4>2 DEF LinkedOnce, InQueue, In, Distinct
    <3>4. /\ \A u \in Threads :
              u # t => pc'[u] = pc[u] /\ job'[u] = job[u] /\ seen'[u] = seen[u]
          /\ pc'[t] = "check"
          /\ job'[t] = Head(queue)
          /\ seen'[t] = seen[t]
          /\ \A k \in Jobs : mutex'[k] = mutex[k]
          /\ \A k \in Jobs : signalcount'[k] = signalcount[k]
          /\ work' = work /\ running' = running
      BY <2>1, <3>3, <1>0, <1>t, <1>9 DEF WorkerTake, TypeOK
    <3>5. \A u \in Threads, k \in Jobs : Holds(u, k)' <=> Holds(u, k) \/ (u = t /\ k = Head(queue))
      BY <2>1, <3>1, <3>3, <3>4, <1>t, PoolAssumption DEF Holds
    <3>13. job' \in [Threads -> Jobs \cup {NoJob}]
      BY <3>0, <3>1, <1>0, <1>t DEF TypeOK
    <3>6. TypeOK' /\ LinkedOnce'
      BY <2>1, <3>1, <3>3, <3>13, <1>0, <1>t, <1>9, PoolAssumption DEF WorkerTake,
         TypeOK, WorkerPcs, CallerPcs
    <3>7. Placed'
      BY <2>1, <3>1, <3>3, <3>4, <1>0, <1>t DEF Placed, WorkerPcs, CallerPcs, Threads
    <3>8. Locked'
      BY <2>1, <3>1, <3>3, <3>4, <1>0, <1>t, PoolAssumption DEF Locked, Placed, Threads
    <3>9. CancelAlone'
      BY <2>1, <3>3, <3>4, <1>0, <1>t DEF CancelAlone, Threads
    <3>10. OneOwner'
      BY <2>1, <3>1, <3>3, <3>4, <3>5, <1>0, <1>t DEF OneOwner, TypeOK
    <3>11. Backed'
      <4> SUFFICES ASSUME running, NEW k \in Jobs, signalcount'[k] > 0
                 PROVE  InQueue(k)' \/ \E u \in Threads : Holds(u, k)'
        BY <3>4 DEF Backed
      <4>1. signalcount[k] > 0 => InQueue(k) \/ \E u \in Threads : Holds(u, k)
        BY <1>0 DEF Backed
      <4>2. signalcount[k] \in Nat
        BY <1>0 DEF TypeOK
      <4> QED BY <2>1, <4>1, <4>2, <3>1, <3>3, <3>4, <3>5, <1>0, <1>t
    <3>12. WorkNotLost'
      <4> SUFFICES ASSUME running, NEW k \in work' PROVE Coming(k)'
        BY <3>4 DEF WorkNotLost
      <4>1. k \in Jobs /\ signalcount[k] \in Nat /\ (k \in work => Coming(k))
        BY <2>1, <3>4, <1>0, <1>9 DEF WorkNotLost, TypeOK
      <4>2. CASE InQueue(k)
        BY <2>1, <4>1, <4>2, <3>1, <3>4, <3>5, <1>t DEF Coming
      <4>3. ASSUME NEW c \in Callers, job[c] = k, pc[c] \in {"inc", "push"}
            PROVE  Coming(k)'
        BY <2>1, <4>1, <4>3, <3>1, <3>3, <3>4, <1>0, <1>t DEF Coming
      <4>4. ASSUME NEW w \in Workers, Holds(w, k), pc[w] \in {"check", "repush"} \/ signalcount[k] > 1
            PROVE  Coming(k)'
        BY <2>1, <4>1, <4>4, <3>1, <3>3, <3>4, <3>5, <1>0, <1>t DEF Coming, OneOwner
      <4> QED BY <2>1, <4>1, <4>2, <4>3, <4>4, <3>3, <3>4 DEF Coming
    <3> QED BY <3>6, <3>7, <3>8, <3>9, <3>10, <3>11, <3>12 DEF PoolInv
  <2>2. CASE running /\ queue = <<>>
    <3>3. pc[t] \in {"lock", "wait"} /\ job[t] = NoJob
      BY <2>2, <1>0, <1>t, <1>9 DEF WorkerTake, TypeOK, Placed, Locked, OneOwner, Holds,
         Threads
    <3>1. queue' = queue /\ \A k : InQueue(k)' <=> InQueue(k)
      BY <2>2, <1>9 DEF WorkerTake, InQueue
    <3>4. /\ \A u \in Threads :
              u # t => pc'[u] = pc[u] /\ job'[u] = job[u] /\ seen'[u] = seen[u]
          /\ pc'[t] = "wait"
          /\ job'[t] = job[t]
          /\ seen'[t] = seen[t]
          /\ \A k \in Jobs : mutex'[k] = mutex[k]
          /\ \A k \in Jobs : signalcount'[k] = signalcount[k]
          /\ work' = work /\ running' = running
      BY <2>2, <3>3, <1>0, <1>t, <1>9 DEF WorkerTake, TypeOK
    <3>5. \A u \in Threads, k \in Jobs : Holds(u, k)' <=> Holds(u, k)
      BY <2>2, <3>1, <3>3, <3>4, <1>t, PoolAssumption DEF Holds
    <3>2. LinkedOnce'
      BY <3>1, <1>0 DEF LinkedOnce
    <3>6. TypeOK' /\ LinkedOnce'
      BY <2>2, <3>2, <1>0, <1>t, <1>9 DEF WorkerTake, TypeOK, WorkerPcs
    <3>7. Placed' /\ Locked' /\ CancelAlone'
      BY <2>2, <3>3, <3>4, <1>0, <1>t, PoolAssumption DEF Placed, Locked, CancelAlone,
         WorkerPcs, CallerPcs, Threads
    <3>8. OneOwner' /\ Backed'
      BY <3>1, <3>4, <3>5, <1>0 DEF OneOwner, Backed
    <3>9. WorkNotLost'
      <4>1. \A k \in work : k \in Jobs
        BY <1>0 DEF TypeOK
      <4> QED BY <2>2, <4>1, <3>1, <3>3, <3>4, <3>5, <1>0, <1>t DEF WorkNotLost, Coming
    <3> QED BY <3>6, <3>7, <3>8, <3>9 DEF PoolInv
  <2>3. CASE ~running
    <3>3. pc[t] \in {"lock", "wait"} /\ job[t] = NoJob
      BY <2>3, <1>0, <1>t, <1>9 DEF WorkerTake, TypeOK, Placed, Locked, OneOwner, Holds,
         Threads
    <3>1. queue' = queue /\ \A k : InQueue(k)' <=> InQueue(k)
      BY <2>3, <1>9 DEF WorkerTake, InQueue
    <3>4. /\ \A u \in Threads :
              u # t => pc'[u] = pc[u] /\ job'[u] = job[u] /\ seen'[u] = seen[u]
          /\ pc'[t] = "check"
          /\ job'[t] = job[t]
          /\ seen'[t] = seen[t]
          /\ \A k \in Jobs : mutex'[k] = mutex[k]
          /\ \A k \in Jobs : signalcount'[k] = signalcount[k]
          /\ work' = work /\ running' = running
      BY <2>3, <3>3, <1>0, <1>t, <1>9 DEF WorkerTake, TypeOK
    <3>5. \A u \in Threads, k \in Jobs : Holds(u, k)' <=> Holds(u, k)
      BY <2>3, <3>1, <3>3, <3>4, <1>t, PoolAssumption DEF Holds
    <3>2. LinkedOnce'
      BY <3>1, <1>0 DEF LinkedOnce
    <3>6. TypeOK' /\ LinkedOnce'
      BY <2>3, <3>2, <1>0, <1>t, <1>9 DEF WorkerTake, TypeOK, WorkerPcs
    <3>7. Placed' /\ Locked' /\ CancelAlone'
      BY <2>3, <3>3, <3>4, <1>0, <1>t, PoolAssumption DEF Placed, Locked, CancelAlone,
         WorkerPcs, CallerPcs, Threads
    <3>8. OneOwner' /\ Backed'
      BY <3>1, <3>4, <3>5, <1>0 DEF OneOwner, Backed
    <3>9. WorkNotLost'
      <4>1. \A k \in work : k \in Jobs
        BY <1>0 DEF TypeOK
      <4> QED BY <2>3, <4>1, <3>1, <3>3, <3>4, <3>5, <1>0, <1>t DEF WorkNotLost, Coming
    <3> QED BY <3>6, <3>7, <3>8, <3>9 DEF PoolInv
  <2> QED BY <2>1, <2>2, <2>3
<1>10. ASSUME NEW t \in Workers, SpuriousWakeup(t)
      PROVE  PoolInv'
  <2>3. TRUE
    BY <1>0, <1>t, <1>10 DEF SpuriousWakeup, TypeOK, Placed, Locked, OneOwner, Holds,
       Threads
  <2>1. queue' = queue /\ \A k : InQueue(k)' <=> InQueue(k)
    BY <1>10 DEF SpuriousWakeup, InQueue
  <2>4. /\ \A u \in Threads :
            u # t => pc'[u] = pc[u] /\ job'[u] = job[u] /\ seen'[u] = seen[u]
        /\ pc'[t] = pc[t]
        /\ job'[t] = job[t]
        /\ seen'[t] = seen[t]
        /\ \A k \in Jobs : mutex'[k] = mutex[k]
        /\ \A k \in Jobs : signalcount'[k] = signalcount[k]
        /\ work' = work /\ running' = running
    BY <2>3, <1>0, <1>t, <1>10 DEF SpuriousWakeup, TypeOK
  <2>5. \A u \in Threads, k \in Jobs : Holds(u, k)' <=> Holds(u, k)
    BY <2>1, <2>3, <2>4, <1>t, PoolAssumption DEF Holds
  <2>6. TypeOK' /\ LinkedOnce'
    BY <2>1, <2>3, <1>0, <1>t, <1>10, PoolAssumption DEF SpuriousWakeup, TypeOK,
       WorkerPcs, CallerPcs, LinkedOnce
  <2>7. Placed' /\ Locked' /\ CancelAlone'
    BY <2>3, <2>4, <1>0, <1>t, PoolAssumption DEF Placed, Locked, CancelAlone,
       WorkerPcs, CallerPcs, Threads
  <2>8. OneOwner' /\ Backed'
    BY <2>1, <2>4, <2>5, <1>0 DEF OneOwner, Backed
  <2>9. WorkNotLost'
    <3>1. \A k \in work : k \in Jobs
      BY <1>0 DEF TypeOK
    <3> QED BY <3>1, <2>1, <2>3, <2>4, <2>5, <1>0, <1>t DEF WorkNotLost, Coming
  <2> QED BY <2>6, <2>7, <2>8, <2>9 DEF PoolInv
<1>11. ASSUME NEW t \in Workers, WorkerCheck(t)
      PROVE  PoolInv'
  <2>1. CASE running
    <3>3. pc[t] = "check" /\ job[t] \in Jobs \cup {NoJob} /\ (\A k : Holds(t, k) => k = job[t])
      BY <2>1, <1>0, <1>t, <1>11 DEF WorkerCheck, TypeOK, Placed, Locked, OneOwner,
         Holds, Threads
    <3>1. queue' = queue /\ \A k : InQueue(k)' <=> InQueue(k)
      BY <2>1, <1>11 DEF WorkerCheck, InQueue
    <3>4. /\ \A u \in Threads :
              u # t => pc'[u] = pc[u] /\ job'[u] = job[u] /\ seen'[u] = seen[u]
          /\ pc'[t] = IF job[t] = NoJob THEN "top" ELSE "run"
          /\ job'[t] = job[t]
          /\ seen'[t] = seen[t]
          /\ \A k \in Jobs : mutex'[k] = mutex[k]
          /\ \A k \in Jobs : signalcount'[k] = signalcount[k]
          /\ work' = work \ {job[t]} /\ running' = running
      BY <2>1, <3>3, <1>0, <1>t, <1>11 DEF WorkerCheck, TypeOK
    <3>5. \A u \in Threads, k \in Jobs : Holds(u, k)' <=> Holds(u, k)
      BY <2>1, <3>1, <3>3, <3>4, <1>t, PoolAssumption DEF Holds
    <3>6. TypeOK' /\ LinkedOnce'
      BY <2>1, <3>1, <3>3, <1>0, <1>t, <1>11, PoolAssumption DEF WorkerCheck, TypeOK,
         WorkerPcs, CallerPcs, LinkedOnce
    <3>7. Placed' /\ Locked' /\ CancelAlone'
      BY <2>1, <3>3, <3>4, <1>0, <1>t, PoolAssumption DEF Placed, Locked, CancelAlone,
         WorkerPcs, CallerPcs, Threads
    <3>8. OneOwner' /\ Backed'
      BY <3>1, <3>4, <3>5, <1>0 DEF OneOwner, Backed
    <3>9. WorkNotLost'
      <4>1. \A k \in work : k \in Jobs
        BY <1>0 DEF TypeOK
      <4> QED BY <2>1, <4>1, <3>1, <3>3, <3>4, <3>5, <1>0, <1>t DEF WorkNotLost, Coming
    <3> QED BY <3>6, <3>7, <3>8, <3>9 DEF PoolInv
  <2>2. CASE ~running
    <3>3. pc[t] = "check"
      BY <2>2, <1>0, <1>t, <1>11 DEF WorkerCheck, TypeOK, Placed, Locked, OneOwner,
         Holds, Threads
    <3>1. queue' = queue /\ \A k : InQueue(k)' <=> InQueue(k)
      BY <2>2, <1>11 DEF WorkerCheck, InQueue
    <3>4. /\ \A u \in Threads :
              u # t => pc'[u] = pc[u] /\ job'[u] = job[u] /\ seen'[u] = seen[u]
          /\ pc'[t] = "top"
          /\ job'[t] = NoJob
          /\ seen'[t] = seen[t]
          /\ \A k \in Jobs : mutex'[k] = mutex[k]
          /\ \A k \in Jobs : signalcount'[k] = signalcount[k]
          /\ work' = work /\ running' = running
      BY <2>2, <3>3, <1>0, <1>t, <1>11 DEF WorkerCheck, TypeOK
    <3>5. \A u \in Threads, k \in Jobs : Holds(u, k)' <=> Holds(u, k) /\ u # t
      BY <2>2, <3>1, <3>3, <3>4, <1>t, PoolAssumption DEF Holds
    <3>6. TypeOK' /\ LinkedOnce'
      BY <2>2, <3>1, <3>3, <1>0, <1>t, <1>11, PoolAssumption DEF WorkerCheck, TypeOK,
         WorkerPcs, CallerPcs, LinkedOnce
    <3>7. Placed'
      BY <2>2, <3>1, <3>3, <3>4, <1>0, <1>t DEF Placed, WorkerPcs, CallerPcs, Threads
    <3>8. Locked'
      BY <2>2, <3>1, <3>3, <3>4, <1>0, <1>t, PoolAssumption DEF Locked, Placed, Threads
    <3>9. CancelAlone'
      BY <2>2, <3>3, <3>4, <1>0, <1>t DEF CancelAlone, Threads
    <3>10. OneOwner'
      BY <2>2, <3>1, <3>3, <3>4, <3>5, <1>0, <1>t DEF OneOwner, TypeOK
    <3>11. Backed'
      <4> SUFFICES ASSUME running, NEW k \in Jobs, signalcount'[k] > 0
                 PROVE  InQueue(k)' \/ \E u \in Threads : Holds(u, k)'
        BY <3>4 DEF Backed
      <4>1. signalcount[k] > 0 => InQueue(k) \/ \E u \in Threads : Holds(u, k)
        BY <1>0 DEF Backed
      <4>2. signalcount[k] \in Nat
        BY <1>0 DEF TypeOK
      <4> QED BY <2>2, <4>1, <4>2, <3>1, <3>3, <3>4, <3>5, <1>0, <1>t, PoolAssumption
         DEF OneOwner
    <3>12. WorkNotLost'
      <4> SUFFICES ASSUME running, NEW k \in work' PROVE Coming(k)'
        BY <3>4 DEF WorkNotLost
      <4>1. k \in Jobs /\ signalcount[k] \in Nat /\ (k \in work => Coming(k))
        BY <2>2, <3>4, <1>0, <1>11 DEF WorkNotLost, TypeOK
      <4>2. CASE InQueue(k)
        BY <4>1, <4>2, <3>1, <3>4 DEF Coming
      <4>3. ASSUME NEW c \in Callers, job[c] = k, pc[c] \in {"inc", "push"}
            PROVE  Coming(k)'
        BY <2>2, <4>1, <4>3, <3>1, <3>3, <3>4, <1>0, <1>t DEF Coming
      <4>4. ASSUME NEW w \in Workers, Holds(w, k), pc[w] \in {"check", "repush"} \/ signalcount[k] > 1
            PROVE  Coming(k)'
        BY <2>2, <4>1, <4>4, <3>1, <3>3, <3>4, <3>5, <1>0, <1>t DEF Coming
      <4> QED BY <2>2, <4>1, <4>2, <4>3, <4>4, <3>3, <3>4 DEF Coming
    <3> QED BY <3>6, <3>7, <3>8, <3>9, <3>10, <3>11, <3>12 DEF PoolInv
  <2> QED BY <2>1, <2>2
<1>12. ASSUME NEW t \in Workers, CallbackDone(t)
      PROVE  PoolInv'
  <2>3. pc[t] = "run" /\ job[t] \in Jobs /\ mutex[job[t]] = NoThread
    BY <1>0, <1>t, <1>12 DEF CallbackDone, TypeOK, Placed, Locked, OneOwner, Holds,
       Threads
  <2>1. queue' = queue /\ \A k : InQueue(k)' <=> InQueue(k)
    BY <1>12 DEF CallbackDone, InQueue
  <2>4. /\ \A u \in Threads :
            u # t => pc'[u] = pc[u] /\ job'[u] = job[u] /\ seen'[u] = seen[u]
        /\ pc'[t] = "dec"
        /\ job'[t] = job[t]
        /\ seen'[t] = signalcount[job[t]]
        /\ \A k \in Jobs : (k # job[t] => mutex'[k] = mutex[k]) /\ (k = job[t] => mutex'[k] = t)
        /\ \A k \in Jobs : signalcount'[k] = signalcount[k]
        /\ work' = work /\ running' = running
    BY <2>3, <1>0, <1>t, <1>12 DEF CallbackDone, TypeOK
  <2>5. \A u \in Threads, k \in Jobs : Holds(u, k)' <=> Holds(u, k)
    BY <2>1, <2>3, <2>4, <1>t, PoolAssumption DEF Holds
  <2>6. TypeOK' /\ LinkedOnce'
    BY <2>1, <2>3, <1>0, <1>t, <1>12, PoolAssumption DEF CallbackDone, TypeOK,
       WorkerPcs, CallerPcs, LinkedOnce
  <2>7. Placed' /\ Locked' /\ CancelAlone'
    BY <2>3, <2>4, <1>0, <1>t, PoolAssumption DEF Placed, Locked, CancelAlone,
       WorkerPcs, CallerPcs, Threads
  <2>8. OneOwner' /\ Backed'
    BY <2>1, <2>4, <2>5, <1>0 DEF OneOwner, Backed
  <2>9. WorkNotLost'
    <3>1. \A k \in work : k \in Jobs
      BY <1>0 DEF TypeOK
    <3> QED BY <3>1, <2>1, <2>3, <2>4, <2>5, <1>0, <1>t DEF WorkNotLost, Coming
  <2> QED BY <2>6, <2>7, <2>8, <2>9 DEF PoolInv
<1>13. ASSUME NEW t \in Workers, WorkerDecrement(t)
      PROVE  PoolInv'
  <2>1. CASE SignalledAgain(seen[t])
    <3>3. pc[t] = "dec" /\ job[t] \in Jobs /\ mutex[job[t]] = t /\ seen[t] = signalcount[job[t]] /\ seen[t] > 1 /\ Holds(t, job[t])
      BY <2>1, <1>0, <1>t, <1>13 DEF WorkerDecrement, SignalledAgain, TypeOK, Placed,
         Locked, OneOwner, Holds, Threads
    <3>1. queue' = queue /\ \A k : InQueue(k)' <=> InQueue(k)
      BY <2>1, <1>13 DEF WorkerDecrement, InQueue
    <3>4. /\ \A u \in Threads :
              u # t => pc'[u] = pc[u] /\ job'[u] = job[u] /\ seen'[u] = seen[u]
          /\ pc'[t] = "repush"
          /\ job'[t] = job[t]
          /\ seen'[t] = seen[t]
          /\ \A k \in Jobs : mutex'[k] = mutex[k]
          /\ \A k \in Jobs : (k # job[t] => signalcount'[k] = signalcount[k]) /\ (k = job[t] => signalcount'[k] = seen[t] - 1)
          /\ work' = work /\ running' = running
      BY <2>1, <3>3, <1>0, <1>t, <1>13 DEF WorkerDecrement, TypeOK
    <3>5. \A u \in Threads, k \in Jobs : Holds(u, k)' <=> Holds(u, k)
      BY <2>1, <3>1, <3>3, <3>4, <1>t, PoolAssumption DEF Holds
    <3>0. signalcount' \in [Jobs -> 0 .. MaxSignal]
      <4>1. seen[t] - 1 \in 0 .. MaxSignal
        BY <3>3, <1>0, <1>t, PoolAssumption DEF TypeOK
      <4> QED BY <4>1, <1>0, <1>13 DEF WorkerDecrement, TypeOK
    <3>6. TypeOK' /\ LinkedOnce'
      BY <2>1, <3>1, <3>3, <3>0, <1>0, <1>t, <1>13, PoolAssumption DEF WorkerDecrement,
         TypeOK, WorkerPcs, CallerPcs, LinkedOnce
    <3>7. Placed'
      BY <2>1, <3>1, <3>3, <3>4, <1>0, <1>t DEF Placed, WorkerPcs, CallerPcs, Threads
    <3>8. Locked'
      BY <2>1, <3>1, <3>3, <3>4, <1>0, <1>t, PoolAssumption DEF Locked, Placed, Threads
    <3>9. CancelAlone'
      BY <2>1, <3>3, <3>4, <1>0, <1>t DEF CancelAlone, Threads
    <3>10. OneOwner'
      <4> SUFFICES ASSUME NEW k \in Jobs
                 PROVE  (/\ \A u, v \in Threads : Holds(u, k) /\ Holds(v, k) => u = v
                         /\ \A u \in Threads : Holds(u, k) => ~InQueue(k)
                         /\ \A u \in Threads : Holds(u, k) => signalcount[k] > 0
                         /\ InQueue(k) => signalcount[k] > 0)'
        BY DEF OneOwner
      <4>1. signalcount[k] \in Nat /\ seen[t] \in Nat
        BY <1>0, <1>t DEF TypeOK
      <4>2. (/\ \A u, v \in Threads : Holds(u, k) /\ Holds(v, k) => u = v
             /\ \A u \in Threads : Holds(u, k) => ~InQueue(k)
             /\ \A u \in Threads : Holds(u, k) => signalcount[k] > 0
             /\ InQueue(k) => signalcount[k] > 0)
        BY <1>0 DEF OneOwner
      <4> QED BY <2>1, <4>1, <4>2, <3>1, <3>3, <3>4, <3>5, <1>t
    <3>11. Backed'
      <4> SUFFICES ASSUME running, NEW k \in Jobs, signalcount'[k] > 0
                 PROVE  InQueue(k)' \/ \E u \in Threads : Holds(u, k)'
        BY <3>4 DEF Backed
      <4>1. signalcount[k] > 0 => InQueue(k) \/ \E u \in Threads : Holds(u, k)
        BY <1>0 DEF Backed
      <4>2. signalcount[k] \in Nat
        BY <1>0 DEF TypeOK
      <4> QED BY <2>1, <4>1, <4>2, <3>1, <3>3, <3>4, <3>5, <1>0, <1>t, PoolAssumption
         DEF OneOwner
    <3>12. WorkNotLost'
      <4> SUFFICES ASSUME running, NEW k \in work' PROVE Coming(k)'
        BY <3>4 DEF WorkNotLost
      <4>1. k \in Jobs /\ signalcount[k] \in Nat /\ (k \in work => Coming(k))
        BY <2>1, <3>4, <1>0, <1>13 DEF WorkNotLost, TypeOK
      <4>2. CASE InQueue(k)
        BY <4>1, <4>2, <3>1, <3>4 DEF Coming
      <4>3. ASSUME NEW c \in Callers, job[c] = k, pc[c] \in {"inc", "push"}
            PROVE  Coming(k)'
        BY <2>1, <4>1, <4>3, <3>1, <3>3, <3>4, <1>0, <1>t DEF Coming
      <4>4. ASSUME NEW w \in Workers, Holds(w, k), pc[w] \in {"check", "repush"} \/ signalcount[k] > 1
            PROVE  Coming(k)'
        BY <2>1, <4>1, <4>4, <3>1, <3>3, <3>4, <3>5, <1>0, <1>t DEF Coming, OneOwner
      <4> QED BY <2>1, <4>1, <4>2, <4>3, <4>4, <3>3, <3>4 DEF Coming
    <3> QED BY <3>6, <3>7, <3>8, <3>9, <3>10, <3>11, <3>12 DEF PoolInv
  <2>2. CASE ~SignalledAgain(seen[t])
    <3>3. pc[t] = "dec" /\ job[t] \in Jobs /\ mutex[job[t]] = t /\ seen[t] = 1 /\ signalcount[job[t]] = 1 /\ Holds(t, job[t]) /\ (\A k : Holds(t, k) => k = job[t])
      BY <2>2, <1>0, <1>t, <1>13 DEF WorkerDecrement, SignalledAgain, TypeOK, Placed,
         Locked, OneOwner, Holds, Threads
    <3>1. queue' = queue /\ \A k : InQueue(k)' <=> InQueue(k)
      BY <2>2, <1>13 DEF WorkerDecrement, InQueue
    <3>4. /\ \A u \in Threads :
              u # t => pc'[u] = pc[u] /\ job'[u] = job[u] /\ seen'[u] = seen[u]
          /\ pc'[t] = "next"
          /\ job'[t] = job[t]
          /\ seen'[t] = seen[t]
          /\ \A k \in Jobs : (k # job[t] => mutex'[k] = mutex[k]) /\ (k = job[t] => mutex'[k] = NoThread)
          /\ \A k \in Jobs : (k # job[t] => signalcount'[k] = signalcount[k]) /\ (k = job[t] => signalcount'[k] = seen[t] - 1)
          /\ work' = work /\ running' = running
      BY <2>2, <3>3, <1>0, <1>t, <1>13 DEF WorkerDecrement, TypeOK
    <3>5. \A u \in Threads, k \in Jobs : Holds(u, k)' <=> Holds(u, k) /\ u # t
      BY <2>2, <3>1, <3>3, <3>4, <1>t, PoolAssumption DEF Holds
    <3>0. signalcount' \in [Jobs -> 0 .. MaxSignal]
      <4>1. seen[t] - 1 \in 0 .. MaxSignal
        BY <3>3, <1>0, <1>t, PoolAssumption DEF TypeOK
      <4> QED BY <4>1, <1>0, <1>13 DEF WorkerDecrement, TypeOK
    <3>6. TypeOK' /\ LinkedOnce'
      BY <2>2, <3>1, <3>3, <3>0, <1>0, <1>t, <1>13, PoolAssumption DEF WorkerDecrement,
         TypeOK, WorkerPcs, CallerPcs, LinkedOnce
    <3>7. Placed'
      BY <2>2, <3>1, <3>3, <3>4, <1>0, <1>t DEF Placed, WorkerPcs, CallerPcs, Threads
    <3>8. Locked'
      BY <2>2, <3>1, <3>3, <3>4, <1>0, <1>t, PoolAssumption DEF Locked, Placed, Threads
    <3>9. CancelAlone'
      BY <2>2, <3>3, <3>4, <1>0, <1>t DEF CancelAlone, Threads
    <3>10. OneOwner'
      <4> SUFFICES ASSUME NEW k \in Jobs
                 PROVE  (/\ \A u, v \in Threads : Holds(u, k) /\ Holds(v, k) => u = v
                         /\ \A u \in Threads : Holds(u, k) => ~InQueue(k)
                         /\ \A u \in Threads : Holds(u, k) => signalcount[k] > 0
                         /\ InQueue(k) => signalcount[k] > 0)'
        BY DEF OneOwner
      <4>1. signalcount[k] \in Nat /\ seen[t] \in Nat
        BY <1>0, <1>t DEF TypeOK
      <4>2. (/\ \A u, v \in Threads : Holds(u, k) /\ Holds(v, k) => u = v
             /\ \A u \in Threads : Holds(u, k) => ~InQueue(k)
             /\ \A u \in Threads : Holds(u, k) => signalcount[k] > 0
             /\ InQueue(k) => signalcount[k] > 0)
        BY <1>0 DEF OneOwner
      <4> QED BY <2>2, <4>1, <4>2, <3>1, <3>3, <3>4, <3>5, <1>t
    <3>11. Backed'
      <4> SUFFICES ASSUME running, NEW k \in Jobs, signalcount'[k] > 0
                 PROVE  InQueue(k)' \/ \E u \in Threads : Holds(u, k)'
        BY <3>4 DEF Backed
      <4>1. signalcount[k] > 0 => InQueue(k) \/ \E u \in Threads : Holds(u, k)
        BY <1>0 DEF Backed
      <4>2. signalcount[k] \in Nat
        BY <1>0 DEF TypeOK
      <4> QED BY <2>2, <4>1, <4>2, <3>1, <3>3, <3>4, <3>5, <1>0, <1>t, PoolAssumption
         DEF OneOwner
    <3>12. WorkNotLost'
      <4> SUFFICES ASSUME running, NEW k \in work' PROVE Coming(k)'
        BY <3>4 DEF WorkNotLost
      <4>1. k \in Jobs /\ signalcount[k] \in Nat /\ (k \in work => Coming(k))
        BY <2>2, <3>4, <1>0, <1>13 DEF WorkNotLost, TypeOK
      <4>2. CASE InQueue(k)
        BY <4>1, <4>2, <3>1, <3>4 DEF Coming
      <4>3. ASSUME NEW c \in Callers, job[c] = k, pc[c] \in {"inc", "push"}
            PROVE  Coming(k)'
        BY <2>2, <4>1, <4>3, <3>1, <3>3, <3>4, <1>0, <1>t DEF Coming
      <4>4. ASSUME NEW w \in Workers, Holds(w, k), pc[w] \in {"check", "repush"} \/ signalcount[k] > 1
            PROVE  Coming(k)'
        BY <2>2, <4>1, <4>4, <3>1, <3>3, <3>4, <3>5, <1>0, <1>t DEF Coming, OneOwner
      <4> QED BY <2>2, <4>1, <4>2, <4>3, <4>4, <3>3, <3>4 DEF Coming
    <3> QED BY <3>6, <3>7, <3>8, <3>9, <3>10, <3>11, <3>12 DEF PoolInv
  <2> QED BY <2>1, <2>2
<1>14. ASSUME NEW t \in Workers, WorkerRepush(t)
      PROVE  PoolInv'
  <2>3. pc[t] = "repush" /\ job[t] \in Jobs /\ mutex[job[t]] = t /\ Holds(t, job[t]) /\ (\A k : Holds(t, k) => k = job[t])
    BY <1>0, <1>t, <1>14 DEF WorkerRepush, TypeOK, Placed, Locked, OneOwner, Holds,
       Threads
  <2>1. (\A k : InQueue(k)' <=> InQueue(k) \/ k = job[t]) /\ queue' \in Seq(Jobs) /\ LinkedOnce'
    <3>1. queue' = Append(queue, job[t])
      BY <1>14 DEF WorkerRepush
    <3>2. queue \in Seq(Jobs) /\ Distinct(queue)
      BY <1>0 DEF TypeOK, LinkedOnce, Distinct
    <3>3. ~In(queue, job[t])
      BY <2>3, <1>0, <1>t DEF OneOwner, InQueue, In
    <3>4. Distinct(queue') /\ queue' \in Seq(Jobs) /\ \A k : In(queue', k) <=> In(queue, k) \/ k = job[t]
      BY <3>1, <3>2, <3>3, <2>3, AppendLemma
    <3> QED BY <3>4 DEF LinkedOnce, InQueue, In, Distinct
  <2>4. /\ \A u \in Threads :
            u # t => pc'[u] = pc[u] /\ job'[u] = job[u] /\ seen'[u] = seen[u]
        /\ pc'[t] = "next"
        /\ job'[t] = job[t]
        /\ seen'[t] = seen[t]
        /\ \A k \in Jobs : (k # job[t] => mutex'[k] = mutex[k]) /\ (k = job[t] => mutex'[k] = NoThread)
        /\ \A k \in Jobs : signalcount'[k] = signalcount[k]
        /\ work' = work /\ running' = running
    BY <2>3, <1>0, <1>t, <1>14 DEF WorkerRepush, TypeOK
  <2>5. \A u \in Threads, k \in Jobs : Holds(u, k)' <=> Holds(u, k) /\ u # t
    BY <2>1, <2>3, <2>4, <1>t, PoolAssumption DEF Holds
  <2>6. TypeOK' /\ LinkedOnce'
    BY <2>1, <2>3, <1>0, <1>t, <1>14, PoolAssumption DEF WorkerRepush, TypeOK,
       WorkerPcs, CallerPcs
  <2>7. Placed'
    BY <2>1, <2>3, <2>4, <1>0, <1>t DEF Placed, WorkerPcs, CallerPcs, Threads
  <2>8. Locked'
    BY <2>1, <2>3, <2>4, <1>0, <1>t, PoolAssumption DEF Locked, Placed, Threads
  <2>9. CancelAlone'
    BY <2>3, <2>4, <1>0, <1>t DEF CancelAlone, Threads
  <2>10. OneOwner'
    BY <2>1, <2>3, <2>4, <2>5, <1>0, <1>t DEF OneOwner, TypeOK
  <2>11. Backed'
    <3> SUFFICES ASSUME running, NEW k \in Jobs, signalcount'[k] > 0
               PROVE  InQueue(k)' \/ \E u \in Threads : Holds(u, k)'
      BY <2>4 DEF Backed
    <3>1. signalcount[k] > 0 => InQueue(k) \/ \E u \in Threads : Holds(u, k)
      BY <1>0 DEF Backed
    <3>2. signalcount[k] \in Nat
      BY <1>0 DEF TypeOK
    <3> QED BY <3>1, <3>2, <2>1, <2>3, <2>4, <2>5, <1>0, <1>t, PoolAssumption DEF OneOwner
  <2>12. WorkNotLost'
    <3> SUFFICES ASSUME running, NEW k \in work' PROVE Coming(k)'
      BY <2>4 DEF WorkNotLost
    <3>1. k \in Jobs /\ signalcount[k] \in Nat /\ (k \in work => Coming(k))
      BY <2>4, <1>0, <1>14 DEF WorkNotLost, TypeOK
    <3>2. CASE InQueue(k)
      BY <3>1, <3>2, <2>1, <2>4 DEF Coming
    <3>3. ASSUME NEW c \in Callers, job[c] = k, pc[c] \in {"inc", "push"}
          PROVE  Coming(k)'
      BY <3>1, <3>3, <2>1, <2>3, <2>4, <1>0, <1>t DEF Coming
    <3>4. ASSUME NEW w \in Workers, Holds(w, k), pc[w] \in {"check", "repush"} \/ signalcount[k] > 1
          PROVE  Coming(k)'
      BY <3>1, <3>4, <2>1, <2>3, <2>4, <2>5, <1>0, <1>t DEF Coming, OneOwner
    <3> QED BY <3>1, <3>2, <3>3, <3>4, <2>3, <2>4 DEF Coming
  <2> QED BY <2>6, <2>7, <2>8, <2>9, <2>10, <2>11, <2>12 DEF PoolInv
<1>15. ASSUME NEW t \in Workers, WorkerNext(t)
      PROVE  PoolInv'
  <2>1. CASE queue # <<>>
    <3>3. pc[t] = "next"
      BY <2>1, <1>0, <1>t, <1>15 DEF WorkerNext, TypeOK, Placed, Locked, OneOwner,
         Holds, Threads
    <3>0. queue' = Tail(queue) /\ job' = [job EXCEPT ![t] = Head(queue)]
      BY <2>1, <1>15 DEF WorkerNext
    <3>1. /\ Head(queue) \in Jobs /\ InQueue(Head(queue))
          /\ \A k : InQueue(k)' <=> InQueue(k) /\ k # Head(queue)
          /\ queue' \in Seq(Jobs) /\ LinkedOnce'
      <4>1. queue \in Seq(Jobs) /\ queue # <<>> /\ Distinct(queue)
        BY <2>1, <1>0 DEF TypeOK, LinkedOnce, Distinct
      <4>2. /\ Head(queue) \in Jobs /\ In(queue, Head(queue))
            /\ \A k : In(queue', k) <=> In(queue, k) /\ k # Head(queue)
            /\ queue' \in Seq(Jobs) /\ Distinct(queue')
        BY <4>1, <3>0, PopLemma
      <4> QED BY <4>2 DEF LinkedOnce, InQueue, In, Distinct
    <3>4. /\ \A u \in Threads :
              u # t => pc'[u] = pc[u] /\ job'[u] = job[u] /\ seen'[u] = seen[u]
          /\ pc'[t] = "run"
          /\ job'[t] = Head(queue)
          /\ seen'[t] = seen[t]
          /\ \A k \in Jobs : mutex'[k] = mutex[k]
          /\ \A k \in Jobs : signalcount'[k] = signalcount[k]
          /\ work' = work \ {Head(queue)} /\ running' = running
      BY <2>1, <3>3, <1>0, <1>t, <1>15 DEF WorkerNext, TypeOK
    <3>5. \A u \in Threads, k \in Jobs : Holds(u, k)' <=> Holds(u, k) \/ (u = t /\ k = Head(queue))
      BY <2>1, <3>1, <3>3, <3>4, <1>t, PoolAssumption DEF Holds
    <3>13. job' \in [Threads -> Jobs \cup {NoJob}]
      BY <3>0, <3>1, <1>0, <1>t DEF TypeOK
    <3>6. TypeOK' /\ LinkedOnce'
      BY <2>1, <3>1, <3>3, <3>13, <1>0, <1>t, <1>15, PoolAssumption DEF WorkerNext,
         TypeOK, WorkerPcs, CallerPcs
    <3>7. Placed'
      BY <2>1, <3>1, <3>3, <3>4, <1>0, <1>t DEF Placed, WorkerPcs, CallerPcs, Threads
    <3>8. Locked'
      BY <2>1, <3>1, <3>3, <3>4, <1>0, <1>t, PoolAssumption DEF Locked, Placed, Threads
    <3>9. CancelAlone'
      BY <2>1, <3>3, <3>4, <1>0, <1>t DEF CancelAlone, Threads
    <3>10. OneOwner'
      BY <2>1, <3>1, <3>3, <3>4, <3>5, <1>0, <1>t DEF OneOwner, TypeOK
    <3>11. Backed'
      <4> SUFFICES ASSUME running, NEW k \in Jobs, signalcount'[k] > 0
                 PROVE  InQueue(k)' \/ \E u \in Threads : Holds(u, k)'
        BY <3>4 DEF Backed
      <4>1. signalcount[k] > 0 => InQueue(k) \/ \E u \in Threads : Holds(u, k)
        BY <1>0 DEF Backed
      <4>2. signalcount[k] \in Nat
        BY <1>0 DEF TypeOK
      <4> QED BY <2>1, <4>1, <4>2, <3>1, <3>3, <3>4, <3>5, <1>0, <1>t
    <3>12. WorkNotLost'
      <4> SUFFICES ASSUME running, NEW k \in work' PROVE Coming(k)'
        BY <3>4 DEF WorkNotLost
      <4>1. k \in Jobs /\ signalcount[k] \in Nat /\ (k \in work => Coming(k))
        BY <2>1, <3>4, <1>0, <1>15 DEF WorkNotLost, TypeOK
      <4>2. CASE InQueue(k)
        BY <2>1, <4>1, <4>2, <3>1, <3>4, <3>5, <1>t DEF Coming
      <4>3. ASSUME NEW c \in Callers, job[c] = k, pc[c] \in {"inc", "push"}
            PROVE  Coming(k)'
        BY <2>1, <4>1, <4>3, <3>1, <3>3, <3>4, <1>0, <1>t DEF Coming
      <4>4. ASSUME NEW w \in Workers, Holds(w, k), pc[w] \in {"check", "repush"} \/ signalcount[k] > 1
            PROVE  Coming(k)'
        BY <2>1, <4>1, <4>4, <3>1, <3>3, <3>4, <3>5, <1>0, <1>t DEF Coming, OneOwner
      <4> QED BY <2>1, <4>1, <4>2, <4>3, <4>4, <3>3, <3>4 DEF Coming
    <3> QED BY <3>6, <3>7, <3>8, <3>9, <3>10, <3>11, <3>12 DEF PoolInv
  <2>2. CASE queue = <<>>
    <3>3. pc[t] = "next"
      BY <2>2, <1>0, <1>t, <1>15 DEF WorkerNext, TypeOK, Placed, Locked, OneOwner,
         Holds, Threads
    <3>1. queue' = queue /\ \A k : InQueue(k)' <=> InQueue(k)
      BY <2>2, <1>15 DEF WorkerNext, InQueue
    <3>4. /\ \A u \in Threads :
              u # t => pc'[u] = pc[u] /\ job'[u] = job[u] /\ seen'[u] = seen[u]
          /\ pc'[t] = "top"
          /\ job'[t] = NoJob
          /\ seen'[t] = seen[t]
          /\ \A k \in Jobs : mutex'[k] = mutex[k]
          /\ \A k \in Jobs : signalcount'[k] = signalcount[k]
          /\ work' = work /\ running' = running
      BY <2>2, <3>3, <1>0, <1>t, <1>15 DEF WorkerNext, TypeOK
    <3>5. \A u \in Threads, k \in Jobs : Holds(u, k)' <=> Holds(u, k)
      BY <2>2, <3>1, <3>3, <3>4, <1>t, PoolAssumption DEF Holds
    <3>2. LinkedOnce'
      BY <3>1, <1>0 DEF LinkedOnce
    <3>6. TypeOK' /\ LinkedOnce'
      <4>1. /\ pc' = [pc EXCEPT ![t] = "top"] /\ job' = [job EXCEPT ![t] = NoJob]
            /\ UNCHANGED <<queue, signalcount, mutex, waiting, running, seen, exit,
                           signalled, work>>
        BY <2>2, <1>15 DEF WorkerNext
      <4> QED BY <4>1, <3>2, <1>0, <1>t DEF TypeOK, WorkerPcs
    <3>7. Placed' /\ Locked' /\ CancelAlone'
      BY <2>2, <3>3, <3>4, <1>0, <1>t, PoolAssumption DEF Placed, Locked, CancelAlone,
         WorkerPcs, CallerPcs, Threads
    <3>8. OneOwner' /\ Backed'
      BY <3>1, <3>4, <3>5, <1>0 DEF OneOwner, Backed
    <3>9. WorkNotLost'
      <4>1. \A k \in work : k \in Jobs
        BY <1>0 DEF TypeOK
      <4> QED BY <2>2, <4>1, <3>1, <3>3, <3>4, <3>5, <1>0, <1>t DEF WorkNotLost, Coming
    <3> QED BY <3>6, <3>7, <3>8, <3>9 DEF PoolInv
  <2> QED BY <2>1, <2>2
<1>16. ASSUME ExitStep
      PROVE  PoolInv'
  <2>1. /\ queue' = queue /\ pc' = pc /\ job' = job /\ seen' = seen
        /\ mutex' = mutex /\ signalcount' = signalcount /\ work' = work
        /\ running' => running
    BY <1>16, <1>0 DEF ExitStep, ExitStop, ExitSignal, ExitJoin, TypeOK
  <2>2. /\ \A k : InQueue(k)' <=> InQueue(k)
        /\ \A u, k : Holds(u, k)' <=> Holds(u, k)
    BY <2>1 DEF InQueue, Holds
  <2>3. waiting' \in SUBSET Workers
    BY <1>16, <1>0 DEF ExitStep, ExitStop, ExitSignal, ExitJoin, CondSignal, TypeOK
  <2>4. TypeOK'
    <3>1. signalled' \in 0 .. Cardinality(Workers) /\ exit' \in {"no", "signal", "join", "done"} /\ running' \in BOOLEAN
      <4>1. CASE exit' = exit /\ signalled' = signalled /\ running' = running
        BY <4>1, <1>0 DEF TypeOK
      <4>2. CASE ExitStop \/ ExitJoin
        BY <4>2, <1>0 DEF ExitStop, ExitJoin, TypeOK
      <4>3. CASE ExitSignal
        BY <4>3, <1>0, WorkersCounted DEF ExitSignal, SignalsToSend, TypeOK
      <4> QED BY <4>1, <4>2, <4>3, <1>16 DEF ExitStep
    <3> QED BY <3>1, <2>1, <2>3, <1>0 DEF TypeOK
  <2>5. Placed' /\ Locked' /\ CancelAlone' /\ LinkedOnce'
    BY <2>1, <1>0 DEF Placed, Locked, CancelAlone, LinkedOnce
  <2>6. OneOwner' /\ Backed'
    BY <2>1, <2>2, <1>0 DEF OneOwner, Backed
  <2>7. WorkNotLost'
    BY <2>1, <2>2, <1>0 DEF WorkNotLost, Coming
  <2> QED BY <2>4, <2>5, <2>6, <2>7 DEF PoolInv
<1>17. ASSUME UNCHANGED vars
      PROVE  PoolInv'
  <2>1. /\ queue' = queue /\ pc' = pc /\ job' = job /\ seen' = seen
        /\ mutex' = mutex /\ signalcount' = signalcount /\ work' = work
        /\ running' => running
    BY <1>17, <1>0 DEF vars, TypeOK
  <2>2. /\ \A k : InQueue(k)' <=> InQueue(k)
        /\ \A u, k : Holds(u, k)' <=> Holds(u, k)
    BY <2>1 DEF InQueue, Holds
  <2>3. waiting' \in SUBSET Workers
    BY <1>17, <1>0 DEF vars, CondSignal, TypeOK
  <2>4. TypeOK'
    <3>1. signalled' \in 0 .. Cardinality(Workers) /\ exit' \in {"no", "signal", "join", "done"} /\ running' \in BOOLEAN
      <4>1. CASE exit' = exit /\ signalled' = signalled /\ running' = running
        BY <4>1, <1>0 DEF TypeOK
      <4>2. CASE ExitStop \/ ExitJoin
        BY <4>2, <1>0 DEF ExitStop, ExitJoin, TypeOK
      <4>3. CASE ExitSignal
        BY <4>3, <1>0, WorkersCounted DEF ExitSignal, SignalsToSend, TypeOK
      <4> QED BY <4>1, <4>2, <4>3, <1>17 DEF vars
    <3> QED BY <3>1, <2>1, <2>3, <1>0 DEF TypeOK
  <2>5. Placed' /\ Locked' /\ CancelAlone' /\ LinkedOnce'
    BY <2>1, <1>0 DEF Placed, Locked, CancelAlone, LinkedOnce
  <2>6. OneOwner' /\ Backed'
    BY <2>1, <2>2, <1>0 DEF OneOwner, Backed
  <2>7. WorkNotLost'
    BY <2>1, <2>2, <1>0 DEF WorkNotLost, Coming
  <2> QED BY <2>4, <2>5, <2>6, <2>7 DEF PoolInv
<1> QED BY <1>1, <1>2, <1>3, <1>4, <1>5, <1>6, <1>7, <1>8, <1>9, <1>10, <1>11, <1>12,
   <1>13, <1>14, <1>15, <1>16, <1>17 DEF Next, CallerStep, WorkerStep

\* PoolInv holds in every reachable state of the pool.
THEOREM PoolInvariant == Spec => []PoolInv
BY InitInv, StepInv, PTL DEF Spec

\* The variables keep their types; in particular a signalcount never becomes
\* negative and never exceeds the bound.
THEOREM TypeCorrect == Spec => []TypeOK
BY PoolInvariant, PTL DEF PoolInv

\* No job is run by two workers of the pool at once.
THEOREM SingleRunner == Spec => []OneRunner
<1>1. PoolInv => OneRunner
  BY DEF PoolInv, OneRunner, OneOwner, Placed, Holds, Threads
<1> QED BY PoolInvariant, <1>1, PTL

\* No job is linked twice into the list.
THEOREM ListSound == Spec => []LinkedOnce
BY PoolInvariant, PTL DEF PoolInv

\* A signal that arrives while the pool is up is never forgotten.
THEOREM NoWorkLost == Spec => []WorkNotLost
BY PoolInvariant, PTL DEF PoolInv
-----------------------------------------------------------------------------
(* The 9p server                                                           *)

\* What a fid records: a path below the root, and at most two descriptors.
Held9(r) == {r.fd, r.dir} \ {0}
IsFid(r) ==
  /\ r = [path |-> r.path, fd |-> r.fd, dir |-> r.dir]
  /\ ~PathIsIllegal(r.path)

\* The table F of fids and the open descriptors D agree.
FidsGood(F, D) ==
  /\ F = [f \in DOMAIN F |-> F[f]]
  /\ \A f \in DOMAIN F : IsFid(F[f])
  /\ D \subseteq 1 .. MaxFds + 1 /\ Cardinality(D) <= MaxFds
  /\ D = UNION {Held9(F[f]) : f \in DOMAIN F}
  /\ \A f, g \in DOMAIN F : f # g => Held9(F[f]) \cap Held9(F[g]) = {}

P9IInv == FidsGood(fids, fds) /\ DOMAIN held \subseteq DOMAIN fids /\ strayed = FALSE

\* The fid of a request, an unknown one included, is well formed.
LEMMA GotFid ==
  ASSUME NEW D, FidsGood(fids, D), NEW f
  PROVE  /\ IsFid(GetFid(f)) /\ Held9(GetFid(f)) \subseteq D
         /\ f \notin DOMAIN fids => Held9(GetFid(f)) = {}
<1>1. CASE f \in DOMAIN fids
  BY <1>1 DEF FidsGood, GetFid
<1>2. CASE f \notin DOMAIN fids
  <2>1. GetFid(f) = [path |-> <<>>, fd |-> 0, dir |-> 0]
    BY <1>2 DEF GetFid, NewFid, RootPath
  <2>2. ~PathIsIllegal(<<>>)
    BY DEF PathIsIllegal
  <2> QED BY <2>1, <2>2 DEF IsFid, Held9
<1> QED BY <1>1, <1>2

\* A fid that gets a new path, or none, keeps what it has open.
LEMMA PathPut ==
  ASSUME NEW D, FidsGood(fids, D), NEW f, NEW r, IsFid(r),
         r.fd = GetFid(f).fd, r.dir = GetFid(f).dir
  PROVE  FidsGood(Put(fids, f, r), D)
<1>1. PICK G : G = Put(fids, f, r)
  OBVIOUS
<1>2. /\ G = [x \in DOMAIN G |-> G[x]] /\ DOMAIN G = DOMAIN fids \cup {f}
      /\ G[f] = r /\ \A x \in DOMAIN fids : x # f => G[x] = fids[x]
  BY <1>1 DEF Put
<1>3. Held9(r) = Held9(GetFid(f)) /\ (f \in DOMAIN fids => Held9(r) = Held9(fids[f]))
  BY DEF Held9, GetFid
<1>4. \A x \in DOMAIN fids : Held9(G[x]) = Held9(fids[x])
  BY <1>2, <1>3
<1>5. f \notin DOMAIN fids => Held9(G[f]) = {}
  BY <1>2, <1>3, GotFid
<1>6. UNION {Held9(G[x]) : x \in DOMAIN G} = UNION {Held9(fids[x]) : x \in DOMAIN fids}
  BY <1>2, <1>4, <1>5
<1>7. \A x, y \in DOMAIN G : x # y => Held9(G[x]) \cap Held9(G[y]) = {}
  BY <1>2, <1>4, <1>5 DEF FidsGood
<1>8. \A x \in DOMAIN G : IsFid(G[x])
  BY <1>2 DEF FidsGood
<1>9. FidsGood(G, D)
  <2>1. D \subseteq 1 .. MaxFds + 1 /\ Cardinality(D) <= MaxFds /\ D = UNION {Held9(fids[x]) : x \in DOMAIN fids}
    BY DEF FidsGood
  <2>2. D = UNION {Held9(G[x]) : x \in DOMAIN G}
    BY <1>6, <2>1, Zenon
  <2> QED BY <1>2, <1>7, <1>8, <2>1, <2>2, Zenon DEF FidsGood
<1> QED BY <1>1, <1>9

\* A descriptor below the limit is fresh.
LEMMA FreshIs ==
  ASSUME FidsGood(fids, fds), ~Full
  PROVE  /\ FreshFd \in 1 .. MaxFds + 1 /\ FreshFd \notin fds /\ FreshFd # 0
         /\ fds \cup {FreshFd} \subseteq 1 .. MaxFds + 1 /\ Cardinality(fds \cup {FreshFd}) <= MaxFds
<1> USE P9Assumption
<1>1. /\ IsFiniteSet(1 .. MaxFds + 1) /\ Cardinality(1 .. MaxFds + 1) = MaxFds + 1
  BY FS_Interval
<1>2. fds \subseteq 1 .. MaxFds + 1 /\ Cardinality(fds) <= MaxFds
  BY DEF FidsGood
<1>3. IsFiniteSet(fds) /\ Cardinality(fds) \in Nat
  BY <1>1, <1>2, FS_Subset, FS_CardinalityType
<1>4. \E d \in 1 .. MaxFds + 1 : d \notin fds
  <2>1. SUFFICES ASSUME 1 .. MaxFds + 1 \subseteq fds PROVE FALSE
    OBVIOUS
  <2>2. fds = 1 .. MaxFds + 1
    BY <1>2, <2>1
  <2> QED BY <1>1, <1>2, <2>2
<1>5. FreshFd \in 1 .. MaxFds + 1 /\ FreshFd \notin fds
  BY <1>4 DEF FreshFd
<1>6. Cardinality(fds \cup {FreshFd}) = Cardinality(fds) + 1
  BY <1>3, <1>5, FS_AddElement
<1> QED BY <1>2, <1>3, <1>5, <1>6 DEF Full

\* A fid that has nothing open gets the fresh descriptor.
LEMMA FdPut ==
  ASSUME FidsGood(fids, fds), ~Full, NEW f, Held9(GetFid(f)) = {}, NEW r, IsFid(r),
         Held9(r) = {FreshFd}
  PROVE  FidsGood(Put(fids, f, r), fds \cup {FreshFd})
<1>1. PICK G : G = Put(fids, f, r)
  OBVIOUS
<1>2. /\ G = [x \in DOMAIN G |-> G[x]] /\ DOMAIN G = DOMAIN fids \cup {f}
      /\ G[f] = r /\ \A x \in DOMAIN fids : x # f => G[x] = fids[x]
  BY <1>1 DEF Put
<1>3. f \in DOMAIN fids => Held9(fids[f]) = {}
  BY DEF GetFid
<1>4. FreshFd \notin fds /\ fds = UNION {Held9(fids[x]) : x \in DOMAIN fids}
  BY FreshIs DEF FidsGood
<1>5. UNION {Held9(G[x]) : x \in DOMAIN G} = fds \cup {FreshFd}
  BY <1>2, <1>3, <1>4
<1>6. \A x \in DOMAIN fids : x # f => Held9(G[x]) \subseteq fds
  BY <1>2, <1>4
<1>7. \A x, y \in DOMAIN G : x # y => Held9(G[x]) \cap Held9(G[y]) = {}
  <2> SUFFICES ASSUME NEW x \in DOMAIN G, NEW y \in DOMAIN G, x # y
               PROVE  Held9(G[x]) \cap Held9(G[y]) = {}
    OBVIOUS
  <2>1. CASE x = f
    BY <1>2, <1>4, <1>6, <2>1
  <2>2. CASE y = f
    BY <1>2, <1>4, <1>6, <2>2
  <2>3. CASE x # f /\ y # f
    BY <1>2, <2>3 DEF FidsGood
  <2> QED BY <2>1, <2>2, <2>3
<1>8. \A x \in DOMAIN G : IsFid(G[x])
  BY <1>2 DEF FidsGood
<1> QED BY <1>1, <1>2, <1>5, <1>7, <1>8, FreshIs DEF FidsGood

\* The steps of virtio_p9_walk, as far as the k-th name.
IsWalk(w, p, ns, k) ==
  /\ w = [i \in 0 .. k |-> w[i]]
  /\ w[0] = [path |-> p, on |-> TRUE]
  /\ \A i \in 1 .. k : w[i] = WalkName(w[i - 1], ns[i])

\* The recursion that defines Reach has a solution.
LEMMA WalksExist == ASSUME NEW p, NEW ns, NEW k \in Nat PROVE \E w : IsWalk(w, p, ns, k)
<1> DEFINE Bad == {m \in Nat : ~(\E w : IsWalk(w, p, ns, m))}
<1>1. SUFFICES ASSUME Bad # {} PROVE FALSE
  OBVIOUS
<1>2. PICK m \in Bad : \A n \in Bad : m <= n
  <2>1. Bad \in SUBSET Nat
    OBVIOUS
  <2> HIDE DEF Bad
  <2> QED BY <1>1, <2>1, LeastNat
<1>3. m # 0
  <2>1. SUFFICES ASSUME m = 0 PROVE FALSE
    OBVIOUS
  <2> DEFINE g == [i \in 0 .. 0 |-> [path |-> p, on |-> TRUE]]
  <2>2. IsWalk(g, p, ns, 0)
    BY DEF IsWalk
  <2> QED BY <1>2, <2>1, <2>2
<1>4. m \in Nat /\ m - 1 \in Nat
  BY <1>2, <1>3
<1>5. PICK w : IsWalk(w, p, ns, m - 1)
  BY <1>2, <1>4
<1> DEFINE g == [i \in 0 .. m |-> IF i < m THEN w[i] ELSE WalkName(w[m - 1], ns[m])]
<1>6. IsWalk(g, p, ns, m)
  <2>1. g = [i \in 0 .. m |-> g[i]]
    OBVIOUS
  <2>2. g[0] = [path |-> p, on |-> TRUE]
    <3>1. 0 \in 0 .. m /\ 0 < m
      BY <1>3, <1>4
    <3>2. w[0] = [path |-> p, on |-> TRUE]
      BY <1>5, Zenon DEF IsWalk
    <3> QED BY <3>1, <3>2
  <2>3. ASSUME NEW i \in 1 .. m PROVE g[i] = WalkName(g[i - 1], ns[i])
    <3>1. g[i - 1] = w[i - 1]
      BY <1>4
    <3>2. CASE i < m
      <4>1. \A j \in 1 .. m - 1 : w[j] = WalkName(w[j - 1], ns[j])
        BY <1>5, Zenon DEF IsWalk
      <4>2. i \in 1 .. m - 1 /\ g[i] = w[i]
        BY <1>4, <3>2
      <4> QED BY <3>1, <4>1, <4>2
    <3>3. CASE i = m
      <4>1. g[i] = WalkName(w[m - 1], ns[m])
        BY <1>4, <3>3
      <4> QED BY <3>1, <3>3, <4>1
    <3> QED BY <1>4, <3>2, <3>3
  <2> HIDE DEF g
  <2> QED BY <2>1, <2>2, <2>3 DEF IsWalk
<1> QED BY <1>2, <1>6

\* Reach is the last value of such a solution.
LEMMA ReachIs ==
  ASSUME NEW p, NEW ns, Len(ns) \in Nat
  PROVE  \E w : IsWalk(w, p, ns, Len(ns)) /\ Reach(p, ns) = w[Len(ns)]
<1> DEFINE Step(w) == [i \in 0 .. Len(ns) |-> IF i = 0 THEN [path |-> p, on |-> TRUE]
                                             ELSE WalkName(w[i - 1], ns[i])]
           h == CHOOSE w : w = Step(w)
<1>1. PICK w : IsWalk(w, p, ns, Len(ns))
  BY WalksExist
<1>2. w = Step(w)
  <2>1. ASSUME NEW i \in 0 .. Len(ns)
        PROVE  w[i] = IF i = 0 THEN [path |-> p, on |-> TRUE] ELSE WalkName(w[i - 1], ns[i])
    <3>1. w[0] = [path |-> p, on |-> TRUE] /\ \A j \in 1 .. Len(ns) : w[j] = WalkName(w[j - 1], ns[j])
      BY <1>1, Zenon DEF IsWalk
    <3>2. (i = 0 \/ i \in 1 .. Len(ns)) /\ (i \in 1 .. Len(ns) => i # 0)
      OBVIOUS
    <3> QED BY <3>1, <3>2, Zenon
  <2>2. w = [i \in 0 .. Len(ns) |-> w[i]]
    BY <1>1, Zenon DEF IsWalk
  <2> QED BY <2>1, <2>2
<1>3. h = Step(h)
  <2> HIDE DEF Step
  <2> QED BY <1>2
<1>4. Reach(p, ns) = h[Len(ns)]
  BY Zenon DEF Reach
<1> HIDE DEF h
<1>5. \A i \in 0 .. Len(ns) : h[i] = IF i = 0 THEN [path |-> p, on |-> TRUE] ELSE WalkName(h[i - 1], ns[i])
  BY <1>3, Zenon
<1>6. h = [i \in 0 .. Len(ns) |-> h[i]]
  <2>1. DOMAIN h = 0 .. Len(ns)
    BY <1>3, Zenon
  <2>2. h = [i \in DOMAIN h |-> h[i]]
    BY <1>3
  <2> HIDE DEF Step
  <2> QED BY <2>1, <2>2
<1> HIDE DEF Step
<1>7. IsWalk(h, p, ns, Len(ns))
  <2>1. h[0] = [path |-> p, on |-> TRUE]
    <3>1. 0 \in 0 .. Len(ns)
      OBVIOUS
    <3> QED BY <1>5, <3>1, Zenon
  <2>2. ASSUME NEW i \in 1 .. Len(ns) PROVE h[i] = WalkName(h[i - 1], ns[i])
    <3>1. i \in 0 .. Len(ns) /\ i # 0
      OBVIOUS
    <3> QED BY <1>5, <3>1, Zenon
  <2> QED BY <1>6, <2>1, <2>2, Zenon DEF IsWalk
<1> QED BY <1>4, <1>7

\* A walk from a path below the root ends below the root, wherever it stops: the
\* names it has not reached were never joined to the path.
LEMMA WalkInside ==
  ASSUME NEW p, ~PathIsIllegal(p), NEW ns, Len(ns) \in Nat
  PROVE  ~PathIsIllegal(Reach(p, ns).path)
<1>1. PICK w : IsWalk(w, p, ns, Len(ns)) /\ Reach(p, ns) = w[Len(ns)]
  BY ReachIs
<1> DEFINE Bad == {m \in 0 .. Len(ns) : PathIsIllegal(w[m].path)}
<1>2. SUFFICES ASSUME Bad # {} PROVE FALSE
  BY <1>1
<1>3. PICK m \in Bad : \A n \in Bad : m <= n
  <2>1. Bad \in SUBSET Nat
    OBVIOUS
  <2> HIDE DEF Bad
  <2> QED BY <1>2, <2>1, LeastNat
<1>4. m # 0
  BY <1>1, <1>3 DEF IsWalk
<1>5. m \in 1 .. Len(ns) /\ m - 1 \in 0 .. Len(ns)
  BY <1>3, <1>4
<1>6. ~PathIsIllegal(w[m - 1].path)
  BY <1>3, <1>5
<1>7. w[m] = WalkName(w[m - 1], ns[m])
  BY <1>1, <1>5, Zenon DEF IsWalk
<1>8. w[m].path = w[m - 1].path \/ ~PathIsIllegal(w[m].path)
  BY <1>7 DEF WalkName
<1> QED BY <1>3, <1>6, <1>8

\* A path that the server has checked does not stray.
LEMMA TouchesInside == ASSUME NEW p, Touches(p), strayed = FALSE PROVE strayed' = FALSE
BY DEF Touches, PathIsIllegal

\* The walks of the client are finite.
LEMMA WalksFinite == ASSUME NEW ns \in Walks PROVE Len(ns) \in Nat
BY DEF Walks

\* Attach keeps P9IInv.
LEMMA AttachKept == ASSUME P9IInv, NEW f, Attach(f) PROVE P9IInv'
<1>1. IsFid([GetFid(f) EXCEPT !.path = RootPath])
  <2>1. ~PathIsIllegal(<<>>)
    BY DEF PathIsIllegal
  <2> QED BY <2>1, GotFid DEF P9IInv, IsFid, RootPath
<1>2. PICK r : r = [GetFid(f) EXCEPT !.path = RootPath]
  OBVIOUS
<1>3. r.fd = GetFid(f).fd /\ r.dir = GetFid(f).dir
  BY <1>2, GotFid DEF P9IInv, IsFid
<1>4. FidsGood(fids', fds)
  BY <1>1, <1>2, <1>3, PathPut DEF P9IInv, Attach
<1>5. DOMAIN held' = DOMAIN held \cup {f} /\ DOMAIN fids' = DOMAIN fids \cup {f}
  BY DEF Attach, Put
<1> QED BY <1>4, <1>5 DEF P9IInv, Attach

\* Walk keeps P9IInv.
LEMMA WalkKept ==
  ASSUME P9IInv, NEW f, NEW g, NEW ns \in Walks, Walk(f, g, ns)
  PROVE  P9IInv'
<1>0. PICK to : to = Reach(GetFid(f).path, ns).path
  OBVIOUS
<1>1. ~PathIsIllegal(to)
  BY <1>0, WalksFinite, WalkInside, GotFid DEF P9IInv, IsFid
<1>2. PICK r : r = [GetFid(g) EXCEPT !.path = to]
  OBVIOUS
<1>3. IsFid(r) /\ r.fd = GetFid(g).fd /\ r.dir = GetFid(g).dir
  BY <1>1, <1>2, GotFid DEF P9IInv, IsFid
<1>4. fids' = Put(fids, g, r) /\ Touches(to) /\ fds' = fds
  BY <1>0, <1>2 DEF Walk
<1>5. FidsGood(fids', fds')
  BY <1>3, <1>4, PathPut DEF P9IInv
<1>6. DOMAIN fids' = DOMAIN fids \cup {g} /\ DOMAIN held' \subseteq DOMAIN held \cup {f, g}
  BY <1>4 DEF Walk, Put
<1>7. f \in DOMAIN held
  BY DEF Walk, Usable
<1> QED BY <1>4, <1>5, <1>6, <1>7, TouchesInside DEF P9IInv

\* Open keeps P9IInv.
LEMMA OpenKept == ASSUME P9IInv, NEW f, NEW deny, Open(f, deny) PROVE P9IInv'
<1> DEFINE p == GetFid(f).path
           ok == Exists(p) /\ ~deny /\ ~Full /\ fs[p].kind \in {"dir", "reg"}
<1>1. /\ f \in DOMAIN held /\ f \in DOMAIN fids /\ GetFid(f) = fids[f] /\ GetFid(f).fd = 0 /\ GetFid(f).dir = 0
      /\ FidsGood(fids, fds) /\ IsFid(GetFid(f)) /\ Touches(p) /\ held' = held
  BY GotFid DEF P9IInv, Open, Usable, Opened, GetFid
<1>2. CASE ~ok
  <2>1. fids' = Put(fids, f, GetFid(f)) /\ fds' = fds
    BY <1>2 DEF Open
  <2>2. FidsGood(fids', fds')
    BY <1>1, <2>1, PathPut
  <2>3. DOMAIN fids' = DOMAIN fids \cup {f}
    BY <2>1 DEF Put
  <2> QED BY <1>1, <2>2, <2>3, TouchesInside DEF P9IInv
<1>3. CASE ok
  <2>0. /\ fids' = (IF fs[p].kind = "dir" THEN [fids EXCEPT ![f].dir = FreshFd] ELSE [fids EXCEPT ![f].fd = FreshFd])
        /\ fds' = fds \cup {FreshFd} /\ ~Full
    BY <1>3 DEF Open
  <2>1. FreshFd # 0
    BY <1>1, <2>0, FreshIs
  <2>2. PICK r : r = (IF fs[p].kind = "dir" THEN [fids[f] EXCEPT !.dir = FreshFd] ELSE [fids[f] EXCEPT !.fd = FreshFd])
    OBVIOUS
  <2>3. IsFid(r) /\ Held9(r) = {FreshFd} /\ Held9(GetFid(f)) = {}
    BY <1>1, <2>1, <2>2 DEF IsFid, Held9
  <2>4. fids = [x \in DOMAIN fids |-> fids[x]]
    BY <1>1 DEF FidsGood
  <2>5. fids' = Put(fids, f, r)
    BY <1>1, <2>0, <2>2, <2>4 DEF Put
  <2>6. FidsGood(fids', fds')
    <3>1. FidsGood(Put(fids, f, r), fds \cup {FreshFd})
      BY <1>1, <2>0, <2>3, FdPut, Zenon
    <3> QED BY <2>0, <2>5, <3>1, Zenon
  <2>7. DOMAIN fids' = DOMAIN fids \cup {f}
    BY <2>5 DEF Put
  <2> QED BY <1>1, <2>6, <2>7, TouchesInside DEF P9IInv
<1> QED BY <1>2, <1>3

\* Create keeps P9IInv, whether the file is opened, refused or loses its chmod.
LEMMA CreateKept == ASSUME P9IInv, NEW f, NEW n, NEW deny, NEW late, Create(f, n, deny, late) PROVE P9IInv'
<1> DEFINE p == FullPath(f, n)
           ok == MayMake(p) /\ ~deny /\ ~Full
<1>1. /\ f \in DOMAIN held /\ f \in DOMAIN fids /\ GetFid(f).fd = 0 /\ GetFid(f).dir = 0
      /\ FidsGood(fids, fds) /\ IsFid(GetFid(f)) /\ Touches(p)
  BY GotFid DEF P9IInv, Create, Usable, Opened, GetFid
<1>2. /\ fids' = (IF PathIsIllegal(p) THEN Put(fids, f, GetFid(f))
                   ELSE Put(fids, f, [GetFid(f) EXCEPT !.path = p, !.fd = IF ok THEN FreshFd ELSE @]))
      /\ fds' = (IF ok /\ ~PathIsIllegal(p) THEN fds \cup {FreshFd} ELSE fds)
      /\ DOMAIN held' = DOMAIN held \cup {f}
  BY DEF Create, Put
<1> HIDE DEF p, ok
<1>3. FidsGood(fids', fds')
  <2>1. CASE PathIsIllegal(p)
    BY <1>1, <1>2, <2>1, PathPut
  <2>2. CASE ~PathIsIllegal(p) /\ ~ok
    <3>1. PICK r : r = [GetFid(f) EXCEPT !.path = p, !.fd = GetFid(f).fd]
      OBVIOUS
    <3>2. IsFid(r) /\ r.fd = GetFid(f).fd /\ r.dir = GetFid(f).dir
      BY <1>1, <2>2, <3>1 DEF IsFid
    <3>3. fids' = Put(fids, f, r) /\ fds' = fds
      BY <1>2, <2>2, <3>1
    <3> QED BY <1>1, <3>2, <3>3, PathPut
  <2>3. CASE ~PathIsIllegal(p) /\ ok
    <3>0. ~Full
      BY <2>3 DEF ok
    <3>1. FreshFd # 0
      BY <1>1, <3>0, FreshIs
    <3>2. PICK r : r = [GetFid(f) EXCEPT !.path = p, !.fd = FreshFd]
      OBVIOUS
    <3>3. IsFid(r) /\ Held9(r) = {FreshFd} /\ Held9(GetFid(f)) = {}
      BY <1>1, <2>3, <3>1, <3>2 DEF IsFid, Held9
    <3>4. fids' = Put(fids, f, r) /\ fds' = fds \cup {FreshFd}
      BY <1>2, <2>3, <3>2
    <3> QED BY <1>1, <3>0, <3>3, <3>4, FdPut
  <2> QED BY <2>1, <2>2, <2>3
<1>4. DOMAIN fids' = DOMAIN fids \cup {f}
  BY <1>2 DEF Put
<1> QED BY <1>1, <1>2, <1>3, <1>4, TouchesInside DEF P9IInv

\* A handler that at most enters its fid in the table keeps P9IInv.
LEMMA EntersKept ==
  ASSUME P9IInv, NEW f, fids' = fids \/ fids' = Put(fids, f, GetFid(f)), fds' = fds, held' = held,
         strayed' = FALSE
  PROVE  P9IInv'
<1>1. FidsGood(Put(fids, f, GetFid(f)), fds)
  BY PathPut, GotFid DEF P9IInv
<1>2. DOMAIN Put(fids, f, GetFid(f)) = DOMAIN fids \cup {f}
  BY DEF Put
<1> QED BY <1>1, <1>2 DEF P9IInv

\* An open fid's descriptor is open, so its handlers do not stray; they keep P9IInv.
LEMMA ByFdKept == ASSUME P9IInv, NEW f, NEW k \in {"fd", "dir"}, ByFd(f, k) PROVE P9IInv'
<1>1. GetFid(f)[k] \in Held9(GetFid(f))
  BY DEF ByFd, Held9
<1>2. GetFid(f)[k] \in fds
  BY <1>1, GotFid DEF P9IInv
<1> QED BY <1>2, EntersKept DEF ByFd, P9IInv

\* Clunk closes what its fid has open and nothing else.
LEMMA ClunkKept == ASSUME P9IInv, NEW f, Clunk(f) PROVE P9IInv'
<1>0. FidsGood(fids, fds) /\ f \in DOMAIN held /\ f \in DOMAIN fids
  BY DEF P9IInv, Clunk
<1>1. PICK G, D : G = Drop(fids, {f}) /\ D = fds \ Held9(fids[f])
  OBVIOUS
<1>2. /\ G = [x \in DOMAIN G |-> G[x]] /\ DOMAIN G = DOMAIN fids \ {f}
      /\ \A x \in DOMAIN G : G[x] = fids[x]
  BY <1>1 DEF Drop
<1>3. fds' = D /\ fids' = G /\ DOMAIN held' = DOMAIN held \ {f} /\ strayed' = strayed
  BY <1>0, <1>1 DEF Clunk, Drop, Closes, Held9, GetFid
<1>4. D = UNION {Held9(G[x]) : x \in DOMAIN G}
  <2>1. /\ fds = UNION {Held9(fids[x]) : x \in DOMAIN fids}
        /\ \A x, y \in DOMAIN fids : x # y => Held9(fids[x]) \cap Held9(fids[y]) = {}
    BY <1>0 DEF FidsGood
  <2>2. ASSUME NEW d \in D PROVE d \in UNION {Held9(G[x]) : x \in DOMAIN G}
    <3>1. PICK x \in DOMAIN fids : d \in Held9(fids[x])
      BY <1>1, <2>1, Zenon
    <3>2. x # f
      BY <1>1, <3>1
    <3> QED BY <1>2, <3>1, <3>2
  <2>3. ASSUME NEW x \in DOMAIN G, NEW d \in Held9(G[x]) PROVE d \in D
    <3>1. x \in DOMAIN fids /\ x # f /\ G[x] = fids[x]
      BY <1>2
    <3>2. d \in fds
      BY <2>1, <3>1, Zenon
    <3> QED BY <1>0, <1>1, <2>1, <3>1, <3>2
  <2> QED BY <2>2, <2>3, Zenon
<1>5. D \subseteq 1 .. MaxFds + 1 /\ Cardinality(D) <= MaxFds
  <2>1. fds \subseteq 1 .. MaxFds + 1 /\ Cardinality(fds) <= MaxFds /\ D \subseteq fds
    BY <1>0, <1>1 DEF FidsGood
  <2>2. IsFiniteSet(1 .. MaxFds + 1)
    BY P9Assumption, FS_Interval
  <2>3. IsFiniteSet(fds) /\ Cardinality(fds) \in Nat
    BY <2>1, <2>2, FS_Subset, FS_CardinalityType
  <2>4. Cardinality(D) <= Cardinality(fds) /\ Cardinality(D) \in Nat
    BY <2>1, <2>3, FS_Subset, FS_CardinalityType
  <2> QED BY <2>1, <2>3, <2>4, P9Assumption
<1>6. FidsGood(G, D)
  BY <1>0, <1>2, <1>4, <1>5 DEF FidsGood
<1> QED BY <1>3, <1>6, <1>2 DEF P9IInv

\* No fids and no descriptors agree.
LEMMA NoFids == FidsGood(<<>>, {})
<1>1. Cardinality({}) = 0
  BY FS_EmptySet
<1> QED BY <1>1, P9Assumption DEF FidsGood

\* A reset closes every descriptor.
LEMMA ResetKept9 == ASSUME P9IInv, Reset9p PROVE P9IInv'
<1>1. fds = UNION {Held9(fids[f]) : f \in DOMAIN fids}
  BY DEF P9IInv, FidsGood
<1>2. fds' = {}
  BY <1>1 DEF Reset9p, Closes, Held9
<1> QED BY <1>2, NoFids DEF P9IInv, Reset9p

\* Every request, or a stutter, keeps P9IInv.
LEMMA P9Kept == ASSUME P9IInv, [P9Next]_p9Vars PROVE P9IInv'
<1>0. strayed = FALSE
  BY DEF P9IInv
<1>1. CASE UNCHANGED p9Vars
  BY <1>1 DEF P9IInv, p9Vars
<1>2. CASE \E f \in P9Fids : Attach(f) \/ Clunk(f)
  BY <1>2, AttachKept, ClunkKept
<1>3. CASE \E f \in P9Fids : GetAttr(f) \/ SetAttr(f) \/ StatFs(f) \/ ReadLink(f)
  <2>1. PICK f \in P9Fids : ByPath(f)
    BY <1>3 DEF GetAttr, SetAttr, StatFs, ReadLink
  <2> QED BY <1>0, <2>1, EntersKept, TouchesInside DEF ByPath
<1>4. CASE \E f \in P9Fids : ReadFid(f) \/ WriteFid(f) \/ FSync(f) \/ ReadDir(f)
  BY <1>4, ByFdKept DEF ReadFid, WriteFid, FSync, ReadDir
<1>5. CASE \E f, g \in P9Fids, ns \in Walks : Walk(f, g, ns)
  BY <1>5, WalkKept
<1>6. CASE \E f \in P9Fids, b \in BOOLEAN : Open(f, b)
  BY <1>6, OpenKept
<1>7. CASE \E f \in P9Fids, n \in P9Names, b, c \in BOOLEAN : Create(f, n, b, c)
  BY <1>7, CreateKept
<1>8. CASE \E f \in P9Fids, n \in P9Names, b \in BOOLEAN : MkDir9(f, n, b) \/ MkNod(f, n, b) \/ Symlink(f, n, b)
  <2>1. \E f \in P9Fids, n \in P9Names, b \in BOOLEAN : \E k : Make(f, n, k, b)
    BY <1>8 DEF MkDir9, MkNod, Symlink
  <2> QED BY <1>0, <2>1, EntersKept, TouchesInside DEF Make
<1>9. CASE \E f, d \in P9Fids, n \in P9Names : Link(f, d, n)
  BY <1>0, <1>9, EntersKept, TouchesInside DEF Link
<1>10. CASE \/ \E f, d \in P9Fids, n \in P9Names : Rename(f, d, n)
            \/ \E f, d \in P9Fids, n, m \in P9Names : RenameAt(f, n, d, m)
  <2>1. PICK p, q : RenamePath(p, q)
    BY <1>10 DEF Rename, RenameAt
  <2>2. strayed' = FALSE
    BY <1>0, <2>1, TouchesInside DEF RenamePath
  <2> QED BY <2>1, <2>2, EntersKept DEF RenamePath
<1>11. CASE \/ \E f \in P9Fids : Remove(f)
            \/ \E f \in P9Fids, n \in P9Names : UnlinkAt(f, n)
  <2>1. PICK p : RemovePath(p)
    BY <1>11 DEF Remove, UnlinkAt
  <2> QED BY <1>0, <2>1, EntersKept, TouchesInside DEF RemovePath
<1>12. CASE Reset9p
  BY <1>12, ResetKept9
<1>13. CASE \E p \in DOMAIN fs : HostRemove(p)
  BY <1>0, <1>13, EntersKept DEF HostRemove
<1> QED BY <1>1, <1>2, <1>3, <1>4, <1>5, <1>6, <1>7, <1>8, <1>9, <1>10, <1>11, <1>12, <1>13 DEF P9Next

\* The 9p server (virtio/9p.c): whatever requests fail half way, the descriptors that are
\* open are those of the fids, each of one fid, and no request leaves the exported
\* directory, for any number of fids and names and walks of up to two names.
THEOREM P9Holds == P9Spec => []P9Inv
<1>1. P9Init => P9IInv
  <2>1. DOMAIN <<>> = {}
    OBVIOUS
  <2> QED BY <2>1, NoFids DEF P9Init, P9IInv
<1>2. P9IInv /\ [P9Next]_p9Vars => P9IInv'
  BY P9Kept
<1>3. P9IInv => P9Inv
  <2>1. P9IInv => FdsAccounted
    BY DEF P9IInv, FidsGood, Held9, FdsAccounted
  <2>2. P9IInv => InsideRoot
    BY DEF P9IInv, FidsGood, IsFid, InsideRoot, PathIsIllegal
  <2> QED BY <2>1, <2>2 DEF P9Inv
<1> QED BY <1>1, <1>2, <1>3, PTL DEF P9Spec
-----------------------------------------------------------------------------
(* Transfers                                                               *)

\* The sizes that get_iov_size adds up, as far as the k-th element.
IsSizes(s, v, k) ==
  /\ s = [j \in 0 .. k |-> s[j]]
  /\ s[0] = 0
  /\ \A j \in 1 .. k : s[j] = s[j - 1] + v[j]

\* The recursion that defines SizeTo has a solution.
LEMMA SizesExist == ASSUME NEW v, NEW k \in Nat PROVE \E s : IsSizes(s, v, k)
<1> DEFINE Bad == {m \in Nat : ~(\E s : IsSizes(s, v, m))}
<1>1. SUFFICES ASSUME Bad # {} PROVE FALSE
  OBVIOUS
<1>2. PICK m \in Bad : \A n \in Bad : m <= n
  <2>1. Bad \in SUBSET Nat
    OBVIOUS
  <2> HIDE DEF Bad
  <2> QED BY <1>1, <2>1, LeastNat
<1>3. m # 0
  <2>1. SUFFICES ASSUME m = 0 PROVE FALSE
    OBVIOUS
  <2> DEFINE g == [i \in 0 .. 0 |-> 0]
  <2>2. IsSizes(g, v, 0)
    BY DEF IsSizes
  <2> QED BY <1>2, <2>1, <2>2
<1>4. m \in Nat /\ m - 1 \in Nat
  BY <1>2, <1>3
<1>5. PICK s : IsSizes(s, v, m - 1)
  BY <1>2, <1>4
<1> DEFINE g == [i \in 0 .. m |-> IF i < m THEN s[i] ELSE s[m - 1] + v[m]]
<1>6. IsSizes(g, v, m)
  <2>1. g = [i \in 0 .. m |-> g[i]]
    OBVIOUS
  <2>2. g[0] = 0
    <3>1. 0 \in 0 .. m /\ 0 < m
      BY <1>3, <1>4
    <3>2. s[0] = 0
      BY <1>5, Zenon DEF IsSizes
    <3> QED BY <3>1, <3>2
  <2>3. ASSUME NEW i \in 1 .. m PROVE g[i] = g[i - 1] + v[i]
    <3>1. g[i - 1] = s[i - 1]
      BY <1>4
    <3>2. CASE i < m
      <4>1. \A j \in 1 .. m - 1 : s[j] = s[j - 1] + v[j]
        BY <1>5, Zenon DEF IsSizes
      <4>2. i \in 1 .. m - 1 /\ g[i] = s[i]
        BY <1>4, <3>2
      <4> QED BY <3>1, <4>1, <4>2
    <3>3. CASE i = m
      <4>1. g[i] = s[m - 1] + v[m]
        BY <1>4, <3>3
      <4> QED BY <3>1, <3>3, <4>1
    <3> QED BY <1>4, <3>2, <3>3
  <2> HIDE DEF g
  <2> QED BY <2>1, <2>2, <2>3 DEF IsSizes
<1> QED BY <1>2, <1>6

\* SizeTo is such a solution.
LEMMA SizesAre ==
  ASSUME Len(iov) \in Nat
  PROVE  \E s : IsSizes(s, iov, Len(iov)) /\ \A i : SizeTo(i) = s[i]
<1> DEFINE Step(s) == [j \in 0 .. Len(iov) |-> IF j = 0 THEN 0 ELSE s[j - 1] + iov[j]]
           h == CHOOSE s : s = Step(s)
<1>1. PICK s : IsSizes(s, iov, Len(iov))
  BY SizesExist
<1>2. s = Step(s)
  <2>1. ASSUME NEW j \in 0 .. Len(iov)
        PROVE  s[j] = IF j = 0 THEN 0 ELSE s[j - 1] + iov[j]
    <3>1. s[0] = 0 /\ \A i \in 1 .. Len(iov) : s[i] = s[i - 1] + iov[i]
      BY <1>1, Zenon DEF IsSizes
    <3>2. (j = 0 \/ j \in 1 .. Len(iov)) /\ (j \in 1 .. Len(iov) => j # 0)
      OBVIOUS
    <3> QED BY <3>1, <3>2, Zenon
  <2>2. s = [j \in 0 .. Len(iov) |-> s[j]]
    BY <1>1, Zenon DEF IsSizes
  <2> QED BY <2>1, <2>2
<1>3. h = Step(h)
  <2> HIDE DEF Step
  <2> QED BY <1>2
<1>4. \A i : SizeTo(i) = h[i]
  BY Zenon DEF SizeTo
<1> HIDE DEF h
<1>5. \A j \in 0 .. Len(iov) : h[j] = IF j = 0 THEN 0 ELSE h[j - 1] + iov[j]
  BY <1>3, Zenon
<1>6. h = [j \in 0 .. Len(iov) |-> h[j]]
  <2>1. DOMAIN h = 0 .. Len(iov)
    BY <1>3, Zenon
  <2>2. h = [j \in DOMAIN h |-> h[j]]
    BY <1>3
  <2> HIDE DEF Step
  <2> QED BY <2>1, <2>2
<1> HIDE DEF Step
<1>7. IsSizes(h, iov, Len(iov))
  <2>1. h[0] = 0
    <3>1. 0 \in 0 .. Len(iov)
      OBVIOUS
    <3> QED BY <1>5, <3>1, Zenon
  <2>2. ASSUME NEW j \in 1 .. Len(iov) PROVE h[j] = h[j - 1] + iov[j]
    <3>1. j \in 0 .. Len(iov) /\ j # 0
      OBVIOUS
    <3> QED BY <1>5, <3>1, Zenon
  <2> QED BY <1>6, <2>1, <2>2, Zenon DEF IsSizes
<1> QED BY <1>4, <1>7

\* The bytes before element i + 1 are those before element i and its own.
LEMMA SizesAdd ==
  ASSUME iov \in Seq(Nat)
  PROVE  /\ SizeTo(0) = 0
         /\ \A i \in 1 .. Len(iov) : SizeTo(i) = SizeTo(i - 1) + iov[i] /\ iov[i] \in Nat
         /\ \A i \in 0 .. Len(iov) : SizeTo(i) \in Nat
<1>1. Len(iov) \in Nat /\ \A i \in 1 .. Len(iov) : iov[i] \in Nat
  OBVIOUS
<1>2. PICK s : IsSizes(s, iov, Len(iov)) /\ \A i : SizeTo(i) = s[i]
  BY <1>1, SizesAre
<1>3. s[0] = 0 /\ \A i \in 1 .. Len(iov) : s[i] = s[i - 1] + iov[i]
  BY <1>2 DEF IsSizes
<1>4. \A i \in 0 .. Len(iov) : s[i] \in Nat
  <2> DEFINE Bad == {m \in 0 .. Len(iov) : s[m] \notin Nat}
  <2>1. SUFFICES ASSUME Bad # {} PROVE FALSE
    OBVIOUS
  <2>2. PICK m \in Bad : \A n \in Bad : m <= n
    <3>1. Bad \in SUBSET Nat
      BY <1>1
    <3> HIDE DEF Bad
    <3> QED BY <2>1, <3>1, LeastNat
  <2>3. m # 0
    BY <1>3, <2>2
  <2>4. m \in 1 .. Len(iov) /\ m - 1 \in 0 .. Len(iov)
    BY <1>1, <2>2, <2>3
  <2>5. s[m - 1] \in Nat
    BY <2>2, <2>4
  <2>6. s[m] = s[m - 1] + iov[m] /\ iov[m] \in Nat
    BY <1>1, <1>3, <2>4, Zenon
  <2>7. s[m] \in Nat
    BY <2>5, <2>6
  <2> QED BY <2>2, <2>7
<1> QED BY <1>1, <1>2, <1>3, <1>4

\* More elements have no fewer bytes.
LEMMA SizesOrdered ==
  ASSUME iov \in Seq(Nat), NEW i \in 0 .. Len(iov), NEW j \in i .. Len(iov)
  PROVE  SizeTo(i) <= SizeTo(j)
<1>1. Len(iov) \in Nat
  OBVIOUS
<1> DEFINE Bad == {m \in i .. Len(iov) : ~(SizeTo(i) <= SizeTo(m))}
<1>2. SUFFICES ASSUME Bad # {} PROVE FALSE
  OBVIOUS
<1>3. PICK m \in Bad : \A n \in Bad : m <= n
  <2>1. Bad \in SUBSET Nat
    BY <1>1
  <2> HIDE DEF Bad
  <2> QED BY <1>2, <2>1, LeastNat
<1>4. m # i
  BY <1>3, SizesAdd
<1>5. m \in 1 .. Len(iov) /\ m - 1 \in i .. Len(iov) /\ m - 1 \in 0 .. Len(iov)
  BY <1>1, <1>3, <1>4
<1>6. SizeTo(i) <= SizeTo(m - 1)
  BY <1>3, <1>5
<1>7. /\ SizeTo(m) = SizeTo(m - 1) + iov[m] /\ iov[m] \in Nat
      /\ SizeTo(i) \in Nat /\ SizeTo(m - 1) \in Nat
  BY <1>5, SizesAdd, Zenon
<1>8. SizeTo(i) <= SizeTo(m)
  BY <1>6, <1>7
<1> QED BY <1>3, <1>8

\* shift_iovec stops at an element, with no more bytes before it than were moved.
LEMMA CoveredIs ==
  ASSUME iov \in Seq(Nat), cur \in 1 .. Len(iov) + 1, NEW n \in Nat
  PROVE  Covered(n) \in cur .. Len(iov) + 1 /\ SizeTo(Covered(n) - 1) - SizeTo(cur - 1) <= n
<1>1. Len(iov) \in Nat /\ cur - 1 \in 0 .. Len(iov)
  OBVIOUS
<1> DEFINE S == {i \in cur .. Len(iov) + 1 : i <= Len(iov) => SizeTo(i) - SizeTo(cur - 1) > n}
<1>2. Len(iov) + 1 \in S
  BY <1>1
<1>3. PICK x \in S : \A y \in S : x <= y
  <2>1. S \in SUBSET Nat
    BY <1>1
  <2> HIDE DEF S
  <2> QED BY <1>2, <2>1, LeastNat
<1>4. SizeTo(x - 1) - SizeTo(cur - 1) <= n
  <2>1. CASE x = cur
    <3>1. SizeTo(cur - 1) \in Nat /\ SizeTo(x - 1) = SizeTo(cur - 1)
      BY <1>1, <2>1, SizesAdd
    <3> QED BY <3>1
  <2>2. CASE x # cur
    <3>1. x - 1 \in cur .. Len(iov) + 1 /\ x - 1 <= Len(iov) /\ x - 1 \in 0 .. Len(iov)
      BY <1>1, <1>3, <2>2
    <3>2. ~(SizeTo(x - 1) - SizeTo(cur - 1) > n)
      BY <1>1, <1>3, <3>1
    <3>3. SizeTo(cur - 1) \in Nat /\ SizeTo(x - 1) \in Nat
      BY <1>1, <3>1, SizesAdd, Zenon
    <3> QED BY <3>2, <3>3
  <2> QED BY <2>1, <2>2
<1> DEFINE P(i) == /\ SizeTo(i - 1) - SizeTo(cur - 1) <= n
                   /\ i <= Len(iov) => SizeTo(i) - SizeTo(cur - 1) > n
<1>5. x \in cur .. Len(iov) + 1 /\ P(x)
  BY <1>3, <1>4
<1>6. Covered(n) = CHOOSE i \in cur .. Len(iov) + 1 : P(i)
  BY DEF Covered
<1>7. \E i \in cur .. Len(iov) + 1 : P(i)
  <2> HIDE DEF P
  <2> QED BY <1>5
<1>8. Covered(n) \in cur .. Len(iov) + 1 /\ P(Covered(n))
  <2> HIDE DEF P
  <2> QED BY <1>6, <1>7, Zenon
<1> QED BY <1>8

\* The iovec is fixed, and with it the sizes.
LEMMA SizesSame == ASSUME iov' = iov PROVE Asked' = Asked /\ \A i : SizeTo(i)' = SizeTo(i)
<1>1. \A i : SizeTo(i)' = SizeTo(i)
  BY Zenon DEF SizeTo
<1> QED BY <1>1 DEF Asked

\* The turns of the copy loops, as far as the k-th element.
IsCopy(c, off, ln, k) ==
  /\ c = [i \in 0 .. k |-> c[i]]
  /\ c[0] = [off |-> off, len |-> ln, out |-> <<>>]
  /\ \A i \in 1 .. k : c[i] = CopyTurn(c[i - 1], i)

\* The recursion that defines CopyEnd has a solution.
LEMMA CopiesExist == ASSUME NEW off, NEW ln, NEW k \in Nat PROVE \E c : IsCopy(c, off, ln, k)
<1> DEFINE Bad == {m \in Nat : ~(\E c : IsCopy(c, off, ln, m))}
<1>1. SUFFICES ASSUME Bad # {} PROVE FALSE
  OBVIOUS
<1>2. PICK m \in Bad : \A n \in Bad : m <= n
  <2>1. Bad \in SUBSET Nat
    OBVIOUS
  <2> HIDE DEF Bad
  <2> QED BY <1>1, <2>1, LeastNat
<1>3. m # 0
  <2>1. SUFFICES ASSUME m = 0 PROVE FALSE
    OBVIOUS
  <2> DEFINE g == [i \in 0 .. 0 |-> [off |-> off, len |-> ln, out |-> <<>>]]
  <2>2. IsCopy(g, off, ln, 0)
    BY DEF IsCopy
  <2> QED BY <1>2, <2>1, <2>2
<1>4. m \in Nat /\ m - 1 \in Nat
  BY <1>2, <1>3
<1>5. PICK c : IsCopy(c, off, ln, m - 1)
  BY <1>2, <1>4
<1> DEFINE g == [i \in 0 .. m |-> IF i < m THEN c[i] ELSE CopyTurn(c[m - 1], m)]
<1>6. IsCopy(g, off, ln, m)
  <2>1. g = [i \in 0 .. m |-> g[i]]
    OBVIOUS
  <2>2. g[0] = [off |-> off, len |-> ln, out |-> <<>>]
    <3>1. 0 \in 0 .. m /\ 0 < m
      BY <1>3, <1>4
    <3>2. c[0] = [off |-> off, len |-> ln, out |-> <<>>]
      BY <1>5, Zenon DEF IsCopy
    <3> QED BY <3>1, <3>2
  <2>3. ASSUME NEW i \in 1 .. m PROVE g[i] = CopyTurn(g[i - 1], i)
    <3>1. g[i - 1] = c[i - 1]
      BY <1>4
    <3>2. CASE i < m
      <4>1. \A j \in 1 .. m - 1 : c[j] = CopyTurn(c[j - 1], j)
        BY <1>5, Zenon DEF IsCopy
      <4>2. i \in 1 .. m - 1 /\ g[i] = c[i]
        BY <1>4, <3>2
      <4> QED BY <3>1, <4>1, <4>2
    <3>3. CASE i = m
      <4>1. g[i] = CopyTurn(c[m - 1], m)
        BY <1>4, <3>3
      <4> QED BY <3>1, <3>3, <4>1
    <3> QED BY <1>4, <3>2, <3>3
  <2> HIDE DEF g
  <2> QED BY <2>1, <2>2, <2>3 DEF IsCopy
<1> QED BY <1>2, <1>6

\* CopyEnd is the end of such a solution.
LEMMA CopyEndIs ==
  ASSUME NEW off, NEW ln, Len(iov) \in Nat
  PROVE  \E c : IsCopy(c, off, ln, Len(iov)) /\ CopyEnd(off, ln) = c[Len(iov)].out
<1> DEFINE Step(c) == [i \in 0 .. Len(iov) |-> IF i = 0 THEN [off |-> off, len |-> ln, out |-> <<>>]
                                              ELSE CopyTurn(c[i - 1], i)]
           h == CHOOSE c : c = Step(c)
<1>1. PICK c : IsCopy(c, off, ln, Len(iov))
  BY CopiesExist
<1>2. c = Step(c)
  <2>1. ASSUME NEW i \in 0 .. Len(iov)
        PROVE  c[i] = IF i = 0 THEN [off |-> off, len |-> ln, out |-> <<>>] ELSE CopyTurn(c[i - 1], i)
    <3>1. c[0] = [off |-> off, len |-> ln, out |-> <<>>] /\ \A j \in 1 .. Len(iov) : c[j] = CopyTurn(c[j - 1], j)
      BY <1>1, Zenon DEF IsCopy
    <3>2. (i = 0 \/ i \in 1 .. Len(iov)) /\ (i \in 1 .. Len(iov) => i # 0)
      OBVIOUS
    <3> QED BY <3>1, <3>2, Zenon
  <2>2. c = [i \in 0 .. Len(iov) |-> c[i]]
    BY <1>1, Zenon DEF IsCopy
  <2> QED BY <2>1, <2>2
<1>3. h = Step(h)
  <2> HIDE DEF Step
  <2> QED BY <1>2
<1>4. CopyEnd(off, ln) = h[Len(iov)].out
  BY Zenon DEF CopyEnd
<1> HIDE DEF h
<1>5. \A i \in 0 .. Len(iov) : h[i] = IF i = 0 THEN [off |-> off, len |-> ln, out |-> <<>>] ELSE CopyTurn(h[i - 1], i)
  BY <1>3, Zenon
<1>6. h = [i \in 0 .. Len(iov) |-> h[i]]
  <2>1. DOMAIN h = 0 .. Len(iov)
    BY <1>3, Zenon
  <2>2. h = [i \in DOMAIN h |-> h[i]]
    BY <1>3
  <2> HIDE DEF Step
  <2> QED BY <2>1, <2>2
<1> HIDE DEF Step
<1>7. IsCopy(h, off, ln, Len(iov))
  <2>1. h[0] = [off |-> off, len |-> ln, out |-> <<>>]
    <3>1. 0 \in 0 .. Len(iov)
      OBVIOUS
    <3> QED BY <1>5, <3>1, Zenon
  <2>2. ASSUME NEW i \in 1 .. Len(iov) PROVE h[i] = CopyTurn(h[i - 1], i)
    <3>1. i \in 0 .. Len(iov) /\ i # 0
      OBVIOUS
    <3> QED BY <1>5, <3>1, Zenon
  <2> QED BY <1>6, <2>1, <2>2, Zenon DEF IsCopy
<1> QED BY <1>4, <1>7

\* The n bytes from byte s on, in order.
Run(s, n) == [k \in 1 .. n |-> s + k - 1]

\* What a run is.
LEMMA RunIs ==
  ASSUME NEW s \in Nat, NEW n \in Nat
  PROVE  Run(s, n) \in Seq(Int) /\ Len(Run(s, n)) = n /\ \A k \in 1 .. n : Run(s, n)[k] = s + k - 1
BY DEF Run

\* Two runs that meet are one.
LEMMA RunJoin ==
  ASSUME NEW s \in Nat, NEW a \in Nat, NEW b \in Nat
  PROVE  Run(s, a) \o Run(s + a, b) = Run(s, a + b)
<1> DEFINE u == Run(s, a)
           v == Run(s + a, b)
           w == Run(s, a + b)
<1>1. u \in Seq(Int) /\ Len(u) = a /\ \A k \in 1 .. a : u[k] = s + k - 1
  BY RunIs
<1>2. v \in Seq(Int) /\ Len(v) = b /\ \A k \in 1 .. b : v[k] = s + a + k - 1
  <2>1. s + a \in Nat
    OBVIOUS
  <2> QED BY <2>1, RunIs
<1>3. w \in Seq(Int) /\ Len(w) = a + b /\ \A k \in 1 .. a + b : w[k] = s + k - 1
  <2>1. a + b \in Nat
    OBVIOUS
  <2> QED BY <2>1, RunIs
<1> HIDE DEF u, v, w
<1>4. /\ u \o v \in Seq(Int) /\ Len(u \o v) = a + b
      /\ \A k \in 1 .. a + b : (u \o v)[k] = IF k <= a THEN u[k] ELSE v[k - a]
  BY <1>1, <1>2, ConcatProperties
<1>5. ASSUME NEW k \in 1 .. a + b PROVE (u \o v)[k] = w[k]
  <2>0. w[k] = s + k - 1 /\ (u \o v)[k] = IF k <= a THEN u[k] ELSE v[k - a]
    BY <1>3, <1>4
  <2>1. CASE k <= a
    <3>1. k \in 1 .. a
      BY <2>1
    <3> QED BY <1>1, <2>0, <2>1, <3>1
  <2>2. CASE ~(k <= a)
    <3>1. k - a \in 1 .. b
      BY <2>2
    <3>2. v[k - a] = s + a + (k - a) - 1
      BY <1>2, <3>1
    <3> QED BY <2>0, <2>2, <3>2
  <2> QED BY <2>1, <2>2
<1>6. u \o v = w
  BY <1>3, <1>4, <1>5, SeqEqual
<1> QED BY <1>6 DEF u, v, w

\* What the loop has done once it is past the first B bytes of the iovec.
Copied(r, off, ln, B) ==
  IF B <= off THEN r = [off |-> off - B, len |-> ln, out |-> Run(off, 0)]
  ELSE r = [off |-> 0, len |-> ln - Least(ln, B - off), out |-> Run(off, Least(ln, B - off))]

\* One turn of a copy loop.
LEMMA CopyTurns ==
  ASSUME NEW off \in Nat, NEW ln \in Nat \ {0}, NEW B \in Nat, NEW i,
         iov[i] \in Nat, SizeTo(i - 1) = B, NEW c, Copied(c, off, ln, B)
  PROVE  Copied(CopyTurn(c, i), off, ln, B + iov[i])
<1>j. \A s, a, b \in Nat : Run(s, a) \o Run(s + a, b) = Run(s, a + b)
  BY RunJoin
<1> DEFINE v == iov[i]
           n == Least(v - c.off, c.len)
<1>0. v \in Nat
  OBVIOUS
<1>1. CASE B <= off
  <2>1. c = [off |-> off - B, len |-> ln, out |-> Run(off, 0)]
    BY <1>1 DEF Copied
  <2>2. c.off = off - B /\ c.len = ln /\ c.out = Run(off, 0)
    BY <2>1
  <2>3. CASE off - B >= v
    <3>1. CopyTurn(c, i) = [off |-> off - B - v, len |-> ln, out |-> Run(off, 0)]
      BY <2>1, <2>2, <2>3 DEF CopyTurn, Skip
    <3>2. B + v <= off /\ off - B - v = off - (B + v)
      BY <1>0, <2>3
    <3> QED BY <3>1, <3>2 DEF Copied
  <2>4. CASE ~(off - B >= v)
    <3>1. CopyTurn(c, i) = [off |-> 0, len |-> ln - n, out |-> Run(off, 0) \o FirstBytes(i, off - B, n)]
      BY <2>1, <2>2, <2>4 DEF CopyTurn, Skip
    <3>2. ~(B + v <= off) /\ n = Least(ln, B + v - off) /\ n \in Nat
      BY <1>0, <1>1, <2>2, <2>4 DEF Least
    <3> HIDE DEF n
    <3>3. FirstBytes(i, off - B, n) = Run(off + 0, n)
      BY <3>2 DEF FirstBytes, Run
    <3>4. 0 \in Nat /\ 0 + n = n
      BY <3>2
    <3>5. Run(off, 0) \o Run(off + 0, n) = Run(off, 0 + n)
      <4>1. off \in Nat /\ 0 \in Nat /\ n \in Nat
        BY <3>2
      <4> QED BY <1>j, <4>1, Zenon
    <3>6. CopyTurn(c, i) = [off |-> 0, len |-> ln - n, out |-> Run(off, n)]
      BY <3>1, <3>3, <3>4, <3>5, Zenon
    <3>7. CopyTurn(c, i) = [off |-> 0, len |-> ln - Least(ln, B + v - off), out |-> Run(off, Least(ln, B + v - off))]
      BY <3>2, <3>6
    <3> QED BY <3>2, <3>7 DEF Copied
  <2> QED BY <2>3, <2>4
<1>2. CASE ~(B <= off)
  <2> DEFINE a == Least(ln, B - off)
  <2>1. c = [off |-> 0, len |-> ln - a, out |-> Run(off, a)]
    BY <1>2 DEF Copied
  <2>2. c.off = 0 /\ c.len = ln - a /\ c.out = Run(off, a)
    BY <2>1
  <2>3. ~(B + v <= off) /\ a \in Nat /\ (ln - a = 0 \/ v = 0 => Least(ln, B + v - off) = a)
    BY <1>0, <1>2 DEF Least
  <2>4. CASE ln - a = 0
    <3>1. CopyTurn(c, i) = c
      BY <2>2, <2>4 DEF CopyTurn
    <3> QED BY <2>1, <2>3, <2>4, <3>1 DEF Copied
  <2>5. CASE ln - a # 0 /\ v = 0
    <3>1. CopyTurn(c, i) = c
      BY <2>1, <2>2, <2>5 DEF CopyTurn, Skip
    <3> QED BY <2>1, <2>3, <2>5, <3>1 DEF Copied
  <2>6. CASE ln - a # 0 /\ v # 0
    <3>1. CopyTurn(c, i) = [off |-> 0, len |-> ln - a - n, out |-> Run(off, a) \o FirstBytes(i, 0, n)]
      BY <1>0, <2>1, <2>2, <2>6 DEF CopyTurn, Skip
    <3>2. a = B - off /\ n = Least(v, ln - a) /\ n \in Nat /\ Least(ln, B + v - off) = a + n
      BY <1>0, <1>2, <2>2, <2>6 DEF Least
    <3> HIDE DEF n, a
    <3>3. FirstBytes(i, 0, n) = Run(off + a, n)
      BY <2>3, <3>2 DEF FirstBytes, Run
    <3>4. Run(off, a) \o Run(off + a, n) = Run(off, a + n)
      <4>1. off \in Nat /\ a \in Nat /\ n \in Nat
        BY <2>3, <3>2
      <4> QED BY <1>j, <4>1, Zenon
    <3>5. ln - a - n = ln - (a + n)
      BY <2>3, <3>2
    <3>6. CopyTurn(c, i) = [off |-> 0, len |-> ln - Least(ln, B + v - off), out |-> Run(off, Least(ln, B + v - off))]
      BY <3>1, <3>2, <3>3, <3>4, <3>5
    <3> QED BY <2>3, <3>6 DEF Copied
  <2> QED BY <2>4, <2>5, <2>6
<1> QED BY <1>1, <1>2

\* A copy touches the bytes of its range, in order, as far as the iovec goes.
LEMMA CopyRuns ==
  ASSUME iov \in Seq(Nat), NEW off \in Nat, NEW ln \in Nat \ {0}, off + ln <= Asked \/ off = 0
  PROVE  CopyEnd(off, ln) = Run(off, Least(ln, Asked)) /\ Asked \in Nat
<1>1. Len(iov) \in Nat
  OBVIOUS
<1>2. PICK c : IsCopy(c, off, ln, Len(iov)) /\ CopyEnd(off, ln) = c[Len(iov)].out
  BY <1>1, CopyEndIs
<1>3. c[0] = [off |-> off, len |-> ln, out |-> <<>>] /\ \A i \in 1 .. Len(iov) : c[i] = CopyTurn(c[i - 1], i)
  BY <1>2 DEF IsCopy
<1> DEFINE Bad == {m \in 0 .. Len(iov) : ~Copied(c[m], off, ln, SizeTo(m))}
<1>4. Bad = {}
  <2>1. SUFFICES ASSUME Bad # {} PROVE FALSE
    OBVIOUS
  <2>2. PICK m \in Bad : \A n \in Bad : m <= n
    <3>1. Bad \in SUBSET Nat
      BY <1>1
    <3> HIDE DEF Bad
    <3> QED BY <2>1, <3>1, LeastNat
  <2>3. m # 0
    <3>1. SizeTo(0) = 0
      BY SizesAdd
    <3>2. <<>> = Run(off, 0)
      BY DEF Run
    <3>3. 0 <= off /\ off - 0 = off
      OBVIOUS
    <3>4. Copied(c[0], off, ln, 0)
      BY <1>3, <3>2, <3>3 DEF Copied
    <3> QED BY <2>2, <3>1, <3>4
  <2>4. m \in 1 .. Len(iov) /\ m - 1 \in 0 .. Len(iov) /\ m - 1 < m
    BY <1>1, <2>2, <2>3
  <2>5. Copied(c[m - 1], off, ln, SizeTo(m - 1))
    BY <2>2, <2>4
  <2>6. /\ SizeTo(m - 1) \in Nat /\ iov[m] \in Nat /\ SizeTo(m) = SizeTo(m - 1) + iov[m]
        /\ c[m] = CopyTurn(c[m - 1], m)
    BY <1>3, <2>4, SizesAdd, Zenon
  <2>7. Copied(CopyTurn(c[m - 1], m), off, ln, SizeTo(m - 1) + iov[m])
    BY <2>5, <2>6, CopyTurns, Zenon
  <2>8. Copied(c[m], off, ln, SizeTo(m))
    BY <2>6, <2>7, Zenon
  <2> QED BY <2>2, <2>8
<1>5. Len(iov) \in 0 .. Len(iov)
  BY <1>1
<1>6. Asked \in Nat /\ Asked = SizeTo(Len(iov))
  BY <1>5, SizesAdd, Zenon DEF Asked
<1>7. Copied(c[Len(iov)], off, ln, Asked)
  BY <1>4, <1>5, <1>6
<1>8. CASE Asked <= off
  <2>1. off = 0 /\ Least(ln, Asked) = 0
    BY <1>6, <1>8 DEF Least
  <2>2. c[Len(iov)] = [off |-> off - Asked, len |-> ln, out |-> Run(off, 0)]
    BY <1>7, <1>8, Zenon DEF Copied
  <2> QED BY <1>2, <1>6, <2>1, <2>2
<1>9. CASE ~(Asked <= off)
  <2>1. Least(ln, Asked) = Least(ln, Asked - off)
    BY <1>6, <1>9 DEF Least
  <2>2. c[Len(iov)].out = Run(off, Least(ln, Asked - off))
    BY <1>7, <1>9 DEF Copied
  <2> QED BY <1>2, <1>6, <2>1, <2>2
<1> QED BY <1>8, <1>9

-----------------------------------------------------------------------------
\* Where in the file a transfer starts, and the transfers whose position is known:
\* a stream is lost once a call has ended in the middle of an element.
FileStart == IF iop = "read_file" THEN 0 ELSE IoStart
Steady == iop \in StreamOps => ~torn

IoTypes ==
  /\ iop \in ReadOps \cup WriteOps \cup CopyOps /\ iov \in Seq(Nat)
  /\ cur \in 1 .. Len(iov) + 1 /\ part \in Nat /\ total \in Nat /\ offset \in Nat
  /\ torn \in BOOLEAN /\ failed \in BOOLEAN

\* How far a transfer is: total, the cursor and the offset agree.
IoAt ==
  /\ iop \in PlainOps => Len(iov) = 1 /\ cur = 1 /\ ~torn
  /\ iop \notin PlainOps => part = 0
  /\ iop \notin CopyOps =>
       /\ total = BufAt /\ total <= Asked
       /\ Steady => offset = FileStart + total

\* The first n bytes of the transfer are in place.
InPlace(n) ==
  \A k \in 0 .. n - 1 :
    IF iop \in ReadOps
    THEN k \in DOMAIN moved /\ moved[k] = FileStart + k
    ELSE IoStart + k \in DOMAIN moved /\ moved[IoStart + k] = k

IoIInv ==
  /\ IoTypes /\ IoAt
  /\ iop \notin CopyOps /\ Steady => InPlace(total)
  /\ TransferTrue

\* The sets of functions.
LEMMA IoKinds ==
  /\ iop \in CopyOps => iop \notin PlainOps /\ iop \notin ReadOps /\ iop \notin StreamOps
  /\ iop \notin CopyOps /\ iop \notin ReadOps => iop # "read_file"
  /\ iop = "read_file" => iop \in PlainOps /\ iop \in ReadOps /\ iop \in StreamOps /\ iop \notin CopyOps
BY DEF CopyOps, PlainOps, ReadOps, StreamOps

\* What the sizes of a transfer's iovec are.
LEMMA AskedIs ==
  ASSUME IoTypes
  PROVE  /\ Asked \in Nat /\ SizeTo(cur - 1) \in Nat /\ BufAt \in Nat
         /\ Remaining = Asked - BufAt /\ FileStart \in Nat
<1>1. Len(iov) \in 0 .. Len(iov) /\ cur - 1 \in 0 .. Len(iov) /\ iov \in Seq(Nat)
  BY DEF IoTypes
<1>2. SizeTo(cur - 1) \in Nat /\ SizeTo(Len(iov)) \in Nat
  BY <1>1, SizesAdd, Zenon
<1> QED BY <1>2, FileAssumption DEF Asked, BufAt, Remaining, IoTypes, FileStart

\* A function that returns: the bytes it counts are in place, it returns less than it
\* was asked for only after a failure, and read_file a size only for a whole file.
LEMMA ReturnKept ==
  ASSUME IoIInv, iop \notin CopyOps, NEW v, Returns(v), UNCHANGED <<iop, iov>>, failed' \in BOOLEAN,
         v = -1 \/ v = total,
         failed' \/ (iop # "read_file" /\ Remaining = 0 /\ v = total)
                 \/ (iop = "read_file" /\ (v = total => offset = FileLen))
  PROVE  IoIInv'
<1>1. /\ UNCHANGED <<iop, iov, cur, part, total, offset, moved, torn>> /\ ret' = v
      /\ Asked' = Asked /\ SizeTo(cur - 1)' = SizeTo(cur - 1) /\ FileStart' = FileStart /\ Steady' = Steady
  BY SizesSame DEF Returns, FileStart, Steady
<1>2. BufAt' = BufAt
  BY <1>1 DEF BufAt
<1>3. IoTypes' /\ IoAt'
  BY <1>1, <1>2 DEF IoIInv, IoTypes, IoAt
<1>4. (iop \notin CopyOps /\ Steady => InPlace(total))'
  BY <1>1 DEF IoIInv, InPlace
<1>5. TransferTrue'
  <2>1. iop' \notin CopyOps /\ v \in Int /\ total \in Nat
    BY <1>1 DEF IoIInv, IoTypes
  <2>2. Steady => InPlace(v)
    <3>1. v = -1 => InPlace(v)
      BY DEF InPlace
    <3> QED BY <3>1 DEF IoIInv
  <2>3. v < Asked /\ iop # "read_file" => failed'
    <3>1. total = BufAt /\ Asked \in Nat /\ BufAt \in Nat /\ Remaining = Asked - BufAt
      BY AskedIs DEF IoIInv, IoAt
    <3> QED BY <3>1
  <2>4. iop = "read_file" /\ v > 0 /\ ~failed' => v = FileLen
    <3>1. iop = "read_file" => offset = total
      BY IoKinds DEF IoIInv, IoAt, IoTypes, Steady, FileStart
    <3> QED BY <3>1
  <2> QED BY <1>1, <2>1, <2>2, <2>3, <2>4 DEF TransferTrue, Steady, InPlace, FileStart
<1> QED BY <1>3, <1>4, <1>5 DEF IoIInv

\* A failed or interrupted call keeps IoIInv.
LEMMA IoErrorKept == ASSUME IoIInv, NEW e \in {"EAGAIN", "EINTR", "EIO"}, IoError(e) PROVE IoIInv'
<1>1. CASE Retries(e)
  <2>1. UNCHANGED <<iop, iov, cur, part, total, offset, moved, torn, ret>> /\ ret = -2
    BY <1>1 DEF IoError
  <2>2. /\ Asked' = Asked /\ SizeTo(cur - 1)' = SizeTo(cur - 1) /\ FileStart' = FileStart /\ Steady' = Steady
    BY <2>1, SizesSame DEF FileStart, Steady
  <2>3. BufAt' = BufAt /\ failed' \in BOOLEAN
    BY <2>1, <2>2 DEF BufAt, IoError, IoIInv, IoTypes
  <2>4. IoTypes' /\ IoAt'
    BY <2>1, <2>2, <2>3 DEF IoIInv, IoTypes, IoAt
  <2>5. (iop \notin CopyOps /\ Steady => InPlace(total))'
    BY <2>1, <2>2 DEF IoIInv, InPlace
  <2>6. TransferTrue'
    BY <2>1 DEF TransferTrue
  <2> QED BY <2>4, <2>5, <2>6 DEF IoIInv
<1>2. CASE ~Retries(e)
  <2>1. /\ iop \notin CopyOps /\ Returns(OnError) /\ UNCHANGED <<iop, iov>> /\ failed' = (failed \/ e = "EIO")
    BY <1>2 DEF IoError
  <2>2. failed' = TRUE
    BY <1>2, <2>1 DEF Retries
  <2>3. OnError = -1 \/ OnError = total
    BY DEF OnError
  <2> QED BY <2>1, <2>2, <2>3, ReturnKept
<1> QED BY <1>1, <1>2

\* The end of the file, or no space left, keeps IoIInv.
LEMMA IoZeroKept == ASSUME IoIInv, IoZero PROVE IoIInv'
<1>1. iop \notin CopyOps /\ Returns(OnError) /\ UNCHANGED <<iop, iov>> /\ failed' = TRUE
  BY DEF IoZero
<1>2. OnError = -1 \/ OnError = total
  BY DEF OnError
<1> QED BY <1>1, <1>2, ReturnKept

\* The end of a loop keeps IoIInv.
LEMMA IoEndKept == ASSUME IoIInv, IoDone \/ FileProbe PROVE IoIInv'
<1>1. CASE IoDone
  <2>1. /\ iop \notin CopyOps /\ iop # "read_file" /\ Returns(total) /\ UNCHANGED <<iop, iov>>
        /\ Remaining = 0 /\ failed' \in BOOLEAN
    BY <1>1 DEF IoDone, IoIInv, IoTypes
  <2> QED BY <2>1, ReturnKept
<1>2. CASE FileProbe
  <2> DEFINE v == IF offset = FileLen THEN total ELSE -1
  <2>1. /\ iop \notin CopyOps /\ iop = "read_file" /\ Returns(v) /\ UNCHANGED <<iop, iov>>
        /\ failed' \in BOOLEAN
    BY <1>2, IoKinds DEF FileProbe, IoIInv, IoTypes
  <2>2. (v = -1 \/ v = total) /\ (v = total => offset = FileLen)
    BY DEF IoIInv, IoTypes
  <2> HIDE DEF v
  <2> QED BY <2>1, <2>2, ReturnKept
<1> QED BY <1>1, <1>2

\* A call moves its n bytes on from those in place.
LEMMA TransferIs ==
  ASSUME IoTypes, NEW n \in Nat, moved' = Transfer(n), iop' = iop,
         iop \notin CopyOps, BufAt = total, offset = FileStart + total, InPlace(total),
         NEW m \in Nat, m <= total + n
  PROVE  InPlace(m)'
<1> DEFINE D == {IF iop \in ReadOps THEN BufAt + k ELSE offset + k : k \in 0 .. n - 1}
           new == [d \in D |-> IF iop \in ReadOps THEN d - BufAt + offset ELSE d - offset + BufAt]
<1>1. moved' = [d \in DOMAIN moved \cup D |-> IF d \in D THEN new[d] ELSE moved[d]]
  BY DEF Transfer
<1>2. total \in Nat /\ FileStart \in Nat /\ IoStart \in Nat /\ FileStart' = FileStart /\ BufAt = total
  BY AskedIs, FileAssumption DEF IoTypes, FileStart
<1>3. CASE iop \in ReadOps
  <2>1. \A d \in Int : d \in D <=> total <= d /\ d < total + n
    <3>1. D = {total + k : k \in 0 .. n - 1}
      BY <1>2, <1>3
    <3> HIDE DEF D
    <3>2. ASSUME NEW d \in Int, total <= d, d < total + n PROVE d \in D
      <4>1. d - total \in 0 .. n - 1 /\ total + (d - total) = d
        BY <1>2, <3>2
      <4> QED BY <3>1, <4>1
    <3>3. ASSUME NEW d \in D PROVE total <= d /\ d < total + n
      BY <1>2, <3>1
    <3> QED BY <3>2, <3>3
  <2>2. \A d \in D : new[d] = d - total + offset
    BY <1>2, <1>3
  <2> HIDE DEF D, new
  <2>3. ASSUME NEW k \in 0 .. m - 1 PROVE k \in DOMAIN moved' /\ moved'[k] = FileStart + k
    <3>1. CASE k < total
      <4>1. k \in 0 .. total - 1 /\ k \notin D
        BY <1>2, <2>1, <3>1
      <4>2. k \in DOMAIN moved /\ moved[k] = FileStart + k
        BY <1>3, <4>1 DEF InPlace
      <4> QED BY <1>1, <4>1, <4>2
    <3>2. CASE ~(k < total)
      <4>1. k \in D
        BY <1>2, <2>1, <3>2
      <4>2. moved'[k] = k - total + offset /\ k \in DOMAIN moved'
        BY <1>1, <2>2, <4>1
      <4> QED BY <1>2, <4>2
    <3> QED BY <3>1, <3>2
  <2> QED BY <1>2, <1>3, <2>3 DEF InPlace
<1>4. CASE iop \notin ReadOps
  <2>0. FileStart = IoStart
    BY <1>4, IoKinds DEF FileStart
  <2>1. \A d \in Int : d \in D <=> offset <= d /\ d < offset + n
    BY <1>2, <1>4
  <2>2. \A d \in D : new[d] = d - offset + total
    BY <1>2, <1>4
  <2> HIDE DEF D, new
  <2>3. ASSUME NEW k \in 0 .. m - 1 PROVE IoStart + k \in DOMAIN moved' /\ moved'[IoStart + k] = k
    <3>1. CASE k < total
      <4>1. k \in 0 .. total - 1 /\ IoStart + k \notin D
        BY <1>2, <2>0, <2>1, <3>1
      <4>2. IoStart + k \in DOMAIN moved /\ moved[IoStart + k] = k
        BY <1>4, <4>1 DEF InPlace
      <4> QED BY <1>1, <4>1, <4>2
    <3>2. CASE ~(k < total)
      <4>1. IoStart + k \in D
        BY <1>2, <2>0, <2>1, <3>2
      <4>2. \A d \in D : moved'[d] = d - offset + total /\ d \in DOMAIN moved'
        BY <1>1, <2>2
      <4>3. PICK d : d = IoStart + k
        OBVIOUS
      <4>4. moved'[d] = d - offset + total /\ d \in DOMAIN moved'
        BY <4>1, <4>2, <4>3
      <4> QED BY <1>2, <2>0, <4>3, <4>4
    <3> QED BY <3>1, <3>2
  <2> QED BY <1>2, <1>4, <2>3 DEF InPlace
<1> QED BY <1>3, <1>4

\* A call that moves some of the bytes keeps IoIInv, wherever it stops.
LEMMA IoCallKept == ASSUME IoIInv, NEW n, IoCall(n) PROVE IoIInv'
<1>0. /\ IoTypes /\ IoAt /\ iop \notin CopyOps /\ ret = -2 /\ n \in 1 .. Remaining /\ moved' = Transfer(n)
      /\ UNCHANGED <<iop, iov, ret, failed>>
  BY DEF IoIInv, IoCall
<1>1. /\ Asked \in Nat /\ BufAt \in Nat /\ Remaining = Asked - BufAt /\ total = BufAt /\ total <= Asked
      /\ total \in Nat /\ offset \in Nat
  BY <1>0, AskedIs DEF IoAt, IoTypes
<1>2. n \in Nat /\ n >= 1 /\ total + n <= Asked
  BY <1>0, <1>1
<1>3. Asked' = Asked /\ FileStart' = FileStart /\ \A i : SizeTo(i)' = SizeTo(i)
  BY <1>0, SizesSame DEF FileStart
<1>4. TransferTrue'
  BY <1>0 DEF TransferTrue
<1>5. CASE iop \in PlainOps
  <2>1. part' = part + n /\ total' = total + n /\ cur' = cur /\ torn' = torn /\ offset' = offset + n
    BY <1>0, <1>5 DEF IoCall, OffsetAfter
  <2>2. BufAt' = BufAt + n
    <3>1. SizeTo(cur - 1)' = SizeTo(cur - 1) /\ SizeTo(cur - 1) \in Nat /\ part \in Nat
      BY <1>0, <1>3, <2>1, AskedIs, SizesSame DEF IoTypes
    <3> QED BY <1>2, <2>1, <3>1 DEF BufAt
  <2>3. Steady /\ Steady' /\ offset = FileStart + total
    BY <1>0, <1>5, <2>1 DEF IoAt, Steady
  <2>4. IoTypes' /\ IoAt'
    <3>1. IoTypes'
      BY <1>0, <1>1, <1>2, <2>1 DEF IoTypes
    <3>2. offset' = FileStart' + total'
      BY <1>1, <1>2, <1>3, <2>1, <2>3, <1>0, AskedIs
    <3> QED BY <1>0, <1>1, <1>2, <1>3, <1>5, <2>1, <2>2, <3>1, <3>2 DEF IoAt
  <2>5. InPlace(total)
    BY <1>0, <2>3 DEF IoIInv
  <2>6. (InPlace(total))'
    <3>1. PICK m : m = total'
      OBVIOUS
    <3>2. m \in Nat /\ m <= total + n
      BY <1>1, <1>2, <2>1, <3>1
    <3>3. InPlace(m)'
      BY <1>0, <1>1, <1>2, <2>3, <2>5, <3>2, TransferIs
    <3> QED BY <3>1, <3>3 DEF InPlace
  <2> QED BY <1>4, <2>4, <2>6 DEF IoIInv
<1>6. CASE iop \notin PlainOps
  <2> DEFINE whole == SizeTo(Covered(n) - 1) - SizeTo(cur - 1)
  <2>1. /\ cur' = Covered(n) /\ total' = total + whole /\ torn' = (torn \/ whole # n) /\ part' = part
        /\ offset' = OffsetAfter(n, whole)
    BY <1>0, <1>6 DEF IoCall
  <2>2. Covered(n) \in cur .. Len(iov) + 1 /\ whole <= n
    BY <1>0, <1>2, CoveredIs DEF IoTypes
  <2>3. /\ Covered(n) - 1 \in 0 .. Len(iov) /\ cur - 1 \in 0 .. Len(iov) /\ Covered(n) - 1 \in cur - 1 .. Len(iov)
        /\ iov \in Seq(Nat) /\ Covered(n) \in 1 .. Len(iov) + 1
    BY <1>0, <2>2 DEF IoTypes
  <2>4. SizeTo(cur - 1) \in Nat /\ SizeTo(Covered(n) - 1) \in Nat /\ SizeTo(cur - 1) <= SizeTo(Covered(n) - 1)
    BY <2>3, SizesAdd, SizesOrdered, Zenon
  <2>5. whole \in Nat /\ whole <= n
    BY <2>2, <2>4
  <2>6. part = 0 /\ part' = 0 /\ BufAt = SizeTo(cur - 1) /\ BufAt' = SizeTo(Covered(n) - 1)
    <3>1. part = 0 /\ part' = 0
      BY <1>0, <1>6, <2>1 DEF IoAt
    <3>2. SizeTo(cur - 1)' = SizeTo(Covered(n) - 1)
      BY <1>0, <2>1 DEF SizeTo
    <3> QED BY <2>4, <3>1, <3>2 DEF BufAt
  <2>7. total' = BufAt'
    BY <1>1, <2>1, <2>4, <2>6
  <2> HIDE DEF whole
  <2>8. torn \in BOOLEAN /\ torn' \in BOOLEAN
    BY <1>0, <2>1 DEF IoTypes
  <2>9. Steady' => Steady /\ offset' = offset + whole
    <3>1. Steady' /\ iop \in StreamOps => ~torn /\ whole = n /\ offset' = offset + n
      BY <1>0, <2>1 DEF Steady, OffsetAfter
    <3>2. iop \notin StreamOps => Steady /\ offset' = offset + whole
      BY <1>6, <2>1 DEF Steady, OffsetAfter
    <3> QED BY <3>1, <3>2 DEF Steady
  <2>10. offset' \in Nat
    BY <1>1, <1>2, <2>1, <2>5 DEF OffsetAfter
  <2>11. IoTypes'
    <3>1. total' \in Nat /\ part' \in Nat
      BY <1>1, <2>1, <2>5, <2>6
    <3>2. cur' \in 1 .. Len(iov') + 1
      BY <1>0, <2>1, <2>3, Zenon
    <3> QED BY <1>0, <2>8, <2>10, <3>1, <3>2 DEF IoTypes
  <2>12. IoAt'
    <3>1. total' <= Asked'
      BY <1>1, <1>2, <1>3, <2>1, <2>5
    <3>2. Steady' => offset' = FileStart' + total'
      <4>1. Steady => offset = FileStart + total
        BY <1>0 DEF IoAt
      <4>2. FileStart \in Nat
        BY <1>0, AskedIs
      <4> QED BY <1>1, <1>3, <2>1, <2>5, <2>9, <4>1, <4>2
    <3> QED BY <1>0, <1>6, <2>6, <2>7, <3>1, <3>2 DEF IoAt
  <2>13. Steady' => (InPlace(total))'
    <3>1. SUFFICES ASSUME Steady' PROVE (InPlace(total))'
      OBVIOUS
    <3>2. Steady /\ InPlace(total) /\ offset = FileStart + total
      BY <1>0, <2>9, <3>1 DEF IoIInv, IoAt
    <3>3. PICK m : m = total'
      OBVIOUS
    <3>4. m \in Nat /\ m <= total + n
      BY <1>1, <1>2, <2>1, <2>5, <3>3
    <3>5. InPlace(m)'
      BY <1>0, <1>1, <1>2, <3>2, <3>4, TransferIs
    <3> QED BY <3>3, <3>5 DEF InPlace
  <2> QED BY <1>4, <2>11, <2>12, <2>13 DEF IoIInv
<1> QED BY <1>5, <1>6

\* A copy keeps IoIInv: it ends at once, with the bytes of its range.
LEMMA CopyKept ==
  ASSUME IoIInv, NEW off \in 0 .. Asked, NEW ln \in 0 .. Asked + 1, CopyIovec(off, ln)
  PROVE  IoIInv'
<1>0. /\ IoTypes /\ IoAt /\ iop \in CopyOps /\ UNCHANGED <<iop, iov, cur, part, torn, failed>>
      /\ offset' = off /\ total' = ln /\ moved' = Touched(off, ln)
      /\ ret' = IF iop = "fromiovec_safe" THEN ln - Len(moved') ELSE 0
  BY DEF IoIInv, CopyIovec
<1>1. Asked \in Nat /\ off \in Nat /\ ln \in Nat /\ ln # 0 /\ iov \in Seq(Nat)
  <2>1. Asked \in Nat
    BY <1>0, AskedIs
  <2> QED BY <1>0, <2>1 DEF CopyIovec, IoTypes
<1>2. Touched(off, ln) = CopyEnd(off, ln) /\ (off + ln <= Asked \/ off = 0)
  BY DEF CopyIovec, Touched, CopyOps
<1>3. moved' = Run(off, Least(ln, Asked))
  BY <1>0, <1>1, <1>2, CopyRuns
<1>4. Asked' = Asked
  BY <1>0, SizesSame
<1>5. IoTypes' /\ IoAt'
  BY <1>0, <1>1, IoKinds DEF IoTypes, IoAt
<1>6. TransferTrue'
  <2>1. moved' = [k \in 1 .. Least(total', Asked') |-> offset' + k - 1]
    BY <1>0, <1>3, <1>4 DEF Run
  <2>2. ret' = total' - Len(moved') \/ (ret' = 0 /\ iop' # "fromiovec_safe")
    BY <1>0
  <2>3. iop' \in CopyOps
    BY <1>0
  <2> QED BY <2>1, <2>2, <2>3 DEF TransferTrue
<1> QED BY <1>0, <1>5, <1>6 DEF IoIInv

\* The "in full" transfers and the iovec copies (util/read-write.c, util/iovec.c): what
\* they return is true of the bytes they moved, for every iovec and file, and however
\* the kernel splits, interrupts and fails their calls.
THEOREM TransfersTrue == IoSpec => []TransferTrue
<1>1. IoInit => IoIInv
  <2> SUFFICES ASSUME IoInit PROVE IoIInv
    OBVIOUS
  <2>1. IoTypes
    <3>1. iov \in Seq(Nat) /\ Len(iov) \in Nat
      BY IovecsAssumption DEF IoInit
    <3>2. offset \in Nat
      BY FileAssumption DEF IoInit
    <3>3. cur \in 1 .. Len(iov) + 1
      BY <3>1 DEF IoInit
    <3>4. part \in Nat /\ total \in Nat /\ torn \in BOOLEAN /\ failed \in BOOLEAN
      BY DEF IoInit
    <3>5. iop \in ReadOps \cup WriteOps \cup CopyOps
      BY DEF IoInit
    <3> QED BY <3>1, <3>2, <3>3, <3>4, <3>5 DEF IoTypes
  <2>2. SizeTo(cur - 1) = 0
    <3>1. cur - 1 = 0
      BY DEF IoInit
    <3> QED BY <2>1, <3>1, SizesAdd DEF IoTypes
  <2>3. BufAt = 0 /\ Asked \in Nat
    BY <2>1, <2>2, AskedIs DEF IoInit, BufAt
  <2>4. IoAt
    BY <2>3, FileAssumption DEF IoInit, IoAt, FileStart
  <2>5. InPlace(total)
    BY DEF IoInit, InPlace
  <2> QED BY <2>1, <2>4, <2>5 DEF IoInit, IoIInv, TransferTrue
<1>2. IoIInv /\ [IoNext]_ioVars => IoIInv'
  <2> SUFFICES ASSUME IoIInv, [IoNext]_ioVars PROVE IoIInv'
    OBVIOUS
  <2>1. CASE UNCHANGED ioVars
    <3>1. UNCHANGED <<iop, iov, cur, part, total, offset, moved, ret, failed, torn>>
      BY <2>1 DEF ioVars
    <3>2. /\ Asked' = Asked /\ SizeTo(cur - 1)' = SizeTo(cur - 1) /\ FileStart' = FileStart /\ Steady' = Steady
      BY <3>1, SizesSame DEF FileStart, Steady
    <3>3. BufAt' = BufAt
      BY <3>1, <3>2 DEF BufAt
    <3> QED BY <3>1, <3>2, <3>3 DEF IoIInv, IoTypes, IoAt, InPlace, TransferTrue
  <2>2. CASE \E e \in {"EAGAIN", "EINTR", "EIO"} : IoError(e)
    BY <2>2, IoErrorKept
  <2>3. CASE IoZero
    BY <2>3, IoZeroKept
  <2>4. CASE \E n \in 1 .. Asked : IoCall(n)
    BY <2>4, IoCallKept
  <2>5. CASE IoDone \/ FileProbe
    BY <2>5, IoEndKept
  <2>6. CASE \E off \in 0 .. Asked, ln \in 0 .. Asked + 1 : CopyIovec(off, ln)
    BY <2>6, CopyKept
  <2> QED BY <2>1, <2>2, <2>3, <2>4, <2>5, <2>6 DEF IoNext
<1>3. IoIInv => TransferTrue
  BY DEF IoIInv
<1> QED BY <1>1, <1>2, <1>3, PTL DEF IoSpec
-----------------------------------------------------------------------------
(* CPU lists                                                               *)

\* What Min finds.
LEMMA MinIs ==
  ASSUME NEW S \in SUBSET Nat, S # {}
  PROVE  Min(S) \in S /\ \A y \in S : Min(S) <= y
<1>1. \E x \in S : \A y \in S : x <= y
  BY LeastNat
<1> QED BY <1>1, Zenon DEF Min

\* The quotient and the remainder of a number.
LEMMA Divided ==
  ASSUME NEW n \in Nat \ {0}, NEW b \in Nat
  PROVE  b \div n \in Nat /\ b % n \in 0 .. n - 1 /\ b = (b \div n) * n + (b % n)
<1> DEFINE q == b \div n
           r == b % n
<1>1. r \in 0 .. n - 1 /\ q \in Nat /\ b = (n * q) + r
  OBVIOUS
<1> HIDE DEF q, r
<1>2. b = q * n + r
  BY <1>1
<1> QED BY <1>1, <1>2, Zenon DEF q, r

\* Where the multiples of n lie.
LEMMA MultipleOrder ==
  ASSUME NEW n \in Nat \ {0}, NEW w \in Nat, NEW v \in Nat, w < v
  PROVE  w * n + n <= v * n
<1>1. v - w \in Nat /\ v - w >= 1
  OBVIOUS
<1>2. (v - w) * n >= n
  BY <1>1
<1> QED BY <1>1, <1>2

\* Numbers are ordered as their quotients, and then as their remainders, are.
LEMMA PlaceOrder ==
  ASSUME NEW n \in Nat \ {0}, NEW w \in Nat, NEW v \in Nat, NEW x \in 0 .. n - 1, NEW y \in 0 .. n - 1
  PROVE  (w * n + x <= v * n + y) <=> (w < v \/ (w = v /\ x <= y))
<1>0. w * n \in Nat /\ v * n \in Nat
  OBVIOUS
<1>1. CASE w < v
  <2>1. w * n + n <= v * n
    BY <1>1, MultipleOrder
  <2> QED BY <1>0, <1>1, <2>1
<1>2. CASE v < w
  <2>1. v * n + n <= w * n
    BY <1>2, MultipleOrder
  <2> QED BY <1>0, <1>2, <2>1
<1>3. CASE w = v
  BY <1>0, <1>3
<1> QED BY <1>1, <1>2, <1>3

\* A number is found at its place.
LEMMA PlaceIs ==
  ASSUME NEW n \in Nat \ {0}, NEW w \in Nat, NEW x \in 0 .. n - 1
  PROVE  w * n + x \in Nat /\ (w * n + x) \div n = w /\ (w * n + x) % n = x
<1> DEFINE b == w * n + x
           v == b \div n
           y == b % n
<1>0. b \in Nat
  OBVIOUS
<1>1. v \in Nat /\ y \in 0 .. n - 1 /\ b = v * n + y
  BY <1>0, Divided
<1> HIDE DEF v, y
<1>2. (w * n + x <= v * n + y) /\ (v * n + y <= w * n + x)
  BY <1>0, <1>1
<1>3. (w < v \/ (w = v /\ x <= y)) /\ (v < w \/ (v = w /\ y <= x))
  BY <1>1, <1>2, PlaceOrder
<1>4. w = v /\ x = y
  BY <1>1, <1>3
<1> QED BY <1>0, <1>4 DEF v, y

\* A greater number has no smaller quotient.
LEMMA DividedOrder ==
  ASSUME NEW n \in Nat \ {0}, NEW a \in Nat, NEW b \in Nat, a <= b
  PROVE  /\ a \div n \in Nat /\ b \div n \in Nat /\ a \div n <= b \div n
         /\ a \div n = b \div n => a % n <= b % n
<1> DEFINE w == a \div n
           x == a % n
           v == b \div n
           y == b % n
<1>1. w \in Nat /\ x \in 0 .. n - 1 /\ a = w * n + x /\ v \in Nat /\ y \in 0 .. n - 1 /\ b = v * n + y
  BY Divided
<1> HIDE DEF w, x, v, y
<1>2. w < v \/ (w = v /\ x <= y)
  BY <1>1, PlaceOrder
<1>3. w <= v /\ (w = v => x <= y)
  BY <1>1, <1>2
<1> QED BY <1>1, <1>3 DEF w, x, v, y

-----------------------------------------------------------------------------
\* A bitmap.
IsWords(words) == words \in [WordNrs -> SUBSET AllOnes]

\* The words are enough for the CPUs.
LEMMA WordsReach ==
  /\ (NrCpus - 1) \div WordBits \in Nat /\ WordNrs \subseteq Nat
  /\ \A b \in Nat : b \div WordBits \in WordNrs <=> b < WordBits * Cardinality(WordNrs)
  /\ \A b \in Cpus : b \in Nat /\ b \div WordBits \in WordNrs
<1> DEFINE n == WordBits
           t == (NrCpus - 1) \div n
<1>1. n \in Nat \ {0} /\ NrCpus - 1 \in Nat
  BY CpuMaskAssumption
<1>2. t \in Nat
  BY <1>1, Divided
<1>3. WordNrs = 0 .. t /\ Cardinality(WordNrs) = t + 1
  <2>1. WordNrs = 0 .. t
    BY DEF WordNrs
  <2> HIDE DEF t
  <2> QED BY <1>2, <2>1, FS_Interval
<1>4. ASSUME NEW b \in Nat PROVE b \div n \in WordNrs <=> b < n * Cardinality(WordNrs)
  <2> DEFINE v == b \div n
             y == b % n
  <2>1. v \in Nat /\ y \in 0 .. n - 1 /\ b = v * n + y
    BY <1>1, Divided
  <2> HIDE DEF v, y, t
  <2>2. t < v => t * n + n <= v * n
    BY <1>1, <1>2, <2>1, MultipleOrder
  <2>3. v < t + 1 => v * n + n <= (t + 1) * n
    BY <1>1, <1>2, <2>1, MultipleOrder
  <2>4. n * Cardinality(WordNrs) = t * n + n /\ (t + 1) * n = t * n + n /\ v * n \in Nat /\ t * n \in Nat
    BY <1>1, <1>2, <1>3, <2>1
  <2>5. v <= t <=> b < n * Cardinality(WordNrs)
    BY <1>1, <1>2, <2>1, <2>2, <2>3, <2>4
  <2>6. v \in WordNrs <=> v <= t
    BY <1>2, <1>3, <2>1
  <2> QED BY <2>5, <2>6 DEF v
<1>5. ASSUME NEW b \in Cpus PROVE b \in Nat /\ b \div n \in WordNrs
  <2>1. b \in Nat /\ b <= NrCpus - 1
    BY <1>1 DEF Cpus
  <2>2. b \div n \in Nat /\ b \div n <= t
    BY <1>1, <2>1, DividedOrder
  <2> HIDE DEF t
  <2> QED BY <1>2, <1>3, <2>1, <2>2
<1> QED BY <1>2, <1>3, <1>4, <1>5

\* The bits of a bitmap, one by one.
LEMMA BitsAre ==
  ASSUME NEW words
  PROVE  /\ Bits(words) \subseteq Nat
         /\ \A b \in Nat : b \in Bits(words) <=> b \div WordBits \in WordNrs
                                               /\ b % WordBits \in words[b \div WordBits]
<1> DEFINE m == WordBits * Cardinality(WordNrs)
<1>1. /\ \A b \in Nat : b \div WordBits \in WordNrs <=> b < m
  BY WordsReach
<1>2. m \in Int
  <2>1. IsFiniteSet(WordNrs)
    BY WordsReach, FS_Interval, 0 \in Int DEF WordNrs
  <2>2. Cardinality(WordNrs) \in Nat
    BY <2>1, FS_CardinalityType
  <2> QED BY <2>2, CpuMaskAssumption
<1>3. Bits(words) = {b \in 0 .. m - 1 : b % WordBits \in words[b \div WordBits]}
  BY DEF Bits
<1> HIDE DEF m
<1>4. \A b \in Nat : b \in 0 .. m - 1 <=> b < m
  BY <1>2
<1>5. 0 .. m - 1 \subseteq Nat
  BY <1>2
<1> QED BY <1>1, <1>3, <1>4, <1>5, Zenon

\* A range of bits of one word is set.
LEMMA RangeSet ==
  ASSUME NEW words, IsWords(words), NEW w \in WordNrs, NEW lo \in AllOnes, NEW hi \in AllOnes, NEW v,
         v = [words EXCEPT ![w] = @ \cup (lo .. hi)]
  PROVE  /\ IsWords(v)
         /\ \A b \in Nat : b \in Bits(v) <=> b \in Bits(words)
                                           \/ (w * WordBits + lo <= b /\ b <= w * WordBits + hi)
<1> DEFINE n == WordBits
<1>1. n \in Nat \ {0} /\ w \in Nat /\ lo \in 0 .. n - 1 /\ hi \in 0 .. n - 1
  BY CpuMaskAssumption, WordsReach DEF AllOnes
<1>2. lo .. hi \subseteq AllOnes
  BY <1>1 DEF AllOnes
<1>3. IsWords(v)
  BY <1>2 DEF IsWords
<1>4. \A u \in WordNrs : v[u] = IF u = w THEN words[u] \cup (lo .. hi) ELSE words[u]
  BY DEF IsWords
<1>5. ASSUME NEW b \in Nat
      PROVE  b \in Bits(v) <=> b \in Bits(words) \/ (w * n + lo <= b /\ b <= w * n + hi)
  <2> DEFINE u == b \div n
             y == b % n
  <2>1. u \in Nat /\ y \in 0 .. n - 1 /\ b = u * n + y
    BY <1>1, Divided
  <2>2. /\ b \in Bits(v) <=> u \in WordNrs /\ y \in v[u]
        /\ b \in Bits(words) <=> u \in WordNrs /\ y \in words[u]
    BY BitsAre, Zenon
  <2> HIDE DEF u, y, n
  <2>3. /\ (w * n + lo <= u * n + y) <=> (w < u \/ (w = u /\ lo <= y))
        /\ (u * n + y <= w * n + hi) <=> (u < w \/ (u = w /\ y <= hi))
    BY <1>1, <2>1, PlaceOrder
  <2>4. (w * n + lo <= b /\ b <= w * n + hi) <=> (u = w /\ y \in lo .. hi)
    BY <1>1, <2>1, <2>3
  <2> QED BY <1>4, <2>2, <2>4
<1> QED BY <1>3, <1>5

-----------------------------------------------------------------------------
\* A region that bitmap_check_region accepts, and whose groups do not wrap.
RegionGood(r) ==
  /\ r.start \in Nat /\ r.end \in Nat /\ r.off \in Nat /\ r.group \in Nat \ {0}
  /\ r.start <= r.end /\ r.end < NrCpus /\ r.off <= r.group /\ r.end + r.group < UintMax

\* start is at the beginning of a group.
AtGroup == at \in Nat /\ \E j \in Nat : at = region.start + j * region.group

\* What Min finds of two numbers.
LEMMA MinTwo ==
  ASSUME NEW a \in Nat, NEW b \in Nat
  PROVE  Min({a, b}) \in Nat /\ \A c \in Nat : c < Min({a, b}) <=> c < a /\ c < b
<1> DEFINE S == {a, b}
           m == Min(S)
<1>1. m \in S /\ \A y \in S : m <= y
  BY MinIs
<1> HIDE DEF m
<1>2. (m = a \/ m = b) /\ m <= a /\ m <= b
  BY <1>1
<1>3. m \in Nat /\ \A c \in Nat : c < m <=> c < a /\ c < b
  BY <1>2
<1> QED BY <1>3 DEF m

\* The CPUs that a group of the region names are the first GroupLen of it.
LEMMA GroupIs ==
  ASSUME RegionGood(region), AtGroup, at <= region.end
  PROVE  /\ GroupLen \in Nat /\ GroupLen <= region.group /\ at + GroupLen <= region.end + 1
         /\ \A i \in Nat : at <= i /\ i < at + region.group =>
              (i \in Reference(region) <=> i < at + GroupLen)
<1> DEFINE e == region.end
           g == region.group
           o == region.off
           z == region.start
<1>0. e \in Nat /\ o \in Nat /\ g \in Nat \ {0} /\ z \in Nat /\ at \in Nat /\ o <= g
  BY DEF RegionGood, AtGroup
<1>1. /\ GroupLen \in Nat /\ \A c \in Nat : c < GroupLen <=> c < e - at + 1 /\ c < o
  <2>1. e - at + 1 \in Nat
    BY <1>0
  <2> QED BY <1>0, <2>1, MinTwo DEF GroupLen
<1>2. PICK j \in Nat : at = z + j * g
  BY DEF AtGroup
<1>3. Reference(region) = {i \in z .. e : (i - z) % g < o}
  BY DEF Reference
<1>4. ASSUME NEW i \in Nat, at <= i, i < at + g
      PROVE  i \in Reference(region) <=> i < at + GroupLen
  <2> DEFINE d == i - at
  <2>1. d \in Nat /\ d \in 0 .. g - 1
    BY <1>0, <1>4
  <2>2. i - z = j * g + d
    BY <1>0, <1>2
  <2>3. (i - z) % g = d
    <3> HIDE DEF d, g, z
    <3>1. (j * g + d) % g = d
      BY <1>0, <2>1, PlaceIs
    <3> QED BY <2>2, <3>1, Zenon
  <2>4. z <= at
    BY <1>0, <1>2
  <2>5. i \in Reference(region) <=> i <= e /\ d < o
    BY <1>0, <1>3, <1>4, <2>3, <2>4
  <2>6. d < GroupLen <=> d < e - at + 1 /\ d < o
    BY <1>1, <2>1
  <2> QED BY <1>0, <1>1, <2>5, <2>6
<1>5. GroupLen <= g /\ at + GroupLen <= e + 1
  <2>1. o \in Nat /\ ~(o < GroupLen)
    BY <1>0, <1>1
  <2>2. e - at + 1 \in Nat /\ ~(e - at + 1 < GroupLen)
    BY <1>0, <1>1
  <2> QED BY <1>0, <1>1, <2>1, <2>2
<1> QED BY <1>1, <1>4, <1>5

\* Every CPU that the list names has its bit, but for those of the region from p on.
Left(p) == \A i \in listed : i \in Bits(cmWords) \/ (i \in Reference(region) /\ p <= i)

\* The first bit that __bitmap_set has still to set.
Pos == word * WordBits + (WordBits - room)

Parsing ==
  /\ IsWords(cmWords) /\ listed \subseteq Cpus /\ Bits(cmWords) \subseteq listed
  /\ cmStep \in {"region", "copy", "search"} => listed \subseteq Bits(cmWords)
  /\ cmStep \in {"group", "words"} => RegionGood(region) /\ AtGroup /\ Reference(region) \subseteq listed
  /\ cmStep = "group" => Left(at)
  /\ cmStep = "words" =>
       /\ at <= region.end /\ word \in Nat /\ room \in 1 .. WordBits /\ len \in Nat
       /\ ones = (WordBits - room) .. (WordBits - 1)
       /\ len = at + GroupLen - Pos /\ at <= Pos /\ Left(Pos)

Using ==
  /\ cmStep \in {"region", "group", "words"} => cpu = -1 /\ cpuset = {}
  /\ cmStep # "end" => pmu = <<"none">>
  /\ cmStep = "copy" => cpu \in -1 .. NrCpus - 1 /\ cpuset = {c \in listed : c <= cpu}
  /\ cmStep = "search" => cpuset = listed
  /\ PmuRight

CmIInv == wraps \in BOOLEAN /\ (~wraps => Parsing /\ Using)

\* The CPUs of a region are CPUs.
LEMMA ReferenceIn == ASSUME NEW r, RegionGood(r) PROVE Reference(r) \subseteq Cpus
<1>1. \A i \in r.start .. r.end : i \in Cpus
  BY CpuMaskAssumption DEF RegionGood, Cpus
<1> QED BY <1>1 DEF Reference

\* What the regions of a list are made of.
LEMMA ParsedAre ==
  ASSUME NEW r \in ParsedRegions
  PROVE  r.start \in Nat /\ r.end \in Nat /\ r.off \in Nat /\ r.group \in Nat
<1>0. UintMax \in Nat /\ UintMax # 0 /\ CpuNums \subseteq Nat /\ NrCpus - 1 \in Nat
  BY CpuMaskAssumption
<1>1. ASSUME NEW a \in Nat, NEW b \in Nat, r = NoPattern(a, b)
      PROVE  r.start \in Nat /\ r.end \in Nat /\ r.off \in Nat /\ r.group \in Nat
  <2>1. (b + 1) % UintMax \in Nat
    BY <1>0, Divided
  <2> QED BY <1>1, <2>1 DEF NoPattern
<1>2. CASE \E a \in CpuNums, b \in CpuNums : r = NoPattern(a, b)
  BY <1>0, <1>1, <1>2
<1>3. CASE \E a \in CpuNums : r = NoPattern(a, a)
  BY <1>0, <1>1, <1>3
<1>4. CASE r = NoPattern(0, NrCpus - 1)
  BY <1>0, <1>1, <1>4
<1>5. CASE r \in [start : CpuNums, end : CpuNums \cup {NrCpus - 1}, off : CpuNums, group : CpuNums]
  BY <1>0, <1>5
<1> QED BY <1>2, <1>3, <1>4, <1>5 DEF ParsedRegions

\* A turn of bitmap_parselist keeps CmIInv.
LEMMA ParseKept == ASSUME CmIInv, NEW r \in ParsedRegions, ParseRegion(r) PROVE CmIInv'
<1>0. UNCHANGED <<cmWords, word, len, room, ones, cpu, cpuset, pmuCpus, pmu>> /\ cmStep = "region"
  BY DEF ParseRegion
<1>1. CASE CheckRegion(r) = "ok"
  <2>1. /\ region' = r /\ at' = r.start /\ cmStep' = "group" /\ listed' = listed \cup Reference(r)
        /\ wraps' = (wraps \/ r.end + r.group >= UintMax)
    BY <1>1 DEF ParseRegion
  <2>2. r.start \in Nat /\ r.end \in Nat /\ r.off \in Nat /\ r.group \in Nat
    BY ParsedAre
  <2>3. wraps' \in BOOLEAN
    BY <2>1 DEF CmIInv
  <2>4. SUFFICES ASSUME ~wraps' PROVE Parsing' /\ Using'
    BY <2>3 DEF CmIInv
  <2>5. ~wraps /\ r.end + r.group < UintMax /\ Parsing /\ Using
    <3>1. ~wraps /\ ~(r.end + r.group >= UintMax)
      BY <2>1, <2>4, Zenon
    <3>2. Parsing /\ Using
      BY <3>1, Zenon DEF CmIInv
    <3> QED BY <2>2, <3>1, <3>2, CpuMaskAssumption
  <2>6. RegionGood(r)
    BY <1>1, <2>2, <2>5, CpuMaskAssumption DEF CheckRegion, RegionGood
  <2>7. Reference(r) \subseteq Cpus /\ \A i \in Reference(r) : r.start <= i
    BY <2>6, ReferenceIn DEF Reference, RegionGood
  <2>8. AtGroup'
    <3>1. r.start = r.start + 0 * r.group
      BY <2>2
    <3> QED BY <2>1, <2>2, <3>1 DEF AtGroup
  <2>9. Left(at)'
    <3>1. Bits(cmWords)' = Bits(cmWords)
      BY <1>0 DEF Bits
    <3>2. listed \subseteq Bits(cmWords)
      BY <1>0, <2>5 DEF Parsing
    <3>3. Reference(region)' = Reference(r)
      BY <2>1
    <3> QED BY <2>1, <2>7, <3>1, <3>2, <3>3 DEF Left
  <2>10. Parsing'
    <3>1. Bits(cmWords)' = Bits(cmWords)
      BY <1>0 DEF Bits
    <3>2. RegionGood(region)' /\ Reference(region)' \subseteq listed'
      BY <2>1, <2>6 DEF RegionGood, Reference
    <3> QED BY <1>0, <2>1, <2>5, <2>7, <2>8, <2>9, <3>1, <3>2 DEF Parsing, IsWords
  <2>11. Using'
    BY <1>0, <2>1, <2>5 DEF Using, PmuRight
  <2> QED BY <2>10, <2>11
<1>2. CASE CheckRegion(r) # "ok"
  <2>1. cmStep' = "end" /\ UNCHANGED <<region, at, listed, wraps>>
    BY <1>2 DEF ParseRegion
  <2>2. Bits(cmWords)' = Bits(cmWords)
    BY <1>0 DEF Bits
  <2> QED BY <1>0, <2>1, <2>2 DEF CmIInv, Parsing, Using, IsWords, PmuRight
<1> QED BY <1>1, <1>2

\* The ends of a list: a malformed region, or the end of the string.
LEMMA ListKept == ASSUME CmIInv, BadRegion \/ ListEnds PROVE CmIInv'
<1>1. /\ UNCHANGED <<cmWords, region, at, word, len, room, ones, cpu, cpuset, pmuCpus, pmu, listed, wraps>>
      /\ cmStep = "region" /\ cmStep' \in {"end", "copy"}
  BY DEF BadRegion, ListEnds, parseState
<1>2. SUFFICES ASSUME ~wraps PROVE Parsing' /\ Using'
  BY <1>1 DEF CmIInv
<1>3. Parsing /\ Using
  BY <1>2 DEF CmIInv
<1>4. Bits(cmWords)' = Bits(cmWords)
  BY <1>1 DEF Bits
<1>5. Parsing'
  BY <1>1, <1>3, <1>4 DEF Parsing, IsWords
<1>6. \A c \in listed : ~(c <= -1)
  BY <1>3, CpuMaskAssumption DEF Parsing, Cpus
<1>7. cpu = -1 /\ cpuset = {c \in listed : c <= cpu} /\ cpu \in -1 .. NrCpus - 1
  BY <1>1, <1>3, <1>6, CpuMaskAssumption DEF Using
<1>8. Using'
  BY <1>1, <1>3, <1>7 DEF Using, PmuRight
<1> QED BY <1>5, <1>8

\* bitmap_set_region keeps CmIInv.
LEMMA SetGroupKept == ASSUME CmIInv, SetGroup PROVE CmIInv'
<1>1. UNCHANGED <<cmWords, cpu, cpuset, pmuCpus, pmu, listed, wraps>> /\ cmStep = "group"
  BY DEF SetGroup
<1>2. SUFFICES ASSUME ~wraps PROVE Parsing' /\ Using'
  BY <1>1 DEF CmIInv
<1>3. Parsing /\ Using
  BY <1>2 DEF CmIInv
<1>4. Bits(cmWords)' = Bits(cmWords)
  BY <1>1 DEF Bits
<1>5. RegionGood(region) /\ AtGroup /\ Reference(region) \subseteq listed /\ Left(at)
  BY <1>1, <1>3 DEF Parsing
<1>6. CASE at <= region.end
  <2>1. /\ word' = at \div WordBits /\ len' = GroupLen /\ room' = WordBits - (at % WordBits)
        /\ ones' = FirstWordMask(at) /\ cmStep' = "words" /\ UNCHANGED <<at, region>>
    BY <1>5, <1>6 DEF SetGroup, RegionGood, AtGroup
  <2>2. GroupLen \in Nat /\ GroupLen' = GroupLen
    BY <1>5, <1>6, <2>1, GroupIs DEF GroupLen
  <2>3. WordBits \in Nat \ {0} /\ at \in Nat
    BY <1>5, CpuMaskAssumption DEF AtGroup
  <2>4. at \div WordBits \in Nat /\ at % WordBits \in 0 .. WordBits - 1
        /\ at = (at \div WordBits) * WordBits + (at % WordBits)
    BY <2>3, Divided
  <2>5. room' \in 1 .. WordBits /\ WordBits - room' = at % WordBits
    BY <2>1, <2>3, <2>4
  <2>6. Pos' = at /\ word' \in Nat
    BY <2>1, <2>4, <2>5 DEF Pos
  <2>7. ones' = (WordBits - room') .. (WordBits - 1)
    BY <2>1, <2>5 DEF FirstWordMask
  <2>8. len' = at' + GroupLen' - Pos' /\ at' <= Pos' /\ len' \in Nat
    BY <2>1, <2>2, <2>3, <2>6
  <2>9. Left(Pos)'
    BY <1>1, <1>4, <1>5, <2>1, <2>6 DEF Left
  <2>10. RegionGood(region)' /\ AtGroup' /\ Reference(region)' \subseteq listed'
    BY <1>1, <1>5, <2>1 DEF AtGroup
  <2>11. Parsing'
    BY <1>1, <1>3, <1>4, <1>6, <2>1, <2>5, <2>6, <2>7, <2>8, <2>9, <2>10 DEF Parsing, IsWords
  <2>12. Using'
    BY <1>1, <1>3, <2>1 DEF Using, PmuRight
  <2> QED BY <2>11, <2>12
<1>7. CASE at > region.end
  <2>1. cmStep' = "region"
    BY <1>5, <1>7 DEF SetGroup, RegionGood, AtGroup
  <2>2. \A i \in Reference(region) : ~(at <= i)
    BY <1>5, <1>7 DEF Reference, RegionGood, AtGroup
  <2>3. listed \subseteq Bits(cmWords)
    BY <1>5, <2>2 DEF Left
  <2>4. Parsing'
    BY <1>1, <1>3, <1>4, <2>1, <2>3 DEF Parsing, IsWords
  <2>5. Using'
    BY <1>1, <1>3, <2>1 DEF Using, PmuRight
  <2> QED BY <2>4, <2>5
<1> QED BY <1>5, <1>6, <1>7 DEF RegionGood, AtGroup

\* The bit that __bitmap_set is about to set is in the bitmap.
LEMMA PosIn ==
  ASSUME Parsing, cmStep = "words", len # 0
  PROVE  /\ word \in WordNrs /\ WordBits - room \in AllOnes /\ Pos \in Nat
         /\ Pos = word * WordBits + (WordBits - room) /\ Pos + len <= NrCpus
<1>1. /\ RegionGood(region) /\ AtGroup /\ at <= region.end /\ word \in Nat /\ room \in 1 .. WordBits
      /\ len \in Nat /\ len = at + GroupLen - Pos /\ at <= Pos
  BY DEF Parsing
<1>2. GroupLen \in Nat /\ at + GroupLen <= region.end + 1
  BY <1>1, GroupIs
<1>3. WordBits \in Nat \ {0} /\ NrCpus \in Nat
  BY CpuMaskAssumption
<1>4. WordBits - room \in 0 .. WordBits - 1
  BY <1>1, <1>3
<1>5. word * WordBits + (WordBits - room) \in Nat /\ (word * WordBits + (WordBits - room)) \div WordBits = word
  BY <1>1, <1>3, <1>4, PlaceIs
<1>6. Pos \in Nat /\ Pos \div WordBits = word
  BY <1>5 DEF Pos
<1>7. at \in Nat /\ region.end \in Nat /\ region.end < NrCpus
  BY <1>1 DEF RegionGood, AtGroup
<1>8. Pos + len = at + GroupLen
  BY <1>1, <1>2, <1>6, <1>7
<1>9. Pos + len <= NrCpus /\ Pos \in Cpus
  BY <1>1, <1>2, <1>3, <1>6, <1>7, <1>8 DEF Cpus
<1>10. word \in WordNrs
  BY <1>6, <1>9, WordsReach
<1> QED BY <1>4, <1>6, <1>9, <1>10 DEF AllOnes, Pos

\* The bits from Pos to e of a word are set: the CPUs the list names, and no other.
LEMMA WordSet ==
  ASSUME Parsing, cmStep = "words", len # 0, NEW e \in Nat, Pos <= e, e < Pos + len,
         NEW hi \in AllOnes, e = word * WordBits + hi, NEW v,
         v = [cmWords EXCEPT ![word] = @ \cup ((WordBits - room) .. hi)]
  PROVE  /\ IsWords(v) /\ Bits(v) \subseteq listed
         /\ \A i \in listed : i \in Bits(v) \/ (i \in Reference(region) /\ e + 1 <= i)
<1>1. /\ RegionGood(region) /\ AtGroup /\ at <= region.end /\ Reference(region) \subseteq listed
      /\ len \in Nat /\ len = at + GroupLen - Pos /\ at <= Pos /\ Left(Pos)
      /\ IsWords(cmWords) /\ listed \subseteq Cpus /\ Bits(cmWords) \subseteq listed
  BY DEF Parsing
<1>2. /\ word \in WordNrs /\ WordBits - room \in AllOnes /\ Pos \in Nat
      /\ Pos = word * WordBits + (WordBits - room)
  BY PosIn
<1>3. /\ GroupLen \in Nat /\ GroupLen <= region.group
      /\ \A i \in Nat : at <= i /\ i < at + region.group => (i \in Reference(region) <=> i < at + GroupLen)
  BY <1>1, GroupIs
<1>4. at \in Nat /\ region.group \in Nat
  BY <1>1 DEF RegionGood, AtGroup
<1>5. /\ IsWords(v)
      /\ \A b \in Nat : b \in Bits(v) <=> b \in Bits(cmWords)
                                        \/ (word * WordBits + (WordBits - room) <= b /\ b <= word * WordBits + hi)
  <2> DEFINE lo == WordBits - room
  <2>1. lo \in AllOnes /\ v = [cmWords EXCEPT ![word] = @ \cup (lo .. hi)]
    BY <1>2
  <2> HIDE DEF lo
  <2>2. /\ IsWords(v)
        /\ \A b \in Nat : b \in Bits(v) <=> b \in Bits(cmWords)
                                          \/ (word * WordBits + lo <= b /\ b <= word * WordBits + hi)
    BY <1>1, <1>2, <2>1, RangeSet
  <2> QED BY <2>2 DEF lo
<1>6. \A b \in Nat : b \in Bits(v) <=> b \in Bits(cmWords) \/ (Pos <= b /\ b <= e)
  BY <1>2, <1>5
<1>7. ASSUME NEW b \in Bits(v) PROVE b \in listed
  <2>1. b \in Nat
    BY BitsAre
  <2>2. CASE b \in Bits(cmWords)
    BY <1>1, <2>2
  <2>3. CASE Pos <= b /\ b <= e
    <3>1. at <= b /\ b < at + GroupLen /\ b < at + region.group
      BY <1>1, <1>2, <1>3, <1>4, <2>1, <2>3
    <3>2. b \in Reference(region)
      BY <1>3, <2>1, <3>1
    <3> QED BY <1>1, <3>2
  <2> QED BY <1>6, <2>1, <2>2, <2>3
<1>8. ASSUME NEW i \in listed PROVE i \in Bits(v) \/ (i \in Reference(region) /\ e + 1 <= i)
  <2>1. i \in Nat
    BY <1>1, CpuMaskAssumption DEF Cpus
  <2>2. i \in Bits(cmWords) \/ (i \in Reference(region) /\ Pos <= i)
    BY <1>1 DEF Left
  <2>3. i <= e \/ e + 1 <= i
    BY <2>1
  <2> QED BY <1>6, <2>1, <2>2, <2>3
<1> QED BY <1>5, <1>7, <1>8

\* A whole word: __bitmap_set goes on with the next one.
LEMMA FillKept == ASSUME CmIInv, SetWord, FillsWord PROVE CmIInv'
<1>1. /\ UNCHANGED <<region, at, cpu, cpuset, pmuCpus, pmu, listed, wraps, cmStep>> /\ cmStep = "words"
      /\ cmWords' = [cmWords EXCEPT ![word] = @ \cup ones]
      /\ len' = len - room /\ room' = WordBits /\ ones' = AllOnes /\ word' = word + 1
  BY DEF SetWord
<1>2. SUFFICES ASSUME ~wraps PROVE Parsing' /\ Using'
  BY <1>1 DEF CmIInv
<1>3. Parsing /\ Using
  BY <1>2 DEF CmIInv
<1>4. /\ RegionGood(region) /\ AtGroup /\ at <= region.end /\ word \in Nat /\ room \in 1 .. WordBits
      /\ len \in Nat /\ ones = (WordBits - room) .. (WordBits - 1)
      /\ len = at + GroupLen - Pos /\ at <= Pos /\ Reference(region) \subseteq listed
  BY <1>1, <1>3 DEF Parsing
<1>5. WordBits \in Nat \ {0} /\ at \in Nat /\ GroupLen \in Nat
  BY <1>4, GroupIs, CpuMaskAssumption DEF AtGroup
<1>6. len >= room /\ len # 0
  BY <1>4, <1>5 DEF FillsWord
<1>7. Pos \in Nat /\ Pos = word * WordBits + (WordBits - room)
  BY <1>1, <1>3, <1>6, PosIn
<1>8. PICK e : e = Pos + room - 1
  OBVIOUS
<1>9. e \in Nat /\ Pos <= e /\ e < Pos + len /\ e = word * WordBits + (WordBits - 1)
  BY <1>4, <1>5, <1>6, <1>7, <1>8
<1>10. WordBits - 1 \in AllOnes
  BY <1>5 DEF AllOnes
<1>11. /\ IsWords(cmWords') /\ Bits(cmWords') \subseteq listed
       /\ \A i \in listed : i \in Bits(cmWords') \/ (i \in Reference(region) /\ e + 1 <= i)
  BY <1>1, <1>3, <1>4, <1>6, <1>9, <1>10, WordSet
<1>12. Pos' = e + 1
  <2>1. Pos' = (word + 1) * WordBits + (WordBits - WordBits)
    BY <1>1 DEF Pos
  <2> QED BY <1>4, <1>5, <1>9, <2>1
<1>13. Left(Pos)'
  BY <1>1, <1>11, <1>12 DEF Left
<1>14. GroupLen' = GroupLen /\ AtGroup'
  BY <1>1, <1>4 DEF GroupLen, AtGroup
<1>15. len' \in Nat /\ len' = at' + GroupLen' - Pos' /\ at' <= Pos' /\ word' \in Nat /\ room' \in 1 .. WordBits
  BY <1>1, <1>4, <1>5, <1>6, <1>7, <1>8, <1>12, <1>14
<1>16. ones' = (WordBits - room') .. (WordBits - 1)
  BY <1>1, <1>5 DEF AllOnes
<1>17. Parsing'
  BY <1>1, <1>3, <1>4, <1>11, <1>13, <1>14, <1>15, <1>16 DEF Parsing, IsWords
<1>18. Using'
  BY <1>1, <1>3 DEF Using, PmuRight
<1> QED BY <1>17, <1>18

\* The rest of the last word, and the next group of the region.
LEMMA RestKept == ASSUME CmIInv, SetWord, ~FillsWord PROVE CmIInv'
<1>1. /\ UNCHANGED <<region, cpu, cpuset, pmuCpus, pmu, listed, wraps>> /\ cmStep = "words" /\ cmStep' = "group"
      /\ cmWords' = IF len = 0 THEN cmWords
                    ELSE [cmWords EXCEPT ![word] = @ \cup (ones \cap LastWordMask(at + GroupLen))]
      /\ at' = (at + region.group) % UintMax
  BY DEF SetWord
<1>2. SUFFICES ASSUME ~wraps PROVE Parsing' /\ Using'
  BY <1>1 DEF CmIInv
<1>3. Parsing /\ Using
  BY <1>2 DEF CmIInv
<1>4. /\ RegionGood(region) /\ AtGroup /\ at <= region.end /\ word \in Nat /\ room \in 1 .. WordBits
      /\ len \in Nat /\ ones = (WordBits - room) .. (WordBits - 1)
      /\ len = at + GroupLen - Pos /\ at <= Pos /\ Reference(region) \subseteq listed
      /\ IsWords(cmWords) /\ listed \subseteq Cpus /\ Bits(cmWords) \subseteq listed /\ Left(Pos)
  BY <1>1, <1>3 DEF Parsing
<1>5. /\ WordBits \in Nat \ {0} /\ at \in Nat /\ GroupLen \in Nat /\ region.group \in Nat \ {0} /\ region.end \in Nat
      /\ region.start \in Nat /\ region.end + region.group < UintMax /\ UintMax \in Nat
      /\ GroupLen <= region.group
  BY <1>4, GroupIs, CpuMaskAssumption DEF AtGroup, RegionGood
<1>6. len < room
  BY <1>4, <1>5 DEF FillsWord
<1>7. at' = at + region.group
  <2>1. at + region.group \in Nat /\ at + region.group < UintMax
    BY <1>4, <1>5
  <2>2. \A x \in Nat : x < UintMax => x % UintMax = x
    BY <1>5
  <2> QED BY <1>1, <2>1, <2>2
<1>8. AtGroup'
  <2>1. PICK j \in Nat : at = region.start + j * region.group
    BY <1>4 DEF AtGroup
  <2>2. j + 1 \in Nat /\ at + region.group = region.start + (j + 1) * region.group
    <3>1. \A z, k, g \in Nat : (z + k * g) + g = z + (k + 1) * g
      OBVIOUS
    <3>2. (region.start + j * region.group) + region.group = region.start + (j + 1) * region.group
      <4>1. region.start \in Nat /\ region.group \in Nat
        BY <1>5
      <4> QED BY <3>1, <4>1, Zenon
    <3> QED BY <2>1, <3>2
  <2>3. at' \in Nat /\ at' = region.start + (j + 1) * region.group
    BY <1>5, <1>7, <2>2
  <2> QED BY <1>1, <2>2, <2>3 DEF AtGroup
<1>9. /\ IsWords(cmWords') /\ Bits(cmWords') \subseteq listed
      /\ \A i \in listed : i \in Bits(cmWords') \/ (i \in Reference(region) /\ at + GroupLen <= i)
  <2>1. CASE len = 0
    <3>1. cmWords' = cmWords
      BY <1>1, <2>1
    <3>2. Pos = at + GroupLen
      <4>1. Pos \in Int
        BY <1>4, <1>5 DEF Pos
      <4> QED BY <1>4, <1>5, <2>1, <4>1
    <3> QED BY <1>4, <3>1, <3>2 DEF Left
  <2>2. CASE len # 0
    <3>1. Pos \in Nat /\ Pos = word * WordBits + (WordBits - room)
      BY <1>1, <1>3, <2>2, PosIn
    <3>2. PICK e : e = (at + GroupLen) - 1
      OBVIOUS
    <3>3. PICK hi : hi = WordBits - room + len - 1
      OBVIOUS
    <3>4. hi \in 0 .. WordBits - 1
      <4>1. WordBits \in Nat /\ room \in Nat /\ room <= WordBits /\ len \in Nat
        BY <1>4, <1>5
      <4>2. hi \in Nat /\ hi <= WordBits - 1
        BY <1>6, <2>2, <3>3, <4>1
      <4> QED BY <4>1, <4>2
    <3>5. e \in Nat /\ Pos <= e /\ e < Pos + len /\ e = word * WordBits + hi
      BY <1>4, <1>5, <2>2, <3>1, <3>2, <3>3
    <3>6. (word * WordBits + hi) % WordBits = hi
      BY <1>4, <1>5, <3>4, PlaceIs
    <3>7. e % WordBits = hi
      BY <3>5, <3>6
    <3>8. LastWordMask(at + GroupLen) = 0 .. hi
      BY <3>2, <3>7, Zenon DEF LastWordMask
    <3>9. ones \cap LastWordMask(at + GroupLen) = (WordBits - room) .. hi
      BY <1>4, <1>5, <3>4, <3>8
    <3>10. cmWords' = [cmWords EXCEPT ![word] = @ \cup ((WordBits - room) .. hi)]
      BY <1>1, <2>2, <3>9
    <3>11. hi \in AllOnes
      BY <3>4 DEF AllOnes
    <3>12. /\ IsWords(cmWords') /\ Bits(cmWords') \subseteq listed
           /\ \A i \in listed : i \in Bits(cmWords') \/ (i \in Reference(region) /\ e + 1 <= i)
      BY <1>1, <1>3, <2>2, <3>5, <3>10, <3>11, WordSet
    <3>13. e + 1 = at + GroupLen
      BY <1>5, <3>2
    <3> QED BY <3>12, <3>13
  <2> QED BY <2>1, <2>2
<1>10. Left(at)'
  <2>1. ASSUME NEW i \in listed PROVE i \in Bits(cmWords') \/ (i \in Reference(region) /\ at' <= i)
    <3>1. i \in Nat
      BY <1>4, CpuMaskAssumption DEF Cpus
    <3>2. at <= i /\ i < at + region.group => (i \in Reference(region) <=> i < at + GroupLen)
      BY <1>4, <3>1, GroupIs
    <3>3. CASE i \in Reference(region) /\ at + GroupLen <= i
      <4>1. at <= i /\ ~(i < at + GroupLen)
        BY <1>5, <3>1, <3>3
      <4>2. ~(i < at + region.group)
        BY <3>2, <3>3, <4>1
      <4> QED BY <1>5, <1>7, <3>1, <3>3, <4>2
    <3> QED BY <1>9, <3>3
  <2> QED BY <1>1, <2>1 DEF Left
<1>11. Parsing'
  BY <1>1, <1>3, <1>4, <1>8, <1>9, <1>10 DEF Parsing, IsWords
<1>12. Using'
  BY <1>1, <1>3 DEF Using, PmuRight
<1> QED BY <1>11, <1>12

-----------------------------------------------------------------------------
\* _find_next_bit finds the first bit from start on.
LEMMA NextBit ==
  ASSUME NEW words, IsWords(words), Bits(words) \subseteq Cpus, NEW start \in Nat, NEW x,
         x = FindNextBit(words, start)
  PROVE  /\ x \in Nat
         /\ x < NrCpus => x \in Bits(words) /\ start <= x /\ \A b \in Bits(words) : start <= b => x <= b
         /\ x >= NrCpus => \A b \in Bits(words) : ~(start <= b)
<1> DEFINE n == WordBits
           s == start \div n
           z == start % n
           tmp(w) == IF w = s THEN words[w] \cap FirstWordMask(start) ELSE words[w]
           from == {w \in WordNrs : w >= s /\ tmp(w) # {}}
<1>0. n \in Nat \ {0} /\ NrCpus \in Nat /\ WordNrs \subseteq Nat
  BY CpuMaskAssumption, WordsReach
<1>1. s \in Nat /\ z \in 0 .. n - 1 /\ start = s * n + z
  BY <1>0, Divided
<1>2. x = IF start >= NrCpus \/ from = {} THEN NrCpus
          ELSE Min({Min(from) * n + Min(tmp(Min(from))), NrCpus})
  BY DEF FindNextBit
<1>3. FirstWordMask(start) = z .. (n - 1)
  BY DEF FirstWordMask
<1>4. \A w \in WordNrs : words[w] \subseteq 0 .. n - 1
  BY DEF IsWords, AllOnes
<1> HIDE DEF s, z, n
<1>5. ASSUME NEW b \in Nat
      PROVE  b \in Bits(words) /\ start <= b <=> b \div n \in from /\ b % n \in tmp(b \div n)
  <2> DEFINE v == b \div n
             y == b % n
  <2>1. v \in Nat /\ y \in 0 .. n - 1 /\ b = v * n + y
    BY <1>0, Divided
  <2>2. b \in Bits(words) <=> v \in WordNrs /\ y \in words[v]
    BY BitsAre, Zenon DEF n
  <2> HIDE DEF v, y
  <2>3. start <= b <=> (s < v \/ (s = v /\ z <= y))
    BY <1>0, <1>1, <2>1, PlaceOrder
  <2>4. y \in z .. (n - 1) <=> z <= y
    BY <1>0, <1>1, <2>1
  <2>5. v \in from /\ y \in tmp(v) <=> v \in WordNrs /\ v >= s /\ y \in tmp(v)
    BY Zenon
  <2>6. y \in tmp(v) <=> y \in words[v] /\ (v = s => z <= y)
    BY <1>3, <2>4
  <2>7. (v >= s <=> s < v \/ s = v) /\ (s < v => v # s)
    BY <1>1, <2>1
  <2>8. b \in Bits(words) /\ start <= b <=> v \in from /\ y \in tmp(v)
    <3> HIDE DEF from, tmp
    <3> QED BY <2>2, <2>3, <2>5, <2>6, <2>7, Zenon
  <2> QED BY <2>8 DEF v, y
<1>6. \A b \in Bits(words) : b \in Nat /\ b < NrCpus
  BY <1>0 DEF Cpus
<1>7. CASE start >= NrCpus \/ from = {}
  <2>1. x = NrCpus
    BY <1>2, <1>7, Zenon
  <2>2. ASSUME NEW b \in Bits(words), start <= b PROVE FALSE
    <3>1. b \in Nat /\ b < NrCpus /\ ~(start >= NrCpus)
      BY <1>0, <1>6, <2>2
    <3>2. b \div n \in from
      BY <1>5, <2>2, <3>1, Zenon
    <3> QED BY <1>7, <3>1, <3>2
  <2> QED BY <1>0, <2>1, <2>2
<1>8. CASE ~(start >= NrCpus \/ from = {})
  <2> DEFINE w == Min(from)
             m == Min(tmp(w))
             c == w * n + m
  <2>1. from \in SUBSET Nat /\ from # {}
    BY <1>0, <1>8
  <2>2. w \in from /\ \A u \in from : w <= u
    BY <2>1, MinIs
  <2>3. w \in WordNrs /\ w \in Nat /\ tmp(w) # {}
    BY <1>0, <2>2
  <2>4. tmp(w) \subseteq 0 .. n - 1
    <3>1. tmp(w) \subseteq words[w]
      OBVIOUS
    <3> QED BY <1>4, <2>3, <3>1
  <2>5. m \in tmp(w) /\ \A u \in tmp(w) : m <= u
    <3> HIDE DEF tmp, w
    <3>1. tmp(w) \in SUBSET Nat
      BY <1>0, <2>4
    <3> QED BY <2>3, <3>1, MinIs
  <2>6. x = Min({c, NrCpus})
    BY <1>2, <1>8, Zenon
  <2> HIDE DEF from, tmp, w, m
  <2>7. m \in 0 .. n - 1
    BY <2>4, <2>5
  <2>8. c \in Nat /\ c \div n = w /\ c % n = m
    BY <1>0, <2>3, <2>7, PlaceIs
  <2> HIDE DEF c
  <2>9. c \in Bits(words) /\ start <= c
    BY <1>5, <2>2, <2>5, <2>8
  <2>10. c < NrCpus
    BY <1>6, <2>9
  <2>11. x = c
    <3>1. x \in {c, NrCpus} /\ \A y \in {c, NrCpus} : x <= y
      <4>1. {c, NrCpus} \in SUBSET Nat /\ {c, NrCpus} # {}
        BY <1>0, <2>8
      <4> QED BY <2>6, <4>1, MinIs
    <3> QED BY <1>0, <2>8, <2>10, <3>1
  <2>12. ASSUME NEW b \in Bits(words), start <= b PROVE c <= b
    <3> DEFINE v == b \div n
               y == b % n
    <3>1. b \in Nat
      BY <1>6
    <3>2. v \in from /\ y \in tmp(v)
      BY <1>5, <2>12, <3>1, Zenon
    <3>3. v \in Nat /\ y \in 0 .. n - 1 /\ b = v * n + y
      BY <1>0, <3>1, Divided
    <3> HIDE DEF v, y
    <3>4. w <= v /\ (w = v => m <= y)
      BY <2>2, <2>5, <3>2
    <3>5. w < v \/ (w = v /\ m <= y)
      BY <2>3, <3>3, <3>4
    <3>6. w * n + m <= v * n + y
      BY <1>0, <2>3, <2>7, <3>3, <3>5, PlaceOrder
    <3> QED BY <3>3, <3>6 DEF c
  <2> QED BY <1>0, <2>8, <2>9, <2>10, <2>11, <2>12
<1> QED BY <1>7, <1>8

\* for_each_cpu keeps CmIInv.
LEMMA CpuCopyKept == ASSUME CmIInv, CopyCpu PROVE CmIInv'
<1> DEFINE next == FindNextBit(cmWords, cpu + 1)
<1>1. /\ UNCHANGED <<cmWords, region, at, word, len, room, ones, pmuCpus, pmu, listed, wraps>> /\ cmStep = "copy"
      /\ \/ next < NrCpus /\ cpu' = next /\ cpuset' = cpuset \cup {next} /\ cmStep' = "copy"
         \/ next >= NrCpus /\ cmStep' = "search" /\ UNCHANGED <<cpu, cpuset>>
  BY DEF CopyCpu, parseState
<1>2. SUFFICES ASSUME ~wraps PROVE Parsing' /\ Using'
  BY <1>1 DEF CmIInv
<1>3. Parsing /\ Using
  BY <1>2 DEF CmIInv
<1>4. Bits(cmWords)' = Bits(cmWords)
  BY <1>1 DEF Bits
<1>5. Parsing'
  BY <1>1, <1>3, <1>4 DEF Parsing, IsWords
<1>6. /\ IsWords(cmWords) /\ listed \subseteq Cpus /\ Bits(cmWords) = listed
      /\ cpu \in -1 .. NrCpus - 1 /\ cpuset = {c \in listed : c <= cpu} /\ pmu = <<"none">>
  BY <1>1, <1>3 DEF Parsing, Using
<1>7. cpu + 1 \in Nat /\ NrCpus \in Nat
  BY <1>6, CpuMaskAssumption
<1>8. /\ next \in Nat
      /\ next < NrCpus => next \in listed /\ cpu + 1 <= next /\ \A b \in listed : cpu + 1 <= b => next <= b
      /\ next >= NrCpus => \A b \in listed : ~(cpu + 1 <= b)
  BY <1>6, <1>7, NextBit
<1> HIDE DEF next
<1>9. \A c \in listed : c \in Nat
  BY <1>6, <1>7 DEF Cpus
<1>10. CASE next < NrCpus
  <2>1. cpu' = next /\ cpuset' = cpuset \cup {next} /\ cmStep' = "copy"
    BY <1>1, <1>7, <1>8, <1>10
  <2>2. \A c \in listed : c <= next <=> c <= cpu \/ c = next
    BY <1>6, <1>7, <1>8, <1>9, <1>10
  <2>3. cpuset' = {c \in listed : c <= next}
    BY <1>6, <1>8, <1>10, <2>1, <2>2
  <2>4. next \in -1 .. NrCpus - 1
    BY <1>7, <1>8, <1>10
  <2> QED BY <1>1, <1>5, <1>6, <2>1, <2>3, <2>4 DEF Using, PmuRight
<1>11. CASE next >= NrCpus
  <2>1. cmStep' = "search" /\ UNCHANGED <<cpu, cpuset>>
    BY <1>1, <1>7, <1>8, <1>11
  <2>2. \A c \in listed : c <= cpu
    BY <1>6, <1>7, <1>8, <1>9, <1>11
  <2>3. cpuset = listed
    BY <1>6, <2>2
  <2> QED BY <1>1, <1>5, <1>6, <2>1, <2>3 DEF Using, PmuRight
<1> QED BY <1>7, <1>8, <1>10, <1>11

\* bitmap_and finds only CPUs that both masks have.
LEMMA AndMeets ==
  ASSUME NEW S \in SUBSET Cpus, NEW T \in SUBSET Cpus, BitmapAnd(WordsOf(S), WordsOf(T))
  PROVE  S \cap T # {}
<1>1. PICK w \in WordNrs : WordsOf(S)[w] \cap WordsOf(T)[w] \cap WordMask(w) # {}
  BY DEF BitmapAnd
<1>2. PICK x : x \in WordsOf(S)[w] /\ x \in WordsOf(T)[w]
  BY <1>1
<1>3. w * WordBits + x \in S /\ w * WordBits + x \in T
  BY <1>2 DEF WordsOf
<1> QED BY <1>3

\* bitmap_subset accepts only a mask whose CPUs the other has, those of the last word too.
LEMMA SubsetIs ==
  ASSUME NEW S \in SUBSET Cpus, NEW T \in SUBSET Cpus, BitmapSubset(WordsOf(S), WordsOf(T))
  PROVE  S \subseteq T
<1> DEFINE n == WordBits
<1>0. n \in Nat \ {0} /\ NrCpus - 1 \in Nat /\ NrCpus \in Nat
  BY CpuMaskAssumption
<1>1. SUFFICES ASSUME NEW c \in S PROVE c \in T
  OBVIOUS
<1> DEFINE w == c \div n
           x == c % n
<1>2. c \in Nat /\ c <= NrCpus - 1 /\ w \in WordNrs
  BY <1>0, WordsReach DEF Cpus
<1>3. w \in Nat /\ x \in 0 .. n - 1 /\ c = w * n + x
  BY <1>0, <1>2, Divided
<1>4. w <= (NrCpus - 1) \div n /\ (NrCpus - 1) \div n \in Nat
      /\ (w = (NrCpus - 1) \div n => x <= (NrCpus - 1) % n)
  BY <1>0, <1>2, DividedOrder
<1>5. (NrCpus - 1) \div n <= NrCpus \div n /\ NrCpus \div n \in Nat
  BY <1>0, DividedOrder
<1>6. (NrCpus - 1) % n \in Nat
  BY <1>0, Divided
<1>7. WordMask(w) = IF w < NrCpus \div n THEN 0 .. n - 1 ELSE 0 .. ((NrCpus - 1) % n)
  BY DEF WordMask, AllOnes, LastWordMask
<1> DEFINE a == (NrCpus - 1) \div n
           d == (NrCpus - 1) % n
           f == NrCpus \div n
<1>8. WordMask(w) = IF w < f THEN 0 .. n - 1 ELSE 0 .. d
  BY <1>7
<1>9. w <= a /\ a \in Nat /\ (w = a => x <= d) /\ a <= f /\ f \in Nat /\ d \in Nat
  BY <1>4, <1>5, <1>6
<1>10. WordsOf(S)[w] = {b \in 0 .. n - 1 : w * n + b \in S} /\ WordsOf(T)[w] = {b \in 0 .. n - 1 : w * n + b \in T}
  BY <1>2 DEF WordsOf, AllOnes
<1>11. (WordsOf(S)[w] \ WordsOf(T)[w]) \cap WordMask(w) = {}
  BY <1>2 DEF BitmapSubset
<1> HIDE DEF a, d, f, w, x, n
<1>12. x \in WordMask(w)
  BY <1>0, <1>3, <1>8, <1>9
<1>13. x \in WordsOf(S)[w]
  BY <1>3, <1>10
<1>14. x \in WordsOf(T)[w]
  BY <1>11, <1>12, <1>13
<1> QED BY <1>3, <1>10, <1>14

\* find_pmu_cpumask keeps CmIInv.
LEMMA PmuKept == ASSUME CmIInv, NEW cpus \in SUBSET Cpus, TryPmu(cpus) PROVE CmIInv'
<1>1. /\ UNCHANGED <<cmWords, region, at, word, len, room, ones, cpu, cpuset, listed, wraps>> /\ cmStep = "search"
      /\ pmuCpus' = pmuCpus \cup cpus
  BY DEF TryPmu, parseState
<1>2. SUFFICES ASSUME ~wraps PROVE Parsing' /\ Using'
  BY <1>1 DEF CmIInv
<1>3. Parsing /\ Using
  BY <1>2 DEF CmIInv
<1>4. Bits(cmWords)' = Bits(cmWords)
  BY <1>1 DEF Bits
<1>5. cpuset = listed /\ cpuset \in SUBSET Cpus /\ pmu = <<"none">>
  BY <1>1, <1>3 DEF Parsing, Using
<1>6. \/ UNCHANGED <<cmStep, pmu>>
      \/ cmStep' = "end" /\ pmu' = pmu
      \/ cmStep' = "end" /\ pmu' = <<"stop">> /\ BitmapAnd(WordsOf(cpuset), WordsOf(cpus))
      \/ cmStep' = "end" /\ pmu' = <<"found", cpus>> /\ BitmapSubset(WordsOf(cpuset), WordsOf(cpus))
  BY DEF TryPmu
<1>7. cmStep' \in {"search", "end"} /\ (cmStep' # "end" => pmu' = <<"none">>)
  BY <1>1, <1>5, <1>6
<1>8. Parsing'
  BY <1>1, <1>3, <1>4, <1>7 DEF Parsing, IsWords
<1>9. pmu'[1] = "stop" => ~(cpuset \subseteq Cpus \ pmuCpus')
  <2>1. BitmapAnd(WordsOf(cpuset), WordsOf(cpus)) => cpuset \cap cpus # {}
    BY <1>5, AndMeets
  <2> QED BY <1>1, <1>5, <1>6, <2>1
<1>10. pmu'[1] = "found" => cpuset \subseteq pmu'[2]
  <2>1. BitmapSubset(WordsOf(cpuset), WordsOf(cpus)) => cpuset \subseteq cpus
    BY <1>5, SubsetIs
  <2> QED BY <1>5, <1>6, <2>1
<1>11. Using'
  BY <1>1, <1>5, <1>7, <1>9, <1>10 DEF Using, PmuRight
<1> QED BY <1>8, <1>11

\* CmaskSpec implies CmIInv: the bitmap never holds a CPU the list has not named, and
\* lacks only those of the current region from the next group or word on.
THEOREM CpuMasksIInv == CmaskSpec => []CmIInv
<1>1. CmaskInit => CmIInv
  <2> SUFFICES ASSUME CmaskInit PROVE CmIInv
    OBVIOUS
  <2>1. Bits(cmWords) = {}
    <3>1. \A b \in Nat : ~(b \in Bits(cmWords))
      BY BitsAre DEF CmaskInit
    <3> QED BY <3>1, BitsAre
  <2>2. Parsing
    BY <2>1 DEF CmaskInit, Parsing, IsWords
  <2>3. Using
    BY DEF CmaskInit, Using, PmuRight
  <2> QED BY <2>2, <2>3 DEF CmaskInit, CmIInv
<1>2. CmIInv /\ [CmaskNext]_cmVars => CmIInv'
  <2> SUFFICES ASSUME CmIInv, [CmaskNext]_cmVars PROVE CmIInv'
    OBVIOUS
  <2>1. CASE \E r \in ParsedRegions : ParseRegion(r)
    BY <2>1, ParseKept
  <2>2. CASE BadRegion \/ ListEnds
    BY <2>2, ListKept
  <2>3. CASE SetGroup
    BY <2>3, SetGroupKept
  <2>4. CASE SetWord
    BY <2>4, FillKept, RestKept
  <2>5. CASE CopyCpu
    BY <2>5, CpuCopyKept
  <2>6. CASE \E cpus \in SUBSET Cpus : TryPmu(cpus)
    BY <2>6, PmuKept
  <2>7. CASE UNCHANGED cmVars
    <3>1. UNCHANGED <<cmStep, cmWords, region, at, word, len, room, ones, cpu, cpuset, pmuCpus, pmu, listed, wraps>>
      BY <2>7 DEF cmVars, parseState
    <3>2. Bits(cmWords)' = Bits(cmWords) /\ Reference(region)' = Reference(region) /\ GroupLen' = GroupLen /\ Pos' = Pos
      BY <3>1 DEF Bits, Reference, GroupLen, Pos
    <3>3. Left(at)' = Left(at) /\ Left(Pos)' = Left(Pos) /\ RegionGood(region)' = RegionGood(region) /\ AtGroup' = AtGroup
      BY <3>1, <3>2 DEF Left, RegionGood, AtGroup
    <3>4. Parsing' = Parsing /\ Using' = Using
      BY <3>1, <3>2, <3>3 DEF Parsing, Using, IsWords, PmuRight
    <3> QED BY <3>1, <3>4 DEF CmIInv
  <2> QED BY <2>1, <2>2, <2>3, <2>4, <2>5, <2>6, <2>7 DEF CmaskNext
<1> QED BY <1>1, <1>2, PTL DEF CmaskSpec

\* The bitmap is the list, the affinity set is the bitmap, and the PMU that is chosen
\* serves all of it (CpuMaskInv), for every word size, list and number of CPUs.
THEOREM CpuMasksTrue == CmaskSpec => []CpuMaskInv
<1>1. CmIInv => CpuMaskInv
  BY Zenon DEF CmIInv, Parsing, Using, CpuMaskInv, MaskTrue, PmuRight
<1> QED BY <1>1, CpuMasksIInv, PTL

\* Transfers and CPU lists together.
THEOREM UtilitiesHold == IoSpec /\ CmaskSpec => []UtilitiesTrue
<1>1. TransferTrue /\ CpuMaskInv => UtilitiesTrue
  BY DEF UtilitiesTrue
<1> QED BY <1>1, TransfersTrue, CpuMasksTrue, PTL

-----------------------------------------------------------------------------
(* Disk images                                                             *)

\* A refcount block.
Block == [0 .. RbSize - 1 -> 0 .. CountMax]

\* An image is a record.
Shaped(q) ==
  q = [ver |-> q.ver, size |-> q.size, l1 |-> q.l1, l2 |-> q.l2, lru |-> q.lru, rft |-> q.rft, rb |-> q.rb,
       rlru |-> q.rlru, free |-> q.free, wild |-> q.wild, data |-> q.data]

\* The refcount blocks that the table names, and the block that counts c.
Blocks(q) == {q.rft[s] : s \in DOMAIN q.rft} \ {0}
Home(q, c) == q.rft[Slot(c)]

\* The counts of the file: everything in R and every block, but for what is in P, has a
\* count above zero.
FileTyped(q) ==
  /\ Shaped(q) /\ q.free \in Nat /\ q.rft \in Seq(Nat) /\ q.rb \in [DOMAIN q.rb -> Block]
  /\ Blocks(q) \subseteq DOMAIN q.rb
  /\ \A s, z \in DOMAIN q.rft : q.rft[s] # 0 /\ q.rft[s] = q.rft[z] => s = z

FileOk(q, R, P) ==
  /\ FileTyped(q)
  /\ q.rft # <<>> => \A c \in (R \cup Blocks(q)) \ P : HasBlock(q, c) /\ q.rb[Home(q, c)][c % RbSize] # 0

\* The cached blocks: no block is cached twice, and a count that is zero in the cache is
\* zero in the file.
Node == [off : Nat \ {0}, ent : Block, dirty : BOOLEAN]

NodesOk(s, rb) ==
  /\ \A i, k \in 1 .. Len(s) : s[i].off = s[k].off => i = k
  /\ \A i \in 1 .. Len(s) :
       /\ s[i].off \in DOMAIN rb
       /\ \A x \in 0 .. RbSize - 1 : s[i].ent[x] = 0 => rb[s[i].off][x] = 0

CacheOk(q) == q.rlru \in Seq(Node) /\ NodesOk(q.rlru, q.rb)

NodesIn(s, B) == \A i \in 1 .. Len(s) : s[i].off \in B
CacheIn(q) == NodesIn(q.rlru, Blocks(q))

\* Every copy of the count of c is zero.
NodesZero(s, o, x) == \A i \in 1 .. Len(s) : s[i].off = o => s[i].ent[x] = 0

FreeIn(q, c) ==
  HasBlock(q, c) => q.rb[Home(q, c)][c % RbSize] = 0 /\ NodesZero(q.rlru, Home(q, c), c % RbSize)

\* The L2 cache holds tables of the file.
L2Nodes(q) == {[off |-> o, tab |-> q.l2[o]] : o \in DOMAIN q.l2}

\* What the image holds for guest cluster g, as far as its tables tell.
Tells(q, g) == g \div L2Size + 1 <= Len(q.l1) /\ q.l1[g \div L2Size + 1].off # NoCluster
Held(q, g) ==
  LET i == g \div L2Size + 1
  IN IF q.l1[i].off = 0 \/ q.l2[q.l1[i].off][g % L2Size].off = 0 THEN Zero
     ELSE q.data[q.l2[q.l1[i].off][g % L2Size].off]

-----------------------------------------------------------------------------
\* The parts of an image that guests see are the same.
SameGuest(q, p) ==
  Shaped(p) /\ p.ver = q.ver /\ p.size = q.size /\ p.l1 = q.l1 /\ p.l2 = q.l2 /\ p.lru = q.lru /\ p.data = q.data

\* At most the cached blocks and the cursor differ.
CacheMoved(q, p) == SameGuest(q, p) /\ p.wild = q.wild /\ p.rft = q.rft /\ p.rb = q.rb

\* t has some of the nodes of s, each once.
IsPick(t, s) ==
  \E m \in [1 .. Len(t) -> 1 .. Len(s)] :
    /\ \A j, k \in 1 .. Len(t) : m[j] = m[k] => j = k
    /\ \A j \in 1 .. Len(t) : t[j] = s[m[j]]

\* The list after a hit.
LEMMA TouchIs ==
  ASSUME NEW S, NEW s \in Seq(S), NEW i \in 1 .. Len(s)
  PROVE  /\ Touch(s, i) \in Seq(S) /\ Len(Touch(s, i)) = Len(s) /\ Touch(s, i)[Len(s)] = s[i]
         /\ IsPick(Touch(s, i), s)
<1> DEFINE a == SubSeq(s, 1, i - 1)
           b == SubSeq(s, i + 1, Len(s))
           t == Touch(s, i)
           n == Len(s)
<1>0. n \in Nat /\ i \in Nat /\ 1 <= i /\ i <= n /\ s[i] \in S
  OBVIOUS
<1>1. a \in Seq(S) /\ Len(a) = i - 1 /\ \A j \in 1 .. i - 1 : a[j] = s[j]
  BY <1>0
<1>2. b \in Seq(S) /\ Len(b) = n - i /\ \A j \in 1 .. n - i : b[j] = s[i + j]
  BY <1>0
<1>3. t = (a \o b) \o <<s[i]>>
  BY DEF Touch
<1> HIDE DEF a, b, t, n
<1>4. a \o b \in Seq(S) /\ Len(a \o b) = n - 1
      /\ \A j \in 1 .. n - 1 : (a \o b)[j] = IF j <= i - 1 THEN a[j] ELSE b[j - (i - 1)]
  <2>1. a \o b \in Seq(S) /\ Len(a \o b) = Len(a) + Len(b)
        /\ \A j \in 1 .. Len(a) + Len(b) : (a \o b)[j] = IF j <= Len(a) THEN a[j] ELSE b[j - Len(a)]
    BY <1>1, <1>2, ConcatProperties
  <2>2. Len(a) + Len(b) = n - 1
    BY <1>0, <1>1, <1>2
  <2> QED BY <1>1, <2>1, <2>2
<1>5. t \in Seq(S) /\ Len(t) = n /\ t[n] = s[i] /\ \A j \in 1 .. n - 1 : t[j] = (a \o b)[j]
  BY <1>0, <1>3, <1>4
<1>6. \A j \in 1 .. n - 1 : t[j] = IF j <= i - 1 THEN s[j] ELSE s[j + 1]
  <2> TAKE j \in 1 .. n - 1
  <2>1. CASE j <= i - 1
    BY <1>0, <1>1, <1>4, <1>5, <2>1
  <2>2. CASE ~(j <= i - 1)
    <3>1. j - (i - 1) \in 1 .. n - i /\ i + (j - (i - 1)) = j + 1
      BY <1>0, <2>2
    <3> QED BY <1>2, <1>4, <1>5, <2>2, <3>1
  <2> QED BY <2>1, <2>2
<1> DEFINE m == [j \in 1 .. n |-> IF j = n THEN i ELSE IF j <= i - 1 THEN j ELSE j + 1]
<1>7. m \in [1 .. n -> 1 .. n] /\ \A j, k \in 1 .. n : m[j] = m[k] => j = k
  BY <1>0
<1>8. \A j \in 1 .. n : t[j] = s[m[j]]
  BY <1>0, <1>5, <1>6
<1>9. IsPick(t, s)
  <2> HIDE DEF m
  <2> QED BY <1>5, <1>7, <1>8 DEF IsPick, n
<1> QED BY <1>5, <1>9 DEF t, n

\* The list without its head.
LEMMA TailIs ==
  ASSUME NEW S, NEW s \in Seq(S), s # <<>>
  PROVE  Tail(s) \in Seq(S) /\ IsPick(Tail(s), s)
<1> DEFINE n == Len(s)
           t == Tail(s)
           m == [j \in 1 .. n - 1 |-> j + 1]
<1>1. n \in Nat /\ n >= 1 /\ t \in Seq(S) /\ Len(t) = n - 1 /\ \A j \in 1 .. n - 1 : t[j] = s[j + 1]
  OBVIOUS
<1> HIDE DEF n, t
<1>2. m \in [1 .. n - 1 -> 1 .. n] /\ (\A j, k \in 1 .. n - 1 : m[j] = m[k] => j = k) /\ \A j \in 1 .. n - 1 : t[j] = s[m[j]]
  BY <1>1
<1>3. IsPick(t, s)
  <2> HIDE DEF m
  <2> QED BY <1>1, <1>2 DEF IsPick, n
<1> QED BY <1>1, <1>3 DEF t

\* A list is a pick of itself.
LEMMA PickSelf == ASSUME NEW s, Len(s) \in Nat PROVE IsPick(s, s)
<1> DEFINE m == [j \in 1 .. Len(s) |-> j]
<1>1. m \in [1 .. Len(s) -> 1 .. Len(s)] /\ (\A j, k \in 1 .. Len(s) : m[j] = m[k] => j = k) /\ \A j \in 1 .. Len(s) : s[j] = s[m[j]]
  OBVIOUS
<1> HIDE DEF m
<1> QED BY <1>1 DEF IsPick

\* What holds of the nodes of a list holds of the nodes picked from it.
LEMMA Picked ==
  ASSUME NEW s, NEW t, IsPick(t, s)
  PROVE  /\ \A rb : NodesOk(s, rb) => NodesOk(t, rb)
         /\ \A B : NodesIn(s, B) => NodesIn(t, B)
         /\ \A o, x : NodesZero(s, o, x) => NodesZero(t, o, x)
<1>1. PICK m \in [1 .. Len(t) -> 1 .. Len(s)] : /\ \A j, k \in 1 .. Len(t) : m[j] = m[k] => j = k
                                               /\ \A j \in 1 .. Len(t) : t[j] = s[m[j]]
  BY DEF IsPick
<1>2. ASSUME NEW j \in 1 .. Len(t) PROVE m[j] \in 1 .. Len(s) /\ t[j].off = s[m[j]].off /\ t[j].ent = s[m[j]].ent
  <2>1. m[j] \in 1 .. Len(s) /\ t[j] = s[m[j]]
    BY <1>1
  <2> QED BY <2>1
<1>3. ASSUME NEW rb, NodesOk(s, rb) PROVE NodesOk(t, rb)
  <2>1. ASSUME NEW j \in 1 .. Len(t), NEW k \in 1 .. Len(t), t[j].off = t[k].off PROVE j = k
    <3>1. s[m[j]].off = s[m[k]].off /\ m[j] \in 1 .. Len(s) /\ m[k] \in 1 .. Len(s)
      BY <1>2, <2>1
    <3>2. m[j] = m[k]
      BY <1>3, <3>1, Zenon DEF NodesOk
    <3> QED BY <1>1, <3>2
  <2>2. ASSUME NEW j \in 1 .. Len(t)
        PROVE  t[j].off \in DOMAIN rb /\ \A x \in 0 .. RbSize - 1 : t[j].ent[x] = 0 => rb[t[j].off][x] = 0
    <3>1. m[j] \in 1 .. Len(s) /\ t[j].off = s[m[j]].off /\ t[j].ent = s[m[j]].ent
      BY <1>2
    <3>2. s[m[j]].off \in DOMAIN rb /\ \A x \in 0 .. RbSize - 1 : s[m[j]].ent[x] = 0 => rb[s[m[j]].off][x] = 0
      BY <1>3, <3>1, Zenon DEF NodesOk
    <3> QED BY <3>1, <3>2
  <2> QED BY <2>1, <2>2, Zenon DEF NodesOk
<1>4. \A B : NodesIn(s, B) => NodesIn(t, B)
  BY <1>2 DEF NodesIn
<1>5. ASSUME NEW o, NEW x, NodesZero(s, o, x) PROVE NodesZero(t, o, x)
  <2>1. ASSUME NEW j \in 1 .. Len(t), t[j].off = o PROVE t[j].ent[x] = 0
    <3>1. m[j] \in 1 .. Len(s) /\ t[j].off = s[m[j]].off /\ t[j].ent = s[m[j]].ent
      BY <1>2
    <3>2. s[m[j]].ent[x] = 0
      BY <1>5, <2>1, <3>1 DEF NodesZero
    <3> QED BY <3>1, <3>2
  <2> QED BY <2>1 DEF NodesZero
<1> QED BY <1>3, <1>4, <1>5, Zenon

\* A node is added at the tail, and the head goes when the cache is full.
LEMMA InsertIs ==
  ASSUME NEW S, NEW s \in Seq(S), NEW n \in S
  PROVE  \E t \in Seq(S) : IsPick(t, s) /\ CacheInsert(s, n) = Append(t, n)
<1>1. CASE Len(s) = MaxCache
  <2>1. s # <<>>
    BY <1>1, DiskAssumption
  <2>2. Tail(s) \in Seq(S) /\ IsPick(Tail(s), s)
    BY <2>1, TailIs
  <2> QED BY <1>1, <2>2 DEF CacheInsert
<1>2. CASE Len(s) # MaxCache
  <2>1. IsPick(s, s)
    BY PickSelf
  <2> QED BY <1>2, <2>1 DEF CacheInsert
<1> QED BY <1>1, <1>2

\* A node at the tail of picked ones.
LEMMA Appended ==
  ASSUME NEW t \in Seq(Node), NEW n \in Node, NEW rb, NodesOk(t, rb), n.off \in DOMAIN rb,
         \A i \in 1 .. Len(t) : t[i].off # n.off,
         \A x \in 0 .. RbSize - 1 : n.ent[x] = 0 => rb[n.off][x] = 0
  PROVE  NodesOk(Append(t, n), rb)
<1> DEFINE u == Append(t, n)
<1>1. u \in Seq(Node) /\ Len(u) = Len(t) + 1 /\ u[Len(t) + 1] = n /\ (\A i \in 1 .. Len(t) : u[i] = t[i]) /\ Len(t) \in Nat
  OBVIOUS
<1> HIDE DEF u
<1>2. \A i \in 1 .. Len(u) : (i \in 1 .. Len(t) /\ u[i] = t[i]) \/ (i = Len(t) + 1 /\ u[i] = n)
  BY <1>1
<1>3. ASSUME NEW i \in 1 .. Len(u), NEW k \in 1 .. Len(u), u[i].off = u[k].off PROVE i = k
  <2>1. \A j, l \in 1 .. Len(t) : t[j].off = t[l].off => j = l
    BY DEF NodesOk
  <2> QED BY <1>2, <1>3, <2>1
<1>4. ASSUME NEW i \in 1 .. Len(u)
      PROVE  u[i].off \in DOMAIN rb /\ \A x \in 0 .. RbSize - 1 : u[i].ent[x] = 0 => rb[u[i].off][x] = 0
  <2>1. CASE i \in 1 .. Len(t) /\ u[i] = t[i]
    <3>1. t[i].off \in DOMAIN rb /\ \A x \in 0 .. RbSize - 1 : t[i].ent[x] = 0 => rb[t[i].off][x] = 0
      BY <2>1, Zenon DEF NodesOk
    <3> QED BY <2>1, <3>1
  <2>2. CASE u[i] = n
    BY <2>2
  <2> QED BY <1>2, <2>1, <2>2
<1>5. NodesOk(u, rb)
  BY <1>3, <1>4, Zenon DEF NodesOk
<1> QED BY <1>5 DEF u

\* A node at the tail of a list: where the nodes are, and which counts are zero.
LEMMA AppendedMore ==
  ASSUME NEW t \in Seq(Node), NEW n \in Node
  PROVE  /\ Append(t, n) \in Seq(Node) /\ Len(Append(t, n)) = Len(t) + 1 /\ Append(t, n)[Len(t) + 1] = n
         /\ \A B : NodesIn(t, B) /\ n.off \in B => NodesIn(Append(t, n), B)
         /\ \A o, x : NodesZero(t, o, x) /\ (n.off = o => n.ent[x] = 0) => NodesZero(Append(t, n), o, x)
<1> DEFINE u == Append(t, n)
<1>1. u \in Seq(Node) /\ Len(u) = Len(t) + 1 /\ u[Len(t) + 1] = n /\ (\A i \in 1 .. Len(t) : u[i] = t[i]) /\ Len(t) \in Nat
  OBVIOUS
<1> HIDE DEF u
<1>2. \A i \in 1 .. Len(u) : (i \in 1 .. Len(t) /\ u[i] = t[i]) \/ (i = Len(t) + 1 /\ u[i] = n)
  BY <1>1
<1>3. \A B : NodesIn(t, B) /\ n.off \in B => NodesIn(u, B)
  BY <1>2 DEF NodesIn
<1>4. ASSUME NEW o, NEW x, NodesZero(t, o, x), n.off = o => n.ent[x] = 0 PROVE NodesZero(u, o, x)
  <2>1. ASSUME NEW i \in 1 .. Len(u), u[i].off = o PROVE u[i].ent[x] = 0
    BY <1>2, <1>4, <2>1 DEF NodesZero
  <2> QED BY <2>1 DEF NodesZero
<1>5. \A o, x : NodesZero(t, o, x) /\ (n.off = o => n.ent[x] = 0) => NodesZero(u, o, x)
  BY <1>4, Zenon
<1> QED BY <1>1, <1>3, <1>5 DEF u

\* Where the count of a cluster is.
LEMMA Where ==
  ASSUME NEW q, FileTyped(q), NEW c \in Nat
  PROVE  /\ Slot(c) \in Nat \ {0} /\ c % RbSize \in 0 .. RbSize - 1 /\ RbSize \in Nat \ {0}
         /\ HasBlock(q, c) => /\ Slot(c) \in DOMAIN q.rft /\ Home(q, c) \in Blocks(q) /\ Home(q, c) \in DOMAIN q.rb
                              /\ Home(q, c) \in Nat \ {0} /\ q.rb[Home(q, c)] \in Block
<1>1. RbSize \in Nat \ {0}
  BY DiskAssumption
<1>2. c \div RbSize \in Nat /\ c % RbSize \in 0 .. RbSize - 1
  BY <1>1
<1>3. Slot(c) \in Nat \ {0}
  BY <1>2 DEF Slot
<1>4. ASSUME HasBlock(q, c)
      PROVE  /\ Slot(c) \in DOMAIN q.rft /\ Home(q, c) \in Blocks(q) /\ Home(q, c) \in DOMAIN q.rb
             /\ Home(q, c) \in Nat \ {0} /\ q.rb[Home(q, c)] \in Block
  <2>1. q.rft \in Seq(Nat) /\ Slot(c) <= Len(q.rft) /\ q.rft[Slot(c)] # 0
    BY <1>4 DEF FileTyped, HasBlock
  <2>2. Slot(c) \in DOMAIN q.rft /\ q.rft[Slot(c)] \in Nat
    BY <1>3, <2>1
  <2>3. Home(q, c) \in Blocks(q) /\ Home(q, c) \in Nat \ {0}
    BY <2>1, <2>2 DEF Home, Blocks
  <2>4. Home(q, c) \in DOMAIN q.rb
    BY <2>3 DEF FileTyped
  <2> QED BY <2>2, <2>3, <2>4 DEF FileTyped
<1> QED BY <1>2, <1>3, <1>4, <1>1

\* Two clusters whose counts are at the same place are one.
LEMMA SamePlace ==
  ASSUME NEW q, FileTyped(q), NEW c \in Nat, NEW b \in Nat, HasBlock(q, c), HasBlock(q, b),
         Home(q, c) = Home(q, b), c % RbSize = b % RbSize
  PROVE  c = b
<1>1. /\ Slot(c) \in DOMAIN q.rft /\ Slot(b) \in DOMAIN q.rft /\ RbSize \in Nat \ {0} /\ q.rft[Slot(c)] # 0
      /\ q.rft[Slot(c)] = q.rft[Slot(b)]
  BY Where DEF HasBlock, Home
<1>2. Slot(c) = Slot(b)
  BY <1>1 DEF FileTyped
<1> DEFINE n == RbSize
           v == c \div n
           w == b \div n
           x == c % n
           y == b % n
<1>3. v \in Nat /\ w \in Nat /\ c = (v * n) + x /\ b = (w * n) + y /\ x \in Nat /\ y \in Nat
  <2>0. n \in Nat \ {0}
    BY <1>1
  <2> HIDE DEF n
  <2>1. \A z \in Nat : z = (n * (z \div n)) + (z % n) /\ z \div n \in Nat /\ z % n \in Nat
    BY <2>0
  <2>2. \A z \in Nat : n * (z \div n) = (z \div n) * n
    BY <2>0, <2>1
  <2> QED BY <2>1, <2>2
<1>4. v + 1 = w + 1
  BY <1>2 DEF Slot
<1> HIDE DEF v, w
<1>5. v = w
  BY <1>3, <1>4
<1> QED BY <1>3, <1>5

\* qcow_read_refcount_block changes the cache only, and leaves the block at its tail.
LEMMA BlockRead ==
  ASSUME NEW q, FileTyped(q), CacheOk(q), NEW c \in Nat, HasBlock(q, c), NEW rf
  PROVE  LET r == ReadBlock(q, c, rf)
             l == r.q.rlru
         IN /\ CacheMoved(q, r.q) /\ r.q.free = q.free /\ CacheOk(r.q) /\ (rf = "none" => r.ok) /\ r.ok \in BOOLEAN
            /\ r.ok => Len(l) \in Nat /\ Len(l) >= 1 /\ l[Len(l)].off = Home(q, c)
            /\ CacheIn(q) => CacheIn(r.q)
            /\ \A x \in Nat : FreeIn(q, x) => FreeIn(r.q, x)
<1> DEFINE r == ReadBlock(q, c, rf)
           o == Home(q, c)
<1>0. /\ Shaped(q) /\ o \in Blocks(q) /\ o \in DOMAIN q.rb /\ o \in Nat \ {0} /\ q.rb[o] \in Block
      /\ q.rlru \in Seq(Node) /\ NodesOk(q.rlru, q.rb)
  BY Where DEF FileTyped, CacheOk
<1>1. ASSUME NEW l \in Seq(Node), NodesOk(l, q.rb), r.q = [q EXCEPT !.rlru = l],
             NodesIn(q.rlru, Blocks(q)) => NodesIn(l, Blocks(q)),
             \A x \in Nat : HasBlock(q, x) /\ q.rb[Home(q, x)][x % RbSize] = 0 /\ NodesZero(q.rlru, Home(q, x), x % RbSize)
                              => NodesZero(l, Home(q, x), x % RbSize)
      PROVE  /\ CacheMoved(q, r.q) /\ r.q.free = q.free /\ CacheOk(r.q) /\ (CacheIn(q) => CacheIn(r.q)) /\ r.q.rlru = l
             /\ \A x \in Nat : FreeIn(q, x) => FreeIn(r.q, x)
  <2> DEFINE p == r.q
  <2>1. /\ Shaped(p) /\ p.rlru = l /\ p.ver = q.ver /\ p.size = q.size /\ p.l1 = q.l1 /\ p.l2 = q.l2 /\ p.lru = q.lru
        /\ p.rft = q.rft /\ p.rb = q.rb /\ p.free = q.free /\ p.wild = q.wild /\ p.data = q.data
    BY <1>0, <1>1 DEF Shaped
  <2> HIDE DEF p
  <2>2. CacheMoved(q, p) /\ CacheOk(p)
    BY <1>1, <2>1 DEF CacheMoved, SameGuest, CacheOk
  <2>3. Blocks(p) = Blocks(q)
    BY <2>1 DEF Blocks
  <2>4. CacheIn(q) => CacheIn(p)
    BY <1>1, <2>1, <2>3 DEF CacheIn
  <2>5. \A x \in Nat : FreeIn(q, x) => FreeIn(p, x)
    <3>1. \A x : HasBlock(p, x) = HasBlock(q, x) /\ Home(p, x) = Home(q, x)
      BY <2>1 DEF HasBlock, Home
    <3> QED BY <1>1, <2>1, <3>1, Zenon DEF FreeIn
  <2> QED BY <2>1, <2>2, <2>4, <2>5 DEF p
<1>2. CASE Cached(q.rlru, o) # {}
  <2> DEFINE i == CHOOSE i \in Cached(q.rlru, o) : TRUE
             l == Touch(q.rlru, i)
  <2>1. i \in Cached(q.rlru, o)
    BY <1>2
  <2>2. i \in 1 .. Len(q.rlru) /\ q.rlru[i].off = o
    BY <2>1 DEF Cached
  <2>3. r = [ok |-> TRUE, q |-> [q EXCEPT !.rlru = l]]
    BY <1>2 DEF ReadBlock, Home
  <2> HIDE DEF i
  <2>4. l \in Seq(Node) /\ Len(l) = Len(q.rlru) /\ l[Len(l)].off = o /\ IsPick(l, q.rlru)
    BY <1>0, <2>2, TouchIs
  <2> HIDE DEF l
  <2>5. /\ NodesOk(l, q.rb) /\ (NodesIn(q.rlru, Blocks(q)) => NodesIn(l, Blocks(q)))
        /\ \A x, y : NodesZero(q.rlru, x, y) => NodesZero(l, x, y)
    BY <1>0, <2>4, Picked
  <2>6. r.q = [q EXCEPT !.rlru = l] /\ r.ok
    BY <2>3
  <2>7. Len(l) \in Nat /\ Len(l) >= 1
    BY <1>0, <2>2, <2>4
  <2> QED BY <1>1, <2>4, <2>5, <2>6, <2>7
<1>3. CASE Cached(q.rlru, o) = {} /\ rf = "table"
  <2>1. r = [ok |-> FALSE, q |-> q]
    BY <1>3 DEF ReadBlock, Home
  <2>2. q = [q EXCEPT !.rlru = q.rlru]
    BY <1>0 DEF Shaped
  <2>3. r.q = [q EXCEPT !.rlru = q.rlru] /\ ~r.ok /\ r.ok \in BOOLEAN
    BY <2>1, <2>2
  <2> QED BY <1>0, <1>1, <1>3, <2>3
<1>4. CASE Cached(q.rlru, o) = {} /\ rf # "table"
  <2> DEFINE n == [off |-> o, ent |-> q.rb[o], dirty |-> FALSE]
             l == CacheInsert(q.rlru, n)
  <2>1. r = [ok |-> TRUE, q |-> [q EXCEPT !.rlru = l]]
    BY <1>4 DEF ReadBlock, Home
  <2>2. n \in Node /\ n.off = o /\ n.ent = q.rb[o]
    BY <1>0 DEF Node
  <2> HIDE DEF n
  <2>3. PICK t \in Seq(Node) : IsPick(t, q.rlru) /\ l = Append(t, n)
    BY <1>0, <2>2, InsertIs
  <2>4. \A i \in 1 .. Len(q.rlru) : q.rlru[i].off # o
    BY <1>4 DEF Cached
  <2>5. /\ NodesOk(t, q.rb) /\ (NodesIn(q.rlru, Blocks(q)) => NodesIn(t, Blocks(q)))
        /\ \A x, y : NodesZero(q.rlru, x, y) => NodesZero(t, x, y)
        /\ NodesIn(t, {x \in Nat : x # o})
    <3>1. NodesIn(q.rlru, {x \in Nat : x # o})
      <4>1. ASSUME NEW i \in 1 .. Len(q.rlru) PROVE q.rlru[i].off \in {x \in Nat : x # o}
        <5>1. q.rlru[i] \in Node
          BY <1>0
        <5> QED BY <2>4, <5>1 DEF Node
      <4> QED BY <4>1 DEF NodesIn
    <3> QED BY <1>0, <2>3, <3>1, Picked
  <2>6. \A i \in 1 .. Len(t) : t[i].off # n.off
    BY <2>2, <2>5 DEF NodesIn
  <2> HIDE DEF l, r
  <2>7. NodesOk(l, q.rb)
    BY <1>0, <2>2, <2>3, <2>5, <2>6, Appended
  <2>8. /\ l \in Seq(Node) /\ Len(l) = Len(t) + 1 /\ l[Len(t) + 1] = n
        /\ \A B : NodesIn(t, B) /\ n.off \in B => NodesIn(l, B)
        /\ \A y, x : NodesZero(t, y, x) /\ (n.off = y => n.ent[x] = 0) => NodesZero(l, y, x)
    BY <2>2, <2>3, AppendedMore
  <2>9. NodesIn(q.rlru, Blocks(q)) => NodesIn(l, Blocks(q))
    BY <1>0, <2>2, <2>5, <2>8
  <2>10. \A x \in Nat : HasBlock(q, x) /\ q.rb[Home(q, x)][x % RbSize] = 0 /\ NodesZero(q.rlru, Home(q, x), x % RbSize)
                          => NodesZero(l, Home(q, x), x % RbSize)
    BY <2>2, <2>5, <2>8
  <2>11. r.q = [q EXCEPT !.rlru = l] /\ r.ok
    BY <2>1
  <2>12. Len(l) \in Nat /\ Len(l) >= 1 /\ l[Len(l)].off = o
    BY <2>2, <2>3, <2>8
  <2>13. /\ CacheMoved(q, r.q) /\ r.q.free = q.free /\ CacheOk(r.q) /\ (CacheIn(q) => CacheIn(r.q)) /\ r.q.rlru = l
         /\ \A x \in Nat : FreeIn(q, x) => FreeIn(r.q, x)
    <3>1. l \in Seq(Node)
      BY <2>8
    <3> QED BY <1>1, <2>7, <2>9, <2>10, <2>11, <3>1
  <2>14. r.ok \in BOOLEAN /\ r.ok
    BY <2>1
  <2>15. r.ok => Len(r.q.rlru) \in Nat /\ Len(r.q.rlru) >= 1 /\ r.q.rlru[Len(r.q.rlru)].off = o
    BY <2>12, <2>13
  <2> QED BY <2>13, <2>14, <2>15, Zenon DEF r
<1> QED BY <1>2, <1>3, <1>4

\* The greatest count.
LEMMA CountMaxIs == CountMax \in Nat /\ CountMax > 1
BY DEF CountMax

\* Reading of counts changes nothing else.
Quiet(q, p) ==
  /\ CacheMoved(q, p) /\ p.free \in Nat /\ CacheOk(p) /\ (CacheIn(q) => CacheIn(p))
  /\ \A x \in Nat : FreeIn(q, x) => FreeIn(p, x)

\* Two quiet steps are one.
LEMMA QuietTrans == ASSUME NEW q, NEW p, NEW r, Quiet(q, p), Quiet(p, r) PROVE Quiet(q, r)
<1>1. CacheMoved(q, r)
  BY DEF Quiet, CacheMoved, SameGuest
<1> QED BY <1>1, Zenon DEF Quiet

\* A quiet step keeps the counts of the file.
LEMMA QuietFile ==
  ASSUME NEW q, NEW p, FileTyped(q), Quiet(q, p)
  PROVE  FileTyped(p) /\ Blocks(p) = Blocks(q) /\ (\A c : (HasBlock(p, c) <=> HasBlock(q, c)) /\ Home(p, c) = Home(q, c))
         /\ \A R, P : FileOk(q, R, P) => FileOk(p, R, P)
<1>1. Shaped(p) /\ p.rft = q.rft /\ p.rb = q.rb /\ p.free \in Nat
  BY DEF Quiet, CacheMoved, SameGuest
<1>2. Blocks(p) = Blocks(q)
  BY <1>1 DEF Blocks
<1>3. \A c : (HasBlock(p, c) <=> HasBlock(q, c)) /\ Home(p, c) = Home(q, c)
  BY <1>1 DEF HasBlock, Home
<1>4. FileTyped(p)
  BY <1>1, <1>2, Zenon DEF FileTyped
<1>5. \A R, P : FileOk(q, R, P) => FileOk(p, R, P)
  BY <1>1, <1>2, <1>3, <1>4, Zenon DEF FileOk
<1> QED BY <1>2, <1>3, <1>4, <1>5

\* Only the cursor moves.
LEMMA CursorMoves ==
  ASSUME NEW q, FileTyped(q), CacheOk(q), NEW n \in Nat
  PROVE  Quiet(q, [q EXCEPT !.free = n]) /\ [q EXCEPT !.free = n].free = n
<1> DEFINE p == [q EXCEPT !.free = n]
<1>1. Shaped(q)
  BY DEF FileTyped
<1>2. /\ Shaped(p) /\ p.rlru = q.rlru /\ p.ver = q.ver /\ p.size = q.size /\ p.l1 = q.l1 /\ p.l2 = q.l2 /\ p.lru = q.lru
      /\ p.rft = q.rft /\ p.rb = q.rb /\ p.free = n /\ p.wild = q.wild /\ p.data = q.data
  BY <1>1 DEF Shaped
<1> HIDE DEF p
<1>3. CacheMoved(q, p)
  BY <1>2 DEF CacheMoved, SameGuest
<1>4. CacheOk(p) /\ (CacheIn(q) => CacheIn(p))
  BY <1>2 DEF CacheOk, CacheIn, Blocks
<1>5. \A x \in Nat : FreeIn(q, x) => FreeIn(p, x)
  <2>1. \A x : HasBlock(p, x) = HasBlock(q, x) /\ Home(p, x) = Home(q, x)
    BY <1>2 DEF HasBlock, Home
  <2> QED BY <1>2, <2>1, Zenon DEF FreeIn
<1>6. Quiet(q, p) /\ p.free = n
  BY <1>2, <1>3, <1>4, <1>5, Zenon DEF Quiet
<1> QED BY <1>6 DEF p

\* What the last node of the cache says of the count of c.
LEMMA LastCount ==
  ASSUME NEW q, FileTyped(q), CacheOk(q), NEW c \in Nat, HasBlock(q, c), Len(q.rlru) >= 1,
         q.rlru[Len(q.rlru)].off = Home(q, c)
  PROVE  /\ Len(q.rlru) \in 1 .. Len(q.rlru) /\ q.rlru[Len(q.rlru)] \in Node
         /\ Count(q, c) \in 0 .. CountMax
         /\ Count(q, c) = 0 <=> FreeIn(q, c)
<1> DEFINE l == q.rlru
           n == Len(l)
           x == c % RbSize
           o == Home(q, c)
<1>1. l \in Seq(Node) /\ n \in Nat /\ n \in 1 .. n /\ NodesOk(l, q.rb)
  BY DEF CacheOk
<1>2. l[n] \in Node /\ x \in 0 .. RbSize - 1
  <2>1. l[n] \in Node
    BY <1>1
  <2> QED BY <2>1, Where
<1>3. l[n].ent \in Block /\ Count(q, c) = l[n].ent[x]
  BY <1>2 DEF Node, Count
<1> HIDE DEF l, n, x, o
<1>4. Count(q, c) \in 0 .. CountMax
  <2>1. l[n].ent \in [0 .. RbSize - 1 -> 0 .. CountMax]
    BY <1>3 DEF Block
  <2>2. x \in 0 .. RbSize - 1
    BY <1>2
  <2>3. l[n].ent[x] \in 0 .. CountMax
    BY <2>1, <2>2
  <2>4. Count(q, c) = l[n].ent[x]
    BY <1>3
  <2> QED BY <2>3, <2>4
<1>5. ASSUME Count(q, c) = 0 PROVE FreeIn(q, c)
  <2>1. l[n].off = o
    BY DEF l, n, o
  <2>2. q.rb[o][x] = 0
    <3>1. \A y \in 0 .. RbSize - 1 : l[n].ent[y] = 0 => q.rb[l[n].off][y] = 0
      BY <1>1, Zenon DEF NodesOk, n
    <3> QED BY <1>2, <1>3, <1>5, <2>1, <3>1
  <2>3. NodesZero(l, o, x)
    <3>1. \A i \in 1 .. n : l[i].off = o => i = n
      BY <1>1, <2>1, Zenon DEF NodesOk, n
    <3> QED BY <1>3, <1>5, <3>1 DEF NodesZero, n
  <2> QED BY <2>2, <2>3 DEF FreeIn, l, o, x
<1>6. ASSUME FreeIn(q, c) PROVE Count(q, c) = 0
  <2>1. NodesZero(l, o, x) /\ l[n].off = o
    BY <1>6, Zenon DEF FreeIn, l, o, x, n
  <2> QED BY <1>1, <1>3, <2>1 DEF NodesZero, n
<1> QED BY <1>1, <1>2, <1>4, <1>5, <1>6 DEF l, n

\* qcow_get_refcount: zero is the count of a cluster that is nowhere counted.
LEMMA RefcountIs ==
  ASSUME NEW q, FileTyped(q), CacheOk(q), NEW c \in Nat, NEW rf
  PROVE  LET r == GetRefcount(q, c, rf)
         IN Quiet(q, r.q) /\ r.q.free = q.free /\ r.n \in -1 .. CountMax /\ (r.n = 0 => FreeIn(r.q, c))
<1> DEFINE r == GetRefcount(q, c, rf)
           b == ReadBlock(q, c, rf)
<1>0. q.free \in Nat
  BY DEF FileTyped
<1>q. Quiet(q, q)
  <2>1. CacheMoved(q, q)
    BY DEF CacheMoved, SameGuest, FileTyped
  <2> QED BY <1>0, <2>1 DEF Quiet
<1>1. CASE ~HasBlock(q, c)
  <2>1. r = [q |-> q, n |-> 0]
    BY <1>1 DEF GetRefcount
  <2>2. FreeIn(q, c)
    BY <1>1 DEF FreeIn
  <2>3. r.q = q /\ r.n = 0
    BY <2>1
  <2> HIDE DEF r
  <2>4. Quiet(q, r.q) /\ r.q.free = q.free /\ FreeIn(r.q, c)
    BY <1>q, <2>2, <2>3
  <2> QED BY <2>3, <2>4, CountMaxIs DEF r
<1>2. CASE HasBlock(q, c)
  <2>1. r = IF b.ok THEN [q |-> b.q, n |-> Count(b.q, c)] ELSE [q |-> q, n |-> -1]
    BY <1>2 DEF GetRefcount, CountOf
  <2>2. /\ CacheMoved(q, b.q) /\ b.q.free = q.free /\ CacheOk(b.q)
        /\ b.ok => Len(b.q.rlru) \in Nat /\ Len(b.q.rlru) >= 1 /\ b.q.rlru[Len(b.q.rlru)].off = Home(q, c)
        /\ CacheIn(q) => CacheIn(b.q)
        /\ \A x \in Nat : FreeIn(q, x) => FreeIn(b.q, x)
    BY <1>2, BlockRead
  <2> HIDE DEF b, r
  <2>3. Quiet(q, b.q)
    BY <1>0, <2>2, Zenon DEF Quiet
  <2>4. FileTyped(b.q) /\ HasBlock(b.q, c) /\ Home(b.q, c) = Home(q, c)
    BY <1>2, <2>3, QuietFile, Zenon
  <2>5. CASE b.ok
    <3>1. Count(b.q, c) \in 0 .. CountMax /\ (Count(b.q, c) = 0 <=> FreeIn(b.q, c))
      BY <2>2, <2>4, <2>5, LastCount
    <3>2. r.q = b.q /\ r.n = Count(b.q, c)
      BY <2>1, <2>5
    <3>3. r.n \in -1 .. CountMax /\ (r.n = 0 => FreeIn(r.q, c))
      BY <3>1, <3>2
    <3>4. Quiet(q, r.q) /\ r.q.free = q.free
      BY <2>2, <2>3, <3>2
    <3> QED BY <3>3, <3>4, Zenon DEF r
  <2>6. CASE ~b.ok
    <3>1. r.q = q /\ r.n = -1
      BY <2>1, <2>6
    <3> QED BY <1>q, <3>1, CountMaxIs DEF r
  <2> QED BY <2>5, <2>6
<1> QED BY <1>1, <1>2

\* The turns of the scan for a free cluster.
IsScan(f, q, rf, m) ==
  /\ f = [k \in 0 .. m |-> f[k]]
  /\ f[0] = [q |-> q, c |-> 0, st |-> "on"]
  /\ \A k \in 1 .. m : f[k] = ScanTurn(f[k - 1], rf)

\* The recursion has a solution.
LEMMA ScanExist == ASSUME NEW q, NEW rf, NEW n \in Nat PROVE \E f : IsScan(f, q, rf, n)
<1> DEFINE Bad == {m \in Nat : ~(\E f : IsScan(f, q, rf, m))}
<1>1. SUFFICES ASSUME Bad # {} PROVE FALSE
  OBVIOUS
<1>2. PICK m \in Bad : \A k \in Bad : m <= k
  <2>1. Bad \in SUBSET Nat
    OBVIOUS
  <2> HIDE DEF Bad
  <2> QED BY <1>1, <2>1, LeastNat
<1>3. m # 0
  <2>1. SUFFICES ASSUME m = 0 PROVE FALSE
    OBVIOUS
  <2> DEFINE g == [k \in 0 .. 0 |-> [q |-> q, c |-> 0, st |-> "on"]]
  <2>2. IsScan(g, q, rf, 0)
    BY DEF IsScan
  <2> QED BY <1>2, <2>1, <2>2
<1>4. m \in Nat /\ m - 1 \in Nat
  BY <1>2, <1>3
<1>5. PICK f : IsScan(f, q, rf, m - 1)
  BY <1>2, <1>4
<1> DEFINE g == [k \in 0 .. m |-> IF k < m THEN f[k] ELSE ScanTurn(f[m - 1], rf)]
<1>6. IsScan(g, q, rf, m)
  <2>1. g = [k \in 0 .. m |-> g[k]]
    OBVIOUS
  <2>2. g[0] = [q |-> q, c |-> 0, st |-> "on"]
    <3>1. 0 \in 0 .. m /\ 0 < m
      BY <1>3, <1>4
    <3>2. f[0] = [q |-> q, c |-> 0, st |-> "on"]
      BY <1>5, Zenon DEF IsScan
    <3> QED BY <3>1, <3>2
  <2>3. ASSUME NEW k \in 1 .. m PROVE g[k] = ScanTurn(g[k - 1], rf)
    <3>1. g[k - 1] = f[k - 1]
      BY <1>4
    <3>2. CASE k < m
      <4>1. \A j \in 1 .. m - 1 : f[j] = ScanTurn(f[j - 1], rf)
        BY <1>5, Zenon DEF IsScan
      <4>2. k \in 1 .. m - 1 /\ g[k] = f[k]
        BY <1>4, <3>2
      <4>3. f[k] = ScanTurn(f[k - 1], rf)
        BY <4>1, <4>2, Zenon
      <4> HIDE DEF g
      <4> QED BY <3>1, <4>2, <4>3, Zenon
    <3>3. CASE k = m
      <4>1. g[k] = ScanTurn(f[m - 1], rf)
        BY <1>4, <3>3
      <4> HIDE DEF g
      <4> QED BY <3>1, <3>3, <4>1, Zenon
    <3> QED BY <1>4, <3>2, <3>3
  <2> HIDE DEF g
  <2> QED BY <2>1, <2>2, <2>3 DEF IsScan
<1> QED BY <1>2, <1>6

\* qcow_alloc_clusters takes these turns.
LEMMA ScanIs ==
  ASSUME NEW q, NEW rf, RbSize * Len(q.rft) + 1 \in Nat
  PROVE  \E f : IsScan(f, q, rf, RbSize * Len(q.rft) + 1) /\ Scan(q, rf) = f[RbSize * Len(q.rft) + 1]
<1> DEFINE n == RbSize * Len(q.rft) + 1
<1> HIDE DEF n
<1>0. n \in Nat
  BY DEF n
<1> DEFINE Step(f) == [k \in 0 .. n |-> IF k = 0 THEN [q |-> q, c |-> 0, st |-> "on"] ELSE ScanTurn(f[k - 1], rf)]
           h == CHOOSE f : f = Step(f)
<1>1. PICK f : IsScan(f, q, rf, n)
  BY <1>0, ScanExist
<1>2. f = Step(f)
  <2>1. ASSUME NEW k \in 0 .. n
        PROVE  f[k] = IF k = 0 THEN [q |-> q, c |-> 0, st |-> "on"] ELSE ScanTurn(f[k - 1], rf)
    <3>1. f[0] = [q |-> q, c |-> 0, st |-> "on"] /\ \A j \in 1 .. n : f[j] = ScanTurn(f[j - 1], rf)
      BY <1>1, Zenon DEF IsScan
    <3>2. (k = 0 \/ k \in 1 .. n) /\ (k \in 1 .. n => k # 0)
      BY <1>0
    <3> QED BY <3>1, <3>2, Zenon
  <2>2. f = [k \in 0 .. n |-> f[k]]
    BY <1>1, Zenon DEF IsScan
  <2> QED BY <2>1, <2>2
<1>3. h = Step(h)
  <2> HIDE DEF Step
  <2> QED BY <1>2
<1>4. Scan(q, rf) = h[n]
  BY Zenon DEF Scan, n
<1> HIDE DEF h
<1>5. h = [k \in 0 .. n |-> h[k]] /\ \A k \in 0 .. n : h[k] = IF k = 0 THEN [q |-> q, c |-> 0, st |-> "on"] ELSE ScanTurn(h[k - 1], rf)
  BY <1>3, Zenon
<1>6. IsScan(h, q, rf, n)
  <2>1. h[0] = [q |-> q, c |-> 0, st |-> "on"]
    <3>1. 0 \in 0 .. n
      BY <1>0
    <3> QED BY <1>5, <3>1, Zenon
  <2>2. ASSUME NEW k \in 1 .. n PROVE h[k] = ScanTurn(h[k - 1], rf)
    <3>1. k \in 0 .. n /\ k # 0
      BY <1>0
    <3> QED BY <1>5, <3>1, Zenon
  <2> QED BY <1>5, <2>1, <2>2, Zenon DEF IsScan
<1> QED BY <1>4, <1>6 DEF n

\* What a scan from q on has found.
ScanOk(q, s) ==
  /\ Quiet(q, s.q) /\ s.q.free >= q.free /\ s.st \in {"on", "fail", "free"}
  /\ s.st = "free" => s.c \in Nat /\ s.c >= q.free /\ s.q.free = s.c + 1 /\ FreeIn(s.q, s.c)

\* One more cluster is looked at.
LEMMA TurnScans ==
  ASSUME NEW q, FileTyped(q), CacheOk(q), NEW s, ScanOk(q, s), NEW rf
  PROVE  ScanOk(q, ScanTurn(s, rf))
<1> DEFINE c == s.q.free
           b == [s.q EXCEPT !.free = c + 1]
           r == GetRefcount(b, c, rf)
           t == ScanTurn(s, rf)
<1>0. q.free \in Nat /\ c \in Nat /\ c >= q.free /\ Quiet(q, s.q) /\ CacheOk(s.q)
  BY DEF FileTyped, ScanOk, Quiet
<1>1. FileTyped(s.q)
  BY <1>0, QuietFile, Zenon
<1>2. c + 1 \in Nat
  BY <1>0
<1>3. Quiet(s.q, b) /\ b.free = c + 1
  BY <1>0, <1>1, <1>2, CursorMoves
<1>4. CASE s.st # "on"
  <2>1. t = s
    BY <1>4 DEF ScanTurn
  <2> QED BY <2>1
<1>5. CASE s.st = "on"
  <2>1. t = [q |-> r.q, c |-> c, st |-> IF r.n \in {-1, CountMax} THEN "fail" ELSE IF InUse(r.n) THEN "on" ELSE "free"]
    BY <1>5 DEF ScanTurn
  <2> HIDE DEF b
  <2>2. FileTyped(b) /\ CacheOk(b)
    BY <1>1, <1>3, QuietFile, Zenon DEF Quiet
  <2>3. Quiet(b, r.q) /\ r.q.free = b.free /\ r.n \in -1 .. CountMax /\ (r.n = 0 => FreeIn(r.q, c))
    BY <1>0, <2>2, RefcountIs
  <2> HIDE DEF r
  <2>4. Quiet(q, r.q)
    BY <1>0, <1>3, <2>3, QuietTrans, Zenon
  <2>5. t.q = r.q /\ t.c = c /\ t.st \in {"on", "fail", "free"} /\ (t.st = "free" => r.n = 0)
    <3>1. r.n \in Int /\ (r.n \notin {-1, CountMax} /\ ~(r.n > 0) => r.n = 0)
      BY <2>3, CountMaxIs
    <3> QED BY <2>1, <3>1 DEF InUse
  <2> HIDE DEF t
  <2>6. t.q.free = c + 1 /\ t.q.free >= q.free
    BY <1>0, <1>3, <2>3, <2>5
  <2>7. Quiet(q, t.q) /\ (t.st = "free" => t.c \in Nat /\ t.c >= q.free /\ t.q.free = t.c + 1 /\ FreeIn(t.q, t.c))
    BY <1>0, <2>3, <2>4, <2>5, <2>6
  <2>8. ScanOk(q, t)
    BY <2>5, <2>6, <2>7 DEF ScanOk
  <2> QED BY <2>8 DEF t
<1> QED BY <1>4, <1>5

\* The first free cluster from the cursor on, wherever its count is.
LEMMA ScanFinds ==
  ASSUME NEW q, FileTyped(q), CacheOk(q), NEW rf
  PROVE  ScanOk(q, Scan(q, rf))
<1> DEFINE n == RbSize * Len(q.rft) + 1
<1>1. n \in Nat
  <2>1. RbSize \in Nat /\ Len(q.rft) \in Nat
    BY DiskAssumption DEF FileTyped
  <2>2. RbSize * Len(q.rft) \in Nat
    BY <2>1
  <2> QED BY <2>2
<1>2. PICK f : IsScan(f, q, rf, n) /\ Scan(q, rf) = f[n]
  BY <1>1, ScanIs, Zenon
<1> HIDE DEF n
<1>3. f[0] = [q |-> q, c |-> 0, st |-> "on"] /\ \A k \in 1 .. n : f[k] = ScanTurn(f[k - 1], rf)
  BY <1>2, Zenon DEF IsScan
<1>4. ScanOk(q, f[0])
  <2>1. f[0].q = q /\ f[0].st = "on" /\ q.free \in Nat /\ Shaped(q)
    BY <1>3 DEF FileTyped
  <2>2. Quiet(q, q)
    BY <2>1 DEF Quiet, CacheMoved, SameGuest
  <2>3. q.free >= q.free
    BY <2>1
  <2> QED BY <2>1, <2>2, <2>3 DEF ScanOk
<1> DEFINE Bad == {k \in Nat : k <= n /\ ~ScanOk(q, f[k])}
<1>5. Bad = {}
  <2>1. SUFFICES ASSUME Bad # {} PROVE FALSE
    OBVIOUS
  <2>2. PICK m \in Bad : \A k \in Bad : m <= k
    <3>1. Bad \in SUBSET Nat
      OBVIOUS
    <3> HIDE DEF Bad
    <3> QED BY <2>1, <3>1, LeastNat
  <2>3. m \in 1 .. n /\ m - 1 \in Nat /\ m - 1 <= n /\ m - 1 \notin Bad
    BY <1>1, <1>4, <2>2
  <2>4. ScanOk(q, f[m - 1]) /\ f[m] = ScanTurn(f[m - 1], rf)
    BY <1>3, <2>3
  <2>5. ScanOk(q, f[m])
    BY <2>4, TurnScans
  <2> QED BY <2>2, <2>5
<1> QED BY <1>1, <1>2, <1>5

\* A new block counts nothing.
LEMMA BlankIs == BlankBlock \in Block /\ \A x \in 0 .. RbSize - 1 : BlankBlock[x] = 0
BY CountMaxIs DEF BlankBlock, Block

\* There is room for the block of c in cluster off, which nothing refers to.
BlockRoom(q, R, P, c, off) ==
  /\ FileOk(q, R, P) /\ CacheOk(q) /\ CacheIn(q) /\ 0 \in R /\ R \subseteq Nat /\ P \subseteq Nat
  /\ c \in Nat /\ ~HasBlock(q, c) /\ Slot(c) <= Len(q.rft) /\ off \in Nat /\ FreeIn(q, off) /\ off \notin P

\* What making a block leaves.
BlockAdded(q, R, P, c, off, p) ==
  /\ SameGuest(q, p) /\ p.wild = q.wild /\ p.free = q.free /\ Len(p.rft) = Len(q.rft)
  /\ off \notin R /\ off \notin Blocks(q) /\ Blocks(p) = Blocks(q) \cup {off}
  /\ FileOk(p, R, P \cup {off}) /\ CacheOk(p) /\ CacheIn(p)
  /\ HasBlock(p, c) /\ (\A x \in Nat : HasBlock(q, x) => HasBlock(p, x))
  /\ (\A x \in Nat : FreeIn(q, x) => FreeIn(p, x))
  /\ \A b \in Blocks(q) : p.rb[b] = q.rb[b]

\* qcow_grow_refcount_block puts an empty block in it.
LEMMA BlockMade ==
  ASSUME NEW q, NEW R, NEW P, NEW c, NEW off, BlockRoom(q, R, P, c, off)
  PROVE  BlockAdded(q, R, P, c, off, NewBlock(q, c, off))
<1>0. /\ FileOk(q, R, P) /\ CacheOk(q) /\ CacheIn(q) /\ 0 \in R /\ R \subseteq Nat /\ P \subseteq Nat
      /\ c \in Nat /\ ~HasBlock(q, c) /\ Slot(c) <= Len(q.rft) /\ off \in Nat /\ FreeIn(q, off) /\ off \notin P
  BY DEF BlockRoom
<1> USE <1>0
<1> DEFINE p == NewBlock(q, c, off)
           z == Slot(c)
           node == [off |-> off, ent |-> BlankBlock, dirty |-> FALSE]
           l == CacheInsert(q.rlru, node)
<1>1. /\ FileTyped(q) /\ Shaped(q) /\ q.free \in Nat /\ q.rft \in Seq(Nat) /\ q.rb \in [DOMAIN q.rb -> Block]
      /\ Blocks(q) \subseteq DOMAIN q.rb /\ q.rlru \in Seq(Node) /\ NodesOk(q.rlru, q.rb)
      /\ NodesIn(q.rlru, Blocks(q))
  BY DEF FileOk, FileTyped, CacheOk, CacheIn
<1>2. z \in Nat \ {0} /\ z \in DOMAIN q.rft /\ q.rft # <<>> /\ q.rft[z] = 0
  <2>1. z \in Nat \ {0}
    BY <1>1, Where
  <2>2. z \in DOMAIN q.rft
    BY <1>1, <2>1
  <2> QED BY <1>1, <2>1, <2>2 DEF HasBlock
<1>3. off \notin R /\ off \notin Blocks(q)
  <2>1. SUFFICES ASSUME off \in R \cup Blocks(q) PROVE FALSE
    OBVIOUS
  <2>2. HasBlock(q, off) /\ q.rb[Home(q, off)][off % RbSize] # 0
    BY <1>2, <2>1 DEF FileOk
  <2> QED BY <2>2 DEF FreeIn
<1>4. off # 0
  BY <1>3
<1>5. /\ Shaped(p) /\ p.rlru = l /\ p.ver = q.ver /\ p.size = q.size /\ p.l1 = q.l1 /\ p.l2 = q.l2 /\ p.lru = q.lru
      /\ p.rft = [q.rft EXCEPT ![z] = off] /\ p.rb = [o \in DOMAIN q.rb \cup {off} |-> IF o = off THEN BlankBlock ELSE q.rb[o]] /\ p.free = q.free /\ p.wild = q.wild
      /\ p.data = q.data
  <2> DEFINE bb == [o \in DOMAIN q.rb \cup {off} |-> IF o = off THEN BlankBlock ELSE q.rb[o]]
             ft == [q.rft EXCEPT ![z] = off]
  <2>1. p = [q EXCEPT !.rlru = l, !.rb = bb, !.rft = ft]
    <3>1. p = [q EXCEPT !.rlru = l, !.rb = bb, !.rft[z] = off]
      BY Zenon DEF NewBlock
    <3> HIDE DEF l, bb
    <3>2. [q EXCEPT !.rlru = l, !.rb = bb, !.rft[z] = off] = [q EXCEPT !.rlru = l, !.rb = bb, !.rft = ft]
      BY <1>1 DEF Shaped
    <3> QED BY <3>1, <3>2
  <2> HIDE DEF p, l, bb, ft
  <2>2. /\ Shaped(p) /\ p.rlru = l /\ p.ver = q.ver /\ p.size = q.size /\ p.l1 = q.l1 /\ p.l2 = q.l2 /\ p.lru = q.lru
        /\ p.rft = ft /\ p.rb = bb /\ p.free = q.free /\ p.wild = q.wild /\ p.data = q.data
    BY <1>1, <2>1 DEF Shaped
  <2> QED BY <2>2 DEF ft, bb
<1>6. node \in Node /\ node.off = off /\ node.ent = BlankBlock
  BY <1>4, BlankIs DEF Node
<1> HIDE DEF node
<1>7. PICK t \in Seq(Node) : IsPick(t, q.rlru) /\ l = Append(t, node)
  BY <1>1, <1>6, InsertIs
<1> HIDE DEF p, l, z
<1>8. /\ NodesOk(t, q.rb) /\ NodesIn(t, Blocks(q)) /\ \A x, y : NodesZero(q.rlru, x, y) => NodesZero(t, x, y)
  BY <1>1, <1>7, Picked
<1>9. /\ p.rft \in Seq(Nat) /\ Len(p.rft) = Len(q.rft) /\ DOMAIN p.rft = DOMAIN q.rft /\ p.rft[z] = off
      /\ \A s \in DOMAIN q.rft : s # z => p.rft[s] = q.rft[s]
  BY <1>1, <1>2, <1>5
<1>10. /\ DOMAIN p.rb = DOMAIN q.rb \cup {off} /\ p.rb[off] = BlankBlock /\ p.rb \in [DOMAIN p.rb -> Block]
       /\ \A b \in DOMAIN q.rb : b # off => p.rb[b] = q.rb[b]
  BY <1>1, <1>5, BlankIs
<1>11. Blocks(p) = Blocks(q) \cup {off}
  BY <1>2, <1>4, <1>9 DEF Blocks
<1>12. \A b \in Blocks(q) : b # off /\ p.rb[b] = q.rb[b]
  BY <1>1, <1>3, <1>10
<1>13. FileTyped(p)
  <2>1. Blocks(p) \subseteq DOMAIN p.rb
    BY <1>1, <1>10, <1>11
  <2>2. ASSUME NEW s \in DOMAIN p.rft, NEW y \in DOMAIN p.rft, p.rft[s] # 0, p.rft[s] = p.rft[y] PROVE s = y
    <3>1. \A x \in DOMAIN q.rft : q.rft[x] # off
      BY <1>3, <1>4 DEF Blocks
    <3>2. \A x, w \in DOMAIN q.rft : q.rft[x] # 0 /\ q.rft[x] = q.rft[w] => x = w
      BY <1>1 DEF FileTyped
    <3> QED BY <1>9, <2>2, <3>1, <3>2
  <2> QED BY <1>1, <1>5, <1>9, <1>10, <2>1, <2>2 DEF FileTyped
<1>14. HasBlock(p, c)
  BY <1>4, <1>9 DEF HasBlock, z
<1>15. ASSUME NEW x \in Nat, HasBlock(q, x)
       PROVE  HasBlock(p, x) /\ Home(p, x) = Home(q, x) /\ Home(q, x) \in Blocks(q) /\ Slot(x) # z
  <2>1. Slot(x) \in DOMAIN q.rft /\ q.rft[Slot(x)] # 0 /\ Home(q, x) \in Blocks(q)
    BY <1>1, <1>15, Where DEF HasBlock
  <2>2. Slot(x) # z
    BY <1>2, <2>1
  <2>3. p.rft[Slot(x)] = q.rft[Slot(x)]
    BY <1>9, <2>1, <2>2
  <2> QED BY <1>9, <1>15, <2>1, <2>2, <2>3 DEF HasBlock, Home
<1>16. FileOk(p, R, P \cup {off})
  <2>1. ASSUME NEW x \in (R \cup Blocks(p)) \ (P \cup {off})
        PROVE  HasBlock(p, x) /\ p.rb[Home(p, x)][x % RbSize] # 0
    <3>1. HasBlock(q, x) /\ q.rb[Home(q, x)][x % RbSize] # 0
      BY <1>2, <1>11 DEF FileOk
    <3>2. x \in Nat
      <4>1. x \in R \/ x \in Blocks(q)
        BY <1>11
      <4>2. \A s \in DOMAIN q.rft : q.rft[s] \in Nat
        BY <1>1
      <4> QED BY <4>1, <4>2 DEF Blocks
    <3> QED BY <1>12, <1>15, <3>1, <3>2
  <2> QED BY <1>13, <2>1 DEF FileOk
<1>17. CacheOk(p) /\ CacheIn(p)
  <2>1. NodesOk(t, p.rb)
    <3>1. ASSUME NEW i \in 1 .. Len(t)
          PROVE  t[i].off \in DOMAIN p.rb /\ \A x \in 0 .. RbSize - 1 : t[i].ent[x] = 0 => p.rb[t[i].off][x] = 0
      <4>1. t[i].off \in DOMAIN q.rb /\ \A x \in 0 .. RbSize - 1 : t[i].ent[x] = 0 => q.rb[t[i].off][x] = 0
        BY <1>8, Zenon DEF NodesOk
      <4>2. t[i].off \in Blocks(q)
        BY <1>8 DEF NodesIn
      <4>3. p.rb[t[i].off] = q.rb[t[i].off]
        BY <1>12, <4>2
      <4> QED BY <1>10, <4>1, <4>3
    <3> QED BY <1>8, <3>1, Zenon DEF NodesOk
  <2>2. \A i \in 1 .. Len(t) : t[i].off # node.off
    BY <1>3, <1>6, <1>8 DEF NodesIn
  <2>3. NodesOk(l, p.rb)
    <3>1. node.off \in DOMAIN p.rb /\ \A x \in 0 .. RbSize - 1 : node.ent[x] = 0 => p.rb[node.off][x] = 0
      BY <1>6, <1>10, BlankIs
    <3> QED BY <1>6, <1>7, <2>1, <2>2, <3>1, Appended
  <2>4. NodesIn(l, Blocks(p)) /\ l \in Seq(Node)
    <3>1. NodesIn(t, Blocks(p)) /\ node.off \in Blocks(p)
      BY <1>6, <1>8, <1>11 DEF NodesIn
    <3> QED BY <1>6, <1>7, <3>1, AppendedMore
  <2> QED BY <1>5, <2>3, <2>4 DEF CacheOk, CacheIn
<1>18. ASSUME NEW x \in Nat, FreeIn(q, x) PROVE FreeIn(p, x)
  <2>1. SUFFICES ASSUME HasBlock(p, x)
                 PROVE  p.rb[Home(p, x)][x % RbSize] = 0 /\ NodesZero(l, Home(p, x), x % RbSize)
    BY <1>5 DEF FreeIn
  <2>0. x % RbSize \in 0 .. RbSize - 1 /\ Slot(x) \in DOMAIN p.rft
    BY <1>13, <2>1, Where
  <2>2. CASE HasBlock(q, x)
    <3>1. Home(p, x) = Home(q, x) /\ Home(q, x) \in Blocks(q)
      BY <1>15, <2>2
    <3>2. q.rb[Home(q, x)][x % RbSize] = 0 /\ NodesZero(q.rlru, Home(q, x), x % RbSize)
      BY <1>18, <2>2, Zenon DEF FreeIn
    <3>3. NodesZero(t, Home(q, x), x % RbSize) /\ node.off # Home(q, x)
      BY <1>6, <1>8, <1>12, <3>1, <3>2
    <3>4. NodesZero(l, Home(q, x), x % RbSize)
      BY <1>6, <1>7, <3>3, AppendedMore
    <3> QED BY <1>12, <3>1, <3>2, <3>4
  <2>3. CASE ~HasBlock(q, x)
    <3>1. Slot(x) = z
      BY <1>9, <2>0, <2>1, <2>3 DEF HasBlock
    <3>2. Home(p, x) = off
      BY <1>9, <3>1 DEF Home
    <3>3. NodesZero(t, off, x % RbSize)
      BY <1>3, <1>8 DEF NodesZero, NodesIn
    <3>4. node.ent[x % RbSize] = 0
      BY <1>6, <2>0, BlankIs
    <3>5. NodesZero(l, off, x % RbSize)
      BY <1>6, <1>7, <3>3, <3>4, AppendedMore
    <3> QED BY <1>10, <2>0, <3>2, <3>5, BlankIs
  <2> QED BY <2>2, <2>3
<1>19. SameGuest(q, p)
  BY <1>5 DEF SameGuest
<1>20. \A x \in Nat : HasBlock(q, x) => HasBlock(p, x)
  BY <1>15
<1> QED BY <1>3, <1>5, <1>9, <1>11, <1>12, <1>14, <1>16, <1>17, <1>18, <1>19, <1>20, Zenon DEF p, BlockAdded

\* The last node of s is replaced by node n for the same block, and the blocks rb by bb.
Replaced(s, n, rb, bb, t) ==
  /\ s \in Seq(Node) /\ Len(s) >= 1 /\ n \in Node /\ n.off = s[Len(s)].off /\ t = [s EXCEPT ![Len(s)] = n]
  /\ NodesOk(s, rb) /\ DOMAIN bb = DOMAIN rb /\ \A o \in DOMAIN rb : o # n.off => bb[o] = rb[o]
  /\ \A x \in 0 .. RbSize - 1 : n.ent[x] = 0 => bb[n.off][x] = 0

\* The last node of the cache is replaced.
LEMMA LastSet ==
  ASSUME NEW s, NEW n, NEW rb, NEW bb, NEW t, Replaced(s, n, rb, bb, t)
  PROVE  /\ t \in Seq(Node) /\ Len(t) = Len(s) /\ t[Len(t)] = n /\ NodesOk(t, bb)
         /\ \A i \in 1 .. Len(s) : t[i].off = s[i].off
         /\ \A i \in 1 .. Len(s) : i # Len(s) => t[i] = s[i]
<1>0. /\ s \in Seq(Node) /\ Len(s) >= 1 /\ n \in Node /\ n.off = s[Len(s)].off /\ t = [s EXCEPT ![Len(s)] = n]
      /\ NodesOk(s, rb) /\ DOMAIN bb = DOMAIN rb /\ \A o \in DOMAIN rb : o # n.off => bb[o] = rb[o]
      /\ \A x \in 0 .. RbSize - 1 : n.ent[x] = 0 => bb[n.off][x] = 0
  BY DEF Replaced
<1> USE <1>0
<1> DEFINE m == Len(s)
<1>1. /\ t \in Seq(Node) /\ Len(t) = m /\ t[m] = n /\ m \in Nat /\ m \in 1 .. m
      /\ \A i \in 1 .. m : i # m => t[i] = s[i]
  OBVIOUS
<1> HIDE DEF m
<1>2. \A i \in 1 .. m : t[i].off = s[i].off
  <2>1. n.off = s[m].off
    BY DEF m
  <2> QED BY <1>1, <2>1
<1>3. /\ \A i, k \in 1 .. m : s[i].off = s[k].off => i = k
      /\ \A i \in 1 .. m : s[i].off \in DOMAIN rb /\ \A x \in 0 .. RbSize - 1 : s[i].ent[x] = 0 => rb[s[i].off][x] = 0
  BY Zenon DEF NodesOk, m
<1>4. ASSUME NEW i \in 1 .. m
      PROVE  t[i].off \in DOMAIN bb /\ \A x \in 0 .. RbSize - 1 : t[i].ent[x] = 0 => bb[t[i].off][x] = 0
  <2>1. CASE i = m
    <3>1. t[i] = n /\ t[i].off \in DOMAIN bb
      BY <1>1, <1>2, <1>3, <2>1
    <3> QED BY <3>1
  <2>2. CASE i # m
    <3>1. t[i] = s[i]
      BY <1>1, <2>2
    <3>2. s[i].off # n.off
      <4>1. n.off = s[m].off
        BY DEF m
      <4> QED BY <1>1, <1>3, <2>2, <4>1
    <3>3. bb[s[i].off] = rb[s[i].off]
      BY <1>3, <3>2
    <3> QED BY <1>3, <3>1, <3>3
  <2> QED BY <2>1, <2>2
<1>5. NodesOk(t, bb)
  <2>1. \A i, k \in 1 .. m : t[i].off = t[k].off => i = k
    BY <1>2, <1>3
  <2> QED BY <1>1, <1>4, <2>1, Zenon DEF NodesOk
<1> QED BY <1>1, <1>2, <1>5, Zenon DEF m

\* What the end of update_cluster_refcount leaves: only the count of c is another one.
Recounted(q, p, c) ==
  /\ SameGuest(q, p) /\ p.wild = q.wild /\ p.rft = q.rft /\ p.free \in Nat /\ FileTyped(p) /\ CacheOk(p)
  /\ (CacheIn(q) => CacheIn(p))
  /\ \A x \in Nat : x # c /\ FreeIn(q, x) => FreeIn(p, x)
  /\ \A x \in Nat : x # c /\ HasBlock(q, x) /\ q.rb[Home(q, x)][x % RbSize] # 0 => p.rb[Home(q, x)][x % RbSize] # 0

\* The block of c is the last of the cache and its count is to be n.
Settable(q, c, n, wf) ==
  /\ FileTyped(q) /\ CacheOk(q) /\ c \in Nat /\ HasBlock(q, c) /\ Len(q.rlru) >= 1
  /\ q.rlru[Len(q.rlru)].off = Home(q, c) /\ n \in 0 .. CountMax /\ (wf => n # 0 /\ FreeIn(q, c))

SetCount(q, c, n) == [q EXCEPT !.rlru[Len(q.rlru)] = [@ EXCEPT !.ent[c % RbSize] = n, !.dirty = TRUE]]
SetEnd(q, c, n, wf) == IF wf THEN SetCount(q, c, n) ELSE LowerFree(WriteBlock(SetCount(q, c, n), wf), c, n)

\* A count is set in the block at the tail of the cache, and in the file if the write succeeds.
LEMMA CountSet ==
  ASSUME NEW q, NEW c, NEW n, NEW wf, Settable(q, c, n, wf)
  PROVE  /\ Recounted(q, SetEnd(q, c, n, wf), c)
         /\ wf => SetEnd(q, c, n, wf).rb = q.rb
         /\ ~wf => SetEnd(q, c, n, wf).rb[Home(q, c)][c % RbSize] = n
<1>0. /\ FileTyped(q) /\ CacheOk(q) /\ c \in Nat /\ HasBlock(q, c) /\ Len(q.rlru) >= 1
      /\ q.rlru[Len(q.rlru)].off = Home(q, c) /\ n \in 0 .. CountMax /\ (wf => n # 0 /\ FreeIn(q, c))
  BY DEF Settable
<1> USE <1>0
<1> DEFINE l == q.rlru
           m == Len(l)
           x == c % RbSize
           o == Home(q, c)
           nt == [l[m] EXCEPT !.ent[x] = n, !.dirty = TRUE]
           nf == [nt EXCEPT !.dirty = FALSE]
           lt == [l EXCEPT ![m] = nt]
           lf == [l EXCEPT ![m] = nf]
           w == [q EXCEPT !.rlru[m] = [@ EXCEPT !.ent[x] = n, !.dirty = TRUE]]
           e == [l[m].ent EXCEPT ![x] = n]
           bb == [q.rb EXCEPT ![o] = e]
           v == WriteBlock(w, FALSE)
<1>1. /\ l \in Seq(Node) /\ m \in Nat /\ m \in 1 .. m /\ NodesOk(l, q.rb) /\ l[m] \in Node /\ l[m].off = o
      /\ Shaped(q) /\ q.free \in Nat /\ q.rft \in Seq(Nat) /\ q.rb \in [DOMAIN q.rb -> Block]
      /\ Blocks(q) \subseteq DOMAIN q.rb
  <2>1. m \in 1 .. m /\ l[m] \in Node
    BY LastCount
  <2> QED BY <2>1 DEF CacheOk, FileTyped
<1>2. x \in 0 .. RbSize - 1 /\ o \in Blocks(q) /\ o \in DOMAIN q.rb
  BY Where, FileTyped(q)
<1> HIDE DEF l, m, x, o
<1>3. /\ l[m] = [off |-> l[m].off, ent |-> l[m].ent, dirty |-> l[m].dirty] /\ l[m].ent \in Block
      /\ nt \in Node /\ nf \in Node /\ nt.off = o /\ nf.off = o /\ nt.ent = e /\ nf.ent = e /\ e \in Block /\ e[x] = n
      /\ \A y \in 0 .. RbSize - 1 : y # x => e[y] = l[m].ent[y]
  BY <1>1, <1>2 DEF Node, Block
<1>4. w = [q EXCEPT !.rlru = lt]
  <2>1. q.rlru = l
    BY DEF l
  <2>2. w = [q EXCEPT !.rlru = [l EXCEPT ![m] = [l[m] EXCEPT !.ent[x] = n, !.dirty = TRUE]]]
    BY <1>1, <2>1 DEF Shaped
  <2> QED BY <2>2
<1>5. /\ Shaped(w) /\ w.rlru = lt /\ w.ver = q.ver /\ w.size = q.size /\ w.l1 = q.l1 /\ w.l2 = q.l2 /\ w.lru = q.lru
      /\ w.rft = q.rft /\ w.rb = q.rb /\ w.free = q.free /\ w.wild = q.wild /\ w.data = q.data
  <2> HIDE DEF lt, w
  <2> QED BY <1>1, <1>4 DEF Shaped
<1>6. Len(lt) = m /\ lt[m] = nt /\ [lt EXCEPT ![m] = nf] = lf /\ lt[m].off = o /\ lt[m].ent = e
  <2> HIDE DEF nt, nf
  <2>1. Len(lt) = m /\ lt[m] = nt /\ [lt EXCEPT ![m] = nf] = lf
    <3>1. l = [i \in 1 .. m |-> l[i]] /\ DOMAIN l = 1 .. m
      BY <1>1 DEF m
    <3>2. lt \in Seq(Node) /\ DOMAIN lt = 1 .. m
      BY <1>1, <1>3, <3>1
    <3>3. Len(lt) = m
      BY <1>1, <3>2
    <3> QED BY <1>1, <3>1, <3>3
  <2> QED BY <1>3, <2>1
<1>7. v = [q EXCEPT !.rb = bb, !.rlru = lf]
  <2>1. v = [w EXCEPT !.rb[w.rlru[Len(w.rlru)].off] = w.rlru[Len(w.rlru)].ent,
                      !.rlru[Len(w.rlru)] = [@ EXCEPT !.dirty = FALSE]]
    BY Zenon DEF WriteBlock
  <2>2. Len(w.rlru) = m /\ w.rlru[m].off = o /\ w.rlru[m].ent = e /\ w.rlru[m] = nt /\ w.rlru = lt
    BY <1>5, <1>6
  <2> HIDE DEF w, e, lt, nt
  <2>3. v = [w EXCEPT !.rb[o] = e, !.rlru[m] = [@ EXCEPT !.dirty = FALSE]]
    BY <2>1, <2>2
  <2>4. v = [w EXCEPT !.rb = [w.rb EXCEPT ![o] = e], !.rlru = [lt EXCEPT ![m] = [nt EXCEPT !.dirty = FALSE]]]
    BY <1>5, <2>2, <2>3 DEF Shaped
  <2>5. v = [w EXCEPT !.rb = bb, !.rlru = lf]
    BY <1>5, <1>6, <2>4
  <2> HIDE DEF v, bb, lf
  <2> QED BY <1>1, <1>4, <2>5 DEF Shaped
<1>8. ASSUME NEW p, NEW nn \in Node, NEW rb, nn.off = o, nn.ent = e, Shaped(p), p.rlru = [l EXCEPT ![m] = nn], p.rb = rb,
             p.ver = q.ver, p.size = q.size, p.l1 = q.l1, p.l2 = q.l2, p.lru = q.lru, p.rft = q.rft, p.free \in Nat,
             p.wild = q.wild, p.data = q.data, (rb = q.rb /\ n # 0) \/ rb = bb
      PROVE  Recounted(q, p, c)
  <2> DEFINE t == [l EXCEPT ![m] = nn]
  <2> HIDE DEF t, nt, nf, lt, lf, w, v
  <2>1. /\ DOMAIN rb = DOMAIN q.rb /\ rb \in [DOMAIN q.rb -> Block] /\ \A b \in DOMAIN q.rb : b # o => rb[b] = q.rb[b]
        /\ (rb = bb => rb[o] = e)
    <3> HIDE DEF e
    <3> QED BY <1>1, <1>2, <1>3, <1>8
  <2> HIDE DEF e, bb
  <2>2. \A y \in 0 .. RbSize - 1 : l[m].ent[y] = 0 => q.rb[o][y] = 0
    <3>1. \A y \in 0 .. RbSize - 1 : l[m].ent[y] = 0 => q.rb[l[m].off][y] = 0
      BY <1>1, Zenon DEF NodesOk, m
    <3> QED BY <1>1, <3>1
  <2>3. \A y \in 0 .. RbSize - 1 : e[y] = 0 => rb[o][y] = 0
    BY <1>3, <1>8, <2>1, <2>2
  <2>4. /\ t \in Seq(Node) /\ Len(t) = m /\ t[m] = nn /\ NodesOk(t, rb)
        /\ \A i \in 1 .. m : t[i].off = l[i].off
        /\ \A i \in 1 .. m : i # m => t[i] = l[i]
    <3>1. m >= 1 /\ nn.off = l[m].off /\ \A y \in 0 .. RbSize - 1 : nn.ent[y] = 0 => rb[nn.off][y] = 0
      BY <1>1, <1>8, <2>3
    <3>2. \A b \in DOMAIN q.rb : b # nn.off => rb[b] = q.rb[b]
      BY <1>8, <2>1
    <3>3. l \in Seq(Node) /\ NodesOk(l, q.rb) /\ Len(l) >= 1 /\ nn.off = l[Len(l)].off /\ DOMAIN rb = DOMAIN q.rb
      BY <1>1, <2>1, <3>1 DEF m
    <3>4. t = [l EXCEPT ![Len(l)] = nn]
      BY DEF t, m
    <3>5. /\ t \in Seq(Node) /\ Len(t) = Len(l) /\ t[Len(t)] = nn /\ NodesOk(t, rb)
          /\ \A i \in 1 .. Len(l) : t[i].off = l[i].off
          /\ \A i \in 1 .. Len(l) : i # Len(l) => t[i] = l[i]
      <4>1. Replaced(l, nn, q.rb, rb, t)
        BY <1>8, <3>1, <3>2, <3>3, <3>4, Zenon DEF Replaced
      <4> QED BY <4>1, LastSet
    <3> QED BY <3>5 DEF m
  <2>5. Blocks(p) = Blocks(q) /\ (\A y : (HasBlock(p, y) <=> HasBlock(q, y)) /\ Home(p, y) = Home(q, y))
    BY <1>8 DEF Blocks, HasBlock, Home
  <2>6. p.rlru = t
    BY <1>8 DEF t
  <2>7. FileTyped(p)
    <3>1. \A y, z \in DOMAIN q.rft : q.rft[y] # 0 /\ q.rft[y] = q.rft[z] => y = z
      BY DEF FileTyped
    <3> QED BY <1>1, <1>8, <2>1, <2>5, <3>1, Zenon DEF FileTyped
  <2>8. CacheOk(p)
    BY <1>8, <2>4, <2>6 DEF CacheOk
  <2>9. CacheIn(q) => CacheIn(p)
    BY <2>4, <2>5, <2>6 DEF CacheIn, NodesIn, l, m
  <2>10. ASSUME NEW y \in Nat, y # c, HasBlock(q, y)
         PROVE  /\ Home(q, y) \in DOMAIN q.rb /\ y % RbSize \in 0 .. RbSize - 1
                /\ Home(q, y) = o => y % RbSize # x /\ e[y % RbSize] = l[m].ent[y % RbSize]
    <3>1. Home(q, y) \in DOMAIN q.rb /\ y % RbSize \in 0 .. RbSize - 1
      BY <2>10, Where
    <3>2. Home(q, y) = o => y % RbSize # x
      BY <2>10, SamePlace DEF o, x
    <3> QED BY <1>3, <3>1, <3>2
  <2>11. ASSUME NEW y \in Nat, y # c, FreeIn(q, y) PROVE FreeIn(p, y)
    <3> DEFINE h == Home(q, y)
               k == y % RbSize
    <3>1. SUFFICES ASSUME HasBlock(q, y) PROVE rb[h][k] = 0 /\ NodesZero(t, h, k)
      <4> HIDE DEF h, k
      <4> QED BY <1>8, <2>5, <2>6, Zenon DEF FreeIn, h, k
    <3>2. q.rb[h][k] = 0 /\ NodesZero(l, h, k)
      BY <2>11, <3>1, Zenon DEF FreeIn, l
    <3>3. h \in DOMAIN q.rb /\ k \in 0 .. RbSize - 1 /\ (h = o => k # x /\ e[k] = l[m].ent[k])
      BY <2>10, <2>11, <3>1
    <3> HIDE DEF h, k
    <3>4. \A i \in 1 .. m : l[i].off = h => l[i].ent[k] = 0
      BY <3>2 DEF NodesZero, m
    <3>5. \A i \in 1 .. m : t[i].off = h => t[i].ent[k] = 0
      <4>1. SUFFICES ASSUME NEW i \in 1 .. m, t[i].off = h PROVE t[i].ent[k] = 0
        OBVIOUS
      <4>2. l[i].off = h /\ l[i].ent[k] = 0
        BY <2>4, <3>4, <4>1
      <4>3. CASE i = m
        BY <1>1, <1>8, <2>4, <3>3, <4>2, <4>3
      <4>4. CASE i # m
        BY <2>4, <4>2, <4>4
      <4> QED BY <4>3, <4>4
    <3>6. NodesZero(t, h, k)
      BY <2>4, <3>5 DEF NodesZero
    <3>7. rb[h][k] = 0
      <4>1. CASE h = o
        <5>1. l[m].ent[k] = 0
          BY <1>1, <3>4, <4>1
        <5> QED BY <2>3, <3>3, <4>1, <5>1
      <4>2. CASE h # o
        BY <2>1, <3>2, <3>3, <4>2
      <4> QED BY <4>1, <4>2
    <3> QED BY <3>6, <3>7
  <2>12. ASSUME NEW y \in Nat, y # c, HasBlock(q, y), q.rb[Home(q, y)][y % RbSize] # 0
         PROVE  p.rb[Home(q, y)][y % RbSize] # 0
    <3> DEFINE h == Home(q, y)
               k == y % RbSize
    <3>1. h \in DOMAIN q.rb /\ k \in 0 .. RbSize - 1 /\ (h = o => k # x /\ e[k] = l[m].ent[k])
      BY <2>10, <2>12
    <3>2. q.rb[h][k] # 0
      BY <2>12
    <3> HIDE DEF h, k
    <3>3. rb[h][k] # 0
      <4>1. CASE h = o /\ rb = bb
        BY <2>1, <2>2, <3>1, <3>2, <4>1
      <4>2. CASE h # o \/ rb = q.rb
        BY <2>1, <3>1, <3>2, <4>2
      <4> QED BY <1>8, <4>1, <4>2
    <3> QED BY <1>8, <3>3 DEF h, k
  <2>13. SameGuest(q, p)
    BY <1>8 DEF SameGuest
  <2> QED BY <1>8, <2>7, <2>8, <2>9, <2>11, <2>12, <2>13, Zenon DEF Recounted
<1>9. CASE wf
  <2>1. Recounted(q, w, c)
    <3>1. w.rlru = [l EXCEPT ![m] = nt] /\ w.free \in Nat /\ nt \in Node /\ n # 0
      BY <1>1, <1>3, <1>5, <1>9
    <3> HIDE DEF w, nt, nf, e, bb
    <3> QED BY <1>3, <1>5, <1>8, <3>1
  <2> HIDE DEF nt, nf, lt, lf, e, bb, v
  <2>2. w.rb = q.rb
    BY <1>5
  <2> QED BY <1>9, <2>1, <2>2, Zenon DEF SetEnd, SetCount, l, m, x
<1>10. CASE ~wf
  <2> DEFINE p == LowerFree(v, c, n)
  <2> HIDE DEF v
  <2>1. /\ Shaped(v) /\ v.rlru = lf /\ v.ver = q.ver /\ v.size = q.size /\ v.l1 = q.l1 /\ v.l2 = q.l2 /\ v.lru = q.lru
        /\ v.rft = q.rft /\ v.rb = bb /\ v.free = q.free /\ v.wild = q.wild /\ v.data = q.data
    <3> HIDE DEF lf, bb
    <3> QED BY <1>1, <1>7 DEF Shaped
  <2>2. /\ Shaped(p) /\ p.rlru = lf /\ p.ver = q.ver /\ p.size = q.size /\ p.l1 = q.l1 /\ p.l2 = q.l2 /\ p.lru = q.lru
        /\ p.rft = q.rft /\ p.rb = bb /\ p.free \in Nat /\ p.wild = q.wild /\ p.data = q.data
    <3> HIDE DEF lf, bb
    <3>1. CASE p = v
      BY <1>1, <2>1, <3>1
    <3>2. CASE p = [v EXCEPT !.free = c]
      BY <1>1, <2>1, <3>2 DEF Shaped
    <3> QED BY <3>1, <3>2 DEF LowerFree
  <2> HIDE DEF p
  <2>3. Recounted(q, p, c)
    <3>1. p.rlru = [l EXCEPT ![m] = nf] /\ p.free \in Nat /\ nf \in Node
      BY <1>3, <2>2
    <3> HIDE DEF w, nt, nf, e, bb, lf, lt
    <3> QED BY <1>3, <1>8, <2>2, <3>1
  <2>4. p.rb[o][x] = n
    <3>1. bb[o] = e
      <4> HIDE DEF e
      <4> QED BY <1>1, <1>2
    <3>2. e[x] = n
      BY <1>3
    <3> HIDE DEF e, bb
    <3> QED BY <2>2, <3>1, <3>2
  <2>5. (IF wf THEN w ELSE LowerFree(WriteBlock(w, wf), c, n)) = p
    <3>1. WriteBlock(w, wf) = v
      <4> HIDE DEF w
      <4> QED BY <1>10 DEF WriteBlock, v
    <3> HIDE DEF w
    <3> QED BY <1>10, <3>1, Zenon DEF p
  <2> HIDE DEF nt, nf, lt, lf, e, bb
  <2> QED BY <1>10, <2>3, <2>4, <2>5, Zenon DEF SetEnd, SetCount, l, m, x, o
<1> QED BY <1>9, <1>10

\* A quiet step before the new count.
LEMMA QuietRecounts ==
  ASSUME NEW q, FileTyped(q), NEW b, Quiet(q, b), NEW c
  PROVE  Recounted(q, b, c) /\ \A p : Recounted(b, p, c) => Recounted(q, p, c)
<1>1. FileTyped(b) /\ \A x : (HasBlock(b, x) <=> HasBlock(q, x)) /\ Home(b, x) = Home(q, x)
  BY QuietFile, Zenon
<1>2. SameGuest(q, b) /\ b.wild = q.wild /\ b.rft = q.rft /\ b.rb = q.rb
  BY DEF Quiet, CacheMoved
<1>3. Recounted(q, b, c)
  BY <1>1, <1>2, Zenon DEF Recounted, Quiet
<1>4. ASSUME NEW p, Recounted(b, p, c) PROVE Recounted(q, p, c)
  <2>1. SameGuest(q, p)
    BY <1>2, <1>4 DEF SameGuest, Recounted
  <2>2. \A x \in Nat : x # c /\ FreeIn(q, x) => FreeIn(p, x)
    BY <1>4, Zenon DEF Recounted, Quiet
  <2>3. CacheIn(q) => CacheIn(p)
    BY <1>4, Zenon DEF Recounted, Quiet
  <2>4. \A x \in Nat : x # c /\ HasBlock(q, x) /\ q.rb[Home(q, x)][x % RbSize] # 0 => p.rb[Home(q, x)][x % RbSize] # 0
    <3>1. \A x \in Nat : x # c /\ HasBlock(b, x) /\ b.rb[Home(b, x)][x % RbSize] # 0 => p.rb[Home(b, x)][x % RbSize] # 0
      BY <1>4, Zenon DEF Recounted
    <3> QED BY <1>1, <1>2, <3>1
  <2> QED BY <1>2, <1>4, <2>1, <2>2, <2>3, <2>4, Zenon DEF Recounted
<1> QED BY <1>3, <1>4

\* The counts of the file after the count of c has changed.
LEMMA RecountFile ==
  ASSUME NEW q, NEW R, NEW P, FileOk(q, R, P), R \subseteq Nat, NEW c, NEW p, Recounted(q, p, c)
  PROVE  /\ Blocks(p) = Blocks(q) /\ \A x : (HasBlock(p, x) <=> HasBlock(q, x)) /\ Home(p, x) = Home(q, x)
         /\ FileOk(p, R, P \cup {c})
         /\ HasBlock(q, c) /\ p.rb[Home(q, c)][c % RbSize] # 0 => FileOk(p, R, P \ {c})
         /\ p.rb = q.rb => FileOk(p, R, P)
<1>1. p.rft = q.rft /\ FileTyped(p) /\ FileTyped(q) /\ q.rft \in Seq(Nat)
  BY DEF Recounted, FileOk, FileTyped
<1>2. Blocks(p) = Blocks(q) /\ \A x : (HasBlock(p, x) <=> HasBlock(q, x)) /\ Home(p, x) = Home(q, x)
  BY <1>1 DEF Blocks, HasBlock, Home
<1>3. R \cup Blocks(q) \subseteq Nat
  <2>1. \A s \in DOMAIN q.rft : q.rft[s] \in Nat
    BY <1>1
  <2> QED BY <2>1 DEF Blocks
<1>4. q.rft # <<>> => \A x \in (R \cup Blocks(q)) \ P : HasBlock(q, x) /\ q.rb[Home(q, x)][x % RbSize] # 0
  BY DEF FileOk
<1>5. q.rft # <<>> => \A x \in (R \cup Blocks(q)) \ (P \cup {c}) : HasBlock(q, x) /\ p.rb[Home(q, x)][x % RbSize] # 0
  <2>1. \A x \in Nat : x # c /\ HasBlock(q, x) /\ q.rb[Home(q, x)][x % RbSize] # 0 => p.rb[Home(q, x)][x % RbSize] # 0
    BY Zenon DEF Recounted
  <2> QED BY <1>3, <1>4, <2>1
<1>6. FileOk(p, R, P \cup {c})
  BY <1>1, <1>2, <1>5, Zenon DEF FileOk
<1>7. ASSUME HasBlock(q, c), p.rb[Home(q, c)][c % RbSize] # 0 PROVE FileOk(p, R, P \ {c})
  <2>1. q.rft # <<>> => \A x \in (R \cup Blocks(q)) \ (P \ {c}) : HasBlock(q, x) /\ p.rb[Home(q, x)][x % RbSize] # 0
    BY <1>5, <1>7
  <2> QED BY <1>1, <1>2, <2>1, Zenon DEF FileOk
<1>8. p.rb = q.rb => FileOk(p, R, P)
  BY <1>1, <1>2, <1>4, Zenon DEF FileOk
<1> QED BY <1>2, <1>6, <1>7, <1>8, Zenon

\* update_cluster_refcount for a cluster whose block is there.
LEMMA Added ==
  ASSUME NEW q, FileTyped(q), CacheOk(q), NEW c \in Nat, HasBlock(q, c), NEW rf, NEW wf \in BOOLEAN, NEW d \in Int,
         wf => d = 1 /\ FreeIn(q, c)
  PROVE  LET a == AddTo(ReadBlock(q, c, rf), c, d, wf)
         IN /\ Recounted(q, a.q, c) /\ a.ok \in BOOLEAN /\ (rf = "none" /\ ~wf => a.ok)
            /\ ~a.ok => a.q.rb = q.rb
            /\ a.ok /\ d = 1 /\ FreeIn(q, c) => a.q.rb[Home(q, c)][c % RbSize] = 1
<1> DEFINE r == ReadBlock(q, c, rf)
           a == AddTo(r, c, d, wf)
           n == (Count(r.q, c) + d) % (CountMax + 1)
           l == r.q.rlru
           p == SetEnd(r.q, c, n, wf)
<1>1. /\ CacheMoved(q, r.q) /\ r.q.free = q.free /\ CacheOk(r.q) /\ (rf = "none" => r.ok) /\ r.ok \in BOOLEAN
      /\ r.ok => Len(l) \in Nat /\ Len(l) >= 1 /\ l[Len(l)].off = Home(q, c)
      /\ CacheIn(q) => CacheIn(r.q)
      /\ \A x \in Nat : FreeIn(q, x) => FreeIn(r.q, x)
  BY BlockRead
<1> HIDE DEF r
<1>2. Quiet(q, r.q) /\ r.q.rb = q.rb
  BY <1>1, Zenon DEF Quiet, FileTyped, CacheMoved
<1>3. FileTyped(r.q) /\ HasBlock(r.q, c) /\ Home(r.q, c) = Home(q, c)
  BY <1>2, QuietFile, Zenon
<1>4. Recounted(q, r.q, c) /\ \A x : Recounted(r.q, x, c) => Recounted(q, x, c)
  BY <1>2, QuietRecounts
<1>5. CASE ~r.ok
  <2>1. a = [ok |-> FALSE, q |-> r.q]
    BY <1>5 DEF AddTo
  <2>2. ~a.ok /\ a.q = r.q /\ a.ok \in BOOLEAN /\ rf # "none"
    BY <1>1, <1>5, <2>1
  <2>3. Recounted(q, a.q, c) /\ a.q.rb = q.rb
    BY <1>2, <1>4, <2>2
  <2> QED BY <2>2, <2>3, Zenon DEF r
<1>6. CASE r.ok
  <2>1. Count(r.q, c) \in 0 .. CountMax /\ (Count(r.q, c) = 0 <=> FreeIn(r.q, c))
    BY <1>1, <1>3, <1>6, LastCount
  <2>2. n \in 0 .. CountMax
    <3>1. CountMax + 1 \in Nat /\ CountMax + 1 > 0 /\ Count(r.q, c) + d \in Int
      BY <2>1, CountMaxIs
    <3>2. n \in 0 .. (CountMax + 1) - 1
      <4> HIDE DEF n
      <4>1. \A u, v \in Int : v > 0 => u % v \in 0 .. v - 1
        OBVIOUS
      <4> QED BY <3>1, <4>1 DEF n
    <3> HIDE DEF n
    <3> QED BY <3>1, <3>2, CountMaxIs
  <2>3. d = 1 /\ FreeIn(q, c) => n = 1
    <3>1. SUFFICES ASSUME d = 1, FreeIn(q, c) PROVE n = 1
      OBVIOUS
    <3>2. Count(r.q, c) = 0
      BY <1>1, <2>1, <3>1
    <3>3. n = 1 % (CountMax + 1)
      BY <3>1, <3>2
    <3>4. \A v \in Nat : v > 1 => 1 % v = 1
      OBVIOUS
    <3> HIDE DEF n
    <3> QED BY <3>3, <3>4, CountMaxIs
  <2>4. a = [ok |-> ~wf, q |-> p]
    BY <1>6, Zenon DEF AddTo, SetEnd, SetCount
  <2>5. wf => n # 0 /\ FreeIn(r.q, c)
    BY <1>1, <2>3
  <2> HIDE DEF n
  <2>6. /\ Recounted(r.q, p, c)
        /\ wf => p.rb = r.q.rb
        /\ ~wf => p.rb[Home(r.q, c)][c % RbSize] = n
    <3>1. /\ FileTyped(r.q) /\ CacheOk(r.q) /\ HasBlock(r.q, c) /\ Len(l) >= 1 /\ l[Len(l)].off = Home(r.q, c)
      BY <1>1, <1>3, <1>6
    <3>2. Settable(r.q, c, n, wf)
      BY <2>2, <2>5, <3>1, Zenon DEF Settable
    <3> QED BY <3>2, CountSet
  <2> HIDE DEF p, a
  <2>7. a.ok = ~wf /\ a.q = p
    BY <2>4
  <2>8. Recounted(q, a.q, c) /\ a.ok \in BOOLEAN /\ (~wf => a.ok)
    BY <1>4, <2>6, <2>7
  <2>9. ~a.ok => a.q.rb = q.rb
    BY <1>2, <2>6, <2>7
  <2>10. a.ok /\ d = 1 /\ FreeIn(q, c) => a.q.rb[Home(q, c)][c % RbSize] = 1
    BY <1>3, <2>3, <2>6, <2>7
  <2> QED BY <2>8, <2>9, <2>10, Zenon DEF a, r
<1> QED BY <1>1, <1>5, <1>6

\* The nested calls that grow the refcount table.
IsGrow(f, q, c, rf, wf, m) ==
  /\ f = [k \in 0 .. m |-> f[k]]
  /\ f[0] = [q |-> q, path |-> <<c>>, st |-> "on"]
  /\ \A k \in 1 .. m : f[k] = GrowTurn(f[k - 1], rf, wf)

\* The recursion has a solution.
LEMMA GrowExist == ASSUME NEW q, NEW c, NEW rf, NEW wf, NEW n \in Nat PROVE \E f : IsGrow(f, q, c, rf, wf, n)
<1> DEFINE Bad == {m \in Nat : ~(\E f : IsGrow(f, q, c, rf, wf, m))}
<1>1. SUFFICES ASSUME Bad # {} PROVE FALSE
  OBVIOUS
<1>2. PICK m \in Bad : \A k \in Bad : m <= k
  <2>1. Bad \in SUBSET Nat
    OBVIOUS
  <2> HIDE DEF Bad
  <2> QED BY <1>1, <2>1, LeastNat
<1>3. m # 0
  <2>1. SUFFICES ASSUME m = 0 PROVE FALSE
    OBVIOUS
  <2> DEFINE g == [k \in 0 .. 0 |-> [q |-> q, path |-> <<c>>, st |-> "on"]]
  <2>2. IsGrow(g, q, c, rf, wf, 0)
    BY DEF IsGrow
  <2> QED BY <1>2, <2>1, <2>2
<1>4. m \in Nat /\ m - 1 \in Nat
  BY <1>2, <1>3
<1>5. PICK f : IsGrow(f, q, c, rf, wf, m - 1)
  BY <1>2, <1>4
<1> DEFINE g == [k \in 0 .. m |-> IF k < m THEN f[k] ELSE GrowTurn(f[m - 1], rf, wf)]
<1>6. IsGrow(g, q, c, rf, wf, m)
  <2>1. g = [k \in 0 .. m |-> g[k]]
    OBVIOUS
  <2>2. g[0] = [q |-> q, path |-> <<c>>, st |-> "on"]
    <3>1. 0 \in 0 .. m /\ 0 < m
      BY <1>3, <1>4
    <3>2. f[0] = [q |-> q, path |-> <<c>>, st |-> "on"]
      BY <1>5, Zenon DEF IsGrow
    <3> QED BY <3>1, <3>2
  <2>3. ASSUME NEW k \in 1 .. m PROVE g[k] = GrowTurn(g[k - 1], rf, wf)
    <3>1. g[k - 1] = f[k - 1]
      BY <1>4
    <3>2. CASE k < m
      <4>1. \A j \in 1 .. m - 1 : f[j] = GrowTurn(f[j - 1], rf, wf)
        BY <1>5, Zenon DEF IsGrow
      <4>2. k \in 1 .. m - 1 /\ g[k] = f[k]
        BY <1>4, <3>2
      <4>3. f[k] = GrowTurn(f[k - 1], rf, wf)
        BY <4>1, <4>2, Zenon
      <4> HIDE DEF g
      <4> QED BY <3>1, <4>2, <4>3, Zenon
    <3>3. CASE k = m
      <4>1. g[k] = GrowTurn(f[m - 1], rf, wf)
        BY <1>4, <3>3
      <4> HIDE DEF g
      <4> QED BY <3>1, <3>3, <4>1, Zenon
    <3> QED BY <1>4, <3>2, <3>3
  <2> HIDE DEF g
  <2> QED BY <2>1, <2>2, <2>3 DEF IsGrow
<1> QED BY <1>2, <1>6

\* qcow_grow_refcount_block takes these turns.
LEMMA GrowIs ==
  ASSUME NEW q, NEW c, NEW rf, NEW wf, Len(q.rft) + 1 \in Nat
  PROVE  \E f : IsGrow(f, q, c, rf, wf, Len(q.rft) + 1) /\ Grow(q, c, rf, wf) = f[Len(q.rft) + 1]
<1> DEFINE n == Len(q.rft) + 1
<1> HIDE DEF n
<1>0. n \in Nat
  BY DEF n
<1> DEFINE Step(f) == [k \in 0 .. n |-> IF k = 0 THEN [q |-> q, path |-> <<c>>, st |-> "on"] ELSE GrowTurn(f[k - 1], rf, wf)]
           h == CHOOSE f : f = Step(f)
<1>1. PICK f : IsGrow(f, q, c, rf, wf, n)
  BY <1>0, GrowExist
<1>2. f = Step(f)
  <2>1. ASSUME NEW k \in 0 .. n
        PROVE  f[k] = IF k = 0 THEN [q |-> q, path |-> <<c>>, st |-> "on"] ELSE GrowTurn(f[k - 1], rf, wf)
    <3>1. f[0] = [q |-> q, path |-> <<c>>, st |-> "on"] /\ \A j \in 1 .. n : f[j] = GrowTurn(f[j - 1], rf, wf)
      BY <1>1, Zenon DEF IsGrow
    <3>2. (k = 0 \/ k \in 1 .. n) /\ (k \in 1 .. n => k # 0)
      BY <1>0
    <3> QED BY <3>1, <3>2, Zenon
  <2>2. f = [k \in 0 .. n |-> f[k]]
    BY <1>1, Zenon DEF IsGrow
  <2> QED BY <2>1, <2>2
<1>3. h = Step(h)
  <2> HIDE DEF Step
  <2> QED BY <1>2
<1>4. Grow(q, c, rf, wf) = h[n]
  BY Zenon DEF Grow, n
<1> HIDE DEF h
<1>5. h = [k \in 0 .. n |-> h[k]] /\ \A k \in 0 .. n : h[k] = IF k = 0 THEN [q |-> q, path |-> <<c>>, st |-> "on"] ELSE GrowTurn(h[k - 1], rf, wf)
  BY <1>3, Zenon
<1>6. IsGrow(h, q, c, rf, wf, n)
  <2>1. h[0] = [q |-> q, path |-> <<c>>, st |-> "on"]
    <3>1. 0 \in 0 .. n
      BY <1>0
    <3> QED BY <1>5, <3>1, Zenon
  <2>2. ASSUME NEW k \in 1 .. n PROVE h[k] = GrowTurn(h[k - 1], rf, wf)
    <3>1. k \in 0 .. n /\ k # 0
      BY <1>0
    <3> QED BY <1>5, <3>1, Zenon
  <2> QED BY <1>5, <2>1, <2>2, Zenon DEF IsGrow
<1> QED BY <1>4, <1>6 DEF n

\* The clusters of the first k calls.
Upto(p, k) == {p[j] : j \in 1 .. k}

\* The clusters of the calls are different ones below the cursor.
PathOk(p, c, n) ==
  /\ p \in Seq(Nat) /\ Len(p) >= 1 /\ p[1] = c
  /\ \A i \in 1 .. Len(p) : p[i] < n
  /\ \A i, j \in 1 .. Len(p) : p[i] = p[j] => i = j

\* One more cluster on the path.
LEMMA PathMore ==
  ASSUME NEW p, NEW c, NEW n \in Nat, PathOk(p, c, n), NEW a \in Nat, a >= n
  PROVE  /\ PathOk(Append(p, a), c, a + 1) /\ Len(p) \in Nat /\ Len(Append(p, a)) = Len(p) + 1
         /\ (\A i \in 1 .. Len(p) : Append(p, a)[i] = p[i]) /\ Append(p, a)[Len(p) + 1] = a
         /\ Upto(Append(p, a), Len(p) + 1) = Upto(p, Len(p)) \cup {a}
         /\ a \notin Upto(p, Len(p))
<1> DEFINE t == Append(p, a)
           m == Len(p)
<1>1. /\ p \in Seq(Nat) /\ m >= 1 /\ p[1] = c /\ (\A i \in 1 .. m : p[i] < n)
      /\ (\A i, j \in 1 .. m : p[i] = p[j] => i = j)
  BY DEF PathOk
<1>2. m \in Nat /\ t \in Seq(Nat) /\ Len(t) = m + 1 /\ t[m + 1] = a /\ (\A i \in 1 .. m : t[i] = p[i] /\ p[i] \in Nat)
  BY <1>1
<1> HIDE DEF t, m
<1>3. \A i \in 1 .. m + 1 : (i \in 1 .. m /\ t[i] = p[i] /\ p[i] < n /\ p[i] \in Nat) \/ (i = m + 1 /\ t[i] = a)
  BY <1>1, <1>2
<1>4. t[1] = c
  BY <1>1, <1>2
<1>5. \A i \in 1 .. m + 1 : t[i] < a + 1
  BY <1>3
<1>6. \A i, j \in 1 .. m + 1 : t[i] = t[j] => i = j
  BY <1>1, <1>3
<1>7. PathOk(t, c, a + 1)
  BY <1>2, <1>4, <1>5, <1>6 DEF PathOk
<1>8. Upto(t, m + 1) = Upto(p, m) \cup {a}
  <2>1. ASSUME NEW x \in Upto(t, m + 1) PROVE x \in Upto(p, m) \cup {a}
    BY <1>3 DEF Upto
  <2>2. ASSUME NEW x \in Upto(p, m) \cup {a} PROVE x \in Upto(t, m + 1)
    BY <1>2 DEF Upto
  <2> QED BY <2>1, <2>2
<1>9. a \notin Upto(p, m)
  BY <1>3, <1>2 DEF Upto
<1> QED BY <1>2, <1>7, <1>8, <1>9 DEF t, m

\* What the calls start from, and the state they keep.
GrowStart(q, c, R) ==
  /\ FileOk(q, R, {}) /\ CacheOk(q) /\ CacheIn(q) /\ 0 \in R /\ R \subseteq Nat
  /\ c \in Nat /\ FreeIn(q, c) /\ c < q.free

\* The turns so far.
GrowOk(q, c, R, s) ==
  /\ s = [q |-> s.q, path |-> s.path, st |-> s.st] /\ s.st \in {"on", "ok", "fail"}
  /\ PathOk(s.path, c, s.q.free)
  /\ \A j \in 1 .. Len(s.path) : FreeIn(s.q, s.path[j]) /\ (q.rft # <<>> => s.path[j] \notin R)
  /\ \A j \in 1 .. Len(s.path) : j < Len(s.path) \/ s.st = "ok" => HasBlock(s.q, s.path[j])
  /\ SameGuest(q, s.q) /\ s.q.wild = q.wild /\ Len(s.q.rft) = Len(q.rft)
  /\ FileOk(s.q, R, Upto(s.path, Len(s.path))) /\ CacheOk(s.q) /\ CacheIn(s.q)
  /\ Blocks(q) \subseteq Blocks(s.q) /\ Blocks(s.q) \subseteq Blocks(q) \cup Upto(s.path, Len(s.path))
  /\ (q.rft # <<>> => c \notin Blocks(s.q))
  /\ \A b \in Blocks(q) : s.q.rb[b] = q.rb[b]
  /\ Len(s.path) = 1 => s.q.rft = q.rft /\ s.q.rb = q.rb
  /\ Len(s.path) # 1 => q.rft # <<>>

\* A state that differs in what scans change keeps it.
LEMMA GrowQuiet ==
  ASSUME NEW q, NEW c, NEW R, NEW s, GrowOk(q, c, R, s), NEW p, Quiet(s.q, p), p.free >= s.q.free,
         NEW st \in {"on", "ok", "fail"}, st = "ok" => HasBlock(s.q, s.path[Len(s.path)])
  PROVE  GrowOk(q, c, R, [q |-> p, path |-> s.path, st |-> st])
<1> DEFINE t == [q |-> p, path |-> s.path, st |-> st]
<1>1. t = [q |-> p, path |-> s.path, st |-> st] /\ t.q = p /\ t.path = s.path /\ t.st = st
  OBVIOUS
<1>2. FileTyped(s.q) /\ s.q.free \in Nat
  BY DEF GrowOk, FileOk, FileTyped
<1>3. /\ FileTyped(p) /\ Blocks(p) = Blocks(s.q) /\ (\A x : (HasBlock(p, x) <=> HasBlock(s.q, x)) /\ Home(p, x) = Home(s.q, x))
      /\ \A P : FileOk(s.q, R, P) => FileOk(p, R, P)
  BY <1>2, QuietFile, Zenon
<1>4. /\ p.rft = s.q.rft /\ p.rb = s.q.rb /\ p.wild = s.q.wild /\ CacheOk(p) /\ CacheIn(p) /\ p.free \in Nat
      /\ \A x \in Nat : FreeIn(s.q, x) => FreeIn(p, x)
  BY DEF Quiet, CacheMoved, GrowOk
<1>5. SameGuest(q, p)
  BY DEF Quiet, CacheMoved, GrowOk, SameGuest
<1> HIDE DEF t
<1>6. PathOk(s.path, c, p.free)
  <2>1. PathOk(s.path, c, s.q.free)
    BY DEF GrowOk
  <2>2. \A i \in 1 .. Len(s.path) : s.path[i] \in Nat
    BY <2>1 DEF PathOk
  <2>3. \A i \in 1 .. Len(s.path) : s.path[i] < p.free
    BY <1>2, <1>4, <2>1, <2>2 DEF PathOk
  <2> QED BY <2>1, <2>3, Zenon DEF PathOk
<1>7. \A j \in 1 .. Len(s.path) : FreeIn(p, s.path[j]) /\ (q.rft # <<>> => s.path[j] \notin R)
  <2>1. \A i \in 1 .. Len(s.path) : s.path[i] \in Nat
    BY <1>6 DEF PathOk
  <2> QED BY <1>4, <2>1, Zenon DEF GrowOk
<1>8. \A j \in 1 .. Len(s.path) : j < Len(s.path) \/ st = "ok" => HasBlock(p, s.path[j])
  <2>1. Len(s.path) \in Nat
    BY <1>6 DEF PathOk
  <2>2. \A j \in 1 .. Len(s.path) : j < Len(s.path) => HasBlock(s.q, s.path[j])
    BY Zenon DEF GrowOk
  <2>3. \A j \in 1 .. Len(s.path) : st = "ok" => j < Len(s.path) \/ j = Len(s.path)
    BY <2>1
  <2> QED BY <1>3, <2>2, <2>3
<1>9. FileOk(p, R, Upto(s.path, Len(s.path)))
  BY <1>3, Zenon DEF GrowOk
<1>10. /\ Len(p.rft) = Len(q.rft) /\ Blocks(q) \subseteq Blocks(p) /\ Blocks(p) \subseteq Blocks(q) \cup Upto(s.path, Len(s.path))
       /\ (q.rft # <<>> => c \notin Blocks(p)) /\ (\A b \in Blocks(q) : p.rb[b] = q.rb[b])
       /\ (Len(s.path) = 1 => p.rft = q.rft /\ p.rb = q.rb) /\ (Len(s.path) # 1 => q.rft # <<>>) /\ p.wild = q.wild
  BY <1>3, <1>4, Zenon DEF GrowOk
<1>11. GrowOk(q, c, R, t)
  BY <1>1, <1>4, <1>5, <1>6, <1>7, <1>8, <1>9, <1>10 DEF GrowOk
<1> QED BY <1>11 DEF t

\* One more block is made, or the calls end.
LEMMA TurnGrows ==
  ASSUME NEW q, NEW c, NEW R, GrowStart(q, c, R), NEW s, GrowOk(q, c, R, s), NEW rf, NEW wf \in BOOLEAN
  PROVE  GrowOk(q, c, R, GrowTurn(s, rf, wf))
<1> DEFINE x == s.path[Len(s.path)]
           a == Scan(s.q, rf)
           t == GrowTurn(s, rf, wf)
           p == NewBlock(a.q, x, a.c)
           m == Len(s.path)
           P == Upto(s.path, m)
<1>0. s = [q |-> s.q, path |-> s.path, st |-> s.st] /\ PathOk(s.path, c, s.q.free) /\ FileOk(s.q, R, P) /\ FileTyped(s.q) /\ CacheOk(s.q)
      /\ CacheIn(s.q) /\ s.q.free \in Nat
  BY DEF GrowOk, FileOk, FileTyped
<1>1. m \in Nat /\ m >= 1 /\ m \in 1 .. m /\ x \in Nat /\ \A i \in 1 .. m : s.path[i] \in Nat
  BY <1>0 DEF PathOk
<1>q. Quiet(s.q, s.q)
  BY <1>0 DEF Quiet, CacheMoved, SameGuest, FileTyped
<1>2. CASE s.st # "on"
  BY <1>2 DEF GrowTurn
<1>3. CASE s.st = "on" /\ HasBlock(s.q, x)
  <2>1. t = [s EXCEPT !.st = "ok"]
    BY <1>3 DEF GrowTurn
  <2>2. t = [q |-> s.q, path |-> s.path, st |-> "ok"]
    BY <1>0, <2>1
  <2>3. GrowOk(q, c, R, [q |-> s.q, path |-> s.path, st |-> "ok"])
    <3>1. s.q.free >= s.q.free
      BY <1>0
    <3> QED BY <1>q, <1>3, <3>1, GrowQuiet
  <2> QED BY <2>2, <2>3
<1>4. CASE s.st = "on" /\ ~HasBlock(s.q, x) /\ Slot(x) > Len(s.q.rft)
  <2>1. t = [s EXCEPT !.st = "fail"]
    BY <1>4 DEF GrowTurn
  <2>2. t = [q |-> s.q, path |-> s.path, st |-> "fail"]
    BY <1>0, <2>1
  <2>3. GrowOk(q, c, R, [q |-> s.q, path |-> s.path, st |-> "fail"])
    <3>1. s.q.free >= s.q.free
      BY <1>0
    <3> QED BY <1>q, <3>1, GrowQuiet
  <2> QED BY <2>2, <2>3
<1>5. ScanOk(s.q, a)
  BY <1>0, ScanFinds
<1>6. Quiet(s.q, a.q) /\ a.q.free >= s.q.free /\ a.q.free \in Nat
  BY <1>5 DEF ScanOk, Quiet
<1>7. CASE s.st = "on" /\ ~HasBlock(s.q, x) /\ ~(Slot(x) > Len(s.q.rft)) /\ (a.st # "free" \/ wf)
  <2>1. t = [q |-> a.q, path |-> s.path, st |-> "fail"]
    BY <1>7 DEF GrowTurn
  <2> HIDE DEF a
  <2>2. GrowOk(q, c, R, [q |-> a.q, path |-> s.path, st |-> "fail"])
    BY <1>6, GrowQuiet
  <2> QED BY <2>1, <2>2
<1>8. CASE s.st = "on" /\ ~HasBlock(s.q, x) /\ ~(Slot(x) > Len(s.q.rft)) /\ ~(a.st # "free" \/ wf)
  <2>1. t = [s EXCEPT !.q = p, !.path = Append(s.path, a.c)]
    BY <1>8 DEF GrowTurn
  <2> HIDE DEF a
  <2>2. a.c \in Nat /\ a.c >= s.q.free /\ a.q.free = a.c + 1 /\ FreeIn(a.q, a.c)
    BY <1>5, <1>8 DEF ScanOk
  <2>3. GrowOk(q, c, R, [q |-> a.q, path |-> s.path, st |-> "on"])
    BY <1>6, GrowQuiet
  <2> DEFINE u == [q |-> a.q, path |-> s.path, st |-> "on"]
  <2>4. u = [q |-> a.q, path |-> s.path, st |-> "on"] /\ u.q = a.q /\ u.path = s.path
    OBVIOUS
  <2>5. GrowOk(q, c, R, u)
    BY <2>3
  <2> HIDE DEF u
  <2>6. /\ FileOk(a.q, R, P) /\ CacheOk(a.q) /\ CacheIn(a.q) /\ a.q.wild = q.wild /\ SameGuest(q, a.q) /\ Len(a.q.rft) = Len(q.rft)
        /\ Blocks(q) \subseteq Blocks(a.q) /\ Blocks(a.q) \subseteq Blocks(q) \cup P /\ (q.rft # <<>> => c \notin Blocks(a.q))
        /\ (\A b \in Blocks(q) : a.q.rb[b] = q.rb[b])
        /\ (\A j \in 1 .. m : FreeIn(a.q, s.path[j]) /\ (q.rft # <<>> => s.path[j] \notin R))
        /\ (\A j \in 1 .. m : j < m => HasBlock(a.q, s.path[j]))
    BY <2>4, <2>5 DEF GrowOk
  <2>7. ~HasBlock(a.q, x) /\ Slot(x) <= Len(a.q.rft) /\ q.rft # <<>>
    <3>1. a.q.rft = s.q.rft /\ s.q.rft \in Seq(Nat)
      BY <1>0, <1>6 DEF Quiet, CacheMoved, FileTyped
    <3>2. Slot(x) \in Nat \ {0}
      BY <1>0, <1>1, Where
    <3>3. Slot(x) <= Len(a.q.rft)
      BY <1>8, <3>1, <3>2
    <3>4. q.rft \in Seq(Nat) /\ Len(q.rft) >= 1
      BY <2>6, <3>1, <3>2, <3>3 DEF GrowStart, FileOk, FileTyped
    <3> QED BY <1>8, <3>1, <3>3, <3>4 DEF HasBlock
  <2> DEFINE w == Append(s.path, a.c)
  <2>8. /\ PathOk(w, c, a.c + 1) /\ Len(w) = m + 1 /\ (\A i \in 1 .. m : w[i] = s.path[i]) /\ w[m + 1] = a.c
        /\ Upto(w, m + 1) = P \cup {a.c} /\ a.c \notin P
    BY <1>0, <2>2, PathMore
  <2>9. /\ SameGuest(a.q, p) /\ p.wild = a.q.wild /\ p.free = a.q.free /\ Len(p.rft) = Len(a.q.rft)
        /\ a.c \notin R /\ a.c \notin Blocks(a.q) /\ Blocks(p) = Blocks(a.q) \cup {a.c}
        /\ FileOk(p, R, P \cup {a.c}) /\ CacheOk(p) /\ CacheIn(p)
        /\ HasBlock(p, x) /\ (\A y \in Nat : HasBlock(a.q, y) => HasBlock(p, y))
        /\ (\A y \in Nat : FreeIn(a.q, y) => FreeIn(p, y))
        /\ \A b \in Blocks(a.q) : p.rb[b] = a.q.rb[b]
    <3>1. P \subseteq Nat /\ 0 \in R /\ R \subseteq Nat
      BY <1>1 DEF Upto, GrowStart
    <3>2. BlockRoom(a.q, R, P, x, a.c)
      BY <1>1, <2>2, <2>6, <2>7, <2>8, <3>1, Zenon DEF BlockRoom
    <3>3. BlockAdded(a.q, R, P, x, a.c, p)
      BY <3>2, BlockMade
    <3> QED BY <3>3, Zenon DEF BlockAdded
  <2>10. t = [q |-> p, path |-> w, st |-> "on"] /\ t.q = p /\ t.path = w /\ t.st = "on"
    BY <1>0, <1>8, <2>1
  <2> HIDE DEF p, w, t, P, x
  <2>11. SameGuest(q, p)
    BY <2>6, <2>9 DEF SameGuest
  <2>12. \A j \in 1 .. m + 1 : FreeIn(p, w[j]) /\ (q.rft # <<>> => w[j] \notin R)
    <3>1. TAKE j \in 1 .. m + 1
    <3>2. CASE j \in 1 .. m
      BY <1>1, <2>6, <2>8, <2>9, <3>2
    <3>3. CASE j = m + 1
      BY <2>2, <2>8, <2>9, <3>3
    <3> QED BY <1>1, <3>2, <3>3
  <2>13. \A j \in 1 .. m + 1 : j < m + 1 => HasBlock(p, w[j])
    <3>1. SUFFICES ASSUME NEW j \in 1 .. m + 1, j < m + 1 PROVE HasBlock(p, w[j])
      OBVIOUS
    <3>2. j \in 1 .. m /\ w[j] = s.path[j] /\ s.path[j] \in Nat /\ (j < m \/ j = m)
      BY <1>1, <2>8, <3>1
    <3>3. CASE j < m
      BY <2>6, <2>9, <3>2, <3>3
    <3>4. CASE j = m
      BY <2>9, <3>2, <3>4 DEF x
    <3> QED BY <3>2, <3>3, <3>4
  <2>14. c # a.c
    <3>1. c = s.path[1] /\ s.path[1] < s.q.free
      BY <1>0, <1>1 DEF PathOk
    <3> QED BY <1>0, <1>1, <2>2, <3>1
  <2>15. /\ Blocks(q) \subseteq Blocks(p) /\ Blocks(p) \subseteq Blocks(q) \cup Upto(w, m + 1) /\ c \notin Blocks(p)
         /\ \A b \in Blocks(q) : p.rb[b] = q.rb[b]
    BY <2>6, <2>7, <2>8, <2>9, <2>14
  <2>16. PathOk(w, c, p.free) /\ FileOk(p, R, Upto(w, m + 1))
    BY <2>2, <2>8, <2>9
  <2>17. m + 1 # 1
    BY <1>1
  <2>18. GrowOk(q, c, R, t)
    <3> HIDE DEF m
    <3>1. Len(w) = m + 1 /\ Len(t.path) = m + 1
      BY <2>8, <2>10
    <3>2. p.wild = q.wild /\ Len(p.rft) = Len(q.rft) /\ CacheOk(p) /\ CacheIn(p)
      BY <2>6, <2>9
    <3> QED BY <2>7, <2>10, <2>11, <2>12, <2>13, <2>15, <2>16, <2>17, <3>1, <3>2 DEF GrowOk
  <2> QED BY <2>18 DEF t
<1> QED BY <1>2, <1>3, <1>4, <1>7, <1>8

\* The outer calls that count their clusters.
IsOuter(f, q, path, d, m) ==
  /\ f = [k \in 0 .. m |-> f[k]]
  /\ f[0] = q
  /\ \A k \in 1 .. m : f[k] = CountAgain(f[k - 1], path[Len(path) - k], IF k = Len(path) - 1 THEN d ELSE 1)

\* The recursion has a solution.
LEMMA OuterExist == ASSUME NEW q, NEW path, NEW d, NEW n \in Nat PROVE \E f : IsOuter(f, q, path, d, n)
<1> DEFINE Bad == {m \in Nat : ~(\E f : IsOuter(f, q, path, d, m))}
<1>1. SUFFICES ASSUME Bad # {} PROVE FALSE
  OBVIOUS
<1>2. PICK m \in Bad : \A k \in Bad : m <= k
  <2>1. Bad \in SUBSET Nat
    OBVIOUS
  <2> HIDE DEF Bad
  <2> QED BY <1>1, <2>1, LeastNat
<1>3. m # 0
  <2>1. SUFFICES ASSUME m = 0 PROVE FALSE
    OBVIOUS
  <2> DEFINE g == [k \in 0 .. 0 |-> q]
  <2>2. IsOuter(g, q, path, d, 0)
    BY DEF IsOuter
  <2> QED BY <1>2, <2>1, <2>2
<1>4. m \in Nat /\ m - 1 \in Nat
  BY <1>2, <1>3
<1>5. PICK f : IsOuter(f, q, path, d, m - 1)
  BY <1>2, <1>4
<1> DEFINE g == [k \in 0 .. m |-> IF k < m THEN f[k] ELSE CountAgain(f[m - 1], path[Len(path) - m], IF m = Len(path) - 1 THEN d ELSE 1)]
<1>6. IsOuter(g, q, path, d, m)
  <2>1. g = [k \in 0 .. m |-> g[k]]
    OBVIOUS
  <2>2. g[0] = q
    <3>1. 0 \in 0 .. m /\ 0 < m
      BY <1>3, <1>4
    <3>2. f[0] = q
      BY <1>5, Zenon DEF IsOuter
    <3> QED BY <3>1, <3>2
  <2>3. ASSUME NEW k \in 1 .. m PROVE g[k] = CountAgain(g[k - 1], path[Len(path) - k], IF k = Len(path) - 1 THEN d ELSE 1)
    <3>1. g[k - 1] = f[k - 1]
      BY <1>4
    <3>2. CASE k < m
      <4>1. \A j \in 1 .. m - 1 : f[j] = CountAgain(f[j - 1], path[Len(path) - j], IF j = Len(path) - 1 THEN d ELSE 1)
        BY <1>5, Zenon DEF IsOuter
      <4>2. k \in 1 .. m - 1 /\ g[k] = f[k]
        BY <1>4, <3>2
      <4>3. f[k] = CountAgain(f[k - 1], path[Len(path) - k], IF k = Len(path) - 1 THEN d ELSE 1)
        BY <4>1, <4>2, Zenon
      <4> HIDE DEF g
      <4> QED BY <3>1, <4>2, <4>3, Zenon
    <3>3. CASE k = m
      <4>1. g[k] = CountAgain(f[m - 1], path[Len(path) - m], IF m = Len(path) - 1 THEN d ELSE 1)
        BY <1>4, <3>3
      <4> HIDE DEF g
      <4> QED BY <3>1, <3>3, <4>1, Zenon
    <3> QED BY <1>4, <3>2, <3>3
  <2> HIDE DEF g
  <2> QED BY <2>1, <2>2, <2>3 DEF IsOuter
<1> QED BY <1>2, <1>6

\* The waiting calls return in these turns.
LEMMA OuterIs ==
  ASSUME NEW q, NEW path, NEW d, Len(path) - 1 \in Nat
  PROVE  \E f : IsOuter(f, q, path, d, Len(path) - 1) /\ CountOuter(q, path, d) = f[Len(path) - 1]
<1> DEFINE n == Len(path) - 1
<1> HIDE DEF n
<1>0. n \in Nat
  BY DEF n
<1> DEFINE Step(f) == [k \in 0 .. n |-> IF k = 0 THEN q ELSE CountAgain(f[k - 1], path[Len(path) - k], IF k = Len(path) - 1 THEN d ELSE 1)]
           h == CHOOSE f : f = Step(f)
<1>1. PICK f : IsOuter(f, q, path, d, n)
  BY <1>0, OuterExist
<1>2. f = Step(f)
  <2>1. ASSUME NEW k \in 0 .. n
        PROVE  f[k] = IF k = 0 THEN q ELSE CountAgain(f[k - 1], path[Len(path) - k], IF k = Len(path) - 1 THEN d ELSE 1)
    <3>1. f[0] = q /\ \A j \in 1 .. n : f[j] = CountAgain(f[j - 1], path[Len(path) - j], IF j = Len(path) - 1 THEN d ELSE 1)
      BY <1>1, Zenon DEF IsOuter
    <3>2. (k = 0 \/ k \in 1 .. n) /\ (k \in 1 .. n => k # 0)
      BY <1>0
    <3> QED BY <3>1, <3>2, Zenon
  <2>2. f = [k \in 0 .. n |-> f[k]]
    BY <1>1, Zenon DEF IsOuter
  <2> QED BY <2>1, <2>2
<1>3. h = Step(h)
  <2> HIDE DEF Step
  <2> QED BY <1>2
<1>4. CountOuter(q, path, d) = h[n]
  BY Zenon DEF CountOuter, n
<1> HIDE DEF h
<1>5. h = [k \in 0 .. n |-> h[k]] /\ \A k \in 0 .. n : h[k] = IF k = 0 THEN q ELSE CountAgain(h[k - 1], path[Len(path) - k], IF k = Len(path) - 1 THEN d ELSE 1)
  BY <1>3, Zenon
<1>6. IsOuter(h, q, path, d, n)
  <2>1. h[0] = q
    <3>1. 0 \in 0 .. n
      BY <1>0
    <3> QED BY <1>5, <3>1, Zenon
  <2>2. ASSUME NEW k \in 1 .. n PROVE h[k] = CountAgain(h[k - 1], path[Len(path) - k], IF k = Len(path) - 1 THEN d ELSE 1)
    <3>1. k \in 0 .. n /\ k # 0
      BY <1>0
    <3> QED BY <1>5, <3>1, Zenon
  <2> QED BY <1>5, <2>1, <2>2, Zenon DEF IsOuter
<1> QED BY <1>4, <1>6 DEF n

\* The calls keep the state, as many as they are.
LEMMA GrowKeeps ==
  ASSUME NEW q, NEW c, NEW R, GrowStart(q, c, R), NEW rf, NEW wf \in BOOLEAN
  PROVE  GrowOk(q, c, R, Grow(q, c, rf, wf))
<1> DEFINE n == Len(q.rft) + 1
<1>0. /\ FileOk(q, R, {}) /\ FileTyped(q) /\ CacheOk(q) /\ CacheIn(q) /\ 0 \in R /\ R \subseteq Nat
      /\ c \in Nat /\ FreeIn(q, c) /\ c < q.free /\ q.rft \in Seq(Nat) /\ Shaped(q)
  BY DEF GrowStart, FileOk, FileTyped
<1>1. n \in Nat
  BY <1>0
<1>2. PICK f : IsGrow(f, q, c, rf, wf, n) /\ Grow(q, c, rf, wf) = f[n]
  BY <1>1, GrowIs, Zenon
<1> HIDE DEF n
<1>3. f[0] = [q |-> q, path |-> <<c>>, st |-> "on"] /\ \A k \in 1 .. n : f[k] = GrowTurn(f[k - 1], rf, wf)
  BY <1>2, Zenon DEF IsGrow
<1>4. GrowOk(q, c, R, f[0])
  <2> DEFINE s == f[0]
  <2>1. s = [q |-> q, path |-> <<c>>, st |-> "on"] /\ s.q = q /\ s.path = <<c>> /\ s.st = "on"
    BY <1>3
  <2> HIDE DEF s
  <2>2. <<c>> \in Seq(Nat) /\ Len(<<c>>) = 1 /\ <<c>>[1] = c
    BY <1>0
  <2>3. PathOk(<<c>>, c, q.free)
    BY <1>0, <2>2 DEF PathOk
  <2>4. Upto(<<c>>, 1) = {c}
    BY <2>2 DEF Upto
  <2>5. q.rft # <<>> => c \notin R /\ c \notin Blocks(q)
    <3>1. SUFFICES ASSUME q.rft # <<>>, c \in R \cup Blocks(q) PROVE FALSE
      OBVIOUS
    <3>2. HasBlock(q, c) /\ q.rb[Home(q, c)][c % RbSize] # 0
      BY <1>0, <3>1 DEF FileOk
    <3> QED BY <1>0, <3>2 DEF FreeIn
  <2>6. FileOk(q, R, {c})
    BY <1>0 DEF FileOk
  <2>7. SameGuest(q, q)
    BY <1>0 DEF SameGuest
  <2>8. \A j \in 1 .. Len(<<c>>) : FreeIn(q, <<c>>[j]) /\ (q.rft # <<>> => <<c>>[j] \notin R)
    BY <1>0, <2>2, <2>5
  <2>9. \A j \in 1 .. Len(<<c>>) : j < Len(<<c>>) \/ s.st = "ok" => HasBlock(q, <<c>>[j])
    BY <2>1, <2>2
  <2>10. Blocks(q) \subseteq Blocks(q) \cup Upto(<<c>>, Len(<<c>>)) /\ FileOk(q, R, Upto(<<c>>, Len(<<c>>)))
    BY <2>2, <2>4, <2>6
  <2>11. s.st \in {"on", "ok", "fail"}
    BY <2>1
  <2>12. GrowOk(q, c, R, s)
    BY <1>0, <2>1, <2>2, <2>3, <2>5, <2>7, <2>8, <2>9, <2>10, <2>11, Zenon DEF GrowOk
  <2> QED BY <2>12 DEF s
<1> DEFINE Bad == {k \in Nat : k <= n /\ ~GrowOk(q, c, R, f[k])}
<1>5. Bad = {}
  <2>1. SUFFICES ASSUME Bad # {} PROVE FALSE
    OBVIOUS
  <2>2. PICK m \in Bad : \A k \in Bad : m <= k
    <3>1. Bad \in SUBSET Nat
      OBVIOUS
    <3> HIDE DEF Bad
    <3> QED BY <2>1, <3>1, LeastNat
  <2>3. m \in 1 .. n /\ m - 1 \in Nat /\ m - 1 <= n /\ m - 1 \notin Bad
    BY <1>1, <1>4, <2>2
  <2>4. GrowOk(q, c, R, f[m - 1]) /\ f[m] = GrowTurn(f[m - 1], rf, wf)
    BY <1>3, <2>3
  <2>5. GrowOk(q, c, R, f[m])
    BY <2>4, TurnGrows
  <2> QED BY <2>2, <2>5
<1> QED BY <1>1, <1>2, <1>5

\* The first k clusters of the path, without the last of them.
LEMMA UptoLess ==
  ASSUME NEW p, NEW c, NEW n, PathOk(p, c, n), NEW k \in 1 .. Len(p)
  PROVE  Upto(p, k) \ {p[k]} = Upto(p, k - 1) /\ p[k] \in Nat /\ k - 1 \in Nat
<1>1. Len(p) \in Nat /\ (\A i, j \in 1 .. Len(p) : p[i] = p[j] => i = j) /\ p[k] \in Nat
  BY DEF PathOk
<1>2. \A j \in 1 .. k : j \in 1 .. Len(p) /\ (j \in 1 .. k - 1 \/ j = k)
  BY <1>1
<1>3. \A j \in 1 .. k - 1 : j \in 1 .. k /\ p[j] # p[k]
  BY <1>1
<1> QED BY <1>1, <1>2, <1>3 DEF Upto

\* The state of the outer calls: k of them have counted their clusters.
OuterOk(q, R, path, k, p) ==
  /\ SameGuest(q, p) /\ p.wild = q.wild /\ p.rft = q.rft /\ CacheOk(p) /\ CacheIn(p)
  /\ FileOk(p, R, Upto(path, (Len(path) - 1) - k))
  /\ \A j \in 1 .. (Len(path) - 1) - k : FreeIn(p, path[j])

\* One waiting call counts its cluster.
LEMMA TurnCounts ==
  ASSUME NEW q, NEW R, R \subseteq Nat, NEW path, NEW c, NEW n, PathOk(path, c, n),
         \A j \in 1 .. Len(path) - 1 : HasBlock(q, path[j]),
         NEW k \in 1 .. Len(path) - 1, NEW p, OuterOk(q, R, path, k - 1, p)
  PROVE  OuterOk(q, R, path, k, CountAgain(p, path[Len(path) - k], 1))
<1> DEFINE m == Len(path)
           i == m - k
           x == path[i]
           a == AddTo(ReadBlock(p, x, "none"), x, 1, FALSE)
           u == CountAgain(p, x, 1)
<1>1. /\ m \in Nat /\ i \in 1 .. m /\ i \in 1 .. m - 1 /\ (m - 1) - (k - 1) = i /\ (m - 1) - k = i - 1
      /\ \A j \in 1 .. i - 1 : j \in 1 .. i /\ j \in 1 .. m /\ j # i
  BY DEF PathOk
<1>2. Upto(path, i) \ {x} = Upto(path, i - 1) /\ x \in Nat
  BY <1>1, UptoLess
<1>3. /\ SameGuest(q, p) /\ p.wild = q.wild /\ p.rft = q.rft /\ CacheOk(p) /\ CacheIn(p)
      /\ FileOk(p, R, Upto(path, i)) /\ (\A j \in 1 .. i : FreeIn(p, path[j])) /\ FileTyped(p)
  <2>1. OuterOk(q, R, path, k - 1, p)
    OBVIOUS
  <2> QED BY <1>1, <2>1 DEF OuterOk, FileOk
<1> HIDE DEF m, i
<1>4. HasBlock(q, x)
  BY <1>1 DEF m
<1>5. HasBlock(p, x) /\ FreeIn(p, x)
  <2>1. HasBlock(p, x)
    BY <1>3, <1>4 DEF HasBlock
  <2>2. i \in 1 .. i
    BY <1>1
  <2>3. FreeIn(p, x)
    BY <1>3, <2>2
  <2> QED BY <2>1, <2>3
<1>6. /\ Recounted(p, a.q, x) /\ a.ok /\ a.q.rb[Home(p, x)][x % RbSize] = 1
  <2>1. FALSE \in BOOLEAN /\ 1 \in Int
    OBVIOUS
  <2> HIDE DEF x
  <2>2. LET b == AddTo(ReadBlock(p, x, "none"), x, 1, FALSE)
        IN /\ Recounted(p, b.q, x) /\ b.ok \in BOOLEAN /\ b.ok
           /\ (b.ok /\ FreeIn(p, x) => b.q.rb[Home(p, x)][x % RbSize] = 1)
    BY <1>2, <1>3, <1>5, <2>1, Added
  <2> QED BY <1>5, <2>2
<1>7. u = a.q
  BY DEF CountAgain
<1> HIDE DEF x, a, u
<1>8. a.q.rb[Home(p, x)][x % RbSize] # 0
  BY <1>6
<1>9. FileOk(u, R, Upto(path, i) \ {x})
  BY <1>3, <1>5, <1>6, <1>7, <1>8, RecountFile
<1>10. \A j \in 1 .. i - 1 : FreeIn(u, path[j])
  <2>1. SUFFICES ASSUME NEW j \in 1 .. i - 1 PROVE FreeIn(u, path[j])
    OBVIOUS
  <2>2. FreeIn(p, path[j]) /\ path[j] \in Nat /\ path[j] # x
    <3>1. path \in Seq(Nat) /\ \A y, z \in 1 .. m : path[y] = path[z] => y = z
      BY DEF PathOk, m
    <3>2. path[j] \in Nat
      BY <1>1, <3>1 DEF m
    <3> QED BY <1>1, <1>3, <3>1, <3>2 DEF x
  <2>3. \A y \in Nat : y # x /\ FreeIn(p, y) => FreeIn(a.q, y)
    BY <1>6, Zenon DEF Recounted
  <2> QED BY <1>7, <2>2, <2>3
<1>11. SameGuest(q, u) /\ u.wild = q.wild /\ u.rft = q.rft /\ CacheOk(u) /\ CacheIn(u)
  BY <1>3, <1>6, <1>7 DEF Recounted, SameGuest
<1>12. OuterOk(q, R, path, k, u)
  BY <1>1, <1>2, <1>9, <1>10, <1>11 DEF OuterOk, m
<1> QED BY <1>12 DEF u, x, i, m

\* Once all calls have returned every block is counted.
LEMMA OuterCounts ==
  ASSUME NEW q, NEW R, R \subseteq Nat, NEW path, NEW c, NEW n, PathOk(path, c, n),
         \A j \in 1 .. Len(path) - 1 : HasBlock(q, path[j]), OuterOk(q, R, path, 0, q)
  PROVE  OuterOk(q, R, path, Len(path) - 1, CountOuter(q, path, 1))
<1> DEFINE l == Len(path) - 1
<1>1. l \in Nat
  BY DEF PathOk
<1>2. PICK f : IsOuter(f, q, path, 1, l) /\ CountOuter(q, path, 1) = f[l]
  BY <1>1, OuterIs, Zenon
<1> HIDE DEF l
<1>3. f[0] = q /\ \A k \in 1 .. l : f[k] = CountAgain(f[k - 1], path[Len(path) - k], 1)
  <2>1. f[0] = q /\ \A k \in 1 .. l : f[k] = CountAgain(f[k - 1], path[Len(path) - k], IF k = Len(path) - 1 THEN 1 ELSE 1)
    BY <1>2, Zenon DEF IsOuter
  <2> QED BY <2>1
<1> DEFINE Bad == {k \in Nat : k <= l /\ ~OuterOk(q, R, path, k, f[k])}
<1>4. Bad = {}
  <2>1. SUFFICES ASSUME Bad # {} PROVE FALSE
    OBVIOUS
  <2>2. PICK m \in Bad : \A k \in Bad : m <= k
    <3>1. Bad \in SUBSET Nat
      OBVIOUS
    <3> HIDE DEF Bad
    <3> QED BY <2>1, <3>1, LeastNat
  <2>3. m \in 1 .. l /\ m - 1 \in Nat /\ m - 1 <= l /\ m - 1 \notin Bad
    BY <1>1, <1>3, <2>2
  <2>4. OuterOk(q, R, path, m - 1, f[m - 1]) /\ f[m] = CountAgain(f[m - 1], path[Len(path) - m], 1)
    BY <1>3, <2>3
  <2>5. OuterOk(q, R, path, m, f[m])
    BY <2>3, <2>4, TurnCounts DEF l
  <2> QED BY <2>2, <2>5
<1> QED BY <1>1, <1>2, <1>4 DEF l

\* What a changed count of c leaves of the image.
Updated(q, R, c, u) ==
  /\ SameGuest(q, u.q) /\ FileOk(u.q, R, {}) /\ CacheOk(u.q) /\ u.ok \in BOOLEAN
  /\ u.q.wild = TRUE \/ (u.q.wild = q.wild /\ CacheIn(u.q))
  /\ u.ok => c \notin R /\ c \notin Blocks(u.q)
  /\ Blocks(u.q) \cap R \subseteq Blocks(q)

\* update_cluster_refcount counts the cluster and every block it had to make.
LEMMA CountedUp ==
  ASSUME NEW q, NEW c, NEW R, GrowStart(q, c, R), NEW rf, NEW wf \in BOOLEAN
  PROVE  Updated(q, R, c, UpdateRefcount(q, c, 1, rf, wf))
<1> DEFINE s == Grow(q, c, rf, wf)
           m == Len(s.path)
           x == s.path[m]
           a == AddTo(ReadBlock(s.q, x, rf), x, 1, wf)
           r == IF s.st = "ok" THEN a ELSE [ok |-> FALSE, q |-> s.q]
           u == UpdateRefcount(q, c, 1, rf, wf)
           P == Upto(s.path, m)
<1>1. GrowOk(q, c, R, s)
  BY GrowKeeps
<1>2. u = IF r.ok THEN [ok |-> TRUE, q |-> CountOuter(r.q, s.path, 1)]
          ELSE IF m = 1 THEN r
          ELSE [ok |-> FALSE, q |-> [r.q EXCEPT !.rft = q.rft, !.wild = TRUE]]
  <2>1. (IF m = 1 THEN 1 ELSE 1) = 1
    OBVIOUS
  <2> QED BY <2>1, Zenon DEF UpdateRefcount, CountGrown, CountReturns, CountInnermost
<1> HIDE DEF s
<1>3. /\ PathOk(s.path, c, s.q.free) /\ FileOk(s.q, R, P) /\ CacheOk(s.q) /\ CacheIn(s.q) /\ SameGuest(q, s.q)
      /\ s.q.wild = q.wild /\ Len(s.q.rft) = Len(q.rft) /\ FileTyped(s.q)
      /\ (\A j \in 1 .. m : FreeIn(s.q, s.path[j]) /\ (q.rft # <<>> => s.path[j] \notin R))
      /\ (\A j \in 1 .. m : j < m \/ s.st = "ok" => HasBlock(s.q, s.path[j]))
      /\ Blocks(q) \subseteq Blocks(s.q) /\ Blocks(s.q) \subseteq Blocks(q) \cup P /\ (q.rft # <<>> => c \notin Blocks(s.q))
      /\ (\A b \in Blocks(q) : s.q.rb[b] = q.rb[b])
      /\ (m = 1 => s.q.rft = q.rft /\ s.q.rb = q.rb) /\ (m # 1 => q.rft # <<>>)
  BY <1>1 DEF GrowOk, FileOk
<1>4. m \in Nat /\ m >= 1 /\ m \in 1 .. m /\ 1 \in 1 .. m /\ s.path[1] = c /\ x \in Nat /\ FreeIn(s.q, x)
  <2>1. s.path \in Seq(Nat) /\ m >= 1 /\ s.path[1] = c
    BY <1>3 DEF PathOk
  <2>2. m \in Nat /\ m \in 1 .. m /\ 1 \in 1 .. m /\ x \in Nat
    BY <2>1
  <2> QED BY <1>3, <2>1, <2>2
<1>5. R \subseteq Nat /\ FileOk(q, R, {}) /\ FileTyped(q)
  BY DEF GrowStart, FileOk
<1> HIDE DEF m, x, a, P
<1>6. CASE s.st = "ok" /\ a.ok
  <2>1. HasBlock(s.q, x)
    BY <1>3, <1>4, <1>6 DEF x
  <2>2. Recounted(s.q, a.q, x) /\ a.q.rb[Home(s.q, x)][x % RbSize] = 1
    <3>1. wf => 1 = 1 /\ FreeIn(s.q, x)
      BY <1>4
    <3>2. LET b == AddTo(ReadBlock(s.q, x, rf), x, 1, wf)
          IN Recounted(s.q, b.q, x) /\ (b.ok /\ 1 = 1 /\ FreeIn(s.q, x) => b.q.rb[Home(s.q, x)][x % RbSize] = 1)
      BY <1>3, <1>4, <2>1, <3>1, Added
    <3> QED BY <1>4, <1>6, <3>2 DEF a
  <2>3. FileOk(a.q, R, P \ {x}) /\ Blocks(a.q) = Blocks(s.q) /\ \A y : HasBlock(a.q, y) <=> HasBlock(s.q, y)
    <3>1. a.q.rb[Home(s.q, x)][x % RbSize] # 0
      BY <2>2
    <3>2. FileOk(a.q, R, P \ {x})
      BY <1>3, <1>5, <2>1, <2>2, <3>1, RecountFile
    <3>3. Blocks(a.q) = Blocks(s.q) /\ \A y : (HasBlock(a.q, y) <=> HasBlock(s.q, y)) /\ Home(a.q, y) = Home(s.q, y)
      <4>1. a.q.rft = s.q.rft
        BY <2>2 DEF Recounted
      <4> QED BY <4>1 DEF Blocks, HasBlock, Home
    <3> QED BY <3>2, <3>3
  <2>4. P \ {x} = Upto(s.path, m - 1)
    BY <1>3, <1>4, UptoLess DEF P, m, x
  <2>5. \A j \in 1 .. m - 1 : j \in 1 .. m /\ s.path[j] \in Nat /\ s.path[j] # x
    <3>1. s.path \in Seq(Nat) /\ \A i, j \in 1 .. m : s.path[i] = s.path[j] => i = j
      BY <1>3 DEF PathOk, m
    <3>2. \A j \in 1 .. m : s.path[j] \in Nat
      BY <3>1 DEF m
    <3> QED BY <1>4, <3>1, <3>2 DEF x
  <2>6. \A j \in 1 .. m - 1 : FreeIn(a.q, s.path[j])
    <3>1. \A y \in Nat : y # x /\ FreeIn(s.q, y) => FreeIn(a.q, y)
      BY <2>2, Zenon DEF Recounted
    <3> QED BY <1>3, <2>5, <3>1
  <2>7. OuterOk(a.q, R, s.path, 0, a.q)
    <3>1. (m - 1) - 0 = m - 1
      BY <1>4
    <3>2. CacheOk(a.q) /\ CacheIn(a.q) /\ SameGuest(a.q, a.q)
      BY <1>3, <2>2 DEF Recounted, SameGuest
    <3> QED BY <2>3, <2>4, <2>6, <3>1, <3>2 DEF OuterOk, m
  <2>8. \A j \in 1 .. m - 1 : HasBlock(a.q, s.path[j])
    BY <1>3, <1>4, <2>3
  <2> DEFINE p == CountOuter(a.q, s.path, 1)
  <2>9. OuterOk(a.q, R, s.path, m - 1, p)
    BY <1>3, <1>5, <2>7, <2>8, OuterCounts DEF m
  <2> HIDE DEF p
  <2>10. r = a
    BY <1>6
  <2> HIDE DEF r
  <2>11. u = [ok |-> TRUE, q |-> p]
    BY <1>2, <1>6, <2>10 DEF p
  <2>12. u.ok = TRUE /\ u.q = p
    BY <2>11
  <2> HIDE DEF u
  <2>13. FileOk(p, R, {})
    <3>1. (m - 1) - (m - 1) = 0
      BY <1>4
    <3>2. FileOk(p, R, Upto(s.path, 0))
      BY <2>9, <3>1 DEF OuterOk, m
    <3>3. Upto(s.path, 0) = {}
      BY DEF Upto
    <3> QED BY <3>2, <3>3
  <2>14. SameGuest(q, p) /\ p.wild = q.wild /\ CacheOk(p) /\ CacheIn(p)
    BY <1>3, <2>2, <2>9 DEF OuterOk, Recounted, SameGuest
  <2>15. Blocks(p) = Blocks(s.q)
    BY <2>2, <2>9 DEF Blocks, OuterOk, Recounted
  <2>16. q.rft # <<>>
    <3>1. Slot(x) <= Len(s.q.rft) /\ Slot(x) \in Nat \ {0}
      BY <1>3, <1>4, <2>1, Where DEF HasBlock
    <3>2. q.rft \in Seq(Nat) /\ Len(q.rft) \in Nat
      BY <1>5 DEF FileTyped
    <3> QED BY <1>3, <3>1, <3>2
  <2>17. c \notin R /\ c \notin Blocks(p) /\ Blocks(p) \cap R \subseteq Blocks(q)
    BY <1>3, <1>4, <2>15, <2>16 DEF P, Upto
  <2> QED BY <2>12, <2>13, <2>14, <2>17 DEF Updated, u
<1>7. CASE ~(s.st = "ok" /\ a.ok)
  <2>1. ~r.ok
    BY <1>7
  <2>2. /\ SameGuest(q, r.q) /\ r.q.wild = q.wild /\ r.q.rft = s.q.rft /\ r.q.rb = s.q.rb /\ FileTyped(r.q) /\ CacheOk(r.q) /\ CacheIn(r.q)
        /\ r.ok = FALSE
    <3>1. CASE s.st = "ok"
      <4>0. HasBlock(s.q, x)
        BY <1>3, <1>4, <3>1 DEF x
      <4>1. Recounted(s.q, a.q, x) /\ a.q.rb = s.q.rb /\ a.ok = FALSE
        <5>1. wf => 1 = 1 /\ FreeIn(s.q, x)
          BY <1>4
        <5>2. LET b == AddTo(ReadBlock(s.q, x, rf), x, 1, wf)
              IN Recounted(s.q, b.q, x) /\ b.ok \in BOOLEAN /\ (~b.ok => b.q.rb = s.q.rb)
          BY <1>3, <1>4, <4>0, <5>1, Added
        <5> QED BY <1>7, <3>1, <5>2 DEF a
      <4>2. r = a
        BY <3>1
      <4> QED BY <1>3, <4>1, <4>2 DEF Recounted, SameGuest
    <3>2. CASE s.st # "ok"
      <4>1. r.q = s.q /\ r.ok = FALSE
        BY <3>2
      <4> QED BY <1>3, <4>1
    <3> QED BY <3>1, <3>2
  <2> HIDE DEF r
  <2>3. q.rft # <<>> => \A y \in R \cup Blocks(q) : HasBlock(q, y) /\ q.rb[Home(q, y)][y % RbSize] # 0
    BY <1>5 DEF FileOk
  <2>4. R \cup Blocks(q) \subseteq Nat
    <3>1. \A z \in DOMAIN q.rft : q.rft[z] \in Nat
      BY <1>5 DEF FileTyped
    <3> QED BY <1>5, <3>1 DEF Blocks
  <2>5. q.rft # <<>> => \A y \in R \cup Blocks(q) : HasBlock(q, y) /\ r.q.rb[Home(q, y)][y % RbSize] # 0
    <3>1. SUFFICES ASSUME q.rft # <<>>, NEW y \in R \cup Blocks(q) PROVE HasBlock(q, y) /\ r.q.rb[Home(q, y)][y % RbSize] # 0
      OBVIOUS
    <3>2. HasBlock(q, y) /\ q.rb[Home(q, y)][y % RbSize] # 0
      BY <2>3, <3>1
    <3>3. Home(q, y) \in Blocks(q)
      BY <1>5, <2>4, <3>2, Where
    <3> QED BY <1>3, <2>2, <3>2, <3>3
  <2>6. CASE m = 1
    <3>1. u = r
      BY <1>2, <2>1, <2>6
    <3>2. r.q.rft = q.rft
      BY <1>3, <2>2, <2>6
    <3>3. Blocks(r.q) = Blocks(q) /\ \A y : (HasBlock(r.q, y) <=> HasBlock(q, y)) /\ Home(r.q, y) = Home(q, y)
      BY <3>2 DEF Blocks, HasBlock, Home
    <3>4. FileOk(r.q, R, {})
      BY <2>2, <2>5, <3>2, <3>3 DEF FileOk
    <3> HIDE DEF u
    <3>5. Updated(q, R, c, u)
      BY <2>2, <3>1, <3>3, <3>4 DEF Updated
    <3> QED BY <3>5 DEF u
  <2>7. CASE m # 1
    <3> DEFINE p == [r.q EXCEPT !.rft = q.rft, !.wild = TRUE]
    <3>1. u = [ok |-> FALSE, q |-> p]
      BY <1>2, <2>1, <2>7
    <3>2. u.ok = FALSE /\ u.q = p
      BY <3>1
    <3>3. /\ Shaped(p) /\ p.rlru = r.q.rlru /\ p.ver = q.ver /\ p.size = q.size /\ p.l1 = q.l1 /\ p.l2 = q.l2 /\ p.lru = q.lru
          /\ p.rft = q.rft /\ p.rb = r.q.rb /\ p.free = r.q.free /\ p.wild = TRUE /\ p.data = q.data
      <4>1. p = [r.q EXCEPT !.rft = q.rft, !.wild = TRUE]
        OBVIOUS
      <4> HIDE DEF p
      <4> QED BY <2>2, <4>1 DEF SameGuest, Shaped
    <3> HIDE DEF p, u
    <3>4. Blocks(p) = Blocks(q) /\ \A y : (HasBlock(p, y) <=> HasBlock(q, y)) /\ Home(p, y) = Home(q, y)
      BY <3>3 DEF Blocks, HasBlock, Home
    <3>5. FileTyped(p)
      <4>1. p.rft \in Seq(Nat) /\ p.free \in Nat /\ p.rb \in [DOMAIN p.rb -> Block]
        BY <1>5, <2>2, <3>3 DEF FileTyped
      <4>2. Blocks(s.q) \subseteq DOMAIN s.q.rb
        BY <1>3 DEF FileTyped
      <4>3. Blocks(p) \subseteq DOMAIN p.rb
        BY <1>3, <2>2, <3>3, <3>4, <4>2
      <4>4. \A y, z \in DOMAIN p.rft : p.rft[y] # 0 /\ p.rft[y] = p.rft[z] => y = z
        BY <1>5, <3>3 DEF FileTyped
      <4> QED BY <3>3, <4>1, <4>3, <4>4 DEF FileTyped
    <3>6. FileOk(p, R, {})
      BY <2>5, <3>3, <3>4, <3>5 DEF FileOk
    <3>7. CacheOk(p)
      BY <2>2, <3>3 DEF CacheOk
    <3>8. SameGuest(q, p)
      BY <3>3 DEF SameGuest
    <3>9. Updated(q, R, c, u)
      BY <3>2, <3>3, <3>4, <3>6, <3>7, <3>8 DEF Updated
    <3> QED BY <3>9 DEF u
  <2> QED BY <2>6, <2>7
<1> QED BY <1>6, <1>7

\* An image from which a cluster can be allocated, and what the allocator leaves.
Sound(q, R) == FileOk(q, R, {}) /\ CacheOk(q) /\ CacheIn(q) /\ 0 \in R /\ R \subseteq Nat

\* What an allocation leaves.
AllocDone(q, R, a) ==
  /\ SameGuest(q, a.q) /\ FileOk(a.q, R, {}) /\ CacheOk(a.q)
  /\ a.q.wild = TRUE \/ (a.q.wild = q.wild /\ CacheIn(a.q))
  /\ a.off # NoCluster => a.off \notin R /\ a.off \notin Blocks(a.q)
  /\ Blocks(a.q) \cap R \subseteq Blocks(q)

\* qcow_alloc_clusters hands out a cluster that nothing refers to, or none.
LEMMA Allocates ==
  ASSUME NEW q, NEW R, Sound(q, R), NEW rf, NEW wf \in BOOLEAN
  PROVE  AllocDone(q, R, Alloc(q, rf, wf))
<1> DEFINE s == Scan(q, rf)
           u == UpdateRefcount(s.q, s.c, 1, rf, wf)
           a == Alloc(q, rf, wf)
<1>0. FileOk(q, R, {}) /\ FileTyped(q) /\ CacheOk(q) /\ CacheIn(q) /\ 0 \in R /\ R \subseteq Nat
  BY DEF Sound, FileOk
<1>1. ScanOk(q, s)
  BY <1>0, ScanFinds
<1>2. a = IF s.st # "free" THEN [off |-> NoCluster, q |-> s.q] ELSE [off |-> IF u.ok THEN s.c ELSE NoCluster, q |-> u.q]
  BY Zenon DEF Alloc, AllocFound, Allocated
<1> HIDE DEF s
<1>3. Quiet(q, s.q)
  BY <1>1 DEF ScanOk
<1>4. FileOk(s.q, R, {}) /\ Blocks(s.q) = Blocks(q) /\ CacheOk(s.q) /\ CacheIn(s.q) /\ SameGuest(q, s.q) /\ s.q.wild = q.wild
  <2>1. FileOk(s.q, R, {}) /\ Blocks(s.q) = Blocks(q)
    BY <1>0, <1>3, QuietFile
  <2> QED BY <1>0, <1>3, <2>1 DEF Quiet, CacheMoved
<1>5. CASE s.st # "free"
  <2>1. a.off = NoCluster /\ a.q = s.q
    BY <1>2, <1>5
  <2> HIDE DEF a
  <2>2. AllocDone(q, R, a)
    BY <1>4, <2>1 DEF AllocDone
  <2> QED BY <2>2 DEF a
<1>6. CASE s.st = "free"
  <2>1. s.c \in Nat /\ s.q.free = s.c + 1 /\ FreeIn(s.q, s.c)
    BY <1>1, <1>6 DEF ScanOk
  <2>2. GrowStart(s.q, s.c, R)
    <3>1. s.c < s.q.free
      BY <2>1
    <3> QED BY <1>0, <1>4, <2>1, <3>1 DEF GrowStart
  <2>3. Updated(s.q, R, s.c, u)
    BY <2>2, CountedUp
  <2> HIDE DEF u
  <2>4. a.q = u.q /\ a.off = IF u.ok THEN s.c ELSE NoCluster
    BY <1>2, <1>6
  <2> HIDE DEF a
  <2>5. SameGuest(q, a.q)
    BY <1>4, <2>3, <2>4 DEF Updated, SameGuest
  <2>6. AllocDone(q, R, a)
    BY <1>4, <2>3, <2>4, <2>5 DEF AllocDone, Updated
  <2> QED BY <2>6 DEF a
<1> QED BY <1>5, <1>6

\* The first call ends it for a cluster whose block is there.
LEMMA GrowNothing ==
  ASSUME NEW q, q.rft \in Seq(Nat), NEW c \in Nat, HasBlock(q, c) \/ q.rft = <<>>
  PROVE  Grow(q, c, "none", FALSE) = [q |-> q, path |-> <<c>>, st |-> IF HasBlock(q, c) THEN "ok" ELSE "fail"]
<1> DEFINE n == Len(q.rft) + 1
           e == [q |-> q, path |-> <<c>>, st |-> IF HasBlock(q, c) THEN "ok" ELSE "fail"]
<1>1. n \in Nat /\ n >= 1
  OBVIOUS
<1>2. PICK f : IsGrow(f, q, c, "none", FALSE, n) /\ Grow(q, c, "none", FALSE) = f[n]
  BY <1>1, GrowIs, Zenon
<1> HIDE DEF n
<1>3. f[0] = [q |-> q, path |-> <<c>>, st |-> "on"] /\ \A k \in 1 .. n : f[k] = GrowTurn(f[k - 1], "none", FALSE)
  BY <1>2, Zenon DEF IsGrow
<1>4. f[1] = e
  <2>1. 1 \in 1 .. n /\ 1 - 1 = 0
    BY <1>1
  <2> DEFINE s == f[0]
  <2>2. s = [q |-> q, path |-> <<c>>, st |-> "on"] /\ s.q = q /\ s.path = <<c>> /\ s.st = "on"
    BY <1>3
  <2>3. f[1] = GrowTurn(s, "none", FALSE)
    BY <1>3, <2>1
  <2> HIDE DEF s
  <2>4. s.path[Len(s.path)] = c
    BY <2>2
  <2>5. CASE HasBlock(q, c)
    <3>1. f[1] = [s EXCEPT !.st = "ok"]
      BY <2>2, <2>3, <2>4, <2>5 DEF GrowTurn
    <3> QED BY <2>2, <2>5, <3>1
  <2>6. CASE ~HasBlock(q, c)
    <3>1. q.rft = <<>>
      BY <2>6
    <3>2. Slot(c) > Len(q.rft)
      <4>1. RbSize \in Nat \ {0}
        BY DiskAssumption
      <4>2. c \div RbSize \in Nat
        BY <4>1
      <4> QED BY <3>1, <4>2 DEF Slot
    <3>3. f[1] = [s EXCEPT !.st = "fail"]
      BY <2>2, <2>3, <2>4, <2>6, <3>2 DEF GrowTurn
    <3> QED BY <2>2, <2>6, <3>3
  <2> QED BY <2>5, <2>6
<1>5. GrowTurn(e, "none", FALSE) = e
  <2>1. e.st # "on"
    OBVIOUS
  <2> HIDE DEF e
  <2> QED BY <2>1 DEF GrowTurn
<1> HIDE DEF e
<1> DEFINE Bad == {k \in Nat : 1 <= k /\ k <= n /\ f[k] # e}
<1>6. Bad = {}
  <2>1. SUFFICES ASSUME Bad # {} PROVE FALSE
    OBVIOUS
  <2>2. PICK m \in Bad : \A k \in Bad : m <= k
    <3>1. Bad \in SUBSET Nat
      OBVIOUS
    <3> HIDE DEF Bad
    <3> QED BY <2>1, <3>1, LeastNat
  <2>3. m \in 1 .. n /\ m - 1 \in Nat /\ 1 <= m - 1 /\ m - 1 <= n /\ m - 1 \notin Bad
    BY <1>1, <1>4, <2>2
  <2>4. f[m - 1] = e /\ f[m] = GrowTurn(f[m - 1], "none", FALSE)
    BY <1>3, <2>3
  <2> QED BY <1>5, <2>2, <2>4
<1>7. f[n] = e
  BY <1>1, <1>6
<1> QED BY <1>2, <1>7, Zenon DEF e

\* qcow_free_clusters of a cluster of R takes its count down, and no other one.
LEMMA Freed ==
  ASSUME NEW q, NEW R, FileOk(q, R, {}), CacheOk(q), R \subseteq Nat, NEW c \in R
  PROVE  /\ SameGuest(q, FreeCluster(q, c)) /\ FreeCluster(q, c).wild = q.wild /\ FreeCluster(q, c).rft = q.rft
         /\ FileOk(FreeCluster(q, c), R, {c})
<1> DEFINE s == Grow(q, c, "none", FALSE)
           a == AddTo(ReadBlock(q, c, "none"), c, -1, FALSE)
           u == UpdateRefcount(q, c, -1, "none", FALSE)
<1>0. c \in Nat /\ FileTyped(q) /\ q.rft \in Seq(Nat) /\ Shaped(q) /\ (HasBlock(q, c) \/ q.rft = <<>>)
  BY DEF FileOk, FileTyped
<1>1. FreeCluster(q, c) = u.q
  <2>1. c # NoCluster
    BY <1>0 DEF NoCluster
  <2> QED BY <2>1 DEF FreeCluster
<1>2. s = [q |-> q, path |-> <<c>>, st |-> IF HasBlock(q, c) THEN "ok" ELSE "fail"]
  BY <1>0, GrowNothing
<1>3. s.q = q /\ s.path = <<c>> /\ (s.st = "ok" <=> HasBlock(q, c)) /\ Len(s.path) = 1 /\ s.path[Len(s.path)] = c
  <2> HIDE DEF s
  <2>1. s.q = q /\ s.path = <<c>> /\ (s.st = "ok" <=> HasBlock(q, c))
    BY <1>2
  <2> QED BY <2>1
<1> DEFINE r == IF s.st = "ok" THEN AddTo(ReadBlock(s.q, s.path[Len(s.path)], "none"), s.path[Len(s.path)], IF Len(s.path) = 1 THEN -1 ELSE 1, FALSE)
                ELSE [ok |-> FALSE, q |-> s.q]
<1>4. u = IF r.ok THEN [ok |-> TRUE, q |-> CountOuter(r.q, s.path, -1)]
          ELSE IF Len(s.path) = 1 THEN r
          ELSE [ok |-> FALSE, q |-> [r.q EXCEPT !.rft = q.rft, !.wild = TRUE]]
  BY Zenon DEF UpdateRefcount, CountGrown, CountReturns, CountInnermost
<1> HIDE DEF s, u
<1>5. CASE HasBlock(q, c)
  <2>1. r = a
    BY <1>3, <1>5
  <2>2. Recounted(q, a.q, c) /\ a.ok
    <3>1. FALSE \in BOOLEAN /\ -1 \in Int
      OBVIOUS
    <3>2. LET b == AddTo(ReadBlock(q, c, "none"), c, -1, FALSE)
          IN Recounted(q, b.q, c) /\ b.ok
      BY <1>0, <1>5, <3>1, Added
    <3> QED BY <3>2
  <2>3. CountOuter(a.q, <<c>>, -1) = a.q
    <3> HIDE DEF a
    <3>1. Len(<<c>>) - 1 = 0
      OBVIOUS
    <3>2. PICK f : IsOuter(f, a.q, <<c>>, -1, 0) /\ CountOuter(a.q, <<c>>, -1) = f[0]
      <4>1. Len(<<c>>) - 1 \in Nat
        BY <3>1
      <4>2. \E f : IsOuter(f, a.q, <<c>>, -1, Len(<<c>>) - 1) /\ CountOuter(a.q, <<c>>, -1) = f[Len(<<c>>) - 1]
        BY <4>1, OuterIs, Zenon
      <4> QED BY <3>1, <4>2
    <3> QED BY <3>2, Zenon DEF IsOuter
  <2> HIDE DEF r, a
  <2>4. u.q = a.q
    <3>1. u = [ok |-> TRUE, q |-> CountOuter(a.q, <<c>>, -1)]
      BY <1>3, <1>4, <2>1, <2>2
    <3> QED BY <2>3, <3>1
  <2>5. FileOk(a.q, R, {} \cup {c})
    BY <2>2, RecountFile
  <2>6. {} \cup {c} = {c}
    OBVIOUS
  <2>7. SameGuest(q, a.q) /\ a.q.wild = q.wild /\ a.q.rft = q.rft
    BY <2>2 DEF Recounted
  <2> QED BY <1>1, <2>4, <2>5, <2>6, <2>7
<1>6. CASE ~HasBlock(q, c)
  <2>1. r = [ok |-> FALSE, q |-> q]
    BY <1>3, <1>6
  <2> HIDE DEF r
  <2>2. ~r.ok /\ r.q = q
    BY <2>1
  <2>3. u.q = q
    BY <1>3, <1>4, <2>2
  <2>4. SameGuest(q, q) /\ FileOk(q, R, {c})
    BY <1>0 DEF SameGuest, FileOk
  <2> QED BY <1>1, <2>3, <2>4
<1> QED BY <1>5, <1>6

\* What the tables other than the refcount table refer to.
Refs(q) == {0} \cup {q.l1[i].off : i \in Named(q)} \cup {EntryOff(q, i, j) : i \in Named(q), j \in 0 .. L2Size - 1}

\* What an image refers to: its header, tables and data, and its refcount blocks.
LEMMA RefsAre == ASSUME NEW q PROVE Referenced(q) = Refs(q) \cup Blocks(q)
<1> DEFINE E(i) == LET e == q.l1[i] IN
                   IF e.off \in {0, NoCluster} THEN {} ELSE {e.off} \cup {q.l2[e.off][j].off : j \in 0 .. L2Size - 1}
           U == UNION {E(i) : i \in DOMAIN q.l1}
           V == {q.l1[i].off : i \in Named(q)} \cup {EntryOff(q, i, j) : i \in Named(q), j \in 0 .. L2Size - 1}
           W == {q.rft[s] : s \in DOMAIN q.rft}
<1>1. Referenced(q) = {0} \cup W \cup U
  BY DEF Referenced
<1>2. \A x : x \in U <=> \E i \in DOMAIN q.l1 : x \in E(i)
  <2> HIDE DEF E
  <2> QED OBVIOUS
<1>3. \A i \in DOMAIN q.l1 : \A x : x \in E(i) <=> i \in Named(q) /\ (x = q.l1[i].off \/ \E j \in 0 .. L2Size - 1 : x = EntryOff(q, i, j))
  BY DEF Named, EntryOff
<1>4. Named(q) \subseteq DOMAIN q.l1
  BY DEF Named
<1> HIDE DEF E, U
<1>5. \A x : x \in V <=> \E i \in Named(q) : x = q.l1[i].off \/ \E j \in 0 .. L2Size - 1 : x = EntryOff(q, i, j)
  OBVIOUS
<1> HIDE DEF V
<1>6. U = V
  BY <1>2, <1>3, <1>4, <1>5
<1>7. Refs(q) = {0} \cup V
  BY DEF Refs, V
<1>8. {0} \cup W = {0} \cup Blocks(q)
  BY DEF Blocks
<1> QED BY <1>1, <1>6, <1>7, <1>8

\* The tables of an image, typed.
LEMMA TablesAre ==
  ASSUME NEW q, ImageTyped(q), TablesSound(q)
  PROVE  /\ Shaped(q) /\ q.l1 \in Seq([off : Nat \cup {NoCluster}, copied : BOOLEAN])
         /\ \A i \in DOMAIN q.l1 : q.l1[i].off \in Nat \cup {NoCluster} /\ q.l1[i].copied \in BOOLEAN
         /\ Named(q) \subseteq DOMAIN q.l1
         /\ \A i \in Named(q) : q.l1[i].off \in Nat \ {0} /\ q.l1[i].off \in DOMAIN q.l2
         /\ \A i \in DOMAIN q.l1 : i \in Named(q) \/ q.l1[i].off = 0 \/ q.l1[i].off = NoCluster
         /\ \A t \in DOMAIN q.l2, j \in 0 .. L2Size - 1 :
              q.l2[t][j].off \in Nat /\ q.l2[t][j].copied \in BOOLEAN /\ q.l2[t][j].comp \in BOOLEAN
         /\ 0 \in Refs(q) /\ Refs(q) \subseteq Nat
         /\ NoCluster \notin DOMAIN q.l2
<1>1. Shaped(q)
  BY DEF ImageTyped, Shaped
<1>2. q.l1 \in Seq([off : Nat \cup {NoCluster}, copied : BOOLEAN])
  BY DEF ImageTyped
<1>3. \A i \in DOMAIN q.l1 : q.l1[i].off \in Nat \cup {NoCluster} /\ q.l1[i].copied \in BOOLEAN
  <2>1. SUFFICES ASSUME NEW i \in DOMAIN q.l1 PROVE q.l1[i].off \in Nat \cup {NoCluster} /\ q.l1[i].copied \in BOOLEAN
    OBVIOUS
  <2>2. q.l1[i] \in [off : Nat \cup {NoCluster}, copied : BOOLEAN]
    <3> DEFINE S == [off : Nat \cup {NoCluster}, copied : BOOLEAN]
    <3>1. q.l1 \in Seq(S)
      BY <1>2
    <3> HIDE DEF S
    <3>2. q.l1[i] \in S
      BY <3>1
    <3> QED BY <3>2 DEF S
  <2> QED BY <2>2
<1>4. Named(q) \subseteq DOMAIN q.l1 /\ \A i \in DOMAIN q.l1 : i \in Named(q) \/ q.l1[i].off = 0 \/ q.l1[i].off = NoCluster
  BY DEF Named
<1>5. ASSUME NEW i \in Named(q) PROVE q.l1[i].off \in Nat \ {0} /\ q.l1[i].off \in DOMAIN q.l2
  <2>1. q.l1[i].off \in DOMAIN q.l2 /\ DOMAIN q.l2 \subseteq Nat \ {0}
    BY DEF TablesSound
  <2> QED BY <2>1
<1>6. ASSUME NEW t \in DOMAIN q.l2, NEW j \in 0 .. L2Size - 1
      PROVE  q.l2[t][j].off \in Nat /\ q.l2[t][j].copied \in BOOLEAN /\ q.l2[t][j].comp \in BOOLEAN
  <2>1. q.l2[t] \in [0 .. L2Size - 1 -> [off : Nat, copied : BOOLEAN, comp : BOOLEAN]]
    BY DEF ImageTyped
  <2>2. q.l2[t][j] \in [off : Nat, copied : BOOLEAN, comp : BOOLEAN]
    BY <2>1
  <2> QED BY <2>2
<1>7. 0 \in Refs(q) /\ Refs(q) \subseteq Nat
  <2>1. \A i \in Named(q), j \in 0 .. L2Size - 1 : EntryOff(q, i, j) \in Nat
    BY <1>5, <1>6 DEF EntryOff
  <2> QED BY <1>5, <2>1 DEF Refs
<1>8. NoCluster \notin DOMAIN q.l2
  <2>1. DOMAIN q.l2 \subseteq Nat \ {0}
    BY DEF TablesSound
  <2> QED BY <2>1 DEF NoCluster
<1> QED BY <1>1, <1>2, <1>3, <1>4, <1>5, <1>6, <1>7, <1>8

\* The counts of an image whose counts are sound, and back.
LEMMA CountsFile ==
  ASSUME NEW q, ImageTyped(q), TablesSound(q), CountsSound(q), q.free \in Nat
  PROVE  FileOk(q, Refs(q), {}) /\ \A i \in Named(q) : q.l1[i].off \notin Blocks(q)
<1>1. Shaped(q) /\ q.rft \in Seq(Nat) /\ q.rb \in [DOMAIN q.rb -> Block]
  BY DEF ImageTyped, Shaped, Block
<1>2. \A s \in DOMAIN q.rft : q.rft[s] # 0 =>
       /\ q.rft[s] \in DOMAIN q.rb
       /\ \A i \in Named(q) : q.l1[i].off # q.rft[s]
       /\ \A z \in DOMAIN q.rft : q.rft[z] = q.rft[s] => z = s
  BY Zenon DEF CountsSound
<1>3. Blocks(q) \subseteq DOMAIN q.rb /\ \A i \in Named(q) : q.l1[i].off \notin Blocks(q)
  BY <1>2 DEF Blocks
<1>4. \A s, z \in DOMAIN q.rft : q.rft[s] # 0 /\ q.rft[s] = q.rft[z] => s = z
  BY <1>2
<1>5. FileTyped(q)
  BY <1>1, <1>3, <1>4 DEF FileTyped
<1>6. q.rft # <<>> => \A c \in Refs(q) \cup Blocks(q) : HasBlock(q, c) /\ q.rb[Home(q, c)][c % RbSize] # 0
  BY RefsAre DEF CountsSound, Home
<1> QED BY <1>3, <1>5, <1>6 DEF FileOk

\* Counts of the file that are sound make the counts of the image sound.
LEMMA FileCounts ==
  ASSUME NEW q, FileOk(q, Refs(q), {}), \A i \in Named(q) : q.l1[i].off \notin Blocks(q)
  PROVE  CountsSound(q)
<1>1. \A s, z \in DOMAIN q.rft : q.rft[s] # 0 /\ q.rft[s] = q.rft[z] => s = z
  BY DEF FileOk, FileTyped
<1>2. Blocks(q) \subseteq DOMAIN q.rb
  BY DEF FileOk, FileTyped
<1>3. q.rft # <<>> => \A c \in Referenced(q) : HasBlock(q, c) /\ q.rb[q.rft[Slot(c)]][c % RbSize] # 0
  BY RefsAre DEF FileOk, Home
<1>4. ASSUME NEW s \in DOMAIN q.rft, q.rft[s] # 0
      PROVE  /\ q.rft[s] \in DOMAIN q.rb
             /\ \A i \in Named(q) : q.l1[i].off # q.rft[s]
             /\ \A z \in DOMAIN q.rft : q.rft[z] = q.rft[s] => z = s
  <2>1. q.rft[s] \in Blocks(q)
    BY <1>4 DEF Blocks
  <2> QED BY <1>1, <1>2, <1>4, <2>1
<1> QED BY <1>3, <1>4, Zenon DEF CountsSound

\* The tables and the data are the same.
View(q, p) == Shaped(p) /\ p.ver = q.ver /\ p.size = q.size /\ p.l1 = q.l1 /\ p.l2 = q.l2 /\ p.data = q.data

\* An image with the same tables and data has the same references.
LEMMA ViewSame ==
  ASSUME NEW q, NEW p, View(q, p)
  PROVE  /\ Named(p) = Named(q) /\ Refs(p) = Refs(q) /\ L2Nodes(p) = L2Nodes(q) /\ (TablesSound(q) => TablesSound(p))
         /\ \A g : (Tells(p, g) <=> Tells(q, g)) /\ Held(p, g) = Held(q, g)
         /\ ImageTyped(q) /\ FileTyped(p) => ImageTyped(p)
<1>1. p.ver = q.ver /\ p.size = q.size /\ p.l1 = q.l1 /\ p.l2 = q.l2 /\ p.data = q.data
  BY DEF View
<1>2. Named(p) = Named(q)
  BY <1>1 DEF Named
<1>3. \A i, j : EntryOff(p, i, j) = EntryOff(q, i, j)
  BY <1>1 DEF EntryOff
<1>4. Refs(p) = Refs(q)
  BY <1>1, <1>2, <1>3 DEF Refs
<1>5. L2Nodes(p) = L2Nodes(q)
  BY <1>1 DEF L2Nodes
<1>6. TablesSound(q) => TablesSound(p)
  <2>1. SUFFICES ASSUME TablesSound(q) PROVE TablesSound(p)
    OBVIOUS
  <2>2. /\ DOMAIN p.l2 \subseteq Nat \ {0}
        /\ \A i \in DOMAIN p.l1 : p.l1[i].copied => p.l1[i].off # 0
        /\ \A i \in Named(p) : p.l1[i].off \in DOMAIN p.l2
        /\ \A t \in DOMAIN p.l2, j \in 0 .. L2Size - 1 :
             /\ p.l2[t][j].copied => p.l2[t][j].off # 0
             /\ p.l2[t][j].off # 0 => p.l2[t][j].off \in DOMAIN p.data
        /\ \A i, k \in Named(p) : p.l1[i].off = p.l1[k].off => i = k
    <3>1. /\ DOMAIN q.l2 \subseteq Nat \ {0}
          /\ \A i \in DOMAIN q.l1 : q.l1[i].copied => q.l1[i].off # 0
          /\ \A i \in Named(q) : q.l1[i].off \in DOMAIN q.l2
          /\ \A t \in DOMAIN q.l2, j \in 0 .. L2Size - 1 :
               /\ q.l2[t][j].copied => q.l2[t][j].off # 0
               /\ q.l2[t][j].off # 0 => q.l2[t][j].off \in DOMAIN q.data
          /\ \A i, k \in Named(q) : q.l1[i].off = q.l1[k].off => i = k
      BY <2>1, Zenon DEF TablesSound
    <3> QED BY <1>1, <1>2, <3>1
  <2>3. \A i, k \in Named(p), j, m \in 0 .. L2Size - 1 :
          /\ EntryOff(p, i, j) # 0 /\ EntryOff(p, i, j) = EntryOff(p, k, m) => i = k /\ j = m
          /\ p.l1[i].off # EntryOff(p, k, m)
    <3>1. \A i, k \in Named(q), j, m \in 0 .. L2Size - 1 :
            /\ EntryOff(q, i, j) # 0 /\ EntryOff(q, i, j) = EntryOff(q, k, m) => i = k /\ j = m
            /\ q.l1[i].off # EntryOff(q, k, m)
      BY <2>1, Zenon DEF TablesSound
    <3> QED BY <1>1, <1>2, <1>3, <3>1
  <2> QED BY <2>2, <2>3, Zenon DEF TablesSound
<1>7. \A g : (Tells(p, g) <=> Tells(q, g)) /\ Held(p, g) = Held(q, g)
  BY <1>1 DEF Tells, Held
<1>8. ImageTyped(q) /\ FileTyped(p) => ImageTyped(p)
  <2>1. SUFFICES ASSUME ImageTyped(q), FileTyped(p) PROVE ImageTyped(p)
    OBVIOUS
  <2>2. L1Size(p) = L1Size(q)
    BY <1>1 DEF L1Size
  <2>3. Shaped(p) /\ p.rft \in Seq(Nat) /\ p.rb \in [DOMAIN p.rb -> Block]
    BY <2>1 DEF FileTyped
  <2> QED BY <1>1, <2>1, <2>2, <2>3, Zenon DEF ImageTyped, Shaped, Block
<1> QED BY <1>2, <1>4, <1>5, <1>6, <1>7, <1>8, Zenon

\* An image that can be used; of the caches of a corrupted one nothing is claimed.
ImgOk(q) ==
  /\ ImageTyped(q) /\ TablesSound(q) /\ CountsSound(q) /\ q.free \in Nat /\ q.wild \in BOOLEAN
  /\ ~q.wild => CacheOk(q) /\ CacheIn(q) /\ q.lru \in Seq(L2Nodes(q))

\* The allocator leaves such an image, and gives out what nothing refers to.
LEMMA ImgAllocates ==
  ASSUME NEW q, ImgOk(q), ~q.wild, NEW rf, NEW wf \in BOOLEAN
  PROVE  LET a == Alloc(q, rf, wf)
         IN /\ ImgOk(a.q) /\ View(q, a.q) /\ a.q.lru = q.lru /\ CacheOk(a.q)
            /\ a.off # NoCluster => a.off \notin Referenced(a.q)
<1> DEFINE a == Alloc(q, rf, wf)
           R == Refs(q)
<1>1. FileOk(q, R, {}) /\ (\A i \in Named(q) : q.l1[i].off \notin Blocks(q)) /\ 0 \in R /\ R \subseteq Nat
  BY CountsFile, TablesAre DEF ImgOk
<1>2. Sound(q, R)
  BY <1>1 DEF Sound, ImgOk
<1>3. AllocDone(q, R, a)
  BY <1>2, Allocates
<1> HIDE DEF a
<1>4. View(q, a.q) /\ a.q.lru = q.lru /\ FileOk(a.q, R, {}) /\ FileTyped(a.q) /\ CacheOk(a.q) /\ a.q.free \in Nat
  BY <1>3 DEF AllocDone, SameGuest, View, FileOk, FileTyped
<1>5. Named(a.q) = Named(q) /\ Refs(a.q) = R /\ L2Nodes(a.q) = L2Nodes(q) /\ TablesSound(a.q) /\ ImageTyped(a.q)
  BY <1>4, ViewSame DEF ImgOk
<1>6. CountsSound(a.q)
  <2>1. \A i \in Named(a.q) : a.q.l1[i].off \notin Blocks(a.q)
    <3>1. SUFFICES ASSUME NEW i \in Named(q) PROVE q.l1[i].off \notin Blocks(a.q)
      BY <1>4, <1>5 DEF View
    <3>2. q.l1[i].off \in R
      BY DEF Refs
    <3> QED BY <1>1, <1>3, <3>2 DEF AllocDone
  <2> QED BY <1>4, <1>5, <2>1, FileCounts
<1>7. a.q.wild \in BOOLEAN /\ (~a.q.wild => CacheIn(a.q) /\ a.q.lru \in Seq(L2Nodes(a.q)))
  BY <1>3, <1>4, <1>5 DEF AllocDone, ImgOk
<1>8. ImgOk(a.q)
  BY <1>4, <1>5, <1>6, <1>7, Zenon DEF ImgOk
<1>9. a.off # NoCluster => a.off \notin Referenced(a.q)
  <2>1. Referenced(a.q) = R \cup Blocks(a.q)
    BY <1>5, RefsAre
  <2> QED BY <1>3, <2>1 DEF AllocDone
<1> QED BY <1>4, <1>8, <1>9, Zenon DEF a

\* At most the cached L2 tables differ.
LruOnly(q, p) ==
  /\ View(q, p) /\ p.rft = q.rft /\ p.rb = q.rb /\ p.rlru = q.rlru /\ p.free = q.free /\ p.wild = q.wild
  /\ p.lru \in Seq(L2Nodes(q))

\* The cached L2 tables change nothing that an image refers to or tells.
LEMMA LruKeeps ==
  ASSUME NEW q, NEW p, LruOnly(q, p)
  PROVE  /\ Named(p) = Named(q) /\ Refs(p) = Refs(q) /\ Blocks(p) = Blocks(q) /\ Referenced(p) = Referenced(q)
         /\ L2Nodes(p) = L2Nodes(q) /\ (CacheOk(q) => CacheOk(p)) /\ (ImgOk(q) => ImgOk(p))
         /\ \A g : (Tells(p, g) <=> Tells(q, g)) /\ Held(p, g) = Held(q, g)
<1>1. /\ View(q, p) /\ p.rft = q.rft /\ p.rb = q.rb /\ p.rlru = q.rlru /\ p.free = q.free /\ p.wild = q.wild
      /\ p.lru \in Seq(L2Nodes(q)) /\ Shaped(p) /\ p.l1 = q.l1
  BY DEF LruOnly, View
<1>2. /\ Named(p) = Named(q) /\ Refs(p) = Refs(q) /\ L2Nodes(p) = L2Nodes(q) /\ (TablesSound(q) => TablesSound(p))
      /\ (\A g : (Tells(p, g) <=> Tells(q, g)) /\ Held(p, g) = Held(q, g))
      /\ (ImageTyped(q) /\ FileTyped(p) => ImageTyped(p))
  BY <1>1, ViewSame, Zenon
<1>3. Blocks(p) = Blocks(q) /\ \A c : (HasBlock(p, c) <=> HasBlock(q, c)) /\ Home(p, c) = Home(q, c)
  BY <1>1 DEF Blocks, HasBlock, Home
<1>4. Referenced(p) = Referenced(q)
  BY <1>2, <1>3, RefsAre
<1>5. (CacheOk(q) => CacheOk(p)) /\ (CacheIn(q) => CacheIn(p))
  BY <1>1, <1>3 DEF CacheOk, CacheIn
<1>6. ASSUME ImgOk(q) PROVE ImgOk(p)
  <2>1. FileOk(q, Refs(q), {}) /\ \A i \in Named(q) : q.l1[i].off \notin Blocks(q)
    BY <1>6, CountsFile DEF ImgOk
  <2>2. FileTyped(p)
    <3>1. FileTyped(q)
      BY <2>1 DEF FileOk
    <3>2. /\ p.free \in Nat /\ p.rft \in Seq(Nat) /\ p.rb \in [DOMAIN p.rb -> Block] /\ Blocks(p) \subseteq DOMAIN p.rb
          /\ \A s, z \in DOMAIN p.rft : p.rft[s] # 0 /\ p.rft[s] = p.rft[z] => s = z
      BY <1>1, <1>3, <3>1 DEF FileTyped
    <3> QED BY <1>1, <3>2 DEF FileTyped
  <2>3. FileOk(p, Refs(p), {})
    BY <1>1, <1>2, <1>3, <2>1, <2>2, Zenon DEF FileOk
  <2>4. CountsSound(p)
    <3>1. \A i \in Named(p) : p.l1[i].off \notin Blocks(p)
      BY <1>1, <1>2, <1>3, <2>1
    <3> QED BY <2>3, <3>1, FileCounts
  <2>5. ImageTyped(p) /\ TablesSound(p) /\ p.free \in Nat /\ p.wild \in BOOLEAN
    BY <1>1, <1>2, <1>6, <2>2 DEF ImgOk
  <2>6. ~p.wild => CacheOk(p) /\ CacheIn(p) /\ p.lru \in Seq(L2Nodes(p))
    BY <1>1, <1>2, <1>5, <1>6 DEF ImgOk
  <2> QED BY <2>4, <2>5, <2>6, Zenon DEF ImgOk
<1> QED BY <1>2, <1>3, <1>4, <1>5, <1>6, Zenon

\* An image differs from itself in nothing.
LEMMA LruSelf ==
  ASSUME NEW q, Shaped(q), q.lru \in Seq(L2Nodes(q))
  PROVE  LruOnly(q, q)
BY DEF LruOnly, View

\* Two changes of the cached L2 tables are one.
LEMMA LruTrans ==
  ASSUME NEW q, NEW p, NEW r, LruOnly(q, p), LruOnly(p, r)
  PROVE  LruOnly(q, r)
<1>1. L2Nodes(p) = L2Nodes(q)
  BY LruKeeps, Zenon
<1> QED BY <1>1 DEF LruOnly, View

\* qcow_read_l2_table returns the table of the file, whatever is cached.
LEMMA L2Read ==
  ASSUME NEW q, Shaped(q), q.lru \in Seq(L2Nodes(q)), NEW off, off \in DOMAIN q.l2 \/ off = NoCluster, NEW rf
  PROVE  LET r == ReadL2(q, off, rf)
         IN /\ LruOnly(q, r.q) /\ r.ok \in BOOLEAN
            /\ r.ok => off \in DOMAIN q.l2 /\ r.tab = q.l2[off]
<1> DEFINE r == ReadL2(q, off, rf)
           N == L2Nodes(q)
<1>1. ASSUME NEW l \in Seq(N), NEW p, p = [q EXCEPT !.lru = l] PROVE LruOnly(q, p)
  <2>1. /\ Shaped(p) /\ p.rlru = q.rlru /\ p.ver = q.ver /\ p.size = q.size /\ p.l1 = q.l1 /\ p.l2 = q.l2 /\ p.lru = l
        /\ p.rft = q.rft /\ p.rb = q.rb /\ p.free = q.free /\ p.wild = q.wild /\ p.data = q.data
    BY <1>1 DEF Shaped
  <2> QED BY <2>1 DEF LruOnly, View
<1>2. CASE Cached(q.lru, off) # {}
  <2> DEFINE i == CHOOSE i \in Cached(q.lru, off) : TRUE
             p == [q EXCEPT !.lru = Touch(q.lru, i)]
  <2>1. i \in Cached(q.lru, off)
    BY <1>2
  <2>2. r = [ok |-> TRUE, tab |-> q.lru[i].tab, q |-> p]
    BY <1>2 DEF ReadL2
  <2> HIDE DEF i
  <2>3. i \in 1 .. Len(q.lru) /\ q.lru[i].off = off
    BY <2>1 DEF Cached
  <2>4. off \in DOMAIN q.l2 /\ q.lru[i].tab = q.l2[off]
    <3>1. q.lru[i] \in N
      <4> HIDE DEF N
      <4>1. q.lru \in Seq(N)
        BY DEF N
      <4> QED BY <2>3, <4>1
    <3> QED BY <2>3, <3>1 DEF L2Nodes
  <2>5. Touch(q.lru, i) \in Seq(N)
    BY <2>3, TouchIs
  <2>6. LruOnly(q, p)
    BY <1>1, <2>5
  <2> HIDE DEF p, r
  <2>7. r.q = p /\ r.ok = TRUE /\ r.tab = q.lru[i].tab
    BY <2>2
  <2>8. LruOnly(q, r.q) /\ r.ok \in BOOLEAN /\ (r.ok => off \in DOMAIN q.l2 /\ r.tab = q.l2[off])
    BY <2>4, <2>6, <2>7
  <2> QED BY <2>8, Zenon DEF r
<1>3. CASE Cached(q.lru, off) = {} /\ (rf = "table" \/ off = NoCluster)
  <2>1. r = [ok |-> FALSE, q |-> q]
    BY <1>3 DEF ReadL2
  <2> HIDE DEF r
  <2>2. r.q = q /\ r.ok = FALSE
    BY <2>1
  <2>3. LruOnly(q, r.q) /\ r.ok \in BOOLEAN /\ ~r.ok
    BY <2>2, LruSelf
  <2> QED BY <2>3, Zenon DEF r
<1>4. CASE Cached(q.lru, off) = {} /\ ~(rf = "table" \/ off = NoCluster)
  <2> DEFINE n == [off |-> off, tab |-> q.l2[off]]
             p == [q EXCEPT !.lru = CacheInsert(q.lru, n)]
  <2>1. r = [ok |-> TRUE, tab |-> q.l2[off], q |-> p]
    BY <1>4 DEF ReadL2
  <2>2. off \in DOMAIN q.l2 /\ n \in N
    BY <1>4 DEF L2Nodes
  <2> HIDE DEF n, N
  <2>3. CacheInsert(q.lru, n) \in Seq(N)
    <3>1. q.lru \in Seq(N)
      BY DEF N
    <3>2. PICK t \in Seq(N) : IsPick(t, q.lru) /\ CacheInsert(q.lru, n) = Append(t, n)
      BY <2>2, <3>1, InsertIs
    <3> QED BY <2>2, <3>2
  <2>4. LruOnly(q, p)
    BY <1>1, <2>3
  <2> HIDE DEF p, r
  <2>5. r.q = p /\ r.ok = TRUE /\ r.tab = q.l2[off]
    BY <2>1
  <2>6. LruOnly(q, r.q) /\ r.ok \in BOOLEAN /\ (r.ok => off \in DOMAIN q.l2 /\ r.tab = q.l2[off])
    BY <2>2, <2>4, <2>5
  <2> QED BY <2>6, Zenon DEF r
<1> QED BY <1>2, <1>3, <1>4

\* The turns of a read.
IsRead(f, q, gg, nn, rf, m) ==
  /\ f = [k \in 0 .. m |-> f[k]]
  /\ f[0] = [on |-> TRUE, st |-> "ok", q |-> q, vals |-> <<>>]
  /\ \A k \in 1 .. m : f[k] = ReadTurn(f[k - 1], gg + k - 1, nn, rf)

\* The recursion has a solution.
LEMMA ReadExist == ASSUME NEW q, NEW gg, NEW nn, NEW rf, NEW n \in Nat PROVE \E f : IsRead(f, q, gg, nn, rf, n)
<1> DEFINE Bad == {m \in Nat : ~(\E f : IsRead(f, q, gg, nn, rf, m))}
<1>1. SUFFICES ASSUME Bad # {} PROVE FALSE
  OBVIOUS
<1>2. PICK m \in Bad : \A k \in Bad : m <= k
  <2>1. Bad \in SUBSET Nat
    OBVIOUS
  <2> HIDE DEF Bad
  <2> QED BY <1>1, <2>1, LeastNat
<1>3. m # 0
  <2>1. SUFFICES ASSUME m = 0 PROVE FALSE
    OBVIOUS
  <2> DEFINE g == [k \in 0 .. 0 |-> [on |-> TRUE, st |-> "ok", q |-> q, vals |-> <<>>]]
  <2>2. IsRead(g, q, gg, nn, rf, 0)
    BY DEF IsRead
  <2> QED BY <1>2, <2>1, <2>2
<1>4. m \in Nat /\ m - 1 \in Nat
  BY <1>2, <1>3
<1>5. PICK f : IsRead(f, q, gg, nn, rf, m - 1)
  BY <1>2, <1>4
<1> DEFINE g == [k \in 0 .. m |-> IF k < m THEN f[k] ELSE ReadTurn(f[m - 1], gg + m - 1, nn, rf)]
<1>6. IsRead(g, q, gg, nn, rf, m)
  <2>1. g = [k \in 0 .. m |-> g[k]]
    OBVIOUS
  <2>2. g[0] = [on |-> TRUE, st |-> "ok", q |-> q, vals |-> <<>>]
    <3>1. 0 \in 0 .. m /\ 0 < m
      BY <1>3, <1>4
    <3>2. f[0] = [on |-> TRUE, st |-> "ok", q |-> q, vals |-> <<>>]
      BY <1>5, Zenon DEF IsRead
    <3> QED BY <3>1, <3>2
  <2>3. ASSUME NEW k \in 1 .. m PROVE g[k] = ReadTurn(g[k - 1], gg + k - 1, nn, rf)
    <3>1. g[k - 1] = f[k - 1]
      BY <1>4
    <3>2. CASE k < m
      <4>1. \A j \in 1 .. m - 1 : f[j] = ReadTurn(f[j - 1], gg + j - 1, nn, rf)
        BY <1>5, Zenon DEF IsRead
      <4>2. k \in 1 .. m - 1 /\ g[k] = f[k]
        BY <1>4, <3>2
      <4>3. f[k] = ReadTurn(f[k - 1], gg + k - 1, nn, rf)
        BY <4>1, <4>2, Zenon
      <4> HIDE DEF g
      <4> QED BY <3>1, <4>2, <4>3, Zenon
    <3>3. CASE k = m
      <4>1. g[k] = ReadTurn(f[m - 1], gg + m - 1, nn, rf)
        BY <1>4, <3>3
      <4> HIDE DEF g
      <4> QED BY <3>1, <3>3, <4>1, Zenon
    <3> QED BY <1>4, <3>2, <3>3
  <2> HIDE DEF g
  <2> QED BY <2>1, <2>2, <2>3 DEF IsRead
<1> QED BY <1>2, <1>6

\* qcow_read_sector takes these turns.
LEMMA ReadIs ==
  ASSUME NEW q, NEW gg, NEW nn, NEW rf, nn \in Nat
  PROVE  \E f : IsRead(f, q, gg, nn, rf, nn) /\ QcowRead(q, gg, nn, rf) = f[nn]
<1> DEFINE n == nn
<1> HIDE DEF n
<1>0. n \in Nat
  BY DEF n
<1> DEFINE Step(f) == [k \in 0 .. n |-> IF k = 0 THEN [on |-> TRUE, st |-> "ok", q |-> q, vals |-> <<>>] ELSE ReadTurn(f[k - 1], gg + k - 1, nn, rf)]
           h == CHOOSE f : f = Step(f)
<1>1. PICK f : IsRead(f, q, gg, nn, rf, n)
  BY <1>0, ReadExist
<1>2. f = Step(f)
  <2>1. ASSUME NEW k \in 0 .. n
        PROVE  f[k] = IF k = 0 THEN [on |-> TRUE, st |-> "ok", q |-> q, vals |-> <<>>] ELSE ReadTurn(f[k - 1], gg + k - 1, nn, rf)
    <3>1. f[0] = [on |-> TRUE, st |-> "ok", q |-> q, vals |-> <<>>] /\ \A j \in 1 .. n : f[j] = ReadTurn(f[j - 1], gg + j - 1, nn, rf)
      BY <1>1, Zenon DEF IsRead
    <3>2. (k = 0 \/ k \in 1 .. n) /\ (k \in 1 .. n => k # 0)
      BY <1>0
    <3> QED BY <3>1, <3>2, Zenon
  <2>2. f = [k \in 0 .. n |-> f[k]]
    BY <1>1, Zenon DEF IsRead
  <2> QED BY <2>1, <2>2
<1>3. h = Step(h)
  <2> HIDE DEF Step
  <2> QED BY <1>2
<1>4. QcowRead(q, gg, nn, rf) = h[n]
  BY Zenon DEF QcowRead, n
<1> HIDE DEF h
<1>5. h = [k \in 0 .. n |-> h[k]] /\ \A k \in 0 .. n : h[k] = IF k = 0 THEN [on |-> TRUE, st |-> "ok", q |-> q, vals |-> <<>>] ELSE ReadTurn(h[k - 1], gg + k - 1, nn, rf)
  BY <1>3, Zenon
<1>6. IsRead(h, q, gg, nn, rf, n)
  <2>1. h[0] = [on |-> TRUE, st |-> "ok", q |-> q, vals |-> <<>>]
    <3>1. 0 \in 0 .. n
      BY <1>0
    <3> QED BY <1>5, <3>1, Zenon
  <2>2. ASSUME NEW k \in 1 .. n PROVE h[k] = ReadTurn(h[k - 1], gg + k - 1, nn, rf)
    <3>1. k \in 0 .. n /\ k # 0
      BY <1>0
    <3> QED BY <1>5, <3>1, Zenon
  <2> QED BY <1>5, <2>1, <2>2, Zenon DEF IsRead
<1> QED BY <1>4, <1>6 DEF n

\* A read cluster is the one that the tables name.
LEMMA ClusterRead ==
  ASSUME NEW q, ImageTyped(q), TablesSound(q), q.lru \in Seq(L2Nodes(q)), NEW g \in Nat, NEW rf
  PROVE  LET r == ReadCluster(q, g, rf)
         IN /\ LruOnly(q, r.q) /\ r.ok \in BOOLEAN
            /\ r.ok => Tells(q, g) /\ r.val = Held(q, g)
<1> DEFINE i == g \div L2Size + 1
           o == q.l1[i].off
           b == ReadL2(q, o, rf)
           e == q.l2[o][g % L2Size]
           r == ReadCluster(q, g, rf)
<1>0. LruOnly(q, q)
  BY TablesAre, LruSelf
<1>1. L2Size \in Nat \ {0} /\ g \div L2Size \in Nat /\ g % L2Size \in 0 .. L2Size - 1 /\ i \in Nat /\ i >= 1
  <2>1. L2Size \in Nat \ {0}
    BY DiskAssumption
  <2>2. g \div L2Size \in Nat /\ g % L2Size \in 0 .. L2Size - 1
    BY <2>1
  <2> QED BY <2>1, <2>2
<1>2. Len(q.l1) \in Nat /\ DOMAIN q.l1 = 1 .. Len(q.l1)
  <2>1. q.l1 \in Seq([off : Nat \cup {NoCluster}, copied : BOOLEAN])
    BY TablesAre
  <2> DEFINE S == [off : Nat \cup {NoCluster}, copied : BOOLEAN]
  <2> HIDE DEF S
  <2>2. q.l1 \in Seq(S)
    BY <2>1 DEF S
  <2> QED BY <2>2
<1>3. r = IF i > Len(q.l1) THEN [ok |-> FALSE, q |-> q]
          ELSE IF o = 0 THEN [ok |-> TRUE, q |-> q, val |-> Zero]
          ELSE IF b.ok THEN ReadEntry(b.q, b.tab[g % L2Size], rf) ELSE [ok |-> FALSE, q |-> q]
  BY Zenon DEF ReadCluster, ReadTable, ZeroCluster, L2Index
<1>4. Tells(q, g) <=> i <= Len(q.l1) /\ o # NoCluster
  BY DEF Tells
<1>5. Held(q, g) = IF o = 0 \/ e.off = 0 THEN Zero ELSE q.data[e.off]
  BY DEF Held
<1> HIDE DEF i, r
<1>6. CASE i > Len(q.l1)
  <2>1. r = [ok |-> FALSE, q |-> q]
    BY <1>3, <1>6
  <2>2. r.q = q /\ r.ok = FALSE
    BY <2>1
  <2> QED BY <1>0, <2>2 DEF r
<1>7. CASE ~(i > Len(q.l1)) /\ o = 0
  <2>1. r = [ok |-> TRUE, q |-> q, val |-> Zero]
    BY <1>3, <1>7
  <2>2. r.q = q /\ r.ok = TRUE /\ r.val = Zero
    BY <2>1
  <2>3. Tells(q, g) /\ Held(q, g) = Zero
    BY <1>1, <1>2, <1>4, <1>5, <1>7 DEF NoCluster
  <2> QED BY <1>0, <2>2, <2>3 DEF r
<1>8. CASE ~(i > Len(q.l1)) /\ o # 0
  <2>1. i \in DOMAIN q.l1
    BY <1>1, <1>2, <1>8
  <2>2. o \in DOMAIN q.l2 \/ o = NoCluster
    <3>1. i \in Named(q) \/ o = 0 \/ o = NoCluster
      BY <2>1, TablesAre
    <3>2. i \in Named(q) => o \in DOMAIN q.l2
      BY TablesAre
    <3> QED BY <1>8, <3>1, <3>2
  <2>3. /\ LruOnly(q, b.q) /\ b.ok \in BOOLEAN
        /\ b.ok => o \in DOMAIN q.l2 /\ b.tab = q.l2[o]
    <3>1. Shaped(q)
      BY TablesAre
    <3> HIDE DEF o
    <3> QED BY <2>2, <3>1, L2Read
  <2> HIDE DEF b, o
  <2>4. CASE ~b.ok
    <3>1. r = [ok |-> FALSE, q |-> q]
      BY <1>3, <1>8, <2>4
    <3>2. r.q = q /\ r.ok = FALSE
      BY <3>1
    <3> QED BY <1>0, <3>2 DEF r
  <2>5. CASE b.ok
    <3>1. b.tab[g % L2Size] = e /\ NoCluster \notin DOMAIN q.l2 /\ o # NoCluster
      <4>1. NoCluster \notin DOMAIN q.l2
        BY TablesAre
      <4> QED BY <2>3, <2>5, <4>1
    <3>2. r = ReadEntry(b.q, e, rf)
      BY <1>3, <1>8, <2>5, <3>1
    <3>3. Tells(q, g) /\ Held(q, g) = IF e.off = 0 THEN Zero ELSE q.data[e.off]
      BY <1>1, <1>2, <1>4, <1>5, <1>8, <3>1
    <3>4. b.q.data = q.data
      BY <2>3 DEF LruOnly, View
    <3> HIDE DEF e
    <3>5. r = [ok |-> FALSE, q |-> b.q] \/ (e.off = 0 /\ r = [ok |-> TRUE, q |-> b.q, val |-> Zero])
          \/ (e.off # 0 /\ r = [ok |-> TRUE, q |-> b.q, val |-> q.data[e.off]])
      BY <3>2, <3>4 DEF ReadEntry, ZeroCluster
    <3>6. r.q = b.q /\ r.ok \in BOOLEAN /\ (r.ok => r.val = IF e.off = 0 THEN Zero ELSE q.data[e.off])
      <4>1. CASE r = [ok |-> FALSE, q |-> b.q]
        <5>1. r.q = b.q /\ r.ok = FALSE
          BY <4>1
        <5> QED BY <5>1
      <4>2. CASE e.off = 0 /\ r = [ok |-> TRUE, q |-> b.q, val |-> Zero]
        <5>1. r.q = b.q /\ r.ok = TRUE /\ r.val = Zero
          BY <4>2
        <5> QED BY <4>2, <5>1
      <4>3. CASE e.off # 0 /\ r = [ok |-> TRUE, q |-> b.q, val |-> q.data[e.off]]
        <5>1. r.q = b.q /\ r.ok = TRUE /\ r.val = q.data[e.off]
          BY <4>3
        <5> QED BY <4>3, <5>1
      <4> QED BY <3>5, <4>1, <4>2, <4>3
    <3> QED BY <2>3, <3>3, <3>6 DEF r
  <2> QED BY <2>3, <2>4, <2>5
<1> QED BY <1>6, <1>7, <1>8

\* What a read leaves of the image.
Seen(q, p) ==
  /\ View(q, p) /\ p.rft = q.rft /\ p.rb = q.rb /\ p.rlru = q.rlru /\ p.free = q.free
  /\ p.wild = TRUE \/ LruOnly(q, p)

HeldFrom(q, g, k) == [j \in 1 .. k |-> Held(q, g + j - 1)]

\* A read after k turns.
ReadOk(q, g, n, k, s) ==
  /\ s = [on |-> s.on, st |-> s.st, q |-> s.q, vals |-> s.vals] /\ s.on \in BOOLEAN /\ Seen(q, s.q)
  /\ s.on => /\ s.st = "ok" /\ LruOnly(q, s.q) /\ s.vals = HeldFrom(q, g, k)
             /\ \A j \in 1 .. k : Tells(q, g + j - 1) /\ g + j - 1 < q.size
  /\ ~s.on /\ s.st = "ok" => s.vals = [j \in 1 .. n |-> Stale]

\* One more cluster is read.
LEMMA HeldMore ==
  ASSUME NEW q, NEW g \in Nat, NEW k \in Nat
  PROVE  Append(HeldFrom(q, g, k), Held(q, g + k)) = HeldFrom(q, g, k + 1)
<1> DEFINE S == {Held(q, x) : x \in Nat}
           s == HeldFrom(q, g, k)
           t == Append(s, Held(q, g + k))
           u == HeldFrom(q, g, k + 1)
<1>1. \A j \in 1 .. k + 1 : g + j - 1 \in Nat
  OBVIOUS
<1>2. \A x \in Nat : Held(q, x) \in S
  OBVIOUS
<1> HIDE DEF S
<1>3. s \in [1 .. k -> S] /\ \A j \in 1 .. k : s[j] = Held(q, g + j - 1)
  BY <1>1, <1>2 DEF HeldFrom
<1>4. u \in [1 .. k + 1 -> S] /\ \A j \in 1 .. k + 1 : u[j] = Held(q, g + j - 1)
  BY <1>1, <1>2 DEF HeldFrom
<1> HIDE DEF s, u
<1>5. s \in Seq(S) /\ Len(s) = k
  BY <1>3
<1>6. u \in Seq(S) /\ Len(u) = k + 1
  BY <1>4
<1>7. g + (k + 1) - 1 = g + k /\ Held(q, g + k) \in S
  BY <1>2
<1>8. t \in Seq(S) /\ Len(t) = k + 1 /\ t[k + 1] = Held(q, g + k) /\ \A j \in 1 .. k : t[j] = s[j]
  BY <1>5, <1>7
<1> HIDE DEF t
<1>9. \A j \in 1 .. k + 1 : t[j] = u[j]
  <2>1. SUFFICES ASSUME NEW j \in 1 .. k + 1 PROVE t[j] = u[j]
    OBVIOUS
  <2>2. CASE j = k + 1
    BY <1>4, <1>7, <1>8, <2>2
  <2>3. CASE j \in 1 .. k
    BY <1>3, <1>4, <1>8, <2>3
  <2> QED BY <2>2, <2>3
<1>10. t = u
  BY <1>6, <1>8, <1>9
<1> QED BY <1>10 DEF t, s, u

\* One turn of the loop of qcow_read_sector_single.
LEMMA TurnReads ==
  ASSUME NEW q, ImageTyped(q), TablesSound(q), NEW g \in Nat, NEW n \in Nat, NEW k \in Nat, NEW s, ReadOk(q, g, n, k, s), NEW rf
  PROVE  ReadOk(q, g, n, k + 1, ReadTurn(s, g + k, n, rf))
<1> DEFINE c == g + k
           r == ReadCluster(s.q, c, rf)
           t == ReadTurn(s, c, n, rf)
<1>0. s = [on |-> s.on, st |-> s.st, q |-> s.q, vals |-> s.vals] /\ s.on \in BOOLEAN /\ Seen(q, s.q) /\ c \in Nat
      /\ s.q.size = q.size
  BY DEF ReadOk, Seen, View
<1>1. CASE ~s.on
  <2>1. t = s
    BY <1>1 DEF ReadTurn
  <2> QED BY <1>1, <2>1 DEF ReadOk
<1>2. CASE s.on /\ c >= s.q.size
  <2>1. t = [s EXCEPT !.on = FALSE, !.st = "err"]
    BY <1>2 DEF ReadTurn
  <2> HIDE DEF t
  <2>2. t = [on |-> FALSE, st |-> "err", q |-> s.q, vals |-> s.vals]
    BY <1>0, <2>1
  <2>3. t.on = FALSE /\ t.st = "err" /\ t.q = s.q /\ t = [on |-> t.on, st |-> t.st, q |-> t.q, vals |-> t.vals]
    BY <2>2
  <2>4. ReadOk(q, g, n, k + 1, t)
    BY <1>0, <2>3 DEF ReadOk
  <2> QED BY <2>4 DEF t
<1>3. CASE s.on /\ ~(c >= s.q.size)
  <2>0. LruOnly(q, s.q) /\ s.st = "ok" /\ s.vals = HeldFrom(q, g, k) /\ (\A j \in 1 .. k : Tells(q, g + j - 1) /\ g + j - 1 < q.size)
    BY <1>3 DEF ReadOk
  <2>1. ImageTyped(s.q) /\ TablesSound(s.q) /\ s.q.lru \in Seq(L2Nodes(s.q)) /\ (Tells(s.q, c) <=> Tells(q, c)) /\ Held(s.q, c) = Held(q, c)
    <3>1. /\ View(q, s.q) /\ s.q.lru \in Seq(L2Nodes(q)) /\ s.q.rft = q.rft /\ s.q.rb = q.rb
      BY <2>0 DEF LruOnly
    <3>2. /\ L2Nodes(s.q) = L2Nodes(q) /\ TablesSound(s.q) /\ (Tells(s.q, c) <=> Tells(q, c)) /\ Held(s.q, c) = Held(q, c)
      BY <3>1, ViewSame, Zenon
    <3>3. L1Size(s.q) = L1Size(q)
      BY <3>1 DEF View, L1Size
    <3>4. ImageTyped(s.q)
      BY <3>1, <3>3, Zenon DEF ImageTyped, View, Shaped
    <3> QED BY <3>1, <3>2, <3>4
  <2>2. /\ LruOnly(s.q, r.q) /\ r.ok \in BOOLEAN
        /\ r.ok => Tells(q, c) /\ r.val = Held(q, c)
    <3>1. LET e == ReadCluster(s.q, c, rf)
          IN LruOnly(s.q, e.q) /\ e.ok \in BOOLEAN /\ (e.ok => Tells(s.q, c) /\ e.val = Held(s.q, c))
      BY <1>0, <2>1, ClusterRead
    <3> QED BY <2>1, <3>1
  <2>3. LruOnly(q, r.q)
    BY <2>0, <2>2, LruTrans
  <2>4. Seen(q, r.q)
    BY <2>3 DEF Seen, LruOnly
  <2>5. t = IF r.ok THEN [s EXCEPT !.q = r.q, !.vals = Append(s.vals, r.val)]
            ELSE IF s.vals = <<>> THEN [on |-> FALSE, st |-> "ok", q |-> r.q, vals |-> [j \in 1 .. n |-> Stale]]
            ELSE [on |-> FALSE, st |-> "err", q |-> [r.q EXCEPT !.wild = TRUE], vals |-> s.vals]
    BY <1>3 DEF ReadTurn
  <2> HIDE DEF t, r
  <2>6. CASE r.ok
    <3>1. t = [s EXCEPT !.q = r.q, !.vals = Append(s.vals, r.val)]
      BY <2>5, <2>6
    <3> DEFINE v == Append(s.vals, r.val)
    <3>2. v = HeldFrom(q, g, k + 1)
      BY <2>0, <2>2, <2>6, HeldMore
    <3> HIDE DEF v
    <3>3. t = [on |-> s.on, st |-> s.st, q |-> r.q, vals |-> v]
      BY <1>0, <3>1 DEF v
    <3>4. t.on = s.on /\ t.st = "ok" /\ t.q = r.q /\ t.vals = v /\ t = [on |-> t.on, st |-> t.st, q |-> t.q, vals |-> t.vals]
      BY <2>0, <3>3
    <3>5. \A j \in 1 .. k + 1 : Tells(q, g + j - 1) /\ g + j - 1 < q.size
      <4>1. SUFFICES ASSUME NEW j \in 1 .. k + 1 PROVE Tells(q, g + j - 1) /\ g + j - 1 < q.size
        OBVIOUS
      <4>2. CASE j \in 1 .. k
        BY <2>0, <4>2
      <4>3. CASE j = k + 1
        <5>1. g + j - 1 = c /\ q.size \in Nat
          BY <4>3 DEF ImageTyped
        <5>2. c < q.size
          BY <1>0, <1>3, <5>1
        <5> QED BY <2>2, <2>6, <5>1, <5>2
      <4> QED BY <4>2, <4>3
    <3>6. ReadOk(q, g, n, k + 1, t)
      BY <1>3, <2>3, <2>4, <3>2, <3>4, <3>5 DEF ReadOk
    <3> QED BY <3>6 DEF t
  <2>7. CASE ~r.ok /\ s.vals = <<>>
    <3>1. t = [on |-> FALSE, st |-> "ok", q |-> r.q, vals |-> [j \in 1 .. n |-> Stale]]
      BY <2>5, <2>7
    <3> DEFINE v == [j \in 1 .. n |-> Stale]
    <3> HIDE DEF v
    <3>2. t = [on |-> FALSE, st |-> "ok", q |-> r.q, vals |-> v]
      BY <3>1 DEF v
    <3>3. t.on = FALSE /\ t.st = "ok" /\ t.q = r.q /\ t.vals = v /\ t = [on |-> t.on, st |-> t.st, q |-> t.q, vals |-> t.vals]
      BY <3>2
    <3>4. ReadOk(q, g, n, k + 1, t)
      BY <2>4, <3>3 DEF ReadOk, v
    <3> QED BY <3>4 DEF t
  <2>8. CASE ~r.ok /\ s.vals # <<>>
    <3> DEFINE p == [r.q EXCEPT !.wild = TRUE]
    <3>1. t = [on |-> FALSE, st |-> "err", q |-> p, vals |-> s.vals]
      BY <2>5, <2>8
    <3>2. p = [r.q EXCEPT !.wild = TRUE]
      OBVIOUS
    <3> HIDE DEF p
    <3>3. Seen(q, p)
      BY <2>4, <3>2 DEF Seen, View, Shaped
    <3>4. t.on = FALSE /\ t.st = "err" /\ t.q = p /\ t = [on |-> t.on, st |-> t.st, q |-> t.q, vals |-> t.vals]
      BY <3>1
    <3>5. ReadOk(q, g, n, k + 1, t)
      BY <3>3, <3>4 DEF ReadOk
    <3> QED BY <3>5 DEF t
  <2> QED BY <2>2, <2>6, <2>7, <2>8
<1> QED BY <1>0, <1>1, <1>2, <1>3

\* A read that ends well has the clusters that the tables name, or an untouched buffer.
LEMMA QcowReads ==
  ASSUME NEW q, ImageTyped(q), TablesSound(q), q.lru \in Seq(L2Nodes(q)), NEW g \in Nat, NEW n \in Nat, NEW rf
  PROVE  ReadOk(q, g, n, n, QcowRead(q, g, n, rf))
<1>2. PICK f : IsRead(f, q, g, n, rf, n) /\ QcowRead(q, g, n, rf) = f[n]
  BY ReadIs, Zenon
<1>3. f[0] = [on |-> TRUE, st |-> "ok", q |-> q, vals |-> <<>>] /\ \A k \in 1 .. n : f[k] = ReadTurn(f[k - 1], g + k - 1, n, rf)
  BY <1>2, Zenon DEF IsRead
<1>4. ReadOk(q, g, n, 0, f[0])
  <2> DEFINE s == f[0]
  <2>1. s = [on |-> TRUE, st |-> "ok", q |-> q, vals |-> <<>>]
    BY <1>3
  <2> HIDE DEF s
  <2>2. s.on = TRUE /\ s.st = "ok" /\ s.q = q /\ s.vals = <<>> /\ s = [on |-> s.on, st |-> s.st, q |-> s.q, vals |-> s.vals]
    BY <2>1
  <2>3. LruOnly(q, q)
    BY TablesAre, LruSelf
  <2>4. Seen(q, q)
    BY <2>3 DEF Seen, LruOnly
  <2>5. HeldFrom(q, g, 0) = <<>>
    BY DEF HeldFrom
  <2>6. ReadOk(q, g, n, 0, s)
    <3>1. \A j \in 1 .. 0 : Tells(q, g + j - 1) /\ g + j - 1 < q.size
      OBVIOUS
    <3>2. s.on \in BOOLEAN /\ Seen(q, s.q) /\ LruOnly(q, s.q) /\ s.vals = HeldFrom(q, g, 0)
      BY <2>2, <2>3, <2>4, <2>5
    <3> QED BY <2>2, <3>1, <3>2, Zenon DEF ReadOk
  <2> QED BY <2>6 DEF s
<1> DEFINE Bad == {k \in Nat : k <= n /\ ~ReadOk(q, g, n, k, f[k])}
<1>5. Bad = {}
  <2>1. SUFFICES ASSUME Bad # {} PROVE FALSE
    OBVIOUS
  <2>2. PICK m \in Bad : \A k \in Bad : m <= k
    <3>1. Bad \in SUBSET Nat
      OBVIOUS
    <3> HIDE DEF Bad
    <3> QED BY <2>1, <3>1, LeastNat
  <2>3. m \in 1 .. n /\ m - 1 \in Nat /\ m - 1 <= n /\ m - 1 \notin Bad
    BY <1>4, <2>2
  <2>4. ReadOk(q, g, n, m - 1, f[m - 1]) /\ f[m] = ReadTurn(f[m - 1], g + m - 1, n, rf)
    BY <1>3, <2>3
  <2>5. g + m - 1 = g + (m - 1) /\ (m - 1) + 1 = m
    BY <2>3
  <2>6. ReadOk(q, g, n, (m - 1) + 1, ReadTurn(f[m - 1], g + (m - 1), n, rf))
    BY <2>3, <2>4, TurnReads
  <2>7. ReadOk(q, g, n, m, f[m])
    BY <2>4, <2>5, <2>6
  <2> QED BY <2>2, <2>7
<1> QED BY <1>2, <1>5

\* What p tells of its guest clusters q tells too.
Kept(q, p) ==
  p.size = q.size /\ \A h \in Nat : Tells(p, h) => Tells(q, h) /\ Held(p, h) = Held(q, h)

\* An image with the same tables and data tells the same.
LEMMA ViewKept ==
  ASSUME NEW q, NEW p, View(q, p)
  PROVE  Kept(q, p)
<1>1. \A h : (Tells(p, h) <=> Tells(q, h)) /\ Held(p, h) = Held(q, h)
  BY ViewSame, Zenon
<1>2. p.size = q.size
  BY DEF View
<1> QED BY <1>1, <1>2 DEF Kept

\* Two steps that keep what the image tells are one.
LEMMA KeptTrans ==
  ASSUME NEW q, NEW p, NEW r, Kept(q, p), Kept(p, r)
  PROVE  Kept(q, r)
BY DEF Kept

\* m is q with its L1 entry i overwritten.
Unlinked(q, m, i) ==
  /\ Shaped(m) /\ m.ver = q.ver /\ m.size = q.size /\ m.l2 = q.l2 /\ m.lru = q.lru /\ m.data = q.data
  /\ m.rft = q.rft /\ m.rb = q.rb /\ m.rlru = q.rlru /\ m.free = q.free /\ m.wild = TRUE
  /\ m.l1 = [q.l1 EXCEPT ![i] = [off |-> NoCluster, copied |-> TRUE]]

EntryLost(q, m, i) ==
  /\ DOMAIN m.l1 = DOMAIN q.l1 /\ Len(m.l1) = Len(q.l1) /\ Named(m) = Named(q) \ {i}
  /\ m.l1 \in Seq([off : Nat \cup {NoCluster}, copied : BOOLEAN])
  /\ \A k \in DOMAIN q.l1 : k # i => m.l1[k] = q.l1[k]
  /\ m.l1[i].off = NoCluster /\ m.l1[i].copied = TRUE
  /\ \A k \in Named(m), j \in 0 .. L2Size - 1 : EntryOff(m, k, j) = EntryOff(q, k, j)

\* The overwritten entry names no table any more, and nothing else changes.
LEMMA UnlinkedTables ==
  ASSUME NEW q, ImageTyped(q), TablesSound(q), NEW i \in Named(q), NEW m, Unlinked(q, m, i)
  PROVE  EntryLost(q, m, i)
<1> DEFINE S == [off : Nat \cup {NoCluster}, copied : BOOLEAN]
           e == [off |-> NoCluster, copied |-> TRUE]
<1>1. q.l1 \in Seq(S) /\ i \in DOMAIN q.l1
  BY TablesAre
<1>2. e \in S
  OBVIOUS
<1>3. m.l1 = [q.l1 EXCEPT ![i] = e] /\ m.l2 = q.l2
  BY DEF Unlinked
<1>4. e.off = NoCluster /\ e.copied = TRUE
  OBVIOUS
<1> HIDE DEF S, e
<1>5. m.l1 \in Seq(S) /\ Len(m.l1) = Len(q.l1) /\ DOMAIN m.l1 = DOMAIN q.l1
  BY <1>1, <1>2, <1>3
<1>6. m.l1[i] = e /\ \A k \in DOMAIN q.l1 : k # i => m.l1[k] = q.l1[k]
  BY <1>1, <1>3
<1>7. Named(m) = Named(q) \ {i}
  <2>1. \A k \in DOMAIN q.l1 : k # i => m.l1[k].off = q.l1[k].off
    BY <1>6
  <2>2. m.l1[i].off = NoCluster
    BY <1>4, <1>6
  <2> QED BY <1>5, <2>1, <2>2 DEF Named
<1>8. \A k \in Named(m), j \in 0 .. L2Size - 1 : EntryOff(m, k, j) = EntryOff(q, k, j)
  <2>1. \A k \in Named(m) : m.l1[k] = q.l1[k]
    BY <1>6, <1>7, TablesAre
  <2> QED BY <1>3, <2>1 DEF EntryOff
<1>9. m.l1[i].off = NoCluster /\ m.l1[i].copied = TRUE
  BY <1>4, <1>6
<1> QED BY <1>5, <1>6, <1>7, <1>8, <1>9 DEF S, EntryLost

\* The tables stay sound when an L1 entry is overwritten, and its table is referred to no more.
LEMMA UnlinkedSound ==
  ASSUME NEW q, ImageTyped(q), TablesSound(q), NEW i \in Named(q), NEW m, Unlinked(q, m, i)
  PROVE  /\ ImageTyped(m) /\ TablesSound(m) /\ Kept(q, m)
         /\ Refs(m) \subseteq Refs(q) \ {q.l1[i].off} /\ q.l1[i].off \in Refs(q)
<1>1. /\ DOMAIN m.l1 = DOMAIN q.l1 /\ Len(m.l1) = Len(q.l1) /\ Named(m) = Named(q) \ {i}
      /\ m.l1 \in Seq([off : Nat \cup {NoCluster}, copied : BOOLEAN])
      /\ \A k \in DOMAIN q.l1 : k # i => m.l1[k] = q.l1[k]
      /\ m.l1[i].off = NoCluster /\ m.l1[i].copied = TRUE
      /\ \A k \in Named(m), j \in 0 .. L2Size - 1 : EntryOff(m, k, j) = EntryOff(q, k, j)
  <2>1. EntryLost(q, m, i)
    BY UnlinkedTables
  <2> QED BY <2>1, Zenon DEF EntryLost
<1>2. /\ m.ver = q.ver /\ m.size = q.size /\ m.l2 = q.l2 /\ m.data = q.data /\ m.rft = q.rft /\ m.rb = q.rb /\ Shaped(m)
  BY DEF Unlinked
<1>3. Named(q) \subseteq DOMAIN q.l1 /\ \A k \in Named(m) : k \in Named(q) /\ k # i /\ m.l1[k] = q.l1[k]
  BY <1>1, TablesAre
<1>4. ImageTyped(m)
  <2>1. L1Size(m) = L1Size(q)
    BY <1>1, <1>2 DEF L1Size
  <2>2. /\ q.size \in Nat /\ L1Size(q) <= Len(q.l1)
        /\ q.l2 \in [DOMAIN q.l2 -> [0..L2Size - 1 -> [off : Nat, copied : BOOLEAN, comp : BOOLEAN]]]
        /\ q.rft \in Seq(Nat)
        /\ q.rb \in [DOMAIN q.rb -> [0..RbSize - 1 -> 0..CountMax]]
        /\ q.data = [c \in DOMAIN q.data |-> q.data[c]]
    BY Zenon DEF ImageTyped
  <2>3. L1Size(m) <= Len(m.l1)
    BY <1>1, <2>1, <2>2
  <2> QED BY <1>1, <1>2, <2>2, <2>3, Zenon DEF ImageTyped, Shaped
<1>5. TablesSound(m)
  <2>1. /\ DOMAIN q.l2 \subseteq Nat \ {0}
        /\ \A k \in DOMAIN q.l1 : q.l1[k].copied => q.l1[k].off # 0
        /\ \A k \in Named(q) : q.l1[k].off \in DOMAIN q.l2
        /\ \A t \in DOMAIN q.l2, j \in 0 .. L2Size - 1 :
             /\ q.l2[t][j].copied => q.l2[t][j].off # 0
             /\ q.l2[t][j].off # 0 => q.l2[t][j].off \in DOMAIN q.data
        /\ \A x, k \in Named(q) : q.l1[x].off = q.l1[k].off => x = k
    BY Zenon DEF TablesSound
  <2>2. \A x, k \in Named(q), j, y \in 0 .. L2Size - 1 :
          /\ EntryOff(q, x, j) # 0 /\ EntryOff(q, x, j) = EntryOff(q, k, y) => x = k /\ j = y
          /\ q.l1[x].off # EntryOff(q, k, y)
    BY Zenon DEF TablesSound
  <2>3. \A k \in DOMAIN m.l1 : m.l1[k].copied => m.l1[k].off # 0
    <3>1. NoCluster # 0
      BY DEF NoCluster
    <3> QED BY <1>1, <2>1, <3>1
  <2>4. /\ \A k \in Named(m) : m.l1[k].off \in DOMAIN m.l2
        /\ \A x, k \in Named(m) : m.l1[x].off = m.l1[k].off => x = k
    BY <1>2, <1>3, <2>1
  <2>5. \A x, k \in Named(m), j, y \in 0 .. L2Size - 1 :
          /\ EntryOff(m, x, j) # 0 /\ EntryOff(m, x, j) = EntryOff(m, k, y) => x = k /\ j = y
          /\ m.l1[x].off # EntryOff(m, k, y)
    BY <1>1, <1>3, <2>2
  <2>6. /\ DOMAIN m.l2 \subseteq Nat \ {0}
        /\ \A t \in DOMAIN m.l2, j \in 0 .. L2Size - 1 :
             /\ m.l2[t][j].copied => m.l2[t][j].off # 0
             /\ m.l2[t][j].off # 0 => m.l2[t][j].off \in DOMAIN m.data
    BY <1>2, <2>1
  <2> QED BY <2>3, <2>4, <2>5, <2>6, Zenon DEF TablesSound
<1>6. Kept(q, m)
  <2>1. SUFFICES ASSUME NEW h \in Nat, Tells(m, h) PROVE Tells(q, h) /\ Held(m, h) = Held(q, h)
    BY <1>2 DEF Kept
  <2> DEFINE x == h \div L2Size + 1
  <2>2. x \in Nat /\ x >= 1
    BY DiskAssumption
  <2>3. x <= Len(m.l1) /\ m.l1[x].off # NoCluster
    BY <2>1 DEF Tells
  <2>4. x \in DOMAIN q.l1
    <3>1. q.l1 \in Seq([off : Nat \cup {NoCluster}, copied : BOOLEAN])
      BY TablesAre
    <3> DEFINE S == [off : Nat \cup {NoCluster}, copied : BOOLEAN]
    <3> HIDE DEF S
    <3>2. q.l1 \in Seq(S)
      BY <3>1 DEF S
    <3> HIDE DEF x
    <3> QED BY <1>1, <2>2, <2>3, <3>2
  <2>5. m.l1[x] = q.l1[x]
    BY <1>1, <2>3, <2>4
  <2> QED BY <1>1, <1>2, <2>3, <2>5 DEF Tells, Held
<1>7. Refs(m) \subseteq Refs(q) \ {q.l1[i].off} /\ q.l1[i].off \in Refs(q)
  <2>1. /\ q.l1[i].off # 0
        /\ \A k \in Named(q) : q.l1[i].off = q.l1[k].off => i = k
        /\ \A k \in Named(q), y \in 0 .. L2Size - 1 : q.l1[i].off # EntryOff(q, k, y)
    BY TablesAre DEF TablesSound
  <2>2. \A k \in Named(m) : m.l1[k].off \in Refs(q) /\ m.l1[k].off # q.l1[i].off
    BY <1>3, <2>1 DEF Refs
  <2>3. \A k \in Named(m), y \in 0 .. L2Size - 1 : EntryOff(m, k, y) \in Refs(q) /\ EntryOff(m, k, y) # q.l1[i].off
    <3>1. SUFFICES ASSUME NEW k \in Named(m), NEW y \in 0 .. L2Size - 1
                   PROVE  EntryOff(m, k, y) \in Refs(q) /\ EntryOff(m, k, y) # q.l1[i].off
      OBVIOUS
    <3>2. EntryOff(m, k, y) = EntryOff(q, k, y) /\ k \in Named(q)
      BY <1>1, <1>3
    <3> QED BY <2>1, <3>2 DEF Refs
  <2>4. 0 \in Refs(q) /\ q.l1[i].off \in Refs(q)
    BY DEF Refs
  <2>5. \A z \in Refs(m) : z \in Refs(q) /\ z # q.l1[i].off
    <3>1. SUFFICES ASSUME NEW z \in Refs(m) PROVE z \in Refs(q) /\ z # q.l1[i].off
      OBVIOUS
    <3>2. z = 0 \/ (\E k \in Named(m) : z = m.l1[k].off) \/ (\E k \in Named(m), y \in 0 .. L2Size - 1 : z = EntryOff(m, k, y))
      BY DEF Refs
    <3> QED BY <2>1, <2>2, <2>3, <2>4, <3>2
  <2> QED BY <2>4, <2>5
<1> QED BY <1>4, <1>5, <1>6, <1>7

\* A table that was to be copied and was lost: the image stays sound.
LEMMA CopyLoses ==
  ASSUME NEW q, ImgOk(q), CacheOk(q), NEW i \in Named(q), NEW m, Unlinked(q, m, i)
  PROVE  ImgOk(FreeCluster(m, q.l1[i].off)) /\ Kept(q, FreeCluster(m, q.l1[i].off))
<1> DEFINE c == q.l1[i].off
           p == FreeCluster(m, c)
           R == Refs(q)
<1>1. ImageTyped(q) /\ TablesSound(q) /\ CountsSound(q) /\ q.free \in Nat
  BY DEF ImgOk
<1>2. ImageTyped(m) /\ TablesSound(m) /\ Kept(q, m) /\ Refs(m) \subseteq R \ {c} /\ c \in R
  BY <1>1, UnlinkedSound, Zenon
<1>3. Shaped(m) /\ m.rft = q.rft /\ m.rb = q.rb /\ m.rlru = q.rlru /\ m.free = q.free /\ m.wild = TRUE
  BY DEF Unlinked
<1>4. FileOk(q, R, {}) /\ (\A k \in Named(q) : q.l1[k].off \notin Blocks(q)) /\ R \subseteq Nat
  BY <1>1, CountsFile, TablesAre
<1>5. Blocks(m) = Blocks(q) /\ \A x : (HasBlock(m, x) <=> HasBlock(q, x)) /\ Home(m, x) = Home(q, x)
  BY <1>3 DEF Blocks, HasBlock, Home
<1>6. FileOk(m, R, {})
  <2>1. FileTyped(q)
    BY <1>4 DEF FileOk
  <2>2. /\ m.free \in Nat /\ m.rft \in Seq(Nat) /\ m.rb \in [DOMAIN m.rb -> Block] /\ Blocks(m) \subseteq DOMAIN m.rb
        /\ \A s, z \in DOMAIN m.rft : m.rft[s] # 0 /\ m.rft[s] = m.rft[z] => s = z
    BY <1>3, <1>5, <2>1 DEF FileTyped
  <2>3. FileTyped(m)
    BY <1>3, <2>2 DEF FileTyped
  <2> QED BY <1>3, <1>4, <1>5, <2>3, Zenon DEF FileOk
<1>7. CacheOk(m)
  BY <1>3 DEF CacheOk
<1>8. SameGuest(m, p) /\ p.wild = TRUE /\ p.rft = m.rft /\ FileOk(p, R, {c})
  <2> HIDE DEF c, R
  <2> QED BY <1>2, <1>3, <1>4, <1>6, <1>7, Freed
<1> HIDE DEF p
<1>9. View(m, p)
  BY <1>8 DEF SameGuest, View
<1>10. Blocks(p) = Blocks(q)
  BY <1>3, <1>8 DEF Blocks
<1>11. FileTyped(p)
  BY <1>8 DEF FileOk
<1>12. Named(p) = Named(m) /\ Refs(p) = Refs(m) /\ TablesSound(p) /\ ImageTyped(p)
  BY <1>2, <1>9, <1>11, ViewSame, Zenon
<1>13. c \notin Blocks(q)
  BY <1>4
<1>14. FileOk(p, Refs(p), {})
  <2>1. \A x \in (Refs(p) \cup Blocks(p)) \ {} : x \in (R \cup Blocks(p)) \ {c}
    <3> HIDE DEF R, c
    <3> QED BY <1>2, <1>10, <1>12, <1>13
  <2>2. p.rft # <<>> => \A x \in (R \cup Blocks(p)) \ {c} : HasBlock(p, x) /\ p.rb[Home(p, x)][x % RbSize] # 0
    BY <1>8, Zenon DEF FileOk
  <2>3. p.rft # <<>> => \A x \in (Refs(p) \cup Blocks(p)) \ {} : HasBlock(p, x) /\ p.rb[Home(p, x)][x % RbSize] # 0
    BY <2>1, <2>2, Zenon
  <2> QED BY <1>11, <2>3, Zenon DEF FileOk
<1>15. \A k \in Named(p) : p.l1[k].off \notin Blocks(p)
  <2>1. \A k \in Named(m) : k \in Named(q) /\ m.l1[k] = q.l1[k]
    <3>1. Named(m) = Named(q) \ {i} /\ \A k \in DOMAIN q.l1 : k # i => m.l1[k] = q.l1[k]
      <4>1. EntryLost(q, m, i)
        BY <1>1, UnlinkedTables
      <4> QED BY <4>1, Zenon DEF EntryLost
    <3> QED BY <1>1, <3>1, TablesAre
  <2>2. p.l1 = m.l1
    BY <1>9 DEF View
  <2> QED BY <1>4, <1>10, <1>12, <2>1, <2>2
<1>16. CountsSound(p)
  BY <1>14, <1>15, FileCounts
<1>17. p.free \in Nat
  BY <1>11 DEF FileTyped
<1>18. ImgOk(p)
  BY <1>8, <1>12, <1>16, <1>17 DEF ImgOk
<1>19. Kept(q, p)
  BY <1>2, <1>9, ViewKept, KeptTrans
<1> QED BY <1>18, <1>19 DEF p

\* What get_cluster_table leaves.
TableDone(q, i, t) ==
  /\ t.ok \in BOOLEAN /\ ImgOk(t.q) /\ Kept(q, t.q)
  /\ t.got # 0 => t.got \notin Referenced(t.q)
  /\ t.ok => LruOnly(q, t.q) /\ i \in Named(q) /\ t.tab = q.l2[q.l1[i].off]

\* A call that ends without a table and hands out nothing.
LEMMA NoTableDone ==
  ASSUME NEW q, NEW p, ImgOk(p), Kept(q, p), NEW i
  PROVE  TableDone(q, i, NoTable(p))
<1> DEFINE t == NoTable(p)
<1>1. t = [ok |-> FALSE, got |-> 0, q |-> p]
  BY DEF NoTable
<1> HIDE DEF t
<1>2. t.ok = FALSE /\ t.got = 0 /\ t.q = p
  BY <1>1
<1>3. TableDone(q, i, t)
  BY <1>2 DEF TableDone
<1> QED BY <1>3 DEF t

\* The table that an L1 entry other than 0 names.
LEMMA TableRead ==
  ASSUME NEW q, ImgOk(q), q.lru \in Seq(L2Nodes(q)), NEW i \in DOMAIN q.l1, q.l1[i].off # 0, NEW rf
  PROVE  LET r == ReadL2(q, q.l1[i].off, rf)
         IN LruOnly(q, r.q) /\ r.ok \in BOOLEAN /\ (r.ok => i \in Named(q) /\ r.tab = q.l2[q.l1[i].off])
<1> DEFINE o == q.l1[i].off
           r == ReadL2(q, o, rf)
<1>1. ImageTyped(q) /\ TablesSound(q)
  BY DEF ImgOk
<1>2. Shaped(q) /\ NoCluster \notin DOMAIN q.l2 /\ (o = NoCluster \/ (i \in Named(q) /\ o \in DOMAIN q.l2))
  BY <1>1, TablesAre
<1>3. LruOnly(q, r.q) /\ r.ok \in BOOLEAN /\ (r.ok => o \in DOMAIN q.l2 /\ r.tab = q.l2[o])
  <2> HIDE DEF o
  <2> QED BY <1>2, L2Read
<1>4. r.ok => i \in Named(q)
  BY <1>2, <1>3
<1> QED BY <1>3, <1>4

\* get_cluster_table with a table of the image's own.
LEMMA OwnTableDone ==
  ASSUME NEW q, ImgOk(q), ~q.wild, NEW i \in DOMAIN q.l1, q.l1[i].off # 0, NEW rf
  PROVE  TableDone(q, i, OwnTable(ReadL2(q, q.l1[i].off, rf), q))
<1> DEFINE r == ReadL2(q, q.l1[i].off, rf)
           t == OwnTable(r, q)
<1>1. q.lru \in Seq(L2Nodes(q))
  BY DEF ImgOk
<1>2. LruOnly(q, r.q) /\ r.ok \in BOOLEAN /\ (r.ok => i \in Named(q) /\ r.tab = q.l2[q.l1[i].off])
  BY <1>1, TableRead
<1>3. t = IF r.ok THEN [ok |-> TRUE, got |-> 0, q |-> r.q, tab |-> r.tab] ELSE NoTable(q)
  BY DEF OwnTable
<1> HIDE DEF r, t
<1>4. CASE r.ok
  <2>1. t = [ok |-> TRUE, got |-> 0, q |-> r.q, tab |-> r.tab]
    BY <1>3, <1>4
  <2>2. t.ok = TRUE /\ t.got = 0 /\ t.q = r.q /\ t.tab = r.tab
    BY <2>1
  <2>3. ImgOk(r.q)
    BY <1>2, LruKeeps
  <2>4. Kept(q, r.q)
    BY <1>2, ViewKept DEF LruOnly
  <2>5. TableDone(q, i, t)
    BY <1>2, <1>4, <2>2, <2>3, <2>4 DEF TableDone
  <2> QED BY <2>5 DEF t, r
<1>5. CASE ~r.ok
  <2>1. t = NoTable(q)
    BY <1>3, <1>5
  <2>2. Kept(q, q)
    BY DEF Kept
  <2>3. TableDone(q, i, t)
    BY <2>1, <2>2, NoTableDone
  <2> QED BY <2>3 DEF t, r
<1> QED BY <1>2, <1>4, <1>5

\* A table that could not be copied for want of a cluster.
LEMMA CopyTableDone ==
  ASSUME NEW q, NEW p, ImgOk(p), CacheOk(p), p.lru \in Seq(L2Nodes(p)), Kept(q, p),
         NEW i \in DOMAIN p.l1, p.l1[i].off # 0, NEW rf, NEW wf \in BOOLEAN
  PROVE  TableDone(q, i, CopyTable(ReadL2(p, p.l1[i].off, rf), p, i, wf))
<1> DEFINE c == p.l1[i].off
           r == ReadL2(p, c, rf)
           e == [off |-> NoCluster, copied |-> TRUE]
           m == [r.q EXCEPT !.l1[i] = e, !.wild = TRUE]
           w == [r.q EXCEPT !.wild = TRUE]
           t == CopyTable(r, p, i, wf)
<1>1. LruOnly(p, r.q) /\ r.ok \in BOOLEAN /\ (r.ok => i \in Named(p))
  BY TableRead
<1>2. t = IF ~r.ok THEN NoTable(p) ELSE IF wf THEN NoTable(w) ELSE NoTable(FreeCluster(m, c))
  BY DEF CopyTable
<1>3. m = [r.q EXCEPT !.l1[i] = e, !.wild = TRUE] /\ w = [r.q EXCEPT !.wild = TRUE]
  OBVIOUS
<1>4. e = [off |-> NoCluster, copied |-> TRUE]
  OBVIOUS
<1> HIDE DEF r, t, m, w, e
<1>5. ImgOk(r.q) /\ CacheOk(r.q) /\ Named(r.q) = Named(p)
  BY <1>1, LruKeeps
<1>6. Shaped(r.q) /\ r.q.l1 = p.l1 /\ Kept(p, r.q)
  BY <1>1, ViewKept DEF LruOnly, View
<1>7. CASE ~r.ok
  <2>1. TableDone(q, i, NoTable(p))
    BY NoTableDone
  <2> QED BY <1>2, <1>7, <2>1 DEF t, r, c
<1>8. CASE r.ok /\ wf
  <2>1. /\ Shaped(w) /\ w.rlru = r.q.rlru /\ w.ver = r.q.ver /\ w.size = r.q.size /\ w.l1 = r.q.l1 /\ w.l2 = r.q.l2
        /\ w.rft = r.q.rft /\ w.rb = r.q.rb /\ w.free = r.q.free /\ w.wild = TRUE /\ w.data = r.q.data
    BY <1>3, <1>6 DEF Shaped
  <2>2. View(r.q, w)
    BY <2>1 DEF View
  <2>3. Kept(q, w)
    BY <1>6, <2>2, ViewKept, KeptTrans
  <2>4. ImgOk(w)
    <3>1. ImageTyped(r.q) /\ TablesSound(r.q) /\ CountsSound(r.q) /\ r.q.free \in Nat
      BY <1>5 DEF ImgOk
    <3>2. FileOk(r.q, Refs(r.q), {}) /\ \A k \in Named(r.q) : r.q.l1[k].off \notin Blocks(r.q)
      BY <3>1, CountsFile, Zenon
    <3>3. Blocks(w) = Blocks(r.q) /\ \A x : (HasBlock(w, x) <=> HasBlock(r.q, x)) /\ Home(w, x) = Home(r.q, x)
      BY <2>1 DEF Blocks, HasBlock, Home
    <3>4. FileTyped(w)
      <4>1. FileTyped(r.q)
        BY <3>2 DEF FileOk
      <4>2. /\ w.free \in Nat /\ w.rft \in Seq(Nat) /\ w.rb \in [DOMAIN w.rb -> Block] /\ Blocks(w) \subseteq DOMAIN w.rb
            /\ \A s, z \in DOMAIN w.rft : w.rft[s] # 0 /\ w.rft[s] = w.rft[z] => s = z
        BY <2>1, <3>3, <4>1 DEF FileTyped
      <4> QED BY <2>1, <4>2 DEF FileTyped
    <3>5. Named(w) = Named(r.q) /\ Refs(w) = Refs(r.q) /\ TablesSound(w) /\ ImageTyped(w)
      BY <2>2, <3>1, <3>4, ViewSame, Zenon
    <3>6. FileOk(w, Refs(w), {})
      BY <2>1, <3>2, <3>3, <3>4, <3>5, Zenon DEF FileOk
    <3>7. \A k \in Named(w) : w.l1[k].off \notin Blocks(w)
      BY <2>1, <3>2, <3>3, <3>5
    <3>8. CountsSound(w) /\ w.free \in Nat
      BY <2>1, <3>1, <3>6, <3>7, FileCounts
    <3> QED BY <2>1, <3>5, <3>8 DEF ImgOk
  <2>5. TableDone(q, i, NoTable(w))
    BY <2>3, <2>4, NoTableDone
  <2>6. TableDone(q, i, t)
    BY <1>2, <1>8, <2>5
  <2> QED BY <2>6 DEF t, r, c
<1>9. CASE r.ok /\ ~wf
  <2>1. Unlinked(r.q, m, i)
    <3>1. /\ Shaped(m) /\ m.rlru = r.q.rlru /\ m.ver = r.q.ver /\ m.size = r.q.size /\ m.l2 = r.q.l2 /\ m.lru = r.q.lru
          /\ m.rft = r.q.rft /\ m.rb = r.q.rb /\ m.free = r.q.free /\ m.wild = TRUE /\ m.data = r.q.data
          /\ m.l1 = [r.q.l1 EXCEPT ![i] = e]
      BY <1>3, <1>6 DEF Shaped
    <3> QED BY <1>4, <3>1 DEF Unlinked
  <2>2. i \in Named(r.q) /\ r.q.l1[i].off = c
    BY <1>1, <1>5, <1>6, <1>9
  <2>3. ImgOk(FreeCluster(m, c)) /\ Kept(r.q, FreeCluster(m, c))
    <3>1. ImgOk(FreeCluster(m, r.q.l1[i].off)) /\ Kept(r.q, FreeCluster(m, r.q.l1[i].off))
      BY <1>5, <2>1, <2>2, CopyLoses
    <3> QED BY <2>2, <3>1
  <2>4. Kept(q, FreeCluster(m, c))
    BY <1>6, <2>3, KeptTrans
  <2>5. TableDone(q, i, NoTable(FreeCluster(m, c)))
    BY <2>3, <2>4, NoTableDone
  <2>6. TableDone(q, i, t)
    BY <1>2, <1>9, <2>5
  <2> QED BY <2>6 DEF t, r, c
<1> QED BY <1>1, <1>7, <1>8, <1>9

\* get_cluster_table when a cluster is allocated for the table.
LEMMA NewTableDone ==
  ASSUME NEW q, ImgOk(q), ~q.wild, NEW i \in DOMAIN q.l1, NEW rf, NEW wf \in BOOLEAN
  PROVE  TableDone(q, i, NewTable(Alloc(q, rf, wf), i, rf, wf))
<1> DEFINE a == Alloc(q, rf, wf)
           t == NewTable(a, i, rf, wf)
<1>1. /\ ImgOk(a.q) /\ View(q, a.q) /\ a.q.lru = q.lru /\ CacheOk(a.q)
      /\ a.off # NoCluster => a.off \notin Referenced(a.q)
  BY ImgAllocates
<1>2. t = IF a.off # NoCluster THEN [NoTable(a.q) EXCEPT !.got = a.off]
          ELSE IF a.q.l1[i].off = 0 THEN NoTable(a.q)
          ELSE CopyTable(ReadL2(a.q, a.q.l1[i].off, rf), a.q, i, wf)
  BY DEF NewTable, AllocRejected
<1> HIDE DEF a, t
<1>3. Kept(q, a.q) /\ a.q.l1 = q.l1
  BY <1>1, ViewKept DEF View
<1>4. a.q.lru \in Seq(L2Nodes(a.q))
  <2>1. L2Nodes(a.q) = L2Nodes(q)
    BY <1>1, ViewSame, Zenon
  <2> QED BY <1>1, <2>1 DEF ImgOk
<1>5. CASE a.off # NoCluster
  <2>1. t = [NoTable(a.q) EXCEPT !.got = a.off]
    BY <1>2, <1>5
  <2>2. t = [ok |-> FALSE, got |-> a.off, q |-> a.q]
    BY <2>1 DEF NoTable
  <2>3. t.ok = FALSE /\ t.got = a.off /\ t.q = a.q
    BY <2>2
  <2>4. TableDone(q, i, t)
    BY <1>1, <1>3, <1>5, <2>3 DEF TableDone
  <2> QED BY <2>4 DEF t, a
<1>6. CASE a.off = NoCluster /\ a.q.l1[i].off = 0
  <2>1. TableDone(q, i, t)
    BY <1>1, <1>2, <1>3, <1>6, NoTableDone
  <2> QED BY <2>1 DEF t, a
<1>7. CASE a.off = NoCluster /\ a.q.l1[i].off # 0
  <2>1. t = CopyTable(ReadL2(a.q, a.q.l1[i].off, rf), a.q, i, wf)
    BY <1>2, <1>7
  <2>2. i \in DOMAIN a.q.l1
    BY <1>3
  <2>3. TableDone(q, i, t)
    BY <1>1, <1>3, <1>4, <1>7, <2>1, <2>2, CopyTableDone
  <2> QED BY <2>3 DEF t, a
<1> QED BY <1>5, <1>6, <1>7

\* get_cluster_table.
LEMMA TableGot ==
  ASSUME NEW q, ImgOk(q), ~q.wild, NEW g \in Nat, NEW rf, NEW wf \in BOOLEAN
  PROVE  TableDone(q, g \div L2Size + 1, GetClusterTable(q, g, rf, wf))
<1> DEFINE i == g \div L2Size + 1
           t == GetClusterTable(q, g, rf, wf)
<1>1. i \in Nat /\ i >= 1
  BY DiskAssumption
<1>2. t = IF i > Len(q.l1) THEN NoTable(q)
          ELSE IF q.l1[i].copied THEN OwnTable(ReadL2(q, q.l1[i].off, rf), q)
          ELSE NewTable(Alloc(q, rf, wf), i, rf, wf)
  BY DEF GetClusterTable
<1> HIDE DEF i, t
<1>3. i > Len(q.l1) \/ i \in DOMAIN q.l1
  <2>1. q.l1 \in Seq([off : Nat \cup {NoCluster}, copied : BOOLEAN])
    BY DEF ImgOk, ImageTyped
  <2> DEFINE S == [off : Nat \cup {NoCluster}, copied : BOOLEAN]
  <2> HIDE DEF S
  <2>2. q.l1 \in Seq(S)
    BY <2>1 DEF S
  <2> QED BY <1>1, <2>2
<1>4. CASE i > Len(q.l1)
  <2>1. Kept(q, q)
    BY DEF Kept
  <2>2. TableDone(q, i, t)
    BY <1>2, <1>4, <2>1, NoTableDone
  <2> QED BY <2>2 DEF t, i
<1>5. CASE ~(i > Len(q.l1)) /\ q.l1[i].copied
  <2>1. q.l1[i].off # 0 /\ i \in DOMAIN q.l1
    BY <1>3, <1>5 DEF ImgOk, TablesSound
  <2>2. TableDone(q, i, t)
    BY <1>2, <1>5, <2>1, OwnTableDone
  <2> QED BY <2>2 DEF t, i
<1>6. CASE ~(i > Len(q.l1)) /\ ~q.l1[i].copied
  <2>1. TableDone(q, i, t)
    BY <1>2, <1>3, <1>6, NewTableDone
  <2> QED BY <2>1 DEF t, i
<1> QED BY <1>4, <1>5, <1>6

\* At most the contents of the data clusters differ.
DataOnly(q, p) ==
  /\ Shaped(p) /\ p.ver = q.ver /\ p.size = q.size /\ p.l1 = q.l1 /\ p.l2 = q.l2 /\ p.lru = q.lru
  /\ p.rft = q.rft /\ p.rb = q.rb /\ p.rlru = q.rlru /\ p.free = q.free /\ p.wild = q.wild
  /\ DOMAIN p.data = DOMAIN q.data /\ p.data = [c \in DOMAIN p.data |-> p.data[c]]

\* The contents of the data clusters are no matter for tables and counts.
LEMMA DataKeeps ==
  ASSUME NEW q, NEW p, DataOnly(q, p), ImgOk(q)
  PROVE  ImgOk(p) /\ Referenced(p) = Referenced(q) /\ \A h : Tells(p, h) <=> Tells(q, h)
<1>1. /\ Shaped(p) /\ p.ver = q.ver /\ p.size = q.size /\ p.l1 = q.l1 /\ p.l2 = q.l2 /\ p.lru = q.lru
      /\ p.rft = q.rft /\ p.rb = q.rb /\ p.rlru = q.rlru /\ p.free = q.free /\ p.wild = q.wild
      /\ DOMAIN p.data = DOMAIN q.data /\ p.data = [c \in DOMAIN p.data |-> p.data[c]]
  BY DEF DataOnly
<1>2. Named(p) = Named(q) /\ \A i, j : EntryOff(p, i, j) = EntryOff(q, i, j)
  BY <1>1 DEF Named, EntryOff
<1>3. Refs(p) = Refs(q) /\ L2Nodes(p) = L2Nodes(q) /\ \A h : Tells(p, h) <=> Tells(q, h)
  BY <1>1, <1>2 DEF Refs, L2Nodes, Tells
<1>4. Blocks(p) = Blocks(q) /\ \A x : (HasBlock(p, x) <=> HasBlock(q, x)) /\ Home(p, x) = Home(q, x)
  BY <1>1 DEF Blocks, HasBlock, Home
<1>5. ImageTyped(q) /\ TablesSound(q) /\ CountsSound(q) /\ q.free \in Nat /\ q.wild \in BOOLEAN
  BY DEF ImgOk
<1>6. ImageTyped(p)
  <2>1. L1Size(p) = L1Size(q)
    BY <1>1 DEF L1Size
  <2>2. /\ q.size \in Nat /\ L1Size(q) <= Len(q.l1)
        /\ q.l1 \in Seq([off : Nat \cup {NoCluster}, copied : BOOLEAN])
        /\ q.l2 \in [DOMAIN q.l2 -> [0..L2Size - 1 -> [off : Nat, copied : BOOLEAN, comp : BOOLEAN]]]
        /\ q.rft \in Seq(Nat)
        /\ q.rb \in [DOMAIN q.rb -> [0..RbSize - 1 -> 0..CountMax]]
    BY <1>5, Zenon DEF ImageTyped
  <2> QED BY <1>1, <2>1, <2>2, Zenon DEF ImageTyped, Shaped
<1>7. TablesSound(p)
  <2>1. /\ DOMAIN q.l2 \subseteq Nat \ {0}
        /\ \A k \in DOMAIN q.l1 : q.l1[k].copied => q.l1[k].off # 0
        /\ \A k \in Named(q) : q.l1[k].off \in DOMAIN q.l2
        /\ \A t \in DOMAIN q.l2, j \in 0 .. L2Size - 1 :
             /\ q.l2[t][j].copied => q.l2[t][j].off # 0
             /\ q.l2[t][j].off # 0 => q.l2[t][j].off \in DOMAIN q.data
        /\ \A x, k \in Named(q) : q.l1[x].off = q.l1[k].off => x = k
    BY <1>5, Zenon DEF TablesSound
  <2>2. \A x, k \in Named(q), j, y \in 0 .. L2Size - 1 :
          /\ EntryOff(q, x, j) # 0 /\ EntryOff(q, x, j) = EntryOff(q, k, y) => x = k /\ j = y
          /\ q.l1[x].off # EntryOff(q, k, y)
    BY <1>5, Zenon DEF TablesSound
  <2>3. /\ DOMAIN p.l2 \subseteq Nat \ {0}
        /\ \A k \in DOMAIN p.l1 : p.l1[k].copied => p.l1[k].off # 0
        /\ \A k \in Named(p) : p.l1[k].off \in DOMAIN p.l2
        /\ \A t \in DOMAIN p.l2, j \in 0 .. L2Size - 1 :
             /\ p.l2[t][j].copied => p.l2[t][j].off # 0
             /\ p.l2[t][j].off # 0 => p.l2[t][j].off \in DOMAIN p.data
        /\ \A x, k \in Named(p) : p.l1[x].off = p.l1[k].off => x = k
    BY <1>1, <1>2, <2>1
  <2>4. \A x, k \in Named(p), j, y \in 0 .. L2Size - 1 :
          /\ EntryOff(p, x, j) # 0 /\ EntryOff(p, x, j) = EntryOff(p, k, y) => x = k /\ j = y
          /\ p.l1[x].off # EntryOff(p, k, y)
    BY <1>1, <1>2, <2>2
  <2> QED BY <2>3, <2>4, Zenon DEF TablesSound
<1>8. FileOk(q, Refs(q), {}) /\ \A k \in Named(q) : q.l1[k].off \notin Blocks(q)
  BY <1>5, CountsFile, Zenon
<1>9. FileTyped(p)
  <2>1. FileTyped(q)
    BY <1>8 DEF FileOk
  <2>2. /\ p.free \in Nat /\ p.rft \in Seq(Nat) /\ p.rb \in [DOMAIN p.rb -> Block] /\ Blocks(p) \subseteq DOMAIN p.rb
        /\ \A s, z \in DOMAIN p.rft : p.rft[s] # 0 /\ p.rft[s] = p.rft[z] => s = z
    BY <1>1, <1>4, <2>1 DEF FileTyped
  <2> QED BY <1>1, <2>2 DEF FileTyped
<1>10. FileOk(p, Refs(p), {})
  BY <1>1, <1>3, <1>4, <1>8, <1>9, Zenon DEF FileOk
<1>11. CountsSound(p)
  <2>1. \A k \in Named(p) : p.l1[k].off \notin Blocks(p)
    BY <1>1, <1>2, <1>4, <1>8
  <2> QED BY <1>10, <2>1, FileCounts
<1>12. ~p.wild => CacheOk(p) /\ CacheIn(p) /\ p.lru \in Seq(L2Nodes(p))
  <2>1. (CacheOk(q) => CacheOk(p)) /\ (CacheIn(q) => CacheIn(p))
    BY <1>1, <1>4 DEF CacheOk, CacheIn
  <2> QED BY <1>1, <1>3, <2>1 DEF ImgOk
<1>13. ImgOk(p)
  BY <1>1, <1>5, <1>6, <1>7, <1>11, <1>12 DEF ImgOk
<1>14. Referenced(p) = Referenced(q)
  BY <1>3, <1>4, RefsAre
<1> QED BY <1>3, <1>13, <1>14

\* Data cluster o of q now holds v.
Stored(q, p, o, v) == DataOnly(q, p) /\ p.data = [q.data EXCEPT ![o] = v]

\* A guest cluster is told apart by its table and its entry.
LEMMA OnePlace ==
  ASSUME NEW g \in Nat, NEW h \in Nat, g \div L2Size + 1 = h \div L2Size + 1, g % L2Size = h % L2Size
  PROVE  g = h
<1> DEFINE n == L2Size
           v == g \div n
           w == h \div n
           x == g % n
           y == h % n
<1>1. n \in Nat \ {0}
  BY DiskAssumption
<1>2. v + 1 = w + 1 /\ x = y
  OBVIOUS
<1>3. v \in Nat /\ w \in Nat /\ g = (v * n) + x /\ h = (w * n) + y /\ x \in Nat /\ y \in Nat
  <2> HIDE DEF n
  <2>1. \A z \in Nat : z = (n * (z \div n)) + (z % n) /\ z \div n \in Nat /\ z % n \in Nat
    BY <1>1
  <2>2. \A z \in Nat : n * (z \div n) = (z \div n) * n
    BY <1>1, <2>1
  <2> QED BY <2>1, <2>2
<1> HIDE DEF v, w, x, y, n
<1>4. v = w
  BY <1>2, <1>3
<1> QED BY <1>2, <1>3, <1>4

\* The table and the entry of a guest cluster.
LEMMA Place ==
  ASSUME NEW h \in Nat
  PROVE  h \div L2Size + 1 \in Nat /\ h \div L2Size + 1 >= 1 /\ h % L2Size \in 0 .. L2Size - 1
<1>1. L2Size \in Nat \ {0}
  BY DiskAssumption
<1>2. h \div L2Size \in Nat /\ h % L2Size \in 0 .. L2Size - 1
  BY <1>1
<1> QED BY <1>2

\* Data cluster o is the one of guest cluster g, which table i names.
Target(q, g, i, o) ==
  /\ i = g \div L2Size + 1 /\ i \in Named(q)
  /\ o = q.l2[q.l1[i].off][g % L2Size].off /\ o # 0

\* A cluster written in place is the only one that changes for the guest.
LEMMA StoredOne ==
  ASSUME NEW q, ImgOk(q), NEW g \in Nat, NEW i, NEW o, Target(q, g, i, o), NEW v, NEW p, Stored(q, p, o, v)
  PROVE  \A h \in Nat : Tells(p, h) => Tells(q, h) /\ Held(p, h) = IF h = g THEN v ELSE Held(q, h)
<1>1. SUFFICES ASSUME NEW h \in Nat, Tells(p, h)
               PROVE  Tells(q, h) /\ Held(p, h) = IF h = g THEN v ELSE Held(q, h)
  OBVIOUS
<1>2. DataOnly(q, p) /\ p.l1 = q.l1 /\ p.l2 = q.l2 /\ p.data = [q.data EXCEPT ![o] = v]
  BY DEF Stored, DataOnly
<1>3. Tells(q, h)
  BY <1>1, <1>2, DataKeeps
<1> DEFINE x == h \div L2Size + 1
           y == h % L2Size
           b == q.l1[x].off
           d == q.l2[b][y].off
           j == g % L2Size
<1>4. /\ Held(q, h) = IF b = 0 \/ d = 0 THEN Zero ELSE q.data[d]
      /\ Held(p, h) = IF b = 0 \/ d = 0 THEN Zero ELSE p.data[d]
  BY <1>2 DEF Held
<1>5. x \in Nat /\ x >= 1 /\ y \in 0 .. L2Size - 1 /\ j \in 0 .. L2Size - 1
  BY Place
<1>6. x <= Len(q.l1) /\ b # NoCluster
  BY <1>3 DEF Tells
<1>7. ImageTyped(q) /\ TablesSound(q)
  BY DEF ImgOk
<1> HIDE DEF x, y, b, j, d
<1>8. x \in DOMAIN q.l1
  <2>1. q.l1 \in Seq([off : Nat \cup {NoCluster}, copied : BOOLEAN])
    BY <1>7, TablesAre
  <2> DEFINE S == [off : Nat \cup {NoCluster}, copied : BOOLEAN]
  <2> HIDE DEF S
  <2>2. q.l1 \in Seq(S)
    BY <2>1 DEF S
  <2> QED BY <1>5, <1>6, <2>2
<1>9. b = 0 \/ x \in Named(q)
  <2>1. x \in Named(q) \/ q.l1[x].off = 0 \/ q.l1[x].off = NoCluster
    BY <1>7, <1>8, TablesAre
  <2> QED BY <1>6, <2>1 DEF b
<1>10. o = EntryOff(q, i, j) /\ d = EntryOff(q, x, y) /\ i \in Named(q) /\ o # 0
  BY DEF Target, EntryOff, b, d, j
<1>11. o \in DOMAIN q.data
  <2>1. q.l1[i].off \in DOMAIN q.l2
    BY <1>7, <1>10, TablesAre
  <2> QED BY <1>5, <1>7, <1>10, <2>1 DEF TablesSound, EntryOff
<1>12. CASE h = g
  <2>1. x = i /\ y = j /\ d = o
    BY <1>12 DEF x, y, j, d, b, Target
  <2>2. b # 0
    BY <1>7, <1>10, <2>1, TablesAre DEF b
  <2>3. p.data[o] = v
    BY <1>2, <1>11
  <2>4. Held(p, h) = p.data[d]
    BY <1>4, <1>10, <2>1, <2>2
  <2>5. Held(p, h) = v
    BY <2>1, <2>3, <2>4
  <2> QED BY <1>3, <1>12, <2>5
<1>13. CASE h # g
  <2>1. b # 0 /\ d # 0 => d # o
    <3>1. SUFFICES ASSUME b # 0, d = o PROVE FALSE
      OBVIOUS
    <3>2. x \in Named(q)
      BY <1>9, <3>1
    <3>3. \A a, k \in Named(q), m, z \in 0 .. L2Size - 1 :
            /\ EntryOff(q, a, m) # 0 /\ EntryOff(q, a, m) = EntryOff(q, k, z) => a = k /\ m = z
            /\ q.l1[a].off # EntryOff(q, k, z)
      BY <1>7, Zenon DEF TablesSound
    <3>4. i = x /\ j = y
      <4>1. EntryOff(q, i, j) # 0 /\ EntryOff(q, i, j) = EntryOff(q, x, y)
        BY <1>10, <3>1
      <4> QED BY <1>5, <1>10, <3>2, <3>3, <4>1, Zenon
    <3>5. g = h
      <4>1. g \div L2Size + 1 = h \div L2Size + 1 /\ g % L2Size = h % L2Size
        BY <3>4 DEF x, y, j, Target
      <4> QED BY <4>1, OnePlace
    <3> QED BY <1>13, <3>5
  <2>2. b # 0 /\ d # 0 => p.data[d] = q.data[d]
    <3>1. SUFFICES ASSUME b # 0, d # 0 PROVE p.data[d] = q.data[d]
      OBVIOUS
    <3>2. d # o
      BY <2>1, <3>1
    <3>3. d \in DOMAIN q.data
      <4>1. b \in DOMAIN q.l2
        BY <1>7, <1>9, <3>1, TablesAre DEF b
      <4> QED BY <1>5, <1>7, <3>1, <4>1 DEF TablesSound, d
    <3> QED BY <1>2, <3>2, <3>3
  <2>3. Held(p, h) = Held(q, h)
    <3>1. CASE b = 0 \/ d = 0
      BY <1>4, <3>1
    <3>2. CASE b # 0 /\ d # 0
      BY <1>4, <2>2, <3>2
    <3> QED BY <3>1, <3>2
  <2> QED BY <1>3, <1>13, <2>3
<1> QED BY <1>12, <1>13

\* What a write leaves.
WriteDone(q, g, v, r) ==
  /\ r.ok \in BOOLEAN /\ ImgOk(r.q) /\ r.q.size = q.size
  /\ r.got # 0 => r.got \notin Referenced(r.q)
  /\ \A h \in Nat : Tells(r.q, h) => Tells(q, h) /\ Held(r.q, h) = IF r.ok /\ h = g THEN v ELSE Held(q, h)

\* A write that is not answered with success changes nothing for the guest.
LEMMA NotWritten ==
  ASSUME NEW q, NEW g, NEW v, NEW r, r.ok = FALSE, ImgOk(r.q), Kept(q, r.q), r.got # 0 => r.got \notin Referenced(r.q)
  PROVE  WriteDone(q, g, v, r)
BY DEF WriteDone, Kept

\* qcow_write_cluster.
LEMMA QcowWrites ==
  ASSUME NEW q, ImgOk(q), ~q.wild, NEW g \in Nat, NEW v, NEW rf, NEW wf \in BOOLEAN
  PROVE  WriteDone(q, g, v, QcowWrite(q, g, v, rf, wf))
<1> DEFINE i == g \div L2Size + 1
           j == g % L2Size
           t == GetClusterTable(q, g, rf, wf)
           e == t.tab[j]
           a == Alloc(t.q, rf, wf)
           p == [t.q EXCEPT !.data[e.off] = v]
           r == QcowWrite(q, g, v, rf, wf)
<1>1. TableDone(q, i, t)
  BY TableGot
<1>2. r = IF g >= q.size THEN NoTable(q)
          ELSE IF ~t.ok THEN [ok |-> FALSE, got |-> t.got, q |-> t.q]
          ELSE IF e.copied THEN [ok |-> ~wf, got |-> 0, q |-> IF wf THEN t.q ELSE p]
          ELSE [ok |-> FALSE, got |-> IF a.off # NoCluster THEN a.off ELSE 0, q |-> a.q]
  BY Zenon DEF QcowWrite, WriteWith, L2Index, WritesInPlace, NewCluster, AllocRejected
<1>3. p = [t.q EXCEPT !.data[e.off] = v]
  OBVIOUS
<1> HIDE DEF t, r, p
<1>4. /\ t.ok \in BOOLEAN /\ ImgOk(t.q) /\ Kept(q, t.q) /\ (t.got # 0 => t.got \notin Referenced(t.q))
      /\ t.ok => LruOnly(q, t.q) /\ i \in Named(q) /\ t.tab = q.l2[q.l1[i].off]
  BY <1>1 DEF TableDone
<1>5. CASE g >= q.size
  <2>1. r = [ok |-> FALSE, got |-> 0, q |-> q]
    BY <1>2, <1>5 DEF NoTable
  <2>2. r.ok = FALSE /\ r.got = 0 /\ r.q = q
    BY <2>1
  <2>3. Kept(q, r.q)
    BY <2>2 DEF Kept
  <2>4. WriteDone(q, g, v, r)
    BY <2>2, <2>3, NotWritten
  <2> QED BY <2>4 DEF r
<1>6. CASE ~(g >= q.size) /\ ~t.ok
  <2>1. r = [ok |-> FALSE, got |-> t.got, q |-> t.q]
    BY <1>2, <1>6
  <2>2. r.ok = FALSE /\ r.got = t.got /\ r.q = t.q
    BY <2>1
  <2>3. WriteDone(q, g, v, r)
    BY <1>4, <2>2, NotWritten
  <2> QED BY <2>3 DEF r
<1>7. CASE ~(g >= q.size) /\ t.ok /\ ~e.copied
  <2>1. ~t.q.wild
    BY <1>4, <1>7 DEF LruOnly
  <2>2. ImgOk(a.q) /\ View(t.q, a.q) /\ (a.off # NoCluster => a.off \notin Referenced(a.q))
    BY <1>4, <2>1, ImgAllocates
  <2> HIDE DEF a
  <2>3. r = [ok |-> FALSE, got |-> IF a.off # NoCluster THEN a.off ELSE 0, q |-> a.q]
    BY <1>2, <1>7
  <2>4. r.ok = FALSE /\ r.got = (IF a.off # NoCluster THEN a.off ELSE 0) /\ r.q = a.q
    BY <2>3
  <2>5. Kept(q, a.q)
    BY <1>4, <2>2, ViewKept, KeptTrans
  <2>6. r.got # 0 => r.got \notin Referenced(r.q)
    BY <2>2, <2>4
  <2>7. WriteDone(q, g, v, r)
    BY <2>2, <2>4, <2>5, <2>6, NotWritten
  <2> QED BY <2>7 DEF r
<1>8. CASE ~(g >= q.size) /\ t.ok /\ e.copied /\ wf
  <2>1. r = [ok |-> FALSE, got |-> 0, q |-> t.q]
    BY <1>2, <1>8
  <2>2. r.ok = FALSE /\ r.got = 0 /\ r.q = t.q
    BY <2>1
  <2>3. WriteDone(q, g, v, r)
    BY <1>4, <2>2, NotWritten
  <2> QED BY <2>3 DEF r
<1>9. CASE ~(g >= q.size) /\ t.ok /\ e.copied /\ ~wf
  <2>1. r = [ok |-> TRUE, got |-> 0, q |-> p]
    BY <1>2, <1>9
  <2>2. r.ok = TRUE /\ r.got = 0 /\ r.q = p
    BY <2>1
  <2>3. LruOnly(q, t.q) /\ i \in Named(q) /\ t.tab = q.l2[q.l1[i].off]
    BY <1>4, <1>9
  <2>4. t.q.l1 = q.l1 /\ t.q.l2 = q.l2 /\ t.q.size = q.size /\ Shaped(t.q) /\ Named(t.q) = Named(q)
    <3>1. Named(t.q) = Named(q)
      BY <2>3, LruKeeps, Zenon
    <3> QED BY <2>3, <3>1 DEF LruOnly, View
  <2>5. j \in 0 .. L2Size - 1
    BY DiskAssumption
  <2> DEFINE o == e.off
  <2>6. o = t.q.l2[t.q.l1[i].off][g % L2Size].off /\ o # 0 /\ i \in Named(t.q)
    <3>1. ImageTyped(t.q) /\ TablesSound(t.q)
      BY <1>4 DEF ImgOk
    <3>2. t.q.l1[i].off \in DOMAIN t.q.l2
      BY <2>3, <2>4, <3>1, TablesAre
    <3>3. e = t.q.l2[t.q.l1[i].off][j]
      BY <2>3, <2>4
    <3>4. e.off # 0
      <4>1. \A x \in DOMAIN t.q.l2, k \in 0 .. L2Size - 1 : t.q.l2[x][k].copied => t.q.l2[x][k].off # 0
        BY <3>1, Zenon DEF TablesSound
      <4> QED BY <1>9, <2>5, <3>2, <3>3, <4>1
    <3> QED BY <2>3, <2>4, <3>3, <3>4
  <2>7. p = [t.q EXCEPT !.data[o] = v]
    BY <1>3
  <2> HIDE DEF o, e
  <2>8. Stored(t.q, p, o, v)
    <3>1. /\ Shaped(p) /\ p.ver = t.q.ver /\ p.size = t.q.size /\ p.l1 = t.q.l1 /\ p.l2 = t.q.l2 /\ p.lru = t.q.lru
          /\ p.rft = t.q.rft /\ p.rb = t.q.rb /\ p.rlru = t.q.rlru /\ p.free = t.q.free /\ p.wild = t.q.wild
          /\ p.data = [t.q.data EXCEPT ![o] = v]
      BY <2>4, <2>7 DEF Shaped
    <3>2. DOMAIN p.data = DOMAIN t.q.data /\ p.data = [c \in DOMAIN p.data |-> p.data[c]]
      BY <3>1
    <3> QED BY <3>1, <3>2 DEF Stored, DataOnly
  <2>9. \A h \in Nat : Tells(p, h) => Tells(t.q, h) /\ Held(p, h) = IF h = g THEN v ELSE Held(t.q, h)
    <3>1. Target(t.q, g, i, o)
      BY <2>6 DEF Target
    <3> HIDE DEF i, j
    <3> QED BY <1>4, <2>8, <3>1, StoredOne
  <2>10. ImgOk(p) /\ p.size = q.size
    BY <1>4, <2>4, <2>8, DataKeeps DEF Stored, DataOnly
  <2>11. \A h \in Nat : Tells(p, h) => Tells(q, h) /\ Held(p, h) = IF h = g THEN v ELSE Held(q, h)
    BY <1>4, <2>9 DEF Kept
  <2>12. WriteDone(q, g, v, r)
    BY <2>2, <2>10, <2>11 DEF WriteDone
  <2> QED BY <2>12 DEF r
<1> QED BY <1>4, <1>5, <1>6, <1>7, <1>8, <1>9

\* What a flush leaves: in the place of a block its dirty node.
Flushed(q, p) ==
  /\ View(q, p) /\ p.lru = q.lru /\ p.rft = q.rft /\ p.free = q.free /\ p.wild = q.wild
  /\ p.rlru \in Seq(Node) /\ Len(p.rlru) = Len(q.rlru)
  /\ \A i \in 1 .. Len(q.rlru) : p.rlru[i].off = q.rlru[i].off /\ p.rlru[i].ent = q.rlru[i].ent
  /\ p.rb \in [DOMAIN q.rb -> Block]
  /\ \A o \in DOMAIN q.rb :
       \/ \E i \in 1 .. Len(q.rlru) : q.rlru[i].off = o /\ p.rb[o] = q.rlru[i].ent
       \/ p.rb[o] = q.rb[o]

\* qcow_disk_flush writes dirty nodes only.
LEMMA FlushIs ==
  ASSUME NEW q, Shaped(q), CacheOk(q), q.rb \in [DOMAIN q.rb -> Block]
  PROVE  Flushed(q, QcowFlush(q, FALSE))
<1> DEFINE n == Len(q.rlru)
           D == {i \in 1 .. n : q.rlru[i].dirty}
           V == {q.rlru[i] : i \in D}
           W(o) == CHOOSE x \in V : x.off = o
           b == [o \in DOMAIN q.rb |-> IF \E i \in D : q.rlru[i].off = o THEN W(o).ent ELSE q.rb[o]]
           l == [i \in DOMAIN q.rlru |-> [q.rlru[i] EXCEPT !.dirty = FALSE]]
           p == QcowFlush(q, FALSE)
<1>1. p = [q EXCEPT !.rb = b, !.rlru = l]
  BY DEF QcowFlush
<1>2. q.rlru \in Seq(Node) /\ n \in Nat /\ DOMAIN q.rlru = 1 .. n /\ \A i \in 1 .. n : q.rlru[i] \in Node
  <2>1. q.rlru \in Seq(Node)
    BY DEF CacheOk
  <2> QED BY <2>1
<1>3. \A o : (\E i \in D : q.rlru[i].off = o) => \E i \in 1 .. n : q.rlru[i].off = o /\ W(o).ent = q.rlru[i].ent
  <2>1. SUFFICES ASSUME NEW o, NEW k \in D, q.rlru[k].off = o
                 PROVE  \E i \in 1 .. n : q.rlru[i].off = o /\ W(o).ent = q.rlru[i].ent
    OBVIOUS
  <2>2. q.rlru[k] \in V
    OBVIOUS
  <2>3. W(o) \in V /\ W(o).off = o
    <3> HIDE DEF V
    <3> QED BY <2>1, <2>2
  <2> HIDE DEF W
  <2>4. PICK i \in D : W(o) = q.rlru[i]
    BY <2>3
  <2> QED BY <2>3, <2>4
<1>4. \A o \in DOMAIN q.rb :
        (\E i \in 1 .. n : q.rlru[i].off = o /\ b[o] = q.rlru[i].ent) \/ b[o] = q.rb[o]
  <2> HIDE DEF W, D
  <2> QED BY <1>3
<1>5. DOMAIN b = DOMAIN q.rb /\ b = [o \in DOMAIN q.rb |-> b[o]]
  <2> HIDE DEF W, D
  <2> QED OBVIOUS
<1>6. \A i \in 1 .. n : l[i] \in Node /\ l[i].off = q.rlru[i].off /\ l[i].ent = q.rlru[i].ent
  <2>1. SUFFICES ASSUME NEW i \in 1 .. n PROVE l[i] \in Node /\ l[i].off = q.rlru[i].off /\ l[i].ent = q.rlru[i].ent
    OBVIOUS
  <2> DEFINE x == q.rlru[i]
  <2>2. l[i] = [x EXCEPT !.dirty = FALSE]
    BY <1>2
  <2>3. x \in Node
    BY <1>2
  <2> HIDE DEF x, l
  <2>4. l[i] \in Node /\ l[i].off = x.off /\ l[i].ent = x.ent
    BY <2>2, <2>3 DEF Node
  <2> QED BY <2>4 DEF x
<1>7. l \in [1 .. n -> Node]
  <2>1. DOMAIN l = 1 .. n /\ l = [i \in 1 .. n |-> l[i]]
    BY <1>2
  <2> HIDE DEF l
  <2> QED BY <1>6, <2>1
<1> HIDE DEF b, l, p, D, V, W
<1>8. l \in Seq(Node) /\ Len(l) = n
  BY <1>2, <1>7
<1>9. b \in [DOMAIN q.rb -> Block]
  <2>1. \A o \in DOMAIN q.rb : b[o] \in Block
    <3>1. SUFFICES ASSUME NEW o \in DOMAIN q.rb PROVE b[o] \in Block
      OBVIOUS
    <3>2. \A i \in 1 .. n : q.rlru[i].ent \in Block
      BY <1>2 DEF Node
    <3> QED BY <1>4, <3>2
  <2> QED BY <1>5, <2>1
<1>10. /\ Shaped(p) /\ p.ver = q.ver /\ p.size = q.size /\ p.l1 = q.l1 /\ p.l2 = q.l2 /\ p.lru = q.lru
       /\ p.rft = q.rft /\ p.rb = b /\ p.rlru = l /\ p.free = q.free /\ p.wild = q.wild /\ p.data = q.data
  BY <1>1 DEF Shaped
<1>11. Flushed(q, p)
  BY <1>4, <1>6, <1>8, <1>9, <1>10 DEF Flushed, View
<1> QED BY <1>11 DEF p

\* A flush keeps the counts: what the cache holds as zero the file holds as zero.
LEMMA FlushKeeps ==
  ASSUME NEW q, ImgOk(q), ~q.wild, NEW p, Flushed(q, p)
  PROVE  ImgOk(p) /\ Referenced(p) = Referenced(q)
<1>1. /\ View(q, p) /\ p.lru = q.lru /\ p.rft = q.rft /\ p.free = q.free /\ p.wild = q.wild
      /\ p.rlru \in Seq(Node) /\ Len(p.rlru) = Len(q.rlru)
      /\ (\A i \in 1 .. Len(q.rlru) : p.rlru[i].off = q.rlru[i].off /\ p.rlru[i].ent = q.rlru[i].ent)
      /\ p.rb \in [DOMAIN q.rb -> Block]
      /\ \A o \in DOMAIN q.rb :
           \/ \E i \in 1 .. Len(q.rlru) : q.rlru[i].off = o /\ p.rb[o] = q.rlru[i].ent
           \/ p.rb[o] = q.rb[o]
  BY DEF Flushed
<1>2. ImageTyped(q) /\ TablesSound(q) /\ CountsSound(q) /\ q.free \in Nat /\ q.wild \in BOOLEAN
      /\ CacheOk(q) /\ CacheIn(q) /\ q.lru \in Seq(L2Nodes(q))
  BY DEF ImgOk
<1>3. FileOk(q, Refs(q), {}) /\ \A k \in Named(q) : q.l1[k].off \notin Blocks(q)
  BY <1>2, CountsFile, Zenon
<1>4. FileTyped(q) /\ Shaped(p) /\ p.l1 = q.l1
  BY <1>1, <1>3 DEF FileOk, View
<1>5. Blocks(p) = Blocks(q) /\ \A x : (HasBlock(p, x) <=> HasBlock(q, x)) /\ Home(p, x) = Home(q, x)
  BY <1>1 DEF Blocks, HasBlock, Home
<1>6. DOMAIN p.rb = DOMAIN q.rb
  BY <1>1
<1>7. FileTyped(p)
  <2>1. /\ p.free \in Nat /\ p.rft \in Seq(Nat) /\ p.rb \in [DOMAIN p.rb -> Block] /\ Blocks(p) \subseteq DOMAIN p.rb
        /\ \A s, z \in DOMAIN p.rft : p.rft[s] # 0 /\ p.rft[s] = p.rft[z] => s = z
    BY <1>1, <1>4, <1>5, <1>6 DEF FileTyped
  <2> QED BY <1>4, <2>1 DEF FileTyped
<1>8. /\ Named(p) = Named(q) /\ Refs(p) = Refs(q) /\ L2Nodes(p) = L2Nodes(q) /\ TablesSound(p) /\ ImageTyped(p)
  BY <1>1, <1>2, <1>7, ViewSame, Zenon
<1>9. /\ \A i, k \in 1 .. Len(q.rlru) : q.rlru[i].off = q.rlru[k].off => i = k
      /\ \A i \in 1 .. Len(q.rlru) :
           /\ q.rlru[i].off \in DOMAIN q.rb
           /\ \A x \in 0 .. RbSize - 1 : q.rlru[i].ent[x] = 0 => q.rb[q.rlru[i].off][x] = 0
  BY <1>2, Zenon DEF CacheOk, NodesOk
<1>10. ASSUME NEW o \in DOMAIN q.rb, NEW x \in 0 .. RbSize - 1, p.rb[o][x] = 0
       PROVE  q.rb[o][x] = 0
  <2>1. CASE p.rb[o] = q.rb[o]
    BY <1>10, <2>1
  <2>2. CASE \E i \in 1 .. Len(q.rlru) : q.rlru[i].off = o /\ p.rb[o] = q.rlru[i].ent
    <3>1. PICK i \in 1 .. Len(q.rlru) : q.rlru[i].off = o /\ p.rb[o] = q.rlru[i].ent
      BY <2>2
    <3>2. q.rlru[i].ent[x] = 0
      BY <1>10, <3>1
    <3> QED BY <1>9, <3>1, <3>2
  <2> QED BY <1>1, <2>1, <2>2
<1>11. FileOk(p, Refs(p), {})
  <2>1. p.rft # <<>> => \A c \in (Refs(p) \cup Blocks(p)) \ {} : HasBlock(p, c) /\ p.rb[Home(p, c)][c % RbSize] # 0
    <3>1. SUFFICES ASSUME p.rft # <<>>, NEW c \in Refs(p) \cup Blocks(p)
                   PROVE  HasBlock(p, c) /\ p.rb[Home(p, c)][c % RbSize] # 0
      OBVIOUS
    <3>2. HasBlock(q, c) /\ q.rb[Home(q, c)][c % RbSize] # 0
      <4>1. c \in (Refs(q) \cup Blocks(q)) \ {} /\ q.rft # <<>>
        BY <1>1, <1>5, <1>8, <3>1
      <4> QED BY <1>3, <4>1, Zenon DEF FileOk
    <3>3. c \in Nat
      <4>1. Blocks(q) \subseteq Nat
        <5>1. q.rft \in Seq(Nat)
          BY <1>4 DEF FileTyped
        <5> QED BY <5>1 DEF Blocks
      <4>2. Refs(q) \subseteq Nat
        BY <1>2, TablesAre
      <4> QED BY <1>5, <1>8, <4>1, <4>2
    <3>4. Home(q, c) \in DOMAIN q.rb /\ c % RbSize \in 0 .. RbSize - 1
      BY <1>4, <3>2, <3>3, Where
    <3> QED BY <1>5, <1>10, <3>2, <3>4
  <2> QED BY <1>7, <2>1, Zenon DEF FileOk
<1>12. CountsSound(p)
  <2>1. \A k \in Named(p) : p.l1[k].off \notin Blocks(p)
    BY <1>3, <1>4, <1>5, <1>8
  <2> QED BY <1>11, <2>1, FileCounts
<1>13. CacheOk(p)
  <2>1. \A i, k \in 1 .. Len(p.rlru) : p.rlru[i].off = p.rlru[k].off => i = k
    BY <1>1, <1>9
  <2>2. ASSUME NEW i \in 1 .. Len(p.rlru)
        PROVE  /\ p.rlru[i].off \in DOMAIN p.rb
               /\ \A x \in 0 .. RbSize - 1 : p.rlru[i].ent[x] = 0 => p.rb[p.rlru[i].off][x] = 0
    <3>1. i \in 1 .. Len(q.rlru) /\ p.rlru[i].off = q.rlru[i].off /\ p.rlru[i].ent = q.rlru[i].ent
      BY <1>1
    <3>2. q.rlru[i].off \in DOMAIN q.rb /\ \A x \in 0 .. RbSize - 1 : q.rlru[i].ent[x] = 0 => q.rb[q.rlru[i].off][x] = 0
      BY <1>9, <3>1
    <3> DEFINE o == q.rlru[i].off
    <3>3. p.rb[o] = q.rlru[i].ent \/ p.rb[o] = q.rb[o]
      <4>1. CASE \E k \in 1 .. Len(q.rlru) : q.rlru[k].off = o /\ p.rb[o] = q.rlru[k].ent
        <5>1. PICK k \in 1 .. Len(q.rlru) : q.rlru[k].off = o /\ p.rb[o] = q.rlru[k].ent
          BY <4>1
        <5>2. k = i
          BY <1>9, <3>1, <5>1
        <5> QED BY <5>1, <5>2
      <4> QED BY <1>1, <3>2, <4>1
    <3> QED BY <1>6, <3>1, <3>2, <3>3
  <2>3. NodesOk(p.rlru, p.rb)
    BY <2>1, <2>2 DEF NodesOk
  <2> QED BY <1>1, <2>3 DEF CacheOk
<1>14. CacheIn(p)
  BY <1>1, <1>2, <1>5 DEF CacheIn, NodesIn
<1>15. ImgOk(p)
  BY <1>1, <1>2, <1>8, <1>12, <1>13, <1>14 DEF ImgOk
<1>16. Referenced(p) = Referenced(q)
  BY <1>5, <1>8, RefsAre
<1> QED BY <1>15, <1>16

\* qcow_disk_flush.
LEMMA QcowFlushes ==
  ASSUME NEW q, ImgOk(q), ~q.wild, NEW wf \in BOOLEAN
  PROVE  /\ ImgOk(QcowFlush(q, wf)) /\ Kept(q, QcowFlush(q, wf))
         /\ Referenced(QcowFlush(q, wf)) = Referenced(q)
<1>1. CASE wf
  <2>1. QcowFlush(q, wf) = q
    BY <1>1 DEF QcowFlush
  <2>2. Kept(q, q)
    BY DEF Kept
  <2> QED BY <2>1, <2>2
<1>2. CASE ~wf
  <2> DEFINE p == QcowFlush(q, FALSE)
  <2>1. QcowFlush(q, wf) = p
    <3>1. wf = FALSE
      BY <1>2
    <3> QED BY <3>1
  <2>2. Shaped(q) /\ CacheOk(q) /\ q.rb \in [DOMAIN q.rb -> Block]
    BY DEF ImgOk, ImageTyped, Shaped, Block
  <2>3. Flushed(q, p)
    BY <2>2, FlushIs
  <2> HIDE DEF p
  <2>4. ImgOk(p) /\ Referenced(p) = Referenced(q)
    BY <2>3, FlushKeeps
  <2>5. Kept(q, p)
    BY <2>3, ViewKept DEF Flushed
  <2> QED BY <2>1, <2>4, <2>5
<1> QED BY <1>1, <1>2

\* An image on the disk.
FileImage(q) == ImageTyped(q) /\ TablesSound(q) /\ CountsSound(q)

\* A probe leaves a usable image that tells no more than the file.
LEMMA ProbeOk ==
  ASSUME NEW q, FileImage(q)
  PROVE  ImgOk(Probe(q)) /\ Kept(q, Probe(q)) /\ Probe(q).wild = FALSE
<1> DEFINE n == L1Size(q)
           l == SubSeq(q.l1, 1, n)
           p == Probe(q)
           S == [off : Nat \cup {NoCluster}, copied : BOOLEAN]
<1>1. ImageTyped(q) /\ TablesSound(q) /\ CountsSound(q)
  BY DEF FileImage
<1>2. p = [q EXCEPT !.l1 = l, !.lru = <<>>, !.rlru = <<>>, !.free = 0, !.wild = FALSE]
  BY DEF Probe
<1>3. /\ q.size \in Nat /\ n <= Len(q.l1) /\ q.l1 \in Seq(S)
      /\ q.l2 \in [DOMAIN q.l2 -> [0..L2Size - 1 -> [off : Nat, copied : BOOLEAN, comp : BOOLEAN]]]
      /\ q.rft \in Seq(Nat)
      /\ q.rb \in [DOMAIN q.rb -> [0..RbSize - 1 -> 0..CountMax]]
      /\ q.data = [c \in DOMAIN q.data |-> q.data[c]]
  BY <1>1, Zenon DEF ImageTyped
<1>4. Shaped(q)
  BY <1>1 DEF ImageTyped, Shaped
<1> HIDE DEF S, p, l
<1>5. n \in Nat
  <2>1. Len(q.l1) \in Nat
    BY <1>3
  <2>2. q.size \div L2Size \in Nat
    <3>1. L2Size \in Nat \ {0}
      BY DiskAssumption
    <3>2. \A z \in Nat : z \div L2Size \in Nat
      BY <3>1
    <3> QED BY <1>3, <3>2
  <2> QED BY <2>1, <2>2 DEF L1Size
<1>6. l \in Seq(S) /\ Len(l) = n /\ DOMAIN l = 1 .. n /\ \A i \in 1 .. n : l[i] = q.l1[i]
  <2> HIDE DEF n
  <2> QED BY <1>3, <1>5 DEF l
<1>7. /\ Shaped(p) /\ p.ver = q.ver /\ p.size = q.size /\ p.l1 = l /\ p.l2 = q.l2 /\ p.lru = <<>>
      /\ p.rft = q.rft /\ p.rb = q.rb /\ p.rlru = <<>> /\ p.free = 0 /\ p.wild = FALSE /\ p.data = q.data
  BY <1>2, <1>4 DEF Shaped
<1>8. 1 .. n \subseteq DOMAIN q.l1
  BY <1>3, <1>5
<1>9. Named(p) \subseteq Named(q) /\ \A i \in Named(p) : p.l1[i] = q.l1[i]
  <2>1. \A i \in DOMAIN l : i \in DOMAIN q.l1 /\ l[i] = q.l1[i]
    BY <1>6, <1>8
  <2> QED BY <1>7, <2>1 DEF Named
<1>10. \A i \in Named(p), j \in 0 .. L2Size - 1 : EntryOff(p, i, j) = EntryOff(q, i, j)
  BY <1>7, <1>9 DEF EntryOff
<1>11. ImageTyped(p)
  <2>1. L1Size(p) <= Len(p.l1)
    <3>1. p.l1 = l /\ Len(l) = n /\ p.ver = q.ver /\ p.size = q.size
      BY <1>6, <1>7
    <3>2. q.ver = 1 => n = q.size \div L2Size
      BY DEF L1Size
    <3>3. L1Size(p) = IF p.ver = 1 THEN p.size \div L2Size ELSE Len(p.l1)
      BY DEF L1Size
    <3> HIDE DEF n
    <3>4. L1Size(p) = n
      BY <3>1, <3>2, <3>3
    <3> QED BY <1>5, <3>1, <3>4
  <2>2. p.l1 \in Seq([off : Nat \cup {NoCluster}, copied : BOOLEAN])
    BY <1>6, <1>7 DEF S
  <2> QED BY <1>3, <1>7, <2>1, <2>2, Zenon DEF ImageTyped, Shaped
<1>12. TablesSound(p)
  <2>1. /\ DOMAIN q.l2 \subseteq Nat \ {0}
        /\ \A k \in DOMAIN q.l1 : q.l1[k].copied => q.l1[k].off # 0
        /\ \A k \in Named(q) : q.l1[k].off \in DOMAIN q.l2
        /\ \A t \in DOMAIN q.l2, j \in 0 .. L2Size - 1 :
             /\ q.l2[t][j].copied => q.l2[t][j].off # 0
             /\ q.l2[t][j].off # 0 => q.l2[t][j].off \in DOMAIN q.data
        /\ \A x, k \in Named(q) : q.l1[x].off = q.l1[k].off => x = k
    BY <1>1, Zenon DEF TablesSound
  <2>2. \A x, k \in Named(q), j, y \in 0 .. L2Size - 1 :
          /\ EntryOff(q, x, j) # 0 /\ EntryOff(q, x, j) = EntryOff(q, k, y) => x = k /\ j = y
          /\ q.l1[x].off # EntryOff(q, k, y)
    BY <1>1, Zenon DEF TablesSound
  <2>3. \A k \in DOMAIN p.l1 : p.l1[k].copied => p.l1[k].off # 0
    BY <1>6, <1>7, <1>8, <2>1
  <2>4. /\ \A k \in Named(p) : p.l1[k].off \in DOMAIN p.l2
        /\ \A x, k \in Named(p) : p.l1[x].off = p.l1[k].off => x = k
    BY <1>7, <1>9, <2>1
  <2>5. \A x, k \in Named(p), j, y \in 0 .. L2Size - 1 :
          /\ EntryOff(p, x, j) # 0 /\ EntryOff(p, x, j) = EntryOff(p, k, y) => x = k /\ j = y
          /\ p.l1[x].off # EntryOff(p, k, y)
    BY <1>9, <1>10, <2>2
  <2>6. /\ DOMAIN p.l2 \subseteq Nat \ {0}
        /\ \A t \in DOMAIN p.l2, j \in 0 .. L2Size - 1 :
             /\ p.l2[t][j].copied => p.l2[t][j].off # 0
             /\ p.l2[t][j].off # 0 => p.l2[t][j].off \in DOMAIN p.data
    BY <1>7, <2>1
  <2> QED BY <2>3, <2>4, <2>5, <2>6, Zenon DEF TablesSound
<1>13. Refs(p) \subseteq Refs(q)
  <2>1. \A k \in Named(p) : p.l1[k].off \in Refs(q)
    BY <1>9 DEF Refs
  <2>2. \A k \in Named(p), y \in 0 .. L2Size - 1 : EntryOff(p, k, y) \in Refs(q)
    BY <1>9, <1>10 DEF Refs
  <2>3. 0 \in Refs(q)
    BY DEF Refs
  <2> QED BY <2>1, <2>2, <2>3 DEF Refs
<1>14. CountsSound(p)
  <2>1. /\ \A s \in DOMAIN q.rft : q.rft[s] # 0 =>
             /\ q.rft[s] \in DOMAIN q.rb
             /\ \A i \in Named(q) : q.l1[i].off # q.rft[s]
             /\ \A z \in DOMAIN q.rft : q.rft[z] = q.rft[s] => z = s
        /\ q.rft # <<>> => \A c \in Referenced(q) :
             HasBlock(q, c) /\ q.rb[q.rft[Slot(c)]][c % RbSize] # 0
    BY <1>1, Zenon DEF CountsSound
  <2>2. Referenced(p) \subseteq Referenced(q)
    <3>1. Blocks(p) = Blocks(q)
      BY <1>7 DEF Blocks
    <3> QED BY <1>13, <3>1, RefsAre
  <2>3. \A c : HasBlock(p, c) <=> HasBlock(q, c)
    BY <1>7 DEF HasBlock
  <2>4. p.rft # <<>> => \A c \in Referenced(p) : HasBlock(p, c) /\ p.rb[p.rft[Slot(c)]][c % RbSize] # 0
    BY <1>7, <2>1, <2>2, <2>3
  <2>5. \A s \in DOMAIN p.rft : p.rft[s] # 0 =>
          /\ p.rft[s] \in DOMAIN p.rb
          /\ \A i \in Named(p) : p.l1[i].off # p.rft[s]
          /\ \A z \in DOMAIN p.rft : p.rft[z] = p.rft[s] => z = s
    BY <1>7, <1>9, <2>1
  <2> QED BY <2>4, <2>5, Zenon DEF CountsSound
<1>15. CacheOk(p) /\ CacheIn(p) /\ p.lru \in Seq(L2Nodes(p))
  <2>1. p.rlru \in Seq(Node) /\ 1 .. Len(p.rlru) = {} /\ p.lru \in Seq(L2Nodes(p))
    BY <1>7
  <2> QED BY <2>1 DEF CacheOk, CacheIn, NodesOk, NodesIn
<1>16. ImgOk(p)
  <2>1. p.free \in Nat /\ p.wild \in BOOLEAN
    <3>1. p.free = 0 /\ p.wild = FALSE
      BY <1>7, Zenon
    <3>2. FALSE \in BOOLEAN /\ 0 \in Nat
      OBVIOUS
    <3> QED BY <3>1, <3>2, Zenon
  <2> QED BY <1>11, <1>12, <1>14, <1>15, <2>1, Zenon DEF ImgOk
<1>17. Kept(q, p)
  <2>1. SUFFICES ASSUME NEW h \in Nat, Tells(p, h) PROVE Tells(q, h) /\ Held(p, h) = Held(q, h)
    BY <1>7 DEF Kept
  <2> DEFINE x == h \div L2Size + 1
  <2>2. x \in Nat /\ x >= 1
    BY Place
  <2>3. x <= Len(p.l1) /\ p.l1[x].off # NoCluster
    BY <2>1 DEF Tells
  <2> HIDE DEF x, n
  <2>4. x \in 1 .. n /\ x <= Len(q.l1)
    <3>1. Len(q.l1) \in Nat
      BY <1>3
    <3> QED BY <1>3, <1>5, <1>6, <1>7, <2>2, <2>3, <3>1
  <2>5. p.l1[x] = q.l1[x]
    BY <1>6, <1>7, <2>4
  <2> QED BY <1>7, <2>3, <2>4, <2>5 DEF Tells, Held, x
<1> QED BY <1>7, <1>16, <1>17 DEF p

\* A qcow disk: the image is usable, and the guest may expect what it tells.
QcowInv ==
  /\ ImgOk(qimg)
  /\ vdisk = [g \in 0 .. qimg.size - 1 |-> vdisk[g]]
  /\ \A g \in 0 .. qimg.size - 1 : Tells(qimg, g) => vdisk[g] = Held(qimg, g)

\* The inductive invariant.
DiskIInv ==
  /\ kind \in {"raw", "rawro", "blk", "qcow"}
  /\ kind \in {"raw", "blk"} => vdisk = hostData
  /\ kind = "rawro" => vdisk = mapped /\ hostData = origin
  /\ kind = "qcow" => QcowInv
  /\ kind # "qcow" => given = 0
  /\ DiskTrue

\* Reading leaves a usable image that refers to the same clusters.
LEMMA SeenKeeps ==
  ASSUME NEW q, NEW p, ImgOk(q), Seen(q, p)
  PROVE  ImgOk(p) /\ Kept(q, p) /\ Referenced(p) = Referenced(q)
<1>1. View(q, p) /\ p.rft = q.rft /\ p.rb = q.rb /\ p.rlru = q.rlru /\ p.free = q.free /\ Shaped(p) /\ p.l1 = q.l1
  BY DEF Seen, View
<1>2. ImageTyped(q) /\ TablesSound(q) /\ CountsSound(q) /\ q.free \in Nat
  BY DEF ImgOk
<1>3. FileOk(q, Refs(q), {}) /\ \A k \in Named(q) : q.l1[k].off \notin Blocks(q)
  BY <1>2, CountsFile, Zenon
<1>4. Blocks(p) = Blocks(q) /\ \A x : (HasBlock(p, x) <=> HasBlock(q, x)) /\ Home(p, x) = Home(q, x)
  BY <1>1 DEF Blocks, HasBlock, Home
<1>5. FileTyped(p)
  <2>1. FileTyped(q)
    BY <1>3 DEF FileOk
  <2>2. /\ p.free \in Nat /\ p.rft \in Seq(Nat) /\ p.rb \in [DOMAIN p.rb -> Block] /\ Blocks(p) \subseteq DOMAIN p.rb
        /\ \A s, z \in DOMAIN p.rft : p.rft[s] # 0 /\ p.rft[s] = p.rft[z] => s = z
    BY <1>1, <1>4, <2>1 DEF FileTyped
  <2> QED BY <1>1, <2>2 DEF FileTyped
<1>6. Named(p) = Named(q) /\ Refs(p) = Refs(q) /\ TablesSound(p) /\ ImageTyped(p)
  BY <1>1, <1>2, <1>5, ViewSame, Zenon
<1>7. CountsSound(p)
  <2>1. FileOk(p, Refs(p), {})
    BY <1>1, <1>3, <1>4, <1>5, <1>6, Zenon DEF FileOk
  <2>2. \A k \in Named(p) : p.l1[k].off \notin Blocks(p)
    BY <1>1, <1>3, <1>4, <1>6
  <2> QED BY <2>1, <2>2, FileCounts
<1>8. ImgOk(p)
  <2>1. CASE p.wild = TRUE
    BY <1>1, <1>2, <1>6, <1>7, <2>1 DEF ImgOk
  <2>2. CASE LruOnly(q, p)
    BY <2>2, LruKeeps
  <2> QED BY <2>1, <2>2 DEF Seen
<1>9. Referenced(p) = Referenced(q)
  BY <1>4, <1>6, RefsAre
<1> QED BY <1>1, <1>8, <1>9, ViewKept

\* The guest may still expect what the image tells.
LEMMA KeptInv ==
  ASSUME QcowInv, NEW q, ImgOk(q), Kept(qimg, q)
  PROVE  /\ vdisk = [g \in 0 .. q.size - 1 |-> vdisk[g]]
         /\ \A g \in 0 .. q.size - 1 : Tells(q, g) => vdisk[g] = Held(q, g)
<1>1. q.size = qimg.size /\ qimg.size \in Nat /\ \A h \in Nat : Tells(q, h) => Tells(qimg, h) /\ Held(q, h) = Held(qimg, h)
  BY DEF Kept, QcowInv, ImgOk, ImageTyped
<1>2. vdisk = [g \in 0 .. q.size - 1 |-> vdisk[g]]
  BY <1>1, Zenon DEF QcowInv
<1>3. ASSUME NEW g \in 0 .. q.size - 1, Tells(q, g) PROVE vdisk[g] = Held(q, g)
  <2>1. g \in Nat /\ g \in 0 .. qimg.size - 1
    BY <1>1
  <2>2. Tells(qimg, g) /\ Held(q, g) = Held(qimg, g)
    BY <1>1, <1>3, <2>1
  <2>3. vdisk[g] = Held(qimg, g)
    BY <2>1, <2>2, Zenon DEF QcowInv
  <2> QED BY <2>2, <2>3
<1> QED BY <1>2, <1>3

\* What a probe finds is what the file holds.
LEMMA DiskStart == ASSUME DiInit PROVE DiskIInv
<1>1. PICK img \in Images :
        /\ qimg = Probe(img)
        /\ hostData \in [Guest -> DiskVals]
        /\ vdisk = IF kind = "qcow" THEN Contents(img) ELSE hostData
  BY Zenon DEF DiInit
<1>2. kind \in {"raw", "rawro", "blk", "qcow"}
  BY DiskAssumption DEF DiInit
<1>3. mapped = hostData /\ origin = hostData /\ last = Idle /\ given = 0
  BY Zenon DEF DiInit
<1>4. FileImage(img)
  BY DiskAssumption, Zenon DEF FileImage
<1>5. ImgOk(qimg) /\ Kept(img, qimg)
  BY <1>1, <1>4, ProbeOk
<1>6. ASSUME kind = "qcow" PROVE QcowInv
  <2>1. vdisk = Contents(img) /\ qimg.size = img.size /\ img.size \in Nat
    BY <1>1, <1>4, <1>5, <1>6 DEF Kept, FileImage, ImageTyped
  <2>2. vdisk = [g \in 0 .. qimg.size - 1 |-> vdisk[g]]
    BY <2>1 DEF Contents
  <2>3. ASSUME NEW g \in 0 .. qimg.size - 1, Tells(qimg, g) PROVE vdisk[g] = Held(qimg, g)
    <3>1. g \in Nat /\ g \in 0 .. img.size - 1
      BY <2>1
    <3>2. Tells(img, g) /\ Held(qimg, g) = Held(img, g)
      BY <1>5, <2>3, <3>1 DEF Kept
    <3> DEFINE i == g \div L2Size + 1
               e == img.l2[img.l1[i].off][g % L2Size]
    <3>3. vdisk[g] = IF i > Len(img.l1) \/ img.l1[i].off = 0 THEN Zero ELSE IF e.off = 0 THEN Zero ELSE img.data[e.off]
      BY <2>1, <3>1 DEF Contents
    <3>4. ~(i > Len(img.l1))
      <4>1. i <= Len(img.l1)
        BY <3>2 DEF Tells
      <4>2. i \in Nat
        BY <3>1, Place
      <4>3. Len(img.l1) \in Nat
        <5>1. img.l1 \in Seq([off : Nat \cup {NoCluster}, copied : BOOLEAN])
          BY <1>4 DEF FileImage, ImageTyped
        <5> DEFINE S == [off : Nat \cup {NoCluster}, copied : BOOLEAN]
        <5> HIDE DEF S
        <5>2. img.l1 \in Seq(S)
          BY <5>1 DEF S
        <5> QED BY <5>2
      <4> HIDE DEF i
      <4> QED BY <4>1, <4>2, <4>3
    <3>5. Held(img, g) = IF img.l1[i].off = 0 \/ e.off = 0 THEN Zero ELSE img.data[e.off]
      BY DEF Held
    <3> HIDE DEF i, e
    <3> QED BY <3>2, <3>3, <3>4, <3>5
  <2> QED BY <1>5, <2>2, <2>3 DEF QcowInv
<1>7. DiskTrue
  BY <1>3 DEF DiskTrue, ReadsTrue, AllocUnused, Idle
<1> QED BY <1>1, <1>2, <1>3, <1>6, <1>7 DEF DiskIInv

\* The values a qcow read answers with.
LEMMA ReadsWanted ==
  ASSUME QcowInv, NEW g \in Nat, NEW n \in Nat \ {0}, NEW s, ReadOk(qimg, g, n, n, s), s.st = "ok",
         Stale \notin {s.vals[k] : k \in DOMAIN s.vals}
  PROVE  s.vals = [k \in 1 .. n |-> IF g + k - 1 \in 0 .. qimg.size - 1 THEN vdisk[g + k - 1] ELSE Zero]
<1>1. s.on = TRUE
  <2>1. s.on \in BOOLEAN /\ (~s.on => s.vals = [j \in 1 .. n |-> Stale])
    BY DEF ReadOk
  <2>2. ASSUME s.vals = [j \in 1 .. n |-> Stale] PROVE FALSE
    <3>1. 1 \in 1 .. n
      OBVIOUS
    <3>2. DOMAIN s.vals = 1 .. n /\ s.vals[1] = Stale
      BY <2>2, <3>1
    <3> QED BY <3>1, <3>2
  <2> QED BY <2>1, <2>2
<1>2. s.vals = HeldFrom(qimg, g, n) /\ \A j \in 1 .. n : Tells(qimg, g + j - 1) /\ g + j - 1 < qimg.size
  BY <1>1 DEF ReadOk
<1>3. qimg.size \in Nat
  BY DEF QcowInv, ImgOk, ImageTyped
<1>4. \A k \in 1 .. n : g + k - 1 \in 0 .. qimg.size - 1 /\ Held(qimg, g + k - 1) = vdisk[g + k - 1]
  <2>1. SUFFICES ASSUME NEW k \in 1 .. n
                 PROVE  g + k - 1 \in 0 .. qimg.size - 1 /\ Held(qimg, g + k - 1) = vdisk[g + k - 1]
    OBVIOUS
  <2>2. g + k - 1 \in 0 .. qimg.size - 1
    BY <1>2, <1>3
  <2>3. Tells(qimg, g + k - 1)
    BY <1>2
  <2> QED BY <2>2, <2>3, Zenon DEF QcowInv
<1>5. HeldFrom(qimg, g, n) = [k \in 1 .. n |-> Held(qimg, g + k - 1)]
  BY DEF HeldFrom
<1> QED BY <1>2, <1>4, <1>5

\* A read request (disk_image__read).
LEMMA ReadKeeps ==
  ASSUME DiskIInv, NEW g \in DiClusters, NEW n \in 1 .. 2, NEW f, Read(g, n, f)
  PROVE  DiskIInv'
<1> DEFINE exp == [k \in 1 .. n |-> IF g + k - 1 \in DiClusters THEN vdisk[g + k - 1] ELSE Zero]
           raw == [k \in 1 .. n |-> ReadRaw(g + k - 1)]
           r == QcowRead(qimg, g, n, f)
           ok == IF kind = "qcow" THEN r.st = "ok" ELSE kind = "rawro" \/ f # "data"
<1>1. /\ ~qimg.wild /\ (g + n - 1 \in DiClusters \/ kind = "qcow")
      /\ qimg' = (IF kind = "qcow" THEN r.q ELSE qimg)
      /\ last' = [op |-> "read", ans |-> Answer(ok), want |-> exp,
                  vals |-> IF kind = "qcow" THEN r.vals ELSE raw, failed |-> f # "none"]
      /\ UNCHANGED <<kind, qro, hostData, mapped, vdisk, given, dwrites, origin>>
  BY Zenon DEF Read
<1> HIDE DEF r, exp, raw, ok
<1>2. /\ last'.ans = Answer(ok) /\ last'.want = exp /\ last'.vals = (IF kind = "qcow" THEN r.vals ELSE raw)
  BY <1>1
<1>3. UNCHANGED <<kind, hostData, mapped, vdisk, given, origin>>
  BY <1>1
<1>4. kind \in {"raw", "rawro", "blk", "qcow"} /\ (kind # "qcow" => given = 0) /\ DiskTrue
  BY DEF DiskIInv
<1>5. CASE kind # "qcow"
  <2>1. qimg' = qimg
    BY <1>1, <1>5
  <2>2. vdisk = (IF kind = "rawro" THEN mapped ELSE hostData)
    BY <1>4, <1>5 DEF DiskIInv
  <2>3. raw = exp
    <3>1. g \in Nat /\ n \in {1, 2} /\ DiClusters = Guest
      BY <1>5, DiskAssumption DEF DiClusters
    <3>2. \A k \in 1 .. n : g + k - 1 \in DiClusters
      BY <1>1, <1>5, <3>1
    <3>3. \A k \in 1 .. n : ReadRaw(g + k - 1) = vdisk[g + k - 1]
      BY <2>2 DEF ReadRaw
    <3> HIDE DEF DiClusters
    <3> QED BY <3>2, <3>3 DEF raw, exp
  <2>4. last'.vals = last'.want
    BY <1>2, <1>5, <2>3
  <2>5. DiskTrue'
    BY <1>3, <1>4, <1>5, <2>4 DEF DiskTrue, ReadsTrue, AllocUnused
  <2> QED BY <1>3, <1>5, <2>5 DEF DiskIInv
<1>6. CASE kind = "qcow"
  <2>1. QcowInv /\ ImgOk(qimg) /\ qimg.lru \in Seq(L2Nodes(qimg)) /\ ImageTyped(qimg) /\ TablesSound(qimg)
    BY <1>1, <1>6 DEF DiskIInv, QcowInv, ImgOk
  <2>2. DiClusters = 0 .. qimg.size - 1 /\ g \in Nat /\ n \in Nat \ {0}
    <3>1. DiClusters = 0 .. qimg.size - 1 /\ qimg.size \in Nat
      BY <1>6, <2>1 DEF DiClusters, ImageTyped
    <3> QED BY <3>1
  <2>3. ReadOk(qimg, g, n, n, r)
    BY <2>1, <2>2, QcowReads DEF r
  <2>4. qimg' = r.q /\ Seen(qimg, r.q)
    BY <1>1, <1>6, <2>3 DEF ReadOk
  <2>5. ImgOk(qimg') /\ Kept(qimg, qimg') /\ Referenced(qimg') = Referenced(qimg)
    BY <2>1, <2>4, SeenKeeps
  <2>6. QcowInv'
    <3>1. /\ vdisk = [h \in 0 .. qimg'.size - 1 |-> vdisk[h]]
          /\ \A h \in 0 .. qimg'.size - 1 : Tells(qimg', h) => vdisk[h] = Held(qimg', h)
      BY <2>1, <2>5, KeptInv
    <3> QED BY <1>3, <2>5, <3>1, Zenon DEF QcowInv
  <2>7. ReadsTrue'
    <3>1. SUFFICES ASSUME last'.ans = "ok", Stale \notin {last'.vals[k] : k \in DOMAIN last'.vals}
                   PROVE  last'.vals = last'.want
      BY DEF ReadsTrue
    <3>2. last'.vals = r.vals /\ last'.want = exp /\ ok
      BY <1>2, <1>6, <3>1 DEF Answer
    <3>3. r.st = "ok"
      BY <1>6, <3>2 DEF ok
    <3>4. r.vals = [k \in 1 .. n |-> IF g + k - 1 \in 0 .. qimg.size - 1 THEN vdisk[g + k - 1] ELSE Zero]
      <4>1. Stale \notin {r.vals[k] : k \in DOMAIN r.vals}
        BY <3>1, <3>2
      <4> HIDE DEF QcowInv
      <4> QED BY <2>1, <2>2, <2>3, <3>3, <4>1, ReadsWanted
    <3>5. exp = [k \in 1 .. n |-> IF g + k - 1 \in 0 .. qimg.size - 1 THEN vdisk[g + k - 1] ELSE Zero]
      BY <2>2, Zenon DEF exp
    <3> QED BY <3>2, <3>4, <3>5
  <2>8. AllocUnused'
    BY <1>3, <1>4, <2>5 DEF DiskTrue, AllocUnused
  <2> QED BY <1>3, <1>6, <2>6, <2>7, <2>8 DEF DiskIInv, DiskTrue
<1> QED BY <1>5, <1>6

\* A write request (disk_image__write).
LEMMA WriteKeeps ==
  ASSUME DiskIInv, NEW g \in DiClusters, NEW v, NEW f, NEW wf \in BOOLEAN, Write(g, v, f, wf)
  PROVE  DiskIInv'
<1> DEFINE r == QcowWrite(qimg, g, v, f, wf)
           ok == ~HasWrite \/ IF kind = "qcow" THEN r.ok ELSE kind = "rawro" \/ ~wf
<1>1. /\ ~qimg.wild
      /\ qimg' = (IF kind = "qcow" /\ HasWrite THEN r.q ELSE qimg)
      /\ given' = (IF kind = "qcow" /\ HasWrite THEN r.got ELSE 0)
      /\ hostData' = (IF WritesFile /\ ok THEN [hostData EXCEPT ![g] = v] ELSE hostData)
      /\ mapped' = (IF kind = "rawro" THEN [mapped EXCEPT ![g] = v] ELSE mapped)
      /\ vdisk' = (IF HasWrite /\ ok THEN [vdisk EXCEPT ![g] = v] ELSE vdisk)
      /\ last' = [Idle EXCEPT !.op = "write", !.ans = Answer(ok), !.failed = wf \/ f # "none"]
      /\ UNCHANGED <<kind, qro, origin>>
  BY Zenon DEF Write
<1> HIDE DEF r
<1>2. last'.op = "write"
  BY <1>1 DEF Idle
<1>3. ReadsTrue'
  BY <1>2 DEF ReadsTrue
<1>4. kind \in {"raw", "rawro", "blk", "qcow"} /\ kind' = kind /\ origin' = origin /\ qro' = qro
  BY <1>1 DEF DiskIInv
<1>5. CASE kind # "qcow"
  <2>1. HasWrite /\ given' = 0 /\ qimg' = qimg
    BY <1>1, <1>5 DEF HasWrite
  <2>2. CASE kind = "rawro"
    <3>1. ok /\ ~WritesFile
      BY <2>2 DEF WritesFile
    <3> HIDE DEF ok
    <3>2. hostData' = hostData /\ mapped' = [mapped EXCEPT ![g] = v] /\ vdisk' = [vdisk EXCEPT ![g] = v]
      BY <1>1, <2>1, <2>2, <3>1
    <3>3. vdisk = mapped /\ hostData = origin
      BY <2>2 DEF DiskIInv
    <3> QED BY <1>3, <1>4, <2>1, <2>2, <3>2, <3>3 DEF DiskIInv, DiskTrue, AllocUnused
  <2>3. CASE kind \in {"raw", "blk"}
    <3>1. vdisk = hostData /\ WritesFile
      BY <2>3 DEF DiskIInv, WritesFile
    <3> HIDE DEF ok
    <3>2. vdisk' = hostData'
      BY <1>1, <2>1, <3>1
    <3> QED BY <1>3, <1>4, <2>1, <2>3, <3>2 DEF DiskIInv, DiskTrue, AllocUnused
  <2> QED BY <1>4, <1>5, <2>2, <2>3
<1>6. CASE kind = "qcow" /\ ~HasWrite
  <2>1. qimg' = qimg /\ given' = 0 /\ vdisk' = vdisk
    BY <1>1, <1>6
  <2>2. QcowInv'
    <3>1. QcowInv
      BY <1>6 DEF DiskIInv
    <3> QED BY <2>1, <3>1 DEF QcowInv
  <2> QED BY <1>3, <1>4, <1>6, <2>1, <2>2 DEF DiskIInv, DiskTrue, AllocUnused
<1>7. CASE kind = "qcow" /\ HasWrite
  <2>1. QcowInv /\ ImgOk(qimg) /\ qimg.size \in Nat
    BY <1>7 DEF DiskIInv, QcowInv, ImgOk, ImageTyped
  <2>2. g \in Nat /\ g \in 0 .. qimg.size - 1
    <3>1. DiClusters = 0 .. qimg.size - 1
      BY <1>7 DEF DiClusters
    <3> QED BY <2>1, <3>1
  <2>3. WriteDone(qimg, g, v, r)
    BY <1>1, <2>1, <2>2, QcowWrites DEF r
  <2>4. qimg' = r.q /\ given' = r.got /\ (ok <=> r.ok)
    BY <1>1, <1>7
  <2> HIDE DEF ok
  <2>5. r.ok \in BOOLEAN /\ vdisk' = IF r.ok THEN [vdisk EXCEPT ![g] = v] ELSE vdisk
    <3>1. r.ok \in BOOLEAN
      BY <2>3 DEF WriteDone
    <3> QED BY <1>1, <1>7, <2>4, <3>1
  <2>6. /\ ImgOk(qimg') /\ qimg'.size = qimg.size /\ (given' # 0 => given' \notin Referenced(qimg'))
        /\ \A h \in Nat : Tells(qimg', h) => Tells(qimg, h) /\ Held(qimg', h) = IF r.ok /\ h = g THEN v ELSE Held(qimg, h)
    BY <2>3, <2>4 DEF WriteDone
  <2>7. vdisk = [h \in 0 .. qimg.size - 1 |-> vdisk[h]] /\ \A h \in 0 .. qimg.size - 1 : Tells(qimg, h) => vdisk[h] = Held(qimg, h)
    BY <2>1 DEF QcowInv
  <2>8. vdisk' = [h \in 0 .. qimg.size - 1 |-> vdisk'[h]] /\ \A h \in 0 .. qimg.size - 1 : vdisk'[h] = IF r.ok /\ h = g THEN v ELSE vdisk[h]
    BY <2>2, <2>5, <2>7
  <2>9. ASSUME NEW h \in 0 .. qimg.size - 1, Tells(qimg', h) PROVE vdisk'[h] = Held(qimg', h)
    <3>1. h \in Nat
      BY <2>1
    <3>2. Tells(qimg, h) /\ Held(qimg', h) = IF r.ok /\ h = g THEN v ELSE Held(qimg, h)
      BY <2>6, <2>9, <3>1
    <3>3. vdisk[h] = Held(qimg, h)
      BY <2>7, <3>2
    <3> QED BY <2>8, <3>2, <3>3
  <2>10. QcowInv'
    <3>1. vdisk' = [h \in 0 .. qimg'.size - 1 |-> vdisk'[h]] /\ \A h \in 0 .. qimg'.size - 1 : Tells(qimg', h) => vdisk'[h] = Held(qimg', h)
      BY <2>6, <2>8, <2>9
    <3> QED BY <2>6, <3>1, Zenon DEF QcowInv
  <2> QED BY <1>3, <1>4, <1>7, <2>6, <2>10 DEF DiskIInv, DiskTrue, AllocUnused
<1> QED BY <1>5, <1>6, <1>7

\* A flush request (disk_image__flush).
LEMMA FlushStep ==
  ASSUME DiskIInv, NEW wf \in BOOLEAN, Flush(wf)
  PROVE  DiskIInv'
<1>1. /\ ~qimg.wild /\ qimg' = (IF kind = "qcow" /\ ~qro THEN QcowFlush(qimg, wf) ELSE qimg)
      /\ last' = [Idle EXCEPT !.op = "flush", !.ans = IF wf THEN "ioerr" ELSE "ok", !.failed = wf]
      /\ UNCHANGED <<kind, qro, hostData, mapped, vdisk, given, dwrites, origin>>
  BY DEF Flush
<1>2. UNCHANGED <<kind, hostData, mapped, vdisk, given, origin>>
  BY <1>1
<1>3. ReadsTrue'
  <2>1. last'.op = "flush"
    BY <1>1 DEF Idle
  <2> QED BY <2>1 DEF ReadsTrue
<1>4. CASE kind = "qcow" /\ ~qro
  <2>1. QcowInv /\ ImgOk(qimg)
    BY <1>4 DEF DiskIInv, QcowInv
  <2>2. ImgOk(qimg') /\ Kept(qimg, qimg') /\ Referenced(qimg') = Referenced(qimg)
    BY <1>1, <1>4, <2>1, QcowFlushes
  <2>3. QcowInv'
    <3>1. /\ vdisk = [h \in 0 .. qimg'.size - 1 |-> vdisk[h]]
          /\ \A h \in 0 .. qimg'.size - 1 : Tells(qimg', h) => vdisk[h] = Held(qimg', h)
      BY <2>1, <2>2, KeptInv
    <3> QED BY <1>2, <2>2, <3>1, Zenon DEF QcowInv
  <2>4. AllocUnused'
    BY <1>2, <2>2 DEF DiskIInv, DiskTrue, AllocUnused
  <2> QED BY <1>2, <1>3, <1>4, <2>3, <2>4 DEF DiskIInv, DiskTrue
<1>5. CASE ~(kind = "qcow" /\ ~qro)
  <2>1. qimg' = qimg
    BY <1>1, <1>5
  <2>2. QcowInv => QcowInv'
    BY <1>2, <2>1 DEF QcowInv
  <2>3. AllocUnused'
    BY <1>2, <2>1 DEF DiskIInv, DiskTrue, AllocUnused
  <2> QED BY <1>2, <1>3, <2>2, <2>3 DEF DiskIInv, DiskTrue
<1> QED BY <1>4, <1>5

\* A request for the serial number.
LEMMA SerialStep ==
  ASSUME DiskIInv, NEW fits \in BOOLEAN, GetSerial(fits)
  PROVE  DiskIInv'
<1>1. /\ last' = [Idle EXCEPT !.op = "id", !.ans = IF fits THEN "ok" ELSE "ioerr"]
      /\ UNCHANGED <<kind, qro, qimg, hostData, mapped, vdisk, given, dwrites, origin>>
  BY DEF GetSerial
<1>2. UNCHANGED <<kind, qimg, hostData, mapped, vdisk, given, origin>>
  BY <1>1
<1>3. ReadsTrue'
  <2>1. last'.op = "id"
    BY <1>1 DEF Idle
  <2> QED BY <2>1 DEF ReadsTrue
<1>4. QcowInv => QcowInv'
  BY <1>2 DEF QcowInv
<1>5. AllocUnused'
  BY <1>2 DEF DiskIInv, DiskTrue, AllocUnused
<1> QED BY <1>2, <1>3, <1>4, <1>5 DEF DiskIInv, DiskTrue

\* The disk is closed and opened again.
LEMMA ReopenStep ==
  ASSUME DiskIInv, Reopen
  PROVE  DiskIInv'
<1>1. /\ qimg' = Probe(qimg) /\ mapped' = hostData /\ vdisk' = (IF kind = "rawro" THEN origin ELSE vdisk)
      /\ last' = Idle /\ given' = 0 /\ kind' = kind /\ hostData' = hostData /\ origin' = origin
  BY DEF Reopen
<1>2. DiskTrue'
  BY <1>1 DEF DiskTrue, ReadsTrue, AllocUnused, Idle
<1>3. ASSUME kind = "qcow" PROVE QcowInv'
  <2>1. QcowInv /\ FileImage(qimg)
    BY <1>3 DEF DiskIInv, QcowInv, ImgOk, FileImage
  <2>2. ImgOk(qimg') /\ Kept(qimg, qimg') /\ vdisk' = vdisk
    BY <1>1, <1>3, <2>1, ProbeOk
  <2>3. /\ vdisk = [h \in 0 .. qimg'.size - 1 |-> vdisk[h]]
        /\ \A h \in 0 .. qimg'.size - 1 : Tells(qimg', h) => vdisk[h] = Held(qimg', h)
    BY <2>1, <2>2, KeptInv
  <2> QED BY <2>2, <2>3, Zenon DEF QcowInv
<1>4. kind \in {"raw", "rawro", "blk", "qcow"} /\ (kind \in {"raw", "blk"} => vdisk = hostData) /\ (kind = "rawro" => hostData = origin)
  BY DEF DiskIInv
<1> QED BY <1>1, <1>2, <1>3, <1>4 DEF DiskIInv

\* Every read of a whole, unfailing request returns what the guest last wrote with success
\* or what the image held, and the allocator of a qcow image (qcow_alloc_clusters) never
\* hands out a cluster in use: for images of every size, L2 tables, refcount blocks and
\* caches of every length.
THEOREM DiskHolds == DiSpec => []DiskTrue
<1>1. DiInit => DiskIInv
  BY DiskStart
<1>2. DiskIInv /\ [DiNext]_diVars => DiskIInv'
  <2>1. SUFFICES ASSUME DiskIInv, [DiNext]_diVars PROVE DiskIInv'
    OBVIOUS
  <2>2. ASSUME NEW g \in DiClusters, NEW n \in 1 .. 2, NEW f \in Fails, Read(g, n, f) PROVE DiskIInv'
    BY <2>1, <2>2, ReadKeeps
  <2>3. ASSUME NEW g \in DiClusters, NEW v \in DiskVals, NEW f \in {"none", "table"}, NEW wf \in BOOLEAN, Write(g, v, f, wf)
        PROVE  DiskIInv'
    BY <2>1, <2>3, WriteKeeps
  <2>4. ASSUME NEW b \in BOOLEAN, Flush(b) PROVE DiskIInv'
    BY <2>1, <2>4, FlushStep
  <2>5. ASSUME NEW b \in BOOLEAN, GetSerial(b) PROVE DiskIInv'
    BY <2>1, <2>5, SerialStep
  <2>6. CASE Reopen
    BY <2>1, <2>6, ReopenStep
  <2>7. CASE UNCHANGED diVars
    <3>1. UNCHANGED <<kind, qimg, hostData, mapped, vdisk, last, given, origin>>
      BY <2>7 DEF diVars
    <3>2. QcowInv => QcowInv'
      BY <3>1 DEF QcowInv
    <3>3. DiskTrue'
      BY <2>1, <3>1 DEF DiskIInv, DiskTrue, ReadsTrue, AllocUnused
    <3> QED BY <2>1, <3>1, <3>2, <3>3 DEF DiskIInv
  <2> QED BY <2>1, <2>2, <2>3, <2>4, <2>5, <2>6, <2>7, Zenon DEF DiNext
<1>3. DiskIInv => DiskTrue
  BY DEF DiskIInv
<1> QED BY <1>1, <1>2, <1>3, PTL DEF DiSpec
=============================================================================
