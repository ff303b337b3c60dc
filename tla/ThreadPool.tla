------------------------------ MODULE ThreadPool ------------------------------
(***************************************************************************)
(* The worker pool of util/threadpool.c.  Virtio devices hand it one job   *)
(* per virtqueue; thread_pool__do_job signals a job, a worker runs its     *)
(* callback, thread_pool__cancel_job withdraws it when the queue is reset. *)
(*                                                                         *)
(* Every access to the job list and to the condition variable happens      *)
(* inside a job_mutex section that never blocks, so each section is one    *)
(* step and job_mutex itself needs no variable.  job->mutex is held across *)
(* several steps and is modelled: the load and the store of a signalcount  *)
(* update are separate steps, because thread_pool__cancel_job reads and    *)
(* writes signalcount without that mutex.                                  *)
(***************************************************************************)
EXTENDS Naturals, Sequences, FiniteSets

CONSTANTS
  Workers,    \* the threads thread_pool__init creates
  Callers,    \* every other thread that signals or cancels jobs
  Jobs,       \* one struct thread_pool__job per virtqueue
  MaxSignal,  \* bound: do_job is not called beyond this signalcount
  NoJob,      \* a NULL job pointer
  NoThread    \* job->mutex is free

ASSUME PoolAssumption ==
  /\ IsFiniteSet(Workers)
  /\ Workers \cap Callers = {}
  /\ NoThread \notin Workers \cup Callers
  /\ NoJob \notin Jobs
  /\ MaxSignal \in Nat \ {0}

VARIABLES
  queue,       \* the job list `head`
  signalcount, \* job->signalcount
  mutex,       \* owner of job->mutex
  waiting,     \* workers blocked in pthread_cond_wait(&job_cond)
  running,     \* the global `running`
  pc,          \* where each thread is
  job,         \* the job a thread is working on
  seen,        \* the signalcount a thread has loaded
  exit,        \* where the main thread is in thread_pool__exit
  signalled,   \* how many workers thread_pool__exit has signalled
  work         \* history: jobs signalled since their callback last started

vars == <<queue, signalcount, mutex, waiting, running, pc, job, seen, exit,
          signalled, work>>

Threads == Workers \cup Callers

WorkerPcs == {"top", "lock", "wait", "check", "run", "dec", "repush", "next",
              "exited"}
CallerPcs == {"idle", "inc", "push", "signal", "cancel"}

InQueue(j) == \E i \in 1 .. Len(queue) : queue[i] = j

\* `if (jobinfo->signalcount++ == 0)`: only the first signal puts the job on
\* the list.
AnySignalPushes(n) == TRUE
FirstSignal(n) == n = 0

\* `if (--job->signalcount > 0)`: the job was signalled while it ran.
NeverSignalledAgain(n) == FALSE
SignalledAgain(n) == n > 1

\* thread_pool__exit signals job_cond once per thread of the pool.
SignalOnce == 1
SignalsToSend == Cardinality(Workers)

\* list_del_init of the node at position i.
Unlink(s, i) == [k \in 1 .. Len(s) - 1 |-> IF k < i THEN s[k] ELSE s[k + 1]]

\* pthread_cond_signal(&job_cond): one waiter, if there is one, is released.
CondSignal ==
  \/ waiting = {} /\ UNCHANGED waiting
  \/ \E w \in waiting : waiting' = waiting \ {w}

Init ==
  /\ queue = <<>>
  /\ signalcount = [j \in Jobs |-> 0]
  /\ mutex = [j \in Jobs |-> NoThread]
  /\ waiting = {}
  /\ running = TRUE
  /\ pc = [t \in Threads |-> IF t \in Workers THEN "top" ELSE "idle"]
  /\ job = [t \in Threads |-> NoJob]
  /\ seen = [t \in Threads |-> 0]
  /\ exit = "no"
  /\ signalled = 0
  /\ work = {}

-----------------------------------------------------------------------------
(* thread_pool__do_job                                                     *)

DoJobLock(t, j) ==
  /\ pc[t] = "idle"
  /\ signalcount[j] < MaxSignal
  /\ mutex[j] = NoThread
  /\ mutex' = [mutex EXCEPT ![j] = t]
  /\ seen' = [seen EXCEPT ![t] = signalcount[j]]
  /\ job' = [job EXCEPT ![t] = j]
  /\ pc' = [pc EXCEPT ![t] = "inc"]
  /\ work' = work \cup {j}
  /\ UNCHANGED <<queue, signalcount, waiting, running, exit, signalled>>

DoJobIncrement(t) ==
  /\ pc[t] = "inc"
  /\ signalcount' = [signalcount EXCEPT ![job[t]] = seen[t] + 1]
  /\ \/ /\ FirstSignal(seen[t])
        /\ pc' = [pc EXCEPT ![t] = "push"]
        /\ UNCHANGED mutex
     \/ /\ ~FirstSignal(seen[t])
        /\ pc' = [pc EXCEPT ![t] = "signal"]
        /\ mutex' = [mutex EXCEPT ![job[t]] = NoThread]
  /\ UNCHANGED <<queue, waiting, running, job, seen, exit, signalled, work>>

DoJobPush(t) ==
  /\ pc[t] = "push"
  /\ queue' = Append(queue, job[t])
  /\ mutex' = [mutex EXCEPT ![job[t]] = NoThread]
  /\ pc' = [pc EXCEPT ![t] = "signal"]
  /\ UNCHANGED <<signalcount, waiting, running, job, seen, exit, signalled, work>>

DoJobSignal(t) ==
  /\ pc[t] = "signal"
  /\ CondSignal
  /\ pc' = [pc EXCEPT ![t] = "idle"]
  /\ job' = [job EXCEPT ![t] = NoJob]
  /\ UNCHANGED <<queue, signalcount, mutex, running, seen, exit, signalled, work>>

-----------------------------------------------------------------------------
(* thread_pool__cancel_job                                                 *)

CancelStart(t, j) ==
  /\ pc[t] = "idle"
  /\ pc' = [pc EXCEPT ![t] = "cancel"]
  /\ job' = [job EXCEPT ![t] = j]
  /\ UNCHANGED <<queue, signalcount, mutex, waiting, running, seen, exit,
                 signalled, work>>

\* The body of the do-while loop when the job is on the list.
CancelQueued(t) ==
  /\ pc[t] = "cancel"
  /\ \E i \in 1 .. Len(queue) :
       /\ queue[i] = job[t]
       /\ queue' = Unlink(queue, i)
  /\ signalcount' = [signalcount EXCEPT ![job[t]] = 0]
  /\ work' = work \ {job[t]}
  /\ pc' = [pc EXCEPT ![t] = "idle"]
  /\ job' = [job EXCEPT ![t] = NoJob]
  /\ UNCHANGED <<mutex, waiting, running, seen, exit, signalled>>

\* The body of the loop when it is not: spin while signalcount > 0.
CancelUnqueued(t) ==
  /\ pc[t] = "cancel"
  /\ ~InQueue(job[t])
  /\ signalcount[job[t]] = 0
  /\ pc' = [pc EXCEPT ![t] = "idle"]
  /\ job' = [job EXCEPT ![t] = NoJob]
  /\ UNCHANGED <<queue, signalcount, mutex, waiting, running, seen, exit,
                 signalled, work>>

-----------------------------------------------------------------------------
(* thread_pool__threadfunc and thread_pool__handle_job                     *)

WorkerTop(w) ==
  /\ pc[w] = "top"
  /\ pc' = [pc EXCEPT ![w] = IF running THEN "lock" ELSE "exited"]
  /\ UNCHANGED <<queue, signalcount, mutex, waiting, running, job, seen, exit,
                 signalled, work>>

\* A worker that takes job_mutex, or takes it back when pthread_cond_wait
\* returns, tries to pop a job and sleeps when there is none.
WorkerTake(w) ==
  /\ pc[w] \in {"lock", "wait"}
  /\ w \notin waiting
  /\ \/ /\ running
        /\ queue # <<>>
        /\ job' = [job EXCEPT ![w] = Head(queue)]
        /\ queue' = Tail(queue)
        /\ pc' = [pc EXCEPT ![w] = "check"]
        /\ UNCHANGED waiting
     \/ /\ running
        /\ queue = <<>>
        /\ waiting' = waiting \cup {w}
        /\ pc' = [pc EXCEPT ![w] = "wait"]
        /\ UNCHANGED <<queue, job>>
     \/ /\ ~running
        /\ pc' = [pc EXCEPT ![w] = "check"]
        /\ UNCHANGED <<queue, job, waiting>>
  /\ UNCHANGED <<signalcount, mutex, running, seen, exit, signalled, work>>

\* POSIX allows pthread_cond_wait to return without a signal.
SpuriousWakeup(w) ==
  /\ w \in waiting
  /\ waiting' = waiting \ {w}
  /\ UNCHANGED <<queue, signalcount, mutex, running, pc, job, seen, exit,
                 signalled, work>>

\* `if (running) thread_pool__handle_job(curjob)`, then back to the loop head.
WorkerCheck(w) ==
  /\ pc[w] = "check"
  /\ \/ /\ running
        /\ pc' = [pc EXCEPT ![w] = IF job[w] = NoJob THEN "top" ELSE "run"]
        /\ work' = work \ {job[w]}
        /\ UNCHANGED job
     \/ /\ ~running
        /\ pc' = [pc EXCEPT ![w] = "top"]
        /\ job' = [job EXCEPT ![w] = NoJob]
        /\ UNCHANGED work
  /\ UNCHANGED <<queue, signalcount, mutex, waiting, running, seen, exit,
                 signalled>>

\* The callback returns and the worker takes job->mutex.
CallbackDone(w) ==
  /\ pc[w] = "run"
  /\ mutex[job[w]] = NoThread
  /\ mutex' = [mutex EXCEPT ![job[w]] = w]
  /\ seen' = [seen EXCEPT ![w] = signalcount[job[w]]]
  /\ pc' = [pc EXCEPT ![w] = "dec"]
  /\ UNCHANGED <<queue, signalcount, waiting, running, job, exit, signalled, work>>

\* `if (--job->signalcount > 0)`
WorkerDecrement(w) ==
  /\ pc[w] = "dec"
  /\ signalcount' = [signalcount EXCEPT ![job[w]] = seen[w] - 1]
  /\ \/ /\ SignalledAgain(seen[w])
        /\ pc' = [pc EXCEPT ![w] = "repush"]
        /\ UNCHANGED mutex
     \/ /\ ~SignalledAgain(seen[w])
        /\ pc' = [pc EXCEPT ![w] = "next"]
        /\ mutex' = [mutex EXCEPT ![job[w]] = NoThread]
  /\ UNCHANGED <<queue, waiting, running, job, seen, exit, signalled, work>>

WorkerRepush(w) ==
  /\ pc[w] = "repush"
  /\ queue' = Append(queue, job[w])
  /\ mutex' = [mutex EXCEPT ![job[w]] = NoThread]
  /\ pc' = [pc EXCEPT ![w] = "next"]
  /\ UNCHANGED <<signalcount, waiting, running, job, seen, exit, signalled, work>>

\* thread_pool__job_pop at the end of the handle_job loop.
WorkerNext(w) ==
  /\ pc[w] = "next"
  /\ \/ /\ queue # <<>>
        /\ job' = [job EXCEPT ![w] = Head(queue)]
        /\ queue' = Tail(queue)
        /\ pc' = [pc EXCEPT ![w] = "run"]
        /\ work' = work \ {Head(queue)}
     \/ /\ queue = <<>>
        /\ job' = [job EXCEPT ![w] = NoJob]
        /\ pc' = [pc EXCEPT ![w] = "top"]
        /\ UNCHANGED <<queue, work>>
  /\ UNCHANGED <<signalcount, mutex, waiting, running, seen, exit, signalled>>

-----------------------------------------------------------------------------
(* thread_pool__exit                                                       *)

ExitStop ==
  /\ exit = "no"
  /\ running' = FALSE
  /\ exit' = "signal"
  /\ UNCHANGED <<queue, signalcount, mutex, waiting, pc, job, seen, signalled, work>>

ExitSignal ==
  /\ exit = "signal"
  /\ \/ /\ signalled < SignalsToSend
        /\ CondSignal
        /\ signalled' = signalled + 1
        /\ UNCHANGED exit
     \/ /\ signalled = SignalsToSend
        /\ exit' = "join"
        /\ UNCHANGED <<waiting, signalled>>
  /\ UNCHANGED <<queue, signalcount, mutex, running, pc, job, seen, work>>

ExitJoin ==
  /\ exit = "join"
  /\ \A w \in Workers : pc[w] = "exited"
  /\ exit' = "done"
  /\ UNCHANGED <<queue, signalcount, mutex, waiting, running, pc, job, seen,
                 signalled, work>>

-----------------------------------------------------------------------------
\* "We assume that nobody is queueing this job - thread_pool__do_job() isn't
\* called - while this function is running": a caller keeps this assumption.
Cancelling(j) == \E t \in Callers : pc[t] = "cancel" /\ job[t] = j
Signalling(j) == \E t \in Callers : pc[t] \in {"inc", "push", "signal"} /\ job[t] = j

CallerStep(t) ==
  \/ \E j \in Jobs : ~Cancelling(j) /\ DoJobLock(t, j)
  \/ DoJobIncrement(t)
  \/ DoJobPush(t)
  \/ DoJobSignal(t)
  \/ \E j \in Jobs : ~Signalling(j) /\ CancelStart(t, j)
  \/ CancelQueued(t)
  \/ CancelUnqueued(t)

WorkerStep(w) ==
  \/ WorkerTop(w)
  \/ WorkerTake(w)
  \/ SpuriousWakeup(w)
  \/ WorkerCheck(w)
  \/ CallbackDone(w)
  \/ WorkerDecrement(w)
  \/ WorkerRepush(w)
  \/ WorkerNext(w)

ExitStep == ExitStop \/ ExitSignal \/ ExitJoin

Next ==
  \/ \E t \in Callers : CallerStep(t)
  \/ \E w \in Workers : WorkerStep(w)
  \/ ExitStep

Spec == Init /\ [][Next]_vars

\* A thread inside a pool function keeps running; job->mutex is granted to a
\* worker that keeps asking for it; nobody is obliged to call do_job, cancel_job
\* or thread_pool__exit, and spurious wakeups need not happen.
Fairness ==
  /\ \A t \in Callers :
       /\ WF_vars(DoJobIncrement(t)) /\ WF_vars(DoJobPush(t)) /\ WF_vars(DoJobSignal(t))
       /\ WF_vars(CancelQueued(t) \/ CancelUnqueued(t))
  /\ \A w \in Workers :
       /\ WF_vars(WorkerTop(w)) /\ WF_vars(WorkerTake(w)) /\ WF_vars(WorkerCheck(w))
       /\ SF_vars(CallbackDone(w))
       /\ WF_vars(WorkerDecrement(w)) /\ WF_vars(WorkerRepush(w)) /\ WF_vars(WorkerNext(w))
  /\ WF_vars(ExitSignal) /\ WF_vars(ExitJoin)

FairSpec == Spec /\ Fairness

-----------------------------------------------------------------------------
(* Properties                                                              *)

TypeOK ==
  /\ queue \in Seq(Jobs)
  /\ signalcount \in [Jobs -> 0 .. MaxSignal]
  /\ mutex \in [Jobs -> Threads \cup {NoThread}]
  /\ waiting \in SUBSET Workers
  /\ running \in BOOLEAN
  /\ pc \in [Threads -> WorkerPcs \cup CallerPcs]
  /\ job \in [Threads -> Jobs \cup {NoJob}]
  /\ seen \in [Threads -> 0 .. MaxSignal]
  /\ exit \in {"no", "signal", "join", "done"}
  /\ signalled \in 0 .. Cardinality(Workers)
  /\ work \in SUBSET Jobs

\* The callback of a job never runs on two workers at once: the devices'
\* virtqueue handlers (virtio_rng_do_io and the like) rely on it, they take
\* no lock of their own.
OneRunner ==
  \A v, w \in Workers :
    pc[v] = "run" /\ pc[w] = "run" /\ job[v] = job[w] => v = w

\* A job is linked into the list at most once; a second list_add_tail of a
\* linked node would corrupt the list.
LinkedOnce ==
  \A i, k \in 1 .. Len(queue) : queue[i] = queue[k] => i = k

\* t is about to run job j, or to put it on the list.
Holds(t, j) ==
  /\ job[t] = j
  /\ pc[t] \in IF t \in Workers THEN {"check", "run", "dec", "repush"} ELSE {"push"}

\* Job j is going to be run again: it is on the list, or on its way there, or
\* its count tells the worker that runs it to push it back.
Coming(j) ==
  \/ InQueue(j)
  \/ \E t \in Callers : job[t] = j /\ pc[t] \in {"inc", "push"}
  \/ \E w \in Workers :
       /\ Holds(w, j)
       /\ pc[w] \in {"check", "repush"} \/ signalcount[j] > 1

\* A signal is never forgotten: a job that was signalled after its callback
\* last started is going to be run again.
WorkNotLost == running => \A j \in work : Coming(j)

\* The guest's kick is served: a signalled job is run (or withdrawn) as long
\* as the pool is up.
WorkServed ==
  \A j \in Jobs : (j \in work /\ running) ~> (j \notin work \/ ~running)

\* thread_pool__cancel_job returns while the pool is up.
CancelEnds ==
  \A t \in Callers :
    (pc[t] = "cancel" /\ running) ~> (pc[t] # "cancel" \/ ~running)

\* thread_pool__exit wakes and joins every worker, once the other threads no
\* longer signal jobs (a worker drains the list before it looks at `running`).
ExitEnds ==
  <>[](\A t \in Callers : pc[t] \in {"idle", "cancel"})
    => (exit = "signal" ~> exit = "done")

\* The two functions of the pool that wait for its workers return.
StopEnds == CancelEnds /\ ExitEnds

\* "Otherwise, wait for the signalcount to drop to 0, indicating that it has
\* finished running" (thread_pool__cancel_job): cancelling always comes to an
\* end, also when the devices are torn down after the pool.
CancelReturns ==
  \A t \in Callers : pc[t] = "cancel" ~> pc[t] # "cancel"

-----------------------------------------------------------------------------
(* The inductive invariant behind OneRunner, LinkedOnce and WorkNotLost    *)

\* A worker runs worker code, the others caller code, on a job where they
\* dereference one; a worker that looks for a job has none.
Placed ==
  /\ \A w \in Workers : pc[w] \in WorkerPcs
  /\ \A t \in Callers : pc[t] \in CallerPcs
  /\ \A w \in Workers : pc[w] \in {"top", "lock", "wait", "exited"} => job[w] = NoJob
  /\ \A t \in Threads :
       pc[t] \in {"inc", "push", "signal", "cancel", "run", "dec", "repush"}
         => job[t] \in Jobs

\* job->mutex is held around every update of signalcount but the one of
\* thread_pool__cancel_job, and the loaded value is never stale when stored.
Locked ==
  \A t \in Threads :
    /\ pc[t] \in {"inc", "push", "dec", "repush"} => mutex[job[t]] = t
    /\ pc[t] \in {"inc", "dec"} => seen[t] = signalcount[job[t]]
    /\ pc[t] = "inc" => seen[t] < MaxSignal

\* The caller's side of the contract of thread_pool__cancel_job.
CancelAlone ==
  \A t, u \in Callers :
    pc[t] = "cancel" /\ pc[u] \in {"inc", "push", "signal"} => job[t] # job[u]

\* A job is in one place: on the list, or held by one thread; its count is
\* then positive, and a job with a count of zero is nowhere.
OneOwner ==
  \A j \in Jobs :
    /\ \A t, u \in Threads : Holds(t, j) /\ Holds(u, j) => t = u
    /\ \A t \in Threads : Holds(t, j) => ~InQueue(j)
    /\ \A t \in Threads : Holds(t, j) => signalcount[j] > 0
    /\ InQueue(j) => signalcount[j] > 0

\* Conversely a positive count means that the job is somewhere; a worker that
\* sees the pool stop drops the job it popped, so only while the pool is up.
Backed ==
  running =>
    \A j \in Jobs :
      signalcount[j] > 0 => InQueue(j) \/ \E t \in Threads : Holds(t, j)

PoolInv ==
  /\ TypeOK
  /\ Placed
  /\ Locked
  /\ CancelAlone
  /\ LinkedOnce
  /\ OneOwner
  /\ Backed
  /\ WorkNotLost
===============================================================================
