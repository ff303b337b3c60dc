--------------------------------- MODULE Console ---------------------------------
(***************************************************************************)
(* Terminal input through virtio-console: the terminal's poll thread, the  *)
(* receive queue's pool job, the vCPU that notifies and takes the queue    *)
(* down, and the one mutex between them.  A step is what a thread does     *)
(* while it holds the mutex, or the wait for it.                           *)
(***************************************************************************)
EXTENDS Naturals

CONSTANTS
  MaxTyped,   \* bound: characters typed
  MaxBuffers  \* bound: receive buffers on offer

VARIABLES
  typed,      \* characters the terminal can read
  given,      \* receive buffers on offer
  got,        \* buffers returned to the guest
  vqReady,    \* vq_ready
  ringUp,     \* the receive queue has a ring
  owner,      \* who holds the mutex: "none", "term", "job", "vcpu"
  signals,    \* signals of the job
  job,        \* the job: "idle", "lock", "run"
  tpc,        \* the poll thread: "poll", "lock"
  vpc,        \* the vCPU: "guest", "exit_lock", "cancel"
  lateUse     \* history: the job has used the ring after exit_vq

coVars == <<typed, given, got, vqReady, ringUp, owner, signals, job, tpc, vpc, lateUse>>

CoInit ==
  /\ typed = 0 /\ given = 0 /\ got = 0
  /\ vqReady = FALSE /\ ringUp = FALSE
  /\ owner = "none" /\ signals = 0 /\ job = "idle"
  /\ tpc = "poll" /\ vpc = "guest" /\ lateUse = FALSE

Type ==
  /\ typed < MaxTyped /\ typed' = typed + 1
  /\ UNCHANGED <<given, got, vqReady, ringUp, owner, signals, job, tpc, vpc, lateUse>>

\* term_poll_thread_loop: poll returns as long as there is input, and
\* kvm_arch_read_term calls virtio_console__inject_interrupt.
TermPoll ==
  /\ tpc = "poll" /\ typed > 0 /\ tpc' = "lock"
  /\ UNCHANGED <<typed, given, got, vqReady, ringUp, owner, signals, job, vpc, lateUse>>

InjectAlways == TRUE
InjectWhenReady == vqReady

\* Signals are counted up to what can be told apart: the job runs once more.
TermInject ==
  /\ tpc = "lock" /\ owner = "none"
  /\ signals' = IF InjectWhenReady THEN 1 ELSE signals
  /\ tpc' = "poll"
  /\ UNCHANGED <<typed, given, got, vqReady, ringUp, owner, job, vpc, lateUse>>

\* The guest offers a buffer and notifies: notify_vq.
GiveBuffer ==
  /\ vpc = "guest" /\ ringUp /\ given < MaxBuffers
  /\ given' = given + 1 /\ signals' = 1
  /\ UNCHANGED <<typed, got, vqReady, ringUp, owner, job, tpc, vpc, lateUse>>

JobStart ==
  /\ job = "idle" /\ signals > 0
  /\ signals' = 0 /\ job' = "lock"
  /\ UNCHANGED <<typed, given, got, vqReady, ringUp, owner, tpc, vpc, lateUse>>

JobLock ==
  /\ job = "lock" /\ owner = "none"
  /\ owner' = "job" /\ job' = "run"
  /\ UNCHANGED <<typed, given, got, vqReady, ringUp, signals, tpc, vpc, lateUse>>

\* virtio_console__inject_interrupt_callback: one character and one buffer; a
\* character that term_monitor_check takes returns the buffer empty.
JobRun ==
  /\ job = "run"
  /\ IF typed > 0 /\ given > 0
     THEN /\ typed' = typed - 1 /\ given' = given - 1 /\ got' = 1
          /\ lateUse' = (lateUse \/ ~ringUp)
     ELSE UNCHANGED <<typed, given, got, lateUse>>
  /\ owner' = "none" /\ job' = "idle"
  /\ UNCHANGED <<vqReady, ringUp, signals, tpc, vpc>>

\* The guest takes the buffer that came back.
TakeBuffer ==
  /\ got > 0 /\ got' = 0
  /\ UNCHANGED <<typed, given, vqReady, ringUp, owner, signals, job, tpc, vpc, lateUse>>

\* init_vq: "Tell the waiting poll thread that we're ready to go".
ConsoleInitVq ==
  /\ vpc = "guest" /\ ~ringUp /\ owner = "none"
  /\ ringUp' = TRUE /\ vqReady' = TRUE
  /\ UNCHANGED <<typed, given, got, owner, signals, job, tpc, vpc, lateUse>>

\* exit_vq: vq_ready is cleared under the mutex, which is released before the job
\* is waited for.
ExitKeepsMutex == "vcpu"
ExitReleases == "none"

ConsoleExitStart ==
  /\ vpc = "guest" /\ ringUp /\ vpc' = "exit_lock"
  /\ UNCHANGED <<typed, given, got, vqReady, ringUp, owner, signals, job, tpc, lateUse>>

ConsoleExitReady ==
  /\ vpc = "exit_lock" /\ owner = "none"
  /\ vqReady' = FALSE
  /\ owner' = ExitReleases
  /\ vpc' = "cancel"
  /\ UNCHANGED <<typed, given, got, ringUp, signals, job, tpc, lateUse>>

\* thread_pool__cancel_job: the job is neither queued nor running; then
\* virtio_exit_vq clears the queue.
ConsoleCancel ==
  /\ vpc = "cancel" /\ job = "idle"
  /\ signals' = 0 /\ ringUp' = FALSE /\ given' = 0 /\ got' = 0
  /\ owner' = IF owner = "vcpu" THEN "none" ELSE owner
  /\ vpc' = "guest"
  /\ UNCHANGED <<typed, vqReady, job, tpc, lateUse>>

CoNext ==
  \/ Type \/ TermPoll \/ TermInject \/ GiveBuffer \/ JobStart \/ JobLock \/ JobRun
  \/ TakeBuffer \/ ConsoleInitVq \/ ConsoleExitStart \/ ConsoleExitReady \/ ConsoleCancel
-----------------------------------------------------------------------------
(* Properties                                                              *)

\* After exit_vq the receive job is neither queued nor running and does not touch
\* the ring: the poll thread cannot have signalled it between the clearing of
\* vq_ready and the cancellation, although the mutex is free then.
ReceiveStopped == ~lateUse /\ (~ringUp => signals = 0 /\ job = "idle")

\* Input reaches a guest that has a buffer on offer, and taking the queue down does
\* not wait for ever on a job that wants the mutex.
InputReaches ==
  /\ (typed > 0 /\ given > 0) ~> (got > 0 \/ ~ringUp)
  /\ vpc = "cancel" ~> vpc = "guest"
=================================================================================
