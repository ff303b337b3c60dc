----------------------------- MODULE VcpuControl -----------------------------
(***************************************************************************)
(* The life of the vCPU threads: started by vm_run, run by kvm_cpu__start, *)
(* paused and resumed by the IPC thread (kvm_pause, kvm_continue), stopped *)
(* by SIGKVMEXIT and torn down by kvm_cpu__exit on the main thread.        *)
(*                                                                         *)
(* Signals are delivered asynchronously, at any point of the vCPU thread;  *)
(* one that finds the thread inside KVM_RUN makes the ioctl return with    *)
(* KVM_EXIT_INTR.  The SIGKVMPAUSE handler blocks (hpc), and SIGKVMEXIT    *)
(* may interrupt it.  Once `fault` is set the process is gone.             *)
(***************************************************************************)
EXTENDS Naturals, FiniteSets

CONSTANTS
  N,            \* kvm->nrcpus
  Commands,     \* the IPC commands in use
  GuestExits,   \* the kinds of exit the guest causes
  MaxRequests   \* bound: IPC commands and console exits served

ASSUME VcpuAssumption ==
  /\ N \in Nat \ {0}
  /\ MaxRequests \in Nat
  /\ Commands \subseteq {"pause", "resume", "stop", "nmi", "dump", "nmi+dump"}
  /\ GuestExits \subseteq {"emulate", "reset", "panic", "shutdown", "system"}

Vcpus == 0 .. N - 1

VARIABLES
  running,   \* cpu->is_running
  paused,    \* cpu->paused
  vpc,       \* where the vCPU thread is
  hpc,       \* where it is in the SIGKVMPAUSE handler
  reason,    \* kvm_run->exit_reason
  handled,   \* history: this exit has been emulated already
  exitsig, pausesig, usr1,   \* vCPUs with SIGKVMEXIT, SIGKVMPAUSE, SIGUSR1 pending
  nmi,       \* cpu->needs_nmi
  handlers,  \* kvm_cpu__start has installed the signal handlers
  lock,      \* owner of pause_lock
  event,     \* the pause_event eventfd counter
  counted,   \* paused_vcpus of kvm_pause
  ipc, k,    \* the IPC thread: where it is, and its loop counter
  isPaused,  \* is_paused of handle_pause
  stopped,   \* history: the pause in force went through all vCPUs
  printed,   \* printout_done
  main, m,   \* the main thread: where it is, and its loop counter
  gone,      \* vCPUs whose struct kvm_cpu was deleted
  null0,     \* kvm->cpus[0] = NULL
  freed,     \* kvm->cpus was freed (and kvm->nrcpus cleared)
  requests,  \* requests served so far
  fault      \* how the process died, if it did

cpuVars == <<running, paused, vpc, hpc, reason, handled>>
sigVars == <<exitsig, pausesig, usr1, nmi, handlers>>
pauseVars == <<lock, event, counted>>
ipcVars == <<ipc, k, isPaused, stopped, printed>>
mainVars == <<main, m, gone, null0, freed>>
vars == <<cpuVars, sigVars, pauseVars, ipcVars, mainVars, requests, fault>>

Reasons == {"none", "emulate", "reset", "panic", "intr", "shutdown", "system"}

Init ==
  /\ running = [i \in Vcpus |-> TRUE]
  /\ paused = [i \in Vcpus |-> FALSE]
  /\ vpc = [i \in Vcpus |-> "unborn"]
  /\ hpc = [i \in Vcpus |-> "none"]
  /\ reason = [i \in Vcpus |-> "none"]
  /\ handled = [i \in Vcpus |-> FALSE]
  /\ exitsig = {} /\ pausesig = {} /\ usr1 = {}
  /\ nmi = [i \in Vcpus |-> FALSE]
  /\ handlers = FALSE
  /\ lock = "free"
  /\ event = 0 /\ counted = 0
  /\ ipc = "idle" /\ k = 0
  /\ isPaused = FALSE /\ stopped = FALSE
  /\ printed = FALSE
  /\ main = "create" /\ m = 0
  /\ gone = {} /\ null0 = FALSE /\ freed = FALSE
  /\ requests = 0
  /\ fault = "none"

Alive(i) == vpc[i] \notin {"unborn", "dead"}

\* Another thread follows kvm->cpus[i]: NULL, or a struct that was deleted.
Stale(i) == freed \/ i \in gone \/ (i = 0 /\ null0)

\* kvm_vm_exit, called by any thread.
KvmVmExit ==
  \/ /\ freed \/ (0 \in gone /\ ~null0)
     /\ fault' = "stale"
     /\ UNCHANGED exitsig
  \/ /\ ~freed
     /\ null0 \/ (0 \notin gone /\ vpc[0] = "unborn")
     /\ UNCHANGED <<exitsig, fault>>
  \/ /\ ~Stale(0)
     /\ vpc[0] # "unborn"
     /\ exitsig' = exitsig \cup {0}
     /\ UNCHANGED fault

\* mutex_lock(&pause_lock) can return.  The mutant does not wait.
NoLocking == TRUE
PauseLockFree == lock = "free"

\* A step of a living process; a request is one of the bounded inputs.
Up == fault = "none" /\ UNCHANGED requests
Request == fault = "none" /\ requests < MaxRequests /\ requests' = requests + 1

\* A thread's own code runs only while no pause handler sits on top of it.
OwnCode(i) == Up /\ hpc[i] = "none"

-----------------------------------------------------------------------------
(* The vCPU thread: kvm_cpu_thread, kvm_cpu__start, kvm_cpu__run           *)

VStart(i) ==
  /\ OwnCode(i)
  /\ vpc[i] = "start"
  /\ handlers' = TRUE
  /\ vpc' = [vpc EXCEPT ![i] = "loop"]
  /\ UNCHANGED <<running, paused, hpc, reason, handled, exitsig, pausesig, usr1, nmi,
                 pauseVars, ipcVars, mainVars, fault>>

\* kvm_cpu__arch_nmi, then needs_nmi = 0.  The mutant keeps the flag.
KeepNmi(i) == nmi
TakeNmi(i) == [nmi EXCEPT ![i] = FALSE]

\* `while (cpu->is_running)` and the pending NMI.
VLoop(i) ==
  /\ OwnCode(i)
  /\ vpc[i] = "loop"
  /\ \/ /\ running[i]
        /\ nmi' = TakeNmi(i)
        /\ vpc' = [vpc EXCEPT ![i] = "run"]
     \/ /\ ~running[i]
        /\ vpc' = [vpc EXCEPT ![i] = "dead"]
        /\ UNCHANGED nmi
  /\ UNCHANGED <<running, paused, hpc, reason, handled, exitsig, pausesig, usr1,
                 handlers, pauseVars, ipcVars, mainVars, fault>>

\* `if (!vcpu->is_running) return;`  The mutant also returns for a signal.
RunUnlessSignalled(i) == running[i] /\ i \notin pausesig
RunsGuest(i) == running[i]

\* kvm_cpu__run looks at is_running again; when it returns early the switch
\* of kvm_cpu__start sees the exit_reason of the previous exit.
VRun(i) ==
  /\ OwnCode(i)
  /\ vpc[i] = "run"
  /\ vpc' = [vpc EXCEPT ![i] = IF RunsGuest(i) THEN "entry" ELSE "handle"]
  /\ UNCHANGED <<running, paused, hpc, reason, handled, sigVars, pauseVars,
                 ipcVars, mainVars, fault>>

VEnterGuest(i) ==
  /\ OwnCode(i)
  /\ vpc[i] = "entry"
  /\ vpc' = [vpc EXCEPT ![i] = "guest"]
  /\ UNCHANGED <<running, paused, hpc, reason, handled, sigVars, pauseVars,
                 ipcVars, mainVars, fault>>

VGuestExit(i) ==
  /\ OwnCode(i)
  /\ vpc[i] = "guest"
  /\ \E r \in GuestExits :
       reason' = [reason EXCEPT ![i] = r]
  /\ handled' = [handled EXCEPT ![i] = FALSE]
  /\ vpc' = [vpc EXCEPT ![i] = "handle"]
  /\ UNCHANGED <<running, paused, hpc, sigVars, pauseVars, ipcVars, mainVars, fault>>

\* Where the switch over exit_reason takes the thread.
AfterExit(i) ==
  CASE reason[i] \in {"none", "emulate", "reset"} -> "loop"
    [] reason[i] = "intr" -> IF running[i] THEN "loop" ELSE "dead"
    [] reason[i] \in {"panic", "shutdown", "system"} -> "dead"

\* The switch over exit_reason.  "reset" is an I/O exit that writes the reset
\* command to the i8042, "panic" one whose emulation fails.
VHandle(i) ==
  /\ OwnCode(i)
  /\ vpc[i] = "handle"
  /\ vpc' = [vpc EXCEPT ![i] = AfterExit(i)]
  /\ handled' = [handled EXCEPT ![i] = TRUE]
  /\ IF reason[i] \in {"reset", "system"}
     THEN KvmVmExit
     ELSE UNCHANGED <<exitsig, fault>>
  /\ UNCHANGED <<running, paused, hpc, reason, pausesig, usr1, nmi, handlers,
                 pauseVars, ipcVars, mainVars>>

\* A signal makes KVM_RUN return.
Interrupt(i) ==
  IF vpc[i] = "guest"
  THEN /\ vpc' = [vpc EXCEPT ![i] = "handle"]
       /\ reason' = [reason EXCEPT ![i] = "intr"]
       /\ handled' = [handled EXCEPT ![i] = FALSE]
  ELSE UNCHANGED <<vpc, reason, handled>>

-----------------------------------------------------------------------------
(* Signal handlers: kvm_cpu_signal_handler, kvm_notify_paused,             *)
(* handle_sigusr1.  Before the first kvm_cpu__start the two real-time      *)
(* signals have their default action, which ends the process.              *)

\* is_running after SIGKVMEXIT; current_kvm_cpu is NULL in a thread that has
\* not started, which then ignores the signal.
ExitIgnored(i) == running[i]
AfterExitSignal(i) == vpc[i] = "start" /\ running[i]

OnExit(i) ==
  /\ Up
  /\ i \in exitsig /\ Alive(i)
  /\ exitsig' = exitsig \ {i}
  /\ \/ /\ ~handlers
        /\ fault' = "killed"
        /\ UNCHANGED <<running, vpc, reason, handled>>
     \/ /\ handlers
        /\ running' = [running EXCEPT ![i] = AfterExitSignal(i)]
        /\ Interrupt(i)
        /\ UNCHANGED fault
  /\ UNCHANGED <<paused, hpc, pausesig, usr1, nmi, handlers, pauseVars, ipcVars,
                 mainVars>>

\* `if (current_kvm_cpu->paused) die(...)`; current_kvm_cpu is still NULL in a
\* thread that has not started.
PauseFault(i) ==
  IF ~handlers THEN "killed"
  ELSE IF vpc[i] = "start" THEN "nullcpu"
  ELSE IF paused[i] THEN "repaused"
  ELSE "none"

OnPause(i) ==
  /\ Up
  /\ i \in pausesig /\ Alive(i) /\ hpc[i] = "none"
  /\ pausesig' = pausesig \ {i}
  /\ \/ /\ PauseFault(i) # "none"
        /\ fault' = PauseFault(i)
        /\ UNCHANGED cpuVars
     \/ /\ PauseFault(i) = "none"
        /\ paused' = [paused EXCEPT ![i] = TRUE]
        /\ hpc' = [hpc EXCEPT ![i] = "write"]
        /\ Interrupt(i)
        /\ UNCHANGED <<running, fault>>
  /\ UNCHANGED <<exitsig, usr1, nmi, handlers, pauseVars, ipcVars, mainVars>>

NotifyPaused(i) ==
  /\ Up
  /\ hpc[i] = "write"
  /\ event' = event + 1
  /\ hpc' = [hpc EXCEPT ![i] = "wait"]
  /\ UNCHANGED <<running, paused, vpc, reason, handled, sigVars, lock, counted,
                 ipcVars, mainVars, fault>>

\* The vCPU gets pause_lock, clears cpu->paused and lets the lock go.
Unpause(i) ==
  /\ Up
  /\ hpc[i] = "wait"
  /\ PauseLockFree
  /\ paused' = [paused EXCEPT ![i] = FALSE]
  /\ hpc' = [hpc EXCEPT ![i] = "none"]
  /\ UNCHANGED <<running, vpc, reason, handled, sigVars, pauseVars, ipcVars,
                 mainVars, fault>>

OnUsr1(i) ==
  /\ Up
  /\ i \in usr1 /\ Alive(i)
  /\ usr1' = usr1 \ {i}
  /\ Interrupt(i)
  /\ printed' = (printed \/ (vpc[i] # "start" /\ ~nmi[i]))
  /\ UNCHANGED <<running, paused, hpc, exitsig, pausesig, nmi, handlers, pauseVars,
                 ipc, k, isPaused, stopped, mainVars, fault>>

-----------------------------------------------------------------------------
(* The IPC thread: handle_pause with kvm_pause and kvm_continue,           *)
(* handle_stop, handle_debug                                               *)

Pause ==
  /\ Request
  /\ "pause" \in Commands
  /\ ipc = "idle" /\ ~isPaused
  /\ ipc' = "lock"
  /\ UNCHANGED <<cpuVars, sigVars, pauseVars, k, isPaused, stopped, printed,
                 mainVars, fault>>

\* mutex_lock(&pause_lock) and "Check if the guest is running".
PauseLock ==
  /\ Up
  /\ ipc = "lock"
  /\ PauseLockFree
  /\ lock' = "ipc"
  /\ \/ /\ freed \/ (0 \in gone /\ ~null0)
        /\ fault' = "stale"
        /\ UNCHANGED <<event, counted, ipc, k, isPaused, stopped>>
     \/ /\ ~freed
        /\ null0 \/ (0 \notin gone /\ vpc[0] = "unborn")
        /\ ipc' = "idle" /\ isPaused' = TRUE /\ stopped' = FALSE
        /\ UNCHANGED <<event, counted, k, fault>>
     \/ /\ ~Stale(0)
        /\ vpc[0] # "unborn"
        /\ event' = 0 /\ counted' = 0
        /\ k' = 0 /\ ipc' = "kill"
        /\ UNCHANGED <<isPaused, stopped, fault>>
  /\ UNCHANGED <<cpuVars, sigVars, printed, mainVars>>

\* `is_running && paused == 0`: only such a vCPU is signalled and waited for.
SignalAlways(i) == running[i]
MustSignal(i) == running[i] /\ ~paused[i]

PauseKill ==
  /\ Up
  /\ ipc = "kill"
  /\ \/ /\ k < N /\ Stale(k)
        /\ fault' = "stale"
        /\ UNCHANGED <<pausesig, counted, ipc, k>>
     \/ /\ k < N /\ ~Stale(k) /\ MustSignal(k)
        /\ IF vpc[k] = "unborn"
           THEN fault' = "nothread" /\ UNCHANGED pausesig
           ELSE pausesig' = pausesig \cup {k} /\ UNCHANGED fault
        /\ k' = k + 1
        /\ UNCHANGED <<counted, ipc>>
     \/ /\ k < N /\ ~Stale(k) /\ ~MustSignal(k)
        /\ counted' = counted + 1
        /\ k' = k + 1
        /\ UNCHANGED <<pausesig, ipc, fault>>
     \/ /\ k = N
        /\ ipc' = "read"
        /\ UNCHANGED <<pausesig, counted, k, fault>>
  /\ UNCHANGED <<cpuVars, exitsig, usr1, nmi, handlers, lock, event, isPaused, stopped,
                 printed, mainVars>>

\* `while (paused_vcpus < kvm->nrcpus)`
OneShort(n) == n + 1 < N
OneMore(n) == n <= N
StillWaiting(n) == n < N

\* read() of the eventfd returns its counter and clears it.
NotCleared == event
EventAfterRead == 0

PauseRead ==
  /\ Up
  /\ ipc = "read"
  /\ \/ /\ StillWaiting(counted) /\ event > 0
        /\ counted' = counted + event
        /\ event' = EventAfterRead
        /\ UNCHANGED <<ipc, isPaused, stopped>>
     \/ /\ ~StillWaiting(counted)
        /\ ipc' = "idle" /\ isPaused' = TRUE /\ stopped' = TRUE
        /\ UNCHANGED <<counted, event>>
  /\ UNCHANGED <<cpuVars, sigVars, lock, k, printed, mainVars, fault>>

Resume ==
  /\ Request
  /\ "resume" \in Commands
  /\ ipc = "idle" /\ isPaused
  /\ lock' = "free"
  /\ isPaused' = FALSE /\ stopped' = FALSE
  /\ UNCHANGED <<cpuVars, sigVars, event, counted, ipc, k, printed, mainVars, fault>>

Stop ==
  /\ Request
  /\ "stop" \in Commands
  /\ ipc = "idle"
  /\ KvmVmExit
  /\ UNCHANGED <<cpuVars, pausesig, usr1, nmi, handlers, pauseVars, ipcVars, mainVars>>

\* Ctrl-A x on the console: the terminal thread calls kvm_vm_exit.
TermExit ==
  /\ Request
  /\ "stop" \in Commands
  /\ KvmVmExit
  /\ UNCHANGED <<cpuVars, pausesig, usr1, nmi, handlers, pauseVars, ipcVars, mainVars>>

\* handle_debug up to the dump loop; kvm->nrcpus is 0 after the teardown.
Debug ==
  \E c \in Commands \cap {"nmi", "dump", "nmi+dump"}, i \in Vcpus :
    /\ Request
    /\ ipc = "idle"
    /\ \/ /\ c = "dump"
          /\ ipc' = "dump" /\ k' = 0
          /\ UNCHANGED <<nmi, usr1, fault>>
       \/ /\ c # "dump" /\ freed
          /\ UNCHANGED <<nmi, usr1, ipc, k, fault>>
       \/ /\ c # "dump" /\ ~freed /\ (Stale(i) \/ vpc[i] = "unborn")
          /\ fault' = IF Stale(i) THEN "stale" ELSE "nothread"
          /\ UNCHANGED <<nmi, usr1, ipc, k>>
       \/ /\ c # "dump" /\ ~Stale(i) /\ vpc[i] # "unborn"
          /\ nmi' = [nmi EXCEPT ![i] = TRUE]
          /\ usr1' = usr1 \cup {i}
          /\ ipc' = IF c = "nmi" THEN "idle" ELSE "dump"
          /\ k' = 0
          /\ UNCHANGED fault
    /\ UNCHANGED <<cpuVars, exitsig, pausesig, handlers, pauseVars, isPaused, stopped,
                   printed, mainVars>>

DumpNext ==
  /\ Up
  /\ ipc = "dump"
  /\ \/ /\ k = N \/ freed
        /\ ipc' = "idle"
        /\ UNCHANGED <<k, usr1, printed, fault>>
     \/ /\ k < N /\ ~freed /\ k = 0 /\ null0
        /\ k' = k + 1
        /\ UNCHANGED <<ipc, usr1, printed, fault>>
     \/ /\ k < N /\ ~freed /\ ~(k = 0 /\ null0)
        /\ k \in gone \/ vpc[k] = "unborn"
        /\ fault' = IF k \in gone THEN "stale" ELSE "nothread"
        /\ UNCHANGED <<ipc, k, usr1, printed>>
     \/ /\ k < N /\ ~Stale(k) /\ vpc[k] # "unborn"
        /\ printed' = FALSE
        /\ usr1' = usr1 \cup {k}
        /\ ipc' = "spin"
        /\ UNCHANGED <<k, fault>>
  /\ UNCHANGED <<cpuVars, exitsig, pausesig, nmi, handlers, pauseVars, isPaused,
                 stopped, mainVars>>

\* `while (!printout_done)`
NoWaiting == TRUE
PrintoutDone == printed

DumpWait ==
  /\ Up
  /\ ipc = "spin"
  /\ PrintoutDone
  /\ ipc' = "dump"
  /\ k' = k + 1
  /\ UNCHANGED <<cpuVars, sigVars, pauseVars, isPaused, stopped, printed, mainVars, fault>>

-----------------------------------------------------------------------------
(* The main thread: vm_run and kvm_cpu__exit                               *)

Create ==
  /\ Up
  /\ main = "create"
  /\ \/ /\ m < N
        /\ vpc' = [vpc EXCEPT ![m] = "start"]
        /\ m' = m + 1
        /\ UNCHANGED main
     \/ /\ m = N
        /\ main' = "join0"
        /\ UNCHANGED <<vpc, m>>
  /\ UNCHANGED <<running, paused, hpc, reason, handled, sigVars, pauseVars, ipcVars,
                 gone, null0, freed, fault>>

\* pthread_join of vCPU 0 and kvm_cpu__delete(kvm->cpus[0]).
Join0 ==
  /\ Up
  /\ main = "join0"
  /\ vpc[0] = "dead"
  /\ main' = "null"
  /\ gone' = gone \cup {0}
  /\ UNCHANGED <<cpuVars, sigVars, pauseVars, ipcVars, m, null0, freed, fault>>

ClearCpu0 ==
  /\ Up
  /\ main = "null"
  /\ null0' = TRUE
  /\ main' = "lock"
  /\ UNCHANGED <<cpuVars, sigVars, pauseVars, ipcVars, m, gone, freed, fault>>

\* kvm_pause returns right after mutex_lock: kvm->cpus[0] is NULL.
ExitPause ==
  /\ Up
  /\ main = "lock"
  /\ PauseLockFree
  /\ lock' = "main"
  /\ main' = "kill" /\ m' = 1
  /\ UNCHANGED <<cpuVars, sigVars, event, counted, ipcVars, gone, null0, freed, fault>>

ExitKill ==
  /\ Up
  /\ main = "kill"
  /\ \/ /\ m < N /\ running[m]
        /\ exitsig' = exitsig \cup {m}
        /\ main' = "join"
        /\ UNCHANGED <<m, lock>>
     \/ /\ m < N /\ ~running[m]
        /\ m' = m + 1
        /\ UNCHANGED <<exitsig, main, lock>>
     \/ /\ m >= N
        /\ lock' = "free"
        /\ main' = "free"
        /\ UNCHANGED <<exitsig, m>>
  /\ UNCHANGED <<cpuVars, pausesig, usr1, nmi, handlers, event, counted, ipcVars,
                 gone, null0, freed, fault>>

\* pthread_join and kvm_cpu__delete.  In the mutant the join is missing.
NoJoin(i) == TRUE
Joinable(i) == vpc[i] = "dead"

ExitJoin ==
  /\ Up
  /\ main = "join"
  /\ Joinable(m)
  /\ gone' = gone \cup {m}
  /\ m' = m + 1
  /\ main' = "kill"
  /\ UNCHANGED <<cpuVars, sigVars, pauseVars, ipcVars, null0, freed, fault>>

FreeCpus ==
  /\ Up
  /\ main = "free"
  /\ freed' = TRUE
  /\ main' = "done"
  /\ UNCHANGED <<cpuVars, sigVars, pauseVars, ipcVars, m, gone, null0, fault>>

-----------------------------------------------------------------------------
VcpuStep(i) ==
  \/ VStart(i) \/ VLoop(i) \/ VRun(i) \/ VEnterGuest(i) \/ VHandle(i)
  \/ NotifyPaused(i) \/ Unpause(i)

Deliver(i) == OnExit(i) \/ OnPause(i) \/ OnUsr1(i)

IpcRequest == Pause \/ Resume \/ Stop \/ TermExit \/ Debug

IpcStep == PauseLock \/ PauseKill \/ PauseRead \/ DumpNext \/ DumpWait

MainStep ==
  Create \/ Join0 \/ ClearCpu0 \/ ExitPause \/ ExitKill \/ ExitJoin \/ FreeCpus

Next ==
  \/ \E i \in Vcpus : VcpuStep(i) \/ VGuestExit(i) \/ Deliver(i)
  \/ IpcRequest
  \/ IpcStep
  \/ MainStep

Spec == Init /\ [][Next]_vars

\* Threads keep running and pending signals are delivered; pause_lock is granted
\* to a thread that keeps asking for it.  Nothing is assumed of the guest, nor
\* of the users who send commands.
Fairness ==
  /\ \A i \in Vcpus :
       /\ WF_vars(VcpuStep(i))
       /\ SF_vars(Unpause(i))
       /\ WF_vars(OnExit(i))
       /\ WF_vars(OnPause(i))
       /\ WF_vars(OnUsr1(i))
  /\ WF_vars(IpcStep)
  /\ SF_vars(PauseLock)
  /\ WF_vars(MainStep)
  /\ SF_vars(ExitPause)

FairSpec == Spec /\ Fairness

-----------------------------------------------------------------------------
(* Properties                                                              *)

TypeOK ==
  /\ running \in [Vcpus -> BOOLEAN]
  /\ paused \in [Vcpus -> BOOLEAN]
  /\ vpc \in [Vcpus -> {"unborn", "start", "loop", "run", "entry", "guest", "handle", "dead"}]
  /\ hpc \in [Vcpus -> {"none", "write", "wait"}]
  /\ reason \in [Vcpus -> Reasons]
  /\ handled \in [Vcpus -> BOOLEAN]
  /\ exitsig \in SUBSET Vcpus /\ pausesig \in SUBSET Vcpus /\ usr1 \in SUBSET Vcpus
  /\ nmi \in [Vcpus -> BOOLEAN]
  /\ handlers \in BOOLEAN
  /\ lock \in {"free", "ipc", "main"}
  /\ event \in 0 .. N /\ counted \in 0 .. N
  /\ ipc \in {"idle", "lock", "kill", "read", "dump", "spin"}
  /\ k \in 0 .. N
  /\ isPaused \in BOOLEAN /\ stopped \in BOOLEAN /\ printed \in BOOLEAN
  /\ main \in {"create", "join0", "null", "lock", "kill", "join", "free", "done"}
  /\ m \in 0 .. N
  /\ gone \in SUBSET Vcpus
  /\ null0 \in BOOLEAN /\ freed \in BOOLEAN
  /\ requests \in 0 .. MaxRequests
  /\ fault \in {"none", "stale", "nothread", "nullcpu", "killed", "repaused"}

\* "a second pause event should not be send to this thread until it acquires
\* and releases the pause_lock" (kvm_cpu_signal_handler): no SIGKVMPAUSE is on its
\* way to a vCPU that has not left the handler of the one before.
NeverRepaused == \A i \in pausesig : ~paused[i] /\ hpc[i] = "none"

\* After kvm_pause has gone through the vCPUs, and until kvm_continue, every
\* vCPU that is not on its way out is parked in its handler, and the IPC thread
\* holds pause_lock.
PauseParks ==
  stopped => /\ isPaused /\ lock = "ipc"
             /\ \A i \in Vcpus : running[i] /\ vpc[i] # "dead" => hpc[i] = "wait"

\* handle_pause calls kvm_continue, which unlocks pause_lock, only when the IPC
\* thread holds it.
UnlockOwned == isPaused => lock = "ipc"

\* kvm_cpu__run may return without running the guest, and the switch then acts
\* on an exit it has handled already; that happens only to a vCPU told to stop.
ReplayOnlyAtEnd ==
  \A i \in Vcpus : vpc[i] = "handle" /\ handled[i] => ~running[i]

\* kvm_cpu__exit deletes a struct kvm_cpu, and frees the array, only when the
\* thread that uses it has ended.
FreedAfterEnd ==
  /\ \A i \in gone : vpc[i] = "dead"
  /\ freed => \A i \in Vcpus : vpc[i] = "dead"

\* kvm_pause returns as long as no vCPU thread ends under it.
PauseEnds ==
  [](fault = "none" /\ \A i \in Vcpus : vpc[i] # "dead") => (ipc = "kill" ~> ipc = "idle")

\* Once vCPU 0 has ended kvm_cpu__exit stops and joins the other vCPUs, if they
\* have started, if the guest does not run forever without an exit, if no pause
\* is left in force and if no vCPU is still on its way out of one when
\* kvm_cpu__exit takes pause_lock.
TeardownEnds ==
  /\ \A i \in Vcpus : []<>(vpc[i] # "guest")
  /\ []<>(lock # "ipc")
  /\ [](fault = "none")
  /\ [](lock = "main" => \A i \in Vcpus : i \notin pausesig /\ hpc[i] = "none")
  => (main = "null" /\ \A i \in Vcpus : vpc[i] # "start") ~> main = "done"

\* An NMI asked for by the debug command is injected, if the vCPU lives, the VM
\* is not being torn down, the guest does not run forever without an exit and no
\* pause is left in force.
NmiServed ==
  /\ \A i \in Vcpus : []<>(vpc[i] # "guest")
  /\ []<>(lock # "ipc")
  /\ [](fault = "none")
  => \A i \in Vcpus : nmi[i] ~> (~nmi[i] \/ vpc[i] = "dead" \/ lock = "main")

\* "Serialize debug printout so that the output of multiple vcpus does not get
\* mixed up" (handle_debug): while the IPC thread waits for vCPU k no other vCPU
\* is about to print.  It holds while no NMI is asked for: the SIGUSR1 that goes
\* with an NMI prints too when the vCPU has taken its needs_nmi before it arrives.
NmiInUse == Commands \cap {"nmi", "nmi+dump"} # {}
DumpSerial == ~NmiInUse /\ ipc = "spin" => usr1 \subseteq {k}

\* The same with NMIs, which does not hold.
DumpSerialWithNmi == ipc = "spin" => usr1 \subseteq {k}

\* The lock, the exits, the dumps and the memory of the vCPU threads, whatever order
\* the guest's exits, the signals and the commands come in.
VcpuInv == TypeOK /\ UnlockOwned /\ ReplayOnlyAtEnd /\ DumpSerial /\ FreedAfterEnd

\* "Ensure that all VCPUs are torn down, regardless of which CPU generated the
\* event" (kvm_cpu__start): as long as the guest's vCPUs keep exiting and users
\* resume what they paused, the teardown comes to an end.
TornDownAnyway ==
  /\ \A i \in Vcpus : []<>(vpc[i] # "guest")
  /\ []<>(lock # "ipc")
  /\ [](fault = "none")
  => (main = "null" /\ \A i \in Vcpus : vpc[i] # "start") ~> main = "done"

\* "Only VCPU #0 is going to exit by itself when shutting down" (vm_run):
\* kvm_pause, which waits for an answer of every vCPU, always gets them.
PauseReturns == [](fault = "none") => (ipc = "kill" ~> ipc = "idle")
==============================================================================
