------------------------------ MODULE VcpuProofs ------------------------------
(***************************************************************************)
(* Proofs about the vCPU threads for any number of vCPUs, any set of       *)
(* commands and guest exits and any number of requests: the safety         *)
(* properties of VcpuControl follow from an inductive invariant, which     *)
(* counts the answers kvm_pause has still to get.                          *)
(***************************************************************************)
EXTENDS VcpuControl, FiniteSetTheorems, TLAPS

-----------------------------------------------------------------------------
(* The inductive invariant.  A step that kills the process may leave its   *)
(* data in any state, so all but the properties themselves is about the    *)
(* living process.                                                         *)

\* vCPUs asked to pause by the call of kvm_pause in progress, that have not
\* answered yet.
Pending == {i \in Vcpus : i \in pausesig \/ hpc[i] = "write"}

\* cpu->paused is set exactly while the handler runs.
HandlerInv == \A i \in Vcpus : paused[i] <=> hpc[i] # "none"

\* A vCPU whose thread has not been created was never told anything.
UnbornInv == \A i \in Vcpus : vpc[i] = "unborn" => running[i] /\ hpc[i] = "none"

\* The main thread has created vCPUs 0 .. m - 1, later it has joined them.
ThreadsInv ==
  /\ \A i \in Vcpus : vpc[i] = "unborn" <=> main = "create" /\ i >= m
  /\ main \in {"create", "join0"} => gone = {}
  /\ main \notin {"create", "join0"} => 0 \in gone
  /\ main \in {"kill", "join"} => m >= 1 /\ \A i \in Vcpus : i < m => i \in gone
  /\ main = "join" => m < N
  /\ main \in {"free", "done"} => gone = Vcpus
  /\ freed => main = "done"
  \* vCPU i > 0 is told to stop only by the main thread, which then waits for it.
  /\ \A i \in Vcpus \ {0} :
       i \in exitsig \/ ~running[i] => i \in gone \/ (main = "join" /\ m = i)

\* Who holds pause_lock.
LockInv ==
  /\ lock = "main" <=> main \in {"kill", "join"}
  /\ lock = "ipc" <=> isPaused \/ ipc \in {"kill", "read"}
  /\ ipc \in {"lock", "kill", "read"} => ~isPaused
  /\ stopped => isPaused

\* kvm_pause has gone through vCPUs 0 .. k - 1: each one was counted, has
\* answered, or will.
CountInv ==
  /\ ipc = "read" => k = N
  /\ ipc = "spin" => k < N
  /\ ipc \in {"kill", "read"} =>
       /\ event + counted + Cardinality(Pending) = k
       /\ \A i \in Pending : i < k
  /\ ipc \notin {"kill", "read"} => Pending = {}

\* Each of them that is not on its way out is parked, or will be.
ParkInv ==
  /\ ipc \in {"kill", "read"} =>
       \A i \in Vcpus : i < k =>
         /\ vpc[i] # "unborn"
         /\ running[i] /\ vpc[i] # "dead" => i \in Pending \/ hpc[i] = "wait"
  /\ stopped => \A i \in Vcpus : vpc[i] # "unborn"

\* Without NMIs, SIGUSR1 is on its way only to the vCPU handle_debug waits for.
DumpInv ==
  ~NmiInUse =>
    /\ ipc # "spin" => usr1 = {}
    /\ ipc = "spin" => usr1 \subseteq {k} /\ (printed => usr1 = {})

Living ==
  /\ HandlerInv /\ UnbornInv /\ ThreadsInv
  /\ LockInv /\ CountInv /\ ParkInv /\ DumpInv

VcpuIInv == VcpuInv /\ NeverRepaused /\ PauseParks /\ (fault = "none" => Living)

-----------------------------------------------------------------------------
(* Numbers of vCPUs                                                        *)

\* The vCPUs are the numbers below N, and there is a first one.
LEMMA VcpuFacts ==
  /\ N \in Nat \ {0} /\ 0 \in Vcpus /\ IsFiniteSet(Vcpus)
  /\ \A i \in Vcpus : i \in Nat /\ i < N
  /\ \A i \in Nat : i < N => i \in Vcpus
<1>1. N \in Nat \ {0}
  BY VcpuAssumption
<1>2. IsFiniteSet(Vcpus)
  BY <1>1, FS_Interval DEF Vcpus
<1> QED BY <1>1, <1>2 DEF Vcpus

\* What taking one vCPU out of a set, or putting one in, does to its size.
LEMMA PendingCounted ==
  ASSUME NEW S \in SUBSET Vcpus
  PROVE  /\ Cardinality(S) \in Nat
         /\ Cardinality(S) = 0 <=> S = {}
         /\ \A i \in S : Cardinality(S \ {i}) = Cardinality(S) - 1
         /\ \A i \in Vcpus \ S : Cardinality(S \cup {i}) = Cardinality(S) + 1
<1>1. IsFiniteSet(S)
  BY VcpuFacts, FS_Subset
<1> QED BY <1>1, FS_CardinalityType, FS_EmptySet, FS_RemoveElement, FS_AddElement

\* The counter of kvm_pause and its eventfd never hold more than the vCPUs asked.
LEMMA CountFacts ==
  ASSUME TypeOK, CountInv
  PROVE  /\ Cardinality(Pending) \in Nat
         /\ \A i \in Vcpus : hpc[i] = "write" =>
              /\ ipc \in {"kill", "read"}
              /\ event + 1 <= N
         /\ ipc = "kill" /\ k < N => counted + 1 <= N
         /\ ipc = "read" => counted + event <= N
<1>1. Pending \in SUBSET Vcpus
  BY DEF Pending
<1>2. Cardinality(Pending) \in Nat /\ (Pending # {} => Cardinality(Pending) >= 1)
  BY <1>1, PendingCounted
<1>3. event \in Nat /\ counted \in Nat /\ k \in Nat /\ N \in Nat /\ k <= N
  BY VcpuFacts DEF TypeOK
<1>4. ASSUME NEW i \in Vcpus, hpc[i] = "write"
      PROVE  ipc \in {"kill", "read"} /\ event + 1 <= N
  <2>1. Pending # {}
    BY <1>4 DEF Pending
  <2> QED BY <1>2, <1>3, <2>1 DEF CountInv
<1>5. ipc = "kill" /\ k < N => counted + 1 <= N
  BY <1>2, <1>3 DEF CountInv
<1>6. ipc = "read" => counted + event <= N
  BY <1>2, <1>3 DEF CountInv
<1> QED BY <1>2, <1>4, <1>5, <1>6

-----------------------------------------------------------------------------
(* Types                                                                   *)

\* What a request to end the machine (the exit signal of the first vCPU)
\* changes, and that it is well typed.
LEMMA VmExitTypes ==
  ASSUME TypeOK, KvmVmExit
  PROVE  /\ exitsig' \in SUBSET Vcpus /\ (exitsig' = exitsig \/ exitsig' = exitsig \cup {0})
         /\ fault' \in {fault, "stale"}
BY VcpuFacts DEF TypeOK, KvmVmExit

\* What a signal that interrupts a vCPU changes, and that it is well typed.
LEMMA InterruptTypes ==
  ASSUME TypeOK, NEW i \in Vcpus, Interrupt(i)
  PROVE  /\ vpc' \in [Vcpus -> {"unborn", "start", "loop", "run", "entry", "guest", "handle", "dead"}]
         /\ reason' \in [Vcpus -> Reasons]
         /\ handled' \in [Vcpus -> BOOLEAN]
BY DEF TypeOK, Interrupt, Reasons

\* A vCPU thread's step keeps TypeOK.
LEMMA VcpuTypes ==
  ASSUME TypeOK, CountInv, NEW i \in Vcpus, VcpuStep(i) \/ VGuestExit(i) \/ Deliver(i)
  PROVE  TypeOK'
<1>1. CASE VStart(i)
  BY <1>1 DEF TypeOK, VStart, OwnCode, Up, pauseVars, ipcVars, mainVars
<1>2. CASE VLoop(i)
  <2>1. nmi' \in [Vcpus -> BOOLEAN]
    BY <1>2 DEF TypeOK, VLoop, TakeNmi
  <2>2. vpc' \in [Vcpus -> {"unborn", "start", "loop", "run", "entry", "guest", "handle", "dead"}]
    BY <1>2 DEF TypeOK, VLoop
  <2> QED BY <1>2, <2>1, <2>2 DEF TypeOK, VLoop, OwnCode, Up, pauseVars, ipcVars, mainVars
<1>3. CASE VRun(i)
  BY <1>3 DEF TypeOK, VRun, OwnCode, Up, sigVars, pauseVars, ipcVars, mainVars
<1>4. CASE VEnterGuest(i)
  BY <1>4 DEF TypeOK, VEnterGuest, OwnCode, Up, sigVars, pauseVars, ipcVars, mainVars
<1>5. CASE VHandle(i)
  <2>1. AfterExit(i) \in {"loop", "dead"}
    BY DEF AfterExit, TypeOK, Reasons
  <2>2. exitsig' \in SUBSET Vcpus /\ fault' \in {fault, "stale"}
    BY <1>5, VmExitTypes DEF VHandle, TypeOK
  <2> QED BY <1>5, <2>1, <2>2 DEF TypeOK, VHandle, OwnCode, Up, pauseVars, ipcVars, mainVars
<1>6. CASE VGuestExit(i)
  <2>1. PICK r \in GuestExits : reason' = [reason EXCEPT ![i] = r]
    BY <1>6 DEF VGuestExit
  <2>2. reason' \in [Vcpus -> Reasons]
    BY <2>1, VcpuAssumption DEF TypeOK, Reasons
  <2> QED BY <1>6, <2>2 DEF TypeOK, VGuestExit, OwnCode, Up, sigVars, pauseVars, ipcVars, mainVars
<1>7. CASE NotifyPaused(i)
  <2>1. event + 1 \in 0 .. N
    BY <1>7, CountFacts, VcpuFacts DEF NotifyPaused, TypeOK
  <2> QED BY <1>7, <2>1 DEF TypeOK, NotifyPaused, Up, sigVars, ipcVars, mainVars
<1>8. CASE Unpause(i)
  BY <1>8 DEF TypeOK, Unpause, Up, sigVars, pauseVars, ipcVars, mainVars
<1>9. CASE OnExit(i)
  <2>1. /\ vpc' \in [Vcpus -> {"unborn", "start", "loop", "run", "entry", "guest", "handle", "dead"}]
        /\ reason' \in [Vcpus -> Reasons]
        /\ handled' \in [Vcpus -> BOOLEAN]
    BY <1>9, InterruptTypes DEF OnExit, TypeOK
  <2>2. AfterExitSignal(i) \in BOOLEAN
    BY DEF AfterExitSignal, TypeOK
  <2>3. running' \in [Vcpus -> BOOLEAN] /\ fault' \in {fault, "killed"}
    BY <1>9, <2>2 DEF OnExit, TypeOK
  <2> QED BY <1>9, <2>1, <2>3 DEF TypeOK, OnExit, Up, pauseVars, ipcVars, mainVars
<1>10. CASE OnPause(i)
  <2>1. /\ vpc' \in [Vcpus -> {"unborn", "start", "loop", "run", "entry", "guest", "handle", "dead"}]
        /\ reason' \in [Vcpus -> Reasons]
        /\ handled' \in [Vcpus -> BOOLEAN]
    BY <1>10, InterruptTypes DEF OnPause, TypeOK, cpuVars
  <2>2. PauseFault(i) \in {"killed", "nullcpu", "repaused", "none"}
    BY DEF PauseFault
  <2>3. /\ paused' \in [Vcpus -> BOOLEAN] /\ running' = running
        /\ hpc' \in [Vcpus -> {"none", "write", "wait"}]
        /\ fault' \in {fault, "killed", "nullcpu", "repaused", "none"}
    BY <1>10, <2>2 DEF OnPause, TypeOK, cpuVars
  <2> QED BY <1>10, <2>1, <2>3 DEF TypeOK, OnPause, Up, pauseVars, ipcVars, mainVars
<1>11. CASE OnUsr1(i)
  <2>1. /\ vpc' \in [Vcpus -> {"unborn", "start", "loop", "run", "entry", "guest", "handle", "dead"}]
        /\ reason' \in [Vcpus -> Reasons]
        /\ handled' \in [Vcpus -> BOOLEAN]
    BY <1>11, InterruptTypes DEF OnUsr1
  <2>2. printed' \in BOOLEAN
    BY <1>11 DEF OnUsr1
  <2> QED BY <1>11, <2>1, <2>2 DEF TypeOK, OnUsr1, Up, pauseVars, mainVars
<1> QED BY <1>1, <1>2, <1>3, <1>4, <1>5, <1>6, <1>7, <1>8, <1>9, <1>10, <1>11
        DEF VcpuStep, Deliver

\* An IPC thread's step keeps TypeOK.
LEMMA IpcTypes ==
  ASSUME TypeOK, CountInv, IpcRequest \/ IpcStep
  PROVE  TypeOK'
<1>0. N \in Nat \ {0} /\ k \in Nat /\ counted \in Nat /\ event \in Nat /\ requests \in Nat
  BY VcpuFacts, VcpuAssumption DEF TypeOK
<1>r. Request => requests' \in 0 .. MaxRequests
  BY VcpuAssumption DEF Request, TypeOK
<1>1. CASE Pause
  BY <1>1, <1>r DEF TypeOK, Pause, Request, cpuVars, sigVars, pauseVars, mainVars
<1>2. CASE Resume
  BY <1>2, <1>r DEF TypeOK, Resume, Request, cpuVars, sigVars, mainVars
<1>3. CASE Stop \/ TermExit
  BY <1>3, <1>r, VmExitTypes
     DEF TypeOK, Stop, TermExit, Request, cpuVars, pauseVars, ipcVars, mainVars
<1>4. CASE Debug
  <2>1. nmi' \in [Vcpus -> BOOLEAN] /\ usr1' \in SUBSET Vcpus
    BY <1>4 DEF Debug, TypeOK
  <2>2. /\ ipc' \in {"idle", "lock", "kill", "read", "dump", "spin"}
        /\ fault' \in {fault, "stale", "nothread"}
        /\ k' \in {0, k}
    BY <1>4 DEF Debug, TypeOK
  <2>3. k' \in 0 .. N
    BY <1>0, <2>2 DEF TypeOK
  <2> QED BY <1>4, <1>r, <2>1, <2>2, <2>3
          DEF TypeOK, Debug, Request, cpuVars, pauseVars, mainVars
<1>5. CASE PauseLock
  <2>1. 0 \in 0 .. N
    BY <1>0
  <2> QED BY <1>5, <2>1 DEF TypeOK, PauseLock, Up, cpuVars, sigVars, mainVars
<1>6. CASE PauseKill
  <2>1. k < N => k + 1 \in 0 .. N /\ k \in Vcpus
    BY <1>0, VcpuFacts
  <2>2. k < N => counted + 1 \in 0 .. N
    BY <1>0, <1>6, CountFacts DEF PauseKill
  <2>3. pausesig' \in SUBSET Vcpus /\ k' \in 0 .. N /\ counted' \in 0 .. N
    BY <1>6, <2>1, <2>2 DEF PauseKill, TypeOK
  <2>4. fault' \in {fault, "stale", "nothread"} /\ ipc' \in {ipc, "read"}
    BY <1>6 DEF PauseKill
  <2> QED BY <1>6, <2>3, <2>4 DEF TypeOK, PauseKill, Up, cpuVars, mainVars
<1>7. CASE PauseRead
  <2>1. counted + event \in 0 .. N /\ 0 \in 0 .. N
    BY <1>0, <1>7, CountFacts DEF PauseRead
  <2>2. /\ counted' \in 0 .. N /\ event' \in 0 .. N
        /\ ipc' \in {ipc, "idle"} /\ isPaused' \in BOOLEAN /\ stopped' \in BOOLEAN
    BY <1>7, <2>1 DEF TypeOK, PauseRead, EventAfterRead
  <2> QED BY <1>7, <2>2 DEF TypeOK, PauseRead, Up, cpuVars, sigVars, mainVars
<1>8. CASE DumpNext
  <2>1. k < N => k + 1 \in 0 .. N /\ k \in Vcpus
    BY <1>0, VcpuFacts
  <2>2. usr1' \in SUBSET Vcpus /\ k' \in 0 .. N /\ printed' \in BOOLEAN
    BY <1>8, <2>1 DEF DumpNext, TypeOK
  <2>3. fault' \in {fault, "stale", "nothread"} /\ ipc' \in {ipc, "idle", "spin"}
    BY <1>8 DEF DumpNext
  <2> QED BY <1>8, <2>2, <2>3 DEF TypeOK, DumpNext, Up, cpuVars, pauseVars, mainVars
<1>9. CASE DumpWait
  <2>1. k + 1 \in 0 .. N
    BY <1>0, <1>9 DEF DumpWait, CountInv
  <2> QED BY <1>9, <2>1 DEF TypeOK, DumpWait, Up, cpuVars, sigVars, pauseVars, mainVars
<1> QED BY <1>1, <1>2, <1>3, <1>4, <1>5, <1>6, <1>7, <1>8, <1>9 DEF IpcRequest, IpcStep

\* The main thread's step keeps TypeOK.
LEMMA MainTypes ==
  ASSUME TypeOK, ThreadsInv, MainStep
  PROVE  TypeOK'
<1>0. N \in Nat \ {0} /\ m \in Nat /\ 0 \in Vcpus /\ 1 \in 0 .. N
      /\ (m < N => m \in Vcpus /\ m + 1 \in 0 .. N)
  BY VcpuFacts DEF TypeOK
<1>1. CASE Create
  <2>1. vpc' \in [Vcpus -> {"unborn", "start", "loop", "run", "entry", "guest", "handle", "dead"}]
    BY <1>1 DEF Create, TypeOK
  <2> QED BY <1>0, <1>1, <2>1 DEF TypeOK, Create, Up, sigVars, pauseVars, ipcVars
<1>2. CASE Join0
  BY <1>0, <1>2 DEF TypeOK, Join0, Up, cpuVars, sigVars, pauseVars, ipcVars
<1>3. CASE ClearCpu0
  BY <1>3 DEF TypeOK, ClearCpu0, Up, cpuVars, sigVars, pauseVars, ipcVars
<1>4. CASE ExitPause
  BY <1>0, <1>4 DEF TypeOK, ExitPause, Up, cpuVars, sigVars, ipcVars
<1>5. CASE ExitKill
  BY <1>0, <1>5 DEF TypeOK, ExitKill, Up, cpuVars, ipcVars
<1>6. CASE ExitJoin
  <2>1. m < N
    BY <1>6 DEF ExitJoin, ThreadsInv
  <2> QED BY <1>0, <1>6, <2>1 DEF TypeOK, ExitJoin, Up, cpuVars, sigVars, pauseVars, ipcVars
<1>7. CASE FreeCpus
  BY <1>7 DEF TypeOK, FreeCpus, Up, cpuVars, sigVars, pauseVars, ipcVars
<1> QED BY <1>1, <1>2, <1>3, <1>4, <1>5, <1>6, <1>7 DEF MainStep

-----------------------------------------------------------------------------
(* What the steps do to a vCPU thread                                      *)

\* A thread that has ended stays so, only vm_run starts one, is_running is never
\* set again, and an exit is acted on twice only by a vCPU told to stop.
Ahead(j) ==
  /\ vpc[j] = "dead" => vpc'[j] = "dead"
  /\ vpc'[j] = "unborn" => vpc[j] = "unborn"
  /\ running'[j] => running[j]
  /\ vpc'[j] = "handle" /\ handled'[j] => ~running'[j]

\* A vCPU thread's step takes no thread back to an earlier stage of its
\* life.
LEMMA ThreadAhead ==
  ASSUME TypeOK, ReplayOnlyAtEnd, NEW i \in Vcpus,
         VcpuStep(i) \/ VGuestExit(i) \/ Deliver(i)
  PROVE  /\ \A j \in Vcpus : Ahead(j) /\ (vpc'[j] # "unborn" <=> vpc[j] # "unborn")
         /\ \A j \in Vcpus : running'[j] # running[j] => j \in exitsig /\ vpc[j] # "unborn"
<1>0. /\ \A j \in Vcpus : vpc[j] = "handle" /\ handled[j] => ~running[j]
      /\ vpc \in [Vcpus -> {"unborn", "start", "loop", "run", "entry", "guest", "handle", "dead"}]
      /\ running \in [Vcpus -> BOOLEAN] /\ handled \in [Vcpus -> BOOLEAN]
      /\ reason \in [Vcpus -> Reasons]
  BY DEF ReplayOnlyAtEnd, TypeOK
<1>i. ASSUME Interrupt(i), vpc[i] # "unborn", running' = running
      PROVE  \A j \in Vcpus : Ahead(j) /\ (vpc'[j] # "unborn" <=> vpc[j] # "unborn")
  BY <1>0, <1>i DEF Interrupt, Ahead
<1>1. CASE VStart(i)
  BY <1>0, <1>1 DEF VStart, Ahead
<1>2. CASE VLoop(i)
  BY <1>0, <1>2 DEF VLoop, Ahead
<1>3. CASE VRun(i)
  BY <1>0, <1>3 DEF VRun, RunsGuest, Ahead
<1>4. CASE VEnterGuest(i)
  BY <1>0, <1>4 DEF VEnterGuest, Ahead
<1>5. CASE VHandle(i)
  <2>1. AfterExit(i) \in {"loop", "dead"}
    BY <1>0 DEF AfterExit, Reasons
  <2> QED BY <1>0, <1>5, <2>1 DEF VHandle, Ahead
<1>6. CASE VGuestExit(i)
  BY <1>0, <1>6 DEF VGuestExit, Ahead
<1>7. CASE NotifyPaused(i) \/ Unpause(i)
  BY <1>0, <1>7 DEF NotifyPaused, Unpause, Ahead
<1>8. CASE OnExit(i)
  <2>1. vpc[i] \notin {"unborn", "dead"} /\ i \in exitsig
    BY <1>8 DEF OnExit, Alive
  <2>2. CASE UNCHANGED <<running, vpc, reason, handled>>
    BY <1>0, <2>1, <2>2 DEF Ahead
  <2>3. CASE Interrupt(i) /\ running' = [running EXCEPT ![i] = AfterExitSignal(i)]
    <3>1. AfterExitSignal(i) => running[i]
      BY DEF AfterExitSignal
    <3> QED BY <1>0, <2>1, <2>3, <3>1 DEF Interrupt, Ahead
  <2> QED BY <1>8, <2>2, <2>3 DEF OnExit
<1>9. CASE OnPause(i)
  <2>1. vpc[i] \notin {"unborn", "dead"} /\ running' = running
    BY <1>9 DEF OnPause, Alive, cpuVars
  <2>2. CASE UNCHANGED cpuVars
    BY <1>0, <2>1, <2>2 DEF Ahead, cpuVars
  <2>3. CASE Interrupt(i)
    BY <1>i, <2>1, <2>3
  <2> QED BY <1>9, <2>1, <2>2, <2>3 DEF OnPause
<1>10. CASE OnUsr1(i)
  <2>1. vpc[i] \notin {"unborn", "dead"} /\ running' = running /\ Interrupt(i)
    BY <1>10 DEF OnUsr1, Alive
  <2> QED BY <1>i, <2>1
<1> QED BY <1>1, <1>2, <1>3, <1>4, <1>5, <1>6, <1>7, <1>8, <1>9, <1>10 DEF VcpuStep, Deliver

\* The IPC thread and the console never touch a vCPU thread directly.
LEMMA IpcFrame ==
  ASSUME IpcRequest \/ IpcStep
  PROVE  /\ UNCHANGED <<running, paused, vpc, hpc, reason, handled, handlers, main, m, gone,
                        null0, freed>>
         /\ exitsig' = exitsig \/ exitsig' = exitsig \cup {0}
<1>1. CASE Pause \/ Resume \/ PauseLock \/ PauseRead \/ DumpWait
  BY <1>1 DEF Pause, Resume, PauseLock, PauseRead, DumpWait, cpuVars, sigVars, mainVars
<1>2. CASE PauseKill
  BY <1>2 DEF PauseKill, cpuVars, mainVars
<1>3. CASE Stop \/ TermExit
  BY <1>3 DEF Stop, TermExit, KvmVmExit, cpuVars, mainVars
<1>4. CASE Debug
  BY <1>4 DEF Debug, cpuVars, mainVars
<1>5. CASE DumpNext
  BY <1>5 DEF DumpNext, cpuVars, mainVars
<1> QED BY <1>1, <1>2, <1>3, <1>4, <1>5 DEF IpcRequest, IpcStep

\* What a vCPU thread's step leaves alone.
LEMMA VcpuFrame ==
  ASSUME NEW i \in Vcpus, VcpuStep(i) \/ VGuestExit(i) \/ Deliver(i)
  PROVE  /\ UNCHANGED <<lock, counted, ipc, k, isPaused, stopped, main, m, gone, null0, freed>>
         /\ exitsig' \subseteq exitsig \cup {0}
<1>1. CASE VStart(i) \/ VLoop(i) \/ VRun(i) \/ VEnterGuest(i) \/ VGuestExit(i)
  BY <1>1 DEF VStart, VLoop, VRun, VEnterGuest, VGuestExit, sigVars, pauseVars, ipcVars, mainVars
<1>2. CASE VHandle(i)
  BY <1>2 DEF VHandle, KvmVmExit, pauseVars, ipcVars, mainVars
<1>3. CASE NotifyPaused(i) \/ Unpause(i)
  BY <1>3 DEF NotifyPaused, Unpause, sigVars, pauseVars, ipcVars, mainVars
<1>4. CASE OnExit(i) \/ OnPause(i) \/ OnUsr1(i)
  BY <1>4 DEF OnExit, OnPause, OnUsr1, pauseVars, ipcVars, mainVars
<1> QED BY <1>1, <1>2, <1>3, <1>4 DEF VcpuStep, Deliver

\* What the main thread's step leaves alone.
LEMMA MainFrame ==
  ASSUME MainStep
  PROVE  /\ UNCHANGED <<running, paused, hpc, reason, handled, pausesig, usr1, nmi, handlers,
                        event, counted, ipc, k, isPaused, stopped, printed, fault>>
<1>1. CASE Create \/ Join0 \/ ClearCpu0 \/ ExitPause
  BY <1>1 DEF Create, Join0, ClearCpu0, ExitPause, cpuVars, sigVars, pauseVars, ipcVars
<1>2. CASE ExitKill \/ ExitJoin \/ FreeCpus
  BY <1>2 DEF ExitKill, ExitJoin, FreeCpus, cpuVars, sigVars, pauseVars, ipcVars
<1> QED BY <1>1, <1>2 DEF MainStep

\* The main thread's step takes no vCPU thread back, and starts only the one
\* it creates.
LEMMA MainAhead ==
  ASSUME TypeOK, ReplayOnlyAtEnd, ThreadsInv, MainStep
  PROVE  /\ \A j \in Vcpus : Ahead(j)
         /\ \A j \in Vcpus : vpc'[j] # vpc[j] =>
              main = "create" /\ j = m /\ vpc[j] = "unborn" /\ vpc'[j] = "start"
<1>1. CASE Create
  <2>1. m < N => m \in Vcpus /\ vpc[m] = "unborn"
    BY <1>1, VcpuFacts DEF ThreadsInv, TypeOK, Create
  <2> QED BY <1>1, <2>1 DEF Create, Ahead, ReplayOnlyAtEnd, TypeOK
<1>2. CASE ~Create
  <2>1. vpc' = vpc /\ running' = running /\ handled' = handled
    BY <1>2 DEF MainStep, Join0, ClearCpu0, ExitPause, ExitKill, ExitJoin, FreeCpus, cpuVars
  <2> QED BY <2>1 DEF Ahead, ReplayOnlyAtEnd
<1> QED BY <1>1, <1>2

-----------------------------------------------------------------------------
(* The parts of the invariant, one by one                                  *)

\* No step brings a finished vCPU thread back or makes a stopped one run
\* again.
LEMMA ReplayStep ==
  ASSUME TypeOK, ReplayOnlyAtEnd, ThreadsInv, Next
  PROVE  /\ ReplayOnlyAtEnd'
         /\ \A j \in Vcpus : vpc[j] = "dead" => vpc'[j] = "dead"
         /\ \A j \in Vcpus : running'[j] => running[j]
<1>1. CASE IpcRequest \/ IpcStep
  BY <1>1, IpcFrame DEF ReplayOnlyAtEnd
<1>2. CASE MainStep
  BY <1>2, MainAhead DEF ReplayOnlyAtEnd, Ahead
<1>3. ASSUME NEW i \in Vcpus, VcpuStep(i) \/ VGuestExit(i) \/ Deliver(i)
      PROVE  \A j \in Vcpus : Ahead(j)
  BY <1>3, ThreadAhead
<1> QED BY <1>1, <1>2, <1>3 DEF Next, ReplayOnlyAtEnd, Ahead

\* Every step keeps ThreadsInv.
LEMMA ThreadsStep ==
  ASSUME TypeOK, ReplayOnlyAtEnd, ThreadsInv, Next
  PROVE  ThreadsInv'
<1>1. ASSUME NEW i \in Vcpus, VcpuStep(i) \/ VGuestExit(i) \/ Deliver(i)
      PROVE  ThreadsInv'
  <2>1. /\ UNCHANGED <<main, m, gone, freed>>
        /\ exitsig' \subseteq exitsig \cup {0}
    BY <1>1, VcpuFrame
  <2>2. /\ \A j \in Vcpus : vpc'[j] # "unborn" <=> vpc[j] # "unborn"
        /\ \A j \in Vcpus : running'[j] # running[j] => j \in exitsig
    BY <1>1, ThreadAhead
  <2> QED BY <2>1, <2>2 DEF ThreadsInv
<1>2. CASE IpcRequest \/ IpcStep
  <2>1. /\ UNCHANGED <<running, vpc, main, m, gone, freed>>
        /\ exitsig' \subseteq exitsig \cup {0}
    BY <1>2, IpcFrame
  <2> QED BY <2>1 DEF ThreadsInv
<1>f. N \in Nat \ {0} /\ m \in Nat /\ m <= N /\ 0 \in Vcpus
      /\ (\A i \in Vcpus : i \in Nat /\ i < N)
      /\ (m < N => m \in Vcpus)
  BY VcpuFacts DEF TypeOK
<1>3. CASE Create
  <2>1. CASE m < N
    <3>1. /\ vpc' = [vpc EXCEPT ![m] = "start"] /\ m' = m + 1 /\ main = "create"
          /\ UNCHANGED <<main, running, exitsig, gone, freed>>
      BY <1>f, <1>3, <2>1 DEF Create, sigVars
    <3>2. \A i \in Vcpus : vpc'[i] = "unborn" <=> i >= m + 1
      BY <1>f, <2>1, <3>1 DEF ThreadsInv, TypeOK
    <3> QED BY <1>f, <3>1, <3>2 DEF ThreadsInv
  <2>2. CASE m = N
    <3>1. main' = "join0" /\ main = "create" /\ UNCHANGED <<vpc, m, running, exitsig, gone, freed>>
      BY <1>f, <1>3, <2>2 DEF Create, sigVars
    <3> QED BY <1>f, <2>2, <3>1 DEF ThreadsInv
  <2> QED BY <1>f, <2>1, <2>2
<1>4. CASE Join0
  BY <1>f, <1>4 DEF Join0, ThreadsInv, cpuVars, sigVars
<1>5. CASE ClearCpu0 \/ FreeCpus
  BY <1>5 DEF ClearCpu0, FreeCpus, ThreadsInv, cpuVars, sigVars
<1>6. CASE ExitPause
  <2>1. \A i \in Vcpus : i < 1 => i = 0
    BY <1>f
  <2> QED BY <1>f, <1>6, <2>1 DEF ExitPause, ThreadsInv, cpuVars, sigVars
<1>7. CASE ExitKill
  <2>1. CASE m < N
    <3>1. m \in Vcpus \ {0} /\ m \notin gone => running[m]
      BY <1>7 DEF ExitKill, ThreadsInv
    <3>2. \A i \in Vcpus : i < m => i \in gone
      BY <1>7 DEF ExitKill, ThreadsInv
    <3>3. CASE running[m]
      <4>1. /\ exitsig' = exitsig \cup {m} /\ main' = "join" /\ main = "kill"
            /\ UNCHANGED <<m, running, vpc, gone, freed>>
        BY <1>f, <1>7, <2>1, <3>3 DEF ExitKill, cpuVars
      <4> QED BY <1>f, <2>1, <4>1 DEF ThreadsInv
    <3>4. CASE ~running[m]
      <4>1. /\ m' = m + 1 /\ main' = "kill" /\ main = "kill" /\ m >= 1
            /\ UNCHANGED <<exitsig, running, vpc, gone, freed>>
        BY <1>f, <1>7, <2>1, <3>4 DEF ExitKill, cpuVars, ThreadsInv
      <4>2. m \in gone
        BY <1>f, <2>1, <3>1, <3>4, <4>1
      <4>3. \A i \in Vcpus : i < m + 1 => i \in gone
        BY <1>f, <3>2, <4>2
      <4> QED BY <1>f, <4>1, <4>3 DEF ThreadsInv
    <3> QED BY <3>3, <3>4
  <2>2. CASE m = N
    <3>1. /\ main' = "free" /\ main = "kill"
          /\ UNCHANGED <<m, exitsig, running, vpc, gone, freed>>
      BY <1>f, <1>7, <2>2 DEF ExitKill, cpuVars
    <3>2. gone = Vcpus
      BY <1>f, <2>2, <3>1 DEF ThreadsInv, TypeOK
    <3> QED BY <1>f, <3>1, <3>2 DEF ThreadsInv
  <2> QED BY <1>f, <2>1, <2>2
<1>8. CASE ExitJoin
  <2>1. /\ main = "join" /\ main' = "kill" /\ gone' = gone \cup {m} /\ m' = m + 1
        /\ UNCHANGED <<exitsig, running, vpc, freed>>
        /\ m < N /\ m >= 1
    BY <1>8 DEF ExitJoin, cpuVars, sigVars, ThreadsInv
  <2>2. \A i \in Vcpus : i < m + 1 => i \in gone'
    BY <1>f, <2>1 DEF ThreadsInv
  <2> QED BY <1>f, <2>1, <2>2 DEF ThreadsInv
<1> QED BY <1>1, <1>2, <1>3, <1>4, <1>5, <1>6, <1>7, <1>8 DEF Next, MainStep

\* Every step keeps FreedAfterEnd.
LEMMA FreedStep ==
  ASSUME TypeOK, ReplayOnlyAtEnd, ThreadsInv, FreedAfterEnd, Next
  PROVE  FreedAfterEnd'
<1>0. \A j \in Vcpus : vpc[j] = "dead" => vpc'[j] = "dead"
  BY ReplayStep
<1>1. gone \subseteq Vcpus /\ 0 \in Vcpus
  BY VcpuFacts DEF TypeOK
<1>2. ASSUME gone' = gone, freed' = freed
      PROVE  FreedAfterEnd'
  BY <1>0, <1>1, <1>2 DEF FreedAfterEnd
<1>3. CASE IpcRequest \/ IpcStep
  BY <1>2, <1>3, IpcFrame
<1>4. ASSUME NEW i \in Vcpus, VcpuStep(i) \/ VGuestExit(i) \/ Deliver(i)
      PROVE  FreedAfterEnd'
  BY <1>2, <1>4, VcpuFrame
<1>5. CASE Create \/ ClearCpu0 \/ ExitPause \/ ExitKill
  BY <1>2, <1>5 DEF Create, ClearCpu0, ExitPause, ExitKill
<1>6. CASE Join0
  BY <1>0, <1>1, <1>6 DEF Join0, FreedAfterEnd
<1>7. CASE ExitJoin
  <2>1. m \in Vcpus
    BY <1>7, VcpuFacts DEF ExitJoin, ThreadsInv, TypeOK
  <2> QED BY <1>0, <1>1, <1>7, <2>1 DEF ExitJoin, Joinable, FreedAfterEnd
<1>8. CASE FreeCpus
  <2>1. gone = Vcpus
    BY <1>8 DEF FreeCpus, ThreadsInv
  <2> QED BY <1>0, <1>8, <2>1 DEF FreeCpus, FreedAfterEnd
<1> QED BY <1>3, <1>4, <1>5, <1>6, <1>7, <1>8 DEF Next, MainStep

\* Every step leaves the pause lock to be unlocked by its owner, and keeps
\* LockInv unless it faults.
LEMMA LockStep ==
  ASSUME LockInv, Next
  PROVE  /\ UnlockOwned' /\ (stopped' => isPaused')
         /\ fault' = "none" => LockInv'
<1>1. ASSUME NEW i \in Vcpus, VcpuStep(i) \/ VGuestExit(i) \/ Deliver(i)
      PROVE  LockInv'
  BY <1>1, VcpuFrame DEF LockInv
<1>2. CASE Create \/ Join0 \/ ClearCpu0 \/ FreeCpus
  BY <1>2 DEF Create, Join0, ClearCpu0, FreeCpus, LockInv, UnlockOwned, pauseVars, ipcVars
<1>3. CASE ExitPause
  BY <1>3 DEF ExitPause, PauseLockFree, LockInv, UnlockOwned, ipcVars
<1>4. CASE ExitKill
  BY <1>4 DEF ExitKill, LockInv, UnlockOwned, ipcVars
<1>5. CASE ExitJoin
  BY <1>5 DEF ExitJoin, LockInv, UnlockOwned, pauseVars, ipcVars
<1>6. CASE Pause \/ Resume
  BY <1>6 DEF Pause, Resume, LockInv, UnlockOwned, pauseVars, mainVars
<1>7. CASE Stop \/ TermExit
  BY <1>7 DEF Stop, TermExit, LockInv, UnlockOwned, pauseVars, ipcVars, mainVars
<1>8. CASE Debug
  BY <1>8 DEF Debug, LockInv, UnlockOwned, pauseVars, mainVars
<1>9. CASE PauseLock
  <2>1. lock = "free" /\ lock' = "ipc" /\ ipc = "lock" /\ main' = main
    BY <1>9 DEF PauseLock, PauseLockFree, mainVars
  <2>2. CASE fault' = "stale" /\ UNCHANGED <<ipc, isPaused, stopped>>
    BY <2>1, <2>2 DEF LockInv, UnlockOwned
  <2>3. CASE ipc' = "idle" /\ isPaused' = TRUE /\ stopped' = FALSE
    BY <2>1, <2>3 DEF LockInv, UnlockOwned
  <2>4. CASE ipc' = "kill" /\ UNCHANGED <<isPaused, stopped>>
    BY <2>1, <2>4 DEF LockInv, UnlockOwned
  <2> QED BY <1>9, <2>2, <2>3, <2>4 DEF PauseLock
<1>10. CASE PauseKill
  BY <1>10 DEF PauseKill, LockInv, UnlockOwned, mainVars
<1>11. CASE PauseRead
  BY <1>11 DEF PauseRead, LockInv, UnlockOwned, mainVars
<1>12. CASE DumpNext
  BY <1>12 DEF DumpNext, LockInv, UnlockOwned, pauseVars, mainVars
<1>13. CASE DumpWait
  BY <1>13 DEF DumpWait, LockInv, UnlockOwned, pauseVars, mainVars
<1>14. LockInv' => UnlockOwned' /\ (stopped' => isPaused')
  BY DEF LockInv, UnlockOwned
<1> QED BY <1>1, <1>2, <1>3, <1>4, <1>5, <1>6, <1>7, <1>8, <1>9, <1>10, <1>11, <1>12, <1>13, <1>14
        DEF Next, MainStep, IpcRequest, IpcStep

\* Only the pause handler and kvm_pause touch what CountInv is about.
PauseStep(i) == OnPause(i) \/ NotifyPaused(i) \/ Unpause(i)

\* What a vCPU thread's step that is no step of a pause leaves alone.
LEMMA VcpuQuiet ==
  ASSUME NEW i \in Vcpus, VcpuStep(i) \/ VGuestExit(i) \/ Deliver(i), ~PauseStep(i)
  PROVE  UNCHANGED <<hpc, paused, pausesig, event, counted, lock, ipc, k, stopped, isPaused>>
<1>1. CASE VStart(i) \/ VLoop(i) \/ VRun(i) \/ VEnterGuest(i) \/ VGuestExit(i)
  BY <1>1 DEF VStart, VLoop, VRun, VEnterGuest, VGuestExit, sigVars, pauseVars, ipcVars
<1>2. CASE VHandle(i)
  BY <1>2 DEF VHandle, pauseVars, ipcVars
<1>3. CASE OnExit(i) \/ OnUsr1(i)
  BY <1>3 DEF OnExit, OnUsr1, pauseVars, ipcVars
<1> QED BY <1>1, <1>2, <1>3 DEF VcpuStep, Deliver, PauseStep

\* The requests that kvm_pause has nothing to do with.
LEMMA IpcQuiet ==
  ASSUME IpcRequest \/ IpcStep, ~PauseLock, ~PauseKill, ~PauseRead
  PROVE  /\ UNCHANGED <<hpc, paused, pausesig, event, counted, vpc, running>>
         /\ (ipc' \in {"kill", "read"} <=> ipc \in {"kill", "read"})
         /\ (ipc' \in {"kill", "read"} => ipc' = ipc /\ k' = k)
         /\ (stopped' => stopped)
<1>1. CASE Pause \/ Resume \/ DumpWait
  BY <1>1 DEF Pause, Resume, DumpWait, cpuVars, sigVars, pauseVars
<1>2. CASE Stop \/ TermExit
  BY <1>2 DEF Stop, TermExit, cpuVars, pauseVars, ipcVars
<1>3. CASE Debug
  BY <1>3 DEF Debug, cpuVars, pauseVars
<1>4. CASE DumpNext
  BY <1>4 DEF DumpNext, cpuVars, pauseVars
<1> QED BY <1>1, <1>2, <1>3, <1>4 DEF IpcRequest, IpcStep

\* The three steps of the handler.
LEMMA HandlerEffect ==
  ASSUME TypeOK, HandlerInv, NeverRepaused, NEW i \in Vcpus, PauseStep(i)
  PROVE  /\ HandlerInv' /\ NeverRepaused'
         /\ UNCHANGED <<lock, counted, ipc, k, isPaused, stopped, running>>
         /\ \A j \in Vcpus : hpc[j] = "wait" /\ lock # "free" => hpc'[j] = "wait"
         /\ OnPause(i) /\ fault' = "none" => Pending' = Pending /\ event' = event
         /\ NotifyPaused(i) =>
              /\ i \in Pending /\ Pending' = Pending \ {i} /\ event' = event + 1
              /\ hpc'[i] = "wait"
         /\ Unpause(i) => Pending' = Pending /\ event' = event
<1>0. /\ hpc \in [Vcpus -> {"none", "write", "wait"}] /\ paused \in [Vcpus -> BOOLEAN]
      /\ pausesig \in SUBSET Vcpus
      /\ \A j \in Vcpus : paused[j] <=> hpc[j] # "none"
      /\ \A j \in pausesig : ~paused[j] /\ hpc[j] = "none"
  BY DEF TypeOK, HandlerInv, NeverRepaused
<1>1. CASE OnPause(i)
  <2>0. /\ i \in pausesig /\ hpc[i] = "none" /\ pausesig' = pausesig \ {i}
        /\ UNCHANGED <<lock, event, counted, ipc, k, isPaused, stopped, running>>
    BY <1>1 DEF OnPause, pauseVars, ipcVars, cpuVars
  <2>1. CASE PauseFault(i) # "none" /\ fault' = PauseFault(i) /\ UNCHANGED cpuVars
    BY <1>0, <1>1, <2>0, <2>1 DEF HandlerInv, NeverRepaused, cpuVars, NotifyPaused, Unpause
  <2>2. CASE /\ paused' = [paused EXCEPT ![i] = TRUE]
             /\ hpc' = [hpc EXCEPT ![i] = "write"]
    <3>1. Pending' = Pending
      BY <1>0, <2>0, <2>2 DEF Pending
    <3> QED BY <1>0, <2>0, <2>2, <3>1 DEF HandlerInv, NeverRepaused, NotifyPaused, Unpause
  <2> QED BY <1>1, <2>1, <2>2 DEF OnPause
<1>2. CASE NotifyPaused(i)
  <2>1. /\ hpc[i] = "write" /\ hpc' = [hpc EXCEPT ![i] = "wait"] /\ event' = event + 1
        /\ UNCHANGED <<paused, pausesig, lock, counted, ipc, k, isPaused, stopped, running>>
    BY <1>2 DEF NotifyPaused, sigVars, ipcVars
  <2>2. i \in Pending /\ Pending' = Pending \ {i}
    BY <1>0, <2>1 DEF Pending
  <2> QED BY <1>0, <2>1, <2>2 DEF HandlerInv, NeverRepaused, OnPause, Unpause
<1>3. CASE Unpause(i)
  <2>1. /\ hpc[i] = "wait" /\ lock = "free" /\ hpc' = [hpc EXCEPT ![i] = "none"]
        /\ paused' = [paused EXCEPT ![i] = FALSE]
        /\ UNCHANGED <<pausesig, event, lock, counted, ipc, k, isPaused, stopped, running>>
    BY <1>3 DEF Unpause, PauseLockFree, sigVars, pauseVars, ipcVars
  <2>2. Pending' = Pending
    BY <1>0, <2>1 DEF Pending
  <2> QED BY <1>0, <2>1, <2>2 DEF HandlerInv, NeverRepaused, OnPause, NotifyPaused
<1> QED BY <1>1, <1>2, <1>3 DEF PauseStep

\* kvm_pause asks only vCPUs whose handler does not run.
LEMMA KillEffect ==
  ASSUME TypeOK, HandlerInv, NeverRepaused, CountInv, PauseKill
  PROVE  /\ NeverRepaused'
         /\ UNCHANGED <<hpc, paused, running, vpc, event, lock, isPaused, stopped>>
         /\ k = N => ipc' = "read" /\ k' = k /\ counted' = counted /\ Pending' = Pending
         /\ k < N /\ fault' = "none" =>
              /\ ipc' = "kill" /\ k' = k + 1 /\ k \in Vcpus \ Pending
              /\ vpc[k] # "unborn" \/ ~MustSignal(k)
              /\ \/ MustSignal(k) /\ Pending' = Pending \cup {k} /\ counted' = counted
                 \/ ~MustSignal(k) /\ Pending' = Pending /\ counted' = counted + 1
<1>0. /\ \A j \in Vcpus : paused[j] <=> hpc[j] # "none"
      /\ \A j \in pausesig : ~paused[j] /\ hpc[j] = "none"
      /\ pausesig \in SUBSET Vcpus
      /\ N \in Nat /\ k \in Nat /\ k <= N /\ (k < N => k \in Vcpus)
  BY VcpuFacts DEF TypeOK, HandlerInv, NeverRepaused
<1>1. /\ ipc = "kill" /\ fault = "none"
      /\ UNCHANGED <<hpc, paused, running, vpc, event, lock, isPaused, stopped>>
  BY <1>0 DEF PauseKill, Up, cpuVars
<1>2. k \notin Pending
  BY <1>0, <1>1 DEF CountInv, Pending
<1>3. CASE k < N /\ fault' = "stale" /\ UNCHANGED <<pausesig, counted, ipc, k>>
  BY <1>0, <1>1, <1>3 DEF NeverRepaused
<1>4. CASE /\ k < N /\ MustSignal(k) /\ k' = k + 1 /\ UNCHANGED <<counted, ipc>>
           /\ IF vpc[k] = "unborn"
              THEN fault' = "nothread" /\ UNCHANGED pausesig
              ELSE pausesig' = pausesig \cup {k} /\ UNCHANGED fault
  <2>1. ~paused[k] /\ hpc[k] = "none"
    BY <1>0, <1>4 DEF MustSignal
  <2>2. CASE vpc[k] = "unborn"
    BY <1>0, <1>1, <1>4, <2>2 DEF NeverRepaused
  <2>3. CASE vpc[k] # "unborn"
    <3>1. Pending' = Pending \cup {k}
      BY <1>0, <1>1, <1>4, <2>3 DEF Pending
    <3>2. NeverRepaused'
      BY <1>0, <1>1, <1>4, <2>1, <2>3 DEF NeverRepaused
    <3> QED BY <1>0, <1>1, <1>2, <1>4, <2>3, <3>1, <3>2
  <2> QED BY <2>2, <2>3
<1>5. CASE /\ k < N /\ ~MustSignal(k) /\ counted' = counted + 1 /\ k' = k + 1
           /\ UNCHANGED <<pausesig, ipc, fault>>
  <2>1. Pending' = Pending
    BY <1>1, <1>5 DEF Pending
  <2> QED BY <1>0, <1>1, <1>2, <1>5, <2>1 DEF NeverRepaused
<1>6. CASE k = N /\ ipc' = "read" /\ UNCHANGED <<pausesig, counted, k, fault>>
  <2>1. Pending' = Pending
    BY <1>1, <1>6 DEF Pending
  <2> QED BY <1>0, <1>1, <1>6, <2>1 DEF NeverRepaused
<1> QED BY <1>3, <1>4, <1>5, <1>6 DEF PauseKill

\* Every step keeps HandlerInv, UnbornInv and NeverRepaused.
LEMMA HandlerStep ==
  ASSUME TypeOK, ReplayOnlyAtEnd, ThreadsInv, HandlerInv, UnbornInv, NeverRepaused, CountInv, Next
  PROVE  HandlerInv' /\ NeverRepaused' /\ UnbornInv'
<1>1. ASSUME NEW i \in Vcpus, VcpuStep(i) \/ VGuestExit(i) \/ Deliver(i)
      PROVE  HandlerInv' /\ NeverRepaused' /\ UnbornInv'
  <2>1. /\ \A j \in Vcpus : vpc'[j] = "unborn" => vpc[j] = "unborn"
        /\ \A j \in Vcpus : running'[j] # running[j] => vpc[j] # "unborn"
    BY <1>1, ThreadAhead DEF Ahead
  <2>2. CASE PauseStep(i)
    <3>1. HandlerInv' /\ NeverRepaused'
      BY <2>2, HandlerEffect
    <3>2. \A j \in Vcpus : vpc[j] = "unborn" /\ hpc[j] = "none" => hpc'[j] = "none"
      BY <2>2 DEF PauseStep, OnPause, Alive, NotifyPaused, Unpause, TypeOK, cpuVars
    <3> QED BY <2>1, <3>1, <3>2 DEF UnbornInv
  <2>3. CASE ~PauseStep(i)
    BY <1>1, <2>1, <2>3, VcpuQuiet DEF HandlerInv, NeverRepaused, UnbornInv
  <2> QED BY <2>2, <2>3
<1>2. CASE IpcRequest \/ IpcStep
  <2>1. HandlerInv' /\ UnbornInv'
    BY <1>2, IpcFrame DEF HandlerInv, UnbornInv
  <2>2. CASE PauseKill
    BY <2>1, <2>2, KillEffect
  <2>3. CASE ~PauseKill
    <3>1. UNCHANGED <<hpc, paused, pausesig>>
      BY <1>2, <2>3, IpcQuiet DEF PauseLock, PauseRead, cpuVars, sigVars
    <3> QED BY <2>1, <3>1 DEF NeverRepaused
  <2> QED BY <2>2, <2>3
<1>3. CASE MainStep
  <2>1. UNCHANGED <<hpc, paused, pausesig, running>>
    BY <1>3, MainFrame
  <2>2. \A j \in Vcpus : vpc'[j] = "unborn" => vpc[j] = "unborn"
    BY <1>3, MainAhead DEF Ahead
  <2> QED BY <2>1, <2>2 DEF HandlerInv, NeverRepaused, UnbornInv
<1> QED BY <1>1, <1>2, <1>3 DEF Next

\* Every step that does not fault keeps CountInv.
LEMMA CountStep ==
  ASSUME TypeOK, HandlerInv, NeverRepaused, CountInv, Next, fault' = "none"
  PROVE  CountInv'
<1>0. /\ event \in Nat /\ counted \in Nat /\ k \in Nat /\ N \in Nat \ {0} /\ k <= N
  BY VcpuFacts DEF TypeOK
<1>p. /\ Pending \in SUBSET Vcpus
      /\ Cardinality(Pending) \in Nat
      /\ (Cardinality(Pending) = 0 <=> Pending = {})
      /\ \A i \in Pending : i \in Nat
  <2>1. Pending \in SUBSET Vcpus
    BY DEF Pending
  <2> QED BY <2>1, PendingCounted, VcpuFacts
<1>q. ASSUME UNCHANGED <<hpc, pausesig>>
      PROVE  Pending' = Pending
  BY <1>q DEF Pending
<1>1. ASSUME NEW i \in Vcpus, VcpuStep(i) \/ VGuestExit(i) \/ Deliver(i)
      PROVE  CountInv'
  <2>1. CASE ~PauseStep(i)
    <3>1. UNCHANGED <<hpc, pausesig, event, counted, ipc, k>>
      BY <1>1, <2>1, VcpuQuiet
    <3> QED BY <1>q, <3>1 DEF CountInv
  <2>2. CASE OnPause(i) \/ Unpause(i)
    <3>1. UNCHANGED <<counted, ipc, k, event>> /\ Pending' = Pending
      BY <2>2, HandlerEffect DEF PauseStep
    <3> QED BY <3>1 DEF CountInv
  <2>3. CASE NotifyPaused(i)
    <3>1. /\ UNCHANGED <<counted, ipc, k>> /\ event' = event + 1
          /\ i \in Pending /\ Pending' = Pending \ {i}
      BY <2>3, HandlerEffect DEF PauseStep
    <3>2. Cardinality(Pending') = Cardinality(Pending) - 1
      BY <1>0, <1>p, <3>1, PendingCounted
    <3>3. ipc \in {"kill", "read"} /\ event + counted + Cardinality(Pending) = k
      BY <3>1 DEF CountInv
    <3> QED BY <1>0, <1>p, <3>1, <3>2, <3>3 DEF CountInv
  <2> QED BY <2>1, <2>2, <2>3 DEF PauseStep
<1>2. CASE MainStep
  <2>1. UNCHANGED <<hpc, pausesig, event, counted, ipc, k>>
    BY <1>2, MainFrame
  <2> QED BY <1>q, <2>1 DEF CountInv
<1>3. CASE PauseLock
  <2>1. UNCHANGED <<hpc, pausesig>> /\ ipc = "lock"
    BY <1>3 DEF PauseLock, cpuVars, sigVars
  <2>2. Pending = {} /\ Pending' = {} /\ Cardinality({}) = 0
    BY <1>q, <2>1, FS_EmptySet DEF CountInv
  <2>3. CASE ipc' = "idle"
    BY <2>2, <2>3 DEF CountInv
  <2>4. CASE event' = 0 /\ counted' = 0 /\ k' = 0 /\ ipc' = "kill"
    BY <2>2, <2>4 DEF CountInv
  <2> QED BY <1>3, <2>3, <2>4 DEF PauseLock
<1>4. CASE PauseKill
  <2>0. ipc = "kill" /\ event + counted + Cardinality(Pending) = k /\ \A i \in Pending : i < k
    BY <1>4 DEF PauseKill, CountInv
  <2>1. CASE k = N
    <3>1. ipc' = "read" /\ k' = k /\ counted' = counted /\ Pending' = Pending /\ event' = event
      BY <1>4, <2>1, KillEffect
    <3> QED BY <2>0, <2>1, <3>1 DEF CountInv, TypeOK
  <2>2. CASE k < N
    <3>1. /\ ipc' = "kill" /\ k' = k + 1 /\ k \in Vcpus \ Pending /\ event' = event
          /\ \/ Pending' = Pending \cup {k} /\ counted' = counted
             \/ Pending' = Pending /\ counted' = counted + 1
      BY <1>4, <2>2, KillEffect
    <3>2. Cardinality(Pending \cup {k}) = Cardinality(Pending) + 1
      BY <1>0, <1>p, <3>1, PendingCounted
    <3>3. \A i \in Pending \cup {k} : i < k + 1
      BY <1>0, <1>p, <2>0
    <3>4. event' + counted' + Cardinality(Pending') = k + 1
      <4>1. CASE Pending' = Pending \cup {k} /\ counted' = counted
        BY <1>0, <1>p, <2>0, <3>1, <3>2, <4>1
      <4>2. CASE Pending' = Pending /\ counted' = counted + 1
        BY <1>0, <1>p, <2>0, <3>1, <4>2
      <4> QED BY <3>1, <4>1, <4>2
    <3> QED BY <3>1, <3>3, <3>4 DEF CountInv
  <2> QED BY <1>0, <1>p, <2>1, <2>2
<1>5. CASE PauseRead
  <2>0. /\ UNCHANGED <<hpc, pausesig, k>> /\ ipc = "read"
        /\ k = N /\ event + counted + Cardinality(Pending) = N
    BY <1>5 DEF PauseRead, cpuVars, sigVars, CountInv
  <2>1. Pending' = Pending
    BY <1>q, <2>0
  <2>2. CASE counted' = counted + event /\ event' = 0 /\ ipc' = ipc
    <3>1. event' + counted' + Cardinality(Pending') = k'
      BY <1>0, <1>p, <2>0, <2>1, <2>2
    <3> QED BY <2>0, <2>1, <2>2, <3>1 DEF CountInv
  <2>3. CASE ~(counted < N) /\ ipc' = "idle"
    <3>1. Pending = {}
      BY <1>0, <1>p, <2>0, <2>3
    <3> QED BY <2>1, <2>3, <3>1 DEF CountInv
  <2> QED BY <1>5, <2>2, <2>3 DEF PauseRead, EventAfterRead, StillWaiting
<1>6. CASE (IpcRequest \/ IpcStep) /\ ~PauseLock /\ ~PauseKill /\ ~PauseRead
  <2>1. /\ UNCHANGED <<hpc, pausesig, event, counted>>
        /\ (ipc' \in {"kill", "read"} <=> ipc \in {"kill", "read"})
        /\ (ipc' \in {"kill", "read"} => ipc' = ipc /\ k' = k)
    BY <1>6, IpcQuiet
  <2>2. ipc' = "spin" => k' < N
    BY <1>6 DEF IpcRequest, IpcStep, Pause, Resume, Stop, TermExit, Debug, DumpNext, DumpWait,
                ipcVars, CountInv
  <2> QED BY <1>q, <2>1, <2>2 DEF CountInv
<1> QED BY <1>1, <1>2, <1>3, <1>4, <1>5, <1>6 DEF Next

\* While pause_lock is the IPC thread's, a parked vCPU stays parked and one that was
\* asked to park is asked until it is.
LEMMA ParkStep ==
  ASSUME TypeOK, Living, ReplayOnlyAtEnd, NeverRepaused, PauseParks, Next
  PROVE  /\ PauseParks'
         /\ fault' = "none" => ParkInv'
<1>0. /\ k \in Nat /\ N \in Nat \ {0} /\ k <= N
      /\ \A i \in Vcpus : i \in Nat /\ i < N
      /\ hpc \in [Vcpus -> {"none", "write", "wait"}]
      /\ \A i \in Vcpus : paused[i] <=> hpc[i] # "none"
  BY VcpuFacts DEF TypeOK, Living, HandlerInv
<1>l. UnlockOwned' /\ (stopped' => isPaused')
  BY LockStep DEF Living
<1>a. /\ \A j \in Vcpus : vpc[j] = "dead" => vpc'[j] = "dead"
      /\ \A j \in Vcpus : running'[j] => running[j]
  BY ReplayStep DEF Living
\* A step that leaves kvm_pause where it is.
<1>s. ASSUME UNCHANGED <<ipc, k, stopped>>,
             \A j \in Vcpus : vpc'[j] = "unborn" => vpc[j] = "unborn",
             \A j \in Vcpus : vpc[j] # "unborn" /\ vpc'[j] # "dead" => vpc[j] # "dead",
             \A j \in Vcpus : hpc[j] = "wait" /\ lock = "ipc" => hpc'[j] = "wait"
      PROVE  /\ PauseParks'
             /\ (\A j \in Pending : j \in Pending' \/ hpc'[j] = "wait") => ParkInv'
  <2>1. stopped => lock = "ipc" /\ \A j \in Vcpus : vpc[j] # "unborn"
    BY DEF PauseParks, Living, ParkInv
  <2>2. ipc \in {"kill", "read"} => lock = "ipc"
    BY DEF Living, LockInv
  <2>3. PauseParks'
    <3> SUFFICES ASSUME stopped'
                 PROVE  /\ isPaused' /\ lock' = "ipc"
                        /\ \A i \in Vcpus : running'[i] /\ vpc'[i] # "dead" => hpc'[i] = "wait"
      BY DEF PauseParks
    <3>1. stopped /\ lock = "ipc"
      BY <1>s, <2>1
    <3>2. ASSUME NEW i \in Vcpus, running'[i], vpc'[i] # "dead"
          PROVE  hpc'[i] = "wait"
      <4>1. running[i] /\ vpc[i] # "dead"
        BY <1>a, <1>s, <2>1, <3>1, <3>2
      <4>2. hpc[i] = "wait"
        BY <3>1, <4>1 DEF PauseParks
      <4> QED BY <1>s, <3>1, <4>2
    <3> QED BY <1>l, <3>2 DEF UnlockOwned
  <2>4. ASSUME \A j \in Pending : j \in Pending' \/ hpc'[j] = "wait"
        PROVE  ParkInv'
    <3>1. stopped' => \A i \in Vcpus : vpc'[i] # "unborn"
      BY <1>s, <2>1
    <3>2. ASSUME ipc' \in {"kill", "read"}, NEW i \in Vcpus, i < k'
          PROVE  /\ vpc'[i] # "unborn"
                 /\ running'[i] /\ vpc'[i] # "dead" => i \in Pending' \/ hpc'[i] = "wait"
      <4>1. ipc \in {"kill", "read"} /\ i < k
        BY <1>s, <3>2
      <4>2. /\ vpc[i] # "unborn"
            /\ running[i] /\ vpc[i] # "dead" => i \in Pending \/ hpc[i] = "wait"
        BY <4>1 DEF ParkInv, Living
      <4>3. ASSUME running'[i], vpc'[i] # "dead"
            PROVE  i \in Pending' \/ hpc'[i] = "wait"
        BY <1>a, <1>s, <2>2, <2>4, <4>1, <4>2, <4>3
      <4> QED BY <1>s, <4>2, <4>3
    <3> QED BY <3>1, <3>2 DEF ParkInv
  <2> QED BY <2>3, <2>4
<1>1. ASSUME NEW i \in Vcpus, VcpuStep(i) \/ VGuestExit(i) \/ Deliver(i)
      PROVE  PauseParks' /\ (fault' = "none" => ParkInv')
  <2>1. /\ \A j \in Vcpus : vpc'[j] = "unborn" => vpc[j] = "unborn"
        /\ \A j \in Vcpus : vpc[j] # "unborn" /\ vpc'[j] # "dead" => vpc[j] # "dead"
    BY <1>1, ThreadAhead DEF Ahead
  <2>2. UNCHANGED <<ipc, k, stopped>>
    BY <1>1, VcpuFrame
  <2>3. CASE ~PauseStep(i)
    <3>1. UNCHANGED <<hpc, pausesig>>
      BY <1>1, <2>3, VcpuQuiet
    <3>2. Pending' = Pending
      BY <3>1 DEF Pending
    <3> QED BY <1>s, <2>1, <2>2, <3>1, <3>2
  <2>4. CASE PauseStep(i)
    <3>1. \A j \in Vcpus : hpc[j] = "wait" /\ lock = "ipc" => hpc'[j] = "wait"
      BY <2>4, HandlerEffect DEF Living
    <3>2. fault' = "none" => \A j \in Pending : j \in Pending' \/ hpc'[j] = "wait"
      BY <2>4, HandlerEffect DEF Living, PauseStep
    <3> QED BY <1>s, <2>1, <2>2, <3>1, <3>2
  <2> QED BY <2>3, <2>4
<1>2. CASE MainStep
  <2>1. UNCHANGED <<hpc, pausesig, ipc, k, stopped>>
    BY <1>2, MainFrame
  <2>2. /\ \A j \in Vcpus : vpc'[j] = "unborn" => vpc[j] = "unborn"
        /\ \A j \in Vcpus : vpc[j] # "unborn" /\ vpc'[j] # "dead" => vpc[j] # "dead"
    BY <1>2, MainAhead DEF Ahead, Living
  <2>3. Pending' = Pending
    BY <2>1 DEF Pending
  <2> QED BY <1>s, <2>1, <2>2, <2>3
<1>3. CASE (IpcRequest \/ IpcStep) /\ ~PauseLock /\ ~PauseKill /\ ~PauseRead
  <2>1. /\ UNCHANGED <<hpc, pausesig, vpc, running>>
        /\ (ipc' \in {"kill", "read"} <=> ipc \in {"kill", "read"})
        /\ (ipc' \in {"kill", "read"} => ipc' = ipc /\ k' = k)
        /\ (stopped' => stopped)
    BY <1>3, IpcQuiet
  <2>2. Pending' = Pending
    BY <2>1 DEF Pending
  <2>3. PauseParks'
    BY <1>l, <2>1 DEF PauseParks, UnlockOwned
  <2>4. ParkInv'
    BY <2>1, <2>2 DEF ParkInv, Living
  <2> QED BY <2>3, <2>4
<1>4. CASE PauseLock
  <2>1. UNCHANGED <<hpc, pausesig, vpc, running>> /\ ipc = "lock"
    BY <1>4 DEF PauseLock, cpuVars, sigVars
  <2>2. ~stopped
    BY <2>1 DEF Living, LockInv
  <2>3. ~stopped'
    BY <1>4, <2>2 DEF PauseLock
  <2>4. fault' = "none" => ipc' = "idle" \/ (ipc' = "kill" /\ k' = 0)
    BY <1>4 DEF PauseLock
  <2>5. \A i \in Vcpus : ~(i < 0)
    BY <1>0
  <2> QED BY <2>3, <2>4, <2>5 DEF PauseParks, ParkInv
<1>5. CASE PauseKill
  <2>0. ipc = "kill" /\ ~stopped
    BY <1>5 DEF PauseKill, Living, LockInv
  <2>1. UNCHANGED <<hpc, paused, running, vpc, stopped>>
    BY <1>5, KillEffect DEF Living
  <2>2. PauseParks'
    BY <2>0, <2>1 DEF PauseParks
  <2>3. ASSUME fault' = "none", k < N
        PROVE  ParkInv'
    <3>1. /\ ipc' = "kill" /\ k' = k + 1 /\ k \in Vcpus \ Pending
          /\ vpc[k] # "unborn" \/ ~MustSignal(k)
          /\ \/ MustSignal(k) /\ Pending' = Pending \cup {k}
             \/ ~MustSignal(k) /\ Pending' = Pending
      BY <1>5, <2>3, KillEffect DEF Living
    <3>2. vpc[k] = "unborn" => running[k] /\ ~paused[k]
      BY <1>0, <3>1 DEF Living, UnbornInv
    <3>3. vpc[k] # "unborn"
      BY <3>1, <3>2 DEF MustSignal
    <3>4. running[k] => k \in Pending' \/ hpc[k] = "wait"
      BY <1>0, <3>1 DEF MustSignal, Pending
    <3>5. \A i \in Vcpus : i < k + 1 => i < k \/ i = k
      BY <1>0
    <3> QED BY <2>0, <2>1, <3>1, <3>3, <3>4, <3>5 DEF ParkInv, Living
  <2>4. ASSUME k = N
        PROVE  ParkInv'
    <3>1. ipc' = "read" /\ k' = k /\ Pending' = Pending
      BY <1>5, <2>4, KillEffect DEF Living
    <3> QED BY <2>0, <2>1, <3>1 DEF ParkInv, Living
  <2> QED BY <1>0, <2>2, <2>3, <2>4
<1>6. CASE PauseRead
  <2>0. /\ UNCHANGED <<hpc, pausesig, vpc, running, k, lock>> /\ ipc = "read" /\ ~stopped /\ k = N
    BY <1>6 DEF PauseRead, cpuVars, sigVars, Living, LockInv, CountInv
  <2>1. Pending' = Pending
    BY <2>0 DEF Pending
  <2>2. CASE ipc' = ipc /\ stopped' = stopped
    BY <2>0, <2>1, <2>2 DEF PauseParks, ParkInv, Living
  <2>3. CASE ~(counted < N) /\ ipc' = "idle"
    <3>1. event \in Nat /\ counted \in Nat /\ Cardinality(Pending) \in Nat
          /\ event + counted + Cardinality(Pending) = N
      BY <2>0, CountFacts DEF Living, CountInv, TypeOK
    <3>2. Cardinality(Pending) = 0
      BY <1>0, <2>3, <3>1
    <3>3. Pending \in SUBSET Vcpus
      BY DEF Pending
    <3>4. Pending = {}
      BY <3>2, <3>3, PendingCounted
    <3>5. \A i \in Vcpus : vpc[i] # "unborn" /\ (running[i] /\ vpc[i] # "dead" => hpc[i] = "wait")
      BY <1>0, <2>0, <3>4 DEF ParkInv, Living
    <3> QED BY <1>l, <2>0, <2>3, <3>5 DEF PauseParks, UnlockOwned, ParkInv
  <2> QED BY <1>6, <2>2, <2>3 DEF PauseRead, StillWaiting
<1> QED BY <1>1, <1>2, <1>3, <1>4, <1>5, <1>6 DEF Next

\* Every step keeps DumpInv.
LEMMA DumpStep ==
  ASSUME TypeOK, DumpInv, Next
  PROVE  DumpInv'
<1> SUFFICES ASSUME ~NmiInUse
             PROVE  DumpInv'
  BY DEF DumpInv
<1>1. ASSUME NEW i \in Vcpus, VcpuStep(i) \/ VGuestExit(i) \/ Deliver(i)
      PROVE  DumpInv'
  <2>1. CASE OnUsr1(i)
    <3>1. i \in usr1 /\ usr1' = usr1 \ {i} /\ UNCHANGED <<ipc, k>>
      BY <2>1 DEF OnUsr1
    <3>2. ipc = "spin" /\ usr1 \subseteq {k}
      BY <3>1 DEF DumpInv
    <3> QED BY <3>1, <3>2 DEF DumpInv
  <2>2. CASE ~OnUsr1(i)
    <3>1. UNCHANGED <<usr1, ipc, k, printed>>
      BY <1>1, <2>2 DEF VcpuStep, VGuestExit, Deliver, VStart, VLoop, VRun, VEnterGuest, VHandle,
            NotifyPaused, Unpause, OnExit, OnPause, sigVars, ipcVars
    <3> QED BY <3>1 DEF DumpInv
  <2> QED BY <2>1, <2>2
<1>2. CASE MainStep
  BY <1>2, MainFrame DEF DumpInv
<1>3. CASE Pause \/ Resume \/ Stop \/ TermExit \/ PauseLock
  BY <1>3 DEF Pause, Resume, Stop, TermExit, PauseLock, DumpInv, sigVars, ipcVars
<1>4. CASE PauseKill
  BY <1>4 DEF PauseKill, DumpInv
<1>5. CASE PauseRead
  BY <1>5 DEF PauseRead, DumpInv, sigVars
<1>6. CASE Debug
  <2>1. ipc = "idle" /\ ipc' = "dump" /\ usr1' = usr1
    BY <1>6 DEF Debug, NmiInUse
  <2> QED BY <2>1 DEF DumpInv
<1>7. CASE DumpNext
  BY <1>7 DEF DumpNext, DumpInv
<1>8. CASE DumpWait
  BY <1>8 DEF DumpWait, PrintoutDone, DumpInv, sigVars
<1> QED BY <1>1, <1>2, <1>3, <1>4, <1>5, <1>6, <1>7, <1>8 DEF Next, IpcRequest, IpcStep

-----------------------------------------------------------------------------
(* The invariant is inductive                                              *)

\* VcpuIInv holds before the vCPUs are created.
LEMMA VcpuInit == Init => VcpuIInv
<1> SUFFICES ASSUME Init
             PROVE  VcpuIInv
  OBVIOUS
<1>1. N \in Nat \ {0} /\ 0 \in 0 .. N /\ \A i \in Vcpus : i >= 0
  BY VcpuFacts
<1>2. TypeOK
  <2>1. requests \in 0 .. MaxRequests
    BY VcpuAssumption DEF Init
  <2> QED BY <1>1, <2>1 DEF Init, TypeOK, Reasons
<1>3. UnlockOwned /\ ReplayOnlyAtEnd /\ DumpSerial /\ FreedAfterEnd /\ NeverRepaused /\ PauseParks
  BY DEF Init, UnlockOwned, ReplayOnlyAtEnd, DumpSerial, FreedAfterEnd, NeverRepaused, PauseParks
<1>4. HandlerInv /\ UnbornInv /\ LockInv /\ ParkInv /\ DumpInv
  BY DEF Init, HandlerInv, UnbornInv, LockInv, ParkInv, DumpInv
<1>5. ThreadsInv
  BY <1>1 DEF Init, ThreadsInv
<1>6. CountInv
  BY DEF Init, CountInv, Pending
<1> QED BY <1>2, <1>3, <1>4, <1>5, <1>6 DEF VcpuIInv, VcpuInv, Living

\* A process that has faulted takes no step.
LEMMA NextAlive == Next => fault = "none"
BY DEF Next, VcpuStep, VGuestExit, Deliver, IpcRequest, IpcStep, MainStep,
       VStart, VLoop, VRun, VEnterGuest, VHandle, NotifyPaused, Unpause,
       OnExit, OnPause, OnUsr1, Pause, Resume, Stop, TermExit, Debug,
       PauseLock, PauseKill, PauseRead, DumpNext, DumpWait,
       Create, Join0, ClearCpu0, ExitPause, ExitKill, ExitJoin, FreeCpus,
       OwnCode, Up, Request

\* Every step, or a stutter, keeps VcpuIInv.
LEMMA VcpuIInvStep == VcpuIInv /\ [Next]_vars => VcpuIInv'
<1> SUFFICES ASSUME VcpuIInv, [Next]_vars
             PROVE  VcpuIInv'
  OBVIOUS
<1>1. CASE Next
  <2>0. /\ TypeOK /\ Living /\ ReplayOnlyAtEnd /\ FreedAfterEnd /\ NeverRepaused /\ PauseParks
        /\ HandlerInv /\ UnbornInv /\ ThreadsInv /\ LockInv /\ CountInv /\ DumpInv
    BY <1>1, NextAlive DEF VcpuIInv, VcpuInv, Living
  <2>1. TypeOK'
    BY <1>1, <2>0, VcpuTypes, IpcTypes, MainTypes DEF Next
  <2>2. ReplayOnlyAtEnd' /\ ThreadsInv' /\ FreedAfterEnd'
    BY <1>1, <2>0, ReplayStep, ThreadsStep, FreedStep
  <2>3. HandlerInv' /\ NeverRepaused' /\ UnbornInv'
    BY <1>1, <2>0, HandlerStep
  <2>4. UnlockOwned' /\ (fault' = "none" => LockInv')
    BY <1>1, <2>0, LockStep
  <2>5. fault' = "none" => CountInv'
    BY <1>1, <2>0, CountStep
  <2>6. PauseParks' /\ (fault' = "none" => ParkInv')
    BY <1>1, <2>0, ParkStep
  <2>7. DumpInv' /\ DumpSerial'
    <3>1. DumpInv'
      BY <1>1, <2>0, DumpStep
    <3> QED BY <3>1 DEF DumpInv, DumpSerial
  <2> QED BY <2>1, <2>2, <2>3, <2>4, <2>5, <2>6, <2>7 DEF VcpuIInv, VcpuInv, Living
<1>2. CASE UNCHANGED vars
  <2>1. Pending' = Pending
    BY <1>2 DEF vars, cpuVars, sigVars, Pending
  <2>2. Living => Living'
    BY <1>2, <2>1 DEF vars, cpuVars, sigVars, pauseVars, ipcVars, mainVars,
       Living, HandlerInv, UnbornInv, ThreadsInv, LockInv, CountInv, ParkInv, DumpInv
  <2>3. (VcpuInv /\ NeverRepaused /\ PauseParks)'
    BY <1>2 DEF vars, cpuVars, sigVars, pauseVars, ipcVars, mainVars, VcpuIInv,
       VcpuInv, TypeOK, UnlockOwned, ReplayOnlyAtEnd, DumpSerial, FreedAfterEnd,
       NeverRepaused, PauseParks
  <2>4. fault' = fault
    BY <1>2 DEF vars
  <2> QED BY <2>2, <2>3, <2>4 DEF VcpuIInv
<1> QED BY <1>1, <1>2

\* No order of guest exits, signals, commands and teardown breaks what kvm_cpu.c,
\* pause and kvm_cpu__exit share: pause_lock is unlocked by the thread that holds it,
\* an exit is handled twice only by a vCPU told to stop, a struct kvm_cpu is deleted
\* and the array freed only after its threads have ended, and the dumps of two vCPUs
\* do not mix as long as no NMI is asked for.
THEOREM VcpusSafe == Spec => []VcpuInv
<1>1. VcpuIInv => VcpuInv
  BY DEF VcpuIInv
<1> QED BY <1>1, VcpuInit, VcpuIInvStep, PTL DEF Spec

\* The die() of kvm_cpu_signal_handler is not reached by a second SIGKVMPAUSE: none
\* is on its way to a vCPU that has not left the handler of the one before, however
\* often and however fast the user pauses and resumes.
THEOREM NoSecondPause == Spec => []NeverRepaused
<1>1. VcpuIInv => NeverRepaused
  BY DEF VcpuIInv
<1> QED BY <1>1, VcpuInit, VcpuIInvStep, PTL DEF Spec

\* When kvm_pause returns, every vCPU is parked or on its way out, and stays so until
\* kvm_continue: the count of answers never runs ahead of the vCPUs that gave them.
THEOREM PauseHolds == Spec => []PauseParks
<1>1. VcpuIInv => PauseParks
  BY DEF VcpuIInv
<1> QED BY <1>1, VcpuInit, VcpuIInvStep, PTL DEF Spec
===============================================================================
