--------------------------- MODULE TransportProofs ---------------------------
(***************************************************************************)
(* Proofs about the parts of a virtio device around its queues: the status *)
(* and interrupt protocol (VirtioSignal), the console's receive job        *)
(* (Console), the rings handed to the kernel (VhostDevice) and the         *)
(* registers, doorbells and teardown of the transports (VirtioTransport).  *)
(* Each part has an inductive invariant of its own; a step of the          *)
(* composition is a step of one part and leaves the others alone.          *)
(***************************************************************************)
EXTENDS MCTransport, TLAPS, FiniteSetTheorems

-----------------------------------------------------------------------------
(* The status byte and the interrupt                                       *)

\* Somebody has stored its bit and is about to raise the interrupt.
Raising == \E s \in SgSignallers : spc[s] = "raise"
OnItsWay == line \/ Raising

\* Behind PCI the line stays up while the byte is not clear, except between the
\* two halves of a read of ISR.
PciStatus == bus = "pci" => (isr = {} \/ OnItsWay \/ hpc = "clear")

\* Behind MMIO the edge is gone once it is taken; from the read of the status on,
\* the bits that the handler has not seen come with an edge of their own.
MmioStatus ==
  bus \notin {"pci", "msix"} =>
    /\ hpc \in {"idle", "scan"} => isr = {} \/ OnItsWay
    /\ hpc = "low" => isr \ data = {} \/ OnItsWay
    /\ hpc = "clear" => ackv \ data = {} \/ OnItsWay

\* With MSI-X there is no status: a completion has its message, its pending bit or
\* the handler about to look.
MsixStatus ==
  bus = "msix" =>
    /\ isr = {} /\ hpc \in {"idle", "scan"}
    /\ \A s \in SgSignallers : spc[s] = "idle"
    /\ unseen => line \/ "queue" \in pba \/ hpc = "scan"

SgTypeOK ==
  /\ line \in BOOLEAN /\ unseen \in BOOLEAN
  /\ spc \in [SgSignallers -> {"idle", "store", "raise"}]
  /\ hpc \in {"idle", "read", "low", "clear", "scan"}

SignalIInv == SgTypeOK /\ PciStatus /\ MmioStatus /\ MsixStatus

\* A signaller's step keeps it: it stores its bit before it raises, and
\* whatever it overwrote is raised with it.
LEMMA SignallerKeeps ==
  ASSUME SignalIInv, NEW s \in SgSignallers,
         SignalMsix(s) \/ SignalLoad(s) \/ SignalStore(s) \/ SignalRaise(s) \/ WriteMaskBit(s)
  PROVE  SignalIInv'
<1> USE DEF SignalIInv, SgTypeOK, PciStatus, MmioStatus, MsixStatus, OnItsWay, Raising
<1>1. CASE SignalMsix(s)
  BY <1>1 DEF SignalMsix, Pending
<1>2. CASE SignalLoad(s)
  <2>1. /\ bus' = bus /\ bus # "msix" /\ line' = line /\ isr' = isr /\ hpc' = hpc
        /\ data' = data /\ ackv' = ackv /\ unseen' \in BOOLEAN
        /\ spc' \in [SgSignallers -> {"idle", "store", "raise"}]
        /\ \A u \in SgSignallers : spc[u] = "raise" => spc'[u] = "raise"
    BY <1>2 DEF SignalLoad
  <2> QED BY <2>1
<1>3. CASE SignalStore(s)
  <2>1. /\ bus' = bus /\ line' = line /\ hpc' = hpc /\ unseen' = unseen
        /\ data' = data /\ ackv' = ackv
        /\ spc' \in [SgSignallers -> {"idle", "store", "raise"}]
        /\ spc'[s] = "raise" /\ bus # "msix"
    BY <1>3 DEF SignalStore
  <2> QED BY <2>1
<1>4. CASE SignalRaise(s)
  <2>1. /\ bus' = bus /\ line' /\ line' \in BOOLEAN /\ hpc' = hpc /\ unseen' = unseen
        /\ data' = data /\ ackv' = ackv
        /\ spc' \in [SgSignallers -> {"idle", "store", "raise"}] /\ bus # "msix"
    BY <1>4 DEF SignalRaise, Raised
  <2> QED BY <2>1
<1>5. CASE WriteMaskBit(s)
  BY <1>5 DEF WriteMaskBit
<1> QED BY <1>1, <1>2, <1>3, <1>4, <1>5

\* The handler's steps keep it: it clears no bit that it has not seen and that has
\* no interrupt of its own.
LEMMA HandlerKeeps ==
  ASSUME SignalIInv,
         HandlerEnter \/ HandlerRead \/ HandlerLow \/ HandlerClear \/ HandlerScan
  PROVE  SignalIInv'
<1> USE DEF SignalIInv, SgTypeOK, PciStatus, MmioStatus, MsixStatus, OnItsWay, Raising
<1>1. CASE HandlerEnter
  BY <1>1 DEF HandlerEnter
<1>2. CASE HandlerRead
  BY <1>2 DEF HandlerRead
<1>3. CASE HandlerLow
  BY <1>3 DEF HandlerLow
<1>4. CASE HandlerClear
  BY <1>4 DEF HandlerClear, RemainingBits
<1>5. CASE HandlerScan
  BY <1>5 DEF HandlerScan, LooksAt
<1> QED BY <1>1, <1>2, <1>3, <1>4, <1>5

\* Every step of the signallers and the guest's handler, or a stutter, keeps
\* SignalIInv.
LEMMA SignalKept == ASSUME SignalIInv, [SgNext]_sgVars PROVE SignalIInv'
<1>1. CASE UNCHANGED sgVars
  BY <1>1 DEF sgVars, SignalIInv, SgTypeOK, PciStatus, MmioStatus, MsixStatus,
              OnItsWay, Raising
<1> QED BY <1>1, SignallerKeeps, HandlerKeeps DEF SgNext

-----------------------------------------------------------------------------
(* The console's receive job                                               *)

\* The job is signalled, waiting or running only while the queue has its ring;
\* vq_ready says so until exit_vq clears it, before the job is waited for.
ReceiveIInv ==
  /\ job \in {"idle", "lock", "run"} /\ vpc \in {"guest", "exit_lock", "cancel"}
  /\ signals \in Nat
  /\ owner = "job" <=> job = "run"
  /\ owner \in {"none", "job"}
  /\ vqReady => ringUp /\ vpc # "cancel"
  /\ job # "idle" \/ signals > 0 => ringUp
  /\ vpc # "guest" => ringUp
  /\ lateUse = FALSE

\* Every step of the console's threads, or a stutter, keeps ReceiveIInv.
LEMMA ReceiveKept == ASSUME ReceiveIInv, [CoNext]_coVars PROVE ReceiveIInv'
<1> USE DEF ReceiveIInv
<1>1. CASE Type \/ TermPoll \/ TermInject \/ GiveBuffer \/ TakeBuffer
  BY <1>1 DEF Type, TermPoll, TermInject, InjectWhenReady, GiveBuffer, TakeBuffer
<1>2. CASE JobStart \/ JobLock
  BY <1>2 DEF JobStart, JobLock
<1>5. CASE JobRun
  <2>1. job = "run" /\ ringUp /\ lateUse = FALSE
    BY <1>5 DEF JobRun
  <2>2. lateUse' = FALSE
    BY <1>5, <2>1 DEF JobRun
  <2> QED BY <1>5, <2>1, <2>2 DEF JobRun
<1>3. CASE ConsoleInitVq \/ ConsoleExitStart \/ ConsoleExitReady \/ ConsoleCancel
  BY <1>3 DEF ConsoleInitVq, ConsoleExitStart, ConsoleExitReady, ExitReleases, ConsoleCancel
<1>4. CASE UNCHANGED coVars
  BY <1>4 DEF coVars
<1> QED BY <1>1, <1>2, <1>3, <1>4, <1>5 DEF CoNext

-----------------------------------------------------------------------------
(* The rings in the kernel's hands                                         *)

VhTypeOK ==
  /\ session \in Nat
  /\ life \in {"none", "init", "ready", "freed", "failed"}
  /\ drv \in {"off", "setup", "ok", "zeroed"}
  /\ vring \in [VhQueues -> Nat] /\ irqfd \in [VhQueues -> Nat]
  /\ kring \in [VhQueues -> Nat] /\ kkick \in [VhQueues -> Nat]
  /\ kcall \in [VhQueues -> Nat]

\* A ring that is up was made by the driver that holds the device, and what the
\* kernel has of it too.
RingOfSession(q) ==
  vring[q] # 0 =>
    /\ vring[q] = session
    /\ Handed(q) => /\ kring[q] = session /\ kkick[q] = session
                    /\ kcall[q] = session /\ irqfd[q] = session

\* Where the life of the device and the driver stand to each other: a driver that
\* arrives finds no ring.
KernelIInv ==
  /\ VhTypeOK
  /\ ~died =>
       /\ drv \in {"setup", "ok", "zeroed"} => life = "ready"
       /\ life \in {"none", "init"} => ~kactive
       /\ life \in {"none", "init", "ready"} /\ drv \in {"off", "zeroed"} =>
            \A q \in VhQueues : vring[q] = 0
       /\ drv \in {"setup", "ok"} => \A q \in VhQueues : RingOfSession(q)
       /\ drv = "ok" => kactive /\ \A q \in VhQueues : vring[q] # 0
       /\ vh = "vsock" /\ life = "ready" /\ drv \in {"off", "setup"} => ~kactive

\* A queue is enabled: the doorbell, the ring and the call eventfd are the
\* session's own, or the program has died.
LEMMA EnableVqKeeps ==
  ASSUME KernelIInv, NEW q \in VhQueues, EnableVq(q)
  PROVE  KernelIInv'
<1>1. /\ ~died /\ life = "ready" /\ drv = "setup" /\ vring[q] = 0
      /\ vh' = vh /\ life' = life /\ session' = session /\ drv' = drv /\ kactive' = kactive
      /\ vring' \in [VhQueues -> Nat] /\ vring'[q] = session
      /\ \A p \in VhQueues \ {q} : vring'[p] = vring[p]
  BY DEF EnableVq, Alive, KernelIInv, VhTypeOK
<1>2. /\ kkick' \in [VhQueues -> Nat]
      /\ Handed(q) => kkick'[q] = session
      /\ \A p \in VhQueues \ {q} : kkick'[p] = kkick[p]
  BY DEF EnableVq, NotifyVqEventfd, KernelIInv, VhTypeOK
<1>3. \/ died'
      \/ /\ Handed(q) => kring'[q] = session /\ kcall'[q] = session /\ irqfd'[q] = session
         /\ \A p \in VhQueues \ {q} :
              kring'[p] = kring[p] /\ kcall'[p] = kcall[p] /\ irqfd'[p] = irqfd[p]
  BY DEF EnableVq, ScsiInitVq, VsockInitVq, SetVring, KernelIInv, VhTypeOK
<1>4. /\ kring' \in [VhQueues -> Nat] /\ kcall' \in [VhQueues -> Nat]
      /\ irqfd' \in [VhQueues -> Nat]
  BY DEF EnableVq, ScsiInitVq, VsockInitVq, SetVring, KernelIInv, VhTypeOK
<1>5. ASSUME ~died', NEW p \in VhQueues
      PROVE  RingOfSession(p)'
  BY <1>1, <1>2, <1>3, <1>5 DEF KernelIInv, RingOfSession, Handed
<1> QED BY <1>1, <1>2, <1>4, <1>5 DEF KernelIInv, VhTypeOK

\* The other steps of the device's life and of its driver.
LEMMA VhDriverKeeps ==
  ASSUME KernelIInv,
         \/ VirtioInit \/ VhostInit \/ VhExit
         \/ DriverArrives \/ DriverOk \/ ZeroQueues \/ NotifyStop
  PROVE  KernelIInv'
<1> USE DEF KernelIInv, VhTypeOK, RingOfSession, Handed, Alive, kernel, worker_
<1>1. CASE VirtioInit
  BY <1>1 DEF VirtioInit
<1>2. CASE VhostInit
  BY <1>2 DEF VhostInit
<1>3. CASE VhExit
  BY <1>3 DEF VhExit, ScsiExit, VsockExit
<1>4. CASE DriverArrives
  BY <1>4 DEF DriverArrives
<1>5. CASE DriverOk
  BY <1>5 DEF DriverOk, ScsiStart, VsockStart
<1>6. CASE ZeroQueues
  BY <1>6 DEF ZeroQueues
<1>7. CASE NotifyStop
  BY <1>7 DEF NotifyStop, ScsiStop, VsockStop
<1> QED BY <1>1, <1>2, <1>3, <1>4, <1>5, <1>6, <1>7

\* Every step of the vhost devices, or a stutter, keeps KernelIInv.
LEMMA KernelKept == ASSUME KernelIInv, [VhNext]_vhVars PROVE KernelIInv'
<1>1. CASE \/ \E q \in VhQueues : KernelCalls(q)
           \/ WorkerWakes \/ WorkerSignals \/ UNCHANGED vhVars
  <2>1. UNCHANGED <<vh, life, session, drv, vring, irqfd, kring, kkick, kcall, kactive, died>>
    BY <1>1 DEF KernelCalls, WorkerWakes, WorkerSignals, vhVars, kernel
  <2> QED BY <2>1 DEF KernelIInv, VhTypeOK, RingOfSession, Handed
<1> QED BY <1>1, EnableVqKeeps, VhDriverKeeps DEF VhNext

-----------------------------------------------------------------------------
(* The transports                                                          *)

FeatureRegs == {"dfsel", "read_df", "gfsel", "gf"}
QueueRegs == {"sel", "read_enabled", "lo", "hi", "enable"}
LeaveRegs == {"unsel", "disable"}
Regs == SetUp \cup {"reset", "run", "remove", "unsel", "disable", "gone"}

\* The registers and the driver's place: the selectors hold what the driver has
\* written last, and what it accepted is what the device remembers.
RegsOK ==
  /\ trans \in {"pci_legacy", "pci_modern", "mmio_legacy", "mmio_modern"}
  /\ kind \in {"thread", "job", "vhost"}
  /\ pc \in Regs \X Nat
  /\ pc[1] \in FeatureRegs => pc[2] \in 0 .. 1 /\ (Legacy => pc[2] = 0)
  /\ pc[1] \in QueueRegs \cup LeaveRegs => pc[2] < VqCount
  /\ pc[1] \in (QueueRegs \cup LeaveRegs) \ {"sel", "unsel"} => vsel = pc[2]
  /\ pc[1] = "gf" /\ trans # "pci_legacy" => gfsel = pc[2]
  /\ pc[1] \in {"run", "remove"} => started
  /\ vstatus \in {0, 1, 4} /\ started \in BOOLEAN
  /\ dfsel \in 0 .. 1 /\ gfsel \in 0 .. 1 /\ vsel \in VQueues
  /\ features \subseteq {EVENT_IDX, VERSION_1}
  /\ EVENT_IDX \in accepted => EVENT_IDX \in features

BellRecs == [bus : {"pio", "mmio"}, at : Nat, vq : VQueues]
BellsOK ==
  /\ vbar \in Nat
  /\ ioevents \subseteq BellRecs /\ fetched \subseteq BellRecs
  /\ rung \subseteq ioevents /\ freed \subseteq fetched
  /\ calling \in VQueues \cup {VNone}
  /\ worker \in [VQueues -> {"none", "idle", "busy"}]

\* What is left to take down: for each queue its doorbells and then its backend.
\* The driver waits for it, except that dev_exit takes the place of a driver.
Paired(d) ==
  /\ d \in Seq({"bells", "backend"} \X VQueues)
  /\ \A i \in 1 .. Len(d) :
       /\ d[i][1] = "bells" => i < Len(d) /\ d[i + 1] = <<"backend", d[i][2]>>
       /\ d[i][1] = "backend" /\ i < Len(d) => d[i + 1][1] = "bells"
DownOK == Paired(down) /\ (down # <<>> => pc[1] \in {"driver", "reset", "unsel", "gone"})

Addrs == [lo : Nat, hi : Nat]
RingsOK ==
  /\ enabled \in [VQueues -> BOOLEAN] /\ useEventIdx \in [VQueues -> BOOLEAN]
  /\ ringAt \in [VQueues -> Addrs \cup {VNone}] /\ vaddr \in [VQueues -> Addrs]
  /\ pc[1] = "hi" => vaddr[vsel].lo = vsel + 1
  /\ pc[1] = "enable" /\ ~Legacy => vaddr[vsel] = [lo |-> vsel + 1, hi |-> vsel + 1]
  /\ RingAsProgrammed

\* A queue that is enabled and will stay so.
WillGo(q) == \E i \in 1 .. Len(down) : down[i] = <<"backend", q>>
Live(q) == enabled[q] /\ ~WillGo(q)

\* As long as no driver has left queues behind: the live queues are the ones this
\* driver has got to, less the ones a leaving driver has been past.
StageOK ==
  ~left =>
    \A q \in VQueues : Live(q) =>
      /\ q < VqCount
      /\ pc[1] \notin FeatureRegs \cup {"reset", "driver"}
      /\ pc[1] \in QueueRegs => q < pc[2]
      /\ pc[1] \in LeaveRegs => q >= pc[2]

\* The queues that have their doorbells: the enabled ones, except one between the
\* two steps that take it down.
Belled(q) == enabled[q] /\ ~(down # <<>> /\ Head(down) = <<"backend", q>>)
MatchOK == ~left => \A e : e \in ioevents <=> \E q \in VQueues : Belled(q) /\ e \in Bells(q)

TransportIInv == RegsOK /\ BellsOK /\ DownOK /\ RingsOK /\ StageOK /\ MatchOK

\* The queues are numbered from zero, and the device has at least one of them.
LEMMA Counts ==
  /\ VqCount \in Nat \ {0}
  /\ VQueues \subseteq Nat
  /\ 0 \in VQueues
  /\ \A q \in Nat : q < VqCount => q \in VQueues
<1>1. Cardinality(VQueues) \in Nat /\ Cardinality(VQueues) # 0
  BY VAssumption, FS_CardinalityType, FS_EmptySet
<1> QED BY <1>1, VAssumption DEF VqCount

\* What is said of the doorbells that exist stays true while the queues, the
\* address and what is left to take down stay the same.
LEMMA MatchStays ==
  ASSUME MatchOK, UNCHANGED <<trans, enabled, vbar, down, ioevents>>, left => left'
  PROVE  MatchOK'
BY DEF MatchOK, Belled, Bells, IsPci

\* The epoll thread, the backends and the end of the machine touch neither the
\* registers nor the doorbells that exist.
LEMMA EpollKeeps ==
  ASSUME TransportIInv,
         \/ EpollWait \/ EpollNotify \/ EpollExit \/ EpollStop
         \/ \E e \in fetched : EpollRead(e)
         \/ \E q \in VQueues : Wake(q) \/ Serve(q) \/ Kick(q)
  PROVE  TransportIInv'
<1>1. UNCHANGED <<trans, kind, pc, vstatus, started, dfsel, gfsel, vsel, features, vaddr,
                  enabled, ringAt, useEventIdx, vbar, down, ioevents, accepted, left>>
  <2> USE DEF drvState, regState, vqState, history, bellState, epollState
  <2>1. CASE EpollWait \/ EpollNotify
    BY <2>1 DEF EpollWait, EpollNotify
  <2>2. CASE EpollExit \/ EpollStop
    BY <2>2 DEF EpollExit, EpollStop
  <2>3. CASE \E e \in fetched : EpollRead(e)
    BY <2>3 DEF EpollRead
  <2>4. CASE \E q \in VQueues : Wake(q) \/ Serve(q)
    BY <2>4 DEF Wake, Serve
  <2>5. CASE \E q \in VQueues : Kick(q)
    BY <2>5 DEF Kick
  <2> QED BY <2>1, <2>2, <2>3, <2>4, <2>5
<1>2. RegsOK'
  BY <1>1 DEF TransportIInv, RegsOK, Legacy, VqCount
<1>3. DownOK' /\ RingsOK'
  BY <1>1 DEF TransportIInv, DownOK, RingsOK, Legacy, RingAsProgrammed, Programmed
<1>4. StageOK'
  BY <1>1 DEF TransportIInv, StageOK, Live, WillGo, VqCount
<1>6. MatchOK'
  BY <1>1, MatchStays DEF TransportIInv
<1>5. BellsOK'
  <2> USE DEF TransportIInv, BellsOK
  <2>1. CASE EpollWait
    BY <2>1 DEF EpollWait, backState
  <2>2. CASE EpollNotify
    BY <2>2 DEF EpollNotify
  <2>3. CASE EpollExit \/ EpollStop
    BY <2>3 DEF EpollExit, EpollStop, bellState, epollState, backState
  <2>4. ASSUME NEW e \in fetched, EpollRead(e)
        PROVE  BellsOK'
    BY <2>4 DEF EpollRead, backState, BellRecs
  <2>5. ASSUME NEW q \in VQueues, Wake(q)
        PROVE  BellsOK'
    BY <2>5 DEF Wake, Signalled, KernelPolls, epollState
  <2>6. ASSUME NEW q \in VQueues, Serve(q)
        PROVE  BellsOK'
    BY <2>6 DEF Serve, bellState, epollState
  <2>7. ASSUME NEW q \in VQueues, Kick(q)
        PROVE  BellsOK'
    BY <2>7 DEF Kick, NotifyVq, BlkNotifyVq, RngNotifyVq, VhostNotifyVq, epollState
  <2> QED BY <2>1, <2>2, <2>3, <2>4, <2>5, <2>6, <2>7
<1> QED BY <1>2, <1>3, <1>4, <1>5, <1>6 DEF TransportIInv

\* An access of the driver that changes only its place and the feature registers.
LEMMA FeatureAccessKeeps ==
  ASSUME TransportIInv,
         \/ WriteStatus \/ WriteFeatureSelect \/ ReadFeatures
         \/ \E some \in SUBSET {EVENT_IDX, VERSION_1} : WriteFeatures(some)
  PROVE  TransportIInv'
<1>1. UNCHANGED <<trans, kind, vsel, vaddr, enabled, ringAt, useEventIdx, vbar, down,
                  ioevents, rung, fetched, freed, calling, worker, left>>
  <2> USE DEF regState, vqState, history, bellState, epollState, backState
  <2>1. CASE WriteStatus \/ WriteFeatureSelect
    BY <2>1 DEF WriteStatus, WriteFeatureSelect
  <2>2. CASE ReadFeatures
    BY <2>2 DEF ReadFeatures
  <2>3. CASE \E some \in SUBSET {EVENT_IDX, VERSION_1} : WriteFeatures(some)
    BY <2>3 DEF WriteFeatures
  <2> QED BY <2>1, <2>2, <2>3
<1>2. /\ pc[1] \in FeatureRegs \cup {"driver", "ok"} /\ down = <<>>
      /\ pc' = After(pc)
  BY DEF WriteStatus, WriteFeatureSelect, ReadFeatures, WriteFeatures, At, FeatureRegs
<1>3. /\ pc[1] = "ok" => pc' = <<"run", 0>>
      /\ pc[1] # "ok" => /\ pc' \in (FeatureRegs \cup {"sel"}) \X (0 .. 1)
                         /\ (Legacy => pc'[2] = 0) /\ (pc'[1] = "sel" => pc'[2] = 0)
                         /\ pc'[1] = "gf" /\ trans # "pci_legacy" => pc = <<"gfsel", pc'[2]>>
  <2> USE DEF FeatureRegs, TransportIInv, RegsOK, Legacy
  <2>1. pc = <<pc[1], pc[2]>>
    BY DEF TransportIInv, RegsOK
  <2>2. CASE pc[1] = "ok"
    BY <1>2, <2>2 DEF After
  <2>3. CASE pc[1] = "driver"
    BY <1>2, <2>3 DEF After
  <2>4. CASE pc[1] = "dfsel"
    BY <1>2, <2>4 DEF After
  <2>5. CASE pc[1] = "read_df"
    BY <1>2, <2>5 DEF After
  <2>6. CASE pc[1] = "gfsel"
    <3>1. pc' = <<"gf", pc[2]>>
      BY <1>2, <2>6 DEF After
    <3> QED BY <3>1, <2>1, <2>6
  <2>7. CASE pc[1] = "gf"
    BY <1>2, <2>7 DEF After
  <2> QED BY <1>2, <2>2, <2>3, <2>4, <2>5, <2>6, <2>7
<1>4. EVENT_IDX \in accepted' => EVENT_IDX \in features'
  <2>1. CASE WriteStatus \/ WriteFeatureSelect \/ ReadFeatures
    BY <2>1 DEF WriteStatus, WriteFeatureSelect, ReadFeatures, history, regState,
                TransportIInv, RegsOK
  <2>2. ASSUME NEW some \in SUBSET {EVENT_IDX, VERSION_1}, WriteFeatures(some)
        PROVE  EVENT_IDX \in accepted' => EVENT_IDX \in features'
    <3>1. trans # "mmio_legacy" \/ gfsel = 0
      BY <2>2 DEF WriteFeatures, At, TransportIInv, RegsOK, Legacy, FeatureRegs
    <3> QED BY <2>2, <3>1 DEF WriteFeatures, FeaturesWith, TransportIInv, RegsOK
  <2> QED BY <2>1, <2>2
<1>5. /\ features' \subseteq {EVENT_IDX, VERSION_1}
      /\ vstatus' \in {0, 1, 4} /\ started' \in BOOLEAN
      /\ dfsel' \in 0 .. 1 /\ gfsel' \in 0 .. 1
      /\ pc[1] = "ok" => started'
      /\ pc[1] = "gfsel" => gfsel' = pc[2]
  <2> USE DEF TransportIInv, RegsOK, At, regState
  <2>1. CASE WriteStatus
    BY <2>1 DEF WriteStatus
  <2>2. CASE WriteFeatureSelect
    BY <2>2 DEF WriteFeatureSelect, FeatureRegs
  <2>3. CASE ReadFeatures
    BY <2>3 DEF ReadFeatures
  <2>4. CASE \E some \in SUBSET {EVENT_IDX, VERSION_1} : WriteFeatures(some)
    <3>1. UNCHANGED <<vstatus, started, dfsel, gfsel>> /\ pc[1] = "gf"
      BY <2>4 DEF WriteFeatures
    <3>2. features' \subseteq {EVENT_IDX, VERSION_1}
      BY <2>4 DEF WriteFeatures, FeaturesWith
    <3> QED BY <3>1, <3>2
  <2> QED BY <2>1, <2>2, <2>3, <2>4
<1>6. RegsOK'
  <2>1. pc' \in Regs \X Nat
    BY <1>2, <1>3 DEF Regs, SetUp, FeatureRegs
  <2>2. /\ VqCount' = VqCount /\ Legacy' = Legacy /\ VqCount > 0
    BY <1>1, Counts DEF VqCount, Legacy
  <2>3. pc'[1] \in FeatureRegs \cup {"sel", "run"}
    BY <1>2, <1>3
  <2>4. pc'[1] = "gf" /\ trans' # "pci_legacy" => gfsel' = pc'[2]
    BY <1>1, <1>2, <1>3, <1>5
  <2>5. /\ pc'[1] \in FeatureRegs => pc'[2] \in 0 .. 1 /\ (Legacy' => pc'[2] = 0)
        /\ pc'[1] = "sel" => pc'[2] = 0
        /\ pc'[1] = "run" => started'
    BY <1>2, <1>3, <1>5, <2>2 DEF FeatureRegs
  <2> QED BY <1>1, <1>4, <1>5, <2>1, <2>2, <2>3, <2>4, <2>5
          DEF TransportIInv, RegsOK, QueueRegs, LeaveRegs, FeatureRegs
<1>7. BellsOK' /\ DownOK' /\ MatchOK'
  BY <1>1, <1>2, MatchStays DEF TransportIInv, BellsOK, DownOK, Paired
<1>8. pc'[1] \in FeatureRegs \cup {"sel", "run"} /\ (pc'[1] = "run" <=> pc[1] = "ok")
  BY <1>2, <1>3 DEF FeatureRegs
<1>9. RingsOK'
  <2>1. ASSUME NEW q \in VQueues, enabled[q], ~left, EVENT_IDX \in accepted'
        PROVE  EVENT_IDX \in accepted
    <3>1. ~WillGo(q)
      BY <1>2 DEF WillGo
    <3>2. pc[1] \notin FeatureRegs
      BY <2>1, <3>1 DEF TransportIInv, StageOK, Live
    <3> QED BY <2>1, <3>2 DEF WriteFeatures, WriteStatus, WriteFeatureSelect, ReadFeatures,
                              At, history, FeatureRegs
  <2> QED BY <1>1, <1>8, <2>1 DEF TransportIInv, RingsOK, RingAsProgrammed, Programmed, Legacy,
                                  FeatureRegs
<1>10. StageOK'
  BY <1>1, <1>2, <1>8 DEF TransportIInv, StageOK, Live, WillGo, VqCount, FeatureRegs,
                          QueueRegs, LeaveRegs
<1> QED BY <1>6, <1>7, <1>9, <1>10 DEF TransportIInv

\* While the driver is at an access and nothing is left to take down, the live
\* queues are the enabled ones.
LEMMA NothingGoes == down = <<>> => \A q \in VQueues : Live(q) <=> enabled[q]
BY DEF Live, WillGo

\* The queue selector: the accesses after it work on the queue it names.
LEMMA SelectKeeps ==
  ASSUME TransportIInv, WriteQueueSelect
  PROVE  TransportIInv'
<1>1. UNCHANGED <<trans, kind, vstatus, started, dfsel, gfsel, features, vaddr, enabled, ringAt,
                  useEventIdx, vbar, down, ioevents, rung, fetched, freed, calling, worker,
                  accepted, left>>
  BY DEF WriteQueueSelect, vqState, history, bellState, epollState, backState
<1>2. /\ down = <<>> /\ vsel' = pc[2]
      /\ \/ pc[1] = "sel" /\ pc' = <<"read_enabled", pc[2]>>
         \/ pc[1] = "unsel" /\ pc' = <<"disable", pc[2]>>
  BY DEF WriteQueueSelect, At, After
<1>3. pc[2] \in Nat /\ pc[2] < VqCount /\ pc[2] \in VQueues
  BY <1>2, Counts DEF TransportIInv, RegsOK, QueueRegs, LeaveRegs
<1>4. RegsOK'
  BY <1>1, <1>2, <1>3 DEF TransportIInv, RegsOK, Regs, SetUp, Legacy, VqCount, FeatureRegs,
                          QueueRegs, LeaveRegs
<1>5. BellsOK' /\ DownOK' /\ MatchOK'
  BY <1>1, <1>2, MatchStays DEF TransportIInv, BellsOK, DownOK, Paired
<1>6. RingsOK'
  BY <1>1, <1>2 DEF TransportIInv, RingsOK, RingAsProgrammed, Programmed, Legacy
<1>7. StageOK'
  BY <1>1, <1>2 DEF TransportIInv, StageOK, Live, WillGo, VqCount, FeatureRegs,
                    QueueRegs, LeaveRegs
<1> QED BY <1>4, <1>5, <1>6, <1>7 DEF TransportIInv

\* The halves of the ring's address, one queue at a time.
LEMMA AddressKeeps ==
  ASSUME TransportIInv, WriteAddress
  PROVE  TransportIInv'
<1>1. UNCHANGED <<trans, kind, vstatus, started, dfsel, gfsel, vsel, features, enabled, ringAt,
                  useEventIdx, vbar, down, ioevents, rung, fetched, freed, calling, worker,
                  accepted, left>>
  BY DEF WriteAddress, vqState, history, bellState, epollState, backState
<1>2. /\ down = <<>>
      /\ \/ pc[1] = "lo" /\ pc' = <<"hi", pc[2]>>
         \/ pc[1] = "hi" /\ pc' = <<"enable", pc[2]>>
  BY DEF WriteAddress, At, After
<1>3. pc[2] \in Nat /\ pc[2] < VqCount /\ vsel = pc[2] /\ vsel \in VQueues
  BY <1>2 DEF TransportIInv, RegsOK, QueueRegs, LeaveRegs
<1>4. RegsOK'
  BY <1>1, <1>2, <1>3 DEF TransportIInv, RegsOK, Regs, SetUp, Legacy, VqCount, FeatureRegs,
                          QueueRegs, LeaveRegs
<1>5. BellsOK' /\ DownOK' /\ MatchOK'
  BY <1>1, <1>2, MatchStays DEF TransportIInv, BellsOK, DownOK, Paired
<1>6. /\ vaddr' \in [VQueues -> Addrs]
      /\ pc'[1] = "hi" => vaddr'[vsel].lo = vsel + 1
      /\ pc'[1] = "enable" => vaddr'[vsel] = [lo |-> vsel + 1, hi |-> vsel + 1]
  <2>1. vaddr \in [VQueues -> Addrs] /\ (pc[1] = "hi" => vaddr[vsel].lo = vsel + 1)
    BY DEF TransportIInv, RingsOK
  <2>2. CASE pc[1] = "lo"
    <3>1. vaddr' = [vaddr EXCEPT ![vsel].lo = vsel + 1]
      BY <1>3, <2>2 DEF WriteAddress, At
    <3> QED BY <1>2, <1>3, <2>1, <2>2, <3>1 DEF Addrs
  <2>3. CASE pc[1] = "hi"
    <3>1. vaddr' = [vaddr EXCEPT ![vsel].hi = vsel + 1]
      BY <1>3, <2>3 DEF WriteAddress, At
    <3> QED BY <1>2, <1>3, <2>1, <2>3, <3>1 DEF Addrs
  <2> QED BY <1>2, <2>2, <2>3
<1>7. RingsOK'
  BY <1>1, <1>2, <1>6 DEF TransportIInv, RingsOK, RingAsProgrammed, Programmed, Legacy
<1>8. StageOK'
  BY <1>1, <1>2 DEF TransportIInv, StageOK, Live, WillGo, VqCount, FeatureRegs,
                    QueueRegs, LeaveRegs
<1> QED BY <1>4, <1>5, <1>7, <1>8 DEF TransportIInv

\* The driver looks whether the queue is in use, gives up, or is removed.
LEMMA DriverMoves ==
  ASSUME TransportIInv, ReadEnabled \/ GiveUp \/ Remove
  PROVE  TransportIInv'
<1>1. UNCHANGED <<trans, kind, vstatus, started, dfsel, gfsel, vsel, features, vaddr, enabled,
                  ringAt, useEventIdx, vbar, down, ioevents, rung, fetched, freed, calling,
                  worker, accepted>>
  <2> USE DEF regState, vqState, history, bellState, epollState, backState
  <2>1. CASE ReadEnabled
    BY <2>1 DEF ReadEnabled
  <2>2. CASE GiveUp
    BY <2>2 DEF GiveUp
  <2>3. CASE Remove
    BY <2>3 DEF Remove
  <2> QED BY <2>1, <2>2, <2>3
<1>2. /\ down = <<>> /\ (left => left') /\ (~left' => ~left)
      /\ \/ Legacy /\ pc' = <<"unsel", 0>>
         \/ ~Legacy /\ pc' = <<"reset", 0>> /\ (~left' => \A q \in VQueues : ~enabled[q])
         \/ pc[1] = "read_enabled" /\ Legacy /\ pc' = <<"enable", pc[2]>> /\ left' = left
         \/ pc[1] = "read_enabled" /\ ~Legacy /\ pc' = <<"lo", pc[2]>> /\ left' = left
         \/ pc = <<"run", 0>> /\ pc' = <<"remove", 0>> /\ left' = left
  <2>1. CASE GiveUp
    BY <2>1 DEF GiveUp, Abandoned, LeftEnabled
  <2>2. CASE Remove
    BY <2>2 DEF Remove, history
  <2>3. CASE ReadEnabled
    <3>1. pc[1] = "read_enabled" /\ down = <<>> /\ left' = left
      BY <2>3 DEF ReadEnabled, history
    <3>2. CASE pc' = Abandoned /\ Legacy
      BY <3>1, <3>2 DEF Abandoned
    <3>3. CASE pc' = Abandoned /\ ~Legacy /\ enabled[vsel]
      <4>1. left
        <5>1. vsel = pc[2] /\ vsel \in VQueues /\ vsel \in Nat
          BY <3>1, Counts DEF TransportIInv, RegsOK, QueueRegs, LeaveRegs
        <5>2. Live(vsel)
          BY <3>1, <3>3, <5>1, NothingGoes
        <5> QED BY <3>1, <5>1, <5>2 DEF TransportIInv, StageOK, QueueRegs
      <4> QED BY <3>1, <3>3, <4>1 DEF Abandoned
    <3>4. CASE pc' = After(pc)
      BY <3>1, <3>4 DEF After
    <3> QED BY <2>3, <3>2, <3>3, <3>4 DEF ReadEnabled
  <2> QED BY <2>1, <2>2, <2>3
<1>3. pc[2] \in Nat /\ VqCount > 0 /\ VqCount \in Nat
  BY Counts DEF TransportIInv, RegsOK
<1>4. RegsOK'
  BY <1>1, <1>2, <1>3 DEF TransportIInv, RegsOK, Regs, SetUp, Legacy, VqCount, FeatureRegs,
                          QueueRegs, LeaveRegs
<1>5. BellsOK' /\ DownOK' /\ MatchOK'
  BY <1>1, <1>2, MatchStays DEF TransportIInv, BellsOK, DownOK, Paired
<1>6. RingsOK'
  BY <1>1, <1>2 DEF TransportIInv, RingsOK, RingAsProgrammed, Programmed, Legacy
<1>7. StageOK'
  <2>1. ASSUME NEW q \in VQueues
        PROVE  q \in Nat /\ (Live(q)' <=> Live(q)) /\ (Live(q) => enabled[q])
    BY <1>1, Counts DEF Live, WillGo
  <2> QED BY <1>1, <1>2, <1>3, <2>1 DEF TransportIInv, StageOK, VqCount, FeatureRegs,
                                        QueueRegs, LeaveRegs
<1> QED BY <1>4, <1>5, <1>6, <1>7 DEF TransportIInv

\* The steps that take n queues down, from the first one on: in pairs, and all of
\* them are there.
LEMMA Steps ==
  ASSUME NEW first \in Nat, NEW n \in Nat \ {0}, first .. first + n - 1 \subseteq VQueues
  PROVE  /\ Paired(StepsDown(first, n))
         /\ StepsDown(first, n) # <<>> /\ Head(StepsDown(first, n))[1] = "bells"
         /\ \A q \in first .. first + n - 1 :
              \E i \in 1 .. Len(StepsDown(first, n)) : StepsDown(first, n)[i] = <<"backend", q>>
<1> DEFINE d == StepsDown(first, n)
           at(i) == first + ((i - 1) \div 2)
<1>1. \A i \in Nat \ {0} :
        /\ i % 2 = 1 => (i + 1) % 2 = 0 /\ at(i + 1) = at(i)
        /\ i % 2 # 1 => i % 2 = 0 /\ (i + 1) % 2 = 1
        /\ at(i) \in Nat /\ at(i) >= first
        /\ i <= 2 * n => at(i) <= first + n - 1
        /\ i <= 2 * n /\ i % 2 = 1 => i + 1 <= 2 * n
  OBVIOUS
<1>2. DOMAIN d = 1 .. 2 * n /\ 2 * n \in Nat
  BY DEF StepsDown
<1>3. \A i \in 1 .. 2 * n : d[i] = <<IF i % 2 = 1 THEN "bells" ELSE "backend", at(i)>>
  BY DEF StepsDown
<1>4. \A i \in 1 .. 2 * n : d[i] \in {"bells", "backend"} \X VQueues
  <2> SUFFICES ASSUME NEW i \in 1 .. 2 * n
               PROVE  d[i] \in {"bells", "backend"} \X VQueues
    OBVIOUS
  <2>1. at(i) \in first .. first + n - 1
    BY <1>1
  <2>2. at(i) \in VQueues
    BY <2>1
  <2> HIDE DEF at, d
  <2>3. d[i] = <<"bells", at(i)>> \/ d[i] = <<"backend", at(i)>>
    BY <1>3
  <2>4. \A x \in VQueues : /\ <<"bells", x>> \in {"bells", "backend"} \X VQueues
                           /\ <<"backend", x>> \in {"bells", "backend"} \X VQueues
    OBVIOUS
  <2> QED BY <2>2, <2>3, <2>4, Zenon
<1>5. d \in [1 .. 2 * n -> {"bells", "backend"} \X VQueues]
  BY <1>4 DEF StepsDown
<1> HIDE DEF d
<1>6. d \in Seq({"bells", "backend"} \X VQueues) /\ Len(d) = 2 * n
  BY <1>2, <1>5
<1>7. Paired(d)
  <2> SUFFICES ASSUME NEW i \in 1 .. 2 * n
               PROVE  /\ d[i][1] = "bells" => i < 2 * n /\ d[i + 1] = <<"backend", d[i][2]>>
                      /\ d[i][1] = "backend" /\ i < 2 * n => d[i + 1][1] = "bells"
    BY <1>6 DEF Paired
  <2> HIDE DEF at
  <2>1. CASE i % 2 = 1
    <3>1. i + 1 <= 2 * n /\ (i + 1) % 2 = 0 /\ at(i + 1) = at(i)
      BY <1>1, <2>1
    <3>2. d[i] = <<"bells", at(i)>> /\ d[i + 1] = <<"backend", at(i)>>
      BY <1>3, <2>1, <3>1
    <3> QED BY <3>1, <3>2
  <2>2. CASE i % 2 # 1
    <3>1. (i + 1) % 2 = 1
      BY <1>1, <2>2
    <3>2. d[i] = <<"backend", at(i)>> /\ (i < 2 * n => d[i + 1] = <<"bells", at(i + 1)>>)
      BY <1>3, <2>2, <3>1
    <3> QED BY <3>2
  <2> QED BY <2>1, <2>2
<1>8. d # <<>> /\ Head(d)[1] = "bells"
  BY <1>3, <1>6
<1>9. ASSUME NEW q \in first .. first + n - 1
      PROVE  \E i \in 1 .. Len(d) : d[i] = <<"backend", q>>
  <2> DEFINE i == 2 * (q - first) + 2
  <2>1. i \in 1 .. 2 * n /\ i % 2 = 0 /\ at(i) = q
    OBVIOUS
  <2> HIDE DEF i, at
  <2>2. d[i] = <<"backend", q>>
    BY <1>3, <2>1
  <2> QED BY <1>6, <2>1, <2>2
<1> QED BY <1>7, <1>8, <1>9 DEF d

\* When queues begin to go down their doorbells are still there.
LEMMA MatchFromSteps ==
  ASSUME MatchOK, UNCHANGED <<trans, enabled, vbar, ioevents, left>>, down = <<>>,
         down' = <<>> \/ Head(down')[1] = "bells"
  PROVE  MatchOK'
<1>1. \A q : Belled(q)' <=> Belled(q)
  BY DEF Belled
<1>2. \A q : Bells(q)' = Bells(q)
  BY DEF Bells, IsPci
<1> QED BY <1>1, <1>2 DEF MatchOK

\* A reset, and the driver's removal: every queue goes down if the device had been
\* started, and a driver that leaves a queue is one of its own.
LEMMA ResetKeeps ==
  ASSUME TransportIInv, WriteStatusZero \/ DeviceExit
  PROVE  TransportIInv'
<1>1. UNCHANGED <<trans, kind, dfsel, gfsel, vsel, features, vaddr, enabled, ringAt,
                  useEventIdx, vbar, ioevents, rung, fetched, freed, calling, worker, left>>
  BY DEF WriteStatusZero, DeviceExit, regState, vqState, history, bellState, epollState, backState
<1>2. /\ down = <<>>
      /\ \/ pc[1] = "reset" /\ pc' = <<"driver", 0>>
         \/ pc[1] = "remove" /\ Legacy /\ pc' = <<"unsel", 0>>
         \/ pc[1] = "remove" /\ ~Legacy /\ pc' = <<"reset", 0>> /\ down' = ResetSteps
         \/ pc' = <<"gone", 0>>
      /\ down' \in {<<>>, ResetSteps}
      /\ vstatus' \in {0, 1, 4} /\ started' \in BOOLEAN
      /\ accepted' \subseteq accepted
  <2>1. CASE WriteStatusZero
    <3>1. pc[1] = "remove" => started
      BY DEF TransportIInv, RegsOK
    <3> QED BY <2>1, <3>1 DEF WriteStatusZero, At, After, StepsOnZero, NoSteps
  <2>2. CASE DeviceExit
    BY <2>2 DEF DeviceExit, BlkExit, RngExit, VhostExit, NoSteps, regState, history,
                TransportIInv, RegsOK
  <2> QED BY <2>1, <2>2
<1>3. /\ Paired(ResetSteps) /\ Head(ResetSteps)[1] = "bells"
      /\ \A q \in VQueues : q < VqCount =>
           \E i \in 1 .. Len(ResetSteps) : ResetSteps[i] = <<"backend", q>>
  <2>1. 0 .. 0 + VqCount - 1 \subseteq VQueues /\ VqCount \in Nat \ {0}
    BY Counts
  <2>2. \A q \in VQueues : q < VqCount => q \in 0 .. 0 + VqCount - 1
    BY Counts
  <2> HIDE DEF VqCount
  <2> QED BY <2>1, <2>2, Steps DEF ResetSteps
<1>4. RegsOK'
  BY <1>1, <1>2, Counts DEF TransportIInv, RegsOK, Regs, SetUp, Legacy, VqCount, FeatureRegs,
                            QueueRegs, LeaveRegs
<1>5. BellsOK' /\ RingsOK'
  BY <1>1, <1>2 DEF TransportIInv, BellsOK, RingsOK, RingAsProgrammed, Programmed, Legacy
<1>6. DownOK'
  <2>1. Paired(<<>>)
    BY DEF Paired
  <2> QED BY <1>2, <1>3, <2>1 DEF DownOK
<1>7. MatchOK'
  BY <1>1, <1>2, <1>3, MatchFromSteps DEF TransportIInv
<1>8. StageOK'
  <2> SUFFICES ASSUME ~left, NEW q \in VQueues, Live(q)'
               PROVE  /\ q < VqCount /\ pc'[1] \notin {"reset", "driver"}
                      /\ pc'[1] = "unsel" => q >= pc'[2]
    BY <1>1, <1>2 DEF StageOK, VqCount, FeatureRegs, QueueRegs, LeaveRegs
  <2>1. enabled[q] /\ q \in Nat
    BY <1>1, Counts DEF Live
  <2>2. Live(q)
    BY <1>2, <2>1, NothingGoes
  <2>3. q < VqCount /\ pc[1] # "reset"
    BY <2>2 DEF TransportIInv, StageOK
  <2>4. ~(down' = ResetSteps)
    BY <1>3, <2>3 DEF Live, WillGo
  <2> QED BY <1>2, <2>1, <2>3, <2>4
<1> QED BY <1>4, <1>5, <1>6, <1>7, <1>8 DEF TransportIInv

\* A legacy driver writes a zero address to a queue.
LEMMA DisableKeeps ==
  ASSUME TransportIInv, WriteDisable
  PROVE  TransportIInv'
<1>1. UNCHANGED <<trans, kind, vstatus, started, dfsel, gfsel, vsel, features, vaddr, enabled,
                  ringAt, useEventIdx, vbar, ioevents, rung, fetched, freed, calling, worker,
                  accepted, left>>
  BY DEF WriteDisable, regState, vqState, history, bellState, epollState, backState
<1>2. /\ down = <<>> /\ pc[1] = "disable" /\ down' = StepsDown(vsel, 1)
      /\ \/ pc[2] + 1 < VqCount /\ pc' = <<"unsel", pc[2] + 1>>
         \/ ~(pc[2] + 1 < VqCount) /\ pc' = <<"reset", 0>>
  BY DEF WriteDisable, At, After
<1>3. vsel = pc[2] /\ vsel \in VQueues /\ vsel \in Nat /\ VqCount \in Nat \ {0}
  BY <1>2, Counts DEF TransportIInv, RegsOK, QueueRegs, LeaveRegs
<1>4. /\ Paired(down') /\ down' # <<>> /\ Head(down')[1] = "bells"
      /\ \E i \in 1 .. Len(down') : down'[i] = <<"backend", vsel>>
  <2>1. vsel .. vsel + 1 - 1 \subseteq VQueues /\ vsel \in vsel .. vsel + 1 - 1 /\ 1 \in Nat \ {0}
    BY <1>3
  <2> QED BY <1>2, <1>3, <2>1, Steps
<1>5. RegsOK'
  BY <1>1, <1>2, <1>3 DEF TransportIInv, RegsOK, Regs, SetUp, Legacy, VqCount, FeatureRegs,
                          QueueRegs, LeaveRegs
<1>6. BellsOK' /\ RingsOK'
  BY <1>1, <1>2 DEF TransportIInv, BellsOK, RingsOK, RingAsProgrammed, Programmed, Legacy
<1>7. DownOK'
  BY <1>2, <1>4 DEF DownOK
<1>8. MatchOK'
  BY <1>1, <1>2, <1>4, MatchFromSteps DEF TransportIInv
<1>9. StageOK'
  <2> SUFFICES ASSUME ~left, NEW q \in VQueues, Live(q)'
               PROVE  /\ q < VqCount /\ pc'[1] # "reset"
                      /\ pc'[1] = "unsel" => q >= pc'[2]
    BY <1>1, <1>2 DEF StageOK, VqCount, FeatureRegs, QueueRegs, LeaveRegs
  <2>1. enabled[q] /\ q \in Nat /\ q # vsel
    BY <1>1, <1>4, Counts DEF Live, WillGo
  <2>2. Live(q)
    BY <1>2, <2>1, NothingGoes
  <2>3. q < VqCount /\ q >= pc[2]
    BY <1>2, <2>2 DEF TransportIInv, StageOK, LeaveRegs
  <2> QED BY <1>2, <1>3, <2>1, <2>3
<1> QED BY <1>5, <1>6, <1>7, <1>8, <1>9 DEF TransportIInv

\* The BARs move while no driver is there: then no doorbell is, unless a driver
\* has left some.
LEMMA MoveBarKeeps ==
  ASSUME TransportIInv, NEW a \in VBars, MoveBar(a)
  PROVE  TransportIInv'
<1>1. UNCHANGED <<trans, kind, pc, vstatus, started, dfsel, gfsel, vsel, features, vaddr, enabled,
                  ringAt, useEventIdx, down, ioevents, rung, fetched, freed, calling, worker,
                  accepted, left>>
  BY DEF MoveBar, drvState, regState, vqState, history, bellState, epollState, backState
<1>2. vbar' \in Nat /\ pc[1] = "reset" /\ down = <<>>
  BY VAssumption DEF MoveBar
<1>3. RegsOK'
  BY <1>1 DEF TransportIInv, RegsOK, Legacy, VqCount
<1>4. BellsOK' /\ DownOK'
  BY <1>1, <1>2 DEF TransportIInv, BellsOK, DownOK, Paired
<1>5. RingsOK'
  BY <1>1 DEF TransportIInv, RingsOK, RingAsProgrammed, Programmed, Legacy
<1>6. StageOK'
  BY <1>1 DEF TransportIInv, StageOK, Live, WillGo, VqCount
<1>7. MatchOK'
  <2>1. ASSUME ~left, NEW q \in VQueues
        PROVE  ~enabled[q]
    BY <1>2, <2>1, NothingGoes DEF TransportIInv, StageOK
  <2>2. ASSUME ~left, NEW e PROVE e \notin ioevents
    BY <2>1, <2>2 DEF TransportIInv, MatchOK, Belled
  <2> QED BY <1>1, <2>1, <2>2 DEF MatchOK, Belled
<1> QED BY <1>3, <1>4, <1>5, <1>6, <1>7 DEF TransportIInv

\* Doorbells of different queues are different.
LEMMA BellNames ==
  \A q : \A e \in Bells(q) : e.vq = q /\ (q \in VQueues /\ vbar \in Nat => e \in BellRecs)
BY DEF Bells, BellRecs

\* A queue is enabled, with all of its doorbells, or stays as it is, with none.
LEMMA EnableKeeps ==
  ASSUME TransportIInv, WriteEnable
  PROVE  TransportIInv'
<1>1. UNCHANGED <<trans, kind, vstatus, started, dfsel, gfsel, vsel, features,
                  vbar, down, rung, fetched, freed, calling, accepted, left>>
  BY DEF WriteEnable, history, epollState
<1>2. /\ down = <<>> /\ pc[1] = "enable"
      /\ \/ pc[2] + 1 < VqCount /\ pc' = <<"sel", pc[2] + 1>>
         \/ ~(pc[2] + 1 < VqCount) /\ pc' = <<"ok", 0>>
  BY DEF WriteEnable, At, After
<1>3. vsel = pc[2] /\ vsel \in VQueues /\ vsel \in Nat /\ VqCount \in Nat \ {0} /\ vsel < VqCount
  BY <1>2, Counts DEF TransportIInv, RegsOK, QueueRegs, LeaveRegs
<1>4. vaddr' \in [VQueues -> Addrs] /\ vaddr'[vsel] = Programmed(vsel)
  <2>1. vaddr \in [VQueues -> Addrs] /\ [lo |-> pc[2] + 1, hi |-> 0] \in Addrs
    BY <1>3 DEF TransportIInv, RingsOK, Addrs
  <2>2. CASE Legacy
    <3>1. vaddr' = [vaddr EXCEPT ![vsel] = [lo |-> pc[2] + 1, hi |-> 0]]
      BY <2>2 DEF WriteEnable
    <3> QED BY <1>3, <2>1, <2>2, <3>1 DEF Programmed
  <2>3. CASE ~Legacy
    BY <1>2, <2>1, <2>3 DEF WriteEnable, Programmed, TransportIInv, RingsOK
  <2> QED BY <2>2, <2>3
<1>5. \/ /\ ioevents' = ioevents \cup Bells(vsel)
         /\ enabled' = [enabled EXCEPT ![vsel] = TRUE]
         /\ ringAt' = [ringAt EXCEPT ![vsel] = Programmed(vsel)]
         /\ useEventIdx' = [useEventIdx EXCEPT ![vsel] = EVENT_IDX \in features]
         /\ worker' = [worker EXCEPT ![vsel] = "idle"]
      \/ ioevents' = ioevents /\ UNCHANGED <<enabled, ringAt, useEventIdx, worker>>
  BY <1>4 DEF WriteEnable, InitVq, RingFrom, BellsAfterFailure, vqState, BlkInitVq, RngInitVq,
              VhostInitVq
<1>6. RegsOK'
  BY <1>1, <1>2, <1>3 DEF TransportIInv, RegsOK, Regs, SetUp, Legacy, VqCount, FeatureRegs,
                          QueueRegs, LeaveRegs
<1>7. BellsOK' /\ DownOK'
  <2>1. ioevents \subseteq ioevents' /\ ioevents' \subseteq BellRecs
    BY <1>3, <1>5, BellNames DEF TransportIInv, BellsOK
  <2>2. worker' \in [VQueues -> {"none", "idle", "busy"}]
    BY <1>3, <1>5 DEF TransportIInv, BellsOK
  <2> QED BY <1>1, <1>2, <2>1, <2>2 DEF TransportIInv, BellsOK, DownOK, Paired
<1>8. /\ enabled' \in [VQueues -> BOOLEAN] /\ useEventIdx' \in [VQueues -> BOOLEAN]
      /\ ringAt' \in [VQueues -> Addrs \cup {VNone}]
  <2>1. Programmed(vsel) \in Addrs
    BY <1>3 DEF Programmed, Addrs
  <2>2. /\ enabled \in [VQueues -> BOOLEAN] /\ useEventIdx \in [VQueues -> BOOLEAN]
        /\ ringAt \in [VQueues -> Addrs \cup {VNone}]
    BY DEF TransportIInv, RingsOK
  <2>3. (EVENT_IDX \in features) \in BOOLEAN
    OBVIOUS
  <2> HIDE DEF Addrs, Programmed
  <2>4. enabled' \in [VQueues -> BOOLEAN]
    BY <1>5, <2>2
  <2>5. useEventIdx' \in [VQueues -> BOOLEAN]
    BY <1>5, <2>2, <2>3
  <2>6. ringAt' \in [VQueues -> Addrs \cup {VNone}]
    BY <1>5, <2>1, <2>2
  <2> QED BY <2>4, <2>5, <2>6
<1>9. RingsOK'
  <2>1. \A q \in VQueues : Programmed(q)' = Programmed(q)
    BY <1>1 DEF Programmed, Legacy
  <2>2. ASSUME NEW q \in VQueues
        PROVE  /\ enabled'[q] => ringAt'[q] = Programmed(q)
               /\ enabled'[q] /\ ~left /\ EVENT_IDX \in accepted => useEventIdx'[q]
               /\ ~enabled'[q] => ringAt'[q] = VNone
    <3>1. CASE UNCHANGED <<enabled, ringAt, useEventIdx>>
      BY <3>1 DEF TransportIInv, RingsOK, RingAsProgrammed
    <3>2. CASE /\ enabled' = [enabled EXCEPT ![vsel] = TRUE]
               /\ ringAt' = [ringAt EXCEPT ![vsel] = Programmed(vsel)]
               /\ useEventIdx' = [useEventIdx EXCEPT ![vsel] = EVENT_IDX \in features]
      BY <3>2 DEF TransportIInv, RingsOK, RingAsProgrammed, RegsOK
    <3> QED BY <1>5, <3>1, <3>2
  <2> QED BY <1>1, <1>2, <1>4, <1>8, <2>1, <2>2 DEF RingsOK, RingAsProgrammed
<1>10. StageOK'
  <2> SUFFICES ASSUME ~left, NEW q \in VQueues, Live(q)'
               PROVE  /\ q < VqCount
                      /\ pc'[1] = "sel" => q < pc'[2]
    BY <1>1, <1>2 DEF StageOK, VqCount, FeatureRegs, QueueRegs, LeaveRegs
  <2>1. q \in Nat /\ enabled'[q]
    BY Counts DEF Live
  <2>2. CASE q = vsel
    BY <1>2, <1>3, <2>2
  <2>3. CASE q # vsel
    <3>1. enabled[q]
      BY <1>5, <2>1, <2>3 DEF TransportIInv, RingsOK
    <3>2. Live(q)
      BY <1>2, <3>1, NothingGoes
    <3>3. q < VqCount /\ q < pc[2]
      BY <1>2, <3>2 DEF TransportIInv, StageOK, QueueRegs
    <3> QED BY <1>2, <1>3, <2>1, <3>3
  <2> QED BY <2>2, <2>3
<1>11. MatchOK'
  <2>1. \A q : Bells(q)' = Bells(q)
    BY <1>1 DEF Bells, IsPci
  <2>2. \A q : (Belled(q)' <=> enabled'[q]) /\ (Belled(q) <=> enabled[q])
    BY <1>1, <1>2 DEF Belled
  <2>3. CASE ioevents' = ioevents /\ UNCHANGED <<enabled>>
    BY <1>1, <2>1, <2>2, <2>3 DEF TransportIInv, MatchOK
  <2>4. CASE /\ ioevents' = ioevents \cup Bells(vsel)
             /\ enabled' = [enabled EXCEPT ![vsel] = TRUE]
    <3>1. \A q \in VQueues : enabled'[q] <=> (enabled[q] \/ q = vsel)
      BY <2>4 DEF TransportIInv, RingsOK
    <3>2. ASSUME ~left, NEW e
          PROVE  e \in ioevents' <=> \E q \in VQueues : enabled'[q] /\ e \in Bells(q)
      <4>1. e \in ioevents <=> \E q \in VQueues : enabled[q] /\ e \in Bells(q)
        BY <2>2, <3>2 DEF TransportIInv, MatchOK
      <4> HIDE DEF Bells
      <4> QED BY <1>3, <2>4, <3>1, <4>1
    <3> QED BY <1>1, <2>1, <2>2, <3>2 DEF MatchOK
  <2> QED BY <1>5, <2>3, <2>4
<1> QED BY <1>6, <1>7, <1>9, <1>10, <1>11 DEF TransportIInv

\* The head of a sequence is its first element.
LEMMA HeadIsFirst ==
  ASSUME NEW S, NEW t \in Seq(S)
  PROVE  (Len(t) # 0 => t # <<>>) /\ (t # <<>> => Head(t) = t[1])
OBVIOUS

\* The head of the list of steps goes; the rest is still in pairs, and a queue
\* that will go still does, unless it was the head.
LEMMA TailPaired ==
  ASSUME Paired(down), down # <<>>
  PROVE  /\ Paired(Tail(down))
         /\ down[1] = Head(down) /\ Head(down) \in {"bells", "backend"} \X VQueues
         /\ Len(down) \in Nat \ {0} /\ Len(Tail(down)) = Len(down) - 1
         /\ \A i \in 1 .. Len(down) - 1 : Tail(down)[i] = down[i + 1]
         /\ Head(down)[1] = "bells" =>
              Tail(down) # <<>> /\ Head(Tail(down)) = <<"backend", Head(down)[2]>>
         /\ Head(down)[1] = "backend" /\ Tail(down) # <<>> => Head(Tail(down))[1] = "bells"
<1>1. /\ down \in Seq({"bells", "backend"} \X VQueues)
      /\ Len(down) \in Nat \ {0}
  BY DEF Paired
<1>2. /\ Tail(down) \in Seq({"bells", "backend"} \X VQueues)
      /\ Len(Tail(down)) = Len(down) - 1
      /\ \A i \in 1 .. Len(down) - 1 : Tail(down)[i] = down[i + 1]
      /\ down[1] = Head(down) /\ Head(down) \in {"bells", "backend"} \X VQueues
  BY <1>1
<1>3. Paired(Tail(down))
  <2> SUFFICES ASSUME NEW i \in 1 .. Len(down) - 1
               PROVE  /\ Tail(down)[i][1] = "bells" =>
                           /\ i < Len(down) - 1
                           /\ Tail(down)[i + 1] = <<"backend", Tail(down)[i][2]>>
                      /\ Tail(down)[i][1] = "backend" /\ i < Len(down) - 1 =>
                           Tail(down)[i + 1][1] = "bells"
    BY <1>2 DEF Paired
  <2>1. i + 1 \in 1 .. Len(down) /\ Tail(down)[i] = down[i + 1]
        /\ (i < Len(down) - 1 => Tail(down)[i + 1] = down[i + 1 + 1])
    BY <1>1, <1>2
  <2>2. /\ down[i + 1][1] = "bells" =>
             i + 1 < Len(down) /\ down[i + 1 + 1] = <<"backend", down[i + 1][2]>>
        /\ down[i + 1][1] = "backend" /\ i + 1 < Len(down) => down[i + 1 + 1][1] = "bells"
    BY <2>1 DEF Paired
  <2> QED BY <1>1, <2>1, <2>2
<1>4. /\ down[1][1] = "bells" => 1 < Len(down) /\ down[2] = <<"backend", down[1][2]>>
      /\ down[1][1] = "backend" /\ 1 < Len(down) => down[2][1] = "bells"
  BY <1>1 DEF Paired
<1>5. ASSUME 1 < Len(down)
      PROVE  Tail(down) # <<>> /\ Head(Tail(down)) = down[2]
  <2>1. Tail(down)[1] = down[1 + 1] /\ Len(Tail(down)) # 0
    BY <1>1, <1>2, <1>5
  <2>2. Tail(down) # <<>>
    BY <1>2, <2>1, HeadIsFirst
  <2>3. Head(Tail(down)) = Tail(down)[1]
    BY <1>2, <2>2, HeadIsFirst
  <2> QED BY <2>1, <2>2, <2>3
<1>6. Tail(down) # <<>> => 1 < Len(down)
  BY <1>1, <1>2
<1> QED BY <1>1, <1>2, <1>3, <1>4, <1>5, <1>6

\* The doorbells of a queue go: all that the queue has.
LEMMA DelBellsKeeps ==
  ASSUME TransportIInv, DelBells
  PROVE  TransportIInv'
<1>1. UNCHANGED <<trans, kind, pc, vstatus, started, dfsel, gfsel, vsel, features, vaddr, enabled,
                  ringAt, useEventIdx, vbar, fetched, calling, worker, accepted, left>>
  BY DEF DelBells, drvState, regState, vqState, history, backState
<1> DEFINE r == Head(down)[2]
<1>2. /\ Paired(down') /\ down # <<>> /\ down' = Tail(down)
      /\ Head(down) = <<"bells", r>> /\ r \in VQueues
      /\ down' # <<>> /\ Head(down') = <<"backend", r>>
      /\ \A q \in VQueues : WillGo(q) => WillGo(q)'
  <2>1. down # <<>> /\ Head(down)[1] = "bells" /\ down' = Tail(down) /\ Paired(down)
    BY DEF DelBells, TransportIInv, DownOK
  <2>2. ASSUME NEW q \in VQueues, WillGo(q) PROVE WillGo(q)'
    <3>1. PICK i \in 1 .. Len(down) : down[i] = <<"backend", q>>
      BY <2>2 DEF WillGo
    <3>2. i # 1
      BY <2>1, <3>1, TailPaired
    <3>3. i - 1 \in 1 .. Len(down') /\ down'[i - 1] = <<"backend", q>>
      BY <2>1, <3>1, <3>2, TailPaired
    <3> QED BY <3>3 DEF WillGo
  <2> QED BY <2>1, <2>2, TailPaired
<1>3. /\ ioevents' = ioevents \ Bells(r) /\ rung' = rung \ (Bells(r) \cap ioevents)
      /\ freed' = freed \cup (Bells(r) \cap ioevents \cap fetched)
  BY DEF DelBells
<1> HIDE DEF r
<1>4. RegsOK'
  BY <1>1 DEF TransportIInv, RegsOK, Legacy, VqCount
<1>5. BellsOK' /\ DownOK'
  BY <1>1, <1>2, <1>3 DEF TransportIInv, BellsOK, DownOK
<1>6. RingsOK'
  BY <1>1 DEF TransportIInv, RingsOK, RingAsProgrammed, Programmed, Legacy
<1>7. StageOK'
  BY <1>1, <1>2 DEF TransportIInv, StageOK, Live, VqCount
<1>8. MatchOK'
  <2>1. \A q : Bells(q)' = Bells(q)
    BY <1>1 DEF Bells, IsPci
  <2>2. \A q \in VQueues : (Belled(q)' <=> enabled[q] /\ q # r) /\ (Belled(q) <=> enabled[q])
    BY <1>1, <1>2 DEF Belled
  <2>3. ASSUME ~left, NEW e
        PROVE  e \in ioevents' <=> \E q \in VQueues : enabled[q] /\ q # r /\ e \in Bells(q)
    <3>1. e \in ioevents <=> \E q \in VQueues : enabled[q] /\ e \in Bells(q)
      BY <2>2, <2>3 DEF TransportIInv, MatchOK
    <3>2. \A q : e \in Bells(q) => e.vq = q
      BY BellNames
    <3> QED BY <1>3, <3>1, <3>2
  <2> QED BY <1>1, <2>1, <2>2, <2>3 DEF MatchOK
<1> QED BY <1>4, <1>5, <1>6, <1>7, <1>8 DEF TransportIInv

\* The backend of a queue goes, and the queue with it.
LEMMA ExitVqKeeps ==
  ASSUME TransportIInv, ExitVq
  PROVE  TransportIInv'
<1>1. UNCHANGED <<trans, kind, pc, vstatus, started, dfsel, gfsel, vsel, features, vbar, ioevents,
                  rung, fetched, freed, calling, accepted, left>>
  BY DEF ExitVq, drvState, history, bellState, epollState
<1> DEFINE r == Head(down)[2]
<1>2. /\ Paired(down') /\ down # <<>> /\ down' = Tail(down)
      /\ Head(down) = <<"backend", r>> /\ r \in VQueues
      /\ down' # <<>> => Head(down')[1] = "bells"
      /\ \A q \in VQueues : WillGo(q) => WillGo(q)' \/ q = r
  <2>1. down # <<>> /\ Head(down)[1] = "backend" /\ down' = Tail(down) /\ Paired(down)
    BY DEF ExitVq, TransportIInv, DownOK
  <2>2. ASSUME NEW q \in VQueues, WillGo(q), q # r PROVE WillGo(q)'
    <3>1. PICK i \in 1 .. Len(down) : down[i] = <<"backend", q>>
      BY <2>2 DEF WillGo
    <3>2. i # 1
      BY <2>1, <2>2, <3>1, TailPaired
    <3>3. i - 1 \in 1 .. Len(down') /\ down'[i - 1] = <<"backend", q>>
      BY <2>1, <3>1, <3>2, TailPaired
    <3> QED BY <3>3 DEF WillGo
  <2> QED BY <2>1, <2>2, TailPaired
<1>3. /\ enabled' = [enabled EXCEPT ![r] = FALSE]
      /\ ringAt' = [ringAt EXCEPT ![r] = VNone]
      /\ useEventIdx' = [useEventIdx EXCEPT ![r] = FALSE]
      /\ vaddr' = [vaddr EXCEPT ![r] = ZeroAddr]
      /\ worker' = worker \/ worker' = [worker EXCEPT ![r] = "none"]
  BY DEF ExitVq, BlkExitVq, RngExitVq, NoExitVq
<1> HIDE DEF r
<1>4. RegsOK'
  BY <1>1 DEF TransportIInv, RegsOK, Legacy, VqCount
<1>5. BellsOK' /\ DownOK'
  BY <1>1, <1>2, <1>3 DEF TransportIInv, BellsOK, DownOK
<1>6. /\ enabled' \in [VQueues -> BOOLEAN] /\ useEventIdx' \in [VQueues -> BOOLEAN]
      /\ ringAt' \in [VQueues -> Addrs \cup {VNone}] /\ vaddr' \in [VQueues -> Addrs]
      /\ enabled'[r] = FALSE /\ ringAt'[r] = VNone
      /\ \A q \in VQueues \ {r} : /\ enabled'[q] = enabled[q] /\ ringAt'[q] = ringAt[q]
                                  /\ useEventIdx'[q] = useEventIdx[q]
  BY <1>2, <1>3 DEF TransportIInv, RingsOK, Addrs, ZeroAddr
<1>7. RingsOK'
  <2>1. pc[1] \notin {"hi", "enable"}
    BY <1>2 DEF TransportIInv, DownOK
  <2>2. \A q \in VQueues : Programmed(q)' = Programmed(q)
    BY <1>1 DEF Programmed, Legacy
  <2> QED BY <1>1, <1>2, <1>6, <2>1, <2>2 DEF TransportIInv, RingsOK, RingAsProgrammed
<1>8. StageOK'
  <2>1. \A q \in VQueues : Live(q)' => Live(q)
    BY <1>2, <1>6 DEF Live
  <2> QED BY <1>1, <2>1 DEF TransportIInv, StageOK, VqCount
<1>9. MatchOK'
  <2>1. \A q : Bells(q)' = Bells(q)
    BY <1>1 DEF Bells, IsPci
  <2>2. \A q \in VQueues : Belled(q)' <=> Belled(q)
    BY <1>2, <1>6 DEF Belled
  <2> QED BY <1>1, <2>1, <2>2 DEF TransportIInv, MatchOK
<1> QED BY <1>4, <1>5, <1>7, <1>8, <1>9 DEF TransportIInv

\* All the steps of the transports.
LEMMA TransportKept == ASSUME TransportIInv, [VtNext]_vtVars PROVE TransportIInv'
<1>1. CASE UNCHANGED vtVars
  <2>1. UNCHANGED <<trans, kind, pc, vstatus, started, dfsel, gfsel, vsel, features, vaddr,
                    enabled, ringAt, useEventIdx, vbar, down, ioevents, rung, fetched, freed,
                    calling, worker, accepted, left>>
    BY <1>1 DEF vtVars, drvState, regState, vqState, bellState, epollState, backState, history
  <2>2. RegsOK' /\ BellsOK' /\ DownOK'
    BY <2>1 DEF TransportIInv, RegsOK, BellsOK, DownOK, Paired, Legacy, VqCount
  <2>3. RingsOK' /\ StageOK'
    BY <2>1 DEF TransportIInv, RingsOK, RingAsProgrammed, Programmed, Legacy, StageOK, Live,
                WillGo, VqCount
  <2>4. MatchOK'
    BY <2>1, MatchStays DEF TransportIInv
  <2> QED BY <2>2, <2>3, <2>4 DEF TransportIInv
<1>2. CASE VtDriver
  <2>1. ASSUME NEW q \in VKicked, Kick(q % VqCount)
        PROVE  \E p \in VQueues : Kick(p)
    <3>1. q % VqCount \in VQueues
      <4>1. VqCount \in Nat \ {0} /\ q \in Nat
        BY Counts, VAssumption
      <4>2. q % VqCount \in 0 .. VqCount - 1
        BY <4>1
      <4> QED BY <4>1, <4>2, Counts
    <3> QED BY <2>1, <3>1
  <2>2. \A some \in SUBSET {EVENT_IDX} : some \in SUBSET {EVENT_IDX, VERSION_1}
    OBVIOUS
  <2>3. \/ GiveUp \/ Remove \/ ReadEnabled \/ WriteStatusZero \/ WriteQueueSelect
        \/ WriteAddress \/ WriteEnable \/ WriteDisable
        \/ \E a \in VBars : MoveBar(a)
        \/ WriteStatus \/ WriteFeatureSelect \/ ReadFeatures
        \/ \E some \in SUBSET {EVENT_IDX, VERSION_1} : WriteFeatures(some)
        \/ \E p \in VQueues : Kick(p)
    BY <1>2, <2>1, <2>2 DEF VtDriver, CommonWrite, CommonRead, DataOut, DataIn, MmioLegacyOut,
                       MmioLegacyIn, MmioModernOut, MmioModernIn
  <2> QED BY <2>3, DriverMoves, ResetKeeps, SelectKeeps, AddressKeeps, EnableKeeps, DisableKeeps,
             MoveBarKeeps, FeatureAccessKeeps, EpollKeeps
<1> QED BY <1>1, <1>2, DelBellsKeeps, ExitVqKeeps, ResetKeeps, EpollKeeps DEF VtNext

-----------------------------------------------------------------------------
(* The theorems                                                            *)

\* A step of the composition is, for each part, a step of that part or none.
LEMMA PartsMove ==
  [MCNext]_all => [VtNext]_vtVars /\ [SgNext]_sgVars /\ [CoNext]_coVars /\ [VhNext]_vhVars
<1>1. CASE UNCHANGED all
  BY <1>1 DEF all
<1>2. CASE MCNext
  BY <1>2 DEF MCNext
<1> QED BY <1>1, <1>2

\* TransportIInv holds of a device nobody has driven.
LEMMA TransportStarts == VtInit => TransportIInv
<1> SUFFICES ASSUME VtInit PROVE TransportIInv
  OBVIOUS
<1>1. /\ trans \in {"pci_legacy", "pci_modern", "mmio_legacy", "mmio_modern"}
      /\ kind \in {"thread", "job", "vhost"}
  BY VAssumption DEF VtInit
<1>2. RegsOK
  <2>1. pc[1] = "reset" /\ pc \in Regs \X Nat
    BY DEF VtInit, Regs
  <2> QED BY <1>1, <2>1, Counts DEF VtInit, RegsInit, RegsOK, FeatureRegs, QueueRegs, LeaveRegs
<1>5. BellsOK
  BY DEF VtInit, BellsOK
<1>3. DownOK /\ RingsOK
  BY DEF VtInit, RegsInit, DownOK, Paired, RingsOK, RingAsProgrammed, Addrs, ZeroAddr
<1>4. StageOK /\ MatchOK
  BY DEF VtInit, StageOK, Live, MatchOK, Belled
<1> QED BY <1>2, <1>3, <1>4, <1>5 DEF TransportIInv

\* TransportIInv implies what the run checks.
LEMMA TransportMeans == TransportIInv => TransportInv
<1> SUFFICES ASSUME TransportIInv PROVE TransportInv
  OBVIOUS
<1>1. VtTypeOK
  BY DEF TransportIInv, RegsOK, BellsOK, RingsOK, VtTypeOK, Regs
<1>2. RingAsProgrammed
  BY DEF TransportIInv, RingsOK
<1>3. DoorbellsMatch
  <2> SUFFICES ASSUME ~left, down = <<>>
               PROVE  ioevents = UNION {Bells(q) : q \in {p \in VQueues : enabled[p]}}
    BY DEF DoorbellsMatch
  <2>1. \A e : e \in ioevents <=> \E q \in VQueues : enabled[q] /\ e \in Bells(q)
    BY DEF TransportIInv, MatchOK, Belled
  <2> HIDE DEF Bells
  <2> QED BY <2>1
<1> QED BY <1>1, <1>2, <1>3 DEF TransportInv

\* For any number of queues, any BAR addresses, every transport and backend, and
\* every interleaving of the driver's accesses with the epoll thread and the
\* backends: an enabled queue has the ring its driver programmed for it, with
\* event indices when it accepted them, and the doorbells that exist are those of
\* the enabled queues at the device's present address (virtio_pci__init_vq,
\* virtio_mmio_init_vq, virtio_pci_exit_vq, virtio_notify_status).
THEOREM TransportsSafe == MCSpec => []TransportInv
<1>1. MCInit => TransportIInv
  BY TransportStarts DEF MCInit
<1>2. TransportIInv /\ [MCNext]_all => TransportIInv'
  BY PartsMove, TransportKept
<1> QED BY <1>1, <1>2, TransportMeans, PTL DEF MCSpec

\* Whatever the signallers and the order of their loads and stores with those of
\* the handler, on every bus: a status bit that is set when nobody is in the
\* middle of an access has its interrupt on the way, and a completion held back by
\* a mask is in msix_pba (virtio_pci__signal_vq, virtio_mmio_signal_vq and the
\* reads of ISR).
THEOREM SignalsRecorded == MCSpec => []SignalRecorded
<1>1. MCInit => SignalIInv
  BY DEF MCInit, SgInit, SignalIInv, SgTypeOK, PciStatus, MmioStatus, MsixStatus
<1>2. SignalIInv /\ [MCNext]_all => SignalIInv'
  BY PartsMove, SignalKept
<1>3. SignalIInv => SignalRecorded
  <2> SUFFICES ASSUME SignalIInv, Quiet
               PROVE  /\ isr # {} => line
                      /\ bus = "msix" /\ unseen => line \/ "queue" \in pba
    BY DEF SignalRecorded
  <2>1. hpc = "idle" /\ ~Raising
    BY DEF Quiet, Raising
  <2> QED BY <2>1 DEF SignalIInv, PciStatus, MmioStatus, MsixStatus, OnItsWay
<1> QED BY <1>1, <1>2, <1>3, PTL DEF MCSpec

\* For any amount of input and any number of drivers: after exit_vq of the console
\* the receive job is neither queued nor running and has not touched the ring; the
\* kernel serves the rings, doorbells and call eventfds of the driver that runs,
\* and a vsock that was reset is not served.
THEOREM BackendsKept == MCSpec => []BackendsKeep
<1>1. MCInit => ReceiveIInv /\ KernelIInv
  <2>1. MCInit => ReceiveIInv
    BY DEF MCInit, CoInit, ReceiveIInv
  <2>2. MCInit => KernelIInv
    BY DEF MCInit, VhInit, KernelIInv, VhTypeOK, VhQueues
  <2> QED BY <2>1, <2>2
<1>2. ReceiveIInv /\ KernelIInv /\ [MCNext]_all => ReceiveIInv' /\ KernelIInv'
  BY PartsMove, ReceiveKept, KernelKept
<1>3. ReceiveIInv => ReceiveStopped
  BY DEF ReceiveIInv, ReceiveStopped
<1>4. KernelIInv => KernelServesDriver
  BY DEF KernelIInv, VhTypeOK, RingOfSession, KernelServesDriver
<1>5. ReceiveIInv /\ KernelIInv => BackendsKeep
  BY <1>3, <1>4 DEF BackendsKeep
<1> QED BY <1>1, <1>2, <1>5, PTL DEF MCSpec
=============================================================================
