--------------------------- MODULE VirtioTransport ---------------------------
(***************************************************************************)
(* A virtio device behind one of the four transports (PCI and MMIO, legacy *)
(* and modern), from the registers to the backend: feature negotiation,    *)
(* queue set up, doorbells (ioeventfds dispatched by the epoll thread),    *)
(* DRIVER_OK, reset and removal.                                           *)
(*                                                                         *)
(* The guest's driver is not part of the program.  It is the sequence of   *)
(* register accesses After; it may give up before DRIVER_OK.  Every       *)
(* access is handled by a vCPU thread, one step per access, except that    *)
(* taking a queue down has a step for the doorbells and one for the        *)
(* backend, which waits for a running job.                                 *)
(*                                                                         *)
(* Interrupts are in VirtioSignal and VirtioMsix.                          *)
(***************************************************************************)
EXTENDS Naturals, Sequences, FiniteSets

CONSTANTS
  VQueues,    \* 0 .. get_vq_count() - 1
  VMachines,  \* bound: the pairs of a transport and a backend
  VKicked,    \* bound: the queues the driver uses
  VBars,      \* addresses the guest may give to the device's BARs
  VNone       \* no ring

ASSUME VAssumption ==
  /\ VQueues # {} /\ IsFiniteSet(VQueues)
  /\ VQueues = 0 .. Cardinality(VQueues) - 1
  /\ VKicked \subseteq VQueues
  /\ VBars \subseteq Nat /\ VNone \notin Nat
  /\ VMachines \subseteq {"pci_legacy", "pci_modern", "mmio_legacy", "mmio_modern"}
                    \X {"thread", "job", "vhost"}

VARIABLES
  trans,      \* kvm->cfg.virtio_transport
  kind,       \* the backend: an I/O "thread" (blk), a pool "job" (rng, console,
              \* balloon, 9p) or "vhost" (scsi, vsock: the kernel polls the doorbell)
  pc, rd,     \* the driver: its next access, and the last value it has read
  vstatus,    \* vpci->status or hdr.status: 0, 1 (DRIVER) or 4 (DRIVER_OK)
  started,    \* vdev->status & VIRTIO__STATUS_START
  dfsel, gfsel, \* device_features_sel, driver_features_sel
  vsel,       \* queue_selector
  features,   \* vdev->features
  vaddr,      \* per queue: vring_addr, its low and high halves (legacy: the pfn)
  enabled,    \* per queue: vq->enabled
  ringAt,     \* per queue: where vq->vring points
  useEventIdx,\* per queue: vq->use_event_idx
  vbar,       \* the address in the BARs
  down,       \* queues the vCPU is taking down, in order, each as <<step, queue>>
  ioevents,   \* used_ioevents: the doorbells [bus, at, vq]
  rung,       \* doorbells whose eventfd is readable
  fetched,    \* doorbells epoll_wait has returned and the thread has not read
  freed,      \* those of fetched that were deleted meanwhile
  calling,    \* the queue whose notify_vq the epoll thread is about to call
  pending,    \* per queue: io_efd readable, or the job signalled
  worker,     \* per queue: the I/O thread or job: "none", "idle", "busy"
  work,       \* per queue: the driver has kicked for requests not served yet
  stopfd,     \* epoll->stop_fd holds the stop token
  ethread,    \* the epoll thread: "run", "done" (told to stop), "token", "ended"
  epc,        \* epoll__exit: "idle", "read", "closed"
  accepted,   \* history: features this session's driver has accepted
  left,       \* history: a driver has left with queues enabled
  broken      \* history: a freed doorbell or a disabled queue was used

drvState == <<pc, rd>>
regState == <<vstatus, started, dfsel, gfsel, vsel, features, vaddr>>
vqState == <<enabled, ringAt, useEventIdx>>
epollState == <<fetched, freed, calling>>
bellState == <<ioevents, rung, epollState>>
backState == <<pending, worker, work>>
stopState == <<stopfd, ethread, epc>>
history == <<accepted, left, broken>>
vtVars == <<trans, kind, drvState, regState, vqState, vbar, down, bellState,
            backState, stopState, history>>

IsPci == trans \in {"pci_legacy", "pci_modern"}
Legacy == trans \in {"pci_legacy", "mmio_legacy"}

\* get_vq_count: virtio-blk has one queue.
VqCount == IF kind = "thread" THEN 1 ELSE Cardinality(VQueues)

\* VIRTIO_RING_F_EVENT_IDX is in word 0, VIRTIO_F_VERSION_1 is bit 0 of word 1.
EVENT_IDX == <<0, 29>>
VERSION_1 == <<1, 0>>
HostFeatures == {EVENT_IDX}

ZeroAddr == [lo |-> 0, hi |-> 0]

\* What the driver programs for queue q.
Programmed(q) == [lo |-> q + 1, hi |-> IF Legacy THEN 0 ELSE q + 1]

-----------------------------------------------------------------------------
(* The driver                                                              *)

\* The access that follows access p when a driver takes over the device.
After(p) ==
  CASE p[1] = "reset" -> <<"driver", 0>>
    [] p[1] = "driver" -> IF trans = "pci_legacy" THEN <<"read_df", 0>>
                                                  ELSE <<"dfsel", 0>>
    [] p[1] = "dfsel" -> <<"read_df", p[2]>>
    [] p[1] = "read_df" -> IF trans = "pci_legacy" THEN <<"gf", 0>>
                                                   ELSE <<"gfsel", p[2]>>
    [] p[1] = "gfsel" -> <<"gf", p[2]>>
    [] p[1] = "gf" -> IF p[2] = 0 /\ ~Legacy THEN <<"dfsel", 1>> ELSE <<"sel", 0>>
    [] p[1] = "sel" -> <<"read_enabled", p[2]>>
    [] p[1] = "read_enabled" -> IF Legacy THEN <<"enable", p[2]>> ELSE <<"lo", p[2]>>
    [] p[1] = "lo" -> <<"hi", p[2]>>
    [] p[1] = "hi" -> <<"enable", p[2]>>
    [] p[1] = "enable" -> IF p[2] + 1 < VqCount THEN <<"sel", p[2] + 1>>
                                                  ELSE <<"ok", 0>>
    [] p[1] = "ok" -> <<"run", 0>>
    [] p[1] = "remove" -> IF Legacy THEN <<"unsel", 0>> ELSE <<"reset", 0>>
    [] p[1] = "unsel" -> <<"disable", p[2]>>
    [] p[1] = "disable" -> IF p[2] + 1 < VqCount THEN <<"unsel", p[2] + 1>>
                                                   ELSE <<"reset", 0>>

SetUp == {"driver", "dfsel", "read_df", "gfsel", "gf", "sel", "read_enabled",
          "lo", "hi", "enable", "ok"}

\* The driver makes access reg, unless its vCPU is still busy with the last one.
At(reg) == pc[1] = reg /\ down = <<>> /\ pc' = After(pc)

\* A driver that fails before DRIVER_OK takes its queues down when it is a legacy
\* one; a modern one leaves that to the next reset.
Abandoned == IF Legacy THEN <<"unsel", 0>> ELSE <<"reset", 0>>
LeftEnabled == left \/ (~Legacy /\ \E q \in VQueues : enabled[q])

GiveUp ==
  /\ pc[1] \in SetUp /\ down = <<>>
  /\ pc' = Abandoned
  /\ left' = LeftEnabled
  /\ UNCHANGED <<trans, kind, rd, regState, vqState, vbar, down, bellState,
                 backState, stopState, accepted, broken>>

\* Between two drivers the guest may give the BARs another address (bound: a
\* higher one).
MoveBar(a) ==
  /\ IsPci /\ pc[1] = "reset" /\ down = <<>>
  /\ a > vbar /\ vbar' = a
  /\ UNCHANGED <<trans, kind, drvState, regState, vqState, down, bellState,
                 backState, stopState, history>>

Remove ==
  /\ pc = <<"run", 0>> /\ down = <<>>
  /\ pc' = <<"remove", 0>>
  /\ UNCHANGED <<trans, kind, rd, regState, vqState, vbar, down, bellState,
                 backState, stopState, history>>

-----------------------------------------------------------------------------
(* Doorbells and queues                                                    *)

\* The doorbells of queue q: one on each bus behind PCI, one behind MMIO.
Bells(q) ==
  {[bus |-> b, at |-> vbar, vq |-> q] :
     b \in IF IsPci THEN {"pio", "mmio"} ELSE {"mmio"}}

\* The doorbell the driver rings.
BellOf(q) ==
  [bus |-> IF trans = "pci_legacy" THEN "pio" ELSE "mmio", at |-> vbar, vq |-> q]

\* When the second doorbell cannot be added the first one is deleted.
BellsKeptOnFailure(q) == ioevents \cup {[bus |-> "pio", at |-> vbar, vq |-> q]}
BellsAfterFailure(q) == ioevents

\* virtio_init_device_vq: the ring is where vring_addr says.
RingUnset(q) == ringAt[q]
RingFrom(q) == vaddr'[q]

\* The device's init_vq: a new eventfd and a new I/O thread; a job set to zero; or
\* the ring handed to the kernel.
BlkInitVq(q) ==
  /\ kind = "thread"
  /\ worker' = [worker EXCEPT ![q] = "idle"]
  /\ pending' = [pending EXCEPT ![q] = FALSE]

RngInitVq(q) ==
  /\ kind = "job"
  /\ worker' = [worker EXCEPT ![q] = "idle"]
  /\ pending' = [pending EXCEPT ![q] = FALSE]

VhostInitVq(q) ==
  /\ kind = "vhost"
  /\ worker' = [worker EXCEPT ![q] = "idle"]
  /\ UNCHANGED pending

\* virtio_pci_init_vq and virtio_mmio_init_vq.  KVM refuses
\* a doorbell that exists already, or may fail for another reason; the queue
\* then stays as it is.
InitVq(q) ==
  \/ /\ Bells(q) \cap ioevents = {}
     /\ ioevents' = ioevents \cup Bells(q)
     /\ enabled' = [enabled EXCEPT ![q] = TRUE]
     /\ ringAt' = [ringAt EXCEPT ![q] = RingFrom(q)]
     /\ useEventIdx' = [useEventIdx EXCEPT ![q] = EVENT_IDX \in features]
     /\ BlkInitVq(q) \/ RngInitVq(q) \/ VhostInitVq(q)
  \/ /\ ioevents' = BellsAfterFailure(q)
     /\ UNCHANGED <<vqState, worker, pending>>

\* The steps of taking a queue down: its doorbells, then its backend.
StepsDown(first, n) ==
  [i \in 1 .. 2 * n |-> <<IF i % 2 = 1 THEN "bells" ELSE "backend",
                          first + ((i - 1) \div 2)>>]
ResetSteps == StepsDown(0, VqCount)
NoSteps == <<>>

\* ioeventfd__del_event for every doorbell of the queue at the device's address:
\* it is removed from KVM, from the epoll set and from the list, closed and freed,
\* also when epoll_wait has just returned it.
DelBells ==
  /\ down # <<>> /\ Head(down)[1] = "bells"
  /\ LET gone == Bells(Head(down)[2]) \cap ioevents
     IN /\ ioevents' = ioevents \ gone
        /\ rung' = rung \ gone
        /\ freed' = freed \cup (gone \cap fetched)
  /\ down' = Tail(down)
  /\ UNCHANGED <<trans, kind, drvState, regState, vqState, vbar, fetched, calling,
                 backState, stopState, history>>

\* The device's exit_vq.  The I/O thread is cancelled wherever it is; a job is
\* waited for; vhost-scsi and vhost-vsock have none, the kernel keeps the ring.
BlkExitVq(q) ==
  /\ kind = "thread"
  /\ worker' = [worker EXCEPT ![q] = "none"]
  /\ pending' = [pending EXCEPT ![q] = FALSE]

RngExitVq(q) ==
  /\ kind = "job" /\ worker[q] # "busy"
  /\ pending' = [pending EXCEPT ![q] = FALSE]
  /\ UNCHANGED worker

NoExitVq(q) == (kind = "vhost" \/ ~enabled[q]) /\ UNCHANGED <<worker, pending>>

\* virtio_exit_vq.
ExitVq ==
  /\ down # <<>> /\ Head(down)[1] = "backend"
  /\ LET q == Head(down)[2]
     IN /\ \/ enabled[q] /\ (BlkExitVq(q) \/ RngExitVq(q))
           \/ NoExitVq(q)
        /\ enabled' = [enabled EXCEPT ![q] = FALSE]
        /\ ringAt' = [ringAt EXCEPT ![q] = VNone]
        /\ useEventIdx' = [useEventIdx EXCEPT ![q] = FALSE]
        /\ vaddr' = [vaddr EXCEPT ![q] = ZeroAddr]
        /\ work' = [work EXCEPT ![q] = FALSE]
  /\ down' = Tail(down)
  /\ UNCHANGED <<trans, kind, drvState, vstatus, started, dfsel, gfsel, vsel,
                 features, vbar, bellState, stopState, history>>

-----------------------------------------------------------------------------
(* Register accesses: virtio_pci__common_write and _read,                  *)
(* virtio_pci__data_out and _in, virtio_mmio_config_out and _in            *)

\* virtio_notify_status: the queues go down when the device had been started.
StepsOnZero == IF started THEN ResetSteps ELSE NoSteps

WriteStatusZero ==
  /\ At("reset") \/ At("remove")
  /\ vstatus' = 0 /\ started' = FALSE
  /\ down' = StepsOnZero
  /\ accepted' = {}
  /\ UNCHANGED <<trans, kind, rd, dfsel, gfsel, vsel, features, vaddr, vqState, vbar,
                 bellState, backState, stopState, left, broken>>

WriteStatus ==
  /\ \/ At("driver") /\ vstatus' = 1 /\ UNCHANGED started
     \/ At("ok") /\ vstatus' = 4 /\ started' = TRUE
  /\ UNCHANGED <<trans, kind, rd, dfsel, gfsel, vsel, features, vaddr, vqState, vbar,
                 down, bellState, backState, stopState, history>>

WriteFeatureSelect ==
  /\ \/ At("dfsel") /\ dfsel' = pc[2] /\ UNCHANGED gfsel
     \/ At("gfsel") /\ gfsel' = pc[2] /\ UNCHANGED dfsel
  /\ UNCHANGED <<trans, kind, rd, vstatus, started, vsel, features, vaddr, vqState,
                 vbar, down, bellState, backState, stopState, history>>

\* The word of the features the device offers at the selector.
OfferedWord ==
  CASE trans = "pci_legacy" -> {f \in HostFeatures : f[1] = 0}
    [] trans = "mmio_legacy" -> {f \in HostFeatures : f[1] = 0 /\ dfsel = 0}
    [] OTHER -> {f \in HostFeatures \cup {VERSION_1} : f[1] = dfsel}

ReadFeatures ==
  /\ At("read_df")
  /\ rd' = OfferedWord
  /\ UNCHANGED <<trans, kind, regState, vqState, vbar, down, bellState, backState,
                 stopState, history>>

\* virtio_set_guest_features adds to what was accepted before.  A modern driver
\* always accepts VIRTIO_F_VERSION_1.
FeaturesReplaced(new) == new
FeaturesWith(new) == features \cup new

WriteFeatures(some) ==
  /\ At("gf")
  /\ some \subseteq rd /\ (VERSION_1 \in rd => VERSION_1 \in some)
  /\ features' = FeaturesWith({f \in some : trans # "mmio_legacy" \/ gfsel = 0})
  /\ accepted' = accepted \cup some
  /\ rd' = {}
  /\ UNCHANGED <<trans, kind, vstatus, started, dfsel, gfsel, vsel, vaddr, vqState,
                 vbar, down, bellState, backState, stopState, left, broken>>

WriteQueueSelect ==
  /\ At("sel") \/ At("unsel")
  /\ vsel' = pc[2]
  /\ UNCHANGED <<trans, kind, rd, vstatus, started, dfsel, gfsel, features, vaddr,
                 vqState, vbar, down, bellState, backState, stopState, history>>

\* QUEUE_PFN reads back the pfn, Q_ENABLE and QUEUE_READY the flag.  A driver
\* gives up when the queue is in use already.
ReadEnabled ==
  /\ pc[1] = "read_enabled" /\ down = <<>>
  /\ LET busy == IF Legacy THEN vaddr[vsel].lo # 0 ELSE enabled[vsel]
     IN pc' = IF busy THEN Abandoned ELSE After(pc)
  /\ UNCHANGED <<trans, kind, rd, regState, vqState, vbar, down, bellState,
                 backState, stopState, history>>

WriteAddress ==
  /\ \/ At("lo") /\ vaddr' = [vaddr EXCEPT ![vsel].lo = pc[2] + 1]
     \/ At("hi") /\ vaddr' = [vaddr EXCEPT ![vsel].hi = pc[2] + 1]
  /\ UNCHANGED <<trans, kind, rd, vstatus, started, dfsel, gfsel, vsel, features,
                 vqState, vbar, down, bellState, backState, stopState, history>>

\* QUEUE_PFN sets the address and enables; Q_ENABLE and QUEUE_READY only enable.
WriteEnable ==
  /\ At("enable")
  /\ vaddr' = IF Legacy THEN [vaddr EXCEPT ![vsel] = [lo |-> pc[2] + 1, hi |-> 0]]
                        ELSE vaddr
  /\ InitVq(vsel)
  /\ UNCHANGED <<trans, kind, rd, vstatus, started, dfsel, gfsel, vsel, features,
                 vbar, down, rung, epollState, work, stopState, history>>

WriteDisable ==
  /\ At("disable")
  /\ down' = StepsDown(vsel, 1)
  /\ UNCHANGED <<trans, kind, rd, regState, vqState, vbar, bellState, backState,
                 stopState, history>>

\* The device's notify_vq: a write to io_efd, or thread_pool__do_job; nothing for
\* vhost.
BlkNotifyVq(q) ==
  /\ kind = "thread"
  /\ pending' = [pending EXCEPT ![q] = TRUE]
  /\ broken' = (broken \/ worker[q] = "none")

RngNotifyVq(q) ==
  /\ kind = "job"
  /\ pending' = [pending EXCEPT ![q] = TRUE]
  /\ UNCHANGED broken

VhostNotifyVq(q) == kind = "vhost" /\ UNCHANGED <<pending, broken>>

NotifyVq(q) == BlkNotifyVq(q) \/ RngNotifyVq(q) \/ VhostNotifyVq(q)

\* The driver has requests for queue q.  A doorbell takes the write in the kernel;
\* without one the vCPU exits and calls notify_vq itself.
Kick(q) ==
  /\ pc = <<"run", 0>> /\ down = <<>>
  /\ enabled[q] /\ ~work[q]
  /\ work' = [work EXCEPT ![q] = TRUE]
  /\ \/ /\ BellOf(q) \in ioevents
        /\ rung' = rung \cup {BellOf(q)}
        /\ UNCHANGED <<pending, broken>>
     \/ /\ BellOf(q) \notin ioevents
        /\ NotifyVq(q)
        /\ UNCHANGED rung
  /\ UNCHANGED <<trans, kind, drvState, regState, vqState, vbar, down, ioevents,
                 epollState, worker, stopState, accepted, left>>

-----------------------------------------------------------------------------
(* The epoll thread, the backend, and the end of the machine               *)

EpollWait ==
  /\ ethread = "run" /\ kind # "vhost"
  /\ fetched = {} /\ calling = VNone /\ rung # {}
  /\ fetched' = rung
  /\ UNCHANGED <<trans, kind, drvState, regState, vqState, vbar, down, ioevents, rung,
                 freed, calling, backState, stopState, history>>

\* ioeventfd__handle_event reads the eventfd of the event and calls its function.
EpollRead(e) ==
  /\ ethread = "run" /\ calling = VNone
  /\ e \in fetched
  /\ fetched' = fetched \ {e}
  /\ freed' = freed \ {e}
  /\ broken' = (broken \/ e \in freed)
  /\ rung' = rung \ {e}
  /\ calling' = e.vq
  /\ UNCHANGED <<trans, kind, drvState, regState, vqState, vbar, down, ioevents,
                 backState, stopState, accepted, left>>

EpollNotify ==
  /\ calling # VNone
  /\ NotifyVq(calling)
  /\ calling' = VNone
  /\ UNCHANGED <<trans, kind, drvState, regState, vqState, vbar, down, ioevents, rung,
                 fetched, freed, worker, work, stopState, accepted, left>>

\* virtio_blk_thread wakes up, or a pool thread takes the job.
Signalled(q) ==
  /\ pending[q]
  /\ pending' = [pending EXCEPT ![q] = FALSE]
  /\ broken' = (broken \/ ~enabled[q])
  /\ UNCHANGED rung

\* The kernel takes the doorbell itself.
KernelPolls(q) ==
  /\ kind = "vhost" /\ BellOf(q) \in rung
  /\ rung' = rung \ {BellOf(q)}
  /\ UNCHANGED <<pending, broken>>

Wake(q) ==
  /\ worker[q] = "idle"
  /\ Signalled(q) \/ KernelPolls(q)
  /\ worker' = [worker EXCEPT ![q] = "busy"]
  /\ UNCHANGED <<trans, kind, drvState, regState, vqState, vbar, down, ioevents,
                 epollState, work, stopState, accepted, left>>

Serve(q) ==
  /\ worker[q] = "busy"
  /\ worker' = [worker EXCEPT ![q] = "idle"]
  /\ work' = [work EXCEPT ![q] = FALSE]
  /\ UNCHANGED <<trans, kind, drvState, regState, vqState, vbar, down, bellState,
                 pending, stopState, history>>

\* The device's exit: blk and rng call virtio_exit, scsi and vsock do not.
BlkExit == kind = "thread" /\ down' = ResetSteps
RngExit == kind = "job" /\ down' = ResetSteps
VhostExit == kind = "vhost" /\ down' = NoSteps

\* dev_exit, once the vCPUs have stopped (bound: while a driver runs or none is
\* there).
DeviceExit ==
  /\ pc[1] \in {"run", "reset"} /\ down = <<>>
  /\ pc' = <<"gone", 0>>
  /\ BlkExit \/ RngExit \/ VhostExit
  /\ UNCHANGED <<trans, kind, rd, regState, vqState, vbar, bellState, backState,
                 stopState, history>>

\* epoll__exit writes the stop token and waits until it can read one.
EpollExit ==
  /\ pc[1] = "gone" /\ down = <<>>
  /\ \/ epc = "idle" /\ epc' = "read" /\ stopfd' = TRUE
     \/ epc = "read" /\ stopfd /\ epc' = "closed" /\ stopfd' = FALSE
  /\ UNCHANGED <<trans, kind, drvState, regState, vqState, vbar, down, bellState,
                 backState, ethread, history>>

\* The thread hands the stop token back.
TokenKept == FALSE
TokenBack == epc # "closed"

\* epoll__thread: told to stop, it takes the token and puts it back.  A closed
\* descriptor makes both calls fail with a warning.
EpollStop ==
  /\ fetched = {} /\ calling = VNone
  /\ \/ ethread = "run" /\ stopfd /\ epc # "closed" /\ ethread' = "done"
        /\ UNCHANGED stopfd
     \/ ethread = "done" /\ stopfd /\ ethread' = "token" /\ stopfd' = FALSE
     \/ ethread = "done" /\ epc = "closed" /\ ethread' = "ended" /\ UNCHANGED stopfd
     \/ ethread = "token" /\ ethread' = "ended" /\ stopfd' = TokenBack
  /\ UNCHANGED <<trans, kind, drvState, regState, vqState, vbar, down, bellState,
                 backState, epc, history>>

-----------------------------------------------------------------------------
\* The registers as virtio_mmio_init and virtio_pci__init leave them.
RegsInit ==
  /\ vstatus = 0 /\ started = FALSE
  /\ dfsel = 0 /\ gfsel = 0 /\ vsel = 0
  /\ features = {}
  /\ vaddr = [q \in VQueues |-> ZeroAddr]

VtInit ==
  /\ \E m \in VMachines : trans = m[1] /\ kind = m[2]
  /\ pc = <<"reset", 0>> /\ rd = {}
  /\ RegsInit
  /\ enabled = [q \in VQueues |-> FALSE]
  /\ ringAt = [q \in VQueues |-> VNone]
  /\ useEventIdx = [q \in VQueues |-> FALSE]
  /\ vbar = 1
  /\ down = <<>>
  /\ ioevents = {} /\ rung = {} /\ fetched = {} /\ freed = {} /\ calling = VNone
  /\ pending = [q \in VQueues |-> FALSE]
  /\ worker = [q \in VQueues |-> "none"]
  /\ work = [q \in VQueues |-> FALSE]
  /\ stopfd = FALSE /\ ethread = "run" /\ epc = "idle"
  /\ accepted = {} /\ left = FALSE /\ broken = FALSE

\* The handlers of the four transports, by the registers they implement.
CommonWrite ==
  trans = "pci_modern" /\
  \/ WriteStatusZero \/ WriteStatus \/ WriteFeatureSelect
  \/ \E some \in SUBSET {EVENT_IDX, VERSION_1} : WriteFeatures(some)
  \/ WriteQueueSelect \/ WriteAddress \/ WriteEnable

CommonRead == trans = "pci_modern" /\ (ReadFeatures \/ ReadEnabled)

DataOut ==
  trans = "pci_legacy" /\
  \/ WriteStatusZero \/ WriteStatus \/ \E some \in SUBSET {EVENT_IDX} : WriteFeatures(some)
  \/ WriteQueueSelect \/ WriteEnable \/ WriteDisable

DataIn == trans = "pci_legacy" /\ (ReadFeatures \/ ReadEnabled)

MmioLegacyOut ==
  trans = "mmio_legacy" /\
  \/ WriteStatusZero \/ WriteStatus \/ WriteFeatureSelect
  \/ \E some \in SUBSET {EVENT_IDX} : WriteFeatures(some)
  \/ WriteQueueSelect \/ WriteEnable \/ WriteDisable

MmioLegacyIn == trans = "mmio_legacy" /\ (ReadFeatures \/ ReadEnabled)

MmioModernOut ==
  trans = "mmio_modern" /\
  \/ WriteStatusZero \/ WriteStatus \/ WriteFeatureSelect
  \/ \E some \in SUBSET {EVENT_IDX, VERSION_1} : WriteFeatures(some)
  \/ WriteQueueSelect \/ WriteAddress \/ WriteEnable

MmioModernIn == trans = "mmio_modern" /\ (ReadFeatures \/ ReadEnabled)

VtDriver ==
  \/ GiveUp \/ Remove \/ \E a \in VBars : MoveBar(a)
  \/ CommonWrite \/ CommonRead \/ DataOut \/ DataIn
  \/ MmioLegacyOut \/ MmioLegacyIn \/ MmioModernOut \/ MmioModernIn
  \/ \E q \in VKicked : Kick(q % VqCount)

VtNext ==
  /\ ~broken
  /\ \/ VtDriver \/ DelBells \/ ExitVq
     \/ EpollWait \/ \E e \in fetched : EpollRead(e)
     \/ EpollNotify
     \/ \E q \in VQueues : Wake(q) \/ Serve(q)
     \/ DeviceExit \/ EpollExit \/ EpollStop
-----------------------------------------------------------------------------
(* Properties                                                              *)

VtTypeOK ==
  /\ pc[1] \in SetUp \cup {"reset", "run", "remove", "unsel", "disable", "gone"}
  /\ vstatus \in {0, 1, 4} /\ started \in BOOLEAN
  /\ dfsel \in 0 .. 1 /\ gfsel \in 0 .. 1 /\ vsel \in VQueues
  /\ features \subseteq {EVENT_IDX, VERSION_1}
  /\ enabled \in [VQueues -> BOOLEAN]
  /\ rung \subseteq ioevents /\ freed \subseteq fetched
  /\ calling \in VQueues \cup {VNone}
  /\ worker \in [VQueues -> {"none", "idle", "busy"}]

\* The ring of an enabled queue is the one the driver programmed for this queue
\* through the shared selector, and the queue uses event indices whenever its
\* driver accepted them (virtio_init_device_vq); a queue that is down has no ring.
RingAsProgrammed ==
  \A q \in VQueues :
    /\ enabled[q] => ringAt[q] = Programmed(q)
    /\ enabled[q] /\ ~left /\ EVENT_IDX \in accepted => useEventIdx[q]
    /\ ~enabled[q] => ringAt[q] = VNone

\* As long as no driver has left queues behind, the doorbells that exist are those
\* of the enabled queues, on every bus of the device, at its present address:
\* also after a doorbell could not be added (virtio_pci__init_ioeventfd).
DoorbellsMatch ==
  ~left /\ down = <<>> =>
    ioevents = UNION {Bells(q) : q \in {p \in VQueues : enabled[p]}}

\* Both, for every transport and backend.
TransportInv == VtTypeOK /\ RingAsProgrammed /\ DoorbellsMatch

\* virtio_notify_status, on status 0: "Reset virtqueues and stop all traffic now,
\* so that the device can safely reset the backend".  Once the write is done no
\* queue is enabled, no doorbell exists or is being dispatched, and no backend
\* runs.
ResetStopsTraffic ==
  vstatus = 0 /\ down = <<>> /\ pc[1] \in {"driver", "unsel"} =>
    /\ ioevents = {} /\ fetched = {} /\ calling = VNone
    /\ \A q \in VQueues : ~enabled[q] /\ worker[q] # "busy"

\* A kick of an enabled queue reaches the backend, through the doorbell and the
\* epoll thread, unless the queue is taken down first.
KickServed == \A q \in VQueues : work[q] ~> ~work[q] \/ broken

\* epoll__exit returns, whichever of the two reads of the stop token comes first.
EpollExitReturns == epc = "read" ~> epc = "closed" \/ broken
=============================================================================
