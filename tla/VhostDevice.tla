----------------------------- MODULE VhostDevice -----------------------------
(***************************************************************************)
(* The devices whose queues the host kernel serves: virtio-scsi and        *)
(* virtio-vsock over vhost.  kemu hands each ring, its doorbell and its    *)
(* call eventfd to the kernel; the "vhost-irq-worker" thread turns calls   *)
(* into interrupts.  Neither device has an exit_vq.                        *)
(*                                                                         *)
(* Drivers come one after the other (sessions 1, 2 ...); a ring, a         *)
(* doorbell or an eventfd is named by the session that made it.  The vCPU  *)
(* that resets the device first zeroes the queues and then tells the       *)
(* backend, while the kernel and the worker keep running.  The transport's *)
(* registers are in VirtioTransport, the direct irqfd route in VirtioMsix. *)
(***************************************************************************)
EXTENDS Naturals, FiniteSets

CONSTANTS
  VhKinds,      \* bound: which of "scsi" and "vsock"
  MaxSessions   \* bound on the drivers of one run

VARIABLES
  vh,         \* the device
  life,       \* "none", "init" (virtio_init done), "ready", "freed", "failed"
  session,    \* the driver that holds the device
  drv,        \* "off", "setup", "ok", "zeroed" (the vCPU is in virtio_notify_status)
  vring,      \* per queue: the session of vq->vring, 0 when the queue is down
  irqfd,      \* per queue: queue->irqfd, 0 when there is none
  kring,      \* the kernel, per queue: the ring's session
  kkick,      \* the doorbell's session
  kcall,      \* the call eventfd's session
  kactive,    \* a backend is attached: an endpoint is set, or the vsock runs
  calls,      \* call eventfds that are readable, as <<queue, session>>
  polled,     \* call eventfds in the worker's epoll set
  vhw,        \* the worker: "none", "run", or "stuck" in a read
  events,     \* the events epoll_wait has returned and the worker has not handled
  died        \* die() has ended the program

vhVars == <<vh, life, session, drv, vring, irqfd, kring, kkick, kcall, kactive,
            calls, polled, vhw, events, died>>
kernel == <<kring, kkick, kcall, kactive>>
worker_ == <<calls, polled, vhw, events>>

\* VSOCK_VQ_RX, _TX, _EVENT; the control, event and request queues of virtio-scsi.
VhQueues == 0 .. 2

\* Queues kemu hands to the kernel: vsock keeps the event queue to itself.
Handed(q) == vh = "vsock" => q # 2

Alive == ~died /\ life # "failed"
-----------------------------------------------------------------------------
(* The life of the device                                                  *)

\* virtio_scsi_init_one, virtio_vsock_init_one: virtio_init may fail.  virtio_scsi
\* then takes down an endpoint of a descriptor it never opened, which fails and
\* ends the program; virtio_vsock reports success and there is no device.
VirtioInit ==
  /\ Alive /\ life = "none"
  /\ \/ life' = "init" /\ UNCHANGED died
     \/ vh = "scsi" /\ died' = TRUE /\ UNCHANGED life
     \/ vh = "vsock" /\ life' = "failed" /\ UNCHANGED died
  /\ UNCHANGED <<vh, session, drv, vring, irqfd, kernel, worker_>>

\* virtio_scsi_vhost_init, virtio_vhost_vsock_init and virtio_vhost_init: the first
\* device starts the worker; the kernel gets the memory map.
VhostInit ==
  /\ Alive /\ life = "init"
  /\ \/ life' = "ready" /\ vhw' = "run" /\ UNCHANGED died
     \/ died' = TRUE /\ UNCHANGED <<life, vhw>>
  /\ UNCHANGED <<vh, session, drv, vring, irqfd, kernel, calls, polled, events>>

\* virtio_scsi_exit_one clears the endpoint; virtio_vsock_exit_one leaves the
\* vsock running.  Both free the device and leave the worker's epoll set alone.
ScsiExit == vh = "scsi" /\ kactive' = FALSE
VsockExit == vh = "vsock" /\ UNCHANGED kactive

VhExit ==
  /\ Alive /\ life = "ready" /\ drv # "zeroed"
  /\ life' = "freed" /\ drv' = "off"
  /\ ScsiExit \/ VsockExit
  /\ UNCHANGED <<vh, session, vring, irqfd, kring, kkick, kcall, worker_, died>>
-----------------------------------------------------------------------------
(* Queues and status                                                       *)

DriverArrives ==
  /\ Alive /\ life = "ready" /\ drv = "off"
  /\ session < MaxSessions
  /\ session' = session + 1 /\ drv' = "setup"
  /\ UNCHANGED <<vh, life, vring, irqfd, kernel, worker_, died>>

\* notify_vq_eventfd: VHOST_SET_VRING_KICK.
NotifyVqEventfd(q) ==
  kkick' = IF Handed(q) THEN [kkick EXCEPT ![q] = session] ELSE kkick

\* The call eventfd joins the worker's epoll set.
NotPolled(q) == {}
EpollAdd(q) == {<<q, session>>}

\* virtio_vhost_set_vring: the ring and a new call eventfd.  The kernel refuses to
\* resize a ring it has a backend for, and kemu dies.
SetVring(q) ==
  \/ /\ ~kactive
     /\ irqfd' = [irqfd EXCEPT ![q] = session]
     /\ kring' = [kring EXCEPT ![q] = session]
     /\ kcall' = [kcall EXCEPT ![q] = session]
     /\ polled' = polled \cup EpollAdd(q)
     /\ UNCHANGED died
  \/ kactive /\ died' = TRUE /\ UNCHANGED <<irqfd, kring, kcall, polled>>

\* The device's init_vq, after the doorbell.
ScsiInitVq(q) == vh = "scsi" /\ SetVring(q)
VsockInitVq(q) ==
  /\ vh = "vsock"
  /\ \/ Handed(q) /\ SetVring(q)
     \/ ~Handed(q) /\ UNCHANGED <<irqfd, kring, kcall, polled, died>>

EnableVq(q) ==
  /\ Alive /\ life = "ready" /\ drv = "setup" /\ vring[q] = 0
  /\ vring' = [vring EXCEPT ![q] = session]
  /\ NotifyVqEventfd(q)
  /\ ScsiInitVq(q) \/ VsockInitVq(q)
  /\ UNCHANGED <<vh, life, session, drv, kactive, calls, vhw, events>>

\* notify_status on DRIVER_OK: VHOST_SCSI_SET_ENDPOINT, or VHOST_VSOCK_SET_RUNNING.
\* The kernel refuses an endpoint that is set already.
ScsiStart == vh = "scsi" /\ died' = kactive /\ kactive' = TRUE
VsockStart == vh = "vsock" /\ kactive' = TRUE /\ UNCHANGED died

DriverOk ==
  /\ Alive /\ life = "ready" /\ drv = "setup"
  /\ \A q \in VhQueues : vring[q] # 0
  /\ drv' = "ok"
  /\ ScsiStart \/ VsockStart
  /\ UNCHANGED <<vh, life, session, vring, irqfd, kring, kkick, kcall, worker_>>

\* virtio_notify_status on status 0 of a started device: virtio_exit_vq zeroes
\* each queue, its call eventfd included, which stays open and polled.
ZeroQueues ==
  /\ Alive /\ life = "ready" /\ drv = "ok"
  /\ drv' = "zeroed"
  /\ vring' = [q \in VhQueues |-> 0]
  /\ irqfd' = [q \in VhQueues |-> 0]
  /\ UNCHANGED <<vh, life, session, kernel, worker_, died>>

\* Then notify_status: vsock stops the kernel, scsi only sets its configuration.
ScsiStop == vh = "scsi" /\ UNCHANGED kactive
VsockKeepsRunning == vh = "vsock" /\ UNCHANGED kactive
VsockStop == vh = "vsock" /\ kactive' = FALSE

NotifyStop ==
  /\ Alive /\ drv = "zeroed"
  /\ drv' = "off"
  /\ ScsiStop \/ VsockStop
  /\ UNCHANGED <<vh, life, session, vring, irqfd, kring, kkick, kcall, worker_, died>>
-----------------------------------------------------------------------------
(* The kernel and the worker                                               *)

\* The kernel has used buffers of a ring and calls.
KernelCalls(q) ==
  /\ Alive /\ kactive /\ kring[q] # 0 /\ kcall[q] # 0
  /\ calls' = calls \cup {<<q, kcall[q]>>}
  /\ UNCHANGED <<vh, life, session, drv, vring, irqfd, kernel, polled, vhw, events, died>>

WorkerWakes ==
  /\ Alive /\ vhw = "run" /\ events = {} /\ calls \cap polled # {}
  /\ events' = calls \cap polled
  /\ UNCHANGED <<vh, life, session, drv, vring, irqfd, kernel, calls, polled, vhw, died>>

\* virtio_vhost_signal_vq: the event names the queue, whose present eventfd is read
\* before the interrupt is sent.  One that is not readable blocks the worker, and
\* without one descriptor 0 is read.
WorkerSignals ==
  /\ Alive /\ vhw = "run"
  /\ \E e \in events :
       LET fd == <<e[1], irqfd[e[1]]>>
       IN /\ events' = events \ {e}
          /\ \/ fd \in calls /\ calls' = calls \ {fd} /\ UNCHANGED vhw
             \/ fd \notin calls /\ vhw' = "stuck" /\ UNCHANGED calls
  /\ UNCHANGED <<vh, life, session, drv, vring, irqfd, kernel, polled, died>>
-----------------------------------------------------------------------------
VhInit ==
  /\ vh \in VhKinds /\ life = "none"
  /\ session = 0 /\ drv = "off"
  /\ vring = [q \in VhQueues |-> 0] /\ irqfd = [q \in VhQueues |-> 0]
  /\ kring = [q \in VhQueues |-> 0] /\ kkick = [q \in VhQueues |-> 0]
  /\ kcall = [q \in VhQueues |-> 0] /\ kactive = FALSE
  /\ calls = {} /\ polled = {} /\ vhw = "none" /\ events = {} /\ died = FALSE

VhNext ==
  \/ VirtioInit \/ VhostInit \/ VhExit
  \/ DriverArrives \/ DriverOk \/ ZeroQueues \/ NotifyStop
  \/ \E q \in VhQueues : EnableVq(q) \/ KernelCalls(q)
  \/ WorkerWakes \/ WorkerSignals
-----------------------------------------------------------------------------
(* Properties                                                              *)

\* While a driver runs, the kernel serves exactly the rings that driver programmed,
\* listens to its doorbells and calls the eventfd the queue has (init_vq,
\* notify_vq_eventfd and notify_status of scsi.c and vsock.c), however many
\* drivers came before; and a vsock that was reset is not served at all.
KernelServesDriver ==
  ~died =>
    /\ drv = "ok" => kactive /\ \A q \in VhQueues : Handed(q) =>
         kring[q] = vring[q] /\ kkick[q] = session /\ kcall[q] = irqfd[q]
    /\ vh = "vsock" /\ life = "ready" /\ drv \in {"off", "setup"} => ~kactive

\* A call of the first driver's queues becomes an interrupt, or the device is
\* reset or removed first (virtio_vhost_signal_vq).
FirstCallsDelivered ==
  \A q \in VhQueues :
    (session = 1 /\ drv = "ok" /\ <<q, 1>> \in calls)
      ~> (<<q, 1>> \notin calls \/ drv # "ok")

\* virtio_notify_status: "stop all traffic now".  After a reset the kernel has no
\* backend.
ResetDetaches == drv = "off" /\ life = "ready" => ~kactive

\* The worker never waits for an eventfd nobody will write.
WorkerNeverStuck == vhw # "stuck"
=============================================================================
