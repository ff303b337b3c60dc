----------------------------- MODULE MCTransport -----------------------------
(* The parts of a virtio device around its queues, for TLC.  At this level of *)
(* detail they share no state, so a behaviour is one of one part: MCInit      *)
(* chooses it, and the other parts rest in an initial state.                  *)
EXTENDS VirtioTransport, VirtioSignal, Console, VhostDevice

VARIABLE part

\* The four transports, each backend behind one or two of them.
MCMachines ==
  {<<"pci_legacy", "job">>, <<"pci_modern", "thread">>, <<"mmio_legacy", "thread">>,
   <<"mmio_modern", "job">>, <<"pci_modern", "vhost">>}

all == <<vtVars, sgVars, coVars, vhVars, part>>

MCInit ==
  /\ part \in {"transport", "signal", "console", "vhost"}
  /\ VtInit /\ SgInit /\ CoInit /\ VhInit
  /\ part # "transport" => trans = "pci_legacy"
  /\ part # "signal" => bus = "pci"
  /\ part # "vhost" => vh = "scsi"

MCNext ==
  /\ UNCHANGED part
  /\ \/ part = "transport" /\ VtNext /\ UNCHANGED <<sgVars, coVars, vhVars>>
     \/ part = "signal" /\ SgNext /\ UNCHANGED <<vtVars, coVars, vhVars>>
     \/ part = "console" /\ CoNext /\ UNCHANGED <<vtVars, sgVars, vhVars>>
     \/ part = "vhost" /\ VhNext /\ UNCHANGED <<vtVars, sgVars, coVars>>

\* Each thread of the program goes on: the vCPU that takes queues down, the epoll
\* thread, the backends, and the thread that calls epoll__exit; the poll thread of
\* the terminal, the pool thread with the console's job and the vCPU that waits for
\* it; the vhost worker.  Nothing is assumed of the guest's driver or of the user.
EpollThread == EpollWait \/ (\E e \in fetched : EpollRead(e)) \/ EpollNotify
TransportFair ==
  /\ WF_vtVars(part = "transport" /\ (DelBells \/ ExitVq))
  /\ WF_vtVars(part = "transport" /\ EpollThread)
  /\ \A q \in VQueues : /\ WF_vtVars(part = "transport" /\ Wake(q))
                       /\ WF_vtVars(part = "transport" /\ Serve(q))
  /\ WF_vtVars(part = "transport" /\ EpollExit)
  /\ WF_vtVars(part = "transport" /\ EpollStop)
ConsoleFair ==
  /\ WF_coVars(part = "console" /\ (TermPoll \/ TermInject))
  /\ WF_coVars(part = "console" /\ JobStart) /\ WF_coVars(part = "console" /\ JobLock)
  /\ WF_coVars(part = "console" /\ JobRun) /\ WF_coVars(part = "console" /\ ConsoleCancel)
VhostFair ==
  WF_vhVars(part = "vhost" /\ WorkerWakes) /\ WF_vhVars(part = "vhost" /\ WorkerSignals)

MCSpec ==
  MCInit /\ [][MCNext]_all /\ TransportFair /\ ConsoleFair /\ VhostFair

\* What the backends without a ring of their own keep: the console's receive job
\* is stopped when its queue goes down (exit_vq of console.c), and the kernel
\* serves the rings of the driver that runs (scsi.c, vsock.c).
BackendsKeep == ReceiveStopped /\ KernelServesDriver

\* Kicks reach the backend, epoll__exit returns, console input reaches the guest
\* and the calls of the kernel become interrupts.
TransportProgress == KickServed /\ EpollExitReturns /\ InputReaches /\ FirstCallsDelivered
===============================================================================
