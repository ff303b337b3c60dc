----------------------------- MODULE VirtioSignal -----------------------------
(***************************************************************************)
(* How a virtio device tells the guest that something happened: the ISR    *)
(* byte and the level of a line behind PCI, interrupt_state and an edge    *)
(* behind MMIO, or a message behind PCI with MSI-X (its table and routes   *)
(* are in VirtioMsix).  The backend's thread (signal_vq), the thread of    *)
(* the IPC server (signal_config of the balloon) and the vCPU that runs    *)
(* the guest's handler read and write the status without a lock, so every  *)
(* load and store is a step.                                               *)
(***************************************************************************)
EXTENDS Naturals

CONSTANTS
  SgBuses,     \* "pci", "mmio" and "msix"
  SgSignallers \* "queue": the backend, "config": the IPC thread

VARIABLES
  bus,
  isr,     \* vpci->isr or hdr.interrupt_state: the signallers' bits
  line,    \* pci: the level of legacy_irq_line; mmio and msix: an edge is pending
  spc,     \* per signaller: "idle", "store", "raise"
  loaded,  \* per signaller: the status it has loaded
  hpc,     \* the guest's handler: "idle", "read", "low", "clear", "scan"
  data,    \* the status the handler has read
  ackv,    \* the status the vCPU has loaded for the acknowledgement
  maskbit, \* signallers whose vector is masked
  pba,     \* msix_pba
  unseen   \* completions are in the used ring the guest has not looked at

sgVars == <<bus, isr, line, spc, loaded, hpc, data, ackv, maskbit, pba, unseen>>

SgInit ==
  /\ bus \in SgBuses
  /\ isr = {} /\ line = FALSE
  /\ spc = [s \in SgSignallers |-> "idle"]
  /\ loaded = [s \in SgSignallers |-> {}]
  /\ hpc = "idle" /\ data = {} /\ ackv = {}
  /\ maskbit = {} /\ pba = {}
  /\ unseen = FALSE

-----------------------------------------------------------------------------
\* MSI-X: the message goes out, or the pending bit is set when the entry or the
\* whole function is masked.
PendingNot(s) == pba
Pending(s) == IF s \in maskbit THEN pba \cup {s} ELSE pba

SignalMsix(s) ==
  /\ bus = "msix"
  /\ unseen' = (unseen \/ s = "queue")
  /\ pba' = Pending(s)
  /\ line' = (line \/ s \notin maskbit)
  /\ UNCHANGED <<bus, isr, spc, loaded, hpc, data, ackv, maskbit>>

\* `isr |= bit`: the used ring has been filled in before.
SignalLoad(s) ==
  /\ bus # "msix" /\ spc[s] = "idle"
  /\ unseen' = (unseen \/ s = "queue")
  /\ loaded' = [loaded EXCEPT ![s] = isr]
  /\ spc' = [spc EXCEPT ![s] = "store"]
  /\ UNCHANGED <<bus, isr, line, hpc, data, ackv, maskbit, pba>>

SignalStore(s) ==
  /\ spc[s] = "store"
  /\ isr' = loaded[s] \cup {s}
  /\ loaded' = [loaded EXCEPT ![s] = {}]
  /\ spc' = [spc EXCEPT ![s] = "raise"]
  /\ UNCHANGED <<bus, line, hpc, data, ackv, maskbit, pba, unseen>>

\* kvm_irq_line(HIGH), or kvm_irq_trigger.
RaisedUnlessSet(s) == line \/ isr = {s}
Raised(s) == TRUE

SignalRaise(s) ==
  /\ spc[s] = "raise"
  /\ line' = Raised(s)
  /\ spc' = [spc EXCEPT ![s] = "idle"]
  /\ UNCHANGED <<bus, isr, loaded, hpc, data, ackv, maskbit, pba, unseen>>

\* The guest writes the mask bit of a vector; nothing looks at pba then.
WriteMaskBit(s) ==
  /\ bus = "msix"
  /\ maskbit' = IF s \in maskbit THEN maskbit \ {s} ELSE maskbit \cup {s}
  /\ UNCHANGED <<bus, isr, line, spc, loaded, hpc, data, ackv, pba, unseen>>

\* The guest takes the interrupt; an edge is gone once it is taken.
HandlerEnter ==
  /\ hpc = "idle" /\ line
  /\ line' = (bus = "pci")
  /\ hpc' = IF bus = "msix" THEN "scan" ELSE "read"
  /\ UNCHANGED <<bus, isr, spc, loaded, data, ackv, maskbit, pba, unseen>>

\* ISR, or INTERRUPT_STATUS.
HandlerRead ==
  /\ hpc = "read"
  /\ data' = isr
  /\ hpc' = "low"
  /\ UNCHANGED <<bus, isr, line, spc, loaded, ackv, maskbit, pba, unseen>>

\* PCI: the same access lowers the line, then clears the byte.  MMIO:
\* INTERRUPT_ACK loads the state and stores it without the acknowledged bits.
HandlerLow ==
  /\ hpc = "low"
  /\ line' = (bus # "pci" /\ line)
  /\ ackv' = IF bus = "pci" THEN {} ELSE isr
  /\ hpc' = "clear"
  /\ UNCHANGED <<bus, isr, spc, loaded, data, maskbit, pba, unseen>>

RemainingBits == IF bus = "pci" THEN {} ELSE ackv \ data

HandlerClear ==
  /\ hpc = "clear"
  /\ isr' = RemainingBits
  /\ ackv' = {}
  /\ hpc' = "scan"
  /\ UNCHANGED <<bus, line, spc, loaded, data, maskbit, pba, unseen>>

\* A handler that finds no bit of its own leaves the rings alone; behind PCI any
\* bit makes it look at them, and so does a message.
LooksAt(d) == bus = "msix" \/ (bus = "pci" /\ d # {}) \/ "queue" \in d

HandlerScan ==
  /\ hpc = "scan"
  /\ unseen' = (unseen /\ ~LooksAt(data))
  /\ data' = {}
  /\ hpc' = "idle"
  /\ UNCHANGED <<bus, isr, line, spc, loaded, ackv, maskbit, pba>>

SgNext ==
  \/ \E s \in SgSignallers :
       SignalMsix(s) \/ SignalLoad(s) \/ SignalStore(s) \/ SignalRaise(s) \/ WriteMaskBit(s)
  \/ HandlerEnter \/ HandlerRead \/ HandlerLow \/ HandlerClear \/ HandlerScan

-----------------------------------------------------------------------------
(* Properties                                                              *)

Quiet == hpc = "idle" /\ \A s \in SgSignallers : spc[s] = "idle"

\* Whatever the interleaving of two signallers and a read of ISR (which lowers the
\* line before it clears the byte), a status bit that is set when nobody is in the
\* middle of an access has an interrupt on its way, and a completion that a mask
\* held back is recorded in msix_pba.
SignalRecorded ==
  Quiet =>
    /\ isr # {} => line
    /\ bus = "msix" /\ unseen => line \/ "queue" \in pba

\* "Without a mb here we might not send a notification that we need to send, or
\* the guest may ignore the queue" (virtio_queue__should_signal): when completions
\* wait and nobody is in the middle of an access, an interrupt is on its way and
\* its status tells the guest to look.
CompletionsReported == Quiet /\ unseen => line /\ LooksAt(isr)
===============================================================================
