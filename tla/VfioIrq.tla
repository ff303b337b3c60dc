------------------------------ MODULE VfioIrq ------------------------------
(***************************************************************************)
(* The interrupts of one VFIO passthrough device (vfio/pci.c).  A physical  *)
(* interrupt reaches the guest when VFIO signals an eventfd for the vector  *)
(* (armed by VFIO_DEVICE_SET_IRQS) and KVM has an irqfd that injects the    *)
(* route of the vector on that eventfd.  The guest programs the MSI and     *)
(* MSI-X capabilities with config space and table accesses, each handled    *)
(* under the mutex of the capability, so one access is one step.  The       *)
(* ioctls may fail, MaxFails times in all.                                  *)
(***************************************************************************)
EXTENDS Integers, FiniteSets

CONSTANTS
    VfCaps,     \* the sets of {"msi", "msix"} a device may have
    VfVectors,  \* vectors of each capability
    VfMsgs,     \* MSI messages the guest programs
    NoMsg,      \* the message of a vector never programmed
    MaxFails

ASSUME VfAssumption ==
    /\ VfCaps \subseteq SUBSET {"msi", "msix"}
    /\ VfVectors \subseteq Nat /\ NoMsg \notin VfMsgs

VARIABLES
    modes,      \* pdev->irq_modes: capabilities, and "intx"
    cap,        \* guest and host state of each capability
    entry,      \* msis->entries
    fds,        \* the eventfds of msis->irq_set, as last sent to VFIO
    armed,      \* vectors VFIO will signal (kernel side)
    vfIrqfd,    \* vectors with a KVM irqfd
    route,      \* message of the vector's KVM route
    intx,       \* pdev->intx_fd is open: INTx is enabled
    fails

vfVars == <<modes, cap, entry, fds, armed, vfIrqfd, route, intx, fails>>

Caps == {"msi", "msix"}

\* vfio_pci_configure_dev_irqs: the capabilities that were found, and INTx if the
\* device has an interrupt pin and the eventfds could be had.
IrqModes == {c \cup x : c \in VfCaps, x \in {{}, {"intx"}}}

\* vfio_pci_init_msis: no route, no eventfd, not masked by the guest and no
\* irqfd; INTx is enabled last.
VfInit ==
    /\ modes \in IrqModes
    /\ cap = [c \in Caps |-> [genabled |-> FALSE, gmasked |-> FALSE,
                              henabled |-> FALSE, hempty |-> TRUE]]
    /\ entry = [c \in Caps |-> [v \in VfVectors |->
                   [gsi |-> FALSE, efd |-> FALSE, gmasked |-> FALSE, hmasked |-> TRUE,
                    msg |-> NoMsg, used |-> FALSE]]]
    /\ fds = [c \in Caps |-> {}]
    /\ armed = [c \in Caps |-> {}]
    /\ vfIrqfd = [c \in Caps |-> {}]
    /\ route = [c \in Caps |-> [v \in VfVectors |-> NoMsg]]
    /\ intx = ("intx" \in modes)
    /\ fails = 0

-----------------------------------------------------------------------------
(* Helpers: each takes the whole state s of the capabilities and returns    *)
(* the next one.  fail names the ioctl that fails during this access.       *)

State == [cap |-> cap, entry |-> entry, fds |-> fds, armed |-> armed,
          vfIrqfd |-> vfIrqfd, route |-> route, intx |-> intx]

\* The eventfds a registration sends: those of the vectors with a route.
WantedVectors(s, c) == {v \in VfVectors : s.entry[c][v].gsi /\ s.entry[c][v].efd}

\* A masked function with nothing registered is left alone until unmasked.
FullRange(s, c) == ~s.cap[c].henabled \/ (~s.cap[c].gmasked /\ s.cap[c].hempty)

\* vfio_pci_disable_intx, on the way to MSI.
IntxOff(s) == IF "intx" \in modes THEN [s EXCEPT !.intx = FALSE] ELSE s

\* vfio_pci_enable_msis: register the full range at once, or the vectors that
\* changed one at a time; a failure of the first leaves INTx disabled.
EnableMsis(s0, c, fail) ==
    LET s == IntxOff(s0)
        w == WantedVectors(s0, c)
    IN IF ~s0.cap[c].genabled THEN s0
       ELSE IF FullRange(s0, c)
       THEN IF fail = "multi" THEN [s EXCEPT !.fds[c] = w]
            ELSE [s EXCEPT !.fds[c] = w, !.armed[c] = w,
                           !.cap[c] = [s0.cap[c] EXCEPT !.henabled = TRUE, !.hempty = (w = {})]]
       ELSE IF s0.cap[c].gmasked \/ fail = "single" THEN s
       ELSE [s EXCEPT !.fds[c] = w, !.armed[c] = (s0.armed[c] \ (s0.fds[c] \ w)) \cup (w \ s0.fds[c]),
                      !.cap[c] = [s0.cap[c] EXCEPT !.hempty = @ /\ w \subseteq s0.fds[c]]]

\* vfio_pci_enable_intx: eventfds, irqfd and VFIO's trigger, or nothing.
IntxBack(fail) == "intx" \in modes /\ fail # "intx"

\* vfio_pci_disable_msis: back to INTx once VFIO has released the vectors.
DisableMsis(s, c, fail) ==
    IF ~s.cap[c].henabled \/ fail = "none" THEN s
    ELSE [s EXCEPT !.armed[c] = {}, !.intx = IntxBack(fail),
                   !.cap[c] = [s.cap[c] EXCEPT !.henabled = FALSE, !.hempty = TRUE]]

\* vfio_pci_update_msi_entry: eventfd and route on first use, a new message
\* for the route otherwise, and the irqfd follows the guest's mask bit.
IrqfdUnmasked(e) == FALSE
IrqfdStays(e) == e.gmasked = e.hmasked

Opened(e, fail) == e.efd \/ fail # "efd"
Routed(e, fail) == Opened(e, fail) /\ (e.gsi \/ fail # "route")
Toggled(e, fail) == Routed(e, fail) /\ ~IrqfdStays(e) /\ ~(e.hmasked /\ fail = "irqfd")
UpdateEntry(e, fail) ==
    [e EXCEPT !.efd = Opened(e, fail), !.gsi = Routed(e, fail),
              !.hmasked = IF Toggled(e, fail) THEN e.gmasked ELSE @]

\* The same for each of the vectors vs, with no failure or the same one; the route
\* takes the entry's message.
UpdateEntries(s, c, vs, fail) ==
    [s EXCEPT !.entry[c] = [v \in VfVectors |-> IF v \in vs THEN UpdateEntry(@[v], fail) ELSE @[v]],
              !.vfIrqfd[c] = {v \in VfVectors : IF v \in vs /\ Toggled(s.entry[c][v], fail)
                                                THEN s.entry[c][v].hmasked ELSE v \in @},
              !.route[c] = [v \in VfVectors |-> IF v \in vs /\ Routed(s.entry[c][v], fail)
                                                THEN s.entry[c][v].msg ELSE @[v]]]

Fails == {"ok", "multi", "single", "none", "intx", "efd", "route", "irqfd"}

Becomes(s, fail) ==
    /\ fails' = IF fail = "ok" THEN fails ELSE fails + 1
    /\ fails' <= MaxFails
    /\ cap' = s.cap /\ entry' = s.entry /\ fds' = s.fds /\ armed' = s.armed
    /\ vfIrqfd' = s.vfIrqfd /\ route' = s.route /\ intx' = s.intx
    /\ modes' = modes

-----------------------------------------------------------------------------
(* The guest's accesses. *)

\* vfio_pci_msix_table_access of the message: kept in the table only.
MsixMessage(v, m) ==
    /\ "msix" \in modes
    /\ entry["msix"][v].gmasked
    /\ Becomes([State EXCEPT !.entry["msix"][v] = [@ EXCEPT !.msg = m]], "ok")

\* ... and of the vector control register, which applies the entry.
MsixControl(v, m, masked, fail) ==
    /\ "msix" \in modes
    /\ LET s1 == [State EXCEPT !.entry["msix"][v] =
                     [@ EXCEPT !.gmasked = masked, !.msg = m, !.used = TRUE]]
       IN Becomes(EnableMsis(UpdateEntries(s1, "msix", {v}, fail), "msix", fail), fail)

\* The guest enables one capability at a time, as the PCI specification asks.
OneAtATime(c) == \A d \in Caps \ {c} : ~cap[d].genabled

\* vfio_pci_msix_cap_write of the byte with the Enable and Mask All bits.
MsixFlags(enable, masked, fail) ==
    /\ "msix" \in modes
    /\ OneAtATime("msix")
    /\ LET s1 == [State EXCEPT !.cap["msix"] = [@ EXCEPT !.gmasked = masked, !.genabled = enable]]
       IN Becomes(IF enable THEN EnableMsis(s1, "msix", fail) ELSE DisableMsis(s1, "msix", fail), fail)

\* vfio_pci_msi_cap_write of the control byte: all the requested vectors take
\* the message of the capability.
MsiFlags(enable, m, n, fail) ==
    /\ "msi" \in modes
    /\ OneAtATime("msi")
    /\ LET s1 == [State EXCEPT !.cap["msi"] = [@ EXCEPT !.genabled = enable]]
           s2 == [s1 EXCEPT !.entry["msi"] = [v \in VfVectors |->
                     IF v < n THEN [@[v] EXCEPT !.msg = m, !.used = TRUE]
                              ELSE [@[v] EXCEPT !.used = FALSE]]]
           vs == {v \in VfVectors : v < n}
       IN Becomes(IF ~enable THEN DisableMsis(s1, "msi", fail)
                  ELSE EnableMsis(UpdateEntries(s2, "msi", vs, fail), "msi", fail), fail)

\* vfio_pci_msi_vector_write: the per-vector mask bits.  Only a bit that
\* changes touches its entry.
MsiMask(masks, fail) ==
    /\ "msi" \in modes
    /\ LET s1 == [State EXCEPT !.entry["msi"] = [v \in VfVectors |-> [@[v] EXCEPT !.gmasked = v \in masks]]]
           vs == {v \in VfVectors : (v \in masks) # entry["msi"][v].gmasked}
       IN Becomes(UpdateEntries(s1, "msi", vs, fail), fail)

VfNext ==
    \/ \E v \in VfVectors, m \in VfMsgs :
          \/ MsixMessage(v, m)
          \/ \E masked \in BOOLEAN, fail \in {"ok", "multi", "single", "efd", "route", "irqfd"} :
                MsixControl(v, m, masked, fail)
    \/ \E e \in BOOLEAN, fail \in {"ok", "multi", "single", "none", "intx"} :
          \E masked \in BOOLEAN : MsixFlags(e, masked, fail)
    \/ \E e \in BOOLEAN, m \in VfMsgs, n \in 1..Cardinality(VfVectors), fail \in Fails :
          MsiFlags(e, m, n, fail)
    \/ \E masks \in SUBSET VfVectors, fail \in {"ok", "efd", "route", "irqfd"} : MsiMask(masks, fail)

-----------------------------------------------------------------------------
(* Properties *)

VfTypeOK ==
    /\ modes \subseteq {"msi", "msix", "intx"}
    /\ armed \in [Caps -> SUBSET VfVectors]
    /\ vfIrqfd \in [Caps -> SUBSET VfVectors]

\* "PCI (and VFIO) forbids enabling INTx, MSI or MSIX at the same time"
\* (vfio_pci_enable_msis): whatever the guest switches on and off VFIO never has
\* INTx and message interrupts enabled together; with one capability, not even
\* when ioctls fail.
IntxExclusive ==
    intx /\ (fails = 0 \/ Cardinality(modes \cap Caps) = 1)
        => \A c \in Caps : ~cap[c].henabled /\ armed[c] = {}

\* vfio_pci_update_msi_entry: a vector the guest has masked has no irqfd,
\* so a masked vector never interrupts the guest.
MaskHonoured ==
    \A c \in Caps, v \in VfVectors : entry[c][v].gmasked => v \notin vfIrqfd[c]

\* The whole chain: with the capability enabled and not masked, a programmed
\* vector that is not masked is armed in VFIO, injected by KVM and carries the
\* message the guest gave it last, unless an ioctl has failed.
VectorsDelivered ==
    fails = 0 => \A c \in Caps, v \in VfVectors :
        (cap[c].genabled /\ ~cap[c].gmasked /\ entry[c][v].used /\ ~entry[c][v].gmasked)
            => v \in armed[c] /\ v \in vfIrqfd[c] /\ route[c][v] = entry[c][v].msg

\* "When MSI or MSIX is disabled, this might be called when PCI driver detects
\* the MSI interrupt failure and wants to rollback to INTx mode. Thus enable
\* INTx if the device supports INTx mode in this case" (vfio_pci_disable_msis).
RollbackToIntx ==
    "intx" \in modes /\ (\A c \in Caps : ~cap[c].genabled) /\ fails <= 1 => intx

\* The interrupts of a passed-through device: vfio_pci_update_msi_entry,
\* vfio_pci_enable_msis and vfio_pci_disable_msis together.
VfioIrqInv == VfTypeOK /\ IntxExclusive /\ MaskHonoured /\ VectorsDelivered
=============================================================================
