-------------------------------- MODULE MCPci --------------------------------
(* The PCI side of the machine, for TLC: BARs on the MMIO and port buses, the   *)
(* MSI-X tables of virtio devices, and the interrupts and BARs of a device that *)
(* is passed through.  At this level of detail they share no state, so a        *)
(* behaviour is one of one part: MCInit chooses it, and the other parts rest in *)
(* an initial state.                                                            *)
EXTENDS PciBars, VirtioMsix, VfioIrq, VfioDevice, TLC

VARIABLE part

\* Two PCI devices: one with an I/O BAR and a memory BAR of size 2, one with two
\* memory BARs of size 1 that can both lie inside it.  The big BAR can move by less
\* than its size, so that a BAR overlaps its old and its new place.
MCBars ==
  <<[dev |-> 1, space |-> "io", size |-> 1, home |-> 4],
    [dev |-> 1, space |-> "mem", size |-> 2, home |-> 0],
    [dev |-> 2, space |-> "mem", size |-> 1, home |-> 3],
    [dev |-> 2, space |-> "mem", size |-> 1, home |-> 2]>>

MCTargets == <<{4}, {0, 1}, {1, 3}, {2}>>

\* A table and a PBA that share a BAR, or have one each, and BARs that are mapped,
\* trapped or ports.
MCLayouts == {<<"shared", "mmap">>, <<"table", "pba">>, <<"trap", "io">>, <<"mmap", "mmap">>}

\* A device with either kind of message interrupts.
MCCaps == {{"msi"}, {"msix"}}

\* Virtio devices, as modern, vhost and hasExit: one with a backend in the program,
\* and one on each transport with a vhost backend, with and without an exit_vq.
MCVirtioPci == {<<FALSE, FALSE, TRUE>>, <<TRUE, TRUE, TRUE>>, <<FALSE, TRUE, FALSE>>}

Symmetry == Permutations(Vcpus)

all == <<pciVars, mxVars, vfVars, vdVars, part>>

MCInit ==
  /\ part \in {"bars", "msix", "vfio_irq", "vfio"}
  /\ PciInit /\ MxInit /\ VfInit /\ VdInit
  /\ <<modern, vhost, hasExit>> \in IF part = "msix" THEN MCVirtioPci
                                   ELSE {<<FALSE, FALSE, TRUE>>}
  /\ part # "vfio_irq" => modes = {"msix"}
  /\ part # "vfio" => /\ bridges = {} /\ layout = <<"mmap", "mmap">>
                      /\ groupOf = [d \in VdDevices |-> 1]

MCNext ==
  /\ UNCHANGED part
  /\ \/ part = "bars" /\ PciNext /\ UNCHANGED <<mxVars, vfVars, vdVars>>
     \/ part = "msix" /\ MxNext /\ UNCHANGED <<pciVars, vfVars, vdVars>>
     \/ part = "vfio_irq" /\ VfNext /\ UNCHANGED <<pciVars, mxVars, vdVars>>
     \/ part = "vfio" /\ VdNext /\ UNCHANGED <<pciVars, mxVars, vfVars>>

MCSpec == MCInit /\ [][MCNext]_all
==============================================================================
