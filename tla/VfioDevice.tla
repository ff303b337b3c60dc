------------------------------ MODULE VfioDevice ------------------------------
(***************************************************************************)
(* VFIO devices from vfio__init to vfio__exit: the IOMMU groups they share, *)
(* their place in the tree of PCI devices, and the regions behind the BARs  *)
(* of one of them: trapped accesses, memory mapped into the guest, and the  *)
(* emulated MSI-X table and PBA.  Any call of the host may fail.            *)
(***************************************************************************)
EXTENDS Naturals, FiniteSets

CONSTANTS
  VdDevices,   \* 1 .. num_vfio_devices
  VdGroups,    \* IOMMU groups
  VdLayouts,   \* what BARs 0 and 1 of device 1 are: "shared" (table and PBA),
               \* "table", "pba", "mmap" (may be mapped), "trap" or "io"
  VdAddrs,     \* addresses the guest gives to the BARs
  VdUnaligned  \* those that are not aligned to a page

ASSUME VdAssumption ==
  /\ IsFiniteSet(VdDevices) /\ VdDevices = 1 .. Cardinality(VdDevices) /\ 1 \in VdDevices
  /\ VdAddrs \subseteq Nat \ {0} /\ VdUnaligned \subseteq VdAddrs

VARIABLES
  groupOf, bridges, \* the group of each device; the devices without an fd
  vphase,     \* "container", "devices", "running", "exit", "gone" or "failed"
  turn,       \* the device the phase has come to
  groups,     \* vfio_groups: group -> refs
  vheld,      \* devices that hold a reference to their group
  devTree,    \* device_trees[DEVICE_BUS_PCI]
  layout,     \* the layout of device 1
  barOn,      \* per BAR: bar_active of the PCI header
  vaddrs,     \* per BAR: region->guest_phys_addr or port_base (0: never set)
  hostAddr,   \* per BAR: region->host_addr is set
  handlers,   \* registered traps [bus, at, part]
  slots,      \* BAR addresses KVM has memory at
  half        \* history: an activation failed half way

vdConst == <<groupOf, bridges, layout>>
groupState == <<vphase, turn, groups, vheld, devTree>>
regionState == <<barOn, vaddrs, hostAddr, handlers, slots, half>>
vdVars == <<vdConst, groupState, regionState>>

VdBars == {0, 1}
LastDevice == Cardinality(VdDevices)

VdInit ==
  /\ groupOf \in [VdDevices -> VdGroups]
  /\ bridges \in SUBSET (VdDevices \ {1})
  /\ layout \in VdLayouts
  /\ vphase = "container" /\ turn = 1
  /\ groups = [g \in VdGroups |-> 0] /\ vheld = {} /\ devTree = {}
  /\ barOn = [b \in VdBars |-> FALSE] /\ vaddrs = [b \in VdBars |-> 0]
  /\ hostAddr = [b \in VdBars |-> FALSE]
  /\ handlers = {} /\ slots = {} /\ half = FALSE

-----------------------------------------------------------------------------
(* Groups and devices                                                      *)

\* vfio_device_init: the group is found, or created and added to the container.
\* A failure ends the start of the machine, without vfio__exit.
RefsOne(g) == 1
RefsWith(g) == groups[g] + 1

InitDevice(ok) ==
  /\ vphase = "container"
  /\ IF ok \/ groups[groupOf[turn]] > 0
     THEN /\ groups' = [groups EXCEPT ![groupOf[turn]] = RefsWith(groupOf[turn])]
          /\ vheld' = vheld \cup {turn}
          /\ IF turn = LastDevice
             THEN vphase' = "devices" /\ turn' = 1
             ELSE turn' = turn + 1 /\ UNCHANGED vphase
     ELSE vphase' = "failed" /\ UNCHANGED <<turn, groups, vheld>>
  /\ UNCHANGED <<vdConst, devTree, regionState>>

\* vfio_configure_device: a device without an fd is taken for a bridge and left as
\* it is; the others are set up and registered.
ConfigureDevice(ok) ==
  /\ vphase = "devices"
  /\ IF ok \/ turn \in bridges
     THEN /\ devTree' = IF turn \in bridges THEN devTree ELSE devTree \cup {turn}
          /\ IF turn = LastDevice
             THEN vphase' = "running" /\ turn' = 1
             ELSE turn' = turn + 1 /\ UNCHANGED vphase
     ELSE vphase' = "failed" /\ UNCHANGED <<turn, devTree>>
  /\ UNCHANGED <<vdConst, groups, vheld, regionState>>

\* rb_erase of a node that was never linked (all zeros: no parent, no children)
\* makes the root empty.
TreeWithout(d) == IF d \in bridges THEN {} ELSE devTree \ {d}

\* vfio_unmap_region, for every region of the device, active or not.
Unmapped(b, h, s) ==
  CASE hostAddr[b] -> <<h, s \ {vaddrs[b]}>>
    [] ~hostAddr[b] /\ layout[b + 1] = "io" ->
         <<{t \in h : t.bus # "io" \/ t.at # vaddrs[b]}, s>>
    [] OTHER -> <<{t \in h : t.bus # "mmio" \/ t.at # vaddrs[b] \/ t.part = "pba_shared"}, s>>

\* vfio_device_exit, in order: the group first, then the regions and the tree.
VfioExit ==
  /\ vphase \in {"running", "exit"}
  /\ groups' = [groups EXCEPT ![groupOf[turn]] = @ - 1]
  /\ vheld' = vheld \ {turn}
  /\ devTree' = TreeWithout(turn)
  /\ IF turn = 1
     THEN LET one == Unmapped(0, handlers, slots)
              two == Unmapped(1, one[1], one[2])
          IN handlers' = two[1] /\ slots' = two[2]
             /\ hostAddr' = [b \in VdBars |-> FALSE]
     ELSE UNCHANGED <<handlers, slots, hostAddr>>
  /\ IF turn = LastDevice THEN vphase' = "gone" /\ UNCHANGED turn
                          ELSE vphase' = "exit" /\ turn' = turn + 1
  /\ UNCHANGED <<vdConst, barOn, vaddrs, half>>

-----------------------------------------------------------------------------
(* Regions                                                                 *)

\* The traps of BAR b at address a, in the order they are registered.
Trap(bus, a, part) == [bus |-> bus, at |-> a, part |-> part]
Traps(b, a) ==
  CASE layout[b + 1] = "shared" -> {Trap("mmio", a, "table"), Trap("mmio", a, "pba_shared")}
    [] layout[b + 1] = "table" -> {Trap("mmio", a, "table")}
    [] layout[b + 1] = "pba" -> {Trap("mmio", a, "pba")}
    [] layout[b + 1] = "io" -> {Trap("io", a, "region")}
    [] OTHER -> {Trap("mmio", a, "region")}

\* A trap is refused where another one starts.
Free(bus, a) == \A t \in handlers : t.bus # bus \/ t.at # a

Mappable(b, a) == layout[b + 1] = "mmap" /\ a \notin VdUnaligned

\* vfio_pci_bar_activate: everything succeeds.
ActivateTraps(b, a) ==
  /\ \A t \in Traps(b, a) : Free(t.bus, a)
  /\ handlers' = handlers \cup Traps(b, a)
  /\ barOn' = [barOn EXCEPT ![b] = TRUE]
  /\ UNCHANGED <<hostAddr, slots, half>>

ActivateMemory(b, a) ==
  /\ Mappable(b, a) /\ a \notin slots
  /\ hostAddr' = [hostAddr EXCEPT ![b] = TRUE]
  /\ slots' = slots \cup {a}
  /\ barOn' = [barOn EXCEPT ![b] = TRUE]
  /\ UNCHANGED <<handlers, half>>

\* It fails: without a trace, after the table (the PBA is refused), or after mmap
\* (KVM refuses the memory, and host_addr stays).
ActivateFails(b, a) ==
  \/ UNCHANGED <<barOn, hostAddr, handlers, slots, half>>
  \/ /\ layout[b + 1] = "shared" /\ Free("mmio", a)
     /\ handlers' = handlers \cup {Trap("mmio", a, "table")}
     /\ half' = TRUE
     /\ UNCHANGED <<barOn, hostAddr, slots>>
  \/ /\ Mappable(b, a)
     /\ hostAddr' = [hostAddr EXCEPT ![b] = TRUE]
     /\ half' = TRUE
     /\ UNCHANGED <<barOn, handlers, slots>>

\* The address is stored whatever happens next.
VdActivate(b, a) ==
  /\ vphase = "running" /\ ~barOn[b]
  /\ vaddrs' = [vaddrs EXCEPT ![b] = a]
  /\ ActivateTraps(b, a) \/ ActivateMemory(b, a) \/ ActivateFails(b, a)
  /\ UNCHANGED <<vdConst, groupState>>

\* vfio_pci_bar_deactivate: what of the BAR's traps goes, when it has traps.
DroppedTable(b) == {t \in Traps(b, vaddrs[b]) : t.part # "pba_shared"}
Dropped(b) == Traps(b, vaddrs[b])

Deactivate(b) ==
  /\ vphase = "running" /\ barOn[b]
  /\ barOn' = [barOn EXCEPT ![b] = FALSE]
  /\ IF hostAddr[b]
     THEN /\ slots' = slots \ {vaddrs[b]}
          /\ hostAddr' = [hostAddr EXCEPT ![b] = FALSE]
          /\ UNCHANGED handlers
     ELSE /\ handlers' = handlers \ Dropped(b)
          /\ UNCHANGED <<slots, hostAddr>>
  /\ UNCHANGED <<vdConst, groupState, vaddrs, half>>

VdNext ==
  \/ \E ok \in BOOLEAN : InitDevice(ok) \/ ConfigureDevice(ok)
  \/ VfioExit
  \/ \E b \in VdBars : Deactivate(b) \/ \E a \in VdAddrs : VdActivate(b, a)

-----------------------------------------------------------------------------
(* Properties                                                              *)

\* vfio_group_get_for_dev and vfio_group_exit: a group is open exactly as long as a
\* device of it has not exited, also when devices share it; when the last device
\* is gone every group is closed.
GroupsHeld ==
  /\ \A g \in VdGroups : groups[g] = Cardinality({d \in vheld : groupOf[d] = g})
  /\ vphase = "gone" => \A g \in VdGroups : groups[g] = 0

\* vfio_pci_bar_activate and _deactivate: as the guest moves the BARs, switches them
\* off and on and mappings fall back to trapping, the machine has the traps or the
\* memory of exactly the active BARs at their present addresses - unless an
\* activation failed half way.  Only the trap of a PBA that shares its BAR with the
\* table is left when the device is gone.
RegionsMatch ==
  ~half =>
    /\ \A b \in VdBars : barOn[b] /\ vphase = "running" =>
         IF hostAddr[b] THEN vaddrs[b] \in slots ELSE Traps(b, vaddrs[b]) \subseteq handlers
    /\ vphase = "running" =>
         /\ handlers = UNION {Traps(b, vaddrs[b]) : b \in {c \in VdBars : barOn[c] /\ ~hostAddr[c]}}
         /\ slots = {vaddrs[b] : b \in {c \in VdBars : barOn[c] /\ hostAddr[c]}}
    /\ vphase = "gone" => slots = {} /\ \A t \in handlers : t.part = "pba_shared"

\* "The device might be a bridge without an fd" (vfio_configure_device): a device
\* stays in the tree of PCI devices until it is unregistered itself.
TreeKept ==
  [][\A d \in devTree \ devTree' : vphase \in {"running", "exit"} /\ d = turn]_vdVars

\* What vfio/core.c and the BAR callbacks of vfio/pci.c hold for a device: its
\* group, its traps and its memory slots.
VfioDevInv == GroupsHeld /\ RegionsMatch
===============================================================================
