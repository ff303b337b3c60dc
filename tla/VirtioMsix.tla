------------------------------ MODULE VirtioMsix ------------------------------
(***************************************************************************)
(* MSI-X of a virtio PCI device: the table the guest writes, the vectors   *)
(* of the configuration and of the queues, the GSIs and the routes of      *)
(* KVM behind them (irq__add_msix_route, irq__update_msix_route), and the  *)
(* irqfd that connects a vhost queue directly to its GSI.  The vCPU's      *)
(* register accesses are one step each.  Behind the legacy transport the   *)
(* vector registers exist only while MSI-X is on, as it is here; masks and *)
(* delivery are in VirtioSignal.                                           *)
(***************************************************************************)
EXTENDS Naturals, Sequences, FiniteSets

CONSTANTS
  MxQueues,   \* 0 .. get_vq_count() - 1
  Vectors,    \* 0 .. VIRTIO_NR_MSIX - 1
  Msgs,       \* what the guest may write into a table entry
  ZeroMsg,    \* all zeros
  MaxRoutes,  \* bound: routes KVM accepts
  NoVector    \* VIRTIO_MSI_NO_VECTOR

ASSUME MxAssumption ==
  /\ MxQueues \subseteq Nat /\ IsFiniteSet(MxQueues) /\ Vectors \subseteq Nat /\ NoVector \notin Vectors
  /\ MaxRoutes \in Nat /\ ZeroMsg \in Msgs

VARIABLES
  modern,    \* pci-modern.c, else pci-legacy.c
  vhost,     \* the queues are served by vhost
  hasExit,   \* the device has an exit_vq that resets the vhost ring (net)
  table,     \* per vector: the message
  cvec, cgsi,       \* config_vector, config_gsi
  qvec, qgsi,       \* vq_vector, gsis
  up,        \* queues that are enabled
  routes,    \* the MSI entries of irq_routing; GSI g is entry g (0: none)
  chip0,     \* the message fields of the first entry with GSI 0, an irqchip pin
  irqfd,     \* per vhost queue: queue->irqfd exists
  vgsi,      \* per vhost queue: queue->gsi
  linked,    \* per vhost queue: the GSI KVM has connected its eventfd to (0: none)
  polled,    \* vhost queues whose eventfd is in the epoll set
  orphans,   \* GSIs that forgotten eventfds are still connected to
  mixed      \* history: an entry was rewritten while it had two users

mxConst == <<modern, vhost, hasExit>>
vecState == <<cvec, cgsi, qvec, qgsi>>
vhostState == <<irqfd, vgsi, linked, polled, orphans>>
mxVars == <<mxConst, table, vecState, up, routes,
            chip0, vhostState, mixed>>

\* The u32 that pci-modern.c keeps of -EINVAL: `gsi < 0` is never true there.
BadGsi == MaxRoutes + 1
Gsis == 0 .. BadGsi

MxInit ==
  /\ modern \in BOOLEAN /\ vhost \in BOOLEAN
  /\ hasExit \in IF vhost THEN BOOLEAN ELSE {TRUE}
  /\ table = [v \in Vectors |-> ZeroMsg]
  /\ cvec = NoVector /\ cgsi = 0
  /\ qvec = [q \in MxQueues |-> NoVector] /\ qgsi = [q \in MxQueues |-> 0]
  /\ up = {} /\ routes = <<>> /\ chip0 = ZeroMsg
  /\ irqfd = [q \in MxQueues |-> FALSE] /\ vgsi = [q \in MxQueues |-> 0]
  /\ linked = [q \in MxQueues |-> 0] /\ polled = {}
  /\ orphans = {} /\ mixed = FALSE

-----------------------------------------------------------------------------
(* Routes                                                                  *)

\* irq__add_msix_route: a new entry with the next GSI, never taken back.
AddRoute(msg) ==
  /\ Len(routes) < MaxRoutes
  /\ routes' = Append(routes, msg)
NewGsi == Len(routes) + 1

\* irq__update_msix_route finds the entry of the GSI; GSI 0 is a pin of the PIC.
UpdateRoute(gsi, msg) ==
  /\ routes' = IF gsi \in DOMAIN routes THEN [routes EXCEPT ![gsi] = msg] ELSE routes
  /\ chip0' = IF gsi = 0 THEN msg ELSE chip0

\* update_msix_map: the GSI of the configuration or of the first queue that uses
\* the vector, unless it has none.
UsersOf(v) == {q \in MxQueues : qvec[q] = v}
Shared(v) == UsersOf(v) # {} /\ (v = cvec \/ Cardinality(UsersOf(v)) > 1)
FirstOf(S) == CHOOSE q \in S : \A p \in S : q <= p
NoGsiNeverSkipped(gsi) == FALSE
NoGsi(gsi) == gsi = 0

UpdateMap(v, msg) ==
  LET gsi == IF v = cvec THEN cgsi ELSE qgsi[FirstOf(UsersOf(v))]
  IN IF (v # cvec /\ UsersOf(v) = {}) \/ NoGsi(gsi)
     THEN UNCHANGED <<routes, chip0>>
     ELSE UpdateRoute(gsi, msg)

-----------------------------------------------------------------------------
(* The guest's accesses                                                    *)

\* virtio_pci__msix_mmio_callback: a write to the address or the data of an entry.
WriteEntry(v, msg) ==
  /\ table' = [table EXCEPT ![v] = msg]
  /\ UpdateMap(v, msg)
  /\ mixed' = (mixed \/ Shared(v))
  /\ UNCHANGED <<mxConst, vecState, up, vhostState>>

\* virtio_pci__add_msix_route: no vector is -EINVAL.
WriteConfigVector(v) ==
  /\ cvec' = v
  /\ \/ /\ v = NoVector
        /\ cgsi' = IF modern THEN BadGsi ELSE cgsi
        /\ UNCHANGED routes
     \/ /\ v # NoVector
        /\ cgsi' = NewGsi
        /\ AddRoute(table[v])
  /\ UNCHANGED <<mxConst, table, qvec, qgsi, up, chip0,
                 vhostState, mixed>>

\* virtio_vhost_set_vring_irqfd: the eventfd leaves its old GSI, or the epoll set,
\* and is connected to the new one.
ConnectIrqfdNot(q, gsi) == UNCHANGED vhostState
ConnectIrqfd(q, gsi) ==
  /\ irqfd' = [irqfd EXCEPT ![q] = TRUE]
  /\ linked' = [linked EXCEPT ![q] = gsi]
  /\ polled' = IF vgsi[q] = 0 THEN polled \ {q} ELSE polled
  /\ vgsi' = [vgsi EXCEPT ![q] = gsi]
  /\ UNCHANGED orphans

NotifyGsi(q, gsi) == IF vhost THEN ConnectIrqfd(q, gsi) ELSE UNCHANGED vhostState

WriteQueueVector(q, v) ==
  /\ qvec' = [qvec EXCEPT ![q] = v]
  /\ \/ /\ v = NoVector /\ ~modern
        /\ UNCHANGED <<qgsi, routes, vhostState>>
     \/ /\ v = NoVector /\ modern
        /\ qgsi' = [qgsi EXCEPT ![q] = BadGsi]
        /\ NotifyGsi(q, BadGsi)
        /\ UNCHANGED routes
     \/ /\ v # NoVector
        /\ qgsi' = [qgsi EXCEPT ![q] = NewGsi]
        /\ AddRoute(table[v])
        /\ NotifyGsi(q, NewGsi)
  /\ UNCHANGED <<mxConst, table, cvec, cgsi, up, chip0,
                 mixed>>

\* init_vq: virtio_vhost_set_vring puts the eventfd into the epoll set.
InitQueue(q) ==
  /\ q \notin up
  /\ up' = up \cup {q}
  /\ IF vhost THEN /\ irqfd' = [irqfd EXCEPT ![q] = TRUE]
                   /\ polled' = polled \cup {q}
                   /\ UNCHANGED <<vgsi, linked, orphans>>
              ELSE UNCHANGED vhostState
  /\ UNCHANGED <<mxConst, table, vecState, routes, chip0,
                 mixed>>

\* virtio_pci_exit_vq: the route is zeroed, the vector forgotten, and the queue
\* cleared.  virtio_vhost_reset_vring disconnects the eventfd if the device has an
\* exit_vq and the queue was enabled; otherwise the eventfd is only forgotten.
RouteKept(gsi) == UNCHANGED <<routes, chip0>>
RouteZeroed(gsi) == UpdateRoute(gsi, ZeroMsg)

ExitQueue(q) ==
  /\ RouteZeroed(qgsi[q])
  /\ qgsi' = [qgsi EXCEPT ![q] = 0]
  /\ qvec' = [qvec EXCEPT ![q] = NoVector]
  /\ up' = up \ {q}
  /\ irqfd' = [irqfd EXCEPT ![q] = FALSE]
  /\ vgsi' = [vgsi EXCEPT ![q] = 0]
  /\ linked' = [linked EXCEPT ![q] = 0]
  /\ polled' = polled \ {q}
  /\ orphans' = IF (hasExit /\ q \in up) \/ linked[q] = 0 THEN orphans
                ELSE orphans \cup {linked[q]}
  /\ UNCHANGED <<mxConst, table, cvec, cgsi, mixed>>

\* The configuration's part of virtio_pci__reset.
ResetConfig ==
  /\ UpdateRoute(cgsi, ZeroMsg)
  /\ cgsi' = 0 /\ cvec' = NoVector
  /\ UNCHANGED <<mxConst, table, qvec, qgsi, up,
                 vhostState, mixed>>

MxNext ==
  \/ \E v \in Vectors, msg \in Msgs : WriteEntry(v, msg)
  \/ \E v \in Vectors \cup {NoVector} :
       WriteConfigVector(v) \/ \E q \in MxQueues : WriteQueueVector(q, v)
  \/ \E q \in MxQueues : InitQueue(q) \/ ExitQueue(q)
  \/ ResetConfig

-----------------------------------------------------------------------------
(* Properties                                                              *)

MxTypeOK ==
  /\ table \in [Vectors -> Msgs]
  /\ cvec \in Vectors \cup {NoVector} /\ cgsi \in Gsis
  /\ qvec \in [MxQueues -> Vectors \cup {NoVector}] /\ qgsi \in [MxQueues -> Gsis]
  /\ up \subseteq MxQueues /\ polled \subseteq MxQueues
  /\ routes \in Seq(Msgs) /\ Len(routes) <= MaxRoutes
  /\ linked \in [MxQueues -> Gsis]

\* update_msix_map: an interrupt through a GSI arrives as the table entry of its
\* vector says, however the guest rewrites entries and moves vectors, for the
\* configuration and for every queue - unless the guest has rewritten an entry that
\* two of them shared: only one of the routes follows then.
RouteFollowsTable ==
  /\ cvec # NoVector => cgsi \in DOMAIN routes
  /\ \A q \in MxQueues : qvec[q] # NoVector => qgsi[q] \in DOMAIN routes
  /\ ~mixed =>
       /\ cvec # NoVector => routes[cgsi] = table[cvec]
       /\ \A q \in MxQueues : qvec[q] # NoVector => routes[qgsi[q]] = table[qvec[q]]

\* virtio_pci__del_msix_route is called with GSI 0 for a queue without a vector,
\* and GSI 0 is the timer's pin of the PIC: its entry is never changed.
PinRouteKept == chip0 = ZeroMsg

\* virtio_vhost_set_vring_irqfd: the eventfd of a vhost queue with a vector is
\* connected to the GSI of that vector.
IrqfdFollowsVector ==
  vhost => \A q \in MxQueues : qvec[q] # NoVector => linked[q] = qgsi[q]

\* An eventfd that was forgotten with its queue (virtio_exit_vq clears the queue,
\* and not every vhost device has an exit_vq) is connected to a GSI whose route
\* was zeroed, so it cannot raise an interrupt in the guest.
OrphansSilenced ==
  \A g \in orphans : g \in DOMAIN routes => routes[g] = ZeroMsg

\* The interrupt paths of a virtio PCI device, in every order in which a guest may
\* program vectors, entries, queues and resets.
MsixInv ==
  /\ MxTypeOK /\ RouteFollowsTable /\ PinRouteKept
  /\ IrqfdFollowsVector /\ OrphansSilenced
===============================================================================
