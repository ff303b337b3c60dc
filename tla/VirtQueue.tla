------------------------------ MODULE VirtQueue ------------------------------
(***************************************************************************)
(* A split virtqueue between the driver of the guest and the I/O thread of *)
(* virtio-blk: the avail and used rings, the free running 16-bit indices   *)
(* (modulo IdxMod), and the notifications in both directions with and      *)
(* without VIRTIO_RING_F_EVENT_IDX.                                        *)
(*                                                                         *)
(* The mb() of virt_queue__available and virtio_queue__should_signal order *)
(* the accesses, so memory is sequentially consistent here, but every      *)
(* access to a shared index is a step of its own.  The driver is not part  *)
(* of the program: it is modelled from the ring's contract, as the code    *)
(* relies on it.                                                           *)
(***************************************************************************)
EXTENDS Naturals, Sequences

CONSTANTS
  Num,       \* vring.num
  IdxMod,    \* ring indices are taken modulo this (2^16 in the code)
  MaxLag,    \* bound: with event indices, requests submitted since the device
             \* last signalled (IdxMod: no bound)
  None       \* no request

ASSUME QueueAssumption ==
  /\ Num \in Nat \ {0}
  /\ IdxMod \in Nat
  /\ IdxMod > Num
  /\ IdxMod % Num = 0
  /\ MaxLag \in 1 .. IdxMod
  /\ None \notin 0 .. Num - 1

Heads == 0 .. Num - 1
Idx == 0 .. IdxMod - 1

VARIABLES
  useEvent,   \* vq->use_event_idx
  ring,       \* avail->ring
  availIdx,   \* avail->idx
  noIrq,      \* avail->flags & VRING_AVAIL_F_NO_INTERRUPT
  usedEvent,  \* vring_used_event
  usedRing,   \* used->ring
  usedIdx,    \* used->idx
  availEvent, \* vring_avail_event
  lastAvail,  \* vq->last_avail_idx
  signalled,  \* vq->last_used_signalled
  dpc, head,  \* the I/O thread: where it is, and the request it works on
  kick,       \* bdev->io_efd is readable
  irq,        \* the queue's interrupt is pending in the guest
  free,       \* driver: descriptor heads it may use
  added,      \* driver: requests published since it last considered a kick
  lastUsed,   \* driver: used entries it has seen
  gpc,        \* driver: where its interrupt handler is
  lost        \* history: requests the device will never answer

devVars == <<lastAvail, signalled, dpc, head>>
drvVars == <<free, added, lastUsed, gpc>>
vars == <<useEvent, ring, availIdx, noIrq, usedEvent, usedRing, usedIdx,
          availEvent, devVars, kick, irq, drvVars, lost>>

\* u16 arithmetic on ring indices.
PlusUnwrapped(i, n) == i + n
Plus(i, n) == (i + n) % IdxMod
Distance(new, old) == (new + IdxMod - old) % IdxMod

\* (u16)(new_idx - event_idx - 1) < (u16)(new_idx - old)
NeedEvent(event, new, old) ==
  Distance(new, Plus(event, 1)) < Distance(new, old)

Init ==
  /\ useEvent \in BOOLEAN
  /\ ring = [i \in Heads |-> 0]
  /\ availIdx = 0 /\ noIrq = FALSE /\ usedEvent = 0
  /\ usedRing = [i \in Heads |-> 0]
  /\ usedIdx = 0 /\ availEvent = 0
  /\ lastAvail = 0 /\ signalled = 0
  /\ dpc = "sleep" /\ head = None
  /\ kick = FALSE /\ irq = FALSE
  /\ free = Heads /\ added = 0 /\ lastUsed = 0
  /\ gpc = "idle"
  /\ lost = {}

-----------------------------------------------------------------------------
(* The driver of the guest                                                 *)

\* A batch has at most Num requests.
Submit(h) ==
  /\ h \in free
  /\ added < Num
  /\ useEvent => Distance(availIdx, signalled) < MaxLag
  /\ ring' = [ring EXCEPT ![availIdx % Num] = h]
  /\ availIdx' = Plus(availIdx, 1)
  /\ free' = free \ {h}
  /\ added' = added + 1
  /\ UNCHANGED <<useEvent, noIrq, usedEvent, usedRing, usedIdx, availEvent,
                 devVars, kick, irq, lastUsed, gpc, lost>>

\* The driver needs to kick for what it has published since the last time.
WouldKick ==
  useEvent => NeedEvent(availEvent, availIdx, Distance(availIdx, added))

ConsiderKick ==
  /\ added > 0
  /\ kick' = (kick \/ WouldKick)
  /\ added' = 0
  /\ UNCHANGED <<useEvent, ring, availIdx, noIrq, usedEvent, usedRing, usedIdx,
                 availEvent, devVars, irq, free, lastUsed, gpc, lost>>

\* The interrupt handler disables interrupts, reaps until it sees no more, and
\* enables them again, looking once more afterwards.
Interrupt ==
  /\ irq /\ gpc = "idle"
  /\ irq' = FALSE
  /\ noIrq' = TRUE
  /\ gpc' = "reap"
  /\ UNCHANGED <<useEvent, ring, availIdx, usedEvent, usedRing, usedIdx,
                 availEvent, devVars, kick, free, added, lastUsed, lost>>

Reap ==
  /\ gpc = "reap"
  /\ lastUsed # usedIdx
  /\ free' = free \cup {usedRing[lastUsed % Num]}
  /\ lastUsed' = Plus(lastUsed, 1)
  /\ UNCHANGED <<useEvent, ring, availIdx, noIrq, usedEvent, usedRing, usedIdx,
                 availEvent, devVars, kick, irq, added, gpc, lost>>

EnableIrq ==
  /\ gpc = "reap"
  /\ lastUsed = usedIdx
  /\ noIrq' = FALSE
  /\ usedEvent' = lastUsed
  /\ gpc' = "recheck"
  /\ UNCHANGED <<useEvent, ring, availIdx, usedRing, usedIdx, availEvent,
                 devVars, kick, irq, free, added, lastUsed, lost>>

Recheck ==
  /\ gpc = "recheck"
  /\ \/ /\ lastUsed # usedIdx
        /\ noIrq' = TRUE
        /\ gpc' = "reap"
     \/ /\ lastUsed = usedIdx
        /\ gpc' = "idle"
        /\ UNCHANGED noIrq
  /\ UNCHANGED <<useEvent, ring, availIdx, usedEvent, usedRing, usedIdx,
                 availEvent, devVars, kick, irq, free, added, lastUsed, lost>>

-----------------------------------------------------------------------------
(* virtio_blk_thread and virtio_blk_do_io                                  *)

DevWake ==
  /\ dpc = "sleep" /\ kick
  /\ kick' = FALSE
  /\ dpc' = "arm"
  /\ UNCHANGED <<useEvent, ring, availIdx, noIrq, usedEvent, usedRing, usedIdx,
                 availEvent, lastAvail, signalled, head, irq, drvVars, lost>>

\* virt_queue__available: vring_avail_event = last_avail_idx, then mb().
KeepEvent == availEvent
ArmedEvent == lastAvail

DevArm ==
  /\ dpc = "arm"
  /\ availEvent' = IF useEvent THEN ArmedEvent ELSE availEvent
  /\ dpc' = "look"
  /\ UNCHANGED <<useEvent, ring, availIdx, noIrq, usedEvent, usedRing, usedIdx,
                 lastAvail, signalled, head, kick, irq, drvVars, lost>>

\* `avail->idx != last_avail_idx`, and virt_queue__pop when it is.
AvailSlotLate(i) == (i + 1) % Num
AvailSlot(i) == i % Num

DevLook ==
  /\ dpc = "look"
  /\ \/ /\ availIdx # lastAvail
        /\ head' = ring[AvailSlot(lastAvail)]
        /\ lastAvail' = Plus(lastAvail, 1)
        /\ dpc' = "serve"
     \/ /\ availIdx = lastAvail
        /\ dpc' = "sleep"
        /\ UNCHANGED <<head, lastAvail>>
  /\ UNCHANGED <<useEvent, ring, availIdx, noIrq, usedEvent, usedRing, usedIdx,
                 availEvent, signalled, kick, irq, drvVars, lost>>

\* virtio_blk_do_io_request calls virtio_blk_complete, which fills in the used
\* element; the index still has to move.
DevServe ==
  /\ dpc = "serve"
  /\ usedRing' = [usedRing EXCEPT ![usedIdx % Num] = head]
  /\ dpc' = "advance"
  /\ UNCHANGED <<useEvent, ring, availIdx, noIrq, usedEvent, usedIdx, availEvent,
                 lastAvail, signalled, head, kick, irq, drvVars, lost>>

\* A request without a header or room for the status, of an unknown type, or
\* whose disk access fails is never completed.
DevDrop ==
  /\ dpc = "serve"
  /\ lost' = lost \cup {head}
  /\ head' = None
  /\ dpc' = "arm"
  /\ UNCHANGED <<useEvent, ring, availIdx, noIrq, usedEvent, usedRing, usedIdx,
                 availEvent, lastAvail, signalled, kick, irq, drvVars>>

DevAdvance ==
  /\ dpc = "advance"
  /\ usedIdx' = Plus(usedIdx, 1)
  /\ head' = None
  /\ dpc' = "signal"
  /\ UNCHANGED <<useEvent, ring, availIdx, noIrq, usedEvent, usedRing, availEvent,
                 lastAvail, signalled, kick, irq, drvVars, lost>>

\* virtio_queue__should_signal.
ShouldSignalLate ==
  IF useEvent THEN Distance(usedIdx, usedEvent) < Distance(usedIdx, signalled) ELSE ~noIrq
ShouldSignal ==
  IF useEvent THEN NeedEvent(usedEvent, usedIdx, signalled) ELSE ~noIrq

DevSignal ==
  /\ dpc = "signal"
  /\ irq' = (irq \/ ShouldSignal)
  /\ signalled' = IF useEvent /\ ShouldSignal THEN usedIdx ELSE signalled
  /\ dpc' = "arm"
  /\ UNCHANGED <<useEvent, ring, availIdx, noIrq, usedEvent, usedRing, usedIdx,
                 availEvent, lastAvail, head, kick, drvVars, lost>>

-----------------------------------------------------------------------------
Driver ==
  \/ \E h \in Heads : Submit(h)
  \/ ConsiderKick
  \/ Interrupt
  \/ Reap
  \/ EnableIrq
  \/ Recheck

Device ==
  \/ DevWake \/ DevArm \/ DevLook \/ DevServe \/ DevDrop \/ DevAdvance \/ DevSignal

Next == Driver \/ Device

Spec == Init /\ [][Next]_vars

\* The I/O thread runs, the driver kicks after it has published requests and
\* its interrupt handler runs to the end.  It need not submit requests.
Handler == Interrupt \/ Reap \/ EnableIrq \/ Recheck

Fairness == WF_vars(Device) /\ WF_vars(ConsiderKick) /\ WF_vars(Handler)

FairSpec == Spec /\ Fairness

-----------------------------------------------------------------------------
(* Properties                                                              *)

TypeOK ==
  /\ useEvent \in BOOLEAN
  /\ ring \in [Heads -> Heads] /\ usedRing \in [Heads -> Heads]
  /\ availIdx \in Idx /\ usedIdx \in Idx
  /\ availEvent \in Idx /\ usedEvent \in Idx
  /\ lastAvail \in Idx /\ lastUsed \in Idx /\ signalled \in Idx
  /\ noIrq \in BOOLEAN /\ kick \in BOOLEAN /\ irq \in BOOLEAN
  /\ dpc \in {"sleep", "arm", "look", "serve", "advance", "signal"}
  /\ head \in Heads \cup {None}
  /\ free \in SUBSET Heads /\ lost \in SUBSET Heads
  /\ added \in 0 .. Num
  /\ gpc \in {"idle", "reap", "recheck"}

\* The requests between two indices of a ring, in order.
Window(r, from, to) ==
  [i \in 1 .. Distance(to, from) |-> r[(from + i - 1) % Num]]

Waiting == Window(ring, lastAvail, availIdx)
Answered == Window(usedRing, lastUsed, usedIdx)

\* The rings with their wrapping indices behave as the queues of RequestQueue:
\* first in first out, nothing invented, duplicated or overwritten.
Queue == INSTANCE RequestQueue
  WITH Requests <- Heads, None <- None, waiting <- Waiting, serving <- head,
       answered <- Answered, dropped <- lost
QueueSpec == Queue!Spec

\* No kick is lost: when the I/O thread sleeps, nothing wakes it and requests
\* wait, the driver is about to kick.
KickNotLost ==
  dpc = "sleep" /\ ~kick /\ availIdx # lastAvail => added > 0 /\ WouldKick

\* "Without a mb here we might not send a notification that we need to send"
\* (virtio_queue__should_signal): when the driver's handler is idle, no
\* interrupt is pending and answers wait, the I/O thread is about to signal.
IrqNotLost ==
  gpc = "idle" /\ ~irq /\ lastUsed # usedIdx => dpc = "signal" /\ ShouldSignal

\* The indexes and events of a queue are in range, and neither notification is lost.
QueueInv == TypeOK /\ KickNotLost /\ IrqNotLost

\* A submitted request comes back to the driver, unless the device dropped it.
RequestsAnswered ==
  \A h \in Heads : h \notin free ~> h \in free \/ h \in lost
==============================================================================
