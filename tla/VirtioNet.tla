----------------------------- MODULE VirtioNet -----------------------------
(***************************************************************************)
(* The queues of virtio-net (virtio/net.c).  Queue 0 receives, 1 transmits, *)
(* 2 is the control queue; each has a thread that sleeps on the queue's     *)
(* condition until the guest kicks it.  The backend (tap or the user mode   *)
(* stack) is a source and sink of frames that may fail.  With vhost the     *)
(* kernel serves the first two queues and only queue 2 has a thread.  A     *)
(* frame is counted in units of the guest's smallest receive buffer.        *)
(***************************************************************************)
EXTENDS Integers, Sequences, FiniteSets

CONSTANTS
    NetModes,   \* of {"tap", "user", "vhost"}
    MaxLen,     \* longest frame
    MaxAvail,   \* buffers the guest has outstanding in a queue
    MaxRx       \* bound on the frames received

ASSUME NetAssumption == MaxLen \in Nat

VARIABLES
    mode, merge,    \* backend; VIRTIO_NET_F_MRG_RXBUF or a modern device
    dev,            \* "reset", "setup", "running", "dead" (die_perror)
    vhostOwned,     \* the vhost descriptor has an owner (VHOST_SET_OWNER)
    thread,         \* of each queue
    avail,          \* buffers of the guest not yet taken
    rxf,            \* the frame being received: length, copied, num_buffers
    pend,           \* used elements written but not yet published
    ring,           \* what was last published to the guest, with num_buffers
    kicked,         \* the guest has added buffers and still has to kick
    received

netVars == <<mode, merge, dev, vhostOwned, thread, avail, rxf, pend, ring, kicked, received>>

Qs == 0..2
CtrlQ == 2
Threaded(q) == q = CtrlQ \/ mode # "vhost"
NoRx == [len |-> 0, copied |-> 0]
Empty == [frame |-> 0, elems |-> <<>>, num |-> 0]

NetInit ==
    /\ mode \in NetModes
    /\ merge \in BOOLEAN
    /\ dev = "reset"
    /\ vhostOwned = TRUE
    /\ thread = [q \in Qs |-> "none"]
    /\ avail = [q \in Qs |-> 0]
    /\ rxf = NoRx
    /\ pend = <<>>
    /\ ring = Empty
    /\ kicked = [q \in Qs |-> FALSE]
    /\ received = 0

\* init_vq: set the ring up and start the queue's thread, or hand the ring to
\* vhost, which fails for a descriptor whose owner was reset.
InitVq(q) ==
    /\ dev \in {"reset", "setup"}
    /\ thread[q] = "none"
    /\ IF Threaded(q)
       THEN thread' = [thread EXCEPT ![q] = "check"] /\ dev' = "setup"
       ELSE /\ thread' = [thread EXCEPT ![q] = IF vhostOwned THEN "vhost" ELSE "none"]
            /\ dev' = IF vhostOwned THEN "setup" ELSE "dead"
    /\ avail' = [avail EXCEPT ![q] = 0]
    /\ kicked' = [kicked EXCEPT ![q] = FALSE]
    /\ UNCHANGED <<mode, merge, vhostOwned, rxf, pend, ring, received>>

\* notify_status with DRIVER_OK: virtio_net_start (tap_init may fail: die).
Start(ok) ==
    /\ dev = "setup"
    /\ \A q \in Qs : thread[q] \notin {"none", "stopped"}
    /\ mode = "user" => ok
    /\ dev' = IF ok THEN "running" ELSE "dead"
    /\ UNCHANGED <<mode, merge, vhostOwned, thread, avail, rxf, pend, ring, kicked, received>>

\* The guest adds a buffer, and then kicks: virtio_net_handle_callback signals
\* the condition under the queue's lock.
AddBuffer(q) ==
    /\ dev = "running"
    /\ Threaded(q)
    /\ avail[q] < MaxAvail
    /\ avail' = [avail EXCEPT ![q] = @ + 1]
    /\ kicked' = [kicked EXCEPT ![q] = TRUE]
    /\ UNCHANGED <<mode, merge, dev, vhostOwned, thread, rxf, pend, ring, received>>

Kick(q) ==
    /\ dev = "running"
    /\ kicked[q]
    /\ kicked' = [kicked EXCEPT ![q] = FALSE]
    /\ thread' = [thread EXCEPT ![q] = IF @ = "wait" THEN "serve" ELSE @]
    /\ UNCHANGED <<mode, merge, dev, vhostOwned, avail, rxf, pend, ring, received>>

\* Between the test for buffers and the wait the queue's lock is held.
SleepsUnlocked(q) == TRUE
Sleeps(q) == avail[q] = 0

\* The head of every queue thread's loop.
Check(q) ==
    /\ thread[q] = "check"
    /\ thread' = [thread EXCEPT ![q] = IF Sleeps(q) THEN "wait" ELSE "serve"]
    /\ UNCHANGED <<mode, merge, dev, vhostOwned, avail, rxf, pend, ring, kicked, received>>

\* "while (virt_queue__available(vq))" of the three threads: an empty queue
\* ends the batch, after which the transmit and control threads signal.
Batch(q) ==
    /\ thread[q] = "serve"
    /\ avail[q] = 0
    /\ thread' = [thread EXCEPT ![q] = "check"]
    /\ UNCHANGED <<mode, merge, dev, vhostOwned, avail, rxf, pend, ring, kicked, received>>

\* The transmit thread sends one frame and returns its buffer; a backend that
\* fails ends the thread.  The control thread answers one command.
Serve(q, ok) ==
    /\ q \in {1, CtrlQ}
    /\ thread[q] = "serve"
    /\ avail[q] > 0
    /\ q = CtrlQ => ok
    /\ avail' = [avail EXCEPT ![q] = @ - 1]
    /\ thread' = [thread EXCEPT ![q] = IF ok THEN "serve" ELSE "exited"]
    /\ UNCHANGED <<mode, merge, dev, vhostOwned, rxf, pend, ring, kicked, received>>

\* A buffer of the guest holds one unit with merging and a frame without.
BufLen == IF merge THEN 1 ELSE MaxLen

\* The receive thread has a frame from the backend, or the backend failed.
RxFrame(len) ==
    /\ thread[0] = "serve"
    /\ avail[0] > 0
    /\ received < MaxRx
    /\ received' = received + 1
    /\ IF len = 0
       THEN thread' = [thread EXCEPT ![0] = "exited"] /\ rxf' = rxf
       ELSE thread' = [thread EXCEPT ![0] = "copy"] /\ rxf' = [len |-> len, copied |-> 0]
    /\ UNCHANGED <<mode, merge, dev, vhostOwned, avail, pend, ring, kicked>>

\* set_used_elem_no_update writes the element beyond the used index; the guest
\* sees it when used_idx_advance moves the index.
PublishEach(more) == TRUE
Publish(more) == ~more

\* One buffer of the guest takes what fits.  With more to come the thread
\* polls for another buffer; the last one completes the frame: num_buffers is
\* set and all the elements are published.
RxCopy ==
    /\ thread[0] = "copy"
    /\ avail[0] > 0
    /\ LET n == IF rxf.len - rxf.copied < BufLen THEN rxf.len - rxf.copied ELSE BufLen
           more == rxf.copied + n < rxf.len
           elems == Append(pend, n)
       IN /\ avail' = [avail EXCEPT ![0] = @ - 1]
          /\ rxf' = IF more THEN [rxf EXCEPT !.copied = @ + n] ELSE NoRx
          /\ IF Publish(more)
             THEN /\ pend' = <<>>
                  /\ ring' = [frame |-> rxf.len, elems |-> elems,
                             num |-> IF merge THEN Len(elems) ELSE 0]
             ELSE pend' = elems /\ ring' = ring
          /\ thread' = [thread EXCEPT ![0] = IF more THEN "copy" ELSE "serve"]
    /\ UNCHANGED <<mode, merge, dev, vhostOwned, kicked, received>>

\* The guest resets the device: exit_vq of every queue, then virtio_net_stop.
\* A thread is cancelled while it waits: for a kick, a frame, or a buffer.  A
\* vhost queue is not stopped: the descriptor just loses its owner.
Cancellable(q) == thread[q] \in {"wait", "exited"} \/ (q = 0 /\ thread[0] \in {"serve", "copy"})

ExitVq(q) ==
    /\ dev \in {"running", "setup"}
    /\ dev = "setup" => \E r \in Qs : thread[r] = "stopped"
    /\ thread[q] \notin {"none", "stopped"}
    /\ \A r \in Qs : r < q => thread[r] = "stopped"
    /\ IF Threaded(q)
       THEN Cancellable(q) /\ UNCHANGED vhostOwned
       ELSE vhostOwned' = FALSE
    /\ thread' = [thread EXCEPT ![q] = "stopped"]
    /\ dev' = "setup"
    /\ IF q = 0 THEN rxf' = NoRx /\ pend' = <<>> ELSE UNCHANGED <<rxf, pend>>
    /\ UNCHANGED <<mode, merge, avail, ring, kicked, received>>

StopNet ==
    /\ \A q \in Qs : thread[q] = "stopped"
    /\ dev' = "reset"
    /\ thread' = [q \in Qs |-> "none"]
    /\ avail' = [q \in Qs |-> 0]
    /\ kicked' = [q \in Qs |-> FALSE]
    /\ ring' = Empty
    /\ UNCHANGED <<mode, merge, vhostOwned, rxf, pend, received>>

NetStep(q) == Check(q) \/ Batch(q) \/ Serve(q, TRUE) \/ (q = 0 /\ RxCopy)

NetNext ==
    \/ \E q \in Qs : InitVq(q) \/ AddBuffer(q) \/ Kick(q) \/ NetStep(q) \/ ExitVq(q)
    \/ \E q \in Qs : Serve(q, FALSE)
    \/ \E ok \in BOOLEAN : Start(ok)
    \/ \E len \in 0..MaxLen : RxFrame(len)
    \/ StopNet

-----------------------------------------------------------------------------
(* Properties *)

Total(elems) == LET sum[i \in 0..Len(elems)] == IF i = 0 THEN 0 ELSE sum[i - 1] + elems[i]
                IN sum[Len(elems)]

\* virtio_net_rx_thread: whenever the guest looks, the used ring holds whole
\* frames, and with merged buffers the first element names their number.
FramesWhole ==
    /\ Total(ring.elems) = ring.frame
    /\ merge => ring.num = Len(ring.elems)

\* The thread of a queue with buffers gets to them: the kick cannot fall
\* between its test and its wait.  A backend that fails ends the thread of its
\* queue for good, and a reset stops them all.
NetServed ==
    \A q \in Qs :
        (avail[q] > 0 /\ dev = "running" /\ Threaded(q))
            ~> (thread[q] \in {"serve", "copy", "exited", "stopped"} \/ dev # "running")

=============================================================================
