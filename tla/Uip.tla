-------------------------------- MODULE Uip --------------------------------
(***************************************************************************)
(* The user mode network stack of virtio-net (net/uip).  A pool of frame   *)
(* buffers stands between the threads that produce frames for the guest    *)
(* (the transmit queue thread that answers ARP, ICMP, DHCP and TCP, one    *)
(* thread per TCP socket, one thread for all UDP sockets) and the receive  *)
(* queue thread that hands them to the guest.  A section under buf_lock or *)
(* tcp_socket_lock is one step; the fields of a TCP socket are read and    *)
(* written outside the locks, so those accesses are steps of their own.    *)
(* All TCP frames of the guest carry the same addresses and ports.         *)
(***************************************************************************)
EXTENDS Integers, Sequences, FiniteSets, SequencesExt

CONSTANTS
    Bufs,       \* 1..buf_nr, the frame buffers in list order
    Socks,      \* 1..n, the TCP sockets in the order of their allocation
    MaxWin,     \* largest window of the guest and largest payload of a read
    MaxFrames,  \* bound on the frames the guest sends
    MaxReads    \* bound on the host data a run delivers

ASSUME UipAssumption ==
    /\ IsFiniteSet(Bufs) /\ Bufs = 1..Cardinality(Bufs) /\ Bufs # {}
    /\ IsFiniteSet(Socks) /\ Socks = 1..Cardinality(Socks)
    /\ MaxWin \in Nat

VARIABLES
    buf,        \* uip_buf.status of every buffer, "GONE" once freed
    frame,      \* what a buffer holds
    freeNr, usedNr,   \* info->buf_free_nr and buf_used_nr
    bufLock,    \* "open", or "dead" when a cancelled thread died holding it
    skLock,     \* "open", or "exit" once uip_tcp_exit holds tcp_socket_lock
    sk,         \* the TCP sockets
    list,       \* info->tcp_socket_head
    udp,        \* the UDP thread
    udpSk,      \* is the UDP socket of the guest's datagrams listed?
    tx, rx,     \* the queue threads of virtio-net
    out,        \* the frame each producer is cooking
    guest,      \* the guest's side of the connection
    stop,       \* what is left of the reset that is under way
    frames, reads

uipVars == <<buf, frame, freeNr, usedNr, bufLock, skLock, sk, list, udp, udpSk,
             tx, rx, out, guest, stop, frames, reads>>

\* the threads that produce frames: a TCP socket's thread is named after it
TxThread == 0
UdpThread == -1
Actors == {TxThread, UdpThread} \cup Socks
NoFrame == [kind |-> "none"]
Quiet == [pc |-> "off", buf |-> 0, fr |-> NoFrame, reg |-> 0]

\* guest_acked before the first ACK: far below the initial sequence number,
\* which uip_tcp_isn_alloc fixes at 10000000 (0 here)
NeverAcked == -9

FreshSock == [at |-> "none", thread |-> "none", wdone |-> FALSE, rdone |-> FALSE,
              seq |-> 0, ack |-> 1, acked |-> NeverAcked, win |-> 0, left |-> 0,
              off |-> 0, written |-> 0]

\* What the guest may send, by what the handler of the protocol does with it: a
\* frame that is answered (ARP for the host, ICMP, DHCP DISCOVER and REQUEST), ARP
\* for another address, a frame nobody answers (another protocol, IP options, other
\* DHCP messages), UDP, TCP segments.
ArpKinds == {"answered", "arp_other"}
IcmpKinds == {"answered"}
DhcpKinds == {"answered", "ignored"}
UdpKinds == DhcpKinds \cup {"udp"}
TcpKinds == {"syn", "ack", "data", "fin"}
Ipv4Kinds == {"ignored"} \cup IcmpKinds \cup TcpKinds \cup UdpKinds
Kinds == {"ignored"} \cup ArpKinds \cup Ipv4Kinds

UipInit ==
    /\ buf = [b \in Bufs |-> "FREE"]
    /\ frame = [b \in Bufs |-> NoFrame]
    /\ freeNr = Cardinality(Bufs)
    /\ usedNr = 0
    /\ bufLock = "open"
    /\ skLock = "open"
    /\ sk = [s \in Socks |-> FreshSock]
    /\ list = <<>>
    /\ udp = "none"
    /\ udpSk = FALSE
    /\ tx = [pc |-> "idle", kind |-> "none", sk |-> 0]
    /\ rx = [pc |-> "get", buf |-> 0]
    /\ out = [a \in Actors |-> Quiet]
    /\ guest = [nxt |-> 0, stream |-> TRUE]
    /\ stop = <<>>
    /\ frames = 0
    /\ reads = 0

-----------------------------------------------------------------------------
(* The buffer pool. *)

FirstWith(status) == CHOOSE b \in Bufs : buf[b] = status /\ \A c \in Bufs : buf[c] = status => b <= c

\* A buffer leaves the pool marked INUSE, "to prevent someone from using this
\* buf until we free it".
TakenAsFree == "FREE"
Taken == "INUSE"

\* uip_buf_get_free: the wait for a free buffer is over.
GetFree(a) ==
    /\ out[a].pc = "get"
    /\ bufLock = "open"
    /\ freeNr > 0
    /\ \E b \in Bufs : buf[b] = "FREE"
    /\ LET b == FirstWith("FREE") IN
       /\ buf' = [buf EXCEPT ![b] = Taken]
       /\ out' = [out EXCEPT ![a].pc = "fill", ![a].buf = b]
    /\ freeNr' = freeNr - 1
    /\ UNCHANGED <<frame, usedNr, bufLock, skLock, sk, list, udp, udpSk, tx, rx,
                   guest, stop, frames, reads>>

\* A thread that asks for a buffer, for a frame that is not TCP.
Asking(k) == [pc |-> "get", buf |-> 0, reg |-> 0, fr |-> [kind |-> k]]

\* uip_buf_set_used, as it changes buffer and counter.
SetUsed(b, fr) ==
    /\ bufLock = "open"
    /\ buf' = [buf EXCEPT ![b] = "USED"]
    /\ frame' = [frame EXCEPT ![b] = fr]
    /\ usedNr' = usedNr + 1

FreedTwice(n) == n
Freed(n) == n + 1

\* uip_rx: the receive queue thread takes a used buffer, the first of the
\* list, copies it for the guest and frees it.
RxTake ==
    /\ rx.pc = "get"
    /\ bufLock = "open"
    /\ usedNr > 0
    /\ \E b \in Bufs : buf[b] = "USED"
    /\ LET b == FirstWith("USED") IN
       /\ buf' = [buf EXCEPT ![b] = "INUSE"]
       /\ rx' = [pc |-> "copy", buf |-> b]
    /\ usedNr' = usedNr - 1
    /\ UNCHANGED <<frame, freeNr, bufLock, skLock, sk, list, udp, udpSk, tx, out,
                   guest, stop, frames, reads>>

\* The guest's TCP accepts the segment that continues what it has.
Receive(fr) ==
    IF fr.kind = "tcp" /\ fr.seq = guest.nxt
    THEN [nxt |-> guest.nxt + fr.len + (IF fr.flag \in {"syn", "fin"} THEN 1 ELSE 0),
          stream |-> guest.stream /\ (fr.len > 0 => fr.off = fr.seq - 1)]
    ELSE guest

RxGive ==
    /\ rx.pc = "copy"
    /\ bufLock = "open"
    /\ guest' = Receive(frame[rx.buf])
    /\ buf' = [buf EXCEPT ![rx.buf] = "FREE"]
    /\ frame' = [frame EXCEPT ![rx.buf] = NoFrame]
    /\ freeNr' = Freed(freeNr)
    /\ rx' = [pc |-> "get", buf |-> 0]
    /\ UNCHANGED <<usedNr, bufLock, skLock, sk, list, udp, udpSk, tx, out, stop,
                   frames, reads>>

-----------------------------------------------------------------------------
(* uip_tcp_payload_send of a thread a for its socket s.                    *)

Sending(s, flag, len) ==
    [pc |-> "get", buf |-> 0, reg |-> 0,
     fr |-> [kind |-> "tcp", sk |-> s, flag |-> flag, len |-> len, seq |-> 0,
             ack |-> 0, off |-> 0]]

\* The frame is cooked from seq_server and ack_server as they are now; off is
\* where the payload really lies in the host's stream.  "sk->seq_server +=
\* payload_len" is not atomic: its load is here,
Fill(a) ==
    /\ out[a].pc = "fill"
    /\ out[a].fr.kind = "tcp"
    /\ LET s == out[a].fr.sk IN
       out' = [out EXCEPT ![a].fr.seq = sk[s].seq, ![a].fr.ack = sk[s].ack,
                          ![a].fr.off = sk[s].off, ![a].reg = sk[s].seq, ![a].pc = "store"]
    /\ sk' = [sk EXCEPT ![out[a].fr.sk].off = @ + out[a].fr.len]
    /\ UNCHANGED <<buf, frame, freeNr, usedNr, bufLock, skLock, list, udp, udpSk,
                   tx, rx, guest, stop, frames, reads>>

\* and its store, after which uip_buf_set_used passes the frame to the guest.
\* A compiler that sees the constant length 0 may leave the addition out.
SeqStore(a) ==
    /\ out[a].pc = "store"
    /\ LET o == out[a] IN
       /\ \/ sk' = [sk EXCEPT ![o.fr.sk].seq = o.reg + o.fr.len]
          \/ o.fr.len = 0 /\ sk' = sk
       /\ SetUsed(o.buf, o.fr)
    /\ out' = [out EXCEPT ![a] = [Quiet EXCEPT !.pc = "sent"]]
    /\ UNCHANGED <<freeNr, bufLock, skLock, list, udp, udpSk, tx, rx, guest, stop,
                   frames, reads>>

-----------------------------------------------------------------------------
(* The transmit queue thread: uip_tx.                                      *)

TxIdle == [pc |-> "idle", kind |-> "none", sk |-> 0]

\* A frame of the guest arrives.  Unknown protocols, IP options and DHCP
\* messages that are neither DISCOVER nor REQUEST are dropped.
Transmit(k) ==
    /\ tx.pc = "idle"
    /\ frames < MaxFrames
    /\ k = "syn" => \E s \in Socks : sk[s].at = "none"
    /\ frames' = IF k = "ignored" THEN frames ELSE frames + 1
    /\ CASE k = "ignored" -> UNCHANGED <<tx, out>>
         [] k \in {"answered", "arp_other"} ->
              /\ tx' = [tx EXCEPT !.pc = "reply", !.kind = k]
              /\ out' = [out EXCEPT ![TxThread] = Asking(k)]
         [] OTHER -> tx' = [tx EXCEPT !.pc = k, !.kind = k] /\ out' = out
    /\ UNCHANGED <<buf, frame, freeNr, usedNr, bufLock, skLock, sk, list, udp, udpSk,
                   rx, guest, stop, reads>>

\* uip_tx_do_arp answers only for the host's own address, and keeps the cloned
\* buffer otherwise; ICMP and DHCP always answer.
Answered(k) == k # "arp_other"

TxReply ==
    /\ tx.pc = "reply"
    /\ out[TxThread].pc = "fill"
    /\ IF Answered(tx.kind)
       THEN SetUsed(out[TxThread].buf, out[TxThread].fr)
       ELSE UNCHANGED <<buf, frame, usedNr>>
    /\ out' = [out EXCEPT ![TxThread] = Quiet]
    /\ tx' = TxIdle
    /\ UNCHANGED <<freeNr, bufLock, skLock, sk, list, udp, udpSk, rx, guest, stop,
                   frames, reads>>

\* uip_tx_do_ipv4_udp: find or make the socket, send, start the thread.  The
\* socket stays when the datagram cannot be sent.
TxUdp(ok) ==
    /\ tx.pc = "udp"
    /\ \/ ~udpSk /\ ~ok /\ udpSk' = FALSE
       \/ udpSk' = TRUE
    /\ udp' = IF ok /\ udp = "none" THEN "epoll" ELSE udp
    /\ tx' = TxIdle
    /\ UNCHANGED <<buf, frame, freeNr, usedNr, bufLock, skLock, sk, list, rx, out,
                   guest, stop, frames, reads>>

\* SYN: uip_tcp_socket_alloc connects, adds the socket to the list, and the
\* SYN-ACK goes out.  A failed connect ends the frame.
TxSyn(ok, win) ==
    /\ tx.pc = "syn"
    /\ skLock = "open"
    /\ \E s \in Socks :
       /\ sk[s].at = "none" /\ \A r \in Socks : sk[r].at = "none" => s <= r
       /\ IF ok
          THEN /\ sk' = [sk EXCEPT ![s] = [FreshSock EXCEPT !.at = "listed", !.win = win]]
               /\ list' = Append(list, s)
               /\ tx' = [tx EXCEPT !.pc = "send", !.sk = s]
               /\ out' = [out EXCEPT ![TxThread] = Sending(s, "syn", 0)]
          ELSE UNCHANGED <<sk, list, out>> /\ tx' = TxIdle
    /\ UNCHANGED <<buf, frame, freeNr, usedNr, bufLock, skLock, udp, udpSk, rx, guest,
                   stop, frames, reads>>

\* Every other segment: the first socket of the list takes the window and the
\* acknowledgement, then FIN, no payload or data.  The guest acknowledges what
\* it has received in order.
TxFind(win) ==
    /\ tx.pc \in {"ack", "data", "fin"}
    /\ skLock = "open"
    /\ IF list = <<>>
       THEN tx' = TxIdle /\ sk' = sk
       ELSE /\ sk' = [sk EXCEPT ![Head(list)].win = win, ![Head(list)].acked = guest.nxt]
            /\ tx' = IF tx.pc = "ack" THEN TxIdle
                     ELSE [tx EXCEPT !.pc = IF @ = "fin" THEN "do_fin" ELSE "do_data",
                                     !.sk = Head(list)]
    /\ UNCHANGED <<buf, frame, freeNr, usedNr, bufLock, skLock, list, udp, udpSk, rx,
                   out, guest, stop, frames, reads>>

TxFin ==
    /\ tx.pc = "do_fin"
    /\ IF sk[tx.sk].wdone
       THEN tx' = TxIdle /\ UNCHANGED <<sk, out>>
       ELSE /\ sk' = [sk EXCEPT ![tx.sk].wdone = TRUE, ![tx.sk].ack = @ + 1]
            /\ tx' = [tx EXCEPT !.pc = "send"]
            /\ out' = [out EXCEPT ![TxThread] = Sending(tx.sk, "ack", 0)]
    /\ UNCHANGED <<buf, frame, freeNr, usedNr, bufLock, skLock, list, udp, udpSk, rx,
                   guest, stop, frames, reads>>

\* uip_tcp_socket_send writes ret of len units to the host's socket; only what
\* was written is acknowledged.
AckOfLen(ret, len) == len
AckOf(ret, len) == ret

TxData(len, ret) ==
    /\ tx.pc = "do_data"
    /\ ret <= len
    /\ (sk[tx.sk].wdone) => (ret = 0)
    /\ IF ret < 0
       THEN tx' = TxIdle /\ UNCHANGED <<sk, out>>
       ELSE /\ sk' = [sk EXCEPT ![tx.sk].ack = @ + AckOf(ret, len), ![tx.sk].written = @ + ret]
            /\ tx' = [tx EXCEPT !.pc = "send"]
            /\ out' = [out EXCEPT ![TxThread] = Sending(tx.sk, "ack", 0)]
    /\ UNCHANGED <<buf, frame, freeNr, usedNr, bufLock, skLock, list, udp, udpSk, rx,
                   guest, stop, frames, reads>>

\* uip_tcp_socket_close: the socket goes when both directions are done.
Closed(s) == sk[s].wdone /\ sk[s].rdone

\* The frame is out.  SYN counts in the sequence and starts the socket's
\* thread; after a FIN the guest's direction is closed.
TxSent ==
    /\ tx.pc = "send"
    /\ out[TxThread].pc = "sent"
    /\ (tx.kind = "fin" /\ Closed(tx.sk)) => (skLock = "open")
    /\ CASE tx.kind = "syn" ->
              /\ sk' = [sk EXCEPT ![tx.sk].seq = @ + 1, ![tx.sk].thread = "read"]
              /\ list' = list
         [] tx.kind = "fin" /\ Closed(tx.sk) ->
              /\ sk' = [sk EXCEPT ![tx.sk].at = "freed"]
              /\ \E i \in DOMAIN list : list[i] = tx.sk /\ list' = RemoveAt(list, i)
         [] OTHER -> UNCHANGED <<sk, list>>
    /\ out' = [out EXCEPT ![TxThread] = Quiet]
    /\ tx' = TxIdle
    /\ UNCHANGED <<buf, frame, freeNr, usedNr, bufLock, skLock, udp, udpSk, rx, guest,
                   stop, frames, reads>>

-----------------------------------------------------------------------------
(* uip_tcp_socket_thread of socket s, and uip_udp_socket_thread.           *)

\* read() returns payload, or 0 or an error: the end of the host's stream.
SockRead(s, n) ==
    /\ sk[s].thread = "read"
    /\ reads < MaxReads
    /\ reads' = reads + 1
    /\ sk' = [sk EXCEPT ![s].left = n, ![s].thread = IF n = 0 THEN "eof" ELSE "win"]
    /\ UNCHANGED <<buf, frame, freeNr, usedNr, bufLock, skLock, list, udp, udpSk, tx,
                   rx, out, guest, stop, frames>>

\* The guest's window is open: send as much as it and the payload allow.
Room(s) == sk[s].acked + sk[s].win - sk[s].seq

SockWindow(s) ==
    /\ sk[s].thread = "win"
    /\ skLock = "open"
    /\ Room(s) > 0
    /\ LET len == IF Room(s) < sk[s].left THEN Room(s) ELSE sk[s].left IN
       /\ sk' = [sk EXCEPT ![s].left = @ - len, ![s].thread = "send"]
       /\ out' = [out EXCEPT ![s] = Sending(s, "ack", len)]
    /\ UNCHANGED <<buf, frame, freeNr, usedNr, bufLock, skLock, list, udp, udpSk, tx,
                   rx, guest, stop, frames, reads>>

SockSent(s) ==
    /\ sk[s].thread = "send"
    /\ out[s].pc = "sent"
    /\ sk' = [sk EXCEPT ![s].thread = IF sk[s].left > 0 THEN "win" ELSE "read"]
    /\ out' = [out EXCEPT ![s] = Quiet]
    /\ UNCHANGED <<buf, frame, freeNr, usedNr, bufLock, skLock, list, udp, udpSk, tx,
                   rx, guest, stop, frames, reads>>

\* End of stream: uip_tcp_socket_close, which would free the socket only if
\* read_done were already set, then the FIN.
SockEof(s) ==
    /\ sk[s].thread = "eof"
    /\ sk' = [sk EXCEPT ![s].thread = "fin"]
    /\ out' = [out EXCEPT ![s] = Sending(s, "fin", 0)]
    /\ UNCHANGED <<buf, frame, freeNr, usedNr, bufLock, skLock, list, udp, udpSk, tx,
                   rx, guest, stop, frames, reads>>

\* read_done is the last thing the thread writes to its socket.
DoneBeforeFin == {"fin"}
DoneAt == {"done"}

\* The FIN counts in the sequence (a second unlocked addition) and the thread
\* ends.
SockFin(s) ==
    /\ \/ /\ sk[s].thread = "fin"
          /\ out[s].pc = "sent"
          /\ sk' = [sk EXCEPT ![s].seq = @ + 1, ![s].thread = "done"]
          /\ out' = [out EXCEPT ![s] = Quiet]
       \/ /\ sk[s].thread \in DoneAt
          /\ sk[s].rdone = FALSE
          /\ sk' = [sk EXCEPT ![s].rdone = TRUE,
                              ![s].thread = IF @ = "done" THEN "exited" ELSE @]
          /\ out' = out
    /\ UNCHANGED <<buf, frame, freeNr, usedNr, bufLock, skLock, list, udp, udpSk, tx,
                   rx, guest, stop, frames, reads>>

\* A datagram of the host is received and a buffer asked for.
UdpRecv ==
    /\ udp = "epoll"
    /\ udpSk
    /\ reads < MaxReads
    /\ reads' = reads + 1
    /\ udp' = "send"
    /\ out' = [out EXCEPT ![UdpThread] = Asking("udp")]
    /\ UNCHANGED <<buf, frame, freeNr, usedNr, bufLock, skLock, sk, list, udpSk, tx,
                   rx, guest, stop, frames>>

UdpSend ==
    /\ udp = "send"
    /\ out[UdpThread].pc = "fill"
    /\ SetUsed(out[UdpThread].buf, out[UdpThread].fr)
    /\ out' = [out EXCEPT ![UdpThread] = Quiet]
    /\ udp' = "epoll"
    /\ UNCHANGED <<freeNr, bufLock, skLock, sk, list, udpSk, tx, rx, guest, stop,
                   frames, reads>>

-----------------------------------------------------------------------------
(* Stopping.  A guest that resets the device has its queue threads stopped *)
(* first (exit_vq of the receive and of the transmit queue), then uip_exit  *)
(* ends the threads of the sockets and frees the buffers.                   *)

ResetBackendFirst == <<"udp", "tcp", "free", "rx", "tx">>
ResetOrder == <<"rx", "tx", "udp", "tcp", "free">>

Reset ==
    /\ stop = <<>>
    /\ rx.pc # "off"
    /\ stop' = ResetOrder
    /\ UNCHANGED <<buf, frame, freeNr, usedNr, bufLock, skLock, sk, list, udp, udpSk,
                   tx, rx, out, guest, frames, reads>>

Doing(what) == stop # <<>> /\ Head(stop) = what
\* pthread_cond_wait is a cancellation point that takes its mutex back before
\* the thread dies: a producer waiting for a free buffer, or the receive
\* thread waiting for a used one, dies holding buf_lock.  pthread_mutex_lock
\* is no cancellation point.
WaitsFree(a) == out[a].pc = "get" /\ freeNr = 0 /\ bufLock = "open"
WaitsUsed == rx.pc = "get" /\ usedNr = 0 /\ bufLock = "open"

\* exit_vq(0): pthread_cancel and pthread_join of the receive thread, which
\* waits for a frame, or for a buffer of the guest under the queue's own lock.
StopRx ==
    /\ Doing("rx")
    /\ rx.pc = "get"
    /\ \/ WaitsUsed /\ bufLock' = "dead"
       \/ UNCHANGED bufLock
    /\ rx' = [pc |-> "off", buf |-> 0]
    /\ stop' = Tail(stop)
    /\ UNCHANGED <<buf, frame, freeNr, usedNr, skLock, sk, list, udp, udpSk, tx, out,
                   guest, frames, reads>>

\* exit_vq(1): the transmit thread waits for the guest, is in connect, write or
\* sendto, or waits for a free buffer.
StopTx ==
    /\ Doing("tx")
    /\ \/ tx.pc \in {"idle", "syn", "do_data", "udp"} /\ UNCHANGED bufLock
       \/ WaitsFree(TxThread) /\ bufLock' = "dead"
    /\ tx' = [TxIdle EXCEPT !.pc = "off"]
    /\ out' = [out EXCEPT ![TxThread] = Quiet]
    /\ stop' = Tail(stop)
    /\ UNCHANGED <<buf, frame, freeNr, usedNr, skLock, sk, list, udp, udpSk, rx, guest,
                   frames, reads>>

\* uip_udp_exit.
StopUdp ==
    /\ Doing("udp")
    /\ \/ udp \in {"none", "epoll"} /\ UNCHANGED bufLock
       \/ WaitsFree(UdpThread) /\ bufLock' = "dead"
    /\ udp' = "none"
    /\ udpSk' = FALSE
    /\ out' = [out EXCEPT ![UdpThread] = Quiet]
    /\ stop' = Tail(stop)
    /\ UNCHANGED <<buf, frame, freeNr, usedNr, skLock, sk, list, tx, rx, guest,
                   frames, reads>>

\* uip_tcp_exit takes tcp_socket_lock and, for a socket of the list, calls
\* uip_tcp_socket_close, which takes the same lock: with a socket left it
\* never comes back.
StopTcp ==
    /\ Doing("tcp")
    /\ skLock = "open"
    /\ IF list = <<>>
       THEN stop' = Tail(stop) /\ skLock' = skLock
       ELSE skLock' = "exit" /\ stop' = stop
    /\ UNCHANGED <<buf, frame, freeNr, usedNr, bufLock, sk, list, udp, udpSk, tx, rx,
                   out, guest, frames, reads>>

\* The buffers go and uip_static_init makes the locks anew.
StopFree ==
    /\ Doing("free")
    /\ buf' = [b \in Bufs |-> "GONE"]
    /\ frame' = [b \in Bufs |-> NoFrame]
    /\ usedNr' = 0
    /\ bufLock' = "open"
    /\ stop' = Tail(stop)
    /\ UNCHANGED <<freeNr, skLock, sk, list, udp, udpSk, tx, rx, out, guest,
                   frames, reads>>

\* After a reset the guest sets the device up again: init_vq and uip_init.
Restart ==
    /\ stop = <<>>
    /\ rx.pc = "off" /\ tx.pc = "off"
    /\ buf' = [b \in Bufs |-> "FREE"]
    /\ freeNr' = Cardinality(Bufs)
    /\ rx' = [pc |-> "get", buf |-> 0]
    /\ tx' = TxIdle
    /\ guest' = [nxt |-> 0, stream |-> TRUE]
    /\ UNCHANGED <<frame, usedNr, bufLock, skLock, sk, list, udp, udpSk, out, stop,
                   frames, reads>>

UipRx == RxTake \/ RxGive
UipTx ==
    \/ GetFree(TxThread) \/ Fill(TxThread) \/ SeqStore(TxThread)
    \/ TxReply \/ TxFin \/ TxSent
    \/ \E ok \in BOOLEAN : TxUdp(ok) \/ \E w \in 0..MaxWin : TxSyn(ok, w)
    \/ \E w \in 0..MaxWin : TxFind(w)
    \/ \E n \in 1..MaxWin, ret \in -1..MaxWin : TxData(n, ret)
UipSock(s) ==
    \/ GetFree(s) \/ Fill(s) \/ SeqStore(s)
    \/ SockWindow(s) \/ SockSent(s) \/ SockEof(s) \/ SockFin(s)
UipUdp == GetFree(UdpThread) \/ UdpSend
UipStop == StopRx \/ StopTx \/ StopUdp \/ StopTcp \/ StopFree

UipNext ==
    \/ UipRx \/ UipTx \/ UipUdp \/ UipStop
    \/ \E s \in Socks : UipSock(s) \/ \E n \in 0..MaxWin : SockRead(s, n)
    \/ UdpRecv
    \/ \E k \in Kinds : Transmit(k)
    \/ Reset \/ Restart

-----------------------------------------------------------------------------
(* Properties *)

Holders == {a \in Actors : out[a].buf # 0}

UipTypeOK ==
    /\ buf \in [Bufs -> {"FREE", "INUSE", "USED", "GONE"}]
    /\ list \in Seq(Socks)
    /\ \A a \in Actors : out[a].buf \in Bufs \cup {0}

\* uip_buf_get_free, get_used, set_used and set_free: the counters the waits
\* look at agree with the buffers, no two threads hold the same buffer, and a
\* buffer somebody fills or copies is neither free nor visible to the guest.
BufInv ==
    (\A b \in Bufs : buf[b] # "GONE") =>
        /\ freeNr = Cardinality({b \in Bufs : buf[b] = "FREE"})
        /\ usedNr = Cardinality({b \in Bufs : buf[b] = "USED"})
        /\ \A a \in Holders : buf[out[a].buf] = "INUSE" /\ out[a].buf # rx.buf
        /\ \A a \in Holders, b \in Holders : out[a].buf = out[b].buf => a = b
        /\ rx.buf # 0 => buf[rx.buf] = "INUSE"

\* uip_tcp_socket_close: once a socket is freed neither its thread nor the
\* transmit thread, both of which use it without a lock, touches it again.
SocketAlive ==
    \A s \in Socks : sk[s].at = "freed" => sk[s].thread = "exited" /\ tx.sk # s

\* uip_tx_do_ipv4_tcp acknowledges nothing to the guest that the host's socket
\* has not taken (and the guest's FIN once).
AckTrue ==
    \A b \in Bufs : frame[b].kind = "tcp" =>
        LET s == sk[frame[b].sk] IN
        frame[b].ack <= 1 + s.written + (IF s.wdone THEN 1 ELSE 0)

\* "Reset virtqueues and stop all traffic now, so that the device can safely
\* reset the backend in notify_status()" (virtio/core.c): when a reset of the
\* guest frees the buffers, no thread still fills or copies one.
ResetSafe ==
    (\E b \in Bufs : buf[b] = "GONE") => Holders = {} /\ rx.buf = 0

\* Every frame the guest sends is dealt with and the transmit thread goes on,
\* unless the device is being stopped or every buffer was lost to ARP requests
\* for addresses other than the host's, which keep the buffer they cloned.
AllLost == \A b \in Bufs : buf[b] = "INUSE" /\ b # rx.buf /\ \A a \in Holders : out[a].buf # b
TxServed == (tx.pc \notin {"idle", "off"}) ~> (tx.pc \in {"idle", "off"} \/ stop # <<>> \/ AllLost)

\* "Threads are waiting on cancellation points (readv or pthread_cond_wait) and
\* should stop gracefully" (virtio/net.c, exit_vq): a reset comes to its end.
ResetReturns == (stop # <<>>) ~> (stop = <<>>)

\* "Increase server seq" (net/uip/tcp.c): the segments the guest accepts carry
\* the bytes of the host's stream that their sequence numbers name.
StreamTrue == guest.stream

\* The buffers and sockets of the stack under its four kinds of threads and resets.
UipInv == UipTypeOK /\ BufInv /\ SocketAlive /\ AckTrue /\ ResetSafe
=============================================================================
