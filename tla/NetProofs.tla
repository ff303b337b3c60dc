------------------------------ MODULE NetProofs ------------------------------
(***************************************************************************)
(* Proofs about virtio-net: the frames that its receive thread publishes,  *)
(* and the buffers and sockets of the user mode stack behind its queues,   *)
(* as MCNet puts them together, for every value of the constants.          *)
(***************************************************************************)
EXTENDS MCNet, TLAPS, FiniteSetTheorems, NaturalsInduction, WellFoundedInduction, SequenceTheorems

-----------------------------------------------------------------------------
(* The user mode stack                                                     *)

\* What the threads, frames and sockets of the stack may be.
TcpFrames == [kind : {"tcp"}, sk : Socks, flag : {"syn", "ack", "fin"}, len : Int,
              seq : Int, ack : Int, off : Int]
Frames == [kind : {"none", "answered", "arp_other", "udp"}] \cup TcpFrames
OutStates == [pc : {"off", "get", "fill", "store", "sent"}, buf : Bufs \cup {0}, fr : Frames, reg : Int]
SockStates ==
  [at : {"none", "listed", "freed"},
   thread : {"none", "read", "win", "send", "eof", "fin", "done", "exited"},
   wdone : BOOLEAN, rdone : BOOLEAN, seq : Int, ack : Int, acked : Int, win : Int, left : Int,
   off : Int, written : Nat]
TxPlaces == {"idle", "off", "reply", "udp", "syn", "ack", "data", "fin", "do_fin", "do_data", "send"}

UipTypes ==
  /\ buf \in [Bufs -> {"FREE", "INUSE", "USED", "GONE"}]
  /\ frame \in [Bufs -> Frames]
  /\ freeNr \in Int /\ usedNr \in Int
  /\ sk \in [Socks -> SockStates]
  /\ list \in Seq(Socks)
  /\ udp \in {"none", "epoll", "send"}
  /\ tx \in [pc : TxPlaces, kind : Kinds \cup {"none"}, sk : Socks \cup {0}]
  /\ rx \in [pc : {"get", "copy", "off"}, buf : Bufs \cup {0}]
  /\ out \in [Actors -> OutStates]
  /\ guest \in [nxt : Int, stream : BOOLEAN]

\* A thread has a buffer while it cooks a frame, and at no other time.
Cooks(a) == out[a].pc \in {"fill", "store"}
OutInv ==
  /\ \A a \in Actors : Cooks(a) <=> out[a].buf # 0
  /\ \A a \in Actors : out[a].pc = "store" => out[a].fr.kind = "tcp"
  /\ rx.pc = "copy" <=> rx.buf # 0

\* The buffers are there until a reset that is at its end frees them all.
AllGone == \A b \in Bufs : buf[b] = "GONE"
ResetOver == stop = <<>> /\ rx.pc = "off"
GoneInv ==
  /\ (\E b \in Bufs : buf[b] = "GONE") => AllGone /\ ResetOver
  /\ ResetOver => AllGone

\* BufInv with the used counter also in a reset.
Counted(f, status) == Cardinality({b \in Bufs : f[b] = status})
Owned ==
  /\ \A a \in Actors : out[a].buf # 0 => buf[out[a].buf] = "INUSE" /\ out[a].buf # rx.buf
  /\ \A a, b \in Actors : out[a].buf # 0 /\ out[a].buf = out[b].buf => a = b
  /\ rx.buf # 0 => buf[rx.buf] = "INUSE"
PoolInv ==
  /\ usedNr = Counted(buf, "USED")
  /\ ~ResetOver => freeNr = Counted(buf, "FREE") /\ Owned

\* A socket from its allocation to uip_tcp_socket_close, and the sockets that frames name.
SockInv ==
  \A s \in Socks :
    /\ sk[s].at = "none" => sk[s] = FreshSock
    /\ sk[s].at = "freed" => sk[s].thread = "exited"
    /\ sk[s].rdone => sk[s].thread = "exited"
    /\ out[s].pc # "off" => sk[s].thread \in {"send", "fin"}
FrameInv == \A a \in Actors : out[a].fr.kind = "tcp" => sk[out[a].fr.sk].at # "none"
ListInv ==
  /\ \A s \in Socks : sk[s].at = "listed" <=> \E i \in 1 .. Len(list) : list[i] = s
  /\ \A i, j \in 1 .. Len(list) : list[i] = list[j] => i = j

\* The transmit thread: the socket it works on is listed, and has no thread yet while
\* its SYN is answered.
TxInv ==
  /\ tx.sk # 0 => sk[tx.sk].at = "listed"
  /\ tx.pc \in {"do_fin", "do_data", "send"} => tx.sk # 0
  /\ tx.pc \in {"syn", "ack", "data", "fin"} => tx.kind = tx.pc
  /\ tx.pc = "do_fin" => tx.kind = "fin"
  /\ tx.pc = "do_data" => tx.kind = "data"
  /\ tx.pc = "send" /\ tx.kind = "syn" => sk[tx.sk].thread = "none"

\* What the host's socket has taken of the guest, in sequence numbers.
HasTaken(r) == 1 + r.written + (IF r.wdone THEN 1 ELSE 0)
AckInv ==
  /\ \A s \in Socks : sk[s].ack = HasTaken(sk[s])
  /\ \A b \in Bufs : frame[b].kind = "tcp" => frame[b].ack <= HasTaken(sk[frame[b].sk])
  /\ \A a \in Actors : out[a].fr.kind = "tcp" => out[a].fr.ack <= HasTaken(sk[out[a].fr.sk])

\* How far a reset has come, and what it has stopped.
StopFrom == <<<<"rx", "tx", "udp", "tcp", "free">>, <<"tx", "udp", "tcp", "free">>,
              <<"udp", "tcp", "free">>, <<"tcp", "free">>, <<"free">>>>
Stopping(i) == stop = StopFrom[i]
StopInv ==
  /\ stop = <<>> \/ \E i \in 1 .. 5 : Stopping(i)
  /\ rx.pc = "off" <=> ResetOver \/ \E i \in 2 .. 5 : Stopping(i)
  /\ tx.pc = "off" <=> ResetOver \/ \E i \in 3 .. 5 : Stopping(i)
  /\ ResetOver \/ (\E i \in 4 .. 5 : Stopping(i)) => udp = "none"
  /\ ResetOver \/ Stopping(5) => list = <<>>
  /\ tx.pc = "off" => out[TxThread].pc = "off"
  /\ out[UdpThread].pc # "off" => udp = "send"

UipIInv ==
  /\ UipTypes /\ OutInv /\ GoneInv /\ PoolInv /\ SockInv /\ FrameInv /\ ListInv /\ TxInv
  /\ AckInv /\ StopInv

\* A non-empty set of numbers has a least one.
LEMMA LeastOf ==
  ASSUME NEW S \in SUBSET Nat, S # {}
  PROVE  \E x \in S : \A y \in S : x <= y
<1> DEFINE R == {ss \in Nat \X Nat : ss[1] < ss[2]}
<1>1. IsWellFoundedOn(R, Nat)
  BY NatLessThanWellFounded, Zenon DEF OpToRel
<1>2. \A x, y \in Nat : x < y => <<x, y>> \in R
  OBVIOUS
<1> HIDE DEF R
<1>3. PICK x \in S : \A y \in S : ~(<<y, x>> \in R)
  BY <1>1, WFMin, Zenon
<1>4. \A y \in S : ~(y < x)
  BY <1>2, <1>3
<1> QED
  BY <1>3, <1>4

\* The names of buffers and threads.
LEMMA Names ==
  /\ IsFiniteSet(Bufs) /\ Bufs \subseteq Nat \ {0} /\ Cardinality(Bufs) \in Nat
  /\ Socks \subseteq Nat \ {0} /\ Socks \subseteq Actors
  /\ TxThread = 0 /\ TxThread \in Actors /\ TxThread \notin Socks
  /\ UdpThread \in Actors /\ UdpThread \notin Socks /\ UdpThread # TxThread
  /\ MaxWin \in Nat
<1>1. Cardinality(Bufs) \in Nat /\ Cardinality(Socks) \in Nat
  BY UipAssumption, FS_CardinalityType
<1> QED
  BY <1>1, UipAssumption DEF Actors, TxThread, UdpThread

\* The buffer that a search of the pool finds.
LEMMA FirstFound ==
  ASSUME NEW status, \E b \in Bufs : buf[b] = status
  PROVE  FirstWith(status) \in Bufs /\ buf[FirstWith(status)] = status
<1> DEFINE S == {b \in Bufs : buf[b] = status}
<1>1. S \in SUBSET Nat /\ S # {}
  BY Names
<1>2. PICK b \in S : \A c \in S : b <= c
  <2> HIDE DEF S
  <2> QED BY <1>1, LeastOf
<1>3. \E c \in Bufs : buf[c] = status /\ \A d \in Bufs : buf[d] = status => c <= d
  BY <1>2
<1> QED
  BY <1>3 DEF FirstWith

\* How the counters of the pool follow one buffer.
LEMMA CountNat ==
  ASSUME NEW f, NEW status
  PROVE  Counted(f, status) \in Nat
<1>1. IsFiniteSet({b \in Bufs : f[b] = status})
  BY Names, FS_Subset
<1> QED
  BY <1>1, FS_CardinalityType DEF Counted

OthersKept(f, g, b) == \A c \in Bufs : c # b => g[c] = f[c]

\* Setting one buffer to a status it did not have adds one to that status's
\* count.
LEMMA CountUp ==
  ASSUME NEW f, NEW g, NEW b \in Bufs, NEW status, f[b] # status, g[b] = status,
         OthersKept(f, g, b)
  PROVE  Counted(g, status) = Counted(f, status) + 1
<1> DEFINE F == {c \in Bufs : f[c] = status}
           G == {c \in Bufs : g[c] = status}
<1>1. IsFiniteSet(F)
  BY Names, FS_Subset
<1>2. G = F \cup {b} /\ b \notin F
  BY DEF OthersKept
<1> HIDE DEF F, G
<1>3. Cardinality(G) = Cardinality(F) + 1
  BY <1>1, <1>2, FS_AddElement
<1> QED
  BY <1>3 DEF Counted, F, G

\* Taking a status from one buffer takes one from that status's count.
LEMMA CountDown ==
  ASSUME NEW f, NEW g, NEW b \in Bufs, NEW status, f[b] = status, g[b] # status,
         OthersKept(f, g, b)
  PROVE  Counted(g, status) = Counted(f, status) - 1
<1>1. OthersKept(g, f, b)
  BY DEF OthersKept
<1>2. Counted(f, status) = Counted(g, status) + 1
  BY <1>1, CountUp
<1>3. Counted(f, status) \in Nat /\ Counted(g, status) \in Nat
  BY CountNat
<1> QED
  BY <1>2, <1>3

\* A count stays where the same buffers have the status.
LEMMA CountSame ==
  ASSUME NEW f, NEW g, NEW status, \A c \in Bufs : f[c] = status <=> g[c] = status
  PROVE  Counted(g, status) = Counted(f, status)
<1>1. {b \in Bufs : f[b] = status} = {b \in Bufs : g[b] = status}
  OBVIOUS
<1> QED
  BY <1>1 DEF Counted

\* All buffers alike.
LEMMA CountAll ==
  ASSUME NEW f, NEW v, \A b \in Bufs : f[b] = v
  PROVE  /\ Counted(f, v) = Cardinality(Bufs)
         /\ \A status : status # v => Counted(f, status) = 0
<1>1. {b \in Bufs : f[b] = v} = Bufs
  OBVIOUS
<1>2. ASSUME NEW status, status # v PROVE Counted(f, status) = 0
  <2>1. {b \in Bufs : f[b] = status} = {}
    BY <1>2
  <2> QED
    BY <2>1, FS_EmptySet DEF Counted
<1> QED
  BY <1>1, <1>2 DEF Counted

\* What the host has taken is a positive number.
LEMMA TakenNat ==
  ASSUME NEW r \in SockStates
  PROVE  HasTaken(r) \in Nat /\ HasTaken(r) >= 1
<1>1. r.written \in Nat
  BY DEF SockStates
<1> QED
  BY <1>1 DEF HasTaken

\* The stages of a reset.
LEMMA StopOrder ==
  /\ ResetOrder = StopFrom[1]
  /\ \A i \in 1 .. 5 : StopFrom[i] # <<>> /\ Len(StopFrom[i]) = 6 - i
  /\ \A i \in 1 .. 4 : Tail(StopFrom[i]) = StopFrom[i + 1]
  /\ Tail(StopFrom[5]) = <<>>
  /\ Head(StopFrom[1]) = "rx" /\ Head(StopFrom[2]) = "tx" /\ Head(StopFrom[3]) = "udp"
  /\ Head(StopFrom[4]) = "tcp" /\ Head(StopFrom[5]) = "free"
<1>1. /\ StopFrom[1] = <<"rx", "tx", "udp", "tcp", "free">>
      /\ StopFrom[2] = <<"tx", "udp", "tcp", "free">>
      /\ StopFrom[3] = <<"udp", "tcp", "free">>
      /\ StopFrom[4] = <<"tcp", "free">>
      /\ StopFrom[5] = <<"free">>
  BY DEF StopFrom
<1>2. \A i \in 1 .. 5 : StopFrom[i] # <<>> /\ Len(StopFrom[i]) = 6 - i
  <2>1. Len(StopFrom[1]) = 5 /\ Len(StopFrom[2]) = 4 /\ Len(StopFrom[3]) = 3
    BY <1>1
  <2>2. Len(StopFrom[4]) = 2 /\ Len(StopFrom[5]) = 1 /\ Len(<<>>) = 0
    BY <1>1
  <2>3. ASSUME NEW i \in 1 .. 5 PROVE Len(StopFrom[i]) = 6 - i
    <3>1. i = 1 \/ i = 2 \/ i = 3 \/ i = 4 \/ i = 5
      OBVIOUS
    <3>2. 6 - 1 = 5 /\ 6 - 2 = 4 /\ 6 - 3 = 3 /\ 6 - 4 = 2 /\ 6 - 5 = 1
      OBVIOUS
    <3> QED
      BY <2>1, <2>2, <3>1, <3>2, Zenon
  <2>4. ASSUME NEW i \in 1 .. 5 PROVE StopFrom[i] # <<>>
    BY <2>2, <2>3
  <2> QED
    BY <2>3, <2>4
<1>3. \A i \in 1 .. 4 : Tail(StopFrom[i]) = StopFrom[i + 1]
  <2>1. Tail(StopFrom[1]) = StopFrom[2]
    BY <1>1
  <2>2. Tail(StopFrom[2]) = StopFrom[3]
    BY <1>1
  <2>3. Tail(StopFrom[3]) = StopFrom[4]
    BY <1>1
  <2>4. Tail(StopFrom[4]) = StopFrom[5]
    BY <1>1
  <2> QED
    BY <2>1, <2>2, <2>3, <2>4
<1>4. Tail(StopFrom[5]) = <<>>
  BY <1>1
<1> QED
  BY <1>1, <1>2, <1>3, <1>4 DEF ResetOrder

\* No two stages are the same.
LEMMA StagesDiffer ==
  ASSUME NEW i \in 1 .. 5, NEW j \in 1 .. 5, StopFrom[i] = StopFrom[j]
  PROVE  i = j
<1>1. 6 - i = 6 - j
  BY StopOrder
<1> QED
  BY <1>1

\* The step that a reset is about to take tells its stage.
LEMMA StageOf ==
  ASSUME StopInv
  PROVE  /\ Doing("rx") => Stopping(1) /\ stop # <<>>
         /\ Doing("tx") => Stopping(2) /\ stop # <<>>
         /\ Doing("udp") => Stopping(3) /\ stop # <<>>
         /\ Doing("tcp") => Stopping(4) /\ stop # <<>>
         /\ Doing("free") => Stopping(5) /\ stop # <<>>
<1>1. stop = <<>> \/ \E i \in 1 .. 5 : stop = StopFrom[i]
  BY DEF StopInv, Stopping
<1>2. 1 .. 5 = {1, 2, 3, 4, 5}
  OBVIOUS
<1>3. stop # <<>> => Stopping(1) \/ Stopping(2) \/ Stopping(3) \/ Stopping(4) \/ Stopping(5)
  BY <1>1, <1>2 DEF Stopping
<1> QED
  BY <1>3, StopOrder DEF Stopping, Doing

\* Steps of the threads leave a reset where it is.
LEMMA StopFrame ==
  ASSUME StopInv, stop' = stop, rx'.pc = "off" <=> rx.pc = "off", tx'.pc = "off" <=> tx.pc = "off",
         udp' = "none" \/ udp # "none" \/ tx.pc # "off",
         list' = <<>> \/ list # <<>> \/ tx.pc # "off",
         tx'.pc = "off" => out'[TxThread].pc = "off",
         out'[UdpThread].pc # "off" => udp' = "send"
  PROVE  StopInv' /\ (ResetOver' <=> ResetOver)
<1>1. ResetOver' <=> ResetOver
  BY DEF ResetOver
<1>2. \A i \in 1 .. 5 : Stopping(i)' <=> Stopping(i)
  BY DEF Stopping
<1>3. tx.pc # "off" => ~ResetOver /\ \A i \in 3 .. 5 : ~Stopping(i)
  BY DEF StopInv
<1>4. \A i \in 2 .. 5 : i \in 1 .. 5
  OBVIOUS
<1>5. \A i \in 3 .. 5 : i \in 1 .. 5
  OBVIOUS
<1>6. (\A i \in 4 .. 5 : i \in 1 .. 5 /\ i \in 3 .. 5) /\ 5 \in 1 .. 5 /\ 5 \in 3 .. 5
  OBVIOUS
<1> HIDE DEF ResetOver, Stopping
<1>7. stop' = <<>> \/ \E i \in 1 .. 5 : Stopping(i)'
  BY <1>2 DEF StopInv
<1>8. rx'.pc = "off" <=> ResetOver' \/ \E i \in 2 .. 5 : Stopping(i)'
  BY <1>1, <1>2, <1>4 DEF StopInv
<1>9. tx'.pc = "off" <=> ResetOver' \/ \E i \in 3 .. 5 : Stopping(i)'
  BY <1>1, <1>2, <1>5 DEF StopInv
<1>10. ResetOver' \/ (\E i \in 4 .. 5 : Stopping(i)') => udp' = "none"
  BY <1>1, <1>2, <1>3, <1>6 DEF StopInv
<1>11. ResetOver' \/ Stopping(5)' => list' = <<>>
  BY <1>1, <1>2, <1>3, <1>6 DEF StopInv
<1> QED
  BY <1>1, <1>7, <1>8, <1>9, <1>10, <1>11, Zenon DEF StopInv

\* Steps that leave the pool alone.
LEMMA PoolFrame ==
  ASSUME GoneInv, PoolInv, UNCHANGED <<buf, usedNr, freeNr>>, ResetOver' <=> ResetOver,
         rx'.buf = rx.buf, \A a \in Actors : out'[a].buf = 0 \/ out'[a].buf = out[a].buf
  PROVE  GoneInv' /\ PoolInv'
<1>1. GoneInv'
  BY DEF GoneInv, AllGone
<1>2. Owned => Owned'
  BY DEF Owned
<1>3. Counted(buf, "USED")' = Counted(buf, "USED") /\ Counted(buf, "FREE")' = Counted(buf, "FREE")
  BY CountSame DEF Counted
<1> QED
  BY <1>1, <1>2, <1>3 DEF PoolInv

\* The types of the fields of a TCP frame.
LEMMA TcpFrame ==
  ASSUME NEW fr \in Frames, fr.kind = "tcp"
  PROVE  fr \in TcpFrames /\ fr.sk \in Socks /\ fr.ack \in Int /\ fr.len \in Int
<1>1. fr \notin [kind : {"none", "answered", "arp_other", "udp"}]
  OBVIOUS
<1> QED
  BY <1>1 DEF Frames, TcpFrames

\* What is acknowledged was taken, and stays so.
LEMMA AckFrame ==
  ASSUME UipTypes, UipTypes', AckInv,
         \A s \in Socks : HasTaken(sk[s]) <= HasTaken(sk'[s]) /\ sk'[s].ack = HasTaken(sk'[s]),
         \A b \in Bufs : \/ frame'[b] = frame[b]
                         \/ frame'[b].kind # "tcp"
                         \/ \E a \in Actors : frame'[b] = out[a].fr,
         \A a \in Actors : \/ out'[a].fr = out[a].fr
                           \/ out'[a].fr.kind # "tcp"
                           \/ out'[a].fr.ack <= HasTaken(sk'[out'[a].fr.sk])
  PROVE  AckInv'
<1>1. ASSUME NEW fr \in Frames, fr.kind = "tcp", fr.ack <= HasTaken(sk[fr.sk])
      PROVE  fr.ack <= HasTaken(sk'[fr.sk])
  <2>1. fr.sk \in Socks /\ fr.ack \in Int
    BY <1>1, TcpFrame
  <2>2. sk[fr.sk] \in SockStates /\ sk'[fr.sk] \in SockStates
    BY <2>1 DEF UipTypes
  <2>3. HasTaken(sk[fr.sk]) \in Nat /\ HasTaken(sk'[fr.sk]) \in Nat
    BY <2>2, TakenNat
  <2> QED
    BY <1>1, <2>1, <2>3
<1>2. ASSUME NEW b \in Bufs, frame'[b].kind = "tcp"
      PROVE  frame'[b].ack <= HasTaken(sk'[frame'[b].sk])
  <2>1. frame[b] \in Frames
    BY DEF UipTypes
  <2>2. \A a \in Actors : out[a].fr \in Frames
    BY DEF UipTypes, OutStates
  <2>3. CASE frame'[b] = frame[b]
    BY <1>1, <1>2, <2>1, <2>3 DEF AckInv
  <2>4. CASE \E a \in Actors : frame'[b] = out[a].fr
    BY <1>1, <1>2, <2>2, <2>4 DEF AckInv
  <2> QED
    BY <1>2, <2>3, <2>4
<1>3. ASSUME NEW a \in Actors, out'[a].fr.kind = "tcp"
      PROVE  out'[a].fr.ack <= HasTaken(sk'[out'[a].fr.sk])
  <2>1. out[a].fr \in Frames
    BY DEF UipTypes, OutStates
  <2>2. CASE out'[a].fr = out[a].fr
    BY <1>1, <1>3, <2>1, <2>2 DEF AckInv
  <2> QED
    BY <1>3, <2>2
<1> QED
  BY <1>2, <1>3 DEF AckInv

\* A thread has let its frame go, or is about to ask for a buffer.
Afresh(o, f) ==
  /\ o.buf = 0 /\ o.pc \in {"off", "get"}
  /\ o.fr.kind = "tcp" => o.fr.ack = 0 /\ f[o.fr.sk].at # "none"
Goes(f, g) ==
  /\ HasTaken(f) <= HasTaken(g) /\ g.ack = HasTaken(g)
  /\ f.at # "none" => g.at # "none"

\* Steps of the threads between the buffers.
LEMMA ThreadFrame ==
  ASSUME UipIInv, UipTypes', UNCHANGED <<buf, frame, freeNr, usedNr, rx, stop>>,
         \A a \in Actors : out'[a] = out[a] \/ Afresh(out'[a], sk'),
         \A s \in Socks : Goes(sk[s], sk'[s])
  PROVE  OutInv' /\ GoneInv' /\ PoolInv' /\ FrameInv' /\ AckInv'
<1> USE DEF UipIInv
<1>0. FrameInv'
  <2> SUFFICES ASSUME NEW a \in Actors, out'[a].fr.kind = "tcp" PROVE sk'[out'[a].fr.sk].at # "none"
    BY DEF FrameInv
  <2>1. CASE out'[a] = out[a]
    <3>1. out[a].fr \in Frames
      BY DEF UipTypes, OutStates
    <3>2. out[a].fr.sk \in Socks
      BY <2>1, <3>1, TcpFrame
    <3> QED
      BY <2>1, <3>2 DEF FrameInv, Goes
  <2>2. CASE Afresh(out'[a], sk')
    BY <2>2 DEF Afresh
  <2> QED
    BY <2>1, <2>2
<1>1. OutInv'
  <2>1. \A a \in Actors : Cooks(a)' <=> out'[a].buf # 0
    BY DEF OutInv, Cooks, Afresh
  <2>2. \A a \in Actors : out'[a].pc = "store" => out'[a].fr.kind = "tcp"
    BY DEF OutInv, Afresh
  <2> QED
    BY <2>1, <2>2 DEF OutInv
<1>2. GoneInv' /\ PoolInv'
  <2>1. ResetOver' <=> ResetOver
    BY DEF ResetOver
  <2>2. \A a \in Actors : out'[a].buf = 0 \/ out'[a].buf = out[a].buf
    BY DEF Afresh
  <2> QED
    BY <2>1, <2>2, PoolFrame
<1>3. AckInv'
  <2>1. \A a \in Actors : \/ out'[a].fr = out[a].fr
                          \/ out'[a].fr.kind # "tcp"
                          \/ out'[a].fr.ack <= HasTaken(sk'[out'[a].fr.sk])
    <3> SUFFICES ASSUME NEW a \in Actors, Afresh(out'[a], sk'), out'[a].fr.kind = "tcp"
                 PROVE  out'[a].fr.ack <= HasTaken(sk'[out'[a].fr.sk])
      BY Zenon
    <3>1. out'[a].fr \in Frames
      BY DEF UipTypes, OutStates
    <3>2. sk'[out'[a].fr.sk] \in SockStates
      BY <3>1, TcpFrame DEF UipTypes
    <3> QED
      BY <3>2, TakenNat DEF Afresh
  <2>2. \A b \in Bufs : frame'[b] = frame[b]
    OBVIOUS
  <2> QED
    BY <2>1, <2>2, AckFrame DEF Goes
<1> QED
  BY <1>0, <1>1, <1>2, <1>3

\* At the end of a reset no thread has a buffer.
LEMMA NobodyHolds ==
  ASSUME UipIInv, ResetOver \/ Stopping(5)
  PROVE  /\ \A a \in Actors : out[a].pc = "off" /\ out[a].buf = 0
         /\ rx.pc = "off" /\ rx.buf = 0 /\ tx.pc = "off" /\ udp = "none" /\ list = <<>>
<1> USE DEF UipIInv
<1>1. rx.pc = "off" /\ tx.pc = "off" /\ udp = "none" /\ list = <<>>
  <2>1. 5 \in 2 .. 5 /\ 5 \in 3 .. 5 /\ 5 \in 4 .. 5
    OBVIOUS
  <2> QED
    BY <2>1 DEF StopInv
<1>2. rx.buf = 0
  BY <1>1 DEF OutInv
<1>3. ASSUME NEW s \in Socks PROVE out[s].pc = "off"
  <2>1. Len(list) = 0
    BY <1>1
  <2>2. sk[s].at # "listed"
    BY <2>1 DEF ListInv
  <2>3. sk[s].at \in {"none", "freed"}
    BY <2>2 DEF UipTypes, SockStates
  <2>4. sk[s].thread \in {"none", "exited"}
    BY <2>3 DEF SockInv, FreshSock
  <2> QED
    BY <2>4 DEF SockInv
<1>4. \A a \in Actors : out[a].pc = "off"
  BY <1>1, <1>3 DEF StopInv, Actors
<1>5. \A a \in Actors : out[a].buf = 0
  BY <1>4 DEF OutInv, Cooks
<1> QED
  BY <1>1, <1>2, <1>4, <1>5

\* uip_buf_set_used of a thread that has a buffer.
LEMMA PoolUsed ==
  ASSUME UipIInv, NEW a \in Actors, Cooks(a), NEW b, b = out[a].buf,
         \A c \in Bufs : buf'[c] = IF c = b THEN "USED" ELSE buf[c],
         usedNr' = usedNr + 1, UNCHANGED <<freeNr, rx, stop>>,
         \A c \in Actors : out'[c].buf = IF c = a THEN 0 ELSE out[c].buf
  PROVE  GoneInv' /\ PoolInv' /\ b \in Bufs
<1> USE DEF UipIInv
<1>1. ~ResetOver /\ ~ResetOver'
  <2>1. ~ResetOver
    BY NobodyHolds DEF Cooks
  <2> QED
    BY <2>1 DEF ResetOver
<1>2. b \in Bufs /\ b # 0 /\ buf[b] = "INUSE" /\ b # rx.buf
  BY <1>1 DEF UipTypes, OutStates, OutInv, PoolInv, Owned
<1>3. GoneInv'
  BY <1>1, <1>2 DEF GoneInv, AllGone
<1>4. Counted(buf', "USED") = Counted(buf, "USED") + 1
  <2>1. OthersKept(buf, buf', b) /\ buf[b] # "USED" /\ buf'[b] = "USED"
    BY <1>2 DEF OthersKept
  <2> QED
    BY <1>2, <2>1, CountUp
<1>5. Counted(buf', "FREE") = Counted(buf, "FREE")
  BY <1>2, CountSame
<1>6. Owned'
  <2>1. \A c \in Actors : out'[c].buf # 0 => out[c].buf \in Bufs /\ out'[c].buf = out[c].buf /\ c # a
    BY DEF UipTypes, OutStates
  <2>2. \A c \in Actors : out'[c].buf # 0 => out[c].buf # b
    BY <1>1, <1>2, <2>1 DEF PoolInv, Owned
  <2>3. \A c \in Actors : out'[c].buf # 0 => buf'[out'[c].buf] = "INUSE" /\ out'[c].buf # rx'.buf
    BY <1>1, <2>1, <2>2 DEF PoolInv, Owned
  <2>4. \A c, d \in Actors : out'[c].buf # 0 /\ out'[c].buf = out'[d].buf => c = d
    BY <1>1, <2>1 DEF PoolInv, Owned
  <2>5. rx'.buf # 0 => buf'[rx'.buf] = "INUSE"
    BY <1>1, <1>2 DEF PoolInv, Owned, UipTypes
  <2> QED
    BY <2>3, <2>4, <2>5 DEF Owned
<1> QED
  BY <1>1, <1>2, <1>3, <1>4, <1>5, <1>6 DEF PoolInv

\* GetFree keeps UipIInv.
LEMMA GetFreeKept == ASSUME UipIInv, NEW a \in Actors, GetFree(a) PROVE UipIInv'
<1> USE DEF UipIInv
<1>1. PICK b \in Bufs : /\ buf[b] = "FREE"
                        /\ buf' = [buf EXCEPT ![b] = "INUSE"]
                        /\ out' = [out EXCEPT ![a].pc = "fill", ![a].buf = b]
  BY FirstFound DEF GetFree, Taken
<1>2. /\ out[a].pc = "get" /\ freeNr' = freeNr - 1
      /\ UNCHANGED <<frame, usedNr, sk, list, udp, tx, rx, guest, stop>>
  BY DEF GetFree
<1>3. out \in [Actors -> OutStates] /\ buf \in [Bufs -> {"FREE", "INUSE", "USED", "GONE"}]
  BY DEF UipTypes
<1>4. /\ \A c \in Actors : c # a => out'[c] = out[c]
      /\ out'[a].pc = "fill" /\ out'[a].buf = b /\ out'[a].fr = out[a].fr /\ out'[a].reg = out[a].reg
      /\ out' \in [Actors -> OutStates]
  BY <1>1, <1>3 DEF OutStates
<1>5. buf' \in [Bufs -> {"FREE", "INUSE", "USED", "GONE"}] /\ \A c \in Bufs : buf'[c] = IF c = b THEN "INUSE" ELSE buf[c]
  BY <1>1, <1>3
<1>6. UipTypes'
  BY <1>2, <1>4, <1>5 DEF UipTypes
<1>7. ~ResetOver /\ ~ResetOver'
  BY <1>1, <1>2 DEF GoneInv, AllGone, ResetOver
<1>8. OutInv'
  <2>1. b # 0
    BY Names
  <2> QED
    BY <1>2, <1>4, <2>1 DEF OutInv, Cooks
<1>9. GoneInv'
  BY <1>1, <1>5, <1>7 DEF GoneInv, AllGone
<1>10. PoolInv'
  <2>1. Counted(buf', "USED") = Counted(buf, "USED")
    BY <1>1, <1>5, CountSame
  <2>2. Counted(buf', "FREE") = Counted(buf, "FREE") - 1
    <3>1. OthersKept(buf, buf', b) /\ buf[b] = "FREE" /\ buf'[b] # "FREE"
      BY <1>1, <1>5 DEF OthersKept
    <3> QED
      BY <3>1, CountDown
  <2>3. Owned'
    <3>1. Owned
      BY <1>7 DEF PoolInv
    <3>2. \A c \in Actors : out[c].buf # b
      BY <1>1, <3>1, Names DEF Owned
    <3>3. rx.buf # b
      BY <1>1, <3>1, Names DEF Owned
    <3>4. \A c \in Actors : out'[c].buf # 0 =>
            buf'[out'[c].buf] = "INUSE" /\ out'[c].buf # rx'.buf
      <4>1. \A c \in Actors : out[c].buf # 0 => out[c].buf \in Bufs
        BY <1>3 DEF OutStates
      <4> QED
        BY <1>2, <1>4, <1>5, <3>1, <3>2, <3>3, <4>1 DEF Owned
    <3>5. \A c, d \in Actors : out'[c].buf # 0 /\ out'[c].buf = out'[d].buf => c = d
      BY <1>4, <3>1, <3>2 DEF Owned
    <3>6. rx'.buf # 0 => buf'[rx'.buf] = "INUSE"
      BY <1>2, <1>5, <3>1, <3>3 DEF Owned, UipTypes
    <3> QED
      BY <3>4, <3>5, <3>6 DEF Owned
  <2> QED
    BY <1>2, <1>7, <2>1, <2>2, <2>3 DEF PoolInv
<1>11. SockInv' /\ ListInv' /\ TxInv'
  <2>1. \A s \in Socks : out'[s].pc # "off" => out[s].pc # "off"
    BY <1>2, <1>4, Names
  <2> QED
    BY <1>2, <2>1 DEF SockInv, ListInv, TxInv
<1>12. AckInv' /\ FrameInv'
  <2>1. \A c \in Actors : out'[c].fr = out[c].fr
    BY <1>4
  <2> QED
    BY <1>2, <2>1 DEF AckInv, FrameInv
<1>13. StopInv'
  <2>1. out'[TxThread].pc = "off" <=> out[TxThread].pc = "off"
    BY <1>2, <1>4, Names
  <2>2. out'[UdpThread].pc # "off" => out[UdpThread].pc # "off"
    BY <1>2, <1>4, Names
  <2> QED
    BY <1>2, <2>1, <2>2, StopFrame DEF StopInv
<1> QED
  BY <1>6, <1>8, <1>9, <1>10, <1>11, <1>12, <1>13

\* A step of another thread than the socket's leaves most of the socket alone.
KeepsSock(f, g) ==
  /\ g.at = f.at /\ g.thread = f.thread /\ g.wdone = f.wdone /\ g.rdone = f.rdone
  /\ g.ack = f.ack /\ g.written = f.written /\ (f.at = "none" => g = f)

\* A step that leaves what the socket invariants read leaves them true.
LEMMA SockFrame ==
  ASSUME SockInv, ListInv, TxInv, UNCHANGED <<list, tx>>, \A s \in Socks : KeepsSock(sk[s], sk'[s]),
         \A s \in Socks : out'[s].pc = out[s].pc \/ (out[s].pc # "off" /\ out'[s].pc # "off"),
         tx.sk # 0 => tx.sk \in Socks
  PROVE  SockInv' /\ ListInv' /\ TxInv'
<1>1. SockInv'
  BY DEF SockInv, KeepsSock
<1>2. ListInv'
  BY DEF ListInv, KeepsSock
<1>3. TxInv'
  BY DEF TxInv, KeepsSock
<1> QED
  BY <1>1, <1>2, <1>3

\* A socket whose acknowledgement fields are kept acknowledges what it has
\* taken, as before.
LEMMA KeepsGoes ==
  ASSUME AckInv, NEW s \in Socks, NEW g, KeepsSock(sk[s], g), sk[s] \in SockStates
  PROVE  Goes(sk[s], g) /\ HasTaken(g) = HasTaken(sk[s])
<1>1. HasTaken(g) = HasTaken(sk[s])
  BY DEF HasTaken, KeepsSock
<1>2. HasTaken(sk[s]) \in Nat
  BY TakenNat
<1> QED
  BY <1>1, <1>2 DEF Goes, KeepsSock, AckInv

\* Fill keeps UipIInv.
LEMMA FillKept == ASSUME UipIInv, NEW a \in Actors, Fill(a) PROVE UipIInv'
<1> USE DEF UipIInv
<1> DEFINE s == out[a].fr.sk
<1>1. /\ out[a].pc = "fill" /\ out[a].fr.kind = "tcp"
      /\ out' = [out EXCEPT ![a].fr.seq = sk[s].seq, ![a].fr.ack = sk[s].ack,
                            ![a].fr.off = sk[s].off, ![a].reg = sk[s].seq, ![a].pc = "store"]
      /\ sk' = [sk EXCEPT ![s].off = @ + out[a].fr.len]
      /\ UNCHANGED <<buf, frame, freeNr, usedNr, list, udp, tx, rx, guest, stop>>
  BY DEF Fill
<1>2. out[a] \in OutStates /\ out[a].fr \in TcpFrames /\ s \in Socks /\ out \in [Actors -> OutStates]
  BY <1>1, TcpFrame DEF UipTypes, OutStates
<1>3. sk[s] \in SockStates /\ sk[s].seq \in Int /\ sk[s].ack \in Int /\ sk[s].off \in Int /\ out[a].fr.len \in Int
  BY <1>2 DEF UipTypes, SockStates, TcpFrames
<1>4. /\ sk' \in [Socks -> SockStates]
      /\ \A r \in Socks : r # s => sk'[r] = sk[r]
      /\ sk'[s] = [sk[s] EXCEPT !.off = sk[s].off + out[a].fr.len]
  <2>1. sk \in [Socks -> SockStates]
    BY DEF UipTypes
  <2>2. [sk[s] EXCEPT !.off = sk[s].off + out[a].fr.len] \in SockStates
    BY <1>3 DEF SockStates
  <2> HIDE DEF s
  <2> QED
    BY <1>1, <1>2, <2>1, <2>2
<1>5. sk[s].at # "none"
  BY <1>1 DEF FrameInv
<1>6. \A r \in Socks : KeepsSock(sk[r], sk'[r])
  BY <1>2, <1>3, <1>4, <1>5 DEF KeepsSock, SockStates
<1>7. /\ \A c \in Actors : c # a => out'[c] = out[c]
      /\ out'[a].pc = "store" /\ out'[a].buf = out[a].buf
      /\ out'[a].fr = [out[a].fr EXCEPT !.seq = sk[s].seq, !.ack = sk[s].ack, !.off = sk[s].off]
      /\ out'[a] = [pc |-> "store", buf |-> out[a].buf, fr |-> out'[a].fr, reg |-> sk[s].seq]
      /\ out' = [c \in Actors |-> out'[c]]
  BY <1>1, <1>2 DEF OutStates
<1>8. out'[a].fr \in TcpFrames /\ out'[a].fr.ack = sk[s].ack /\ out'[a].fr.sk = s /\ out'[a].fr.kind = "tcp"
  BY <1>2, <1>3, <1>7 DEF TcpFrames
<1>9. out' \in [Actors -> OutStates]
  <2>1. out'[a] \in OutStates
    BY <1>2, <1>3, <1>7, <1>8 DEF OutStates, Frames
  <2> QED
    BY <1>2, <1>7, <2>1
<1>10. UipTypes'
  BY <1>1, <1>4, <1>9 DEF UipTypes
<1>11. OutInv'
  <2>1. \A c \in Actors : Cooks(c)' <=> Cooks(c)
    BY <1>1, <1>7 DEF Cooks
  <2>2. \A c \in Actors : out'[c].buf = out[c].buf
    BY <1>7
  <2>3. \A c \in Actors : out'[c].pc = "store" => out'[c].fr.kind = "tcp"
    BY <1>7, <1>8 DEF OutInv
  <2> QED
    BY <1>1, <2>1, <2>2, <2>3 DEF OutInv
<1>12. SockInv' /\ ListInv' /\ TxInv'
  <2>1. \A r \in Socks : out'[r].pc = out[r].pc \/ (out[r].pc # "off" /\ out'[r].pc # "off")
    BY <1>1, <1>7, Names
  <2>2. tx.sk # 0 => tx.sk \in Socks
    BY DEF UipTypes
  <2> QED
    BY <1>1, <1>6, <2>1, <2>2, SockFrame
<1>13. StopInv' /\ (ResetOver' <=> ResetOver)
  <2>1. out'[TxThread].pc = "off" <=> out[TxThread].pc = "off"
    BY <1>1, <1>7, Names
  <2>2. out'[UdpThread].pc # "off" => out[UdpThread].pc # "off"
    BY <1>1, <1>7, Names
  <2> QED
    BY <1>1, <2>1, <2>2, StopFrame DEF StopInv
<1>14. GoneInv' /\ PoolInv'
  <2>1. \A c \in Actors : out'[c].buf = out[c].buf
    BY <1>7
  <2> QED
    BY <1>1, <1>13, <2>1, PoolFrame
<1>15. FrameInv'
  <2> SUFFICES ASSUME NEW c \in Actors, out'[c].fr.kind = "tcp" PROVE sk'[out'[c].fr.sk].at # "none"
    BY DEF FrameInv
  <2>1. out'[c].fr.sk = out[c].fr.sk /\ out[c].fr.kind = "tcp"
    BY <1>1, <1>7, <1>8
  <2>2. out[c].fr.sk \in Socks
    BY <2>1, TcpFrame DEF UipTypes, OutStates
  <2> QED
    BY <1>6, <2>1, <2>2 DEF FrameInv, KeepsSock
<1>16. AckInv'
  <2>1. \A r \in Socks : HasTaken(sk'[r]) = HasTaken(sk[r]) /\ Goes(sk[r], sk'[r])
    BY <1>6, KeepsGoes DEF UipTypes
  <2>2. sk[s].ack = HasTaken(sk'[s])
    BY <1>2, <2>1 DEF AckInv
  <2>3. HasTaken(sk'[s]) \in Nat
    BY <1>2, <1>4, TakenNat
  <2>4. out'[a].fr.ack <= HasTaken(sk'[out'[a].fr.sk])
    BY <1>8, <2>2, <2>3
  <2> HIDE DEF s
  <2> QED
    BY <1>1, <1>7, <1>10, <2>1, <2>4, AckFrame DEF Goes
<1> QED
  BY <1>10, <1>11, <1>12, <1>13, <1>14, <1>15, <1>16

\* SeqStore keeps UipIInv.
LEMMA SeqStoreKept == ASSUME UipIInv, NEW a \in Actors, SeqStore(a) PROVE UipIInv'
<1> USE DEF UipIInv
<1> DEFINE s == out[a].fr.sk
           b == out[a].buf
<1>1. /\ out[a].pc = "store"
      /\ sk' = [sk EXCEPT ![s].seq = out[a].reg + out[a].fr.len] \/ sk' = sk
      /\ buf' = [buf EXCEPT ![b] = "USED"] /\ frame' = [frame EXCEPT ![b] = out[a].fr]
      /\ usedNr' = usedNr + 1
      /\ out' = [out EXCEPT ![a] = [Quiet EXCEPT !.pc = "sent"]]
      /\ UNCHANGED <<freeNr, list, udp, tx, rx, guest, stop>>
  BY DEF SeqStore, SetUsed
<1>2. out[a].fr.kind = "tcp" /\ Cooks(a)
  BY <1>1 DEF OutInv, Cooks
<1>3. /\ out \in [Actors -> OutStates] /\ buf \in [Bufs -> {"FREE", "INUSE", "USED", "GONE"}]
      /\ frame \in [Bufs -> Frames] /\ sk \in [Socks -> SockStates]
  BY DEF UipTypes
<1>4. out[a].fr \in Frames /\ s \in Socks /\ out[a].reg \in Int /\ out[a].fr.len \in Int /\ sk[s] \in SockStates
  BY <1>2, <1>3, TcpFrame DEF OutStates
<1>5. /\ sk' \in [Socks -> SockStates]
      /\ \A r \in Socks : r # s => sk'[r] = sk[r]
      /\ sk'[s] = [sk[s] EXCEPT !.seq = out[a].reg + out[a].fr.len] \/ sk'[s] = sk[s]
  <2>1. [sk[s] EXCEPT !.seq = out[a].reg + out[a].fr.len] \in SockStates
    BY <1>4 DEF SockStates
  <2> HIDE DEF s
  <2> QED
    BY <1>1, <1>3, <1>4, <2>1
<1>6. \A r \in Socks : KeepsSock(sk[r], sk'[r])
  <2>1. sk[s].at # "none"
    BY <1>2 DEF FrameInv
  <2>2. KeepsSock(sk[s], sk'[s])
    BY <1>4, <1>5, <2>1 DEF KeepsSock, SockStates
  <2>3. \A r \in Socks : KeepsSock(sk[r], sk[r])
    BY DEF KeepsSock
  <2> HIDE DEF s
  <2> QED
    BY <1>5, <2>2, <2>3
<1>7. /\ \A c \in Actors : c # a => out'[c] = out[c]
      /\ out'[a].pc = "sent" /\ out'[a].buf = 0 /\ out'[a].fr.kind = "none"
      /\ out' \in [Actors -> OutStates]
  <2>1. [Quiet EXCEPT !.pc = "sent"] = [pc |-> "sent", buf |-> 0, fr |-> NoFrame, reg |-> 0]
    BY DEF Quiet
  <2>2. [pc |-> "sent", buf |-> 0, fr |-> NoFrame, reg |-> 0] \in OutStates
    BY DEF OutStates, NoFrame, Frames
  <2> QED
    BY <1>1, <1>3, <2>1, <2>2 DEF NoFrame
<1>8. b \in Bufs /\ GoneInv' /\ PoolInv'
  <2>1. \A c \in Actors : out'[c].buf = IF c = a THEN 0 ELSE out[c].buf
    BY <1>7
  <2>2. \A c \in Bufs : buf'[c] = IF c = b THEN "USED" ELSE buf[c]
    BY <1>1, <1>3
  <2> QED
    BY <1>1, <1>2, <2>1, <2>2, PoolUsed
<1>9. /\ buf' \in [Bufs -> {"FREE", "INUSE", "USED", "GONE"}] /\ frame' \in [Bufs -> Frames]
      /\ \A c \in Bufs : frame'[c] = IF c = b THEN out[a].fr ELSE frame[c]
  BY <1>1, <1>3, <1>4
<1>10. UipTypes'
  <2>1. usedNr' \in Int
    BY <1>1 DEF UipTypes
  <2> QED
    BY <1>1, <1>5, <1>7, <1>9, <2>1 DEF UipTypes
<1>11. OutInv'
  <2>1. \A c \in Actors : Cooks(c)' <=> out'[c].buf # 0
    BY <1>7 DEF Cooks, OutInv
  <2>2. \A c \in Actors : out'[c].pc = "store" => out'[c].fr.kind = "tcp"
    BY <1>7 DEF OutInv
  <2> QED
    BY <1>1, <2>1, <2>2 DEF OutInv
<1>12. SockInv' /\ ListInv' /\ TxInv'
  <2>1. \A r \in Socks : out'[r].pc = out[r].pc \/ (out[r].pc # "off" /\ out'[r].pc # "off")
    BY <1>1, <1>7, Names
  <2>2. tx.sk # 0 => tx.sk \in Socks
    BY DEF UipTypes
  <2> QED
    BY <1>1, <1>6, <2>1, <2>2, SockFrame
<1>13. StopInv'
  <2>1. out'[TxThread].pc = "off" <=> out[TxThread].pc = "off"
    BY <1>1, <1>7, Names
  <2>2. out'[UdpThread].pc # "off" => out[UdpThread].pc # "off"
    BY <1>1, <1>7, Names
  <2> QED
    BY <1>1, <2>1, <2>2, StopFrame DEF StopInv
<1>14. FrameInv'
  <2> SUFFICES ASSUME NEW c \in Actors, out'[c].fr.kind = "tcp" PROVE sk'[out'[c].fr.sk].at # "none"
    BY DEF FrameInv
  <2>1. out'[c] = out[c]
    BY <1>7
  <2>2. out[c].fr.sk \in Socks
    BY <1>3, <2>1, TcpFrame DEF OutStates
  <2> QED
    BY <1>6, <2>1, <2>2 DEF FrameInv, KeepsSock
<1>15. AckInv'
  <2>1. \A r \in Socks : Goes(sk[r], sk'[r])
    BY <1>6, KeepsGoes DEF UipTypes
  <2>2. \A c \in Bufs : frame'[c] = frame[c] \/ \E d \in Actors : frame'[c] = out[d].fr
    BY <1>9
  <2>3. \A c \in Actors : out'[c].fr = out[c].fr \/ out'[c].fr.kind # "tcp"
    BY <1>7
  <2> QED
    BY <1>10, <2>1, <2>2, <2>3, AckFrame DEF Goes
<1> QED
  BY <1>8, <1>10, <1>11, <1>12, <1>13, <1>14, <1>15

\* The receive thread.
LEMMA RxTakeKept == ASSUME UipIInv, RxTake PROVE UipIInv'
<1> USE DEF UipIInv
<1>1. PICK b \in Bufs : /\ buf[b] = "USED"
                        /\ buf' = [buf EXCEPT ![b] = "INUSE"]
                        /\ rx' = [pc |-> "copy", buf |-> b]
  BY FirstFound DEF RxTake
<1>2. /\ rx.pc = "get" /\ usedNr' = usedNr - 1
      /\ UNCHANGED <<frame, freeNr, sk, list, udp, tx, out, guest, stop>>
  BY DEF RxTake
<1>3. /\ buf' \in [Bufs -> {"FREE", "INUSE", "USED", "GONE"}]
      /\ \A c \in Bufs : buf'[c] = IF c = b THEN "INUSE" ELSE buf[c]
  BY <1>1 DEF UipTypes
<1>4. UipTypes'
  <2>1. usedNr' \in Int /\ rx' \in [pc : {"get", "copy", "off"}, buf : Bufs \cup {0}]
    BY <1>1, <1>2 DEF UipTypes
  <2> QED
    BY <1>2, <1>3, <2>1 DEF UipTypes
<1>5. ~ResetOver /\ ~ResetOver' /\ b # 0 /\ rx.buf = 0
  BY <1>1, <1>2, Names DEF ResetOver, OutInv, UipTypes
<1>6. OutInv'
  BY <1>1, <1>2, <1>5 DEF OutInv, Cooks
<1>7. GoneInv'
  BY <1>1, <1>3, <1>5 DEF GoneInv, AllGone
<1>8. PoolInv'
  <2>1. Counted(buf', "FREE") = Counted(buf, "FREE")
    BY <1>1, <1>3, CountSame
  <2>2. Counted(buf', "USED") = Counted(buf, "USED") - 1
    <3>1. OthersKept(buf, buf', b) /\ buf[b] = "USED" /\ buf'[b] # "USED"
      BY <1>1, <1>3 DEF OthersKept
    <3> QED
      BY <3>1, CountDown
  <2>3. Owned'
    <3>1. \A c \in Actors : out[c].buf # 0 => out[c].buf \in Bufs /\ buf[out[c].buf] = "INUSE"
      BY <1>5 DEF PoolInv, Owned, UipTypes, OutStates
    <3>2. \A c \in Actors : out'[c].buf # 0 => buf'[out'[c].buf] = "INUSE" /\ out'[c].buf # rx'.buf
      BY <1>1, <1>2, <1>3, <3>1
    <3>3. \A c, d \in Actors : out'[c].buf # 0 /\ out'[c].buf = out'[d].buf => c = d
      BY <1>2, <1>5 DEF PoolInv, Owned
    <3>4. rx'.buf # 0 => buf'[rx'.buf] = "INUSE"
      BY <1>1, <1>3
    <3> QED
      BY <3>2, <3>3, <3>4 DEF Owned
  <2> QED
    BY <1>2, <1>5, <2>1, <2>2, <2>3 DEF PoolInv
<1>9. SockInv' /\ FrameInv' /\ ListInv' /\ TxInv' /\ AckInv'
  BY <1>2 DEF SockInv, FrameInv, ListInv, TxInv, AckInv
<1>10. StopInv'
  <2>1. rx'.pc = "off" <=> rx.pc = "off"
    BY <1>1, <1>2
  <2> QED
    BY <1>2, <2>1, StopFrame DEF StopInv
<1> QED
  BY <1>4, <1>6, <1>7, <1>8, <1>9, <1>10

\* RxGive keeps UipIInv.
LEMMA RxGiveKept == ASSUME UipIInv, RxGive PROVE UipIInv'
<1> USE DEF UipIInv
<1>1. PICK b : b = rx.buf
  OBVIOUS
<1>2. /\ rx.pc = "copy" /\ guest' = Receive(frame[b])
      /\ buf' = [buf EXCEPT ![b] = "FREE"] /\ frame' = [frame EXCEPT ![b] = NoFrame]
      /\ freeNr' = freeNr + 1 /\ rx' = [pc |-> "get", buf |-> 0]
      /\ UNCHANGED <<usedNr, sk, list, udp, tx, out, stop>>
  BY <1>1 DEF RxGive, Freed
<1>3. ~ResetOver /\ ~ResetOver' /\ b \in Bufs /\ b # 0
  BY <1>1, <1>2, Names DEF ResetOver, OutInv, UipTypes
<1>4. buf[b] = "INUSE" /\ \A c \in Actors : out[c].buf # b
  BY <1>1, <1>3 DEF PoolInv, Owned
<1>5. /\ buf' \in [Bufs -> {"FREE", "INUSE", "USED", "GONE"}] /\ frame' \in [Bufs -> Frames]
      /\ \A c \in Bufs : buf'[c] = IF c = b THEN "FREE" ELSE buf[c]
      /\ \A c \in Bufs : frame'[c] = IF c = b THEN NoFrame ELSE frame[c]
  <2>1. NoFrame \in Frames
    BY DEF NoFrame, Frames
  <2> QED
    BY <1>2, <1>3, <2>1 DEF UipTypes
<1>6. guest' \in [nxt : Int, stream : BOOLEAN]
  <2>1. guest \in [nxt : Int, stream : BOOLEAN] /\ frame[b] \in Frames
    BY <1>3 DEF UipTypes
  <2>2. CASE frame[b].kind = "tcp" /\ frame[b].seq = guest.nxt
    <3>1. frame[b].len \in Int
      BY <2>1, <2>2, TcpFrame
    <3>2. guest.nxt + frame[b].len + (IF frame[b].flag \in {"syn", "fin"} THEN 1 ELSE 0) \in Int
      BY <2>1, <3>1
    <3>3. (guest.stream /\ (frame[b].len > 0 => frame[b].off = frame[b].seq - 1)) \in BOOLEAN
      BY Zenon
    <3> QED
      BY <1>2, <2>2, <3>2, <3>3, Zenon DEF Receive
  <2>3. CASE ~(frame[b].kind = "tcp" /\ frame[b].seq = guest.nxt)
    BY <1>2, <2>1, <2>3 DEF Receive
  <2> QED
    BY <2>2, <2>3
<1>7. UipTypes'
  <2>1. freeNr' \in Int /\ rx' \in [pc : {"get", "copy", "off"}, buf : Bufs \cup {0}]
    BY <1>2 DEF UipTypes
  <2> QED
    BY <1>2, <1>5, <1>6, <2>1 DEF UipTypes
<1>8. OutInv'
  BY <1>2 DEF OutInv, Cooks
<1>9. GoneInv'
  BY <1>3, <1>5 DEF GoneInv, AllGone
<1>10. PoolInv'
  <2>1. Counted(buf', "USED") = Counted(buf, "USED")
    BY <1>4, <1>5, CountSame
  <2>2. Counted(buf', "FREE") = Counted(buf, "FREE") + 1
    <3>1. OthersKept(buf, buf', b) /\ buf[b] # "FREE" /\ buf'[b] = "FREE"
      BY <1>3, <1>4, <1>5 DEF OthersKept
    <3> QED
      BY <1>3, <3>1, CountUp
  <2>3. Owned'
    <3>1. \A c \in Actors : out[c].buf # 0 => out[c].buf \in Bufs /\ buf[out[c].buf] = "INUSE"
      BY <1>3 DEF PoolInv, Owned, UipTypes, OutStates
    <3>2. \A c \in Actors : out'[c].buf # 0 => buf'[out'[c].buf] = "INUSE" /\ out'[c].buf # rx'.buf
      BY <1>2, <1>4, <1>5, <3>1
    <3>3. \A c, d \in Actors : out'[c].buf # 0 /\ out'[c].buf = out'[d].buf => c = d
      BY <1>2, <1>3 DEF PoolInv, Owned
    <3> QED
      BY <1>2, <3>2, <3>3 DEF Owned
  <2> QED
    BY <1>2, <1>3, <2>1, <2>2, <2>3 DEF PoolInv
<1>11. SockInv' /\ FrameInv' /\ ListInv' /\ TxInv'
  BY <1>2 DEF SockInv, FrameInv, ListInv, TxInv
<1>12. AckInv'
  <2>1. \A c \in Bufs : frame'[c] = frame[c] \/ frame'[c].kind # "tcp"
    BY <1>5 DEF NoFrame
  <2> QED
    BY <1>2, <2>1 DEF AckInv
<1>13. StopInv'
  <2>1. rx'.pc = "off" <=> rx.pc = "off"
    BY <1>2
  <2> QED
    BY <1>2, <2>1, StopFrame DEF StopInv
<1> QED
  BY <1>7, <1>8, <1>9, <1>10, <1>11, <1>12, <1>13

\* The records that threads start from and end with.
LEMMA OutRecords ==
  /\ Quiet \in OutStates /\ \A f : Afresh(Quiet, f)
  /\ Quiet.pc = "off" /\ Quiet.buf = 0 /\ Quiet.fr.kind = "none"
  /\ \A s \in Socks, flag \in {"syn", "ack", "fin"}, len \in Int :
       /\ Sending(s, flag, len) \in OutStates
       /\ Sending(s, flag, len).pc = "get"
       /\ \A f : f[s].at # "none" => Afresh(Sending(s, flag, len), f)
  /\ \A k \in {"answered", "arp_other", "udp"} :
       Asking(k) \in OutStates /\ Asking(k).pc = "get" /\ \A f : Afresh(Asking(k), f)
<1>1. Quiet \in OutStates /\ Quiet.pc = "off" /\ Quiet.buf = 0 /\ Quiet.fr.kind = "none"
  BY DEF Quiet, OutStates, NoFrame, Frames
<1>2. \A f : Afresh(Quiet, f)
  BY <1>1 DEF Afresh
<1>3. ASSUME NEW s \in Socks, NEW flag \in {"syn", "ack", "fin"}, NEW len \in Int
      PROVE  /\ Sending(s, flag, len) \in OutStates
             /\ Sending(s, flag, len).pc = "get"
             /\ \A f : f[s].at # "none" => Afresh(Sending(s, flag, len), f)
  <2> DEFINE fr == [kind |-> "tcp", sk |-> s, flag |-> flag, len |-> len, seq |-> 0, ack |-> 0, off |-> 0]
  <2>1. fr \in TcpFrames /\ fr.ack = 0 /\ fr.sk = s
    BY DEF TcpFrames
  <2>2. Sending(s, flag, len) = [pc |-> "get", buf |-> 0, reg |-> 0, fr |-> fr]
    BY DEF Sending
  <2> HIDE DEF fr
  <2>3. [pc |-> "get", buf |-> 0, reg |-> 0, fr |-> fr] \in OutStates
    BY <2>1 DEF OutStates, Frames
  <2> QED
    BY <2>1, <2>2, <2>3 DEF Afresh
<1>4. ASSUME NEW k \in {"answered", "arp_other", "udp"}
      PROVE  Asking(k) \in OutStates /\ Asking(k).pc = "get" /\ \A f : Afresh(Asking(k), f)
  <2>1. [kind |-> k] \in Frames /\ [kind |-> k].kind # "tcp"
    BY DEF Frames
  <2>2. PICK fr \in Frames : fr = [kind |-> k] /\ fr.kind # "tcp"
    BY <2>1, Zenon
  <2>3. Asking(k) = [pc |-> "get", buf |-> 0, reg |-> 0, fr |-> fr]
    BY <2>2, Zenon DEF Asking
  <2> QED
    BY <2>2, <2>3 DEF Afresh, OutStates
<1> QED
  BY <1>1, <1>2, <1>3, <1>4

\* What storing one actor's output state gives.
LEMMA SetOut ==
  ASSUME out \in [Actors -> OutStates], NEW a \in Actors, NEW o \in OutStates, out' = [out EXCEPT ![a] = o]
  PROVE  out' \in [Actors -> OutStates] /\ out'[a] = o /\ \A c \in Actors : c # a => out'[c] = out[c]
OBVIOUS

\* The fields of a socket that a step writes.
LEMMA SetSock ==
  ASSUME sk \in [Socks -> SockStates], NEW s \in Socks, NEW r \in SockStates, sk' = [sk EXCEPT ![s] = r]
  PROVE  sk' \in [Socks -> SockStates] /\ sk'[s] = r /\ \A c \in Socks : c # s => sk'[c] = sk[c]
OBVIOUS

\* Sockets that a step leaves alone go on.
LEMMA GoesAll ==
  ASSUME UipTypes, AckInv, NEW s \in Socks, Goes(sk[s], sk'[s]), \A c \in Socks : c # s => sk'[c] = sk[c]
  PROVE  \A c \in Socks : Goes(sk[c], sk'[c])
<1>1. \A c \in Socks : sk[c] \in SockStates /\ KeepsSock(sk[c], sk[c])
  BY DEF UipTypes, KeepsSock
<1>2. \A c \in Socks : Goes(sk[c], sk[c])
  BY <1>1, KeepsGoes
<1> QED
  BY <1>2

\* Unchanged sockets acknowledge what they have taken, as before.
LEMMA GoesSame ==
  ASSUME UipTypes, AckInv, sk' = sk
  PROVE  \A c \in Socks : Goes(sk[c], sk'[c])
<1>1. \A c \in Socks : sk[c] \in SockStates /\ KeepsSock(sk[c], sk[c])
  BY DEF UipTypes, KeepsSock
<1> QED
  BY <1>1, KeepsGoes

\* A step of the transmit thread between its buffers.
LEMMA TxFrame ==
  ASSUME UipIInv, UipTypes', UNCHANGED <<buf, frame, freeNr, usedNr, rx, stop>>,
         tx.pc # "off", tx'.pc # "off", udp' = udp \/ udp = "none",
         \A a \in Actors : a # TxThread => out'[a] = out[a],
         out'[TxThread] = out[TxThread] \/ Afresh(out'[TxThread], sk'),
         \A s \in Socks : Goes(sk[s], sk'[s])
  PROVE  OutInv' /\ GoneInv' /\ PoolInv' /\ FrameInv' /\ AckInv' /\ StopInv'
<1> USE DEF UipIInv
<1>1. OutInv' /\ GoneInv' /\ PoolInv' /\ FrameInv' /\ AckInv'
  BY ThreadFrame
<1>2. StopInv'
  <2>1. out'[UdpThread].pc # "off" => udp' = "send"
    BY Names DEF StopInv
  <2> QED
    BY <2>1, StopFrame
<1> QED
  BY <1>1, <1>2

\* Transmit keeps UipIInv.
LEMMA TransmitKept == ASSUME UipIInv, NEW k \in Kinds, Transmit(k) PROVE UipIInv'
<1> USE DEF UipIInv
<1>1. /\ tx.pc = "idle"
      /\ UNCHANGED <<buf, frame, freeNr, usedNr, sk, list, udp, rx, guest, stop>>
  BY DEF Transmit
<1>2. k \in {"ignored", "answered", "arp_other", "udp", "syn", "ack", "data", "fin"}
  BY DEF Kinds, ArpKinds, Ipv4Kinds, IcmpKinds, TcpKinds, UdpKinds, DhcpKinds
<1>3. CASE k = "ignored"
  <2>1. tx' = tx /\ out' = out
    BY <1>3 DEF Transmit
  <2>2. UipTypes' /\ OutInv' /\ SockInv' /\ FrameInv' /\ ListInv' /\ TxInv' /\ AckInv'
    BY <1>1, <2>1 DEF UipTypes, OutInv, Cooks, SockInv, FrameInv, ListInv, TxInv, AckInv
  <2>3. StopInv' /\ (ResetOver' <=> ResetOver)
    BY <1>1, <2>1, StopFrame DEF StopInv
  <2>4. GoneInv' /\ PoolInv'
    BY <1>1, <2>1, <2>3, PoolFrame
  <2> QED
    BY <2>2, <2>3, <2>4
<1>4. CASE k # "ignored"
  <2>1. \/ /\ k \in {"answered", "arp_other"}
           /\ tx' = [tx EXCEPT !.pc = "reply", !.kind = k]
           /\ out' = [out EXCEPT ![TxThread] = Asking(k)]
        \/ /\ k \in {"udp", "syn", "ack", "data", "fin"}
           /\ tx' = [tx EXCEPT !.pc = k, !.kind = k]
           /\ out' = out
    BY <1>2, <1>4 DEF Transmit
  <2>2. /\ tx' \in [pc : TxPlaces, kind : Kinds \cup {"none"}, sk : Socks \cup {0}]
        /\ tx'.sk = tx.sk /\ (tx'.pc = "reply" \/ (tx'.pc = k /\ tx'.kind = k))
        /\ tx'.pc \notin {"off", "do_fin", "do_data", "send"}
    BY <2>1 DEF UipTypes, TxPlaces
  <2>3. /\ out' \in [Actors -> OutStates]
        /\ \A a \in Actors : a # TxThread => out'[a] = out[a]
        /\ out'[TxThread] = out[TxThread] \/ Afresh(out'[TxThread], sk')
    <3>1. CASE out' = out
      BY <3>1 DEF UipTypes
    <3>2. CASE out' # out
      <4>1. PICK o \in OutStates : out' = [out EXCEPT ![TxThread] = o] /\ Afresh(o, sk')
        BY <2>1, <3>2, OutRecords
      <4> QED
        BY <4>1, SetOut, Names DEF UipTypes
    <3> QED
      BY <3>1, <3>2
  <2>4. UipTypes'
    BY <1>1, <2>2, <2>3 DEF UipTypes
  <2>5. \A s \in Socks : Goes(sk[s], sk'[s])
    BY <1>1, GoesSame
  <2>6. OutInv' /\ GoneInv' /\ PoolInv' /\ FrameInv' /\ AckInv' /\ StopInv'
    BY <1>1, <2>2, <2>3, <2>4, <2>5, TxFrame
  <2>7. SockInv' /\ ListInv'
    <3>1. \A s \in Socks : out'[s] = out[s]
      BY <2>3, Names
    <3> QED
      BY <1>1, <3>1 DEF SockInv, ListInv
  <2>8. TxInv'
    BY <1>1, <2>2 DEF TxInv
  <2> QED
    BY <2>4, <2>6, <2>7, <2>8
<1> QED
  BY <1>3, <1>4

\* TxReply keeps UipIInv.
LEMMA TxReplyKept == ASSUME UipIInv, TxReply PROVE UipIInv'
<1> USE DEF UipIInv
<1>1. /\ tx.pc = "reply" /\ out[TxThread].pc = "fill"
      /\ out' = [out EXCEPT ![TxThread] = Quiet] /\ tx' = TxIdle
      /\ UNCHANGED <<freeNr, sk, list, udp, rx, guest, stop>>
  BY DEF TxReply
<1>2. /\ out' \in [Actors -> OutStates] /\ out'[TxThread] = Quiet
      /\ \A c \in Actors : c # TxThread => out'[c] = out[c]
  BY <1>1, OutRecords, SetOut, Names DEF UipTypes
<1>3. \A s \in Socks : out'[s] = out[s]
  BY <1>2, Names
<1>4. Cooks(TxThread)
  BY <1>1 DEF Cooks
<1>5. /\ buf' \in [Bufs -> {"FREE", "INUSE", "USED", "GONE"}] /\ frame' \in [Bufs -> Frames] /\ usedNr' \in Int
      /\ \A b \in Bufs : frame'[b] = frame[b] \/ \E a \in Actors : frame'[b] = out[a].fr
      /\ GoneInv' /\ PoolInv'
  <2>1. CASE UNCHANGED <<buf, frame, usedNr>>
    <3>1. ResetOver' <=> ResetOver
      BY <1>1 DEF ResetOver
    <3>2. \A a \in Actors : out'[a].buf = 0 \/ out'[a].buf = out[a].buf
      BY <1>2, OutRecords
    <3>3. GoneInv' /\ PoolInv'
      BY <1>1, <2>1, <3>1, <3>2, PoolFrame
    <3> QED
      BY <2>1, <3>3 DEF UipTypes
  <2>2. CASE SetUsed(out[TxThread].buf, out[TxThread].fr)
    <3>1. PICK b : b = out[TxThread].buf
      OBVIOUS
    <3>2. /\ buf' = [buf EXCEPT ![b] = "USED"] /\ frame' = [frame EXCEPT ![b] = out[TxThread].fr]
          /\ usedNr' = usedNr + 1
      BY <2>2, <3>1 DEF SetUsed
    <3>3. \A c \in Actors : out'[c].buf = IF c = TxThread THEN 0 ELSE out[c].buf
      BY <1>2, OutRecords
    <3>4. \A c \in Bufs : buf'[c] = IF c = b THEN "USED" ELSE buf[c]
      BY <3>2 DEF UipTypes
    <3>5. GoneInv' /\ PoolInv' /\ b \in Bufs
      BY <1>1, <1>4, <3>1, <3>2, <3>3, <3>4, PoolUsed, Names
    <3>6. out[TxThread].fr \in Frames
      BY Names DEF UipTypes, OutStates
    <3> QED
      BY <3>2, <3>5, <3>6, Names DEF UipTypes
  <2> QED
    BY <2>1, <2>2 DEF TxReply
<1>6. tx' \in [pc : TxPlaces, kind : Kinds \cup {"none"}, sk : Socks \cup {0}] /\ tx'.sk = 0 /\ tx'.pc = "idle"
  BY <1>1 DEF TxIdle, TxPlaces
<1>7. UipTypes'
  BY <1>1, <1>2, <1>5, <1>6 DEF UipTypes
<1>8. OutInv'
  <2>1. \A c \in Actors : Cooks(c)' <=> out'[c].buf # 0
    BY <1>2, OutRecords DEF Cooks, OutInv
  <2>2. \A c \in Actors : out'[c].pc = "store" => out'[c].fr.kind = "tcp"
    BY <1>2, OutRecords DEF OutInv
  <2> QED
    BY <1>1, <2>1, <2>2 DEF OutInv
<1>9. SockInv' /\ ListInv' /\ TxInv'
  BY <1>1, <1>3, <1>6 DEF SockInv, ListInv, TxInv
<1>10. \A c \in Actors : out'[c].fr = out[c].fr \/ out'[c].fr.kind # "tcp"
  BY <1>2, OutRecords
<1>11. FrameInv'
  BY <1>1, <1>10 DEF FrameInv
<1>12. AckInv'
  <2>1. \A r \in Socks : Goes(sk[r], sk'[r])
    BY <1>1, GoesSame
  <2> QED
    BY <1>5, <1>7, <1>10, <2>1, AckFrame DEF Goes
<1>13. StopInv'
  <2>1. out'[UdpThread].pc # "off" => udp' = "send"
    BY <1>1, <1>2, Names DEF StopInv
  <2> QED
    BY <1>1, <1>6, <2>1, StopFrame
<1> QED
  BY <1>5, <1>7, <1>8, <1>9, <1>11, <1>12, <1>13

\* The idle transmit state is well typed.
LEMMA IdleTyped ==
  /\ TxIdle \in [pc : TxPlaces, kind : Kinds \cup {"none"}, sk : Socks \cup {0}]
  /\ TxIdle.pc = "idle" /\ TxIdle.sk = 0
BY DEF TxIdle, TxPlaces

\* TxUdp keeps UipIInv.
LEMMA TxUdpKept == ASSUME UipIInv, NEW ok \in BOOLEAN, TxUdp(ok) PROVE UipIInv'
<1> USE DEF UipIInv
<1>1. /\ tx.pc = "udp" /\ tx' = TxIdle
      /\ (udp' = "epoll" /\ udp = "none") \/ udp' = udp
      /\ UNCHANGED <<buf, frame, freeNr, usedNr, sk, list, rx, out, guest, stop>>
  BY DEF TxUdp
<1>2. UipTypes'
  BY <1>1, IdleTyped DEF UipTypes
<1>3. \A s \in Socks : Goes(sk[s], sk'[s])
  BY <1>1, GoesSame
<1>4. OutInv' /\ GoneInv' /\ PoolInv' /\ FrameInv' /\ AckInv' /\ StopInv'
  BY <1>1, <1>2, <1>3, IdleTyped, TxFrame
<1>5. SockInv' /\ ListInv' /\ TxInv'
  BY <1>1, IdleTyped DEF SockInv, ListInv, TxInv
<1> QED
  BY <1>2, <1>4, <1>5

\* TxSyn keeps UipIInv.
LEMMA TxSynKept == ASSUME UipIInv, NEW ok \in BOOLEAN, NEW win \in 0 .. MaxWin, TxSyn(ok, win) PROVE UipIInv'
<1> USE DEF UipIInv
<1>1. tx.pc = "syn" /\ UNCHANGED <<buf, frame, freeNr, usedNr, udp, rx, guest, stop>>
  BY DEF TxSyn
<1>2. PICK s \in Socks :
        /\ sk[s].at = "none"
        /\ \/ /\ sk' = [sk EXCEPT ![s] = [FreshSock EXCEPT !.at = "listed", !.win = win]]
              /\ list' = Append(list, s)
              /\ tx' = [tx EXCEPT !.pc = "send", !.sk = s]
              /\ out' = [out EXCEPT ![TxThread] = Sending(s, "syn", 0)]
           \/ UNCHANGED <<sk, list, out>> /\ tx' = TxIdle
  BY DEF TxSyn
<1>3. CASE UNCHANGED <<sk, list, out>> /\ tx' = TxIdle
  <2>1. UipTypes'
    BY <1>1, <1>3, IdleTyped DEF UipTypes
  <2>2. \A r \in Socks : Goes(sk[r], sk'[r])
    BY <1>3, GoesSame
  <2>3. OutInv' /\ GoneInv' /\ PoolInv' /\ FrameInv' /\ AckInv' /\ StopInv'
    BY <1>1, <1>3, <2>1, <2>2, IdleTyped, TxFrame
  <2>4. SockInv' /\ ListInv' /\ TxInv'
    BY <1>1, <1>3, IdleTyped DEF SockInv, ListInv, TxInv
  <2> QED
    BY <2>1, <2>3, <2>4
<1>4. CASE /\ sk' = [sk EXCEPT ![s] = [FreshSock EXCEPT !.at = "listed", !.win = win]]
           /\ list' = Append(list, s)
           /\ tx' = [tx EXCEPT !.pc = "send", !.sk = s]
           /\ out' = [out EXCEPT ![TxThread] = Sending(s, "syn", 0)]
  <2>1. PICK r \in SockStates : /\ r = [FreshSock EXCEPT !.at = "listed", !.win = win]
                                /\ r.at = "listed" /\ r.thread = "none" /\ r.ack = 1 /\ ~r.rdone
                                /\ HasTaken(r) = 1
    <3>1. win \in Int
      BY Names
    <3> DEFINE r == [FreshSock EXCEPT !.at = "listed", !.win = win]
    <3>2. /\ FreshSock \in SockStates /\ FreshSock.thread = "none" /\ FreshSock.ack = 1
          /\ ~FreshSock.rdone /\ ~FreshSock.wdone /\ FreshSock.written = 0
      BY DEF FreshSock, NeverAcked, SockStates
    <3>3. r \in SockStates
      BY <3>1, <3>2 DEF SockStates
    <3>4. r.at = "listed" /\ r.thread = "none" /\ r.ack = 1 /\ ~r.rdone /\ ~r.wdone /\ r.written = 0
      BY <3>2 DEF SockStates
    <3> HIDE DEF r
    <3>5. HasTaken(r) = 1
      BY <3>4 DEF HasTaken
    <3> QED
      BY <3>3, <3>4, <3>5, Zenon DEF r
  <2>2. sk' \in [Socks -> SockStates] /\ sk'[s] = r /\ \A c \in Socks : c # s => sk'[c] = sk[c]
    BY <1>4, <2>1, SetSock DEF UipTypes
  <2>3. sk[s] = FreshSock /\ HasTaken(sk[s]) = 1
    <3>1. sk[s] = FreshSock
      BY <1>2 DEF SockInv
    <3> QED
      BY <3>1 DEF FreshSock, HasTaken
  <2>4. \A c \in Socks : Goes(sk[c], sk'[c])
    <3>1. Goes(sk[s], sk'[s])
      BY <2>1, <2>2, <2>3 DEF Goes
    <3> QED
      BY <2>2, <3>1, GoesAll
  <2>5. /\ out' \in [Actors -> OutStates] /\ Afresh(out'[TxThread], sk')
        /\ \A c \in Actors : c # TxThread => out'[c] = out[c]
    <3>0. sk'[s].at # "none" /\ 0 \in Int /\ "syn" \in {"syn", "ack", "fin"}
      BY <2>1, <2>2
    <3>1. Sending(s, "syn", 0) \in OutStates /\ Afresh(Sending(s, "syn", 0), sk')
      BY <3>0, OutRecords, Zenon
    <3> QED
      BY <1>4, <3>1, SetOut, Names DEF UipTypes
  <2>6. /\ tx' \in [pc : TxPlaces, kind : Kinds \cup {"none"}, sk : Socks \cup {0}]
        /\ tx'.pc = "send" /\ tx'.sk = s
    BY <1>4 DEF UipTypes, TxPlaces
  <2>7. UipTypes'
    BY <1>1, <1>4, <2>2, <2>5, <2>6 DEF UipTypes
  <2>8. OutInv' /\ GoneInv' /\ PoolInv' /\ FrameInv' /\ AckInv' /\ StopInv'
    BY <1>1, <2>4, <2>5, <2>6, <2>7, TxFrame
  <2>9. SockInv'
    <3>1. \A c \in Socks : out'[c] = out[c]
      BY <2>5, Names
    <3>2. out[s].pc = "off"
      BY <2>3 DEF SockInv, FreshSock
    <3> SUFFICES ASSUME NEW c \in Socks
                 PROVE  /\ sk'[c].at = "none" => sk'[c] = FreshSock
                        /\ sk'[c].at = "freed" => sk'[c].thread = "exited"
                        /\ sk'[c].rdone => sk'[c].thread = "exited"
                        /\ out'[c].pc # "off" => sk'[c].thread \in {"send", "fin"}
      BY DEF SockInv
    <3>3. CASE c = s
      BY <2>1, <2>2, <3>1, <3>2, <3>3
    <3>4. CASE c # s
      BY <2>2, <3>1, <3>4 DEF SockInv
    <3> QED
      BY <3>3, <3>4
  <2>10. ListInv'
    <3>1. list \in Seq(Socks)
      BY DEF UipTypes
    <3>2. /\ Len(list') = Len(list) + 1 /\ Len(list) \in Nat /\ list'[Len(list) + 1] = s
          /\ \A i \in 1 .. Len(list) : list'[i] = list[i]
      BY <1>4, <3>1
    <3>3. \A i \in 1 .. Len(list) : list[i] # s
      BY <1>2 DEF ListInv
    <3>4. \A i \in 1 .. Len(list') : i \in 1 .. Len(list) \/ i = Len(list) + 1
      BY <3>2
    <3>5. \A i \in 1 .. Len(list) : i \in 1 .. Len(list') /\ Len(list) + 1 \in 1 .. Len(list')
      BY <3>2
    <3>6. Len(list) + 1 \in 1 .. Len(list')
      BY <3>2
    <3>7. \A i, j \in 1 .. Len(list') : list'[i] = list'[j] => i = j
      BY <3>2, <3>3, <3>4 DEF ListInv
    <3>8. ASSUME NEW c \in Socks
          PROVE  sk'[c].at = "listed" <=> \E i \in 1 .. Len(list') : list'[i] = c
      <4>1. CASE c = s
        BY <2>1, <2>2, <3>2, <3>6, <4>1
      <4>2. CASE c # s
        <5>1. sk'[c].at = sk[c].at
          BY <2>2, <4>2
        <5>2. (\E i \in 1 .. Len(list') : list'[i] = c) <=> (\E i \in 1 .. Len(list) : list[i] = c)
          BY <3>2, <3>4, <3>5, <4>2
        <5> QED
          BY <5>1, <5>2 DEF ListInv
      <4> QED
        BY <4>1, <4>2
    <3> QED
      BY <3>7, <3>8 DEF ListInv
  <2>11. TxInv'
    <3>1. sk'[tx'.sk].at = "listed" /\ sk'[tx'.sk].thread = "none" /\ tx'.sk # 0
      BY <2>1, <2>2, <2>6, Names
    <3> QED
      BY <2>6, <3>1 DEF TxInv
  <2> QED
    BY <2>7, <2>8, <2>9, <2>10, <2>11
<1> QED
  BY <1>2, <1>3, <1>4

\* A step that keeps the sockets' threads and the list.
LEMMA ListFrame ==
  ASSUME SockInv, ListInv, list' = list, \A s \in Socks : KeepsSock(sk[s], sk'[s]),
         \A s \in Socks : out'[s] = out[s]
  PROVE  SockInv' /\ ListInv'
<1>1. SockInv'
  BY DEF SockInv, KeepsSock
<1>2. ListInv'
  BY DEF ListInv, KeepsSock
<1> QED
  BY <1>1, <1>2

\* TxFind keeps UipIInv.
LEMMA TxFindKept == ASSUME UipIInv, NEW win \in 0 .. MaxWin, TxFind(win) PROVE UipIInv'
<1> USE DEF UipIInv
<1>1. /\ tx.pc \in {"ack", "data", "fin"}
      /\ UNCHANGED <<buf, frame, freeNr, usedNr, list, udp, rx, out, guest, stop>>
  BY DEF TxFind
<1>2. CASE list = <<>>
  <2>1. tx' = TxIdle /\ sk' = sk
    BY <1>2 DEF TxFind
  <2>2. UipTypes'
    BY <1>1, <2>1, IdleTyped DEF UipTypes
  <2>3. \A r \in Socks : Goes(sk[r], sk'[r])
    BY <2>1, GoesSame
  <2>4. OutInv' /\ GoneInv' /\ PoolInv' /\ FrameInv' /\ AckInv' /\ StopInv'
    BY <1>1, <2>1, <2>2, <2>3, IdleTyped, TxFrame
  <2>5. SockInv' /\ ListInv' /\ TxInv'
    BY <1>1, <2>1, IdleTyped DEF SockInv, ListInv, TxInv
  <2> QED
    BY <2>2, <2>4, <2>5
<1>3. CASE list # <<>>
  <2>1. PICK s \in Socks : s = Head(list) /\ sk[s].at = "listed"
    <3>1. list \in Seq(Socks)
      BY DEF UipTypes
    <3>2. Head(list) \in Socks /\ Head(list) = list[1] /\ 1 \in 1 .. Len(list)
      BY <1>3, <3>1
    <3> QED
      BY <3>2 DEF ListInv
  <2>2. /\ sk' = [sk EXCEPT ![s].win = win, ![s].acked = guest.nxt]
        /\ \/ tx.pc = "ack" /\ tx' = TxIdle
           \/ tx.pc = "fin" /\ tx' = [tx EXCEPT !.pc = "do_fin", !.sk = s]
           \/ tx.pc = "data" /\ tx' = [tx EXCEPT !.pc = "do_data", !.sk = s]
    BY <1>1, <1>3, <2>1 DEF TxFind
  <2>3. guest.nxt \in Int /\ win \in Int /\ sk[s] \in SockStates
    BY Names DEF UipTypes
  <2>4. PICK r \in SockStates : r = [sk[s] EXCEPT !.win = win, !.acked = guest.nxt] /\ KeepsSock(sk[s], r)
    <3> DEFINE r == [sk[s] EXCEPT !.win = win, !.acked = guest.nxt]
    <3>1. r \in SockStates
      BY <2>3 DEF SockStates
    <3>2. KeepsSock(sk[s], r)
      BY <2>1, <2>3 DEF KeepsSock, SockStates
    <3> QED
      BY <3>1, <3>2
  <2>5. sk' \in [Socks -> SockStates] /\ sk'[s] = r /\ \A c \in Socks : c # s => sk'[c] = sk[c]
    <3>1. sk \in [Socks -> SockStates]
      BY DEF UipTypes
    <3>2. sk' = [sk EXCEPT ![s] = r]
      BY <2>2, <2>4, <3>1
    <3> QED
      BY <3>1, <3>2, SetSock
  <2>6. \A c \in Socks : KeepsSock(sk[c], sk'[c])
    BY <2>4, <2>5 DEF KeepsSock
  <2>7. \A c \in Socks : Goes(sk[c], sk'[c])
    BY <2>6, KeepsGoes DEF UipTypes
  <2>8. tx' \in [pc : TxPlaces, kind : Kinds \cup {"none"}, sk : Socks \cup {0}] /\ tx'.pc # "off"
    BY <2>2, IdleTyped DEF UipTypes, TxPlaces
  <2>9. UipTypes'
    BY <1>1, <2>5, <2>8 DEF UipTypes
  <2>10. OutInv' /\ GoneInv' /\ PoolInv' /\ FrameInv' /\ AckInv' /\ StopInv'
    BY <1>1, <2>7, <2>8, <2>9, TxFrame
  <2>11. SockInv' /\ ListInv'
    BY <1>1, <2>6, ListFrame
  <2>12. TxInv'
    <3>1. sk'[s].at = "listed"
      BY <2>1, <2>6 DEF KeepsSock
    <3>2. s # 0
      BY Names
    <3>3. \/ tx'.pc = "idle" /\ tx'.sk = 0
          \/ tx'.pc = "do_fin" /\ tx'.sk = s /\ tx'.kind = tx.kind /\ tx.pc = "fin"
          \/ tx'.pc = "do_data" /\ tx'.sk = s /\ tx'.kind = tx.kind /\ tx.pc = "data"
      BY <2>2, IdleTyped DEF UipTypes
    <3> QED
      BY <3>1, <3>2, <3>3 DEF TxInv
  <2> QED
    BY <2>9, <2>10, <2>11, <2>12
<1> QED
  BY <1>2, <1>3

\* The fields that acknowledgements write.
LEMMA AckFields ==
  ASSUME NEW f \in SockStates, NEW x \in Int, NEW y \in Nat
  PROVE  /\ [f EXCEPT !.ack = x, !.written = y] \in SockStates
         /\ [f EXCEPT !.wdone = TRUE, !.ack = x] \in SockStates
<1>1. [f EXCEPT !.ack = x, !.written = y] \in SockStates
  BY DEF SockStates
<1>2. [f EXCEPT !.wdone = TRUE, !.ack = x] \in SockStates
  BY DEF SockStates
<1> QED
  BY <1>1, <1>2

\* A segment is about to ask for its buffer.
LEMMA SendingAfresh ==
  ASSUME NEW s \in Socks, NEW flag \in {"syn", "ack", "fin"}, NEW len \in Int, NEW f, f[s].at # "none"
  PROVE  /\ Sending(s, flag, len) \in OutStates /\ Sending(s, flag, len).pc = "get"
         /\ Afresh(Sending(s, flag, len), f)
BY OutRecords

\* The socket that the transmit thread works on.
LEMMA TxSocket ==
  ASSUME UipIInv, tx.pc \in {"do_fin", "do_data", "send"}
  PROVE  tx.sk \in Socks /\ sk[tx.sk] \in SockStates /\ sk[tx.sk].at = "listed" /\ tx.sk # 0
BY DEF UipIInv, TxInv, UipTypes

\* The transmit thread has changed its socket and answers the guest.
LEMMA TxAnswers ==
  ASSUME UipIInv, NEW s \in Socks, s = tx.sk, tx.pc \in {"do_fin", "do_data"}, NEW r \in SockStates,
         r.at = sk[s].at, r.thread = sk[s].thread, r.rdone = sk[s].rdone, Goes(sk[s], r),
         sk' = [sk EXCEPT ![s] = r], tx' = [tx EXCEPT !.pc = "send"],
         out' = [out EXCEPT ![TxThread] = Sending(s, "ack", 0)],
         UNCHANGED <<buf, frame, freeNr, usedNr, list, udp, rx, guest, stop>>
  PROVE  UipIInv'
<1> USE DEF UipIInv
<1>1. sk[s].at = "listed" /\ s # 0
  BY TxSocket
<1>2. sk' \in [Socks -> SockStates] /\ sk'[s] = r /\ \A c \in Socks : c # s => sk'[c] = sk[c]
  BY SetSock DEF UipTypes
<1>3. \A c \in Socks : Goes(sk[c], sk'[c])
  BY <1>2, GoesAll
<1>4. /\ out' \in [Actors -> OutStates] /\ Afresh(out'[TxThread], sk')
      /\ \A c \in Actors : c # TxThread => out'[c] = out[c]
  <2>1. sk'[s].at # "none" /\ 0 \in Int /\ "ack" \in {"syn", "ack", "fin"}
    BY <1>1, <1>2
  <2>2. Sending(s, "ack", 0) \in OutStates /\ Afresh(Sending(s, "ack", 0), sk')
    BY <2>1, SendingAfresh
  <2> QED
    BY <2>2, SetOut, Names DEF UipTypes
<1>5. /\ tx' \in [pc : TxPlaces, kind : Kinds \cup {"none"}, sk : Socks \cup {0}]
      /\ tx'.pc = "send" /\ tx'.sk = s /\ tx'.kind = tx.kind
  BY DEF UipTypes, TxPlaces
<1>6. UipTypes'
  BY <1>2, <1>4, <1>5 DEF UipTypes
<1>7. OutInv' /\ GoneInv' /\ PoolInv' /\ FrameInv' /\ AckInv' /\ StopInv'
  BY <1>3, <1>4, <1>5, <1>6, TxFrame
<1>8. \A c \in Socks : /\ sk'[c].at = sk[c].at /\ sk'[c].thread = sk[c].thread /\ sk'[c].rdone = sk[c].rdone
                       /\ sk[c].at = "none" => sk'[c] = sk[c]
  BY <1>1, <1>2
<1>9. SockInv'
  <2>1. \A c \in Socks : out'[c] = out[c]
    BY <1>4, Names
  <2> QED
    BY <1>8, <2>1 DEF SockInv
<1>10. ListInv'
  BY <1>8 DEF ListInv
<1>11. TxInv'
  <2>1. sk'[tx'.sk].at = "listed" /\ tx'.sk # 0 /\ tx'.kind # "syn"
    BY <1>1, <1>5, <1>8 DEF TxInv
  <2> QED
    BY <1>5, <2>1 DEF TxInv
<1> QED
  BY <1>6, <1>7, <1>9, <1>10, <1>11

\* The transmit thread is done with a segment and leaves everything else alone.
LEMMA TxGivesUp ==
  ASSUME UipIInv, tx.pc # "off", tx' = TxIdle,
         UNCHANGED <<buf, frame, freeNr, usedNr, sk, list, udp, rx, out, guest, stop>>
  PROVE  UipIInv'
<1> USE DEF UipIInv
<1>1. UipTypes'
  BY IdleTyped DEF UipTypes
<1>2. \A r \in Socks : Goes(sk[r], sk'[r])
  BY GoesSame
<1>3. OutInv' /\ GoneInv' /\ PoolInv' /\ FrameInv' /\ AckInv' /\ StopInv'
  BY <1>1, <1>2, IdleTyped, TxFrame
<1>4. SockInv' /\ ListInv' /\ TxInv'
  BY IdleTyped DEF SockInv, ListInv, TxInv
<1> QED
  BY <1>1, <1>3, <1>4

\* TxFin keeps UipIInv.
LEMMA TxFinKept == ASSUME UipIInv, TxFin PROVE UipIInv'
<1>1. tx.pc = "do_fin" /\ UNCHANGED <<buf, frame, freeNr, usedNr, list, udp, rx, guest, stop>>
  BY DEF TxFin
<1>2. PICK s \in Socks : s = tx.sk /\ sk[s] \in SockStates
  BY <1>1, TxSocket
<1>3. CASE sk[s].wdone
  <2>1. tx' = TxIdle /\ UNCHANGED <<sk, out>>
    BY <1>2, <1>3, Zenon DEF TxFin
  <2> QED
    BY <1>1, <2>1, TxGivesUp
<1>4. CASE ~sk[s].wdone
  <2>1. /\ sk' = [sk EXCEPT ![s].wdone = TRUE, ![s].ack = @ + 1]
        /\ tx' = [tx EXCEPT !.pc = "send"]
        /\ out' = [out EXCEPT ![TxThread] = Sending(s, "ack", 0)]
    BY <1>2, <1>4, Zenon DEF TxFin
  <2> DEFINE r == [sk[s] EXCEPT !.wdone = TRUE, !.ack = sk[s].ack + 1]
  <2>2. r \in SockStates
    <3>1. sk[s].ack + 1 \in Int
      BY <1>2 DEF SockStates
    <3>2. 0 \in Nat
      OBVIOUS
    <3> QED
      BY <1>2, <3>1, <3>2, AckFields
  <2>3. r.at = sk[s].at /\ r.thread = sk[s].thread /\ r.rdone = sk[s].rdone /\ r.written = sk[s].written
    BY <1>2 DEF SockStates
  <2>4. r.wdone /\ r.ack = sk[s].ack + 1
    BY <1>2 DEF SockStates
  <2>5. sk' = [sk EXCEPT ![s] = r]
    BY <2>1 DEF UipIInv, UipTypes
  <2> HIDE DEF r
  <2>6. HasTaken(r) = HasTaken(sk[s]) + 1
    <3>1. HasTaken(r) = 1 + r.written + 1
      BY <2>4, Zenon DEF HasTaken
    <3>2. HasTaken(sk[s]) = 1 + sk[s].written + 0
      BY <1>4, Zenon DEF HasTaken
    <3>3. sk[s].written \in Nat
      BY <1>2 DEF SockStates
    <3> QED
      BY <2>3, <3>1, <3>2, <3>3
  <2>7. Goes(sk[s], r)
    <3>1. HasTaken(sk[s]) \in Nat /\ sk[s].ack = HasTaken(sk[s])
      BY <1>2, TakenNat DEF UipIInv, AckInv
    <3> QED
      BY <2>3, <2>4, <2>6, <3>1 DEF Goes
  <2> QED
    BY <1>1, <1>2, <2>1, <2>2, <2>3, <2>5, <2>7, TxAnswers
<1> QED
  BY <1>3, <1>4

\* TxData keeps UipIInv.
LEMMA TxDataKept ==
  ASSUME UipIInv, NEW len \in 1 .. MaxWin, NEW ret \in -1 .. MaxWin, TxData(len, ret)
  PROVE  UipIInv'
<1>1. tx.pc = "do_data" /\ UNCHANGED <<buf, frame, freeNr, usedNr, list, udp, rx, guest, stop>>
  BY DEF TxData
<1>2. PICK s \in Socks : s = tx.sk /\ sk[s] \in SockStates
  BY <1>1, TxSocket
<1>3. CASE ret < 0
  <2>1. tx' = TxIdle /\ UNCHANGED <<sk, out>>
    BY <1>3 DEF TxData
  <2> QED
    BY <1>1, <2>1, TxGivesUp
<1>4. CASE ~(ret < 0)
  <2>1. /\ sk' = [sk EXCEPT ![s].ack = @ + ret, ![s].written = @ + ret]
        /\ tx' = [tx EXCEPT !.pc = "send"]
        /\ out' = [out EXCEPT ![TxThread] = Sending(s, "ack", 0)]
    BY <1>2, <1>4 DEF TxData, AckOf
  <2>2. ret \in Nat
    BY <1>4, Names
  <2>3. sk[s].ack \in Int /\ sk[s].written \in Nat /\ sk[s].written + ret \in Nat
    BY <1>2, <2>2 DEF SockStates
  <2> DEFINE r == [sk[s] EXCEPT !.ack = sk[s].ack + ret, !.written = sk[s].written + ret]
  <2>4. r \in SockStates
    <3>1. sk[s].ack + ret \in Int
      BY <2>2, <2>3
    <3> QED
      BY <1>2, <2>3, <3>1, AckFields
  <2>5. r.at = sk[s].at /\ r.thread = sk[s].thread /\ r.rdone = sk[s].rdone /\ r.wdone = sk[s].wdone
    BY <1>2 DEF SockStates
  <2>6. r.written = sk[s].written + ret /\ r.ack = sk[s].ack + ret
    BY <1>2 DEF SockStates
  <2>7. sk' = [sk EXCEPT ![s] = r]
    BY <2>1 DEF UipIInv, UipTypes
  <2> HIDE DEF r
  <2>8. HasTaken(r) = HasTaken(sk[s]) + ret
    <3>1. CASE sk[s].wdone
      <4>1. HasTaken(r) = 1 + r.written + 1 /\ HasTaken(sk[s]) = 1 + sk[s].written + 1
        BY <2>5, <3>1, Zenon DEF HasTaken
      <4> QED
        BY <2>2, <2>3, <2>6, <4>1
    <3>2. CASE ~sk[s].wdone
      <4>1. HasTaken(r) = 1 + r.written + 0 /\ HasTaken(sk[s]) = 1 + sk[s].written + 0
        BY <2>5, <3>2, Zenon DEF HasTaken
      <4> QED
        BY <2>2, <2>3, <2>6, <4>1
    <3> QED
      BY <3>1, <3>2
  <2>9. Goes(sk[s], r)
    <3>1. HasTaken(sk[s]) \in Nat /\ sk[s].ack = HasTaken(sk[s])
      BY <1>2, TakenNat DEF UipIInv, AckInv
    <3> QED
      BY <2>2, <2>5, <2>6, <2>8, <3>1 DEF Goes
  <2> QED
    BY <1>1, <1>2, <2>1, <2>4, <2>5, <2>7, <2>9, TxAnswers
<1> QED
  BY <1>3, <1>4

\* A socket leaves the list.
LEMMA Removed ==
  ASSUME NEW l \in Seq(Socks), NEW i \in 1 .. Len(l), NEW m, m = RemoveAt(l, i)
  PROVE  /\ m \in Seq(Socks) /\ Len(m) = Len(l) - 1 /\ Len(l) \in Nat
         /\ \A j \in 1 .. Len(m) : m[j] = IF j < i THEN l[j] ELSE l[j + 1]
<1> DEFINE a == SubSeq(l, 1, i - 1)
           b == SubSeq(l, i + 1, Len(l))
<1>1. Len(l) \in Nat /\ i \in Nat
  OBVIOUS
<1>2. a \in Seq(Socks) /\ Len(a) = i - 1 /\ \A j \in 1 .. i - 1 : a[j] = l[j]
  BY <1>1
<1>3. b \in Seq(Socks) /\ Len(b) = Len(l) - i /\ \A j \in 1 .. Len(l) - i : b[j] = l[i + j]
  BY <1>1
<1>4. m = a \o b
  BY DEF RemoveAt
<1> HIDE DEF a, b
<1>5. m \in Seq(Socks) /\ Len(m) = Len(a) + Len(b)
  BY <1>2, <1>3, <1>4, ConcatProperties
<1>6. \A j \in 1 .. Len(m) : m[j] = IF j <= Len(a) THEN a[j] ELSE b[j - Len(a)]
  BY <1>2, <1>3, <1>4, ConcatProperties
<1>7. ASSUME NEW j \in 1 .. Len(m) PROVE m[j] = IF j < i THEN l[j] ELSE l[j + 1]
  <2>1. CASE j < i
    BY <1>1, <1>2, <1>6, <2>1
  <2>2. CASE ~(j < i)
    <3>1. m[j] = b[j - Len(a)] /\ j - Len(a) \in 1 .. Len(l) - i /\ i + (j - Len(a)) = j + 1
      BY <1>1, <1>2, <1>3, <1>5, <1>6, <2>2
    <3> QED
      BY <1>3, <2>2, <3>1
  <2> QED
    BY <2>1, <2>2
<1>8. Len(m) = Len(l) - 1
  BY <1>1, <1>2, <1>3, <1>5
<1> QED
  BY <1>1, <1>5, <1>7, <1>8

\* TxSent keeps UipIInv.
LEMMA TxSentKept == ASSUME UipIInv, TxSent PROVE UipIInv'
<1> USE DEF UipIInv
<1>1. /\ tx.pc = "send" /\ tx' = TxIdle /\ out' = [out EXCEPT ![TxThread] = Quiet]
      /\ UNCHANGED <<buf, frame, freeNr, usedNr, udp, rx, guest, stop>>
  BY DEF TxSent
<1>2. PICK s \in Socks : s = tx.sk /\ sk[s] \in SockStates /\ sk[s].at = "listed"
  BY <1>1, TxSocket
<1>3. /\ out' \in [Actors -> OutStates] /\ Afresh(out'[TxThread], sk')
      /\ \A c \in Actors : c # TxThread => out'[c] = out[c]
  BY <1>1, OutRecords, SetOut, Names DEF UipTypes
<1>4. \A c \in Socks : out'[c] = out[c]
  BY <1>3, Names
<1>5. SUFFICES /\ sk' \in [Socks -> SockStates] /\ list' \in Seq(Socks)
               /\ \A c \in Socks : Goes(sk[c], sk'[c])
               /\ SockInv' /\ ListInv'
  <2>1. ASSUME sk' \in [Socks -> SockStates], list' \in Seq(Socks), \A c \in Socks : Goes(sk[c], sk'[c])
        PROVE  UipTypes' /\ OutInv' /\ GoneInv' /\ PoolInv' /\ FrameInv' /\ AckInv' /\ StopInv'
    <3>1. UipTypes'
      BY <1>1, <1>3, <2>1, IdleTyped DEF UipTypes
    <3> QED
      BY <1>1, <1>3, <2>1, <3>1, IdleTyped, TxFrame
  <2>2. TxInv'
    BY <1>1, IdleTyped DEF TxInv
  <2> QED
    BY <2>1, <2>2
<1>6. CASE tx.kind = "syn"
  <2>1. sk' = [sk EXCEPT ![s].seq = @ + 1, ![s].thread = "read"] /\ list' = list
    BY <1>2, <1>6 DEF TxSent
  <2>2. sk[s].thread = "none"
    BY <1>1, <1>2, <1>6 DEF TxInv
  <2> DEFINE r == [sk[s] EXCEPT !.seq = sk[s].seq + 1, !.thread = "read"]
  <2>3. r \in SockStates
    <3>1. sk[s].seq + 1 \in Int
      BY <1>2 DEF SockStates
    <3>2. \A x \in Int : [sk[s] EXCEPT !.seq = x, !.thread = "read"] \in SockStates
      BY <1>2 DEF SockStates
    <3> QED
      BY <3>1, <3>2
  <2>4. /\ r.at = sk[s].at /\ r.thread = "read" /\ r.wdone = sk[s].wdone /\ r.rdone = sk[s].rdone
        /\ r.ack = sk[s].ack /\ r.written = sk[s].written
    BY <1>2 DEF SockStates
  <2>5. sk' = [sk EXCEPT ![s] = r]
    BY <2>1 DEF UipTypes
  <2> HIDE DEF r
  <2>6. sk' \in [Socks -> SockStates] /\ sk'[s] = r /\ \A c \in Socks : c # s => sk'[c] = sk[c]
    BY <2>3, <2>5, SetSock DEF UipTypes
  <2>7. Goes(sk[s], r)
    <3>1. HasTaken(r) = HasTaken(sk[s]) /\ HasTaken(sk[s]) \in Nat
      BY <1>2, <2>4, TakenNat DEF HasTaken
    <3> QED
      BY <1>2, <2>4, <3>1 DEF Goes, AckInv
  <2>8. \A c \in Socks : Goes(sk[c], sk'[c])
    BY <2>6, <2>7, GoesAll
  <2>9. SockInv'
    <3> SUFFICES ASSUME NEW c \in Socks
                 PROVE  /\ sk'[c].at = "none" => sk'[c] = FreshSock
                        /\ sk'[c].at = "freed" => sk'[c].thread = "exited"
                        /\ sk'[c].rdone => sk'[c].thread = "exited"
                        /\ out'[c].pc # "off" => sk'[c].thread \in {"send", "fin"}
      BY DEF SockInv
    <3>1. CASE c = s
      <4>1. ~sk[s].rdone /\ out[s].pc = "off"
        BY <2>2 DEF SockInv
      <4> QED
        BY <1>2, <1>4, <2>4, <2>6, <3>1, <4>1
    <3>2. CASE c # s
      BY <1>4, <2>6, <3>2 DEF SockInv
    <3> QED
      BY <3>1, <3>2
  <2>10. ListInv'
    <3>1. \A c \in Socks : sk'[c].at = sk[c].at
      BY <2>4, <2>6
    <3> QED
      BY <2>1, <3>1 DEF ListInv
  <2>11. list' \in Seq(Socks)
    BY <2>1 DEF UipTypes
  <2> QED
    BY <2>6, <2>8, <2>9, <2>10, <2>11
<1>7. CASE tx.kind = "fin" /\ Closed(tx.sk)
  <2>1. sk' = [sk EXCEPT ![s].at = "freed"] /\ \E i \in DOMAIN list : list[i] = s /\ list' = RemoveAt(list, i)
    BY <1>2, <1>7 DEF TxSent
  <2>2. list \in Seq(Socks) /\ DOMAIN list = 1 .. Len(list)
    BY DEF UipTypes
  <2>3. PICK i \in 1 .. Len(list) : list[i] = s /\ list' = RemoveAt(list, i)
    BY <2>1, <2>2
  <2>4. sk[s].thread = "exited"
    BY <1>2, <1>7 DEF Closed, SockInv
  <2> DEFINE r == [sk[s] EXCEPT !.at = "freed"]
  <2>5. r \in SockStates
    BY <1>2 DEF SockStates
  <2>6. /\ r.at = "freed" /\ r.thread = sk[s].thread /\ r.wdone = sk[s].wdone
        /\ r.ack = sk[s].ack /\ r.written = sk[s].written
    BY <1>2 DEF SockStates
  <2>7. sk' = [sk EXCEPT ![s] = r]
    BY <2>1 DEF UipTypes
  <2> HIDE DEF r
  <2>8. sk' \in [Socks -> SockStates] /\ sk'[s] = r /\ \A c \in Socks : c # s => sk'[c] = sk[c]
    BY <2>5, <2>7, SetSock DEF UipTypes
  <2>9. Goes(sk[s], r)
    <3>1. HasTaken(r) = HasTaken(sk[s]) /\ HasTaken(sk[s]) \in Nat
      BY <1>2, <2>6, TakenNat DEF HasTaken
    <3> QED
      BY <1>2, <2>6, <3>1 DEF Goes, AckInv
  <2>10. \A c \in Socks : Goes(sk[c], sk'[c])
    BY <2>8, <2>9, GoesAll
  <2>11. SockInv'
    <3> SUFFICES ASSUME NEW c \in Socks
                 PROVE  /\ sk'[c].at = "none" => sk'[c] = FreshSock
                        /\ sk'[c].at = "freed" => sk'[c].thread = "exited"
                        /\ sk'[c].rdone => sk'[c].thread = "exited"
                        /\ out'[c].pc # "off" => sk'[c].thread \in {"send", "fin"}
      BY DEF SockInv
    <3>1. CASE c = s
      <4>1. out[s].pc = "off"
        BY <2>4 DEF SockInv
      <4> QED
        BY <1>4, <2>4, <2>6, <2>8, <3>1, <4>1
    <3>2. CASE c # s
      BY <1>4, <2>8, <3>2 DEF SockInv
    <3> QED
      BY <3>1, <3>2
  <2>12. /\ list' \in Seq(Socks) /\ Len(list') = Len(list) - 1 /\ Len(list) \in Nat
         /\ \A j \in 1 .. Len(list') : list'[j] = IF j < i THEN list[j] ELSE list[j + 1]
    BY <2>2, <2>3, Removed
  <2>13. ListInv'
    <3> DEFINE Old(j) == IF j < i THEN j ELSE j + 1
    <3>1. \A j \in 1 .. Len(list') : Old(j) \in 1 .. Len(list) /\ Old(j) # i /\ list'[j] = list[Old(j)]
      BY <2>12
    <3>2. \A j, k \in 1 .. Len(list') : Old(j) = Old(k) => j = k
      BY <2>12
    <3>3. \A j \in 1 .. Len(list) : j # i => \E k \in 1 .. Len(list') : Old(k) = j
      <4> SUFFICES ASSUME NEW j \in 1 .. Len(list), j # i PROVE \E k \in 1 .. Len(list') : Old(k) = j
        OBVIOUS
      <4>1. CASE j < i
        BY <2>12, <4>1
      <4>2. CASE j > i
        <5>1. j - 1 \in 1 .. Len(list') /\ Old(j - 1) = j
          BY <2>12, <4>2
        <5> QED
          BY <5>1
      <4> QED
        BY <4>1, <4>2
    <3> HIDE DEF Old
    <3>4. \A j, k \in 1 .. Len(list') : list'[j] = list'[k] => j = k
      BY <3>1, <3>2 DEF ListInv
    <3>5. ASSUME NEW c \in Socks
          PROVE  sk'[c].at = "listed" <=> \E j \in 1 .. Len(list') : list'[j] = c
      <4>1. CASE c = s
        <5>1. \A j \in 1 .. Len(list') : list'[j] # s
          BY <2>3, <3>1 DEF ListInv
        <5> QED
          BY <2>6, <2>8, <4>1, <5>1
      <4>2. CASE c # s
        <5>1. sk'[c].at = sk[c].at
          BY <2>8, <4>2
        <5>2. ASSUME NEW j \in 1 .. Len(list), list[j] = c PROVE \E k \in 1 .. Len(list') : list'[k] = c
          BY <2>3, <3>1, <3>3, <4>2, <5>2
        <5>3. ASSUME NEW k \in 1 .. Len(list'), list'[k] = c PROVE \E j \in 1 .. Len(list) : list[j] = c
          BY <3>1, <5>3
        <5> QED
          BY <5>1, <5>2, <5>3 DEF ListInv
      <4> QED
        BY <4>1, <4>2
    <3> QED
      BY <3>4, <3>5 DEF ListInv
  <2> QED
    BY <2>8, <2>10, <2>11, <2>12, <2>13
<1>8. CASE tx.kind # "syn" /\ ~(tx.kind = "fin" /\ Closed(tx.sk))
  <2>1. sk' = sk /\ list' = list
    BY <1>8 DEF TxSent
  <2>2. \A c \in Socks : Goes(sk[c], sk'[c])
    BY <2>1, GoesSame
  <2>3. SockInv' /\ ListInv'
    BY <1>4, <2>1 DEF SockInv, ListInv
  <2> QED
    BY <2>1, <2>2, <2>3 DEF UipTypes
<1> QED
  BY <1>6, <1>7, <1>8

\* What a step of the thread of socket s does to the socket.
Moved(f, r, th) ==
  /\ r.at = f.at /\ r.wdone = f.wdone /\ r.ack = f.ack /\ r.written = f.written
  /\ r.thread = th /\ (r.rdone => f.rdone \/ th = "exited")

\* A socket thread's step that moves only its own fields and output keeps
\* UipIInv.
LEMMA SockMoves ==
  ASSUME UipIInv, NEW s \in Socks, sk[s].thread \notin {"none", "exited"},
         NEW r \in SockStates, NEW th, Moved(sk[s], r, th), sk' = [sk EXCEPT ![s] = r],
         NEW o \in OutStates, out' = [out EXCEPT ![s] = o], o = out[s] \/ Afresh(o, sk'),
         o.pc # "off" => th \in {"send", "fin"},
         UNCHANGED <<buf, frame, freeNr, usedNr, list, udp, tx, rx, guest, stop>>
  PROVE  UipIInv'
<1> USE DEF UipIInv
<1>0. /\ r.at = sk[s].at /\ r.wdone = sk[s].wdone /\ r.ack = sk[s].ack /\ r.written = sk[s].written
      /\ r.thread = th /\ (r.rdone => r.thread = "exited")
  BY DEF Moved, SockInv
<1>1. sk' \in [Socks -> SockStates] /\ sk'[s] = r /\ \A c \in Socks : c # s => sk'[c] = sk[c]
  BY SetSock DEF UipTypes
<1>2. out' \in [Actors -> OutStates] /\ out'[s] = o /\ \A c \in Actors : c # s => out'[c] = out[c]
  BY SetOut, Names DEF UipTypes
<1>3. sk[s].at # "none" /\ sk[s].at # "freed"
  BY DEF SockInv, FreshSock
<1>4. UipTypes'
  BY <1>1, <1>2 DEF UipTypes
<1>5. \A c \in Socks : Goes(sk[c], sk'[c])
  <2>1. HasTaken(r) = HasTaken(sk[s]) /\ HasTaken(sk[s]) \in Nat
    BY <1>0, TakenNat DEF HasTaken, UipTypes
  <2>2. Goes(sk[s], sk'[s])
    BY <1>0, <1>1, <2>1 DEF Goes, AckInv
  <2> QED
    BY <1>1, <2>2, GoesAll
<1>6. OutInv' /\ GoneInv' /\ PoolInv' /\ FrameInv' /\ AckInv'
  <2>1. \A a \in Actors : out'[a] = out[a] \/ Afresh(out'[a], sk')
    BY <1>2
  <2> QED
    BY <1>4, <1>5, <2>1, ThreadFrame
<1>7. SockInv'
  <2> SUFFICES ASSUME NEW c \in Socks
               PROVE  /\ sk'[c].at = "none" => sk'[c] = FreshSock
                      /\ sk'[c].at = "freed" => sk'[c].thread = "exited"
                      /\ sk'[c].rdone => sk'[c].thread = "exited"
                      /\ out'[c].pc # "off" => sk'[c].thread \in {"send", "fin"}
    BY DEF SockInv
  <2>1. CASE c = s
    BY <1>0, <1>1, <1>2, <1>3, <2>1
  <2>2. CASE c # s
    BY <1>1, <1>2, <2>2, Names DEF SockInv
  <2> QED
    BY <2>1, <2>2
<1>8. ListInv' /\ TxInv'
  <2>1. \A c \in Socks : sk'[c].at = sk[c].at
    BY <1>0, <1>1
  <2>2. ListInv'
    BY <2>1 DEF ListInv
  <2>3. tx.sk # 0 => tx.sk \in Socks
    BY DEF UipTypes
  <2>4. tx.pc = "send" /\ tx.kind = "syn" => tx.sk # s /\ tx.sk # 0
    BY DEF TxInv
  <2>5. TxInv'
    BY <1>1, <2>1, <2>3, <2>4 DEF TxInv
  <2> QED
    BY <2>2, <2>5
<1>9. StopInv'
  <2>1. out'[TxThread] = out[TxThread] /\ out'[UdpThread] = out[UdpThread]
    BY <1>2, Names
  <2> QED
    BY <2>1, StopFrame DEF StopInv
<1> QED
  BY <1>4, <1>6, <1>7, <1>8, <1>9

\* The fields that the thread of a socket writes.
LEMMA LeftFields ==
  ASSUME NEW f \in SockStates, NEW x \in Int,
         NEW th \in {"none", "read", "win", "send", "eof", "fin", "done", "exited"}
  PROVE  \E r \in SockStates : r = [f EXCEPT !.left = x, !.thread = th] /\ Moved(f, r, th)
<1> DEFINE r == [f EXCEPT !.left = x, !.thread = th]
<1>1. r \in SockStates
  BY DEF SockStates
<1>2. Moved(f, r, th)
  BY DEF SockStates, Moved
<1> QED
  BY <1>1, <1>2, Zenon

\* The records a socket thread's steps store are well typed and move its own
\* fields only.
LEMMA ThreadFields ==
  ASSUME NEW f \in SockStates, NEW x \in Int,
         NEW th \in {"none", "read", "win", "send", "eof", "fin", "done", "exited"}
  PROVE  /\ \E r \in SockStates : r = [f EXCEPT !.seq = x, !.thread = th] /\ Moved(f, r, th)
         /\ \E r \in SockStates : r = [f EXCEPT !.thread = th] /\ Moved(f, r, th)
<1>1. \E r \in SockStates : r = [f EXCEPT !.seq = x, !.thread = th] /\ Moved(f, r, th)
  <2> DEFINE r == [f EXCEPT !.seq = x, !.thread = th]
  <2>1. r \in SockStates
    BY DEF SockStates
  <2>2. Moved(f, r, th)
    BY DEF SockStates, Moved
  <2> QED
    BY <2>1, <2>2, Zenon
<1>2. \E r \in SockStates : r = [f EXCEPT !.thread = th] /\ Moved(f, r, th)
  <2> DEFINE r == [f EXCEPT !.thread = th]
  <2>1. r \in SockStates
    BY DEF SockStates
  <2>2. Moved(f, r, th)
    BY DEF SockStates, Moved
  <2> QED
    BY <2>1, <2>2, Zenon
<1> QED
  BY <1>1, <1>2, Zenon

\* So is the record the thread stores as it exits.
LEMMA ExitFields ==
  ASSUME NEW f \in SockStates
  PROVE  \E r \in SockStates : r = [f EXCEPT !.rdone = TRUE, !.thread = "exited"] /\ Moved(f, r, "exited")
<1> DEFINE r == [f EXCEPT !.rdone = TRUE, !.thread = "exited"]
<1>1. r \in SockStates
  BY DEF SockStates
<1>2. Moved(f, r, "exited")
  BY DEF SockStates, Moved
<1> QED
  BY <1>1, <1>2, Zenon

\* SockRead keeps UipIInv.
LEMMA SockReadKept == ASSUME UipIInv, NEW s \in Socks, NEW n \in 0 .. MaxWin, SockRead(s, n) PROVE UipIInv'
<1>1. PICK th \in {"eof", "win"} :
        /\ sk[s].thread = "read" /\ sk' = [sk EXCEPT ![s].left = n, ![s].thread = th] /\ out' = out
        /\ UNCHANGED <<buf, frame, freeNr, usedNr, list, udp, tx, rx, guest, stop>>
  BY DEF SockRead
<1>2. n \in Int /\ sk[s] \in SockStates /\ sk \in [Socks -> SockStates] /\ out[s] \in OutStates /\ out \in [Actors -> OutStates]
  BY Names DEF UipIInv, UipTypes
<1>3. PICK r \in SockStates : r = [sk[s] EXCEPT !.left = n, !.thread = th] /\ Moved(sk[s], r, th)
  <2>1. CASE th = "eof"
    BY <1>2, <2>1, LeftFields
  <2>2. CASE th = "win"
    BY <1>2, <2>2, LeftFields
  <2> QED
    BY <2>1, <2>2
<1>4. PICK o \in OutStates : o = out[s] /\ o.pc = "off"
  BY <1>1, <1>2 DEF UipIInv, SockInv
<1>5. sk' = [sk EXCEPT ![s] = r] /\ out' = [out EXCEPT ![s] = o]
  BY <1>1, <1>2, <1>3, <1>4
<1> QED
  BY <1>1, <1>3, <1>4, <1>5, SockMoves

\* SockWindow keeps UipIInv.
LEMMA SockWindowKept == ASSUME UipIInv, NEW s \in Socks, SockWindow(s) PROVE UipIInv'
<1>1. PICK len :
        /\ len = IF Room(s) < sk[s].left THEN Room(s) ELSE sk[s].left
        /\ sk[s].thread = "win" /\ sk' = [sk EXCEPT ![s].left = @ - len, ![s].thread = "send"]
        /\ out' = [out EXCEPT ![s] = Sending(s, "ack", len)]
        /\ UNCHANGED <<buf, frame, freeNr, usedNr, list, udp, tx, rx, guest, stop>>
  BY DEF SockWindow
<1>2. sk[s] \in SockStates /\ sk \in [Socks -> SockStates]
  BY DEF UipIInv, UipTypes
<1>3. len \in Int /\ sk[s].left - len \in Int
  BY <1>1, <1>2 DEF Room, SockStates
<1>4. PICK r \in SockStates : /\ r = [sk[s] EXCEPT !.left = sk[s].left - len, !.thread = "send"]
                              /\ Moved(sk[s], r, "send")
  BY <1>2, <1>3, LeftFields
<1>5. sk' = [sk EXCEPT ![s] = r] /\ sk'[s] = r
  BY <1>1, <1>2, <1>4
<1>6. sk'[s].at # "none"
  <2>1. sk[s].at # "none"
    BY <1>1 DEF UipIInv, SockInv, FreshSock
  <2> QED
    BY <1>4, <1>5, <2>1 DEF Moved
<1>7. PICK o \in OutStates : o = Sending(s, "ack", len) /\ Afresh(o, sk')
  BY <1>3, <1>6, SendingAfresh
<1> QED
  BY <1>1, <1>4, <1>5, <1>7, SockMoves

\* SockSent keeps UipIInv.
LEMMA SockSentKept == ASSUME UipIInv, NEW s \in Socks, SockSent(s) PROVE UipIInv'
<1>1. PICK th \in {"win", "read"} :
        /\ sk[s].thread = "send" /\ sk' = [sk EXCEPT ![s].thread = th]
        /\ out' = [out EXCEPT ![s] = Quiet]
        /\ UNCHANGED <<buf, frame, freeNr, usedNr, list, udp, tx, rx, guest, stop>>
  BY DEF SockSent
<1>2. sk[s] \in SockStates /\ sk \in [Socks -> SockStates] /\ 0 \in Int
  BY DEF UipIInv, UipTypes
<1>3. PICK r \in SockStates : r = [sk[s] EXCEPT !.thread = th] /\ Moved(sk[s], r, th)
  <2>1. th \in {"none", "read", "win", "send", "eof", "fin", "done", "exited"}
    OBVIOUS
  <2> QED
    BY <1>2, <2>1, ThreadFields
<1>4. sk' = [sk EXCEPT ![s] = r]
  BY <1>1, <1>2, <1>3
<1>5. PICK o \in OutStates : o = Quiet /\ Afresh(o, sk') /\ o.pc = "off"
  BY OutRecords
<1> QED
  BY <1>1, <1>3, <1>4, <1>5, SockMoves

\* SockEof keeps UipIInv.
LEMMA SockEofKept == ASSUME UipIInv, NEW s \in Socks, SockEof(s) PROVE UipIInv'
<1>1. /\ sk[s].thread = "eof" /\ sk' = [sk EXCEPT ![s].thread = "fin"]
      /\ out' = [out EXCEPT ![s] = Sending(s, "fin", 0)]
      /\ UNCHANGED <<buf, frame, freeNr, usedNr, list, udp, tx, rx, guest, stop>>
  BY DEF SockEof
<1>2. sk[s] \in SockStates /\ sk \in [Socks -> SockStates] /\ 0 \in Int
  BY DEF UipIInv, UipTypes
<1>3. PICK r \in SockStates : r = [sk[s] EXCEPT !.thread = "fin"] /\ Moved(sk[s], r, "fin")
  BY <1>2, ThreadFields
<1>4. sk' = [sk EXCEPT ![s] = r] /\ sk'[s] = r
  BY <1>1, <1>2, <1>3
<1>5. sk'[s].at # "none"
  <2>1. sk[s].at # "none"
    BY <1>1 DEF UipIInv, SockInv, FreshSock
  <2> QED
    BY <1>3, <1>4, <2>1 DEF Moved
<1>6. PICK o \in OutStates : o = Sending(s, "fin", 0) /\ Afresh(o, sk')
  BY <1>2, <1>5, SendingAfresh
<1> QED
  BY <1>1, <1>3, <1>4, <1>6, SockMoves

\* SockFin keeps UipIInv.
LEMMA SockFinKept == ASSUME UipIInv, NEW s \in Socks, SockFin(s) PROVE UipIInv'
<1>0. UNCHANGED <<buf, frame, freeNr, usedNr, list, udp, tx, rx, guest, stop>>
  BY DEF SockFin
<1>1. /\ sk[s] \in SockStates /\ sk \in [Socks -> SockStates] /\ 0 \in Int
      /\ out[s] \in OutStates /\ out \in [Actors -> OutStates]
  BY Names DEF UipIInv, UipTypes
<1>2. CASE /\ sk[s].thread = "fin" /\ sk' = [sk EXCEPT ![s].seq = @ + 1, ![s].thread = "done"]
           /\ out' = [out EXCEPT ![s] = Quiet]
  <2>1. sk[s].seq + 1 \in Int
    BY <1>1 DEF SockStates
  <2>2. PICK r \in SockStates : r = [sk[s] EXCEPT !.seq = sk[s].seq + 1, !.thread = "done"] /\ Moved(sk[s], r, "done")
    BY <1>1, <2>1, ThreadFields
  <2>3. sk' = [sk EXCEPT ![s] = r]
    BY <1>1, <1>2, <2>2
  <2>4. PICK o \in OutStates : o = Quiet /\ Afresh(o, sk') /\ o.pc = "off"
    BY OutRecords
  <2> QED
    BY <1>0, <1>2, <2>2, <2>3, <2>4, SockMoves
<1>3. CASE /\ sk[s].thread = "done" /\ sk' = [sk EXCEPT ![s].rdone = TRUE, ![s].thread = "exited"]
           /\ out' = out
  <2>1. PICK r \in SockStates : r = [sk[s] EXCEPT !.rdone = TRUE, !.thread = "exited"] /\ Moved(sk[s], r, "exited")
    BY <1>1, ExitFields
  <2>2. PICK o \in OutStates : o = out[s] /\ o.pc = "off"
    BY <1>1, <1>3 DEF UipIInv, SockInv
  <2>3. sk' = [sk EXCEPT ![s] = r] /\ out' = [out EXCEPT ![s] = o]
    BY <1>1, <1>3, <2>1, <2>2
  <2> QED
    BY <1>0, <1>3, <2>1, <2>2, <2>3, SockMoves
<1> QED
  BY <1>1, <1>2, <1>3 DEF SockFin, DoneAt

\* The UDP thread.
LEMMA UdpRecvKept == ASSUME UipIInv, UdpRecv PROVE UipIInv'
<1> USE DEF UipIInv
<1>1. /\ udp = "epoll" /\ udp' = "send" /\ out' = [out EXCEPT ![UdpThread] = Asking("udp")]
      /\ UNCHANGED <<buf, frame, freeNr, usedNr, sk, list, tx, rx, guest, stop>>
  BY DEF UdpRecv
<1>2. PICK o \in OutStates : o = Asking("udp") /\ Afresh(o, sk')
  BY OutRecords
<1>3. /\ out' \in [Actors -> OutStates] /\ out'[UdpThread] = o
      /\ \A c \in Actors : c # UdpThread => out'[c] = out[c]
  BY <1>1, <1>2, SetOut, Names DEF UipTypes
<1>4. UipTypes'
  BY <1>1, <1>3 DEF UipTypes
<1>5. OutInv' /\ GoneInv' /\ PoolInv' /\ FrameInv' /\ AckInv'
  <2>1. \A a \in Actors : out'[a] = out[a] \/ Afresh(out'[a], sk')
    BY <1>2, <1>3
  <2>2. \A c \in Socks : Goes(sk[c], sk'[c])
    BY <1>1, GoesSame
  <2> QED
    BY <1>1, <1>4, <2>1, <2>2, ThreadFrame
<1>6. SockInv' /\ ListInv' /\ TxInv'
  <2>1. \A c \in Socks : out'[c] = out[c]
    BY <1>3, Names
  <2> QED
    BY <1>1, <2>1 DEF SockInv, ListInv, TxInv
<1>7. StopInv'
  <2>1. out'[TxThread] = out[TxThread]
    BY <1>3, Names
  <2> QED
    BY <1>1, <2>1, StopFrame DEF StopInv
<1> QED
  BY <1>4, <1>5, <1>6, <1>7

\* UdpSend keeps UipIInv.
LEMMA UdpSendKept == ASSUME UipIInv, UdpSend PROVE UipIInv'
<1> USE DEF UipIInv
<1>1. PICK b : b = out[UdpThread].buf
  OBVIOUS
<1>2. /\ udp = "send" /\ udp' = "epoll" /\ out[UdpThread].pc = "fill"
      /\ buf' = [buf EXCEPT ![b] = "USED"] /\ frame' = [frame EXCEPT ![b] = out[UdpThread].fr]
      /\ usedNr' = usedNr + 1 /\ out' = [out EXCEPT ![UdpThread] = Quiet]
      /\ UNCHANGED <<freeNr, sk, list, tx, rx, guest, stop>>
  BY <1>1 DEF UdpSend, SetUsed
<1>3. /\ out' \in [Actors -> OutStates] /\ out'[UdpThread] = Quiet
      /\ \A c \in Actors : c # UdpThread => out'[c] = out[c]
  BY <1>2, OutRecords, SetOut, Names DEF UipTypes
<1>4. GoneInv' /\ PoolInv' /\ b \in Bufs
  <2>1. \A c \in Actors : out'[c].buf = IF c = UdpThread THEN 0 ELSE out[c].buf
    BY <1>3, OutRecords
  <2>2. \A c \in Bufs : buf'[c] = IF c = b THEN "USED" ELSE buf[c]
    BY <1>2 DEF UipTypes
  <2>3. Cooks(UdpThread)
    BY <1>2 DEF Cooks
  <2> QED
    BY <1>1, <1>2, <2>1, <2>2, <2>3, PoolUsed, Names
<1>5. /\ buf' \in [Bufs -> {"FREE", "INUSE", "USED", "GONE"}] /\ frame' \in [Bufs -> Frames] /\ usedNr' \in Int
      /\ \A c \in Bufs : frame'[c] = frame[c] \/ \E a \in Actors : frame'[c] = out[a].fr
  <2>1. out[UdpThread].fr \in Frames
    BY Names DEF UipTypes, OutStates
  <2> QED
    BY <1>2, <1>4, <2>1, Names DEF UipTypes
<1>6. UipTypes'
  BY <1>2, <1>3, <1>5 DEF UipTypes
<1>7. OutInv'
  <2>1. \A c \in Actors : Cooks(c)' <=> out'[c].buf # 0
    BY <1>3, OutRecords DEF Cooks, OutInv
  <2>2. \A c \in Actors : out'[c].pc = "store" => out'[c].fr.kind = "tcp"
    BY <1>3, OutRecords DEF OutInv
  <2> QED
    BY <1>2, <2>1, <2>2 DEF OutInv
<1>8. SockInv' /\ ListInv' /\ TxInv'
  <2>1. \A c \in Socks : out'[c] = out[c]
    BY <1>3, Names
  <2> QED
    BY <1>2, <2>1 DEF SockInv, ListInv, TxInv
<1>9. \A c \in Actors : out'[c].fr = out[c].fr \/ out'[c].fr.kind # "tcp"
  BY <1>3, OutRecords
<1>10. FrameInv'
  BY <1>2, <1>9 DEF FrameInv
<1>11. AckInv'
  <2>1. \A r \in Socks : Goes(sk[r], sk'[r])
    BY <1>2, GoesSame
  <2> QED
    BY <1>5, <1>6, <1>9, <2>1, AckFrame DEF Goes
<1>12. StopInv'
  <2>1. out'[TxThread] = out[TxThread] /\ out'[UdpThread].pc = "off"
    BY <1>3, OutRecords, Names
  <2> QED
    BY <1>2, <2>1, StopFrame DEF StopInv
<1> QED
  BY <1>4, <1>6, <1>7, <1>8, <1>10, <1>11, <1>12

\* A reset goes on by one stage.
LEMMA StageNext ==
  ASSUME NEW i \in 1 .. 4, Stopping(i), stop' = Tail(stop)
  PROVE  /\ ~ResetOver /\ ~ResetOver' /\ Stopping(i + 1)'
         /\ \A j \in 1 .. 5 : (Stopping(j) <=> j = i) /\ (Stopping(j)' <=> j = i + 1)
<1>1. i \in 1 .. 5 /\ i + 1 \in 1 .. 5
  OBVIOUS
<1>2. stop = StopFrom[i] /\ stop' = StopFrom[i + 1]
  BY StopOrder DEF Stopping
<1>3. \A j \in 1 .. 5 : (StopFrom[i] = StopFrom[j] => j = i) /\ (StopFrom[i + 1] = StopFrom[j] => j = i + 1)
  BY <1>1, StagesDiffer
<1>4. stop # <<>> /\ stop' # <<>>
  BY <1>1, <1>2, StopOrder
<1>5. Stopping(i + 1)'
  BY <1>2 DEF Stopping
<1>6. \A j \in 1 .. 5 : (Stopping(j) <=> j = i) /\ (Stopping(j)' <=> j = i + 1)
  <2> SUFFICES ASSUME NEW j \in 1 .. 5 PROVE (Stopping(j) <=> j = i) /\ (Stopping(j)' <=> j = i + 1)
    OBVIOUS
  <2>1. Stopping(j) <=> StopFrom[i] = StopFrom[j]
    BY <1>2 DEF Stopping
  <2>2. Stopping(j)' <=> StopFrom[i + 1] = StopFrom[j]
    BY <1>2 DEF Stopping
  <2> QED
    BY <1>3, <2>1, <2>2
<1> QED
  BY <1>4, <1>5, <1>6 DEF ResetOver

\* What StopInv says of a stage.
StageInv(i) ==
  /\ rx.pc = "off" <=> i \in 2 .. 5
  /\ tx.pc = "off" <=> i \in 3 .. 5
  /\ i \in 4 .. 5 => udp = "none"
  /\ i = 5 => list = <<>>
  /\ tx.pc = "off" => out[TxThread].pc = "off"
  /\ out[UdpThread].pc # "off" => udp = "send"

\* At stage i of the stop sequence its invariant is that stage's.
LEMMA AtStage ==
  ASSUME NEW i \in 1 .. 5, Stopping(i), StopInv
  PROVE  StageInv(i) /\ ~ResetOver
<1>1. ~ResetOver
  BY StopOrder DEF Stopping, ResetOver
<1>2. \A j \in 1 .. 5 : Stopping(j) => j = i
  BY StagesDiffer DEF Stopping
<1>3. \A j \in 2 .. 5 : j \in 1 .. 5
  OBVIOUS
<1>4. \A j \in 3 .. 5 : j \in 1 .. 5
  OBVIOUS
<1>5. \A j \in 4 .. 5 : j \in 1 .. 5
  OBVIOUS
<1> HIDE DEF Stopping, ResetOver
<1>6. rx.pc = "off" <=> i \in 2 .. 5
  BY <1>1, <1>2, <1>3 DEF StopInv
<1>7. tx.pc = "off" <=> i \in 3 .. 5
  BY <1>1, <1>2, <1>4 DEF StopInv
<1>8. (i \in 4 .. 5 => udp = "none") /\ (i = 5 => list = <<>>)
  BY DEF StopInv
<1> QED
  BY <1>1, <1>6, <1>7, <1>8 DEF StopInv, StageInv

\* Reaching stage i of the stop sequence with that stage's invariant is
\* enough.
LEMMA ToStage ==
  ASSUME NEW i \in 1 .. 5, Stopping(i)', StageInv(i)'
  PROVE  StopInv' /\ ~ResetOver'
<1>1. ~ResetOver'
  BY StopOrder DEF Stopping, ResetOver
<1>2. \A j \in 1 .. 5 : Stopping(j)' => j = i
  BY StagesDiffer DEF Stopping
<1>3. \A j \in 2 .. 5 : j \in 1 .. 5
  OBVIOUS
<1>4. \A j \in 3 .. 5 : j \in 1 .. 5
  OBVIOUS
<1>5. (\A j \in 4 .. 5 : j \in 1 .. 5) /\ 5 \in 1 .. 5
  OBVIOUS
<1> HIDE DEF Stopping, ResetOver
<1>6. rx'.pc = "off" <=> ResetOver' \/ \E j \in 2 .. 5 : Stopping(j)'
  BY <1>1, <1>2, <1>3 DEF StageInv
<1>7. tx'.pc = "off" <=> ResetOver' \/ \E j \in 3 .. 5 : Stopping(j)'
  BY <1>1, <1>2, <1>4 DEF StageInv
<1>8. ResetOver' \/ (\E j \in 4 .. 5 : Stopping(j)') => udp' = "none"
  BY <1>1, <1>2, <1>5 DEF StageInv
<1>9. ResetOver' \/ Stopping(5)' => list' = <<>>
  BY <1>1, <1>2, <1>5 DEF StageInv
<1>10. (tx'.pc = "off" => out'[TxThread].pc = "off") /\ (out'[UdpThread].pc # "off" => udp' = "send")
  BY DEF StageInv
<1> QED
  BY <1>1, <1>6, <1>7, <1>8, <1>9, <1>10, Zenon DEF StopInv

\* Reset keeps UipIInv.
LEMMA ResetKept == ASSUME UipIInv, Reset PROVE UipIInv'
<1> USE DEF UipIInv
<1>1. /\ stop = <<>> /\ rx.pc # "off" /\ stop' = ResetOrder
      /\ UNCHANGED <<buf, frame, freeNr, usedNr, sk, list, udp, tx, rx, out, guest>>
  BY DEF Reset
<1>2. ~ResetOver
  BY <1>1 DEF ResetOver
<1>3. tx.pc # "off"
  <2>1. \A i \in 1 .. 5 : ~Stopping(i)
    BY <1>1, StopOrder DEF Stopping
  <2>2. \A i \in 3 .. 5 : i \in 1 .. 5
    OBVIOUS
  <2> QED
    BY <1>2, <2>1, <2>2 DEF StopInv
<1>4. StageInv(1)'
  BY <1>1, <1>3 DEF StageInv, StopInv
<1>5. StopInv' /\ ~ResetOver'
  <2>1. Stopping(1)'
    BY <1>1, StopOrder DEF Stopping
  <2> QED
    BY <1>4, <2>1, ToStage
<1>6. GoneInv' /\ PoolInv'
  BY <1>1, <1>2, <1>5, PoolFrame
<1>7. UipTypes' /\ OutInv' /\ SockInv' /\ FrameInv' /\ ListInv' /\ TxInv' /\ AckInv'
  BY <1>1 DEF UipTypes, OutInv, Cooks, SockInv, FrameInv, ListInv, TxInv, AckInv
<1> QED
  BY <1>5, <1>6, <1>7

\* StopRx keeps UipIInv.
LEMMA StopRxKept == ASSUME UipIInv, StopRx PROVE UipIInv'
<1> USE DEF UipIInv
<1>1. /\ Doing("rx") /\ rx.pc = "get" /\ rx' = [pc |-> "off", buf |-> 0] /\ stop' = Tail(stop)
      /\ UNCHANGED <<buf, frame, freeNr, usedNr, sk, list, udp, tx, out, guest>>
  BY DEF StopRx
<1>2. Stopping(1) /\ 1 \in 1 .. 4 /\ 1 \in 1 .. 5 /\ 2 \in 1 .. 5
  BY <1>1, StageOf
<1>3. ~ResetOver /\ ~ResetOver' /\ Stopping(1 + 1)'
  BY <1>1, <1>2, StageNext
<1>4. StageInv(1)
  BY <1>2, AtStage
<1>5. StageInv(2)'
  BY <1>1, <1>4 DEF StageInv
<1>6. StopInv'
  <2>1. Stopping(2)'
    BY <1>3
  <2> QED
    BY <1>2, <1>5, <2>1, ToStage
<1>7. rx.buf = 0
  BY <1>1 DEF OutInv
<1>8. GoneInv' /\ PoolInv'
  BY <1>1, <1>3, <1>7, PoolFrame
<1>9. UipTypes' /\ OutInv' /\ SockInv' /\ FrameInv' /\ ListInv' /\ TxInv' /\ AckInv'
  BY <1>1 DEF UipTypes, OutInv, Cooks, SockInv, FrameInv, ListInv, TxInv, AckInv
<1> QED
  BY <1>6, <1>8, <1>9

\* A thread is stopped that has no buffer, or that lets its frame go.
LEMMA QuietFrame ==
  ASSUME UipIInv, NEW a \in {TxThread, UdpThread}, out' = [out EXCEPT ![a] = Quiet],
         ResetOver' <=> ResetOver, UNCHANGED <<buf, frame, freeNr, usedNr, sk, list, rx, guest>>
  PROVE  /\ out' \in [Actors -> OutStates] /\ out'[a].pc = "off"
         /\ \A c \in Actors : c # a => out'[c] = out[c]
         /\ OutInv' /\ GoneInv' /\ PoolInv' /\ SockInv' /\ FrameInv' /\ ListInv' /\ AckInv'
<1> USE DEF UipIInv
<1>1. a \in Actors /\ a \notin Socks
  BY Names
<1>2. out' \in [Actors -> OutStates] /\ out'[a] = Quiet /\ \A c \in Actors : c # a => out'[c] = out[c]
  BY <1>1, OutRecords, SetOut DEF UipTypes
<1>3. out'[a].pc = "off" /\ out'[a].buf = 0 /\ out'[a].fr.kind = "none"
  BY <1>2, OutRecords
<1>4. OutInv'
  <2>1. \A c \in Actors : Cooks(c)' <=> out'[c].buf # 0
    BY <1>2, <1>3 DEF Cooks, OutInv
  <2>2. \A c \in Actors : out'[c].pc = "store" => out'[c].fr.kind = "tcp"
    BY <1>2, <1>3 DEF OutInv
  <2> QED
    BY <2>1, <2>2 DEF OutInv
<1>5. GoneInv' /\ PoolInv'
  <2>1. \A c \in Actors : out'[c].buf = 0 \/ out'[c].buf = out[c].buf
    BY <1>2, <1>3
  <2> QED
    BY <2>1, PoolFrame
<1>6. SockInv' /\ ListInv'
  <2>1. \A c \in Socks : out'[c] = out[c]
    BY <1>1, <1>2, Names
  <2> QED
    BY <2>1 DEF SockInv, ListInv
<1>7. FrameInv' /\ AckInv'
  <2>1. \A c \in Actors : out'[c].fr = out[c].fr \/ out'[c].fr.kind # "tcp"
    BY <1>2, <1>3
  <2> QED
    BY <2>1 DEF FrameInv, AckInv
<1> QED
  BY <1>2, <1>3, <1>4, <1>5, <1>6, <1>7

\* StopTx keeps UipIInv.
LEMMA StopTxKept == ASSUME UipIInv, StopTx PROVE UipIInv'
<1> USE DEF UipIInv
<1>1. /\ Doing("tx") /\ tx' = [TxIdle EXCEPT !.pc = "off"] /\ out' = [out EXCEPT ![TxThread] = Quiet]
      /\ stop' = Tail(stop)
      /\ UNCHANGED <<buf, frame, freeNr, usedNr, sk, list, udp, rx, guest>>
  BY DEF StopTx
<1>2. Stopping(2) /\ 2 \in 1 .. 4 /\ 2 \in 1 .. 5 /\ 3 \in 1 .. 5
  BY <1>1, StageOf
<1>3. ~ResetOver /\ ~ResetOver' /\ Stopping(2 + 1)'
  BY <1>1, <1>2, StageNext
<1>4. /\ out' \in [Actors -> OutStates] /\ out'[TxThread].pc = "off"
      /\ \A c \in Actors : c # TxThread => out'[c] = out[c]
      /\ OutInv' /\ GoneInv' /\ PoolInv' /\ SockInv' /\ FrameInv' /\ ListInv' /\ AckInv'
  BY <1>1, <1>3, QuietFrame
<1>5. tx' \in [pc : TxPlaces, kind : Kinds \cup {"none"}, sk : Socks \cup {0}] /\ tx'.pc = "off" /\ tx'.sk = 0
  BY <1>1 DEF TxIdle, TxPlaces
<1>6. UipTypes'
  BY <1>1, <1>4, <1>5 DEF UipTypes
<1>7. TxInv'
  BY <1>5 DEF TxInv
<1>8. StageInv(2)
  BY <1>2, AtStage
<1>9. out'[UdpThread] = out[UdpThread]
  BY <1>4, Names
<1>10. StageInv(3)'
  BY <1>1, <1>4, <1>5, <1>8, <1>9 DEF StageInv
<1>11. StopInv'
  <2>1. Stopping(3)'
    BY <1>3
  <2> QED
    BY <1>2, <1>10, <2>1, ToStage
<1> QED
  BY <1>4, <1>6, <1>7, <1>11

\* StopUdp keeps UipIInv.
LEMMA StopUdpKept == ASSUME UipIInv, StopUdp PROVE UipIInv'
<1> USE DEF UipIInv
<1>1. /\ Doing("udp") /\ udp' = "none" /\ out' = [out EXCEPT ![UdpThread] = Quiet] /\ stop' = Tail(stop)
      /\ UNCHANGED <<buf, frame, freeNr, usedNr, sk, list, tx, rx, guest>>
  BY DEF StopUdp
<1>2. Stopping(3) /\ 3 \in 1 .. 4 /\ 3 \in 1 .. 5 /\ 4 \in 1 .. 5
  BY <1>1, StageOf
<1>3. ~ResetOver /\ ~ResetOver' /\ Stopping(3 + 1)'
  BY <1>1, <1>2, StageNext
<1>4. /\ out' \in [Actors -> OutStates] /\ out'[UdpThread].pc = "off"
      /\ \A c \in Actors : c # UdpThread => out'[c] = out[c]
      /\ OutInv' /\ GoneInv' /\ PoolInv' /\ SockInv' /\ FrameInv' /\ ListInv' /\ AckInv'
  BY <1>1, <1>3, QuietFrame
<1>5. UipTypes' /\ TxInv'
  BY <1>1, <1>4 DEF UipTypes, TxInv
<1>6. StageInv(3)
  BY <1>2, AtStage
<1>7. out'[TxThread] = out[TxThread]
  BY <1>4, Names
<1>8. StageInv(4)'
  BY <1>1, <1>4, <1>6, <1>7 DEF StageInv
<1>9. StopInv'
  <2>1. Stopping(4)'
    BY <1>3
  <2> QED
    BY <1>2, <1>8, <2>1, ToStage
<1> QED
  BY <1>4, <1>5, <1>9

\* StopTcp keeps UipIInv.
LEMMA StopTcpKept == ASSUME UipIInv, StopTcp PROVE UipIInv'
<1> USE DEF UipIInv
<1>1. /\ Doing("tcp") /\ UNCHANGED <<buf, frame, freeNr, usedNr, sk, list, udp, tx, rx, out, guest>>
      /\ (list = <<>> /\ stop' = Tail(stop)) \/ stop' = stop
  BY DEF StopTcp
<1>2. UipTypes' /\ OutInv' /\ SockInv' /\ FrameInv' /\ ListInv' /\ TxInv' /\ AckInv'
  BY <1>1 DEF UipTypes, OutInv, Cooks, SockInv, FrameInv, ListInv, TxInv, AckInv
<1>3. StopInv' /\ (ResetOver' <=> ResetOver)
  <2>1. CASE stop' = stop
    BY <1>1, <2>1, StopFrame DEF StopInv
  <2>2. CASE list = <<>> /\ stop' = Tail(stop)
    <3>1. Stopping(4) /\ 4 \in 1 .. 4 /\ 4 \in 1 .. 5 /\ 5 \in 1 .. 5
      BY <1>1, StageOf
    <3>2. ~ResetOver /\ ~ResetOver' /\ Stopping(4 + 1)'
      BY <2>2, <3>1, StageNext
    <3>3. StageInv(4)
      BY <3>1, AtStage
    <3>4. StageInv(5)'
      BY <1>1, <2>2, <3>3 DEF StageInv
    <3>5. Stopping(5)'
      BY <3>2
    <3> QED
      BY <3>1, <3>2, <3>4, <3>5, ToStage
  <2> QED
    BY <1>1, <2>1, <2>2
<1>4. GoneInv' /\ PoolInv'
  BY <1>1, <1>3, PoolFrame
<1> QED
  BY <1>2, <1>3, <1>4

\* StopFree keeps UipIInv.
LEMMA StopFreeKept == ASSUME UipIInv, StopFree PROVE UipIInv'
<1> USE DEF UipIInv
<1>1. /\ Doing("free") /\ buf' = [b \in Bufs |-> "GONE"] /\ frame' = [b \in Bufs |-> NoFrame]
      /\ usedNr' = 0 /\ stop' = Tail(stop)
      /\ UNCHANGED <<freeNr, sk, list, udp, tx, rx, out, guest>>
  BY DEF StopFree
<1>2. Stopping(5)
  BY <1>1, StageOf
<1>3. /\ \A a \in Actors : out[a].pc = "off" /\ out[a].buf = 0
      /\ rx.pc = "off" /\ rx.buf = 0 /\ tx.pc = "off" /\ udp = "none" /\ list = <<>>
  BY <1>2, NobodyHolds
<1>4. stop' = <<>> /\ ResetOver'
  BY <1>1, <1>2, <1>3, StopOrder DEF Stopping, ResetOver
<1>5. UipTypes'
  <2>1. NoFrame \in Frames
    BY DEF NoFrame, Frames
  <2>2. buf' \in [Bufs -> {"FREE", "INUSE", "USED", "GONE"}] /\ frame' \in [Bufs -> Frames] /\ usedNr' \in Int
    BY <1>1, <2>1
  <2> QED
    BY <1>1, <2>2 DEF UipTypes
<1>6. OutInv' /\ SockInv' /\ FrameInv' /\ ListInv' /\ TxInv'
  BY <1>1 DEF OutInv, Cooks, SockInv, FrameInv, ListInv, TxInv
<1>7. GoneInv'
  BY <1>1, <1>4 DEF GoneInv, AllGone
<1>8. PoolInv'
  <2>1. \A b \in Bufs : buf'[b] = "GONE"
    BY <1>1
  <2>2. Counted(buf', "USED") = 0
    BY <2>1, CountAll
  <2> QED
    BY <1>1, <1>4, <2>2 DEF PoolInv
<1>9. AckInv'
  <2>1. \A b \in Bufs : frame'[b].kind # "tcp"
    BY <1>1 DEF NoFrame
  <2> QED
    BY <1>1, <2>1 DEF AckInv
<1>10. StopInv'
  BY <1>1, <1>3, <1>4, Names DEF StopInv
<1> QED
  BY <1>5, <1>6, <1>7, <1>8, <1>9, <1>10

\* Restart keeps UipIInv.
LEMMA RestartKept == ASSUME UipIInv, Restart PROVE UipIInv'
<1> USE DEF UipIInv
<1>1. /\ stop = <<>> /\ rx.pc = "off" /\ buf' = [b \in Bufs |-> "FREE"] /\ freeNr' = Cardinality(Bufs)
      /\ rx' = [pc |-> "get", buf |-> 0] /\ tx' = TxIdle /\ guest' = [nxt |-> 0, stream |-> TRUE]
      /\ UNCHANGED <<frame, usedNr, sk, list, udp, out, stop>>
  BY DEF Restart
<1>2. ResetOver /\ ~ResetOver'
  BY <1>1 DEF ResetOver
<1>3. \A a \in Actors : out[a].pc = "off" /\ out[a].buf = 0
  BY <1>2, NobodyHolds
<1>4. UipTypes'
  <2>1. /\ buf' \in [Bufs -> {"FREE", "INUSE", "USED", "GONE"}] /\ freeNr' \in Int
        /\ rx' \in [pc : {"get", "copy", "off"}, buf : Bufs \cup {0}]
        /\ guest' \in [nxt : Int, stream : BOOLEAN]
    BY <1>1, Names
  <2> QED
    BY <1>1, <2>1, IdleTyped DEF UipTypes
<1>5. OutInv' /\ SockInv' /\ FrameInv' /\ ListInv' /\ TxInv' /\ AckInv'
  BY <1>1, IdleTyped DEF OutInv, Cooks, SockInv, FrameInv, ListInv, TxInv, AckInv
<1>6. GoneInv'
  BY <1>1, <1>2 DEF GoneInv, AllGone
<1>7. PoolInv'
  <2>1. \A b \in Bufs : buf'[b] = "FREE"
    BY <1>1
  <2>2. Counted(buf', "USED") = 0 /\ Counted(buf', "FREE") = Cardinality(Bufs)
    BY <2>1, CountAll, ZenonT(60)
  <2>3. Counted(buf, "USED") = 0
    <3>1. \A b \in Bufs : buf[b] = "GONE"
      BY <1>2 DEF GoneInv, AllGone
    <3> QED
      BY <3>1, CountAll, ZenonT(60)
  <2>4. Owned'
    BY <1>1, <1>3 DEF Owned
  <2> QED
    BY <1>1, <2>2, <2>3, <2>4 DEF PoolInv
<1>8. StopInv'
  <2>1. \A i \in 1 .. 5 : ~Stopping(i)'
    BY <1>1, StopOrder DEF Stopping
  <2>2. (\A i \in 2 .. 5 : i \in 1 .. 5) /\ (\A i \in 3 .. 5 : i \in 1 .. 5)
    OBVIOUS
  <2>3. (\A i \in 4 .. 5 : i \in 1 .. 5) /\ 5 \in 1 .. 5
    OBVIOUS
  <2>4. rx'.pc # "off" /\ tx'.pc # "off" /\ stop' = <<>>
    BY <1>1, IdleTyped
  <2>5. out'[UdpThread].pc = "off"
    BY <1>1, <1>3, Names
  <2> HIDE DEF Stopping
  <2> QED
    BY <1>2, <2>1, <2>2, <2>3, <2>4, <2>5 DEF StopInv
<1> QED
  BY <1>4, <1>5, <1>6, <1>7, <1>8

\* Every step of the user mode stack keeps UipIInv.
LEMMA UipKept == ASSUME UipIInv, UipNext PROVE UipIInv'
<1>1. ASSUME UipRx PROVE UipIInv'
  BY <1>1, RxTakeKept, RxGiveKept DEF UipRx
<1>2. ASSUME UipTx PROVE UipIInv'
  BY <1>2, Names, GetFreeKept, FillKept, SeqStoreKept, TxReplyKept, TxFinKept, TxSentKept,
     TxUdpKept, TxSynKept, TxFindKept, TxDataKept DEF UipTx
<1>3. ASSUME UipUdp PROVE UipIInv'
  BY <1>3, Names, GetFreeKept, UdpSendKept DEF UipUdp
<1>4. ASSUME UipStop PROVE UipIInv'
  BY <1>4, StopRxKept, StopTxKept, StopUdpKept, StopTcpKept, StopFreeKept DEF UipStop
<1>5. ASSUME NEW s \in Socks, UipSock(s) PROVE UipIInv'
  BY <1>5, Names, GetFreeKept, FillKept, SeqStoreKept, SockWindowKept, SockSentKept, SockEofKept,
     SockFinKept DEF UipSock
<1> QED
  BY <1>1, <1>2, <1>3, <1>4, <1>5, SockReadKept, UdpRecvKept, TransmitKept, ResetKept, RestartKept
  DEF UipNext

\* UipIInv holds of the stack before the guest drives it.
LEMMA UipStarts == UipInit => UipIInv
<1> SUFFICES ASSUME UipInit PROVE UipIInv
  OBVIOUS
<1> USE DEF UipInit
<1>1. \A b \in Bufs : buf[b] = "FREE" /\ frame[b] = NoFrame /\ frame[b].kind = "none"
  BY DEF NoFrame
<1>2. \A a \in Actors : out[a].pc = "off" /\ out[a].buf = 0 /\ out[a].fr.kind = "none"
  BY OutRecords
<1>3. \A s \in Socks : sk[s] = FreshSock
  OBVIOUS
<1>4. FreshSock \in SockStates /\ FreshSock.at = "none" /\ ~FreshSock.rdone /\ FreshSock.ack = HasTaken(FreshSock)
  BY DEF FreshSock, SockStates, NeverAcked, HasTaken
<1>5. UipTypes
  <2>1. NoFrame \in Frames
    BY DEF NoFrame, Frames
  <2>2. buf \in [Bufs -> {"FREE", "INUSE", "USED", "GONE"}] /\ frame \in [Bufs -> Frames] /\ freeNr \in Int /\ usedNr \in Int
    BY <2>1, Names
  <2>3. sk \in [Socks -> SockStates] /\ out \in [Actors -> OutStates]
    BY <1>4, OutRecords
  <2>4. /\ tx \in [pc : TxPlaces, kind : Kinds \cup {"none"}, sk : Socks \cup {0}]
        /\ rx \in [pc : {"get", "copy", "off"}, buf : Bufs \cup {0}]
        /\ guest \in [nxt : Int, stream : BOOLEAN] /\ list \in Seq(Socks)
    BY DEF TxPlaces
  <2> QED
    BY <2>2, <2>3, <2>4 DEF UipTypes
<1>6. rx.pc = "get" /\ rx.buf = 0 /\ tx.pc = "idle" /\ tx.sk = 0 /\ ~ResetOver
  BY DEF ResetOver
<1>7. OutInv
  BY <1>2, <1>6 DEF OutInv, Cooks
<1>8. GoneInv
  BY <1>1, <1>6 DEF GoneInv, AllGone
<1>9. PoolInv
  <2>1. \A b \in Bufs : buf[b] = "FREE"
    BY <1>1
  <2>2. Counted(buf, "USED") = 0 /\ Counted(buf, "FREE") = Cardinality(Bufs)
    BY <2>1, CountAll
  <2>3. usedNr = 0 /\ freeNr = Cardinality(Bufs)
    OBVIOUS
  <2> QED
    BY <1>2, <1>6, <2>2, <2>3 DEF PoolInv, Owned
<1>10. SockInv /\ FrameInv
  BY <1>2, <1>3, <1>4, Names DEF SockInv, FrameInv
<1>11. ListInv /\ TxInv
  <2>1. Len(list) = 0
    OBVIOUS
  <2> QED
    BY <1>3, <1>4, <1>6, <2>1 DEF ListInv, TxInv
<1>12. AckInv
  BY <1>1, <1>2, <1>3, <1>4 DEF AckInv
<1>13. StopInv
  <2>1. \A i \in 1 .. 5 : ~Stopping(i)
    BY StopOrder DEF Stopping
  <2>2. (\A i \in 2 .. 5 : i \in 1 .. 5) /\ (\A i \in 3 .. 5 : i \in 1 .. 5)
    OBVIOUS
  <2>3. (\A i \in 4 .. 5 : i \in 1 .. 5) /\ 5 \in 1 .. 5
    OBVIOUS
  <2> QED
    BY <1>2, <1>6, <2>1, <2>2, <2>3, Names DEF StopInv
<1> QED
  BY <1>5, <1>7, <1>8, <1>9, <1>10, <1>11, <1>12, <1>13 DEF UipIInv

\* What the inductive invariant says of the properties of the stack.
LEMMA UipHolds == UipIInv => UipInv
<1> SUFFICES ASSUME UipIInv PROVE UipInv
  OBVIOUS
<1> USE DEF UipIInv
<1>1. UipTypeOK
  BY DEF UipTypes, UipTypeOK, OutStates
<1>2. BufInv
  <2> SUFFICES ASSUME \A b \in Bufs : buf[b] # "GONE" PROVE BufInv
    BY DEF BufInv
  <2>1. ~ResetOver
    BY UipAssumption DEF GoneInv, AllGone
  <2>2. freeNr = Counted(buf, "FREE") /\ usedNr = Counted(buf, "USED") /\ Owned
    BY <2>1 DEF PoolInv
  <2> QED
    BY <2>2 DEF BufInv, Counted, Owned, Holders
<1>3. SocketAlive
  <2>1. \A s \in Socks : tx.sk = s => sk[s].at = "listed"
    BY Names DEF TxInv
  <2> QED
    BY <2>1 DEF SocketAlive, SockInv
<1>4. AckTrue
  BY DEF AckTrue, AckInv, HasTaken
<1>5. ResetSafe
  <2> SUFFICES ASSUME \E b \in Bufs : buf[b] = "GONE" PROVE Holders = {} /\ rx.buf = 0
    BY DEF ResetSafe
  <2>1. ResetOver
    BY DEF GoneInv
  <2> QED
    BY <2>1, NobodyHolds DEF Holders
<1> QED
  BY <1>1, <1>2, <1>3, <1>4, <1>5 DEF UipInv

\* Whatever the order of the guest's frames, the host's data, the threads of the stack and
\* the resets of the device: the counters the threads wait on agree with the buffers, no
\* two threads have the same buffer, no freed socket is used, nothing is acknowledged to
\* the guest that the host did not take, and a reset frees no buffer in use (net/uip).
THEOREM StackSafe == MCSpec => []UipInv
<1>1. MCInit => UipIInv
  BY UipStarts DEF MCInit
<1>2. UipIInv /\ [MCNext]_all => UipIInv'
  <2> SUFFICES ASSUME UipIInv, [MCNext]_all PROVE UipIInv'
    OBVIOUS
  <2>1. CASE UipNext
    BY <2>1, UipKept
  <2>2. CASE UNCHANGED uipVars
    BY <2>2 DEF uipVars, UipIInv, UipTypes, OutInv, Cooks, GoneInv, AllGone, ResetOver, PoolInv,
      Counted, Owned, SockInv, FrameInv, ListInv, TxInv, AckInv, HasTaken, StopInv, Stopping
  <2> QED
    BY <2>1, <2>2 DEF MCNext, all
<1>3. UipIInv => UipInv
  BY UipHolds
<1> QED
  BY <1>1, <1>2, <1>3, PTL DEF MCSpec

-----------------------------------------------------------------------------
(* The queues                                                              *)

NetIInv ==
  /\ thread = [q \in Qs |-> thread[q]]
  /\ merge \in BOOLEAN
  /\ pend \in Seq(Int)
  /\ thread[0] = "copy" => /\ rxf \in [len : Int, copied : Int] /\ rxf.copied < rxf.len
                           /\ Total(pend) = rxf.copied
  /\ thread[0] # "copy" => pend = <<>>
  /\ FramesWhole

\* The partial sums of a sequence.
IsSum(f, s, k) ==
  /\ f \in [0 .. k -> Int]
  /\ f[0] = 0
  /\ \A i \in 1 .. k : f[i] = f[i - 1] + s[i]

\* The two sequences are the same up to k.
Same(s, t, k) == \A i \in 1 .. k : s[i] = t[i]

\* Every sequence of numbers has its partial sums.
LEMMA SumsExist ==
  ASSUME NEW s \in Seq(Int), NEW k \in 0 .. Len(s)
  PROVE  \E f : IsSum(f, s, k)
<1> DEFINE Bad == {m \in 0 .. Len(s) : ~(\E f : IsSum(f, s, m))}
<1>1. SUFFICES ASSUME Bad # {} PROVE FALSE
  OBVIOUS
<1>2. Bad \in SUBSET Nat
  OBVIOUS
<1>3. PICK m \in Bad : \A n \in Bad : m <= n
  <2> HIDE DEF Bad
  <2> QED BY <1>1, <1>2, LeastOf
<1>4. m # 0
  <2>1. SUFFICES ASSUME m = 0 PROVE FALSE
    OBVIOUS
  <2>2. IsSum([i \in 0 .. 0 |-> 0], s, 0)
    BY DEF IsSum
  <2> QED
    BY <1>3, <2>1, <2>2
<1>5. m \in Nat /\ m - 1 \in 0 .. Len(s) /\ m <= Len(s)
  BY <1>3, <1>4
<1>6. PICK f : IsSum(f, s, m - 1)
  BY <1>3, <1>5
<1> DEFINE g == [i \in 0 .. m |-> IF i < m THEN f[i] ELSE f[m - 1] + s[m]]
<1>7. s[m] \in Int
  BY <1>4, <1>5
<1>8. IsSum(g, s, m)
  <2>1. f \in [0 .. m - 1 -> Int] /\ f[0] = 0
    BY <1>6 DEF IsSum
  <2>2. g \in [0 .. m -> Int]
    BY <1>4, <1>5, <1>7, <2>1
  <2>3. g[0] = 0
    BY <1>4, <1>5, <2>1
  <2>4. ASSUME NEW i \in 1 .. m PROVE g[i] = g[i - 1] + s[i]
    <3>1. CASE i < m
      <4>1. f[i] = f[i - 1] + s[i]
        BY <1>6, <1>5, <3>1 DEF IsSum
      <4> QED
        BY <1>5, <3>1, <4>1
    <3>2. CASE i = m
      BY <1>5, <3>2
    <3> QED
      BY <1>5, <3>1, <3>2
  <2> QED
    BY <2>2, <2>3, <2>4 DEF IsSum
<1> QED
  BY <1>3, <1>8

\* Partial sums of a sequence and of one that goes on after it agree.
LEMMA SumsAgree ==
  ASSUME NEW s, NEW t, NEW k \in Nat, NEW n \in Nat, k <= n, NEW f, NEW g,
         IsSum(f, s, k), IsSum(g, t, n), Same(s, t, k)
  PROVE  f[k] = g[k]
<1> DEFINE Bad == {m \in 0 .. k : f[m] # g[m]}
<1>1. SUFFICES ASSUME Bad # {} PROVE FALSE
  OBVIOUS
<1>2. PICK m \in Bad : \A j \in Bad : m <= j
  <2>1. Bad \in SUBSET Nat
    OBVIOUS
  <2> HIDE DEF Bad
  <2> QED BY <1>1, <2>1, LeastOf
<1>3. m # 0
  BY <1>2 DEF IsSum
<1>4. m \in 1 .. k /\ m - 1 \in 0 .. k /\ m \in 1 .. n
  BY <1>2, <1>3
<1>5. f[m - 1] = g[m - 1]
  BY <1>2, <1>4
<1>6. f[m] = f[m - 1] + s[m] /\ g[m] = g[m - 1] + t[m]
  BY <1>4 DEF IsSum
<1> QED
  BY <1>2, <1>4, <1>5, <1>6 DEF Same

\* Total is the last of the partial sums.
LEMMA TotalIs ==
  ASSUME NEW s \in Seq(Int)
  PROVE  \E f : IsSum(f, s, Len(s)) /\ Total(s) = f[Len(s)]
<1> DEFINE Step(f) == [i \in 0 .. Len(s) |-> IF i = 0 THEN 0 ELSE f[i - 1] + s[i]]
<1> DEFINE h == CHOOSE f : f = Step(f)
<1>1. PICK f : IsSum(f, s, Len(s))
  BY SumsExist
<1>2. f = Step(f)
  BY <1>1 DEF IsSum
<1>3. h = Step(h)
  <2> HIDE DEF Step
  <2> QED BY <1>2
<1>4. Total(s) = h[Len(s)]
  BY Zenon DEF Total
<1> HIDE DEF h
<1>5. /\ h[0] = 0
      /\ \A i \in 1 .. Len(s) : h[i] = h[i - 1] + s[i]
      /\ DOMAIN h = 0 .. Len(s)
  <2>1. ASSUME NEW i \in 0 .. Len(s) PROVE h[i] = IF i = 0 THEN 0 ELSE h[i - 1] + s[i]
    BY <1>3, Zenon
  <2>2. DOMAIN h = 0 .. Len(s)
    BY <1>3, Zenon
  <2>3. Len(s) \in Nat
    OBVIOUS
  <2> QED
    BY <2>1, <2>2, <2>3
<1> DEFINE Bad == {m \in 0 .. Len(s) : h[m] # f[m]}
<1>6. Bad = {}
  <2>1. SUFFICES ASSUME Bad # {} PROVE FALSE
    OBVIOUS
  <2>2. PICK m \in Bad : \A j \in Bad : m <= j
    <3>1. Bad \in SUBSET Nat
      OBVIOUS
    <3> HIDE DEF Bad
    <3> QED BY <2>1, <3>1, LeastOf
  <2>3. m # 0
    BY <2>2, <1>1, <1>5 DEF IsSum
  <2>4. m \in 1 .. Len(s) /\ m - 1 \in 0 .. Len(s)
    BY <2>2, <2>3
  <2>5. h[m - 1] = f[m - 1]
    BY <2>2, <2>4
  <2> QED
    BY <2>2, <2>4, <2>5, <1>1, <1>5 DEF IsSum
<1>7. \A m \in 0 .. Len(s) : h[m] = f[m]
  BY <1>6
<1> QED
  BY <1>1, <1>4, <1>7

\* Total of no elements, and of one element more.
LEMMA TotalEmpty == Total(<<>>) = 0
<1>1. <<>> \in Seq(Int) /\ Len(<<>>) = 0
  OBVIOUS
<1>2. PICK f : IsSum(f, <<>>, Len(<<>>)) /\ Total(<<>>) = f[Len(<<>>)]
  BY <1>1, TotalIs
<1> QED
  BY <1>1, <1>2 DEF IsSum

\* The last partial sum, from the one before it.
LEMMA SumLast ==
  ASSUME NEW s, NEW t, NEW k \in Nat, NEW m \in Nat, m = k + 1, NEW f, NEW g,
         IsSum(f, s, k), IsSum(g, t, m), Same(s, t, k)
  PROVE  g[m] = f[k] + t[m]
<1>1. m \in Nat /\ k <= m /\ m \in 1 .. m /\ m - 1 = k
  OBVIOUS
<1>2. f[k] = g[k]
  BY <1>1, SumsAgree
<1>3. \A i \in 1 .. m : g[i] = g[i - 1] + t[i]
  BY Zenon DEF IsSum
<1>4. g[m] = g[m - 1] + t[m]
  BY <1>1, <1>3
<1> QED
  BY <1>1, <1>2, <1>4

\* The total of a list one longer.
LEMMA TotalAppend ==
  ASSUME NEW s \in Seq(Int), NEW n \in Int
  PROVE  Total(Append(s, n)) = Total(s) + n
<1>0. SUFFICES ASSUME NEW t, t = Append(s, n) PROVE Total(t) = Total(s) + n
  OBVIOUS
<1>1. /\ t \in Seq(Int) /\ Len(t) = Len(s) + 1 /\ t[Len(t)] = n /\ Len(s) \in Nat
      /\ \A i \in 1 .. Len(s) : s[i] = t[i]
  BY <1>0
<1>2. PICK f : IsSum(f, s, Len(s)) /\ Total(s) = f[Len(s)]
  BY TotalIs
<1>3. PICK g : IsSum(g, t, Len(t)) /\ Total(t) = g[Len(t)]
  BY <1>1, TotalIs
<1>4. PICK k \in Nat, m \in Nat : k = Len(s) /\ m = Len(t) /\ m = k + 1
  BY <1>1
<1>5. IsSum(f, s, k) /\ IsSum(g, t, m) /\ Same(s, t, k)
  BY <1>1, <1>2, <1>3, <1>4 DEF Same
<1>6. g[m] = f[k] + t[m]
  BY <1>4, <1>5, SumLast
<1> QED
  BY <1>1, <1>2, <1>3, <1>4, <1>6

\* Steps that leave the receive thread's frame and the ring alone.
LEMMA NetFrame ==
  ASSUME NetIInv, UNCHANGED <<merge, rxf, pend, ring>>, thread' = [q \in Qs |-> thread'[q]],
         thread'[0] = "copy" <=> thread[0] = "copy"
  PROVE  NetIInv'
BY DEF NetIInv, FramesWhole

\* Copying the next piece of a frame into the guest's buffers keeps NetIInv.
LEMMA CopyKept == ASSUME NetIInv, RxCopy PROVE NetIInv'
<1> USE NetAssumption
<1> DEFINE n == IF rxf.len - rxf.copied < BufLen THEN rxf.len - rxf.copied ELSE BufLen
           more == rxf.copied + n < rxf.len
<1>1. /\ rxf \in [len : Int, copied : Int] /\ rxf.copied < rxf.len /\ Total(pend) = rxf.copied
      /\ pend \in Seq(Int) /\ merge \in BOOLEAN /\ thread = [q \in Qs |-> thread[q]] /\ FramesWhole
  BY DEF NetIInv, RxCopy
<1>2. n \in Int /\ rxf.copied + n <= rxf.len /\ rxf.len \in Int /\ rxf.copied \in Int
  BY <1>1 DEF BufLen
<1>3. 0 \in Qs
  BY DEF Qs
<1>4. /\ rxf' = (IF more THEN [rxf EXCEPT !.copied = @ + n] ELSE NoRx)
      /\ IF ~more
         THEN /\ pend' = <<>>
              /\ ring' = [frame |-> rxf.len, elems |-> Append(pend, n),
                          num |-> IF merge THEN Len(Append(pend, n)) ELSE 0]
         ELSE pend' = Append(pend, n) /\ ring' = ring
      /\ thread' = [thread EXCEPT ![0] = IF more THEN "copy" ELSE "serve"]
      /\ merge' = merge
  BY DEF RxCopy, Publish
<1> HIDE DEF n
<1>5. Total(Append(pend, n)) = rxf.copied + n /\ Append(pend, n) \in Seq(Int)
  BY <1>1, <1>2, TotalAppend
<1>6. thread' = [q \in Qs |-> thread'[q]] /\ thread'[0] = IF more THEN "copy" ELSE "serve"
  BY <1>1, <1>3, <1>4
<1>7. CASE more
  <2>1. rxf' \in [len : Int, copied : Int] /\ rxf'.len = rxf.len /\ rxf'.copied = rxf.copied + n
    BY <1>1, <1>2, <1>4, <1>7
  <2>2. ring' = ring /\ pend' = Append(pend, n) /\ merge' = merge
    BY <1>4, <1>7
  <2>3. FramesWhole'
    BY <1>1, <2>2 DEF FramesWhole
  <2> QED
    BY <1>1, <1>5, <1>6, <1>7, <2>1, <2>2, <2>3 DEF NetIInv
<1>8. CASE ~more
  <2>1. ring'.frame = rxf.len /\ ring'.elems = Append(pend, n) /\ (merge => ring'.num = Len(ring'.elems))
    BY <1>4, <1>8
  <2>2. rxf.copied + n = rxf.len
    <3>1. ~(rxf.copied + n < rxf.len)
      BY <1>8
    <3>2. \A x, y \in Int : x <= y /\ ~(x < y) => x = y
      OBVIOUS
    <3>3. rxf.copied + n \in Int
      BY <1>2
    <3> QED
      BY <1>2, <3>1, <3>2, <3>3
  <2>3. FramesWhole'
    BY <1>4, <1>5, <2>1, <2>2 DEF FramesWhole
  <2>4. thread'[0] # "copy" /\ pend' = <<>> /\ pend' \in Seq(Int)
    BY <1>4, <1>6, <1>8
  <2> QED
    BY <1>1, <1>4, <1>6, <2>3, <2>4 DEF NetIInv
<1> QED
  BY <1>7, <1>8

\* Every step of the device threads and the guest keeps NetIInv.
LEMMA NetKept == ASSUME NetIInv, NetNext PROVE NetIInv'
<1> USE NetAssumption
<1>0. thread = [q \in Qs |-> thread[q]] /\ 0 \in Qs
  BY DEF NetIInv, Qs
<1>1. ASSUME NEW q \in Qs, InitVq(q) PROVE NetIInv'
  <2>1. thread' = [q1 \in Qs |-> thread'[q1]] /\ (thread'[0] = "copy" <=> thread[0] = "copy")
    BY <1>0, <1>1 DEF InitVq
  <2> QED
    BY <1>1, <2>1, NetFrame DEF InitVq
<1>2. ASSUME NEW q \in Qs, AddBuffer(q) PROVE NetIInv'
  BY <1>0, <1>2, NetFrame DEF AddBuffer
<1>3. ASSUME NEW q \in Qs, Kick(q) PROVE NetIInv'
  <2>1. thread' = [q1 \in Qs |-> thread'[q1]] /\ (thread'[0] = "copy" <=> thread[0] = "copy")
    BY <1>0, <1>3 DEF Kick
  <2> QED
    BY <1>3, <2>1, NetFrame DEF Kick
<1>4. ASSUME NEW q \in Qs, NEW ok \in BOOLEAN, Check(q) \/ Batch(q) \/ Serve(q, ok) PROVE NetIInv'
  <2>1. thread' = [q1 \in Qs |-> thread'[q1]] /\ (thread'[0] = "copy" <=> thread[0] = "copy")
    BY <1>0, <1>4 DEF Check, Batch, Serve, CtrlQ
  <2> QED
    BY <1>4, <2>1, NetFrame DEF Check, Batch, Serve
<1>5. ASSUME NEW q \in Qs, ExitVq(q) PROVE NetIInv'
  <2>1. thread' = [q1 \in Qs |-> thread'[q1]] /\ thread'[q] = "stopped"
    BY <1>0, <1>5 DEF ExitVq
  <2>2. CASE q = 0
    BY <1>5, <2>1, <2>2 DEF ExitVq, NetIInv, FramesWhole
  <2>3. CASE q # 0
    <3>1. thread'[0] = thread[0]
      BY <1>0, <1>5, <2>3 DEF ExitVq
    <3> QED
      BY <1>5, <2>1, <2>3, <3>1, NetFrame DEF ExitVq
  <2> QED
    BY <2>2, <2>3
<1>6. ASSUME NEW ok \in BOOLEAN, Start(ok) PROVE NetIInv'
  BY <1>0, <1>6, NetFrame DEF Start
<1>7. ASSUME NEW len \in 0 .. MaxLen, RxFrame(len) PROVE NetIInv'
  <2>1. thread[0] # "copy" /\ UNCHANGED <<merge, pend, ring>>
    BY <1>7 DEF RxFrame
  <2>2. CASE len = 0
    <3>1. thread' = [q1 \in Qs |-> thread'[q1]] /\ (thread'[0] = "copy" <=> thread[0] = "copy") /\ rxf' = rxf
      BY <1>0, <1>7, <2>1, <2>2 DEF RxFrame
    <3> QED
      BY <2>1, <3>1, NetFrame
  <2>3. CASE len # 0
    <3>1. thread' = [q1 \in Qs |-> thread'[q1]] /\ thread'[0] = "copy" /\ rxf' = [len |-> len, copied |-> 0]
      BY <1>0, <1>7, <2>3 DEF RxFrame
    <3>2. rxf' \in [len : Int, copied : Int] /\ rxf'.copied < rxf'.len /\ rxf'.copied = 0
      BY <2>3, <3>1
    <3>3. pend' = <<>> /\ Total(pend') = 0 /\ pend' \in Seq(Int)
      BY <2>1, TotalEmpty DEF NetIInv
    <3>4. FramesWhole' /\ merge' \in BOOLEAN
      BY <2>1 DEF NetIInv, FramesWhole
    <3> QED
      BY <3>1, <3>2, <3>3, <3>4 DEF NetIInv
  <2> QED
    BY <2>2, <2>3
<1>8. ASSUME StopNet PROVE NetIInv'
  <2>1. thread[0] # "copy" /\ thread' = [q \in Qs |-> "none"] /\ UNCHANGED <<merge, rxf, pend>> /\ ring' = Empty
    BY <1>0, <1>8 DEF StopNet
  <2>2. FramesWhole'
    BY <2>1, TotalEmpty DEF FramesWhole, Empty
  <2>3. thread'[0] # "copy" /\ thread' = [q \in Qs |-> thread'[q]]
    BY <1>0, <2>1
  <2> QED
    BY <2>1, <2>2, <2>3 DEF NetIInv
<1> QED
  BY <1>1, <1>2, <1>3, <1>4, <1>5, <1>6, <1>7, <1>8, CopyKept DEF NetNext, NetStep

\* Whatever the order of the backend's frames, of the guest's buffers and of resets, the
\* used ring only ever shows the guest whole frames, with their number of buffers
\* (virtio_net_rx_thread).
THEOREM FramesPublishedWhole == MCSpec => []FramesWhole
<1>1. MCInit => NetIInv
  <2> SUFFICES ASSUME MCInit PROVE NetIInv
    OBVIOUS
  <2>1. NetInit
    BY DEF MCInit
  <2>2. ring = Empty /\ pend = <<>> /\ merge \in BOOLEAN /\ thread = [q \in Qs |-> "none"] /\ 0 \in Qs
    BY <2>1 DEF NetInit, Qs
  <2>3. FramesWhole
    BY <2>2, TotalEmpty DEF FramesWhole, Empty
  <2>4. thread[0] # "copy" /\ thread = [q \in Qs |-> thread[q]]
    BY <2>2
  <2> QED
    BY <2>2, <2>3, <2>4 DEF NetIInv
<1>2. NetIInv /\ [MCNext]_all => NetIInv'
  <2> SUFFICES ASSUME NetIInv, [MCNext]_all PROVE NetIInv'
    OBVIOUS
  <2>1. CASE NetNext
    BY <2>1, NetKept
  <2>2. CASE UNCHANGED netVars
    BY <2>2 DEF netVars, NetIInv, FramesWhole
  <2> QED
    BY <2>1, <2>2 DEF MCNext, all
<1>3. NetIInv => FramesWhole
  BY DEF NetIInv
<1> QED
  BY <1>1, <1>2, <1>3, PTL DEF MCSpec
==============================================================================
