-------------------------------- MODULE MCNet --------------------------------
(* virtio-net for TLC: the threads of its queues, and the user mode stack       *)
(* behind them.  VirtioNet sees the stack as a backend that takes and brings    *)
(* frames and Uip sees the queues as two threads, so a behaviour is one of one  *)
(* side: MCInit chooses it, and the other rests in an initial state.            *)
EXTENDS Uip, VirtioNet

VARIABLE part

all == <<uipVars, netVars, part>>

MCInit ==
  /\ part \in {"uip", "queues"}
  /\ UipInit /\ NetInit
  /\ part # "queues" => mode = "tap" /\ merge

MCNext ==
  /\ UNCHANGED part
  /\ \/ part = "uip" /\ UipNext /\ UNCHANGED netVars
     \/ part = "queues" /\ NetNext /\ UNCHANGED uipVars

\* The threads of the stack, the thread that resets the device, and those of the
\* queues go on; the guest that has added buffers kicks.
MCSpec ==
  /\ MCInit /\ [][MCNext]_all
  /\ WF_uipVars(part = "uip" /\ UipRx) /\ WF_uipVars(part = "uip" /\ UipTx)
  /\ WF_uipVars(part = "uip" /\ UipUdp) /\ WF_uipVars(part = "uip" /\ UipStop)
  /\ \A s \in Socks : WF_uipVars(part = "uip" /\ UipSock(s))
  /\ \A q \in Qs : /\ WF_netVars(part = "queues" /\ NetStep(q))
                   /\ WF_netVars(part = "queues" /\ Kick(q))

\* Frames that are sent are dealt with, and buffers that are offered are used.
NetProgress == TxServed /\ NetServed
==============================================================================
