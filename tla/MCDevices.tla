------------------------------ MODULE MCDevices ------------------------------
(* What users meet, for TLC: the serial terminal, the balloon, the displays, the *)
(* commands sent to a guest, and the files by which guests are found.  At this   *)
(* level of detail they share no state, so a behaviour is one of one part:       *)
(* MCInit chooses it, and the others rest in an initial state.                   *)
EXTENDS Serial8250, Balloon, Display, Commands, Instances

VARIABLE part

\* The only port has a line of its own.
OwnLine == [p \in Ports |-> 4]

all == <<vars, blVars, dyVars, cmdVars, inVars, part>>

MCInit ==
  /\ part \in {"serial", "balloon", "display", "commands", "instances"}
  /\ Init /\ BlInit /\ DyInit /\ CmInit /\ InInit
  /\ part # "display" => shown = {}
  /\ part # "commands" => balloon /\ ucmd = [u \in Users |-> "list"]
  /\ part # "instances" => gname = [p \in Vms |-> "a"]

MCNext ==
  /\ UNCHANGED part
  /\ \/ part = "serial" /\ Next /\ UNCHANGED <<blVars, dyVars, cmdVars, inVars>>
     \/ part = "balloon" /\ BlNext /\ UNCHANGED <<vars, dyVars, cmdVars, inVars>>
     \/ part = "display" /\ DyNext /\ UNCHANGED <<vars, blVars, cmdVars, inVars>>
     \/ part = "commands" /\ CmNext /\ UNCHANGED <<vars, blVars, dyVars, inVars>>
     \/ part = "instances" /\ InNext /\ UNCHANGED <<vars, blVars, dyVars, cmdVars>>

\* The terminal's thread goes on, and the guest's handler while the line is high;
\* the IPC thread and the pool thread of the balloon, and its driver in the guest;
\* the main thread and the threads of the displays; the IPC thread and the
\* processes that send commands.
MCSpec ==
  /\ MCInit /\ [][MCNext]_all
  /\ \A p \in Ports : /\ WF_vars(part = "serial" /\ input[p] # <<>> /\ Receive(p))
                      /\ WF_vars(part = "serial" /\ Handle(p))
  /\ WF_blVars(part = "balloon" /\ Ipc)
  /\ WF_blVars(part = "balloon" /\ StatsDriver)
  /\ WF_blVars(part = "balloon" /\ StatRequest)
  /\ WF_dyVars(part = "display" /\ MainStep)
  /\ WF_dyVars(part = "display" /\ (SdlStart \/ SdlLoop \/ SdlDraw \/ SdlReboot))
  /\ WF_dyVars(part = "display" /\ (VncStart \/ VncLoop \/ VncDraw))
  /\ WF_dyVars(part = "display" /\ (GtkStart \/ GtkLeave))
  /\ WF_cmdVars(part = "commands" /\ Thread)
  /\ \A u \in Users : WF_cmdVars(part = "commands" /\ UserStep(u))

\* What a user is told of a guest holds, and a running guest with a name of its own
\* can be found under it (kvm-ipc.c, builtin-*.c, init/vm.c).
ManagementInv == ToldStateHolds /\ GuestReachable

\* Typed input reaches the guest, commands of clients and users are handled to
\* their end, and the exit of the displays returns.
DevicesProgress == InputRead /\ CommandHandled /\ DisplayExitEnds /\ CommandEnds
===============================================================================
