--------------------------------- MODULE Commands ---------------------------------
(***************************************************************************)
(* The commands of init/builtin-*.c and the requests they make: each runs  *)
(* in a process of its own, finds the guest's socket, exchanges messages   *)
(* with the IPC thread of the machine (init/kvm-ipc.c) and hangs up.  The  *)
(* machine may stop at any time.  What a handler does to the vCPUs is      *)
(* modelled in VcpuControl, the balloon in Balloon.                        *)
(***************************************************************************)
EXTENDS Integers, Sequences, FiniteSets

CONSTANTS
  Users,      \* processes that run a command
  CmdNames    \* bound: the commands they may run

ASSUME CommandsAssumption == "none" \notin Users

VARIABLES
  ucmd,       \* per user: the command
  upc,        \* per user: "start", "ask", "read", "act", "dump", "end"
  uconn,      \* per user: "none", "backlog", "open", "shut" (by the server), "closed"
  sent,       \* per user: messages sent and not received
  replies,    \* per user: answers sent and not read
  said,       \* per user: what it has printed or returned
  pending,    \* connections that wait for accept
  edged,      \* the edge-triggered event of the socket is pending
  served,     \* the user the IPC thread reads from, or "none"
  vmState,    \* kvm->vm_state
  isPaused,   \* is_paused
  vm,         \* "up", "stopping", "down"
  balloon,    \* a handler is registered for KVM_IPC_STAT
  believed    \* history: per user, the state it was told

userState == <<ucmd, upc, uconn, sent, replies, said>>
vmStateVars == <<vmState, isPaused, vm, balloon>>
cmdVars == <<userState, pending, edged, served, vmStateVars, believed>>

CmInit ==
  /\ ucmd \in [Users -> CmdNames]
  /\ upc = [u \in Users |-> "start"] /\ uconn = [u \in Users |-> "none"]
  /\ sent = [u \in Users |-> <<>>] /\ replies = [u \in Users |-> <<>>]
  /\ said = [u \in Users |-> "nothing"]
  /\ pending = <<>> /\ edged = FALSE /\ served = "none"
  /\ vmState = "running" /\ isPaused = FALSE /\ vm = "up" /\ balloon \in BOOLEAN
  /\ believed = [u \in Users |-> "nothing"]

-----------------------------------------------------------------------------
(* The commands                                                            *)

\* What a command sends first, and whether it reads an answer.
FirstRequest(cmd) ==
  CASE cmd \in {"pause", "resume"} -> "VMSTATE"
    [] cmd = "list" -> "PID"
    [] cmd = "stop" -> "STOP"
    [] cmd = "stat" -> "STAT"
    [] cmd = "balloon" -> "BALLOON"
    [] cmd \in {"nmi", "dump", "bad_dump"} -> "DEBUG"
Reads(cmd) == cmd \in {"pause", "resume", "list", "stat"}

Ends(u, result) ==
  /\ upc' = [upc EXCEPT ![u] = "end"] /\ uconn' = [uconn EXCEPT ![u] = "closed"]
  /\ said' = [said EXCEPT ![u] = result]

\* kvm_get_sock_by_instance: a machine that is gone leaves a ghost socket, which is
\* removed.  (With --all, kvm_enumerate_instances then goes on to the next name.)
Locate(u) ==
  /\ upc[u] = "start"
  /\ IF vm = "down"
     THEN Ends(u, "failed") /\ UNCHANGED <<pending, edged>>
     ELSE /\ upc' = [upc EXCEPT ![u] = "ask"] /\ uconn' = [uconn EXCEPT ![u] = "backlog"]
          /\ pending' = Append(pending, u) /\ edged' = TRUE
          /\ UNCHANGED said
  /\ UNCHANGED <<ucmd, sent, replies, served, vmStateVars, believed>>

\* kvm_ipc__send and kvm_ipc__send_msg fail when the other side is gone.
Gone(u) == vm = "down" \/ uconn[u] = "shut"

Ask(u) ==
  /\ upc[u] = "ask"
  /\ IF Gone(u) THEN Ends(u, "failed") /\ UNCHANGED sent
     ELSE /\ sent' = [sent EXCEPT ![u] = Append(@, FirstRequest(ucmd[u]))]
          /\ IF Reads(ucmd[u]) \/ ucmd[u] \in {"dump", "bad_dump"}
             THEN /\ upc' = [upc EXCEPT ![u] = IF Reads(ucmd[u]) THEN "read" ELSE "dump"]
                  /\ UNCHANGED <<uconn, said>>
             ELSE Ends(u, "sent")
  /\ UNCHANGED <<ucmd, replies, pending, edged, served, vmStateVars, believed>>

\* get_vmstate, get_pid, and do_memstat, whose select looks at no descriptor and
\* only delays the read.
ReadAnswer(u) ==
  /\ upc[u] = "read" /\ replies[u] # <<>>
  /\ replies' = [replies EXCEPT ![u] = Tail(@)]
  /\ believed' = IF ucmd[u] \in {"pause", "resume"}
                 THEN [believed EXCEPT ![u] = Head(replies[u])] ELSE believed
  /\ CASE ucmd[u] = "stat" -> Ends(u, "answered") /\ UNCHANGED sent
       [] ucmd[u] = "list" /\ Head(replies[u]) = "pid" ->
            /\ sent' = [sent EXCEPT ![u] = Append(@, "VMSTATE")]
            /\ UNCHANGED <<upc, uconn, said>>
       [] ucmd[u] = "list" /\ Head(replies[u]) # "pid" -> Ends(u, "answered") /\ UNCHANGED sent
       [] OTHER -> upc' = [upc EXCEPT ![u] = "act"] /\ UNCHANGED <<uconn, said, sent>>
  /\ UNCHANGED <<ucmd, pending, edged, served, vmStateVars>>

\* At the end of the file read returns 0, which is no error: what the caller has in
\* its uninitialised variable counts as the state.
ReadNothing(u, garbage) ==
  /\ upc[u] = "read" /\ replies[u] = <<>> /\ Gone(u)
  /\ believed' = IF ucmd[u] \in {"pause", "resume"}
                 THEN [believed EXCEPT ![u] = garbage] ELSE believed
  /\ IF ucmd[u] \in {"pause", "resume"}
     THEN upc' = [upc EXCEPT ![u] = "act"] /\ UNCHANGED <<uconn, said>>
     ELSE Ends(u, "answered")
  /\ UNCHANGED <<ucmd, sent, replies, pending, edged, served, vmStateVars>>

\* do_pause and do_resume
Act(u) ==
  /\ upc[u] = "act"
  /\ LET goal == IF ucmd[u] = "pause" THEN "paused" ELSE "running"
     IN IF believed[u] = goal THEN Ends(u, "already") /\ UNCHANGED sent
        ELSE IF Gone(u) THEN Ends(u, "failed") /\ UNCHANGED sent
        ELSE /\ sent' = [sent EXCEPT ![u] = Append(@, IF goal = "paused" THEN "PAUSE" ELSE "RESUME")]
             /\ Ends(u, "changed")
  /\ UNCHANGED <<ucmd, replies, pending, edged, served, vmStateVars, believed>>

\* do_debug reads a dump to its end: until the server closes the connection.
DumpEnds(u) ==
  /\ upc[u] = "dump" /\ Gone(u)
  /\ Ends(u, "answered")
  /\ UNCHANGED <<ucmd, sent, replies, pending, edged, served, vmStateVars, believed>>

\* The user interrupts a command.
Interrupt(u) ==
  /\ upc[u] \in {"read", "dump"}
  /\ Ends(u, "interrupted")
  /\ UNCHANGED <<ucmd, sent, replies, pending, edged, served, vmStateVars, believed>>

-----------------------------------------------------------------------------
(* The IPC thread                                                          *)

AcceptOne ==
  /\ vm # "down" /\ served = "none" /\ edged
  /\ edged' = FALSE
  /\ served' = Head(pending) /\ pending' = Tail(pending)
  /\ uconn' = [uconn EXCEPT ![Head(pending)] = IF @ = "backlog" THEN "open" ELSE @]
  /\ UNCHANGED <<ucmd, upc, sent, replies, said, vmStateVars, believed>>

\* The handlers.  A request that no handler takes, and a debug request for a vCPU
\* that does not exist, is not answered.
Reply(type) ==
  CASE type = "VMSTATE" -> <<vmState>>
    [] type = "PID" -> <<"pid">>
    [] type = "STAT" /\ balloon -> <<"stats">>
    [] OTHER -> <<>>

\* handle_debug closes the connection after a dump.
ShutsNever(type, cmd) == FALSE
ShutsAfter(type, cmd) == type = "DEBUG" /\ cmd = "dump"

HandlePause(type) ==
  IF type = "RESUME" /\ isPaused THEN vmState' = "running" /\ isPaused' = FALSE
  ELSE IF type = "PAUSE" /\ ~isPaused THEN vmState' = "paused" /\ isPaused' = TRUE
  ELSE UNCHANGED <<vmState, isPaused>>

\* kvm_ipc__handle_event reads from a new client until that fails, and from no other.
ReadingAny(u) == uconn[u] \in {"backlog", "open", "closed"}
Reading(u) == u = served

ReceiveCommand(u) ==
  LET type == Head(sent[u])
  IN /\ vm # "down" /\ Reading(u) /\ uconn[u] # "shut" /\ sent[u] # <<>>
     /\ sent' = [sent EXCEPT ![u] = Tail(@)]
     /\ replies' = [replies EXCEPT ![u] = @ \o Reply(type)]
     /\ HandlePause(type)
     /\ vm' = IF type = "STOP" THEN "stopping" ELSE vm
     /\ uconn' = IF ShutsAfter(type, ucmd[u]) /\ uconn[u] = "open"
                 THEN [uconn EXCEPT ![u] = "shut"] ELSE uconn
     /\ UNCHANGED <<ucmd, upc, said, pending, edged, served, balloon, believed>>

\* The read finds the connection closed, by the client or by handle_debug.
ReceiveFails ==
  /\ vm # "down" /\ served # "none"
  /\ \/ uconn[served] = "closed" /\ sent[served] = <<>>
     \/ uconn[served] = "shut"
  /\ served' = "none"
  /\ UNCHANGED <<userState, pending, edged, vmStateVars, believed>>

\* The machine ends, and every connection with it.
VmEnds ==
  /\ vm # "down" /\ vm' = "down" /\ served' = "none"
  /\ UNCHANGED <<userState, pending, edged, vmState, isPaused, balloon, believed>>

Thread == AcceptOne \/ ReceiveFails \/ \E u \in Users : ReceiveCommand(u)
UserStep(u) ==
  \/ Locate(u) \/ Ask(u) \/ ReadAnswer(u) \/ Act(u) \/ DumpEnds(u)
  \/ \E garbage \in {"running", "paused"} : ReadNothing(u, garbage)
CmNext ==
  \/ Thread \/ VmEnds
  \/ \E u \in Users : UserStep(u) \/ Interrupt(u)

-----------------------------------------------------------------------------
(* Properties                                                              *)

\* The state a pause or resume command was told is still the state when its own
\* request is handled, or when it says that nothing needs to be done, although
\* nothing is locked between the two messages: the IPC thread serves a client until
\* it hangs up (kvm_ipc__handle_event), as long as the machine lives.
ToldStateHolds ==
  \A u \in Users :
    vm # "down" /\ believed[u] # "nothing" /\ (upc[u] = "act" \/ sent[u] # <<>>)
      => believed[u] = vmState

\* A command that the IPC thread has begun to serve ends, if its request is one that
\* is answered: without a balloon the STAT command waits for an answer that never
\* comes (do_memstat), as does a dump for a vCPU that does not exist (handle_debug).
CommandEnds ==
  \A u \in Users :
    served = u /\ ucmd[u] # "bad_dump" /\ (ucmd[u] = "stat" => balloon) ~> upc[u] = "end"
=================================================================================
