------------------------------ MODULE MCMachine ------------------------------
(* The machine around the buses, for TLC: serial port, flash, interrupt          *)
(* controllers, keyboard controller and guest memory.  At this level of detail   *)
(* they share no state, so a behaviour is one of one part: MCInit chooses it,    *)
(* and the others rest in an initial state.                                      *)
EXTENDS Serial8250, CfiFlash, Plic, Xics, Keyboard, GuestMemory

VARIABLE part

MCPages == 0 .. 4

\* The only port has a line of its own.
OwnLine == [p \in Ports |-> 4]

all == <<vars, flVars, plVars, xsVars, kbVars, memVars, part>>

MCInit ==
  /\ part \in {"serial", "flash", "plic", "xics", "keyboard", "memory"}
  /\ Init /\ FlInit /\ PlInit /\ XsInit /\ KbInit /\ MemInit
  /\ part # "flash" => slot

MCNext ==
  /\ UNCHANGED part
  /\ \/ part = "serial" /\ Next /\ UNCHANGED <<flVars, plVars, xsVars, kbVars, memVars>>
     \/ part = "flash" /\ FlNext /\ UNCHANGED <<vars, plVars, xsVars, kbVars, memVars>>
     \/ part = "plic" /\ PlNext /\ UNCHANGED <<vars, flVars, xsVars, kbVars, memVars>>
     \/ part = "xics" /\ XsNext /\ UNCHANGED <<vars, flVars, plVars, kbVars, memVars>>
     \/ part = "keyboard" /\ KbNext /\ UNCHANGED <<vars, flVars, plVars, xsVars, memVars>>
     \/ part = "memory" /\ MemNext /\ UNCHANGED <<vars, flVars, plVars, xsVars, kbVars>>

MCSpec == MCInit /\ [][MCNext]_all
===============================================================================
