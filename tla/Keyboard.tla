-------------------------------- MODULE Keyboard --------------------------------
(***************************************************************************)
(* The keyboard controller of hw/i8042.c and the displays that feed it.    *)
(* A display's thread queues the bytes of a key or of a mouse movement     *)
(* while a vCPU executes commands, which queue replies, and reads data.    *)
(* Nothing is locked: a counter is loaded and stored in two steps, and the *)
(* levels of the lines are computed in one step and set in the next.       *)
(***************************************************************************)
EXTENDS Integers, Sequences

CONSTANTS
  QueueSize,   \* QUEUE_SIZE
  DataBytes,   \* bound: the bytes the guest writes to the data port
  Keys,        \* bound: the kinds of keys and movements the user makes
  MaxInputs,   \* bound: key presses, releases and movements
  MaxCommands  \* bound: commands of the guest

ASSUME KbAssumption == QueueSize \in Nat \ {0} /\ DataBytes \subseteq 0 .. 255

Threads == {"ui", "vcpu"}
Queues8042 == {"k", "m"}

VARIABLES
  kq,          \* per queue: the bytes in kq and mq
  kread, kwrite, \* per queue: the two indexes, modulo QUEUE_SIZE as they are used
  kcount,      \* per queue: kcount and mcount
  strOut,      \* the queue the OBF and AUXDATA bits of status announce ("none")
  lines,       \* the levels of KBD_IRQ and AUX_IRQ
  writeCmd,    \* write_cmd
  kmode,       \* mode
  mouse,       \* mstatus, mres and msample
  todo,        \* per thread: bytes it still has to queue, each as <<queue, byte>>
  at,          \* per thread: "idle", "count", "level", "line"
  reg,         \* per thread: what it has loaded or computed
  pointed,     \* xlast and ylast are set
  inputs, cmds,\* bounds
  want,        \* history: per queue, the bytes put in and not taken out
  misread,     \* history: a byte was read that was not the next one
  overlap      \* history: two threads have been in the controller at once

queueState == <<kq, kread, kwrite, kcount>>
threadState == <<todo, at, reg>>
kbHistory == <<want, misread, overlap>>
kbVars == <<queueState, strOut, lines, writeCmd, kmode, mouse, threadState, pointed, inputs, cmds, kbHistory>>

MouseReset == [status |-> 0, res |-> 2, sample |-> 100]

\* kbd__init and kbd_reset
KbInit ==
  /\ kq = [q \in Queues8042 |-> [i \in 0 .. QueueSize - 1 |-> 0]]
  /\ kread = [q \in Queues8042 |-> 0] /\ kwrite = [q \in Queues8042 |-> 0]
  /\ kcount = [q \in Queues8042 |-> 0]
  /\ strOut = "none" /\ lines = {} /\ writeCmd = "none"
  /\ kmode = 3 /\ mouse = MouseReset
  /\ todo = [t \in Threads |-> <<>>] /\ at = [t \in Threads |-> "idle"]
  /\ reg = [t \in Threads |-> <<"k", 0>>]
  /\ pointed = FALSE /\ inputs = 0 /\ cmds = 0
  /\ want = [q \in Queues8042 |-> <<>>] /\ misread = FALSE /\ overlap = FALSE

Outside(t) == at[t] = "idle" /\ todo[t] = <<>>

\* Thread t enters the controller.
Enters(t) == Outside(t) /\ overlap' = (overlap \/ \E u \in Threads \ {t} : ~Outside(u))

-----------------------------------------------------------------------------
(* What the displays send (ui/sdl.c, ui/vnc.c, ui/gtk3.c)                  *)

\* The kinds of keys that the keymaps of sdl.c and gtk3.c tell apart (the keys that
\* they do not know send nothing), and the kinds of keysyms of vnc.c.
SdlKeymap == {"normal", "escaped", "pause", "prntscrn"}
GtkKeymap == {"normal", "escaped", "pause", "prntscrn"}
VncKeysyms == {"normal", "escaped"}

\* key_press and key_release.  The codes are in set 2: e0 escapes, f0 is a release.
KeyPress(key) ==
  CASE key = "normal" -> <<1>>
    [] key = "escaped" -> <<224, 1>>
    [] key = "pause" -> <<225, 20, 119, 225, 240, 20, 119>>
    [] key = "prntscrn" -> <<224, 18, 224, 124>>
KeyRelease(key) ==
  CASE key = "normal" -> <<240, 1>>
    [] key = "escaped" -> <<224, 240, 1>>
    [] key = "pause" -> <<>>
    [] key = "prntscrn" -> <<224, 240, 124, 224, 240, 18>>

\* kvm_gtk_key_press: the releases are not connected.
GtkPress(key) == KeyPress(key)

\* kbd_handle_key sends the escape of a special key on its way through the switch,
\* before it knows whether the key was released.
VncEscape(key) == IF key = "escaped" THEN <<224>> ELSE <<>>
VncKey(key, down) == VncEscape(key) \o (IF down THEN <<>> ELSE <<240>>) \o <<1>>

\* kbd_handle_ptr: the buttons and two deltas, once an earlier position is known.
VncPointer == IF pointed THEN <<8, 2, 3>> ELSE <<>>

On(q, bytes) == [i \in 1 .. Len(bytes) |-> <<q, bytes[i]>>]

Input(bytes) ==
  /\ bytes # <<>> => inputs < MaxInputs
  /\ inputs' = IF bytes = <<>> THEN inputs ELSE inputs + 1
  /\ Enters("ui")
  /\ todo' = [todo EXCEPT !["ui"] = bytes]
  /\ UNCHANGED <<queueState, strOut, lines, writeCmd, kmode, mouse, at, reg, cmds, want, misread>>

SdlKey(key) ==
  /\ key \in SdlKeymap
  /\ Input(On("k", KeyPress(key))) \/ Input(On("k", KeyRelease(key)))
  /\ UNCHANGED pointed
GtkKey(key) == key \in GtkKeymap /\ Input(On("k", GtkPress(key))) /\ UNCHANGED pointed
VncInput(key) ==
  \/ /\ key \in VncKeysyms
     /\ \E down \in BOOLEAN : Input(On("k", VncKey(key, down)))
     /\ UNCHANGED pointed
  \/ key = "pointer" /\ Input(On("m", VncPointer)) /\ pointed' = TRUE

-----------------------------------------------------------------------------
(* kbd_queue and mouse_queue                                               *)

\* A byte for a full queue is dropped.
FullAtOver(q) == kcount[q] > QueueSize
Full8042(q) == kcount[q] >= QueueSize

Store(t) ==
  LET q == Head(todo[t])[1]
      c == Head(todo[t])[2]
  IN /\ at[t] = "idle" /\ todo[t] # <<>>
     /\ todo' = [todo EXCEPT ![t] = Tail(@)]
     /\ IF Full8042(q)
        THEN UNCHANGED <<kq, kwrite, at, reg, want>>
        ELSE /\ kq' = [kq EXCEPT ![q][kwrite[q]] = c]
             /\ kwrite' = [kwrite EXCEPT ![q] = (@ + 1) % QueueSize]
             /\ reg' = [reg EXCEPT ![t] = <<q, kcount[q] + 1>>]
             /\ at' = [at EXCEPT ![t] = "count"]
             /\ want' = [want EXCEPT ![q] = Append(@, c)]
     /\ UNCHANGED <<kread, kcount, strOut, lines, writeCmd, kmode, mouse, pointed, inputs, cmds, misread, overlap>>

\* kcount++ or kcount--; a read lowers the line of its queue.
StoreCount(t) ==
  /\ at[t] = "count"
  /\ kcount' = [kcount EXCEPT ![reg[t][1]] = reg[t][2]]
  /\ lines' = IF reg[t][2] > kcount[reg[t][1]] THEN lines ELSE lines \ {reg[t][1]}
  /\ at' = [at EXCEPT ![t] = "level"]
  /\ UNCHANGED <<kq, kread, kwrite, strOut, writeCmd, kmode, mouse, todo, reg, pointed, inputs, cmds, kbHistory>>

\* kbd_update_irq: the keyboard before the mouse.
TopQueue == CASE kcount["k"] > 0 -> "k"
           [] kcount["k"] <= 0 /\ kcount["m"] # 0 -> "m"
           [] OTHER -> "none"

UpdateIrq(t) ==
  /\ at[t] = "level"
  /\ strOut' = TopQueue
  /\ reg' = [reg EXCEPT ![t] = <<TopQueue, 0>>]
  /\ at' = [at EXCEPT ![t] = "line"]
  /\ UNCHANGED <<queueState, lines, writeCmd, kmode, mouse, todo, pointed, inputs, cmds, kbHistory>>

LinesLast(l) == lines \cup ({l} \ {"none"})
LinesFor(l) == {l} \ {"none"}

SetLines(t) ==
  /\ at[t] = "line"
  /\ lines' = LinesFor(reg[t][1])
  /\ at' = [at EXCEPT ![t] = "idle"]
  /\ UNCHANGED <<queueState, strOut, writeCmd, kmode, mouse, todo, reg, pointed, inputs, cmds, kbHistory>>

-----------------------------------------------------------------------------
(* The vCPU: kbd_io                                                        *)

\* kbd_read_data: the keyboard first; with both queues empty an old byte.
ReadFrom8042 ==
  CASE kcount["k"] # 0 -> "k"
    [] kcount["k"] = 0 /\ kcount["m"] > 0 -> "m"
    [] OTHER -> "none"

ReadData ==
  LET q == ReadFrom8042
  IN /\ Enters("vcpu") /\ q # "none"
     /\ misread' = (misread \/ want[q] = <<>> \/ kq[q][kread[q]] # Head(want[q]))
     /\ want' = [want EXCEPT ![q] = IF @ = <<>> THEN @ ELSE Tail(@)]
     /\ kread' = [kread EXCEPT ![q] = (@ + 1) % QueueSize]
     /\ reg' = [reg EXCEPT !["vcpu"] = <<q, kcount[q] - 1>>]
     /\ at' = [at EXCEPT !["vcpu"] = "count"]
     /\ UNCHANGED <<kq, kwrite, kcount, strOut, lines, writeCmd, kmode, mouse, todo, pointed, inputs, cmds>>

\* kbd_write_command
Replies(cmd) ==
  CASE cmd = "RCTR" -> On("k", <<kmode>>)
    [] cmd = "AUX_TEST" -> On("m", <<0>>)
    [] OTHER -> <<>>

\* Setting and clearing the bit of value b of a byte.
SetBit(x, b) == IF (x \div b) % 2 = 1 THEN x ELSE x + b
ClearBit(x, b) == IF (x \div b) % 2 = 1 THEN x - b ELSE x

WriteCommand(cmd) ==
  /\ cmds < MaxCommands /\ cmds' = cmds + 1
  /\ Enters("vcpu")
  /\ writeCmd' = IF cmd \in {"WCTR", "AUX_SEND", "AUX_LOOP"} THEN cmd ELSE writeCmd
  /\ kmode' = CASE cmd = "AUX_DISABLE" -> SetBit(kmode, 32)
                [] cmd = "AUX_ENABLE" -> ClearBit(kmode, 32)
                [] OTHER -> kmode
  /\ todo' = [todo EXCEPT !["vcpu"] = Replies(cmd)]
  /\ UNCHANGED <<queueState, strOut, lines, mouse, at, reg, pointed, inputs, want, misread>>

\* kbd_write_data, by the command that waits for its argument: the replies, and what
\* a command of the mouse sets.  (The argument of 0xe8 and 0xf3 is the command.)
DataReplies(val) ==
  CASE writeCmd = "AUX_LOOP" -> On("m", <<val, 250>>)
    [] writeCmd = "AUX_SEND" /\ val = 233 ->
         On("m", <<250, mouse.status, mouse.res, mouse.sample>>)
    [] writeCmd = "AUX_SEND" /\ val = 242 -> On("m", <<250, 0>>)
    [] writeCmd = "AUX_SEND" /\ val \notin {233, 242} -> On("m", <<250>>)
    [] writeCmd = "none" -> On("k", <<250, 171, 65>>)
    [] OTHER -> <<>>

MouseAfter(val) ==
  CASE val = 230 -> [mouse EXCEPT !.status = ClearBit(@, 16)]
    [] val = 232 -> [mouse EXCEPT !.res = val]
    [] val = 243 -> [mouse EXCEPT !.sample = val]
    [] val = 244 -> [mouse EXCEPT !.status = SetBit(@, 32)]
    [] val = 245 -> [mouse EXCEPT !.status = ClearBit(@, 32)]
    [] val \in {246, 255} -> MouseReset
    [] OTHER -> mouse

WriteData(val) ==
  /\ cmds < MaxCommands /\ cmds' = cmds + 1
  /\ Enters("vcpu")
  /\ todo' = [todo EXCEPT !["vcpu"] = DataReplies(val)]
  /\ mouse' = IF writeCmd = "AUX_SEND" THEN MouseAfter(val) ELSE mouse
  /\ kmode' = IF writeCmd = "WCTR" THEN val ELSE kmode
  /\ at' = IF writeCmd = "WCTR" THEN [at EXCEPT !["vcpu"] = "level"] ELSE at
  /\ writeCmd' = "none"
  /\ UNCHANGED <<queueState, strOut, lines, reg, pointed, inputs, want, misread>>

KbNext ==
  \/ \E key \in Keys : SdlKey(key) \/ GtkKey(key) \/ VncInput(key)
  \/ \E t \in Threads : Store(t) \/ StoreCount(t) \/ UpdateIrq(t) \/ SetLines(t)
  \/ ReadData
  \/ \E cmd \in {"RCTR", "WCTR", "AUX_SEND", "AUX_LOOP", "AUX_TEST", "AUX_DISABLE", "AUX_ENABLE"} :
       WriteCommand(cmd)
  \/ \E val \in DataBytes : WriteData(val)

-----------------------------------------------------------------------------
(* Properties                                                              *)

Settled == \A t \in Threads : at[t] = "idle"

\* As long as the display and the vCPU do not meet in the controller: the guest
\* reads the bytes of each queue in the order they were queued, also after the
\* indexes have wrapped and bytes were dropped, and between two bytes the status
\* and the lines announce the keyboard while it has bytes, then the mouse
\* (kbd_update_irq, kbd_read_data).
KbdInOrder ==
  ~overlap =>
    /\ ~misread
    /\ Settled => \A q \in Queues8042 : kcount[q] = Len(want[q])
    /\ Settled => strOut = TopQueue /\ lines = {TopQueue} \ {"none"}

\* "If there are packets to be read, set the appropriate IRQs high"
\* (kbd_update_irq): once both threads are out of the controller, a keyboard byte
\* that waits has its line high.
KeyAnnounced == Settled /\ kcount["k"] > 0 => "k" \in lines
=================================================================================
