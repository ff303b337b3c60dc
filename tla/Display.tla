--------------------------------- MODULE Display ---------------------------------
(***************************************************************************)
(* The init and exit lists of util/init.c as the displays use them: the    *)
(* VESA frame buffer of hw/vesa.c, the targets of init/framebuffer.c and   *)
(* the threads of ui/sdl.c, ui/vnc.c and ui/gtk3.c, which draw from the    *)
(* frame buffer's memory while the main thread starts the machine, waits   *)
(* for it and tears it down.                                               *)
(***************************************************************************)
EXTENDS Integers, Sequences, FiniteSets

Displays == {"sdl", "vnc", "gtk"}

VARIABLES
  shown,      \* the displays the configuration asks for
  phase,      \* the main thread: init, run, exit, over; failed or crashed
  listed,     \* the items of the list in progress that have been called
  calls,      \* what the item in progress still has to call
  waiting,    \* the display whose stop waits for its thread, or "none"
  fbMem,      \* the frame buffer's memory: "none", "mapped", "unmapped"
  targets,    \* the targets of the frame buffer
  cpus,       \* kvm->cpus is allocated
  thr,        \* per display: its thread
  running,    \* running of sdl.c
  done,       \* per display: done (vnc.c has none)
  vncServer,     \* server of vnc.c: "null", "active", "shut"
  misused     \* history: what has been used after it was released

dyVars == <<shown, phase, listed, calls, waiting, fbMem, targets, cpus, thr, running, done,
            vncServer, misused>>
threads == <<thr, running, done, vncServer, misused>>

DyInit ==
  /\ shown \in SUBSET Displays
  /\ phase = "init" /\ listed = {} /\ calls = <<>> /\ waiting = "none"
  /\ fbMem = "none" /\ targets = <<>> /\ cpus = TRUE
  /\ thr = [d \in Displays |-> "none"]
  /\ running = FALSE /\ done = [d \in Displays |-> FALSE] /\ vncServer = "null"
  /\ misused = {}

-----------------------------------------------------------------------------
(* The lists                                                               *)

\* The items and their priorities: dev_init 5, firmware_init 7 (and the exits).
Items == Displays \cup {"fb"}
Priority(x) == IF x = "fb" THEN 7 ELSE 5

\* init_list__init goes up the priorities, init_list__exit down; within one the order
\* is that of the constructors, which the linker chooses.
ExitTurn(x) == \A y \in Items \ listed : Priority(x) >= Priority(y)
Turn(x) ==
  /\ x \in Items \ listed /\ calls = <<>>
  /\ phase = "init" => \A y \in Items \ listed : Priority(x) <= Priority(y)
  /\ phase = "exit" => ExitTurn(x)

\* vesa__init at the step that fails, or "no": the steps before it are undone and
\* the list ends.  A second display finds the frame buffer's bank taken.
VesaInit(d, step) ==
  /\ phase = "init" /\ d \in Displays /\ Turn(d)
  /\ fbMem # "none" /\ d \in shown => step # "no"
  /\ listed' = listed \cup {d}
  /\ IF d \notin shown
     THEN step = "no" /\ UNCHANGED <<fbMem, targets, phase>>
     ELSE IF step = "no"
     THEN fbMem' = "mapped" /\ targets' = Append(targets, d) /\ UNCHANGED phase
     ELSE phase' = "failed" /\ UNCHANGED <<fbMem, targets>>
  /\ UNCHANGED <<shown, calls, waiting, cpus, threads>>

\* fb__init: start_targets, in order, until one cannot be started.
FbInit ==
  /\ phase = "init" /\ Turn("fb")
  /\ listed' = listed \cup {"fb"} /\ calls' = targets
  /\ UNCHANGED <<shown, phase, waiting, fbMem, targets, cpus, threads>>

StartTarget(created) ==
  LET d == Head(calls)
  IN /\ phase = "init" /\ calls # <<>>
     /\ running' = (running \/ d = "sdl")
     /\ IF created
        THEN thr' = [thr EXCEPT ![d] = "new"] /\ calls' = Tail(calls) /\ UNCHANGED phase
        ELSE phase' = "failed" /\ UNCHANGED <<thr, calls>>
     /\ UNCHANGED <<shown, listed, waiting, fbMem, targets, cpus, done, vncServer, misused>>

InitDone ==
  /\ phase = "init" /\ listed = Items /\ calls = <<>>
  /\ phase' = "run" /\ listed' = {}
  /\ UNCHANGED <<shown, calls, waiting, fbMem, targets, cpus, threads>>

\* The guest ends: vm_run returns, after kvm_cpu__exit has freed the vCPUs.
GuestEnds ==
  /\ phase = "run"
  /\ phase' = "exit" /\ cpus' = FALSE
  /\ UNCHANGED <<shown, listed, calls, waiting, fbMem, targets, threads>>

\* fb__exit stops every target and unmaps the memory; then each display's own exit
\* stops it once more.
ExitItem(x) ==
  /\ phase = "exit" /\ Turn(x)
  /\ listed' = listed \cup {x}
  /\ calls' = IF x = "fb" /\ fbMem # "none" THEN Append(targets, "munmap")
              ELSE IF x \in shown THEN <<x>> ELSE <<>>
  /\ UNCHANGED <<shown, phase, waiting, fbMem, targets, cpus, threads>>

Munmap ==
  /\ phase = "exit" /\ calls # <<>> /\ Head(calls) = "munmap"
  /\ fbMem' = "unmapped" /\ calls' = Tail(calls)
  /\ UNCHANGED <<shown, phase, listed, waiting, targets, cpus, threads>>

ExitDone ==
  /\ phase = "exit" /\ listed = Items /\ calls = <<>>
  /\ phase' = "over"
  /\ UNCHANGED <<shown, listed, calls, waiting, fbMem, targets, cpus, threads>>

-----------------------------------------------------------------------------
(* Stopping a display                                                      *)

\* sdl__stop and kvm_gtk_stop wait for the thread; vnc__stop does not.
WaitsNever(d) == FALSE
Waits(d) == d \in {"sdl", "gtk"}

\* gtk_main_quit ends the loop of gtk_main, when there is one.  rfbShutdownServer
\* follows the pointer that only vnc__thread sets.
StopCall ==
  LET d == Head(calls)
  IN /\ phase = "exit" /\ calls # <<>> /\ d \in Displays /\ waiting = "none"
     /\ IF d = "vnc" /\ vncServer = "null"
        THEN phase' = "crashed" /\ UNCHANGED <<calls, waiting, thr, running, vncServer>>
        ELSE /\ running' = (running /\ d # "sdl")
             /\ thr' = IF d = "gtk" /\ thr[d] = "loop" THEN [thr EXCEPT ![d] = "leaving"] ELSE thr
             /\ vncServer' = IF d = "vnc" THEN "shut" ELSE vncServer
             /\ IF Waits(d) THEN waiting' = d /\ UNCHANGED calls
                            ELSE calls' = Tail(calls) /\ UNCHANGED waiting
             /\ UNCHANGED phase
     /\ UNCHANGED <<shown, listed, fbMem, targets, cpus, done, misused>>

\* while (!done) sleep(0)
StopWait ==
  /\ phase = "exit" /\ waiting # "none" /\ done[waiting]
  /\ waiting' = "none" /\ calls' = Tail(calls)
  /\ UNCHANGED <<shown, phase, listed, fbMem, targets, cpus, threads>>

-----------------------------------------------------------------------------
(* The threads of the displays                                             *)

MainState == <<shown, phase, listed, calls, waiting, fbMem, targets, cpus>>
Alive == phase \in {"init", "run", "exit"}
ThreadTo(d, s) == thr' = [thr EXCEPT ![d] = s]

\* A thread draws: it reads the frame buffer's memory.
Draws(d) == misused' = IF fbMem = "mapped" THEN misused ELSE misused \cup {<<d, "memory">>}

\* sdl__thread
SdlStart ==
  /\ Alive /\ thr["sdl"] = "new" /\ ThreadTo("sdl", "loop")
  /\ UNCHANGED <<MainState, running, done, vncServer, misused>>

SdlLoop ==
  /\ Alive /\ thr["sdl"] = "loop"
  /\ ThreadTo("sdl", IF running THEN "draw" ELSE "ended")
  /\ done' = [done EXCEPT !["sdl"] = @ \/ ~running]
  /\ UNCHANGED <<MainState, running, vncServer, misused>>

SdlDraw ==
  /\ Alive /\ thr["sdl"] = "draw"
  /\ ThreadTo("sdl", "loop") /\ Draws("sdl")
  /\ UNCHANGED <<MainState, running, done, vncServer>>

\* The user closes the window: the machine is rebooted, through its vCPUs.
SdlQuit ==
  /\ Alive /\ thr["sdl"] = "draw"
  /\ ThreadTo("sdl", "reboot") /\ done' = [done EXCEPT !["sdl"] = TRUE]
  /\ Draws("sdl")
  /\ UNCHANGED <<MainState, running, vncServer>>

SdlReboot ==
  /\ Alive /\ thr["sdl"] = "reboot" /\ ThreadTo("sdl", "ended")
  /\ misused' = IF cpus THEN misused ELSE misused \cup {<<"sdl", "cpus">>}
  /\ UNCHANGED <<MainState, running, done, vncServer>>

\* vnc__thread
VncStart ==
  /\ Alive /\ thr["vnc"] = "new" /\ ThreadTo("vnc", "loop") /\ vncServer' = "active"
  /\ UNCHANGED <<MainState, running, done, misused>>

VncLoop ==
  /\ Alive /\ thr["vnc"] = "loop"
  /\ ThreadTo("vnc", IF vncServer = "active" THEN "draw" ELSE "ended")
  /\ UNCHANGED <<MainState, running, done, vncServer, misused>>

VncDraw ==
  /\ Alive /\ thr["vnc"] = "draw" /\ ThreadTo("vnc", "loop") /\ Draws("vnc")
  /\ UNCHANGED <<MainState, running, done, vncServer>>

\* kvm_gtk_thread: gtk_main draws until it is told to quit, by kvm_gtk_destroy too.
GtkStart ==
  /\ Alive /\ thr["gtk"] = "new" /\ ThreadTo("gtk", "loop")
  /\ UNCHANGED <<MainState, running, done, vncServer, misused>>

GtkDraw ==
  /\ Alive /\ thr["gtk"] = "loop" /\ Draws("gtk")
  /\ UNCHANGED <<MainState, thr, running, done, vncServer>>

GtkClose ==
  /\ Alive /\ thr["gtk"] = "loop" /\ ThreadTo("gtk", "leaving")
  /\ UNCHANGED <<MainState, running, done, vncServer, misused>>

GtkEndsSilently(s) == s
GtkEnds(s) == [s EXCEPT !["gtk"] = TRUE]

GtkLeave ==
  /\ Alive /\ thr["gtk"] = "leaving" /\ ThreadTo("gtk", "ended")
  /\ done' = GtkEnds(done)
  /\ UNCHANGED <<MainState, running, vncServer, misused>>

-----------------------------------------------------------------------------

VesaSteps == {"no", "pio", "bars", "device", "mmap", "dev_mem"}

MainStep ==
  \/ \E d \in Displays, step \in VesaSteps : VesaInit(d, step)
  \/ FbInit \/ (\E created \in BOOLEAN : StartTarget(created)) \/ InitDone
  \/ (\E x \in Items : ExitItem(x)) \/ StopCall \/ StopWait \/ Munmap \/ ExitDone
ThreadStep ==
  \/ SdlStart \/ SdlLoop \/ SdlDraw \/ SdlReboot
  \/ VncStart \/ VncLoop \/ VncDraw \/ GtkStart \/ GtkLeave
DyNext == MainStep \/ ThreadStep \/ GuestEnds \/ GtkDraw \/ SdlQuit \/ GtkClose

-----------------------------------------------------------------------------
(* Properties                                                              *)

\* fb__exit unmaps the frame buffer only when the threads of SDL and GTK are out of
\* their drawing loops, in whatever order the guest ends, the user closes a window
\* and the threads get to run.  (vnc__stop does not wait: VNC is not promised this.)
ScreenMapped ==
  /\ \A d \in {"sdl", "gtk"} : <<d, "memory">> \notin misused
  /\ \A d \in {"sdl", "gtk"} :
       fbMem = "unmapped" /\ d \in shown => thr[d] \in {"ended", "reboot"} \/ thr[d] = "none"

\* Tearing the displays down ends, although every display is stopped twice, if GTK
\* has reached its main loop when it starts (gtk_main_quit before that is lost, and
\* kvm_gtk_stop waits for ever).
DisplayExitEnds ==
  phase = "exit" /\ listed = {} /\ thr["gtk"] # "new" ~> phase \in {"over", "crashed"}
=================================================================================
