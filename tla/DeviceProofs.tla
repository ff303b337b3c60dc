----------------------------- MODULE DeviceProofs -----------------------------
(***************************************************************************)
(* Proofs about what users meet: the balloon and the IPC server, the       *)
(* displays, the commands sent to a guest, and the files by which guests   *)
(* are found.  They are about the parts as MCDevices puts them together,   *)
(* one of which moves while the others stand still, for every value of the *)
(* constants.                                                              *)
(***************************************************************************)
EXTENDS MCDevices, TLAPS, SequenceTheorems

-----------------------------------------------------------------------------
(* The balloon                                                             *)

\* The first buffer that the driver offered is still in the available ring: the
\* next signal of the job is for it, and no answer.
First == IF sdrv = "live" /\ ~curStat THEN 1 ELSE 0

\* The request that the IPC thread waits for is at one place: the driver has still to
\* see its buffer, the filled buffer waits for the job, or the eventfd is counted.
\* (A driver that was handed a buffer before it had offered one has given up.)
StatsPlace ==
  /\ server = "stats" /\ sdrv # "bad" => returned + (runs - First) + waitfd = 1
  /\ server # "stats" \/ sdrv = "bad" => returned = 0 /\ runs = First /\ waitfd = 0
  /\ runs > First => content = request
  /\ waitfd > 0 => stats = request

StatsPhase ==
  /\ sdrv # "live" => runs = 0 /\ waitfd = 0 /\ ~curStat
  /\ sdrv = "down" => server # "stats"
  /\ sdrv = "bad" => server = "stats"

BlTypes ==
  /\ sdrv \in {"down", "setup", "live", "bad"} /\ curStat \in BOOLEAN
  /\ returned \in Nat /\ runs \in Nat /\ waitfd \in Nat /\ runs >= First
  /\ resets \in Nat /\ numPages \in 0 .. MaxPages

BlIInv ==
  /\ resets \in Nat /\ numPages \in 0 .. MaxPages
  /\ resets = 0 =>
       BlTypes /\ StatsPlace /\ StatsPhase /\ \A a \in answers : a[1] = a[2]

\* The actions that touch neither the statistics nor the number of pages.
LEMMA BlFrame ==
  ASSUME BlIInv, UNCHANGED <<statState, numPages>>, server' = server
  PROVE  BlIInv'
BY DEF BlIInv, BlTypes, StatsPlace, StatsPhase, First, statState, ringState

\* The IPC thread at work outside virtio_bln__collect_stats.
LEMMA BlMoves ==
  ASSUME BlIInv, UNCHANGED <<statState, numPages>>, server # "stats", server' # "stats"
  PROVE  BlIInv'
BY DEF BlIInv, BlTypes, StatsPlace, StatsPhase, First, statState, ringState

\* A step of the IPC thread keeps BlIInv.
LEMMA IpcKeeps == ASSUME BlIInv, Ipc PROVE BlIInv'
<1>1. CASE Accept
  <2>1. UNCHANGED <<statState, numPages>> /\ server # "stats" /\ server' # "stats"
    BY <1>1 DEF Accept, pageState
  <2> QED BY <2>1, BlMoves
<1>2. CASE ReceiveEnd
  <2>1. UNCHANGED <<statState, numPages>> /\ server # "stats" /\ server' # "stats"
    BY <1>2 DEF ReceiveEnd, pageState
  <2> QED BY <2>1, BlMoves
<1>3. CASE HandleMem
  <2>1. UNCHANGED statState /\ server' = server
    BY <1>3 DEF HandleMem
  <2>2. numPages' \in 0 .. MaxPages
    <3>1. numPages \in 0 .. MaxPages /\ MaxPages \in Nat /\ U32 \in Nat /\ MaxPages < U32
      BY BalloonAssumption DEF BlIInv
    <3>2. numPages >= 1 => (numPages - 1) % U32 = numPages - 1
      BY <3>1
    <3>3. /\ numPages' = numPages + 1 \/ numPages' = numPages
             \/ (numPages >= 1 /\ numPages' = (numPages - 1) % U32)
          /\ numPages' # MaxPages + 1
      BY <1>3 DEF HandleMem, ShrinkAllowed
    <3> QED BY <3>1, <3>2, <3>3
  <2> QED BY <2>1, <2>2 DEF BlIInv, BlTypes, StatsPlace, StatsPhase, First, statState, ringState
<1>4. CASE CollectStats
  <2>1. CASE sdrv # "down"
    <3>1. /\ request' = request + 1 /\ returned' = returned + 1 /\ server' = "stats"
          /\ server # "stats"
          /\ UNCHANGED <<numPages, sdrv, runs, content, curStat, stats, waitfd, resets, answers>>
      BY <1>4, <2>1 DEF CollectStats, pageState
    <3>2. resets = 0 => /\ sdrv # "bad" /\ returned = 0 /\ runs = First /\ waitfd = 0
                        /\ First' = First /\ First \in Nat
      <4> SUFFICES ASSUME resets = 0 PROVE /\ sdrv # "bad" /\ returned = 0 /\ runs = First /\ waitfd = 0
                                           /\ First' = First /\ First \in Nat
        OBVIOUS
      <4>1. BlTypes /\ StatsPlace /\ StatsPhase
        BY DEF BlIInv
      <4> QED BY <3>1, <4>1 DEF BlTypes, StatsPlace, StatsPhase, First
    <3>3. resets = 0 => BlTypes' /\ StatsPlace' /\ StatsPhase'
      BY <2>1, <3>1, <3>2 DEF BlIInv, BlTypes, StatsPlace, StatsPhase
    <3> QED BY <3>1, <3>3 DEF BlIInv
  <2>2. CASE sdrv = "down"
    <3>1. UNCHANGED <<statState, numPages>> /\ server' = server
      BY <1>4, <2>2 DEF CollectStats, statState, ringState, pageState
    <3> QED BY <3>1, BlFrame
  <2> QED BY <2>1, <2>2
<1>5. CASE StatsReady
  <2>1. /\ server = "stats" /\ waitfd > 0 /\ waitfd' = 0 /\ server' = "recv"
        /\ answers' = answers \cup {<<request, stats>>}
        /\ UNCHANGED <<numPages, sdrv, runs, returned, content, curStat, stats, request, resets>>
    BY <1>5 DEF StatsReady, ringState, pageState
  <2>2. First' = First
    BY <2>1 DEF First
  <2>3. resets = 0 => /\ returned = 0 /\ runs = First /\ First \in Nat /\ stats = request
                      /\ sdrv = "live"
    BY <2>1 DEF BlIInv, BlTypes, StatsPlace, StatsPhase, First
  <2>4. resets = 0 => BlTypes' /\ StatsPlace' /\ StatsPhase'
    BY <2>1, <2>2, <2>3 DEF BlIInv, BlTypes, StatsPlace, StatsPhase
  <2>5. resets = 0 => \A a \in answers' : a[1] = a[2]
    BY <2>1, <2>3 DEF BlIInv
  <2> QED BY <2>1, <2>4, <2>5 DEF BlIInv
<1>6. ASSUME NEW c \in Clients, CloseConn(c) PROVE BlIInv'
  <2>1. UNCHANGED <<statState, numPages>> /\ server' = server
    BY <1>6 DEF CloseConn, pageState
  <2> QED BY <2>1, BlFrame
<1> QED BY <1>1, <1>2, <1>3, <1>4, <1>5, <1>6 DEF Ipc

\* The driver of the statistics queue, and the job.
LEMMA StatsKeep == ASSUME BlIInv, StatsDriver \/ StatRequest PROVE BlIInv'
<1> SUFFICES ASSUME resets = 0 PROVE BlTypes' /\ StatsPlace' /\ StatsPhase'
  <2>1. UNCHANGED <<numPages, resets, answers>>
    BY DEF StatsDriver, StatsSetUp, StatsOffer, StatsRefill, StatsBad, StatRequest, pageState
  <2> QED BY <2>1 DEF BlIInv
<1>0. BlTypes /\ StatsPlace /\ StatsPhase
  BY DEF BlIInv
<1>1. CASE StatsSetUp
  BY <1>0, <1>1 DEF StatsSetUp, BlTypes, StatsPlace, StatsPhase, First, ipcState, pageState
<1>2. CASE StatsOffer
  BY <1>0, <1>2 DEF StatsOffer, BlTypes, StatsPlace, StatsPhase, First, ipcState, pageState
<1>3. CASE StatsRefill
  BY <1>0, <1>3 DEF StatsRefill, BlTypes, StatsPlace, StatsPhase, First, ipcState, pageState
<1>4. CASE StatsBad
  BY <1>0, <1>4 DEF StatsBad, BlTypes, StatsPlace, StatsPhase, First, ipcState, pageState
<1>5. CASE StatRequest
  BY <1>0, <1>5 DEF StatRequest, FirstBuffer, BlTypes, StatsPlace, StatsPhase, First, ipcState, pageState
<1> QED BY <1>1, <1>2, <1>3, <1>4, <1>5 DEF StatsDriver

\* Every step of the balloon, or a stutter, keeps BlIInv.
LEMMA BlKept == ASSUME BlIInv, [BlNext]_blVars PROVE BlIInv'
<1>1. CASE UNCHANGED blVars
  <2>1. UNCHANGED <<statState, numPages>> /\ server' = server
    BY <1>1 DEF blVars, ipcState, pageState
  <2> QED BY <2>1, BlFrame
<1>2. ASSUME NEW c \in Clients, Connect(c) \/ HangUp(c) \/ Send(c, "stat") \/ Send(c, "mem") PROVE BlIInv'
  <2>1. UNCHANGED <<statState, numPages>> /\ server' = server
    BY <1>2 DEF Connect, HangUp, Send, pageState
  <2> QED BY <2>1, BlFrame
<1>3. CASE PageRequest
  <2>1. UNCHANGED <<statState, numPages>> /\ server' = server
    BY <1>3 DEF PageRequest, ipcState
  <2> QED BY <2>1, BlFrame
<1>4. CASE StatsReset
  BY <1>4 DEF StatsReset, BlIInv, pageState
<1> QED BY <1>1, <1>2, <1>3, <1>4, IpcKeeps, StatsKeep DEF BlNext

\* BlIInv holds before the first request.
LEMMA BlStarts == BlInit => BlIInv
<1> SUFFICES ASSUME BlInit PROVE BlIInv
  OBVIOUS
<1>1. First = 0
  BY DEF BlInit, First
<1>2. numPages \in 0 .. MaxPages /\ resets \in Nat
  BY BalloonAssumption DEF BlInit
<1>3. curStat \in BOOLEAN /\ ~curStat
  BY DEF BlInit
<1>4. BlTypes /\ StatsPlace /\ StatsPhase
  BY <1>1, <1>2, <1>3 DEF BlInit, BlTypes, StatsPlace, StatsPhase
<1> QED BY <1>2, <1>4 DEF BlInit, BlIInv

-----------------------------------------------------------------------------
(* The displays                                                            *)

ThreadStates == {"none", "new", "loop", "draw", "reboot", "leaving", "ended"}
NoThreads == \A d \in Displays : thr[d] = "none"
Windows == {"sdl", "gtk"}

\* The second display that is asked for finds the bank taken and ends the start, so
\* there is one target at most, and only the target has a thread.
OneTarget ==
  \/ targets = <<>> /\ fbMem = "none" /\ NoThreads
  \/ \E d \in Displays :
       /\ targets = <<d>> /\ fbMem \in {"mapped", "unmapped"}
       /\ \A e \in Displays \ {d} : thr[e] = "none"

\* A thread that says it is done is out of its drawing loop, and stays out.
OutOfLoop(d) == thr[d] \in {"ended", "reboot", "none"}
DoneOut == \A d \in Windows : done[d] => thr[d] \in {"ended", "reboot"}
UnmappedOut == fbMem = "unmapped" => phase # "init" /\ \A d \in Windows : OutOfLoop(d)

\* What the main thread has yet to call.
InitCalls ==
  phase = "init" =>
    /\ calls = <<>> \/ (calls = targets /\ NoThreads /\ "fb" \in listed)
    /\ "fb" \notin listed => NoThreads
ExitCalls ==
  phase = "exit" =>
    \/ calls = <<>>
    \/ \E d \in Displays : calls = <<d>>
    \/ \E d \in Displays : targets = <<d>> /\ calls = <<d, "munmap">>
    \/ \E d \in Displays : targets = <<d>> /\ calls = <<"munmap">> /\ (Waits(d) => done[d])
WaitsFor ==
  /\ phase = "run" => calls = <<>>
  /\ waiting # "none" => phase = "exit" /\ calls # <<>> /\ waiting = Head(calls) /\ waiting \in Windows

DyTypes ==
  shown \subseteq Displays /\ thr \in [Displays -> ThreadStates] /\ done \in [Displays -> BOOLEAN]
Undrawn == \A d \in Windows : <<d, "memory">> \notin misused

DyIInv ==
  /\ DyTypes /\ Undrawn
  /\ OneTarget /\ DoneOut /\ UnmappedOut
  /\ InitCalls /\ ExitCalls /\ WaitsFor

\* The init and exit lists of this module hold at most two entries; what
\* Head, Tail and Append give on them.
LEMMA Lists ==
  ASSUME NEW d
  PROVE  /\ Head(<<d>>) = d /\ Tail(<<d>>) = <<>> /\ <<d>> # <<>> /\ Append(<<>>, d) = <<d>>
         /\ Head(<<d, "munmap">>) = d /\ Tail(<<d, "munmap">>) = <<"munmap">>
         /\ Append(<<d>>, "munmap") = <<d, "munmap">> /\ <<d, "munmap">> # <<>>
<1>1. Head(<<d>>) = d /\ Head(<<d, "munmap">>) = d
  OBVIOUS
<1>2. <<d>> # <<>> /\ <<d, "munmap">> # <<>>
  OBVIOUS
<1>3. Tail(<<d>>) = <<>>
  OBVIOUS
<1>4. Tail(<<d, "munmap">>) = <<"munmap">>
  OBVIOUS
<1>5. Append(<<>>, d) = <<d>>
  OBVIOUS
<1>6. Append(<<d>>, "munmap") = <<d, "munmap">>
  <2> DEFINE S == {d, "munmap"}
             r == Append(<<d>>, "munmap")
             w == <<d, "munmap">>
  <2>1. <<d>> \in Seq(S) /\ "munmap" \in S /\ Len(<<d>>) = 1 /\ <<d>>[1] = d
    OBVIOUS
  <2>2. r \in Seq(S) /\ Len(r) = 2 /\ r[1] = d /\ r[2] = "munmap"
    BY <2>1
  <2>3. w \in Seq(S) /\ Len(w) = 2 /\ w[1] = d /\ w[2] = "munmap"
    OBVIOUS
  <2> HIDE DEF r, w, S
  <2>4. r = w
    BY <2>2, <2>3, SeqEqual
  <2> QED BY <2>4 DEF r, w
<1> QED BY <1>1, <1>2, <1>3, <1>4, <1>5, <1>6

\* A step of the main thread that leaves the threads alone.
LEMMA MainKeeps ==
  ASSUME DyIInv, UNCHANGED threads, UNCHANGED shown
  PROVE  DyTypes' /\ DoneOut' /\ Undrawn' /\ (NoThreads' <=> NoThreads)
BY DEF DyIInv, DyTypes, DoneOut, Undrawn, NoThreads, threads

\* VesaInit keeps DyIInv.
LEMMA VesaInitKeeps ==
  ASSUME DyIInv, NEW d \in Displays, NEW step, VesaInit(d, step)
  PROVE  DyIInv'
<1>1. /\ UNCHANGED <<shown, calls, waiting, cpus>> /\ UNCHANGED threads
      /\ phase = "init" /\ calls = <<>> /\ listed' = listed \cup {d} /\ d # "fb"
  BY DEF VesaInit, Turn, Displays
<1>2. DyTypes' /\ DoneOut' /\ Undrawn' /\ (NoThreads' <=> NoThreads)
  BY <1>1, MainKeeps
<1>3. waiting = "none" /\ (NoThreads \/ "fb" \in listed) /\ fbMem # "unmapped"
  BY <1>1 DEF DyIInv, WaitsFor, InitCalls, UnmappedOut
<1>4. \/ UNCHANGED <<fbMem, targets>> /\ phase' \in {"init", "failed"}
      \/ fbMem = "none" /\ fbMem' = "mapped" /\ targets' = Append(targets, d) /\ phase' = phase
  BY DEF VesaInit
<1>5. CASE UNCHANGED <<fbMem, targets>> /\ phase' \in {"init", "failed"}
  <2>1. OneTarget' /\ UnmappedOut'
    BY <1>1, <1>3, <1>5 DEF DyIInv, OneTarget, UnmappedOut, NoThreads, threads
  <2>2. InitCalls' /\ ExitCalls' /\ WaitsFor'
    BY <1>1, <1>2, <1>3, <1>5 DEF InitCalls, ExitCalls, WaitsFor
  <2> QED BY <1>2, <2>1, <2>2 DEF DyIInv
<1>6. CASE fbMem = "none" /\ fbMem' = "mapped" /\ targets' = Append(targets, d) /\ phase' = phase
  <2>1. targets = <<>> /\ NoThreads
    BY <1>6 DEF DyIInv, OneTarget
  <2>2. targets' = <<d>>
    BY <1>6, <2>1, Lists
  <2>3. OneTarget'
    <3>1. \A e \in Displays \ {d} : thr'[e] = "none"
      BY <1>1, <2>1 DEF NoThreads, threads
    <3> QED BY <1>6, <2>2, <3>1 DEF OneTarget
  <2>4. UnmappedOut' /\ InitCalls' /\ ExitCalls' /\ WaitsFor'
    BY <1>1, <1>2, <1>3, <1>6, <2>1 DEF UnmappedOut, InitCalls, ExitCalls, WaitsFor
  <2> QED BY <1>2, <2>3, <2>4 DEF DyIInv
<1> QED BY <1>4, <1>5, <1>6

\* FbInit keeps DyIInv.
LEMMA FbInitKeeps == ASSUME DyIInv, FbInit PROVE DyIInv'
<1>1. /\ UNCHANGED <<shown, phase, waiting, fbMem, targets, cpus>> /\ UNCHANGED threads
      /\ phase = "init" /\ "fb" \notin listed /\ calls = <<>> /\ calls' = targets
      /\ "fb" \in listed'
  BY DEF FbInit, Turn
<1>2. DyTypes' /\ DoneOut' /\ Undrawn' /\ (NoThreads' <=> NoThreads)
  BY <1>1, MainKeeps
<1>3. waiting = "none" /\ NoThreads
  BY <1>1 DEF DyIInv, WaitsFor, InitCalls
<1>4. OneTarget' /\ UnmappedOut'
  BY <1>1, <1>3 DEF DyIInv, OneTarget, UnmappedOut, NoThreads, OutOfLoop, threads
<1>5. InitCalls' /\ ExitCalls' /\ WaitsFor'
  BY <1>1, <1>2, <1>3 DEF InitCalls, ExitCalls, WaitsFor
<1> QED BY <1>2, <1>4, <1>5 DEF DyIInv

\* StartTarget keeps DyIInv.
LEMMA StartTargetKeeps ==
  ASSUME DyIInv, NEW created \in BOOLEAN, StartTarget(created)
  PROVE  DyIInv'
<1>1. /\ phase = "init" /\ calls # <<>>
      /\ UNCHANGED <<shown, listed, waiting, fbMem, targets, cpus, done, vncServer, misused>>
  BY DEF StartTarget
<1>3. calls = targets /\ NoThreads /\ waiting = "none" /\ fbMem # "unmapped" /\ "fb" \in listed
  BY <1>1 DEF DyIInv, InitCalls, WaitsFor, UnmappedOut
<1>4. PICK d \in Displays : targets = <<d>> /\ fbMem = "mapped"
  BY <1>1, <1>3 DEF DyIInv, OneTarget
<1>5. Head(calls) = d /\ Tail(calls) = <<>>
  BY <1>3, <1>4, Lists
<1>6. \/ thr' = [thr EXCEPT ![d] = "new"] /\ calls' = <<>> /\ phase' = phase
      \/ phase' = "failed" /\ thr' = thr /\ calls' = calls
  BY <1>5 DEF StartTarget
<1>7. /\ DyTypes' /\ \A e \in Displays \ {d} : thr'[e] = "none"
  BY <1>1, <1>3, <1>6 DEF DyIInv, DyTypes, NoThreads, ThreadStates
<1>8. Undrawn' /\ OneTarget' /\ UnmappedOut'
  BY <1>1, <1>3, <1>4, <1>7 DEF DyIInv, Undrawn, OneTarget, UnmappedOut
<1>9. DoneOut'
  <2>1. \A e \in Windows : ~done[e]
    BY <1>3 DEF DyIInv, DoneOut, NoThreads, Windows, Displays
  <2> QED BY <1>1, <2>1 DEF DoneOut
<1>10. InitCalls'
  <2>1. CASE phase' = "failed"
    BY <2>1 DEF InitCalls
  <2>2. CASE phase' # "failed"
    BY <1>1, <1>3, <1>6, <2>2 DEF InitCalls
  <2> QED BY <2>1, <2>2
<1>11. ExitCalls' /\ WaitsFor'
  BY <1>1, <1>3, <1>6 DEF ExitCalls, WaitsFor
<1> QED BY <1>7, <1>8, <1>9, <1>10, <1>11 DEF DyIInv


\* The main thread between the lists.
LEMMA PhaseKeeps == ASSUME DyIInv, InitDone \/ GuestEnds \/ ExitDone PROVE DyIInv'
<1>1. /\ UNCHANGED <<shown, calls, waiting, fbMem, targets>> /\ UNCHANGED threads
      /\ calls = <<>> /\ phase' \in {"run", "exit", "over"}
      /\ phase' = "exit" => phase = "run"
  BY DEF InitDone, GuestEnds, ExitDone, DyIInv, WaitsFor
<1>2. DyTypes' /\ DoneOut' /\ Undrawn' /\ (NoThreads' <=> NoThreads)
  BY <1>1, MainKeeps
<1>3. waiting = "none"
  BY <1>1 DEF DyIInv, WaitsFor
<1>4. OneTarget' /\ UnmappedOut'
  BY <1>1 DEF DyIInv, OneTarget, UnmappedOut, NoThreads, OutOfLoop, threads
<1>5. InitCalls' /\ ExitCalls' /\ WaitsFor'
  BY <1>1, <1>3 DEF InitCalls, ExitCalls, WaitsFor
<1> QED BY <1>2, <1>4, <1>5 DEF DyIInv

\* ExitItem keeps DyIInv.
LEMMA ExitItemKeeps == ASSUME DyIInv, NEW x \in Items, ExitItem(x) PROVE DyIInv'
<1>1. /\ UNCHANGED <<shown, phase, waiting, fbMem, targets>> /\ UNCHANGED threads
      /\ calls = <<>> /\ phase = "exit"
      /\ calls' = IF x = "fb" /\ fbMem # "none" THEN Append(targets, "munmap")
                  ELSE IF x \in shown THEN <<x>> ELSE <<>>
  BY DEF ExitItem, Turn
<1>2. DyTypes' /\ DoneOut' /\ Undrawn' /\ (NoThreads' <=> NoThreads)
  BY <1>1, MainKeeps
<1>3. waiting = "none"
  BY <1>1 DEF DyIInv, WaitsFor
<1>4. OneTarget' /\ UnmappedOut' /\ InitCalls' /\ WaitsFor'
  BY <1>1, <1>3 DEF DyIInv, OneTarget, UnmappedOut, NoThreads, OutOfLoop, InitCalls, WaitsFor, threads
<1>5. ExitCalls'
  <2>1. CASE x = "fb" /\ fbMem # "none"
    <3>1. PICK d \in Displays : targets = <<d>>
      BY <2>1 DEF DyIInv, OneTarget
    <3>2. calls' = <<d, "munmap">> /\ targets' = <<d>>
      BY <1>1, <2>1, <3>1, Lists
    <3> QED BY <3>2 DEF ExitCalls
  <2>2. CASE ~(x = "fb" /\ fbMem # "none") /\ x \in shown
    <3>1. x \in Displays /\ calls' = <<x>>
      BY <1>1, <2>2 DEF DyIInv, DyTypes
    <3> QED BY <3>1 DEF ExitCalls
  <2>3. CASE ~(x = "fb" /\ fbMem # "none") /\ x \notin shown
    BY <1>1, <2>3 DEF ExitCalls
  <2> QED BY <2>1, <2>2, <2>3
<1> QED BY <1>2, <1>4, <1>5 DEF DyIInv

\* What is called when the calls are not empty: a display to stop, or the end.
LEMMA NextCall ==
  ASSUME DyIInv, phase = "exit", calls # <<>>
  PROVE  \/ \E d \in Displays : calls = <<d>> /\ Head(calls) = d /\ Tail(calls) = <<>>
         \/ \E d \in Displays : /\ targets = <<d>> /\ calls = <<d, "munmap">> /\ Head(calls) = d
                                /\ Tail(calls) = <<"munmap">>
         \/ \E d \in Displays : /\ targets = <<d>> /\ calls = <<"munmap">> /\ Head(calls) = "munmap"
                                /\ Tail(calls) = <<>> /\ (Waits(d) => done[d])
<1>1. CASE \E d \in Displays : calls = <<d>>
  BY <1>1, Lists
<1>2. CASE \E d \in Displays : targets = <<d>> /\ calls = <<d, "munmap">>
  BY <1>2, Lists
<1>3. CASE \E d \in Displays : targets = <<d>> /\ calls = <<"munmap">> /\ (Waits(d) => done[d])
  BY <1>3, Lists
<1> QED BY <1>1, <1>2, <1>3 DEF DyIInv, ExitCalls

\* The call at the head is over.
LEMMA CallEnds ==
  ASSUME DyIInv, phase = "exit", calls # <<>>, Head(calls) \in Displays,
         Waits(Head(calls)) => done[Head(calls)],
         phase' = phase, calls' = Tail(calls), targets' = targets, done' = done
  PROVE  ExitCalls'
<1>1. CASE \E d \in Displays : calls = <<d>> /\ Head(calls) = d /\ Tail(calls) = <<>>
  BY <1>1 DEF ExitCalls
<1>2. CASE \E d \in Displays : /\ targets = <<d>> /\ calls = <<d, "munmap">> /\ Head(calls) = d
                               /\ Tail(calls) = <<"munmap">>
  BY <1>2 DEF ExitCalls, Waits
<1> QED BY <1>1, <1>2, NextCall DEF Displays

\* Munmap keeps DyIInv.
LEMMA MunmapKeeps == ASSUME DyIInv, Munmap PROVE DyIInv'
<1>1. /\ UNCHANGED <<shown, phase, waiting, targets>> /\ UNCHANGED threads
      /\ calls # <<>> /\ phase = "exit" /\ Head(calls) = "munmap"
      /\ fbMem' = "unmapped" /\ calls' = Tail(calls)
  BY DEF Munmap
<1>2. DyTypes' /\ DoneOut' /\ Undrawn'
  BY <1>1, MainKeeps
<1>3. PICK d \in Displays : targets = <<d>> /\ Tail(calls) = <<>> /\ (Waits(d) => done[d])
  BY <1>1, NextCall DEF Displays
<1>4. waiting = "none"
  BY <1>1 DEF DyIInv, WaitsFor, Windows
<1>5. \A e \in Displays \ {d} : thr[e] = "none"
  <2>1. targets # <<>>
    BY <1>3, Lists
  <2>2. PICK c \in Displays : targets = <<c>> /\ \A e \in Displays \ {c} : thr[e] = "none"
    BY <2>1 DEF DyIInv, OneTarget
  <2>3. c = d
    BY <1>3, <2>2, Lists
  <2> QED BY <2>2, <2>3
<1>6. \A e \in Windows : OutOfLoop(e)
  <2> SUFFICES ASSUME NEW e \in Windows PROVE OutOfLoop(e)
    OBVIOUS
  <2>1. CASE e = d
    BY <1>3, <2>1 DEF DyIInv, DoneOut, OutOfLoop, Waits, Windows
  <2>2. CASE e # d
    BY <1>5, <2>2 DEF OutOfLoop, Windows, Displays
  <2> QED BY <2>1, <2>2
<1>7. OneTarget' /\ UnmappedOut'
  BY <1>1, <1>3, <1>5, <1>6 DEF OneTarget, UnmappedOut, OutOfLoop, threads
<1>8. InitCalls' /\ ExitCalls' /\ WaitsFor'
  BY <1>1, <1>3, <1>4 DEF InitCalls, ExitCalls, WaitsFor
<1> QED BY <1>2, <1>7, <1>8 DEF DyIInv

\* The end of a stop hook's wait for its thread keeps DyIInv.
LEMMA StopWaitKeeps == ASSUME DyIInv, StopWait PROVE DyIInv'
<1>1. /\ UNCHANGED <<shown, phase, fbMem, targets>> /\ UNCHANGED threads
      /\ phase = "exit" /\ waiting # "none" /\ done[waiting]
      /\ waiting' = "none" /\ calls' = Tail(calls)
  BY DEF StopWait
<1>2. DyTypes' /\ DoneOut' /\ Undrawn'
  BY <1>1, MainKeeps
<1>3. calls # <<>> /\ Head(calls) = waiting /\ waiting \in Windows
  BY <1>1 DEF DyIInv, WaitsFor
<1>4. Head(calls) \in Displays /\ done' = done
  BY <1>1, <1>3 DEF Windows, Displays, threads
<1>5. ExitCalls'
  BY <1>1, <1>3, <1>4, CallEnds
<1>6. OneTarget' /\ UnmappedOut' /\ InitCalls' /\ WaitsFor'
  BY <1>1 DEF DyIInv, OneTarget, UnmappedOut, NoThreads, OutOfLoop, InitCalls, WaitsFor, threads
<1> QED BY <1>2, <1>5, <1>6 DEF DyIInv

\* Calling a display's stop hook keeps DyIInv.
LEMMA StopCallKeeps == ASSUME DyIInv, StopCall PROVE DyIInv'
<1>1. PICK d \in Displays : d = Head(calls)
  BY DEF StopCall
<1>2. /\ UNCHANGED <<shown, listed, fbMem, targets, done, misused>>
      /\ phase = "exit" /\ calls # <<>> /\ waiting = "none"
  BY DEF StopCall
<1>3. CASE phase' = "crashed" /\ UNCHANGED <<calls, waiting, thr>>
  <2>1. DyTypes' /\ DoneOut' /\ Undrawn' /\ OneTarget' /\ UnmappedOut'
    BY <1>2, <1>3 DEF DyIInv, DyTypes, DoneOut, Undrawn, OneTarget, UnmappedOut, NoThreads, OutOfLoop
  <2>2. InitCalls' /\ ExitCalls' /\ WaitsFor'
    BY <1>2, <1>3 DEF InitCalls, ExitCalls, WaitsFor
  <2> QED BY <2>1, <2>2 DEF DyIInv
<1>4. CASE /\ phase' = phase
           /\ thr' = IF d = "gtk" /\ thr[d] = "loop" THEN [thr EXCEPT ![d] = "leaving"] ELSE thr
           /\ IF Waits(d) THEN waiting' = d /\ UNCHANGED calls
                          ELSE calls' = Tail(calls) /\ UNCHANGED waiting
  <2>1. /\ thr' \in [Displays -> ThreadStates]
        /\ \A e \in Displays : thr'[e] = thr[e] \/ (thr[e] = "loop" /\ thr'[e] = "leaving")
    BY <1>4 DEF DyIInv, DyTypes, ThreadStates
  <2>2. DyTypes' /\ DoneOut' /\ Undrawn'
    BY <1>2, <2>1 DEF DyIInv, DyTypes, DoneOut, Undrawn, Windows, Displays
  <2>3. OneTarget' /\ UnmappedOut' /\ InitCalls'
    BY <1>2, <1>4, <2>1 DEF DyIInv, OneTarget, UnmappedOut, NoThreads, OutOfLoop, InitCalls, Windows, Displays
  <2>4. ExitCalls'
    <3>1. CASE Waits(d)
      BY <1>2, <1>4, <3>1 DEF DyIInv, ExitCalls, Waits
    <3>2. CASE ~Waits(d)
      BY <1>1, <1>2, <1>4, <3>2, CallEnds
    <3> QED BY <3>1, <3>2
  <2>5. WaitsFor'
    BY <1>1, <1>2, <1>4 DEF WaitsFor, Waits, Windows
  <2> QED BY <2>2, <2>3, <2>4, <2>5 DEF DyIInv
<1> QED BY <1>1, <1>3, <1>4 DEF StopCall

\* A thread that is in its drawing loop finds the memory mapped.
LEMMA DrawsMapped ==
  ASSUME DyIInv, NEW d \in Windows, ~OutOfLoop(d)
  PROVE  fbMem = "mapped"
<1>1. fbMem # "none"
  BY DEF DyIInv, OneTarget, NoThreads, OutOfLoop, Windows, Displays
<1> QED BY <1>1 DEF DyIInv, OneTarget, UnmappedOut

\* A step of the thread of a display: it was started, it does not start again, and
\* it does not come back to its loop.
LEMMA ThreadKeeps ==
  ASSUME DyIInv, UNCHANGED MainState, NEW d \in Displays, thr[d] # "none",
         NEW s \in ThreadStates \ {"none"}, thr' = [thr EXCEPT ![d] = s],
         done' \in [Displays -> BOOLEAN],
         \A e \in Windows : done[e] => done'[e],
         \A e \in Windows : done'[e] => done[e] \/ (e = d /\ s \in {"ended", "reboot"}),
         thr[d] \in {"ended", "reboot"} => s \in {"ended", "reboot"},
         Undrawn'
  PROVE  DyIInv'
<1>1. UNCHANGED <<shown, phase, listed, calls, waiting, fbMem, targets>>
  BY DEF MainState
<1>2. /\ thr' \in [Displays -> ThreadStates] /\ thr'[d] = s
      /\ \A e \in Displays \ {d} : thr'[e] = thr[e]
  BY DEF DyIInv, DyTypes
<1>3. ~NoThreads
  BY DEF NoThreads
<1>4. DyTypes' /\ DoneOut'
  BY <1>1, <1>2 DEF DyIInv, DyTypes, DoneOut, Windows, Displays
<1>5. OneTarget'
  BY <1>1, <1>2, <1>3 DEF DyIInv, OneTarget
<1>6. UnmappedOut'
  BY <1>1, <1>2 DEF DyIInv, UnmappedOut, OutOfLoop, Windows, Displays
<1>7. InitCalls'
  BY <1>1, <1>3 DEF DyIInv, InitCalls
<1>8. ExitCalls'
  <2>1. \A e \in Displays : Waits(e) /\ done[e] => done'[e]
    BY DEF Waits, Windows
  <2> QED BY <1>1, <2>1 DEF DyIInv, ExitCalls
<1>9. WaitsFor'
  BY <1>1 DEF DyIInv, WaitsFor
<1> QED BY <1>4, <1>5, <1>6, <1>7, <1>8, <1>9 DEF DyIInv

\* The steps of the SDL thread keep DyIInv.
LEMMA SdlKeeps ==
  ASSUME DyIInv, SdlStart \/ SdlLoop \/ SdlDraw \/ SdlQuit \/ SdlReboot
  PROVE  DyIInv'
<1>0. /\ DyTypes /\ Undrawn /\ "sdl" \in Displays /\ "sdl" \in Windows /\ Windows \subseteq Displays
      /\ done \in [Displays -> BOOLEAN]
  BY DEF DyIInv, DyTypes, Displays, Windows
<1>1. UNCHANGED MainState /\ thr["sdl"] \notin {"none", "ended"}
  BY DEF SdlStart, SdlLoop, SdlDraw, SdlQuit, SdlReboot
<1>2. PICK s \in ThreadStates \ {"none"} :
        /\ thr' = [thr EXCEPT !["sdl"] = s]
        /\ done' = done \/ (done' = [done EXCEPT !["sdl"] = TRUE] /\ s \in {"ended", "reboot"})
        /\ thr["sdl"] = "reboot" => s = "ended"
  <2>1. CASE SdlStart
    BY <2>1 DEF SdlStart, ThreadTo, ThreadStates
  <2>2. CASE SdlLoop
    <3>1. CASE running
      <4>1. done' = [done EXCEPT !["sdl"] = done["sdl"]] /\ thr' = [thr EXCEPT !["sdl"] = "draw"]
        BY <1>0, <2>2, <3>1 DEF SdlLoop, ThreadTo
      <4>2. done' = done
        BY <1>0, <4>1
      <4> QED BY <2>2, <4>1, <4>2 DEF SdlLoop, ThreadStates
    <3>2. CASE ~running
      <4>1. done' = [done EXCEPT !["sdl"] = TRUE] /\ thr' = [thr EXCEPT !["sdl"] = "ended"]
        BY <1>0, <2>2, <3>2 DEF SdlLoop, ThreadTo
      <4> QED BY <2>2, <4>1 DEF SdlLoop, ThreadStates
    <3> QED BY <3>1, <3>2
  <2>3. CASE SdlDraw
    BY <2>3 DEF SdlDraw, ThreadTo, ThreadStates
  <2>4. CASE SdlQuit
    BY <2>4 DEF SdlQuit, ThreadTo, ThreadStates
  <2>5. CASE SdlReboot
    BY <2>5 DEF SdlReboot, ThreadTo, ThreadStates
  <2> QED BY <2>1, <2>2, <2>3, <2>4, <2>5
<1>3. /\ done' \in [Displays -> BOOLEAN] /\ \A e \in Windows : done[e] => done'[e]
      /\ \A e \in Windows : done'[e] => done[e] \/ (e = "sdl" /\ s \in {"ended", "reboot"})
  BY <1>0, <1>2
<1>4. Undrawn'
  <2>1. CASE SdlDraw \/ SdlQuit
    <3>1. fbMem = "mapped"
      BY <1>0, <2>1, DrawsMapped DEF SdlDraw, SdlQuit, OutOfLoop
    <3> QED BY <1>0, <2>1, <3>1 DEF SdlDraw, SdlQuit, Draws, Undrawn
  <2>2. CASE SdlReboot
    BY <1>0, <2>2 DEF SdlReboot, Undrawn
  <2>3. CASE SdlStart \/ SdlLoop
    BY <1>0, <2>3 DEF SdlStart, SdlLoop, Undrawn
  <2> QED BY <2>1, <2>2, <2>3
<1> QED BY <1>0, <1>1, <1>2, <1>3, <1>4, ThreadKeeps

\* The steps of the VNC thread keep DyIInv.
LEMMA VncKeeps == ASSUME DyIInv, VncStart \/ VncLoop \/ VncDraw PROVE DyIInv'
<1>0. /\ DyTypes /\ Undrawn /\ "vnc" \in Displays /\ "vnc" \notin Windows
      /\ done \in [Displays -> BOOLEAN]
  BY DEF DyIInv, DyTypes, Displays, Windows
<1>1. UNCHANGED MainState /\ thr["vnc"] \notin {"none", "ended", "reboot"} /\ done' = done
  BY DEF VncStart, VncLoop, VncDraw
<1>2. PICK s \in ThreadStates \ {"none"} : thr' = [thr EXCEPT !["vnc"] = s]
  BY DEF VncStart, VncLoop, VncDraw, ThreadTo, ThreadStates
<1>3. Undrawn'
  <2>1. misused' = misused \/ misused' = misused \cup {<<"vnc", "memory">>}
    BY DEF VncStart, VncLoop, VncDraw, Draws
  <2>2. \A d \in Windows : <<d, "memory">> # <<"vnc", "memory">>
    BY DEF Windows
  <2> QED BY <1>0, <2>1, <2>2 DEF Undrawn
<1> QED BY <1>0, <1>1, <1>2, <1>3, ThreadKeeps

\* The steps of the GTK thread keep DyIInv.
LEMMA GtkKeeps ==
  ASSUME DyIInv, GtkStart \/ GtkDraw \/ GtkClose \/ GtkLeave
  PROVE  DyIInv'
<1>0. /\ DyTypes /\ Undrawn /\ "gtk" \in Displays /\ "gtk" \in Windows /\ Windows \subseteq Displays
      /\ done \in [Displays -> BOOLEAN]
  BY DEF DyIInv, DyTypes, Displays, Windows
<1>1. UNCHANGED MainState /\ thr["gtk"] \notin {"none", "ended", "reboot"}
  BY DEF GtkStart, GtkDraw, GtkClose, GtkLeave
<1>2. PICK s \in ThreadStates \ {"none"} :
        /\ thr' = [thr EXCEPT !["gtk"] = s]
        /\ done' = done \/ (done' = [done EXCEPT !["gtk"] = TRUE] /\ s = "ended")
  <2>1. CASE GtkDraw
    <3>1. thr' = [thr EXCEPT !["gtk"] = "loop"] /\ done' = done
      BY <1>0, <2>1 DEF GtkDraw, DyTypes
    <3> QED BY <3>1 DEF ThreadStates
  <2>2. CASE GtkStart \/ GtkClose
    BY <2>2 DEF GtkStart, GtkClose, ThreadTo, ThreadStates
  <2>3. CASE GtkLeave
    BY <2>3 DEF GtkLeave, GtkEnds, ThreadTo, ThreadStates
  <2> QED BY <2>1, <2>2, <2>3
<1>3. /\ done' \in [Displays -> BOOLEAN] /\ \A e \in Windows : done[e] => done'[e]
      /\ \A e \in Windows : done'[e] => done[e] \/ (e = "gtk" /\ s \in {"ended", "reboot"})
  BY <1>0, <1>2
<1>4. Undrawn'
  <2>1. CASE GtkDraw
    <3>1. fbMem = "mapped"
      BY <1>0, <2>1, DrawsMapped DEF GtkDraw, OutOfLoop
    <3> QED BY <1>0, <2>1, <3>1 DEF GtkDraw, Draws, Undrawn
  <2>2. CASE GtkStart \/ GtkClose \/ GtkLeave
    BY <1>0, <2>2 DEF GtkStart, GtkClose, GtkLeave, Undrawn
  <2> QED BY <2>1, <2>2
<1> QED BY <1>0, <1>1, <1>2, <1>3, <1>4, ThreadKeeps

\* Every step of the displays, or a stutter, keeps DyIInv.
LEMMA DyKept == ASSUME DyIInv, [DyNext]_dyVars PROVE DyIInv'
<1>1. CASE UNCHANGED dyVars
  <2>1. UNCHANGED <<shown, phase, listed, calls, waiting, fbMem, targets, thr, done, misused>>
    BY <1>1 DEF dyVars
  <2> QED BY <2>1 DEF DyIInv, DyTypes, Undrawn, OneTarget, DoneOut, UnmappedOut, InitCalls, ExitCalls,
                      WaitsFor, NoThreads, OutOfLoop
<1>2. CASE MainStep
  BY <1>2, VesaInitKeeps, FbInitKeeps, StartTargetKeeps, PhaseKeeps, ExitItemKeeps, StopCallKeeps,
     StopWaitKeeps, MunmapKeeps DEF MainStep
<1>3. CASE ThreadStep \/ GtkDraw \/ SdlQuit \/ GtkClose
  BY <1>3, SdlKeeps, VncKeeps, GtkKeeps DEF ThreadStep
<1> QED BY <1>1, <1>2, <1>3, PhaseKeeps DEF DyNext

\* DyIInv holds before any display is started.
LEMMA DyStarts == DyInit => DyIInv
<1> SUFFICES ASSUME DyInit PROVE DyIInv
  OBVIOUS
<1>1. DyTypes /\ NoThreads /\ Undrawn /\ DoneOut
  BY DEF DyInit, DyTypes, NoThreads, Undrawn, DoneOut, ThreadStates, Windows, Displays
<1>2. OneTarget /\ UnmappedOut /\ InitCalls /\ ExitCalls /\ WaitsFor
  BY <1>1 DEF DyInit, OneTarget, UnmappedOut, InitCalls, ExitCalls, WaitsFor
<1> QED BY <1>1, <1>2 DEF DyIInv

\* DyIInv rules out a draw on the unmapped frame buffer.
LEMMA DyGives == DyIInv => ScreenMapped
BY DEF DyIInv, Undrawn, UnmappedOut, OutOfLoop, Windows, ScreenMapped

-----------------------------------------------------------------------------
(* The commands                                                            *)

Told == {u \in Users : ucmd[u] \in {"pause", "resume"}}

\* A pause or resume command, from its start to its end.  Once its question has been
\* answered it is the one that the IPC thread serves, until its own request has been
\* handled.
ToldAt(u) ==
  \/ upc[u] \in {"start", "ask"} /\ believed[u] = "nothing" /\ sent[u] = <<>> /\ replies[u] = <<>>
     /\ uconn[u] # "closed"
  \/ upc[u] = "read" /\ believed[u] = "nothing" /\ sent[u] = <<"VMSTATE">> /\ replies[u] = <<>>
     /\ uconn[u] # "closed"
  \/ upc[u] = "read" /\ believed[u] = "nothing" /\ sent[u] = <<>> /\ replies[u] = <<vmState>>
     /\ uconn[u] # "closed" /\ served = u
  \/ upc[u] = "act" /\ believed[u] = vmState /\ sent[u] = <<>> /\ served = u
     /\ uconn[u] # "closed"
  \/ upc[u] = "end" /\ sent[u] \in {<<"PAUSE">>, <<"RESUME">>} /\ believed[u] = vmState /\ served = u
  \/ upc[u] = "end" /\ sent[u] = <<>>
  \/ upc[u] = "end" /\ believed[u] = "nothing" /\ sent[u] = <<"VMSTATE">>

CmIInv ==
  /\ upc \in [Users -> {"start", "ask", "read", "act", "dump", "end"}]
  /\ ucmd = [u \in Users |-> ucmd[u]] /\ uconn = [u \in Users |-> uconn[u]]
  /\ sent = [u \in Users |-> sent[u]] /\ replies = [u \in Users |-> replies[u]]
  /\ believed = [u \in Users |-> believed[u]]
  /\ \A u \in Users : believed[u] # "nothing" => u \in Told
  /\ \A u \in Users : uconn[u] = "shut" => ucmd[u] = "dump"
  /\ vm # "down" => \A u \in Told : ToldAt(u)

\* What a step of another process leaves of a command: its own state.
LEMMA ToldFrame ==
  ASSUME NEW u, ToldAt(u), vmState' = vmState, served' = served \/ (served = "none" /\ u # "none"),
         upc'[u] = upc[u], believed'[u] = believed[u], sent'[u] = sent[u], replies'[u] = replies[u],
         uconn'[u] = "closed" => uconn[u] = "closed"
  PROVE  ToldAt(u)'
BY DEF ToldAt

CmTypes ==
  /\ upc \in [Users -> {"start", "ask", "read", "act", "dump", "end"}]
  /\ ucmd = [u \in Users |-> ucmd[u]] /\ uconn = [u \in Users |-> uconn[u]]
  /\ sent = [u \in Users |-> sent[u]] /\ replies = [u \in Users |-> replies[u]]
  /\ believed = [u \in Users |-> believed[u]]

\* What the sequence operators give on a sequence of one element.
LEMMA One ==
  ASSUME NEW x
  PROVE  /\ <<x>> # <<>> /\ Head(<<x>>) = x /\ Tail(<<x>>) = <<>> /\ Append(<<>>, x) = <<x>>
         /\ <<>> \o <<x>> = <<x>>
<1>1. <<x>> # <<>> /\ Head(<<x>>) = x
  OBVIOUS
<1>2. Tail(<<x>>) = <<>>
  OBVIOUS
<1>3. Append(<<>>, x) = <<x>>
  OBVIOUS
<1>4. <<>> \o <<x>> = <<x>>
  OBVIOUS
<1> QED BY <1>1, <1>2, <1>3, <1>4

\* The steps of a command.
LEMMA UserKeeps ==
  ASSUME CmIInv, NEW u \in Users, UserStep(u) \/ Interrupt(u)
  PROVE  CmIInv'
<1>1. /\ UNCHANGED <<ucmd, served, vmState, vm>> /\ Told' = Told
  BY DEF UserStep, Interrupt, Locate, Ask, ReadAnswer, Act, DumpEnds, ReadNothing, vmStateVars, Told
<1>2. CmTypes'
  <2>1. CmTypes
    BY DEF CmIInv, CmTypes
  <2>2. CASE Locate(u) \/ Interrupt(u) \/ DumpEnds(u)
    BY <2>1, <2>2 DEF Locate, Interrupt, DumpEnds, Ends, CmTypes
  <2>3. CASE Ask(u)
    BY <2>1, <2>3 DEF Ask, Ends, CmTypes
  <2>4. CASE ReadAnswer(u)
    BY <2>1, <2>4 DEF ReadAnswer, Ends, CmTypes
  <2>5. CASE Act(u)
    BY <2>1, <2>5 DEF Act, Ends, CmTypes
  <2>6. CASE \E garbage \in {"running", "paused"} : ReadNothing(u, garbage)
    BY <2>1, <2>6 DEF ReadNothing, Ends, CmTypes
  <2> QED BY <2>2, <2>3, <2>4, <2>5, <2>6 DEF UserStep
<1>3. \A v \in Users \ {u} : /\ upc'[v] = upc[v] /\ believed'[v] = believed[v] /\ sent'[v] = sent[v]
                             /\ replies'[v] = replies[v] /\ uconn'[v] = uconn[v]
  <2>1. CmTypes
    BY DEF CmIInv, CmTypes
  <2>2. CASE Locate(u) \/ Interrupt(u) \/ DumpEnds(u)
    BY <2>1, <2>2 DEF Locate, Interrupt, DumpEnds, Ends, CmTypes
  <2>3. CASE Ask(u)
    BY <2>1, <2>3 DEF Ask, Ends, CmTypes
  <2>4. CASE ReadAnswer(u)
    BY <2>1, <2>4 DEF ReadAnswer, Ends, CmTypes
  <2>5. CASE Act(u)
    BY <2>1, <2>5 DEF Act, Ends, CmTypes
  <2>6. CASE \E garbage \in {"running", "paused"} : ReadNothing(u, garbage)
    BY <2>1, <2>6 DEF ReadNothing, Ends, CmTypes
  <2> QED BY <2>2, <2>3, <2>4, <2>5, <2>6 DEF UserStep
<1>4. uconn'[u] = "shut" => uconn[u] = "shut"
  <2>1. CmTypes
    BY DEF CmIInv, CmTypes
  <2>2. uconn' = uconn \/ uconn' = [uconn EXCEPT ![u] = "closed"] \/ uconn' = [uconn EXCEPT ![u] = "backlog"]
    BY DEF UserStep, Interrupt, Locate, Ask, ReadAnswer, Act, DumpEnds, ReadNothing, Ends
  <2> QED BY <2>1, <2>2 DEF CmTypes
<1>5. believed'[u] # "nothing" => believed[u] # "nothing" \/ u \in Told
  <2>1. u \notin Told => believed' = believed
    BY DEF UserStep, Interrupt, Locate, Ask, ReadAnswer, Act, DumpEnds, ReadNothing, Told
  <2> QED BY <2>1
<1>6. ASSUME vm # "down", u \in Told PROVE ToldAt(u)'
  <2>1. CmTypes /\ ToldAt(u) /\ ucmd[u] \in {"pause", "resume"} /\ uconn[u] # "shut"
    BY <1>6 DEF CmIInv, CmTypes, Told
  <2>2. CASE Locate(u)
    <3>1. /\ upc[u] = "start" /\ upc'[u] = "ask" /\ uconn'[u] = "backlog"
          /\ UNCHANGED <<sent, replies, believed>>
      BY <1>6, <2>1, <2>2 DEF Locate, CmTypes
    <3> QED BY <2>1, <3>1 DEF ToldAt
  <2>3. CASE Ask(u)
    <3>1. upc[u] = "ask" /\ sent[u] = <<>> /\ believed[u] = "nothing" /\ replies[u] = <<>> /\ uconn[u] # "closed"
      BY <2>1, <2>3 DEF Ask, ToldAt
    <3>2. FirstRequest(ucmd[u]) = "VMSTATE" /\ Reads(ucmd[u])
      BY <2>1 DEF FirstRequest, Reads
    <3>3. /\ sent'[u] = <<"VMSTATE">> /\ upc'[u] = "read" /\ UNCHANGED <<uconn, believed, replies>>
      BY <1>6, <2>1, <2>3, <3>1, <3>2, One DEF Ask, Gone, CmTypes
    <3> QED BY <3>1, <3>3 DEF ToldAt
  <2>4. CASE ReadAnswer(u)
    <3>1. upc[u] = "read" /\ replies[u] # <<>>
      BY <2>4 DEF ReadAnswer
    <3>2. replies[u] = <<vmState>> /\ served = u /\ sent[u] = <<>> /\ uconn[u] # "closed"
      BY <2>1, <3>1 DEF ToldAt
    <3>3. Head(replies[u]) = vmState
      BY <3>2, One
    <3>4. /\ believed'[u] = vmState /\ upc'[u] = "act" /\ UNCHANGED <<uconn, sent>>
      BY <2>1, <2>4, <3>3 DEF ReadAnswer, CmTypes
    <3> QED BY <1>1, <3>2, <3>4 DEF ToldAt
  <2>5. CASE \E garbage \in {"running", "paused"} : ReadNothing(u, garbage)
    BY <1>6, <2>1, <2>5 DEF ReadNothing, Gone
  <2>6. CASE Act(u)
    <3>1. upc[u] = "act" /\ believed[u] = vmState /\ sent[u] = <<>> /\ served = u
      BY <2>1, <2>6 DEF Act, ToldAt
    <3>2. upc'[u] = "end" /\ believed' = believed
      BY <2>1, <2>6 DEF Act, Ends, CmTypes
    <3>3. sent'[u] \in {<<>>, <<"PAUSE">>, <<"RESUME">>}
      BY <2>1, <2>6, <3>1, One DEF Act, CmTypes
    <3> QED BY <1>1, <3>1, <3>2, <3>3 DEF ToldAt
  <2>7. CASE DumpEnds(u)
    BY <1>6, <2>1, <2>7 DEF DumpEnds, Gone
  <2>8. CASE Interrupt(u)
    <3>1. upc[u] = "read"
      BY <2>1, <2>8 DEF Interrupt, ToldAt
    <3>2. upc'[u] = "end" /\ UNCHANGED <<sent, believed>>
      BY <2>1, <2>8 DEF Interrupt, Ends, CmTypes
    <3> QED BY <2>1, <3>1, <3>2 DEF ToldAt
  <2> QED BY <2>2, <2>3, <2>4, <2>5, <2>6, <2>7, <2>8 DEF UserStep
<1>7. vm # "down" => \A v \in Told : ToldAt(v)'
  <2> SUFFICES ASSUME vm # "down", NEW v \in Told PROVE ToldAt(v)'
    OBVIOUS
  <2>1. CASE v # u
    <3>1. v \in Users \ {u} /\ ToldAt(v)
      BY <2>1 DEF CmIInv, Told
    <3> QED BY <1>1, <1>3, <3>1, ToldFrame
  <2> QED BY <1>6, <2>1
<1>8. /\ \A v \in Users : believed'[v] # "nothing" => v \in Told
      /\ \A v \in Users : uconn'[v] = "shut" => ucmd'[v] = "dump"
  BY <1>1, <1>3, <1>4, <1>5 DEF CmIInv
<1> QED BY <1>1, <1>2, <1>7, <1>8 DEF CmIInv, CmTypes

\* kvm_ipc__handle_event handles a message of the client that it serves.
LEMMA ReceiveCommandKeeps ==
  ASSUME CmIInv, NEW u \in Users, ReceiveCommand(u)
  PROVE  CmIInv'
<1> DEFINE type == Head(sent[u])
<1>0. CmTypes
  BY DEF CmIInv, CmTypes
<1>1. /\ vm # "down" /\ served = u /\ uconn[u] # "shut" /\ sent[u] # <<>>
      /\ sent' = [sent EXCEPT ![u] = Tail(@)]
      /\ replies' = [replies EXCEPT ![u] = @ \o Reply(type)]
      /\ UNCHANGED <<ucmd, upc, served, believed>> /\ Told' = Told
      /\ uconn' = uconn \/ (ucmd[u] = "dump" /\ uconn' = [uconn EXCEPT ![u] = "shut"])
  BY DEF ReceiveCommand, Reading, ShutsAfter, Told
<1>2. CmTypes'
  BY <1>0, <1>1 DEF CmTypes
<1>3. \A v \in Users : uconn'[v] = "shut" => ucmd'[v] = "dump"
  BY <1>0, <1>1 DEF CmIInv, CmTypes
<1>4. ASSUME NEW v \in Told, v # u PROVE ToldAt(v)'
  <2>1. ToldAt(v) /\ v \in Users /\ served # v
    BY <1>1, <1>4 DEF CmIInv, Told
  <2>2. /\ upc'[v] = upc[v] /\ believed'[v] = believed[v] /\ sent'[v] = sent[v]
        /\ replies'[v] = replies[v] /\ uconn'[v] = uconn[v]
    BY <1>0, <1>1, <1>4, <2>1 DEF CmTypes
  <2> QED BY <1>1, <2>1, <2>2 DEF ToldAt
<1>5. ASSUME u \in Told PROVE ToldAt(u)'
  <2>1. ToldAt(u) /\ uconn' = uconn
    BY <1>1, <1>5 DEF CmIInv, Told
  <2>2. CASE sent[u] = <<"VMSTATE">>
    <3>1. type = "VMSTATE" /\ sent'[u] = <<>> /\ upc'[u] = upc[u] /\ believed'[u] = believed[u]
      BY <1>0, <1>1, <2>2, One DEF CmTypes
    <3>2. vmState' = vmState
      BY <3>1 DEF ReceiveCommand, HandlePause
    <3>3. Reply(type) = <<vmState>>
      BY <3>1 DEF Reply
    <3>4. CASE upc[u] = "read"
      <4>1. replies[u] = <<>> /\ believed[u] = "nothing" /\ uconn[u] # "closed"
        BY <2>1, <2>2, <3>4, One DEF ToldAt
      <4>2. replies'[u] = <<vmState>>
        BY <1>0, <1>1, <3>3, <4>1, One DEF CmTypes
      <4> QED BY <1>1, <2>1, <3>1, <3>2, <3>4, <4>1, <4>2 DEF ToldAt
    <3>5. CASE upc[u] # "read"
      <4>1. upc[u] = "end"
        BY <2>1, <2>2, <3>5, One DEF ToldAt
      <4> QED BY <3>1, <4>1 DEF ToldAt
    <3> QED BY <3>4, <3>5
  <2>3. CASE sent[u] # <<"VMSTATE">>
    <3>1. upc[u] = "end" /\ sent[u] \in {<<"PAUSE">>, <<"RESUME">>}
      BY <1>1, <2>1, <2>3 DEF ToldAt
    <3>2. sent'[u] = <<>> /\ upc'[u] = "end"
      BY <1>0, <1>1, <3>1, One DEF CmTypes
    <3> QED BY <3>2 DEF ToldAt
  <2> QED BY <2>2, <2>3
<1> QED BY <1>1, <1>2, <1>3, <1>4, <1>5 DEF CmIInv, CmTypes

\* Every step of a management command, or a stutter, keeps CmIInv.
LEMMA CmKept == ASSUME CmIInv, [CmNext]_cmdVars PROVE CmIInv'
<1>0. CmTypes
  BY DEF CmIInv, CmTypes
<1>1. CASE UNCHANGED cmdVars
  <2>1. UNCHANGED <<ucmd, upc, uconn, sent, replies, believed, served, vmState, vm>>
    BY <1>1 DEF cmdVars, userState, vmStateVars
  <2> QED BY <2>1 DEF CmIInv, Told, ToldAt
<1>2. CASE AcceptOne
  <2>1. /\ UNCHANGED <<ucmd, upc, sent, replies, believed, vmState, vm>> /\ served = "none" /\ Told' = Told
        /\ uconn' = [uconn EXCEPT ![Head(pending)] = IF @ = "backlog" THEN "open" ELSE @]
    BY <1>2 DEF AcceptOne, vmStateVars, Told
  <2>2. CmTypes' /\ \A u \in Users : uconn'[u] = uconn[u] \/ uconn'[u] = "open"
    BY <1>0, <2>1 DEF CmTypes
  <2>3. \A u \in Told : ToldAt(u) => ToldAt(u)'
    BY <2>1, <2>2, ToldFrame, CommandsAssumption DEF Told
  <2> QED BY <2>1, <2>2, <2>3 DEF CmIInv, CmTypes
<1>3. CASE ReceiveFails
  <2>1. /\ UNCHANGED <<ucmd, upc, uconn, sent, replies, believed, vmState, vm>> /\ vm # "down"
        /\ Told' = Told
    BY <1>3 DEF ReceiveFails, userState, vmStateVars, Told
  <2>2. ASSUME NEW u \in Told PROVE ToldAt(u)'
    <3>1. ToldAt(u) /\ uconn[u] # "shut"
      BY <2>1 DEF CmIInv, Told
    <3>2. CASE served # u
      BY <2>1, <3>1, <3>2 DEF ToldAt
    <3>3. CASE served = u
      <4>1. uconn[u] = "closed" /\ sent[u] = <<>>
        BY <1>3, <3>1, <3>3 DEF ReceiveFails
      <4> QED BY <2>1, <3>1, <4>1 DEF ToldAt
    <3> QED BY <3>2, <3>3
  <2> QED BY <2>1, <2>2 DEF CmIInv
<1>4. CASE VmEnds
  <2>1. UNCHANGED <<ucmd, upc, uconn, sent, replies, believed>> /\ vm' = "down" /\ Told' = Told
    BY <1>4 DEF VmEnds, userState, Told
  <2> QED BY <2>1 DEF CmIInv
<1> QED BY <1>1, <1>2, <1>3, <1>4, UserKeeps, ReceiveCommandKeeps DEF CmNext, Thread

\* CmIInv holds before the first command.
LEMMA CmStarts == CmInit => CmIInv
<1> SUFFICES ASSUME CmInit PROVE CmIInv
  OBVIOUS
<1>1. CmTypes
  BY DEF CmInit, CmTypes
<1>2. \A u \in Users : ToldAt(u)
  BY DEF CmInit, ToldAt
<1> QED BY <1>1, <1>2 DEF CmInit, CmIInv, CmTypes, Told

\* What CmIInv knows of each place implies what the command is told.
LEMMA CmGives == CmIInv => ToldStateHolds
<1> SUFFICES ASSUME CmIInv, NEW u \in Users,
                    vm # "down", believed[u] # "nothing", upc[u] = "act" \/ sent[u] # <<>>
             PROVE  believed[u] = vmState
  BY DEF ToldStateHolds
<1>1. ToldAt(u)
  BY DEF CmIInv
<1> QED BY <1>1 DEF ToldAt

-----------------------------------------------------------------------------
(* The instances                                                           *)

\* What a process without a live namesake knows of the files of its name.
KnowsFiles(p) ==
  LET n == gname[p]
  IN /\ ppc[p] = "mkdir" => n \notin dirs
     /\ ppc[p] = "bind" => n \in dirs /\ sock[n] = NoFile
     /\ ppc[p] \in {"listen", "run"} => n \in dirs /\ sock[n] = p
     /\ ppc[p] = "run" => p \in listening
     /\ ppc[p] \notin {"connect", "unlink", "rebind"}

InIInv ==
  /\ gname \in [Vms -> GuestNames] /\ ppc = [p \in Vms |-> ppc[p]]
  /\ sock = [n \in GuestNames |-> sock[n]]
  /\ \A n \in GuestNames : sock[n] # NoFile => n \in dirs
  /\ \A p \in Live, q \in Live : q # p /\ gname[q] = gname[p] => p \in crowded
  /\ \A p \in Live \ crowded : KnowsFiles(p)

\* A step of a process: the others keep their place, and whoever meets a live namesake
\* is crowded.
LEMMA GoesOn ==
  ASSUME InIInv, NEW p \in Vms, NEW step, Goes(p, step)
  PROVE  /\ gname' = gname /\ ppc' = [r \in Vms |-> ppc'[r]] /\ ppc'[p] = step
         /\ \A q \in Vms \ {p} : ppc'[q] = ppc[q]
         /\ crowded \subseteq crowded'
         /\ \A q \in Live' \ crowded' : q # p => q \in Live \ crowded /\ gname[q] # gname[p]
         /\ \A q \in Live', r \in Live' : r # q /\ gname'[r] = gname'[q] => q \in crowded'
<1>1. /\ gname' = gname /\ ppc' = [r \in Vms |-> ppc'[r]] /\ ppc'[p] = step
      /\ \A q \in Vms \ {p} : ppc'[q] = ppc[q]
  BY DEF Goes, InIInv
<1>2. /\ crowded \subseteq crowded'
      /\ \A q \in Namesakes(p) \cap Live : q \in crowded' /\ p \in crowded'
  BY DEF Goes
<1>3. \A q \in Live' : q \in Vms /\ (q # p => q \in Live)
  BY <1>1 DEF Live
<1>4. \A q \in Live : q # p /\ gname[q] = gname[p] => q \in Namesakes(p) \cap Live
  BY DEF Live, Namesakes
<1>5. \A q \in Live' \ crowded' : q # p => q \in Live \ crowded /\ gname[q] # gname[p]
  BY <1>2, <1>3, <1>4
<1>6. ASSUME NEW q \in Live', NEW r \in Live', r # q, gname'[r] = gname'[q] PROVE q \in crowded'
  <2>1. CASE q = p
    BY <1>1, <1>2, <1>3, <1>4, <1>6, <2>1
  <2>2. CASE r = p
    BY <1>1, <1>2, <1>3, <1>4, <1>6, <2>2
  <2>3. CASE q # p /\ r # p
    BY <1>1, <1>2, <1>3, <1>6, <2>3 DEF InIInv
  <2> QED BY <2>1, <2>2, <2>3
<1> QED BY <1>1, <1>2, <1>5, <1>6

\* It touches the files of its own name only.
LEMMA FilesKept ==
  ASSUME InIInv, NEW p \in Vms, NEW step, Goes(p, step),
         sock' = [n \in GuestNames |-> sock'[n]],
         \A n \in GuestNames \ {gname[p]} : sock'[n] = sock[n] /\ (n \in dirs' <=> n \in dirs),
         sock'[gname[p]] # NoFile => gname[p] \in dirs',
         \A q \in Vms \ {p} : q \in listening => q \in listening',
         p \in Live' /\ p \notin crowded' => KnowsFiles(p)'
  PROVE  InIInv'
<1>1. /\ gname' = gname /\ ppc' = [r \in Vms |-> ppc'[r]] /\ ppc'[p] = step
      /\ \A q \in Vms \ {p} : ppc'[q] = ppc[q]
      /\ \A q \in Live' \ crowded' : q # p => q \in Live \ crowded /\ gname[q] # gname[p]
      /\ \A q \in Live', r \in Live' : r # q /\ gname'[r] = gname'[q] => q \in crowded'
  BY GoesOn
<1>2. gname \in [Vms -> GuestNames] /\ \A n \in GuestNames : sock[n] # NoFile => n \in dirs
  BY DEF InIInv
<1>3. \A n \in GuestNames : sock'[n] # NoFile => n \in dirs'
  BY <1>2
<1>4. ASSUME NEW q \in Live' \ crowded', q # p PROVE KnowsFiles(q)'
  <2>1. q \in Vms \ {p} /\ gname[q] \in GuestNames \ {gname[p]} /\ KnowsFiles(q)
    BY <1>1, <1>2, <1>4 DEF InIInv, Live
  <2>2. /\ ppc'[q] = ppc[q] /\ gname'[q] = gname[q] /\ sock'[gname[q]] = sock[gname[q]]
        /\ gname[q] \in dirs' <=> gname[q] \in dirs
        /\ q \in listening => q \in listening'
    BY <1>1, <2>1
  <2> QED BY <2>1, <2>2 DEF KnowsFiles
<1>5. \A q \in Live' \ crowded' : KnowsFiles(q)'
  BY <1>4
<1> QED BY <1>1, <1>2, <1>3, <1>5 DEF InIInv

\* A process without a live namesake knew the files of its name already, unless it
\* has just begun.
LEMMA Knew ==
  ASSUME InIInv, NEW p \in Vms, NEW step, Goes(p, step), p \notin crowded',
         ppc[p] \notin {"new", "ended", "killed", "failed"}
  PROVE  KnowsFiles(p)
<1>1. p \notin crowded
  BY GoesOn
<1> QED BY <1>1 DEF InIInv, Live

\* Every step of the instance directory, or a stutter, keeps InIInv.
LEMMA InKept == ASSUME InIInv, [InNext]_inVars PROVE InIInv'
<1>0. /\ gname \in [Vms -> GuestNames] /\ sock = [n \in GuestNames |-> sock[n]]
      /\ \A n \in GuestNames : sock[n] # NoFile => n \in dirs
  BY DEF InIInv
<1>1. CASE UNCHANGED inVars
  BY <1>1 DEF inVars, InIInv, Live, KnowsFiles
<1>2. ASSUME NEW p \in Vms, PathExist(p) PROVE InIInv'
  <2>1. PICK step : Goes(p, step) /\ step = IF gname[p] \in dirs THEN "delete" ELSE "mkdir"
    BY <1>2 DEF PathExist
  <2>2. gname' = gname /\ ppc'[p] = step /\ UNCHANGED <<dirs, sock, listening>>
    BY <1>2, <2>1, GoesOn DEF PathExist
  <2>3. KnowsFiles(p)'
    BY <2>1, <2>2 DEF KnowsFiles
  <2> QED BY <1>0, <2>1, <2>2, <2>3, FilesKept
<1>3. ASSUME NEW p \in Vms, DelDir(p) PROVE InIInv'
  <2>1. Goes(p, "mkdir") /\ DeleteDir(gname[p]) /\ UNCHANGED listening
    BY <1>3 DEF DelDir
  <2>2. gname' = gname /\ ppc'[p] = "mkdir"
    BY <2>1, GoesOn
  <2>3. /\ sock' = [n \in GuestNames |-> sock'[n]] /\ sock'[gname[p]] = NoFile /\ gname[p] \notin dirs'
        /\ \A n \in GuestNames \ {gname[p]} : sock'[n] = sock[n] /\ (n \in dirs' <=> n \in dirs)
    BY <1>0, <2>1 DEF DeleteDir
  <2>4. KnowsFiles(p)'
    BY <2>2, <2>3 DEF KnowsFiles
  <2> QED BY <1>0, <2>1, <2>3, <2>4, FilesKept
<1>4. ASSUME NEW p \in Vms, MkDir(p) PROVE InIInv'
  <2>1. PICK step : Goes(p, step) /\ step = IF gname[p] \in dirs THEN "failed" ELSE "bind"
    BY <1>4 DEF MkDir
  <2>2. /\ gname' = gname /\ ppc'[p] = step /\ ppc[p] = "mkdir"
        /\ UNCHANGED <<sock, listening>> /\ dirs' = dirs \cup {gname[p]}
    BY <1>4, <2>1, GoesOn DEF MkDir
  <2>3. p \notin crowded' => KnowsFiles(p)
    BY <2>1, <2>2, Knew
  <2>4. gname[p] \in GuestNames
    BY <1>0
  <2>5. p \in Live' /\ p \notin crowded' => KnowsFiles(p)'
    BY <1>0, <2>1, <2>2, <2>3, <2>4 DEF KnowsFiles, Live
  <2> QED BY <1>0, <2>1, <2>2, <2>4, <2>5, FilesKept
<1>5. ASSUME NEW p \in Vms, Bind(p) PROVE InIInv'
  <2>1. PICK n \in GuestNames : n = gname[p]
    BY <1>0
  <2>2. PICK bound \in BOOLEAN : bound <=> n \in dirs /\ sock[n] = NoFile
    OBVIOUS
  <2>3. /\ ppc[p] \in {"bind", "rebind"} /\ UNCHANGED <<dirs, listening>>
        /\ sock' = IF bound THEN [sock EXCEPT ![n] = p] ELSE sock
    BY <1>5, <2>1, <2>2 DEF Bind
  <2>4. PICK step : Goes(p, step) /\ (bound => step = "listen")
    BY <1>5, <2>1, <2>2 DEF Bind
  <2>5. gname' = gname /\ ppc'[p] = step
    BY <2>4, GoesOn
  <2>6. p \notin crowded' => KnowsFiles(p)
    BY <2>3, <2>4, Knew
  <2>7. p \notin crowded' => bound /\ sock'[n] = p
    BY <1>0, <2>1, <2>2, <2>3, <2>6 DEF KnowsFiles
  <2>8. p \notin crowded' => KnowsFiles(p)'
    BY <2>1, <2>2, <2>3, <2>4, <2>5, <2>7 DEF KnowsFiles
  <2>9. /\ sock' = [m \in GuestNames |-> sock'[m]] /\ (sock'[n] # NoFile => n \in dirs')
        /\ \A m \in GuestNames \ {n} : sock'[m] = sock[m]
    BY <1>0, <2>2, <2>3
  <2> QED BY <2>1, <2>3, <2>4, <2>8, <2>9, FilesKept
<1>6. ASSUME NEW p \in Vms, TryConnect(p) PROVE InIInv'
  <2>1. PICK step : Goes(p, step)
    BY <1>6 DEF TryConnect
  <2>2. ppc[p] = "connect" /\ UNCHANGED <<dirs, sock, listening>>
    BY <1>6 DEF TryConnect
  <2>3. p \in crowded'
    BY <2>1, <2>2, Knew DEF KnowsFiles
  <2> QED BY <1>0, <2>1, <2>2, <2>3, FilesKept
<1>7. ASSUME NEW p \in Vms, Unlink(p) PROVE InIInv'
  <2>1. Goes(p, "rebind") /\ ppc[p] = "unlink" /\ UNCHANGED <<dirs, listening>>
        /\ sock' = [sock EXCEPT ![gname[p]] = NoFile]
    BY <1>7 DEF Unlink
  <2>2. p \in crowded'
    BY <2>1, Knew DEF KnowsFiles
  <2>3. /\ sock' = [n \in GuestNames |-> sock'[n]] /\ sock'[gname[p]] = NoFile
        /\ \A n \in GuestNames \ {gname[p]} : sock'[n] = sock[n]
    BY <1>0, <2>1
  <2> QED BY <2>1, <2>2, <2>3, FilesKept
<1>8. ASSUME NEW p \in Vms, Listen(p) PROVE InIInv'
  <2>1. Goes(p, "run") /\ ppc[p] = "listen" /\ UNCHANGED <<dirs, sock>> /\ listening' = listening \cup {p}
    BY <1>8 DEF Listen
  <2>2. gname' = gname /\ ppc'[p] = "run"
    BY <2>1, GoesOn
  <2>3. p \notin crowded' => KnowsFiles(p)
    BY <2>1, Knew
  <2>4. p \notin crowded' => KnowsFiles(p)'
    BY <2>1, <2>2, <2>3 DEF KnowsFiles
  <2> QED BY <1>0, <2>1, <2>4, FilesKept
<1>9. ASSUME NEW p \in Vms, IpcExit(p) PROVE InIInv'
  <2>1. Goes(p, "rootfs_exit") /\ UNCHANGED <<dirs, sock>> /\ listening' = listening \ {p}
    BY <1>9 DEF IpcExit
  <2>2. ppc'[p] = "rootfs_exit"
    BY <2>1, GoesOn
  <2>3. KnowsFiles(p)'
    BY <2>2 DEF KnowsFiles
  <2> QED BY <1>0, <2>1, <2>3, FilesKept
<1>10. ASSUME NEW p \in Vms, RootfsExit(p) PROVE InIInv'
  <2>1. Goes(p, "ended") /\ DeleteDir(gname[p]) /\ UNCHANGED listening
    BY <1>10 DEF RootfsExit
  <2>2. ppc'[p] = "ended"
    BY <2>1, GoesOn
  <2>3. /\ sock' = [n \in GuestNames |-> sock'[n]] /\ sock'[gname[p]] = NoFile
        /\ \A n \in GuestNames \ {gname[p]} : sock'[n] = sock[n] /\ (n \in dirs' <=> n \in dirs)
    BY <1>0, <2>1 DEF DeleteDir
  <2>4. p \notin Live'
    BY <2>2 DEF Live
  <2> QED BY <2>1, <2>3, <2>4, FilesKept
<1>11. ASSUME NEW p \in Vms, Killed(p) PROVE InIInv'
  <2>1. Goes(p, "killed") /\ UNCHANGED <<dirs, sock>> /\ listening' = listening \ {p}
    BY <1>11 DEF Killed
  <2>2. ppc'[p] = "killed"
    BY <2>1, GoesOn
  <2>3. p \notin Live'
    BY <2>2 DEF Live
  <2> QED BY <1>0, <2>1, <2>3, FilesKept
<1>12. ASSUME NEW p \in Vms, Again(p) PROVE InIInv'
  <2>1. /\ UNCHANGED <<gname, dirs, listening>> /\ crowded' = crowded \ {p} /\ p \notin Live
        /\ sock' = [n \in GuestNames |-> IF sock[n] = p THEN Ghost ELSE sock[n]]
        /\ ppc' = [ppc EXCEPT ![p] = "new"]
    BY <1>12 DEF Again, Live
  <2>2. /\ ppc' = [q \in Vms |-> ppc'[q]] /\ ppc'[p] = "new" /\ \A q \in Vms \ {p} : ppc'[q] = ppc[q]
    BY <2>1 DEF InIInv
  <2>3. Live' = Live
    BY <2>1, <2>2 DEF Live
  <2>4. \A n \in GuestNames : (sock'[n] # NoFile => n \in dirs') /\ (sock[n] # p => sock'[n] = sock[n])
    BY <1>0, <2>1, InstancesAssumption DEF NoFile, Ghost
  <2>5. ASSUME NEW q \in Live' \ crowded' PROVE KnowsFiles(q)'
    <3>1. q \in Live \ crowded /\ q # p /\ q \in Vms /\ KnowsFiles(q) /\ gname[q] \in GuestNames
      BY <1>0, <2>1, <2>3, <2>5 DEF InIInv, Live
    <3>2. ppc[q] = "bind" => sock'[gname[q]] = NoFile
      <4> SUFFICES ASSUME ppc[q] = "bind" PROVE sock'[gname[q]] = NoFile
        OBVIOUS
      <4>1. sock[gname[q]] = NoFile /\ NoFile # p
        BY <3>1, InstancesAssumption DEF KnowsFiles, NoFile
      <4> QED BY <2>4, <3>1, <4>1
    <3>3. ppc[q] \in {"listen", "run"} => sock'[gname[q]] = q
      BY <2>4, <3>1 DEF KnowsFiles
    <3>4. ppc'[q] = ppc[q]
      BY <2>2, <3>1
    <3> QED BY <2>1, <3>1, <3>2, <3>3, <3>4 DEF KnowsFiles
  <2>6. \A q \in Live', r \in Live' : r # q /\ gname'[r] = gname'[q] => q \in crowded'
    BY <2>1, <2>3 DEF InIInv
  <2> QED BY <1>0, <2>1, <2>2, <2>4, <2>5, <2>6 DEF InIInv
<1> QED BY <1>1, <1>2, <1>3, <1>4, <1>5, <1>6, <1>7, <1>8, <1>9, <1>10, <1>11, <1>12 DEF InNext

\* InIInv holds of the empty directory.
LEMMA InStarts == InInit => InIInv
BY DEF InInit, InIInv, Live

-----------------------------------------------------------------------------
(* The parts together                                                      *)

\* A step of what users meet is a step of one part, and of no other.
LEMMA PartMoves ==
  [MCNext]_all => [BlNext]_blVars /\ [DyNext]_dyVars /\ [CmNext]_cmdVars /\ [InNext]_inVars
BY DEF MCNext, all

\* The statistics of the balloon (virtio_bln__collect_stats): until the device is
\* reset a client gets what was gathered for its own request, and num_pages never
\* wraps (handle_mem).
THEOREM StatsAreFresh == MCSpec => []StatsFresh
<1>1. MCInit => BlIInv
  BY BlStarts DEF MCInit
<1>2. BlIInv /\ [MCNext]_all => BlIInv'
  BY PartMoves, BlKept
<1>3. BlIInv => StatsFresh
  BY DEF BlIInv, StatsFresh
<1> QED BY <1>1, <1>2, <1>3, PTL DEF MCSpec

\* The end of the displays (fb__exit): the frame buffer goes only when the threads of
\* SDL and GTK are out of their drawing loops, and they never draw from it afterwards.
THEOREM ScreensMapped == MCSpec => []ScreenMapped
<1>1. MCInit => DyIInv
  BY DyStarts DEF MCInit
<1>2. DyIInv /\ [MCNext]_all => DyIInv'
  BY PartMoves, DyKept
<1>3. DyIInv => ScreenMapped
  BY DyGives
<1> QED BY <1>1, <1>2, <1>3, PTL DEF MCSpec

\* The commands (kvm_ipc__handle_event, init/vm.c): what a pause or resume command was
\* told holds when its own request is handled, for any number of commands at a time,
\* and a running guest without a namesake can be found.
THEOREM ManagementHolds == MCSpec => []ManagementInv
<1>1. MCInit => CmIInv /\ InIInv
  BY CmStarts, InStarts DEF MCInit
<1>2. CmIInv /\ InIInv /\ [MCNext]_all => CmIInv' /\ InIInv'
  BY PartMoves, CmKept, InKept
<1>3. CmIInv /\ InIInv => ManagementInv
  <2>1. InIInv => GuestReachable
    BY DEF InIInv, KnowsFiles, Live, GuestReachable
  <2> QED BY <2>1, CmGives DEF ManagementInv
<1> QED BY <1>1, <1>2, <1>3, PTL DEF MCSpec
==============================================================================
