--------------------------------- MODULE Balloon ---------------------------------
(***************************************************************************)
(* The IPC server and the balloon device it talks to: clients that connect *)
(* to the socket, the server's epoll thread (kvm_ipc__handle_event), the   *)
(* balloon's commands, the pool job of its statistics queue, and the       *)
(* guest's driver.  A request for statistics hands the driver its buffer   *)
(* back and blocks the IPC thread until the driver has filled it again.    *)
(***************************************************************************)
EXTENDS Integers, Sequences

CONSTANTS
  Clients,     \* processes that send a command
  MaxPages,    \* bound: pages of the balloon, in megabytes
  MaxResets,   \* bound: resets by the driver
  U32          \* bound: 2^32, where num_pages wraps

ASSUME BalloonAssumption ==
  MaxPages \in Nat /\ MaxResets \in Nat /\ U32 \in Nat /\ MaxPages < U32

VARIABLES
  cpc,         \* per client: "idle", "backlog", "open", "stat", "mem", "answered", "closed"
  backlog,     \* connections that wait for accept
  edge,        \* the edge-triggered event of the server's socket is pending
  server,      \* the IPC thread: "wait", "recv" or "stats" (in collect_stats)
  client,      \* the client it serves (0: none)
  conns,       \* descriptors it has open
  numPages, actual, \* config.num_pages and config.actual
  pages,       \* pages in the guest's balloon
  sdrv,        \* the driver of the statistics queue: "down", "setup" (the queue is
               \* enabled), "live" (it has offered its buffer) or "bad" (it was handed a
               \* buffer it had not offered, and gave up)
  nAvail,      \* entries in its available ring (all are the one buffer)
  returned,    \* used entries the driver has not seen
  runs,        \* signals of the queue's job
  content,     \* the request the driver has filled its buffer for (0: empty)
  curStat,     \* cur_stat is set
  stats,       \* what was copied to bdev->stats
  waitfd,      \* stat_waitfd
  request,     \* requests for statistics so far
  resets,      \* bound
  answers      \* history: the pairs of a request and the statistics sent

ipcState == <<cpc, backlog, edge, server, client, conns>>
pageState == <<numPages, actual, pages>>
ringState == <<sdrv, nAvail, returned, runs, content>>
statState == <<ringState, curStat, stats, waitfd, request, resets, answers>>
blVars == <<ipcState, pageState, statState>>

BlInit ==
  /\ cpc = [c \in Clients |-> "idle"] /\ backlog = <<>> /\ edge = FALSE
  /\ server = "wait" /\ client = 0 /\ conns = {}
  /\ numPages = 0 /\ actual = 0 /\ pages = 0
  /\ sdrv = "down" /\ nAvail = 0 /\ returned = 0 /\ runs = 0 /\ content = 0
  /\ curStat = FALSE /\ stats = 0 /\ waitfd = 0
  /\ request = 0 /\ resets = 0 /\ answers = {}

-----------------------------------------------------------------------------
(* Clients and the IPC thread                                              *)

Connect(c) ==
  /\ cpc[c] = "idle"
  /\ cpc' = [cpc EXCEPT ![c] = "backlog"]
  /\ backlog' = Append(backlog, c) /\ edge' = TRUE
  /\ UNCHANGED <<server, client, conns, pageState, statState>>

Send(c, type) ==
  /\ cpc[c] = "open"
  /\ cpc' = [cpc EXCEPT ![c] = type]
  /\ UNCHANGED <<backlog, edge, server, client, conns, pageState, statState>>

HangUp(c) ==
  /\ cpc[c] \in {"open", "answered"}
  /\ cpc' = [cpc EXCEPT ![c] = "closed"]
  /\ UNCHANGED <<backlog, edge, server, client, conns, pageState, statState>>

\* kvm_ipc__new_conn accepts one connection per event.
Accept ==
  /\ server = "wait" /\ edge
  /\ edge' = FALSE
  /\ client' = Head(backlog) /\ backlog' = Tail(backlog)
  /\ cpc' = [cpc EXCEPT ![client'] = "open"]
  /\ conns' = conns \cup {client'}
  /\ server' = "recv"
  /\ UNCHANGED <<pageState, statState>>

\* kvm_ipc__receive fails when the client has gone: back to epoll_wait.
ReceiveEnd ==
  /\ server = "recv" /\ cpc[client] = "closed"
  /\ server' = "wait" /\ client' = 0
  /\ UNCHANGED <<cpc, backlog, edge, conns, pageState, statState>>

\* kvm_ipc__close_conn, on EPOLLRDHUP.
CloseConn(c) ==
  /\ server = "wait" /\ c \in conns /\ cpc[c] = "closed"
  /\ conns' = conns \ {c}
  /\ UNCHANGED <<cpc, backlog, edge, server, client, pageState, statState>>

\* handle_mem: inflate or deflate by a megabyte; num_pages is unsigned.
ShrinkAlways == TRUE
ShrinkAllowed == numPages >= 1

HandleMem ==
  /\ server = "recv" /\ cpc[client] = "mem"
  /\ numPages' \in {numPages + 1, IF ShrinkAllowed THEN (numPages - 1) % U32 ELSE numPages}
  /\ numPages' # MaxPages + 1
  /\ cpc' = [cpc EXCEPT ![client] = "answered"]
  /\ UNCHANGED <<backlog, edge, server, client, conns, actual, pages, statState>>

\* virtio_bln__collect_stats: the buffer goes back to the driver, also when it has
\* not been offered yet.
CollectStats ==
  /\ server = "recv" /\ cpc[client] = "stat"
  /\ IF sdrv # "down"
     THEN /\ request' = request + 1
          /\ returned' = returned + 1
          /\ server' = "stats"
          /\ UNCHANGED cpc
     ELSE /\ cpc' = [cpc EXCEPT ![client] = "answered"]
          /\ UNCHANGED <<request, returned, server>>
  /\ UNCHANGED <<backlog, edge, client, conns, pageState, sdrv, nAvail, runs, content,
                 curStat, stats, waitfd, resets, answers>>

\* The read of stat_waitfd takes every count; virtio_bln__print_stats answers.
StatsReady ==
  /\ server = "stats" /\ waitfd > 0
  /\ waitfd' = 0
  /\ answers' = answers \cup {<<request, stats>>}
  /\ cpc' = [cpc EXCEPT ![client] = "answered"]
  /\ server' = "recv"
  /\ UNCHANGED <<backlog, edge, client, conns, pageState, ringState, curStat,
                 stats, request, resets>>

-----------------------------------------------------------------------------
(* The driver and the jobs                                                 *)

\* The driver sets the queue up, offers its empty buffer, and fills the buffer
\* whenever it gets it back.
StatsSetUp ==
  /\ sdrv = "down" /\ sdrv' = "setup"
  /\ UNCHANGED <<ipcState, pageState, nAvail, returned, runs, content, curStat, stats,
                 waitfd, request, resets, answers>>

StatsOffer ==
  /\ sdrv = "setup" /\ returned = 0
  /\ sdrv' = "live"
  /\ content' = 0 /\ nAvail' = nAvail + 1 /\ runs' = runs + 1
  /\ UNCHANGED <<ipcState, pageState, returned, curStat, stats, waitfd, request, resets,
                 answers>>

StatsRefill ==
  /\ sdrv = "live" /\ returned > 0
  /\ returned' = returned - 1
  /\ content' = request /\ nAvail' = nAvail + 1 /\ runs' = runs + 1
  /\ UNCHANGED <<ipcState, pageState, sdrv, curStat, stats, waitfd, request, resets, answers>>

StatsBad ==
  /\ sdrv = "setup" /\ returned > 0
  /\ sdrv' = "bad" /\ returned' = 0
  /\ UNCHANGED <<ipcState, pageState, nAvail, runs, content, curStat, stats, waitfd, request,
                 resets, answers>>

\* virtio_bln_do_io for the statistics queue: one buffer per signal.
FirstNever == FALSE
FirstBuffer == ~curStat

StatRequest ==
  /\ runs > 0
  /\ runs' = runs - 1 /\ nAvail' = nAvail - 1
  /\ curStat' = TRUE
  /\ IF FirstBuffer THEN UNCHANGED <<stats, waitfd>>
                    ELSE stats' = content /\ waitfd' = waitfd + 1
  /\ UNCHANGED <<ipcState, pageState, sdrv, returned, content, request, resets, answers>>

\* A page of the inflate or the deflate queue.
PageRequest ==
  /\ \/ pages < numPages /\ pages' = pages + 1 /\ actual' = actual + 1
     \/ pages > numPages /\ pages' = pages - 1 /\ actual' = actual - 1
  /\ UNCHANGED <<ipcState, numPages, statState>>

\* The driver resets the device: exit_vq cancels the job, virtio_exit_vq clears
\* the queue; cur_stat is kept.
StatsReset ==
  /\ sdrv # "down" /\ resets < MaxResets
  /\ sdrv' = "down" /\ nAvail' = 0 /\ returned' = 0 /\ runs' = 0
  /\ resets' = resets + 1
  /\ UNCHANGED <<ipcState, pageState, content, curStat, stats, waitfd, request, answers>>

Ipc ==
  \/ Accept \/ ReceiveEnd \/ HandleMem \/ CollectStats \/ StatsReady
  \/ \E c \in Clients : CloseConn(c)

StatsDriver == StatsSetUp \/ StatsOffer \/ StatsRefill \/ StatsBad

BlNext ==
  \/ \E c \in Clients : Connect(c) \/ HangUp(c) \/ Send(c, "stat") \/ Send(c, "mem")
  \/ Ipc \/ StatsDriver \/ StatRequest \/ PageRequest \/ StatsReset

-----------------------------------------------------------------------------
(* Properties                                                              *)

\* virtio_bln__collect_stats: until the device is reset, what a client gets was
\* gathered for its own request - the eventfd's count never carries over from an
\* earlier request, and the initial buffer is not an answer, even when the request
\* overtakes the job that takes it.  num_pages never wraps (handle_mem).
StatsFresh ==
  /\ resets = 0 => \A a \in answers : a[1] = a[2]
  /\ numPages \in 0 .. MaxPages

\* A command of an accepted client is handled although the IPC thread blocks in the
\* middle of it, as long as the driver has offered its buffer and is not reset.
CommandHandled ==
  \A c \in Clients :
    cpc[c] \in {"stat", "mem"} /\ sdrv = "live"
      ~> cpc[c] = "answered" \/ resets > 0 \/ sdrv = "bad"

\* "Initial empty stat buffer" (virtio_bln_do_stat_request): the buffer a driver
\* offers first is kept for the next request and is not sent as statistics.
InitialBufferKept == \A a \in answers : a[2] # 0
=================================================================================
