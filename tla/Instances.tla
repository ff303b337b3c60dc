------------------------------- MODULE Instances -------------------------------
(***************************************************************************)
(* Several kemu processes on one host, from vm_rootfs_init to vm_exit: the  *)
(* directory of a guest under DEFAULT_ROOTFS_PATH and the IPC socket in it. *)
(* Every system call is a step of its own, since the processes share        *)
(* nothing but the file system.  A process may be killed at any time and    *)
(* leaves its files behind.                                                 *)
(***************************************************************************)
EXTENDS Integers

CONSTANTS
  Vms,       \* processes
  GuestNames \* values of --name

ASSUME InstancesAssumption == Vms \subseteq Nat \ {0}

VARIABLES
  gname,     \* per process: cfg.guest_name
  ppc,       \* per process: the step it has come to
  dirs,      \* guest directories that exist
  sock,      \* per name: the process that bound ipc.sock there
  listening, \* processes that listen on their socket
  crowded    \* history: processes that had a live namesake

NoFile == 0   \* there is no socket file
Ghost == -1   \* the socket file of a process of an earlier run

inVars == <<gname, ppc, dirs, sock, listening, crowded>>

\* A process that has touched the file system and has not ended.
Live == {p \in Vms : ppc[p] \notin {"new", "ended", "killed", "failed"}}
Namesakes(p) == {q \in Vms \ {p} : gname[q] = gname[p]}

InInit ==
  /\ gname \in [Vms -> GuestNames]
  /\ ppc = [p \in Vms |-> "new"]
  /\ dirs = {} /\ sock = [n \in GuestNames |-> NoFile]
  /\ listening = {} /\ crowded = {}

\* The process goes on to a step (a process that has a live namesake is crowded).
Goes(p, step) ==
  /\ ppc' = [ppc EXCEPT ![p] = step]
  /\ crowded' = crowded \cup IF Namesakes(p) \cap Live = {} THEN {}
                             ELSE {p} \cup (Namesakes(p) \cap Live)
  /\ UNCHANGED gname

\* del_dir removes what is in the directory, a socket included.
DeleteBase(n) == dirs' = {} /\ sock' = [m \in GuestNames |-> NoFile]
DeleteDir(n) == dirs' = dirs \ {n} /\ sock' = [sock EXCEPT ![n] = NoFile]

-----------------------------------------------------------------------------
\* vm_rootfs_init: path_exist, del_dir, mkdir.
PathExist(p) ==
  /\ ppc[p] = "new"
  /\ Goes(p, IF gname[p] \in dirs THEN "delete" ELSE "mkdir")
  /\ UNCHANGED <<dirs, sock, listening>>

DelDir(p) ==
  /\ ppc[p] = "delete"
  /\ DeleteDir(gname[p])
  /\ Goes(p, "mkdir")
  /\ UNCHANGED listening

MkDir(p) ==
  /\ ppc[p] = "mkdir"
  /\ dirs' = dirs \cup {gname[p]}
  /\ Goes(p, IF gname[p] \in dirs THEN "failed" ELSE "bind")
  /\ UNCHANGED <<sock, listening>>

\* kvm_create_socket: bind, and when the address is in use connect: somebody who
\* listens is a guest of that name, a refusal means a ghost file, which is removed.
\* A socket that could not be made stops the start (epoll_ctl refuses it).
Bind(p) ==
  /\ ppc[p] \in {"bind", "rebind"}
  /\ LET n == gname[p]
         bound == n \in dirs /\ sock[n] = NoFile
     IN /\ sock' = IF bound THEN [sock EXCEPT ![n] = p] ELSE sock
        /\ Goes(p, CASE bound -> "listen"
                     [] ~bound /\ n \in dirs /\ ppc[p] = "bind" -> "connect"
                     [] OTHER -> "failed")
  /\ UNCHANGED <<dirs, listening>>

TryConnect(p) ==
  /\ ppc[p] = "connect"
  /\ Goes(p, IF sock[gname[p]] \notin listening \cup {NoFile} THEN "unlink" ELSE "failed")
  /\ UNCHANGED <<dirs, sock, listening>>

Unlink(p) ==
  /\ ppc[p] = "unlink"
  /\ sock' = [sock EXCEPT ![gname[p]] = NoFile]
  /\ Goes(p, "rebind")
  /\ UNCHANGED <<dirs, listening>>

Listen(p) ==
  /\ ppc[p] = "listen"
  /\ listening' = listening \cup {p}
  /\ Goes(p, "run")
  /\ UNCHANGED <<dirs, sock>>

\* vm_exit: kvm_ipc__exit closes the socket (kvm_remove_socket unlinks another
\* path), then vm_rootfs_exit deletes the directory.
IpcExit(p) ==
  /\ ppc[p] = "run"
  /\ listening' = listening \ {p}
  /\ Goes(p, "rootfs_exit")
  /\ UNCHANGED <<dirs, sock>>

RootfsExit(p) ==
  /\ ppc[p] = "rootfs_exit"
  /\ DeleteDir(gname[p])
  /\ Goes(p, "ended")
  /\ UNCHANGED listening

Killed(p) ==
  /\ p \in Live
  /\ listening' = listening \ {p}
  /\ Goes(p, "killed")
  /\ UNCHANGED <<dirs, sock>>

\* The same guest is started again.
Again(p) ==
  /\ ppc[p] \in {"ended", "killed", "failed"}
  /\ sock' = [n \in GuestNames |-> IF sock[n] = p THEN Ghost ELSE sock[n]]
  /\ ppc' = [ppc EXCEPT ![p] = "new"]
  /\ crowded' = crowded \ {p}
  /\ UNCHANGED <<gname, dirs, listening>>

InNext ==
  \E p \in Vms :
    \/ PathExist(p) \/ DelDir(p) \/ MkDir(p) \/ Bind(p) \/ TryConnect(p) \/ Unlink(p)
    \/ Listen(p) \/ IpcExit(p) \/ RootfsExit(p) \/ Killed(p) \/ Again(p)

-----------------------------------------------------------------------------
(* Properties                                                              *)

\* vm_rootfs_init and kvm_create_socket: a guest that runs without a namesake can be
\* reached at its socket, whatever earlier guests of its name left behind when they
\* were killed half way, and whatever guests of other names do.
GuestReachable ==
  \A p \in Vms \ crowded : ppc[p] = "run" =>
    sock[gname[p]] = p /\ p \in listening /\ gname[p] \in dirs

\* "If we could connect, there is already a guest using this same name" - then
\* "Guest socket file already exists" (kvm_create_socket): two guests of one name
\* do not run.
NameExclusive ==
  \A p \in Vms : \A q \in Namesakes(p) : ~(ppc[p] = "run" /\ ppc[q] = "run")
================================================================================
