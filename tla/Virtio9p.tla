------------------------------ MODULE Virtio9p ------------------------------
(***************************************************************************)
(* The 9P server (virtio/9p.c, requests decoded by virtio/9p-pdu.c): the   *)
(* table of fids, the descriptors they hold and the exported host tree.    *)
(* One thread-pool job serves the queue, so a request is one step.         *)
(*                                                                         *)
(* A path is the sequence of its components below root_dir, a name a       *)
(* sequence too, since a guest may send "../a"; Up is the component "..".  *)
(* The host may remove entries at any time and may refuse a call that has  *)
(* no other reason to fail (EMFILE, EACCES): "deny".                       *)
(*                                                                         *)
(* The client is a Linux guest: it uses fids it holds, walks to a fid it   *)
(* does not use or in place before opening, opens a fid once, and only     *)
(* clunks a fid whose create or in-place walk failed.                      *)
(***************************************************************************)
EXTENDS Integers, Sequences, FiniteSets

CONSTANTS
  P9Fids,       \* fid numbers; at most 3, so that a reset visits them all
  P9Names,      \* names a request may carry
  Up,           \* the component ".."
  P9Depth,      \* bound: components of a host path
  MaxInos,      \* bound: entries ever created
  MaxFds        \* the descriptor limit

ASSUME P9Assumption == MaxFds \in Nat

VARIABLES
  fs,           \* host tree: path -> [kind, ino]
  fids,         \* p9dev->fids: fid -> [path, fd, dir]; descriptor 0: none
  fds,          \* descriptors the server has open
  held,         \* fid -> inode the client holds it for
  strayed,      \* a system call was made on a path with a component "..", or on a
                \* descriptor that is not open
  inos          \* inodes created so far

p9Vars == <<fs, fids, fds, held, strayed, inos>>

Put(f, k, v) == [x \in DOMAIN f \cup {k} |-> IF x = k THEN v ELSE f[x]]
Drop(f, S) == [x \in DOMAIN f \ S |-> f[x]]

RootPath == <<>>
NewFid == [path |-> RootPath, fd |-> 0, dir |-> 0]

P9Init ==
  /\ fs = Put(Put(<<>>, RootPath, [kind |-> "dir", ino |-> 0]), <<"a">>, [kind |-> "dir", ino |-> 1])
  /\ fids = <<>> /\ fds = {} /\ held = <<>> /\ strayed = FALSE /\ inos = 2

\* find_or_create_fid: an unknown fid is created at the root.
GetFid(f) == IF f \in DOMAIN fids THEN fids[f] ELSE NewFid

IllegalAtEnd(p) == p # <<>> /\ p[Len(p)] = Up
PathIsIllegal(p) == \E i \in DOMAIN p : p[i] = Up

\* get_full_path: nothing is called on an illegal path.
FullPath(f, n) == GetFid(f).path \o n
IsPrefix9(p, q) == Len(p) <= Len(q) /\ SubSeq(q, 1, Len(p)) = p
Parent(p) == SubSeq(p, 1, Len(p) - 1)
Exists(p) == p \in DOMAIN fs
Children(p) == {q \in DOMAIN fs : q # p /\ IsPrefix9(p, q)}

\* The host's answer to creating p, to removing p and to renaming p to q.
MayMake(p) == /\ p # <<>> /\ Len(p) <= P9Depth /\ ~Exists(p) /\ inos < MaxInos
              /\ Exists(Parent(p)) /\ fs[Parent(p)].kind = "dir"
MayRemove(p) == p # <<>> /\ Exists(p) /\ Children(p) = {}
MayRename(p, q) == /\ p # <<>> /\ q # <<>> /\ Exists(p) /\ ~Exists(q) /\ ~IsPrefix9(p, q)
                   /\ Exists(Parent(q)) /\ fs[Parent(q)].kind = "dir"
                   /\ \A c \in Children(p) : Len(c) - Len(p) + Len(q) <= P9Depth

Moved(p, q) == [x \in {IF IsPrefix9(p, y) THEN q \o SubSeq(y, Len(p) + 1, Len(y)) ELSE y : y \in DOMAIN fs} |->
                  IF IsPrefix9(q, x) /\ q # <<>> THEN fs[p \o SubSeq(x, Len(q) + 1, Len(x))] ELSE fs[x]]

FreshFd == CHOOSE d \in 1..MaxFds + 1 : d \notin fds
Full == Cardinality(fds) = MaxFds

Touches(p) == strayed' = (strayed \/ (~PathIsIllegal(p) /\ Up \in {p[i] : i \in DOMAIN p}))

-----------------------------------------------------------------------------
Usable(f) == f \in DOMAIN held /\ held[f] # -1      \* -1: only to be clunked
Opened(f) == GetFid(f).fd # 0 \/ GetFid(f).dir # 0

Attach(f) ==
  /\ f \notin DOMAIN held
  /\ fids' = Put(fids, f, [GetFid(f) EXCEPT !.path = RootPath])
  /\ held' = Put(held, f, 0)
  /\ UNCHANGED <<fs, fds, strayed, inos>>

\* One turn of the loop of virtio_p9_walk: the path of the new fid moves to a name
\* that is found, and stays when one is not.
WalkName(w, n) ==
  IF w.on /\ ~PathIsIllegal(w.path \o n) /\ Exists(w.path \o n)
  THEN [path |-> w.path \o n, on |-> TRUE]
  ELSE [path |-> w.path, on |-> FALSE]

Reach(p, ns) ==
  LET walk[i \in 0 .. Len(ns)] == IF i = 0 THEN [path |-> p, on |-> TRUE]
                                  ELSE WalkName(walk[i - 1], ns[i])
  IN walk[Len(ns)]

Walk(f, nf, ns) ==
  /\ Usable(f) /\ ~Opened(f)
  /\ nf \notin DOMAIN held \/ nf = f
  /\ LET w  == Reach(GetFid(f).path, ns)
         to == w.path
     IN /\ fids' = Put(fids, nf, [GetFid(nf) EXCEPT !.path = to])
        /\ held' = IF w.on /\ Exists(to) THEN Put(held, nf, fs[to].ino)
                   ELSE IF ns = <<>> THEN Put(held, nf, held[f])
                   ELSE IF nf = f THEN Put(held, f, -1) ELSE held
        /\ Touches(to)
  /\ UNCHANGED <<fs, fds, inos>>

\* virtio_p9_open.
Open(f, deny) ==
  /\ Usable(f) /\ ~Opened(f)
  /\ LET p  == GetFid(f).path
         ok == Exists(p) /\ ~deny /\ ~Full /\ fs[p].kind \in {"dir", "reg"}
     IN /\ fids' = IF ~ok THEN Put(fids, f, GetFid(f))
                   ELSE IF fs[p].kind = "dir" THEN [fids EXCEPT ![f].dir = FreshFd]
                   ELSE [fids EXCEPT ![f].fd = FreshFd]
        /\ fds' = IF ok THEN fds \cup {FreshFd} ELSE fds
        /\ Touches(p)
  /\ UNCHANGED <<fs, held, inos>>

\* virtio_p9_create: the fid becomes the new file.  Its path is changed before
\* the file is opened, and the descriptor is kept when chmod fails afterwards.
Create(f, n, deny, late) ==
  /\ Usable(f) /\ ~Opened(f)
  /\ LET p  == FullPath(f, n)
         ok == MayMake(p) /\ ~deny /\ ~Full
     IN /\ fids' = IF PathIsIllegal(p) THEN Put(fids, f, GetFid(f))
                   ELSE Put(fids, f, [GetFid(f) EXCEPT !.path = p,
                                                       !.fd = IF ok THEN FreshFd ELSE @])
        /\ fds' = IF ok /\ ~PathIsIllegal(p) THEN fds \cup {FreshFd} ELSE fds
        /\ fs' = IF ok /\ ~PathIsIllegal(p) THEN Put(fs, p, [kind |-> "reg", ino |-> inos]) ELSE fs
        /\ inos' = IF ok /\ ~PathIsIllegal(p) THEN inos + 1 ELSE inos
        /\ held' = Put(held, f, IF ok /\ ~PathIsIllegal(p) /\ ~late THEN inos ELSE -1)
        /\ Touches(p)

\* An entry is made; a chmod that fails leaves it there.
Make(f, n, k, deny) ==
  /\ Usable(f)
  /\ LET p == FullPath(f, n) IN
     /\ IF MayMake(p) /\ ~PathIsIllegal(p) /\ ~deny
        THEN fs' = Put(fs, p, [kind |-> k, ino |-> inos]) /\ inos' = inos + 1
        ELSE UNCHANGED <<fs, inos>>
     /\ Touches(p)
  /\ fids' = Put(fids, f, GetFid(f))
  /\ UNCHANGED <<fds, held>>

MkDir9(f, n, deny) == Make(f, n, "dir", deny)
MkNod(f, n, deny) == Make(f, n, "node", deny)
Symlink(f, n, deny) == Make(f, n, "link", deny)

\* virtio_p9_link: a second name of the file.
Link(f, d, n) ==
  /\ Usable(f) /\ Usable(d)
  /\ LET p == FullPath(d, n)
         old == GetFid(f).path
     IN /\ fs' = IF MayMake(p) /\ ~PathIsIllegal(p) /\ Exists(old) /\ fs[old].kind # "dir"
                 THEN Put(fs, p, fs[old]) ELSE fs
        /\ Touches(p)
  /\ UNCHANGED <<fids, fds, held, inos>>

\* virtio_p9_remove and virtio_p9_unlinkat: remove(3) of a path.
RemovePath(p) ==
  /\ fs' = IF MayRemove(p) /\ ~PathIsIllegal(p) THEN Drop(fs, {p}) ELSE fs
  /\ Touches(p)
  /\ UNCHANGED <<fids, fds, held, inos>>

Remove(f) == Usable(f) /\ RemovePath(GetFid(f).path)
UnlinkAt(f, n) == Usable(f) /\ RemovePath(FullPath(f, n))

\* virtio_p9_rename and virtio_p9_renameat.  The latter ends with rename_fids, which
\* compares the path of every fid, always absolute, with the bare name of the
\* request: no fid is ever found.
RenamePath(p, q) ==
  /\ fs' = IF MayRename(p, q) /\ ~PathIsIllegal(p) /\ ~PathIsIllegal(q) THEN Moved(p, q) ELSE fs
  /\ IF PathIsIllegal(p) THEN UNCHANGED strayed ELSE Touches(q)
  /\ UNCHANGED <<fids, fds, held, inos>>

Rename(f, d, n) == Usable(f) /\ Usable(d) /\ RenamePath(GetFid(f).path, FullPath(d, n))
RenameAt(f, n, d, m) == Usable(f) /\ Usable(d) /\ RenamePath(FullPath(f, n), FullPath(d, m))

\* Handlers that look at the path of a fid and change none of the state here: the
\* attributes of a file are left out.  Like every handler they enter an unknown fid
\* in the table.
ByPath(f) ==
  /\ Usable(f)
  /\ fids' = Put(fids, f, GetFid(f)) /\ Touches(GetFid(f).path)
  /\ UNCHANGED <<fs, fds, held, inos>>

GetAttr(f) == ByPath(f)
SetAttr(f) == ByPath(f)
StatFs(f) == ByPath(f)
ReadLink(f) == Exists(GetFid(f).path) /\ fs[GetFid(f).path].kind = "link" /\ ByPath(f)

\* Handlers that use the descriptor or the directory stream of an open fid; the
\* contents of a file are left out.
ByFd(f, kind) ==
  /\ Usable(f) /\ GetFid(f)[kind] # 0
  /\ strayed' = (strayed \/ GetFid(f)[kind] \notin fds)
  /\ UNCHANGED <<fs, fids, fds, held, inos>>

ReadFid(f) == ByFd(f, "fd")
WriteFid(f) == ByFd(f, "fd")
FSync(f) == ByFd(f, "fd")
ReadDir(f) == ByFd(f, "dir")

\* close_fid closes the descriptor and the directory stream of the fid.
ClosesFileOnly(r) == {r.fd} \ {0}
Closes(r) == {r.fd, r.dir} \ {0}

Clunk(f) ==
  /\ f \in DOMAIN held
  /\ fds' = fds \ Closes(GetFid(f))
  /\ fids' = Drop(fids, {f}) /\ held' = Drop(held, {f})
  /\ UNCHANGED <<fs, strayed, inos>>

\* notify_status with VIRTIO__STATUS_STOP: every fid is closed; the guest's driver
\* starts afresh.
Reset9p ==
  /\ fds' = fds \ UNION {Closes(fids[f]) : f \in DOMAIN fids}
  /\ fids' = <<>> /\ held' = <<>>
  /\ UNCHANGED <<fs, strayed, inos>>

\* Another process of the host removes an entry.
HostRemove(p) ==
  /\ MayRemove(p) /\ fs' = Drop(fs, {p})
  /\ UNCHANGED <<fids, fds, held, strayed, inos>>

Walks == {<<>>} \cup {<<n>> : n \in P9Names} \cup {<<n, m>> : n, m \in P9Names}

P9Next ==
  \/ \E f \in P9Fids :
       \/ Attach(f) \/ Clunk(f) \/ Remove(f)
       \/ GetAttr(f) \/ SetAttr(f) \/ StatFs(f) \/ ReadLink(f)
       \/ ReadFid(f) \/ WriteFid(f) \/ FSync(f) \/ ReadDir(f)
  \/ \E f, g \in P9Fids, ns \in Walks : Walk(f, g, ns)
  \/ \E f \in P9Fids, b \in BOOLEAN : Open(f, b)
  \/ \E f \in P9Fids, n \in P9Names, b, c \in BOOLEAN : Create(f, n, b, c)
  \/ \E f \in P9Fids, n \in P9Names, b \in BOOLEAN :
       MkDir9(f, n, b) \/ MkNod(f, n, b) \/ Symlink(f, n, b)
  \/ \E f, d \in P9Fids, n \in P9Names : Link(f, d, n) \/ Rename(f, d, n)
  \/ \E f, d \in P9Fids, n, m \in P9Names : RenameAt(f, n, d, m)
  \/ \E f \in P9Fids, n \in P9Names : UnlinkAt(f, n)
  \/ Reset9p
  \/ \E p \in DOMAIN fs : HostRemove(p)

P9Spec == P9Init /\ [][P9Next]_p9Vars

-----------------------------------------------------------------------------
\* The server has exactly the descriptors open that its fids record, each for
\* one fid: across failed opens and creates, clunks and resets no descriptor is
\* lost, closed twice or shared (9p.c:101, 9p.c:263, 9p.c:299).
FdsAccounted ==
  LET Holds(f) == {fids[f].fd, fids[f].dir} \ {0} IN
  /\ fds = UNION {Holds(f) : f \in DOMAIN fids}
  /\ \A f, g \in DOMAIN fids : f # g => Holds(f) \cap Holds(g) = {}

\* No request makes the server act on a path outside the exported tree, and no
\* fid ever names one: the source of a rename and the directory of a removal are
\* paths that earlier requests left in the table (9p.c:217).
InsideRoot ==
  /\ ~strayed
  /\ \A f \in DOMAIN fids : Up \notin {fids[f].path[i] : i \in DOMAIN fids[f].path}

\* The 9p server keeps to its table of fids and to the exported directory.
P9Inv == FdsAccounted /\ InsideRoot

\* A renameat leaves every fid that named a file naming the same file.
\* virtio_p9_renameat (9p.c:1134) says "Now fix path in other fids, if the renamed
\* path is part of that."
FidsFollowRename ==
  [][(\E f, d \in P9Fids, n, m \in P9Names : RenameAt(f, n, d, m)) =>
       \A g \in DOMAIN fids :
         Exists(fids[g].path) =>
           /\ fids'[g].path \in DOMAIN fs'
           /\ fs'[fids'[g].path].ino = fs[fids[g].path].ino]_p9Vars
=============================================================================
