------------------------------ MODULE DiskImage ------------------------------
(***************************************************************************)
(* Disk images behind virtio-blk (disk/core.c, disk/raw.c, disk/blk.c and  *)
(* the request switch of virtio/blk.c).  disk_image_open chooses the       *)
(* operations by what the file is; the one I/O thread of the disk then     *)
(* serves requests one after the other.  The synchronous build is modelled:*)
(* the repository has no disk/aio.c.                                       *)
(*                                                                         *)
(* The host may fail any read or write, a write after its first cluster    *)
(* too.  A guest may write to a disk that offers VIRTIO_BLK_F_RO: nothing  *)
(* between the queue and the image looks at "readonly".                    *)
(***************************************************************************)
EXTENDS Qcow

CONSTANTS
  DiskKinds,    \* subset of {"raw", "rawro", "blk", "qcow"}
  QcowModes,    \* readonly arguments of qcow_probe (disk_image_open passes TRUE)
  Images,       \* the qcow files
  Guest,        \* guest clusters of a disk that is no qcow image
  DiskVals,     \* values of a cluster
  MaxCursor,    \* bound: no write once the allocator's cursor is past it
  MaxWrites     \* bound: writes of a behaviour

\* The files, as the tools that made them and earlier runs leave them.
Named(img) == {i \in DOMAIN img.l1 : img.l1[i].off \notin {0, NoCluster}}
EntryOff(img, i, j) == img.l2[img.l1[i].off][j].off

ImageTyped(img) ==
  /\ img = [ver |-> img.ver, size |-> img.size, l1 |-> img.l1, l2 |-> img.l2, lru |-> img.lru,
            rft |-> img.rft, rb |-> img.rb, rlru |-> img.rlru, free |-> img.free,
            wild |-> img.wild, data |-> img.data]
  /\ img.size \in Nat /\ L1Size(img) <= Len(img.l1)
  /\ img.l1 \in Seq([off : Nat \cup {NoCluster}, copied : BOOLEAN])
  /\ img.l2 \in [DOMAIN img.l2 -> [0..L2Size - 1 -> [off : Nat, copied : BOOLEAN, comp : BOOLEAN]]]
  /\ img.rft \in Seq(Nat)
  /\ img.rb \in [DOMAIN img.rb -> [0..RbSize - 1 -> 0..CountMax]]
  /\ img.data = [c \in DOMAIN img.data |-> img.data[c]]

\* The tables are where they are said to be, a "copied" entry names a cluster, and no
\* cluster is named twice: snapshots have tables of their own, which are not modelled.
TablesSound(img) ==
  /\ DOMAIN img.l2 \subseteq Nat \ {0}
  /\ \A i \in DOMAIN img.l1 : img.l1[i].copied => img.l1[i].off # 0
  /\ \A i \in Named(img) : img.l1[i].off \in DOMAIN img.l2
  /\ \A t \in DOMAIN img.l2, j \in 0..L2Size - 1 :
       /\ img.l2[t][j].copied => img.l2[t][j].off # 0
       /\ img.l2[t][j].off # 0 => img.l2[t][j].off \in DOMAIN img.data
  /\ \A i, k \in Named(img) : img.l1[i].off = img.l1[k].off => i = k
  /\ \A i, k \in Named(img), j, m \in 0..L2Size - 1 :
       /\ EntryOff(img, i, j) # 0 /\ EntryOff(img, i, j) = EntryOff(img, k, m) => i = k /\ j = m
       /\ img.l1[i].off # EntryOff(img, k, m)

\* What the tables of a version 2 file refer to, the header too, has a count above
\* zero; a version 1 file has no refcount table.
CountsSound(img) ==
  /\ \A s \in DOMAIN img.rft : img.rft[s] # 0 =>
       /\ img.rft[s] \in DOMAIN img.rb
       /\ \A i \in Named(img) : img.l1[i].off # img.rft[s]
       /\ \A z \in DOMAIN img.rft : img.rft[z] = img.rft[s] => z = s
  /\ img.rft # <<>> => \A c \in Referenced(img) :
       HasBlock(img, c) /\ img.rb[img.rft[Slot(c)]][c % RbSize] # 0

ASSUME DiskAssumption ==
  /\ L2Size \in Nat \ {0} /\ RbSize \in Nat \ {0} /\ MaxCache \in Nat \ {0}
  /\ DiskKinds \subseteq {"raw", "rawro", "blk", "qcow"} /\ Guest \subseteq Nat
  /\ \A img \in Images : ImageTyped(img) /\ TablesSound(img) /\ CountsSound(img)

VARIABLES
  kind,         \* which probe took the image
  qro,          \* the readonly argument of qcow_probe
  qimg,         \* the qcow image
  hostData,     \* clusters of the host file (raw, blk)
  mapped,       \* the private mapping of a read-only raw image
  vdisk,        \* what the guest may expect to read: answered writes included
  last,         \* the last request and its answer
  given,        \* the cluster the allocator last handed out, 0: none
  dwrites,      \* writes so far
  origin        \* history: what the file of a raw image held at first

diVars == <<kind, qro, qimg, hostData, mapped, vdisk, last, given, dwrites, origin>>

Fails == {"none", "table", "data"}
Idle == [op |-> "none", ans |-> "none", vals |-> <<>>, want |-> <<>>, failed |-> FALSE]

DiClusters == IF kind = "qcow" THEN 0..qimg.size - 1 ELSE Guest

\* What a qcow file holds for each guest cluster, read straight from its tables.
Contents(q) ==
  [g \in 0..q.size - 1 |->
     LET i == g \div L2Size + 1 IN
     IF i > Len(q.l1) \/ q.l1[i].off = 0 THEN Zero
     ELSE LET e == q.l2[q.l1[i].off][g % L2Size]
          IN IF e.off = 0 THEN Zero ELSE q.data[e.off]]

DiInit ==
  /\ kind \in DiskKinds /\ qro \in QcowModes
  /\ \E img \in Images :
       /\ qimg = Probe(img)
       /\ hostData \in [Guest -> DiskVals]
       /\ vdisk = IF kind = "qcow" THEN Contents(img) ELSE hostData
  /\ kind # "qcow" => qro /\ qimg = Probe(CHOOSE img \in Images : TRUE)
  /\ kind = "qcow" => hostData = [g \in Guest |-> Zero]
  /\ mapped = hostData /\ origin = hostData /\ last = Idle /\ given = 0 /\ dwrites = 0

(***************************************************************************)
(* disk_image__read and virtio_blk_complete: a negative total returns      *)
(* before the callback, so that the request is never answered.             *)
(***************************************************************************)
Answer(ok) == IF ok THEN "ok" ELSE "none"

ReadRaw(g) == IF kind = "rawro" THEN mapped[g] ELSE hostData[g]

Read(g, n, f) ==
  /\ ~qimg.wild
  /\ \E r \in {QcowRead(qimg, g, n, f)} :
     LET exp == [k \in 1..n |-> IF g + k - 1 \in DiClusters THEN vdisk[g + k - 1] ELSE Zero]
         ok  == IF kind = "qcow" THEN r.st = "ok" ELSE kind = "rawro" \/ f # "data"
         raw == [k \in 1..n |-> ReadRaw(g + k - 1)]
     IN /\ g + n - 1 \in DiClusters \/ kind = "qcow"
        /\ kind = "qcow" \/ f # "table"
        /\ qimg' = IF kind = "qcow" THEN r.q ELSE qimg
        /\ last' = [op |-> "read", ans |-> Answer(ok), want |-> exp,
                    vals |-> IF kind = "qcow" THEN r.vals ELSE raw, failed |-> f # "none"]
  /\ UNCHANGED <<kind, qro, hostData, mapped, vdisk, given, dwrites, origin>>

\* disk_image__write.  A read-only qcow image has no write operation: nothing is
\* done and the request is answered with a total of zero.
HasWrite == kind # "qcow" \/ ~qro

\* raw_image__write_sync writes the file, raw_image__write_mmap the MAP_PRIVATE mapping.
WritesMapShared == kind # "qcow"
WritesFile == kind \in {"raw", "blk"}

Write(g, v, f, wf) ==
  /\ ~qimg.wild /\ dwrites < MaxWrites /\ qimg.free <= MaxCursor
  /\ kind = "qcow" \/ f = "none"
  /\ \E r \in {QcowWrite(qimg, g, v, f, wf)} :
     LET ok == ~HasWrite \/ IF kind = "qcow" THEN r.ok ELSE kind = "rawro" \/ ~wf
     IN /\ qimg' = IF kind = "qcow" /\ HasWrite THEN r.q ELSE qimg
        /\ given' = IF kind = "qcow" /\ HasWrite THEN r.got ELSE 0
        /\ hostData' = IF WritesFile /\ ok THEN [hostData EXCEPT ![g] = v] ELSE hostData
        /\ mapped' = IF kind = "rawro" THEN [mapped EXCEPT ![g] = v] ELSE mapped
        /\ vdisk' = IF HasWrite /\ ok THEN [vdisk EXCEPT ![g] = v] ELSE vdisk
        /\ last' = [Idle EXCEPT !.op = "write", !.ans = Answer(ok), !.failed = wf \/ f # "none"]
  /\ dwrites' = dwrites + 1
  /\ UNCHANGED <<kind, qro, origin>>

\* VIRTIO_BLK_T_FLUSH and VIRTIO_BLK_T_GET_ID call the completion themselves,
\* with a negative length too.
Flush(wf) ==
  /\ ~qimg.wild
  /\ qimg' = IF kind = "qcow" /\ ~qro THEN QcowFlush(qimg, wf) ELSE qimg
  /\ last' = [Idle EXCEPT !.op = "flush", !.ans = IF wf THEN "ioerr" ELSE "ok", !.failed = wf]
  /\ UNCHANGED <<kind, qro, hostData, mapped, vdisk, given, dwrites, origin>>

GetSerial(fits) ==
  /\ ~qimg.wild
  /\ last' = [Idle EXCEPT !.op = "id", !.ans = IF fits THEN "ok" ELSE "ioerr"]
  /\ UNCHANGED <<kind, qro, qimg, hostData, mapped, vdisk, given, dwrites, origin>>

\* disk_image_close and a new VMM on the same file: the caches and the private
\* mapping are gone.  A guest may expect its answered writes to be there, except
\* the non-persistent ones of a read-only raw image.

Reopen ==
  /\ qimg' = Probe(qimg)
  /\ mapped' = hostData
  /\ vdisk' = IF kind = "rawro" THEN origin ELSE vdisk
  /\ last' = Idle /\ given' = 0
  /\ UNCHANGED <<kind, qro, hostData, dwrites, origin>>

DiNext ==
  \/ \E g \in DiClusters, n \in 1..2, f \in Fails : Read(g, n, f)
  \/ \E g \in DiClusters, v \in DiskVals, f \in {"none", "table"}, wf \in BOOLEAN : Write(g, v, f, wf)
  \/ \E b \in BOOLEAN : Flush(b) \/ GetSerial(b)
  \/ Reopen

DiSpec == DiInit /\ [][DiNext]_diVars

-----------------------------------------------------------------------------
\* Every read of a whole, unfailing request returns what the guest last wrote
\* with success, or what the image held: through the L2 cache and its evictions,
\* across reopening, for mapped, unmapped, shared and compressed clusters (core.c:187,
\* qcow.c:437); and the writes to a read-only raw image are gone once it is closed
\* ("Use mmap's MAP_PRIVATE to implement non-persistent write", raw.c:80).  Nothing is claimed for a read that runs past the tables of a
\* qcow image or that meets a cluster the build cannot decompress.
ReadsTrue ==
  last.op = "read" /\ last.ans = "ok" /\ ~last.failed /\ Stale \notin {last.vals[k] : k \in DOMAIN last.vals}
    => last.vals = last.want

\* The allocator of a qcow image never hands out a cluster that the tables of
\* the image refer to, whatever failed before and whichever refcount block the
\* cluster's count lives in (qcow.c:785).
AllocUnused == given # 0 => given \notin Referenced(qimg)

\* The contents of a disk and the allocation of its clusters, whatever the image.
DiskTrue == ReadsTrue /\ AllocUnused

\* A read is answered only when its buffers hold disk data.  disk_image__read
\* (core.c:183) says "Fill iov with disk data, starting from sector 'sector'.
\* Return amount of bytes read."
ReadFilled ==
  last.op = "read" /\ last.ans = "ok" => Stale \notin {last.vals[k] : k \in DOMAIN last.vals}

\* The data of a host block device is never changed.  blkdev_probe (blk.c:25)
\* says "Be careful! We are opening host block device! Open it readonly since we
\* do not want to break user's data on disk."
BlockDeviceKept == [][kind = "blk" => hostData' = hostData]_diVars
=============================================================================
