-------------------------------- MODULE Qcow --------------------------------
(***************************************************************************)
(* QCOW images (disk/qcow.c).  An open image is a record that the          *)
(* functions of the file take and return: the L1 table, the L2 tables and  *)
(* the refcount blocks as the host file holds them, the two LRU caches in  *)
(* front of them, the allocator's cursor and the data clusters.  Offsets   *)
(* are host cluster numbers (0: none), guest addresses guest clusters.     *)
(* A host read or write may fail: "rf" names the failing kind of read, "wf"*)
(* makes every host write of the call fail.  "wild" marks an image whose   *)
(* memory the code has corrupted (a freed node that is still linked, a     *)
(* buffer pointer moved by 4 GiB): nothing is claimed of it afterwards.    *)
(***************************************************************************)
EXTENDS Integers, Sequences

CONSTANTS
  L2Size,       \* entries of an L2 table (1 << l2_bits)
  RbSize,       \* entries of a refcount block
  MaxCache,     \* MAX_CACHE_NODES
  HasZlib,      \* CONFIG_HAS_ZLIB
  Zero, Stale   \* the value of an unmapped cluster; a buffer nobody filled

NoCluster == -1     \* (u64)-1, what qcow_alloc_clusters returns on failure

\* An image as the probe leaves it: nothing cached, the allocator at cluster 0.
\* qcow1_read_header divides the size by the reach of an L2 table and drops the
\* remainder; qcow2 takes l1_size from the file.
L1Size(img) == IF img.ver = 1 THEN img.size \div L2Size ELSE Len(img.l1)

Probe(img) == [img EXCEPT !.l1 = SubSeq(@, 1, L1Size(img)), !.lru = <<>>,
                          !.rlru = <<>>, !.free = 0, !.wild = FALSE]

(***************************************************************************)
(* The LRU caches: the head of the list is evicted when the cache is full, *)
(* clean or not, and a hit moves the node to the tail.                     *)
(***************************************************************************)
Cached(lru, off) == {i \in 1..Len(lru) : lru[i].off = off}

Touch(lru, i) == SubSeq(lru, 1, i - 1) \o SubSeq(lru, i + 1, Len(lru)) \o <<lru[i]>>

CacheInsert(lru, node) == Append(IF Len(lru) = MaxCache THEN Tail(lru) ELSE lru, node)

\* qcow_read_l2_table: the cached table, or the one of the host file.
ReadL2(q, off, rf) ==
  IF Cached(q.lru, off) # {}
  THEN LET i == CHOOSE i \in Cached(q.lru, off) : TRUE
       IN [ok |-> TRUE, tab |-> q.lru[i].tab, q |-> [q EXCEPT !.lru = Touch(@, i)]]
  ELSE IF rf = "table" \/ off = NoCluster THEN [ok |-> FALSE, q |-> q]
  ELSE LET tab == q.l2[off]
       IN [ok |-> TRUE, tab |-> tab,
           q |-> [q EXCEPT !.lru = CacheInsert(@, [off |-> off, tab |-> tab])]]

L2IndexSame(g) == 0
L2Index(g) == g % L2Size

ZeroCluster(q) == [ok |-> TRUE, q |-> q, val |-> Zero]

\* The cluster behind entry e of an L2 table.
ReadEntry(q, e, rf) ==
  IF (e.comp /\ ~HasZlib) \/ (rf = "data" /\ e.off # 0) THEN [ok |-> FALSE, q |-> q]
  ELSE IF e.off = 0 THEN ZeroCluster(q)
  ELSE [ok |-> TRUE, q |-> q, val |-> q.data[e.off]]

ReadTable(r, q, g, rf) ==
  IF r.ok THEN ReadEntry(r.q, r.tab[L2Index(g)], rf) ELSE [ok |-> FALSE, q |-> q]

\* qcow1_read_cluster and qcow2_read_cluster.
ReadCluster(q, g, rf) ==
  LET i == g \div L2Size + 1
  IN IF i > Len(q.l1) THEN [ok |-> FALSE, q |-> q]
     ELSE IF q.l1[i].off = 0 THEN ZeroCluster(q)
     ELSE ReadTable(ReadL2(q, q.l1[i].off, rf), q, g, rf)

\* One turn of the loop of qcow_read_sector_single, at guest cluster c of n.  The u32
\* "nr" never is negative: the -1 of a failed cluster passes the test "nr <= 0", wraps
\* nr_read and moves buf.  On the first cluster the loop then ends and the whole length
\* is returned.
ReadTurn(s, c, n, rf) ==
  LET r == ReadCluster(s.q, c, rf)
  IN IF ~s.on THEN s
     ELSE IF c >= s.q.size THEN [s EXCEPT !.on = FALSE, !.st = "err"]
     ELSE IF r.ok THEN [s EXCEPT !.q = r.q, !.vals = Append(@, r.val)]
     ELSE IF s.vals = <<>>
     THEN [on |-> FALSE, st |-> "ok", q |-> r.q, vals |-> [k \in 1..n |-> Stale]]
     ELSE [on |-> FALSE, st |-> "err", q |-> [r.q EXCEPT !.wild = TRUE], vals |-> s.vals]

QcowRead(q, g, n, rf) ==
  LET go[k \in 0..n] == IF k = 0 THEN [on |-> TRUE, st |-> "ok", q |-> q, vals |-> <<>>]
                        ELSE ReadTurn(go[k - 1], g + k - 1, n, rf)
  IN go[n]

(***************************************************************************)
(* Refcounts.  A slot of the refcount table that holds no block counts as  *)
(* zero when read and is filled by qcow_grow_refcount_block when written.  *)
(***************************************************************************)
CountMax == 65535   \* a count is a u16

Slot(c) == c \div RbSize + 1
HasBlock(q, c) == Slot(c) <= Len(q.rft) /\ q.rft[Slot(c)] # 0

ReadBlock(q, c, rf) ==
  LET off == q.rft[Slot(c)] IN
  IF Cached(q.rlru, off) # {}
  THEN LET i == CHOOSE i \in Cached(q.rlru, off) : TRUE
       IN [ok |-> TRUE, q |-> [q EXCEPT !.rlru = Touch(@, i)]]
  ELSE IF rf = "table" THEN [ok |-> FALSE, q |-> q]
  ELSE [ok |-> TRUE,
        q |-> [q EXCEPT !.rlru = CacheInsert(@, [off |-> off, ent |-> q.rb[off],
                                                 dirty |-> FALSE])]]

\* After ReadBlock the block is the last node of its cache.
Count(q, c) == q.rlru[Len(q.rlru)].ent[c % RbSize]

CountOf(r, q, c) ==
  IF r.ok THEN [q |-> r.q, n |-> Count(r.q, c)] ELSE [q |-> q, n |-> -1]

GetRefcount(q, c, rf) ==
  IF HasBlock(q, c) THEN CountOf(ReadBlock(q, c, rf), q, c) ELSE [q |-> q, n |-> 0]

WriteBlock(q, wf) ==
  LET last == Len(q.rlru)
  IN IF wf THEN q
     ELSE [q EXCEPT !.rb[q.rlru[last].off] = q.rlru[last].ent,
                    !.rlru[last] = [@ EXCEPT !.dirty = FALSE]]

LowerFree(q, c, n) == IF n = 0 /\ c < q.free THEN [q EXCEPT !.free = c] ELSE q

\* The end of update_cluster_refcount, with the block of cluster c in r.
AddTo(r, c, d, wf) ==
  LET n   == (Count(r.q, c) + d) % (CountMax + 1)
      set == [r.q EXCEPT !.rlru[Len(r.q.rlru)] = [@ EXCEPT !.ent[c % RbSize] = n,
                                                           !.dirty = TRUE]]
  IN IF ~r.ok THEN [ok |-> FALSE, q |-> r.q]
     ELSE [ok |-> ~wf, q |-> IF wf THEN set ELSE LowerFree(WriteBlock(set, wf), c, n)]

InUseAbove(n) == n > 1
InUse(n) == n > 0

\* qcow_alloc_clusters looks for one cluster: the first free one from the cursor on.
\* The greatest count passes for an error.
ScanTurn(s, rf) ==
  LET c == s.q.free
      r == GetRefcount([s.q EXCEPT !.free = @ + 1], c, rf)
  IN IF s.st # "on" THEN s
     ELSE [q |-> r.q, c |-> c, st |-> IF r.n \in {-1, CountMax} THEN "fail"
                                      ELSE IF InUse(r.n) THEN "on" ELSE "free"]

\* Clusters past the refcount table count as free.
Scan(q, rf) ==
  LET turns == RbSize * Len(q.rft) + 1
      go[k \in 0..turns] == IF k = 0 THEN [q |-> q, c |-> 0, st |-> "on"]
                            ELSE ScanTurn(go[k - 1], rf)
  IN go[turns]

BlankBlock == [i \in 0..RbSize - 1 |-> 0]

\* The table of q names the new block at off.
NewBlock(q, c, off) ==
  [q EXCEPT !.rlru = CacheInsert(@, [off |-> off, ent |-> BlankBlock, dirty |-> FALSE]),
            !.rb = [o \in DOMAIN @ \cup {off} |-> IF o = off THEN BlankBlock ELSE @[o]],
            !.rft[Slot(c)] = off]

\* qcow_grow_refcount_block: the new block lives in a cluster of its own, which it or
\* another block must count: update_cluster_refcount is called for it, which may grow
\* the table again.  path lists the clusters of these calls.
GrowTurn(s, rf, wf) ==
  LET c == s.path[Len(s.path)]
      a == Scan(s.q, rf)
  IN IF s.st # "on" THEN s
     ELSE IF HasBlock(s.q, c) THEN [s EXCEPT !.st = "ok"]
     ELSE IF Slot(c) > Len(s.q.rft) THEN [s EXCEPT !.st = "fail"]
     ELSE IF a.st # "free" \/ wf THEN [q |-> a.q, path |-> s.path, st |-> "fail"]
     ELSE [s EXCEPT !.q = NewBlock(a.q, c, a.c), !.path = Append(@, a.c)]

Grow(q, c, rf, wf) ==
  LET turns == Len(q.rft) + 1
      go[k \in 0..turns] == IF k = 0 THEN [q |-> q, path |-> <<c>>, st |-> "on"]
                            ELSE GrowTurn(go[k - 1], rf, wf)
  IN go[turns]

\* The calls return: each counts its cluster in the block that was made for it.
CountAgain(q, c, d) == AddTo(ReadBlock(q, c, "none"), c, d, FALSE).q

CountOuter(q, path, d) ==
  LET outer == Len(path) - 1
      up[k \in 0..outer] == IF k = 0 THEN q
                            ELSE CountAgain(up[k - 1], path[Len(path) - k], IF k = outer THEN d ELSE 1)
  IN up[outer]

\* The innermost call of update_cluster_refcount, after Grow has left s.
CountInnermost(s, d, rf, wf) ==
  LET last == s.path[Len(s.path)]
  IN IF s.st = "ok"
     THEN AddTo(ReadBlock(s.q, last, rf), last, IF Len(s.path) = 1 THEN d ELSE 1, wf)
     ELSE [ok |-> FALSE, q |-> s.q]

\* When the innermost call fails the others take their blocks out of the table again
\* and free them, although the cache still lists them.
CountReturns(r, s, q, d) ==
  IF r.ok THEN [ok |-> TRUE, q |-> CountOuter(r.q, s.path, d)]
  ELSE IF Len(s.path) = 1 THEN r
  ELSE [ok |-> FALSE, q |-> [r.q EXCEPT !.rft = q.rft, !.wild = TRUE]]

CountGrown(s, q, d, rf, wf) == CountReturns(CountInnermost(s, d, rf, wf), s, q, d)

\* update_cluster_refcount.
UpdateRefcount(q, c, d, rf, wf) == CountGrown(Grow(q, c, rf, wf), q, d, rf, wf)

Allocated(u, c) == [off |-> IF u.ok THEN c ELSE NoCluster, q |-> u.q]

AllocFound(s, rf, wf) ==
  IF s.st # "free" THEN [off |-> NoCluster, q |-> s.q]
  ELSE Allocated(UpdateRefcount(s.q, s.c, 1, rf, wf), s.c)

\* qcow_alloc_clusters with update_ref.
Alloc(q, rf, wf) == AllocFound(Scan(q, rf), rf, wf)

\* qcow_free_clusters: nothing for offset -1, whose last cluster wraps below its first.
FreeCluster(q, c) ==
  IF c = NoCluster THEN q ELSE UpdateRefcount(q, c, -1, "none", FALSE).q

(***************************************************************************)
(* Writing.  Both callers of the allocator take a cluster they did get for *)
(* the failure, and go on with the offset -1 when they got none.           *)
(***************************************************************************)
AllocRejected(off) == off # NoCluster

NoTable(q) == [ok |-> FALSE, got |-> 0, q |-> q]

\* The table is this image's own; r is what ReadL2 found.
OwnTable(r, q) ==
  IF r.ok THEN [ok |-> TRUE, got |-> 0, q |-> r.q, tab |-> r.tab] ELSE NoTable(q)

\* A shared table r was read and no cluster could be had for its copy.
CopyTable(r, q, i, wf) ==
  IF ~r.ok THEN NoTable(q)
  ELSE IF wf THEN NoTable([r.q EXCEPT !.wild = TRUE])
  ELSE NoTable(FreeCluster([r.q EXCEPT !.l1[i] = [off |-> NoCluster, copied |-> TRUE],
                                       !.wild = TRUE], q.l1[i].off))

NewTable(a, i, rf, wf) ==
  IF AllocRejected(a.off) THEN [NoTable(a.q) EXCEPT !.got = a.off]
  ELSE IF a.q.l1[i].off = 0 THEN NoTable(a.q)     \* the write to offset -1 fails
  ELSE CopyTable(ReadL2(a.q, a.q.l1[i].off, rf), a.q, i, wf)

\* get_cluster_table.  With offset -1 and a table to copy the table is written in
\* place and listed twice, the L1 entry is overwritten and the old cluster freed.
GetClusterTable(q, g, rf, wf) ==
  LET i == g \div L2Size + 1
  IN IF i > Len(q.l1) THEN NoTable(q)
     ELSE IF q.l1[i].copied THEN OwnTable(ReadL2(q, q.l1[i].off, rf), q)
     ELSE NewTable(Alloc(q, rf, wf), i, rf, wf)

WritesInPlace(e) == e.copied

\* A cluster that was allocated for a write counts as the failure of it.
NewCluster(a) ==
  [ok |-> FALSE, got |-> IF AllocRejected(a.off) THEN a.off ELSE 0, q |-> a.q]

WriteWith(t, g, v, rf, wf) ==
  LET e == t.tab[L2Index(g)]
  IN IF ~t.ok THEN [ok |-> FALSE, got |-> t.got, q |-> t.q]
     ELSE IF WritesInPlace(e)
     THEN [ok |-> ~wf, got |-> 0, q |-> IF wf THEN t.q ELSE [t.q EXCEPT !.data[e.off] = v]]
     ELSE NewCluster(Alloc(t.q, rf, wf))

\* qcow_write_cluster: in place when the cluster is this image's own; otherwise
\* a new cluster is allocated and the call fails (with it, or for want of it).
QcowWrite(q, g, v, rf, wf) ==
  IF g >= q.size THEN NoTable(q)
  ELSE WriteWith(GetClusterTable(q, g, rf, wf), g, v, rf, wf)

\* qcow_disk_flush writes the dirty nodes of both caches; the L1 table, meant to
\* follow, is compared with zero and not written.
QcowFlush(q, wf) ==
  LET dirty == {i \in 1..Len(q.rlru) : q.rlru[i].dirty} IN
  IF wf THEN q
  ELSE [q EXCEPT !.rb = [o \in DOMAIN @ |->
                           IF \E i \in dirty : q.rlru[i].off = o
                           THEN (CHOOSE n \in {q.rlru[i] : i \in dirty} : n.off = o).ent
                           ELSE @[o]],
                 !.rlru = [i \in DOMAIN @ |-> [@[i] EXCEPT !.dirty = FALSE]]]

\* Host clusters that the tables of the image refer to.
Referenced(q) ==
  {0} \cup {q.rft[s] : s \in DOMAIN q.rft}
      \cup UNION {LET e == q.l1[i] IN
                  IF e.off \in {0, NoCluster} THEN {}
                  ELSE {e.off} \cup {q.l2[e.off][j].off : j \in 0..L2Size - 1}
                  : i \in DOMAIN q.l1}
=============================================================================
