------------------------------- MODULE MmioBus -------------------------------
(***************************************************************************)
(* The trap regions of init/mmio.c.  A vCPU that traps looks its address   *)
(* up (mmio_get), runs the handler of the region it found and lets go of   *)
(* it (mmio_put), while other vCPUs register and deregister regions.       *)
(*                                                                         *)
(* mmio_tree and pio_tree are one set of regions that carry their space;   *)
(* every section under mmio_lock is one step.  A region is identified by   *)
(* its interval and owner, which are the fields of a struct mmio_mapping   *)
(* that never change.                                                      *)
(***************************************************************************)
EXTENDS Naturals, FiniteSets

CONSTANTS
  Vcpus,     \* the threads that trap
  Regions,   \* records with fields space, low, high (exclusive) and owner
  Addrs,     \* addresses in use
  Lens,      \* access lengths in use
  None       \* no region

ASSUME BusAssumption ==
  /\ IsFiniteSet(Vcpus)
  /\ \A r \in Regions : r.low \in Nat /\ r.high \in Nat /\ r.low < r.high
  /\ Addrs \subseteq Nat
  /\ Lens \subseteq Nat \ {0}
  /\ None \notin Regions

VARIABLES
  tree,      \* the regions in mmio_tree and pio_tree
  refcount,  \* mmio->refcount
  removed,   \* regions with mmio->remove set
  using      \* the region whose handler a vCPU runs

vars == <<tree, refcount, removed, using>>

\* rb_int_insert returns -EEXIST for intervals that meet.
Meets(r, s) == r.space = s.space /\ r.low < s.high /\ s.low < r.high

\* rb_int_search_single and rb_int_search_range: the regions that hold a point
\* or a whole access.
AtPoint(s, a) == {r \in tree : r.space = s /\ r.low <= a /\ a < r.high}
InRange(s, a, n) == {r \in AtPoint(s, a) : a + n <= r.high}

CanInsert(r) == \A q \in tree : ~Meets(q, r)

Init ==
  /\ tree \in SUBSET Regions
  /\ \A r, s \in tree : Meets(r, s) => r = s
  /\ refcount = [r \in Regions |-> 0]
  /\ removed = {}
  /\ using = [v \in Vcpus |-> None]

\* mmio_get finds a region, removed or not, and the handler starts.
Get(v, s, a, n) ==
  /\ using[v] = None
  /\ \E r \in InRange(s, a, n) :
       /\ refcount' = [refcount EXCEPT ![r] = @ + 1]
       /\ using' = [using EXCEPT ![v] = r]
  /\ UNCHANGED <<tree, removed>>

\* `mmio->remove && mmio->refcount == 0` after the decrement.
NeverGoes(r) == FALSE
RemovedOnly(r) == r \in removed
GoesWithUser(r) == r \in removed /\ refcount[r] = 1

\* mmio_put after the handler has returned.
Put(v) ==
  /\ using[v] # None
  /\ refcount' = [refcount EXCEPT ![using[v]] = @ - 1]
  /\ \/ /\ GoesWithUser(using[v])
        /\ tree' = tree \ {using[v]}
        /\ removed' = removed \ {using[v]}
     \/ /\ ~GoesWithUser(using[v])
        /\ UNCHANGED <<tree, removed>>
  /\ using' = [using EXCEPT ![v] = None]

\* kvm_register_iotrap that succeeds.  One that fails changes nothing (the
\* mapping it allocated leaks).
Register(r) ==
  /\ CanInsert(r)
  /\ tree' = tree \cup {r}
  /\ UNCHANGED <<refcount, removed, using>>

\* `if (mmio->refcount == 0)`: the region can go at once.
GoesAlways(r) == TRUE
GoesNow(r) == refcount[r] = 0

\* kvm_deregister_iotrap on the region it found.
Deregister(r) ==
  /\ r \in tree
  /\ \/ /\ GoesNow(r)
        /\ tree' = tree \ {r}
        /\ UNCHANGED removed
     \/ /\ ~GoesNow(r)
        /\ removed' = removed \cup {r}
        /\ UNCHANGED tree
  /\ UNCHANGED <<refcount, using>>

Next ==
  \/ \E v \in Vcpus, s \in {"io", "mem"}, a \in Addrs, n \in Lens : Get(v, s, a, n)
  \/ \E v \in Vcpus : Put(v)
  \/ \E r \in Regions : Register(r) \/ Deregister(r)

Spec == Init /\ [][Next]_vars

-----------------------------------------------------------------------------
(* Properties                                                              *)

BusTypeOK ==
  /\ tree \in SUBSET Regions
  /\ refcount \in [Regions -> Nat]
  /\ removed \in SUBSET Regions
  /\ using \in [Vcpus -> Regions \cup {None}]

Users(r) == {v \in Vcpus : using[v] = r}

\* "This will trigger use-after-free errors on VCPU0" (kvm_deregister_iotrap)
\* does not happen: the mapping of a running handler has not been freed.
NoUseAfterFree == \A v \in Vcpus : using[v] # None => using[v] \in tree

\* mmio->refcount is the number of vCPUs that run the region's handler.
RefsExact == \A r \in Regions : refcount[r] = Cardinality(Users(r))

\* Regions of a tree never overlap, so a search finds at most one.
Disjoint == \A r, s \in tree : Meets(r, s) => r = s

\* A removed region is still there only for the sake of a user, which will free
\* it: a deregistered region cannot stay behind.
RemovedInUse == \A r \in removed : r \in tree /\ refcount[r] > 0

BusInv == BusTypeOK /\ NoUseAfterFree /\ RefsExact /\ Disjoint /\ RemovedInUse
==============================================================================
