------------------------------ MODULE PciProofs ------------------------------
(***************************************************************************)
(* Proofs about the PCI side of the machine.  MmioBus: BusInv is           *)
(* inductive, and RefsExact is the heart of it: a region that a vCPU uses  *)
(* has a positive count, so neither deregistration nor another user frees  *)
(* it.  PciBars: the configuration writes keep the regions sound, whether  *)
(* or not the guest keeps to Rules; the lemmas about MmioBus cover the     *)
(* steps that touch the regions, once Placed has shown that they are       *)
(* registered for BARs that exist, at addresses that fit.  That an orderly *)
(* guest finds its BARs where they point needs more: BarsIInv says for     *)
(* every stage of a configuration write what its loops have done so far    *)
(* (WriteAt), and between two writes that flags and regions agree          *)
(* (Settled).  VirtioMsix, VfioDevice and VfioIrq have an inductive        *)
(* invariant each; that of VfioIrq has a part that always holds and one    *)
(* that holds until an ioctl fails.                                        *)
(***************************************************************************)
EXTENDS MCPci, TLAPS, FiniteSetTheorems, WellFoundedInduction

-----------------------------------------------------------------------------
(* The trap regions                                                        *)

\* The users of a region are finitely many; it has none exactly when their
\* number is zero.
LEMMA UsersFinite ==
  ASSUME NEW r
  PROVE  /\ IsFiniteSet(Users(r))
         /\ Cardinality(Users(r)) \in Nat
         /\ Cardinality(Users(r)) = 0 <=> Users(r) = {}
<1>1. IsFiniteSet(Users(r))
  BY FS_Subset, BusAssumption DEF Users
<1> QED BY <1>1, FS_CardinalityType, FS_EmptySet

\* With exact counts, a region in use has a positive count, and a count of one
\* when there is a single user.
LEMMA UsedCounted ==
  ASSUME BusInv, NEW v \in Vcpus, using[v] # None
  PROVE  /\ using[v] \in Regions
         /\ refcount[using[v]] \in Nat \ {0}
         /\ refcount[using[v]] = 1 => \A w \in Vcpus : using[w] = using[v] => w = v
<1> DEFINE r == using[v]
<1>1. r \in Regions
  BY DEF BusInv, BusTypeOK
<1>2. refcount[r] = Cardinality(Users(r)) /\ refcount[r] \in Nat
  BY <1>1 DEF BusInv, BusTypeOK, RefsExact
<1>3. v \in Users(r)
  BY DEF Users
<1>4. refcount[r] # 0
  BY <1>2, <1>3, UsersFinite
<1>5. ASSUME refcount[r] = 1, NEW w \in Vcpus, using[w] = r
      PROVE  w = v
  <2>1. /\ IsFiniteSet(Users(r) \ {v})
        /\ Cardinality(Users(r) \ {v}) = 0
    <3>1. IsFiniteSet(Users(r))
      BY UsersFinite
    <3>2. /\ IsFiniteSet(Users(r) \ {v})
          /\ Cardinality(Users(r) \ {v}) = Cardinality(Users(r)) - 1
      BY <3>1, <1>3, FS_RemoveElement
    <3> QED BY <3>2, <1>2, <1>5
  <2>2. Users(r) \ {v} = {}
    BY <2>1, FS_EmptySet
  <2>3. w \in Users(r)
    BY <1>5 DEF Users
  <2> QED BY <2>2, <2>3
<1> QED BY <1>1, <1>2, <1>4, <1>5

\* A trap takes a reference on the region it found.
LEMMA GetKeeps ==
  ASSUME BusInv, NEW v \in Vcpus, NEW s, NEW a, NEW n, Get(v, s, a, n)
  PROVE  BusInv'
<1>1. PICK r \in InRange(s, a, n) :
        /\ refcount' = [refcount EXCEPT ![r] = @ + 1]
        /\ using' = [using EXCEPT ![v] = r]
  BY DEF Get
<1>2. r \in tree /\ r \in Regions /\ using[v] = None /\ UNCHANGED <<tree, removed>>
  BY DEF Get, InRange, AtPoint, BusInv, BusTypeOK
<1>3. BusTypeOK'
  BY <1>1, <1>2 DEF BusInv, BusTypeOK
<1>4. NoUseAfterFree'
  BY <1>1, <1>2 DEF BusInv, BusTypeOK, NoUseAfterFree
<1>5. RefsExact'
  <2> SUFFICES ASSUME NEW q \in Regions
               PROVE  refcount'[q] = Cardinality(Users(q)')
    BY DEF RefsExact
  <2>1. refcount[q] = Cardinality(Users(q)) /\ refcount[q] \in Nat
    BY DEF BusInv, BusTypeOK, RefsExact
  <2>2. CASE q = r
    <3>1. Users(q)' = Users(q) \cup {v} /\ v \notin Users(q)
      BY <1>1, <1>2, <2>2, BusAssumption DEF Users, BusInv, BusTypeOK
    <3>2. Cardinality(Users(q) \cup {v}) = Cardinality(Users(q)) + 1
      BY <3>1, UsersFinite, FS_AddElement
    <3>3. refcount'[q] = refcount[q] + 1
      BY <1>1, <2>2 DEF BusInv, BusTypeOK
    <3> QED BY <2>1, <3>1, <3>2, <3>3
  <2>3. CASE q # r
    <3>1. Users(q)' = Users(q)
      BY <1>1, <1>2, <2>3, BusAssumption DEF Users, BusInv, BusTypeOK
    <3>2. refcount'[q] = refcount[q]
      BY <1>1, <2>3 DEF BusInv, BusTypeOK
    <3> QED BY <2>1, <3>1, <3>2
  <2> QED BY <2>2, <2>3
<1>6. Disjoint'
  BY <1>2 DEF BusInv, Disjoint
<1>7. RemovedInUse'
  BY <1>1, <1>2 DEF BusInv, BusTypeOK, RemovedInUse
<1> QED BY <1>3, <1>4, <1>5, <1>6, <1>7 DEF BusInv

\* The end of a handler gives the reference back, and frees a removed region
\* only when no other vCPU uses it.
LEMMA PutKeeps ==
  ASSUME BusInv, NEW v \in Vcpus, Put(v)
  PROVE  BusInv'
<1> DEFINE r == using[v]
<1>1. /\ r # None
      /\ refcount' = [refcount EXCEPT ![r] = @ - 1]
      /\ using' = [using EXCEPT ![v] = None]
      /\ \/ /\ r \in removed /\ refcount[r] = 1
            /\ tree' = tree \ {r} /\ removed' = removed \ {r}
         \/ /\ ~(r \in removed /\ refcount[r] = 1)
            /\ UNCHANGED <<tree, removed>>
  BY DEF Put, GoesWithUser
<1>2. /\ r \in Regions
      /\ refcount[r] \in Nat \ {0}
      /\ refcount[r] = 1 => \A w \in Vcpus : using[w] = r => w = v
  BY <1>1, UsedCounted
<1>3. BusTypeOK'
  <2>1. refcount[r] - 1 \in Nat
    BY <1>2
  <2> QED BY <1>1, <1>2, <2>1 DEF BusInv, BusTypeOK
<1>4. NoUseAfterFree'
  <2> SUFFICES ASSUME NEW w \in Vcpus, using'[w] # None
               PROVE  using'[w] \in tree'
    BY DEF NoUseAfterFree
  <2>1. w # v /\ using'[w] = using[w]
    BY <1>1 DEF BusInv, BusTypeOK
  <2>2. using[w] \in tree
    BY <2>1 DEF BusInv, NoUseAfterFree
  <2> QED BY <1>1, <1>2, <2>1, <2>2
<1>5. RefsExact'
  <2> SUFFICES ASSUME NEW q \in Regions
               PROVE  refcount'[q] = Cardinality(Users(q)')
    BY DEF RefsExact
  <2>1. refcount[q] = Cardinality(Users(q)) /\ refcount[q] \in Nat
    BY DEF BusInv, BusTypeOK, RefsExact
  <2>2. CASE q = r
    <3>1. Users(q)' = Users(q) \ {v} /\ v \in Users(q)
      BY <1>1, <1>2, <2>2, BusAssumption DEF Users, BusInv, BusTypeOK
    <3>2. Cardinality(Users(q) \ {v}) = Cardinality(Users(q)) - 1
      BY <3>1, UsersFinite, FS_RemoveElement
    <3>3. refcount'[q] = refcount[q] - 1
      BY <1>1, <1>2, <2>2 DEF BusInv, BusTypeOK
    <3> QED BY <2>1, <3>1, <3>2, <3>3
  <2>3. CASE q # r
    <3>1. Users(q)' = Users(q)
      BY <1>1, <2>3, BusAssumption DEF Users, BusInv, BusTypeOK
    <3>2. refcount'[q] = refcount[q]
      BY <1>1, <2>3 DEF BusInv, BusTypeOK
    <3> QED BY <2>1, <3>1, <3>2
  <2> QED BY <2>2, <2>3
<1>6. Disjoint'
  BY <1>1 DEF BusInv, Disjoint
<1>7. RemovedInUse'
  <2> SUFFICES ASSUME NEW q \in removed'
               PROVE  q \in tree' /\ refcount'[q] > 0
    BY DEF RemovedInUse
  <2>1. q \in removed /\ q \in tree /\ q \in Regions /\ refcount[q] \in Nat /\ refcount[q] > 0
    BY <1>1 DEF BusInv, BusTypeOK, RemovedInUse
  <2>2. CASE q = r
    <3>1. refcount[r] # 1 /\ tree' = tree
      BY <1>1, <2>1, <2>2
    <3> QED BY <1>1, <1>2, <2>1, <2>2, <3>1 DEF BusInv, BusTypeOK
  <2>3. CASE q # r
    BY <1>1, <2>1, <2>3 DEF BusInv, BusTypeOK
  <2> QED BY <2>2, <2>3
<1> QED BY <1>3, <1>4, <1>5, <1>6, <1>7 DEF BusInv

\* A registration that succeeds meets no other region.
LEMMA RegisterKeeps ==
  ASSUME BusInv, NEW r \in Regions, Register(r)
  PROVE  BusInv'
<1>1. tree' = tree \cup {r} /\ UNCHANGED <<refcount, removed, using>> /\ CanInsert(r)
  BY DEF Register
<1>2. BusTypeOK' /\ NoUseAfterFree' /\ RemovedInUse'
  BY <1>1 DEF BusInv, BusTypeOK, NoUseAfterFree, RemovedInUse
<1>3. RefsExact'
  BY <1>1 DEF BusInv, RefsExact, Users
<1>4. Disjoint'
  <2> SUFFICES ASSUME NEW p \in tree \cup {r}, NEW q \in tree \cup {r}, Meets(p, q)
               PROVE  p = q
    BY <1>1 DEF Disjoint, Meets
  <2>1. Meets(q, p)
    BY DEF Meets
  <2> QED BY <1>1, <2>1 DEF BusInv, Disjoint, CanInsert
<1> QED BY <1>2, <1>3, <1>4 DEF BusInv

\* Deregistration frees a region that nobody uses, and marks any other.
LEMMA DeregisterKeeps ==
  ASSUME BusInv, NEW r \in Regions, Deregister(r)
  PROVE  BusInv'
<1>1. /\ r \in tree
      /\ UNCHANGED <<refcount, using>>
      /\ \/ refcount[r] = 0 /\ tree' = tree \ {r} /\ UNCHANGED removed
         \/ refcount[r] # 0 /\ removed' = removed \cup {r} /\ UNCHANGED tree
  BY DEF Deregister, GoesNow
<1>2. refcount[r] \in Nat
  BY DEF BusInv, BusTypeOK
<1>3. BusTypeOK' /\ Disjoint'
  BY <1>1 DEF BusInv, BusTypeOK, Disjoint
<1>4. NoUseAfterFree'
  <2> SUFFICES ASSUME NEW w \in Vcpus, using[w] # None
               PROVE  using[w] \in tree'
    BY <1>1 DEF NoUseAfterFree
  <2>1. using[w] \in tree /\ refcount[using[w]] # 0
    BY UsedCounted DEF BusInv, NoUseAfterFree
  <2> QED BY <1>1, <2>1
<1>5. RefsExact'
  BY <1>1 DEF BusInv, RefsExact, Users
<1>6. RemovedInUse'
  BY <1>1, <1>2 DEF BusInv, BusTypeOK, RemovedInUse
<1> QED BY <1>3, <1>4, <1>5, <1>6 DEF BusInv

\* The trees start with regions that do not meet, and no vCPU uses one.
LEMMA InitBus == Init => BusInv
<1> SUFFICES ASSUME Init PROVE BusInv
  OBVIOUS
<1>1. BusTypeOK /\ NoUseAfterFree /\ RemovedInUse /\ Disjoint
  BY DEF Init, BusTypeOK, NoUseAfterFree, RemovedInUse, Disjoint
<1>2. RefsExact
  <2> SUFFICES ASSUME NEW r \in Regions PROVE refcount[r] = Cardinality(Users(r))
    BY DEF RefsExact
  <2>1. Users(r) = {}
    BY BusAssumption DEF Init, Users
  <2> QED BY <2>1, FS_EmptySet DEF Init
<1> QED BY <1>1, <1>2 DEF BusInv

\* Every trap, return, registration and deregistration keeps BusInv.
LEMMA StepBus == BusInv /\ [Next]_vars => BusInv'
<1> SUFFICES ASSUME BusInv, [Next]_vars PROVE BusInv'
  OBVIOUS
<1>1. CASE UNCHANGED vars
  BY <1>1 DEF vars, BusInv, BusTypeOK, NoUseAfterFree, RefsExact, Users, Disjoint, RemovedInUse
<1>2. ASSUME NEW v \in Vcpus, NEW s \in {"io", "mem"}, NEW a \in Addrs, NEW n \in Lens,
             Get(v, s, a, n)
      PROVE  BusInv'
  BY <1>2, GetKeeps
<1>3. ASSUME NEW v \in Vcpus, Put(v) PROVE BusInv'
  BY <1>3, PutKeeps
<1>4. ASSUME NEW r \in Regions, Register(r) PROVE BusInv'
  BY <1>4, RegisterKeeps
<1>5. ASSUME NEW r \in Regions, Deregister(r) PROVE BusInv'
  BY <1>5, DeregisterKeeps
<1> QED BY <1>1, <1>2, <1>3, <1>4, <1>5 DEF Next

\* BusInv holds in every reachable state: counts are exact, regions disjoint, no
\* handler runs on a freed mapping and no removed region stays behind.
THEOREM BusInvariant == Spec => []BusInv
BY InitBus, StepBus, PTL DEF Spec

-----------------------------------------------------------------------------
(* The configuration writes                                                *)

\* The two halves of the invariant that MmioBus does not know of.
BarsOK ==
  /\ bar \in [BarNums -> 0 .. Top - 1]
  /\ active \in [BarNums -> BOOLEAN]
  /\ command \in [Devs -> SUBSET Spaces]
  /\ \A b \in BarNums : bar[b] \in Targets[b] \cup {Probe(b)}

Stages == {"idle", "command", "off", "clear", "on", "back", "again"}
Moves(s, a) ==
  s \notin {"idle", "command"} => a.bar \in BarNums /\ a.value \in Targets[a.bar]

WritesOK ==
  /\ stage \in [Vcpus -> Stages]
  /\ step \in [Vcpus -> {"scan", "call", "set"}]
  /\ k \in [Vcpus -> 1 .. Len(Bars) + 1]
  /\ args \in [Vcpus -> Writes]
  /\ \A v \in Vcpus :
       /\ Moves(stage[v], args[v])
       /\ step[v] # "scan" => stage[v] # "idle" /\ k[v] <= Len(Bars)

\* PciInv is the conjunction of the three halves.
LEMMA Parts == PciInv <=> BusInv /\ BarsOK /\ WritesOK
BY DEF PciInv, TypeOK, Placed, BusInv, BarsOK, WritesOK, Stages, Moves

\* The same of the next state.
LEMMA PartsThen == BusInv' /\ BarsOK' /\ WritesOK' => PciInv'
BY Parts, PTL

\* The number of BARs is a natural number.
LEMMA LenNat == Len(Bars) \in Nat
BY BarAssumption

\* Addresses and the answer to a probe are u32 values.
LEMMA AddressesFit ==
  ASSUME NEW b \in BarNums
  PROVE  /\ Probe(b) \in 0 .. Top - 1
         /\ \A a \in Targets[b] : a \in 0 .. Top - 1
BY BarAssumption DEF Probe

\* NoArgs describes a write.
LEMMA NoArgsOK == NoArgs \in Writes
BY DEF NoArgs, Writes

\* A write that goes on to another stage, or starts, or ends.
LEMMA GotoKeeps ==
  ASSUME WritesOK, NEW v \in Vcpus, NEW s \in Stages, NEW a \in Writes, Moves(s, a),
         Goto(v, s, a)
  PROVE  WritesOK'
<1>1. args' \in [Vcpus -> Writes]
  BY NoArgsOK DEF WritesOK, Goto
<1>2. stage' \in [Vcpus -> Stages] /\ step' \in [Vcpus -> {"scan", "call", "set"}]
  BY DEF WritesOK, Goto
<1>3. k' \in [Vcpus -> 1 .. Len(Bars) + 1]
  BY LenNat DEF WritesOK, Goto
<1>4. ASSUME NEW w \in Vcpus
      PROVE  /\ Moves(stage'[w], args'[w])
             /\ step'[w] # "scan" => stage'[w] # "idle" /\ k'[w] <= Len(Bars)
  BY LenNat DEF WritesOK, Goto, Moves
<1> QED BY <1>1, <1>2, <1>3, <1>4 DEF WritesOK, Moves

\* A loop that goes on to the next BAR.
LEMMA NextBarKeeps ==
  ASSUME WritesOK, NEW v \in Vcpus, k[v] <= Len(Bars), NextBar(v)
  PROVE  WritesOK'
<1>1. k' \in [Vcpus -> 1 .. Len(Bars) + 1] /\ step' \in [Vcpus -> {"scan", "call", "set"}]
  BY LenNat DEF WritesOK, NextBar
<1>2. ASSUME NEW w \in Vcpus
      PROVE  step'[w] # "scan" => stage'[w] # "idle" /\ k'[w] <= Len(Bars)
  BY LenNat DEF WritesOK, NextBar
<1> QED BY <1>1, <1>2 DEF WritesOK, NextBar, Moves

\* A BAR step ends, with or without an error.
LEMMA EndsKeep ==
  ASSUME WritesOK, NEW v \in Vcpus, k[v] <= Len(Bars), stage[v] # "idle",
         Succeed(v) \/ Fail(v)
  PROVE  WritesOK'
<1> DEFINE old == [args[v] EXCEPT !.from = args[v].old]
           new == [args[v] EXCEPT !.from = args[v].value]
<1>1. args[v] \in Writes /\ stage[v] \in Stages /\ Moves(stage[v], args[v])
  BY DEF WritesOK
<1>2. old \in Writes /\ new \in Writes
  BY <1>1 DEF Writes
<1>3. old.bar = args[v].bar /\ old.value = args[v].value
      /\ new.bar = args[v].bar /\ new.value = args[v].value
  BY <1>1 DEF Writes
<1>4. CASE NextBar(v)
  BY <1>4, NextBarKeeps
<1>5. CASE Goto(v, "idle", NoArgs)
  BY <1>5, NoArgsOK, GotoKeeps DEF Stages, Moves
<1>6. CASE stage[v] = "off" /\ Goto(v, "clear", args[v])
  BY <1>1, <1>6, GotoKeeps DEF Stages, Moves
<1>7. CASE stage[v] = "clear" /\ Goto(v, "back", args[v])
  BY <1>1, <1>7, GotoKeeps DEF Stages, Moves
<1>8. CASE stage[v] = "on" /\ Goto(v, "again", old)
  <2>1. Moves("again", old)
    BY <1>1, <1>3, <1>8 DEF Moves
  <2> QED BY <1>2, <1>8, <2>1, GotoKeeps DEF Stages
<1>9. CASE stage[v] = "on" /\ Goto(v, "again", new)
  <2>1. Moves("again", new)
    BY <1>1, <1>3, <1>9 DEF Moves
  <2> QED BY <1>2, <1>9, <2>1, GotoKeeps DEF Stages
<1> QED
  BY <1>1, <1>4, <1>5, <1>6, <1>7, <1>8, <1>9 DEF Succeed, Fail, Loops, Stages

\* The BAR a write works on exists.
LEMMA TargetOK ==
  ASSUME WritesOK, NEW v \in Vcpus, stage[v] # "idle", k[v] <= Len(Bars)
  PROVE  Target(v) \in BarNums
<1>1. k[v] \in BarNums
  BY LenNat DEF WritesOK, BarNums
<1>2. stage[v] \notin Loops => args[v].bar \in BarNums
  BY DEF WritesOK, Moves, Loops, Stages
<1> QED BY <1>1, <1>2 DEF Target

\* The region of a BAR, wherever the BAR is, is one of Regions.
LEMMA RegionOK ==
  ASSUME BarsOK, NEW b \in BarNums
  PROVE  Region(b, bar[b]) \in Regions
BY BarAssumption DEF BarsOK, BarRegions

\* A step that leaves the regions alone.
LEMMA BusStutter ==
  ASSUME BusInv, UNCHANGED vars
  PROVE  BusInv'
BY DEF BusInv, BusTypeOK, NoUseAfterFree, RefsExact, Users, Disjoint, RemovedInUse, Meets, vars

\* A step that leaves the BARs alone.
LEMMA BarsStutter ==
  ASSUME BarsOK, UNCHANGED barVars
  PROVE  BarsOK'
BY DEF BarsOK, barVars

\* A step that leaves the writes alone.
LEMMA WritesStutter ==
  ASSUME WritesOK, UNCHANGED writeVars
  PROVE  WritesOK'
BY DEF WritesOK, writeVars, Moves

\* A BAR gets another address.
LEMMA BarWritten ==
  ASSUME BarsOK, NEW b \in BarNums, NEW a \in Targets[b] \cup {Probe(b)},
         bar' = [bar EXCEPT ![b] = a], UNCHANGED <<active, command>>
  PROVE  BarsOK'
<1>1. bar' \in [BarNums -> 0 .. Top - 1]
  BY AddressesFit DEF BarsOK
<1>2. \A c \in BarNums : bar'[c] \in Targets[c] \cup {Probe(c)}
  BY DEF BarsOK
<1> QED BY <1>1, <1>2 DEF BarsOK, Probe

\* virtio_pci__init establishes the invariant.
LEMMA InitPci == PciInit => PciInv
<1> SUFFICES ASSUME PciInit PROVE BusInv /\ BarsOK /\ WritesOK
  BY Parts
<1>1. BarsOK
  <2>1. \A b \in BarNums : bar[b] \in Targets[b] /\ bar[b] \in 0 .. Top - 1
    BY BarAssumption, AddressesFit DEF PciInit
  <2> QED BY <2>1 DEF BarsOK, PciInit
<1>2. WritesOK
  BY LenNat, NoArgsOK DEF WritesOK, PciInit, Stages, Moves
<1>3. tree \subseteq Regions
  BY BarAssumption DEF PciInit, BarRegions
<1>4. Disjoint
  BY BarAssumption DEF PciInit, Disjoint
<1>5. Init
  BY <1>3, <1>4 DEF PciInit, Init, Disjoint
<1> QED BY <1>1, <1>2, <1>5, InitBus

\* An access of the guest, and the end of its handler.
LEMMA AccessKeeps ==
  ASSUME PciInv, NEW v \in Vcpus, Access(v) \/ Return(v)
  PROVE  PciInv'
<1>1. BusInv'
  BY Parts, GetKeeps, PutKeeps DEF Access, Return
<1>2. BarsOK' /\ WritesOK'
  BY Parts, BarsStutter, WritesStutter DEF Access, Return
<1> QED BY <1>1, <1>2, PartsThen

\* A configuration write begins; sizing a BAR or moving one that is not decoded is
\* done at once.
LEMMA WriteKeeps ==
  ASSUME PciInv, NEW v \in Vcpus, Write(v)
  PROVE  PciInv'
<1>1. BusInv /\ BarsOK /\ WritesOK
  BY Parts
<1>2. ASSUME NEW d \in Devs, NEW new \in SUBSET Spaces, CommandWrite(v, d, new)
      PROVE  PciInv'
  <2> DEFINE a == [NoArgs EXCEPT !.dev = d, !.spaces = new,
                   !.toggled = (command[d] \ new) \cup (new \ command[d])]
  <2>1. a \in Writes
    BY <1>1 DEF NoArgs, Writes, BarsOK
  <2>2. Goto(v, "command", a)
    BY <1>2 DEF CommandWrite
  <2>3. WritesOK'
    BY <1>1, <2>1, <2>2, GotoKeeps DEF Stages, Moves
  <2>4. BusInv' /\ BarsOK'
    BY <1>1, <1>2, BusStutter, BarsStutter DEF CommandWrite
  <2> QED BY <2>3, <2>4, PartsThen
<1>3. ASSUME NEW b \in BarNums, SizeWrite(v, b)
      PROVE  PciInv'
  <2>1. BusInv' /\ WritesOK'
    BY <1>1, <1>3, BusStutter, WritesStutter DEF SizeWrite
  <2>2. BarsOK'
    BY <1>1, <1>3, BarWritten DEF SizeWrite
  <2> QED BY <2>1, <2>2, PartsThen
<1>4. ASSUME NEW b \in BarNums, NEW a \in Targets[b], DisabledWrite(v, b, a)
      PROVE  PciInv'
  <2>1. BusInv' /\ WritesOK'
    BY <1>1, <1>4, BusStutter, WritesStutter DEF DisabledWrite
  <2>2. BarsOK'
    BY <1>1, <1>4, BarWritten DEF DisabledWrite
  <2> QED BY <2>1, <2>2, PartsThen
<1>5. ASSUME NEW b \in BarNums, NEW a \in Targets[b], BarWrite(v, b, a)
      PROVE  PciInv'
  <2> DEFINE w == [NoArgs EXCEPT !.bar = b, !.value = a, !.old = bar[b]]
  <2>1. a \in Nat /\ bar[b] \in Nat
    BY <1>1, AddressesFit DEF BarsOK
  <2>2. w \in Writes /\ w.bar = b /\ w.value = a
    BY <2>1 DEF NoArgs, Writes
  <2>3. Goto(v, "off", w)
    BY <1>5 DEF BarWrite
  <2>4. WritesOK'
    BY <1>1, <2>2, <2>3, GotoKeeps DEF Stages, Moves
  <2>5. BusInv' /\ BarsOK'
    BY <1>1, <1>5, BusStutter, BarsStutter DEF BarWrite
  <2> QED BY <2>4, <2>5, PartsThen
<1> QED BY <1>2, <1>3, <1>4, <1>5 DEF Write

\* The steps of a write that leave the regions alone.
LEMMA QuietStepKeeps ==
  ASSUME PciInv, NEW v \in Vcpus, Scan(v) \/ SetActive(v) \/ EndLoop(v)
  PROVE  PciInv'
<1>1. BusInv /\ BarsOK /\ WritesOK
  BY Parts
<1>2. BusInv'
  BY <1>1, BusStutter DEF Scan, SetActive, EndLoop
<1>3. ASSUME Scan(v)
      PROVE  PciInv'
  <2>1. BarsOK'
    BY <1>1, <1>3, BarsStutter DEF Scan
  <2>2. CASE Succeed(v)
    BY <1>1, <1>2, <1>3, <2>1, <2>2, EndsKeep, PartsThen DEF Scan
  <2>3. CASE step' = [step EXCEPT ![v] = "call"] /\ UNCHANGED <<stage, k, args>>
    <3>1. step' \in [Vcpus -> {"scan", "call", "set"}]
      BY <1>1, <2>3 DEF WritesOK
    <3>2. \A w \in Vcpus : step'[w] # "scan" => stage'[w] # "idle" /\ k'[w] <= Len(Bars)
      BY <1>1, <1>3, <2>3 DEF WritesOK, Scan
    <3>3. WritesOK'
      BY <1>1, <2>3, <3>1, <3>2 DEF WritesOK, Moves
    <3> QED BY <1>2, <2>1, <3>3, PartsThen
  <2> QED BY <1>3, <2>2, <2>3 DEF Scan
<1>4. ASSUME SetActive(v)
      PROVE  PciInv'
  <2>1. stage[v] # "idle" /\ k[v] <= Len(Bars)
    BY <1>1, <1>4 DEF SetActive, WritesOK
  <2>2. WritesOK'
    BY <1>1, <1>4, <2>1, EndsKeep DEF SetActive
  <2>3. FlagAfter(v) \in BOOLEAN
    BY Zenon DEF FlagAfter, Activate
  <2>4. active' \in [BarNums -> BOOLEAN]
    BY <1>1, <1>4, <2>3 DEF SetActive, BarsOK
  <2>5. BarsOK'
    BY <1>1, <1>4, <2>4 DEF SetActive, BarsOK
  <2> QED BY <1>2, <2>2, <2>5, PartsThen
<1>5. ASSUME EndLoop(v)
      PROVE  PciInv'
  <2>1. args[v] \in Writes /\ Moves(stage[v], args[v])
    BY <1>1 DEF WritesOK
  <2>2. CASE stage[v] = "clear" /\ Goto(v, "on", args[v])
             /\ bar' = [bar EXCEPT ![args[v].bar] = args[v].value] /\ UNCHANGED command
    <3>1. args[v].bar \in BarNums /\ args[v].value \in Targets[args[v].bar]
      BY <2>1, <2>2 DEF Moves
    <3>2. WritesOK'
      BY <1>1, <2>1, <2>2, <3>1, GotoKeeps DEF Stages, Moves
    <3>3. BarsOK'
      BY <1>1, <1>5, <2>2, <3>1, BarWritten DEF EndLoop
    <3> QED BY <1>2, <3>2, <3>3, PartsThen
  <2>3. CASE Goto(v, "idle", NoArgs) /\ UNCHANGED bar
             /\ (UNCHANGED command \/
                 command' = [command EXCEPT ![args[v].dev] = args[v].spaces])
    <3>1. WritesOK'
      BY <1>1, <2>3, NoArgsOK, GotoKeeps DEF Stages, Moves
    <3>2. args[v].spaces \in SUBSET Spaces
      BY <2>1 DEF Writes
    <3>3. command' \in [Devs -> SUBSET Spaces]
      BY <1>1, <2>3, <3>2 DEF BarsOK
    <3>4. BarsOK'
      BY <1>1, <1>5, <2>3, <3>3 DEF EndLoop, BarsOK
    <3> QED BY <1>2, <3>1, <3>4, PartsThen
  <2> QED BY <1>5, <2>2, <2>3 DEF EndLoop
<1> QED BY <1>3, <1>4, <1>5

\* A callback has been entered and goes on to set the flag.
LEMMA CalledKeeps ==
  ASSUME WritesOK, NEW v \in Vcpus, step[v] = "call",
         step' = [step EXCEPT ![v] = "set"], UNCHANGED <<stage, k, args>>
  PROVE  WritesOK'
<1>1. step' \in [Vcpus -> {"scan", "call", "set"}]
  BY DEF WritesOK
<1>2. \A w \in Vcpus : step'[w] # "scan" => stage'[w] # "idle" /\ k'[w] <= Len(Bars)
  BY DEF WritesOK
<1> QED BY <1>1, <1>2 DEF WritesOK, Moves

\* virtio_pci__bar_activate and virtio_pci__bar_deactivate: the steps that add and
\* remove regions.
LEMMA CallKeeps ==
  ASSUME PciInv, NEW v \in Vcpus, CallActivate(v) \/ CallDeactivate(v)
  PROVE  PciInv'
<1>1. BusInv /\ BarsOK /\ WritesOK
  BY Parts
<1>2. step[v] = "call" /\ stage[v] # "idle" /\ k[v] <= Len(Bars)
  BY <1>1 DEF CallActivate, CallDeactivate, WritesOK
<1>3. Region(Target(v), bar[Target(v)]) \in Regions
  BY <1>1, <1>2, TargetOK, RegionOK
<1>4. BarsOK'
  BY <1>1, BarsStutter DEF CallActivate, CallDeactivate
<1>5. WritesOK'
  <2>1. \/ step' = [step EXCEPT ![v] = "set"] /\ UNCHANGED <<stage, k, args>>
        \/ Fail(v)
    BY DEF CallActivate, CallDeactivate
  <2> QED BY <1>1, <1>2, <2>1, CalledKeeps, EndsKeep
<1>6. BusInv'
  <2>1. CASE CallActivate(v)
    BY <1>1, <1>3, <2>1, RegisterKeeps, BusStutter DEF CallActivate
  <2>2. CASE CallDeactivate(v)
    <3>1. CASE UNCHANGED vars
      BY <1>1, <3>1, BusStutter
    <3>2. CASE \E r \in AtPoint(Bars[Target(v)].space, bar[Target(v)]) : Deregister(r)
      <4>1. PICK r \in tree : Deregister(r)
        BY <3>2 DEF AtPoint
      <4>2. r \in Regions
        BY <1>1, <4>1 DEF BusInv, BusTypeOK
      <4> QED BY <1>1, <4>1, <4>2, DeregisterKeeps
    <3> QED BY <2>2, <3>1, <3>2 DEF CallDeactivate
  <2> QED BY <2>1, <2>2
<1> QED BY <1>4, <1>5, <1>6, PartsThen

\* Configuration writes by any number of vCPUs, in any order with the accesses of
\* the others, keep the regions sound: none is freed under its handler, none
\* outlives its last user, no two overlap, the reference counts are exact.
THEOREM PciInvariant == PciSpec => []PciInv
<1>1. ASSUME PciInv, PciNext
      PROVE  PciInv'
  BY <1>1, AccessKeeps, WriteKeeps, QuietStepKeeps, CallKeeps DEF PciNext, Steps
<1>2. ASSUME PciInv, UNCHANGED pciVars
      PROVE  PciInv'
  <2>1. BusInv' /\ BarsOK' /\ WritesOK'
    BY <1>2, Parts, BusStutter, BarsStutter, WritesStutter
      DEF pciVars, vars, barVars, writeVars
  <2> QED BY <2>1, PartsThen
<1> QED BY InitPci, <1>1, <1>2, PTL DEF PciSpec

\* mmio_put and mmio_deregister never free the mapping of a running handler.
THEOREM NeverFreedInUse == PciSpec => []NoUseAfterFree
<1>1. PciInv => NoUseAfterFree
  BY DEF PciInv, BusInv
<1> QED BY <1>1, PciInvariant, PTL

\* A region that was deregistered while in use goes with its last user.
THEOREM RemovedGo == PciSpec => []RemovedInUse
<1>1. PciInv => RemovedInUse
  BY DEF PciInv, BusInv
<1> QED BY <1>1, PciInvariant, PTL

\* Addresses stay u32 values and every write is where its code can be.
THEOREM PciTypeCorrect == PciSpec => []TypeOK
<1>1. PciInv => TypeOK
  BY DEF PciInv
<1> QED BY <1>1, PciInvariant, PTL

-----------------------------------------------------------------------------
(* An orderly guest finds its BARs where they point                        *)

\* A BAR has a region at its address that was not removed.
Live(b) == Region(b, bar[b]) \in tree \ removed
Homed(b) == bar[b] \in Targets[b]

\* Every region that was not removed is the one of its BAR.
OwnRegions == \A r \in tree \ removed : r.owner \in BarNums /\ r = Region(r.owner, bar[r.owner])

\* A BAR that is decoded has an address, and one that is not collides with
\* none that has one.
Decoded == \A b \in BarNums : Enabled(b) => Homed(b)
DisabledApart ==
  \A b, c \in BarNums : ~Enabled(b) /\ Homed(b) /\ Homed(c) => ~Collide(b, bar[b], c)

\* A BAR that should be emulated is, or a BAR that is enabled is in its way, or an
\* activation that failed left it off.
Covered(b) ==
  Enabled(b) /\ ~Live(b) /\ b \notin spoiled =>
    \E c \in BarNums : Enabled(c) /\ Collide(b, bar[b], c)

\* Between two configuration writes.
Settled ==
  \A b \in BarNums : (active[b] <=> Live(b)) /\ (Live(b) => Enabled(b)) /\ Covered(b)

\* Target, Activate and Wanted of a write in stage st, with loop counter n and
\* arguments a.
TargetAt(st, n, a) == IF st \in Loops THEN n ELSE a.bar
ActivateAt(st, n, a) ==
  \/ st = "command" /\ Bars[TargetAt(st, n, a)].space \in a.spaces
  \/ st \in {"on", "back", "again"}
WantedAt(st, n, a) ==
  /\ st = "command" => Bars[n].dev = a.dev /\ Bars[n].space \in a.toggled
  /\ st = "clear" => Overlaps(n, a.value, Bars[a.bar].size)
  /\ st = "again" => Overlaps(n, a.from, Bars[a.bar].size)

\* bar_active is true, but for the BAR whose callback has returned.
FlagsAt(st, sp, n, a) ==
  \A b \in BarNums :
    /\ b # TargetAt(st, n, a) \/ sp # "set" => (active[b] <=> Live(b))
    /\ b = TargetAt(st, n, a) /\ sp # "scan" => (active[b] <=> ~ActivateAt(st, n, a))
    /\ b = TargetAt(st, n, a) /\ sp = "set" => (Live(b) <=> ActivateAt(st, n, a))

Passed(c, sp, n) == c < n \/ (c = n /\ sp = "set")

\* A write to the command register, which takes effect when its loop is over.
Concerned(a) == {b \in BarNums : Bars[b].dev = a.dev /\ Bars[b].space \in a.toggled}
CommandAt(sp, n, a) ==
  /\ a.dev \in Devs
  /\ a.toggled = (command[a.dev] \ a.spaces) \cup (a.spaces \ command[a.dev])
  /\ \A b \in Concerned(a) :
       /\ Homed(b)
       /\ \A c \in BarNums : ~Collide(b, bar[b], c)
       /\ Passed(b, sp, n) /\ Bars[b].space \in a.spaces => Live(b) \/ b \in spoiled
       /\ Passed(b, sp, n) /\ Bars[b].space \notin a.spaces => ~Live(b)
  /\ \A b \in BarNums \ Concerned(a) : (Live(b) => Enabled(b)) /\ Covered(b)

\* A move of a BAR that is decoded, from a.old to a.value.
MoveAt(st, sp, n, a) ==
  /\ a.bar \in BarNums /\ Enabled(a.bar)
  /\ a.value \in Targets[a.bar] /\ a.old \in Targets[a.bar]
  /\ \A c \in BarNums \ {a.bar} :
       /\ ~Enabled(c) /\ Homed(c) => ~Collide(a.bar, a.value, c) /\ ~Collide(a.bar, a.old, c)
       /\ Live(c) => Enabled(c)
  /\ bar[a.bar] = IF st \in {"off", "clear"} THEN a.old ELSE a.value
  /\ st = "off" => \A c \in BarNums \ {a.bar} : Covered(c)
  /\ st = "clear" => ~active[a.bar]
  /\ st = "clear" =>
       \A c \in BarNums \ {a.bar} :
         /\ Collide(a.bar, a.value, c) \/ Covered(c)
         /\ Passed(c, sp, n) /\ Collide(a.bar, a.value, c) => ~Live(c)
  /\ st = "on" =>
       \A c \in BarNums \ {a.bar} :
         /\ Collide(a.bar, a.old, c) \/ Covered(c)
         /\ Collide(a.bar, a.value, c) => ~Live(c)
  /\ st = "again" =>
       /\ a.from \in {a.old, a.value} /\ Covered(a.bar)
       /\ \A c \in BarNums \ {a.bar} :
            (a.from = a.old /\ c >= n /\ Collide(a.bar, a.old, c)) \/ Covered(c)

WriteAt(st, sp, n, a) ==
  /\ FlagsAt(st, sp, n, a)
  /\ sp # "scan" => WantedAt(st, n, a)
  /\ st = "command" => CommandAt(sp, n, a)
  /\ st # "command" => MoveAt(st, sp, n, a)

OneWriter == \A v, w \in Vcpus : stage[v] # "idle" /\ stage[w] # "idle" => v = w

BarsIInv ==
  /\ PciInv
  /\ Orderly =>
       /\ OneWriter /\ OwnRegions /\ Decoded /\ DisabledApart
       /\ Quiet => Settled
       /\ \A v \in Vcpus :
            /\ stage[v] # "back"
            /\ stage[v] # "idle" => WriteAt(stage[v], step[v], k[v], args[v])

\* The sizes and addresses of BARs are numbers.
LEMMA BarNumbers ==
  ASSUME BarsOK, NEW b \in BarNums
  PROVE  /\ Bars[b].size \in Nat /\ Bars[b].size > 0 /\ bar[b] \in Nat /\ Top \in Nat
         /\ \A a \in Targets[b] : a \in Nat /\ a + Bars[b].size < Top
         /\ ~Homed(b) => bar[b] + Bars[b].size = Top
<1>1. Bars[b].size \in 1 .. Top /\ Top \in Nat /\ \A a \in Targets[b] : a \in Nat /\ a + Bars[b].size < Top
  BY BarAssumption
<1>2. bar[b] \in 0 .. Top - 1 /\ bar[b] \in Targets[b] \cup {Probe(b)}
  BY DEF BarsOK
<1> QED BY <1>1, <1>2 DEF Homed, Probe

\* When the regions of two BARs meet.
LEMMA RegionsMeet ==
  ASSUME NEW b, NEW a, NEW c, NEW e
  PROVE  Meets(Region(b, a), Region(c, e)) <=>
           Bars[b].space = Bars[c].space /\ a < e + Bars[c].size /\ e < a + Bars[b].size
BY DEF Meets, Region

\* To collide is symmetric.
LEMMA CollideBack ==
  ASSUME NEW b, NEW c
  PROVE  Collide(b, bar[b], c) <=> Collide(c, bar[c], b)
BY RegionsMeet DEF Collide

\* u32 arithmetic on a sum that fits, and on the end of the address space.
LEMMA Modulo ==
  ASSUME NEW x \in Nat, NEW t \in Nat, x <= t, t > 0
  PROVE  x % t = IF x < t THEN x ELSE 0
OBVIOUS

\* The overlap test of pci_toggle_bar_regions says whether a BAR collides with
\* another one at address a; a BAR that was sized is never in the way.
LEMMA OverlapMeans ==
  ASSUME BarsOK, WindowsApart, NEW m \in BarNums, NEW c \in BarNums, m # c,
         NEW a \in Targets[m]
  PROVE  Overlaps(c, a, Bars[m].size) <=> Homed(c) /\ Collide(m, a, c)
<1>1. PICK x, y, z, t : x = Bars[m].size /\ y = Bars[c].size /\ z = bar[c] /\ t = Top
  OBVIOUS
<1>2. /\ x \in Nat /\ x > 0 /\ y \in Nat /\ y > 0 /\ z \in Nat /\ t \in Nat
      /\ a \in Nat /\ a + x < t
      /\ ~Homed(c) => z + y = t
      /\ Homed(c) => z + y < t
  <2>1. /\ Bars[m].size \in Nat /\ Bars[m].size > 0 /\ Top \in Nat /\ a \in Nat /\ a + Bars[m].size < Top
    BY BarNumbers
  <2>2. /\ Bars[c].size \in Nat /\ Bars[c].size > 0 /\ bar[c] \in Nat
        /\ ~Homed(c) => bar[c] + Bars[c].size = Top
        /\ Homed(c) => bar[c] + Bars[c].size < Top
    BY BarNumbers DEF Homed
  <2> QED BY <1>1, <2>1, <2>2
<1>3. (a + x) % t = a + x /\ (z + y) % t = IF Homed(c) THEN z + y ELSE 0
  <2>1. a + x \in Nat /\ z + y \in Nat /\ a + x < t /\ z + y <= t /\ t > 0
    BY <1>2
  <2>2. (a + x) % t = a + x
    BY <1>2, <2>1, Modulo
  <2>3. (z + y) % t = IF z + y < t THEN z + y ELSE 0
    BY <1>2, <2>1, Modulo
  <2> QED BY <1>2, <2>2, <2>3
<1>4. Overlaps(c, a, Bars[m].size) <=> Homed(c) /\ a < z + y /\ z < a + x
  <2>1. Overlaps(c, a, Bars[m].size) <=> ~((z + y) % t <= a \/ z >= (a + x) % t)
    BY <1>1 DEF Overlaps
  <2> QED BY <1>2, <1>3, <2>1
<1>5. Collide(m, a, c) <=> Bars[m].space = Bars[c].space /\ a < z + y /\ z < a + x
  BY <1>1, RegionsMeet DEF Collide
<1>6. Homed(c) /\ Bars[m].space # Bars[c].space => a + x <= z \/ z + y <= a
  BY <1>1 DEF WindowsApart, Homed
<1> QED BY <1>2, <1>4, <1>5, <1>6

\* What a write can rely on in every state.
Footing == BarsOK /\ WindowsApart /\ Decoded /\ DisabledApart

\* A BAR that overlaps the place a.value or a.old of a moving BAR is enabled.
LEMMA OverlappedEnabled ==
  ASSUME Footing, NEW st, NEW sp, NEW n, NEW a, MoveAt(st, sp, n, a),
         NEW c \in BarNums \ {a.bar}, NEW e \in {a.old, a.value}, Overlaps(c, e, Bars[a.bar].size)
  PROVE  Enabled(c) /\ Collide(a.bar, e, c)
<1>1. /\ a.bar \in BarNums /\ e \in Targets[a.bar]
      /\ ~Enabled(c) /\ Homed(c) => ~Collide(a.bar, e, c)
  BY DEF MoveAt
<1>2. Homed(c) /\ Collide(a.bar, e, c)
  BY <1>1, OverlapMeans DEF Footing
<1> QED BY <1>1, <1>2

\* The other way round, for a BAR that is enabled.
LEMMA EnabledOverlaps ==
  ASSUME Footing, NEW m \in BarNums, NEW c \in BarNums, m # c, NEW e \in Targets[m],
         Enabled(c), Collide(m, e, c)
  PROVE  Overlaps(c, e, Bars[m].size)
BY OverlapMeans DEF Footing, Decoded

\* The BAR at hand is dealt with: its flag is true, and if it was wanted, it is what
\* it was to become.
BarDone(st, n, a) ==
  /\ WriteAt(st, "scan", n, a) /\ TargetAt(st, n, a) \in BarNums
  /\ WantedAt(st, n, a) => (Live(TargetAt(st, n, a)) <=> ActivateAt(st, n, a))

\* Flags that are true stay so when the write goes on.
LEMMA FlagsGoOn ==
  ASSUME NEW st, NEW n, NEW a, FlagsAt(st, "scan", n, a)
  PROVE  \A s2, n2, a2 : FlagsAt(s2, "scan", n2, a2)
BY DEF FlagsAt

\* pci_config_command_wr goes on to the next BAR.
LEMMA NextCommand ==
  ASSUME Footing, NEW n \in BarNums, NEW a, BarDone("command", n, a)
  PROVE  WriteAt("command", "scan", n + 1, a)
<1>1. WriteAt("command", "scan", n, a) /\ CommandAt("scan", n, a)
  BY DEF BarDone, WriteAt
<1>2. n \in Concerned(a) => (Live(n) <=> Bars[n].space \in a.spaces)
  BY DEF BarDone, WantedAt, Concerned, TargetAt, ActivateAt, Loops
<1>3. ASSUME NEW b \in Concerned(a), Passed(b, "scan", n + 1) PROVE b = n \/ Passed(b, "scan", n)
  <2>1. b \in Int /\ n \in Int
    BY LenNat DEF Concerned, BarNums
  <2> QED BY <1>3, <2>1 DEF Passed
<1>4. CommandAt("scan", n + 1, a)
  <2> SUFFICES ASSUME NEW b \in Concerned(a), Passed(b, "scan", n + 1)
               PROVE  /\ Bars[b].space \in a.spaces => Live(b) \/ b \in spoiled
                      /\ Bars[b].space \notin a.spaces => ~Live(b)
    BY <1>1 DEF CommandAt
  <2> QED BY <1>1, <1>2, <1>3 DEF CommandAt
<1>5. FlagsAt("command", "scan", n + 1, a)
  BY <1>1, FlagsGoOn DEF WriteAt
<1> QED BY <1>4, <1>5 DEF WriteAt

\* The loop that turns off what the new place overlaps goes on to the next BAR.
LEMMA NextClear ==
  ASSUME Footing, NEW n \in BarNums, NEW a, BarDone("clear", n, a)
  PROVE  WriteAt("clear", "scan", n + 1, a)
<1>1. WriteAt("clear", "scan", n, a) /\ MoveAt("clear", "scan", n, a)
  BY DEF BarDone, WriteAt
<1>2. ASSUME NEW c \in BarNums \ {a.bar}, Passed(c, "scan", n + 1), Collide(a.bar, a.value, c)
      PROVE  ~Live(c)
  <2>1. c \in Int /\ n \in Int
    BY LenNat DEF BarNums
  <2>2. c = n \/ Passed(c, "scan", n)
    BY <1>2, <2>1 DEF Passed
  <2>3. CASE Passed(c, "scan", n)
    BY <1>1, <1>2, <2>3 DEF MoveAt
  <2>4. CASE c = n
    <3>1. SUFFICES ASSUME Live(n) PROVE FALSE
      BY <2>4
    <3>2. /\ Enabled(n) /\ a.bar \in BarNums /\ a.value \in Targets[a.bar]
      BY <1>1, <2>4, <3>1 DEF MoveAt
    <3>3. Overlaps(n, a.value, Bars[a.bar].size)
      BY <1>2, <2>4, <3>2, EnabledOverlaps
    <3> QED BY <3>1, <3>3 DEF BarDone, WantedAt, TargetAt, ActivateAt, Loops
  <2> QED BY <2>2, <2>3, <2>4
<1>3. MoveAt("clear", "scan", n + 1, a)
  BY <1>1, <1>2 DEF MoveAt
<1>5. FlagsAt("clear", "scan", n + 1, a)
  BY <1>1, FlagsGoOn DEF WriteAt
<1> QED BY <1>3, <1>5 DEF WriteAt

\* The loop that turns on what the old place overlapped goes on to the next BAR.
LEMMA NextAgain ==
  ASSUME Footing, NEW n \in BarNums, NEW a, BarDone("again", n, a)
  PROVE  WriteAt("again", "scan", n + 1, a)
<1>1. WriteAt("again", "scan", n, a) /\ MoveAt("again", "scan", n, a)
  BY DEF BarDone, WriteAt
<1>2. ASSUME NEW c \in BarNums \ {a.bar}
      PROVE  (a.from = a.old /\ c >= n + 1 /\ Collide(a.bar, a.old, c)) \/ Covered(c)
  <2>1. c \in Int /\ n \in Int
    BY LenNat DEF BarNums
  <2>2. (a.from = a.old /\ c >= n /\ Collide(a.bar, a.old, c)) \/ Covered(c)
    BY <1>1 DEF MoveAt
  <2>3. CASE c # n
    BY <2>1, <2>2, <2>3
  <2>4. CASE c = n
    <3>1. SUFFICES ASSUME a.from = a.old, Collide(a.bar, a.old, n), Enabled(n) PROVE Covered(n)
      BY <2>2, <2>4 DEF Covered
    <3>2. /\ a.bar \in BarNums /\ a.old \in Targets[a.bar]
      BY <1>1 DEF MoveAt
    <3>3. Overlaps(n, a.from, Bars[a.bar].size)
      BY <2>4, <3>1, <3>2, EnabledOverlaps
    <3>4. Live(n)
      BY <3>3 DEF BarDone, WantedAt, TargetAt, ActivateAt, Loops
    <3> QED BY <3>4 DEF Covered
  <2> QED BY <2>3, <2>4
<1>3. MoveAt("again", "scan", n + 1, a)
  BY <1>1, <1>2 DEF MoveAt
<1>5. FlagsAt("again", "scan", n + 1, a)
  BY <1>1, FlagsGoOn DEF WriteAt
<1> QED BY <1>3, <1>5 DEF WriteAt

\* After `pci_deactivate_bar` the BARs over the new place have their turn.
LEMMA OffToClear ==
  ASSUME Footing, NEW n, NEW a, BarDone("off", n, a)
  PROVE  WriteAt("clear", "scan", 1, a)
<1>1. WriteAt("off", "scan", n, a) /\ MoveAt("off", "scan", n, a) /\ FlagsAt("off", "scan", n, a)
  BY DEF BarDone, WriteAt
<1>2. ~Live(a.bar) /\ a.bar \in BarNums
  BY DEF BarDone, WantedAt, TargetAt, ActivateAt, Loops
<1>3. ~active[a.bar]
  BY <1>1, <1>2 DEF FlagsAt
<1>4. \A c \in BarNums : ~Passed(c, "scan", 1)
  BY LenNat DEF Passed, BarNums
<1>5. MoveAt("clear", "scan", 1, a)
  BY <1>1, <1>3, <1>4 DEF MoveAt
<1>6. FlagsAt("clear", "scan", 1, a)
  BY <1>1, FlagsGoOn
<1> QED BY <1>5, <1>6 DEF WriteAt

\* After `pci_activate_bar` the BARs that overlapped the old place have their turn.
LEMMA OnToAgain ==
  ASSUME Footing, NEW n, NEW a, BarDone("on", n, a), NEW a2,
         a2.bar = a.bar, a2.value = a.value, a2.old = a.old, a2.from = a.old
  PROVE  WriteAt("again", "scan", 1, a2)
<1>1. WriteAt("on", "scan", n, a) /\ MoveAt("on", "scan", n, a) /\ FlagsAt("on", "scan", n, a)
  BY DEF BarDone, WriteAt
<1>2. Live(a.bar) /\ a.bar \in BarNums
  BY DEF BarDone, WantedAt, TargetAt, ActivateAt, Loops
<1>3. Covered(a.bar)
  BY <1>2 DEF Covered
<1>4. \A c \in BarNums : c >= 1
  BY LenNat DEF BarNums
<1>5. MoveAt("again", "scan", 1, a2)
  <2>1. /\ a2.bar \in BarNums /\ Enabled(a2.bar)
        /\ a2.value \in Targets[a2.bar] /\ a2.old \in Targets[a2.bar]
        /\ bar[a2.bar] = a2.value
        /\ a2.from \in {a2.old, a2.value} /\ Covered(a2.bar)
    BY <1>1, <1>3 DEF MoveAt
  <2>2. ASSUME NEW c \in BarNums \ {a2.bar}
        PROVE  /\ ~Enabled(c) /\ Homed(c) => ~Collide(a2.bar, a2.value, c) /\ ~Collide(a2.bar, a2.old, c)
               /\ Live(c) => Enabled(c)
               /\ (a2.from = a2.old /\ c >= 1 /\ Collide(a2.bar, a2.old, c)) \/ Covered(c)
    BY <1>1, <1>4 DEF MoveAt
  <2> QED BY <2>1, <2>2 DEF MoveAt
<1>6. FlagsAt("again", "scan", 1, a2)
  BY <1>1, FlagsGoOn
<1> QED BY <1>5, <1>6 DEF WriteAt

\* The last loop is over.
LEMMA AgainEnds ==
  ASSUME NEW n \in Int, NEW a, WriteAt("again", "scan", n, a), \A c \in BarNums : c < n
  PROVE  Settled
<1>1. MoveAt("again", "scan", n, a) /\ FlagsAt("again", "scan", n, a)
  BY DEF WriteAt
<1>2. ASSUME NEW b \in BarNums PROVE Covered(b) /\ (Live(b) => Enabled(b))
  <2>1. CASE b = a.bar
    BY <1>1, <2>1 DEF MoveAt
  <2>2. CASE b # a.bar
    <3>1. ~(b >= n)
      BY LenNat DEF BarNums
    <3> QED BY <1>1, <2>2, <3>1 DEF MoveAt
  <2> QED BY <2>1, <2>2
<1>3. \A b \in BarNums : active[b] <=> Live(b)
  BY <1>1 DEF FlagsAt
<1> QED BY <1>2, <1>3 DEF Settled

\* A step after which the BARs and their regions are what they were.
SameWorld ==
  UNCHANGED <<bar, active, command, spoiled>> /\ \A b \in BarNums : Live(b)' <=> Live(b)

\* What such a step keeps.
LEMMA SameBars ==
  ASSUME SameWorld
  PROVE  /\ \A b : Enabled(b)' <=> Enabled(b)
         /\ \A b : Homed(b)' <=> Homed(b)
         /\ \A b, e, c : Collide(b, e, c)' <=> Collide(b, e, c)
         /\ \A b, e, s : Overlaps(b, e, s)' <=> Overlaps(b, e, s)
         /\ \A b \in BarNums : Covered(b)' <=> Covered(b)
<1>1. bar' = bar /\ active' = active /\ command' = command /\ spoiled' = spoiled
      /\ \A b \in BarNums : Live(b)' <=> Live(b)
  BY DEF SameWorld
<1>2. \A b : Enabled(b)' <=> Enabled(b)
  BY <1>1 DEF Enabled
<1>3. \A b : Homed(b)' <=> Homed(b)
  BY <1>1 DEF Homed
<1>4. \A b, e, c : Collide(b, e, c)' <=> Collide(b, e, c)
  BY <1>1 DEF Collide, Meets, Region
<1>5. \A b, e, s : Overlaps(b, e, s)' <=> Overlaps(b, e, s)
  BY <1>1 DEF Overlaps
<1>6. ASSUME NEW b \in BarNums PROVE Covered(b)' <=> Covered(b)
  <2>1. \A c : Collide(b, bar[b], c)' <=> Collide(b, bar[b], c)
    BY <1>1 DEF Collide, Meets, Region
  <2> QED BY <1>1, <1>2, <2>1 DEF Covered
<1> QED BY <1>2, <1>3, <1>4, <1>5, <1>6

\* It keeps what is known of a write,
LEMMA SameWrite ==
  ASSUME SameWorld, NEW CONSTANT st, NEW CONSTANT sp, NEW CONSTANT n, NEW CONSTANT a,
         WriteAt(st, sp, n, a)
  PROVE  WriteAt(st, sp, n, a)'
<1>1. bar' = bar /\ active' = active /\ command' = command /\ spoiled' = spoiled
      /\ \A b \in BarNums : Live(b)' <=> Live(b)
  BY DEF SameWorld
<1>2. /\ \A b : Enabled(b)' <=> Enabled(b)
      /\ \A b : Homed(b)' <=> Homed(b)
      /\ \A b, e, c : Collide(b, e, c)' <=> Collide(b, e, c)
      /\ \A b \in BarNums : Covered(b)' <=> Covered(b)
  BY SameBars
<1>3. FlagsAt(st, sp, n, a)'
  BY <1>1 DEF WriteAt, FlagsAt, TargetAt, ActivateAt
<1>4. ASSUME sp # "scan" PROVE WantedAt(st, n, a)'
  BY <1>4, SameBars DEF WriteAt, WantedAt
<1>5. ASSUME st = "command" PROVE CommandAt(sp, n, a)'
  <2>1. CommandAt(sp, n, a)
    BY <1>5 DEF WriteAt
  <2>2. ASSUME NEW b \in Concerned(a)
        PROVE  b \in BarNums /\ \A c \in BarNums : Collide(b, bar[b], c)' <=> Collide(b, bar[b], c)
    BY <1>1 DEF Collide, Meets, Region, Concerned
  <2>3. ASSUME NEW b \in Concerned(a)
        PROVE  /\ Homed(b)'
               /\ \A c \in BarNums : ~Collide(b, bar[b], c)'
               /\ Passed(b, sp, n) /\ Bars[b].space \in a.spaces => Live(b)' \/ b \in spoiled'
               /\ Passed(b, sp, n) /\ Bars[b].space \notin a.spaces => ~Live(b)'
    BY <1>1, <1>2, <2>1, <2>2 DEF CommandAt
  <2>4. \A b \in BarNums \ Concerned(a) : (Live(b)' => Enabled(b)') /\ Covered(b)'
    BY <1>1, <1>2, <2>1 DEF CommandAt
  <2> QED BY <1>1, <2>1, <2>3, <2>4 DEF CommandAt, Concerned, Passed
<1>6. ASSUME st # "command" PROVE MoveAt(st, sp, n, a)'
  <2>1. MoveAt(st, sp, n, a)
    BY <1>6 DEF WriteAt
  <2> QED BY <1>1, <1>2, <2>1 DEF MoveAt, Passed
<1> QED BY <1>3, <1>4, <1>5, <1>6 DEF WriteAt

\* and what holds between writes.
LEMMA SameSettled ==
  ASSUME SameWorld, Settled
  PROVE  Settled'
<1>1. active' = active /\ \A b \in BarNums : Live(b)' <=> Live(b)
  BY DEF SameWorld
<1>2. /\ \A b : Enabled(b)' <=> Enabled(b)
      /\ \A b \in BarNums : Covered(b)' <=> Covered(b)
  BY SameBars
<1> QED BY <1>1, <1>2 DEF Settled

\* A step that changes no address and no command register.
LEMMA SameGround ==
  ASSUME UNCHANGED <<bar, command>>
  PROVE  /\ Decoded => Decoded'
         /\ DisabledApart => DisabledApart'
<1>1. bar' = bar /\ command' = command
  OBVIOUS
<1>2. /\ \A b : Enabled(b)' <=> Enabled(b)
      /\ \A b : Homed(b)' <=> Homed(b)
      /\ \A b, c : Collide(b, bar[b], c)' <=> Collide(b, bar[b], c)
  BY <1>1 DEF Enabled, Homed, Collide, Meets, Region
<1> QED BY <1>2 DEF Decoded, DisabledApart

\* The vCPU goes on to stage s, step p, counter n and arguments a.
Moved(v, s, p, n, a) ==
  /\ stage' = [stage EXCEPT ![v] = s]
  /\ step' = [step EXCEPT ![v] = p]
  /\ k' = [k EXCEPT ![v] = n]
  /\ args' = [args EXCEPT ![v] = a]

\* The vCPU that writes goes on, or ends its write.
LEMMA Arrives ==
  ASSUME BarsIInv, Orderly, PciInv', OwnRegions', Decoded', DisabledApart',
         NEW v \in Vcpus, \A w \in Vcpus \ {v} : stage[w] = "idle",
         NEW CONSTANT s, NEW CONSTANT p, NEW CONSTANT n, NEW CONSTANT a,
         Moved(v, s, p, n, a), s # "back",
         s # "idle" => WriteAt(s, p, n, a)',
         s = "idle" => Settled'
  PROVE  BarsIInv'
<1>1. stage \in [Vcpus -> Stages] /\ step \in [Vcpus -> {"scan", "call", "set"}]
      /\ DOMAIN k = Vcpus /\ DOMAIN args = Vcpus
  BY Parts DEF BarsIInv, WritesOK
<1>2. stage'[v] = s /\ step'[v] = p /\ k'[v] = n /\ args'[v] = a
  BY <1>1 DEF Moved
<1>3. \A w \in Vcpus \ {v} : stage'[w] = "idle"
  BY <1>1 DEF Moved
<1>4. OneWriter'
  BY <1>2, <1>3 DEF OneWriter
<1>5. Quiet' => Settled'
  BY <1>2 DEF Quiet
<1>6. ASSUME NEW w \in Vcpus, stage'[w] # "idle"
      PROVE  stage'[w] # "back" /\ WriteAt(stage[w], step[w], k[w], args[w])'
  <2>1. w = v
    BY <1>3, <1>6
  <2>2. WriteAt(s, p, n, a)' /\ s # "back"
    BY <1>2, <1>6, <2>1
  <2> QED BY <1>2, <2>1, <2>2
<1> QED BY <1>3, <1>4, <1>5, <1>6 DEF BarsIInv

\* A step that is not of a write.
LEMMA Rests ==
  ASSUME BarsIInv, PciInv', Orderly => OwnRegions', SameWorld, UNCHANGED writeVars
  PROVE  BarsIInv'
<1> SUFFICES ASSUME Orderly
             PROVE  /\ OneWriter' /\ OwnRegions' /\ Decoded' /\ DisabledApart'
                    /\ Quiet' => Settled'
                    /\ \A v \in Vcpus :
                         /\ stage'[v] # "back"
                         /\ stage'[v] # "idle" => WriteAt(stage[v], step[v], k[v], args[v])'
  BY DEF BarsIInv
<1>1. stage' = stage /\ step' = step /\ k' = k /\ args' = args
  BY DEF writeVars
<1>2. OneWriter' /\ (Quiet' <=> Quiet)
  BY <1>1 DEF BarsIInv, OneWriter, Quiet
<1>3. Decoded' /\ DisabledApart'
  BY SameGround DEF BarsIInv, SameWorld
<1>4. Quiet' => Settled'
  BY <1>2, SameSettled DEF BarsIInv
<1>5. ASSUME NEW v \in Vcpus, stage[v] # "idle"
      PROVE  WriteAt(stage[v], step[v], k[v], args[v])'
  <2>1. PICK s, p, n, a : s = stage[v] /\ p = step[v] /\ n = k[v] /\ a = args[v]
    OBVIOUS
  <2>2. WriteAt(s, p, n, a)
    BY <1>5, <2>1 DEF BarsIInv
  <2>3. WriteAt(s, p, n, a)'
    BY <2>2, SameWrite
  <2>4. s = stage'[v] /\ p = step'[v] /\ n = k'[v] /\ a = args'[v]
    BY <1>1, <2>1
  <2> QED BY <2>3, <2>4
<1> QED BY <1>1, <1>2, <1>3, <1>4, <1>5 DEF BarsIInv

\* A step after which the same regions are there that were not removed.
LEMMA SameRegions ==
  ASSUME UNCHANGED bar, tree' \ removed' = tree \ removed
  PROVE  /\ \A b : Live(b)' <=> Live(b)
         /\ OwnRegions => OwnRegions'
<1>1. bar' = bar
  OBVIOUS
<1>2. \A b : Live(b)' <=> Live(b)
  BY <1>1 DEF Live, Region
<1>3. OwnRegions => OwnRegions'
  BY <1>1 DEF OwnRegions, Region
<1> QED BY <1>2, <1>3

\* Accesses of other vCPUs change no region but removed ones.
LEMMA AccessSettles ==
  ASSUME BarsIInv, NEW v \in Vcpus, Access(v) \/ Return(v)
  PROVE  BarsIInv'
<1>1. PciInv'
  BY AccessKeeps DEF BarsIInv
<1>2. tree' \ removed' = tree \ removed
  BY DEF Access, Return, Get, Put, GoesWithUser
<1>3. UNCHANGED <<bar, active, command, spoiled>> /\ UNCHANGED writeVars
  BY DEF Access, Return, barVars
<1>4. bar' = bar
  BY <1>3
<1>5. SameWorld /\ (OwnRegions => OwnRegions')
  BY <1>2, <1>3, <1>4, SameRegions DEF SameWorld
<1> QED BY <1>1, <1>3, <1>5, Rests DEF BarsIInv

\* The BAR at hand, what becomes of it and whether the loop works on it are functions
\* of where the write is.
LEMMA AtHand ==
  ASSUME NEW v
  PROVE  /\ Target(v) = TargetAt(stage[v], k[v], args[v])
         /\ Activate(v) <=> ActivateAt(stage[v], k[v], args[v])
         /\ Wanted(v) <=> WantedAt(stage[v], k[v], args[v])
<1>1. Target(v) = TargetAt(stage[v], k[v], args[v])
  BY DEF Target, TargetAt
<1>2. Activate(v) <=> ActivateAt(stage[v], k[v], args[v])
  BY <1>1 DEF Activate, ActivateAt
<1>3. Wanted(v) <=> WantedAt(stage[v], k[v], args[v])
  BY DEF Wanted, WantedAt
<1> QED BY <1>1, <1>2, <1>3

\* The vCPU that writes is the only one that does.
LEMMA Writer ==
  ASSUME BarsIInv, Orderly, NEW v \in Vcpus, stage[v] # "idle"
  PROVE  /\ WriteAt(stage[v], step[v], k[v], args[v])
         /\ stage[v] # "back"
         /\ \A w \in Vcpus \ {v} : stage[w] = "idle"
         /\ Footing
BY Parts DEF BarsIInv, OneWriter, Orderly, Footing

\* Where a write goes when the BAR at hand is dealt with.
ComesAfter(st, n, a, s2, n2, a2) ==
  \/ st \in Loops /\ s2 = st /\ n2 = n + 1 /\ a2 = a
  \/ st = "off" /\ s2 = "clear" /\ n2 = 1 /\ a2 = a
  \/ /\ st = "on" /\ s2 = "again" /\ n2 = 1
     /\ a2.bar = a.bar /\ a2.value = a.value /\ a2.old = a.old /\ a2.from = a.old

\* It goes there.
LEMMA SucceedFollows ==
  ASSUME WritesOK, NEW v \in Vcpus, stage[v] \notin {"idle", "back"}, Succeed(v)
  PROVE  \E s, n, a : ComesAfter(stage[v], k[v], args[v], s, n, a) /\ Moved(v, s, "scan", n, a) /\ s \notin {"idle", "back"}
<1>1. stage[v] \in Stages /\ args[v] \in Writes /\ DOMAIN stage = Vcpus /\ DOMAIN args = Vcpus
      /\ stage = [stage EXCEPT ![v] = stage[v]] /\ args = [args EXCEPT ![v] = args[v]]
  BY DEF WritesOK
<1>2. CASE stage[v] \in Loops
  <2>1. NextBar(v)
    BY <1>2 DEF Succeed, Loops
  <2>2. Moved(v, stage[v], "scan", k[v] + 1, args[v])
    BY <1>1, <2>1 DEF NextBar, Moved
  <2> QED BY <1>2, <2>2 DEF ComesAfter, Loops
<1>3. CASE stage[v] = "off"
  <2>1. Goto(v, "clear", args[v])
    BY <1>3 DEF Succeed, Loops
  <2>2. Moved(v, "clear", "scan", 1, args[v])
    BY <2>1 DEF Goto, Moved
  <2> QED BY <1>3, <2>2 DEF ComesAfter, Loops
<1>4. CASE stage[v] = "on"
  <2>1. PICK a : a = [args[v] EXCEPT !.from = args[v].old]
    OBVIOUS
  <2>2. Goto(v, "again", a)
    BY <1>4, <2>1 DEF Succeed, Loops
  <2>3. Moved(v, "again", "scan", 1, a)
    BY <2>2 DEF Goto, Moved
  <2>4. a.bar = args[v].bar /\ a.value = args[v].value /\ a.old = args[v].old /\ a.from = args[v].old
    BY <1>1, <2>1 DEF Writes
  <2> QED BY <1>4, <2>3, <2>4 DEF ComesAfter, Loops
<1> QED BY <1>1, <1>2, <1>3, <1>4 DEF Stages, Loops

\* What is known of the write carries over.
LEMMA GoesOn ==
  ASSUME Footing, NEW st, NEW n, NEW a, NEW s2, NEW n2, NEW a2,
         BarDone(st, n, a), ComesAfter(st, n, a, s2, n2, a2)
  PROVE  WriteAt(s2, "scan", n2, a2)
<1>1. CASE st \in Loops /\ s2 = st /\ n2 = n + 1 /\ a2 = a
  <2>1. n \in BarNums
    BY <1>1 DEF BarDone, TargetAt
  <2> QED BY <1>1, <2>1, NextCommand, NextClear, NextAgain DEF Loops
<1>2. CASE st = "off" /\ s2 = "clear" /\ n2 = 1 /\ a2 = a
  BY <1>2, OffToClear
<1>3. CASE /\ st = "on" /\ s2 = "again" /\ n2 = 1
           /\ a2.bar = a.bar /\ a2.value = a.value /\ a2.old = a.old /\ a2.from = a.old
  BY <1>3, OnToAgain
<1> QED BY <1>1, <1>2, <1>3 DEF ComesAfter

\* The same in the next state.
LEMMA GoesOnThen ==
  ASSUME NEW CONSTANT st, NEW CONSTANT n, NEW CONSTANT a,
         NEW CONSTANT s2, NEW CONSTANT n2, NEW CONSTANT a2
  PROVE  Footing' /\ BarDone(st, n, a)' /\ ComesAfter(st, n, a, s2, n2, a2)' => WriteAt(s2, "scan", n2, a2)'
<1>1. Footing /\ BarDone(st, n, a) /\ ComesAfter(st, n, a, s2, n2, a2) => WriteAt(s2, "scan", n2, a2)
  BY GoesOn
<1> QED BY <1>1, PTL

\* The next BAR is looked at.
LEMMA ScanSettles ==
  ASSUME BarsIInv, PciInv', NEW v \in Vcpus, Scan(v)
  PROVE  BarsIInv'
<1> SUFFICES ASSUME Orderly PROVE BarsIInv'
  BY DEF BarsIInv
<1>1. /\ BusInv /\ BarsOK /\ WritesOK
      /\ stage[v] # "idle" /\ step[v] = "scan" /\ k[v] <= Len(Bars)
      /\ UNCHANGED <<tree, removed>> /\ UNCHANGED <<bar, active, command, spoiled>>
  BY Parts DEF BarsIInv, Scan, vars, barVars
<1>2. SameWorld /\ OwnRegions' /\ Decoded' /\ DisabledApart'
  <2>1. bar' = bar /\ tree' \ removed' = tree \ removed
    BY <1>1
  <2> QED BY <1>1, <2>1, SameRegions, SameGround DEF SameWorld, BarsIInv
<1>3. PICK st, n, a : st = stage[v] /\ n = k[v] /\ a = args[v]
  OBVIOUS
<1>4. /\ WriteAt(st, "scan", n, a) /\ st \notin {"idle", "back"}
      /\ \A w \in Vcpus \ {v} : stage[w] = "idle"
      /\ Footing
  BY <1>1, <1>3, Writer
<1>5. /\ TargetAt(st, n, a) \in BarNums /\ Target(v) = TargetAt(st, n, a)
      /\ Activate(v) <=> ActivateAt(st, n, a)
      /\ Wanted(v) <=> WantedAt(st, n, a)
  BY <1>1, <1>3, AtHand, TargetOK
<1>6. active[TargetAt(st, n, a)] \in BOOLEAN /\ Activate(v) \in BOOLEAN
  BY <1>1, <1>5 DEF BarsOK, Activate
<1>7. CASE /\ Wanted(v) /\ active[Target(v)] # Activate(v)
           /\ step' = [step EXCEPT ![v] = "call"]
           /\ UNCHANGED <<stage, k, args>>
  <2>1. Moved(v, st, "call", n, a)
    BY <1>1, <1>3, <1>7 DEF Moved, WritesOK
  <2>2. active[TargetAt(st, n, a)] <=> ~ActivateAt(st, n, a)
    BY <1>5, <1>6, <1>7
  <2>3. FlagsAt(st, "call", n, a)
    BY <1>4, <2>2 DEF WriteAt, FlagsAt
  <2>4. \A c : Passed(c, "call", n) <=> Passed(c, "scan", n)
    BY DEF Passed
  <2>5. st = "command" => CommandAt("call", n, a)
    BY <1>4, <2>4 DEF WriteAt, CommandAt
  <2>6. st # "command" => MoveAt(st, "call", n, a)
    BY <1>4, <2>4 DEF WriteAt, MoveAt
  <2>7. WriteAt(st, "call", n, a)
    BY <1>5, <1>7, <2>3, <2>5, <2>6 DEF WriteAt
  <2>8. WriteAt(st, "call", n, a)'
    BY <1>2, <2>7, SameWrite
  <2> QED BY <1>2, <1>4, <2>1, <2>8, Arrives
<1>8. CASE /\ Wanted(v) => active[Target(v)] = Activate(v)
           /\ Succeed(v)
  <2>1. WantedAt(st, n, a) => (Live(TargetAt(st, n, a)) <=> ActivateAt(st, n, a))
    <3>1. active[TargetAt(st, n, a)] <=> Live(TargetAt(st, n, a))
      BY <1>4, <1>5 DEF WriteAt, FlagsAt
    <3> QED BY <1>5, <1>6, <1>8, <3>1
  <2>2. BarDone(st, n, a)
    BY <1>4, <1>5, <2>1 DEF BarDone
  <2>3. PICK s2, n2, a2 : ComesAfter(st, n, a, s2, n2, a2) /\ Moved(v, s2, "scan", n2, a2) /\ s2 \notin {"idle", "back"}
    BY <1>1, <1>3, <1>4, <1>8, SucceedFollows
  <2>4. WriteAt(s2, "scan", n2, a2)
    BY <1>4, <2>2, <2>3, GoesOn
  <2>5. WriteAt(s2, "scan", n2, a2)'
    BY <1>2, <2>4, SameWrite
  <2> QED BY <1>2, <1>4, <2>3, <2>5, Arrives
<1> QED BY <1>7, <1>8 DEF Scan

\* The flag of the BAR at hand is set.
LEMMA SetDone ==
  ASSUME BarsOK, NEW CONSTANT st, NEW CONSTANT n, NEW CONSTANT a,
         WriteAt(st, "set", n, a), TargetAt(st, n, a) \in BarNums, n \in Int,
         active' = [active EXCEPT ![TargetAt(st, n, a)] = ActivateAt(st, n, a)],
         spoiled' = {c \in spoiled : ActivateAt(st, n, a) => c # TargetAt(st, n, a)},
         UNCHANGED <<bar, command>>, \A b : Live(b)' <=> Live(b)
  PROVE  BarDone(st, n, a)'
<1>1. PICK t, on : t = TargetAt(st, n, a) /\ on = ActivateAt(st, n, a)
  OBVIOUS
<1>2. /\ t \in BarNums /\ on \in BOOLEAN
      /\ TargetAt(st, n, a)' = t /\ (ActivateAt(st, n, a)' <=> on)
  BY <1>1 DEF TargetAt, ActivateAt
<1>3. /\ \A b \in BarNums : active'[b] = IF b = t THEN on ELSE active[b]
      /\ \A b : b \in spoiled' <=> b \in spoiled /\ (on => b # t)
      /\ bar' = bar /\ command' = command
  BY <1>1, <1>2 DEF BarsOK
<1>4. /\ \A b \in BarNums : b # t => (active[b] <=> Live(b))
      /\ active[t] <=> ~on
      /\ Live(t) <=> on
  BY <1>1, <1>2 DEF WriteAt, FlagsAt
<1>5. /\ \A b : Enabled(b)' <=> Enabled(b)
      /\ \A b : Homed(b)' <=> Homed(b)
      /\ \A b, e, c : Collide(b, e, c)' <=> Collide(b, e, c)
      /\ \A b, c : Collide(b, bar[b], c)' <=> Collide(b, bar[b], c)
  BY <1>3 DEF Enabled, Homed, Collide, Meets, Region
<1>6. \A b \in BarNums : Covered(b) => Covered(b)'
  <2> SUFFICES ASSUME NEW b \in BarNums, Covered(b), Enabled(b)', ~Live(b)', b \notin spoiled'
               PROVE  \E c \in BarNums : Enabled(c)' /\ Collide(b, bar[b], c)'
    BY DEF Covered
  <2>1. Enabled(b) /\ ~Live(b) /\ b \notin spoiled
    BY <1>3, <1>4, <1>5
  <2> QED BY <1>5, <2>1 DEF Covered
<1>7. FlagsAt(st, "scan", n, a)'
  <2>1. \A b \in BarNums : active'[b] <=> Live(b)'
    BY <1>3, <1>4
  <2> QED BY <2>1 DEF FlagsAt
<1>8. ASSUME NEW c \in BarNums, Passed(c, "scan", n) PROVE Passed(c, "set", n)
  BY <1>8 DEF Passed
<1>9. ASSUME st = "command" PROVE CommandAt("scan", n, a)'
  <2>1. CommandAt("set", n, a)
    BY <1>9 DEF WriteAt
  <2>2. ASSUME NEW b \in Concerned(a)
        PROVE  /\ Homed(b)'
               /\ \A c \in BarNums : ~Collide(b, bar[b], c)'
               /\ Passed(b, "scan", n) /\ Bars[b].space \in a.spaces => Live(b)' \/ b \in spoiled'
               /\ Passed(b, "scan", n) /\ Bars[b].space \notin a.spaces => ~Live(b)'
    <3>1. b \in BarNums
      BY DEF Concerned
    <3> QED BY <1>3, <1>4, <1>5, <1>8, <2>1, <3>1 DEF CommandAt
  <2>3. \A b \in BarNums \ Concerned(a) : (Live(b)' => Enabled(b)') /\ Covered(b)'
    BY <1>5, <1>6, <2>1 DEF CommandAt
  <2> QED BY <1>3, <2>1, <2>2, <2>3 DEF CommandAt, Concerned, Passed
<1>10. ASSUME st # "command" PROVE MoveAt(st, "scan", n, a)'
  <2>1. MoveAt(st, "set", n, a)
    BY <1>10 DEF WriteAt
  <2>2. st = "clear" => ~active'[a.bar]
    <3> SUFFICES ASSUME st = "clear" PROVE ~active'[a.bar]
      OBVIOUS
    <3>1. ~active[a.bar] /\ ~on /\ a.bar \in BarNums
      BY <1>2, <2>1 DEF MoveAt, ActivateAt
    <3> QED BY <1>3, <3>1
  <2> QED BY <1>3, <1>5, <1>6, <1>8, <2>1, <2>2 DEF MoveAt, Passed
<1>11. WriteAt(st, "scan", n, a)'
  BY <1>7, <1>9, <1>10 DEF WriteAt
<1> QED BY <1>2, <1>4, <1>11 DEF BarDone

\* `pci_hdr->bar_active[bar_num] = true` or `= false`.
LEMMA SetSettles ==
  ASSUME BarsIInv, PciInv', NEW v \in Vcpus, SetActive(v)
  PROVE  BarsIInv'
<1> SUFFICES ASSUME Orderly PROVE BarsIInv'
  BY DEF BarsIInv
<1>1. /\ BusInv /\ BarsOK /\ WritesOK
      /\ step[v] = "set" /\ stage[v] # "idle" /\ k[v] <= Len(Bars)
      /\ tree' = tree /\ removed' = removed /\ UNCHANGED <<bar, command>> /\ bar' = bar
  BY Parts DEF BarsIInv, SetActive, vars, WritesOK
<1>2. tree' \ removed' = tree \ removed
  BY <1>1
<1>3. (\A b : Live(b)' <=> Live(b)) /\ OwnRegions' /\ Decoded' /\ DisabledApart'
  BY <1>1, <1>2, SameRegions, SameGround DEF BarsIInv
<1>4. PICK st, n, a : st = stage[v] /\ n = k[v] /\ a = args[v]
  OBVIOUS
<1>5. /\ WriteAt(st, "set", n, a) /\ st \notin {"idle", "back"} /\ n \in Int
      /\ \A w \in Vcpus \ {v} : stage[w] = "idle"
  BY <1>1, <1>4, Writer, LenNat DEF WritesOK
<1>6. /\ TargetAt(st, n, a) \in BarNums /\ Target(v) = TargetAt(st, n, a)
      /\ Activate(v) <=> ActivateAt(st, n, a)
  BY <1>1, <1>4, AtHand, TargetOK
<1>7. /\ active' = [active EXCEPT ![TargetAt(st, n, a)] = ActivateAt(st, n, a)]
      /\ spoiled' = {c \in spoiled : ActivateAt(st, n, a) => c # TargetAt(st, n, a)}
      /\ Succeed(v)
  <2>1. Activate(v) = ActivateAt(st, n, a)
    BY <1>6 DEF Activate, ActivateAt
  <2>2. PICK act, t : act = Activate(v) /\ t = Target(v)
    OBVIOUS
  <2>3. /\ active' = [active EXCEPT ![t] = act] /\ spoiled' = {c \in spoiled : act => c # t}
        /\ Succeed(v)
    BY <2>2 DEF SetActive, FlagAfter
  <2> QED BY <1>6, <2>1, <2>2, <2>3
<1>8. BarDone(st, n, a)'
  BY <1>1, <1>3, <1>5, <1>6, <1>7, SetDone
<1>9. PICK s2, n2, a2 : ComesAfter(st, n, a, s2, n2, a2) /\ Moved(v, s2, "scan", n2, a2) /\ s2 \notin {"idle", "back"}
  BY <1>1, <1>4, <1>5, <1>7, SucceedFollows
<1>10. ComesAfter(st, n, a, s2, n2, a2)'
  BY <1>9 DEF ComesAfter
<1>11. Footing'
  <2>1. BarsOK'
    BY Parts, PTL
  <2> QED BY <1>3, <2>1 DEF Footing, Orderly, WindowsApart
<1>12. WriteAt(s2, "scan", n2, a2)'
  BY <1>8, <1>10, <1>11, GoesOnThen
<1> QED BY <1>3, <1>5, <1>9, <1>12, Arrives

\* The command register takes its new value.
LEMMA CommandEnds ==
  ASSUME Footing, NEW n \in Int, NEW a, WriteAt("command", "scan", n, a),
         \A c \in BarNums : c < n,
         command' = [command EXCEPT ![a.dev] = a.spaces],
         UNCHANGED <<bar, active, spoiled>>, \A b : Live(b)' <=> Live(b)
  PROVE  Settled' /\ Decoded' /\ DisabledApart'
<1>1. CommandAt("scan", n, a) /\ FlagsAt("command", "scan", n, a)
  BY DEF WriteAt
<1>2. bar' = bar /\ active' = active /\ spoiled' = spoiled
  OBVIOUS
<1>3. \A b \in BarNums : Passed(b, "scan", n)
  BY DEF Passed
<1>4. ASSUME NEW b \in Concerned(a)
      PROVE  /\ b \in BarNums /\ Homed(b) /\ (Enabled(b)' <=> Bars[b].space \in a.spaces)
             /\ \A c \in BarNums : ~Collide(b, bar[b], c)
             /\ Bars[b].space \in a.spaces => Live(b) \/ b \in spoiled
             /\ Bars[b].space \notin a.spaces => ~Live(b)
  <2>1. b \in BarNums /\ Bars[b].dev = a.dev /\ a.dev \in Devs
    BY <1>1 DEF Concerned, CommandAt
  <2>2. Enabled(b)' <=> Bars[b].space \in a.spaces
    BY <2>1 DEF Enabled, Footing, BarsOK
  <2> QED BY <1>1, <1>3, <2>1, <2>2 DEF CommandAt
<1>5. ASSUME NEW b \in BarNums \ Concerned(a)
      PROVE  Enabled(b)' <=> Enabled(b)
  <2>1. Bars[b].dev \in Devs
    BY DEF Devs
  <2>2. CASE Bars[b].dev # a.dev
    BY <2>1, <2>2 DEF Enabled, Footing, BarsOK
  <2>3. CASE Bars[b].dev = a.dev
    <3>1. Bars[b].space \notin (command[a.dev] \ a.spaces) \cup (a.spaces \ command[a.dev])
      BY <1>1, <2>3 DEF CommandAt, Concerned
    <3>2. Enabled(b)' <=> Bars[b].space \in a.spaces
      BY <2>1, <2>3 DEF Enabled, Footing, BarsOK
    <3> QED BY <2>3, <3>1, <3>2 DEF Enabled
  <2> QED BY <2>2, <2>3
<1>6. \A b, c : Collide(b, bar[b], c)' <=> Collide(b, bar[b], c)
  BY <1>2 DEF Collide, Meets, Region
<1>7. \A b : Homed(b)' <=> Homed(b)
  BY <1>2 DEF Homed
<1>8. Settled'
  <2> SUFFICES ASSUME NEW b \in BarNums
               PROVE  (active'[b] <=> Live(b)') /\ (Live(b)' => Enabled(b)') /\ Covered(b)'
    BY DEF Settled
  <2>1. active'[b] <=> Live(b)'
    BY <1>1, <1>2 DEF FlagsAt
  <2>2. CASE b \in Concerned(a)
    BY <1>2, <1>4, <2>1, <2>2 DEF Covered
  <2>3. CASE b \notin Concerned(a)
    <3>1. (Live(b) => Enabled(b)) /\ Covered(b)
      BY <1>1, <2>3 DEF CommandAt
    <3>2. ASSUME Enabled(b)', ~Live(b)', b \notin spoiled'
          PROVE  \E c \in BarNums : Enabled(c)' /\ Collide(b, bar[b], c)'
      <4>1. PICK c \in BarNums : Enabled(c) /\ Collide(b, bar[b], c)
        BY <1>2, <1>5, <2>3, <3>1, <3>2 DEF Covered
      <4>2. c \notin Concerned(a)
        BY <1>4, <4>1, CollideBack
      <4> QED BY <1>5, <1>6, <4>1, <4>2
    <3> QED BY <1>5, <2>1, <2>3, <3>1, <3>2 DEF Covered
  <2> QED BY <2>2, <2>3
<1>9. Decoded'
  BY <1>4, <1>5, <1>7 DEF Footing, Decoded
<1>10. DisabledApart'
  BY <1>4, <1>5, <1>6, <1>7 DEF Footing, DisabledApart
<1> QED BY <1>8, <1>9, <1>10

\* The BAR takes its new address; its region has gone, and so have those that it
\* will overlap.
LEMMA ClearEnds ==
  ASSUME Footing, OwnRegions, NEW CONSTANT n, n \in Int, NEW CONSTANT a, WriteAt("clear", "scan", n, a),
         \A c \in BarNums : c < n,
         bar' = [bar EXCEPT ![a.bar] = a.value],
         UNCHANGED <<command, active, spoiled>>, tree' \ removed' = tree \ removed
  PROVE  WriteAt("on", "scan", 1, a)' /\ OwnRegions' /\ Decoded' /\ DisabledApart'
<1>1. MoveAt("clear", "scan", n, a) /\ FlagsAt("clear", "scan", n, a)
  BY DEF WriteAt
<1>2. PICK m, x, y : m = a.bar /\ x = a.old /\ y = a.value
  OBVIOUS
<1>3. /\ m \in BarNums /\ x \in Targets[m] /\ y \in Targets[m] /\ bar[m] = x /\ Enabled(m)
      /\ ~active[m] /\ ~Live(m)
  BY <1>1, <1>2 DEF MoveAt, FlagsAt
<1>4. ASSUME NEW c \in BarNums, c # m
      PROVE  /\ ~Enabled(c) /\ Homed(c) => ~Collide(m, y, c) /\ ~Collide(m, x, c)
             /\ Live(c) => Enabled(c)
             /\ Collide(m, y, c) \/ Covered(c)
             /\ Collide(m, y, c) => ~Live(c)
             /\ active[c] <=> Live(c)
  <2>1. Passed(c, "scan", n)
    BY DEF Passed
  <2> QED BY <1>1, <1>2, <1>4, <2>1 DEF MoveAt, FlagsAt
<1>5. /\ bar'[m] = y /\ \A c \in BarNums : c # m => bar'[c] = bar[c]
      /\ command' = command /\ active' = active /\ spoiled' = spoiled
  BY <1>2, <1>3 DEF Footing, BarsOK
<1>6. OwnRegions' /\ \A c \in BarNums : Live(c)' <=> c # m /\ Live(c)
  <2>1. \A r \in tree \ removed : r.owner \in BarNums /\ r = Region(r.owner, bar[r.owner]) /\ r.owner # m
    BY <1>3 DEF OwnRegions, Live
  <2>2. OwnRegions'
    BY <1>5, <2>1 DEF OwnRegions, Region
  <2>3. ~Live(m)'
    <3>1. Region(m, y).owner = m
      BY DEF Region
    <3>2. Region(m, y) \notin tree' \ removed'
      BY <2>1, <3>1
    <3> QED BY <1>5, <3>2 DEF Live, Region
  <2>4. ASSUME NEW c \in BarNums, c # m PROVE Live(c)' <=> Live(c)
    BY <1>5, <2>4 DEF Live, Region
  <2> QED BY <2>2, <2>3, <2>4
<1>7. /\ \A b : Enabled(b)' <=> Enabled(b)
      /\ \A b \in BarNums : b # m => (Homed(b)' <=> Homed(b))
      /\ Homed(m)'
      /\ \A e, c : c \in BarNums /\ c # m => (Collide(m, e, c)' <=> Collide(m, e, c))
  BY <1>3, <1>5 DEF Enabled, Homed, Collide, Meets, Region
<1>8. \A b, c \in BarNums : b # m /\ c # m => (Collide(b, bar[b], c)' <=> Collide(b, bar[b], c))
  BY <1>5 DEF Collide, Meets, Region
<1>9. \A c \in BarNums : c # m => (Collide(c, bar[c], m)' <=> Collide(m, y, c))
  BY <1>5 DEF Collide, Meets, Region
<1>10. \A c \in BarNums : c # m => (Collide(c, bar[c], m) <=> Collide(m, x, c))
  BY <1>3 DEF Collide, Meets, Region
<1>11. ASSUME NEW c \in BarNums, c # m
       PROVE  Collide(m, x, c) \/ Covered(c)'
  <2> SUFFICES ASSUME ~Collide(m, x, c), Enabled(c)', ~Live(c)', c \notin spoiled'
               PROVE  \E d \in BarNums : Enabled(d)' /\ Collide(c, bar[c], d)'
    BY DEF Covered
  <2>1. CASE Collide(m, y, c)
    BY <1>3, <1>7, <1>9, <1>11, <2>1
  <2>2. CASE ~Collide(m, y, c)
    <3>1. Covered(c) /\ Enabled(c) /\ ~Live(c) /\ c \notin spoiled
      BY <1>4, <1>5, <1>6, <1>7, <1>11, <2>2
    <3>2. PICK d \in BarNums : Enabled(d) /\ Collide(c, bar[c], d)
      BY <3>1 DEF Covered
    <3>3. d # m
      BY <1>10, <1>11, <3>2
    <3> QED BY <1>7, <1>8, <1>11, <3>2, <3>3
  <2> QED BY <2>1, <2>2
<1>12. MoveAt("on", "scan", 1, a)'
  <2>1. ASSUME NEW c \in BarNums \ {a.bar}
        PROVE  /\ ~Enabled(c)' /\ Homed(c)' => ~Collide(a.bar, a.value, c)' /\ ~Collide(a.bar, a.old, c)'
               /\ Live(c)' => Enabled(c)'
               /\ Collide(a.bar, a.old, c)' \/ Covered(c)'
               /\ Collide(a.bar, a.value, c)' => ~Live(c)'
    BY <1>2, <1>4, <1>6, <1>7, <1>11
  <2> QED BY <1>2, <1>3, <1>5, <1>7, <2>1 DEF MoveAt
<1>13. FlagsAt("on", "scan", 1, a)'
  <2>1. \A c \in BarNums : active'[c] <=> Live(c)'
    BY <1>3, <1>4, <1>5, <1>6
  <2> QED BY <2>1 DEF FlagsAt
<1>14. Decoded'
  BY <1>7 DEF Footing, Decoded
<1>15. DisabledApart'
  <2> SUFFICES ASSUME NEW b \in BarNums, NEW c \in BarNums, ~Enabled(b)', Homed(b)', Homed(c)'
               PROVE  ~Collide(b, bar[b], c)'
    BY DEF DisabledApart
  <2>1. b # m /\ ~Enabled(b) /\ Homed(b)
    BY <1>3, <1>7
  <2>2. CASE c = m
    BY <1>4, <1>9, <2>1, <2>2
  <2>3. CASE c # m
    BY <1>7, <1>8, <2>1, <2>3 DEF Footing, DisabledApart
  <2> QED BY <2>2, <2>3
<1> QED BY <1>6, <1>12, <1>13, <1>14, <1>15 DEF WriteAt

\* What follows a loop.
LEMMA EndSettles ==
  ASSUME BarsIInv, PciInv', NEW v \in Vcpus, EndLoop(v)
  PROVE  BarsIInv'
<1> SUFFICES ASSUME Orderly PROVE BarsIInv'
  BY DEF BarsIInv
<1>1. /\ BusInv /\ BarsOK /\ WritesOK
      /\ step[v] = "scan" /\ stage[v] \in Loops /\ k[v] > Len(Bars)
      /\ tree' = tree /\ removed' = removed /\ UNCHANGED <<active, spoiled>>
  BY Parts DEF BarsIInv, EndLoop, vars
<1>2. PICK st, n, a : st = stage[v] /\ n = k[v] /\ a = args[v]
  OBVIOUS
<1>3. st \in Loops /\ st # "idle" /\ n \in Int /\ (\A c \in BarNums : c < n) /\ a \in Writes
  BY <1>1, <1>2, LenNat DEF WritesOK, BarNums, Loops
<1>4. /\ WriteAt(st, "scan", n, a)
      /\ \A w \in Vcpus \ {v} : stage[w] = "idle"
      /\ Footing /\ OwnRegions
  BY <1>1, <1>2, <1>3, Writer DEF BarsIInv
<1>5. tree' \ removed' = tree \ removed
  BY <1>1
<1>6. CASE /\ stage[v] = "clear"
           /\ bar' = [bar EXCEPT ![args[v].bar] = args[v].value]
           /\ Goto(v, "on", args[v])
           /\ UNCHANGED command
  <2>1. Moved(v, "on", "scan", 1, a)
    BY <1>2, <1>6 DEF Goto, Moved
  <2>2. UNCHANGED <<command, active, spoiled>> /\ bar' = [bar EXCEPT ![a.bar] = a.value]
    BY <1>1, <1>2, <1>6
  <2>3. WriteAt("clear", "scan", n, a)
    BY <1>2, <1>4, <1>6
  <2>4. WriteAt("on", "scan", 1, a)' /\ OwnRegions' /\ Decoded' /\ DisabledApart'
    BY <1>3, <1>4, <1>5, <2>2, <2>3, ClearEnds
  <2> QED BY <1>4, <2>1, <2>4, Arrives
<1>7. CASE bar' = bar /\ stage[v] \in {"again", "command"} /\ Goto(v, "idle", NoArgs)
  <2>1. (\A b : Live(b)' <=> Live(b)) /\ OwnRegions'
    BY <1>4, <1>5, <1>7, SameRegions
  <2>2. PICK b : b = NoArgs
    OBVIOUS
  <2>3. Moved(v, "idle", "scan", 1, b)
    BY <1>7, <2>2 DEF Goto, Moved
  <2>4. CASE stage[v] = "again" /\ UNCHANGED command
    <3>1. Settled
      BY <1>2, <1>3, <1>4, <2>4, AgainEnds
    <3>2. UNCHANGED <<bar, command>> /\ SameWorld
      BY <1>1, <1>7, <2>1, <2>4 DEF SameWorld
    <3>3. Settled' /\ Decoded' /\ DisabledApart'
      BY <1>4, <3>1, <3>2, SameSettled, SameGround DEF Footing
    <3> QED BY <1>4, <2>1, <2>3, <3>3, Arrives
  <2>5. CASE stage[v] = "command" /\ command' = [command EXCEPT ![args[v].dev] = args[v].spaces]
    <3>1. UNCHANGED <<bar, active, spoiled>> /\ command' = [command EXCEPT ![a.dev] = a.spaces]
          /\ WriteAt("command", "scan", n, a)
      BY <1>1, <1>2, <1>4, <1>7, <2>5
    <3>2. Settled' /\ Decoded' /\ DisabledApart'
      BY <1>3, <1>4, <2>1, <3>1, CommandEnds
    <3> QED BY <1>4, <2>1, <2>3, <3>2, Arrives
  <2> QED BY <1>7, <2>4, <2>5 DEF EndLoop
<1> QED BY <1>6, <1>7 DEF EndLoop

\* A region that was registered is the one of the BAR at hand.
LEMMA Registered ==
  ASSUME BusInv, BarsOK, OwnRegions, NEW t \in BarNums, Register(Region(t, bar[t])), bar' = bar
  PROVE  OwnRegions' /\ \A b \in BarNums : Live(b)' <=> Live(b) \/ b = t
<1>1. PICK r : r = Region(t, bar[t])
  OBVIOUS
<1>2. CanInsert(r) /\ tree' = tree \cup {r} /\ removed' = removed
  BY <1>1 DEF Register
<1>3. Meets(r, r)
  <2>1. bar[t] \in Nat /\ Bars[t].size \in Nat /\ Bars[t].size > 0
    BY BarNumbers
  <2> QED BY <1>1, <2>1, RegionsMeet
<1>4. r \notin removed /\ r.owner = t
  BY <1>1, <1>2, <1>3 DEF CanInsert, BusInv, RemovedInUse, Region
<1>5. tree' \ removed' = (tree \ removed) \cup {r}
  BY <1>2, <1>4
<1>6. OwnRegions'
  BY <1>1, <1>4, <1>5 DEF OwnRegions, Region
<1>7. ASSUME NEW b \in BarNums PROVE Live(b)' <=> Live(b) \/ b = t
  <2>1. Live(b)' <=> Region(b, bar[b]) \in (tree \ removed) \cup {r}
    BY <1>5 DEF Live, Region
  <2>2. Region(b, bar[b]) = r <=> b = t
    BY <1>1 DEF Region
  <2> QED BY <2>1, <2>2 DEF Live
<1> QED BY <1>6, <1>7

\* virtio_pci__bar_deactivate finds the region of the BAR, and no other.
LEMMA FindsOwn ==
  ASSUME BusInv, BarsOK, NEW t \in BarNums, Live(t)
  PROVE  AtPoint(Bars[t].space, bar[t]) = {Region(t, bar[t])}
<1>1. PICK r : r = Region(t, bar[t])
  OBVIOUS
<1>2. bar[t] \in Nat /\ Bars[t].size \in Nat /\ Bars[t].size > 0
  BY BarNumbers
<1>3. r \in AtPoint(Bars[t].space, bar[t]) /\ r \in tree
  BY <1>1, <1>2 DEF AtPoint, Region, Live
<1>4. ASSUME NEW q \in AtPoint(Bars[t].space, bar[t]) PROVE q = r
  <2>1. q \in tree /\ q.space = Bars[t].space /\ q.low <= bar[t] /\ bar[t] < q.high
        /\ q.low \in Nat /\ q.high \in Nat
    BY BusAssumption DEF AtPoint, BusInv, BusTypeOK
  <2>2. r.space = Bars[t].space /\ r.low = bar[t] /\ r.high = bar[t] + Bars[t].size
    BY <1>1 DEF Region
  <2>3. Meets(q, r)
    BY <1>2, <2>1, <2>2 DEF Meets
  <2> QED BY <1>3, <2>1, <2>3 DEF BusInv, Disjoint
<1> QED BY <1>1, <1>3, <1>4

\* A region that was deregistered was the one of the BAR at hand.
LEMMA Deregistered ==
  ASSUME BusInv, BarsOK, OwnRegions, NEW t \in BarNums, Live(t), Deregister(Region(t, bar[t])), bar' = bar
  PROVE  OwnRegions' /\ \A b \in BarNums : Live(b)' <=> Live(b) /\ b # t
<1>1. PICK r : r = Region(t, bar[t])
  OBVIOUS
<1>2. tree' \ removed' = (tree \ removed) \ {r}
  BY <1>1 DEF Deregister, Live
<1>3. OwnRegions'
  BY <1>2 DEF OwnRegions, Region
<1>4. ASSUME NEW b \in BarNums PROVE Live(b)' <=> Live(b) /\ b # t
  <2>1. Live(b)' <=> Region(b, bar[b]) \in (tree \ removed) \ {r}
    BY <1>2 DEF Live, Region
  <2>2. Region(b, bar[b]) = r <=> b = t
    BY <1>1 DEF Region
  <2> QED BY <2>1, <2>2 DEF Live
<1> QED BY <1>3, <1>4

\* What is in the way of a region: a removed one that is in use, or the one of a BAR.
LEMMA InTheWay ==
  ASSUME OwnRegions, NEW t \in BarNums, ~CanInsert(Region(t, bar[t])), ~Live(t)
  PROVE  \/ \E q \in removed : Meets(q, Region(t, bar[t]))
         \/ \E c \in BarNums : Live(c) /\ Collide(t, bar[t], c)
<1>1. PICK q \in tree : Meets(q, Region(t, bar[t]))
  BY DEF CanInsert
<1>2. SUFFICES ASSUME q \notin removed
               PROVE  \E c \in BarNums : Live(c) /\ Collide(t, bar[t], c)
  BY <1>1
<1>3. PICK c \in BarNums : q = Region(c, bar[c])
  BY <1>1, <1>2 DEF OwnRegions
<1>4. Live(c) /\ c # t
  BY <1>1, <1>2, <1>3 DEF Live
<1>5. Collide(t, bar[t], c)
  BY <1>1, <1>3, <1>4, RegionsMeet DEF Collide
<1> QED BY <1>4, <1>5

\* A BAR was given its region.
LEMMA CalledOn ==
  ASSUME Footing, NEW CONSTANT st, NEW CONSTANT n, NEW CONSTANT a, NEW CONSTANT t,
         st \notin {"idle", "back"}, st \in Stages,
         WriteAt(st, "call", n, a), ActivateAt(st, n, a), t = TargetAt(st, n, a), t \in BarNums,
         UNCHANGED <<bar, active, command, spoiled>>,
         \A b \in BarNums : Live(b)' <=> Live(b) \/ b = t
  PROVE  WriteAt(st, "set", n, a)'
<1>1. bar' = bar /\ active' = active /\ command' = command /\ spoiled' = spoiled
  OBVIOUS
<1>2. /\ \A b : Enabled(b)' <=> Enabled(b)
      /\ \A b : Homed(b)' <=> Homed(b)
      /\ \A b, e, c : Collide(b, e, c)' <=> Collide(b, e, c)
      /\ \A b, c : Collide(b, bar[b], c)' <=> Collide(b, bar[b], c)
      /\ \A b, e, s : Overlaps(b, e, s)' <=> Overlaps(b, e, s)
  BY <1>1 DEF Enabled, Homed, Collide, Meets, Region, Overlaps
<1>3. \A b \in BarNums : Covered(b) => Covered(b)'
  BY <1>1, <1>2 DEF Covered
<1>4. FlagsAt(st, "call", n, a) /\ WantedAt(st, n, a)
  BY DEF WriteAt
<1>5. FlagsAt(st, "set", n, a)' /\ WantedAt(st, n, a)'
  <2>1. TargetAt(st, n, a)' = t /\ ActivateAt(st, n, a)'
    BY DEF TargetAt, ActivateAt
  <2>2. \A b \in BarNums : /\ b # t => (active'[b] <=> Live(b)')
                           /\ b = t => ~active'[b] /\ Live(b)'
    BY <1>1, <1>4 DEF FlagsAt
  <2>3. FlagsAt(st, "set", n, a)'
    BY <2>1, <2>2 DEF FlagsAt
  <2> QED BY <1>2, <1>4, <2>3 DEF WantedAt
<1>6. ASSUME st = "command" PROVE CommandAt("set", n, a)'
  <2>1. CommandAt("call", n, a) /\ t = n /\ Bars[t].space \in a.spaces
    BY <1>6 DEF WriteAt, TargetAt, ActivateAt, Loops
  <2>2. ASSUME NEW b \in Concerned(a)
        PROVE  /\ Homed(b)'
               /\ \A c \in BarNums : ~Collide(b, bar[b], c)'
               /\ Passed(b, "set", n) /\ Bars[b].space \in a.spaces => Live(b)' \/ b \in spoiled'
               /\ Passed(b, "set", n) /\ Bars[b].space \notin a.spaces => ~Live(b)'
    <3>1. b \in BarNums /\ (Passed(b, "set", n) => b = t \/ Passed(b, "call", n))
      BY <2>1 DEF Concerned, Passed
    <3> QED BY <1>1, <1>2, <2>1, <3>1 DEF CommandAt
  <2>3. t \in Concerned(a)
    BY <1>4, <1>6, <2>1 DEF WantedAt, Concerned
  <2>4. \A b \in BarNums \ Concerned(a) : (Live(b)' => Enabled(b)') /\ Covered(b)'
    BY <1>2, <1>3, <2>1, <2>3 DEF CommandAt
  <2> QED BY <1>1, <2>1, <2>2, <2>4 DEF CommandAt, Concerned, Passed
<1>7. ASSUME st # "command" PROVE MoveAt(st, "set", n, a)'
  <2>1. MoveAt(st, "call", n, a) /\ st \in {"on", "again"}
    BY <1>7 DEF WriteAt, ActivateAt
  <2>2. CASE st = "on"
    <3>1. t = a.bar
      BY <2>2 DEF TargetAt, Loops
    <3> QED BY <1>1, <1>2, <1>3, <2>1, <2>2, <3>1 DEF MoveAt
  <2>3. CASE st = "again"
    <3>1. t # a.bar => Enabled(t)
      <4> SUFFICES ASSUME t # a.bar PROVE Enabled(t)
        OBVIOUS
      <4>1. t = n /\ a.from \in {a.old, a.value} /\ Overlaps(t, a.from, Bars[a.bar].size)
        BY <1>4, <2>1, <2>3 DEF TargetAt, Loops, WantedAt, MoveAt
      <4> QED BY <2>1, <4>1, OverlappedEnabled
    <3> QED BY <1>1, <1>2, <1>3, <2>1, <2>3, <3>1 DEF MoveAt
  <2> QED BY <2>1, <2>2, <2>3
<1> QED BY <1>5, <1>6, <1>7 DEF WriteAt

\* A BAR has lost its region.
LEMMA CalledOff ==
  ASSUME Footing, NEW CONSTANT st, NEW CONSTANT n, NEW CONSTANT a, NEW CONSTANT t,
         st \notin {"idle", "back"}, st \in Stages,
         WriteAt(st, "call", n, a), ~ActivateAt(st, n, a), t = TargetAt(st, n, a), t \in BarNums,
         UNCHANGED <<bar, active, command, spoiled>>,
         \A b \in BarNums : Live(b)' <=> Live(b) /\ b # t
  PROVE  WriteAt(st, "set", n, a)'
<1>1. bar' = bar /\ active' = active /\ command' = command /\ spoiled' = spoiled
  OBVIOUS
<1>2. /\ \A b : Enabled(b)' <=> Enabled(b)
      /\ \A b : Homed(b)' <=> Homed(b)
      /\ \A b, e, c : Collide(b, e, c)' <=> Collide(b, e, c)
      /\ \A b, c : Collide(b, bar[b], c)' <=> Collide(b, bar[b], c)
      /\ \A b, e, s : Overlaps(b, e, s)' <=> Overlaps(b, e, s)
  BY <1>1 DEF Enabled, Homed, Collide, Meets, Region, Overlaps
<1>3. \A b \in BarNums : b # t /\ Covered(b) => Covered(b)'
  BY <1>1, <1>2 DEF Covered
<1>4. FlagsAt(st, "call", n, a) /\ WantedAt(st, n, a)
  BY DEF WriteAt
<1>5. FlagsAt(st, "set", n, a)' /\ WantedAt(st, n, a)' /\ active[t]
  <2>1. TargetAt(st, n, a)' = t /\ ~ActivateAt(st, n, a)'
    BY DEF TargetAt, ActivateAt
  <2>2. \A b \in BarNums : /\ b # t => (active'[b] <=> Live(b)')
                           /\ b = t => active'[b] /\ ~Live(b)'
    BY <1>1, <1>4 DEF FlagsAt
  <2>3. FlagsAt(st, "set", n, a)'
    BY <2>1, <2>2 DEF FlagsAt
  <2> QED BY <1>1, <1>2, <1>4, <2>2, <2>3 DEF WantedAt
<1>6. ASSUME st = "command" PROVE CommandAt("set", n, a)'
  <2>1. CommandAt("call", n, a) /\ t = n /\ Bars[t].space \notin a.spaces
    BY <1>6 DEF WriteAt, TargetAt, ActivateAt, Loops
  <2>2. ASSUME NEW b \in Concerned(a)
        PROVE  /\ Homed(b)'
               /\ \A c \in BarNums : ~Collide(b, bar[b], c)'
               /\ Passed(b, "set", n) /\ Bars[b].space \in a.spaces => Live(b)' \/ b \in spoiled'
               /\ Passed(b, "set", n) /\ Bars[b].space \notin a.spaces => ~Live(b)'
    <3>1. b \in BarNums /\ (Passed(b, "set", n) => b = t \/ Passed(b, "call", n))
      BY <2>1 DEF Concerned, Passed
    <3> QED BY <1>1, <1>2, <2>1, <3>1 DEF CommandAt
  <2>3. t \in Concerned(a)
    BY <1>4, <1>6, <2>1 DEF WantedAt, Concerned
  <2>4. \A b \in BarNums \ Concerned(a) : (Live(b)' => Enabled(b)') /\ Covered(b)'
    BY <1>2, <1>3, <2>1, <2>3 DEF CommandAt
  <2> QED BY <1>1, <2>1, <2>2, <2>4 DEF CommandAt, Concerned, Passed
<1>7. ASSUME st # "command" PROVE MoveAt(st, "set", n, a)'
  <2>1. MoveAt(st, "call", n, a) /\ st \in {"off", "clear"}
    BY <1>7 DEF WriteAt, ActivateAt, Stages
  <2>2. CASE st = "off"
    <3>1. t = a.bar
      BY <2>2 DEF TargetAt, Loops
    <3> QED BY <1>1, <1>2, <1>3, <2>1, <2>2, <3>1 DEF MoveAt
  <2>3. CASE st = "clear"
    <3>1. t = n /\ t # a.bar /\ Overlaps(t, a.value, Bars[a.bar].size)
      BY <1>4, <1>5, <2>1, <2>3 DEF TargetAt, Loops, WantedAt, MoveAt
    <3>2. Collide(a.bar, a.value, t)
      BY <2>1, <3>1, OverlappedEnabled
    <3>3. ASSUME NEW c \in BarNums \ {a.bar}
          PROVE  /\ Collide(a.bar, a.value, c)' \/ Covered(c)'
                 /\ Passed(c, "set", n) /\ Collide(a.bar, a.value, c)' => ~Live(c)'
      <4>1. Passed(c, "set", n) => c = t \/ Passed(c, "call", n)
        BY <3>1 DEF Passed
      <4> QED BY <1>2, <1>3, <2>1, <2>3, <3>2, <4>1 DEF MoveAt
    <3> QED BY <1>1, <1>2, <2>1, <2>3, <3>3 DEF MoveAt, Passed
  <2> QED BY <2>1, <2>2, <2>3
<1> QED BY <1>5, <1>6, <1>7 DEF WriteAt

\* What LeftOff holds.
LEMMA LeavesOff ==
  ASSUME NEW v
  PROVE  /\ (\E q \in removed : Meets(q, Region(Target(v), bar[Target(v)]))) => Target(v) \in LeftOff(v)
         /\ stage[v] = "on" =>
              \A c \in BarNums :
                Overlaps(c, args[v].old, Bars[args[v].bar].size) /\ ~active[c] => c \in LeftOff(v)
         /\ stage[v] = "again" =>
              \A c \in BarNums :
                c > k[v] /\ Overlaps(c, args[v].from, Bars[args[v].bar].size) /\ ~active[c] => c \in LeftOff(v)
<1>1. PICK t, s : t = Target(v) /\ s = Bars[args[v].bar].size
  OBVIOUS
<1>2. (\E q \in removed : Meets(q, Region(t, bar[t]))) => t \in LeftOff(v)
  BY <1>1 DEF LeftOff
<1>3. ASSUME stage[v] = "on", NEW c \in BarNums, Overlaps(c, args[v].old, s), ~active[c]
      PROVE  c \in LeftOff(v)
  BY <1>1, <1>3 DEF LeftOff
<1>4. ASSUME stage[v] = "again", NEW c \in BarNums, c > k[v], Overlaps(c, args[v].from, s), ~active[c]
      PROVE  c \in LeftOff(v)
  BY <1>1, <1>4 DEF LeftOff
<1> QED BY <1>1, <1>2, <1>3, <1>4

\* More BARs are left off, and nothing else changes.
MoreSpoiled ==
  /\ UNCHANGED <<bar, active, command>>
  /\ spoiled \subseteq spoiled'
  /\ \A b : Live(b)' <=> Live(b)

\* What such a step keeps.
LEMMA MoreSpoiledBars ==
  ASSUME MoreSpoiled
  PROVE  /\ bar' = bar /\ active' = active /\ command' = command
         /\ \A b : Enabled(b)' <=> Enabled(b)
         /\ \A b : Homed(b)' <=> Homed(b)
         /\ \A b, e, c : Collide(b, e, c)' <=> Collide(b, e, c)
         /\ \A b, c : Collide(b, bar[b], c)' <=> Collide(b, bar[b], c)
         /\ \A b \in BarNums : Covered(b) => Covered(b)'
<1>1. bar' = bar /\ active' = active /\ command' = command
  BY DEF MoreSpoiled
<1>2. /\ \A b : Enabled(b)' <=> Enabled(b)
      /\ \A b : Homed(b)' <=> Homed(b)
      /\ \A b, e, c : Collide(b, e, c)' <=> Collide(b, e, c)
      /\ \A b, c : Collide(b, bar[b], c)' <=> Collide(b, bar[b], c)
  BY <1>1 DEF Enabled, Homed, Collide, Meets, Region
<1>3. \A b \in BarNums : Covered(b) => Covered(b)'
  BY <1>1, <1>2 DEF Covered, MoreSpoiled
<1> QED BY <1>1, <1>2, <1>3

\* pci_config_command_wr goes on after an error.
LEMMA CommandFails ==
  ASSUME Footing, OwnRegions, MoreSpoiled, NEW CONSTANT n, NEW CONSTANT a, n \in BarNums,
         WriteAt("command", "call", n, a), ActivateAt("command", n, a),
         ~CanInsert(Region(n, bar[n])),
         (\E q \in removed : Meets(q, Region(n, bar[n]))) => n \in spoiled'
  PROVE  WriteAt("command", "scan", n + 1, a)'
<1>1. /\ CommandAt("call", n, a) /\ FlagsAt("command", "call", n, a) /\ WantedAt("command", n, a)
      /\ TargetAt("command", n, a) = n /\ Bars[n].space \in a.spaces
  BY DEF WriteAt, TargetAt, ActivateAt, Loops
<1>2. n \in Concerned(a)
  BY <1>1 DEF WantedAt, Concerned
<1>3. ~Live(n)
  BY <1>1 DEF FlagsAt
<1>4. n \in spoiled'
  BY <1>1, <1>2, <1>3, InTheWay DEF CommandAt
<1>5. ASSUME NEW b \in Concerned(a)
      PROVE  /\ Homed(b)'
             /\ \A c \in BarNums : ~Collide(b, bar[b], c)'
             /\ Passed(b, "scan", n + 1) /\ Bars[b].space \in a.spaces => Live(b)' \/ b \in spoiled'
             /\ Passed(b, "scan", n + 1) /\ Bars[b].space \notin a.spaces => ~Live(b)'
  <2>1. b \in BarNums /\ b \in Int /\ n \in Int
    BY LenNat DEF Concerned, BarNums
  <2>2. Passed(b, "scan", n + 1) => b = n \/ Passed(b, "call", n)
    BY <2>1 DEF Passed
  <2> QED BY <1>1, <1>4, <2>1, <2>2, MoreSpoiledBars DEF CommandAt, MoreSpoiled
<1>6. \A b \in BarNums \ Concerned(a) : (Live(b)' => Enabled(b)') /\ Covered(b)'
  BY <1>1, MoreSpoiledBars DEF CommandAt, MoreSpoiled
<1>7. CommandAt("scan", n + 1, a)'
  <2>1. command' = command
    BY MoreSpoiledBars
  <2> QED BY <1>1, <1>5, <1>6, <2>1 DEF CommandAt, Concerned, Passed
<1>8. FlagsAt("command", "scan", n + 1, a)'
  <2>1. \A b \in BarNums : active'[b] <=> Live(b)'
    BY <1>1, MoreSpoiledBars DEF FlagsAt, MoreSpoiled
  <2> QED BY <2>1 DEF FlagsAt
<1> QED BY <1>7, <1>8 DEF WriteAt

\* "If the activation fails" the BARs over the new place have their turn.
LEMMA OnFails ==
  ASSUME Footing, OwnRegions, MoreSpoiled, NEW CONSTANT n, NEW CONSTANT a, NEW CONSTANT a2,
         WriteAt("on", "call", n, a), ~CanInsert(Region(a.bar, bar[a.bar])),
         (\E q \in removed : Meets(q, Region(a.bar, bar[a.bar]))) => a.bar \in spoiled',
         \A c \in BarNums : Overlaps(c, a.old, Bars[a.bar].size) /\ ~active[c] => c \in spoiled',
         a2.bar = a.bar, a2.value = a.value, a2.old = a.old, a2.from = a.value
  PROVE  WriteAt("again", "scan", 1, a2)'
<1>1. /\ MoveAt("on", "call", n, a) /\ FlagsAt("on", "call", n, a)
      /\ TargetAt("on", n, a) = a.bar /\ ActivateAt("on", n, a)
  BY DEF WriteAt, TargetAt, ActivateAt, Loops
<1>2. PICK m, x, y : m = a.bar /\ x = a.old /\ y = a.value
  OBVIOUS
<1>3. /\ m \in BarNums /\ x \in Targets[m] /\ y \in Targets[m] /\ bar[m] = y /\ Enabled(m) /\ ~Live(m)
  BY <1>1, <1>2 DEF MoveAt, FlagsAt
<1>4. ASSUME NEW c \in BarNums, c # m
      PROVE  /\ ~Enabled(c) /\ Homed(c) => ~Collide(m, y, c) /\ ~Collide(m, x, c)
             /\ Live(c) => Enabled(c)
             /\ Collide(m, x, c) \/ Covered(c)
             /\ Collide(m, y, c) => ~Live(c)
  BY <1>1, <1>2, <1>4 DEF MoveAt
<1>5. m \in spoiled'
  <2>1. \A c \in BarNums : Live(c) => ~Collide(m, bar[m], c)
    BY <1>3, <1>4 DEF Collide
  <2> QED BY <1>2, <1>3, <2>1, InTheWay
<1>6. ASSUME NEW c \in BarNums, c # m PROVE Covered(c)'
  <2>1. CASE Covered(c)
    BY <2>1, MoreSpoiledBars
  <2>2. CASE Collide(m, x, c)
    <3>1. SUFFICES ASSUME Enabled(c)', ~Live(c)' PROVE c \in spoiled'
      BY DEF Covered
    <3>2. Enabled(c) /\ ~Live(c)
      BY <3>1, MoreSpoiledBars DEF MoreSpoiled
    <3>3. Overlaps(c, x, Bars[m].size)
      BY <1>3, <1>6, <2>2, <3>2, EnabledOverlaps
    <3>4. ~active[c]
      BY <1>1, <3>2 DEF FlagsAt
    <3> QED BY <1>2, <3>3, <3>4
  <2> QED BY <1>4, <1>6, <2>1, <2>2
<1>7. MoveAt("again", "scan", 1, a2)'
  <2>1. a2.bar = m /\ a2.value = y /\ a2.old = x /\ a2.from = y
    BY <1>2
  <2>2. Covered(m)'
    BY <1>5 DEF Covered
  <2>3. /\ Enabled(m)' /\ bar'[m] = y
    BY <1>3, MoreSpoiledBars
  <2>4. ASSUME NEW c \in BarNums \ {m}
        PROVE  /\ ~Enabled(c)' /\ Homed(c)' => ~Collide(m, y, c)' /\ ~Collide(m, x, c)'
               /\ Live(c)' => Enabled(c)'
               /\ Covered(c)'
    BY <1>4, <1>6, MoreSpoiledBars DEF MoreSpoiled
  <2> QED BY <1>3, <2>1, <2>2, <2>3, <2>4 DEF MoveAt
<1>8. FlagsAt("again", "scan", 1, a2)'
  <2>1. \A b \in BarNums : active'[b] <=> Live(b)'
    BY <1>1, MoreSpoiledBars DEF FlagsAt, MoreSpoiled
  <2> QED BY <2>1 DEF FlagsAt
<1> QED BY <1>7, <1>8 DEF WriteAt

\* pci_toggle_bar_regions returns at the first BAR that cannot be activated.
LEMMA AgainFails ==
  ASSUME Footing, OwnRegions, MoreSpoiled, NEW CONSTANT n, NEW CONSTANT a, n \in BarNums,
         WriteAt("again", "call", n, a), ~CanInsert(Region(n, bar[n])),
         (\E q \in removed : Meets(q, Region(n, bar[n]))) => n \in spoiled',
         \A c \in BarNums : c > n /\ Overlaps(c, a.from, Bars[a.bar].size) /\ ~active[c] => c \in spoiled'
  PROVE  Settled'
<1>1. /\ MoveAt("again", "call", n, a) /\ FlagsAt("again", "call", n, a)
      /\ TargetAt("again", n, a) = n /\ ActivateAt("again", n, a)
  BY DEF WriteAt, TargetAt, ActivateAt, Loops
<1>2. PICK m, x : m = a.bar /\ x = a.old
  OBVIOUS
<1>3. /\ m \in BarNums /\ x \in Targets[m] /\ Enabled(m) /\ Covered(m)
      /\ ~Live(n) /\ \A b \in BarNums : active[b] <=> Live(b)
  BY <1>1, <1>2 DEF MoveAt, FlagsAt
<1>4. ASSUME NEW c \in BarNums, c # m
      PROVE  /\ Live(c) => Enabled(c)
             /\ (a.from = x /\ c >= n /\ Collide(m, x, c)) \/ Covered(c)
  BY <1>1, <1>2, <1>4 DEF MoveAt
<1>5. Covered(n)'
  <2> SUFFICES ASSUME n \notin spoiled'
               PROVE  \E c \in BarNums : Enabled(c)' /\ Collide(n, bar[n], c)'
    BY DEF Covered
  <2>1. PICK c \in BarNums : Live(c) /\ Collide(n, bar[n], c)
    BY <1>3, InTheWay
  <2>2. Enabled(c)
    BY <1>3, <1>4, <2>1
  <2> QED BY <2>1, <2>2, MoreSpoiledBars
<1>6. ASSUME NEW b \in BarNums PROVE Covered(b)'
  <2>1. CASE Covered(b)
    BY <2>1, MoreSpoiledBars
  <2>2. CASE b = n
    BY <1>5, <2>2
  <2>3. CASE b # n /\ b # m /\ a.from = x /\ b >= n /\ Collide(m, x, b)
    <3>1. SUFFICES ASSUME Enabled(b)', ~Live(b)' PROVE b \in spoiled'
      BY DEF Covered
    <3>2. Enabled(b) /\ ~Live(b)
      BY <3>1, MoreSpoiledBars DEF MoreSpoiled
    <3>3. Overlaps(b, x, Bars[m].size)
      BY <1>3, <2>3, <3>2, EnabledOverlaps
    <3>4. b > n /\ ~active[b]
      BY <1>3, <2>3, <3>2, LenNat DEF BarNums
    <3> QED BY <1>2, <2>3, <3>3, <3>4
  <2> QED BY <1>3, <1>4, <2>1, <2>2, <2>3
<1>7. \A b \in BarNums : (active'[b] <=> Live(b)') /\ (Live(b)' => Enabled(b)')
  BY <1>3, <1>4, MoreSpoiledBars DEF MoreSpoiled
<1> QED BY <1>6, <1>7 DEF Settled

\* A callback is called on a BAR that has, or has not, a region as its flag says.
LEMMA Calling ==
  ASSUME BarsIInv, Orderly, NEW v \in Vcpus, step[v] = "call"
  PROVE  \E st, n, a :
           /\ st = stage[v] /\ n = k[v] /\ a = args[v]
           /\ st \in Stages \ {"idle", "back"} /\ n \in BarNums /\ a \in Writes
           /\ WriteAt(st, "call", n, a)
           /\ Target(v) = TargetAt(st, n, a) /\ Target(v) \in BarNums
           /\ Activate(v) <=> ActivateAt(st, n, a)
           /\ Live(Target(v)) <=> ~Activate(v)
<1>1. PICK st, n, a : st = stage[v] /\ n = k[v] /\ a = args[v]
  OBVIOUS
<1>2. WritesOK /\ st \in Stages \ {"idle"} /\ n \in 1 .. Len(Bars) + 1 /\ n <= Len(Bars) /\ a \in Writes
  BY <1>1, Parts DEF BarsIInv, WritesOK
<1>3. n \in BarNums
  BY <1>2, LenNat DEF BarNums
<1>4. WriteAt(st, "call", n, a) /\ st # "back"
  BY <1>1, <1>2, Writer
<1>5. Target(v) = TargetAt(st, n, a) /\ Target(v) \in BarNums /\ (Activate(v) <=> ActivateAt(st, n, a))
  BY <1>1, <1>2, AtHand, TargetOK
<1>6. Live(Target(v)) <=> ~Activate(v)
  BY <1>4, <1>5 DEF WriteAt, FlagsAt
<1> QED BY <1>1, <1>2, <1>3, <1>4, <1>5, <1>6

\* virtio_pci__bar_deactivate.
LEMMA DeactivateSettles ==
  ASSUME BarsIInv, PciInv', NEW v \in Vcpus, CallDeactivate(v)
  PROVE  BarsIInv'
<1> SUFFICES ASSUME Orderly PROVE BarsIInv'
  BY DEF BarsIInv
<1>1. /\ BusInv /\ BarsOK /\ WritesOK /\ OwnRegions /\ Decoded /\ DisabledApart
      /\ step[v] = "call" /\ ~Activate(v)
      /\ UNCHANGED <<bar, active, command, spoiled>> /\ bar' = bar /\ UNCHANGED <<bar, command>>
  BY Parts DEF BarsIInv, CallDeactivate, barVars
<1>2. PICK st, n, a :
           /\ st = stage[v] /\ n = k[v] /\ a = args[v]
           /\ st \in Stages \ {"idle", "back"} /\ n \in BarNums /\ a \in Writes
           /\ WriteAt(st, "call", n, a)
           /\ Target(v) = TargetAt(st, n, a) /\ Target(v) \in BarNums
           /\ Activate(v) <=> ActivateAt(st, n, a)
           /\ Live(Target(v)) <=> ~Activate(v)
  BY <1>1, Calling
<1>3. PICK t : t = Target(v)
  OBVIOUS
<1>4. t \in BarNums /\ t = TargetAt(st, n, a) /\ Live(t) /\ ~ActivateAt(st, n, a)
  BY <1>1, <1>2, <1>3
<1>5. AtPoint(Bars[t].space, bar[t]) = {Region(t, bar[t])}
  BY <1>1, <1>4, FindsOwn
<1>6. /\ Deregister(Region(t, bar[t]))
      /\ step' = [step EXCEPT ![v] = "set"]
      /\ UNCHANGED <<stage, k, args>>
  BY <1>3, <1>5 DEF CallDeactivate
<1>7. OwnRegions' /\ \A b \in BarNums : Live(b)' <=> Live(b) /\ b # t
  BY <1>1, <1>4, <1>6, Deregistered
<1>8. Decoded' /\ DisabledApart'
  BY <1>1, SameGround
<1>9. Footing /\ \A w \in Vcpus \ {v} : stage[w] = "idle"
  BY <1>2, Writer
<1>10. WriteAt(st, "set", n, a)'
  BY <1>1, <1>2, <1>4, <1>7, <1>9, CalledOff
<1>11. Moved(v, st, "set", n, a)
  BY <1>1, <1>2, <1>6 DEF Moved, WritesOK
<1> QED BY <1>2, <1>7, <1>8, <1>9, <1>10, <1>11, Arrives

\* virtio_pci__bar_activate, with and without success.
LEMMA ActivateSettles ==
  ASSUME BarsIInv, PciInv', NEW v \in Vcpus, CallActivate(v)
  PROVE  BarsIInv'
<1> SUFFICES ASSUME Orderly PROVE BarsIInv'
  BY DEF BarsIInv
<1>1. /\ BusInv /\ BarsOK /\ WritesOK /\ OwnRegions /\ Decoded /\ DisabledApart
      /\ step[v] = "call" /\ Activate(v)
      /\ UNCHANGED <<bar, active, command>> /\ bar' = bar /\ UNCHANGED <<bar, command>>
  BY Parts DEF BarsIInv, CallActivate, barVars
<1>2. PICK st, n, a :
           /\ st = stage[v] /\ n = k[v] /\ a = args[v]
           /\ st \in Stages \ {"idle", "back"} /\ n \in BarNums /\ a \in Writes
           /\ WriteAt(st, "call", n, a)
           /\ Target(v) = TargetAt(st, n, a) /\ Target(v) \in BarNums
           /\ Activate(v) <=> ActivateAt(st, n, a)
           /\ Live(Target(v)) <=> ~Activate(v)
  BY <1>1, Calling
<1>3. PICK t : t = Target(v)
  OBVIOUS
<1>4. t \in BarNums /\ t = TargetAt(st, n, a) /\ ~Live(t) /\ ActivateAt(st, n, a)
  BY <1>1, <1>2, <1>3
<1>5. Decoded' /\ DisabledApart'
  BY <1>1, SameGround
<1>6. Footing /\ \A w \in Vcpus \ {v} : stage[w] = "idle"
  BY <1>2, Writer
<1>7. CASE /\ Register(Region(t, bar[t]))
           /\ step' = [step EXCEPT ![v] = "set"]
           /\ UNCHANGED <<stage, k, args>>
           /\ UNCHANGED spoiled
  <2>1. OwnRegions' /\ \A b \in BarNums : Live(b)' <=> Live(b) \/ b = t
    BY <1>1, <1>4, <1>7, Registered
  <2>2. UNCHANGED <<bar, active, command, spoiled>>
    BY <1>1, <1>7
  <2>3. WriteAt(st, "set", n, a)'
    BY <1>2, <1>4, <1>6, <2>1, <2>2, CalledOn
  <2>4. Moved(v, st, "set", n, a)
    BY <1>1, <1>2, <1>7 DEF Moved, WritesOK
  <2> QED BY <1>2, <1>5, <1>6, <2>1, <2>3, <2>4, Arrives
<1>8. CASE /\ ~CanInsert(Region(t, bar[t]))
           /\ Fail(v)
           /\ spoiled' = spoiled \cup LeftOff(v)
           /\ UNCHANGED vars
  <2>1. tree' \ removed' = tree \ removed
    BY <1>8 DEF vars
  <2>2. OwnRegions' /\ MoreSpoiled
    BY <1>1, <1>8, <2>1, SameRegions DEF MoreSpoiled
  <2>3. (\E q \in removed : Meets(q, Region(t, bar[t]))) => t \in spoiled'
    BY <1>3, <1>8, LeavesOff
  <2>4. CASE st = "command"
    <3>1. t = n
      BY <1>4, <2>4 DEF TargetAt, Loops
    <3>2. WriteAt("command", "scan", n + 1, a)'
      BY <1>1, <1>2, <1>4, <1>6, <1>8, <2>2, <2>3, <2>4, <3>1, CommandFails
    <3>3. NextBar(v)
      BY <1>2, <1>8, <2>4 DEF Fail
    <3>4. Moved(v, "command", "scan", n + 1, a)
      BY <1>1, <1>2, <2>4, <3>3 DEF NextBar, Moved, WritesOK
    <3> QED BY <1>5, <1>6, <2>2, <3>2, <3>4, Arrives
  <2>5. CASE st = "on"
    <3>1. t = a.bar
      BY <1>4, <2>5 DEF TargetAt, Loops
    <3>2. \A c \in BarNums : Overlaps(c, a.old, Bars[a.bar].size) /\ ~active[c] => c \in spoiled'
      BY <1>2, <1>8, <2>5, LeavesOff
    <3>3. PICK a2 : a2 = [args[v] EXCEPT !.from = args[v].value]
      OBVIOUS
    <3>4. a2.bar = a.bar /\ a2.value = a.value /\ a2.old = a.old /\ a2.from = a.value
      BY <1>2, <3>3 DEF Writes
    <3>5. WriteAt("again", "scan", 1, a2)'
      BY <1>1, <1>2, <1>6, <1>8, <2>2, <2>3, <2>5, <3>1, <3>2, <3>4, OnFails
    <3>6. Goto(v, "again", a2)
      BY <1>2, <1>8, <2>5, <3>3 DEF Fail
    <3>7. Moved(v, "again", "scan", 1, a2)
      BY <3>6 DEF Goto, Moved
    <3> QED BY <1>5, <1>6, <2>2, <3>5, <3>7, Arrives
  <2>6. CASE st = "again"
    <3>1. t = n
      BY <1>4, <2>6 DEF TargetAt, Loops
    <3>2. \A c \in BarNums : c > n /\ Overlaps(c, a.from, Bars[a.bar].size) /\ ~active[c] => c \in spoiled'
      BY <1>2, <1>8, <2>6, LeavesOff
    <3>3. Settled'
      BY <1>1, <1>2, <1>6, <1>8, <2>2, <2>3, <2>6, <3>1, <3>2, AgainFails
    <3>4. PICK b : b = NoArgs
      OBVIOUS
    <3>5. Goto(v, "idle", NoArgs)
      BY <1>2, <1>8, <2>6 DEF Fail
    <3>6. Moved(v, "idle", "scan", 1, b)
      BY <3>4, <3>5 DEF Goto, Moved
    <3> QED BY <1>5, <1>6, <2>2, <3>3, <3>6, Arrives
  <2> QED BY <1>4, <2>4, <2>5, <2>6, <1>2 DEF ActivateAt
<1> QED BY <1>3, <1>7, <1>8 DEF CallActivate

\* A BAR whose space is not decoded gets an address, or is sized.
LEMMA Readdressed ==
  ASSUME BarsOK, OwnRegions, Decoded, DisabledApart, Settled, NEW b \in BarNums, ~Enabled(b),
         NEW e \in Targets[b] \cup {Probe(b)},
         e \in Targets[b] => \A c \in BarNums : ~Collide(b, e, c),
         bar' = [bar EXCEPT ![b] = e], UNCHANGED <<tree, removed, active, command, spoiled>>
  PROVE  OwnRegions' /\ Decoded' /\ DisabledApart' /\ Settled'
<1>1. /\ bar'[b] = e /\ \A c \in BarNums : c # b => bar'[c] = bar[c]
      /\ tree' = tree /\ removed' = removed /\ active' = active /\ command' = command /\ spoiled' = spoiled
  BY DEF BarsOK
<1>2. ~Live(b) /\ ~active[b]
  BY DEF Settled
<1>3. \A r \in tree \ removed : r.owner \in BarNums /\ r = Region(r.owner, bar[r.owner]) /\ r.owner # b
  BY <1>2 DEF OwnRegions, Live
<1>4. OwnRegions'
  BY <1>1, <1>3 DEF OwnRegions, Region
<1>5. ~Live(b)'
  <2>1. Region(b, e).owner = b
    BY DEF Region
  <2>2. Region(b, e) \notin tree' \ removed'
    BY <1>1, <1>3, <2>1
  <2> QED BY <1>1, <2>2 DEF Live, Region
<1>6. \A c \in BarNums : c # b => (Live(c)' <=> Live(c)) /\ (Homed(c)' <=> Homed(c))
  BY <1>1 DEF Live, Homed, Region
<1>7. \A c : Enabled(c)' <=> Enabled(c)
  BY <1>1 DEF Enabled
<1>8. \A c, d \in BarNums : c # b /\ d # b => (Collide(c, bar[c], d)' <=> Collide(c, bar[c], d))
  BY <1>1 DEF Collide, Meets, Region
<1>9. \A c \in BarNums : c # b => (Collide(c, bar[c], b)' <=> Collide(b, e, c))
                                  /\ (Collide(b, bar[b], c)' <=> Collide(b, e, c))
  BY <1>1 DEF Collide, Meets, Region
<1>10. Homed(b)' => e \in Targets[b]
  BY <1>1 DEF Homed
<1>11. Decoded'
  BY <1>6, <1>7 DEF Decoded
<1>12. DisabledApart'
  <2> SUFFICES ASSUME NEW c \in BarNums, NEW d \in BarNums, ~Enabled(c)', Homed(c)', Homed(d)'
               PROVE  ~Collide(c, bar[c], d)'
    BY DEF DisabledApart
  <2>1. CASE c = d
    BY <2>1 DEF Collide
  <2>2. CASE c # d /\ (c = b \/ d = b)
    BY <1>9, <1>10, <2>2
  <2>3. CASE c # b /\ d # b
    BY <1>6, <1>7, <1>8, <2>3 DEF DisabledApart
  <2> QED BY <2>1, <2>2, <2>3
<1>13. ASSUME NEW c \in BarNums
       PROVE  (active'[c] <=> Live(c)') /\ (Live(c)' => Enabled(c)') /\ Covered(c)'
  <2>1. CASE c = b
    BY <1>1, <1>2, <1>5, <1>7, <2>1 DEF Covered
  <2>2. CASE c # b
    <3>1. (active[c] <=> Live(c)) /\ (Live(c) => Enabled(c)) /\ Covered(c)
      BY DEF Settled
    <3>2. ASSUME Enabled(c)', ~Live(c)', c \notin spoiled'
          PROVE  \E d \in BarNums : Enabled(d)' /\ Collide(c, bar[c], d)'
      <4>1. PICK d \in BarNums : Enabled(d) /\ Collide(c, bar[c], d)
        BY <1>1, <1>6, <1>7, <2>2, <3>1, <3>2 DEF Covered
      <4>2. d # b
        BY <4>1
      <4> QED BY <1>7, <1>8, <2>2, <4>1, <4>2
    <3> QED BY <1>1, <1>6, <1>7, <2>2, <3>1, <3>2 DEF Covered
  <2> QED BY <2>1, <2>2
<1> QED BY <1>4, <1>11, <1>12, <1>13 DEF Settled

\* A write that is over at once.
LEMMA AtOnce ==
  ASSUME BarsIInv, Quiet, UNCHANGED writeVars, PciInv',
         Orderly => OwnRegions' /\ Decoded' /\ DisabledApart' /\ Settled'
  PROVE  BarsIInv'
<1>1. \A v \in Vcpus : stage'[v] = "idle"
  BY DEF Quiet, writeVars
<1> QED BY <1>1 DEF BarsIInv, OneWriter

\* A BAR that does not hold the answer to a probe holds an address.
LEMMA HomedOrProbe ==
  ASSUME BarsOK, NEW b \in BarNums
  PROVE  Homed(b) <=> bar[b] # Probe(b)
<1>1. bar[b] \in Targets[b] \cup {Probe(b)}
  BY DEF BarsOK
<1>2. Probe(b) \notin Targets[b]
  BY BarNumbers DEF Probe
<1> QED BY <1>1, <1>2 DEF Homed

\* The three kinds of configuration writes of an orderly guest.
LEMMA WriteSettles ==
  ASSUME BarsIInv, NEW v \in Vcpus, Write(v)
  PROVE  BarsIInv'
<1> SUFFICES ASSUME Orderly PROVE BarsIInv'
  BY WriteKeeps DEF BarsIInv
<1>1. PciInv' /\ Quiet /\ BarsOK /\ WritesOK
  BY WriteKeeps, Parts DEF BarsIInv, Write, CommandWrite, SizeWrite, DisabledWrite, BarWrite
<1>2. /\ OwnRegions /\ Decoded /\ DisabledApart /\ Settled
      /\ \A w \in Vcpus \ {v} : stage[w] = "idle"
      /\ "size" \in Rules /\ "overlap" \in Rules
  BY <1>1 DEF BarsIInv, Quiet, Orderly
<1>3. ASSUME UNCHANGED <<vars, barVars, spoiled>>
      PROVE  SameWorld /\ OwnRegions' /\ Decoded' /\ DisabledApart'
  <2>1. /\ bar' = bar /\ tree' \ removed' = tree \ removed
        /\ UNCHANGED <<bar, active, command, spoiled>> /\ UNCHANGED <<bar, command>>
    BY <1>3 DEF vars, barVars
  <2> QED BY <1>2, <2>1, SameRegions, SameGround DEF SameWorld
<1>4. \A st, n, a : FlagsAt(st, "scan", n, a)
  BY <1>2 DEF FlagsAt, Settled
<1>5. ASSUME NEW d \in Devs, NEW new \in SUBSET Spaces, CommandWrite(v, d, new)
      PROVE  BarsIInv'
  <2>1. PICK a : a = [NoArgs EXCEPT !.dev = d, !.spaces = new,
                      !.toggled = (command[d] \ new) \cup (new \ command[d])]
    OBVIOUS
  <2>2. a.dev = d /\ a.spaces = new /\ a.toggled = (command[d] \ new) \cup (new \ command[d])
    BY <2>1 DEF NoArgs
  <2>3. /\ \A b \in Concerned(a) : bar[b] # Probe(b)
        /\ \A b \in Concerned(a), c \in BarNums : ~Collide(b, bar[b], c)
        /\ Goto(v, "command", a) /\ UNCHANGED <<vars, barVars, spoiled>>
    BY <1>2, <1>5, <2>1, <2>2 DEF CommandWrite, Concerned
  <2>4. ASSUME NEW b \in Concerned(a) PROVE Homed(b) /\ ~Passed(b, "scan", 1)
    <3>1. b \in BarNums
      BY DEF Concerned
    <3> QED BY <1>1, <2>3, <3>1, HomedOrProbe, LenNat DEF Passed, BarNums
  <2>5. CommandAt("scan", 1, a)
    BY <1>2, <2>2, <2>3, <2>4 DEF CommandAt, Settled
  <2>6. WriteAt("command", "scan", 1, a)
    BY <1>4, <2>5 DEF WriteAt
  <2>7. SameWorld /\ OwnRegions' /\ Decoded' /\ DisabledApart'
    BY <1>3, <2>3
  <2>8. WriteAt("command", "scan", 1, a)'
    BY <2>6, <2>7, SameWrite
  <2>9. Moved(v, "command", "scan", 1, a)
    BY <2>3 DEF Goto, Moved
  <2> QED BY <1>1, <1>2, <2>7, <2>8, <2>9, Arrives
<1>6. ASSUME NEW b \in BarNums, NEW e \in Targets[b], BarWrite(v, b, e)
      PROVE  BarsIInv'
  <2>1. PICK a : a = [NoArgs EXCEPT !.bar = b, !.value = e, !.old = bar[b]]
    OBVIOUS
  <2>2. a.bar = b /\ a.value = e /\ a.old = bar[b]
    BY <2>1 DEF NoArgs
  <2>3. /\ Enabled(b) /\ \A c \in BarNums : Collide(b, e, c) => Enabled(c)
        /\ Goto(v, "off", a) /\ UNCHANGED <<vars, barVars, spoiled>>
    BY <1>2, <1>6, <2>1 DEF BarWrite
  <2>4. Homed(b)
    BY <1>2, <2>3 DEF Decoded
  <2>5. ASSUME NEW c \in BarNums \ {b}
        PROVE  /\ ~Enabled(c) /\ Homed(c) => ~Collide(b, e, c) /\ ~Collide(b, bar[b], c)
               /\ (Live(c) => Enabled(c)) /\ Covered(c)
    <3>1. ~Enabled(c) /\ Homed(c) => ~Collide(c, bar[c], b)
      BY <1>2, <2>4 DEF DisabledApart
    <3> QED BY <1>2, <2>3, <3>1, CollideBack DEF Settled
  <2>6. MoveAt("off", "scan", 1, a)
    BY <2>2, <2>3, <2>4, <2>5 DEF MoveAt, Homed
  <2>7. WriteAt("off", "scan", 1, a)
    BY <1>4, <2>6 DEF WriteAt
  <2>8. SameWorld /\ OwnRegions' /\ Decoded' /\ DisabledApart'
    BY <1>3, <2>3
  <2>9. WriteAt("off", "scan", 1, a)'
    BY <2>7, <2>8, SameWrite
  <2>10. Moved(v, "off", "scan", 1, a)
    BY <2>3 DEF Goto, Moved
  <2> QED BY <1>1, <1>2, <2>8, <2>9, <2>10, Arrives
<1>7. ASSUME NEW b \in BarNums, SizeWrite(v, b)
      PROVE  BarsIInv'
  <2>1. /\ ~Enabled(b) /\ bar' = [bar EXCEPT ![b] = Probe(b)] /\ UNCHANGED writeVars
        /\ UNCHANGED <<tree, removed, active, command, spoiled>>
    BY <1>2, <1>7 DEF SizeWrite, vars
  <2>2. Probe(b) \notin Targets[b]
    BY <1>1, BarNumbers DEF Probe
  <2>3. OwnRegions' /\ Decoded' /\ DisabledApart' /\ Settled'
    BY <1>1, <1>2, <2>1, <2>2, Readdressed
  <2> QED BY <1>1, <2>1, <2>3, AtOnce
<1>8. ASSUME NEW b \in BarNums, NEW e \in Targets[b], DisabledWrite(v, b, e)
      PROVE  BarsIInv'
  <2>1. /\ ~Enabled(b) /\ bar' = [bar EXCEPT ![b] = e] /\ UNCHANGED writeVars
        /\ UNCHANGED <<tree, removed, active, command, spoiled>>
        /\ \A c \in BarNums : ~Collide(b, e, c)
    BY <1>2, <1>8 DEF DisabledWrite, vars
  <2>2. OwnRegions' /\ Decoded' /\ DisabledApart' /\ Settled'
    BY <1>1, <1>2, <2>1, Readdressed
  <2> QED BY <1>1, <2>1, <2>2, AtOnce
<1> QED BY <1>5, <1>6, <1>7, <1>8 DEF Write

\* virtio_pci__init: every BAR is enabled and emulated at home.
LEMMA InitSettled == PciInit => BarsIInv
<1> SUFFICES ASSUME PciInit PROVE BarsIInv
  OBVIOUS
<1>1. PciInv /\ BarsOK
  BY InitPci, Parts
<1>2. /\ \A b \in BarNums : bar[b] = Bars[b].home /\ bar[b] \in Targets[b] /\ active[b] = TRUE
      /\ tree = {Region(b, Bars[b].home) : b \in BarNums} /\ removed = {}
      /\ \A v \in Vcpus : stage[v] = "idle"
  BY BarAssumption DEF PciInit
<1>3. ASSUME NEW b \in BarNums PROVE Enabled(b) /\ Homed(b) /\ Live(b)
  <2>1. Enabled(b)
    BY BarAssumption DEF PciInit, Enabled, Devs
  <2> QED BY <1>2, <2>1 DEF Homed, Live
<1>4. OwnRegions
  BY <1>2 DEF OwnRegions, Region
<1>5. Decoded /\ DisabledApart
  BY <1>3 DEF Decoded, DisabledApart
<1>6. Settled
  BY <1>2, <1>3 DEF Settled, Covered
<1> QED BY <1>1, <1>2, <1>4, <1>5, <1>6 DEF BarsIInv, OneWriter

\* Between two writes the invariant says what BarsTrue does.
LEMMA SettledTrue == BarsIInv => BarsTrue
<1> SUFFICES ASSUME BarsIInv PROVE BarsTrue
  OBVIOUS
<1>1. RemovedInUse
  BY DEF BarsIInv, PciInv, BusInv
<1>2. ASSUME Orderly, Quiet PROVE Settled /\ OwnRegions
  BY <1>2 DEF BarsIInv
<1>3. Emulated
  BY <1>2 DEF Emulated, Settled, Covered, Live
<1>4. FlagTrue
  BY <1>2 DEF FlagTrue, Settled, OwnRegions, Live
<1> QED BY <1>1, <1>3, <1>4 DEF BarsTrue

\* After any number of configuration writes by an orderly guest, the regions are
\* those the headers say: bar_active is true, every region is where its BAR points,
\* and a BAR that is decoded and overlaps no other is emulated, unless an activation
\* that failed has left it off.
THEOREM BarsHold == PciSpec => []BarsTrue
<1>1. ASSUME BarsIInv, PciNext PROVE BarsIInv'
  <2>1. PICK v \in Vcpus : Access(v) \/ Return(v) \/ Write(v) \/ Steps(v)
    BY <1>1 DEF PciNext
  <2>2. PciInv
    BY <1>1 DEF BarsIInv
  <2>3. CASE Access(v) \/ Return(v)
    BY <1>1, <2>3, AccessSettles
  <2>4. CASE Write(v)
    BY <1>1, <2>4, WriteSettles
  <2>5. CASE Scan(v) \/ SetActive(v) \/ EndLoop(v)
    <3>1. PciInv'
      BY <2>2, <2>5, QuietStepKeeps
    <3> QED BY <1>1, <2>5, <3>1, ScanSettles, SetSettles, EndSettles
  <2>6. CASE CallActivate(v) \/ CallDeactivate(v)
    <3>1. PciInv'
      BY <2>2, <2>6, CallKeeps
    <3> QED BY <1>1, <2>6, <3>1, ActivateSettles, DeactivateSettles
  <2> QED BY <2>1, <2>3, <2>4, <2>5, <2>6 DEF Steps
<1>2. ASSUME BarsIInv, UNCHANGED pciVars PROVE BarsIInv'
  <2>1. bar' = bar /\ tree' \ removed' = tree \ removed
        /\ UNCHANGED <<bar, active, command, spoiled>> /\ UNCHANGED writeVars
    BY <1>2 DEF pciVars, writeVars
  <2>2. PciInv'
    <3>1. BusInv' /\ BarsOK' /\ WritesOK'
      BY <1>2, Parts, BusStutter, BarsStutter, WritesStutter
        DEF pciVars, vars, barVars, writeVars, BarsIInv
    <3> QED BY <3>1, PartsThen
  <2>3. SameWorld /\ (OwnRegions => OwnRegions')
    BY <2>1, SameRegions DEF SameWorld
  <2> QED BY <1>2, <2>1, <2>2, <2>3, Rests DEF BarsIInv
<1> QED BY InitSettled, SettledTrue, <1>1, <1>2, PTL DEF PciSpec

-----------------------------------------------------------------------------
(* The MSI-X routes of a virtio device                                     *)

\* The GSIs that irq__add_msix_route has handed out, the pin and -EINVAL.
Issued == 0 .. Len(routes) \cup {BadGsi}

MsixTypes ==
  /\ MxTypeOK /\ vhost \in BOOLEAN
  /\ cgsi \in Issued /\ qgsi \in [MxQueues -> Issued] /\ orphans \subseteq Issued
  /\ vgsi \in [MxQueues -> Gsis] /\ irqfd \in [MxQueues -> BOOLEAN]

\* No two users have a route in common, and none has the route of a forgotten
\* eventfd: that is why the zeroing of one route, or the rewriting of one, disturbs
\* no other.
OwnRoutes ==
  /\ cgsi \in DOMAIN routes =>
       cgsi \notin orphans /\ \A q \in MxQueues : qgsi[q] # cgsi
  /\ \A q \in MxQueues : qgsi[q] \in DOMAIN routes =>
       qgsi[q] \notin orphans /\ \A p \in MxQueues : qgsi[p] = qgsi[q] => p = q

\* An eventfd is connected to the GSI of its queue, with or without a vector.
Linked == \A q \in MxQueues : linked[q] = IF vhost THEN qgsi[q] ELSE 0

MsixIInv ==
  MsixTypes /\ OwnRoutes /\ Linked /\ RouteFollowsTable /\ PinRouteKept /\ OrphansSilenced

\* The routes form a sequence within the bound; the pin and -EINVAL have none.
LEMMA RoutesSeq ==
  ASSUME MxTypeOK
  PROVE  /\ Len(routes) \in Nat /\ Len(routes) <= MaxRoutes /\ MaxRoutes \in Nat
         /\ DOMAIN routes = 1 .. Len(routes)
         /\ 0 \notin DOMAIN routes /\ BadGsi \notin DOMAIN routes
         /\ Issued \subseteq Gsis
BY MxAssumption DEF MxTypeOK, BadGsi, Issued, Gsis

\* A new route has a GSI nobody has.
LEMMA RouteAdded ==
  ASSUME MxTypeOK, NEW msg \in Msgs, AddRoute(msg)
  PROVE  /\ routes' \in Seq(Msgs) /\ Len(routes') = Len(routes) + 1 /\ Len(routes') <= MaxRoutes
         /\ DOMAIN routes' = 1 .. Len(routes) + 1
         /\ \A g \in DOMAIN routes : routes'[g] = routes[g]
         /\ routes'[NewGsi] = msg
         /\ NewGsi \in DOMAIN routes' /\ NewGsi \notin Issued
         /\ Issued' = Issued \cup {NewGsi}
         /\ Issued \cap DOMAIN routes' = DOMAIN routes
<1>1. Len(routes) \in Nat /\ Len(routes) < MaxRoutes /\ MaxRoutes \in Nat /\ routes \in Seq(Msgs)
  BY MxAssumption DEF MxTypeOK, AddRoute
<1>2. /\ routes' = Append(routes, msg)
      /\ routes' \in Seq(Msgs) /\ Len(routes') = Len(routes) + 1
  BY <1>1 DEF AddRoute
<1>3. /\ \A g \in 1 .. Len(routes) : routes'[g] = routes[g]
      /\ routes'[Len(routes) + 1] = msg
  BY <1>1, <1>2
<1>4. DOMAIN routes' = 1 .. Len(routes) + 1 /\ DOMAIN routes = 1 .. Len(routes)
  BY <1>1, <1>2
<1>5. NewGsi \in DOMAIN routes' /\ NewGsi \notin Issued
  BY <1>1, <1>4 DEF NewGsi, Issued, BadGsi
<1>6. Issued' = Issued \cup {NewGsi}
  BY <1>1, <1>2 DEF NewGsi, Issued, BadGsi
<1>7. Issued \cap DOMAIN routes' = DOMAIN routes
  BY <1>1, <1>4 DEF Issued, BadGsi
<1> QED BY <1>1, <1>2, <1>3, <1>4, <1>5, <1>6, <1>7 DEF NewGsi

\* A route is rewritten: no other is.
LEMMA RouteUpdated ==
  ASSUME MxTypeOK, NEW gsi \in Gsis, NEW msg \in Msgs, UpdateRoute(gsi, msg)
  PROVE  /\ routes' \in Seq(Msgs) /\ Len(routes') = Len(routes)
         /\ DOMAIN routes' = DOMAIN routes
         /\ \A g \in DOMAIN routes : routes'[g] = IF g = gsi THEN msg ELSE routes[g]
         /\ chip0' = IF gsi = 0 THEN msg ELSE chip0
         /\ Issued' = Issued
<1>1. routes \in Seq(Msgs)
  BY DEF MxTypeOK
<1>2. /\ routes' \in Seq(Msgs) /\ Len(routes') = Len(routes)
      /\ DOMAIN routes' = DOMAIN routes
      /\ \A g \in DOMAIN routes : routes'[g] = IF g = gsi THEN msg ELSE routes[g]
  <2>1. CASE gsi \in DOMAIN routes
    BY <1>1, <2>1 DEF UpdateRoute
  <2>2. CASE gsi \notin DOMAIN routes
    BY <1>1, <2>2 DEF UpdateRoute
  <2> QED BY <2>1, <2>2
<1> QED BY <1>2 DEF UpdateRoute, Issued, BadGsi

\* The one user of a vector that is not shared.
LEMMA OnlyUser ==
  ASSUME NEW v, ~Shared(v), v # cvec, UsersOf(v) # {}
  PROVE  /\ FirstOf(UsersOf(v)) \in MxQueues /\ qvec[FirstOf(UsersOf(v))] = v
         /\ \A q \in MxQueues : qvec[q] = v => q = FirstOf(UsersOf(v))
<1>1. IsFiniteSet(UsersOf(v))
  BY MxAssumption, FS_Subset DEF UsersOf
<1>2. Cardinality(UsersOf(v)) \in Nat /\ Cardinality(UsersOf(v)) # 0
  BY <1>1, FS_CardinalityType, FS_EmptySet
<1>3. Cardinality(UsersOf(v)) = 1
  BY <1>2 DEF Shared
<1>4. PICK x : UsersOf(v) = {x}
  BY <1>1, <1>3, FS_Singleton
<1>5. x \in Nat
  BY <1>4, MxAssumption DEF UsersOf
<1>6. FirstOf(UsersOf(v)) = x
  BY <1>4, <1>5 DEF FirstOf
<1> QED BY <1>4, <1>6 DEF UsersOf

\* The first of several users is one of them.
LEMMA FirstIsUser ==
  ASSUME NEW v, UsersOf(v) # {}
  PROVE  FirstOf(UsersOf(v)) \in MxQueues
<1>1. UsersOf(v) \subseteq Nat /\ UsersOf(v) \subseteq MxQueues
  BY MxAssumption DEF UsersOf
<1>2. \E q \in UsersOf(v) : \A p \in UsersOf(v) : q <= p
  <2> DEFINE R == {ss \in Nat \X Nat : ss[1] < ss[2]}
  <2>1. IsWellFoundedOn(R, Nat)
    BY NatLessThanWellFounded, Zenon DEF OpToRel
  <2> HIDE DEF R
  <2>2. PICK x \in UsersOf(v) : \A y \in UsersOf(v) : ~(<<y, x>> \in R)
    BY <1>1, <2>1, WFMin, Zenon
  <2>3. \A y \in UsersOf(v) : ~(y < x)
    BY <1>1, <2>2 DEF R
  <2> QED BY <1>1, <2>3
<1> QED BY <1>1, <1>2 DEF FirstOf

\* A write to a table entry reaches the route of the entry's one user; with several
\* users mixed says so, and even then it touches no forgotten route.
LEMMA WriteEntryKeeps ==
  ASSUME MsixIInv, NEW v \in Vectors, NEW msg \in Msgs, WriteEntry(v, msg)
  PROVE  MsixIInv'
<1>1. /\ UNCHANGED <<vhost, cvec, cgsi, qvec, qgsi, up, irqfd, vgsi, linked, polled, orphans>>
      /\ table' \in [Vectors -> Msgs]
      /\ \A w \in Vectors : table'[w] = IF w = v THEN msg ELSE table[w]
      /\ ~mixed' => ~mixed /\ ~Shared(v)
      /\ MxTypeOK /\ UpdateMap(v, msg)
  BY DEF WriteEntry, mxConst, vecState, vhostState, MsixIInv, MsixTypes, MxTypeOK
<1> DEFINE gsi == IF v = cvec THEN cgsi ELSE qgsi[FirstOf(UsersOf(v))]
<1>2. ASSUME v = cvec \/ UsersOf(v) # {}
      PROVE  gsi \in Issued /\ (gsi \in DOMAIN routes => gsi \notin orphans)
  BY <1>2, FirstIsUser DEF MsixIInv, MsixTypes, OwnRoutes
<1>3. /\ routes' \in Seq(Msgs) /\ Len(routes') = Len(routes) /\ DOMAIN routes' = DOMAIN routes
      /\ Issued' = Issued /\ chip0' = chip0
      /\ \A g \in orphans : g \in DOMAIN routes => routes'[g] = routes[g]
      /\ \A g \in DOMAIN routes :
           routes'[g] = IF g = gsi /\ (v = cvec \/ UsersOf(v) # {}) THEN msg ELSE routes[g]
  <2>1. CASE UNCHANGED <<routes, chip0>> /\ ((v # cvec /\ UsersOf(v) = {}) \/ gsi = 0)
    BY <1>1, <2>1, RoutesSeq DEF MxTypeOK, Issued, BadGsi
  <2>2. CASE UpdateRoute(gsi, msg) /\ (v = cvec \/ UsersOf(v) # {}) /\ gsi # 0
    <3>1. gsi \in Gsis
      BY <1>1, <1>2, <2>2, RoutesSeq
    <3> HIDE DEF gsi
    <3> QED BY <1>1, <1>2, <2>2, <3>1, RouteUpdated
  <2> QED BY <1>1, <2>1, <2>2 DEF UpdateMap, NoGsi
<1>4. MsixTypes' /\ Linked'
  BY <1>1, <1>3 DEF MsixIInv, MsixTypes, MxTypeOK, Linked, Gsis, BadGsi
<1>5. OwnRoutes' /\ PinRouteKept' /\ OrphansSilenced'
  BY <1>1, <1>3 DEF MsixIInv, OwnRoutes, PinRouteKept, OrphansSilenced
<1>6. RouteFollowsTable'
  <2>1. /\ cvec # NoVector => cgsi \in DOMAIN routes /\ cvec \in Vectors
        /\ \A q \in MxQueues : qvec[q] # NoVector =>
             qgsi[q] \in DOMAIN routes /\ qvec[q] \in Vectors
    BY <1>1 DEF MsixIInv, RouteFollowsTable, MxTypeOK
  <2>2. v # NoVector
    BY MxAssumption
  <2>3. ASSUME ~mixed', cvec # NoVector PROVE routes'[cgsi] = table'[cvec]
    <3>1. routes[cgsi] = table[cvec]
      BY <1>1, <2>3 DEF MsixIInv, RouteFollowsTable
    <3>2. CASE cvec = v
      BY <1>1, <1>3, <2>1, <2>3, <3>2
    <3>3. CASE cvec # v
      <4>1. ASSUME UsersOf(v) # {} PROVE gsi # cgsi
        BY <1>1, <2>1, <2>3, <3>3, <4>1, FirstIsUser DEF MsixIInv, OwnRoutes
      <4> QED BY <1>1, <1>3, <2>1, <2>3, <3>1, <3>3, <4>1
    <3> QED BY <3>2, <3>3
  <2>4. ASSUME ~mixed', NEW q \in MxQueues, qvec[q] # NoVector
        PROVE  routes'[qgsi[q]] = table'[qvec[q]]
    <3>1. routes[qgsi[q]] = table[qvec[q]] /\ ~Shared(v)
      BY <1>1, <2>4 DEF MsixIInv, RouteFollowsTable
    <3>2. CASE qvec[q] = v
      <4>1. q \in UsersOf(v) /\ v # cvec
        BY <3>1, <3>2 DEF Shared, UsersOf
      <4>2. gsi = qgsi[q]
        BY <3>1, <3>2, <4>1, OnlyUser
      <4> QED BY <1>1, <1>3, <2>1, <2>4, <3>2, <4>1, <4>2
    <3>3. CASE qvec[q] # v
      <4>1. ASSUME v = cvec PROVE gsi # qgsi[q]
        BY <2>1, <2>2, <2>4, <4>1 DEF MsixIInv, OwnRoutes
      <4>2. ASSUME v # cvec, UsersOf(v) # {} PROVE gsi # qgsi[q]
        <5>1. FirstOf(UsersOf(v)) \in MxQueues /\ FirstOf(UsersOf(v)) # q
          BY <3>1, <3>3, <4>2, OnlyUser
        <5> QED BY <2>1, <2>4, <4>2, <5>1 DEF MsixIInv, OwnRoutes
      <4> QED BY <1>1, <1>3, <2>1, <2>4, <3>1, <3>3, <4>1, <4>2
    <3> QED BY <3>2, <3>3
  <2> QED BY <1>1, <1>3, <2>1, <2>3, <2>4 DEF RouteFollowsTable
<1> QED BY <1>4, <1>5, <1>6 DEF MsixIInv

\* The configuration gets a vector, and with it a route of its own.
LEMMA ConfigVectorKeeps ==
  ASSUME MsixIInv, NEW v \in Vectors \cup {NoVector}, WriteConfigVector(v)
  PROVE  MsixIInv'
<1>1. /\ UNCHANGED <<vhost, table, qvec, qgsi, up, chip0, irqfd, vgsi, linked, polled, orphans,
                     mixed>>
      /\ cvec' = v /\ MxTypeOK
  BY DEF WriteConfigVector, mxConst, vhostState, MsixIInv, MsixTypes
<1>2. CASE v = NoVector
  <2>1. UNCHANGED routes /\ cgsi' \in {cgsi, BadGsi}
    BY <1>2 DEF WriteConfigVector
  <2>2. Issued' = Issued /\ cgsi' \in Issued /\ cgsi' \in Gsis
    BY <1>1, <2>1, RoutesSeq DEF Issued, BadGsi, MsixIInv, MsixTypes
  <2>3. MsixTypes' /\ Linked'
    BY <1>1, <2>1, <2>2 DEF MsixIInv, MsixTypes, MxTypeOK, Linked, Gsis, BadGsi
  <2>4. OwnRoutes' /\ PinRouteKept' /\ OrphansSilenced'
    BY <1>1, <2>1, RoutesSeq DEF MsixIInv, OwnRoutes, PinRouteKept, OrphansSilenced
  <2>5. RouteFollowsTable'
    BY <1>1, <1>2, <2>1 DEF MsixIInv, RouteFollowsTable
  <2> QED BY <2>3, <2>4, <2>5 DEF MsixIInv
<1>3. CASE v # NoVector
  <2>1. v \in Vectors /\ table[v] \in Msgs /\ AddRoute(table[v]) /\ cgsi' = NewGsi
    BY <1>1, <1>3 DEF WriteConfigVector, MxTypeOK
  <2>2. /\ routes' \in Seq(Msgs) /\ Len(routes') <= MaxRoutes
        /\ \A g \in DOMAIN routes : routes'[g] = routes[g]
        /\ routes'[NewGsi] = table[v]
        /\ NewGsi \in DOMAIN routes' /\ NewGsi \notin Issued
        /\ Issued' = Issued \cup {NewGsi}
        /\ Issued \cap DOMAIN routes' = DOMAIN routes
    BY <1>1, <2>1, RouteAdded
  <2>3. MxTypeOK'
    <3>1. NewGsi \in Gsis
      BY <1>1, <2>1, RoutesSeq DEF NewGsi, Gsis, BadGsi, AddRoute
    <3> QED BY <1>1, <2>1, <2>2, <3>1 DEF MxTypeOK, Gsis, BadGsi
  <2>4. MsixTypes' /\ Linked'
    BY <1>1, <2>1, <2>2, <2>3 DEF MsixIInv, MsixTypes, Linked, Gsis, BadGsi
  <2> HIDE DEF NewGsi, Issued
  <2>5. OwnRoutes' /\ PinRouteKept' /\ OrphansSilenced'
    BY <1>1, <2>1, <2>2 DEF MsixIInv, MsixTypes, OwnRoutes, PinRouteKept, OrphansSilenced
  <2>6. RouteFollowsTable'
    BY <1>1, <2>1, <2>2 DEF MsixIInv, MsixTypes, RouteFollowsTable
  <2> QED BY <2>4, <2>5, <2>6 DEF MsixIInv
<1> QED BY <1>2, <1>3

\* What notify_vq_gsi leaves: the eventfd of a vhost queue is connected to the GSI.
LEMMA GsiNotified ==
  ASSUME MsixTypes, Linked, NEW q \in MxQueues, NEW gsi \in Gsis, NotifyGsi(q, gsi)
  PROVE  /\ orphans' = orphans /\ polled' \subseteq MxQueues
         /\ vgsi' \in [MxQueues -> Gsis] /\ irqfd' \in [MxQueues -> BOOLEAN]
         /\ linked' \in [MxQueues -> Gsis]
         /\ \A p \in MxQueues : linked'[p] = IF vhost /\ p = q THEN gsi ELSE linked[p]
<1>1. CASE vhost
  BY <1>1 DEF NotifyGsi, ConnectIrqfd, MsixTypes, MxTypeOK
<1>2. CASE ~vhost
  BY <1>2 DEF NotifyGsi, vhostState, MsixTypes, MxTypeOK
<1> QED BY <1>1, <1>2

\* A queue gets a vector, and with it a route of its own; its eventfd follows.
LEMMA QueueVectorKeeps ==
  ASSUME MsixIInv, NEW q \in MxQueues, NEW v \in Vectors \cup {NoVector}, WriteQueueVector(q, v)
  PROVE  MsixIInv'
<1>1. /\ UNCHANGED <<vhost, table, cvec, cgsi, up, chip0, mixed>>
      /\ qvec' \in [MxQueues -> Vectors \cup {NoVector}]
      /\ \A p \in MxQueues : qvec'[p] = IF p = q THEN v ELSE qvec[p]
      /\ MxTypeOK /\ MsixTypes /\ Linked
  BY DEF WriteQueueVector, mxConst, MsixIInv, MsixTypes, MxTypeOK
<1>2. CASE v = NoVector /\ ~modern
  <2>1. UNCHANGED <<qgsi, routes, irqfd, vgsi, linked, polled, orphans>>
    BY <1>2, MxAssumption DEF WriteQueueVector, vhostState
  <2>2. MsixTypes' /\ Linked'
    BY <1>1, <2>1 DEF MsixTypes, MxTypeOK, Linked, Gsis, BadGsi, Issued
  <2>3. OwnRoutes' /\ PinRouteKept' /\ OrphansSilenced'
    BY <1>1, <2>1 DEF MsixIInv, OwnRoutes, PinRouteKept, OrphansSilenced
  <2>4. RouteFollowsTable'
    BY <1>1, <1>2, <2>1 DEF MsixIInv, RouteFollowsTable
  <2> QED BY <2>2, <2>3, <2>4 DEF MsixIInv
<1>3. CASE v = NoVector /\ modern
  <2>1. /\ UNCHANGED routes /\ NotifyGsi(q, BadGsi)
        /\ qgsi' = [qgsi EXCEPT ![q] = BadGsi]
    BY <1>3 DEF WriteQueueVector
  <2>2. BadGsi \in Gsis /\ BadGsi \in Issued /\ Issued' = Issued /\ BadGsi \notin DOMAIN routes
    BY <1>1, <2>1, RoutesSeq DEF Issued, BadGsi, Gsis
  <2>3. /\ qgsi' \in [MxQueues -> Issued] /\ qgsi' \in [MxQueues -> Gsis]
        /\ \A p \in MxQueues : qgsi'[p] = IF p = q THEN BadGsi ELSE qgsi[p]
    BY <1>1, <2>1, <2>2 DEF MsixTypes, MxTypeOK
  <2> HIDE DEF BadGsi, Issued, Gsis
  <2>4. /\ orphans' = orphans /\ polled' \subseteq MxQueues
        /\ vgsi' \in [MxQueues -> Gsis] /\ irqfd' \in [MxQueues -> BOOLEAN]
        /\ linked' \in [MxQueues -> Gsis]
        /\ \A p \in MxQueues : linked'[p] = IF vhost /\ p = q THEN BadGsi ELSE linked[p]
    BY <1>1, <2>1, <2>2, GsiNotified
  <2>5. Gsis' = Gsis
    BY DEF Gsis, BadGsi
  <2>6. MsixTypes' /\ Linked'
    BY <1>1, <2>1, <2>2, <2>3, <2>4, <2>5 DEF MsixTypes, MxTypeOK, Linked
  <2>7. OwnRoutes' /\ PinRouteKept' /\ OrphansSilenced'
    BY <1>1, <2>1, <2>2, <2>3, <2>4 DEF MsixIInv, OwnRoutes, PinRouteKept, OrphansSilenced
  <2>8. RouteFollowsTable'
    BY <1>1, <1>3, <2>1, <2>3 DEF MsixIInv, RouteFollowsTable
  <2> QED BY <2>6, <2>7, <2>8 DEF MsixIInv
<1>4. CASE v # NoVector
  <2>1. /\ v \in Vectors /\ table[v] \in Msgs /\ AddRoute(table[v])
        /\ qgsi' = [qgsi EXCEPT ![q] = NewGsi] /\ NotifyGsi(q, NewGsi)
    BY <1>1, <1>4 DEF WriteQueueVector, MxTypeOK
  <2>2. /\ routes' \in Seq(Msgs) /\ Len(routes') <= MaxRoutes
        /\ \A g \in DOMAIN routes : routes'[g] = routes[g]
        /\ routes'[NewGsi] = table[v]
        /\ NewGsi \in DOMAIN routes' /\ NewGsi \notin Issued
        /\ Issued' = Issued \cup {NewGsi}
        /\ Issued \cap DOMAIN routes' = DOMAIN routes
    BY <1>1, <2>1, RouteAdded
  <2>3. NewGsi \in Gsis
    BY <1>1, <2>1, RoutesSeq DEF NewGsi, Gsis, BadGsi, AddRoute
  <2> HIDE DEF NewGsi, Issued, Gsis
  <2>4. /\ qgsi' \in [MxQueues -> Issued'] /\ qgsi' \in [MxQueues -> Gsis]
        /\ \A p \in MxQueues : qgsi'[p] = IF p = q THEN NewGsi ELSE qgsi[p]
    BY <1>1, <2>1, <2>2, <2>3 DEF MsixTypes, MxTypeOK
  <2>5. /\ orphans' = orphans /\ polled' \subseteq MxQueues
        /\ vgsi' \in [MxQueues -> Gsis] /\ irqfd' \in [MxQueues -> BOOLEAN]
        /\ linked' \in [MxQueues -> Gsis]
        /\ \A p \in MxQueues : linked'[p] = IF vhost /\ p = q THEN NewGsi ELSE linked[p]
    BY <1>1, <2>1, <2>3, GsiNotified
  <2>6. Gsis' = Gsis
    BY DEF Gsis, BadGsi
  <2>7. MsixTypes' /\ Linked'
    BY <1>1, <2>2, <2>4, <2>5, <2>6 DEF MsixTypes, MxTypeOK, Linked
  <2>8. OwnRoutes' /\ PinRouteKept' /\ OrphansSilenced'
    BY <1>1, <2>2, <2>4, <2>5 DEF MsixIInv, MsixTypes, OwnRoutes, PinRouteKept, OrphansSilenced
  <2>9. RouteFollowsTable'
    BY <1>1, <2>1, <2>2, <2>4 DEF MsixIInv, MsixTypes, RouteFollowsTable
  <2> QED BY <2>7, <2>8, <2>9 DEF MsixIInv
<1> QED BY <1>2, <1>3, <1>4

\* A queue comes up: nothing is said of the epoll set, and the GSI is as it was.
LEMMA InitQueueKeeps ==
  ASSUME MsixIInv, NEW q \in MxQueues, InitQueue(q)
  PROVE  MsixIInv'
<1>1. /\ UNCHANGED <<vhost, table, cvec, cgsi, qvec, qgsi, routes, chip0, vgsi, linked, orphans,
                     mixed>>
      /\ up' \subseteq MxQueues /\ polled' \subseteq MxQueues /\ irqfd' \in [MxQueues -> BOOLEAN]
  BY DEF InitQueue, mxConst, vecState, vhostState, MsixIInv, MsixTypes, MxTypeOK
<1>2. MsixTypes' /\ Linked'
  BY <1>1 DEF MsixIInv, MsixTypes, MxTypeOK, Linked, Gsis, BadGsi, Issued
<1>3. OwnRoutes' /\ PinRouteKept' /\ OrphansSilenced' /\ RouteFollowsTable'
  BY <1>1 DEF MsixIInv, OwnRoutes, PinRouteKept, OrphansSilenced, RouteFollowsTable
<1> QED BY <1>2, <1>3 DEF MsixIInv

\* A queue goes down: its route is zeroed before its eventfd may be forgotten.
LEMMA ExitQueueKeeps ==
  ASSUME MsixIInv, NEW q \in MxQueues, ExitQueue(q)
  PROVE  MsixIInv'
<1>1. /\ UNCHANGED <<vhost, table, cvec, cgsi, mixed>>
      /\ MxTypeOK /\ MsixTypes /\ Linked
      /\ qvec' \in [MxQueues -> Vectors \cup {NoVector}]
      /\ \A p \in MxQueues : qvec'[p] = IF p = q THEN NoVector ELSE qvec[p]
      /\ irqfd' \in [MxQueues -> BOOLEAN]
      /\ up' \subseteq MxQueues /\ polled' \subseteq MxQueues
      /\ orphans' \subseteq orphans \cup {qgsi[q]}
  <2>1. linked[q] \in {0, qgsi[q]}
    BY DEF MsixIInv, Linked
  <2> QED BY <2>1 DEF ExitQueue, mxConst, MsixIInv, MsixTypes, MxTypeOK
<1>2. 0 \in Gsis /\ 0 \in Issued /\ 0 \notin DOMAIN routes /\ qgsi[q] \in Gsis
      /\ qgsi[q] \in Issued /\ ZeroMsg \in Msgs
  BY <1>1, RoutesSeq, MxAssumption DEF Gsis, Issued, BadGsi, MsixTypes
<1>3. /\ vgsi' \in [MxQueues -> Gsis] /\ linked' \in [MxQueues -> Gsis]
      /\ qgsi' \in [MxQueues -> Issued] /\ qgsi' \in [MxQueues -> Gsis]
      /\ \A p \in MxQueues : /\ qgsi'[p] = IF p = q THEN 0 ELSE qgsi[p]
                             /\ linked'[p] = IF p = q THEN 0 ELSE linked[p]
  <2> HIDE DEF Gsis, Issued
  <2> QED BY <1>1, <1>2 DEF ExitQueue, MsixTypes, MxTypeOK
<1>4. /\ routes' \in Seq(Msgs) /\ Len(routes') = Len(routes) /\ DOMAIN routes' = DOMAIN routes
      /\ \A g \in DOMAIN routes : routes'[g] = IF g = qgsi[q] THEN ZeroMsg ELSE routes[g]
      /\ chip0' = (IF qgsi[q] = 0 THEN ZeroMsg ELSE chip0)
      /\ Issued' = Issued
  <2>1. UpdateRoute(qgsi[q], ZeroMsg)
    BY DEF ExitQueue, RouteZeroed
  <2> HIDE DEF Issued, Gsis
  <2> QED BY <1>1, <1>2, <2>1, RouteUpdated
<1>5. Gsis' = Gsis
  BY DEF Gsis, BadGsi
<1> HIDE DEF Issued, Gsis
<1>6. MsixTypes' /\ Linked'
  BY <1>1, <1>2, <1>3, <1>4, <1>5 DEF MsixTypes, MxTypeOK, Linked
<1>7. OwnRoutes' /\ PinRouteKept' /\ OrphansSilenced'
  BY <1>1, <1>2, <1>3, <1>4 DEF MsixIInv, OwnRoutes, PinRouteKept, OrphansSilenced
<1>8. RouteFollowsTable'
  BY <1>1, <1>3, <1>4 DEF MsixIInv, OwnRoutes, RouteFollowsTable
<1> QED BY <1>6, <1>7, <1>8 DEF MsixIInv

\* The reset zeroes the route of the configuration.
LEMMA ResetConfigKeeps ==
  ASSUME MsixIInv, ResetConfig
  PROVE  MsixIInv'
<1>1. /\ UNCHANGED <<vhost, table, qvec, qgsi, up, irqfd, vgsi, linked, polled, orphans, mixed>>
      /\ cgsi' = 0 /\ cvec' = NoVector /\ MxTypeOK /\ MsixTypes /\ Linked
      /\ UpdateRoute(cgsi, ZeroMsg)
  BY DEF ResetConfig, mxConst, vhostState, MsixIInv, MsixTypes
<1>2. 0 \in Gsis /\ 0 \in Issued /\ 0 \notin DOMAIN routes /\ cgsi \in Gsis /\ ZeroMsg \in Msgs
  BY <1>1, RoutesSeq, MxAssumption DEF Gsis, Issued, BadGsi, MsixTypes
<1> HIDE DEF Issued, Gsis
<1>3. /\ routes' \in Seq(Msgs) /\ Len(routes') = Len(routes) /\ DOMAIN routes' = DOMAIN routes
      /\ \A g \in DOMAIN routes : routes'[g] = IF g = cgsi THEN ZeroMsg ELSE routes[g]
      /\ chip0' = (IF cgsi = 0 THEN ZeroMsg ELSE chip0)
      /\ Issued' = Issued
  BY <1>1, <1>2, RouteUpdated
<1>4. Gsis' = Gsis
  BY DEF Gsis, BadGsi
<1>5. MsixTypes' /\ Linked'
  BY <1>1, <1>2, <1>3, <1>4 DEF MsixTypes, MxTypeOK, Linked
<1>6. OwnRoutes' /\ PinRouteKept' /\ OrphansSilenced'
  BY <1>1, <1>2, <1>3 DEF MsixIInv, OwnRoutes, PinRouteKept, OrphansSilenced
<1>7. RouteFollowsTable'
  BY <1>1, <1>2, <1>3 DEF MsixIInv, OwnRoutes, RouteFollowsTable
<1> QED BY <1>5, <1>6, <1>7 DEF MsixIInv

\* Every access to the MSI-X table, the PBA or the control word, or a
\* stutter, keeps MsixIInv.
LEMMA MsixKept == ASSUME MsixIInv, [MxNext]_mxVars PROVE MsixIInv'
<1>1. CASE UNCHANGED mxVars
  BY <1>1 DEF mxVars, mxConst, vecState, vhostState, MsixIInv, MsixTypes, MxTypeOK, Issued, Gsis,
              BadGsi, OwnRoutes, Linked, RouteFollowsTable, PinRouteKept, OrphansSilenced
<1> QED BY <1>1, WriteEntryKeeps, ConfigVectorKeeps, QueueVectorKeeps, InitQueueKeeps,
           ExitQueueKeeps, ResetConfigKeeps DEF MxNext

-----------------------------------------------------------------------------
(* Passed-through devices                                                  *)

\* The devices of a group that hold a reference to it.
Of(g) == {d \in vheld : groupOf[d] = g}

\* Who holds a reference, phase by phase: the devices come and go in order.
HeldInOrder ==
  /\ vphase = "container" => vheld = {d \in VdDevices : d < turn}
  /\ vphase \in {"devices", "running"} => vheld = VdDevices
  /\ vphase = "running" => turn = 1
  /\ vphase = "exit" => vheld = {d \in VdDevices : d >= turn} /\ turn # 1
  /\ vphase = "gone" => vheld = {}

GroupIInv ==
  /\ vphase \in {"container", "devices", "running", "exit", "gone", "failed"}
  /\ turn \in VdDevices /\ vheld \subseteq VdDevices
  /\ groupOf \in [VdDevices -> VdGroups] /\ groups \in [VdGroups -> Nat]
  /\ HeldInOrder
  /\ \A g \in VdGroups : groups[g] = Cardinality(Of(g))

\* A BAR that is trapped, or mapped.
Trapped(b) == barOn[b] /\ ~hostAddr[b]
Mapped(b) == barOn[b] /\ hostAddr[b]

\* While the machine runs: the traps and the memory are those of the active BARs,
\* and no two BARs have a trap or a slot in common, so that the deactivation of
\* one takes nothing from the other.
RegionsOfBars ==
  /\ \A b \in VdBars : hostAddr[b] => barOn[b]
  /\ \A t : t \in handlers <=> \E b \in VdBars : Trapped(b) /\ t \in Traps(b, vaddrs[b])
  /\ \A a : a \in slots <=> \E b \in VdBars : Mapped(b) /\ a = vaddrs[b]
  /\ \A b, c \in VdBars : b # c =>
       /\ Trapped(b) /\ Trapped(c) => Traps(b, vaddrs[b]) \cap Traps(c, vaddrs[c]) = {}
       /\ Mapped(b) /\ Mapped(c) => vaddrs[b] # vaddrs[c]

RegionIInv ==
  /\ barOn \in [VdBars -> BOOLEAN] /\ hostAddr \in [VdBars -> BOOLEAN]
  /\ vaddrs \in [VdBars -> Nat]
  /\ vphase \in {"container", "devices"} =>
       handlers = {} /\ slots = {} /\ \A b \in VdBars : ~barOn[b] /\ ~hostAddr[b]
  /\ ~half /\ vphase = "running" => RegionsOfBars
  /\ ~half /\ vphase \in {"exit", "gone"} =>
       slots = {} /\ \A t \in handlers : t.part = "pba_shared"

VfioDevIInv == GroupIInv /\ RegionIInv

\* The devices are the numbers up to LastDevice, so every set of them is
\* finite.
LEMMA DevicesNumbered ==
  /\ LastDevice \in Nat \ {0} /\ VdDevices = 1 .. LastDevice
  /\ \A S \in SUBSET VdDevices : IsFiniteSet(S)
BY VdAssumption, FS_CardinalityType, FS_Subset DEF LastDevice

\* A device takes a reference to its group.
LEMMA HeldOneMore ==
  ASSUME GroupIInv, NEW d \in VdDevices, d \notin vheld, UNCHANGED groupOf,
         vheld' = vheld \cup {d},
         groups' = [groups EXCEPT ![groupOf[d]] = groups[groupOf[d]] + 1]
  PROVE  /\ groups' \in [VdGroups -> Nat]
         /\ \A g \in VdGroups : groups'[g] = Cardinality(Of(g)')
<1>1. groupOf[d] \in VdGroups /\ groups' \in [VdGroups -> Nat]
  BY DEF GroupIInv
<1>2. ASSUME NEW g \in VdGroups PROVE groups'[g] = Cardinality(Of(g)')
  <2>1. IsFiniteSet(Of(g)) /\ d \notin Of(g)
    BY DevicesNumbered DEF Of, GroupIInv
  <2>2. CASE g = groupOf[d]
    <3>1. Of(g)' = Of(g) \cup {d}
      BY <2>2 DEF Of
    <3>2. Cardinality(Of(g) \cup {d}) = Cardinality(Of(g)) + 1
      BY <2>1, FS_AddElement
    <3> QED BY <2>2, <3>1, <3>2 DEF GroupIInv
  <2>3. CASE g # groupOf[d]
    <3>1. Of(g)' = Of(g)
      BY <2>3 DEF Of
    <3> QED BY <2>3, <3>1 DEF GroupIInv
  <2> QED BY <2>2, <2>3
<1> QED BY <1>1, <1>2

\* A device lets its group go.
LEMMA HeldOneLess ==
  ASSUME GroupIInv, NEW d \in VdDevices, d \in vheld, UNCHANGED groupOf,
         vheld' = vheld \ {d},
         groups' = [groups EXCEPT ![groupOf[d]] = groups[groupOf[d]] - 1]
  PROVE  /\ groups' \in [VdGroups -> Nat]
         /\ \A g \in VdGroups : groups'[g] = Cardinality(Of(g)')
<1>1. groupOf[d] \in VdGroups
  BY DEF GroupIInv
<1>2. ASSUME NEW g \in VdGroups PROVE groups'[g] = Cardinality(Of(g)') /\ groups'[g] \in Nat
  <2>1. IsFiniteSet(Of(g)) /\ Cardinality(Of(g)) \in Nat /\ groups[g] = Cardinality(Of(g))
    BY DevicesNumbered, FS_CardinalityType DEF Of, GroupIInv
  <2>2. CASE g = groupOf[d]
    <3>1. Of(g)' = Of(g) \ {d} /\ d \in Of(g)
      BY <2>2 DEF Of
    <3>2. /\ Cardinality(Of(g) \ {d}) = Cardinality(Of(g)) - 1 /\ IsFiniteSet(Of(g) \ {d})
      BY <2>1, <3>1, FS_RemoveElement
    <3>3. Cardinality(Of(g) \ {d}) \in Nat
      BY <3>2, FS_CardinalityType
    <3>4. groups'[g] = groups[g] - 1
      BY <1>1, <2>2 DEF GroupIInv
    <3> QED BY <2>1, <3>1, <3>2, <3>3, <3>4
  <2>3. CASE g # groupOf[d]
    <3>1. Of(g)' = Of(g)
      BY <2>3 DEF Of
    <3>2. groups'[g] = groups[g]
      BY <2>3 DEF GroupIInv
    <3> QED BY <2>1, <3>1, <3>2
  <2> QED BY <2>2, <2>3
<1>3. groups' \in [VdGroups -> Nat]
  <2>1. groups' = [g \in VdGroups |-> groups'[g]]
    BY DEF GroupIInv
  <2> QED BY <1>2, <2>1
<1> QED BY <1>2, <1>3

\* The groups over the life of the machine.
LEMMA GroupKept == ASSUME GroupIInv, [VdNext]_vdVars PROVE GroupIInv'
<1>1. CASE UNCHANGED <<groupOf, vphase, turn, groups, vheld>>
  BY <1>1 DEF GroupIInv, HeldInOrder, Of
<1>2. ASSUME NEW ok \in BOOLEAN, InitDevice(ok) PROVE GroupIInv'
  <2>1. vphase = "container" /\ groupOf' = groupOf /\ turn \in VdDevices /\ turn \in Nat
    BY <1>2, DevicesNumbered DEF InitDevice, vdConst, GroupIInv
  <2>2. CASE vphase' = "failed" /\ UNCHANGED <<turn, groups, vheld>>
    BY <2>1, <2>2 DEF GroupIInv, HeldInOrder, Of
  <2>3. CASE /\ groups' = [groups EXCEPT ![groupOf[turn]] = groups[groupOf[turn]] + 1]
             /\ vheld' = vheld \cup {turn}
             /\ IF turn = LastDevice
                THEN vphase' = "devices" /\ turn' = 1
                ELSE turn' = turn + 1 /\ UNCHANGED vphase
    <3>1. turn \notin vheld
      BY <2>1 DEF GroupIInv, HeldInOrder
    <3>2. /\ groups' \in [VdGroups -> Nat]
          /\ \A g \in VdGroups : groups'[g] = Cardinality(Of(g)')
      BY <2>1, <2>3, <3>1, HeldOneMore
    <3>3. vheld' = {d \in VdDevices : d <= turn}
      BY <2>1, <2>3, DevicesNumbered DEF GroupIInv, HeldInOrder
    <3>4. /\ turn' \in VdDevices /\ vheld' \subseteq VdDevices
          /\ HeldInOrder'
      BY <2>1, <2>3, <3>3, DevicesNumbered DEF HeldInOrder
    <3> QED BY <2>1, <2>3, <3>2, <3>4 DEF GroupIInv
  <2> QED BY <1>2, <2>2, <2>3 DEF InitDevice, RefsWith
<1>3. ASSUME NEW ok \in BOOLEAN, ConfigureDevice(ok) PROVE GroupIInv'
  <2>1. /\ UNCHANGED <<groupOf, groups, vheld>> /\ vphase = "devices"
        /\ \/ vphase' = "running" /\ turn' = 1
           \/ vphase' = "devices" /\ turn' = turn + 1 /\ turn # LastDevice
           \/ vphase' = "failed" /\ turn' = turn
    BY <1>3 DEF ConfigureDevice, vdConst
  <2>2. turn' \in VdDevices
    BY <2>1, DevicesNumbered DEF GroupIInv
  <2> QED BY <2>1, <2>2 DEF GroupIInv, HeldInOrder, Of
<1>4. CASE VfioExit
  <2>1. /\ vphase \in {"running", "exit"} /\ groupOf' = groupOf /\ turn \in VdDevices
        /\ turn \in Nat /\ vheld' = vheld \ {turn}
        /\ groups' = [groups EXCEPT ![groupOf[turn]] = groups[groupOf[turn]] - 1]
        /\ \/ turn = LastDevice /\ vphase' = "gone" /\ turn' = turn
           \/ turn # LastDevice /\ vphase' = "exit" /\ turn' = turn + 1
    BY <1>4, DevicesNumbered DEF VfioExit, vdConst, GroupIInv
  <2>2. vheld = {d \in VdDevices : d >= turn}
    BY <2>1, DevicesNumbered DEF GroupIInv, HeldInOrder
  <2>3. /\ groups' \in [VdGroups -> Nat]
        /\ \A g \in VdGroups : groups'[g] = Cardinality(Of(g)')
    <3>1. turn \in vheld
      BY <2>1, <2>2
    <3> HIDE DEF GroupIInv
    <3> QED BY <2>1, <3>1, HeldOneLess
  <2>4. vheld' = {d \in VdDevices : d > turn}
    BY <2>1, <2>2, DevicesNumbered
  <2>5. turn' \in VdDevices /\ vheld' \subseteq VdDevices
    BY <2>1, <2>4, DevicesNumbered
  <2>6. CASE turn = LastDevice
    <3>1. vheld' = {}
      BY <2>4, <2>6, DevicesNumbered
    <3> QED BY <2>1, <2>3, <2>5, <2>6, <3>1 DEF GroupIInv, HeldInOrder
  <2>7. CASE turn # LastDevice
    <3>1. vphase' = "exit" /\ turn' = turn + 1 /\ turn' # 1
      BY <2>1, <2>7, DevicesNumbered
    <3>2. vheld' = {d \in VdDevices : d >= turn'}
      BY <2>1, <2>4, <3>1, DevicesNumbered
    <3>3. HeldInOrder'
      BY <3>1, <3>2 DEF HeldInOrder
    <3> QED BY <2>1, <2>3, <2>5, <3>1, <3>3 DEF GroupIInv
  <2> QED BY <2>6, <2>7
<1>5. ASSUME NEW b \in VdBars, Deactivate(b) \/ \E a \in VdAddrs : VdActivate(b, a)
      PROVE  UNCHANGED <<groupOf, vphase, turn, groups, vheld>>
  BY <1>5 DEF Deactivate, VdActivate, vdConst, groupState
<1>6. CASE UNCHANGED vdVars
  BY <1>1, <1>6 DEF vdVars, vdConst, groupState
<1> QED BY <1>1, <1>2, <1>3, <1>4, <1>5, <1>6 DEF VdNext

\* Every trap of a BAR starts at the BAR's address and is on the bus of its kind.
LEMMA TrapsOfOneBar ==
  ASSUME NEW b \in VdBars, NEW a, NEW t \in Traps(b, a)
  PROVE  /\ t.at = a
         /\ t.bus = IF layout[b + 1] = "io" THEN "io" ELSE "mmio"
<1> DEFINE kind == layout[b + 1]
<1>1. CASE kind = "io"
  <2>1. t = Trap("io", a, "region")
    BY <1>1 DEF Traps
  <2> QED BY <1>1, <2>1 DEF Trap
<1>2. CASE kind # "io"
  <2>1. \E p : t = Trap("mmio", a, p)
    <3> HIDE DEF Trap
    <3>1. CASE kind = "shared"
      BY <3>1 DEF Traps
    <3>2. CASE kind = "table"
      BY <3>2 DEF Traps
    <3>3. CASE kind = "pba"
      BY <3>3 DEF Traps
    <3>4. CASE kind \notin {"shared", "table", "pba", "io"}
      <4>1. Traps(b, a) = {Trap("mmio", a, "region")}
        BY <3>4 DEF Traps
      <4> QED BY <4>1
    <3> QED BY <1>2, <3>1, <3>2, <3>3, <3>4
  <2> QED BY <1>2, <2>1 DEF Trap
<1> QED BY <1>1, <1>2

\* What vfio_unmap_region leaves.
LEMMA WhatUnmapLeaves ==
  ASSUME NEW b \in VdBars, NEW h, NEW s
  PROVE  /\ Unmapped(b, h, s)[1] \subseteq h /\ Unmapped(b, h, s)[2] \subseteq s
         /\ hostAddr[b] => vaddrs[b] \notin Unmapped(b, h, s)[2]
         /\ ~hostAddr[b] => \A t \in Unmapped(b, h, s)[1] :
              \/ t.at # vaddrs[b]
              \/ t.bus # IF layout[b + 1] = "io" THEN "io" ELSE "mmio"
              \/ t.part = "pba_shared"
<1>1. CASE hostAddr[b]
  <2>1. Unmapped(b, h, s) = <<h, s \ {vaddrs[b]}>>
    BY <1>1 DEF Unmapped
  <2> QED BY <1>1, <2>1
<1>2. CASE ~hostAddr[b] /\ layout[b + 1] = "io"
  <2>1. Unmapped(b, h, s) = <<{t \in h : t.bus # "io" \/ t.at # vaddrs[b]}, s>>
    BY <1>2 DEF Unmapped
  <2> QED BY <1>2, <2>1
<1>3. CASE ~hostAddr[b] /\ layout[b + 1] # "io"
  <2>1. Unmapped(b, h, s) =
          <<{t \in h : t.bus # "mmio" \/ t.at # vaddrs[b] \/ t.part = "pba_shared"}, s>>
    BY <1>3 DEF Unmapped
  <2> QED BY <1>3, <2>1
<1> QED BY <1>1, <1>2, <1>3

\* A BAR whose activation ends in traps.
LEMMA TrapsActivated ==
  ASSUME RegionIInv, ~half, vphase = "running", NEW b \in VdBars, ~barOn[b], NEW a \in VdAddrs,
         vaddrs' = [vaddrs EXCEPT ![b] = a], layout' = layout, ActivateTraps(b, a)
  PROVE  RegionsOfBars'
<1>1. RegionsOfBars /\ ~hostAddr[b] /\ b \in VdBars
  BY DEF RegionIInv, RegionsOfBars
<1>2. /\ Trapped(b)' /\ ~Mapped(b)' /\ vaddrs'[b] = a
      /\ \A x : Traps(b, x)' = Traps(b, x)
      /\ \A c \in VdBars : hostAddr'[c] => barOn'[c]
  BY <1>1 DEF ActivateTraps, RegionIInv, RegionsOfBars, Trapped, Mapped, Traps
<1>3. \A c \in VdBars : c # b =>
        /\ Trapped(c)' <=> Trapped(c)
        /\ Mapped(c)' <=> Mapped(c)
        /\ vaddrs'[c] = vaddrs[c]
  BY DEF ActivateTraps, RegionIInv, Trapped, Mapped
<1>4. ~Trapped(b) /\ ~Mapped(b)
  BY DEF Trapped, Mapped
<1>5. \A c : \A x : Traps(c, x)' = Traps(c, x)
  BY DEF Traps
<1>6. ASSUME NEW c \in VdBars, c # b, Trapped(c) PROVE Traps(c, vaddrs[c]) \cap Traps(b, a) = {}
  <2>1. Traps(c, vaddrs[c]) \subseteq handlers
    BY <1>1, <1>6 DEF RegionsOfBars
  <2>2. \A t \in Traps(b, a) : t \notin handlers
    BY TrapsOfOneBar DEF ActivateTraps, Free
  <2> QED BY <2>1, <2>2
<1>7. handlers' = handlers \cup Traps(b, a) /\ slots' = slots
  BY DEF ActivateTraps
<1>8. ASSUME NEW t PROVE t \in handlers' <=> \E c \in VdBars : Trapped(c)' /\ t \in Traps(c, vaddrs[c])'
  <2>1. t \in handlers <=> \E c \in VdBars : Trapped(c) /\ t \in Traps(c, vaddrs[c])
    BY <1>1 DEF RegionsOfBars
  <2>2. \A c \in VdBars : c # b => Traps(c, vaddrs[c])' = Traps(c, vaddrs[c])
    BY <1>3 DEF Traps
  <2>3. Traps(b, vaddrs[b])' = Traps(b, a)
    BY <1>2 DEF Traps
  <2> QED BY <1>2, <1>3, <1>4, <1>7, <2>1, <2>2, <2>3, Zenon
<1>9. ASSUME NEW x PROVE x \in slots' <=> \E c \in VdBars : Mapped(c)' /\ x = vaddrs'[c]
  BY <1>1, <1>2, <1>3, <1>4, <1>7 DEF RegionsOfBars
<1>10. ASSUME NEW c \in VdBars, NEW d \in VdBars, c # d
       PROVE  /\ Trapped(c)' /\ Trapped(d)' => Traps(c, vaddrs[c])' \cap Traps(d, vaddrs[d])' = {}
              /\ Mapped(c)' /\ Mapped(d)' => vaddrs'[c] # vaddrs'[d]
  <2>1. \A e \in VdBars : e # b => Traps(e, vaddrs[e])' = Traps(e, vaddrs[e])
    BY <1>3 DEF Traps
  <2>2. Traps(b, vaddrs[b])' = Traps(b, a)
    BY <1>2 DEF Traps
  <2>3. CASE c # b /\ d # b
    BY <1>1, <1>3, <1>10, <2>1, <2>3 DEF RegionsOfBars
  <2>4. CASE c = b
    BY <1>2, <1>3, <1>6, <1>10, <2>1, <2>2, <2>4
  <2>5. CASE d = b
    BY <1>2, <1>3, <1>6, <1>10, <2>1, <2>2, <2>5
  <2> QED BY <2>3, <2>4, <2>5
<1> QED BY <1>2, <1>8, <1>9, <1>10 DEF RegionsOfBars

\* A BAR whose activation ends in memory of the guest.
LEMMA MemoryActivated ==
  ASSUME RegionIInv, ~half, vphase = "running", NEW b \in VdBars, ~barOn[b], NEW a \in VdAddrs,
         vaddrs' = [vaddrs EXCEPT ![b] = a], layout' = layout, ActivateMemory(b, a)
  PROVE  RegionsOfBars'
<1>1. RegionsOfBars /\ ~hostAddr[b] /\ b \in VdBars
  BY DEF RegionIInv, RegionsOfBars
<1>2. /\ ~Trapped(b)' /\ Mapped(b)' /\ vaddrs'[b] = a
      /\ \A c \in VdBars : hostAddr'[c] => barOn'[c]
  BY <1>1 DEF ActivateMemory, RegionIInv, RegionsOfBars, Trapped, Mapped
<1>3. \A c \in VdBars : c # b =>
        /\ Trapped(c)' <=> Trapped(c)
        /\ Mapped(c)' <=> Mapped(c)
        /\ vaddrs'[c] = vaddrs[c]
        /\ Traps(c, vaddrs[c])' = Traps(c, vaddrs[c])
  BY DEF ActivateMemory, RegionIInv, Trapped, Mapped, Traps
<1>4. ~Trapped(b) /\ ~Mapped(b)
  BY DEF Trapped, Mapped
<1>5. handlers' = handlers /\ slots' = slots \cup {a} /\ a \notin slots
  BY DEF ActivateMemory
<1>6. ASSUME NEW t PROVE t \in handlers' <=> \E c \in VdBars : Trapped(c)' /\ t \in Traps(c, vaddrs[c])'
  <2>1. t \in handlers <=> \E c \in VdBars : Trapped(c) /\ t \in Traps(c, vaddrs[c])
    BY <1>1 DEF RegionsOfBars
  <2> QED BY <1>2, <1>3, <1>4, <1>5, <2>1, Zenon
<1>7. ASSUME NEW x PROVE x \in slots' <=> \E c \in VdBars : Mapped(c)' /\ x = vaddrs'[c]
  <2>1. x \in slots <=> \E c \in VdBars : Mapped(c) /\ x = vaddrs[c]
    BY <1>1 DEF RegionsOfBars
  <2>2. x \in slots' <=> x \in slots \/ x = a
    BY <1>5
  <2> QED BY <1>2, <1>3, <1>4, <2>1, <2>2
<1>8. ASSUME NEW c \in VdBars, NEW d \in VdBars, c # d
       PROVE  /\ Trapped(c)' /\ Trapped(d)' => Traps(c, vaddrs[c])' \cap Traps(d, vaddrs[d])' = {}
              /\ Mapped(c)' /\ Mapped(d)' => vaddrs'[c] # vaddrs'[d]
  <2>1. CASE c # b /\ d # b
    BY <1>1, <1>3, <1>8, <2>1 DEF RegionsOfBars
  <2>2. CASE c = b \/ d = b
    BY <1>1, <1>2, <1>3, <1>5, <1>8, <2>2 DEF RegionsOfBars
  <2> QED BY <2>1, <2>2
<1> QED BY <1>2, <1>6, <1>7, <1>8 DEF RegionsOfBars

\* A BAR that stays inactive, or becomes it: it leaves what the other has.
LEMMA OtherBarKept ==
  ASSUME RegionIInv, ~half, vphase = "running", NEW b \in VdBars, layout' = layout,
         ~barOn'[b], ~hostAddr'[b],
         \A c \in VdBars : c # b => /\ barOn'[c] = barOn[c]
                                    /\ hostAddr'[c] = hostAddr[c]
                                    /\ vaddrs'[c] = vaddrs[c],
         handlers' = IF Trapped(b) THEN handlers \ Traps(b, vaddrs[b]) ELSE handlers,
         slots' = IF Mapped(b) THEN slots \ {vaddrs[b]} ELSE slots
  PROVE  RegionsOfBars'
<1>1. RegionsOfBars
  BY DEF RegionIInv
<1>2. ~Trapped(b)' /\ ~Mapped(b)'
  BY DEF Trapped, Mapped
<1>3. \A c \in VdBars : c # b =>
        /\ Trapped(c)' <=> Trapped(c)
        /\ Mapped(c)' <=> Mapped(c)
        /\ vaddrs'[c] = vaddrs[c]
        /\ Traps(c, vaddrs[c])' = Traps(c, vaddrs[c])
  BY DEF Trapped, Mapped, Traps
<1>4. ASSUME NEW t PROVE t \in handlers' <=> \E c \in VdBars : Trapped(c)' /\ t \in Traps(c, vaddrs[c])'
  <2>1. t \in handlers <=> \E c \in VdBars : Trapped(c) /\ t \in Traps(c, vaddrs[c])
    BY <1>1 DEF RegionsOfBars
  <2>2. t \in handlers' <=> t \in handlers /\ ~(Trapped(b) /\ t \in Traps(b, vaddrs[b]))
    OBVIOUS
  <2>3. \A c \in VdBars : c # b /\ Trapped(b) /\ Trapped(c) =>
                           ~(t \in Traps(c, vaddrs[c]) /\ t \in Traps(b, vaddrs[b]))
    BY <1>1 DEF RegionsOfBars
  <2> QED BY <1>2, <1>3, <2>1, <2>2, <2>3, Zenon
<1>5. ASSUME NEW x PROVE x \in slots' <=> \E c \in VdBars : Mapped(c)' /\ x = vaddrs'[c]
  <2>1. x \in slots <=> \E c \in VdBars : Mapped(c) /\ x = vaddrs[c]
    BY <1>1 DEF RegionsOfBars
  <2>2. x \in slots' <=> x \in slots /\ ~(Mapped(b) /\ x = vaddrs[b])
    OBVIOUS
  <2>3. \A c \in VdBars : c # b /\ Mapped(b) /\ Mapped(c) => vaddrs[c] # vaddrs[b]
    BY <1>1 DEF RegionsOfBars
  <2> QED BY <1>2, <1>3, <2>1, <2>2, <2>3
<1>6. \A c, d \in VdBars : c # d =>
        /\ Trapped(c)' /\ Trapped(d)' => Traps(c, vaddrs[c])' \cap Traps(d, vaddrs[d])' = {}
        /\ Mapped(c)' /\ Mapped(d)' => vaddrs'[c] # vaddrs'[d]
  BY <1>1, <1>2, <1>3 DEF RegionsOfBars
<1>7. \A c \in VdBars : hostAddr'[c] => barOn'[c]
  BY <1>1 DEF RegionsOfBars
<1> QED BY <1>4, <1>5, <1>6, <1>7 DEF RegionsOfBars

\* vfio_device_exit leaves no memory and no trap but that of a PBA in the table's BAR.
LEMMA ExitUnmaps ==
  ASSUME RegionsOfBars, turn = 1, VfioExit
  PROVE  slots' = {} /\ \A t \in handlers' : t.part = "pba_shared"
<1> DEFINE one == Unmapped(0, handlers, slots)
           two == Unmapped(1, one[1], one[2])
<1>1. handlers' = two[1] /\ slots' = two[2]
  BY DEF VfioExit
<1>2. 0 \in VdBars /\ 1 \in VdBars /\ \A b \in VdBars : b = 0 \/ b = 1
  BY DEF VdBars
<1>3. /\ one[1] \subseteq handlers /\ one[2] \subseteq slots
      /\ hostAddr[0] => vaddrs[0] \notin one[2]
      /\ ~hostAddr[0] => \A t \in one[1] :
           \/ t.at # vaddrs[0]
           \/ t.bus # IF layout[0 + 1] = "io" THEN "io" ELSE "mmio"
           \/ t.part = "pba_shared"
  BY <1>2, WhatUnmapLeaves
<1>4. /\ two[1] \subseteq one[1] /\ two[2] \subseteq one[2]
      /\ hostAddr[1] => vaddrs[1] \notin two[2]
      /\ ~hostAddr[1] => \A t \in two[1] :
           \/ t.at # vaddrs[1]
           \/ t.bus # IF layout[1 + 1] = "io" THEN "io" ELSE "mmio"
           \/ t.part = "pba_shared"
  BY <1>2, WhatUnmapLeaves
<1> HIDE DEF one, two
<1>5. ASSUME NEW x \in slots' PROVE FALSE
  <2>1. x \in slots
    BY <1>1, <1>3, <1>4, <1>5
  <2>2. PICK b \in VdBars : Mapped(b) /\ x = vaddrs[b]
    BY <2>1 DEF RegionsOfBars
  <2> QED BY <1>1, <1>2, <1>3, <1>4, <1>5, <2>2 DEF Mapped
<1>6. ASSUME NEW t \in handlers' PROVE t.part = "pba_shared"
  <2>1. t \in handlers /\ t \in one[1] /\ t \in two[1]
    BY <1>1, <1>3, <1>4, <1>6
  <2>2. PICK b \in VdBars : Trapped(b) /\ t \in Traps(b, vaddrs[b])
    BY <2>1 DEF RegionsOfBars
  <2>3. /\ t.at = vaddrs[b] /\ ~hostAddr[b]
        /\ t.bus = IF layout[b + 1] = "io" THEN "io" ELSE "mmio"
    BY <2>2, TrapsOfOneBar DEF Trapped
  <2> QED BY <1>2, <1>3, <1>4, <2>1, <2>3
<1> QED BY <1>5, <1>6

\* The regions over the life of the machine.
LEMMA RegionKept == ASSUME GroupIInv, RegionIInv, [VdNext]_vdVars PROVE RegionIInv'
<1>1. CASE UNCHANGED <<regionState, layout>> /\ vphase' = vphase
  <2>1. UNCHANGED <<barOn, vaddrs, hostAddr, handlers, slots, half, layout>>
    BY <1>1 DEF regionState
  <2>2. RegionsOfBars => RegionsOfBars'
    BY <2>1 DEF RegionsOfBars, Trapped, Mapped, Traps
  <2> QED BY <1>1, <2>1, <2>2 DEF RegionIInv
<1>2. ASSUME NEW ok \in BOOLEAN, InitDevice(ok) \/ ConfigureDevice(ok) PROVE RegionIInv'
  <2>1. /\ UNCHANGED <<barOn, vaddrs, hostAddr, handlers, slots, half, layout>>
        /\ vphase \in {"container", "devices"}
        /\ vphase' \in {"container", "devices", "running", "failed"}
    BY <1>2 DEF InitDevice, ConfigureDevice, regionState, vdConst
  <2>2. RegionsOfBars'
    BY <2>1 DEF RegionIInv, RegionsOfBars, Trapped, Mapped
  <2> QED BY <2>1, <2>2 DEF RegionIInv
<1>3. CASE VfioExit
  <2>1. /\ UNCHANGED <<barOn, vaddrs, half, layout>> /\ vphase \in {"running", "exit"}
        /\ vphase' \in {"exit", "gone"}
        /\ hostAddr' = [b \in VdBars |-> FALSE] \/ hostAddr' = hostAddr
    BY <1>3 DEF VfioExit, vdConst
  <2>2. CASE vphase = "running"
    <3>1. turn = 1
      BY <2>2 DEF GroupIInv, HeldInOrder
    <3>2. ~half => slots' = {} /\ \A t \in handlers' : t.part = "pba_shared"
      BY <1>3, <2>2, <3>1, ExitUnmaps DEF RegionIInv
    <3> QED BY <2>1, <3>2 DEF RegionIInv
  <2>3. CASE vphase = "exit"
    <3>1. UNCHANGED <<handlers, slots, hostAddr>>
      BY <1>3, <2>3 DEF GroupIInv, HeldInOrder, VfioExit
    <3> QED BY <2>1, <2>3, <3>1 DEF RegionIInv
  <2> QED BY <2>1, <2>2, <2>3
<1>4. ASSUME NEW b \in VdBars, Deactivate(b) PROVE RegionIInv'
  <2>1. /\ vphase = "running" /\ vphase' = vphase /\ barOn[b]
        /\ UNCHANGED <<layout, vaddrs, half>>
        /\ barOn' = [barOn EXCEPT ![b] = FALSE]
        /\ hostAddr' \in [VdBars -> BOOLEAN] /\ ~hostAddr'[b]
        /\ \A c \in VdBars : c # b => hostAddr'[c] = hostAddr[c]
        /\ handlers' = IF Trapped(b) THEN handlers \ Traps(b, vaddrs[b]) ELSE handlers
        /\ slots' = IF Mapped(b) THEN slots \ {vaddrs[b]} ELSE slots
    BY <1>4 DEF Deactivate, Dropped, Trapped, Mapped, RegionIInv, vdConst, groupState
  <2>2. /\ barOn' \in [VdBars -> BOOLEAN] /\ ~barOn'[b]
        /\ \A c \in VdBars : c # b => barOn'[c] = barOn[c] /\ vaddrs'[c] = vaddrs[c]
    BY <2>1 DEF RegionIInv
  <2>3. ~half => RegionsOfBars'
    BY <2>1, <2>2, OtherBarKept
  <2> QED BY <2>1, <2>2, <2>3 DEF RegionIInv
<1>5. ASSUME NEW b \in VdBars, NEW a \in VdAddrs, VdActivate(b, a) PROVE RegionIInv'
  <2>1. /\ vphase = "running" /\ vphase' = vphase /\ ~barOn[b] /\ layout' = layout
        /\ vaddrs' = [vaddrs EXCEPT ![b] = a]
        /\ ActivateTraps(b, a) \/ ActivateMemory(b, a) \/ ActivateFails(b, a)
    BY <1>5 DEF VdActivate, vdConst, groupState
  <2>2. /\ vaddrs' \in [VdBars -> Nat] /\ barOn' \in [VdBars -> BOOLEAN]
        /\ hostAddr' \in [VdBars -> BOOLEAN]
    BY <2>1, VdAssumption DEF RegionIInv, ActivateTraps, ActivateMemory, ActivateFails
  <2>3. CASE ActivateTraps(b, a)
    <3>1. half' = half
      BY <2>3 DEF ActivateTraps
    <3>2. ~half => RegionsOfBars'
      BY <2>1, <2>3, TrapsActivated
    <3> QED BY <2>1, <2>2, <3>1, <3>2 DEF RegionIInv
  <2>4. CASE ActivateMemory(b, a)
    <3>1. half' = half
      BY <2>4 DEF ActivateMemory
    <3>2. ~half => RegionsOfBars'
      BY <2>1, <2>4, MemoryActivated
    <3> QED BY <2>1, <2>2, <3>1, <3>2 DEF RegionIInv
  <2>5. CASE half'
    BY <2>1, <2>2, <2>5 DEF RegionIInv
  <2>6. CASE UNCHANGED <<barOn, hostAddr, handlers, slots, half>>
    <3>1. ~half => ~hostAddr[b] /\ ~Trapped(b) /\ ~Mapped(b)
      BY <2>1 DEF RegionIInv, RegionsOfBars, Trapped, Mapped
    <3>2. \A c \in VdBars : c # b => vaddrs'[c] = vaddrs[c]
      BY <2>1 DEF RegionIInv
    <3>3. ~half => RegionsOfBars'
      BY <2>1, <2>6, <3>1, <3>2, OtherBarKept
    <3> QED BY <2>1, <2>2, <2>6, <3>3 DEF RegionIInv
  <2> QED BY <2>1, <2>3, <2>4, <2>5, <2>6 DEF ActivateFails
<1>6. CASE UNCHANGED vdVars
  BY <1>1, <1>6 DEF vdVars, vdConst, groupState
<1> QED BY <1>2, <1>3, <1>4, <1>5, <1>6 DEF VdNext

-----------------------------------------------------------------------------
(* The interrupts of a passed-through device                               *)

VfEntries == [gsi : BOOLEAN, efd : BOOLEAN, gmasked : BOOLEAN, hmasked : BOOLEAN,
              msg : VfMsgs \cup {NoMsg}, used : BOOLEAN]
VfCapStates == [genabled : BOOLEAN, gmasked : BOOLEAN, henabled : BOOLEAN, hempty : BOOLEAN]
VfStates == [cap : [Caps -> VfCapStates], entry : [Caps -> [VfVectors -> VfEntries]],
             fds : [Caps -> SUBSET VfVectors], armed : [Caps -> SUBSET VfVectors],
             vfIrqfd : [Caps -> SUBSET VfVectors],
             route : [Caps -> [VfVectors -> VfMsgs \cup {NoMsg}]], intx : BOOLEAN]

\* An entry with an irqfd has what the irqfd needs, and the guest's mask takes it away.
Wired(e) == (~e.hmasked => e.gsi) /\ (e.gsi => e.efd)
EntryOk(e) == Wired(e) /\ (e.gmasked => e.hmasked)

\* host_state of an entry tells whether it has an irqfd.
IrqfdsKnown(s) == \A c \in Caps, v \in VfVectors : v \in s.vfIrqfd[c] <=> ~s.entry[c][v].hmasked

\* What VFIO is asked for: vectors are armed only while the capability is enabled, and a
\* capability that the device does not have never is.
HostKnown(s) ==
  /\ \A c \in Caps : ~s.cap[c].henabled => s.armed[c] = {}
  /\ \A c \in Caps : c \notin modes => ~s.cap[c].henabled /\ ~s.cap[c].genabled
  /\ s.intx => "intx" \in modes
IntxAlone(s) == s.intx => \A c \in Caps : ~s.cap[c].henabled
OneCap == Cardinality(modes \cap Caps) = 1
VfSafe(s) ==
  /\ s \in VfStates
  /\ \A c \in Caps, v \in VfVectors : EntryOk(s.entry[c][v])
  /\ IrqfdsKnown(s) /\ HostKnown(s)
  /\ OneCap => IntxAlone(s)

\* What holds as long as no ioctl has failed: programmed entries are complete, and the
\* host's side of a capability follows the guest's.
Done(s, c, v) ==
  s.entry[c][v].used =>
    /\ s.entry[c][v].gsi /\ (s.entry[c][v].gmasked <=> s.entry[c][v].hmasked)
    /\ s.entry[c][v].gmasked \/ s.route[c][v] = s.entry[c][v].msg
Complete(s) == \A c \in Caps, v \in VfVectors : Done(s, c, v)
Follows(s, c) ==
  /\ s.cap[c].henabled => s.cap[c].genabled /\ s.armed[c] = s.fds[c]
  /\ s.cap[c].genabled /\ ~s.cap[c].gmasked =>
       s.cap[c].henabled /\ \A v \in VfVectors : s.entry[c][v].used => v \in s.fds[c]
VfClean(s) == Complete(s) /\ IntxAlone(s) /\ \A c \in Caps : Follows(s, c)

VfIInv ==
  /\ modes \subseteq {"msi", "msix", "intx"} /\ fails \in Nat
  /\ VfSafe(State)
  /\ fails = 0 => VfClean(State)

\* vfio_pci_update_msi_entry of one entry.
LEMMA EntryUpdated ==
  ASSUME NEW e \in VfEntries, Wired(e), NEW fail
  PROVE  LET u == UpdateEntry(e, fail)
         IN /\ u \in VfEntries /\ EntryOk(u)
            /\ u.gmasked = e.gmasked /\ u.msg = e.msg /\ u.used = e.used
            /\ u.hmasked = (IF Toggled(e, fail) THEN ~e.hmasked ELSE e.hmasked)
            /\ fail = "ok" => u.gsi /\ (u.gmasked <=> u.hmasked) /\ Routed(e, fail)
<1> DEFINE u == UpdateEntry(e, fail)
<1>1. /\ Opened(e, fail) \in BOOLEAN /\ Routed(e, fail) \in BOOLEAN /\ Toggled(e, fail) \in BOOLEAN
      /\ e.gmasked \in BOOLEAN /\ e.hmasked \in BOOLEAN
  BY DEF VfEntries, Opened, Routed, Toggled
<1>2. /\ u \in VfEntries
      /\ u.efd = Opened(e, fail) /\ u.gsi = Routed(e, fail)
      /\ u.hmasked = (IF Toggled(e, fail) THEN e.gmasked ELSE e.hmasked)
      /\ u.gmasked = e.gmasked /\ u.msg = e.msg /\ u.used = e.used
  <2> HIDE DEF Opened, Routed, Toggled
  <2> QED
    BY <1>1 DEF UpdateEntry, VfEntries
<1>3. Toggled(e, fail) => e.gmasked = ~e.hmasked
  BY <1>1 DEF Toggled, IrqfdStays
<1>4. EntryOk(u)
  <2>1. Routed(e, fail) => Opened(e, fail)
    BY DEF Routed
  <2>2. ~e.hmasked => Routed(e, fail)
    BY DEF Wired, Routed, Opened
  <2>3. Toggled(e, fail) => Routed(e, fail)
    BY DEF Toggled
  <2>4. e.gmasked /\ ~e.hmasked => Toggled(e, fail)
    BY <2>2 DEF Toggled, IrqfdStays
  <2> HIDE DEF u
  <2> QED
    BY <1>1, <1>2, <1>3, <2>1, <2>2, <2>3, <2>4 DEF EntryOk, Wired
<1>5. ASSUME fail = "ok" PROVE u.gsi /\ (u.gmasked <=> u.hmasked) /\ Routed(e, fail)
  <2>1. Routed(e, fail)
    BY <1>5 DEF Routed, Opened
  <2>2. ~Toggled(e, fail) => e.gmasked = e.hmasked
    BY <1>5, <2>1 DEF Toggled, IrqfdStays
  <2> HIDE DEF u
  <2> QED
    BY <1>1, <1>2, <2>1, <2>2
<1> HIDE DEF u
<1>6. u.hmasked = (IF Toggled(e, fail) THEN ~e.hmasked ELSE e.hmasked)
  BY <1>1, <1>2, <1>3
<1> QED
  BY <1>2, <1>4, <1>5, <1>6 DEF u

\* ... and of the entries of some vectors.
LEMMA UpdateFields ==
  ASSUME NEW s \in VfStates, NEW c \in Caps, NEW vs, NEW fail,
         \A v \in VfVectors : v \in vs => UpdateEntry(s.entry[c][v], fail) \in VfEntries
  PROVE  LET t == UpdateEntries(s, c, vs, fail)
         IN /\ t \in VfStates
            /\ t.cap = s.cap /\ t.fds = s.fds /\ t.armed = s.armed /\ t.intx = s.intx
            /\ \A v \in VfVectors :
                 /\ t.entry[c][v] = IF v \in vs THEN UpdateEntry(s.entry[c][v], fail) ELSE s.entry[c][v]
                 /\ v \in t.vfIrqfd[c] <=> IF v \in vs /\ Toggled(s.entry[c][v], fail)
                                           THEN s.entry[c][v].hmasked ELSE v \in s.vfIrqfd[c]
                 /\ t.route[c][v] = IF v \in vs /\ Routed(s.entry[c][v], fail)
                                    THEN s.entry[c][v].msg ELSE s.route[c][v]
            /\ \A d \in Caps : d # c => /\ t.entry[d] = s.entry[d] /\ t.vfIrqfd[d] = s.vfIrqfd[d]
                                        /\ t.route[d] = s.route[d]
<1> DEFINE en == [v \in VfVectors |-> IF v \in vs THEN UpdateEntry(s.entry[c][v], fail) ELSE s.entry[c][v]]
           iq == {v \in VfVectors : IF v \in vs /\ Toggled(s.entry[c][v], fail)
                                    THEN s.entry[c][v].hmasked ELSE v \in s.vfIrqfd[c]}
           ro == [v \in VfVectors |-> IF v \in vs /\ Routed(s.entry[c][v], fail)
                                      THEN s.entry[c][v].msg ELSE s.route[c][v]]
           t == UpdateEntries(s, c, vs, fail)
<1>1. en \in [VfVectors -> VfEntries] /\ iq \in SUBSET VfVectors /\ ro \in [VfVectors -> VfMsgs \cup {NoMsg}]
  <2>1. s.entry[c] \in [VfVectors -> VfEntries] /\ s.route[c] \in [VfVectors -> VfMsgs \cup {NoMsg}]
    BY DEF VfStates
  <2>2. \A v \in VfVectors : s.entry[c][v] \in VfEntries /\ s.entry[c][v].msg \in VfMsgs \cup {NoMsg}
    BY <2>1 DEF VfEntries
  <2> QED
    BY <2>1, <2>2
<1>2. t = [s EXCEPT !.entry = [s.entry EXCEPT ![c] = en], !.vfIrqfd = [s.vfIrqfd EXCEPT ![c] = iq],
                    !.route = [s.route EXCEPT ![c] = ro]]
  BY DEF UpdateEntries, VfStates
<1>3. /\ t \in VfStates
      /\ t.cap = s.cap /\ t.fds = s.fds /\ t.armed = s.armed /\ t.intx = s.intx
      /\ t.entry = [s.entry EXCEPT ![c] = en] /\ t.vfIrqfd = [s.vfIrqfd EXCEPT ![c] = iq]
      /\ t.route = [s.route EXCEPT ![c] = ro]
  <2> HIDE DEF en, iq, ro, t
  <2> QED
    BY <1>1, <1>2 DEF VfStates
<1>4. t.entry[c] = en /\ t.vfIrqfd[c] = iq /\ t.route[c] = ro
  <2> HIDE DEF en, iq, ro, t
  <2> QED
    BY <1>3 DEF VfStates
<1>5. \A d \in Caps : d # c => t.entry[d] = s.entry[d] /\ t.vfIrqfd[d] = s.vfIrqfd[d] /\ t.route[d] = s.route[d]
  <2> HIDE DEF en, iq, ro, t
  <2> QED
    BY <1>3 DEF VfStates
<1> HIDE DEF t
<1> QED
  BY <1>3, <1>4, <1>5 DEF t

\* ... keeps what the invariants say, and completes the entries when nothing fails.
LEMMA EntriesKept ==
  ASSUME NEW s \in VfStates, NEW c \in Caps, NEW vs, NEW fail,
         \A d \in Caps, v \in VfVectors : Wired(s.entry[d][v]),
         \A d \in Caps, v \in VfVectors : d # c \/ v \notin vs => EntryOk(s.entry[d][v]),
         IrqfdsKnown(s), HostKnown(s), OneCap => IntxAlone(s)
  PROVE  LET t == UpdateEntries(s, c, vs, fail)
         IN /\ VfSafe(t)
            /\ t.cap = s.cap /\ t.fds = s.fds /\ t.armed = s.armed /\ t.intx = s.intx
            /\ \A d \in Caps, v \in VfVectors : t.entry[d][v].used = s.entry[d][v].used
            /\ fail = "ok" /\ (\A d \in Caps, v \in VfVectors : d # c \/ v \notin vs => Done(s, d, v))
                 => Complete(t)
<1> DEFINE t == UpdateEntries(s, c, vs, fail)
<1>1. \A v \in VfVectors : s.entry[c][v] \in VfEntries /\ Wired(s.entry[c][v])
  BY DEF VfStates
<1>2. \A v \in VfVectors : UpdateEntry(s.entry[c][v], fail) \in VfEntries
  BY <1>1, EntryUpdated
<1>3. /\ t \in VfStates
      /\ t.cap = s.cap /\ t.fds = s.fds /\ t.armed = s.armed /\ t.intx = s.intx
      /\ \A v \in VfVectors :
           /\ t.entry[c][v] = IF v \in vs THEN UpdateEntry(s.entry[c][v], fail) ELSE s.entry[c][v]
           /\ v \in t.vfIrqfd[c] <=> IF v \in vs /\ Toggled(s.entry[c][v], fail)
                                     THEN s.entry[c][v].hmasked ELSE v \in s.vfIrqfd[c]
           /\ t.route[c][v] = IF v \in vs /\ Routed(s.entry[c][v], fail)
                              THEN s.entry[c][v].msg ELSE s.route[c][v]
      /\ \A d \in Caps : d # c => /\ t.entry[d] = s.entry[d] /\ t.vfIrqfd[d] = s.vfIrqfd[d]
                                  /\ t.route[d] = s.route[d]
  BY <1>2, UpdateFields
<1> HIDE DEF t
<1>4. ASSUME NEW d \in Caps, NEW v \in VfVectors
      PROVE  /\ EntryOk(t.entry[d][v]) /\ t.entry[d][v].used = s.entry[d][v].used
             /\ v \in t.vfIrqfd[d] <=> ~t.entry[d][v].hmasked
             /\ fail = "ok" /\ (d # c \/ v \notin vs => Done(s, d, v)) => Done(t, d, v)
  <2>0. v \in s.vfIrqfd[d] <=> ~s.entry[d][v].hmasked
    BY DEF IrqfdsKnown
  <2>1. CASE d # c \/ v \notin vs
    <3>1. t.entry[d][v] = s.entry[d][v] /\ (v \in t.vfIrqfd[d] <=> v \in s.vfIrqfd[d]) /\ t.route[d][v] = s.route[d][v]
      BY <1>3, <2>1
    <3> QED
      BY <2>0, <2>1, <3>1 DEF Done
  <2>2. CASE d = c /\ v \in vs
    <3> DEFINE e == s.entry[c][v]
               u == UpdateEntry(e, fail)
    <3>1. t.entry[d][v] = u
      BY <1>3, <2>2
    <3>2. /\ v \in t.vfIrqfd[d] <=> IF Toggled(e, fail) THEN e.hmasked ELSE v \in s.vfIrqfd[d]
          /\ t.route[d][v] = IF Routed(e, fail) THEN e.msg ELSE s.route[d][v]
      BY <1>3, <2>2
    <3>3. e \in VfEntries /\ Wired(e) /\ e.hmasked \in BOOLEAN
      BY <1>1 DEF VfEntries
    <3> HIDE DEF u, e
    <3>4. /\ u \in VfEntries /\ EntryOk(u)
          /\ u.gmasked = e.gmasked /\ u.msg = e.msg /\ u.used = e.used
          /\ u.hmasked = (IF Toggled(e, fail) THEN ~e.hmasked ELSE e.hmasked)
          /\ fail = "ok" => u.gsi /\ (u.gmasked <=> u.hmasked) /\ Routed(e, fail)
      BY <3>3, EntryUpdated DEF u
    <3>5. v \in t.vfIrqfd[d] <=> ~u.hmasked
      BY <2>0, <2>2, <3>2, <3>3, <3>4 DEF e
    <3>6. t.entry[d][v].used = s.entry[d][v].used
      BY <2>2, <3>1, <3>4 DEF e
    <3>7. fail = "ok" => Done(t, d, v)
      BY <3>1, <3>2, <3>4 DEF Done
    <3> QED
      BY <3>1, <3>4, <3>5, <3>6, <3>7
  <2> QED
    BY <2>1, <2>2
<1>5. VfSafe(t)
  BY <1>3, <1>4 DEF VfSafe, IrqfdsKnown, HostKnown, IntxAlone
<1> QED
  BY <1>3, <1>4, <1>5 DEF t, Complete

\* A device that has one MSI capability has no other.
LEMMA OnlyCap ==
  ASSUME OneCap, NEW c \in Caps, NEW d \in Caps, c \in modes, d \in modes
  PROVE  c = d
<1>1. IsFiniteSet(Caps)
  <2>1. IsFiniteSet({} \cup {"msi"})
    BY FS_EmptySet, FS_AddElement
  <2>2. IsFiniteSet(({} \cup {"msi"}) \cup {"msix"})
    BY <2>1, FS_AddElement
  <2>3. Caps = ({} \cup {"msi"}) \cup {"msix"}
    BY DEF Caps
  <2> QED
    BY <2>2, <2>3
<1>2. IsFiniteSet(modes \cap Caps)
  BY <1>1, FS_Subset
<1>3. PICK x : modes \cap Caps = {x}
  BY <1>2, FS_Singleton DEF OneCap
<1> QED
  BY <1>3

\* What disabling INTx changes: the INTx flag only.
LEMMA IntxFields ==
  ASSUME NEW s \in VfStates, s.intx => "intx" \in modes
  PROVE  LET t == IntxOff(s)
         IN /\ t \in VfStates /\ ~t.intx
            /\ t.cap = s.cap /\ t.entry = s.entry /\ t.fds = s.fds /\ t.armed = s.armed
            /\ t.vfIrqfd = s.vfIrqfd /\ t.route = s.route
BY DEF IntxOff, VfStates

\* What a capability's host flags store.
LEMMA CapFields ==
  ASSUME NEW cs \in VfCapStates, NEW h \in BOOLEAN, NEW x \in BOOLEAN
  PROVE  LET j == [cs EXCEPT !.henabled = h, !.hempty = x]
         IN j \in VfCapStates /\ (j.henabled <=> h) /\ (j.genabled <=> cs.genabled) /\ (j.gmasked <=> cs.gmasked)
BY DEF VfCapStates

\* What the host-empty flag stores.
LEMMA EmptyField ==
  ASSUME NEW cs \in VfCapStates, NEW x \in BOOLEAN
  PROVE  LET j == [cs EXCEPT !.hempty = x]
         IN j \in VfCapStates /\ (j.henabled <=> cs.henabled) /\ (j.genabled <=> cs.genabled) /\ (j.gmasked <=> cs.gmasked)
BY DEF VfCapStates

CapMoved(n, c, w, a, cs) == [n EXCEPT !.fds[c] = w, !.armed[c] = a, !.cap[c] = cs]
FdsMoved(n, c, w) == [n EXCEPT !.fds[c] = w]

\* What moving a capability's eventfds changes: that set only.
LEMMA FdsMove ==
  ASSUME NEW n \in VfStates, NEW c \in Caps, NEW w \in SUBSET VfVectors, NEW t, t = FdsMoved(n, c, w)
  PROVE  /\ t \in VfStates /\ (t.intx <=> n.intx) /\ t.cap = n.cap /\ t.armed = n.armed
         /\ t.entry = n.entry /\ t.vfIrqfd = n.vfIrqfd /\ t.route = n.route
         /\ \A d \in Caps : d # c => t.fds[d] = n.fds[d]
BY DEF VfStates, FdsMoved

CapStep(t, n, c, w, a, cs) ==
  /\ t \in VfStates /\ (t.intx <=> n.intx)
  /\ t.entry = n.entry /\ t.vfIrqfd = n.vfIrqfd /\ t.route = n.route
  /\ \A d \in Caps : d # c => t.cap[d] = n.cap[d] /\ t.armed[d] = n.armed[d] /\ t.fds[d] = n.fds[d]
  /\ t.cap[c] = cs /\ t.armed[c] = a /\ t.fds[c] = w

\* What a new capability state with its eventfds changes.
LEMMA CapMoves ==
  ASSUME NEW n \in VfStates, NEW c \in Caps, NEW w \in SUBSET VfVectors, NEW a \in SUBSET VfVectors,
         NEW cs \in VfCapStates, NEW t, t = CapMoved(n, c, w, a, cs)
  PROVE  CapStep(t, n, c, w, a, cs)
BY DEF VfStates, CapMoved, CapStep

\* What vfio_pci_enable_msis does, for a capability that the guest has enabled.
LEMMA EnableFields ==
  ASSUME NEW s \in VfStates, s.intx => "intx" \in modes, NEW c \in Caps, NEW fail, s.cap[c].genabled,
         NEW t, t = EnableMsis(s, c, fail), NEW w, w = WantedVectors(s, c)
  PROVE     /\ t \in VfStates /\ ~t.intx
            /\ t.entry = s.entry /\ t.vfIrqfd = s.vfIrqfd /\ t.route = s.route
            /\ \A d \in Caps : d # c => t.cap[d] = s.cap[d] /\ t.armed[d] = s.armed[d] /\ t.fds[d] = s.fds[d]
            /\ (t.cap[c].genabled <=> s.cap[c].genabled) /\ (t.cap[c].gmasked <=> s.cap[c].gmasked)
            /\ \/ t.cap[c].henabled /\ t.armed[c] = w /\ t.fds[c] = w
               \/ (t.cap[c].henabled <=> s.cap[c].henabled) /\ t.armed[c] = s.armed[c] /\ fail = "multi"
               \/ /\ t.cap[c] = s.cap[c] /\ t.armed[c] = s.armed[c] /\ t.fds[c] = s.fds[c]
                  /\ s.cap[c].henabled /\ (s.cap[c].gmasked \/ fail = "single")
               \/ /\ s.cap[c].henabled /\ t.cap[c].henabled /\ t.fds[c] = w
                  /\ t.armed[c] = (s.armed[c] \ (s.fds[c] \ w)) \cup (w \ s.fds[c])
<1>0. PICK n, on, wider, a :
        /\ n = IntxOff(s)
        /\ on = [s.cap[c] EXCEPT !.henabled = TRUE, !.hempty = (w = {})]
        /\ wider = [s.cap[c] EXCEPT !.hempty = @ /\ w \subseteq s.fds[c]]
        /\ a = (s.armed[c] \ (s.fds[c] \ w)) \cup (w \ s.fds[c])
  OBVIOUS
<1>1. /\ n \in VfStates /\ ~n.intx
      /\ n.cap = s.cap /\ n.entry = s.entry /\ n.fds = s.fds /\ n.armed = s.armed
      /\ n.vfIrqfd = s.vfIrqfd /\ n.route = s.route
  BY <1>0, IntxFields
<1>2. w \in SUBSET VfVectors /\ a \in SUBSET VfVectors /\ s.cap[c] \in VfCapStates
  BY <1>0, <1>1 DEF WantedVectors, VfStates
<1>3. on \in VfCapStates /\ on.henabled /\ (on.genabled <=> s.cap[c].genabled) /\ (on.gmasked <=> s.cap[c].gmasked)
  <2>1. (w = {}) \in BOOLEAN
    OBVIOUS
  <2> QED
    BY <1>0, <1>2, <2>1, CapFields, Zenon
<1>4. wider \in VfCapStates /\ (wider.henabled <=> s.cap[c].henabled) /\ (wider.genabled <=> s.cap[c].genabled) /\ (wider.gmasked <=> s.cap[c].gmasked)
  <2>1. (s.cap[c].hempty /\ w \subseteq s.fds[c]) \in BOOLEAN
    OBVIOUS
  <2>2. wider = [s.cap[c] EXCEPT !.hempty = (s.cap[c].hempty /\ w \subseteq s.fds[c])]
    BY <1>0
  <2> QED
    BY <1>2, <2>1, <2>2, EmptyField, Zenon
<1>9. n \in VfStates /\ w \in SUBSET VfVectors /\ a \in SUBSET VfVectors /\ on \in VfCapStates /\ wider \in VfCapStates
  BY <1>1, <1>2, <1>3, <1>4
<1>5. CASE FullRange(s, c) /\ fail = "multi"
  <2>1. t = FdsMoved(n, c, w)
    BY <1>0, <1>5 DEF EnableMsis, FdsMoved
  <2>2. /\ t \in VfStates /\ (t.intx <=> n.intx) /\ t.cap = n.cap /\ t.armed = n.armed
        /\ t.entry = n.entry /\ t.vfIrqfd = n.vfIrqfd /\ t.route = n.route
        /\ \A d \in Caps : d # c => t.fds[d] = n.fds[d]
    BY <1>9, <2>1, FdsMove
  <2> QED
    BY <1>1, <1>5, <2>2
<1>6. CASE FullRange(s, c) /\ fail # "multi"
  <2>1. t = CapMoved(n, c, w, w, on)
    BY <1>0, <1>6 DEF EnableMsis, CapMoved
  <2>2. CapStep(t, n, c, w, w, on)
    BY <1>9, <2>1, CapMoves
  <2> QED
    BY <1>1, <1>3, <2>2 DEF CapStep
<1>7. CASE ~FullRange(s, c) /\ (s.cap[c].gmasked \/ fail = "single")
  <2>1. t = n
    BY <1>0, <1>7 DEF EnableMsis
  <2> QED
    BY <1>1, <1>7, <2>1 DEF FullRange
<1>8. CASE ~FullRange(s, c) /\ ~(s.cap[c].gmasked \/ fail = "single")
  <2>1. t = CapMoved(n, c, w, a, wider)
    BY <1>0, <1>8 DEF EnableMsis, CapMoved
  <2>0. s.cap[c].henabled
    BY <1>8 DEF FullRange
  <2>2. CapStep(t, n, c, w, a, wider)
    BY <1>9, <2>1, CapMoves
  <2> QED
    BY <1>0, <1>1, <1>4, <2>0, <2>2 DEF CapStep
<1> QED
  BY <1>5, <1>6, <1>7, <1>8

\* EnableMsis keeps VfSafe, and brings host and guest into line unless an
\* ioctl in it failed.
LEMMA EnableKept ==
  ASSUME NEW s, VfSafe(s), NEW c \in Caps, c \in modes, NEW fail
  PROVE  LET t == EnableMsis(s, c, fail)
         IN /\ VfSafe(t)
            /\ fail = "ok" /\ Complete(s) /\ (\A d \in Caps : d # c => Follows(s, d))
                 /\ IntxAlone(s) /\ (s.cap[c].henabled => s.cap[c].genabled /\ s.armed[c] = s.fds[c])
                 => VfClean(t)
<1> DEFINE t == EnableMsis(s, c, fail)
           w == WantedVectors(s, c)
<1>1. CASE ~s.cap[c].genabled
  <2>1. t = s
    BY <1>1 DEF EnableMsis
  <2>2. Follows(s, c) <=> (s.cap[c].henabled => s.cap[c].genabled /\ s.armed[c] = s.fds[c])
    BY <1>1 DEF Follows
  <2> HIDE DEF t
  <2> QED
    BY <2>1, <2>2 DEF VfClean, t
<1>2. CASE s.cap[c].genabled
  <2>1. s \in VfStates /\ (s.intx => "intx" \in modes)
    BY DEF VfSafe, HostKnown
  <2>2. /\ t \in VfStates /\ ~t.intx
        /\ t.entry = s.entry /\ t.vfIrqfd = s.vfIrqfd /\ t.route = s.route
        /\ \A d \in Caps : d # c => t.cap[d] = s.cap[d] /\ t.armed[d] = s.armed[d] /\ t.fds[d] = s.fds[d]
        /\ (t.cap[c].genabled <=> s.cap[c].genabled) /\ (t.cap[c].gmasked <=> s.cap[c].gmasked)
        /\ \/ t.cap[c].henabled /\ t.armed[c] = w /\ t.fds[c] = w
           \/ (t.cap[c].henabled <=> s.cap[c].henabled) /\ t.armed[c] = s.armed[c] /\ fail = "multi"
           \/ /\ t.cap[c] = s.cap[c] /\ t.armed[c] = s.armed[c] /\ t.fds[c] = s.fds[c]
              /\ s.cap[c].henabled /\ (s.cap[c].gmasked \/ fail = "single")
           \/ /\ s.cap[c].henabled /\ t.cap[c].henabled /\ t.fds[c] = w
              /\ t.armed[c] = (s.armed[c] \ (s.fds[c] \ w)) \cup (w \ s.fds[c])
    BY <1>2, <2>1, EnableFields DEF t, w
  <2> HIDE DEF t, w
  <2>3. ~t.cap[c].henabled => t.armed[c] = {}
    BY <2>2 DEF VfSafe, HostKnown
  <2>4. VfSafe(t)
    BY <2>2, <2>3 DEF VfSafe, HostKnown, IrqfdsKnown, IntxAlone
  <2>5. ASSUME fail = "ok", Complete(s), \A d \in Caps : d # c => Follows(s, d),
               s.cap[c].henabled => s.cap[c].genabled /\ s.armed[c] = s.fds[c]
        PROVE  VfClean(t)
    <3>1. Complete(t) /\ IntxAlone(t)
      BY <2>2, <2>5 DEF Complete, Done, IntxAlone
    <3>2. \A d \in Caps : d # c => Follows(t, d)
      BY <2>2, <2>5 DEF Follows
    <3>3. \A v \in VfVectors : t.entry[c][v].used => v \in w
      BY <2>2, <2>5 DEF Complete, Done, w, WantedVectors, VfSafe, EntryOk, Wired
    <3>4. \/ t.cap[c].henabled /\ t.armed[c] = w /\ t.fds[c] = w
          \/ t.cap[c] = s.cap[c] /\ t.armed[c] = s.armed[c] /\ t.fds[c] = s.fds[c] /\ s.cap[c].henabled /\ s.cap[c].gmasked
      <4>1. (s.fds[c] \ (s.fds[c] \ w)) \cup (w \ s.fds[c]) = w
        OBVIOUS
      <4> QED
        BY <2>2, <2>5, <4>1
    <3>5. Follows(t, c)
      BY <1>2, <2>2, <2>5, <3>3, <3>4 DEF Follows
    <3> QED
      BY <3>1, <3>2, <3>5 DEF VfClean
  <2> QED
    BY <2>4, <2>5 DEF t
<1>3. s.cap[c].genabled \in BOOLEAN
  BY DEF VfSafe, VfStates, VfCapStates
<1> QED
  BY <1>1, <1>2, <1>3

\* DisableMsis keeps VfSafe, and brings host and guest into line unless an
\* ioctl in it failed.
LEMMA DisableKept ==
  ASSUME NEW s, VfSafe(s), NEW c \in Caps, c \in modes, ~s.cap[c].genabled,
         \A d \in Caps : d # c => ~s.cap[d].genabled, NEW fail
  PROVE  LET t == DisableMsis(s, c, fail)
         IN /\ VfSafe(t)
            /\ fail = "ok" /\ Complete(s) /\ (\A d \in Caps : d # c => Follows(s, d)) => VfClean(t)
<1> DEFINE t == DisableMsis(s, c, fail)
<1>0. s \in VfStates
  BY DEF VfSafe
<1>1. CASE ~s.cap[c].henabled \/ fail = "none"
  <2>1. t = s
    BY <1>1 DEF DisableMsis
  <2>2. fail = "ok" => Follows(s, c)
    BY <1>1 DEF Follows
  <2>3. fail = "ok" /\ (\A d \in Caps : d # c => Follows(s, d)) => IntxAlone(s)
    BY <1>1 DEF Follows, IntxAlone
  <2> HIDE DEF t
  <2> QED
    BY <2>1, <2>2, <2>3 DEF VfClean, t
<1>2. CASE ~(~s.cap[c].henabled \/ fail = "none")
  <2> DEFINE cs == [s.cap[c] EXCEPT !.henabled = FALSE, !.hempty = TRUE]
  <2>1. cs \in VfCapStates /\ ~cs.henabled /\ (cs.genabled <=> s.cap[c].genabled) /\ (cs.gmasked <=> s.cap[c].gmasked)
    <3>1. s.cap[c] \in VfCapStates
      BY <1>0 DEF VfStates
    <3> QED
      BY <3>1, CapFields
  <2>2. t = [s EXCEPT !.armed = [s.armed EXCEPT ![c] = {}], !.intx = IntxBack(fail), !.cap = [s.cap EXCEPT ![c] = cs]]
    BY <1>0, <1>2 DEF DisableMsis, VfStates
  <2>3. IntxBack(fail) \in BOOLEAN /\ (IntxBack(fail) => "intx" \in modes)
    BY DEF IntxBack
  <2> HIDE DEF t, cs
  <2>4. /\ t \in VfStates /\ t.intx = IntxBack(fail)
        /\ t.entry = s.entry /\ t.vfIrqfd = s.vfIrqfd /\ t.route = s.route /\ t.fds = s.fds
        /\ \A d \in Caps : d # c => t.cap[d] = s.cap[d] /\ t.armed[d] = s.armed[d]
        /\ t.cap[c] = cs /\ t.armed[c] = {}
    BY <1>0, <2>1, <2>2, <2>3 DEF VfStates
  <2>5. HostKnown(t)
    BY <2>1, <2>3, <2>4 DEF VfSafe, HostKnown
  <2>6. ASSUME OneCap PROVE IntxAlone(t)
    <3>1. \A d \in Caps : d # c => ~s.cap[d].henabled
      BY <2>6, OnlyCap DEF VfSafe, HostKnown
    <3> QED
      BY <2>1, <2>4, <3>1 DEF IntxAlone
  <2>7. VfSafe(t)
    BY <2>4, <2>5, <2>6 DEF VfSafe, IrqfdsKnown
  <2>8. ASSUME fail = "ok", Complete(s), \A d \in Caps : d # c => Follows(s, d) PROVE VfClean(t)
    <3>1. \A d \in Caps : d # c => Follows(t, d) /\ ~t.cap[d].henabled
      BY <2>4, <2>8 DEF Follows
    <3>2. Follows(t, c)
      BY <2>1, <2>4 DEF Follows
    <3>3. Complete(t) /\ IntxAlone(t)
      BY <2>1, <2>4, <2>8, <3>1 DEF Complete, Done, IntxAlone
    <3> QED
      BY <3>1, <3>2, <3>3 DEF VfClean
  <2> QED
    BY <2>7, <2>8 DEF t
<1> QED
  BY <1>1, <1>2

\* The entries of a capability, and what the guest has set in the capability, replaced.
EntriesMoved(s, c, f) == [s EXCEPT !.entry[c] = f]
CapSet(s, c, cs) == [s EXCEPT !.cap[c] = cs]

\* What rewriting a capability's entries changes: those entries only.
LEMMA EntriesMove ==
  ASSUME NEW s \in VfStates, NEW c \in Caps, NEW f \in [VfVectors -> VfEntries],
         NEW t, t = EntriesMoved(s, c, f)
  PROVE  /\ t \in VfStates /\ (t.intx <=> s.intx) /\ t.cap = s.cap /\ t.fds = s.fds /\ t.armed = s.armed
         /\ t.vfIrqfd = s.vfIrqfd /\ t.route = s.route
         /\ t.entry[c] = f /\ \A d \in Caps : d # c => t.entry[d] = s.entry[d]
BY DEF VfStates, EntriesMoved

\* A guest write of a capability's flags keeps VfSafe.
LEMMA CapKept ==
  ASSUME NEW s, VfSafe(s), NEW c \in Caps, c \in modes, NEW cs \in VfCapStates,
         cs.henabled <=> s.cap[c].henabled, NEW t, t = CapSet(s, c, cs)
  PROVE  /\ VfSafe(t) /\ t.cap[c] = cs /\ (\A d \in Caps : d # c => t.cap[d] = s.cap[d])
         /\ t.entry = s.entry /\ t.armed = s.armed /\ t.fds = s.fds
         /\ Complete(s) => Complete(t)
         /\ IntxAlone(s) => IntxAlone(t)
         /\ \A d \in Caps : d # c /\ Follows(s, d) => Follows(t, d)
<1>1. s \in VfStates
  BY DEF VfSafe
<1>2. /\ t \in VfStates /\ (t.intx <=> s.intx) /\ t.fds = s.fds /\ t.armed = s.armed
      /\ t.vfIrqfd = s.vfIrqfd /\ t.route = s.route /\ t.entry = s.entry
      /\ t.cap[c] = cs /\ \A d \in Caps : d # c => t.cap[d] = s.cap[d]
  BY <1>1 DEF VfStates, CapSet
<1>3. IntxAlone(s) => IntxAlone(t)
  BY <1>2 DEF IntxAlone
<1>4. HostKnown(t)
  BY <1>2 DEF VfSafe, HostKnown
<1>5. VfSafe(t)
  BY <1>2, <1>3, <1>4 DEF VfSafe, IrqfdsKnown
<1> QED
  BY <1>2, <1>3, <1>5 DEF Complete, Done, Follows

\* The guest programs entries of a capability, and the program applies those of vs.
LEMMA Programmed ==
  ASSUME NEW s, VfSafe(s), NEW c \in Caps, NEW f \in [VfVectors -> VfEntries], NEW vs, NEW fail,
         \A v \in VfVectors : Wired(f[v]) /\ (f[v].hmasked <=> s.entry[c][v].hmasked),
         \A v \in VfVectors : v \notin vs => EntryOk(f[v]),
         NEW i, i = EntriesMoved(s, c, f), NEW t, t = UpdateEntries(i, c, vs, fail)
  PROVE  /\ VfSafe(t)
         /\ t.cap = s.cap /\ t.fds = s.fds /\ t.armed = s.armed /\ (t.intx <=> s.intx)
         /\ \A v \in VfVectors : t.entry[c][v].used = f[v].used
         /\ \A d \in Caps, v \in VfVectors : d # c => t.entry[d][v].used = s.entry[d][v].used
         /\ fail = "ok" /\ Complete(s) /\ (\A v \in VfVectors : v \notin vs => Done(i, c, v)) => Complete(t)
<1>1. s \in VfStates
  BY DEF VfSafe
<1>2. /\ i \in VfStates /\ (i.intx <=> s.intx) /\ i.cap = s.cap /\ i.fds = s.fds /\ i.armed = s.armed
      /\ i.vfIrqfd = s.vfIrqfd /\ i.route = s.route
      /\ i.entry[c] = f /\ \A d \in Caps : d # c => i.entry[d] = s.entry[d]
  BY <1>1, EntriesMove
<1>3. \A d \in Caps, v \in VfVectors : Wired(i.entry[d][v])
  BY <1>2 DEF VfSafe, EntryOk
<1>4. \A d \in Caps, v \in VfVectors : d # c \/ v \notin vs => EntryOk(i.entry[d][v])
  BY <1>2 DEF VfSafe
<1>5. IrqfdsKnown(i)
  BY <1>2 DEF VfSafe, IrqfdsKnown
<1>6. HostKnown(i) /\ (OneCap => IntxAlone(i))
  BY <1>2 DEF VfSafe, HostKnown, IntxAlone
<1>7. /\ VfSafe(t)
      /\ t.cap = i.cap /\ t.fds = i.fds /\ t.armed = i.armed /\ t.intx = i.intx
      /\ \A d \in Caps, v \in VfVectors : t.entry[d][v].used = i.entry[d][v].used
      /\ fail = "ok" /\ (\A d \in Caps, v \in VfVectors : d # c \/ v \notin vs => Done(i, d, v))
           => Complete(t)
  BY <1>2, <1>3, <1>4, <1>5, <1>6, EntriesKept
<1>8. Complete(s) => \A d \in Caps, v \in VfVectors : d # c => Done(i, d, v)
  BY <1>2 DEF Complete, Done
<1>9. t.intx <=> s.intx
  BY <1>2, <1>7
<1> QED
  BY <1>2, <1>7, <1>8, <1>9

\* A step of the device.
LEMMA BecomesKept ==
  ASSUME VfIInv, NEW t, NEW fail, Becomes(t, fail), VfSafe(t),
         fails = 0 /\ fail = "ok" => VfClean(t)
  PROVE  VfIInv'
<1>1. State' = t
  <2>1. t = [cap |-> t.cap, entry |-> t.entry, fds |-> t.fds, armed |-> t.armed,
             vfIrqfd |-> t.vfIrqfd, route |-> t.route, intx |-> t.intx]
    BY DEF VfSafe, VfStates
  <2> QED
    BY <2>1 DEF Becomes, State
<1>2. modes' = modes /\ fails' = IF fail = "ok" THEN fails ELSE fails + 1
  BY DEF Becomes
<1>3. fails' \in Nat /\ (fails' = 0 => fails = 0 /\ fail = "ok")
  BY <1>2 DEF VfIInv
<1>4. VfSafe(State)'
  BY <1>1, <1>2 DEF VfSafe, HostKnown, IntxAlone, OneCap, IrqfdsKnown
<1>5. VfClean(t) => VfClean(State)'
  BY <1>1 DEF VfClean, Complete, Done, Follows, IntxAlone
<1> QED
  BY <1>2, <1>3, <1>4, <1>5 DEF VfIInv

\* What the guest programs into an entry.
MaskSet(e, g) == [e EXCEPT !.gmasked = g]
MsgSet(e, m) == [e EXCEPT !.msg = m]
UsedSet(e, b) == [e EXCEPT !.used = b]
MessageSet(e, m) == [e EXCEPT !.msg = m, !.used = TRUE]
ControlSet(e, g, m) == [e EXCEPT !.gmasked = g, !.msg = m, !.used = TRUE]

\* u is the entry e but for what the guest programs, g its mask bit.
Reprogrammed(u, e, g) ==
  /\ u \in VfEntries /\ (u.gmasked <=> g)
  /\ (u.hmasked <=> e.hmasked) /\ (u.gsi <=> e.gsi) /\ (u.efd <=> e.efd)

\* What a guest mask write changes of an entry: the guest mask only.
LEMMA MaskSets ==
  ASSUME NEW e \in VfEntries, NEW g \in BOOLEAN
  PROVE  Reprogrammed(MaskSet(e, g), e, g) /\ (MaskSet(e, g).used <=> e.used) /\ MaskSet(e, g).msg = e.msg
BY DEF VfEntries, MaskSet, Reprogrammed

\* What a new message changes of an entry: the message only.
LEMMA MsgSets ==
  ASSUME NEW e \in VfEntries, NEW m \in VfMsgs
  PROVE  Reprogrammed(MsgSet(e, m), e, e.gmasked) /\ (MsgSet(e, m).used <=> e.used)
BY DEF VfEntries, MsgSet, Reprogrammed

\* What allocating or freeing an entry's route changes: that flag only.
LEMMA UsedSets ==
  ASSUME NEW e \in VfEntries, NEW b \in BOOLEAN
  PROVE  Reprogrammed(UsedSet(e, b), e, e.gmasked) /\ (UsedSet(e, b).used <=> b)
BY DEF VfEntries, UsedSet, Reprogrammed

\* What programming an entry's message changes: neither mask.
LEMMA MessageSets ==
  ASSUME NEW e \in VfEntries, NEW m \in VfMsgs
  PROVE  Reprogrammed(MessageSet(e, m), e, e.gmasked)
BY DEF VfEntries, MessageSet, Reprogrammed

\* What a write of an entry's control word changes: the guest mask and the
\* message.
LEMMA ControlSets ==
  ASSUME NEW e \in VfEntries, NEW m \in VfMsgs, NEW g \in BOOLEAN
  PROVE  Reprogrammed(ControlSet(e, g, m), e, g)
BY DEF VfEntries, ControlSet, Reprogrammed

\* Programming an entry leaves it wired, and its irqfd right unless the mask bit is set.
LEMMA StaysWired ==
  ASSUME NEW e, NEW u, NEW g, EntryOk(e), Reprogrammed(u, e, g)
  PROVE  Wired(u) /\ (g = e.gmasked => EntryOk(u))
BY DEF EntryOk, Wired, Reprogrammed

\* The state of the device, as one record.
LEMMA StateIs ==
  ASSUME VfIInv
  PROVE  \E s : /\ s = State /\ VfSafe(s) /\ (fails = 0 => VfClean(s)) /\ s \in VfStates
                /\ s.cap = cap /\ s.entry = entry
                /\ \A c \in Caps : s.cap[c] \in VfCapStates
                /\ \A c \in Caps : s.entry[c] \in [VfVectors -> VfEntries]
                /\ \A c \in Caps, v \in VfVectors : s.entry[c][v] \in VfEntries /\ EntryOk(s.entry[c][v])
<1>1. State.cap = cap /\ State.entry = entry
  BY DEF State
<1>2. VfSafe(State) /\ (fails = 0 => VfClean(State)) /\ State \in VfStates
  BY DEF VfIInv, VfSafe
<1> HIDE DEF State
<1>3. \A c \in Caps : State.cap[c] \in VfCapStates /\ State.entry[c] \in [VfVectors -> VfEntries]
  BY <1>2 DEF VfStates
<1>4. \A c \in Caps, v \in VfVectors : State.entry[c][v] \in VfEntries /\ EntryOk(State.entry[c][v])
  BY <1>2, <1>3 DEF VfSafe
<1> QED
  BY <1>1, <1>2, <1>3, <1>4

\* vfio_pci_msix_table_access of a message changes neither host state nor mask.
LEMMA MessageKept ==
  ASSUME VfIInv, NEW v \in VfVectors, NEW m \in VfMsgs, MsixMessage(v, m)
  PROVE  VfIInv'
<1> DEFINE c == "msix"
<1>0. PICK s : /\ s = State /\ VfSafe(s) /\ (fails = 0 => VfClean(s)) /\ s \in VfStates
               /\ s.cap = cap /\ s.entry = entry
               /\ \A d \in Caps : s.cap[d] \in VfCapStates
               /\ \A d \in Caps : s.entry[d] \in [VfVectors -> VfEntries]
               /\ \A d \in Caps, x \in VfVectors : s.entry[d][x] \in VfEntries /\ EntryOk(s.entry[d][x])
  BY StateIs
<1>1. c \in Caps /\ c \in modes /\ s.entry[c][v].gmasked
  BY <1>0 DEF MsixMessage, Caps
<1> DEFINE e == s.entry[c][v]
           f == [s.entry[c] EXCEPT ![v] = MsgSet(e, m)]
           t == EntriesMoved(s, c, f)
<1>2. Becomes(t, "ok")
  BY <1>0 DEF MsixMessage, EntriesMoved, MsgSet
<1> HIDE DEF c
<1>3. Reprogrammed(MsgSet(e, m), e, e.gmasked) /\ (MsgSet(e, m).used <=> e.used)
  BY <1>0, <1>1, MsgSets, Zenon
<1>4. EntryOk(MsgSet(e, m)) /\ MsgSet(e, m) \in VfEntries
  BY <1>0, <1>1, <1>3, StaysWired DEF Reprogrammed
<1> HIDE DEF e
<1>5. f \in [VfVectors -> VfEntries] /\ f[v] = MsgSet(e, m) /\ \A x \in VfVectors : x # v => f[x] = s.entry[c][x]
  BY <1>0, <1>1, <1>4
<1> HIDE DEF f
<1>6. /\ t \in VfStates /\ (t.intx <=> s.intx) /\ t.cap = s.cap /\ t.fds = s.fds /\ t.armed = s.armed
      /\ t.vfIrqfd = s.vfIrqfd /\ t.route = s.route
      /\ t.entry[c] = f /\ \A d \in Caps : d # c => t.entry[d] = s.entry[d]
  BY <1>0, <1>1, <1>5, EntriesMove
<1> HIDE DEF t
<1>7. \A d \in Caps, x \in VfVectors :
        /\ EntryOk(t.entry[d][x]) /\ (t.entry[d][x].hmasked <=> s.entry[d][x].hmasked)
        /\ (t.entry[d][x].used <=> s.entry[d][x].used)
        /\ Done(s, d, x) => Done(t, d, x)
  <2> TAKE d \in Caps, x \in VfVectors
  <2>1. CASE d = c /\ x = v
    <3>1. t.entry[d][x] = MsgSet(e, m) /\ s.entry[d][x] = e /\ e.gmasked
      BY <1>1, <1>5, <1>6, <2>1 DEF e
    <3> QED
      BY <1>3, <1>4, <2>1, <3>1 DEF Done, Reprogrammed
  <2>2. CASE d # c \/ x # v
    <3>1. t.entry[d][x] = s.entry[d][x] /\ t.route[d][x] = s.route[d][x]
      BY <1>5, <1>6, <2>2
    <3> QED
      BY <1>0, <3>1 DEF Done
  <2> QED
    BY <2>1, <2>2
<1>8. VfSafe(t)
  BY <1>0, <1>6, <1>7 DEF VfSafe, IrqfdsKnown, HostKnown, IntxAlone
<1>9. fails = 0 => VfClean(t)
  BY <1>0, <1>6, <1>7 DEF VfClean, Complete, Follows, IntxAlone
<1> QED
  BY <1>2, <1>8, <1>9, BecomesKept

\* vfio_pci_msix_table_access of the vector control register.
LEMMA ControlKept ==
  ASSUME VfIInv, NEW v \in VfVectors, NEW m \in VfMsgs, NEW g \in BOOLEAN, NEW fail, MsixControl(v, m, g, fail)
  PROVE  VfIInv'
<1> DEFINE c == "msix"
<1>0. PICK s : /\ s = State /\ VfSafe(s) /\ (fails = 0 => VfClean(s)) /\ s \in VfStates
               /\ s.cap = cap /\ s.entry = entry
               /\ \A d \in Caps : s.cap[d] \in VfCapStates
               /\ \A d \in Caps : s.entry[d] \in [VfVectors -> VfEntries]
               /\ \A d \in Caps, x \in VfVectors : s.entry[d][x] \in VfEntries /\ EntryOk(s.entry[d][x])
  BY StateIs
<1>1. c \in Caps /\ c \in modes
  BY DEF MsixControl, Caps
<1> DEFINE e == s.entry[c][v]
           f == [s.entry[c] EXCEPT ![v] = ControlSet(e, g, m)]
           i == EntriesMoved(s, c, f)
           u == UpdateEntries(i, c, {v}, fail)
           t == EnableMsis(u, c, fail)
<1>2. Becomes(t, fail)
  BY <1>0 DEF MsixControl, EntriesMoved, ControlSet
<1> HIDE DEF c
<1>3. Reprogrammed(ControlSet(e, g, m), e, g)
  BY <1>0, <1>1, ControlSets, Zenon
<1>4. Wired(ControlSet(e, g, m)) /\ ControlSet(e, g, m) \in VfEntries /\ (ControlSet(e, g, m).hmasked <=> e.hmasked)
  BY <1>0, <1>1, <1>3, StaysWired DEF Reprogrammed
<1> HIDE DEF e
<1>5. f \in [VfVectors -> VfEntries] /\ f[v] = ControlSet(e, g, m) /\ \A x \in VfVectors : x # v => f[x] = s.entry[c][x]
  BY <1>0, <1>1, <1>4
<1> HIDE DEF f
<1>6. \A x \in VfVectors : Wired(f[x]) /\ (f[x].hmasked <=> s.entry[c][x].hmasked)
  BY <1>0, <1>1, <1>4, <1>5 DEF e, EntryOk
<1>7. \A x \in VfVectors : x \notin {v} => EntryOk(f[x])
  BY <1>0, <1>1, <1>5
<1>8. /\ i.route = s.route /\ i.entry[c] = f
  BY <1>0, <1>1, <1>5, EntriesMove
<1> HIDE DEF i
<1>9. /\ VfSafe(u)
      /\ u.cap = s.cap /\ u.fds = s.fds /\ u.armed = s.armed /\ (u.intx <=> s.intx)
      /\ \A d \in Caps, x \in VfVectors : d # c => u.entry[d][x].used = s.entry[d][x].used
      /\ fail = "ok" /\ Complete(s) /\ (\A x \in VfVectors : x \notin {v} => Done(i, c, x)) => Complete(u)
  BY <1>0, <1>1, <1>5, <1>6, <1>7, Programmed DEF i
<1> HIDE DEF u
<1>10. VfSafe(t)
  BY <1>1, <1>9, EnableKept
<1>11. ASSUME fails = 0, fail = "ok" PROVE VfClean(t)
  <2>1. VfClean(s)
    BY <1>0, <1>11
  <2>2. \A x \in VfVectors : x \notin {v} => Done(i, c, x)
    BY <1>1, <1>5, <1>8, <2>1 DEF VfClean, Complete, Done
  <2>3. Complete(u)
    BY <1>9, <1>11, <2>1, <2>2 DEF VfClean
  <2>4. \A d \in Caps : d # c => Follows(u, d)
    BY <1>9, <2>1 DEF VfClean, Follows
  <2>5. IntxAlone(u) /\ (u.cap[c].henabled => u.cap[c].genabled /\ u.armed[c] = u.fds[c])
    BY <1>1, <1>9, <2>1 DEF VfClean, Follows, IntxAlone
  <2> QED
    BY <1>1, <1>9, <1>11, <2>3, <2>4, <2>5, EnableKept
<1> HIDE DEF t
<1> QED
  BY <1>2, <1>10, <1>11, BecomesKept

\* vfio_pci_msi_vector_write of the mask bits.
LEMMA MaskKept ==
  ASSUME VfIInv, NEW masks, NEW fail, MsiMask(masks, fail)
  PROVE  VfIInv'
<1> DEFINE c == "msi"
<1>0. PICK s : /\ s = State /\ VfSafe(s) /\ (fails = 0 => VfClean(s)) /\ s \in VfStates
               /\ s.cap = cap /\ s.entry = entry
               /\ \A d \in Caps : s.cap[d] \in VfCapStates
               /\ \A d \in Caps : s.entry[d] \in [VfVectors -> VfEntries]
               /\ \A d \in Caps, x \in VfVectors : s.entry[d][x] \in VfEntries /\ EntryOk(s.entry[d][x])
  BY StateIs
<1>1. c \in Caps /\ c \in modes
  BY DEF MsiMask, Caps
<1> DEFINE f == [v \in VfVectors |-> MaskSet(s.entry[c][v], v \in masks)]
           vs == {v \in VfVectors : (v \in masks) # s.entry[c][v].gmasked}
           i == EntriesMoved(s, c, f)
           u == UpdateEntries(i, c, vs, fail)
<1>2. Becomes(u, fail)
  BY <1>0 DEF MsiMask, EntriesMoved, MaskSet
<1> HIDE DEF c
<1>3. \A v \in VfVectors :
        /\ Reprogrammed(f[v], s.entry[c][v], v \in masks) /\ (f[v].used <=> s.entry[c][v].used) /\ f[v].msg = s.entry[c][v].msg
  <2> TAKE v \in VfVectors
  <2>1. s.entry[c][v] \in VfEntries /\ (v \in masks) \in BOOLEAN
    BY <1>0, <1>1
  <2>2. PICK g \in BOOLEAN : g = (v \in masks)
    BY <2>1
  <2>3. f[v] = MaskSet(s.entry[c][v], g)
    BY <2>2
  <2> HIDE DEF f
  <2>4. Reprogrammed(f[v], s.entry[c][v], g) /\ (f[v].used <=> s.entry[c][v].used) /\ f[v].msg = s.entry[c][v].msg
    BY <2>1, <2>3, MaskSets
  <2> QED
    BY <2>2, <2>4
<1>4. f \in [VfVectors -> VfEntries]
  <2>1. \A v \in VfVectors : MaskSet(s.entry[c][v], v \in masks) \in VfEntries
    BY <1>3 DEF Reprogrammed
  <2> QED
    BY <2>1
<1> HIDE DEF f
<1>5. \A v \in VfVectors : Wired(f[v]) /\ (f[v].hmasked <=> s.entry[c][v].hmasked)
  BY <1>0, <1>1, <1>3, StaysWired DEF Reprogrammed
<1>6. \A v \in VfVectors : v \notin vs => EntryOk(f[v]) /\ (f[v].gmasked <=> s.entry[c][v].gmasked)
  <2> TAKE v \in VfVectors
  <2> HAVE v \notin vs
  <2>1. (v \in masks) = s.entry[c][v].gmasked
    OBVIOUS
  <2>2. EntryOk(s.entry[c][v]) /\ Reprogrammed(f[v], s.entry[c][v], s.entry[c][v].gmasked)
    BY <1>0, <1>1, <1>3, <2>1
  <2> QED
    BY <2>2, StaysWired DEF Reprogrammed
<1>7. /\ i.route = s.route /\ i.entry[c] = f
  BY <1>0, <1>1, <1>4, EntriesMove
<1> HIDE DEF i, vs
<1>8. /\ VfSafe(u)
      /\ u.cap = s.cap /\ u.fds = s.fds /\ u.armed = s.armed /\ (u.intx <=> s.intx)
      /\ \A v \in VfVectors : u.entry[c][v].used = f[v].used
      /\ \A d \in Caps, x \in VfVectors : d # c => u.entry[d][x].used = s.entry[d][x].used
      /\ fail = "ok" /\ Complete(s) /\ (\A x \in VfVectors : x \notin vs => Done(i, c, x)) => Complete(u)
  BY <1>0, <1>1, <1>4, <1>5, <1>6, Programmed DEF i
<1> HIDE DEF u
<1>9. ASSUME fails = 0, fail = "ok" PROVE VfClean(u)
  <2>1. VfClean(s)
    BY <1>0, <1>9
  <2>2. \A x \in VfVectors : x \notin vs => Done(i, c, x)
    <3> SUFFICES ASSUME NEW x \in VfVectors, x \notin vs, f[x].used PROVE Done(i, c, x)
      BY <1>7 DEF Done
    <3>1. Done(s, c, x) /\ s.entry[c][x].used
      BY <1>1, <1>3, <2>1 DEF VfClean, Complete
    <3>2. (f[x].gmasked <=> s.entry[c][x].gmasked) /\ (f[x].hmasked <=> s.entry[c][x].hmasked)
          /\ (f[x].gsi <=> s.entry[c][x].gsi) /\ f[x].msg = s.entry[c][x].msg
      BY <1>3, <1>6 DEF Reprogrammed
    <3> QED
      BY <1>7, <3>1, <3>2 DEF Done
  <2>3. Complete(u)
    BY <1>8, <1>9, <2>1, <2>2 DEF VfClean
  <2>4. \A d \in Caps : Follows(u, d)
    <3> TAKE d \in Caps
    <3>1. \A x \in VfVectors : u.entry[d][x].used <=> s.entry[d][x].used
      BY <1>3, <1>8
    <3> QED
      BY <1>8, <2>1, <3>1 DEF VfClean, Follows
  <2>5. IntxAlone(u)
    BY <1>8, <2>1 DEF VfClean, IntxAlone
  <2> QED
    BY <2>3, <2>4, <2>5 DEF VfClean
<1> QED
  BY <1>2, <1>8, <1>9, BecomesKept

\* What the guest sets in a capability.
FlagsSet(cs, g, on) == [cs EXCEPT !.gmasked = g, !.genabled = on]
EnableSet(cs, on) == [cs EXCEPT !.genabled = on]

\* What a guest write of both capability flags changes: no host flag.
LEMMA FlagsSets ==
  ASSUME NEW cs \in VfCapStates, NEW g \in BOOLEAN, NEW on \in BOOLEAN
  PROVE  /\ FlagsSet(cs, g, on) \in VfCapStates
         /\ (FlagsSet(cs, g, on).henabled <=> cs.henabled) /\ (FlagsSet(cs, g, on).genabled <=> on)
BY DEF VfCapStates, FlagsSet

\* What a guest write of the enable flag changes: no host flag.
LEMMA EnableSets ==
  ASSUME NEW cs \in VfCapStates, NEW on \in BOOLEAN
  PROVE  /\ EnableSet(cs, on) \in VfCapStates
         /\ (EnableSet(cs, on).henabled <=> cs.henabled) /\ (EnableSet(cs, on).genabled <=> on)
BY DEF VfCapStates, EnableSet

\* vfio_pci_msix_cap_write of the Enable and Mask All bits.
LEMMA FlagsKept ==
  ASSUME VfIInv, NEW on \in BOOLEAN, NEW g \in BOOLEAN, NEW fail, MsixFlags(on, g, fail)
  PROVE  VfIInv'
<1> DEFINE c == "msix"
<1>0. PICK s : /\ s = State /\ VfSafe(s) /\ (fails = 0 => VfClean(s)) /\ s \in VfStates
               /\ s.cap = cap /\ s.entry = entry
               /\ \A d \in Caps : s.cap[d] \in VfCapStates
               /\ \A d \in Caps : s.entry[d] \in [VfVectors -> VfEntries]
               /\ \A d \in Caps, x \in VfVectors : s.entry[d][x] \in VfEntries /\ EntryOk(s.entry[d][x])
  BY StateIs
<1>1. c \in Caps /\ c \in modes /\ \A d \in Caps : d # c => ~s.cap[d].genabled
  BY <1>0 DEF MsixFlags, Caps, OneAtATime
<1> DEFINE cs == FlagsSet(s.cap[c], g, on)
           i == CapSet(s, c, cs)
           t == IF on THEN EnableMsis(i, c, fail) ELSE DisableMsis(i, c, fail)
<1>2. Becomes(t, fail)
  BY <1>0 DEF MsixFlags, CapSet, FlagsSet
<1> HIDE DEF c
<1>3. cs \in VfCapStates /\ (cs.henabled <=> s.cap[c].henabled) /\ (cs.genabled <=> on)
  BY <1>0, <1>1, FlagsSets, Zenon
<1> HIDE DEF cs
<1>4. /\ VfSafe(i) /\ i.cap[c] = cs /\ (\A d \in Caps : d # c => i.cap[d] = s.cap[d])
      /\ i.entry = s.entry /\ i.armed = s.armed /\ i.fds = s.fds
      /\ Complete(s) => Complete(i)
      /\ IntxAlone(s) => IntxAlone(i)
      /\ \A d \in Caps : d # c /\ Follows(s, d) => Follows(i, d)
  BY <1>0, <1>1, <1>3, CapKept
<1> HIDE DEF i
<1>5. VfClean(s) => /\ Complete(i) /\ IntxAlone(i) /\ (\A d \in Caps : d # c => Follows(i, d))
                    /\ i.cap[c].henabled => i.armed[c] = i.fds[c]
  BY <1>1, <1>3, <1>4 DEF VfClean, Follows
<1>6. CASE on
  <2>1. t = EnableMsis(i, c, fail)
    BY <1>6
  <2>2. VfSafe(t)
    BY <1>1, <1>4, <2>1, EnableKept
  <2>3. ASSUME fails = 0, fail = "ok" PROVE VfClean(t)
    BY <1>0, <1>1, <1>3, <1>4, <1>5, <1>6, <2>1, <2>3, EnableKept
  <2> HIDE DEF t
  <2> QED
    BY <1>2, <2>2, <2>3, BecomesKept
<1>7. CASE ~on
  <2>1. t = DisableMsis(i, c, fail)
    BY <1>7
  <2>2. ~i.cap[c].genabled /\ \A d \in Caps : d # c => ~i.cap[d].genabled
    BY <1>1, <1>3, <1>4, <1>7
  <2>3. VfSafe(t)
    BY <1>1, <1>4, <2>1, <2>2, DisableKept
  <2>4. ASSUME fails = 0, fail = "ok" PROVE VfClean(t)
    BY <1>0, <1>1, <1>4, <1>5, <2>1, <2>2, <2>4, DisableKept
  <2> HIDE DEF t
  <2> QED
    BY <1>2, <2>3, <2>4, BecomesKept
<1> QED
  BY <1>6, <1>7

\* vfio_pci_msi_cap_write of the control byte.
LEMMA MsiFlagsKept ==
  ASSUME VfIInv, NEW on \in BOOLEAN, NEW m \in VfMsgs, NEW n, NEW fail, MsiFlags(on, m, n, fail)
  PROVE  VfIInv'
<1> DEFINE c == "msi"
<1>0. PICK s : /\ s = State /\ VfSafe(s) /\ (fails = 0 => VfClean(s)) /\ s \in VfStates
               /\ s.cap = cap /\ s.entry = entry
               /\ \A d \in Caps : s.cap[d] \in VfCapStates
               /\ \A d \in Caps : s.entry[d] \in [VfVectors -> VfEntries]
               /\ \A d \in Caps, x \in VfVectors : s.entry[d][x] \in VfEntries /\ EntryOk(s.entry[d][x])
  BY StateIs
<1>1. c \in Caps /\ c \in modes /\ \A d \in Caps : d # c => ~s.cap[d].genabled
  BY <1>0 DEF MsiFlags, Caps, OneAtATime
<1> DEFINE cs == EnableSet(s.cap[c], on)
           i == CapSet(s, c, cs)
           f == [v \in VfVectors |-> IF v < n THEN MessageSet(s.entry[c][v], m) ELSE UsedSet(s.entry[c][v], FALSE)]
           j == EntriesMoved(i, c, f)
           vs == {v \in VfVectors : v < n}
           u == UpdateEntries(j, c, vs, fail)
           t == IF ~on THEN DisableMsis(i, c, fail) ELSE EnableMsis(u, c, fail)
<1>a. i.entry = s.entry /\ i.entry[c] = s.entry[c]
  BY DEF CapSet
<1>2. Becomes(t, fail)
  <2>1. j = [i EXCEPT !.entry["msi"] = [v \in VfVectors |->
                     IF v < n THEN [@[v] EXCEPT !.msg = m, !.used = TRUE]
                              ELSE [@[v] EXCEPT !.used = FALSE]]]
    <3> HIDE DEF i
    <3> QED
      BY <1>a DEF EntriesMoved, MessageSet, UsedSet
  <2>2. i = [State EXCEPT !.cap["msi"] = [@ EXCEPT !.genabled = on]]
    BY <1>0 DEF CapSet, EnableSet
  <2> HIDE DEF i, j
  <2> QED
    BY <2>1, <2>2 DEF MsiFlags
<1> HIDE DEF c
<1>3. cs \in VfCapStates /\ (cs.henabled <=> s.cap[c].henabled) /\ (cs.genabled <=> on)
  BY <1>0, <1>1, EnableSets, Zenon
<1> HIDE DEF cs
<1>4. /\ VfSafe(i) /\ i.cap[c] = cs /\ (\A d \in Caps : d # c => i.cap[d] = s.cap[d])
      /\ i.entry = s.entry /\ i.armed = s.armed /\ i.fds = s.fds
      /\ Complete(s) => Complete(i)
      /\ IntxAlone(s) => IntxAlone(i)
      /\ \A d \in Caps : d # c /\ Follows(s, d) => Follows(i, d)
  BY <1>0, <1>1, <1>3, CapKept
<1> HIDE DEF i
<1>5. VfClean(s) => /\ Complete(i) /\ IntxAlone(i) /\ (\A d \in Caps : d # c => Follows(i, d))
                    /\ i.cap[c].henabled => i.armed[c] = i.fds[c]
  BY <1>1, <1>3, <1>4 DEF VfClean, Follows
<1>6. CASE on
  <2>1. t = EnableMsis(u, c, fail)
    BY <1>6
  <2>2. \A v \in VfVectors : /\ Reprogrammed(f[v], s.entry[c][v], s.entry[c][v].gmasked)
                             /\ v \notin vs => ~f[v].used
    <3> TAKE v \in VfVectors
    <3>1. s.entry[c][v] \in VfEntries
      BY <1>0, <1>1
    <3>2. v < n => f[v] = MessageSet(s.entry[c][v], m)
      OBVIOUS
    <3>3. ~(v < n) => f[v] = UsedSet(s.entry[c][v], FALSE)
      OBVIOUS
    <3>4. v \notin vs => ~(v < n)
      OBVIOUS
    <3> HIDE DEF f, vs
    <3>5. CASE v < n
      BY <3>1, <3>2, <3>4, <3>5, MessageSets
    <3>6. CASE ~(v < n)
      BY <3>1, <3>3, <3>6, UsedSets
    <3> QED
      BY <3>5, <3>6
  <2>3. f \in [VfVectors -> VfEntries]
    <3>1. \A v \in VfVectors : f[v] \in VfEntries
      BY <2>2 DEF Reprogrammed
    <3> QED
      BY <3>1
  <2> HIDE DEF f
  <2>4. \A v \in VfVectors : Wired(f[v]) /\ (f[v].hmasked <=> i.entry[c][v].hmasked) /\ EntryOk(f[v])
    BY <1>0, <1>1, <1>4, <2>2, StaysWired DEF Reprogrammed
  <2>5. j.entry[c] = f
    BY <1>1, <1>4, <2>3, EntriesMove DEF VfSafe
  <2> HIDE DEF j, vs
  <2>6. /\ VfSafe(u)
        /\ u.cap = i.cap /\ u.fds = i.fds /\ u.armed = i.armed /\ (u.intx <=> i.intx)
        /\ \A d \in Caps, v \in VfVectors : d # c => u.entry[d][v].used = i.entry[d][v].used
        /\ fail = "ok" /\ Complete(i) /\ (\A v \in VfVectors : v \notin vs => Done(j, c, v)) => Complete(u)
    BY <1>1, <1>4, <2>3, <2>4, Programmed DEF j
  <2> HIDE DEF u
  <2>7. VfSafe(t)
    BY <1>1, <2>1, <2>6, EnableKept
  <2>8. ASSUME fails = 0, fail = "ok" PROVE VfClean(t)
    <3>1. /\ Complete(i) /\ IntxAlone(i) /\ (\A d \in Caps : d # c => Follows(i, d))
          /\ i.cap[c].henabled => i.armed[c] = i.fds[c]
      BY <1>0, <1>5, <2>8
    <3>2. \A v \in VfVectors : v \notin vs => Done(j, c, v)
      BY <2>2, <2>5 DEF Done
    <3>3. Complete(u)
      BY <2>6, <2>8, <3>1, <3>2
    <3>4. \A d \in Caps : d # c => Follows(u, d)
      BY <2>6, <3>1 DEF Follows
    <3>5. IntxAlone(u) /\ (u.cap[c].henabled => u.cap[c].genabled /\ u.armed[c] = u.fds[c])
      BY <1>3, <1>4, <1>6, <2>6, <3>1 DEF IntxAlone
    <3> QED
      BY <1>1, <2>1, <2>6, <2>8, <3>3, <3>4, <3>5, EnableKept
  <2> HIDE DEF t
  <2> QED
    BY <1>2, <2>7, <2>8, BecomesKept
<1>7. CASE ~on
  <2>1. t = DisableMsis(i, c, fail)
    BY <1>7
  <2>2. ~i.cap[c].genabled /\ \A d \in Caps : d # c => ~i.cap[d].genabled
    BY <1>1, <1>3, <1>4, <1>7
  <2>3. VfSafe(t)
    BY <1>1, <1>4, <2>1, <2>2, DisableKept
  <2>4. ASSUME fails = 0, fail = "ok" PROVE VfClean(t)
    BY <1>0, <1>1, <1>4, <1>5, <2>1, <2>2, <2>4, DisableKept
  <2> HIDE DEF t
  <2> QED
    BY <1>2, <2>3, <2>4, BecomesKept
<1> QED
  BY <1>6, <1>7

\* Nothing is programmed, enabled or registered at first, and INTx is on where the device has it.
LEMMA VfInitHolds == VfInit => VfIInv
<1> SUFFICES ASSUME VfInit PROVE VfIInv
  OBVIOUS
<1>1. modes \subseteq {"msi", "msix", "intx"} /\ fails = 0
  <2>1. PICK found \in VfCaps, x \in {{}, {"intx"}} : modes = found \cup x
    BY DEF VfInit, IrqModes
  <2> QED
    BY <2>1, VfAssumption DEF VfInit
<1>2. PICK s : /\ s = State /\ s.cap = cap /\ s.entry = entry /\ s.fds = fds /\ s.armed = armed
               /\ s.vfIrqfd = vfIrqfd /\ s.route = route /\ (s.intx <=> intx)
  <2>1. State.cap = cap /\ State.entry = entry /\ State.fds = fds /\ State.armed = armed
    BY DEF State
  <2>2. State.vfIrqfd = vfIrqfd /\ State.route = route
    BY DEF State
  <2>3. State.intx <=> intx
    BY Zenon DEF State
  <2> HIDE DEF State
  <2> QED
    BY <2>1, <2>2, <2>3
<1>3. State \in VfStates
  BY DEF State, VfInit, VfStates, VfCapStates, VfEntries
<1>4. \A c \in Caps : ~s.cap[c].genabled /\ ~s.cap[c].henabled /\ s.armed[c] = {} /\ s.vfIrqfd[c] = {}
  BY <1>2 DEF VfInit
<1>5. \A c \in Caps, v \in VfVectors :
        s.entry[c][v] = [gsi |-> FALSE, efd |-> FALSE, gmasked |-> FALSE, hmasked |-> TRUE, msg |-> NoMsg, used |-> FALSE]
  BY <1>2 DEF VfInit
<1>6. VfSafe(s)
  <2>1. s.intx => "intx" \in modes
    BY <1>2 DEF VfInit
  <2> QED
    BY <1>2, <1>3, <1>4, <1>5, <2>1 DEF VfSafe, IrqfdsKnown, HostKnown, IntxAlone, EntryOk, Wired
<1>7. VfClean(s)
  BY <1>4, <1>5 DEF VfClean, Complete, Done, Follows, IntxAlone
<1> QED
  BY <1>1, <1>2, <1>6, <1>7 DEF VfIInv

\* Every configuration or table access of the guest, or a stutter, keeps
\* VfIInv.
LEMMA VfNextKeeps == VfIInv /\ [VfNext]_vfVars => VfIInv'
<1> SUFFICES ASSUME VfIInv, [VfNext]_vfVars PROVE VfIInv'
  OBVIOUS
<1>1. CASE \E v \in VfVectors, m \in VfMsgs : MsixMessage(v, m)
  BY <1>1, MessageKept
<1>2. CASE \E v \in VfVectors, m \in VfMsgs, g \in BOOLEAN, fail \in Fails : MsixControl(v, m, g, fail)
  BY <1>2, ControlKept
<1>3. CASE \E on \in BOOLEAN, g \in BOOLEAN, fail \in Fails : MsixFlags(on, g, fail)
  BY <1>3, FlagsKept
<1>4. CASE \E on \in BOOLEAN, m \in VfMsgs, n \in 1..Cardinality(VfVectors), fail \in Fails : MsiFlags(on, m, n, fail)
  BY <1>4, MsiFlagsKept
<1>5. CASE \E masks \in SUBSET VfVectors, fail \in Fails : MsiMask(masks, fail)
  BY <1>5, MaskKept
<1>6. CASE UNCHANGED vfVars
  <2>1. /\ modes' = modes /\ fails' = fails /\ State' = State
    BY <1>6 DEF vfVars, State
  <2>2. VfSafe(State) => VfSafe(State)'
    BY <2>1 DEF VfSafe, HostKnown, IntxAlone, OneCap, IrqfdsKnown
  <2>3. VfClean(State) => VfClean(State)'
    BY <2>1 DEF VfClean, Complete, Done, Follows, IntxAlone
  <2> QED
    BY <2>1, <2>2, <2>3 DEF VfIInv
<1> QED
  BY <1>1, <1>2, <1>3, <1>4, <1>5, <1>6 DEF VfNext, Fails

\* VfIInv implies what the run checks.
LEMMA VfIInvShows == VfIInv => VfioIrqInv
<1> SUFFICES ASSUME VfIInv PROVE VfioIrqInv
  OBVIOUS
<1>1. PICK s : /\ s = State /\ s.cap = cap /\ s.entry = entry /\ s.fds = fds /\ s.armed = armed
               /\ s.vfIrqfd = vfIrqfd /\ s.route = route /\ (s.intx <=> intx)
  <2>1. State.cap = cap /\ State.entry = entry /\ State.fds = fds /\ State.armed = armed
    BY DEF State
  <2>2. State.vfIrqfd = vfIrqfd /\ State.route = route
    BY DEF State
  <2>3. State.intx <=> intx
    BY Zenon DEF State
  <2> HIDE DEF State
  <2> QED
    BY <2>1, <2>2, <2>3
<1>2. VfSafe(s) /\ (fails = 0 => VfClean(s)) /\ s \in VfStates
  BY <1>1 DEF VfIInv, VfSafe
<1>3. VfTypeOK
  BY <1>1, <1>2 DEF VfIInv, VfTypeOK, VfStates
<1>4. IntxExclusive
  <2> SUFFICES ASSUME intx, fails = 0 \/ OneCap PROVE \A c \in Caps : ~cap[c].henabled /\ armed[c] = {}
    BY DEF IntxExclusive, OneCap
  <2>1. IntxAlone(s)
    BY <1>2 DEF VfSafe, VfClean
  <2> QED
    BY <1>1, <1>2, <2>1 DEF IntxAlone, VfSafe, HostKnown
<1>5. MaskHonoured
  BY <1>1, <1>2 DEF MaskHonoured, VfSafe, EntryOk, IrqfdsKnown
<1>6. VectorsDelivered
  <2> SUFFICES ASSUME fails = 0, NEW c \in Caps, NEW v \in VfVectors,
                      s.cap[c].genabled, ~s.cap[c].gmasked, s.entry[c][v].used, ~s.entry[c][v].gmasked
               PROVE  v \in s.armed[c] /\ v \in s.vfIrqfd[c] /\ s.route[c][v] = s.entry[c][v].msg
    BY <1>1 DEF VectorsDelivered
  <2>1. Done(s, c, v) /\ Follows(s, c)
    BY <1>2 DEF VfClean, Complete
  <2>2. v \in s.armed[c]
    BY <2>1 DEF Follows
  <2> QED
    BY <1>2, <2>1, <2>2 DEF Done, VfSafe, IrqfdsKnown
<1> QED
  BY <1>3, <1>4, <1>5, <1>6 DEF VfioIrqInv

-----------------------------------------------------------------------------
(* The machine of MCPci: the part that runs moves, the others stand still. *)

\* A step of the composition is a step or a stutter of each part.
LEMMA PartsMove ==
  ASSUME [MCNext]_all
  PROVE  [MxNext]_mxVars /\ [VdNext]_vdVars /\ [VfNext]_vfVars
BY DEF MCNext, all

\* MsixIInv holds after reset.
LEMMA MsixStarts == MxInit => MsixIInv
<1> SUFFICES ASSUME MxInit PROVE MsixIInv
  OBVIOUS
<1>1. MsixTypes /\ Linked
  <2>1. Len(routes) = 0 /\ routes \in Seq(Msgs) /\ 0 \in Issued /\ 0 \in Gsis
    BY MxAssumption DEF MxInit, Issued, Gsis, BadGsi
  <2>2. Linked
    BY DEF MxInit, Linked
  <2>3. MxTypeOK
    BY <2>1, MxAssumption DEF MxInit, MxTypeOK
  <2> QED BY <2>1, <2>2, <2>3 DEF MxInit, MsixTypes
<1>2. OwnRoutes /\ RouteFollowsTable /\ PinRouteKept /\ OrphansSilenced
  BY DEF MxInit, OwnRoutes, RouteFollowsTable, PinRouteKept, OrphansSilenced
<1> QED BY <1>1, <1>2 DEF MsixIInv

\* VfioDevIInv holds before the first device is opened.
LEMMA VfioStarts == VdInit => VfioDevIInv
<1> SUFFICES ASSUME VdInit PROVE VfioDevIInv
  OBVIOUS
<1>1. \A g \in VdGroups : Of(g) = {}
  BY DEF VdInit, Of
<1>2. Cardinality({}) = 0
  BY FS_EmptySet
<1>3. HeldInOrder
  BY DevicesNumbered DEF VdInit, HeldInOrder
<1>4. GroupIInv
  BY <1>1, <1>2, <1>3, VdAssumption DEF VdInit, GroupIInv
<1>5. RegionIInv
  BY DEF VdInit, RegionIInv
<1> QED BY <1>4, <1>5 DEF VfioDevIInv

\* virtio/pci.c, virtio/vhost.c: for any number of queues, vectors, messages and
\* routes, an interrupt through a GSI arrives as the table entry of its vector
\* says, the irqfds of vhost queues follow their vectors, forgotten irqfds are
\* silenced and the timer's pin keeps its route, in every order in which the guest
\* programs vectors, entries, queues and resets.
THEOREM MsixHolds == MCSpec => []MsixInv
<1>1. MCInit => MsixIInv
  BY MsixStarts DEF MCInit
<1>2. MsixIInv /\ [MCNext]_all => MsixIInv'
  BY PartsMove, MsixKept
<1>3. MsixIInv => MsixInv
  BY DEF MsixIInv, MsixInv, MsixTypes, Linked, IrqfdFollowsVector
<1> QED BY <1>1, <1>2, <1>3, PTL DEF MCSpec

\* vfio/pci.c: for any set of capabilities, vectors and messages, and any ioctls
\* that fail, in whatever order the guest programs, masks, enables and disables:
\* a masked vector has no irqfd; VFIO has INTx and message interrupts enabled
\* together neither while no ioctl has failed nor, on a device with one capability,
\* ever; and until an ioctl fails an enabled and unmasked vector is armed and
\* injected with the message it was given last.
THEOREM VfioIrqHolds == MCSpec => []VfioIrqInv
<1>1. MCInit => VfIInv
  BY VfInitHolds DEF MCInit
<1>2. VfIInv /\ [MCNext]_all => VfIInv'
  BY PartsMove, VfNextKeeps
<1> QED BY <1>1, <1>2, VfIInvShows, PTL DEF MCSpec

\* vfio/core.c and vfio/pci.c: for any number of devices in any groups, a group is
\* open exactly as long as a device of it has not exited, and the traps and memory
\* slots of the machine are those of the active BARs at their present addresses,
\* through every sequence of activations, moves, fallbacks and failures that leave
\* nothing half done.
THEOREM VfioDeviceHolds == MCSpec => []VfioDevInv
<1>1. MCInit => VfioDevIInv
  BY VfioStarts DEF MCInit
<1>2. VfioDevIInv /\ [MCNext]_all => VfioDevIInv'
  BY PartsMove, GroupKept, RegionKept DEF VfioDevIInv
<1>3. VfioDevIInv => VfioDevInv
  <2> SUFFICES ASSUME VfioDevIInv PROVE GroupsHeld /\ RegionsMatch
    BY DEF VfioDevInv
  <2>1. \A g \in VdGroups : groups[g] = Cardinality({d \in vheld : groupOf[d] = g})
    BY DEF VfioDevIInv, GroupIInv, Of
  <2>2. vphase = "gone" => \A g \in VdGroups : groups[g] = 0
    <3>1. vphase = "gone" => \A g \in VdGroups : Of(g) = {}
      BY DEF VfioDevIInv, GroupIInv, HeldInOrder, Of
    <3>2. Cardinality({}) = 0
      BY FS_EmptySet
    <3> QED BY <3>1, <3>2 DEF VfioDevIInv, GroupIInv
  <2>3. ASSUME ~half PROVE vphase = "gone" => slots = {} /\ \A t \in handlers : t.part = "pba_shared"
    BY <2>3 DEF VfioDevIInv, RegionIInv
  <2>4. ASSUME ~half, vphase = "running"
        PROVE  /\ \A b \in VdBars : barOn[b] =>
                    IF hostAddr[b] THEN vaddrs[b] \in slots ELSE Traps(b, vaddrs[b]) \subseteq handlers
               /\ handlers = UNION {Traps(b, vaddrs[b]) : b \in {c \in VdBars : barOn[c] /\ ~hostAddr[c]}}
               /\ slots = {vaddrs[b] : b \in {c \in VdBars : barOn[c] /\ hostAddr[c]}}
    <3>1. /\ \A t : t \in handlers <=> \E b \in VdBars : Trapped(b) /\ t \in Traps(b, vaddrs[b])
          /\ \A a : a \in slots <=> \E b \in VdBars : Mapped(b) /\ a = vaddrs[b]
      BY <2>4 DEF VfioDevIInv, RegionIInv, RegionsOfBars
    <3>2. \A b \in VdBars : barOn[b] =>
            IF hostAddr[b] THEN vaddrs[b] \in slots ELSE Traps(b, vaddrs[b]) \subseteq handlers
      BY <3>1 DEF Trapped, Mapped
    <3>3. handlers = UNION {Traps(b, vaddrs[b]) : b \in {c \in VdBars : barOn[c] /\ ~hostAddr[c]}}
      BY <3>1 DEF Trapped
    <3>4. slots = {vaddrs[b] : b \in {c \in VdBars : barOn[c] /\ hostAddr[c]}}
      BY <3>1 DEF Mapped
    <3> QED BY <3>2, <3>3, <3>4
  <2> QED BY <2>1, <2>2, <2>3, <2>4 DEF GroupsHeld, RegionsMatch
<1> QED BY <1>1, <1>2, <1>3, PTL DEF MCSpec
=============================================================================
