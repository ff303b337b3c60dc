------------------------------- MODULE MCHost -------------------------------
(***************************************************************************)
(* The host side, for TLC: disk images, the 9p server and the utilities    *)
(* they use.  At this level of detail they share no state, so a behaviour  *)
(* is one of one unit: MCInit chooses it, and the others rest in an        *)
(* initial state.                                                          *)
(***************************************************************************)
EXTENDS DiskImage, Virtio9p, RbTree, HostTools, TLC

VARIABLE unit

\* Small qcow files.  They have 12 countable host clusters: 0 holds the header, the
\* L1 and the refcount table, 1 and 2 the blocks of clusters 0-7, 3 and 4 two L2
\* tables, 5 to 7 data; the block of clusters 8-11 does not exist yet.
E(off, copied, comp) == [off |-> off, copied |-> copied, comp |-> comp]
L1E(off, copied) == [off |-> off, copied |-> copied]

Blank == [ver |-> 2, size |-> 4, l1 |-> <<>>, l2 |-> <<>>, lru |-> <<>>, rft |-> <<>>,
          rb |-> <<>>, rlru |-> <<>>, free |-> 0, wild |-> FALSE,
          data |-> (5 :> "a") @@ (6 :> "b") @@ (7 :> "a")]

Tables(second) == (3 :> (0 :> E(5, TRUE, FALSE) @@ 1 :> second))
                  @@ (4 :> (0 :> E(7, FALSE, FALSE) @@ 1 :> E(0, FALSE, FALSE)))

Qcow2(second, l1b, rft) ==
  [Blank EXCEPT !.l1 = <<L1E(3, TRUE), l1b>>, !.l2 = Tables(second),
                !.rft = rft,
                !.rb = (1 :> [i \in 0..3 |-> 1])
                       @@ (2 :> (0 :> 2 @@ 1 :> 1 @@ 2 :> 2 @@ 3 :> 2))]

Qcow1 == [Blank EXCEPT !.ver = 1, !.size = 3,
                       !.l1 = <<L1E(3, FALSE), L1E(4, FALSE)>>,
                       !.l2 = (3 :> (0 :> E(5, FALSE, FALSE) @@ 1 :> E(6, FALSE, FALSE)))
                              @@ (4 :> (0 :> E(7, FALSE, FALSE) @@ 1 :> E(0, FALSE, FALSE)))]

\* A version 1 file; a table shared with a snapshot, a compressed cluster with a full refcount
\* table, unmapped clusters.
MCImages == {Qcow1, Qcow2(E(6, FALSE, FALSE), L1E(4, FALSE), <<1, 2, 0>>),
             Qcow2(E(6, FALSE, TRUE), L1E(4, FALSE), <<1, 2>>),
             Qcow2(E(0, FALSE, FALSE), L1E(0, FALSE), <<1, 2, 0>>)}

\* Two names in a directory, and one that would lead out of it.
MCNames == {<<"a">>, <<"b">>, <<"..", "a">>}

\* Vectors with elements of several sizes, an empty one among them.
MCIovecs == {<<2>>, <<3>>, <<1, 2>>, <<2, 0, 2>>, <<2, 1, 1>>}

\* With fewer keys no removal has to climb past the parent.
MCKeys == 1 .. 10

all == <<diVars, p9Vars, rbVars, ioVars, cmVars, unit>>

MCInit ==
  /\ unit \in {"disk", "p9", "tree", "io", "cpumask"}
  /\ DiInit /\ P9Init /\ RbInit /\ IoInit /\ CmaskInit
  /\ unit # "disk" => kind = "raw" /\ hostData = [g \in Guest |-> Zero]
  /\ unit # "io" => iop = "read_file" /\ iov = <<2>>

MCNext ==
  /\ UNCHANGED unit
  /\ \/ unit = "disk" /\ DiNext /\ UNCHANGED <<p9Vars, rbVars, ioVars, cmVars>>
     \/ unit = "p9" /\ P9Next /\ UNCHANGED <<diVars, rbVars, ioVars, cmVars>>
     \/ unit = "tree" /\ RbNext /\ UNCHANGED <<diVars, p9Vars, ioVars, cmVars>>
     \/ unit = "io" /\ IoNext /\ UNCHANGED <<diVars, p9Vars, rbVars, cmVars>>
     \/ unit = "cpumask" /\ CmaskNext /\ UNCHANGED <<diVars, p9Vars, rbVars, ioVars>>

MCSpec == MCInit /\ [][MCNext]_all
=============================================================================
