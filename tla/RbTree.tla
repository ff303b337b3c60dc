------------------------------- MODULE RbTree -------------------------------
(***************************************************************************)
(* The red-black tree of util/rbtree.c and linux/rbtree_augmented.h, which *)
(* holds the MMIO map, the 9p fids, the qcow caches and the sockets of the *)
(* network stack.  Nodes are their keys, 0 is NULL.  The left and right    *)
(* halves of every function of the file are one definition over a side.    *)
(***************************************************************************)
EXTENDS Integers, Sequences, FiniteSets

CONSTANTS RbKeys      \* a set of positive integers

VARIABLES
  rt,         \* the tree: root, ch (children by side), up (parent), red
  rkeys,      \* the keys inserted and not yet erased
  rpos,       \* cursor of a post-order loop that erases what it visits, 0: no loop
  drained     \* such a loop has just ended

rbVars == <<rt, rkeys, rpos, drained>>

Other(d) == IF d = "l" THEN "r" ELSE "l"

\* __rb_change_child.
ChangeChild(t, old, new, parent) ==
  IF parent = 0 THEN [t EXCEPT !.root = new]
  ELSE [t EXCEPT !.ch[IF t.ch["l"][parent] = old THEN "l" ELSE "r"][parent] = new]

SetUp(t, n, p) == IF n = 0 THEN t ELSE [t EXCEPT !.up[n] = p]
Paint(t, n, red) == IF n = 0 THEN t ELSE [t EXCEPT !.red[n] = red]

\* Rotate x toward side d: its other child y takes its place.
Rotate(t, x, d) ==
  LET y  == t.ch[Other(d)][x]
      z  == t.ch[d][y]
      t1 == ChangeChild(t, x, y, t.up[x])
      t2 == [t1 EXCEPT !.ch[Other(d)][x] = z, !.ch[d][y] = x, !.up[y] = t.up[x], !.up[x] = y]
  IN SetUp(t2, z, x)

\* __rb_rotate_set_parents: y inherits the colour of x.
RotateSetParents(t, x, d, red) ==
  LET y == t.ch[Other(d)][x]
  IN [Rotate(t, x, d) EXCEPT !.red[y] = t.red[x], !.red[x] = red]

(***************************************************************************)
(* __rb_insert, from the red node n upward.                                *)
(***************************************************************************)
NeverStraighten(t, p, n, d) == t
Straighten(t, p, n, d) == IF n = t.ch[Other(d)][p] THEN Rotate(t, p, d) ELSE t

RECURSIVE InsertColor(_, _)
InsertColor(t, n) ==
  LET p == t.up[n] IN
  IF p = 0 THEN Paint(t, n, FALSE)
  ELSE IF ~t.red[p] THEN t
  ELSE LET g == t.up[p]
           d == IF p # t.ch["r"][g] THEN "l" ELSE "r"
           u == t.ch[Other(d)][g]
       IN IF u # 0 /\ t.red[u]
          THEN InsertColor(Paint(Paint(Paint(t, u, FALSE), p, FALSE), g, TRUE), g)
          ELSE RotateSetParents(Straighten(t, p, n, d), g, Other(d), TRUE)

\* The descent of the callers, rb_link_node and rb_insert_color.
RECURSIVE Descend(_, _, _)
Descend(t, k, at) ==
  LET next == t.ch[IF k < at THEN "l" ELSE "r"][at]
  IN IF next = 0 THEN at ELSE Descend(t, k, next)

InsertKey(t, k) ==
  LET p  == IF t.root = 0 THEN 0 ELSE Descend(t, k, t.root)
      t1 == [t EXCEPT !.ch["l"][k] = 0, !.ch["r"][k] = 0, !.up[k] = p, !.red[k] = TRUE]
      t2 == IF p = 0 THEN [t1 EXCEPT !.root = k]
            ELSE [t1 EXCEPT !.ch[IF k < p THEN "l" ELSE "r"][p] = k]
  IN InsertColor(t2, k)

(***************************************************************************)
(* ____rb_erase_color: the paths through p and n lack one black node.      *)
(***************************************************************************)
Black(t, n) == n = 0 \/ ~t.red[n]

NeverClimb(t, p) == FALSE
ClimbFrom(t, p) == ~t.red[p] /\ t.up[p] # 0

RECURSIVE EraseColor(_, _, _)
EraseColor(t, p, n) ==
  LET d  == IF n # t.ch["r"][p] THEN "l" ELSE "r"
      o  == Other(d)
      t1 == IF t.red[t.ch[o][p]] THEN RotateSetParents(t, p, d, TRUE) ELSE t
      s  == t1.ch[o][p]
  IN IF Black(t1, t1.ch["l"][s]) /\ Black(t1, t1.ch["r"][s])
     THEN IF ClimbFrom(t1, p)
          THEN EraseColor(Paint(t1, s, TRUE), t1.up[p], p)
          ELSE Paint(Paint(t1, s, TRUE), p, FALSE)
     ELSE LET t2 == IF Black(t1, t1.ch[o][s]) THEN Rotate(t1, s, o) ELSE t1
              s2 == t2.ch[o][p]
          IN Paint(RotateSetParents(t2, p, d, FALSE), t2.ch[o][s2], FALSE)

RECURSIVE Leftmost(_, _)
Leftmost(t, n) == IF t.ch["l"][n] = 0 THEN n ELSE Leftmost(t, t.ch["l"][n])

Rebalance(t, p, wasBlack) == IF wasBlack /\ p # 0 THEN EraseColor(t, p, 0) ELSE t

\* rb_erase with __rb_erase_augmented.
EraseKey(t, n) ==
  LET l == t.ch["l"][n]
      r == t.ch["r"][n]
      p == t.up[n]
      c == IF l = 0 THEN r ELSE l
  IN IF l = 0 \/ r = 0
     THEN LET t1 == ChangeChild(t, n, c, p)
          IN IF c = 0 THEN Rebalance(t1, p, ~t.red[n])
             ELSE [t1 EXCEPT !.up[c] = p, !.red[c] = t.red[n]]
     ELSE LET s  == Leftmost(t, r)
              c2 == t.ch["r"][s]
              at == IF s = r THEN s ELSE t.up[s]
              t1 == IF s = r THEN t
                    ELSE SetUp([t EXCEPT !.ch["l"][at] = c2, !.ch["r"][s] = r], r, s)
              t2 == ChangeChild(SetUp([t1 EXCEPT !.ch["l"][s] = l], l, s), n, s, p)
              t3 == [t2 EXCEPT !.up[s] = p, !.red[s] = t.red[n]]
          IN IF c2 # 0 THEN Paint(SetUp(t3, c2, at), c2, FALSE)
             ELSE Rebalance(t3, at, ~t.red[s])

(***************************************************************************)
(* rb_first_postorder and rb_next_postorder.                               *)
(***************************************************************************)
RECURSIVE LeftDeepest(_, _)
LeftDeepest(t, n) ==
  IF t.ch["l"][n] # 0 THEN LeftDeepest(t, t.ch["l"][n])
  ELSE IF t.ch["r"][n] # 0 THEN LeftDeepest(t, t.ch["r"][n]) ELSE n

NextPostorder(t, n) ==
  LET p == t.up[n]
  IN IF p # 0 /\ n = t.ch["l"][p] /\ t.ch["r"][p] # 0 THEN LeftDeepest(t, t.ch["r"][p]) ELSE p

-----------------------------------------------------------------------------
NoNode == [k \in RbKeys |-> 0]

RbInit ==
  /\ rt = [root |-> 0, ch |-> [d \in {"l", "r"} |-> NoNode], up |-> NoNode,
           red |-> [k \in RbKeys |-> FALSE]]
  /\ rkeys = {} /\ rpos = 0 /\ drained = FALSE

\* A node that left the tree keeps no link that the next insertion reads.
Forget(t, k) == [t EXCEPT !.ch["l"][k] = 0, !.ch["r"][k] = 0, !.up[k] = 0, !.red[k] = FALSE]

RbInsert(k) ==
  /\ rpos = 0 /\ k \notin rkeys
  /\ rt' = InsertKey(rt, k) /\ rkeys' = rkeys \cup {k}
  /\ drained' = FALSE /\ UNCHANGED rpos

RbErase(k) ==
  /\ rpos = 0 /\ k \in rkeys
  /\ rt' = Forget(EraseKey(rt, k), k) /\ rkeys' = rkeys \ {k}
  /\ drained' = FALSE /\ UNCHANGED rpos

\* rbtree_postorder_for_each_entry_safe(pos, n, root, node) erase(pos), the loop
\* of virtio-9p's notify_status: n is taken before the body erases pos.
DrainStart ==
  /\ rpos = 0 /\ rt.root # 0
  /\ rpos' = LeftDeepest(rt, rt.root)
  /\ drained' = FALSE /\ UNCHANGED <<rt, rkeys>>

DrainStep ==
  /\ rpos # 0
  /\ rpos' = NextPostorder(rt, rpos)
  /\ rt' = Forget(EraseKey(rt, rpos), rpos) /\ rkeys' = rkeys \ {rpos}
  /\ drained' = (rpos' = 0)

RbNext ==
  \/ \E k \in RbKeys : RbInsert(k) \/ RbErase(k)
  \/ DrainStart \/ DrainStep

-----------------------------------------------------------------------------
RECURSIVE InOrder(_, _)
InOrder(t, n) == IF n = 0 THEN <<>> ELSE InOrder(t, t.ch["l"][n]) \o <<n>> \o InOrder(t, t.ch["r"][n])

RECURSIVE BlackHeight(_, _)    \* -1: two paths differ
BlackHeight(t, n) ==
  IF n = 0 THEN 0
  ELSE LET l == BlackHeight(t, t.ch["l"][n])
           r == BlackHeight(t, t.ch["r"][n])
       IN IF l = -1 \/ l # r THEN -1 ELSE l + (IF t.red[n] THEN 0 ELSE 1)

\* The tree holds exactly the inserted keys, in order, with parent links that
\* agree with the child links, and keeps the rules that rbtree.c:27-34 lists: a
\* black root, no red child of a red node, the same number of black nodes on
\* every path.  Checked over every sequence of insertions and removals, those
\* made inside a post-order loop included.
RbInv ==
  /\ LET s == InOrder(rt, rt.root)
     IN /\ {s[i] : i \in DOMAIN s} = rkeys
        /\ \A i \in 2..Len(s) : s[i - 1] < s[i]
  /\ \A k \in rkeys, d \in {"l", "r"} : rt.ch[d][k] # 0 => rt.up[rt.ch[d][k]] = k
  /\ rt.root # 0 => ~rt.red[rt.root] /\ rt.up[rt.root] = 0
  /\ \A k \in rkeys : rt.red[k] => Black(rt, rt.ch["l"][k]) /\ Black(rt, rt.ch["r"][k])
  /\ BlackHeight(rt, rt.root) # -1

\* A post-order loop that erases what it visits has visited every node when it
\* ends.  rbtree.h:88 says the macro iterates "over rb_root in post order of given
\* type safe against removal of rb_node entry".
DrainVisitsAll == drained => rkeys = {}
=============================================================================
