---------------------------- MODULE MachineProofs ----------------------------
(***************************************************************************)
(* Proofs about the machine around the buses: the RISC-V interrupt         *)
(* controller, the flash, the keyboard controller, the serial ports, the   *)
(* memory banks and the PowerPC interrupt controller.                      *)
(* They are about the machine of MCMachine, in which one part moves and    *)
(* the others stand still, for every value of the constants.               *)
(***************************************************************************)
EXTENDS MCMachine, TLAPS, NaturalsInduction, WellFoundedInduction, SequenceTheorems

\* A set of numbers has a least one: what a loop or a recursive function keeps is
\* shown by the first turn after which it would fail.
LEMMA LeastNat ==
  ASSUME NEW S \in SUBSET Nat, S # {}
  PROVE  \E x \in S : \A y \in S : x <= y
<1> DEFINE R == {ss \in Nat \X Nat : ss[1] < ss[2]}
<1>1. IsWellFoundedOn(R, Nat)
  BY NatLessThanWellFounded, Zenon DEF OpToRel
<1>2. \A x, y \in Nat : x < y => <<x, y>> \in R
  OBVIOUS
<1> HIDE DEF R
<1>3. PICK x \in S : \A y \in S : ~(<<y, x>> \in R)
  BY <1>1, WFMin, Zenon
<1>4. \A y \in S : ~(y < x)
  BY <1>2, <1>3
<1> QED
  BY <1>3, <1>4

-----------------------------------------------------------------------------
(* The interrupt controller                                                *)

PlicTypes ==
  /\ level \subseteq Sources
  /\ enable \in [Contexts -> SUBSET Sources] /\ pend \in [Contexts -> SUBSET Sources]
  /\ pprio \in [Contexts -> [Sources -> Priorities]] /\ prio \in [Sources -> Priorities]
  /\ claimed = [c \in Contexts |-> claimed[c]] /\ autoclear \in [Contexts -> SUBSET EdgeSources]

\* A source is enabled in one context; only an enabled source is pending, and an
\* edge that was not claimed keeps the level of its source high, so that whoever
\* enables the source finds it.
OneTaker ==
  /\ \A c, d \in Contexts : c # d => enable[c] \cap enable[d] = {}
  /\ \A c \in Contexts : pend[c] \subseteq enable[c]
  /\ edges \subseteq level \cap EdgeSources

PlicIInv == PlicTypes /\ OneTaker /\ PlicInv

\* The line of one context is set anew, the others keep what they have.
LEMMA LineSet ==
  ASSUME \A c \in Contexts : c \in virq <=> Best(pend[c], pprio[c], claimed[c]) # 0,
         NEW c \in Contexts, virq' = LineAfter(c),
         \A d \in Contexts \ {c} :
            pend'[d] = pend[d] /\ pprio'[d] = pprio[d] /\ claimed'[d] = claimed[d]
  PROVE  \A d \in Contexts : d \in virq' <=> Best(pend'[d], pprio'[d], claimed'[d]) # 0
<1> SUFFICES ASSUME NEW d \in Contexts
             PROVE  d \in virq' <=> Best(pend'[d], pprio'[d], claimed'[d]) # 0
  OBVIOUS
<1>1. CASE d = c
  BY <1>1 DEF LineAfter
<1>2. CASE d # c
  <2>1. d \in virq' <=> d \in virq
    BY <1>2 DEF LineAfter
  <2> QED BY <1>2, <2>1
<1> QED BY <1>1, <1>2

\* Raise keeps PlicIInv.
LEMMA RaiseKeeps == ASSUME PlicIInv, NEW i \in Sources, Raise(i) PROVE PlicIInv'
<1>1. /\ level' = level \cup {i} /\ edges' = edges \cup ({i} \cap EdgeSources)
      /\ enable' = enable /\ claimed' = claimed /\ prio' = prio
      /\ level' \subseteq Sources /\ edges' \subseteq level' \cap EdgeSources
  BY DEF Raise, PlicIInv, PlicTypes, OneTaker, ctxState
<1>2. CASE Takers(i) = {} /\ UNCHANGED <<ctxState, virq>>
  <2>1. UNCHANGED <<pend, pprio, autoclear, virq>> /\ \A c \in Contexts : i \notin enable[c]
    BY <1>2 DEF ctxState, Takers
  <2> QED BY <1>1, <2>1 DEF PlicIInv, PlicTypes, OneTaker, PlicInv
<1>3. ASSUME NEW c \in Takers(i),
             pend' = [pend EXCEPT ![c] = @ \cup {i}],
             pprio' = [pprio EXCEPT ![c][i] = prio[i]],
             autoclear' = [autoclear EXCEPT ![c] = @ \cup ({i} \cap EdgeSources)],
             virq' = LineAfter(c)
      PROVE  PlicIInv'
  <2>1. c \in Contexts /\ i \in enable[c] /\ \A d \in Contexts : i \in enable[d] => d = c
    BY <1>3 DEF Takers, PlicIInv, OneTaker
  <2>2. /\ \A d \in Contexts : pend'[d] = IF d = c THEN pend[d] \cup {i} ELSE pend[d]
        /\ \A d \in Contexts \ {c} : pprio'[d] = pprio[d]
    BY <1>3, <2>1 DEF PlicIInv, PlicTypes
  <2>3. \A d \in Contexts : d \in virq' <=> Best(pend'[d], pprio'[d], claimed'[d]) # 0
    BY <1>1, <1>3, <2>1, <2>2, LineSet DEF PlicIInv, PlicInv
  <2>4. PlicTypes'
    <3>1. /\ pend' \in [Contexts -> SUBSET Sources]
          /\ autoclear' \in [Contexts -> SUBSET EdgeSources]
      BY <1>3, <2>1 DEF PlicIInv, PlicTypes
    <3>2. prio[i] \in Priorities /\ pprio[c] \in [Sources -> Priorities]
      BY <2>1 DEF PlicIInv, PlicTypes
    <3>3. pprio' \in [Contexts -> [Sources -> Priorities]]
      <4>1. [pprio[c] EXCEPT ![i] = prio[i]] \in [Sources -> Priorities]
        BY <3>2
      <4>2. pprio' = [pprio EXCEPT ![c] = [pprio[c] EXCEPT ![i] = prio[i]]]
        BY <1>3
      <4> QED BY <2>1, <4>1, <4>2 DEF PlicIInv, PlicTypes
    <3> QED BY <1>1, <3>1, <3>3 DEF PlicIInv, PlicTypes
  <2>5. OneTaker'
    <3>1. ASSUME NEW d \in Contexts PROVE pend'[d] \subseteq enable'[d]
      <4>1. pend[d] \subseteq enable[d]
        BY DEF PlicIInv, OneTaker
      <4>2. enable'[d] = enable[d]
        BY <1>1
      <4> QED BY <2>1, <2>2, <4>1, <4>2
    <3>2. edges' \subseteq level' \cap EdgeSources
      BY <1>1
    <3> QED BY <1>1, <3>1, <3>2 DEF PlicIInv, OneTaker
  <2>6. \A d \in Contexts : \A j \in enable'[d] :
          /\ j \in LevelSources => (j \in pend'[d] <=> j \in level')
          /\ j \in edges' => j \in pend'[d]
    BY <1>1, <2>1, <2>2 DEF PlicIInv, PlicInv
  <2> QED BY <2>3, <2>4, <2>5, <2>6 DEF PlicIInv, PlicInv
<1> QED BY <1>2, <1>3 DEF Raise

\* What a context forgets leaves its registers what they are.
LEMMA ForgetTypes ==
  ASSUME PlicTypes, NEW c \in Contexts, NEW S, Forget(c, S),
         autoclear' = [autoclear EXCEPT ![c] = @ \ S]
  PROVE  /\ pend' \in [Contexts -> SUBSET Sources]
         /\ pprio' \in [Contexts -> [Sources -> Priorities]]
         /\ claimed' = [d \in Contexts |-> claimed'[d]]
         /\ autoclear' \in [Contexts -> SUBSET EdgeSources]
<1>1. [i \in Sources |-> IF i \in S THEN 0 ELSE pprio[c][i]] \in [Sources -> Priorities]
  BY PlicAssumption DEF PlicTypes
<1>2. pprio' = [pprio EXCEPT ![c] = [i \in Sources |-> IF i \in S THEN 0 ELSE pprio[c][i]]]
  BY DEF Forget
<1>3. pprio' \in [Contexts -> [Sources -> Priorities]]
  BY <1>1, <1>2 DEF PlicTypes
<1>4. /\ pend' \in [Contexts -> SUBSET Sources]
      /\ claimed' = [d \in Contexts |-> claimed'[d]]
  BY DEF Forget, PlicTypes
<1>5. autoclear' \in [Contexts -> SUBSET EdgeSources]
  BY DEF PlicTypes
<1> QED BY <1>3, <1>4, <1>5

\* Lower keeps PlicIInv.
LEMMA LowerKeeps == ASSUME PlicIInv, NEW i \in Sources, Lower(i) PROVE PlicIInv'
<1>1. /\ i \in LevelSources /\ i \notin EdgeSources /\ level' = level \ {i} /\ edges' = edges
      /\ enable' = enable /\ prio' = prio /\ level' \subseteq Sources
  BY PlicAssumption DEF Lower, PlicIInv, PlicTypes, OneTaker, ctxState, Forget
<1>2. edges' \subseteq level' \cap EdgeSources
  BY <1>1 DEF PlicIInv, OneTaker
<1>3. CASE Takers(i) = {} /\ UNCHANGED <<ctxState, virq>>
  <2>1. UNCHANGED <<pend, pprio, claimed, autoclear, virq>> /\ \A c \in Contexts : i \notin enable[c]
    BY <1>3 DEF ctxState, Takers
  <2> QED BY <1>1, <1>2, <2>1 DEF PlicIInv, PlicTypes, OneTaker, PlicInv
<1>4. ASSUME NEW c \in Takers(i), Forget(c, {i}), virq' = LineAfter(c),
             autoclear' = [autoclear EXCEPT ![c] = @ \ {i}]
      PROVE  PlicIInv'
  <2>1. c \in Contexts /\ i \in enable[c] /\ \A d \in Contexts : i \in enable[d] => d = c
    BY <1>4 DEF Takers, PlicIInv, OneTaker
  <2>2. /\ \A d \in Contexts : pend'[d] = IF d = c THEN pend[d] \ {i} ELSE pend[d]
        /\ \A d \in Contexts \ {c} : pprio'[d] = pprio[d] /\ claimed'[d] = claimed[d]
    BY <1>4, <2>1 DEF PlicIInv, PlicTypes, Forget
  <2>3. \A d \in Contexts : d \in virq' <=> Best(pend'[d], pprio'[d], claimed'[d]) # 0
    <3>1. \A d \in Contexts \ {c} : pend'[d] = pend[d]
      BY <2>2
    <3> QED BY <1>4, <2>1, <2>2, <3>1, LineSet DEF PlicIInv, PlicInv
  <2>4. PlicTypes'
    BY <1>1, <1>4, <2>1, ForgetTypes DEF PlicIInv, PlicTypes
  <2>5. OneTaker'
    <3>1. ASSUME NEW d \in Contexts PROVE pend'[d] \subseteq enable'[d]
      <4>1. pend[d] \subseteq enable[d]
        BY DEF PlicIInv, OneTaker
      <4>2. enable'[d] = enable[d]
        BY <1>1
      <4> QED BY <2>1, <2>2, <4>1, <4>2
    <3>2. edges' \subseteq level' \cap EdgeSources
      BY <1>2
    <3> QED BY <1>1, <3>1, <3>2 DEF PlicIInv, OneTaker
  <2>6. \A d \in Contexts : \A j \in enable'[d] :
          /\ j \in LevelSources => (j \in pend'[d] <=> j \in level')
          /\ j \in edges' => j \in pend'[d]
    <3>1. i \notin edges
      BY <1>1 DEF PlicIInv, OneTaker
    <3> QED BY <1>1, <2>1, <2>2, <3>1 DEF PlicIInv, PlicInv
  <2> QED BY <2>3, <2>4, <2>5, <2>6 DEF PlicIInv, PlicInv
<1> QED BY <1>3, <1>4 DEF Lower

\* A write of a context's enable bits, with the update it ends in, keeps
\* PlicIInv.
LEMMA EnableKeeps ==
  ASSUME PlicIInv, NEW c \in Contexts, NEW new \in SUBSET Sources, EnableWrite(c, new)
  PROVE  PlicIInv'
<1> DEFINE on == new \ enable[c]
           off == enable[c] \ new
<1>1. /\ UNCHANGED <<prio, level, autoclear, edges>> /\ virq' = LineAfter(c)
      /\ \A d \in Contexts \ {c} : new \cap enable[d] = {}
      /\ enable' = [enable EXCEPT ![c] = new]
      /\ pend' = [pend EXCEPT ![c] = (@ \ off) \cup (on \cap level)]
      /\ claimed' = [claimed EXCEPT ![c] = @ \ off]
  BY DEF EnableWrite, RaisedNow
<1>2. PICK f : f \in [Sources -> Priorities] /\ pprio' = [pprio EXCEPT ![c] = f]
  <2> DEFINE f == [i \in Sources |-> CASE i \in RaisedNow(on) -> prio[i]
                                       [] i \in off -> 0
                                       [] OTHER -> pprio[c][i]]
  <2>1. pprio' = [pprio EXCEPT ![c] = f]
    BY DEF EnableWrite
  <2>2. ASSUME NEW i \in Sources PROVE f[i] \in Priorities
    <3>1. prio[i] \in Priorities /\ pprio[c][i] \in Priorities /\ 0 \in Priorities
      BY PlicAssumption DEF PlicIInv, PlicTypes
    <3>2. ~(i \in RaisedNow(on) /\ i \in off)
      BY DEF RaisedNow
    <3> QED BY <3>1, <3>2
  <2>3. f \in [Sources -> Priorities]
    BY <2>2
  <2> QED BY <2>1, <2>3
<1>3. /\ \A d \in Contexts : enable'[d] = IF d = c THEN new ELSE enable[d]
      /\ \A d \in Contexts : pend'[d] = IF d = c THEN (pend[c] \ off) \cup (on \cap level) ELSE pend[d]
      /\ \A d \in Contexts \ {c} : pprio'[d] = pprio[d] /\ claimed'[d] = claimed[d]
  BY <1>1, <1>2 DEF PlicIInv, PlicTypes
<1>4. \A d \in Contexts : d \in virq' <=> Best(pend'[d], pprio'[d], claimed'[d]) # 0
  <2>1. \A d \in Contexts \ {c} : pend'[d] = pend[d]
    BY <1>3
  <2> QED BY <1>1, <1>3, <2>1, LineSet DEF PlicIInv, PlicInv
<1>5. PlicTypes'
  <2>1. pprio' \in [Contexts -> [Sources -> Priorities]]
    BY <1>2 DEF PlicIInv, PlicTypes
  <2>2. /\ enable' \in [Contexts -> SUBSET Sources]
        /\ claimed' = [d \in Contexts |-> claimed'[d]]
    BY <1>1 DEF PlicIInv, PlicTypes
  <2>3. pend' \in [Contexts -> SUBSET Sources]
    BY <1>1 DEF PlicIInv, PlicTypes
  <2> QED BY <1>1, <2>1, <2>2, <2>3 DEF PlicIInv, PlicTypes
<1>6. OneTaker'
  <2>1. \A d, e \in Contexts : d # e => enable'[d] \cap enable'[e] = {}
    BY <1>1, <1>3 DEF PlicIInv, OneTaker
  <2>2. \A d \in Contexts : pend'[d] \subseteq enable'[d]
    BY <1>3 DEF PlicIInv, OneTaker
  <2> QED BY <1>1, <2>1, <2>2 DEF PlicIInv, OneTaker
<1>7. ASSUME NEW d \in Contexts, NEW j \in enable'[d]
      PROVE  /\ j \in LevelSources => (j \in pend'[d] <=> j \in level')
             /\ j \in edges' => j \in pend'[d]
  <2>1. CASE d = c /\ j \in enable[c]
    BY <1>1, <1>3, <1>7, <2>1 DEF PlicIInv, PlicInv
  <2>2. CASE d = c /\ j \notin enable[c]
    <3>1. j \notin pend[c] /\ (j \in edges => j \in level)
      BY <2>2 DEF PlicIInv, OneTaker
    <3> QED BY <1>1, <1>3, <1>7, <2>2, <3>1
  <2>3. CASE d # c
    BY <1>1, <1>3, <1>7, <2>3 DEF PlicIInv, PlicInv
  <2> QED BY <2>1, <2>2, <2>3
<1> QED BY <1>4, <1>5, <1>6, <1>7 DEF PlicIInv, PlicInv

\* Claim keeps PlicIInv.
LEMMA ClaimKeeps == ASSUME PlicIInv, NEW c \in Contexts, Claim(c) PROVE PlicIInv'
<1> DEFINE best == Best(pend[c], pprio[c], claimed[c])
<1>1. /\ UNCHANGED <<prio, level, enable>> /\ virq' = LineAfter(c) /\ edges' = edges \ {best}
      /\ \/ /\ best \in autoclear[c] /\ Forget(c, {best})
            /\ autoclear' = [autoclear EXCEPT ![c] = @ \ {best}]
         \/ /\ claimed' = [claimed EXCEPT ![c] = @ \cup ({best} \ {0})]
            /\ UNCHANGED <<pend, pprio, autoclear>>
  BY DEF Claim
<1> HIDE DEF best
<1>2. CASE best \in autoclear[c] /\ Forget(c, {best}) /\ autoclear' = [autoclear EXCEPT ![c] = @ \ {best}]
  <2>1. best \in EdgeSources /\ best \notin LevelSources
    BY <1>2, PlicAssumption DEF PlicIInv, PlicTypes
  <2>2. /\ \A d \in Contexts : pend'[d] = IF d = c THEN pend[d] \ {best} ELSE pend[d]
        /\ \A d \in Contexts \ {c} : pprio'[d] = pprio[d] /\ claimed'[d] = claimed[d]
    BY <1>2 DEF PlicIInv, PlicTypes, Forget
  <2>3. \A d \in Contexts : d \in virq' <=> Best(pend'[d], pprio'[d], claimed'[d]) # 0
    <3>1. \A d \in Contexts \ {c} : pend'[d] = pend[d]
      BY <2>2
    <3> QED BY <1>1, <2>2, <3>1, LineSet DEF PlicIInv, PlicInv
  <2>4. PlicTypes'
    BY <1>1, <1>2, ForgetTypes DEF PlicIInv, PlicTypes
  <2>5. OneTaker'
    BY <1>1, <2>2 DEF PlicIInv, OneTaker
  <2>6. \A d \in Contexts : \A j \in enable'[d] :
          /\ j \in LevelSources => (j \in pend'[d] <=> j \in level')
          /\ j \in edges' => j \in pend'[d]
    BY <1>1, <2>1, <2>2 DEF PlicIInv, PlicInv
  <2> QED BY <2>3, <2>4, <2>5, <2>6 DEF PlicIInv, PlicInv
<1>3. CASE claimed' = [claimed EXCEPT ![c] = @ \cup ({best} \ {0})] /\ UNCHANGED <<pend, pprio, autoclear>>
  <2>1. \A d \in Contexts : d \in virq' <=> Best(pend'[d], pprio'[d], claimed'[d]) # 0
    <3>1. \A d \in Contexts \ {c} : claimed'[d] = claimed[d]
      BY <1>3 DEF PlicIInv, PlicTypes
    <3> QED BY <1>1, <1>3, <3>1, LineSet DEF PlicIInv, PlicInv
  <2>2. claimed' = [d \in Contexts |-> claimed'[d]]
    BY <1>3 DEF PlicIInv, PlicTypes
  <2> QED BY <1>1, <1>3, <2>1, <2>2 DEF PlicIInv, PlicTypes, OneTaker, PlicInv
<1> QED BY <1>1, <1>2, <1>3

\* Complete keeps PlicIInv.
LEMMA CompleteKeeps ==
  ASSUME PlicIInv, NEW c \in Contexts, NEW i \in Sources, Complete(c, i) PROVE PlicIInv'
<1>1. /\ UNCHANGED <<prio, level, enable, pend, pprio, autoclear, edges>> /\ virq' = LineAfter(c)
      /\ claimed' = [claimed EXCEPT ![c] = @ \ {i}]
  BY DEF Complete
<1>2. /\ claimed' = [d \in Contexts |-> claimed'[d]]
      /\ \A d \in Contexts \ {c} : claimed'[d] = claimed[d]
  BY <1>1 DEF PlicIInv, PlicTypes
<1>3. \A d \in Contexts : d \in virq' <=> Best(pend'[d], pprio'[d], claimed'[d]) # 0
  BY <1>1, <1>2, LineSet DEF PlicIInv, PlicInv
<1> QED BY <1>1, <1>2, <1>3 DEF PlicIInv, PlicTypes, OneTaker, PlicInv

\* Every step of the PLIC, or a stutter, keeps PlicIInv.
LEMMA PlicKept == ASSUME PlicIInv, [PlNext]_plVars PROVE PlicIInv'
<1>1. CASE UNCHANGED <<ctxState, level, virq, edges>> /\ prio' \in [Sources -> Priorities]
  BY <1>1 DEF PlicIInv, PlicTypes, OneTaker, PlicInv, ctxState
<1>2. ASSUME NEW i \in Sources, NEW p \in Priorities, PriorityWrite(i, p) PROVE PlicIInv'
  BY <1>1, <1>2 DEF PriorityWrite, PlicIInv, PlicTypes
<1>3. ASSUME NEW c \in Contexts, NEW p \in Priorities, ThresholdWrite(c, p) PROVE PlicIInv'
  BY <1>1, <1>3 DEF ThresholdWrite, PlicIInv, PlicTypes
<1>4. CASE UNCHANGED plVars
  BY <1>1, <1>4 DEF plVars, PlicIInv, PlicTypes
<1> QED BY <1>2, <1>3, <1>4, RaiseKeeps, LowerKeeps, EnableKeeps, ClaimKeeps, CompleteKeeps DEF PlNext

\* PlicIInv holds of the PLIC after reset.
LEMMA PlicStarts == PlInit => PlicIInv
<1> SUFFICES ASSUME PlInit PROVE PlicIInv
  OBVIOUS
<1>1. PlicTypes
  BY PlicAssumption DEF PlInit, PlicTypes
<1>2. OneTaker
  BY DEF PlInit, OneTaker
<1>3. \A c \in Contexts : Best(pend[c], pprio[c], claimed[c]) = 0
  BY DEF PlInit, Best
<1> QED BY <1>1, <1>2, <1>3 DEF PlInit, PlicIInv, PlicInv

-----------------------------------------------------------------------------
(* The flash                                                               *)

\* Quotient and remainder.
LEMMA DivideWords ==
  ASSUME NEW n \in Nat \ {0}, NEW x \in Nat
  PROVE  /\ x \div n \in Nat /\ x % n \in 0 .. n - 1
         /\ x = (n * (x \div n)) + (x % n)
OBVIOUS

\* The n words from a multiple of n on are in one block of B, when n divides B.
LEMMA InOneBlock ==
  ASSUME NEW n \in Nat \ {0}, NEW B \in Nat \ {0}, B % n = 0,
         NEW x \in Nat, x % n = 0, NEW j \in 0 .. n - 1
  PROVE  (x + j) \div B = x \div B
<1> DEFINE q == x \div B
           r == x % B
           m == B \div n
           k == x \div n
<1>1. q \in Nat /\ r \in 0 .. B - 1 /\ x = (B * q) + r
  BY DivideWords
<1>2. m \in Nat /\ B = n * m
  BY DivideWords
<1>3. k \in Nat /\ x = n * k
  BY DivideWords
<1> HIDE DEF q, r, m, k
<1> DEFINE y == k - (m * q)
<1>4. y \in Int /\ r = n * y
  BY <1>1, <1>2, <1>3
<1> HIDE DEF y
<1>5. n * y < n * m
  BY <1>1, <1>2, <1>4
<1>6. y < m
  BY <1>2, <1>4, <1>5
<1>7. (n * y) + n <= n * m
  BY <1>2, <1>4, <1>6
<1>8. r + j \in 0 .. B - 1
  BY <1>1, <1>2, <1>4, <1>7
<1>9. x + j = (q * B) + (r + j) /\ x + j \in Nat
  BY <1>1
<1>10. \A z \in Nat, s \in 0 .. B - 1 : z = (q * B) + s => z \div B = q
  BY <1>1
<1> QED BY <1>8, <1>9, <1>10 DEF q

\* The lengths, and what they mean for the blocks.
LEMMA FlashLengths ==
  /\ FlashSize \in Nat /\ BlockWords \in Nat \ {0} /\ BufferWords \in Nat \ {0}
  /\ Addrs \subseteq Nat
  /\ \A a \in Addrs, j \in 0 .. BlockWords - 1 :
       a % BlockWords = 0 => BlockOf(a + j) = BlockOf(a)
  /\ \A a \in Addrs, j \in 0 .. BufferWords - 1 :
       a % BufferWords = 0 => BlockOf(a + j) = BlockOf(a)
<1>1. /\ FlashSize \in Nat /\ BlockWords \in Nat \ {0} /\ BufferWords \in Nat \ {0}
      /\ BlockWords % BufferWords = 0 /\ BlockWords % BlockWords = 0
  BY FlashAssumption
<1>2. Addrs \subseteq Nat
  BY <1>1 DEF Addrs
<1> QED BY <1>1, <1>2, InOneBlock DEF BlockOf

\* What the buffer holds: the words from its base up to the last one written.
BufferOK ==
  /\ base \in Addrs \cup {FlashSize} /\ written \in Nat /\ bufferLength \in 0 .. BufferWords
  /\ base # FlashSize => base % BufferWords = 0
  /\ base = FlashSize <=> written = 0
  /\ fstate = "BUFFERED_PROGRAM_SETUP" => written = 0
  /\ fstate = "BUFFER_WRITE" => bufferLength > 0 /\ written <= bufferLength

\* The slot is there only while is_mapped says so, and only in read mode.
SlotOK == (slot => isMapped) /\ (slot /\ ~refused => mode = "READ_ARRAY")

FlashIInv ==
  /\ flash = [a \in Addrs |-> flash[a]] /\ wanted = flash
  /\ slot \in BOOLEAN /\ isMapped \in BOOLEAN /\ refused \in BOOLEAN
  /\ BufferOK /\ SlotOK

\* The end of cfi_flash_mmio brings the slot in line with the new read mode.
LEMMA MappingFollows ==
  ASSUME FlashIInv, AdjustMapping
  PROVE  slot' \in BOOLEAN /\ isMapped' \in BOOLEAN /\ refused' \in BOOLEAN /\ SlotOK'
<1>0. slot \in BOOLEAN /\ isMapped \in BOOLEAN /\ (slot => isMapped)
  BY DEF FlashIInv, SlotOK
<1>1. CASE ~isMapped /\ mode' = "READ_ARRAY"
  <2>1. MapFlash
    BY <1>1 DEF AdjustMapping
  <2>2. (slot' /\ isMapped') \/ (~slot' /\ ~isMapped')
    BY <1>0, <1>1, <2>1 DEF MapFlash
  <2>3. refused' = FALSE /\ slot' \in BOOLEAN /\ isMapped' \in BOOLEAN
    BY <1>0, <2>1 DEF MapFlash
  <2> QED BY <1>1, <2>2, <2>3 DEF SlotOK
<1>2. CASE isMapped /\ mode' # "READ_ARRAY"
  <2>1. UnmapFlash
    BY <1>2 DEF AdjustMapping
  <2> QED BY <1>0, <1>2, <2>1 DEF UnmapFlash, SlotOK
<1>3. CASE ~(~isMapped /\ mode' = "READ_ARRAY") /\ ~(isMapped /\ mode' # "READ_ARRAY")
  <2>1. UNCHANGED <<slot, isMapped>> /\ refused' = FALSE
    BY <1>3 DEF AdjustMapping
  <2> QED BY <1>0, <1>3, <2>1 DEF SlotOK
<1> QED BY <1>1, <1>2, <1>3

\* An operation on the words S, all in the block of a, leaves in the array what it
\* has to leave by the lock bits.
LEMMA Programs ==
  ASSUME FlashIInv, NEW a \in Addrs, NEW S, NEW v, NEW new,
         \A x \in S \cap Addrs : BlockOf(x) = BlockOf(a),
         new = [x \in Addrs |-> IF x \in S THEN v[x] ELSE flash[x]],
         Program(a, new),
         wanted' = [x \in Addrs |-> IF x \in S /\ ~BlockIsLocked(x) THEN v[x] ELSE wanted[x]]
  PROVE  flash' = [x \in Addrs |-> flash'[x]] /\ wanted' = flash'
<1>1. wanted' = [x \in Addrs |-> IF x \in S /\ ~BlockIsLocked(x) THEN v[x] ELSE flash[x]]
  BY DEF FlashIInv
<1>2. CASE BlockIsLocked(a)
  <2>1. flash' = flash
    BY <1>2 DEF Program
  <2>2. \A x \in Addrs : ~(x \in S /\ ~BlockIsLocked(x))
    BY <1>2 DEF BlockIsLocked
  <2>3. wanted' = [x \in Addrs |-> flash[x]]
    BY <1>1, <2>2
  <2> QED BY <2>1, <2>3 DEF FlashIInv
<1>3. CASE ~BlockIsLocked(a)
  <2>1. flash' = new
    BY <1>3 DEF Program
  <2>2. \A x \in Addrs : x \in S => ~BlockIsLocked(x)
    BY <1>3 DEF BlockIsLocked
  <2>3. wanted' = new
    BY <1>1, <2>2
  <2> QED BY <2>1, <2>3
<1> QED BY <1>2, <1>3

\* WriteReady keeps FlashIInv.
LEMMA WriteReadyKeeps == ASSUME FlashIInv, NEW c, WriteReady(c) PROVE FlashIInv'
<1>1. UNCHANGED <<flash, lockBm, wanted>> /\ AdjustMapping
  BY DEF WriteReady
<1>2. fstate' # "BUFFER_WRITE" /\ (fstate' = "BUFFERED_PROGRAM_SETUP" => c = "buffer_setup")
  BY DEF WriteReady, Becomes
<1>3. BufferOK'
  <2>1. CASE c = "buffer_setup"
    <3>1. base' = FlashSize /\ written' = 0 /\ bufferLength' = bufferLength
      BY <2>1 DEF WriteReady, BufferSetup
    <3> QED BY <1>2, <3>1 DEF FlashIInv, BufferOK
  <2>2. CASE c # "buffer_setup"
    <3>1. UNCHANGED <<base, written, bufferLength>>
      BY <2>2 DEF WriteReady, bufState
    <3> QED BY <1>2, <2>2, <3>1 DEF FlashIInv, BufferOK
  <2> QED BY <2>1, <2>2
<1> QED BY <1>1, <1>3, MappingFollows DEF FlashIInv

\* The steps that do not touch the buffer and go back to the ready state.
LEMMA BackToReady ==
  ASSUME FlashIInv, UNCHANGED bufState, fstate' = "READY", AdjustMapping,
         flash' = [a \in Addrs |-> flash'[a]], wanted' = flash'
  PROVE  FlashIInv'
<1>1. BufferOK'
  BY DEF FlashIInv, BufferOK, bufState
<1> QED BY <1>1, MappingFollows DEF FlashIInv

\* WriteLock keeps FlashIInv.
LEMMA WriteLockKeeps == ASSUME FlashIInv, NEW c, NEW a, WriteLock(c, a) PROVE FlashIInv'
<1>1. UNCHANGED <<flash, bufState, wanted>> /\ fstate' = "READY" /\ AdjustMapping
  BY DEF WriteLock, Becomes
<1>2. flash' = [x \in Addrs |-> flash'[x]] /\ wanted' = flash'
  BY <1>1 DEF FlashIInv
<1> QED BY <1>1, <1>2, BackToReady

\* WordProgram keeps FlashIInv.
LEMMA WordProgramKeeps ==
  ASSUME FlashIInv, NEW c, NEW a \in Addrs, WordProgram(c, a) PROVE FlashIInv'
<1> DEFINE v == [x \in Addrs |-> c]
<1>1. UNCHANGED bufState /\ fstate' = "READY" /\ AdjustMapping
  BY DEF WordProgram, Becomes
<1>2. /\ Program(a, [flash EXCEPT ![a] = c])
      /\ wanted' = [x \in Addrs |-> IF x \in {a} /\ ~BlockIsLocked(x) THEN v[x] ELSE wanted[x]]
  BY DEF WordProgram, Wanted
<1>3. [flash EXCEPT ![a] = c] = [x \in Addrs |-> IF x \in {a} THEN v[x] ELSE flash[x]]
  BY DEF FlashIInv
<1>4. \A x \in {a} \cap Addrs : BlockOf(x) = BlockOf(a)
  OBVIOUS
<1> HIDE DEF v
<1>5. flash' = [x \in Addrs |-> flash'[x]] /\ wanted' = flash'
  BY <1>2, <1>3, <1>4, Programs
<1> QED BY <1>1, <1>5, BackToReady

\* WriteCount keeps FlashIInv.
LEMMA WriteCountKeeps == ASSUME FlashIInv, NEW n \in 0 .. BufferWords, WriteCount(n) PROVE FlashIInv'
<1>1. /\ UNCHANGED <<flash, base, written, wanted>> /\ AdjustMapping
      /\ bufferLength' = IF n + 1 > BufferWords THEN BufferWords ELSE n + 1
      /\ fstate = "BUFFERED_PROGRAM_SETUP" /\ fstate' = "BUFFER_WRITE"
  BY DEF WriteCount, Becomes
<1>2. bufferLength' \in 1 .. BufferWords /\ written' = 0
  BY <1>1, FlashLengths DEF FlashIInv, BufferOK
<1>3. BufferOK'
  BY <1>1, <1>2, FlashLengths DEF FlashIInv, BufferOK
<1> QED BY <1>1, <1>3, MappingFollows DEF FlashIInv

\* BufferWrite keeps FlashIInv.
LEMMA BufferWriteKeeps ==
  ASSUME FlashIInv, NEW c, NEW a \in Addrs, BufferWrite(c, a) PROVE FlashIInv'
<1>1. /\ UNCHANGED <<flash, bufferLength, wanted>> /\ AdjustMapping
      /\ fstate = "BUFFER_WRITE" /\ fstate' = "BUFFER_WRITE" /\ ~(written >= bufferLength)
      /\ written' = written + 1 /\ base' = IF base = FlashSize THEN a ELSE base
      /\ base = FlashSize => a % BufferWords = 0
  BY DEF BufferWrite, Becomes, BufferFull
<1>2. a # FlashSize
  BY FlashLengths DEF Addrs
<1>3. BufferOK'
  BY <1>1, <1>2, FlashLengths DEF FlashIInv, BufferOK
<1> QED BY <1>1, <1>3, MappingFollows DEF FlashIInv

\* BufferEnd keeps FlashIInv.
LEMMA BufferEndKeeps == ASSUME FlashIInv, NEW c, BufferEnd(c) PROVE FlashIInv'
<1> DEFINE S == base .. base + bufferLength - 1
           v == [x \in Addrs |-> buffer[x - base]]
           put == [x \in Addrs |-> IF x \in S THEN v[x] ELSE flash[x]]
<1>1. UNCHANGED bufState /\ fstate' = "READY" /\ AdjustMapping
  BY DEF BufferEnd, Becomes
<1>2. /\ written = bufferLength /\ bufferLength \in 1 .. BufferWords
      /\ base \in Addrs /\ base % BufferWords = 0
  BY FlashLengths DEF BufferEnd, BufferFull, FlashIInv, BufferOK
<1>3. CASE c # "confirm"
  <2>1. UNCHANGED <<flash, wanted>>
    BY <1>3 DEF BufferEnd
  <2> QED BY <1>1, <2>1, BackToReady DEF FlashIInv
<1>4. CASE c = "confirm"
  <2>1. /\ Program(base, put)
        /\ wanted' = [x \in Addrs |-> IF x \in S /\ ~BlockIsLocked(x) THEN v[x] ELSE wanted[x]]
    BY <1>2, <1>4 DEF BufferEnd, Wanted
  <2>2. ASSUME NEW x \in S \cap Addrs PROVE BlockOf(x) = BlockOf(base)
    <3>1. x - base \in 0 .. BufferWords - 1 /\ x = base + (x - base)
      BY <1>2, <2>2, FlashLengths
    <3> QED BY <1>2, <3>1, FlashLengths
  <2>3. put = [x \in Addrs |-> IF x \in S THEN v[x] ELSE flash[x]]
    OBVIOUS
  <2> HIDE DEF S, v, put
  <2>4. flash' = [x \in Addrs |-> flash'[x]] /\ wanted' = flash'
    BY <1>2, <2>1, <2>2, <2>3, Programs
  <2> QED BY <1>1, <2>4, BackToReady
<1> QED BY <1>3, <1>4

\* EraseBlock keeps FlashIInv.
LEMMA EraseBlockKeeps ==
  ASSUME FlashIInv, NEW c, NEW a \in Addrs, EraseBlock(c, a) PROVE FlashIInv'
<1> DEFINE S == a .. a + BlockWords - 1
           v == [x \in Addrs |-> Erased]
           put == [x \in Addrs |-> IF x \in S THEN v[x] ELSE flash[x]]
<1>1. UNCHANGED bufState /\ fstate' = "READY" /\ AdjustMapping /\ a % BlockWords = 0
  BY DEF EraseBlock, Becomes
<1>2. CASE c # "confirm"
  <2>1. UNCHANGED <<flash, wanted>>
    BY <1>2 DEF EraseBlock
  <2> QED BY <1>1, <2>1, BackToReady DEF FlashIInv
<1>3. CASE c = "confirm"
  <2>1. /\ Program(a, put)
        /\ wanted' = [x \in Addrs |-> IF x \in S /\ ~BlockIsLocked(x) THEN v[x] ELSE wanted[x]]
    BY <1>3 DEF EraseBlock, Wanted
  <2>2. ASSUME NEW x \in S \cap Addrs PROVE BlockOf(x) = BlockOf(a)
    <3>1. x - a \in 0 .. BlockWords - 1 /\ x = a + (x - a)
      BY <2>2, FlashLengths
    <3> QED BY <1>1, <3>1, FlashLengths
  <2>3. put = [x \in Addrs |-> IF x \in S THEN v[x] ELSE flash[x]]
    OBVIOUS
  <2> HIDE DEF S, v, put
  <2>4. flash' = [x \in Addrs |-> flash'[x]] /\ wanted' = flash'
    BY <2>1, <2>2, <2>3, Programs
  <2> QED BY <1>1, <2>4, BackToReady
<1> QED BY <1>2, <1>3

\* Every write the flash handles, or a stutter, keeps FlashIInv.
LEMMA FlashKept == ASSUME FlashIInv, [FlNext]_flVars PROVE FlashIInv'
<1>1. CASE UNCHANGED flVars
  BY <1>1 DEF flVars, bufState, FlashIInv, BufferOK, SlotOK
<1> QED BY <1>1, WriteReadyKeeps, WriteLockKeeps, WordProgramKeeps, WriteCountKeeps,
           BufferWriteKeeps, BufferEndKeeps, EraseBlockKeeps DEF FlNext

\* FlashIInv holds when the flash is mapped.
LEMMA FlashStarts == FlInit => FlashIInv
<1> SUFFICES ASSUME FlInit PROVE FlashIInv
  OBVIOUS
<1>1. BufferOK
  BY FlashLengths DEF FlInit, BufferOK
<1>2. SlotOK /\ isMapped \in BOOLEAN
  BY DEF FlInit, SlotOK
<1> QED BY <1>1, <1>2 DEF FlInit, FlashIInv

-----------------------------------------------------------------------------
(* The keyboard controller                                                 *)

\* The j-th place of a ring after r, as it is with an index that has wrapped.
SlotAt(r, j) == IF r + j < QueueSize THEN r + j ELSE r + j - QueueSize

ToQueue == Queues8042 \X Int

KbTypes ==
  /\ todo \in [Threads -> Seq(ToQueue)] /\ at \in [Threads -> {"idle", "count", "level", "line"}]
  /\ reg = [t \in Threads |-> reg[t]] /\ want \in [Queues8042 -> Seq(Int)]
  /\ kq \in [Queues8042 -> [0 .. QueueSize - 1 -> Int]] /\ kcount \in [Queues8042 -> Int]
  /\ kread \in [Queues8042 -> 0 .. QueueSize - 1] /\ kwrite \in [Queues8042 -> 0 .. QueueSize - 1]
  /\ kmode \in Int /\ mouse \in [status : Int, res : Int, sample : Int]

OneInside == \A t, u \in Threads : ~Outside(t) /\ ~Outside(u) => t = u

\* The bytes between the two indexes of a ring are the ones not taken out.
RingOK(q) ==
  /\ Len(want[q]) <= QueueSize
  /\ kwrite[q] = SlotAt(kread[q], Len(want[q]))
  /\ \A j \in 1 .. Len(want[q]) : kq[q][SlotAt(kread[q], j - 1)] = want[q][j]

\* The counters, but for one that a thread is about to store.
CountOK(q) == (\A t \in Threads : at[t] = "count" => reg[t][1] # q) => kcount[q] = Len(want[q])
RegOK(t) ==
  /\ at[t] = "count" => reg[t][1] \in Queues8042 /\ reg[t][2] = Len(want[reg[t][1]])
  /\ at[t] = "line" => reg[t][1] = TopQueue /\ strOut = TopQueue

SignalsOK == Settled => strOut = TopQueue /\ lines = {TopQueue} \ {"none"}

KbGood ==
  /\ KbTypes /\ OneInside /\ ~misread
  /\ \A q \in Queues8042 : RingOK(q) /\ CountOK(q)
  /\ \A t \in Threads : RegOK(t)
  /\ SignalsOK

KbIInv == ~overlap => KbGood

\* An index that goes on by one.
LEMMA NextSlot == ASSUME NEW r \in 0 .. QueueSize - 1 PROVE (r + 1) % QueueSize = SlotAt(r, 1)
<1>1. QueueSize \in Nat \ {0}
  BY KbAssumption
<1>2. CASE r + 1 < QueueSize
  <2>1. r + 1 = (QueueSize * 0) + (r + 1) /\ r + 1 \in 0 .. QueueSize - 1
    BY <1>1, <1>2
  <2> QED BY <1>1, <1>2, <2>1 DEF SlotAt
<1>3. CASE r + 1 >= QueueSize
  <2>1. r + 1 = QueueSize
    BY <1>1, <1>3
  <2>2. QueueSize % QueueSize = 0
    BY <1>1
  <2> QED BY <1>1, <2>1, <2>2 DEF SlotAt
<1> QED BY <1>1, <1>2, <1>3

\* Different places of a ring that is not full.
LEMMA SlotsApart ==
  ASSUME NEW r \in 0 .. QueueSize - 1
  PROVE  /\ \A j \in 0 .. QueueSize : SlotAt(r, j) \in 0 .. QueueSize - 1
         /\ SlotAt(r, 1) \in 0 .. QueueSize - 1
         /\ \A n \in 0 .. QueueSize - 1 : \A j \in 0 .. n - 1 : SlotAt(r, j) # SlotAt(r, n)
<1>1. QueueSize \in Nat \ {0}
  BY KbAssumption
<1> QED BY <1>1 DEF SlotAt

\* What the displays and the controller queue are bytes for one of the queues.
LEMMA OnBytes ==
  ASSUME NEW q \in Queues8042, NEW bytes \in Seq(Int)
  PROVE  On(q, bytes) \in Seq(ToQueue)
<1>1. Len(bytes) \in Nat /\ \A i \in 1 .. Len(bytes) : bytes[i] \in Int
  OBVIOUS
<1>2. \A i \in 1 .. Len(bytes) : <<q, bytes[i]>> \in ToQueue
  BY <1>1 DEF ToQueue
<1>3. [i \in 1 .. Len(bytes) |-> <<q, bytes[i]>>] \in Seq(ToQueue)
  BY <1>1, <1>2
<1> QED BY <1>3 DEF On

\* No bytes are a queue of bytes.
LEMMA EmptyBytes == <<>> \in Seq(ToQueue)
OBVIOUS

\* The bytes of a key press and of a release on the SDL window go to a
\* queue.
LEMMA KeyBytes ==
  ASSUME NEW key \in SdlKeymap
  PROVE  On("k", KeyPress(key)) \in Seq(ToQueue) /\ On("k", KeyRelease(key)) \in Seq(ToQueue)
<1>1. KeyPress(key) \in Seq(Int)
  BY DEF KeyPress, SdlKeymap
<1>2. KeyRelease(key) \in Seq(Int)
  BY DEF KeyRelease, SdlKeymap
<1> QED BY <1>1, <1>2, OnBytes DEF Queues8042

\* So do the bytes of the VNC pointer and keyboard events.
LEMMA VncBytes ==
  /\ On("m", VncPointer) \in Seq(ToQueue)
  /\ \A key \in VncKeysyms, down \in BOOLEAN : On("k", VncKey(key, down)) \in Seq(ToQueue)
<1>1. VncPointer \in Seq(Int)
  BY DEF VncPointer
<1>2. ASSUME NEW key \in VncKeysyms, NEW down \in BOOLEAN PROVE VncKey(key, down) \in Seq(Int)
  <2>1. VncEscape(key) \in Seq(Int)
    BY DEF VncEscape
  <2>2. (IF down THEN <<>> ELSE <<240>>) \in Seq(Int) /\ <<1>> \in Seq(Int)
    OBVIOUS
  <2> QED BY <2>1, <2>2 DEF VncKey
<1> QED BY <1>1, <1>2, OnBytes DEF Queues8042

\* So do the controller's replies to a command and to a data byte.
LEMMA ReplyBytes ==
  ASSUME KbTypes
  PROVE  /\ \A cmd : Replies(cmd) \in Seq(ToQueue)
         /\ \A val \in Int : DataReplies(val) \in Seq(ToQueue)
<1>1. \A cmd : Replies(cmd) \in Seq(ToQueue)
  <2>1. <<kmode>> \in Seq(Int) /\ <<0>> \in Seq(Int)
    BY DEF KbTypes
  <2>2. On("k", <<kmode>>) \in Seq(ToQueue) /\ On("m", <<0>>) \in Seq(ToQueue)
    BY <2>1, OnBytes DEF Queues8042
  <2> QED BY <2>2, EmptyBytes DEF Replies
<1>2. ASSUME NEW val \in Int PROVE DataReplies(val) \in Seq(ToQueue)
  <2>1. mouse.status \in Int /\ mouse.res \in Int /\ mouse.sample \in Int
    BY DEF KbTypes
  <2>2. /\ <<val, 250>> \in Seq(Int) /\ <<250, 0>> \in Seq(Int) /\ <<250>> \in Seq(Int)
        /\ <<250, 171, 65>> \in Seq(Int)
    OBVIOUS
  <2>3. <<250, mouse.status, mouse.res, mouse.sample>> \in Seq(Int)
    BY <2>1
  <2>4. /\ On("m", <<val, 250>>) \in Seq(ToQueue) /\ On("m", <<250, 0>>) \in Seq(ToQueue)
        /\ On("m", <<250>>) \in Seq(ToQueue) /\ On("k", <<250, 171, 65>>) \in Seq(ToQueue)
        /\ On("m", <<250, mouse.status, mouse.res, mouse.sample>>) \in Seq(ToQueue)
    BY <2>2, <2>3, OnBytes DEF Queues8042
  <2> QED BY <2>4, EmptyBytes DEF DataReplies
<1> QED BY <1>1, <1>2

\* A step that leaves the queues and what is queued alone keeps the rings.
LEMMA RingsSame ==
  ASSUME KbGood, UNCHANGED <<kq, kread, kwrite, want>>
  PROVE  \A q \in Queues8042 : RingOK(q)'
<1>1. kq' = kq /\ kread' = kread /\ kwrite' = kwrite /\ want' = want
  OBVIOUS
<1>2. \A q \in Queues8042 : RingOK(q)
  BY DEF KbGood
<1> QED BY <1>1, <1>2, Zenon DEF RingOK, SlotAt

\* A thread enters the controller with bytes to queue, or with the lines to set.
LEMMA EntersKeeps ==
  ASSUME KbGood, ~overlap', NEW t \in Threads, Enters(t),
         NEW bytes \in Seq(ToQueue), todo' = [todo EXCEPT ![t] = bytes],
         \/ at' = at
         \/ at' = [at EXCEPT ![t] = "level"],
         UNCHANGED <<queueState, strOut, lines, reg, want, misread>>,
         kmode' \in Int, mouse' \in [status : Int, res : Int, sample : Int]
  PROVE  KbGood'
<1>1. /\ at[t] = "idle" /\ \A u \in Threads \ {t} : at[u] = "idle" /\ todo[u] = <<>>
      /\ \A u \in Threads \ {t} : at'[u] = at[u] /\ todo'[u] = todo[u]
      /\ at'[t] \in {"idle", "level"} /\ KbTypes
  BY DEF Enters, Outside, KbGood, KbTypes
<1>2. UNCHANGED <<kq, kread, kwrite, kcount, strOut, lines, reg, want, misread>>
  BY DEF queueState
<1>3. KbTypes'
  <2>1. at' \in [Threads -> {"idle", "count", "level", "line"}] /\ todo' \in [Threads -> Seq(ToQueue)]
    BY <1>1 DEF KbTypes
  <2> QED BY <1>1, <1>2, <2>1 DEF KbTypes
<1>4. OneInside'
  BY <1>1 DEF OneInside, Outside
<1>5. TopQueue' = TopQueue
  BY <1>2 DEF TopQueue
<1>6. \A q \in Queues8042 : RingOK(q)' /\ CountOK(q)'
  <2>1. \A q \in Queues8042 : RingOK(q)'
    BY <1>2, RingsSame
  <2>2. \A q \in Queues8042 : kcount[q] = Len(want[q])
    <3>1. \A u \in Threads : at[u] # "count"
      BY <1>1
    <3> QED BY <3>1 DEF KbGood, CountOK
  <2> QED BY <1>2, <2>1, <2>2 DEF CountOK
<1>7. \A u \in Threads : RegOK(u)'
  <2>1. \A u \in Threads : at'[u] \in {"idle", "level"}
    BY <1>1
  <2> QED BY <2>1 DEF RegOK
<1>8. SignalsOK'
  <2>1. Settled
    BY <1>1 DEF Settled
  <2> QED BY <1>2, <1>5, <2>1 DEF KbGood, SignalsOK
<1> QED BY <1>2, <1>3, <1>4, <1>6, <1>7, <1>8 DEF KbGood

\* Bytes queued by a display thread keep KbGood while no two updates
\* overlap.
LEMMA InputKeeps ==
  ASSUME KbGood, ~overlap', NEW bytes \in Seq(ToQueue), Input(bytes) PROVE KbGood'
<1>1. /\ Enters("ui") /\ todo' = [todo EXCEPT !["ui"] = bytes] /\ at' = at /\ "ui" \in Threads
      /\ UNCHANGED <<queueState, strOut, lines, reg, want, misread>>
  BY DEF Input, Threads
<1>2. kmode' \in Int /\ mouse' \in [status : Int, res : Int, sample : Int]
  BY DEF Input, KbGood, KbTypes
<1> QED BY <1>1, <1>2, EntersKeeps

\* A write of the command port keeps KbGood while no two updates overlap.
LEMMA WriteCommandKeeps == ASSUME KbGood, ~overlap', NEW cmd, WriteCommand(cmd) PROVE KbGood'
<1>1. /\ Enters("vcpu") /\ todo' = [todo EXCEPT !["vcpu"] = Replies(cmd)] /\ at' = at
      /\ "vcpu" \in Threads /\ UNCHANGED <<queueState, strOut, lines, reg, want, misread>>
  BY DEF WriteCommand, Threads
<1>2. Replies(cmd) \in Seq(ToQueue)
  BY ReplyBytes DEF KbGood
<1>3. kmode' \in Int /\ mouse' \in [status : Int, res : Int, sample : Int]
  <2>1. kmode \in Int /\ SetBit(kmode, 32) \in Int /\ ClearBit(kmode, 32) \in Int
    BY DEF KbGood, KbTypes, SetBit, ClearBit
  <2>2. mouse' = mouse
    BY DEF WriteCommand
  <2>3. kmode' \in {kmode, SetBit(kmode, 32), ClearBit(kmode, 32)}
    BY DEF WriteCommand
  <2> QED BY <2>1, <2>2, <2>3 DEF KbGood, KbTypes
<1> QED BY <1>1, <1>2, <1>3, EntersKeeps

\* A write of the data port keeps KbGood while no two updates overlap.
LEMMA WriteDataKeeps ==
  ASSUME KbGood, ~overlap', NEW val \in DataBytes, WriteData(val) PROVE KbGood'
<1>1. val \in Int
  BY KbAssumption
<1>2. /\ Enters("vcpu") /\ todo' = [todo EXCEPT !["vcpu"] = DataReplies(val)]
      /\ at' = at \/ at' = [at EXCEPT !["vcpu"] = "level"]
      /\ "vcpu" \in Threads /\ UNCHANGED <<queueState, strOut, lines, reg, want, misread>>
  BY DEF WriteData, Threads
<1>3. DataReplies(val) \in Seq(ToQueue)
  BY <1>1, ReplyBytes DEF KbGood
<1>4. kmode' \in Int
  BY <1>1 DEF WriteData, KbGood, KbTypes
<1>5. mouse' \in [status : Int, res : Int, sample : Int]
  <2>1. mouse \in [status : Int, res : Int, sample : Int]
    BY DEF KbGood, KbTypes
  <2>2. \A b \in {16, 32} : ClearBit(mouse.status, b) \in Int /\ SetBit(mouse.status, b) \in Int
    BY <2>1 DEF ClearBit, SetBit
  <2>3. MouseReset \in [status : Int, res : Int, sample : Int]
    BY DEF MouseReset
  <2>4. MouseAfter(val) \in [status : Int, res : Int, sample : Int]
    BY <1>1, <2>1, <2>2, <2>3 DEF MouseAfter
  <2> QED BY <2>1, <2>4 DEF WriteData
<1> QED BY <1>2, <1>3, <1>4, <1>5, EntersKeeps

\* A thread inside the controller is the only one.
LEMMA Alone8042 ==
  ASSUME KbGood, NEW t \in Threads, ~Outside(t)
  PROVE  \A u \in Threads \ {t} : at[u] = "idle" /\ todo[u] = <<>>
BY DEF KbGood, OneInside, Outside

\* The steps of a thread that is inside, but for its bytes.
LEMMA StoreCountKeeps == ASSUME KbGood, NEW t \in Threads, StoreCount(t) PROVE KbGood'
<1> DEFINE q == reg[t][1]
           n == reg[t][2]
<1>1. /\ at[t] = "count" /\ kcount' = [kcount EXCEPT ![q] = n]
      /\ at' = [at EXCEPT ![t] = "level"]
      /\ UNCHANGED <<kq, kread, kwrite, strOut, kmode, mouse, todo, reg, want, misread>>
  BY DEF StoreCount, kbHistory
<1>2. q \in Queues8042 /\ n = Len(want[q]) /\ KbTypes /\ ~misread /\ OneInside
  BY <1>1 DEF KbGood, RegOK
<1> HIDE DEF q, n
<1>3. \A u \in Threads \ {t} : at[u] = "idle" /\ todo[u] = <<>>
  BY <1>1, Alone8042 DEF Outside
<1>4. \A u \in Threads : at'[u] = IF u = t THEN "level" ELSE "idle"
  BY <1>1, <1>2, <1>3 DEF KbTypes
<1>5. KbTypes'
  <2>1. n \in Int
    BY <1>2 DEF KbTypes
  <2> QED BY <1>1, <1>2, <2>1 DEF KbTypes
<1>6. OneInside'
  BY <1>1, <1>3, <1>4 DEF OneInside, Outside
<1>7. ASSUME NEW p \in Queues8042 PROVE RingOK(p)' /\ CountOK(p)'
  <2>1. RingOK(p)'
    BY <1>1, RingsSame
  <2>2. CASE p = q
    BY <1>1, <1>2, <2>1, <2>2 DEF KbTypes, CountOK
  <2>3. CASE p # q
    <3>1. kcount[p] = Len(want[p])
      BY <1>3, <2>3 DEF KbGood, CountOK, q
    <3> QED BY <1>1, <1>2, <2>1, <2>3, <3>1 DEF KbTypes, CountOK
  <2> QED BY <2>2, <2>3
<1>8. (\A u \in Threads : RegOK(u)') /\ SignalsOK'
  BY <1>4 DEF RegOK, SignalsOK, Settled
<1> QED BY <1>1, <1>2, <1>5, <1>6, <1>7, <1>8 DEF KbGood

\* Choosing the status bit and the line to drive, in kbd_update_irq, keeps
\* KbGood.
LEMMA UpdateIrqKeeps == ASSUME KbGood, NEW t \in Threads, UpdateIrq(t) PROVE KbGood'
<1>1. /\ at[t] = "level" /\ strOut' = TopQueue /\ reg' = [reg EXCEPT ![t] = <<TopQueue, 0>>]
      /\ at' = [at EXCEPT ![t] = "line"]
      /\ UNCHANGED <<kq, kread, kwrite, kcount, kmode, mouse, todo, want, misread>>
  BY DEF UpdateIrq, kbHistory, queueState
<1>2. KbTypes /\ ~misread /\ OneInside
  BY DEF KbGood
<1>3. \A u \in Threads \ {t} : at[u] = "idle" /\ todo[u] = <<>>
  BY <1>1, Alone8042 DEF Outside
<1>4. (\A u \in Threads : at'[u] = IF u = t THEN "line" ELSE "idle") /\ reg'[t] = <<TopQueue, 0>>
  BY <1>1, <1>2, <1>3 DEF KbTypes
<1>5. KbTypes'
  <2>1. reg' = [u \in Threads |-> reg'[u]]
    BY <1>1, <1>2 DEF KbTypes
  <2> QED BY <1>1, <1>2, <2>1 DEF KbTypes
<1>6. OneInside'
  BY <1>1, <1>3, <1>4 DEF OneInside, Outside
<1>7. ASSUME NEW p \in Queues8042 PROVE RingOK(p)' /\ CountOK(p)'
  <2>1. RingOK(p)'
    BY <1>1, RingsSame
  <2>2. kcount[p] = Len(want[p])
    BY <1>1, <1>3 DEF KbGood, CountOK
  <2> QED BY <1>1, <2>1, <2>2 DEF CountOK
<1>8. TopQueue' = TopQueue
  BY <1>1 DEF TopQueue
<1>9. (\A u \in Threads : RegOK(u)') /\ SignalsOK'
  BY <1>1, <1>4, <1>8 DEF RegOK, SignalsOK, Settled
<1> QED BY <1>1, <1>2, <1>5, <1>6, <1>7, <1>9 DEF KbGood

\* Driving the two interrupt lines keeps KbGood.
LEMMA SetLinesKeeps == ASSUME KbGood, NEW t \in Threads, SetLines(t) PROVE KbGood'
<1>1. /\ at[t] = "line" /\ lines' = {reg[t][1]} \ {"none"} /\ at' = [at EXCEPT ![t] = "idle"]
      /\ UNCHANGED <<kq, kread, kwrite, kcount, strOut, kmode, mouse, todo, reg, want, misread>>
  BY DEF SetLines, kbHistory, queueState, LinesFor
<1>2. KbTypes /\ ~misread /\ OneInside /\ reg[t][1] = TopQueue /\ strOut = TopQueue
  BY <1>1 DEF KbGood, RegOK
<1>3. \A u \in Threads \ {t} : at[u] = "idle" /\ todo[u] = <<>>
  BY <1>1, Alone8042 DEF Outside
<1>4. \A u \in Threads : at'[u] = "idle"
  BY <1>1, <1>2, <1>3 DEF KbTypes
<1>5. KbTypes'
  BY <1>1, <1>2 DEF KbTypes
<1>6. OneInside'
  BY <1>1, <1>3, <1>4 DEF OneInside, Outside
<1>7. ASSUME NEW p \in Queues8042 PROVE RingOK(p)' /\ CountOK(p)'
  <2>1. RingOK(p)'
    BY <1>1, RingsSame
  <2>2. kcount[p] = Len(want[p])
    BY <1>1, <1>3 DEF KbGood, CountOK
  <2> QED BY <1>1, <2>1, <2>2 DEF CountOK
<1>8. TopQueue' = TopQueue
  BY <1>1 DEF TopQueue
<1>9. (\A u \in Threads : RegOK(u)') /\ SignalsOK'
  BY <1>1, <1>2, <1>4, <1>8 DEF RegOK, SignalsOK
<1> QED BY <1>1, <1>2, <1>5, <1>6, <1>7, <1>9 DEF KbGood

\* The head of a list of bytes to queue, and what is left.
LEMMA NextByte ==
  ASSUME NEW bytes \in Seq(ToQueue), bytes # <<>>
  PROVE  /\ Head(bytes)[1] \in Queues8042 /\ Head(bytes)[2] \in Int
         /\ Tail(bytes) \in Seq(ToQueue)
<1>1. Head(bytes) \in ToQueue /\ Tail(bytes) \in Seq(ToQueue)
  OBVIOUS
<1> QED BY <1>1 DEF ToQueue

\* A byte enters a ring with room for it.
LEMMA ByteStored ==
  ASSUME KbTypes, NEW q \in Queues8042, RingOK(q), Len(want[q]) < QueueSize, NEW c \in Int,
         kq' = [kq EXCEPT ![q][kwrite[q]] = c], kread' = kread,
         kwrite' = [kwrite EXCEPT ![q] = (@ + 1) % QueueSize],
         want' = [want EXCEPT ![q] = Append(@, c)]
  PROVE  /\ RingOK(q)' /\ Len(want'[q]) = Len(want[q]) + 1
         /\ kq' \in [Queues8042 -> [0 .. QueueSize - 1 -> Int]]
         /\ kwrite' \in [Queues8042 -> 0 .. QueueSize - 1]
         /\ want' \in [Queues8042 -> Seq(Int)]
         /\ \A p \in Queues8042 \ {q} :
              kq'[p] = kq[p] /\ kwrite'[p] = kwrite[p] /\ want'[p] = want[p]
<1> DEFINE r == kread[q]
           w == kwrite[q]
           s == want[q]
           n == Len(s)
<1>1. /\ r \in 0 .. QueueSize - 1 /\ w \in 0 .. QueueSize - 1 /\ s \in Seq(Int) /\ n \in Nat
      /\ QueueSize \in Nat \ {0} /\ n < QueueSize /\ w = SlotAt(r, n)
      /\ kq[q] \in [0 .. QueueSize - 1 -> Int]
  BY KbAssumption DEF KbTypes, RingOK
<1>2. /\ want'[q] = Append(s, c) /\ Len(want'[q]) = n + 1 /\ want'[q] \in Seq(Int)
      /\ want'[q][n + 1] = c /\ \A j \in 1 .. n : want'[q][j] = s[j]
  BY <1>1 DEF KbTypes
<1>3. /\ kwrite'[q] = SlotAt(w, 1) /\ SlotAt(w, 1) \in 0 .. QueueSize - 1
  <2>1. kwrite'[q] = (w + 1) % QueueSize
    BY <1>1 DEF KbTypes
  <2>2. (w + 1) % QueueSize = SlotAt(w, 1)
    BY <1>1, NextSlot
  <2>3. SlotAt(w, 1) \in 0 .. QueueSize - 1
    BY <1>1, SlotsApart
  <2> QED BY <2>1, <2>2, <2>3
<1>4. kq'[q] = [kq[q] EXCEPT ![w] = c]
  BY <1>1 DEF KbTypes
<1>5. /\ kq'[q] \in [0 .. QueueSize - 1 -> Int] /\ kq'[q][w] = c
      /\ \A x \in 0 .. QueueSize - 1 : x # w => kq'[q][x] = kq[q][x]
  BY <1>1, <1>4
<1>6. /\ kq' \in [Queues8042 -> [0 .. QueueSize - 1 -> Int]]
      /\ kwrite' \in [Queues8042 -> 0 .. QueueSize - 1]
      /\ want' \in [Queues8042 -> Seq(Int)]
  <2>1. kq' = [kq EXCEPT ![q] = kq'[q]]
    BY <1>4 DEF KbTypes
  <2>2. kwrite' = [kwrite EXCEPT ![q] = kwrite'[q]] /\ want' = [want EXCEPT ![q] = want'[q]]
    BY DEF KbTypes
  <2>3. kq' \in [Queues8042 -> [0 .. QueueSize - 1 -> Int]]
    BY <1>5, <2>1 DEF KbTypes
  <2>4. kwrite' \in [Queues8042 -> 0 .. QueueSize - 1]
    BY <1>3, <2>2 DEF KbTypes
  <2>5. want' \in [Queues8042 -> Seq(Int)]
    BY <1>2, <2>2 DEF KbTypes
  <2> QED BY <2>3, <2>4, <2>5
<1>7. \A p \in Queues8042 \ {q} :
        kq'[p] = kq[p] /\ kwrite'[p] = kwrite[p] /\ want'[p] = want[p]
  BY DEF KbTypes
<1>8. \A j \in 1 .. n : kq[q][SlotAt(r, j - 1)] = s[j]
  BY DEF RingOK
<1> HIDE DEF r, w, s, n
<1>9. ASSUME NEW j \in 1 .. n + 1 PROVE kq'[q][SlotAt(r, j - 1)] = want'[q][j]
  <2>1. CASE j = n + 1
    <3>1. SlotAt(r, j - 1) = w
      BY <1>1, <2>1
    <3> QED BY <1>2, <1>5, <2>1, <3>1
  <2>2. CASE j \in 1 .. n
    <3>1. j - 1 \in 0 .. n - 1 /\ n \in 0 .. QueueSize - 1 /\ j - 1 \in 0 .. QueueSize
      BY <1>1, <2>2
    <3>2. SlotAt(r, j - 1) \in 0 .. QueueSize - 1 /\ SlotAt(r, j - 1) # w
      BY <1>1, <3>1, SlotsApart
    <3> QED BY <1>2, <1>5, <1>8, <2>2, <3>2
  <2>3. j = n + 1 \/ j \in 1 .. n
    <3>1. n \in Nat
      BY <1>1
    <3> QED BY <3>1
  <2> QED BY <2>1, <2>2, <2>3
<1>10. SlotAt(w, 1) = SlotAt(r, n + 1)
  BY <1>1 DEF SlotAt
<1>11. RingOK(q)'
  <2>1. kread'[q] = r
    BY DEF r
  <2>2. SlotAt(kread[q], Len(want[q]))' = SlotAt(r, n + 1)
    BY <1>2, <2>1 DEF SlotAt
  <2>3. \A j : SlotAt(kread[q], j - 1)' = SlotAt(r, j - 1)
    BY <2>1 DEF SlotAt
  <2>4. Len(want'[q]) <= QueueSize
    BY <1>1, <1>2
  <2> QED BY <1>2, <1>3, <1>9, <1>10, <2>2, <2>3, <2>4 DEF RingOK
<1> QED BY <1>2, <1>6, <1>7, <1>11 DEF n, s

\* Storing the next byte in its queue keeps KbGood.
LEMMA StoreKeeps == ASSUME KbGood, NEW t \in Threads, Store(t) PROVE KbGood'
<1>1. /\ at[t] = "idle" /\ todo[t] # <<>> /\ todo' = [todo EXCEPT ![t] = Tail(@)]
      /\ UNCHANGED <<kread, kcount, strOut, lines, kmode, mouse, misread>>
  BY DEF Store
<1>0. PICK q \in Queues8042, c \in Int : q = Head(todo[t])[1] /\ c = Head(todo[t])[2]
  BY <1>1, NextByte DEF KbGood, KbTypes
<1>2. q \in Queues8042 /\ c \in Int /\ Tail(todo[t]) \in Seq(ToQueue) /\ KbTypes /\ ~misread
  BY <1>1, NextByte DEF KbGood, KbTypes
<1>3. \A u \in Threads \ {t} : at[u] = "idle" /\ todo[u] = <<>>
  BY <1>1, Alone8042 DEF Outside
<1>4. todo' \in [Threads -> Seq(ToQueue)] /\ \A u \in Threads \ {t} : todo'[u] = <<>>
  BY <1>1, <1>2, <1>3 DEF KbTypes
<1>5. \A p \in Queues8042 : kcount[p] = Len(want[p]) /\ RingOK(p)
  BY <1>1, <1>3 DEF KbGood, CountOK
<1>6. Settled /\ strOut = TopQueue /\ lines = {TopQueue} \ {"none"} /\ TopQueue' = TopQueue
  BY <1>1, <1>3 DEF KbGood, SignalsOK, Settled, TopQueue
<1>7. CASE UNCHANGED <<kq, kwrite, at, reg, want>>
  <2>1. KbTypes'
    BY <1>1, <1>2, <1>4, <1>7 DEF KbTypes
  <2>2. OneInside'
    BY <1>1, <1>3, <1>4, <1>7 DEF OneInside, Outside
  <2>3. \A p \in Queues8042 : RingOK(p)' /\ CountOK(p)'
    BY <1>1, <1>5, <1>7 DEF RingOK, CountOK, SlotAt
  <2>4. (\A u \in Threads : RegOK(u)') /\ SignalsOK'
    BY <1>1, <1>3, <1>6, <1>7 DEF RegOK, SignalsOK
  <2> QED BY <1>1, <1>2, <2>1, <2>2, <2>3, <2>4 DEF KbGood
<1>8. CASE /\ ~Full8042(q)
           /\ kq' = [kq EXCEPT ![q][kwrite[q]] = c]
           /\ kwrite' = [kwrite EXCEPT ![q] = (@ + 1) % QueueSize]
           /\ reg' = [reg EXCEPT ![t] = <<q, kcount[q] + 1>>]
           /\ at' = [at EXCEPT ![t] = "count"]
           /\ want' = [want EXCEPT ![q] = Append(@, c)]
  <2>1. Len(want[q]) < QueueSize /\ Len(want[q]) \in Nat
    BY <1>2, <1>5, <1>8, KbAssumption, SMTT(30) DEF Full8042, KbTypes
  <2>2. /\ RingOK(q)' /\ Len(want'[q]) = Len(want[q]) + 1
        /\ kq' \in [Queues8042 -> [0 .. QueueSize - 1 -> Int]]
        /\ kwrite' \in [Queues8042 -> 0 .. QueueSize - 1]
        /\ want' \in [Queues8042 -> Seq(Int)]
        /\ \A p \in Queues8042 \ {q} :
             kq'[p] = kq[p] /\ kwrite'[p] = kwrite[p] /\ want'[p] = want[p]
    <3>1. RingOK(q) /\ kread' = kread
      BY <1>1, <1>2, <1>5
    <3> QED BY <1>2, <1>8, <2>1, <3>1, ByteStored
  <2>3. /\ \A u \in Threads : at'[u] = IF u = t THEN "count" ELSE "idle"
        /\ reg'[t] = <<q, kcount[q] + 1>> /\ reg' = [u \in Threads |-> reg'[u]]
        /\ at' \in [Threads -> {"idle", "count", "level", "line"}]
    BY <1>2, <1>3, <1>8 DEF KbTypes
  <2>4. KbTypes'
    BY <1>1, <1>2, <1>4, <2>2, <2>3 DEF KbTypes
  <2>5. OneInside'
    BY <1>4, <2>3 DEF OneInside, Outside
  <2>6. ASSUME NEW p \in Queues8042 PROVE RingOK(p)' /\ CountOK(p)'
    <3>1. CASE p = q
      <4>1. at'[t] = "count" /\ reg'[t][1] = p
        BY <2>3, <3>1
      <4> QED BY <2>2, <3>1, <4>1 DEF CountOK
    <3>2. CASE p # q
      <4>1. RingOK(p)'
        <5>1. /\ kq'[p] = kq[p] /\ kwrite'[p] = kwrite[p] /\ want'[p] = want[p]
              /\ kread'[p] = kread[p] /\ RingOK(p)
          BY <1>1, <1>5, <2>2, <3>2
        <5> QED BY <5>1 DEF RingOK, SlotAt
      <4>2. kcount'[p] = Len(want'[p])
        BY <1>1, <1>5, <2>2, <3>2
      <4> QED BY <4>1, <4>2 DEF CountOK
    <3> QED BY <3>1, <3>2
  <2>7. \A u \in Threads : RegOK(u)'
    BY <1>2, <1>5, <2>2, <2>3, SMTT(30) DEF RegOK
  <2>8. SignalsOK'
    BY <2>3 DEF SignalsOK, Settled
  <2> QED BY <1>1, <1>2, <2>4, <2>5, <2>6, <2>7, <2>8 DEF KbGood
<1> QED BY <1>0, <1>7, <1>8 DEF Store

\* The oldest byte leaves a ring.
LEMMA ByteTaken ==
  ASSUME KbTypes, NEW q \in Queues8042, RingOK(q), Len(want[q]) > 0,
         kq' = kq, kwrite' = kwrite,
         kread' = [kread EXCEPT ![q] = (@ + 1) % QueueSize],
         want' = [want EXCEPT ![q] = Tail(@)]
  PROVE  /\ RingOK(q)' /\ Len(want'[q]) = Len(want[q]) - 1
         /\ kq[q][kread[q]] = Head(want[q])
         /\ kread' \in [Queues8042 -> 0 .. QueueSize - 1]
         /\ want' \in [Queues8042 -> Seq(Int)]
         /\ \A p \in Queues8042 \ {q} : kread'[p] = kread[p] /\ want'[p] = want[p]
<1> DEFINE r == kread[q]
           s == want[q]
           n == Len(s)
<1>1. /\ r \in 0 .. QueueSize - 1 /\ s \in Seq(Int) /\ s # <<>> /\ n \in Nat \ {0}
      /\ QueueSize \in Nat \ {0} /\ n <= QueueSize /\ kwrite[q] = SlotAt(r, n)
  BY KbAssumption DEF KbTypes, RingOK
<1>2. /\ want'[q] = Tail(s) /\ Len(Tail(s)) = n - 1 /\ Tail(s) \in Seq(Int)
      /\ \A j \in 1 .. n - 1 : Tail(s)[j] = s[j + 1]
  BY <1>1 DEF KbTypes
<1>3. Head(s) = s[1]
  BY <1>1
<1>4. \A j \in 1 .. n : kq[q][SlotAt(r, j - 1)] = s[j]
  BY DEF RingOK
<1>5. kread'[q] = SlotAt(r, 1) /\ SlotAt(r, 1) \in 0 .. QueueSize - 1
  <2>1. kread'[q] = (r + 1) % QueueSize
    BY <1>1 DEF KbTypes
  <2>2. (r + 1) % QueueSize = SlotAt(r, 1)
    BY <1>1, NextSlot
  <2>3. SlotAt(r, 1) \in 0 .. QueueSize - 1
    BY <1>1, SlotsApart
  <2> QED BY <2>1, <2>2, <2>3
<1>6. kread' \in [Queues8042 -> 0 .. QueueSize - 1] /\ want' \in [Queues8042 -> Seq(Int)]
  <2>1. kread' = [kread EXCEPT ![q] = kread'[q]] /\ want' = [want EXCEPT ![q] = want'[q]]
    BY DEF KbTypes
  <2>2. kread' \in [Queues8042 -> 0 .. QueueSize - 1]
    BY <1>5, <2>1 DEF KbTypes
  <2>3. want' \in [Queues8042 -> Seq(Int)]
    BY <1>2, <2>1 DEF KbTypes
  <2> QED BY <2>2, <2>3
<1>7. \A p \in Queues8042 \ {q} : kread'[p] = kread[p] /\ want'[p] = want[p]
  BY DEF KbTypes
<1>8. kq[q][r] = Head(s)
  <2>1. SlotAt(r, 1 - 1) = r
    BY <1>1 DEF SlotAt
  <2> QED BY <1>1, <1>3, <1>4, <2>1, SMTT(30)
<1>9. kwrite'[q] = kwrite[q] /\ kq'[q] = kq[q]
  OBVIOUS
<1> HIDE DEF r, s, n
<1>10. /\ SlotAt(SlotAt(r, 1), n - 1) = SlotAt(r, n)
       /\ \A j \in 1 .. n - 1 : SlotAt(SlotAt(r, 1), j - 1) = SlotAt(r, (j + 1) - 1)
  BY <1>1 DEF SlotAt
<1>11. RingOK(q)'
  <2>1. SlotAt(kread[q], Len(want[q]))' = SlotAt(SlotAt(r, 1), n - 1)
    BY <1>2, <1>5 DEF SlotAt
  <2>2. \A j : SlotAt(kread[q], j - 1)' = SlotAt(SlotAt(r, 1), j - 1)
    BY <1>5 DEF SlotAt
  <2>3. Len(want'[q]) <= QueueSize
    BY <1>1, <1>2
  <2>4. ASSUME NEW j \in 1 .. n - 1 PROVE kq'[q][SlotAt(SlotAt(r, 1), j - 1)] = want'[q][j]
    <3>1. j + 1 \in 1 .. n
      BY <1>1
    <3> QED BY <1>2, <1>4, <1>9, <1>10, <3>1
  <2> QED BY <1>1, <1>2, <1>9, <1>10, <2>1, <2>2, <2>3, <2>4 DEF RingOK
<1> QED BY <1>2, <1>6, <1>7, <1>8, <1>11 DEF n, s, r

\* A read of the data port keeps KbGood while no two updates overlap.
LEMMA ReadDataKeeps == ASSUME KbGood, ~overlap', ReadData PROVE KbGood'
<1> DEFINE t == "vcpu"
<1>0. PICK q : q = ReadFrom8042
  OBVIOUS
<1>1. /\ Enters(t) /\ q # "none"
      /\ misread' = (misread \/ want[q] = <<>> \/ kq[q][kread[q]] # Head(want[q]))
      /\ want' = [want EXCEPT ![q] = IF @ = <<>> THEN @ ELSE Tail(@)]
      /\ kread' = [kread EXCEPT ![q] = (@ + 1) % QueueSize]
      /\ reg' = [reg EXCEPT ![t] = <<q, kcount[q] - 1>>]
      /\ at' = [at EXCEPT ![t] = "count"]
      /\ UNCHANGED <<kq, kwrite, kcount, strOut, lines, kmode, mouse, todo>>
      /\ t \in Threads
  BY <1>0 DEF ReadData, Threads
<1>2. KbTypes /\ ~misread /\ \A u \in Threads : at[u] = "idle" /\ todo[u] = <<>>
  BY <1>1 DEF KbGood, Enters, Outside
<1>3. \A p \in Queues8042 : kcount[p] = Len(want[p]) /\ RingOK(p)
  BY <1>2 DEF KbGood, CountOK
<1>4. q \in Queues8042 /\ kcount[q] # 0
  BY <1>0, <1>1 DEF ReadFrom8042, Queues8042
<1>5. Len(want[q]) > 0 /\ want[q] # <<>> /\ Len(want[q]) \in Nat
  BY <1>2, <1>3, <1>4 DEF KbTypes
<1>6. want' = [want EXCEPT ![q] = Tail(@)]
  BY <1>1, <1>5
<1>7. /\ RingOK(q)' /\ Len(want'[q]) = Len(want[q]) - 1
      /\ kq[q][kread[q]] = Head(want[q])
      /\ kread' \in [Queues8042 -> 0 .. QueueSize - 1]
      /\ want' \in [Queues8042 -> Seq(Int)]
      /\ \A p \in Queues8042 \ {q} : kread'[p] = kread[p] /\ want'[p] = want[p]
  <2>1. RingOK(q) /\ kq' = kq /\ kwrite' = kwrite
    BY <1>1, <1>3, <1>4
  <2> QED BY <1>1, <1>2, <1>4, <1>5, <1>6, <2>1, ByteTaken
<1>8. /\ \A u \in Threads : at'[u] = IF u = t THEN "count" ELSE "idle"
      /\ reg'[t] = <<q, kcount[q] - 1>> /\ reg' = [u \in Threads |-> reg'[u]]
      /\ at' \in [Threads -> {"idle", "count", "level", "line"}]
  BY <1>1, <1>2 DEF KbTypes
<1>9. KbTypes'
  BY <1>1, <1>2, <1>7, <1>8 DEF KbTypes
<1>10. OneInside'
  BY <1>1, <1>2, <1>8 DEF OneInside, Outside
<1>11. ASSUME NEW p \in Queues8042 PROVE RingOK(p)' /\ CountOK(p)'
  <2>1. CASE p = q
    <3>1. t \in Threads /\ at'[t] = "count" /\ reg'[t][1] = p
      BY <1>1, <1>8, <2>1
    <3> QED BY <1>7, <2>1, <3>1 DEF CountOK
  <2>2. CASE p # q
    <3>1. RingOK(p)'
      <4>1. /\ kq'[p] = kq[p] /\ kwrite'[p] = kwrite[p] /\ want'[p] = want[p]
            /\ kread'[p] = kread[p] /\ RingOK(p)
        BY <1>1, <1>3, <1>7, <2>2
      <4> QED BY <4>1 DEF RingOK, SlotAt
    <3>2. kcount'[p] = Len(want'[p])
      BY <1>1, <1>3, <1>7, <2>2
    <3> QED BY <3>1, <3>2 DEF CountOK
  <2> QED BY <2>1, <2>2
<1>12. \A u \in Threads : RegOK(u)'
  BY <1>3, <1>4, <1>7, <1>8 DEF RegOK
<1>13. SignalsOK'
  BY <1>1, <1>8 DEF SignalsOK, Settled
<1>14. ~misread'
  BY <1>1, <1>2, <1>5, <1>7
<1> QED BY <1>9, <1>10, <1>11, <1>12, <1>13, <1>14 DEF KbGood

\* Every step of the keyboard, or a stutter, keeps KbIInv.
LEMMA KbKept == ASSUME KbIInv, [KbNext]_kbVars PROVE KbIInv'
<1> SUFFICES ASSUME ~overlap' PROVE KbGood'
  BY DEF KbIInv
<1>1. CASE UNCHANGED kbVars
  <2>1. KbGood
    BY <1>1 DEF KbIInv, kbVars, kbHistory
  <2>2. UNCHANGED <<todo, at, reg, want, kq, kcount, kread, kwrite, kmode, mouse, misread, strOut, lines>>
    BY <1>1 DEF kbVars, queueState, threadState, kbHistory
  <2>3. KbTypes' /\ OneInside' /\ TopQueue' = TopQueue
    BY <2>1, <2>2 DEF KbGood, KbTypes, OneInside, Outside, TopQueue
  <2>4. \A q \in Queues8042 : RingOK(q)' /\ CountOK(q)'
    <3>1. \A q \in Queues8042 : RingOK(q)'
      BY <2>1, <2>2, RingsSame
    <3> QED BY <2>1, <2>2, <3>1 DEF KbGood, CountOK
  <2>5. (\A t \in Threads : RegOK(t)') /\ SignalsOK'
    BY <2>1, <2>2, <2>3 DEF KbGood, RegOK, SignalsOK, Settled
  <2> QED BY <2>1, <2>2, <2>3, <2>4, <2>5 DEF KbGood
<1>2. ASSUME NEW key \in Keys, SdlKey(key) \/ GtkKey(key) \/ VncInput(key) PROVE KbGood'
  <2>1. PICK bytes \in Seq(ToQueue) : Input(bytes)
    <3>1. CASE SdlKey(key)
      BY <3>1, KeyBytes DEF SdlKey
    <3>2. CASE GtkKey(key)
      BY <3>2, KeyBytes DEF GtkKey, GtkPress, GtkKeymap, SdlKeymap
    <3>3. CASE VncInput(key)
      BY <3>3, VncBytes DEF VncInput
    <3> QED BY <1>2, <3>1, <3>2, <3>3
  <2>2. KbGood
    BY <2>1 DEF Input, Enters, KbIInv
  <2> QED BY <2>1, <2>2, InputKeeps
<1>3. ASSUME NEW t \in Threads, Store(t) \/ StoreCount(t) \/ UpdateIrq(t) \/ SetLines(t) PROVE KbGood'
  <2>1. KbGood
    BY <1>3 DEF Store, StoreCount, UpdateIrq, SetLines, kbHistory, KbIInv
  <2> QED BY <1>3, <2>1, StoreKeeps, StoreCountKeeps, UpdateIrqKeeps, SetLinesKeeps
<1>4. CASE ReadData
  <2>1. KbGood
    BY <1>4 DEF ReadData, Enters, KbIInv
  <2> QED BY <1>4, <2>1, ReadDataKeeps
<1>5. ASSUME NEW cmd, WriteCommand(cmd) PROVE KbGood'
  <2>1. KbGood
    BY <1>5 DEF WriteCommand, Enters, KbIInv
  <2> QED BY <1>5, <2>1, WriteCommandKeeps
<1>6. ASSUME NEW val \in DataBytes, WriteData(val) PROVE KbGood'
  <2>1. KbGood
    BY <1>6 DEF WriteData, Enters, KbIInv
  <2> QED BY <1>6, <2>1, WriteDataKeeps
<1> QED BY <1>1, <1>2, <1>3, <1>4, <1>5, <1>6 DEF KbNext

\* KbIInv holds after the controller's reset.
LEMMA KbStarts == KbInit => KbIInv
<1> SUFFICES ASSUME KbInit PROVE KbGood
  BY DEF KbIInv
<1>1. KbTypes
  BY KbAssumption DEF KbInit, KbTypes, MouseReset, ToQueue
<1>2. OneInside
  BY DEF KbInit, OneInside, Outside
<1>3. \A q \in Queues8042 : RingOK(q) /\ CountOK(q)
  BY KbAssumption DEF KbInit, RingOK, CountOK, SlotAt
<1>4. (\A t \in Threads : RegOK(t)) /\ SignalsOK
  BY DEF KbInit, RegOK, SignalsOK, TopQueue, Queues8042
<1> QED BY <1>1, <1>2, <1>3, <1>4 DEF KbInit, KbGood

-----------------------------------------------------------------------------
(* The serial ports                                                        *)

\* A port, as a record.
PortRecord ==
  [ier : SUBSET IerBits, lcr : SUBSET LcrBits, fcr : SUBSET FcrBits, loop : BOOLEAN,
   dr : BOOLEAN, bi : BOOLEAN, temt : BOOLEAN, thre : BOOLEAN, txcnt : Nat,
   rxbuf : Seq(Chars \cup {Other}), rxdone : Nat, iir : SUBSET IerBits]

\* What every part of a step leaves: the line status tells the truth about the
\* FIFO, and the transmitter is idle.
FifoTrue(d) ==
  /\ d \in PortRecord
  /\ Len(d.rxbuf) <= FifoLen /\ d.rxdone <= Len(d.rxbuf)
  /\ d.dr <=> d.rxdone < Len(d.rxbuf)
  /\ d.txcnt = 0 /\ d.temt /\ d.thre

SerialIInv ==
  /\ port \in [Ports -> PortRecord] /\ line \in [{Irq[p] : p \in Ports} -> BOOLEAN]
  /\ \A p \in Ports : FifoTrue(port[p]) /\ port[p].iir = Causes(port[p])
  /\ input \in [Ports -> Seq(Chars)] /\ sysrq \in BOOLEAN /\ disturbed \subseteq Ports
  /\ LineFollows

\* serial8250_update_irq, on a port whose status is true.
LEMMA UpdatedTrue ==
  ASSUME NEW d, FifoTrue(d)
  PROVE  FifoTrue(Updated(d)) /\ Updated(d).iir = Causes(Updated(d))
<1>1. FifoTrue(ClearRx(d))
  <2>1. CASE "2" \in d.lcr
    <3> DEFINE e == ClearRx(d)
    <3>1. d \in PortRecord /\ <<>> \in Seq(Chars \cup {Other}) /\ d.lcr \ {"2"} \in SUBSET LcrBits
      BY DEF FifoTrue, PortRecord
    <3>2. e = [d EXCEPT !.lcr = d.lcr \ {"2"}, !.rxbuf = <<>>, !.rxdone = 0, !.dr = FALSE]
      BY <2>1, <3>1 DEF ClearRx, PortRecord
    <3> HIDE DEF e
    <3>3. e \in PortRecord /\ e.rxbuf = <<>> /\ e.rxdone = 0 /\ e.dr = FALSE
      BY <3>1, <3>2 DEF PortRecord
    <3>4. e.txcnt = d.txcnt /\ e.temt = d.temt /\ e.thre = d.thre
      BY <3>1, <3>2 DEF PortRecord
    <3>5. Len(e.rxbuf) = 0
      BY <3>3
    <3>6. FifoTrue(e)
      BY <3>3, <3>4, <3>5, SerialAssumption DEF FifoTrue
    <3> QED BY <3>6 DEF e
  <2>2. CASE "2" \notin d.lcr
    BY <2>2 DEF ClearRx
  <2> QED BY <2>1, <2>2
<1>2. \A e : FifoTrue(e) => FifoTrue(ClearTx(e))
  <2> SUFFICES ASSUME NEW e, FifoTrue(e) PROVE FifoTrue(ClearTx(e))
    OBVIOUS
  <2> QED BY DEF ClearTx, FifoTrue, PortRecord
<1>3. \A e : FifoTrue(e) => FifoTrue(SetIrq(e)) /\ SetIrq(e).iir = Causes(SetIrq(e))
  <2> SUFFICES ASSUME NEW e, FifoTrue(e)
               PROVE  FifoTrue(SetIrq(e)) /\ SetIrq(e).iir = Causes(SetIrq(e))
    OBVIOUS
  <2>1. Causes(e) \subseteq IerBits
    BY DEF Causes, FifoTrue, PortRecord
  <2>2. FifoTrue(SetIrq(e)) /\ SetIrq(e).iir = Causes(e)
    BY <2>1 DEF SetIrq, FifoTrue, PortRecord
  <2>3. /\ SetIrq(e).ier = e.ier /\ SetIrq(e).dr = e.dr /\ SetIrq(e).temt = e.temt
    BY DEF SetIrq, FifoTrue, PortRecord
  <2>4. Causes(SetIrq(e)) = Causes(e)
    BY <2>3 DEF Causes
  <2> QED BY <2>2, <2>4
<1>4. \A e : FifoTrue(e) /\ e.iir = Causes(e) => FifoTrue(Settle(e)) /\ Settle(e).iir = Causes(Settle(e))
  <2> SUFFICES ASSUME NEW e, FifoTrue(e), e.iir = Causes(e)
               PROVE  FifoTrue(Settle(e)) /\ Settle(e).iir = Causes(Settle(e))
    OBVIOUS
  <2>1. FifoTrue(FlushTx(e))
    BY DEF FlushTx, FifoTrue, PortRecord
  <2>2. /\ FlushTx(e).ier = e.ier /\ FlushTx(e).dr = e.dr /\ (FlushTx(e).temt <=> e.temt)
        /\ FlushTx(e).iir = e.iir
    BY DEF FlushTx, FifoTrue, PortRecord
  <2>3. Causes(FlushTx(e)) = Causes(e)
    BY <2>2 DEF Causes
  <2> QED BY <2>1, <2>2, <2>3 DEF Settle
<1> QED BY <1>1, <1>2, <1>3, <1>4 DEF Updated

\* A step that leaves the status of its port true, and ends with the update.
LEMMA UpdateKeeps ==
  ASSUME SerialIInv, NEW p \in Ports, NEW d, FifoTrue(d), Update(p, d),
         input' \in [Ports -> Seq(Chars)], sysrq' \in BOOLEAN, disturbed' \subseteq Ports
  PROVE  SerialIInv'
<1> DEFINE u == Updated(d)
<1>1. FifoTrue(u) /\ u.iir = Causes(u) /\ u \in PortRecord
  BY UpdatedTrue DEF FifoTrue
<1>2. /\ port' = [port EXCEPT ![p] = u]
      /\ line' = [line EXCEPT ![Irq[p]] = Level(line[Irq[p]], port[p].iir, u.iir)]
  BY DEF Update
<1> HIDE DEF u
<1>3. /\ port' \in [Ports -> PortRecord] /\ port'[p] = u
      /\ \A q \in Ports \ {p} : port'[q] = port[q]
  BY <1>1, <1>2 DEF SerialIInv
<1>4. Irq[p] \in {Irq[q] : q \in Ports} /\ line[Irq[p]] \in BOOLEAN
  BY DEF SerialIInv
<1>5. Level(line[Irq[p]], port[p].iir, u.iir) \in BOOLEAN
  BY <1>4 DEF Level
<1>6. /\ line' \in [{Irq[q] : q \in Ports} -> BOOLEAN]
      /\ line'[Irq[p]] = Level(line[Irq[p]], port[p].iir, u.iir)
      /\ \A i \in {Irq[q] : q \in Ports} : i # Irq[p] => line'[i] = line[i]
  BY <1>2, <1>4, <1>5 DEF SerialIInv
<1>7. \A q \in Ports : FifoTrue(port'[q]) /\ port'[q].iir = Causes(port'[q])
  BY <1>1, <1>3 DEF SerialIInv
<1>8. ASSUME NEW q \in Ports, Alone(q) PROVE line'[Irq[q]] <=> Causes(port'[q]) # {}
  <2>1. line[Irq[q]] <=> Causes(port[q]) # {}
    BY <1>8 DEF SerialIInv, LineFollows
  <2>2. CASE q = p
    <3>1. port[p].iir = Causes(port[p]) /\ u.iir = Causes(u)
      BY <1>1 DEF SerialIInv
    <3> QED BY <1>3, <1>4, <1>6, <2>1, <2>2, <3>1 DEF Level
  <2>3. CASE q # p
    <3>1. Irq[q] # Irq[p]
      BY <1>8, <2>3 DEF Alone
    <3> QED BY <1>3, <1>6, <2>1, <2>3, <3>1
  <2> QED BY <2>2, <2>3
<1>9. LineFollows'
  BY <1>8 DEF LineFollows, Alone
<1> QED BY <1>3, <1>6, <1>7, <1>9 DEF SerialIInv

\* The fields that no action of a port but the one at hand writes.
LEMMA PortFields ==
  ASSUME SerialIInv, NEW p \in Ports
  PROVE  /\ FifoTrue(port[p]) /\ port[p] \in PortRecord
         /\ port[p].rxbuf \in Seq(Chars \cup {Other}) /\ Len(port[p].rxbuf) \in Nat
         /\ port[p].rxdone \in Nat
         /\ input \in [Ports -> Seq(Chars)] /\ sysrq \in BOOLEAN /\ disturbed \subseteq Ports
         /\ disturbed \cup {p} \subseteq Ports
BY DEF SerialIInv, FifoTrue, PortRecord

\* A guest access to a port's registers, with the interrupt update it ends
\* in, keeps SerialIInv.
LEMMA GuestKeeps ==
  ASSUME SerialIInv, NEW p \in Ports, Guest(p)
  PROVE  SerialIInv'
<1> DEFINE d == port[p]
<1>0. /\ FifoTrue(d) /\ d \in PortRecord
      /\ d.rxbuf \in Seq(Chars \cup {Other}) /\ Len(d.rxbuf) \in Nat
      /\ d.rxdone \in Nat
      /\ input \in [Ports -> Seq(Chars)] /\ sysrq \in BOOLEAN /\ disturbed \subseteq Ports
      /\ disturbed \cup {p} \subseteq Ports
  BY PortFields
<1>1. PICK e : FifoTrue(e) /\ Update(p, e)
  <2>1. CASE WriteTx(p)
    <3>1. Update(p, Transmit(d))
      BY <2>1 DEF WriteTx
    <3>2. d.txcnt < FifoLen
      BY <1>0, SerialAssumption DEF FifoTrue
    <3> DEFINE c == d.txcnt + 1
               b == d.thre /\ d.txcnt + 1 # FifoLen \div 2
               x == [d EXCEPT !.txcnt = c, !.temt = FALSE, !.thre = b]
    <3>3. Transmit(d) = FlushTx(x)
      BY <1>0, <3>2 DEF Transmit, PortRecord
    <3>6. c \in Nat /\ b \in BOOLEAN
      BY <1>0 DEF PortRecord
    <3> HIDE DEF c, b
    <3>4. /\ x \in PortRecord /\ x.rxbuf = d.rxbuf /\ x.rxdone = d.rxdone /\ x.dr = d.dr
      BY <1>0, <3>6 DEF PortRecord
    <3> HIDE DEF x
    <3>5. FifoTrue(FlushTx(x))
      BY <1>0, <3>4 DEF FlushTx, FifoTrue, PortRecord
    <3> QED BY <3>1, <3>3, <3>5
  <2>2. CASE WriteLoop(p)
    <3>1. CASE Len(d.rxbuf) < FifoLen /\ Update(p, [d EXCEPT !.rxbuf = Append(@, Other), !.dr = TRUE])
      <4> DEFINE s == Append(d.rxbuf, Other)
                 x == [d EXCEPT !.rxbuf = s, !.dr = TRUE]
      <4>1. s \in Seq(Chars \cup {Other}) /\ Len(s) = Len(d.rxbuf) + 1
        BY <1>0
      <4>2. Update(p, x)
        BY <3>1
      <4> HIDE DEF s
      <4>3. /\ x \in PortRecord /\ x.rxbuf = s /\ x.dr = TRUE /\ x.rxdone = d.rxdone
            /\ x.txcnt = d.txcnt /\ x.temt = d.temt /\ x.thre = d.thre
        BY <1>0, <4>1 DEF PortRecord
      <4> HIDE DEF x
      <4>4. FifoTrue(x)
        BY <1>0, <3>1, <4>1, <4>3, SerialAssumption DEF FifoTrue
      <4> QED BY <4>2, <4>4
    <3> QED BY <1>0, <2>2, <3>1 DEF WriteLoop
  <2>3. CASE \E bits \in SUBSET IerBits : WriteIer(p, bits)
    <3>1. PICK bits \in SUBSET IerBits : Update(p, [d EXCEPT !.ier = bits])
      BY <2>3 DEF WriteIer
    <3>2. FifoTrue([d EXCEPT !.ier = bits])
      BY <1>0 DEF FifoTrue, PortRecord
    <3> QED BY <3>1, <3>2
  <2>4. CASE \E bits \in SUBSET FcrBits : WriteFcr(p, bits)
    <3>1. PICK bits \in SUBSET FcrBits : Update(p, [d EXCEPT !.fcr = bits])
      BY <2>4 DEF WriteFcr
    <3>2. FifoTrue([d EXCEPT !.fcr = bits])
      BY <1>0 DEF FifoTrue, PortRecord
    <3> QED BY <3>1, <3>2
  <2>5. CASE \E bits \in SUBSET LcrBits : WriteLcr(p, bits)
    <3>1. PICK bits \in SUBSET LcrBits : Update(p, [d EXCEPT !.lcr = bits])
      BY <2>5 DEF WriteLcr
    <3>2. FifoTrue([d EXCEPT !.lcr = bits])
      BY <1>0 DEF FifoTrue, PortRecord
    <3> QED BY <3>1, <3>2
  <2>6. CASE \E loop \in BOOLEAN : WriteMcr(p, loop)
    <3>1. PICK loop \in BOOLEAN : Update(p, [d EXCEPT !.loop = loop])
      BY <2>6 DEF WriteMcr
    <3>2. FifoTrue([d EXCEPT !.loop = loop])
      BY <1>0 DEF FifoTrue, PortRecord
    <3> QED BY <3>1, <3>2
  <2>7. CASE ReadRx(p)
    <3>1. CASE Update(p, d)
      BY <1>0, <3>1
    <3>2. CASE Update(p, [d EXCEPT !.bi = FALSE])
      <4>1. FifoTrue([d EXCEPT !.bi = FALSE])
        BY <1>0 DEF FifoTrue, PortRecord
      <4> QED BY <3>2, <4>1
    <3>3. CASE d.rxdone < Len(d.rxbuf) /\ Update(p, ReadNext(d))
      <4>1. CASE d.rxdone + 1 = Len(d.rxbuf)
        <5> DEFINE x == [d EXCEPT !.rxbuf = <<>>, !.rxdone = 0, !.dr = FALSE]
        <5>1. ReadNext(d) = x
          BY <4>1 DEF ReadNext
        <5>2. <<>> \in Seq(Chars \cup {Other}) /\ Len(<<>>) = 0
          OBVIOUS
        <5>3. /\ x \in PortRecord /\ x.rxbuf = <<>> /\ x.dr = FALSE /\ x.rxdone = 0
              /\ x.txcnt = d.txcnt /\ x.temt = d.temt /\ x.thre = d.thre
          BY <1>0, <5>2 DEF PortRecord
        <5> HIDE DEF x
        <5>4. FifoTrue(x)
          BY <1>0, <5>2, <5>3, SerialAssumption DEF FifoTrue
        <5> QED BY <3>3, <5>1, <5>4
      <4>2. CASE d.rxdone + 1 # Len(d.rxbuf)
        <5> DEFINE c == d.rxdone + 1
                   x == [d EXCEPT !.rxdone = c]
        <5>1. ReadNext(d) = x
          BY <1>0, <4>2 DEF ReadNext, PortRecord
        <5>4. c \in Nat /\ c <= Len(d.rxbuf) /\ c < Len(d.rxbuf)
          BY <1>0, <3>3, <4>2
        <5> HIDE DEF c
        <5>2. /\ x \in PortRecord /\ x.rxbuf = d.rxbuf /\ x.dr = d.dr /\ x.rxdone = c
              /\ x.txcnt = d.txcnt /\ x.temt = d.temt /\ x.thre = d.thre
          BY <1>0, <5>4 DEF PortRecord
        <5> HIDE DEF x
        <5>3. FifoTrue(x)
          BY <1>0, <3>3, <5>2, <5>4 DEF FifoTrue
        <5> QED BY <3>3, <5>1, <5>3
      <4> QED BY <4>1, <4>2
    <3> QED BY <2>7, <3>1, <3>2, <3>3 DEF ReadRx
  <2>8. CASE OtherAccess(p)
    BY <1>0, <2>8 DEF OtherAccess
  <2> QED BY <2>1, <2>2, <2>3, <2>4, <2>5, <2>6, <2>7, <2>8 DEF Guest
<1>2. input' = input /\ sysrq' = sysrq
  BY DEF Guest, WriteTx, WriteLoop, WriteIer, WriteFcr, WriteLcr, WriteMcr, ReadRx, OtherAccess
<1>3. disturbed' = disturbed \/ disturbed' = disturbed \cup {p}
  BY DEF Guest, WriteTx, WriteLoop, WriteIer, WriteFcr, WriteLcr, WriteMcr, ReadRx, OtherAccess
<1> HIDE DEF d
<1> QED BY <1>0, <1>1, <1>2, <1>3, UpdateKeeps

\* The loop over term_getc ends: with an escape that is kept, with a full FIFO, or
\* with the input.
LEMMA TakenFits ==
  ASSUME NEW s \in Seq(Chars)
  PROVE  /\ Taken(s) \in 0 .. Len(s) /\ Taken(s) <= FifoLen
         /\ Taken(s) < Len(s) /\ Taken(s) < FifoLen => Keeps(s, Taken(s) + 1)
<1> DEFINE Stops(n) == n < Len(s) /\ n < FifoLen => Keeps(s, n + 1)
           S == {n \in Nat : Stops(n)}
<1>1. Len(s) \in Nat /\ FifoLen \in Nat
  BY SerialAssumption
<1>2. Len(s) \in S
  BY <1>1
<1>3. PICK m \in S : \A k \in Nat : k < m => k \notin S
  <2>1. S \subseteq Nat
    OBVIOUS
  <2>2. PICK m \in S : \A k \in S : <<k, m>> \notin OpToRel(<, Nat)
    <3> HIDE DEF S
    <3> QED BY <1>2, <2>1, NatLessThanWellFounded, WFMin, Zenon
  <2>3. \A k \in S : ~(k < m)
    BY <2>1, <2>2, Zenon DEF OpToRel
  <2> QED BY <2>1, <2>3
<1>4. m <= Len(s) /\ m <= FifoLen
  <2>1. Len(s) \in Nat => ~(Len(s) < m)
    BY <1>2, <1>3
  <2>2. FifoLen \in S
    BY <1>1
  <2>3. ~(FifoLen < m)
    BY <1>1, <1>3, <2>2
  <2> QED BY <1>1, <1>3, <2>1, <2>3
<1>5. \A i \in 1 .. m : ~Keeps(s, i)
  <2> SUFFICES ASSUME NEW i \in 1 .. m PROVE ~Keeps(s, i)
    OBVIOUS
  <2>1. i - 1 \in Nat /\ i - 1 < m /\ (i - 1) + 1 = i
    BY <1>3
  <2>2. ~Stops(i - 1)
    BY <1>3, <2>1
  <2> QED BY <2>1, <2>2
<1>6. m \in 0 .. Len(s) /\ Stops(m)
  BY <1>1, <1>3, <1>4
<1>7. \E n \in 0 .. Len(s) :
        /\ n <= FifoLen
        /\ \A i \in 1 .. n : ~Keeps(s, i)
        /\ n < Len(s) /\ n < FifoLen => Keeps(s, n + 1)
  BY <1>4, <1>5, <1>6
<1> QED BY <1>7 DEF Taken

\* A pass of the terminal thread over a port keeps SerialIInv.
LEMMA ReceiveKeeps ==
  ASSUME SerialIInv, NEW p \in Ports, Receive(p)
  PROVE  SerialIInv'
<1> DEFINE d == port[p]
<1>0. /\ FifoTrue(d) /\ d \in PortRecord
      /\ d.rxbuf \in Seq(Chars \cup {Other}) /\ Len(d.rxbuf) \in Nat
      /\ d.rxdone \in Nat
      /\ input \in [Ports -> Seq(Chars)] /\ sysrq \in BOOLEAN /\ disturbed \subseteq Ports
      /\ disturbed \cup {p} \subseteq Ports
  BY PortFields
<1>1. CASE ReceiveSysrq(p)
  <2> DEFINE s == Append(d.rxbuf, Other)
             x == [d EXCEPT !.dr = TRUE, !.bi = TRUE, !.rxbuf = s]
  <2>1. Update(p, x) /\ d.rxbuf = <<>>
    BY <1>1 DEF ReceiveSysrq, Busy
  <2>2. s \in Seq(Chars \cup {Other}) /\ Len(s) = 1 /\ d.rxdone = 0
    BY <1>0, <2>1 DEF FifoTrue
  <2> HIDE DEF s
  <2>3. /\ x \in PortRecord /\ x.rxbuf = s /\ x.dr = TRUE /\ x.rxdone = d.rxdone
        /\ x.txcnt = d.txcnt /\ x.temt = d.temt /\ x.thre = d.thre
    BY <1>0, <2>2 DEF PortRecord
  <2> HIDE DEF x
  <2>6. Len(x.rxbuf) <= FifoLen /\ x.rxdone <= Len(x.rxbuf) /\ (x.dr <=> x.rxdone < Len(x.rxbuf))
    <3>1. Len(x.rxbuf) = 1 /\ x.rxdone = 0
      BY <2>2, <2>3
    <3>2. Len(x.rxbuf) <= FifoLen /\ x.rxdone <= Len(x.rxbuf) /\ x.rxdone < Len(x.rxbuf)
      BY <3>1, SerialAssumption
    <3>3. x.dr = TRUE
      BY <2>3
    <3> QED BY <3>2, <3>3, Zenon
  <2>4. FifoTrue(x)
    BY <1>0, <2>3, <2>6 DEF FifoTrue
  <2>5. input' = input /\ sysrq' \in BOOLEAN /\ disturbed' \subseteq Ports
    BY <1>0, <1>1 DEF ReceiveSysrq
  <2> QED BY <1>0, <2>1, <2>4, <2>5, UpdateKeeps
<1>2. CASE ReceiveChars(p)
  <2>1. PICK n : n = Taken(input[p])
    OBVIOUS
  <2>2. input[p] \in Seq(Chars) /\ Len(input[p]) \in Nat
    BY <1>0
  <2>3. n \in Nat /\ n <= Len(input[p]) /\ n <= FifoLen
    BY <2>1, <2>2, TakenFits
  <2> DEFINE s == d.rxbuf \o SubSeq(input[p], 1, n)
             x == [d EXCEPT !.rxbuf = s, !.dr = d.dr \/ n > 0]
  <2>4. Update(p, x) /\ d.rxbuf = <<>>
    BY <1>0, <1>2, <2>1 DEF ReceiveChars, Busy, PortRecord
  <2>5. SubSeq(input[p], 1, n) \in Seq(Chars) /\ Len(SubSeq(input[p], 1, n)) = n
    BY <2>2, <2>3
  <2>6. s \in Seq(Chars \cup {Other}) /\ Len(s) = n /\ d.rxdone = 0
    BY <1>0, <2>3, <2>4, <2>5 DEF FifoTrue
  <2> HIDE DEF s
  <2>7. /\ x \in PortRecord /\ x.rxbuf = s /\ x.rxdone = d.rxdone
        /\ x.dr = (d.dr \/ n > 0)
        /\ x.txcnt = d.txcnt /\ x.temt = d.temt /\ x.thre = d.thre
    BY <1>0, <2>3, <2>6 DEF PortRecord
  <2> HIDE DEF x
  <2>12. d.dr = FALSE
    BY <1>2, <1>0 DEF ReceiveChars, Busy, PortRecord
  <2>13. Len(x.rxbuf) = n /\ x.rxdone = 0 /\ x.dr = (n > 0)
    BY <2>6, <2>7, <2>12
  <2>14. Len(x.rxbuf) <= FifoLen /\ x.rxdone <= Len(x.rxbuf) /\ (x.dr <=> x.rxdone < Len(x.rxbuf))
    <3>1. Len(x.rxbuf) <= FifoLen /\ x.rxdone <= Len(x.rxbuf)
      BY <2>3, <2>13, SerialAssumption
    <3>2. CASE n > 0
      <4>1. x.rxdone < Len(x.rxbuf)
        BY <2>3, <2>13, <3>2
      <4>2. x.dr = TRUE
        BY <2>13, <3>2, Zenon
      <4> QED BY <3>1, <4>1, <4>2, Zenon
    <3>3. CASE ~(n > 0)
      <4>1. ~(x.rxdone < Len(x.rxbuf))
        BY <2>3, <2>13, <3>3
      <4>2. ~x.dr
        BY <2>13, <3>3, Zenon
      <4> QED BY <3>1, <4>1, <4>2, Zenon
    <3> QED BY <3>2, <3>3
  <2>8. FifoTrue(x)
    BY <1>0, <2>7, <2>14 DEF FifoTrue
  <2>9. Consumed(input[p]) \in Nat
    BY <2>1, <2>3 DEF Consumed
  <2>10. SubSeq(input[p], Consumed(input[p]) + 1, Len(input[p])) \in Seq(Chars)
    BY <2>2, <2>9
  <2>11. input' \in [Ports -> Seq(Chars)] /\ sysrq' = sysrq /\ disturbed' = disturbed
    BY <1>0, <1>2, <2>10 DEF ReceiveChars
  <2> QED BY <1>0, <2>4, <2>8, <2>11, UpdateKeeps
<1>3. CASE ReceiveNothing(p)
  <2>1. Update(p, d) /\ input' = input /\ sysrq' = sysrq /\ disturbed' = disturbed
    BY <1>3 DEF ReceiveNothing
  <2> QED BY <1>0, <2>1, UpdateKeeps
<1> QED BY <1>1, <1>2, <1>3 DEF Receive

\* Every step of the ports, or a stutter, keeps SerialIInv.
LEMMA SerialKept == SerialIInv /\ [Next]_vars => SerialIInv'
<1> SUFFICES ASSUME SerialIInv, [Next]_vars PROVE SerialIInv'
  OBVIOUS
<1>1. CASE UNCHANGED vars
  BY <1>1 DEF vars, SerialIInv, LineFollows, Alone
<1>2. ASSUME NEW p \in Ports, Guest(p) PROVE SerialIInv'
  BY <1>2, GuestKeeps
<1>3. ASSUME NEW p \in Ports, Receive(p) PROVE SerialIInv'
  BY <1>3, ReceiveKeeps
<1>4. ASSUME NEW p \in Ports, NEW c \in Chars, Type(p, c) PROVE SerialIInv'
  <2>1. /\ port' = port /\ line' = line /\ sysrq' = sysrq /\ disturbed' = disturbed
        /\ input' = [input EXCEPT ![p] = Append(@, c)]
    BY <1>4 DEF Type
  <2>2. input' \in [Ports -> Seq(Chars)]
    BY <2>1 DEF SerialIInv
  <2> QED BY <2>1, <2>2 DEF SerialIInv, LineFollows, Alone
<1>5. CASE InjectSysrq
  BY <1>5 DEF InjectSysrq, SerialIInv, LineFollows, Alone
<1> QED BY <1>1, <1>2, <1>3, <1>4, <1>5 DEF Next

\* SerialIInv holds of ports nobody has touched.
LEMMA SerialStarts == Init => SerialIInv
<1> SUFFICES ASSUME Init PROVE SerialIInv
  OBVIOUS
<1>1. Reset \in PortRecord /\ Causes(Reset) = {} /\ Reset.iir = {}
  BY DEF Reset, PortRecord, Causes
<1>2. FifoTrue(Reset)
  <2>1. Reset.rxbuf = <<>> /\ Reset.rxdone = 0 /\ Reset.dr = FALSE
    BY DEF Reset
  <2>2. Reset.txcnt = 0 /\ Reset.temt /\ Reset.thre
    BY DEF Reset
  <2> HIDE DEF Reset
  <2>3. Len(Reset.rxbuf) = 0
    BY <2>1
  <2> QED BY <1>1, <2>1, <2>2, <2>3, SerialAssumption DEF FifoTrue
<1>3. port \in [Ports -> PortRecord] /\ \A p \in Ports : port[p] = Reset
  BY <1>1 DEF Init
<1>4. input \in [Ports -> Seq(Chars)]
  BY DEF Init
<1>5. LineFollows
  BY <1>1, <1>3 DEF Init, LineFollows
<1> HIDE DEF Reset
<1> QED BY <1>1, <1>2, <1>3, <1>4, <1>5 DEF Init, SerialIInv

\* SerialIInv implies what the run checks.
LEMMA SerialGives == SerialIInv => SerialInv
<1> SUFFICES ASSUME SerialIInv PROVE SerialInv
  OBVIOUS
<1>1. \A p \in Ports : /\ FifoTrue(port[p]) /\ port[p] \in PortRecord
                       /\ port[p].iir = Causes(port[p])
  BY DEF SerialIInv, FifoTrue
<1>2. TypeOK
  <2>1. \A p \in Ports : port[p].txcnt \in 0 .. FifoLen
    <3>1. \A p \in Ports : port[p].txcnt = 0
      BY <1>1 DEF FifoTrue
    <3>2. 0 \in 0 .. FifoLen
      BY SerialAssumption
    <3> QED BY <3>1, <3>2
  <2>2. \A p \in Ports :
          /\ port[p].ier \subseteq IerBits /\ port[p].lcr \subseteq LcrBits
          /\ port[p].fcr \subseteq FcrBits /\ port[p].iir \subseteq IerBits
    BY <1>1 DEF PortRecord
  <2> QED BY <1>1, <2>1, <2>2 DEF TypeOK, FifoTrue, SerialIInv
<1>3. ASSUME NEW p \in Ports PROVE port[p].dr <=> Unread(p) # <<>>
  <2>1. PICK s, k : s = port[p].rxbuf /\ k = port[p].rxdone
    OBVIOUS
  <2>2. s \in Seq(Chars \cup {Other}) /\ k \in Nat /\ k <= Len(s) /\ Len(s) \in Nat
    BY <1>1, <2>1 DEF FifoTrue, PortRecord
  <2>3. Len(SubSeq(s, k + 1, Len(s))) = Len(s) - k
    BY <2>2
  <2>4. SubSeq(s, k + 1, Len(s)) \in Seq(Chars \cup {Other})
    BY <2>2
  <2>7. \A z \in Seq(Chars \cup {Other}) : z # <<>> <=> Len(z) # 0
    OBVIOUS
  <2>8. SubSeq(s, k + 1, Len(s)) # <<>> <=> Len(s) - k # 0
    BY <2>3, <2>4, <2>7
  <2>5. SubSeq(s, k + 1, Len(s)) # <<>> <=> k < Len(s)
    BY <2>2, <2>8
  <2>6. port[p].dr <=> k < Len(s)
    BY <1>1, <2>1 DEF FifoTrue
  <2> QED BY <2>1, <2>5, <2>6 DEF Unread
<1>4. PortInv
  BY <1>1, <1>3 DEF PortInv, FifoTrue
<1> QED BY <1>2, <1>4 DEF SerialInv, SerialIInv

-----------------------------------------------------------------------------
(* The input of the serial ports                                           *)

\* A prefix of what Plain computes, character by character.
IsPlain(f, s, k) ==
  /\ f = [i \in 0 .. k |-> f[i]] /\ f[0] = <<>>
  /\ \A i \in 1 .. k : f[i] = Shown(f[i - 1], s[i])

\* The recursion that defines Plain has a solution on every finite prefix.
LEMMA PlainsExist == ASSUME NEW s, NEW k \in Nat PROVE \E f : IsPlain(f, s, k)
<1> DEFINE Bad == {m \in Nat : ~(\E f : IsPlain(f, s, m))}
<1>1. SUFFICES ASSUME Bad # {} PROVE FALSE
  OBVIOUS
<1>2. PICK m \in Bad : \A n \in Bad : m <= n
  <2>1. Bad \in SUBSET Nat
    OBVIOUS
  <2> HIDE DEF Bad
  <2> QED BY <1>1, <2>1, LeastNat
<1>3. m # 0
  <2>1. SUFFICES ASSUME m = 0 PROVE FALSE
    OBVIOUS
  <2> DEFINE g == [i \in 0 .. 0 |-> <<>>]
  <2>2. IsPlain(g, s, 0)
    BY DEF IsPlain
  <2> QED BY <1>2, <2>1, <2>2
<1>4. m \in Nat /\ m - 1 \in Nat
  BY <1>2, <1>3
<1>5. PICK f : IsPlain(f, s, m - 1)
  BY <1>2, <1>4
<1> DEFINE g == [i \in 0 .. m |-> IF i < m THEN f[i] ELSE Shown(f[m - 1], s[m])]
<1>6. IsPlain(g, s, m)
  <2>1. g = [i \in 0 .. m |-> g[i]]
    OBVIOUS
  <2>2. g[0] = <<>>
    BY <1>3, <1>4, <1>5 DEF IsPlain
  <2>3. ASSUME NEW i \in 1 .. m PROVE g[i] = Shown(g[i - 1], s[i])
    <3>1. g[i - 1] = f[i - 1]
      BY <1>4
    <3>2. CASE i < m
      <4>1. \A j \in 1 .. m - 1 : f[j] = Shown(f[j - 1], s[j])
        BY <1>5, Zenon DEF IsPlain
      <4>2. i \in 1 .. m - 1 /\ g[i] = f[i]
        BY <1>4, <3>2
      <4> QED BY <3>1, <4>1, <4>2
    <3>3. CASE i = m
      <4>1. g[i] = Shown(f[m - 1], s[m])
        BY <1>4, <3>3
      <4> QED BY <3>1, <3>3, <4>1
    <3> QED BY <1>4, <3>2, <3>3
  <2> HIDE DEF g
  <2> QED BY <2>1, <2>2, <2>3 DEF IsPlain
<1> QED BY <1>2, <1>6

\* Plain(s) is the last value of such a solution.
LEMMA PlainIs ==
  ASSUME NEW s, Len(s) \in Nat
  PROVE  \E f : IsPlain(f, s, Len(s)) /\ Plain(s) = f[Len(s)]
<1> DEFINE Step(f) == [i \in 0 .. Len(s) |-> IF i = 0 THEN <<>> ELSE Shown(f[i - 1], s[i])]
           h == CHOOSE f : f = Step(f)
<1>1. PICK f : IsPlain(f, s, Len(s))
  BY PlainsExist
<1>2. f = Step(f)
  <2>1. ASSUME NEW i \in 0 .. Len(s) PROVE f[i] = IF i = 0 THEN <<>> ELSE Shown(f[i - 1], s[i])
    <3>1. f[0] = <<>> /\ \A j \in 1 .. Len(s) : f[j] = Shown(f[j - 1], s[j])
      BY <1>1, Zenon DEF IsPlain
    <3>2. (i = 0 \/ i \in 1 .. Len(s)) /\ (i \in 1 .. Len(s) => i # 0)
      OBVIOUS
    <3> QED BY <3>1, <3>2, Zenon
  <2>2. f = [i \in 0 .. Len(s) |-> f[i]]
    BY <1>1, Zenon DEF IsPlain
  <2> QED BY <2>1, <2>2
<1>3. h = Step(h)
  <2> HIDE DEF Step
  <2> QED BY <1>2
<1>4. Plain(s) = h[Len(s)]
  BY Zenon DEF Plain
<1> HIDE DEF h
<1>5. \A i \in 0 .. Len(s) : h[i] = IF i = 0 THEN <<>> ELSE Shown(h[i - 1], s[i])
  BY <1>3, Zenon
<1>6. h = [i \in 0 .. Len(s) |-> h[i]]
  <2>1. DOMAIN h = 0 .. Len(s)
    BY <1>3, Zenon
  <2>2. h = [i \in DOMAIN h |-> h[i]]
    BY <1>3
  <2> HIDE DEF Step
  <2> QED BY <2>1, <2>2
<1> HIDE DEF Step
<1>7. IsPlain(h, s, Len(s))
  <2>1. h[0] = <<>>
    BY <1>5
  <2>2. ASSUME NEW i \in 1 .. Len(s) PROVE h[i] = Shown(h[i - 1], s[i])
    <3>1. i \in 0 .. Len(s) /\ i # 0
      OBVIOUS
    <3> QED BY <1>5, <3>1, Zenon
  <2> QED BY <1>6, <2>1, <2>2, Zenon DEF IsPlain
<1> QED BY <1>4, <1>7

\* What is shown of a prefix does not depend on what follows.
LEMMA PlainPrefix ==
  ASSUME NEW s, NEW t, NEW f, NEW g, NEW k \in Nat, NEW m \in Nat, k <= m,
         IsPlain(f, s, k), IsPlain(g, t, m), \A i \in 1 .. k : s[i] = t[i]
  PROVE  f[k] = g[k]
<1> DEFINE Bad == {i \in Nat : i <= k /\ f[i] # g[i]}
<1>1. SUFFICES ASSUME Bad # {} PROVE FALSE
  OBVIOUS
<1>2. PICK n \in Bad : \A i \in Bad : n <= i
  <2>1. Bad \in SUBSET Nat
    OBVIOUS
  <2> HIDE DEF Bad
  <2> QED BY <1>1, <2>1, LeastNat
<1>3. n # 0
  BY <1>2 DEF IsPlain
<1>4. n \in 1 .. k /\ n \in 1 .. m /\ n - 1 \in Nat /\ n - 1 <= k
  BY <1>2, <1>3
<1>5. f[n - 1] = g[n - 1]
  BY <1>2, <1>4
<1>6. f[n] = Shown(f[n - 1], s[n]) /\ g[n] = Shown(g[n - 1], t[n])
  BY <1>4, Zenon DEF IsPlain
<1> QED BY <1>2, <1>4, <1>5, <1>6

\* One more character is shown after the ones before it.
LEMMA PlainAppend ==
  ASSUME NEW A, NEW s \in Seq(A), NEW c \in A
  PROVE  Plain(Append(s, c)) = Shown(Plain(s), c)
<1>1. PICK t : t = Append(s, c)
  OBVIOUS
<1>2. /\ t \in Seq(A) /\ Len(t) = Len(s) + 1 /\ Len(s) \in Nat /\ Len(t) \in Nat
      /\ t[Len(s) + 1] = c /\ \A i \in 1 .. Len(s) : s[i] = t[i]
  <2>1. t \in Seq(A) /\ Len(t) = Len(s) + 1
    BY <1>1
  <2>2. t[Len(s) + 1] = c /\ \A i \in 1 .. Len(s) : t[i] = s[i]
    BY <1>1, AppendProperties
  <2> QED BY <2>1, <2>2
<1>3. PICK f : IsPlain(f, s, Len(s)) /\ Plain(s) = f[Len(s)]
  BY <1>2, PlainIs
<1>4. PICK g : IsPlain(g, t, Len(t)) /\ Plain(t) = g[Len(t)]
  BY <1>2, PlainIs
<1>5. f[Len(s)] = g[Len(s)]
  <2>1. Len(s) <= Len(t)
    BY <1>2
  <2>2. PICK k \in Nat, m \in Nat : k = Len(s) /\ m = Len(t)
    BY <1>2
  <2>3. IsPlain(f, s, k) /\ IsPlain(g, t, m) /\ k <= m /\ \A i \in 1 .. k : s[i] = t[i]
    BY <1>2, <1>3, <1>4, <2>1, <2>2, Zenon
  <2>4. f[k] = g[k]
    BY <2>3, PlainPrefix, SMT
  <2> QED BY <2>2, <2>4
<1>6. g[Len(t)] = Shown(g[Len(t) - 1], t[Len(t)])
  <2>1. Len(t) \in 1 .. Len(t)
    BY <1>2
  <2> QED BY <1>4, <2>1, Zenon DEF IsPlain
<1>7. Len(t) - 1 = Len(s)
  BY <1>2
<1> QED BY <1>1, <1>2, <1>3, <1>4, <1>5, <1>6, <1>7

\* A sequence is its first n elements and the others.
LEMMA CutJoins ==
  ASSUME NEW A, NEW s \in Seq(A), NEW n \in Nat, n <= Len(s)
  PROVE  SubSeq(s, 1, n) \o SubSeq(s, n + 1, Len(s)) = s
<1>1. 1 \in 1 .. Len(s) + 1 /\ n \in 1 - 1 .. Len(s) /\ Len(s) \in n .. Len(s)
  OBVIOUS
<1>2. SubSeq(s, 1, n) \o SubSeq(s, n + 1, Len(s)) = SubSeq(s, 1, Len(s))
  BY <1>1, ConcatAdjacentSubSeq
<1> QED BY <1>2, SubSeqFull

\* A prefix one longer is the prefix with the next element appended.
LEMMA CutNext ==
  ASSUME NEW A, NEW s \in Seq(A), NEW n \in Nat, n < Len(s)
  PROVE  SubSeq(s, 1, n + 1) = Append(SubSeq(s, 1, n), s[n + 1])
<1>1. n + 1 \in 1 .. Len(s)
  OBVIOUS
<1>2. /\ SubSeq(s, 1, n + 1) \in Seq(A) /\ Len(SubSeq(s, 1, n + 1)) = n + 1
      /\ \A i \in 1 .. n + 1 : SubSeq(s, 1, n + 1)[i] = s[i]
  BY <1>1
<1>3. /\ SubSeq(s, 1, n) \in Seq(A) /\ Len(SubSeq(s, 1, n)) = n
      /\ \A i \in 1 .. n : SubSeq(s, 1, n)[i] = s[i]
  BY <1>1
<1>4. PICK t, c : t = SubSeq(s, 1, n) /\ c = s[n + 1]
  OBVIOUS
<1>5. t \in Seq(A) /\ c \in A /\ Len(t) = n /\ \A i \in 1 .. n : t[i] = s[i]
  BY <1>1, <1>3, <1>4
<1>6. /\ Append(t, c) \in Seq(A) /\ Len(Append(t, c)) = n + 1
      /\ \A i \in 1 .. n : Append(t, c)[i] = s[i]
      /\ Append(t, c)[n + 1] = s[n + 1]
  BY <1>4, <1>5, AppendProperties
<1>7. \A i \in 1 .. n + 1 : SubSeq(s, 1, n + 1)[i] = Append(t, c)[i]
  BY <1>2, <1>6
<1>8. SubSeq(s, 1, n + 1) = Append(t, c)
  BY <1>2, <1>6, <1>7, SeqEqual
<1> QED BY <1>4, <1>8

\* Appending to the right part appends to the concatenation.
LEMMA ConcatAppend ==
  ASSUME NEW A, NEW x \in Seq(A), NEW e \in Seq(A), NEW c \in A
  PROVE  x \o Append(e, c) = Append(x \o e, c) /\ x \o e \in Seq(A)
<1>1. PICK y : y = <<c>>
  OBVIOUS
<1>2. y \in Seq(A) /\ x \o e \in Seq(A)
  BY <1>1
<1>3. (x \o e) \o y = x \o (e \o y)
  BY <1>2
<1>4. Append(e, c) = e \o y
  BY <1>1, AppendIsConcat
<1>5. PICK z : z = x \o e
  OBVIOUS
<1>6. z \in Seq(A)
  BY <1>2, <1>5
<1>7. Append(z, c) = z \o y
  BY <1>1, <1>6, AppendIsConcat
<1> QED BY <1>2, <1>3, <1>4, <1>5, <1>7

\* An escape is not shown, wherever it is.
LEMMA PlainSkip ==
  ASSUME NEW A, NEW a \in Seq(A), NEW b \in Seq(A), Escape \in A
  PROVE  Plain(Append(a, Escape) \o b) = Plain(a \o b)
<1> DEFINE Differs(d) == Plain(Append(a, Escape) \o d) # Plain(a \o d)
           Bad == {m \in Nat : \E d \in Seq(A) : Len(d) = m /\ Differs(d)}
<1>1. SUFFICES ASSUME Bad # {} PROVE FALSE
  OBVIOUS
<1>2. PICK m \in Bad : \A n \in Bad : m <= n
  <2>1. Bad \in SUBSET Nat
    OBVIOUS
  <2> HIDE DEF Bad
  <2> QED BY <1>1, <2>1, LeastNat
<1>3. PICK d \in Seq(A) : Len(d) = m /\ Differs(d)
  BY <1>2
<1>a. Append(a, Escape) \in Seq(A)
  OBVIOUS
<1>4. m # 0
  <2>1. SUFFICES ASSUME m = 0 PROVE FALSE
    OBVIOUS
  <2>2. d = <<>>
    BY <1>3, <2>1
  <2>3. Append(a, Escape) \o d = Append(a, Escape) /\ a \o d = a
    BY <2>2, <1>a, ConcatEmptySeq
  <2>4. Plain(Append(a, Escape)) = Plain(a)
    BY PlainAppend DEF Shown
  <2> QED BY <1>3, <2>3, <2>4
<1> DEFINE e == SubSeq(d, 1, m - 1)
<1>5. m - 1 \in Nat /\ m \in 1 .. Len(d) /\ d[m] \in A
  BY <1>2, <1>3, <1>4
<1>6. e \in Seq(A) /\ Len(e) = m - 1 /\ d = Append(e, d[m])
  <2>1. e \in Seq(A) /\ Len(e) = m - 1 /\ \A i \in 1 .. m - 1 : e[i] = d[i]
    BY <1>3, <1>5
  <2> HIDE DEF e
  <2>2. Append(e, d[m]) \in Seq(A) /\ Len(Append(e, d[m])) = Len(d)
    BY <1>3, <1>5, <2>1
  <2>3. ASSUME NEW i \in 1 .. Len(d) PROVE d[i] = Append(e, d[m])[i]
    BY <1>3, <1>5, <2>1
  <2>4. d = Append(e, d[m])
    BY <2>2, <2>3, SeqEqual
  <2> QED BY <2>1, <2>4
<1> HIDE DEF e
<1>7. ~Differs(e)
  <2>1. m - 1 \notin Bad
    BY <1>2, <1>5
  <2> QED BY <1>5, <1>6, <2>1
<1>8. ASSUME NEW x \in Seq(A) PROVE x \o d = Append(x \o e, d[m]) /\ x \o e \in Seq(A)
  <2>1. PICK c : c = d[m]
    OBVIOUS
  <2>2. c \in A /\ d = Append(e, c)
    BY <1>5, <1>6, <2>1
  <2> QED BY <1>6, <2>1, <2>2, ConcatAppend
<1>9. Plain(Append(a, Escape) \o d) = Shown(Plain(Append(a, Escape) \o e), d[m])
  BY <1>a, <1>5, <1>8, PlainAppend
<1>10. Plain(a \o d) = Shown(Plain(a \o e), d[m])
  BY <1>5, <1>8, PlainAppend
<1> QED BY <1>3, <1>7, <1>9, <1>10

\* What a port has left for the guest to read.
Rest(d) == SubSeq(d.rxbuf, d.rxdone + 1, Len(d.rxbuf))

OrderIInv ==
  /\ SerialIInv
  /\ typed \in [Ports -> Seq(Chars)] /\ got \in [Ports -> Seq(Chars \cup {Other})]
  /\ \A p \in Ports : "2" \notin port[p].lcr
  /\ InOrder

\* serial8250_update_irq leaves the FIFO alone unless the line control register asks.
LEMMA UpdatedFifo ==
  ASSUME NEW d, d \in PortRecord
  PROVE  /\ "2" \notin Updated(d).lcr
         /\ "2" \notin d.lcr => Updated(d).rxbuf = d.rxbuf /\ Updated(d).rxdone = d.rxdone
<1>1. /\ ClearRx(d) \in PortRecord /\ "2" \notin ClearRx(d).lcr
      /\ "2" \notin d.lcr => ClearRx(d).rxbuf = d.rxbuf /\ ClearRx(d).rxdone = d.rxdone
  <2>1. CASE "2" \notin d.lcr
    BY <2>1 DEF ClearRx
  <2>2. CASE "2" \in d.lcr
    <3>1. <<>> \in Seq(Chars \cup {Other}) /\ d.lcr \ {"2"} \in SUBSET LcrBits
      BY DEF PortRecord
    <3>2. ClearRx(d) = [d EXCEPT !.lcr = d.lcr \ {"2"}, !.rxbuf = <<>>, !.rxdone = 0, !.dr = FALSE]
      BY <2>2 DEF ClearRx, PortRecord
    <3> DEFINE l == d.lcr \ {"2"}
               e == ClearRx(d)
    <3>3. "2" \notin l /\ l \in SUBSET LcrBits /\ e = [d EXCEPT !.lcr = l, !.rxbuf = <<>>, !.rxdone = 0, !.dr = FALSE]
      BY <3>1, <3>2
    <3> HIDE DEF l, e
    <3>4. e \in PortRecord /\ e.lcr = l
      BY <3>1, <3>3 DEF PortRecord
    <3> QED BY <2>2, <3>3, <3>4 DEF e
  <2> QED BY <2>1, <2>2
<1>2. \A e \in PortRecord : /\ ClearTx(e) \in PortRecord /\ ClearTx(e).lcr \subseteq e.lcr
                            /\ ClearTx(e).rxbuf = e.rxbuf /\ ClearTx(e).rxdone = e.rxdone
  BY DEF ClearTx, PortRecord
<1>3. \A e \in PortRecord : /\ SetIrq(e) \in PortRecord /\ SetIrq(e).lcr = e.lcr
                            /\ SetIrq(e).rxbuf = e.rxbuf /\ SetIrq(e).rxdone = e.rxdone
  <2> SUFFICES ASSUME NEW e \in PortRecord
               PROVE  /\ SetIrq(e) \in PortRecord /\ SetIrq(e).lcr = e.lcr
                      /\ SetIrq(e).rxbuf = e.rxbuf /\ SetIrq(e).rxdone = e.rxdone
    OBVIOUS
  <2>1. Causes(e) \in SUBSET IerBits
    BY DEF Causes, PortRecord
  <2> QED BY <2>1 DEF SetIrq, PortRecord
<1>4. \A e \in PortRecord : /\ Settle(e).lcr = e.lcr
                            /\ Settle(e).rxbuf = e.rxbuf /\ Settle(e).rxdone = e.rxdone
  BY DEF Settle, FlushTx, PortRecord
<1> QED BY <1>1, <1>2, <1>3, <1>4 DEF Updated

\* A step of a port that shows the guest neither more nor less than before.
LEMMA OrderUpdate ==
  ASSUME OrderIInv, SerialIInv', NEW p \in Ports, NEW d, d \in PortRecord, Update(p, d),
         typed' = typed, disturbed \subseteq disturbed',
         got' \in [Ports -> Seq(Chars \cup {Other})],
         \A q \in Ports \ {p} : got'[q] = got[q] /\ input'[q] = input[q],
         p \notin disturbed' =>
            /\ "2" \notin d.lcr
            /\ Plain(got'[p] \o Rest(d) \o input'[p]) = Plain(got[p] \o Rest(port[p]) \o input[p])
  PROVE  OrderIInv'
<1> DEFINE u == Updated(d)
<1>1. "2" \notin u.lcr /\ ("2" \notin d.lcr => u.rxbuf = d.rxbuf /\ u.rxdone = d.rxdone)
  BY UpdatedFifo
<1>2. port' = [port EXCEPT ![p] = u]
  BY DEF Update
<1> HIDE DEF u
<1>3. port'[p] = u /\ \A q \in Ports \ {p} : port'[q] = port[q]
  BY <1>2 DEF OrderIInv, SerialIInv
<1>4. \A q \in Ports : "2" \notin port'[q].lcr
  BY <1>1, <1>3 DEF OrderIInv
<1>5. ASSUME NEW q \in Ports \ disturbed'
      PROVE  Plain(typed'[q]) = Plain(got'[q] \o Rest(port'[q]) \o input'[q])
  <2>1. Plain(typed[q]) = Plain(got[q] \o Rest(port[q]) \o input[q])
    BY DEF OrderIInv, InOrder, Unread, Rest
  <2>2. CASE q = p
    <3>1. Rest(port'[q]) = Rest(d)
      BY <1>1, <1>3, <1>5, <2>2 DEF Rest
    <3> QED BY <1>5, <2>1, <2>2, <3>1
  <2>3. CASE q # p
    BY <1>3, <2>1, <2>3
  <2> QED BY <2>2, <2>3
<1>6. InOrder'
  BY <1>5 DEF InOrder, Unread, Rest
<1>7. typed' \in [Ports -> Seq(Chars)]
  BY DEF OrderIInv
<1> QED BY <1>4, <1>6, <1>7 DEF OrderIInv

\* What the guest reads was the first character that it had not read.
LEMMA RestMoves ==
  ASSUME NEW d, d \in PortRecord, d.rxdone < Len(d.rxbuf)
  PROVE  /\ ReadNext(d) \in PortRecord /\ ReadNext(d).lcr = d.lcr
         /\ d.rxbuf[d.rxdone + 1] \in Chars \cup {Other}
         /\ Rest(ReadNext(d)) \in Seq(Chars \cup {Other})
         /\ Rest(d) = <<d.rxbuf[d.rxdone + 1]>> \o Rest(ReadNext(d))
<1>1. PICK b, n : b = d.rxbuf /\ n = d.rxdone
  OBVIOUS
<1>2. b \in Seq(Chars \cup {Other}) /\ n \in Nat /\ n < Len(b) /\ Len(b) \in Nat
  BY <1>1 DEF PortRecord
<1>3. b[n + 1] \in Chars \cup {Other}
  BY <1>2
<1>4. SubSeq(b, n + 1, Len(b)) = <<b[n + 1]>> \o SubSeq(b, (n + 1) + 1, Len(b))
  <2>1. n + 1 \in 1 .. Len(b) /\ Len(b) \in n + 1 .. Len(b)
    BY <1>2
  <2> QED BY <1>2, <2>1, SubSeqRecursiveFirst
<1>5. SubSeq(b, (n + 1) + 1, Len(b)) \in Seq(Chars \cup {Other})
  BY <1>2
<1>6. /\ ReadNext(d) \in PortRecord /\ ReadNext(d).lcr = d.lcr
      /\ Rest(ReadNext(d)) = SubSeq(b, (n + 1) + 1, Len(b))
  <2>1. CASE n + 1 = Len(b)
    <3>1. ReadNext(d) = [d EXCEPT !.rxbuf = <<>>, !.rxdone = 0, !.dr = FALSE]
      BY <1>1, <2>1 DEF ReadNext
    <3>2. /\ ReadNext(d) \in PortRecord /\ ReadNext(d).lcr = d.lcr
          /\ ReadNext(d).rxbuf = <<>> /\ ReadNext(d).rxdone = 0
      <4>1. <<>> \in Seq(Chars \cup {Other})
        OBVIOUS
      <4>2. PICK none : none = <<>>
        OBVIOUS
      <4>3. PICK e : e = ReadNext(d)
        OBVIOUS
      <4>4. none \in Seq(Chars \cup {Other}) /\ e = [d EXCEPT !.rxbuf = none, !.rxdone = 0, !.dr = FALSE]
        BY <3>1, <4>1, <4>2, <4>3
      <4>5. e \in PortRecord /\ e.lcr = d.lcr /\ e.rxbuf = none /\ e.rxdone = 0
        BY <4>4 DEF PortRecord
      <4> QED BY <4>2, <4>3, <4>5
    <3>3. Rest(ReadNext(d)) = SubSeq(<<>>, 0 + 1, 0)
      BY <3>2 DEF Rest
    <3>4. SubSeq(<<>>, 0 + 1, 0) = <<>> /\ SubSeq(b, (n + 1) + 1, Len(b)) = <<>>
      BY <1>2, <2>1, SubSeqEmpty
    <3> QED BY <3>2, <3>3, <3>4
  <2>2. CASE n + 1 # Len(b)
    <3>1. ReadNext(d) = [d EXCEPT !.rxdone = n + 1]
      BY <1>1, <1>2, <2>2 DEF ReadNext, PortRecord
    <3>2. /\ ReadNext(d) \in PortRecord /\ ReadNext(d).lcr = d.lcr
          /\ ReadNext(d).rxbuf = b /\ ReadNext(d).rxdone = n + 1
      BY <1>1, <1>2, <3>1 DEF PortRecord
    <3> QED BY <3>2 DEF Rest
  <2> QED BY <2>1, <2>2
<1> QED BY <1>1, <1>3, <1>4, <1>5, <1>6 DEF Rest

\* A step that leaves the FIFO of a port alone, or disturbs the port.
LEMMA OrderQuiet ==
  ASSUME OrderIInv, SerialIInv', NEW p \in Ports, NEW d, d \in PortRecord, Update(p, d),
         typed' = typed, got' = got, input' = input, disturbed \subseteq disturbed',
         p \notin disturbed' => /\ d.lcr \subseteq port[p].lcr \/ "2" \notin d.lcr
                                /\ d.rxbuf = port[p].rxbuf /\ d.rxdone = port[p].rxdone
  PROVE  OrderIInv'
<1>1. got' \in [Ports -> Seq(Chars \cup {Other})]
  BY DEF OrderIInv
<1>2. "2" \notin port[p].lcr
  BY DEF OrderIInv
<1>3. p \notin disturbed' =>
        /\ "2" \notin d.lcr
        /\ Plain(got'[p] \o Rest(d) \o input'[p]) = Plain(got[p] \o Rest(port[p]) \o input[p])
  BY <1>2 DEF Rest
<1> QED BY <1>1, <1>3, OrderUpdate

\* A guest access keeps OrderIInv: what it reads is the oldest byte the port
\* holds.
LEMMA GuestOrder == ASSUME OrderIInv, NEW p \in Ports, Guest(p) PROVE OrderIInv'
<1>1. PICK d : d = port[p]
  OBVIOUS
<1>2. SerialIInv /\ d \in PortRecord
  BY <1>1 DEF OrderIInv, SerialIInv
<1>3. SerialIInv'
  BY <1>2, GuestKeeps
<1>4. CASE WriteTx(p)
  <2>1. PICK e : e = Transmit(d)
    OBVIOUS
  <2>2. e \in PortRecord /\ e.lcr = d.lcr /\ e.rxbuf = d.rxbuf /\ e.rxdone = d.rxdone
    BY <1>2, <2>1, SerialAssumption DEF Transmit, FlushTx, PortRecord
  <2>3. Update(p, e) /\ UNCHANGED <<input, typed, got, disturbed>>
    BY <1>1, <1>4, <2>1 DEF WriteTx
  <2> QED BY <1>1, <1>3, <2>2, <2>3, OrderQuiet
<1>5. CASE WriteLoop(p)
  <2>1. UNCHANGED <<input, typed, got>>
    BY <1>5 DEF WriteLoop
  <2>2. CASE Update(p, d) /\ UNCHANGED disturbed
    BY <1>1, <1>2, <1>3, <2>1, <2>2, OrderQuiet
  <2>3. CASE Update(p, [d EXCEPT !.rxbuf = Append(@, Other), !.dr = TRUE]) /\ disturbed' = disturbed \cup {p}
    <3>1. PICK b : b = Append(d.rxbuf, Other)
      OBVIOUS
    <3>2. b \in Seq(Chars \cup {Other})
      <4>1. d.rxbuf \in Seq(Chars \cup {Other})
        BY <1>2 DEF PortRecord
      <4> QED BY <3>1, <4>1
    <3>3. PICK e : e = [d EXCEPT !.rxbuf = b, !.dr = TRUE]
      OBVIOUS
    <3>4. e \in PortRecord
      BY <1>2, <3>2, <3>3 DEF PortRecord
    <3>5. Update(p, e)
      BY <2>3, <3>1, <3>3, <1>2 DEF PortRecord
    <3> QED BY <1>3, <2>1, <2>3, <3>4, <3>5, OrderQuiet
  <2> QED BY <1>1, <1>5, <2>2, <2>3 DEF WriteLoop
<1>6. ASSUME NEW bits \in SUBSET IerBits, WriteIer(p, bits) PROVE OrderIInv'
  <2>1. PICK e : e = [d EXCEPT !.ier = bits]
    OBVIOUS
  <2>2. e \in PortRecord /\ e.lcr = d.lcr /\ e.rxbuf = d.rxbuf /\ e.rxdone = d.rxdone
    BY <1>2, <2>1 DEF PortRecord
  <2>3. Update(p, e) /\ UNCHANGED <<input, typed, got, disturbed>>
    BY <1>1, <1>6, <2>1 DEF WriteIer
  <2> QED BY <1>1, <1>3, <2>2, <2>3, OrderQuiet
<1>7. ASSUME NEW bits \in SUBSET FcrBits, WriteFcr(p, bits) PROVE OrderIInv'
  <2>1. PICK e : e = [d EXCEPT !.fcr = bits]
    OBVIOUS
  <2>2. e \in PortRecord /\ e.lcr = d.lcr /\ e.rxbuf = d.rxbuf /\ e.rxdone = d.rxdone
    BY <1>2, <2>1 DEF PortRecord
  <2>3. Update(p, e) /\ UNCHANGED <<input, typed, got, disturbed>>
    BY <1>1, <1>7, <2>1 DEF WriteFcr
  <2> QED BY <1>1, <1>3, <2>2, <2>3, OrderQuiet
<1>8. ASSUME NEW bits \in SUBSET LcrBits, WriteLcr(p, bits) PROVE OrderIInv'
  <2>1. PICK e : e = [d EXCEPT !.lcr = bits]
    OBVIOUS
  <2>2. e \in PortRecord /\ e.lcr = bits /\ e.rxbuf = d.rxbuf /\ e.rxdone = d.rxdone
    BY <1>2, <2>1 DEF PortRecord
  <2>3. /\ Update(p, e) /\ UNCHANGED <<input, typed, got>> /\ disturbed \subseteq disturbed'
        /\ p \notin disturbed' => "2" \notin bits
    BY <1>1, <1>8, <2>1 DEF WriteLcr
  <2> QED BY <1>1, <1>3, <2>2, <2>3, OrderQuiet
<1>9. ASSUME NEW loop \in BOOLEAN, WriteMcr(p, loop) PROVE OrderIInv'
  <2>1. PICK e : e = [d EXCEPT !.loop = loop]
    OBVIOUS
  <2>2. e \in PortRecord /\ e.lcr = d.lcr /\ e.rxbuf = d.rxbuf /\ e.rxdone = d.rxdone
    BY <1>2, <2>1 DEF PortRecord
  <2>3. Update(p, e) /\ UNCHANGED <<input, typed, got, disturbed>>
    BY <1>1, <1>9, <2>1 DEF WriteMcr
  <2> QED BY <1>1, <1>3, <2>2, <2>3, OrderQuiet
<1>10. CASE ReadRx(p)
  <2>1. UNCHANGED <<input, typed, disturbed>>
    BY <1>10 DEF ReadRx
  <2>2. CASE Update(p, d) /\ UNCHANGED got
    BY <1>1, <1>2, <1>3, <2>1, <2>2, OrderQuiet
  <2>3. CASE Update(p, [d EXCEPT !.bi = FALSE]) /\ UNCHANGED got
    <3>1. PICK e : e = [d EXCEPT !.bi = FALSE]
      OBVIOUS
    <3>2. e \in PortRecord /\ e.lcr = d.lcr /\ e.rxbuf = d.rxbuf /\ e.rxdone = d.rxdone
      BY <1>2, <3>1 DEF PortRecord
    <3>3. Update(p, e)
      BY <2>3, <3>1
    <3> QED BY <1>1, <1>3, <2>1, <2>3, <3>2, <3>3, OrderQuiet
  <2>4. CASE /\ d.rxdone < Len(d.rxbuf) /\ Update(p, ReadNext(d))
             /\ got' = IF p \in disturbed THEN got
                       ELSE [got EXCEPT ![p] = Append(@, d.rxbuf[d.rxdone + 1])]
    <3>1. PICK e, c : e = ReadNext(d) /\ c = d.rxbuf[d.rxdone + 1]
      OBVIOUS
    <3>2. /\ e \in PortRecord /\ e.lcr = d.lcr /\ c \in Chars \cup {Other}
          /\ Rest(e) \in Seq(Chars \cup {Other}) /\ Rest(d) = <<c>> \o Rest(e)
      BY <1>2, <2>4, <3>1, RestMoves
    <3>3. /\ got \in [Ports -> Seq(Chars \cup {Other})] /\ got[p] \in Seq(Chars \cup {Other})
          /\ "2" \notin d.lcr /\ input[p] \in Seq(Chars)
      BY <1>1 DEF OrderIInv, SerialIInv
    <3>4. Append(got[p], c) \in Seq(Chars \cup {Other})
      BY <3>2, <3>3
    <3>5. /\ got' \in [Ports -> Seq(Chars \cup {Other})]
          /\ \A q \in Ports \ {p} : got'[q] = got[q]
          /\ p \notin disturbed => got'[p] = Append(got[p], c)
      BY <2>4, <3>1, <3>3, <3>4
    <3>6. Append(got[p], c) \o Rest(e) = got[p] \o Rest(d)
      <4>1. PICK g, r : g = got[p] /\ r = Rest(e)
        OBVIOUS
      <4>2. g \in Seq(Chars \cup {Other}) /\ r \in Seq(Chars \cup {Other}) /\ <<c>> \in Seq(Chars \cup {Other})
        BY <3>2, <3>3, <4>1
      <4>3. Append(g, c) = g \o <<c>>
        BY <3>2, <4>2, AppendIsConcat
      <4>4. (g \o <<c>>) \o r = g \o (<<c>> \o r)
        BY <3>2, <4>2
      <4> QED BY <3>2, <4>1, <4>3, <4>4
    <3>7. p \notin disturbed' =>
            /\ "2" \notin e.lcr
            /\ Plain(got'[p] \o Rest(e) \o input'[p]) = Plain(got[p] \o Rest(port[p]) \o input[p])
      BY <1>1, <2>1, <3>2, <3>3, <3>5, <3>6
    <3>8. Update(p, e)
      BY <2>4, <3>1
    <3> QED BY <1>3, <2>1, <3>2, <3>5, <3>7, <3>8, OrderUpdate
  <2> QED BY <1>1, <1>10, <2>2, <2>3, <2>4 DEF ReadRx
<1>11. CASE OtherAccess(p)
  <2>1. Update(p, d) /\ UNCHANGED <<input, typed, got, disturbed>>
    BY <1>1, <1>11 DEF OtherAccess
  <2> QED BY <1>1, <1>2, <1>3, <2>1, OrderQuiet
<1> QED BY <1>4, <1>5, <1>6, <1>7, <1>8, <1>9, <1>10, <1>11 DEF Guest

\* A pass of the terminal thread keeps OrderIInv: what it reads goes behind
\* what the port holds.
LEMMA ReceiveOrder == ASSUME OrderIInv, NEW p \in Ports, Receive(p) PROVE OrderIInv'
<1>1. PICK d : d = port[p]
  OBVIOUS
<1>2. SerialIInv /\ d \in PortRecord /\ d.rxbuf \in Seq(Chars \cup {Other}) /\ "2" \notin d.lcr /\ FifoTrue(d)
  BY <1>1 DEF OrderIInv, SerialIInv, PortRecord
<1>3. SerialIInv'
  BY <1>2, ReceiveKeeps
<1>4. CASE ReceiveNothing(p)
  <2>1. Update(p, d) /\ UNCHANGED <<input, typed, got, disturbed>>
    BY <1>1, <1>4 DEF ReceiveNothing
  <2> QED BY <1>1, <1>2, <1>3, <2>1, OrderQuiet
<1>5. CASE ReceiveSysrq(p)
  <2>1. PICK b : b = Append(d.rxbuf, Other)
    OBVIOUS
  <2>2. b \in Seq(Chars \cup {Other})
    BY <1>2, <2>1
  <2>3. PICK e : e = [d EXCEPT !.dr = TRUE, !.bi = TRUE, !.rxbuf = b]
    OBVIOUS
  <2>4. e \in PortRecord
    BY <1>2, <2>2, <2>3 DEF PortRecord
  <2>5. Update(p, e) /\ UNCHANGED <<input, typed, got>> /\ disturbed' = disturbed \cup {p}
    BY <1>1, <1>2, <1>5, <2>1, <2>3 DEF ReceiveSysrq, PortRecord
  <2> QED BY <1>3, <2>4, <2>5, OrderQuiet
<1>6. CASE ReceiveChars(p)
  <2>1. PICK s, n, m : s = input[p] /\ n = Taken(s) /\ m = Consumed(s)
    OBVIOUS
  <2>2. input \in [Ports -> Seq(Chars)] /\ s \in Seq(Chars) /\ s \in Seq(Chars \cup {Other}) /\ Len(s) \in Nat
    <3>1. input \in [Ports -> Seq(Chars)] /\ s \in Seq(Chars)
      BY <1>2, <2>1 DEF SerialIInv
    <3> QED BY <3>1
  <2>3. n \in Nat /\ n <= Len(s)
    BY <2>1, <2>2, TakenFits
  <2>4. m = n \/ (m = n + 1 /\ n < Len(s) /\ s[m] = Escape)
    <3>1. n < Len(s) /\ n < FifoLen => Keeps(s, n + 1)
      BY <2>1, <2>2, TakenFits
    <3> QED BY <2>1, <3>1 DEF Consumed, Keeps
  <2>5. PICK t, r : t = SubSeq(s, 1, n) /\ r = SubSeq(s, m + 1, Len(s))
    OBVIOUS
  <2>6. t \in Seq(Chars \cup {Other}) /\ r \in Seq(Chars) /\ r \in Seq(Chars \cup {Other}) /\ Len(t) = n
    BY <2>2, <2>3, <2>4, <2>5
  <2>7. PICK e : e = [d EXCEPT !.rxbuf = t, !.dr = d.dr \/ n > 0]
    OBVIOUS
  <2>8. e \in PortRecord /\ e.rxbuf = t /\ e.rxdone = d.rxdone /\ e.lcr = d.lcr
    <3>1. (d.dr \/ n > 0) \in BOOLEAN
      BY <1>2 DEF PortRecord
    <3> QED BY <1>2, <2>6, <2>7, <3>1 DEF PortRecord
  <2>9. /\ Update(p, [d EXCEPT !.rxbuf = @ \o t, !.dr = @ \/ n > 0]) /\ d.rxbuf = <<>>
        /\ input' = [input EXCEPT ![p] = r] /\ UNCHANGED <<typed, got, disturbed>>
    BY <1>1, <1>6, <2>1, <2>5 DEF ReceiveChars, Busy
  <2>10. Update(p, e)
    <3>1. <<>> \o t = t
      BY <2>6, ConcatEmptySeq
    <3>2. [d EXCEPT !.rxbuf = @ \o t, !.dr = @ \/ n > 0] = e
      BY <1>2, <2>7, <2>9, <3>1 DEF PortRecord
    <3> QED BY <2>9, <3>2
  <2>11. input'[p] = r /\ \A q \in Ports \ {p} : input'[q] = input[q]
    BY <2>2, <2>9
  <2>12. d.rxdone = 0 /\ Len(d.rxbuf) = 0
    BY <1>2, <2>9 DEF FifoTrue, PortRecord
  <2>13. Rest(d) = <<>> /\ Rest(e) = t
    <3>1. Rest(d) = SubSeq(<<>>, 1, 0) /\ Rest(e) = SubSeq(t, 1, Len(t))
      BY <2>8, <2>9, <2>12 DEF Rest
    <3>2. SubSeq(<<>>, 1, 0) = <<>>
      BY SubSeqEmpty
    <3>3. SubSeq(t, 1, Len(t)) = t
      BY <2>6, SubSeqFull
    <3> QED BY <3>1, <3>2, <3>3
  <2>14. got[p] \in Seq(Chars \cup {Other}) /\ got \in [Ports -> Seq(Chars \cup {Other})]
    BY DEF OrderIInv
  <2>15. PICK g : g = got[p]
    OBVIOUS
  <2>16. Plain((g \o t) \o r) = Plain((g \o <<>>) \o s)
    <3>1. g \in Seq(Chars \cup {Other}) /\ g \o <<>> = g /\ g \o t \in Seq(Chars \cup {Other})
      BY <2>6, <2>14, <2>15, ConcatEmptySeq
    <3>2. (g \o t) \o r = g \o (t \o r)
      BY <2>6, <3>1
    <3>3. CASE m = n
      <4>1. t \o r = s
        BY <2>2, <2>3, <2>5, <3>3, CutJoins
      <4> QED BY <3>1, <3>2, <4>1
    <3>4. CASE m = n + 1 /\ n < Len(s) /\ s[m] = Escape
      <4>1. PICK v : v = Append(t, Escape)
        OBVIOUS
      <4>2. Escape \in Chars \cup {Other} /\ v \in Seq(Chars \cup {Other})
        BY <2>6, <4>1, SerialAssumption
      <4>3. v = SubSeq(s, 1, m)
        BY <2>2, <2>3, <2>5, <3>4, <4>1, CutNext
      <4>4. v \o r = s
        <5>1. m \in Nat /\ m <= Len(s)
          BY <2>2, <2>3, <3>4
        <5>2. SubSeq(s, 1, m) \o SubSeq(s, m + 1, Len(s)) = s
          BY <2>2, <5>1, CutJoins
        <5> QED BY <2>5, <4>3, <5>2
      <4>5. Append(g \o t, Escape) = g \o v
        <5>1. PICK A : A = Chars \cup {Other}
          OBVIOUS
        <5>2. g \in Seq(A) /\ t \in Seq(A) /\ Escape \in A
          BY <2>6, <3>1, <4>2, <5>1
        <5>3. PICK c \in A : c = Escape
          BY <5>2
        <5>4. g \o Append(t, c) = Append(g \o t, c)
          BY <5>2, ConcatAppend
        <5> QED BY <4>1, <5>3, <5>4
      <4>6. (g \o v) \o r = g \o (v \o r)
        BY <2>6, <3>1, <4>2
      <4>7. PICK w : w = g \o t
        OBVIOUS
      <4>8. Plain(Append(w, Escape) \o r) = Plain(w \o r)
        BY <2>6, <3>1, <4>2, <4>7, PlainSkip
      <4> QED BY <3>1, <4>4, <4>5, <4>6, <4>7, <4>8
    <3> QED BY <2>4, <3>3, <3>4
  <2>17. p \notin disturbed' =>
           /\ "2" \notin e.lcr
           /\ Plain(got'[p] \o Rest(e) \o input'[p]) = Plain(got[p] \o Rest(port[p]) \o input[p])
    BY <1>1, <1>2, <2>1, <2>8, <2>9, <2>11, <2>13, <2>15, <2>16
  <2> QED BY <1>3, <2>8, <2>9, <2>10, <2>11, <2>14, <2>17, OrderUpdate
<1> QED BY <1>4, <1>5, <1>6 DEF Receive

\* Every step of the ports, or a stutter, keeps OrderIInv.
LEMMA OrderKept == OrderIInv /\ [Next]_vars => OrderIInv'
<1> SUFFICES ASSUME OrderIInv, [Next]_vars PROVE OrderIInv'
  OBVIOUS
<1>0. SerialIInv'
  BY SerialKept DEF OrderIInv
<1>1. CASE UNCHANGED vars
  BY <1>0, <1>1 DEF vars, OrderIInv, InOrder, Unread
<1>2. ASSUME NEW p \in Ports, Guest(p) PROVE OrderIInv'
  BY <1>2, GuestOrder
<1>3. ASSUME NEW p \in Ports, Receive(p) PROVE OrderIInv'
  BY <1>3, ReceiveOrder
<1>4. ASSUME NEW p \in Ports, NEW c \in Chars, Type(p, c) PROVE OrderIInv'
  <2>1. /\ UNCHANGED <<port, got, disturbed>>
        /\ input' = [input EXCEPT ![p] = Append(input[p], c)]
        /\ typed' = [typed EXCEPT ![p] = Append(typed[p], c)]
    BY <1>4 DEF Type
  <2>2. /\ input \in [Ports -> Seq(Chars)] /\ typed \in [Ports -> Seq(Chars)]
        /\ port[p] \in PortRecord /\ FifoTrue(port[p])
    BY DEF OrderIInv, SerialIInv
  <2>3. /\ typed' \in [Ports -> Seq(Chars)] /\ typed'[p] = Append(typed[p], c) /\ input'[p] = Append(input[p], c)
        /\ \A q \in Ports \ {p} : typed'[q] = typed[q] /\ input'[q] = input[q]
    BY <2>1, <2>2
  <2>4. PICK A : A = Chars \cup {Other}
    OBVIOUS
  <2>5. PICK i, w, t : i = input[p] /\ w = got[p] \o Unread(p) /\ t = typed[p]
    OBVIOUS
  <2>6. c \in A /\ i \in Seq(A) /\ t \in Seq(A) /\ w \in Seq(A)
    <3>1. i \in Seq(Chars) /\ t \in Seq(Chars)
      BY <2>2, <2>5
    <3>2. i \in Seq(A) /\ t \in Seq(A) /\ c \in A
      BY <2>4, <3>1
    <3>3. got[p] \in Seq(A)
      BY <2>4 DEF OrderIInv
    <3>4. Unread(p) \in Seq(A)
      <4>1. PICK b, k : b = port[p].rxbuf /\ k = port[p].rxdone
        OBVIOUS
      <4>2. b \in Seq(A) /\ k \in Nat /\ Len(b) \in Nat
        BY <2>2, <2>4, <4>1 DEF PortRecord
      <4>3. SubSeq(b, k + 1, Len(b)) \in Seq(A)
        BY <4>2
      <4> QED BY <4>1, <4>3 DEF Unread
    <3> QED BY <2>5, <3>2, <3>3, <3>4
  <2>7. w \o Append(i, c) = Append(w \o i, c) /\ w \o i \in Seq(A)
    BY <2>6, ConcatAppend
  <2>8. Plain(Append(t, c)) = Shown(Plain(t), c) /\ Plain(Append(w \o i, c)) = Shown(Plain(w \o i), c)
    BY <2>6, <2>7, PlainAppend
  <2>9. \A q \in Ports : Unread(q)' = Unread(q)
    BY <2>1 DEF Unread
  <2>10. ASSUME NEW q \in Ports \ disturbed'
         PROVE  Plain(typed'[q]) = Plain(got'[q] \o Unread(q)' \o input'[q])
    <3>1. Plain(typed[q]) = Plain(got[q] \o Unread(q) \o input[q])
      BY <2>1 DEF OrderIInv, InOrder
    <3>2. CASE q = p
      BY <2>1, <2>3, <2>5, <2>7, <2>8, <2>9, <3>1, <3>2
    <3>3. CASE q # p
      BY <2>1, <2>3, <2>9, <3>1, <3>3
    <3> QED BY <3>2, <3>3
  <2>11. InOrder'
    BY <2>10 DEF InOrder
  <2>12. (\A q \in Ports : "2" \notin port'[q].lcr) /\ got' \in [Ports -> Seq(Chars \cup {Other})]
    BY <2>1 DEF OrderIInv
  <2> QED BY <1>0, <2>3, <2>11, <2>12 DEF OrderIInv
<1>5. CASE InjectSysrq
  BY <1>0, <1>5 DEF InjectSysrq, OrderIInv, InOrder, Unread
<1> QED BY <1>1, <1>2, <1>3, <1>4, <1>5 DEF Next

\* OrderIInv holds before anything is typed.
LEMMA OrderStarts == Init => OrderIInv
<1> SUFFICES ASSUME Init PROVE OrderIInv
  OBVIOUS
<1>1. SerialIInv
  BY SerialStarts
<1>2. <<>> \in Seq(Chars) /\ <<>> \in Seq(Chars \cup {Other})
  OBVIOUS
<1>3. \A p \in Ports : typed[p] = <<>> /\ got[p] = <<>> /\ input[p] = <<>> /\ port[p] = Reset
  BY DEF Init
<1>4. typed \in [Ports -> Seq(Chars)] /\ got \in [Ports -> Seq(Chars \cup {Other})]
  BY <1>2 DEF Init
<1>5. ASSUME NEW p \in Ports PROVE Unread(p) = <<>>
  <2>1. Unread(p) = SubSeq(<<>>, 0 + 1, Len(<<>>)) /\ Len(<<>>) = 0
    BY <1>3 DEF Unread, Reset
  <2> QED BY <2>1, SubSeqEmpty
<1>6. InOrder
  <2>1. <<>> \o <<>> = <<>>
    BY <1>2, ConcatEmptySeq
  <2> QED BY <1>3, <1>5, <2>1 DEF InOrder
<1>7. \A p \in Ports : "2" \notin port[p].lcr
  <2>1. Reset.lcr = {}
    BY DEF Reset
  <2> QED BY <1>3, <2>1
<1> QED BY <1>1, <1>4, <1>6, <1>7 DEF OrderIInv

-----------------------------------------------------------------------------
(* Guest memory                                                            *)

BankRecords == [lo : Nat, hi : Nat, type : MemTypes, slot : Nat, host : Nat]
Ascending(bs) == \A i, j \in DOMAIN bs : i < j => bs[i].slot < bs[j].slot
AllApart(bs) == \A i, j \in DOMAIN bs : i # j => Apart(bs[i].lo, bs[i].hi, bs[j])
HostsApart(bs) == \A i, j \in DOMAIN bs : i # j => bs[i].host # bs[j].host
Solid(bs) == \A i \in DOMAIN bs : bs[i].lo <= bs[i].hi
Backed(bs, n) == \E i \in DOMAIN bs : bs[i].type # "reserved" /\ bs[i].slot = n
SlotsExact(ks, bs) ==
  /\ \A n : n \in DOMAIN ks <=> Backed(bs, n)
  /\ \A i \in DOMAIN bs : bs[i].type # "reserved" => ks[bs[i].slot] = <<bs[i].lo, bs[i].hi>>
BanksGood(bs, r, torn) ==
  /\ bs \in Seq(BankRecords) /\ Solid(bs) /\ Ascending(bs) /\ HostsApart(bs)
  /\ \A i \in DOMAIN bs : bs[i].host < r
  /\ ~torn => AllApart(bs)

\* Host memory belongs to one registration, and KVM has the slots until the exit frees
\* the banks.
MemIInv ==
  /\ regs \in Nat /\ tornMem \in BOOLEAN /\ BanksGood(banks, regs, tornMem)
  /\ regs < MaxRegs \/ banks # <<>> => SlotsExact(kvmSlots, banks)

\* The scan, as a function of the number of banks seen.
ScanStart(lo, hi) ==
  [lo |-> lo, hi |-> hi, slot |-> 0, at |-> 0, merged |-> 0, err |-> FALSE, left |-> <<>>]
IsScan(f, bs, n, lo, hi, type) ==
  /\ f = [i \in 0 .. n |-> f[i]] /\ f[0] = ScanStart(lo, hi)
  /\ \A i \in 1 .. n : f[i] = ScanBank(f[i - 1], bs[i], type)

\* The recursion that defines Scan has a solution on every finite list of
\* banks.
LEMMA ScansExist ==
  ASSUME NEW bs, NEW n \in Nat, NEW lo, NEW hi, NEW type
  PROVE  \E f : IsScan(f, bs, n, lo, hi, type)
<1> DEFINE Bad == {m \in Nat : ~(\E f : IsScan(f, bs, m, lo, hi, type))}
<1>1. SUFFICES ASSUME Bad # {} PROVE FALSE
  OBVIOUS
<1>2. PICK m \in Bad : \A k \in Bad : m <= k
  <2>1. Bad \in SUBSET Nat
    OBVIOUS
  <2> HIDE DEF Bad
  <2> QED BY <1>1, <2>1, LeastNat
<1>3. m # 0
  <2>1. SUFFICES ASSUME m = 0 PROVE FALSE
    OBVIOUS
  <2> DEFINE g == [i \in 0 .. 0 |-> ScanStart(lo, hi)]
  <2>2. IsScan(g, bs, 0, lo, hi, type)
    BY DEF IsScan
  <2> QED BY <1>2, <2>1, <2>2
<1>4. m \in Nat /\ m - 1 \in Nat
  BY <1>2, <1>3
<1>5. PICK f : IsScan(f, bs, m - 1, lo, hi, type)
  BY <1>2, <1>4
<1> DEFINE g == [i \in 0 .. m |-> IF i < m THEN f[i] ELSE ScanBank(f[m - 1], bs[m], type)]
<1>6. IsScan(g, bs, m, lo, hi, type)
  <2>1. g = [i \in 0 .. m |-> g[i]]
    OBVIOUS
  <2>2. g[0] = ScanStart(lo, hi)
    BY <1>3, <1>4, <1>5 DEF IsScan
  <2>3. ASSUME NEW i \in 1 .. m PROVE g[i] = ScanBank(g[i - 1], bs[i], type)
    <3>1. g[i - 1] = f[i - 1]
      BY <1>4
    <3>2. CASE i < m
      <4>1. f[i] = ScanBank(f[i - 1], bs[i], type)
        <5>1. \A j \in 1 .. m - 1 : f[j] = ScanBank(f[j - 1], bs[j], type)
          BY <1>5, Zenon DEF IsScan
        <5>2. i \in 1 .. m - 1
          BY <1>4, <3>2
        <5> QED BY <5>1, <5>2
      <4>2. g[i] = f[i]
        BY <1>4, <3>2
      <4> QED BY <3>1, <4>1, <4>2
    <3>3. CASE i = m
      <4>2. g[i] = ScanBank(f[m - 1], bs[m], type)
        BY <1>4, <3>3
      <4> QED BY <3>1, <3>3, <4>2
    <3> QED BY <1>4, <3>2, <3>3
  <2> HIDE DEF g
  <2> QED BY <2>1, <2>2, <2>3 DEF IsScan
<1> QED BY <1>2, <1>6

\* Scan is the last value of such a solution.
LEMMA ScanIs ==
  ASSUME NEW bs, Len(bs) \in Nat, NEW lo, NEW hi, NEW type
  PROVE  \E f : IsScan(f, bs, Len(bs), lo, hi, type) /\ Scan(bs, lo, hi, type) = f[Len(bs)]
<1> DEFINE Step(f) == [i \in 0 .. Len(bs) |-> IF i = 0 THEN ScanStart(lo, hi) ELSE ScanBank(f[i - 1], bs[i], type)]
           h == CHOOSE f : f = Step(f)
<1>1. PICK f : IsScan(f, bs, Len(bs), lo, hi, type)
  BY ScansExist
<1>2. f = Step(f)
  <2>1. \A i \in 0 .. Len(bs) : f[i] = IF i = 0 THEN ScanStart(lo, hi) ELSE ScanBank(f[i - 1], bs[i], type)
    BY <1>1 DEF IsScan
  <2>2. f = [i \in 0 .. Len(bs) |-> f[i]]
    BY <1>1, Zenon DEF IsScan
  <2> QED BY <2>1, <2>2
<1>3. h = Step(h)
  <2> HIDE DEF Step
  <2> QED BY <1>2
<1>4. Scan(bs, lo, hi, type) = h[Len(bs)]
  BY Zenon DEF Scan, ScanStart
<1> HIDE DEF h
<1>5. \A i \in 0 .. Len(bs) : h[i] = IF i = 0 THEN ScanStart(lo, hi) ELSE ScanBank(h[i - 1], bs[i], type)
  BY <1>3, Zenon
<1>6. h = [i \in 0 .. Len(bs) |-> h[i]]
  <2>1. DOMAIN h = 0 .. Len(bs)
    BY <1>3, Zenon
  <2>2. h = [i \in DOMAIN h |-> h[i]]
    BY <1>3
  <2> HIDE DEF Step
  <2> QED BY <2>1, <2>2
<1> HIDE DEF Step
<1>7. IsScan(h, bs, Len(bs), lo, hi, type)
  BY <1>5, <1>6 DEF IsScan
<1> QED BY <1>4, <1>7

\* A bank leaves a list, and one enters it.
LEMMA BankRemoved ==
  ASSUME NEW l \in Seq(BankRecords), NEW i \in 1 .. Len(l), NEW m, m = RemoveAt(l, i)
  PROVE  /\ m \in Seq(BankRecords) /\ Len(m) = Len(l) - 1 /\ Len(l) \in Nat
         /\ \A j \in 1 .. Len(m) : m[j] = IF j < i THEN l[j] ELSE l[j + 1]
<1> DEFINE a == SubSeq(l, 1, i - 1)
           b == SubSeq(l, i + 1, Len(l))
<1>1. Len(l) \in Nat /\ i \in Nat
  OBVIOUS
<1>2. a \in Seq(BankRecords) /\ Len(a) = i - 1 /\ \A j \in 1 .. i - 1 : a[j] = l[j]
  BY <1>1
<1>3. b \in Seq(BankRecords) /\ Len(b) = Len(l) - i /\ \A j \in 1 .. Len(l) - i : b[j] = l[i + j]
  BY <1>1
<1>4. m = a \o b
  BY DEF RemoveAt
<1> HIDE DEF a, b
<1>5. m \in Seq(BankRecords) /\ Len(m) = Len(a) + Len(b)
  BY <1>2, <1>3, <1>4, ConcatProperties
<1>6. \A j \in 1 .. Len(m) : m[j] = IF j <= Len(a) THEN a[j] ELSE b[j - Len(a)]
  BY <1>2, <1>3, <1>4, ConcatProperties
<1>7. ASSUME NEW j \in 1 .. Len(m) PROVE m[j] = IF j < i THEN l[j] ELSE l[j + 1]
  <2>1. CASE j < i
    BY <1>1, <1>2, <1>6, <2>1
  <2>2. CASE ~(j < i)
    <3>1. m[j] = b[j - Len(a)] /\ j - Len(a) \in 1 .. Len(l) - i /\ i + (j - Len(a)) = j + 1
      BY <1>1, <1>2, <1>3, <1>5, <1>6, <2>2
    <3> QED BY <1>3, <2>2, <3>1
  <2> QED BY <2>1, <2>2
<1>8. Len(m) = Len(l) - 1
  BY <1>1, <1>2, <1>3, <1>5
<1> QED BY <1>1, <1>5, <1>7, <1>8

Inserted(m, l, i, b) ==
  /\ m \in Seq(BankRecords) /\ Len(m) = Len(l) + 1 /\ Len(l) \in Nat
  /\ \A j \in 1 .. Len(m) : m[j] = IF j < i THEN l[j] ELSE IF j = i THEN b ELSE l[j - 1]

\* What InsertAt gives: the banks before the place, the new one, the banks
\* after it.
LEMMA BankInserted ==
  ASSUME NEW l, l \in Seq(BankRecords), NEW i, i \in 1 .. Len(l) + 1, NEW b, b \in BankRecords, NEW m, m = InsertAt(l, i, b)
  PROVE  Inserted(m, l, i, b)
<1> DEFINE p == SubSeq(l, 1, i - 1)
           q == SubSeq(l, i, Len(l))
           r == p \o <<b>>
<1>1. Len(l) \in Nat /\ i \in Nat
  OBVIOUS
<1>2. p \in Seq(BankRecords) /\ Len(p) = i - 1 /\ \A j \in 1 .. i - 1 : p[j] = l[j]
  BY <1>1
<1>3. q \in Seq(BankRecords) /\ Len(q) = Len(l) - i + 1 /\ \A j \in 1 .. Len(l) - i + 1 : q[j] = l[i + j - 1]
  BY <1>1
<1>4. m = r \o q
  BY DEF InsertAt
<1> HIDE DEF p, q
<1>5. r \in Seq(BankRecords) /\ Len(r) = i /\ (\A j \in 1 .. i - 1 : r[j] = l[j]) /\ r[i] = b
  <2>1. r = Append(p, b)
    BY <1>2
  <2> HIDE DEF r
  <2>2. r \in Seq(BankRecords) /\ Len(r) = Len(p) + 1 /\ (\A j \in 1 .. Len(p) : r[j] = p[j]) /\ r[Len(p) + 1] = b
    BY <1>2, <2>1
  <2> QED BY <1>1, <1>2, <2>2
<1> HIDE DEF r
<1>a. r \in Seq(BankRecords) /\ q \in Seq(BankRecords)
  BY <1>3, <1>5
<1>6. m \in Seq(BankRecords) /\ Len(m) = Len(r) + Len(q)
  BY <1>4, <1>a, ConcatProperties
<1>7. \A j \in 1 .. Len(m) : m[j] = IF j <= Len(r) THEN r[j] ELSE q[j - Len(r)]
  BY <1>4, <1>a, ConcatProperties
<1>8. Len(m) = Len(l) + 1
  BY <1>1, <1>3, <1>5, <1>6
<1>9. ASSUME NEW j \in 1 .. Len(m) PROVE m[j] = IF j < i THEN l[j] ELSE IF j = i THEN b ELSE l[j - 1]
  <2>1. CASE j <= i
    BY <1>1, <1>5, <1>7, <2>1
  <2>2. CASE ~(j <= i)
    <3>1. m[j] = q[j - i] /\ j - i \in 1 .. Len(l) - i + 1 /\ i + (j - i) - 1 = j - 1
      BY <1>1, <1>5, <1>7, <1>8, <2>2
    <3>2. q[j - i] = l[i + (j - i) - 1]
      BY <1>3, <3>1
    <3> QED BY <1>1, <2>2, <3>1, <3>2
  <2> QED BY <1>1, <2>1, <2>2
<1> QED BY <1>1, <1>6, <1>8, <1>9 DEF Inserted

-----------------------------------------------------------------------------
(* What the scan of i banks of bs has found and left.                      *)

ScanStates == [lo : Nat, hi : Nat, slot : Nat, at : Nat, merged : Nat, err : BOOLEAN,
               left : Seq(BankRecords)]
Stems(a, b) == /\ a.slot = b.slot /\ a.host = b.host /\ a.type = b.type
               /\ a = b \/ b.type = "reserved"
Origins(l, i, bs) == \A j \in 1 .. Len(l) : \E n \in 1 .. i : Stems(l[j], bs[n])
Retained(l, i, bs) == \A n \in 1 .. i : bs[n].type # "reserved" => \E j \in 1 .. Len(l) : l[j] = bs[n]
Untouched(l, i, bs) == Len(l) = i /\ \A j \in 1 .. i : l[j] = bs[j]
SlotFound(s, i, bs, lo, hi) ==
  /\ s.lo = lo /\ s.hi = hi /\ s.at <= i
  /\ s.at = 0 => s.slot = 0
  /\ s.at > 0 => s.slot = bs[s.at].slot + 1
  /\ \A j \in 1 .. i : /\ Apart(lo, hi, bs[j])
                       /\ j <= s.at => bs[j].slot < s.slot
                       /\ j > s.at => bs[j].slot > s.slot
MergedWell(s, i, bs) ==
  /\ \A j \in 1 .. Len(s.left) : j # s.merged =>
       Apart(s.lo, s.hi, s.left[j]) /\ \E n \in 1 .. i : s.left[j] = bs[n]
  /\ s.merged # 0 => s.left[s.merged].lo = s.lo /\ s.left[s.merged].hi = s.hi
ScanInv(s, i, bs, lo, hi) ==
  /\ s \in ScanStates /\ s.lo <= s.hi /\ s.merged <= Len(s.left)
  /\ Solid(s.left) /\ Ascending(s.left) /\ Origins(s.left, i, bs) /\ Retained(s.left, i, bs)
  /\ s.merged # 0 => s.left[s.merged].type = "reserved"
  /\ s.merged = 0 => Untouched(s.left, i, bs)
  /\ s.merged = 0 /\ ~s.err => SlotFound(s, i, bs, lo, hi)
  /\ ~s.err /\ AllApart(bs) => MergedWell(s, i, bs)

\* A bank is looked at and stays as it is.
MayStay(l, i, bs, b) ==
  /\ bs \in Seq(BankRecords) /\ i \in 1 .. Len(bs) /\ l \in Seq(BankRecords) /\ b \in BankRecords
  /\ Solid(bs) /\ Ascending(bs) /\ Solid(l) /\ Ascending(l)
  /\ Origins(l, i - 1, bs) /\ Retained(l, i - 1, bs) /\ Stems(b, bs[i]) /\ b.lo <= b.hi
Stayed(m, l, i, bs, b) ==
  /\ m \in Seq(BankRecords) /\ Len(m) = Len(l) + 1 /\ Len(l) \in Nat
  /\ (\A j \in 1 .. Len(l) : m[j] = l[j]) /\ m[Len(l) + 1] = b
  /\ Solid(m) /\ Ascending(m) /\ Origins(m, i, bs) /\ Retained(m, i, bs)

\* A bank the scan passes joins the list of the banks that stay.
LEMMA BankStays ==
  ASSUME NEW l, NEW i, NEW bs, NEW b, MayStay(l, i, bs, b), NEW m, m = Append(l, b)
  PROVE  Stayed(m, l, i, bs, b)
<1> USE DEF MayStay
<1>1. /\ m \in Seq(BankRecords) /\ Len(m) = Len(l) + 1 /\ Len(l) \in Nat
      /\ (\A j \in 1 .. Len(l) : m[j] = l[j]) /\ m[Len(l) + 1] = b
  OBVIOUS
<1>2. DOMAIN m = 1 .. Len(m) /\ DOMAIN l = 1 .. Len(l) /\ DOMAIN bs = 1 .. Len(bs) /\ Len(bs) \in Nat
  BY <1>1
<1>3. \A j \in 1 .. Len(m) : j = Len(l) + 1 \/ j \in 1 .. Len(l)
  BY <1>1
<1>4. Solid(m)
  BY <1>1, <1>2, <1>3 DEF Solid
<1>5. Origins(m, i, bs)
  <2> SUFFICES ASSUME NEW j \in 1 .. Len(m) PROVE \E n \in 1 .. i : Stems(m[j], bs[n])
    BY DEF Origins
  <2>1. CASE j = Len(l) + 1
    BY <1>1, <2>1
  <2>2. CASE j \in 1 .. Len(l)
    <3>1. PICK n \in 1 .. i - 1 : Stems(l[j], bs[n])
      BY <2>2 DEF Origins
    <3> QED BY <1>1, <2>2, <3>1
  <2> QED BY <1>3, <2>1, <2>2
<1>6. Ascending(m)
  <2>1. \A j \in 1 .. Len(l) : l[j].slot < b.slot
    <3> TAKE j \in 1 .. Len(l)
    <3>1. PICK n \in 1 .. i - 1 : Stems(l[j], bs[n])
      BY DEF Origins
    <3>2. bs[n].slot < bs[i].slot
      BY <1>2 DEF Ascending
    <3> QED BY <3>1, <3>2 DEF Stems
  <2> SUFFICES ASSUME NEW x \in 1 .. Len(m), NEW y \in 1 .. Len(m), x < y PROVE m[x].slot < m[y].slot
    BY <1>2 DEF Ascending
  <2>2. CASE y = Len(l) + 1
    BY <1>1, <2>1, <2>2
  <2>3. CASE y \in 1 .. Len(l)
    <3>1. x \in 1 .. Len(l)
      BY <1>1, <2>3
    <3> QED BY <1>1, <1>2, <2>3, <3>1 DEF Ascending
  <2> QED BY <1>3, <2>2, <2>3
<1>7. Retained(m, i, bs)
  <2> SUFFICES ASSUME NEW n \in 1 .. i, bs[n].type # "reserved" PROVE \E j \in 1 .. Len(m) : m[j] = bs[n]
    BY DEF Retained
  <2>1. CASE n = i
    BY <1>1, <2>1 DEF Stems
  <2>2. CASE n # i
    <3>1. PICK j \in 1 .. Len(l) : l[j] = bs[n]
      BY <2>2 DEF Retained
    <3> QED BY <1>1, <3>1
  <2> QED BY <2>1, <2>2
<1> QED BY <1>1, <1>4, <1>5, <1>6, <1>7 DEF Stayed


\* The four cases of a turn of the scan.
Passed(t, s, b, free, place, err) ==
  /\ t \in ScanStates /\ t.left = Append(s.left, b)
  /\ t.lo = s.lo /\ t.hi = s.hi /\ t.merged = s.merged
  /\ t.slot = free /\ t.at = place /\ (t.err <=> err)
Others(s) == IF s.merged = 0 THEN s.left ELSE RemoveAt(s.left, s.merged)
Grown(s, b) == [b EXCEPT !.lo = Lesser(b.lo, s.lo), !.hi = Greater(b.hi, s.hi)]
Swallowed(t, s, b) ==
  /\ t \in ScanStates /\ t.left = Append(Others(s), Grown(s, b))
  /\ t.lo = Grown(s, b).lo /\ t.hi = Grown(s, b).hi /\ t.merged = Len(Others(s)) + 1
  /\ ~t.err

\* The bounds of the range after it swallows a bank.
LEMMA GrownIs ==
  ASSUME NEW s \in ScanStates, s.lo <= s.hi, NEW b \in BankRecords, b.lo <= b.hi
  PROVE  /\ Grown(s, b) \in BankRecords
         /\ Grown(s, b).lo = Lesser(b.lo, s.lo) /\ Grown(s, b).hi = Greater(b.hi, s.hi)
         /\ Grown(s, b).slot = b.slot /\ Grown(s, b).host = b.host /\ Grown(s, b).type = b.type
         /\ Grown(s, b).lo <= Grown(s, b).hi
<1> DEFINE l == Lesser(b.lo, s.lo)
           h == Greater(b.hi, s.hi)
<1>1. b.lo \in Nat /\ b.hi \in Nat /\ s.lo \in Nat /\ s.hi \in Nat
  BY DEF BankRecords, ScanStates
<1>2. l \in Nat /\ h \in Nat /\ l <= h
  BY <1>1 DEF Lesser, Greater
<1> HIDE DEF l, h
<1>3. Grown(s, b) = [b EXCEPT !.lo = l, !.hi = h]
  BY DEF Grown, l, h
<1>4. /\ Grown(s, b) \in BankRecords /\ Grown(s, b).lo = l /\ Grown(s, b).hi = h
      /\ Grown(s, b).slot = b.slot /\ Grown(s, b).host = b.host /\ Grown(s, b).type = b.type
  BY <1>2, <1>3 DEF BankRecords
<1> QED BY <1>2, <1>4 DEF l, h

\* What the scan leaves is a list of banks.
LEMMA OthersAre ==
  ASSUME NEW s \in ScanStates, s.merged <= Len(s.left)
  PROVE  Others(s) \in Seq(BankRecords)
<1>1. s.left \in Seq(BankRecords) /\ s.merged \in Nat /\ Len(s.left) \in Nat
  BY DEF ScanStates
<1>2. CASE s.merged = 0
  BY <1>1, <1>2 DEF Others
<1>3. CASE s.merged # 0
  <2>1. s.merged \in 1 .. Len(s.left)
    BY <1>1, <1>3
  <2> QED BY <1>1, <1>3, <2>1, BankRemoved DEF Others
<1> QED BY <1>2, <1>3

\* One iteration of kvm__register_mem's loop fails, passes the bank or
\* swallows it.
LEMMA ScanCases ==
  ASSUME NEW s \in ScanStates, s.lo <= s.hi, s.merged <= Len(s.left),
         NEW b \in BankRecords, b.lo <= b.hi, NEW type, NEW t, t = ScanBank(s, b, type)
  PROVE  \/ s.err /\ Passed(t, s, b, s.slot, s.at, TRUE)
         \/ /\ ~s.err /\ Apart(s.lo, s.hi, b) /\ b.slot = s.slot
            /\ Passed(t, s, b, s.slot + 1, Len(s.left) + 1, FALSE)
         \/ ~s.err /\ Apart(s.lo, s.hi, b) /\ b.slot # s.slot /\ Passed(t, s, b, s.slot, s.at, FALSE)
         \/ ~s.err /\ ~Apart(s.lo, s.hi, b) /\ b.type = "reserved" /\ Swallowed(t, s, b)
         \/ ~s.err /\ ~Apart(s.lo, s.hi, b) /\ Passed(t, s, b, s.slot, s.at, TRUE)
<1>1. s.err \in BOOLEAN /\ s.left \in Seq(BankRecords) /\ Len(s.left) + 1 \in Nat /\ s.slot + 1 \in Nat
  BY DEF ScanStates
<1>2. Append(s.left, b) \in Seq(BankRecords)
  BY <1>1
<1>3. PICK l : l = Append(s.left, b)
  OBVIOUS
<1>4. CASE s.err
  <2>1. t = [s EXCEPT !.left = l]
    BY <1>3, <1>4 DEF ScanBank
  <2>2. Passed(t, s, b, s.slot, s.at, TRUE)
    BY <1>2, <1>3, <1>4, <2>1 DEF Passed, ScanStates
  <2> QED BY <1>4, <2>2
<1>5. CASE ~s.err /\ Apart(s.lo, s.hi, b) /\ b.slot = s.slot
  <2>1. t = [s EXCEPT !.left = l, !.slot = s.slot + 1, !.at = Len(s.left) + 1]
    BY <1>3, <1>5 DEF ScanBank
  <2>2. Passed(t, s, b, s.slot + 1, Len(s.left) + 1, FALSE)
    <3>1. PICK n \in Nat, m \in Nat : n = s.slot + 1 /\ m = Len(s.left) + 1
      BY <1>1
    <3> QED BY <1>2, <1>3, <1>5, <2>1, <3>1 DEF Passed, ScanStates
  <2> QED BY <1>5, <2>2
<1>6. CASE ~s.err /\ Apart(s.lo, s.hi, b) /\ b.slot # s.slot
  <2>1. t = [s EXCEPT !.left = l]
    BY <1>3, <1>6 DEF ScanBank
  <2>2. Passed(t, s, b, s.slot, s.at, FALSE)
    BY <1>2, <1>3, <1>6, <2>1 DEF Passed, ScanStates
  <2> QED BY <1>6, <2>2
<1>7. CASE ~s.err /\ ~Apart(s.lo, s.hi, b) /\ b.type = "reserved" /\ type = "reserved"
  <2>1. PICK o, g, n : o = Others(s) /\ g = Grown(s, b) /\ n = Len(o) + 1
    OBVIOUS
  <2>2. /\ o \in Seq(BankRecords) /\ g \in BankRecords /\ n \in Nat /\ Append(o, g) \in Seq(BankRecords)
        /\ g.lo = Lesser(b.lo, s.lo) /\ g.hi = Greater(b.hi, s.hi) /\ g.lo \in Nat /\ g.hi \in Nat
    <3>1. o \in Seq(BankRecords) /\ g \in BankRecords /\ g.lo = Lesser(b.lo, s.lo) /\ g.hi = Greater(b.hi, s.hi)
      BY <2>1, GrownIs, OthersAre
    <3>2. g.lo \in Nat /\ g.hi \in Nat
      BY <3>1 DEF BankRecords
    <3> QED BY <2>1, <3>1, <3>2
  <2>3. t = [s EXCEPT !.lo = g.lo, !.hi = g.hi, !.merged = n, !.left = Append(o, g)]
    <3>1. t = [s EXCEPT !.lo = Lesser(b.lo, s.lo), !.hi = Greater(b.hi, s.hi), !.merged = Len(Others(s)) + 1,
                        !.left = Append(Others(s), Grown(s, b))]
      BY <1>7 DEF ScanBank, Others, Grown
    <3> QED BY <2>1, <2>2, <3>1
  <2>4. Swallowed(t, s, b)
    <3>1. PICK z : z = Append(o, g)
      OBVIOUS
    <3>2. /\ t \in ScanStates /\ t.left = z /\ t.lo = g.lo /\ t.hi = g.hi /\ t.merged = n /\ (t.err <=> s.err)
      BY <2>2, <2>3, <3>1 DEF ScanStates
    <3> QED BY <1>7, <2>1, <3>1, <3>2 DEF Swallowed
  <2> QED BY <1>7, <2>4
<1>8. CASE ~s.err /\ ~Apart(s.lo, s.hi, b) /\ ~(b.type = "reserved" /\ type = "reserved")
  <2>1. t = [s EXCEPT !.left = l, !.err = TRUE]
    BY <1>3, <1>8 DEF ScanBank
  <2>2. Passed(t, s, b, s.slot, s.at, TRUE)
    BY <1>2, <1>3, <2>1 DEF Passed, ScanStates
  <2> QED BY <1>8, <2>2
<1> QED BY <1>1, <1>4, <1>5, <1>6, <1>7, <1>8


\* An iteration that passes the bank keeps ScanInv.
LEMMA ScanPasses ==
  ASSUME NEW bs \in Seq(BankRecords), Solid(bs), Ascending(bs), NEW i \in 1 .. Len(bs), NEW lo, NEW hi,
         NEW s, ScanInv(s, i - 1, bs, lo, hi), NEW free, NEW place, NEW err \in BOOLEAN, NEW t, Passed(t, s, bs[i], free, place, err),
         ~err => ~s.err /\ Apart(s.lo, s.hi, bs[i]),
         ~err => \/ bs[i].slot = s.slot /\ free = s.slot + 1 /\ place = Len(s.left) + 1
                 \/ bs[i].slot # s.slot /\ free = s.slot /\ place = s.at
  PROVE  ScanInv(t, i, bs, lo, hi)
<1> DEFINE b == bs[i]
<1>0. Len(bs) \in Nat /\ DOMAIN bs = 1 .. Len(bs) /\ bs[i] \in BankRecords /\ Stems(b, bs[i]) /\ b.lo <= b.hi
  BY DEF Stems, Solid
<1>1. /\ s \in ScanStates /\ s.lo <= s.hi /\ s.merged <= Len(s.left) /\ s.left \in Seq(BankRecords)
      /\ s.merged \in Nat /\ s.lo \in Nat /\ s.hi \in Nat /\ s.slot \in Nat /\ s.at \in Nat
      /\ Solid(s.left) /\ Ascending(s.left) /\ Origins(s.left, i - 1, bs) /\ Retained(s.left, i - 1, bs)
  BY DEF ScanInv, ScanStates
<1>2. /\ t \in ScanStates /\ t.left = Append(s.left, b)
      /\ t.lo = s.lo /\ t.hi = s.hi /\ t.merged = s.merged
      /\ t.slot = free /\ t.at = place /\ (t.err <=> err)
  BY DEF Passed
<1> HIDE DEF b
<1>3. /\ t.left \in Seq(BankRecords) /\ Len(t.left) = Len(s.left) + 1 /\ Len(s.left) \in Nat
      /\ (\A j \in 1 .. Len(s.left) : t.left[j] = s.left[j]) /\ t.left[Len(s.left) + 1] = b
      /\ Solid(t.left) /\ Ascending(t.left) /\ Origins(t.left, i, bs)
      /\ Retained(t.left, i, bs)
  <2>1. PICK l, m, c : l = s.left /\ m = t.left /\ c = b
    OBVIOUS
  <2>2. /\ l \in Seq(BankRecords) /\ Solid(l) /\ Ascending(l) /\ Origins(l, i - 1, bs) /\ Retained(l, i - 1, bs)
        /\ c \in BankRecords /\ Stems(c, bs[i]) /\ c.lo <= c.hi /\ m = Append(l, c)
    BY <1>0, <1>1, <1>2, <2>1 DEF b
  <2>3. /\ m \in Seq(BankRecords) /\ Len(m) = Len(l) + 1 /\ Len(l) \in Nat
        /\ (\A j \in 1 .. Len(l) : m[j] = l[j]) /\ m[Len(l) + 1] = c
        /\ Solid(m) /\ Ascending(m) /\ Origins(m, i, bs) /\ Retained(m, i, bs)
    <3>1. MayStay(l, i, bs, c)
      BY <2>2 DEF MayStay
    <3>2. Stayed(m, l, i, bs, c)
      BY <2>2, <3>1, BankStays
    <3> QED BY <3>2, Zenon DEF Stayed
  <2> QED BY <2>1, <2>3
<1>4. t.merged <= Len(t.left)
  BY <1>1, <1>2, <1>3
<1>5. ASSUME t.merged # 0 PROVE t.left[t.merged] = s.left[s.merged] /\ t.left[t.merged].type = "reserved"
  <2>1. s.merged \in 1 .. Len(s.left) /\ s.merged # 0
    BY <1>1, <1>2, <1>3, <1>5
  <2> QED BY <1>2, <1>3, <2>1 DEF ScanInv
<1>6. ASSUME t.merged = 0 PROVE Untouched(s.left, i - 1, bs) /\ Untouched(t.left, i, bs)
  <2>1. Len(s.left) = i - 1 /\ \A j \in 1 .. i - 1 : s.left[j] = bs[j]
    BY <1>2, <1>6 DEF ScanInv, Untouched
  <2>2. Len(t.left) = i
    BY <1>3, <2>1
  <2>3. ASSUME NEW j \in 1 .. i PROVE t.left[j] = bs[j]
    <3>1. CASE j = i
      <4>1. j = Len(s.left) + 1
        BY <2>1, <3>1
      <4> QED BY <1>3, <3>1, <4>1 DEF b
    <3>2. CASE j # i
      <4>1. j \in 1 .. i - 1 /\ j \in 1 .. Len(s.left)
        BY <2>1, <3>2
      <4> QED BY <1>3, <2>1, <4>1
    <3> QED BY <3>1, <3>2
  <2> QED BY <2>1, <2>2, <2>3 DEF Untouched
<1>7. ASSUME t.merged = 0, ~t.err PROVE SlotFound(t, i, bs, lo, hi)
  <2>1. ~err /\ ~s.err /\ s.merged = 0
    BY <1>2, <1>7
  <2>2. SlotFound(s, i - 1, bs, lo, hi) /\ Len(s.left) = i - 1
    BY <1>6, <1>7, <2>1 DEF ScanInv, Untouched
  <2>3. /\ s.lo = lo /\ s.hi = hi /\ s.at <= i - 1
        /\ s.at = 0 => s.slot = 0
        /\ s.at > 0 => s.slot = bs[s.at].slot + 1
        /\ \A j \in 1 .. i - 1 : /\ Apart(lo, hi, bs[j])
                                 /\ j <= s.at => bs[j].slot < s.slot
                                 /\ j > s.at => bs[j].slot > s.slot
    BY <2>2 DEF SlotFound
  <2>4. \A j \in 1 .. i - 1 : bs[j].slot < bs[i].slot /\ bs[j].slot \in Nat
    <3> TAKE j \in 1 .. i - 1
    <3>1. j \in DOMAIN bs /\ i \in DOMAIN bs /\ j < i
      BY <1>0
    <3>2. bs[j].slot < bs[i].slot
      BY <3>1 DEF Ascending
    <3>3. bs[j] \in BankRecords
      BY <3>1
    <3> QED BY <3>2, <3>3 DEF BankRecords
  <2>5. bs[i].slot \in Nat /\ Apart(lo, hi, bs[i])
    BY <1>0, <2>1, <2>3 DEF BankRecords, b
  <2>6. CASE bs[i].slot = s.slot /\ free = s.slot + 1 /\ place = Len(s.left) + 1
    <3>1. t.at = i /\ t.slot = s.slot + 1
      BY <1>2, <2>2, <2>6
    <3>2. \A j \in 1 .. i : bs[j].slot < t.slot
      <4> TAKE j \in 1 .. i
      <4> QED BY <1>1, <2>4, <2>6, <3>1
    <3>3. \A j \in 1 .. i : Apart(lo, hi, bs[j])
      BY <2>3, <2>5
    <3> QED BY <1>2, <2>3, <2>6, <3>1, <3>2, <3>3 DEF SlotFound
  <2>7. CASE bs[i].slot # s.slot /\ free = s.slot /\ place = s.at
    <3>1. t.at = s.at /\ t.slot = s.slot
      BY <1>2, <2>7
    <3>2. bs[i].slot > s.slot
      <4>1. CASE s.at = 0 /\ i = 1
        BY <2>3, <2>5, <2>7, <4>1
      <4>2. CASE s.at = i - 1 /\ i # 1
        <5>1. s.at \in 1 .. i - 1 /\ s.at > 0
          BY <4>2
        <5> QED BY <1>1, <2>3, <2>4, <2>5, <2>7, <5>1
      <4>3. CASE s.at < i - 1
        <5>1. PICK k \in 1 .. i - 1 : k = i - 1 /\ k > s.at
          BY <1>1, <4>3
        <5>2. bs[k].slot > s.slot /\ bs[k].slot < bs[i].slot /\ bs[k].slot \in Nat
          BY <2>3, <2>4, <5>1
        <5> QED BY <1>1, <2>5, <5>2, SMTT(30)
      <4> QED BY <1>1, <2>3, <4>1, <4>2, <4>3
    <3>3. \A j \in 1 .. i : Apart(lo, hi, bs[j])
      BY <2>3, <2>5
    <3>4. \A j \in 1 .. i : (j <= s.at => bs[j].slot < s.slot) /\ (j > s.at => bs[j].slot > s.slot)
      <4> TAKE j \in 1 .. i
      <4>1. CASE j = i
        BY <1>1, <2>3, <3>2, <4>1
      <4>2. CASE j # i
        BY <2>3, <4>2
      <4> QED BY <4>1, <4>2
    <3> QED BY <1>1, <1>2, <2>3, <3>1, <3>3, <3>4 DEF SlotFound
  <2> QED BY <2>1, <2>6, <2>7
<1>8. ASSUME ~t.err, AllApart(bs) PROVE MergedWell(t, i, bs)
  <2>1. MergedWell(s, i - 1, bs) /\ Apart(s.lo, s.hi, bs[i])
    BY <1>2, <1>8 DEF ScanInv
  <2>2. ASSUME NEW j \in 1 .. Len(t.left), j # t.merged
        PROVE  Apart(t.lo, t.hi, t.left[j]) /\ \E n \in 1 .. i : t.left[j] = bs[n]
    <3>1. CASE j = Len(s.left) + 1
      BY <1>2, <1>3, <2>1, <3>1 DEF b
    <3>2. CASE j \in 1 .. Len(s.left)
      <4>1. PICK n \in 1 .. i - 1 : Apart(s.lo, s.hi, s.left[j]) /\ s.left[j] = bs[n]
        BY <1>2, <2>1, <2>2, <3>2 DEF MergedWell
      <4> QED BY <1>2, <1>3, <3>2, <4>1
    <3> QED BY <1>3, <3>1, <3>2
  <2>3. t.merged # 0 => t.left[t.merged].lo = t.lo /\ t.left[t.merged].hi = t.hi
    BY <1>2, <1>5, <2>1 DEF MergedWell
  <2> QED BY <2>2, <2>3 DEF MergedWell
<1> QED BY <1>1, <1>2, <1>3, <1>4, <1>5, <1>6, <1>7, <1>8 DEF ScanInv

\* What is apart from two regions that meet is apart from their union.
LEMMA UnionApart ==
  ASSUME NEW s \in ScanStates, s.lo <= s.hi, NEW b \in BankRecords, b.lo <= b.hi, NEW x \in BankRecords, x.lo <= x.hi,
         ~Apart(s.lo, s.hi, b), Apart(s.lo, s.hi, x), Apart(b.lo, b.hi, x)
  PROVE  Apart(Lesser(b.lo, s.lo), Greater(b.hi, s.hi), x)
<1>1. b.lo \in Nat /\ b.hi \in Nat /\ s.lo \in Nat /\ s.hi \in Nat /\ x.lo \in Nat /\ x.hi \in Nat
  BY DEF BankRecords, ScanStates
<1> QED BY <1>1 DEF Apart, Lesser, Greater

\* An iteration that swallows the bank keeps ScanInv.
LEMMA ScanSwallows ==
  ASSUME NEW bs \in Seq(BankRecords), Solid(bs), Ascending(bs), NEW i \in 1 .. Len(bs), NEW lo, NEW hi,
         NEW s, ScanInv(s, i - 1, bs, lo, hi), NEW t, Swallowed(t, s, bs[i]),
         ~s.err, ~Apart(s.lo, s.hi, bs[i]), bs[i].type = "reserved"
  PROVE  ScanInv(t, i, bs, lo, hi)
<1>0. PICK b, o, g : b = bs[i] /\ o = Others(s) /\ g = Grown(s, bs[i])
  OBVIOUS
<1>1. Len(bs) \in Nat /\ DOMAIN bs = 1 .. Len(bs) /\ b \in BankRecords /\ b.lo <= b.hi /\ b.type = "reserved"
  BY <1>0 DEF Solid
<1>2. /\ s \in ScanStates /\ s.lo <= s.hi /\ s.merged <= Len(s.left) /\ s.left \in Seq(BankRecords)
      /\ s.merged \in Nat /\ s.lo \in Nat /\ s.hi \in Nat /\ Len(s.left) \in Nat /\ DOMAIN s.left = 1 .. Len(s.left)
      /\ Solid(s.left) /\ Ascending(s.left) /\ Origins(s.left, i - 1, bs) /\ Retained(s.left, i - 1, bs)
      /\ s.merged # 0 => s.left[s.merged].type = "reserved"
  BY DEF ScanInv, ScanStates
<1>3. /\ t \in ScanStates /\ t.left = Append(o, g) /\ t.lo = g.lo /\ t.hi = g.hi /\ t.merged = Len(o) + 1 /\ ~t.err
  BY <1>0 DEF Swallowed
<1>4. /\ g \in BankRecords /\ g.lo = Lesser(b.lo, s.lo) /\ g.hi = Greater(b.hi, s.hi)
      /\ g.slot = b.slot /\ g.host = b.host /\ g.type = b.type /\ g.lo <= g.hi
  BY <1>0, <1>1, <1>2, GrownIs
<1>5. o \in Seq(BankRecords) /\ Len(o) \in Nat /\ DOMAIN o = 1 .. Len(o)
  <2>1. o \in Seq(BankRecords)
    BY <1>0, <1>2, OthersAre
  <2> QED BY <2>1
\* The others are the banks left but for the one that had swallowed.
<1>6. /\ \A j \in 1 .. Len(o) : \E n \in 1 .. Len(s.left) : n # s.merged /\ o[j] = s.left[n]
      /\ \A n \in 1 .. Len(s.left) : n # s.merged => \E j \in 1 .. Len(o) : o[j] = s.left[n]
      /\ Ascending(o)
  <2>1. CASE s.merged = 0
    <3>1. o = s.left
      BY <1>0, <2>1 DEF Others
    <3> QED BY <1>2, <2>1, <3>1
  <2>2. CASE s.merged # 0
    <3>1. s.merged \in 1 .. Len(s.left) /\ o = RemoveAt(s.left, s.merged)
      BY <1>0, <1>2, <2>2 DEF Others
    <3>2. Len(o) = Len(s.left) - 1 /\ \A j \in 1 .. Len(o) : o[j] = IF j < s.merged THEN s.left[j] ELSE s.left[j + 1]
      <4>1. PICK l, n : l = s.left /\ n = s.merged
        OBVIOUS
      <4>2. l \in Seq(BankRecords) /\ n \in 1 .. Len(l) /\ o = RemoveAt(l, n)
        BY <1>2, <3>1, <4>1
      <4>3. Len(o) = Len(l) - 1 /\ \A j \in 1 .. Len(o) : o[j] = IF j < n THEN l[j] ELSE l[j + 1]
        BY <4>2, BankRemoved
      <4> QED BY <4>1, <4>3
    <3>3. ASSUME NEW j \in 1 .. Len(o) PROVE \E n \in 1 .. Len(s.left) : n # s.merged /\ o[j] = s.left[n]
      <4>1. CASE j < s.merged
        <5>1. j \in 1 .. Len(s.left) /\ j # s.merged /\ o[j] = s.left[j]
          BY <1>2, <3>1, <3>2, <4>1
        <5> QED BY <5>1
      <4>2. CASE ~(j < s.merged)
        <5>1. j + 1 \in 1 .. Len(s.left) /\ j + 1 # s.merged /\ o[j] = s.left[j + 1]
          BY <1>2, <3>1, <3>2, <4>2
        <5> QED BY <5>1
      <4> QED BY <4>1, <4>2
    <3>4. ASSUME NEW n \in 1 .. Len(s.left), n # s.merged PROVE \E j \in 1 .. Len(o) : o[j] = s.left[n]
      <4>1. CASE n < s.merged
        <5>1. n \in 1 .. Len(o) /\ o[n] = s.left[n]
          BY <1>2, <3>1, <3>2, <4>1
        <5> QED BY <5>1
      <4>2. CASE n > s.merged
        <5>1. n - 1 \in 1 .. Len(o) /\ ~(n - 1 < s.merged) /\ (n - 1) + 1 = n
          BY <1>2, <3>1, <3>2, <4>2
        <5>2. o[n - 1] = s.left[n]
          BY <3>2, <5>1
        <5> QED BY <5>1, <5>2
      <4> QED BY <1>2, <3>4, <4>1, <4>2
    <3>5. ASSUME NEW x \in 1 .. Len(o), NEW y \in 1 .. Len(o), x < y PROVE o[x].slot < o[y].slot
      <4> DEFINE X == IF x < s.merged THEN x ELSE x + 1
                 Y == IF y < s.merged THEN y ELSE y + 1
      <4>1. X \in 1 .. Len(s.left) /\ Y \in 1 .. Len(s.left) /\ X < Y
        BY <1>2, <3>1, <3>2, <3>5
      <4>2. o[x] = s.left[X] /\ o[y] = s.left[Y]
        BY <3>2
      <4> HIDE DEF X, Y
      <4> QED BY <1>2, <4>1, <4>2 DEF Ascending
    <3> QED BY <1>5, <3>3, <3>4, <3>5 DEF Ascending
  <2> QED BY <2>1, <2>2
<1>7. Solid(o) /\ Origins(o, i - 1, bs) /\ Retained(o, i - 1, bs)
  <2>1. Solid(o)
    BY <1>2, <1>5, <1>6 DEF Solid
  <2>2. Origins(o, i - 1, bs)
    <3> SUFFICES ASSUME NEW j \in 1 .. Len(o) PROVE \E n \in 1 .. i - 1 : Stems(o[j], bs[n])
      BY DEF Origins
    <3>1. PICK m \in 1 .. Len(s.left) : o[j] = s.left[m]
      BY <1>6
    <3> QED BY <1>2, <3>1 DEF Origins
  <2>3. Retained(o, i - 1, bs)
    <3> SUFFICES ASSUME NEW n \in 1 .. i - 1, bs[n].type # "reserved" PROVE \E j \in 1 .. Len(o) : o[j] = bs[n]
      BY DEF Retained
    <3>1. PICK m \in 1 .. Len(s.left) : s.left[m] = bs[n]
      BY <1>2 DEF Retained
    <3>2. m # s.merged
      BY <1>2, <3>1
    <3> QED BY <1>6, <3>1, <3>2
  <2> QED BY <2>1, <2>2, <2>3
<1>8. Stems(g, bs[i])
  BY <1>0, <1>1, <1>4 DEF Stems
<1>9. /\ t.left \in Seq(BankRecords) /\ Len(t.left) = Len(o) + 1
      /\ (\A j \in 1 .. Len(o) : t.left[j] = o[j]) /\ t.left[Len(o) + 1] = g
      /\ Solid(t.left) /\ Ascending(t.left) /\ Origins(t.left, i, bs)
      /\ Retained(t.left, i, bs)
  <2>1. PICK m : m = t.left
    OBVIOUS
  <2>2. m = Append(o, g) /\ Solid(o) /\ Ascending(o) /\ Origins(o, i - 1, bs) /\ Retained(o, i - 1, bs)
    BY <1>3, <1>6, <1>7, <2>1
  <2>3. /\ m \in Seq(BankRecords) /\ Len(m) = Len(o) + 1
        /\ (\A j \in 1 .. Len(o) : m[j] = o[j]) /\ m[Len(o) + 1] = g
        /\ Solid(m) /\ Ascending(m) /\ Origins(m, i, bs) /\ Retained(m, i, bs)
    <3>1. MayStay(o, i, bs, g)
      BY <1>4, <1>5, <1>8, <2>2 DEF MayStay
    <3>2. Stayed(m, o, i, bs, g)
      BY <2>2, <3>1, BankStays
    <3> QED BY <3>2, Zenon DEF Stayed
  <2> QED BY <2>1, <2>3
<1>10. t.merged <= Len(t.left) /\ t.merged # 0 /\ t.lo <= t.hi /\ t.left[t.merged] = g
  BY <1>3, <1>4, <1>5, <1>9
<1>11. ASSUME AllApart(bs) PROVE MergedWell(t, i, bs)
  <2>1. MergedWell(s, i - 1, bs)
    BY <1>11 DEF ScanInv
  <2>2. ASSUME NEW j \in 1 .. Len(t.left), j # t.merged
        PROVE  Apart(t.lo, t.hi, t.left[j]) /\ \E n \in 1 .. i : t.left[j] = bs[n]
    <3>1. j \in 1 .. Len(o) /\ t.left[j] = o[j]
      BY <1>3, <1>5, <1>9, <2>2
    <3>2. PICK m \in 1 .. Len(s.left) : m # s.merged /\ o[j] = s.left[m]
      BY <1>6, <3>1
    <3>3. PICK n \in 1 .. i - 1 : Apart(s.lo, s.hi, o[j]) /\ o[j] = bs[n]
      BY <2>1, <3>2 DEF MergedWell
    <3>4. Apart(b.lo, b.hi, o[j]) /\ o[j] \in BankRecords /\ o[j].lo <= o[j].hi
      <4>1. n \in DOMAIN bs /\ i \in DOMAIN bs /\ i # n
        BY <1>1
      <4> QED BY <1>0, <1>11, <3>3, <4>1 DEF AllApart, Solid
    <3>5. Apart(Lesser(b.lo, s.lo), Greater(b.hi, s.hi), o[j])
      BY <1>0, <1>1, <1>2, <3>3, <3>4, UnionApart
    <3> QED BY <1>3, <1>4, <3>1, <3>3, <3>5
  <2> QED BY <1>3, <1>10, <2>2 DEF MergedWell
<1> QED BY <1>1, <1>3, <1>4, <1>9, <1>10, <1>11 DEF ScanInv

\* ScanInv holds of the whole scan.
LEMMA ScanHolds ==
  ASSUME NEW bs \in Seq(BankRecords), Solid(bs), Ascending(bs), NEW lo \in Nat, NEW hi \in Nat, lo <= hi, NEW type
  PROVE  ScanInv(Scan(bs, lo, hi, type), Len(bs), bs, lo, hi)
<1>0. Len(bs) \in Nat
  OBVIOUS
<1>1. PICK f : IsScan(f, bs, Len(bs), lo, hi, type) /\ Scan(bs, lo, hi, type) = f[Len(bs)]
  BY <1>0, ScanIs
<1> DEFINE Bad == {n \in 0 .. Len(bs) : ~ScanInv(f[n], n, bs, lo, hi)}
<1>2. SUFFICES ASSUME Bad # {} PROVE FALSE
  BY <1>0, <1>1
<1>3. PICK n \in Bad : \A k \in Bad : n <= k
  <2>1. Bad \in SUBSET Nat
    BY <1>0
  <2> HIDE DEF Bad
  <2> QED BY <1>2, <2>1, LeastNat
<1>4. n # 0
  <2>1. ScanInv(f[0], 0, bs, lo, hi)
    <3>1. PICK t : t = ScanStart(lo, hi) /\ t = f[0]
      BY <1>1 DEF IsScan
    <3>2. /\ t \in ScanStates /\ t.lo = lo /\ t.hi = hi /\ t.merged = 0 /\ t.slot = 0 /\ t.at = 0 /\ ~t.err
          /\ t.left = <<>>
      BY <3>1 DEF ScanStart, ScanStates
    <3>3. Len(t.left) = 0 /\ DOMAIN t.left = {}
      BY <3>2
    <3> HIDE <3>1
    <3>4. ScanInv(t, 0, bs, lo, hi)
      BY <3>2, <3>3 DEF ScanInv, Solid, Ascending, Origins, Retained, Untouched, SlotFound, MergedWell
    <3> QED BY <3>1, <3>4
  <2> QED BY <1>3, <2>1
<1>5. n \in 1 .. Len(bs) /\ n - 1 \in 0 .. Len(bs)
  BY <1>0, <1>3, <1>4
<1>6. PICK s, t, b : s = f[n - 1] /\ t = f[n] /\ b = bs[n]
  OBVIOUS
<1>7. t = ScanBank(s, b, type)
  BY <1>1, <1>5, <1>6 DEF IsScan
<1>8. ScanInv(s, n - 1, bs, lo, hi)
  BY <1>0, <1>3, <1>5, <1>6
<1>9. s \in ScanStates /\ s.lo <= s.hi /\ s.merged <= Len(s.left) /\ b \in BankRecords /\ b.lo <= b.hi
  BY <1>0, <1>5, <1>6, <1>8 DEF ScanInv, Solid
<1>10. ScanInv(t, n, bs, lo, hi)
  <2> HIDE <1>7, <1>6
  <2>1. CASE s.err /\ Passed(t, s, b, s.slot, s.at, TRUE)
    BY <1>5, <1>6, <1>8, <2>1, ScanPasses
  <2>2. CASE /\ ~s.err /\ Apart(s.lo, s.hi, b) /\ b.slot = s.slot
             /\ Passed(t, s, b, s.slot + 1, Len(s.left) + 1, FALSE)
    BY <1>5, <1>6, <1>8, <2>2, ScanPasses
  <2>3. CASE ~s.err /\ Apart(s.lo, s.hi, b) /\ b.slot # s.slot /\ Passed(t, s, b, s.slot, s.at, FALSE)
    BY <1>5, <1>6, <1>8, <2>3, ScanPasses
  <2>4. CASE ~s.err /\ ~Apart(s.lo, s.hi, b) /\ b.type = "reserved" /\ Swallowed(t, s, b)
    BY <1>5, <1>6, <1>8, <2>4, ScanSwallows
  <2>5. CASE ~s.err /\ ~Apart(s.lo, s.hi, b) /\ Passed(t, s, b, s.slot, s.at, TRUE)
    BY <1>5, <1>6, <1>8, <2>5, ScanPasses
  <2> QED BY <1>7, <1>9, <2>1, <2>2, <2>3, <2>4, <2>5, ScanCases
<1> QED BY <1>3, <1>6, <1>10

\* A bank list whose banks stem from those of bs, in the same order.
LEMMA BanksRescanned ==
  ASSUME NEW r \in Nat, NEW torn, NEW bs, BanksGood(bs, r, torn), NEW lo, NEW hi,
         NEW s, ScanInv(s, Len(bs), bs, lo, hi), NEW ks
  PROVE  /\ BanksGood(s.left, r + 1, torn \/ (s.err /\ s.merged # 0))
         /\ SlotsExact(ks, bs) => SlotsExact(ks, s.left)
<1>1. PICK l, i : l = s.left /\ i = Len(bs)
  OBVIOUS
<1>2. /\ bs \in Seq(BankRecords) /\ Solid(bs) /\ Ascending(bs) /\ HostsApart(bs) /\ i \in Nat /\ DOMAIN bs = 1 .. i
      /\ \A j \in DOMAIN bs : bs[j].host < r
      /\ ~torn => AllApart(bs)
  BY <1>1 DEF BanksGood
<1>3. /\ l \in Seq(BankRecords) /\ Len(l) \in Nat /\ DOMAIN l = 1 .. Len(l)
      /\ Solid(l) /\ Ascending(l) /\ Origins(l, i, bs) /\ Retained(l, i, bs)
      /\ s.merged = 0 => Untouched(l, i, bs)
  BY <1>1 DEF ScanInv, ScanStates
<1>4. \A j \in 1 .. Len(l) : \E n \in 1 .. i : Stems(l[j], bs[n])
  BY <1>3 DEF Origins
<1>5. \A j, k \in 1 .. Len(l) : j # k => l[j].slot # l[k].slot
  <2> TAKE j, k \in 1 .. Len(l)
  <2>1. l[j].slot \in Nat /\ l[k].slot \in Nat
    <3>1. l[j] \in BankRecords /\ l[k] \in BankRecords
      BY <1>3
    <3> QED BY <3>1 DEF BankRecords
  <2>2. j < k => l[j].slot < l[k].slot
    BY <1>3 DEF Ascending
  <2>3. k < j => l[k].slot < l[j].slot
    BY <1>3 DEF Ascending
  <2> QED BY <1>3, <2>1, <2>2, <2>3
<1>6. HostsApart(l) /\ \A j \in DOMAIN l : l[j].host < r + 1
  <2>1. ASSUME NEW j \in 1 .. Len(l), NEW k \in 1 .. Len(l), j # k PROVE l[j].host # l[k].host
    <3>1. PICK n \in 1 .. i : Stems(l[j], bs[n])
      BY <1>4
    <3>2. PICK m \in 1 .. i : Stems(l[k], bs[m])
      BY <1>4
    <3>3. n # m
      BY <1>5, <2>1, <3>1, <3>2 DEF Stems
    <3> QED BY <1>2, <3>1, <3>2, <3>3 DEF Stems, HostsApart
  <2>2. ASSUME NEW j \in 1 .. Len(l) PROVE l[j].host < r + 1
    <3>1. PICK n \in 1 .. i : Stems(l[j], bs[n])
      BY <1>4
    <3>2. bs[n].host \in Nat /\ bs[n].host < r
      <4>1. bs[n] \in BankRecords
        BY <1>2
      <4> QED BY <1>2, <4>1 DEF BankRecords
    <3> QED BY <3>1, <3>2 DEF Stems
  <2> QED BY <1>3, <2>1, <2>2 DEF HostsApart
<1>7. ASSUME ~torn, ~(s.err /\ s.merged # 0) PROVE AllApart(l)
  <2>1. CASE s.merged = 0
    BY <1>2, <1>3, <1>7, <2>1 DEF Untouched, AllApart
  <2>2. CASE s.merged # 0
    <3>1. MergedWell(s, i, bs) /\ AllApart(bs)
      BY <1>1, <1>2, <1>7, <2>2 DEF ScanInv
    <3>2. /\ \A j \in 1 .. Len(l) : j # s.merged => Apart(s.lo, s.hi, l[j]) /\ \E n \in 1 .. i : l[j] = bs[n]
          /\ l[s.merged].lo = s.lo /\ l[s.merged].hi = s.hi
      BY <1>1, <2>2, <3>1 DEF MergedWell
    <3>3. \A x \in 1 .. Len(l) : l[x].lo \in Nat /\ l[x].hi \in Nat
      <4> TAKE x \in 1 .. Len(l)
      <4>1. l[x] \in BankRecords
        BY <1>3
      <4> QED BY <4>1 DEF BankRecords
    <3> SUFFICES ASSUME NEW j \in 1 .. Len(l), NEW k \in 1 .. Len(l), j # k PROVE Apart(l[j].lo, l[j].hi, l[k])
      BY <1>3 DEF AllApart
    <3>4. CASE j = s.merged
      BY <3>2, <3>4
    <3>5. CASE k = s.merged
      BY <3>2, <3>3, <3>5 DEF Apart
    <3>6. CASE j # s.merged /\ k # s.merged
      <4>1. PICK n \in 1 .. i : l[j] = bs[n]
        BY <3>2, <3>6
      <4>2. PICK m \in 1 .. i : l[k] = bs[m]
        BY <3>2, <3>6
      <4>3. n # m
        BY <1>5, <4>1, <4>2
      <4> QED BY <1>2, <3>1, <4>1, <4>2, <4>3 DEF AllApart
    <3> QED BY <3>4, <3>5, <3>6
  <2> QED BY <2>1, <2>2
<1>8. ASSUME SlotsExact(ks, bs) PROVE SlotsExact(ks, l)
  <2>1. ASSUME NEW n, Backed(l, n) PROVE Backed(bs, n)
    <3>1. PICK j \in 1 .. Len(l) : l[j].type # "reserved" /\ l[j].slot = n
      BY <1>3, <2>1 DEF Backed
    <3> QED BY <1>2, <1>4, <3>1 DEF Backed, Stems
  <2>2. ASSUME NEW n, Backed(bs, n) PROVE Backed(l, n)
    <3>1. PICK j \in 1 .. i : bs[j].type # "reserved" /\ bs[j].slot = n
      BY <1>2, <2>2 DEF Backed
    <3>2. PICK k \in 1 .. Len(l) : l[k] = bs[j]
      BY <1>3, <3>1 DEF Retained
    <3> QED BY <1>3, <3>1, <3>2 DEF Backed
  <2>3. ASSUME NEW j \in 1 .. Len(l), l[j].type # "reserved" PROVE ks[l[j].slot] = <<l[j].lo, l[j].hi>>
    <3>1. PICK n \in 1 .. i : l[j] = bs[n]
      BY <1>4, <2>3 DEF Stems
    <3> QED BY <1>2, <1>8, <2>3, <3>1 DEF SlotsExact
  <2> QED BY <1>3, <1>8, <2>1, <2>2, <2>3 DEF SlotsExact
<1> QED BY <1>1, <1>3, <1>6, <1>7, <1>8 DEF BanksGood

\* A list m of the banks of bs, in their order, with a bank b that is new at its place.
LEMMA BankEnters ==
  ASSUME NEW r \in Nat, NEW torn, NEW bs, BanksGood(bs, r, torn), NEW lo \in Nat, NEW hi \in Nat, lo <= hi,
         NEW s, ScanInv(s, Len(bs), bs, lo, hi), s.merged = 0, ~s.err,
         NEW b \in BankRecords, b.lo = lo, b.hi = hi, b.slot = s.slot, b.host = r,
         NEW m, m = InsertAt(s.left, s.at + 1, b)
  PROVE  /\ BanksGood(m, r + 1, torn)
         /\ \A n : Backed(m, n) <=> (Backed(bs, n) \/ (b.type # "reserved" /\ n = b.slot))
         /\ ~Backed(bs, b.slot)
         /\ \A j \in DOMAIN m : m[j] = b \/ \E n \in DOMAIN bs : m[j] = bs[n]
<1>1. PICK l, i, place : l = s.left /\ i = Len(bs) /\ place = s.at
  OBVIOUS
<1>2. /\ bs \in Seq(BankRecords) /\ Solid(bs) /\ Ascending(bs) /\ HostsApart(bs) /\ i \in Nat /\ DOMAIN bs = 1 .. i
      /\ \A j \in DOMAIN bs : bs[j].host < r
      /\ ~torn => AllApart(bs)
  BY <1>1 DEF BanksGood
<1>3. /\ l \in Seq(BankRecords) /\ place \in Nat /\ Untouched(l, i, bs) /\ SlotFound(s, i, bs, lo, hi)
  BY <1>1 DEF ScanInv, ScanStates
<1>4. /\ place <= i /\ Len(l) = i /\ \A j \in 1 .. i : l[j] = bs[j]
      /\ \A j \in 1 .. i : /\ Apart(lo, hi, bs[j])
                           /\ j <= place => bs[j].slot < b.slot
                           /\ j > place => bs[j].slot > b.slot
  BY <1>1, <1>3 DEF Untouched, SlotFound
<1>5. PICK p \in 1 .. Len(l) + 1 : p = place + 1
  BY <1>2, <1>3, <1>4
<1>6. /\ m \in Seq(BankRecords) /\ Len(m) = Len(l) + 1
      /\ \A j \in 1 .. Len(m) : m[j] = IF j < p THEN l[j] ELSE IF j = p THEN b ELSE l[j - 1]
  <2>1. m = InsertAt(l, p, b) /\ l \in Seq(BankRecords)
    BY <1>1, <1>3, <1>5
  <2>2. Inserted(m, l, p, b)
    BY <2>1, BankInserted
  <2> QED BY <2>2, Zenon DEF Inserted
<1>7. DOMAIN m = 1 .. i + 1 /\ p \in 1 .. i + 1 /\ i + 1 \in Nat
  BY <1>2, <1>4, <1>5, <1>6
<1> DEFINE Of(j) == IF j < p THEN j ELSE j - 1
           To(n) == IF n < p THEN n ELSE n + 1
<1>8. m[p] = b /\ \A j \in 1 .. i + 1 : j # p => Of(j) \in 1 .. i /\ m[j] = bs[Of(j)]
  <2>1. m[p] = b
    BY <1>4, <1>6, <1>7
  <2> SUFFICES ASSUME NEW j \in 1 .. i + 1, j # p PROVE Of(j) \in 1 .. i /\ m[j] = bs[Of(j)]
    BY <2>1
  <2>2. Of(j) \in 1 .. i
    BY <1>2, <1>7
  <2>3. m[j] = l[Of(j)]
    BY <1>2, <1>4, <1>6, <1>7
  <2> QED BY <1>4, <2>2, <2>3
<1>9. \A n \in 1 .. i : To(n) \in 1 .. i + 1 /\ To(n) # p /\ m[To(n)] = bs[n]
  <2> TAKE n \in 1 .. i
  <2>1. To(n) \in 1 .. i + 1 /\ To(n) # p /\ Of(To(n)) = n
    BY <1>2, <1>7
  <2> HIDE DEF Of, To
  <2> QED BY <1>8, <2>1
<1>10. /\ \A x, y \in 1 .. i + 1 : x < y /\ x # p /\ y # p => Of(x) < Of(y)
       /\ \A x \in 1 .. i + 1 : (x < p => Of(x) <= place) /\ (x > p => Of(x) > place)
  BY <1>2, <1>3, <1>5, <1>7
<1> HIDE DEF Of, To
<1>11. \A n \in 1 .. i : bs[n].slot \in Nat /\ bs[n].host \in Nat /\ bs[n].lo \in Nat /\ bs[n].hi \in Nat
  <2> TAKE n \in 1 .. i
  <2>1. bs[n] \in BankRecords
    BY <1>2
  <2> QED BY <2>1 DEF BankRecords
<1>12. b.slot \in Nat
  BY DEF BankRecords
<1>13. Solid(m) /\ \A j \in DOMAIN m : m[j].host < r + 1
  <2> SUFFICES ASSUME NEW j \in 1 .. i + 1 PROVE m[j].lo <= m[j].hi /\ m[j].host < r + 1
    BY <1>7 DEF Solid
  <2>1. CASE j = p
    BY <1>8, <2>1
  <2>2. CASE j # p
    <3>1. PICK n \in 1 .. i : m[j] = bs[n]
      BY <1>8, <2>2
    <3>2. bs[n].lo <= bs[n].hi /\ bs[n].host < r
      BY <1>2 DEF Solid
    <3> QED BY <1>11, <3>1, <3>2, SMTT(30)
  <2> QED BY <2>1, <2>2
<1>14. Ascending(m)
  <2> SUFFICES ASSUME NEW x \in 1 .. i + 1, NEW y \in 1 .. i + 1, x < y PROVE m[x].slot < m[y].slot
    BY <1>7 DEF Ascending
  <2>1. CASE x = p
    <3>1. PICK n \in 1 .. i : n = Of(y) /\ m[y] = bs[n] /\ n > place
      BY <1>7, <1>8, <1>10, <2>1
    <3> QED BY <1>4, <1>8, <1>11, <1>12, <2>1, <3>1
  <2>2. CASE y = p
    <3>1. PICK n \in 1 .. i : n = Of(x) /\ m[x] = bs[n] /\ n <= place
      BY <1>7, <1>8, <1>10, <2>2
    <3> QED BY <1>4, <1>8, <1>11, <1>12, <2>2, <3>1
  <2>3. CASE x # p /\ y # p
    <3>1. Of(x) \in 1 .. i /\ Of(y) \in 1 .. i /\ Of(x) < Of(y) /\ m[x] = bs[Of(x)] /\ m[y] = bs[Of(y)]
      BY <1>8, <1>10, <2>3
    <3> QED BY <1>2, <3>1 DEF Ascending
  <2> QED BY <2>1, <2>2, <2>3
<1>15. \A x, y \in 1 .. i + 1 : x # y /\ x # p /\ y # p => Of(x) # Of(y)
  BY <1>2, <1>7 DEF Of
<1>16. HostsApart(m)
  <2> SUFFICES ASSUME NEW x \in 1 .. i + 1, NEW y \in 1 .. i + 1, x # y PROVE m[x].host # m[y].host
    BY <1>7 DEF HostsApart
  <2>1. CASE x = p
    <3>1. PICK n \in 1 .. i : m[y] = bs[n]
      BY <1>8, <2>1
    <3> QED BY <1>2, <1>8, <1>11, <2>1, <3>1
  <2>2. CASE y = p
    <3>1. PICK n \in 1 .. i : m[x] = bs[n]
      BY <1>8, <2>2
    <3> QED BY <1>2, <1>8, <1>11, <2>2, <3>1
  <2>3. CASE x # p /\ y # p
    <3>1. Of(x) \in 1 .. i /\ Of(y) \in 1 .. i /\ Of(x) # Of(y) /\ m[x] = bs[Of(x)] /\ m[y] = bs[Of(y)]
      BY <1>8, <1>15, <2>3
    <3> QED BY <1>2, <3>1 DEF HostsApart
  <2> QED BY <2>1, <2>2, <2>3
<1>17. ASSUME ~torn PROVE AllApart(m)
  <2> SUFFICES ASSUME NEW x \in 1 .. i + 1, NEW y \in 1 .. i + 1, x # y PROVE Apart(m[x].lo, m[x].hi, m[y])
    BY <1>7 DEF AllApart
  <2>1. CASE x = p
    <3>1. PICK n \in 1 .. i : m[y] = bs[n]
      BY <1>8, <2>1
    <3> QED BY <1>4, <1>8, <2>1, <3>1
  <2>2. CASE y = p
    <3>1. PICK n \in 1 .. i : m[x] = bs[n]
      BY <1>8, <2>2
    <3> QED BY <1>4, <1>8, <1>11, <2>2, <3>1 DEF Apart
  <2>3. CASE x # p /\ y # p
    <3>1. Of(x) \in 1 .. i /\ Of(y) \in 1 .. i /\ Of(x) # Of(y) /\ m[x] = bs[Of(x)] /\ m[y] = bs[Of(y)]
      BY <1>8, <1>15, <2>3
    <3> QED BY <1>2, <1>17, <3>1 DEF AllApart
  <2> QED BY <2>1, <2>2, <2>3
<1>18. \A n : Backed(m, n) <=> (Backed(bs, n) \/ (b.type # "reserved" /\ n = b.slot))
  <2> TAKE n
  <2>1. ASSUME Backed(m, n) PROVE Backed(bs, n) \/ (b.type # "reserved" /\ n = b.slot)
    <3>1. PICK j \in 1 .. i + 1 : m[j].type # "reserved" /\ m[j].slot = n
      BY <1>7, <2>1 DEF Backed
    <3> QED BY <1>2, <1>8, <3>1 DEF Backed
  <2>2. ASSUME Backed(bs, n) PROVE Backed(m, n)
    <3>1. PICK j \in 1 .. i : bs[j].type # "reserved" /\ bs[j].slot = n
      BY <1>2, <2>2 DEF Backed
    <3> QED BY <1>7, <1>9, <3>1 DEF Backed
  <2>3. ASSUME b.type # "reserved", n = b.slot PROVE Backed(m, n)
    BY <1>7, <1>8, <2>3 DEF Backed
  <2> QED BY <2>1, <2>2, <2>3
<1>19. ~Backed(bs, b.slot)
  <2> SUFFICES ASSUME NEW j \in 1 .. i, bs[j].slot = b.slot PROVE FALSE
    BY <1>2 DEF Backed
  <2> QED BY <1>3, <1>4, <1>11, <1>12
<1>20. \A j \in DOMAIN m : m[j] = b \/ \E n \in DOMAIN bs : m[j] = bs[n]
  BY <1>2, <1>7, <1>8
<1> QED BY <1>6, <1>13, <1>14, <1>16, <1>17, <1>18, <1>19, <1>20 DEF BanksGood

\* Removing one bank leaves good banks, and takes the backing of its own
\* slot only.
LEMMA BankLeaves ==
  ASSUME NEW r \in Nat, NEW torn, NEW bs, BanksGood(bs, r, torn), NEW d, d \in DOMAIN bs, NEW m, m = RemoveAt(bs, d)
  PROVE  /\ BanksGood(m, r + 1, torn)
         /\ \A n : Backed(m, n) <=> (Backed(bs, n) /\ n # bs[d].slot)
         /\ \A j \in DOMAIN m : m[j].slot # bs[d].slot /\ \E n \in DOMAIN bs : m[j] = bs[n]
<1>1. PICK i : i = Len(bs)
  OBVIOUS
<1>2. /\ bs \in Seq(BankRecords) /\ Solid(bs) /\ Ascending(bs) /\ HostsApart(bs) /\ i \in Nat /\ DOMAIN bs = 1 .. i
      /\ \A j \in DOMAIN bs : bs[j].host < r
      /\ ~torn => AllApart(bs)
  BY <1>1 DEF BanksGood
<1>3. /\ m \in Seq(BankRecords) /\ Len(m) = i - 1 /\ d \in 1 .. i
      /\ \A j \in 1 .. Len(m) : m[j] = IF j < d THEN bs[j] ELSE bs[j + 1]
  <2>1. d \in 1 .. Len(bs)
    BY <1>1, <1>2
  <2> QED BY <1>1, <1>2, <2>1, BankRemoved
<1>4. DOMAIN m = 1 .. i - 1
  BY <1>2, <1>3
<1> DEFINE Of(j) == IF j < d THEN j ELSE j + 1
           To(n) == IF n < d THEN n ELSE n - 1
<1>5. \A j \in 1 .. i - 1 : Of(j) \in 1 .. i /\ Of(j) # d /\ m[j] = bs[Of(j)]
  <2> TAKE j \in 1 .. i - 1
  <2>1. Of(j) \in 1 .. i /\ Of(j) # d
    BY <1>2, <1>3
  <2>2. m[j] = bs[Of(j)]
    BY <1>2, <1>3
  <2> QED BY <2>1, <2>2
<1>6. \A n \in 1 .. i : n # d => To(n) \in 1 .. i - 1 /\ m[To(n)] = bs[n]
  <2> SUFFICES ASSUME NEW n \in 1 .. i, n # d PROVE To(n) \in 1 .. i - 1 /\ m[To(n)] = bs[n]
    OBVIOUS
  <2>1. To(n) \in 1 .. i - 1 /\ Of(To(n)) = n
    BY <1>2, <1>3
  <2> HIDE DEF Of, To
  <2> QED BY <1>5, <2>1
<1>7. \A x, y \in 1 .. i - 1 : (x < y => Of(x) < Of(y)) /\ (x # y => Of(x) # Of(y))
  BY <1>2, <1>3
<1> HIDE DEF Of, To
<1>8. \A n \in 1 .. i : bs[n].slot \in Nat /\ bs[n].host \in Nat
  <2> TAKE n \in 1 .. i
  <2>1. bs[n] \in BankRecords
    BY <1>2
  <2> QED BY <2>1 DEF BankRecords
<1>9. \A n \in 1 .. i : n # d => bs[n].slot # bs[d].slot
  <2> SUFFICES ASSUME NEW n \in 1 .. i, n # d PROVE bs[n].slot # bs[d].slot
    OBVIOUS
  <2>1. bs[n].slot \in Nat /\ bs[d].slot \in Nat
    BY <1>3, <1>8
  <2>2. n < d => bs[n].slot < bs[d].slot
    BY <1>2, <1>3 DEF Ascending
  <2>3. d < n => bs[d].slot < bs[n].slot
    BY <1>2, <1>3 DEF Ascending
  <2> QED BY <1>2, <1>3, <2>1, <2>2, <2>3
<1>10. Solid(m) /\ \A j \in DOMAIN m : m[j].host < r + 1
  <2> SUFFICES ASSUME NEW j \in 1 .. i - 1 PROVE m[j].lo <= m[j].hi /\ m[j].host < r + 1
    BY <1>4 DEF Solid
  <2>1. PICK n \in 1 .. i : m[j] = bs[n]
    BY <1>5
  <2>2. bs[n].lo <= bs[n].hi /\ bs[n].host < r
    BY <1>2 DEF Solid
  <2> QED BY <1>8, <2>1, <2>2
<1>11. Ascending(m) /\ HostsApart(m) /\ (~torn => AllApart(m))
  <2>1. ASSUME NEW x \in 1 .. i - 1, NEW y \in 1 .. i - 1
        PROVE  /\ x < y => m[x].slot < m[y].slot
               /\ x # y => m[x].host # m[y].host
               /\ ~torn /\ x # y => Apart(m[x].lo, m[x].hi, m[y])
    <3>1. PICK u \in 1 .. i, v \in 1 .. i : u = Of(x) /\ v = Of(y)
      BY <1>5
    <3>2. m[x] = bs[u] /\ m[y] = bs[v] /\ (x < y => u < v) /\ (x # y => u # v)
      BY <1>5, <1>7, <3>1
    <3> QED BY <1>2, <3>2 DEF Ascending, HostsApart, AllApart
  <2> QED BY <1>4, <2>1 DEF Ascending, HostsApart, AllApart
<1>12. \A n : Backed(m, n) <=> (Backed(bs, n) /\ n # bs[d].slot)
  <2> TAKE n
  <2>1. ASSUME Backed(m, n) PROVE Backed(bs, n) /\ n # bs[d].slot
    <3>1. PICK j \in 1 .. i - 1 : m[j].type # "reserved" /\ m[j].slot = n
      BY <1>4, <2>1 DEF Backed
    <3>2. PICK k \in 1 .. i : k # d /\ m[j] = bs[k]
      BY <1>5
    <3> QED BY <1>2, <1>9, <3>1, <3>2 DEF Backed
  <2>2. ASSUME Backed(bs, n), n # bs[d].slot PROVE Backed(m, n)
    <3>1. PICK j \in 1 .. i : bs[j].type # "reserved" /\ bs[j].slot = n
      BY <1>2, <2>2 DEF Backed
    <3> QED BY <1>4, <1>6, <2>2, <3>1 DEF Backed
  <2> QED BY <2>1, <2>2
<1>13. \A j \in DOMAIN m : m[j].slot # bs[d].slot /\ \E n \in DOMAIN bs : m[j] = bs[n]
  BY <1>2, <1>4, <1>5, <1>9
<1> QED BY <1>3, <1>10, <1>11, <1>12, <1>13 DEF BanksGood

\* kvm__register_mem, failing or not, keeps MemIInv.
LEMMA RegisterMemKeeps ==
  ASSUME MemIInv, NEW lo \in Pages, NEW hi \in Pages, NEW type \in MemTypes, NEW ok \in BOOLEAN, RegisterMem(lo, hi, type, ok)
  PROVE  MemIInv'
<1>1. PICK s : s = Scan(banks, lo, hi, type)
  OBVIOUS
<1>2. PICK bank : bank = [lo |-> lo, hi |-> hi, type |-> type, slot |-> s.slot, host |-> regs]
  OBVIOUS
<1>3. PICK enters \in BOOLEAN : enters <=> ~s.err /\ s.merged = 0 /\ (type = "reserved" \/ ok)
  OBVIOUS
<1>4. /\ lo <= hi /\ regs < MaxRegs /\ regs' = regs + 1
      /\ banks' = IF enters THEN InsertAt(s.left, s.at + 1, bank) ELSE s.left
      /\ kvmSlots' = IF enters /\ type # "reserved"
                     THEN [n \in DOMAIN kvmSlots \cup {s.slot} |-> IF n = s.slot THEN <<lo, hi>> ELSE kvmSlots[n]]
                     ELSE kvmSlots
      /\ tornMem' <=> (tornMem \/ (s.err /\ s.merged # 0))
      /\ tornMem' \in BOOLEAN
  BY <1>1, <1>2, <1>3 DEF RegisterMem, Place
<1>5. /\ regs \in Nat /\ tornMem \in BOOLEAN /\ BanksGood(banks, regs, tornMem) /\ SlotsExact(kvmSlots, banks)
      /\ lo \in Nat /\ hi \in Nat
  BY <1>4, MemAssumption DEF MemIInv
<1>6. ScanInv(s, Len(banks), banks, lo, hi)
  BY <1>1, <1>4, <1>5, ScanHolds DEF BanksGood
<1>7. CASE ~enters
  <2>1. BanksGood(s.left, regs + 1, tornMem \/ (s.err /\ s.merged # 0)) /\ SlotsExact(kvmSlots, s.left)
    BY <1>5, <1>6, BanksRescanned
  <2>2. BanksGood(s.left, regs + 1, tornMem')
    BY <1>4, <2>1 DEF BanksGood
  <2>3. banks' = s.left /\ kvmSlots' = kvmSlots
    BY <1>4, <1>7
  <2> QED BY <1>4, <1>5, <2>1, <2>2, <2>3 DEF MemIInv
<1>8. CASE enters
  <2>1. s.slot \in Nat /\ ~s.err /\ s.merged = 0 /\ banks' = InsertAt(s.left, s.at + 1, bank) /\ (tornMem' <=> tornMem)
    BY <1>3, <1>4, <1>6, <1>8 DEF ScanInv, ScanStates
  <2>2. /\ bank \in BankRecords /\ bank.lo = lo /\ bank.hi = hi /\ bank.slot = s.slot /\ bank.host = regs
        /\ bank.type = type
    BY <1>2, <1>5, <2>1 DEF BankRecords
  <2>3. PICK m : m = InsertAt(s.left, s.at + 1, bank)
    OBVIOUS
  <2>4. /\ BanksGood(m, regs + 1, tornMem)
        /\ \A n : Backed(m, n) <=> (Backed(banks, n) \/ (type # "reserved" /\ n = s.slot))
        /\ ~Backed(banks, s.slot)
        /\ \A j \in DOMAIN m : m[j] = bank \/ \E n \in DOMAIN banks : m[j] = banks[n]
    <3>1. /\ BanksGood(m, regs + 1, tornMem)
          /\ \A n : Backed(m, n) <=> (Backed(banks, n) \/ (bank.type # "reserved" /\ n = bank.slot))
          /\ ~Backed(banks, bank.slot)
          /\ \A j \in DOMAIN m : m[j] = bank \/ \E n \in DOMAIN banks : m[j] = banks[n]
      BY <1>4, <1>5, <1>6, <2>1, <2>2, <2>3, BankEnters
    <3> QED BY <2>2, <3>1
  <2>5. BanksGood(m, regs + 1, tornMem')
    BY <2>1, <2>4 DEF BanksGood
  <2>6. SlotsExact(kvmSlots', m)
    <3>1. CASE type = "reserved"
      <4>1. kvmSlots' = kvmSlots
        BY <1>4, <3>1
      <4>2. \A n : n \in DOMAIN kvmSlots <=> Backed(m, n)
        BY <1>5, <2>4, <3>1 DEF SlotsExact
      <4>3. ASSUME NEW j \in DOMAIN m, m[j].type # "reserved" PROVE kvmSlots[m[j].slot] = <<m[j].lo, m[j].hi>>
        <5>1. PICK n \in DOMAIN banks : m[j] = banks[n]
          BY <2>2, <2>4, <3>1, <4>3
        <5> QED BY <1>5, <4>3, <5>1 DEF SlotsExact
      <4> QED BY <4>1, <4>2, <4>3 DEF SlotsExact
    <3>2. CASE type # "reserved"
      <4>1. kvmSlots' = [n \in DOMAIN kvmSlots \cup {s.slot} |-> IF n = s.slot THEN <<lo, hi>> ELSE kvmSlots[n]]
        BY <1>4, <1>8, <3>2
      <4>2. \A n : n \in DOMAIN kvmSlots' <=> Backed(m, n)
        BY <1>5, <2>4, <3>2, <4>1 DEF SlotsExact
      <4>3. ASSUME NEW j \in DOMAIN m, m[j].type # "reserved" PROVE kvmSlots'[m[j].slot] = <<m[j].lo, m[j].hi>>
        <5>1. CASE m[j] = bank
          BY <2>2, <4>1, <5>1
        <5>2. CASE \E n \in DOMAIN banks : m[j] = banks[n]
          <6>1. PICK n \in DOMAIN banks : m[j] = banks[n]
            BY <5>2
          <6>2. Backed(banks, m[j].slot)
            BY <4>3, <6>1 DEF Backed
          <6>3. m[j].slot # s.slot /\ m[j].slot \in DOMAIN kvmSlots
            BY <1>5, <2>4, <6>2 DEF SlotsExact
          <6>4. kvmSlots[m[j].slot] = <<m[j].lo, m[j].hi>>
            BY <1>5, <4>3, <6>1 DEF SlotsExact
          <6> QED BY <4>1, <6>3, <6>4
        <5> QED BY <2>4, <5>1, <5>2
      <4> QED BY <4>2, <4>3 DEF SlotsExact
    <3> QED BY <3>1, <3>2
  <2> QED BY <1>4, <1>5, <2>1, <2>3, <2>5, <2>6 DEF MemIInv
<1> QED BY <1>7, <1>8

\* kvm__destroy_mem, failing or not, keeps MemIInv.
LEMMA DestroyMemKeeps == ASSUME MemIInv, NEW i \in DOMAIN banks, NEW ok \in BOOLEAN, DestroyMem(i, ok) PROVE MemIInv'
<1>1. /\ regs \in Nat /\ tornMem \in BOOLEAN /\ BanksGood(banks, regs, tornMem) /\ SlotsExact(kvmSlots, banks)
      /\ regs < MaxRegs /\ regs' = regs + 1 /\ regs' \in Nat /\ tornMem' = tornMem /\ banks[i].type # "reserved"
  BY DEF MemIInv, DestroyMem
<1>2. CASE ~ok
  <2>1. banks' = banks /\ kvmSlots' = kvmSlots
    BY <1>2 DEF DestroyMem
  <2>2. BanksGood(banks, regs + 1, tornMem)
    <3>1. \A j \in DOMAIN banks : banks[j].host \in Nat /\ banks[j].host < regs
      <4> TAKE j \in DOMAIN banks
      <4>1. banks[j] \in BankRecords
        BY <1>1 DEF BanksGood
      <4> QED BY <1>1, <4>1 DEF BanksGood, BankRecords
    <3>2. \A j \in DOMAIN banks : banks[j].host < regs + 1
      BY <1>1, <3>1
    <3> QED BY <1>1, <3>2 DEF BanksGood
  <2> QED BY <1>1, <2>1, <2>2 DEF MemIInv
<1>3. CASE ok
  <2>1. PICK m : m = RemoveAt(banks, i)
    OBVIOUS
  <2>2. banks' = m /\ kvmSlots' = [n \in DOMAIN kvmSlots \ {banks[i].slot} |-> kvmSlots[n]]
    BY <1>3, <2>1 DEF DestroyMem
  <2>3. /\ BanksGood(m, regs + 1, tornMem)
        /\ \A n : Backed(m, n) <=> (Backed(banks, n) /\ n # banks[i].slot)
        /\ \A j \in DOMAIN m : m[j].slot # banks[i].slot /\ \E n \in DOMAIN banks : m[j] = banks[n]
    <3> HIDE DEF BanksGood
    <3> QED BY <1>1, <2>1, BankLeaves
  <2>4. SlotsExact(kvmSlots', m)
    <3>1. \A n : n \in DOMAIN kvmSlots' <=> Backed(m, n)
      BY <1>1, <2>2, <2>3 DEF SlotsExact
    <3>2. ASSUME NEW j \in DOMAIN m, m[j].type # "reserved" PROVE kvmSlots'[m[j].slot] = <<m[j].lo, m[j].hi>>
      <4>1. PICK n \in DOMAIN banks : m[j] = banks[n]
        BY <2>3
      <4>2. Backed(banks, m[j].slot) /\ m[j].slot # banks[i].slot
        BY <2>3, <3>2, <4>1 DEF Backed
      <4>3. m[j].slot \in DOMAIN kvmSlots /\ kvmSlots[m[j].slot] = <<m[j].lo, m[j].hi>>
        BY <1>1, <3>2, <4>1, <4>2 DEF SlotsExact
      <4> QED BY <2>2, <4>2, <4>3
    <3> QED BY <3>1, <3>2 DEF SlotsExact
  <2> QED BY <1>1, <2>2, <2>3, <2>4 DEF MemIInv
<1> QED BY <1>2, <1>3

\* The empty list of banks is good.
LEMMA NoBanks == ASSUME NEW r, NEW torn PROVE BanksGood(<<>>, r, torn)
<1>1. DOMAIN <<>> = {} /\ <<>> \in Seq(BankRecords)
  OBVIOUS
<1> QED BY <1>1 DEF BanksGood, Solid, Ascending, HostsApart, AllApart

\* Every registration and removal, or a stutter, keeps MemIInv.
LEMMA MemKept == ASSUME MemIInv, [MemNext]_memVars PROVE MemIInv'
<1>1. ASSUME NEW lo \in Pages, NEW hi \in Pages, NEW type \in MemTypes, NEW ok \in BOOLEAN, RegisterMem(lo, hi, type, ok)
      PROVE  MemIInv'
  BY <1>1, RegisterMemKeeps
<1>2. ASSUME NEW i \in DOMAIN banks, NEW ok \in BOOLEAN, DestroyMem(i, ok) PROVE MemIInv'
  BY <1>2, DestroyMemKeeps
<1>3. CASE MemExit
  <2>1. regs' = regs /\ regs = MaxRegs /\ banks' = <<>> /\ tornMem' = tornMem /\ regs \in Nat /\ tornMem \in BOOLEAN
    BY <1>3 DEF MemExit, MemIInv
  <2>2. ~(regs' < MaxRegs \/ banks' # <<>>)
    BY <2>1
  <2> QED BY <2>1, <2>2, NoBanks DEF MemIInv
<1>4. CASE UNCHANGED memVars
  BY <1>4 DEF MemIInv, memVars
<1> QED BY <1>1, <1>2, <1>3, <1>4 DEF MemNext

\* MemIInv holds of the empty list of banks.
LEMMA MemStarts == MemInit => MemIInv
<1> SUFFICES ASSUME MemInit PROVE MemIInv
  OBVIOUS
<1>1. regs = 0 /\ tornMem = FALSE /\ banks = <<>> /\ kvmSlots = <<>>
  BY DEF MemInit
<1>2. DOMAIN banks = {} /\ DOMAIN kvmSlots = {}
  BY <1>1
<1>3. SlotsExact(kvmSlots, banks)
  BY <1>2 DEF SlotsExact, Backed
<1> QED BY <1>1, <1>3, NoBanks DEF MemIInv

\* The least element of a singleton.
LEMMA MinOfOne == ASSUME NEW x \in Int PROVE Min({x}) = x
BY DEF Min

\* MemIInv implies what the run checks.
LEMMA MemGives == ASSUME MemIInv PROVE BanksInv
<1>1. /\ banks \in Seq(BankRecords) /\ Ascending(banks) /\ HostsApart(banks) /\ Solid(banks)
      /\ ~tornMem => AllApart(banks)
      /\ banks # <<>> => SlotsExact(kvmSlots, banks)
  BY DEF MemIInv, BanksGood
<1>2. DOMAIN banks = 1 .. Len(banks) /\ Len(banks) \in Nat
      /\ \A i \in DOMAIN banks : banks[i].lo \in Nat /\ banks[i].hi \in Nat
  <2>1. DOMAIN banks = 1 .. Len(banks) /\ Len(banks) \in Nat
    BY <1>1
  <2> SUFFICES ASSUME NEW i \in DOMAIN banks PROVE banks[i].lo \in Nat /\ banks[i].hi \in Nat
    BY <2>1
  <2>2. banks[i] \in BankRecords
    BY <1>1
  <2> QED BY <2>2 DEF BankRecords
<1>3. Range(banks) = {banks[i] : i \in DOMAIN banks}
  BY DEF Range
<1>4. ASSUME banks # <<>>
      PROVE  /\ DOMAIN kvmSlots = {b.slot : b \in {c \in Range(banks) : c.type # "reserved"}}
             /\ \A b \in Range(banks) : b.type # "reserved" => kvmSlots[b.slot] = <<b.lo, b.hi>>
  <2>1. SlotsExact(kvmSlots, banks)
    BY <1>1, <1>4
  <2>2. \A n : n \in DOMAIN kvmSlots <=> \E b \in Range(banks) : b.type # "reserved" /\ b.slot = n
    BY <1>3, <2>1 DEF SlotsExact, Backed
  <2>3. DOMAIN kvmSlots = {b.slot : b \in {c \in Range(banks) : c.type # "reserved"}}
    BY <2>2
  <2> QED BY <1>3, <2>1, <2>3 DEF SlotsExact
<1>5. ASSUME ~tornMem, NEW b \in Range(banks), NEW p \in b.lo .. b.hi, b.type # "reserved"
      PROVE  HostToGuestFlat(GuestFlatToHost(p)) = p
  <2>1. PICK i \in DOMAIN banks : b = banks[i]
    BY <1>3
  <2>2. b.lo \in Nat /\ b.hi \in Nat /\ p \in Nat /\ b.lo <= p /\ p <= b.hi /\ i \in Int
    BY <1>2, <2>1
  <2>3. {j \in DOMAIN banks : p >= banks[j].lo /\ p <= banks[j].hi} = {i}
    <3>1. ASSUME NEW j \in DOMAIN banks, p >= banks[j].lo, p <= banks[j].hi PROVE j = i
      <4>1. SUFFICES ASSUME j # i PROVE FALSE
        OBVIOUS
      <4>2. Apart(banks[i].lo, banks[i].hi, banks[j])
        BY <1>1, <1>5, <4>1 DEF AllApart
      <4> QED BY <1>2, <2>1, <2>2, <3>1, <4>2 DEF Apart
    <3> QED BY <2>1, <2>2, <3>1
  <2>4. GuestFlatToHost(p) = <<b.host, p - b.lo>>
    <3>1. Min({j \in DOMAIN banks : p >= banks[j].lo /\ p <= banks[j].hi}) = i
      BY <2>2, <2>3, MinOfOne
    <3> QED BY <2>1, <2>3, <3>1 DEF GuestFlatToHost
  <2>5. PICK o \in Nat : o = p - b.lo /\ o <= b.hi - b.lo
    BY <2>2
  <2>6. {j \in DOMAIN banks : banks[j].host = b.host /\ o <= banks[j].hi - banks[j].lo} = {i}
    <3>1. ASSUME NEW j \in DOMAIN banks, banks[j].host = b.host PROVE j = i
      BY <1>1, <2>1, <3>1 DEF HostsApart
    <3> QED BY <2>1, <2>5, <3>1
  <2>7. PICK h : h = <<b.host, o>>
    OBVIOUS
  <2>8. HostToGuestFlat(h) = b.lo + o
    <3>1. h[1] = b.host /\ h[2] = o
      BY <2>7
    <3>2. {j \in DOMAIN banks : banks[j].host = h[1] /\ h[2] <= banks[j].hi - banks[j].lo} = {i}
      BY <2>6, <3>1
    <3>3. Min({j \in DOMAIN banks : banks[j].host = h[1] /\ h[2] <= banks[j].hi - banks[j].lo}) = i
      BY <2>2, <3>2, MinOfOne
    <3> QED BY <2>1, <3>1, <3>2, <3>3 DEF HostToGuestFlat
  <2> QED BY <2>2, <2>4, <2>5, <2>7, <2>8
<1>6. /\ \A i, j \in DOMAIN banks : i < j => banks[i].slot < banks[j].slot
      /\ ~tornMem => \A i, j \in DOMAIN banks : i # j => Apart(banks[i].lo, banks[i].hi, banks[j])
  BY <1>1 DEF Ascending, AllApart
<1> QED BY <1>4, <1>5, <1>6 DEF BanksInv

-----------------------------------------------------------------------------
(* The interrupt controller of PowerPC: presenters and sources             *)

XPrios == 0 .. Masked
Numbers == IrqSources \cup {Ipi, NoIrq}
Presenters == [cppr : XPrios, xisr : Numbers, pprio : XPrios, mfrr : XPrios, line : BOOLEAN]
Waiters == [server : Servers, prio : XPrios, rejected : BOOLEAN, masked : BOOLEAN]
XStates == [p : [Servers -> Presenters], i : [IrqSources -> Waiters], owed : SUBSET IrqSources]

Wired(x) == \A s \in Servers : x.p[s].line <=> x.p[s].xisr # NoIrq
Above(x, O) == \A s \in Servers \ O : x.p[s].xisr # NoIrq => x.p[s].pprio < x.p[s].cppr
Faithful(x, R) ==
  \A s \in Servers, nr \in IrqSources \ R :
    x.p[s].xisr = nr => x.i[nr].server = s /\ x.i[nr].prio = x.p[s].pprio
Held(x, nr) == (\E s \in Servers : x.p[s].xisr = nr) \/ x.i[nr].rejected \/ x.i[nr].masked
AllHeld(x, E) == \A nr \in x.owed \ E : Held(x, nr)
Waits(x, nr, O) ==
  x.i[nr].rejected /\ x.i[nr].prio # Masked /\ x.i[nr].server \notin O
    => Refuses(x.p[x.i[nr].server], x.i[nr].prio)
AllWait(x, O, R, K) == \A nr \in (IrqSources \cap K) \ R : Waits(x, nr, O)

\* O: the servers that were outranked; R: the sources that were retargeted; E: the source
\* that a device's thread is about to send; K: the sources that a resend has seen to.
XGood(x, O, R, E, K) ==
  x \in XStates /\ Wired(x) /\ Above(x, O) /\ Faithful(x, R) /\ AllHeld(x, E) /\ AllWait(x, O, R, K)

\* Sources, the IPI and "no interrupt" are numbered apart.
LEMMA IrqNumbers == /\ IrqSources \subseteq Nat /\ Ipi \notin IrqSources /\ NoIrq \notin IrqSources
                    /\ Ipi # NoIrq
BY XicsAssumption DEF IrqSources, IrqOffset, Ipi, NoIrq

\* What the two layers store.
Rejected(y, x, nr) ==
  /\ y \in XStates /\ y.p = x.p /\ y.owed = x.owed
  /\ \A n \in IrqSources :
       /\ y.i[n].server = x.i[n].server /\ y.i[n].prio = x.i[n].prio /\ (y.i[n].masked <=> x.i[n].masked)
       /\ y.i[n].rejected <=> (x.i[n].rejected \/ n = nr)
Put(y, x, s, nr, pr) ==
  /\ y \in XStates /\ y.i = x.i /\ y.owed = x.owed
  /\ \A t \in Servers : t # s => y.p[t] = x.p[t]
  /\ y.p[s].xisr = nr /\ y.p[s].pprio = pr /\ y.p[s].line
  /\ y.p[s].cppr = x.p[s].cppr /\ y.p[s].mfrr = x.p[s].mfrr

\* What a reject writes: the source's rejected bit, or nothing for an IPI.
LEMMA RejectStores ==
  ASSUME NEW x \in XStates, NEW nr, NEW y, y = Reject(x, nr)
  PROVE  Rejected(y, x, nr)
<1>1. x.i \in [IrqSources -> Waiters] /\ x.p \in [Servers -> Presenters] /\ x.owed \in SUBSET IrqSources
  BY DEF XStates
<1>2. \A n \in IrqSources : x.i[n].rejected \in BOOLEAN
  <2> TAKE n \in IrqSources
  <2>1. x.i[n] \in Waiters
    BY <1>1
  <2> QED BY <2>1 DEF Waiters
<1>3. CASE nr \in IrqSources
  <2>1. PICK d : d = [x.i[nr] EXCEPT !.rejected = TRUE]
    OBVIOUS
  <2>2. /\ d \in Waiters /\ d.server = x.i[nr].server /\ d.prio = x.i[nr].prio
        /\ (d.masked <=> x.i[nr].masked) /\ d.rejected
    <3>1. x.i[nr] \in Waiters
      BY <1>1, <1>3
    <3> QED BY <2>1, <3>1 DEF Waiters
  <2>3. PICK j : j = [x.i EXCEPT ![nr] = d]
    OBVIOUS
  <2>4. j \in [IrqSources -> Waiters] /\ j[nr] = d /\ \A n \in IrqSources : n # nr => j[n] = x.i[n]
    BY <1>1, <1>3, <2>2, <2>3
  <2>5. y = [x EXCEPT !.i = j]
    BY <1>3, <2>1, <2>3 DEF Reject
  <2>6. y \in XStates /\ y.p = x.p /\ y.owed = x.owed /\ y.i = j
    BY <1>1, <2>4, <2>5 DEF XStates
  <2> QED BY <1>2, <2>2, <2>4, <2>6 DEF Rejected
<1>4. CASE nr \notin IrqSources
  <2>1. y = x
    BY <1>4 DEF Reject
  <2> QED BY <1>2, <1>4, <2>1 DEF Rejected
<1> QED BY <1>3, <1>4

\* What presenting an interrupt writes: the server's XISR, pending priority
\* and line.
LEMMA PresentStores ==
  ASSUME NEW x \in XStates, NEW s \in Servers, NEW nr \in Numbers, NEW pr \in XPrios,
         NEW y, y = Present(x, s, nr, pr)
  PROVE  Put(y, x, s, nr, pr)
<1>1. x.i \in [IrqSources -> Waiters] /\ x.p \in [Servers -> Presenters] /\ x.owed \in SUBSET IrqSources
  BY DEF XStates
<1>2. PICK d : d = [x.p[s] EXCEPT !.xisr = nr, !.pprio = pr, !.line = TRUE]
  OBVIOUS
<1>3. /\ d \in Presenters /\ d.xisr = nr /\ d.pprio = pr /\ d.line
      /\ d.cppr = x.p[s].cppr /\ d.mfrr = x.p[s].mfrr
  <2>1. x.p[s] \in Presenters
    BY <1>1
  <2> QED BY <1>2, <2>1 DEF Presenters
<1>4. PICK q : q = [x.p EXCEPT ![s] = d]
  OBVIOUS
<1>5. q \in [Servers -> Presenters] /\ q[s] = d /\ \A t \in Servers : t # s => q[t] = x.p[t]
  BY <1>1, <1>3, <1>4
<1>6. y = [x EXCEPT !.p = q]
  BY <1>1, <1>2, <1>4 DEF Present
<1>7. y \in XStates /\ y.i = x.i /\ y.owed = x.owed /\ y.p = q
  BY <1>1, <1>5, <1>6 DEF XStates
<1> QED BY <1>3, <1>5, <1>7 DEF Put

\* The types of the fields of a controller state.
LEMMA XFields ==
  ASSUME NEW x \in XStates
  PROVE  /\ \A s \in Servers : /\ x.p[s].cppr \in Nat /\ x.p[s].pprio \in Nat /\ x.p[s].mfrr \in Nat
                               /\ x.p[s].cppr \in XPrios /\ x.p[s].pprio \in XPrios /\ x.p[s].mfrr \in XPrios
                               /\ x.p[s].xisr \in Numbers /\ x.p[s].line \in BOOLEAN
         /\ \A n \in IrqSources : /\ x.i[n].server \in Servers /\ x.i[n].prio \in Nat /\ x.i[n].prio \in XPrios
                                  /\ x.i[n].rejected \in BOOLEAN /\ x.i[n].masked \in BOOLEAN
         /\ x.owed \subseteq IrqSources
<1>1. x.i \in [IrqSources -> Waiters] /\ x.p \in [Servers -> Presenters] /\ x.owed \in SUBSET IrqSources
  BY DEF XStates
<1>2. \A q \in XPrios : q \in Nat
  BY XicsAssumption DEF XPrios
<1>3. ASSUME NEW s \in Servers
      PROVE  /\ x.p[s].cppr \in XPrios /\ x.p[s].pprio \in XPrios /\ x.p[s].mfrr \in XPrios
             /\ x.p[s].xisr \in Numbers /\ x.p[s].line \in BOOLEAN
  <2>1. x.p[s] \in Presenters
    BY <1>1
  <2> QED BY <2>1 DEF Presenters
<1>4. ASSUME NEW n \in IrqSources
      PROVE  /\ x.i[n].server \in Servers /\ x.i[n].prio \in XPrios
             /\ x.i[n].rejected \in BOOLEAN /\ x.i[n].masked \in BOOLEAN
  <2>1. x.i[n] \in Waiters
    BY <1>1
  <2> QED BY <2>1 DEF Waiters
<1> QED BY <1>1, <1>2, <1>3, <1>4

\* A presenter takes what is more favoured than its priority and than what it holds.
MayTake(x, s, nr, pr) ==
  /\ s \in Servers /\ nr \in IrqSources \cup {Ipi} /\ pr \in XPrios
  /\ pr < x.p[s].cppr /\ (x.p[s].xisr # NoIrq => pr < x.p[s].pprio)
  /\ nr \in IrqSources => x.i[nr].server = s /\ x.i[nr].prio = pr
TakenBy(x, s, nr, pr) ==
  Present(IF x.p[s].xisr # NoIrq THEN Reject(x, x.p[s].xisr) ELSE x, s, nr, pr)

\* A server that takes an interrupt it may take keeps XGood, and the
\* interrupt is held.
LEMMA Takes ==
  ASSUME NEW O, NEW R, NEW E, NEW K, NEW x, XGood(x, O, R, E, K),
         NEW s, NEW nr, NEW pr, MayTake(x, s, nr, pr), NEW y, y = TakenBy(x, s, nr, pr)
  PROVE  XGood(y, O, R, E, K) /\ Held(y, nr)
<1>0. /\ s \in Servers /\ nr \in IrqSources \cup {Ipi} /\ pr \in XPrios
      /\ pr < x.p[s].cppr /\ (x.p[s].xisr # NoIrq => pr < x.p[s].pprio)
      /\ nr \in IrqSources => x.i[nr].server = s /\ x.i[nr].prio = pr
  BY Zenon DEF MayTake
<1>1. x \in XStates /\ Wired(x) /\ Above(x, O) /\ Faithful(x, R) /\ AllHeld(x, E) /\ AllWait(x, O, R, K)
  BY DEF XGood
<1>2. PICK old : old = x.p[s].xisr
  OBVIOUS
<1>3. PICK z : z = IF old # NoIrq THEN Reject(x, old) ELSE x
  OBVIOUS
<1>4. Rejected(z, x, old)
  <2>1. CASE old # NoIrq
    BY <1>1, <1>3, <2>1, RejectStores
  <2>2. CASE old = NoIrq
    BY <1>1, <1>3, <2>2, XFields, IrqNumbers DEF Rejected
  <2> QED BY <2>1, <2>2
<1>5. Put(y, z, s, nr, pr) /\ nr \in Numbers /\ nr # NoIrq
  <2>1. z \in XStates /\ nr \in Numbers /\ nr # NoIrq
    BY <1>0, <1>4, IrqNumbers DEF Rejected, Numbers
  <2>2. y = Present(z, s, nr, pr)
    BY <1>2, <1>3 DEF TakenBy
  <2> QED BY <1>0, <2>1, <2>2, PresentStores
<1>6. /\ y \in XStates /\ y.owed = x.owed
      /\ \A t \in Servers : t # s => y.p[t] = x.p[t]
      /\ y.p[s].xisr = nr /\ y.p[s].pprio = pr /\ y.p[s].line /\ y.p[s].cppr = x.p[s].cppr
      /\ \A n \in IrqSources :
           /\ y.i[n].server = x.i[n].server /\ y.i[n].prio = x.i[n].prio /\ (y.i[n].masked <=> x.i[n].masked)
           /\ y.i[n].rejected <=> (x.i[n].rejected \/ n = old)
  <2>1. /\ y \in XStates /\ y.i = z.i /\ y.owed = z.owed
        /\ \A t \in Servers : t # s => y.p[t] = z.p[t]
        /\ y.p[s].xisr = nr /\ y.p[s].pprio = pr /\ y.p[s].line /\ y.p[s].cppr = z.p[s].cppr
    BY <1>5, Zenon DEF Put
  <2>2. /\ z.p = x.p /\ z.owed = x.owed
        /\ \A n \in IrqSources :
             /\ z.i[n].server = x.i[n].server /\ z.i[n].prio = x.i[n].prio /\ (z.i[n].masked <=> x.i[n].masked)
             /\ z.i[n].rejected <=> (x.i[n].rejected \/ n = old)
    BY <1>4, Zenon DEF Rejected
  <2>3. \A t \in Servers : t # s => y.p[t] = x.p[t]
    BY <2>1, <2>2
  <2>4. y.p[s].cppr = x.p[s].cppr /\ y.owed = x.owed
    BY <2>1, <2>2
  <2> QED BY <2>1, <2>2, <2>3, <2>4
<1>7. Wired(y)
  <2> SUFFICES ASSUME NEW t \in Servers PROVE y.p[t].line <=> y.p[t].xisr # NoIrq
    BY DEF Wired
  <2>1. CASE t = s
    BY <1>0, <1>5, <1>6, <2>1, Zenon
  <2>2. CASE t # s
    <3>1. y.p[t] = x.p[t]
      BY <1>6, <2>2, Zenon
    <3> QED BY <1>1, <3>1, Zenon DEF Wired
  <2> QED BY <2>1, <2>2
<1>8. Above(y, O)
  <2> SUFFICES ASSUME NEW t \in Servers \ O, y.p[t].xisr # NoIrq PROVE y.p[t].pprio < y.p[t].cppr
    BY DEF Above
  <2>1. CASE t = s
    <3>1. y.p[t].pprio = pr /\ y.p[t].cppr = x.p[s].cppr
      BY <1>6, <2>1, Zenon
    <3> QED BY <1>0, <3>1
  <2>2. CASE t # s
    <3>1. y.p[t] = x.p[t]
      BY <1>6, <2>2, Zenon
    <3> QED BY <1>1, <3>1, Zenon DEF Above
  <2> QED BY <2>1, <2>2
<1>9. Faithful(y, R)
  <2> SUFFICES ASSUME NEW t \in Servers, NEW n \in IrqSources \ R, y.p[t].xisr = n
               PROVE  y.i[n].server = t /\ y.i[n].prio = y.p[t].pprio
    BY DEF Faithful
  <2>0. y.i[n].server = x.i[n].server /\ y.i[n].prio = x.i[n].prio
    BY <1>6, Zenon
  <2>1. CASE t = s
    <3>1. n = nr /\ y.p[t].pprio = pr
      BY <1>6, <2>1, Zenon
    <3> QED BY <1>0, <2>0, <2>1, <3>1, Zenon
  <2>2. CASE t # s
    <3>1. y.p[t] = x.p[t]
      BY <1>6, <2>2, Zenon
    <3>2. x.p[t].xisr = n
      BY <3>1, <2>0
    <3>3. x.i[n].server = t /\ x.i[n].prio = x.p[t].pprio
      BY <1>1, <3>2, Zenon DEF Faithful
    <3> QED BY <2>0, <3>1, <3>3, Zenon
  <2> QED BY <2>1, <2>2
<1>10. AllHeld(y, E)
  <2> SUFFICES ASSUME NEW n \in y.owed \ E PROVE Held(y, n)
    BY DEF AllHeld
  <2>1. n \in IrqSources /\ Held(x, n)
    BY <1>1, <1>6, XFields DEF AllHeld
  <2>2. CASE x.i[n].rejected \/ x.i[n].masked
    BY <1>6, <2>1, <2>2 DEF Held
  <2>3. CASE \E t \in Servers : x.p[t].xisr = n
    <3>1. PICK t \in Servers : x.p[t].xisr = n
      BY <2>3
    <3>2. CASE t = s
      BY <1>2, <1>6, <2>1, <3>1, <3>2 DEF Held
    <3>3. CASE t # s
      BY <1>6, <3>1, <3>3 DEF Held
    <3> QED BY <3>2, <3>3
  <2> QED BY <2>1, <2>2, <2>3 DEF Held
<1>11. AllWait(y, O, R, K)
  <2> SUFFICES ASSUME NEW n \in (IrqSources \cap K) \ R, y.i[n].rejected, y.i[n].prio # Masked, y.i[n].server \notin O
               PROVE  Refuses(y.p[y.i[n].server], y.i[n].prio)
    BY DEF AllWait, Waits
  <2>1. PICK t \in Servers, q \in Nat : t = x.i[n].server /\ q = x.i[n].prio
    BY <1>1, XFields
  <2>2. y.i[n].server = t /\ y.i[n].prio = q
    BY <1>6, <2>1
  <2>3. /\ x.p[s].pprio \in Nat /\ x.p[s].cppr \in Nat /\ pr \in Nat
    BY <1>0, <1>1, XFields, XicsAssumption DEF XPrios
  <2>4. CASE n = old
    <3>1. t = s /\ q = x.p[s].pprio
      <4>1. n \in IrqSources \ R /\ x.p[s].xisr = n
        BY <1>2, <2>4
      <4>2. x.i[n].server = s /\ x.i[n].prio = x.p[s].pprio
        BY <1>0, <1>1, <4>1, Zenon DEF Faithful
      <4> QED BY <2>1, <4>2
    <3>2. pr < q
      BY <1>0, <1>2, <2>4, <3>1, IrqNumbers
    <3>3. y.p[s].xisr # NoIrq /\ y.p[s].pprio <= q
      BY <1>5, <1>6, <2>3, <3>2
    <3>4. Refuses(y.p[s], q)
      BY <3>3 DEF Refuses
    <3> QED BY <2>2, <3>1, <3>4
  <2>5. CASE n # old
    <3>1. Refuses(x.p[t], q)
      BY <1>1, <1>6, <2>1, <2>2, <2>5 DEF AllWait, Waits
    <3>2. CASE t = s
      <4>1. q >= x.p[s].cppr \/ (x.p[s].xisr # NoIrq /\ x.p[s].pprio <= q)
        BY <3>1, <3>2 DEF Refuses
      <4>2. q >= y.p[s].cppr \/ (y.p[s].xisr # NoIrq /\ y.p[s].pprio <= q)
        BY <1>0, <1>5, <1>6, <2>3, <4>1
      <4>3. Refuses(y.p[s], q)
        BY <4>2 DEF Refuses
      <4> QED BY <2>2, <3>2, <4>3
    <3>3. CASE t # s
      BY <1>6, <2>2, <3>1, <3>3
    <3> QED BY <3>2, <3>3
  <2> QED BY <2>4, <2>5
<1>12. Held(y, nr)
  BY <1>0, <1>6, Zenon DEF Held
<1> QED BY <1>6, <1>7, <1>8, <1>9, <1>10, <1>11, <1>12, Zenon DEF XGood

\* CheckIpi keeps XGood when the IPI outranks the processor priority.
LEMMA CheckIpiKeeps ==
  ASSUME NEW O, NEW R, NEW E, NEW K, NEW x, XGood(x, O, R, E, K), NEW s \in Servers, x.p[s].mfrr < x.p[s].cppr
  PROVE  XGood(CheckIpi(x, s), O, R, E, K)
<1>1. x \in XStates
  BY DEF XGood
<1>2. CASE x.p[s].xisr # NoIrq /\ x.p[s].pprio <= x.p[s].mfrr
  <2>1. CheckIpi(x, s) = x
    BY <1>2 DEF CheckIpi
  <2> QED BY <2>1
<1>3. CASE ~(x.p[s].xisr # NoIrq /\ x.p[s].pprio <= x.p[s].mfrr)
  <2>1. PICK pr, y : pr = x.p[s].mfrr /\ y = CheckIpi(x, s)
    OBVIOUS
  <2>2. y = TakenBy(x, s, Ipi, pr)
    BY <1>3, <2>1 DEF CheckIpi, TakenBy
  <2>3. pr \in XPrios /\ pr < x.p[s].cppr /\ (x.p[s].xisr # NoIrq => pr < x.p[s].pprio)
    BY <1>1, <1>3, <2>1, XFields
  <2>4. XGood(y, O, R, E, K)
    <3>1. MayTake(x, s, Ipi, pr)
      BY <2>3, IrqNumbers DEF MayTake
    <3> QED BY <2>2, <3>1, Takes
  <2> QED BY <2>1, <2>4
<1> QED BY <1>2, <1>3

\* A source is sent as its xive says.
LEMMA IcpIrqKeeps ==
  ASSUME NEW O, NEW R, NEW E, NEW K, NEW x, XGood(x, O, R, E, K), NEW nr \in IrqSources,
         NEW s, s = x.i[nr].server, NEW pr, pr = x.i[nr].prio, NEW y, y = IcpIrq(x, s, nr, pr)
  PROVE  XGood(y, O, R, E, K) /\ Held(y, nr)
<1>1. x \in XStates /\ Wired(x) /\ Above(x, O) /\ Faithful(x, R) /\ AllHeld(x, E) /\ AllWait(x, O, R, K)
  BY DEF XGood
<1>2. s \in Servers /\ pr \in XPrios /\ pr \in Nat /\ x.p[s].cppr \in Nat /\ x.p[s].pprio \in Nat
  BY <1>1, XFields
<1>3. CASE Refuses(x.p[s], pr)
  <2>1. y = Reject(x, nr)
    BY <1>3 DEF IcpIrq, IcpStore
  <2>2. Rejected(y, x, nr)
    BY <1>1, <2>1, RejectStores
  <2>3. /\ y \in XStates /\ y.p = x.p /\ y.owed = x.owed
        /\ \A n \in IrqSources :
             /\ y.i[n].server = x.i[n].server /\ y.i[n].prio = x.i[n].prio /\ (y.i[n].masked <=> x.i[n].masked)
             /\ y.i[n].rejected <=> (x.i[n].rejected \/ n = nr)
    BY <2>2 DEF Rejected
  <2>4. Wired(y) /\ Above(y, O) /\ Faithful(y, R)
    <3>1. Wired(y) /\ Above(y, O)
      <4>1. Wired(x) /\ Above(x, O) /\ y.p = x.p
        BY <1>1, <2>3
      <4> QED BY <4>1, Zenon DEF Wired, Above
    <3>2. Faithful(y, R)
      <4> SUFFICES ASSUME NEW t \in Servers, NEW n \in IrqSources \ R, y.p[t].xisr = n
                   PROVE  y.i[n].server = t /\ y.i[n].prio = y.p[t].pprio
        BY DEF Faithful
      <4>1. x.p[t].xisr = n /\ y.p[t].pprio = x.p[t].pprio
        BY <2>3
      <4>2. x.i[n].server = t /\ x.i[n].prio = x.p[t].pprio
        BY <1>1, <4>1 DEF Faithful
      <4> QED BY <2>3, <4>1, <4>2
    <3> QED BY <3>1, <3>2
  <2>5. AllHeld(y, E) /\ Held(y, nr)
    <3>1. Held(y, nr)
      BY <2>3 DEF Held
    <3>2. ASSUME NEW n \in y.owed \ E PROVE Held(y, n)
      <4>1. n \in IrqSources /\ Held(x, n)
        BY <1>1, <2>3, XFields DEF AllHeld
      <4> QED BY <2>3, <4>1 DEF Held
    <3> QED BY <3>1, <3>2 DEF AllHeld
  <2>6. AllWait(y, O, R, K)
    <3> SUFFICES ASSUME NEW n \in (IrqSources \cap K) \ R PROVE Waits(y, n, O)
      BY DEF AllWait
    <3>1. CASE n = nr
      BY <1>3, <2>3, <3>1 DEF Waits
    <3>2. CASE n # nr
      BY <1>1, <2>3, <3>2 DEF AllWait, Waits
    <3> QED BY <3>1, <3>2
  <2> QED BY <2>3, <2>4, <2>5, <2>6 DEF XGood
<1>4. CASE ~Refuses(x.p[s], pr)
  <2>1. y = TakenBy(x, s, nr, pr)
    BY <1>4 DEF IcpIrq, IcpStore, TakenBy
  <2>2. pr < x.p[s].cppr /\ (x.p[s].xisr # NoIrq => pr < x.p[s].pprio)
    BY <1>2, <1>4 DEF Refuses
  <2>3. MayTake(x, s, nr, pr)
    BY <1>2, <2>2 DEF MayTake
  <2> QED BY <2>1, <2>3, Takes
<1> QED BY <1>3, <1>4

\* A source's rejected bit is cleared, and it is sent again.
Cleared(y, x, nr) ==
  /\ y \in XStates /\ y.p = x.p /\ y.owed = x.owed
  /\ \A n \in IrqSources :
       /\ y.i[n].server = x.i[n].server /\ y.i[n].prio = x.i[n].prio /\ (y.i[n].masked <=> x.i[n].masked)
       /\ y.i[n].rejected <=> (x.i[n].rejected /\ n # nr)

\* What clearing a source's rejected bit writes.
LEMMA ClearStores ==
  ASSUME NEW x \in XStates, NEW nr \in IrqSources, NEW y, y = [x EXCEPT !.i[nr].rejected = FALSE]
  PROVE  Cleared(y, x, nr)
<1>1. x.i \in [IrqSources -> Waiters] /\ x.p \in [Servers -> Presenters] /\ x.owed \in SUBSET IrqSources
  BY DEF XStates
<1>2. \A n \in IrqSources : x.i[n].rejected \in BOOLEAN
  BY XFields
<1>3. PICK d : d = [x.i[nr] EXCEPT !.rejected = FALSE]
  OBVIOUS
<1>4. /\ d \in Waiters /\ d.server = x.i[nr].server /\ d.prio = x.i[nr].prio
      /\ (d.masked <=> x.i[nr].masked) /\ ~d.rejected
  <2>1. x.i[nr] \in Waiters
    BY <1>1
  <2> QED BY <1>3, <2>1 DEF Waiters
<1>5. PICK j : j = [x.i EXCEPT ![nr] = d]
  OBVIOUS
<1>6. j \in [IrqSources -> Waiters] /\ j[nr] = d /\ \A n \in IrqSources : n # nr => j[n] = x.i[n]
  BY <1>1, <1>4, <1>5
<1>7. y = [x EXCEPT !.i = j]
  BY <1>3, <1>5
<1>8. y \in XStates /\ y.p = x.p /\ y.owed = x.owed /\ y.i = j
  BY <1>1, <1>6, <1>7 DEF XStates
<1> QED BY <1>2, <1>4, <1>6, <1>8 DEF Cleared

\* Resending one source keeps XGood, and that source is done.
LEMMA ResendOneKeeps ==
  ASSUME NEW O, NEW R, NEW E, NEW K, NEW x, XGood(x, O, R, E, K), NEW nr \in IrqSources,
         NEW z, z = ResendOne(x, nr)
  PROVE  XGood(z, O, R, E, K \cup {nr})
<1>1. x \in XStates /\ Wired(x) /\ Above(x, O) /\ Faithful(x, R) /\ AllHeld(x, E) /\ AllWait(x, O, R, K)
  BY DEF XGood
<1>2. x.i[nr].rejected \in BOOLEAN
  BY <1>1, XFields
<1>3. CASE ~x.i[nr].rejected
  <2>1. z = x
    BY <1>3 DEF ResendOne
  <2>2. AllWait(x, O, R, K \cup {nr})
    BY <1>1, <1>3 DEF AllWait, Waits
  <2> QED BY <1>1, <2>1, <2>2 DEF XGood
<1>4. CASE x.i[nr].rejected
  <2>1. PICK y : y = [x EXCEPT !.i[nr].rejected = FALSE]
    OBVIOUS
  <2>2. Cleared(y, x, nr)
    BY <1>1, <2>1, ClearStores
  <2>3. /\ y \in XStates /\ y.p = x.p /\ y.owed = x.owed
        /\ \A n \in IrqSources :
             /\ y.i[n].server = x.i[n].server /\ y.i[n].prio = x.i[n].prio /\ (y.i[n].masked <=> x.i[n].masked)
             /\ y.i[n].rejected <=> (x.i[n].rejected /\ n # nr)
    BY <2>2, Zenon DEF Cleared
  <2>4. Wired(y) /\ Above(y, O) /\ Faithful(y, R)
    BY <1>1, <2>3 DEF Wired, Above, Faithful
  <2>5. AllWait(y, O, R, K \cup {nr})
    <3> SUFFICES ASSUME NEW n \in (IrqSources \cap (K \cup {nr})) \ R PROVE Waits(y, n, O)
      BY DEF AllWait
    <3>1. CASE n = nr
      BY <2>3, <3>1 DEF Waits
    <3>2. CASE n # nr
      <4>1. Waits(x, n, O)
        BY <1>1, <3>2 DEF AllWait
      <4> QED BY <2>3, <3>2, <4>1 DEF Waits
    <3> QED BY <3>1, <3>2
  <2>6. \A n \in (y.owed \ E) \ {nr} : n \in IrqSources /\ Held(y, n)
    <3> TAKE n \in (y.owed \ E) \ {nr}
    <3>1. n \in IrqSources /\ Held(x, n)
      BY <1>1, <2>3, XFields DEF AllHeld
    <3> QED BY <2>3, <3>1 DEF Held
  <2>7. CASE x.i[nr].prio = Masked
    <3>1. PICK w : w = {n \in y.owed : n # nr \/ x.i[n].masked}
      OBVIOUS
    <3>2. z = [y EXCEPT !.owed = w]
      BY <1>4, <2>1, <2>7, <3>1 DEF ResendOne
    <3>3. z \in XStates /\ z.p = y.p /\ z.i = y.i /\ z.owed = w
      BY <2>3, <3>1, <3>2 DEF XStates
    <3>4. Wired(z) /\ Above(z, O) /\ Faithful(z, R) /\ AllWait(z, O, R, K \cup {nr})
      BY <2>4, <2>5, <3>3 DEF Wired, Above, Faithful, AllWait, Waits
    <3>5. AllHeld(z, E)
      <4> SUFFICES ASSUME NEW n \in w \ E PROVE Held(z, n)
        BY <3>3 DEF AllHeld
      <4>1. CASE n = nr
        <5>1. y.i[nr].masked
          BY <2>3, <3>1, <4>1
        <5> QED BY <3>3, <4>1, <5>1 DEF Held
      <4>2. CASE n # nr
        <5>1. Held(y, n)
          BY <2>6, <3>1, <4>2
        <5> QED BY <3>3, <5>1 DEF Held
      <4> QED BY <4>1, <4>2
    <3> QED BY <3>3, <3>4, <3>5 DEF XGood
  <2>8. CASE x.i[nr].prio # Masked
    <3>1. PICK s, pr : s = x.i[nr].server /\ pr = x.i[nr].prio
      OBVIOUS
    <3>2. z = IcpIrq(y, s, nr, pr)
      BY <1>4, <2>1, <2>8, <3>1 DEF ResendOne
    <3>3. XGood(y, O, R, E \cup {nr}, K \cup {nr})
      <4>1. AllHeld(y, E \cup {nr})
        BY <2>6 DEF AllHeld
      <4> QED BY <2>3, <2>4, <2>5, <4>1 DEF XGood
    <3>4. s = y.i[nr].server /\ pr = y.i[nr].prio
      BY <2>3, <3>1
    <3>5. XGood(z, O, R, E \cup {nr}, K \cup {nr}) /\ Held(z, nr)
      BY <3>2, <3>3, <3>4, IcpIrqKeeps
    <3>6. AllHeld(z, E)
      BY <3>5 DEF XGood, AllHeld
    <3> QED BY <3>5, <3>6 DEF XGood
  <2> QED BY <2>7, <2>8
<1> QED BY <1>2, <1>3, <1>4

\* The resend as a function of the number of sources it has seen to.
IsResend(f, x, k) ==
  /\ f = [n \in 0 .. k |-> f[n]] /\ f[0] = x
  /\ \A n \in 1 .. k : f[n] = ResendOne(f[n - 1], IrqOffset + n - 1)

\* The recursion that defines IcsResend has a solution on every finite
\* prefix.
LEMMA ResendsExist == ASSUME NEW x, NEW k \in Nat PROVE \E f : IsResend(f, x, k)
<1> DEFINE Bad == {m \in Nat : ~(\E f : IsResend(f, x, m))}
<1>1. SUFFICES ASSUME Bad # {} PROVE FALSE
  OBVIOUS
<1>2. PICK m \in Bad : \A n \in Bad : m <= n
  <2>1. Bad \in SUBSET Nat
    OBVIOUS
  <2> HIDE DEF Bad
  <2> QED BY <1>1, <2>1, LeastNat
<1>3. m # 0
  <2>1. SUFFICES ASSUME m = 0 PROVE FALSE
    OBVIOUS
  <2> DEFINE g == [n \in 0 .. 0 |-> x]
  <2>2. IsResend(g, x, 0)
    BY DEF IsResend
  <2> QED BY <1>2, <2>1, <2>2
<1>4. m \in Nat /\ m - 1 \in Nat
  BY <1>2, <1>3
<1>5. PICK f : IsResend(f, x, m - 1)
  BY <1>2, <1>4
<1> DEFINE g == [n \in 0 .. m |-> IF n < m THEN f[n] ELSE ResendOne(f[m - 1], IrqOffset + m - 1)]
<1>6. IsResend(g, x, m)
  <2>1. g = [n \in 0 .. m |-> g[n]]
    OBVIOUS
  <2>2. g[0] = x
    BY <1>3, <1>4, <1>5 DEF IsResend
  <2>3. ASSUME NEW n \in 1 .. m PROVE g[n] = ResendOne(g[n - 1], IrqOffset + n - 1)
    <3>1. g[n - 1] = f[n - 1]
      BY <1>4
    <3>2. CASE n < m
      <4>1. \A j \in 1 .. m - 1 : f[j] = ResendOne(f[j - 1], IrqOffset + j - 1)
        BY <1>5, Zenon DEF IsResend
      <4>2. n \in 1 .. m - 1 /\ g[n] = f[n]
        BY <1>4, <3>2
      <4> QED BY <3>1, <4>1, <4>2
    <3>3. CASE n = m
      <4>1. g[n] = ResendOne(f[m - 1], IrqOffset + m - 1)
        BY <1>4, <3>3
      <4> QED BY <3>1, <3>3, <4>1
    <3> QED BY <1>4, <3>2, <3>3
  <2> HIDE DEF g
  <2> QED BY <2>1, <2>2, <2>3 DEF IsResend
<1> QED BY <1>2, <1>6

\* IcsResend is the last value of such a solution.
LEMMA ResendIs == ASSUME NEW x PROVE \E f : IsResend(f, x, NrIrqs) /\ IcsResend(x) = f[NrIrqs]
<1> DEFINE Step(f) == [n \in 0 .. NrIrqs |-> IF n = 0 THEN x ELSE ResendOne(f[n - 1], IrqOffset + n - 1)]
           h == CHOOSE f : f = Step(f)
<1>0. NrIrqs \in Nat
  BY XicsAssumption
<1>1. PICK f : IsResend(f, x, NrIrqs)
  BY <1>0, ResendsExist
<1>2. f = Step(f)
  <2>1. ASSUME NEW n \in 0 .. NrIrqs PROVE f[n] = IF n = 0 THEN x ELSE ResendOne(f[n - 1], IrqOffset + n - 1)
    <3>1. f[0] = x /\ \A j \in 1 .. NrIrqs : f[j] = ResendOne(f[j - 1], IrqOffset + j - 1)
      BY <1>1, Zenon DEF IsResend
    <3>2. n = 0 \/ n \in 1 .. NrIrqs
      BY <1>0
    <3>3. n \in 1 .. NrIrqs => n # 0
      BY <1>0
    <3> QED BY <3>1, <3>2, <3>3, Zenon
  <2>2. f = [n \in 0 .. NrIrqs |-> f[n]]
    BY <1>1, Zenon DEF IsResend
  <2> QED BY <2>1, <2>2
<1>3. h = Step(h)
  <2> HIDE DEF Step
  <2> QED BY <1>2
<1>4. IcsResend(x) = h[NrIrqs]
  BY Zenon DEF IcsResend
<1> HIDE DEF h
<1>5. \A n \in 0 .. NrIrqs : h[n] = IF n = 0 THEN x ELSE ResendOne(h[n - 1], IrqOffset + n - 1)
  BY <1>3, Zenon
<1>6. h = [n \in 0 .. NrIrqs |-> h[n]]
  <2>1. DOMAIN h = 0 .. NrIrqs
    BY <1>3, Zenon
  <2>2. h = [n \in DOMAIN h |-> h[n]]
    BY <1>3
  <2> HIDE DEF Step
  <2> QED BY <2>1, <2>2
<1> HIDE DEF Step
<1>7. IsResend(h, x, NrIrqs)
  <2>1. h[0] = x
    BY <1>0, <1>5
  <2>2. ASSUME NEW n \in 1 .. NrIrqs PROVE h[n] = ResendOne(h[n - 1], IrqOffset + n - 1)
    <3>1. n \in 0 .. NrIrqs /\ n # 0
      BY <1>0
    <3> QED BY <1>5, <3>1, Zenon
  <2> QED BY <1>6, <2>1, <2>2, Zenon DEF IsResend
<1> QED BY <1>4, <1>7

\* Resending every rejected source keeps XGood and leaves no source undone.
LEMMA IcsResendKeeps ==
  ASSUME NEW O, NEW R, NEW E, NEW x, XGood(x, O, R, E, {})
  PROVE  XGood(IcsResend(x), O, R, E, IrqSources)
<1>0. NrIrqs \in Nat
  BY XicsAssumption
<1>1. PICK f : IsResend(f, x, NrIrqs) /\ IcsResend(x) = f[NrIrqs]
  BY ResendIs
<1> DEFINE Seen(n) == IrqOffset .. IrqOffset + n - 1
           Bad == {n \in 0 .. NrIrqs : ~XGood(f[n], O, R, E, Seen(n))}
<1>2. SUFFICES ASSUME Bad # {} PROVE FALSE
  <2>1. Seen(NrIrqs) = IrqSources
    BY DEF IrqSources
  <2> HIDE DEF Seen
  <2> QED BY <1>0, <1>1, <2>1
<1>3. PICK n \in Bad : \A k \in Bad : n <= k
  <2>1. Bad \in SUBSET Nat
    BY <1>0
  <2> HIDE DEF Bad
  <2> QED BY <1>2, <2>1, LeastNat
<1>4. n # 0
  <2>1. Seen(0) = {}
    BY DEF IrqOffset
  <2>2. f[0] = x
    BY <1>1, Zenon DEF IsResend
  <2> HIDE DEF Seen
  <2> QED BY <1>3, <2>1, <2>2
<1>5. n \in 1 .. NrIrqs /\ n - 1 \in 0 .. NrIrqs
  BY <1>0, <1>3, <1>4
<1>6. PICK y, z, nr : y = f[n - 1] /\ z = f[n] /\ nr = IrqOffset + n - 1
  OBVIOUS
<1>7. z = ResendOne(y, nr)
  BY <1>1, <1>5, <1>6 DEF IsResend
<1>8. XGood(y, O, R, E, Seen(n - 1))
  BY <1>0, <1>3, <1>5, <1>6
<1>9. nr \in IrqSources /\ Seen(n - 1) \cup {nr} = Seen(n)
  <2>1. nr \in IrqSources
    BY <1>0, <1>5, <1>6 DEF IrqSources, IrqOffset
  <2>2. Seen(n - 1) \cup {nr} = Seen(n)
    BY <1>0, <1>5, <1>6 DEF IrqOffset
  <2> QED BY <2>1, <2>2
<1>10. XGood(z, O, R, E, Seen(n))
  <2> HIDE DEF Seen
  <2>1. XGood(z, O, R, E, Seen(n - 1) \cup {nr})
    BY <1>7, <1>8, <1>9, ResendOneKeeps
  <2> QED BY <1>9, <2>1
<1> QED BY <1>3, <1>6, <1>10

\* Resending to one server, the IPI included, keeps XGood and leaves no
\* source undone.
LEMMA IcpResendKeeps ==
  ASSUME NEW O, NEW R, NEW E, NEW x, XGood(x, O, R, E, {}), NEW s \in Servers
  PROVE  XGood(IcpResend(x, s), O, R, E, IrqSources)
<1>1. PICK y : y = IF x.p[s].mfrr < x.p[s].cppr THEN CheckIpi(x, s) ELSE x
  OBVIOUS
<1>2. XGood(y, O, R, E, {})
  BY <1>1, CheckIpiKeeps
<1>3. IcpResend(x, s) = IcsResend(y)
  BY <1>1 DEF IcpResend
<1> QED BY <1>2, <1>3, IcsResendKeeps

-----------------------------------------------------------------------------
(* The handlers                                                            *)

\* One presenter is stored anew.
Swapped(y, x, s, d) ==
  /\ y \in XStates /\ y.i = x.i /\ y.p[s] = d /\ \A t \in Servers : t # s => y.p[t] = x.p[t]

SwapTo(x, s, d, o) == [x EXCEPT !.p = [x.p EXCEPT ![s] = d], !.owed = o]

\* What replacing a server's presenter writes.
LEMMA SwapStores ==
  ASSUME NEW x, x \in XStates, NEW s, s \in Servers, NEW d, d \in Presenters, NEW o, o \in SUBSET IrqSources,
         NEW y, y = SwapTo(x, s, d, o)
  PROVE  Swapped(y, x, s, d) /\ y.owed = o
<1>1. x.i \in [IrqSources -> Waiters] /\ x.p \in [Servers -> Presenters]
  BY DEF XStates
<1>2. PICK q : q = [x.p EXCEPT ![s] = d]
  OBVIOUS
<1>3. q \in [Servers -> Presenters] /\ q[s] = d /\ \A t \in Servers : t # s => q[t] = x.p[t]
  BY <1>1, <1>2
<1>4. y = [x EXCEPT !.p = q, !.owed = o]
  BY <1>2 DEF SwapTo
<1>5. y \in XStates /\ y.i = x.i /\ y.owed = o /\ y.p = q
  BY <1>1, <1>3, <1>4 DEF XStates
<1> QED BY <1>3, <1>5 DEF Swapped

\* The priority of a vCPU is set.
WithCppr(y, x, s, c) ==
  /\ y \in XStates /\ y.i = x.i /\ y.owed = x.owed /\ (\A t \in Servers : t # s => y.p[t] = x.p[t])
  /\ y.p[s].cppr = c /\ y.p[s].xisr = x.p[s].xisr /\ y.p[s].pprio = x.p[s].pprio
  /\ (y.p[s].line <=> x.p[s].line)

CpprTo(x, s, c) == [x EXCEPT !.p[s].cppr = c]

\* What writing a server's processor priority writes.
LEMMA CpprStores ==
  ASSUME NEW x, x \in XStates, NEW s, s \in Servers, NEW c, c \in XPrios, NEW y, y = CpprTo(x, s, c)
  PROVE  WithCppr(y, x, s, c)
<1>1. PICK d : d = [x.p[s] EXCEPT !.cppr = c]
  OBVIOUS
<1>2. /\ d \in Presenters /\ d.cppr = c /\ d.xisr = x.p[s].xisr /\ d.pprio = x.p[s].pprio
      /\ (d.line <=> x.p[s].line)
  <2>1. x.p[s] \in Presenters
    BY DEF XStates
  <2> QED BY <1>1, <2>1 DEF Presenters
<1>3. PICK o : o = x.owed
  OBVIOUS
<1>4. o \in SUBSET IrqSources /\ y = SwapTo(x, s, d, o)
  BY <1>1, <1>3 DEF XStates, SwapTo, CpprTo
<1>5. Swapped(y, x, s, d) /\ y.owed = o
  BY <1>2, <1>4, SwapStores
<1> QED BY <1>2, <1>3, <1>5 DEF Swapped, WithCppr

\* A resend sees to all sources and all presenters: what was retargeted counts again unless
\* it is presented, and so does a server whose presenter does not overhang.
LEMMA Restarts ==
  ASSUME NEW O, NEW R, NEW E, NEW K, NEW x, XGood(x, O, R, E, K), NEW P, NEW Q,
         P = {t \in O : Overhangs(x.p[t])}, Q = {nr \in R : \E s \in Servers : x.p[s].xisr = nr}
  PROVE  XGood(x, P, Q, E, {})
<1>1. x \in XStates /\ Wired(x) /\ Above(x, O) /\ Faithful(x, R) /\ AllHeld(x, E) /\ AllWait(x, O, R, K)
  BY DEF XGood
<1>2. Above(x, P)
  <2> SUFFICES ASSUME NEW t \in Servers \ P, x.p[t].xisr # NoIrq PROVE x.p[t].pprio < x.p[t].cppr
    BY DEF Above
  <2>1. CASE t \in O
    <3>1. ~(x.p[t].cppr <= x.p[t].pprio)
      BY <2>1 DEF Overhangs
    <3> QED BY <1>1, <3>1, XFields
  <2>2. CASE t \notin O
    BY <1>1, <2>2 DEF Above
  <2> QED BY <2>1, <2>2
<1>3. Faithful(x, Q)
  <2> SUFFICES ASSUME NEW s \in Servers, NEW nr \in IrqSources \ Q, x.p[s].xisr = nr
               PROVE  x.i[nr].server = s /\ x.i[nr].prio = x.p[s].pprio
    BY DEF Faithful
  <2>1. nr \in IrqSources \ R
    OBVIOUS
  <2> QED BY <1>1, <2>1, Zenon DEF Faithful
<1>4. AllWait(x, P, Q, {})
  BY DEF AllWait
<1> QED BY <1>1, <1>2, <1>3, <1>4 DEF XGood

\* The vCPU's priority goes down, or up past what the presenter holds.
LEMMA CpprSet ==
  ASSUME NEW O, NEW R, NEW E, NEW K, NEW x, XGood(x, O, R, E, K), NEW s \in Servers, NEW c \in XPrios,
         NEW y, WithCppr(y, x, s, c),
         \/ K = {} /\ x.p[s].xisr = NoIrq
         \/ c = x.p[s].cppr
         \/ c < x.p[s].cppr /\ (x.p[s].xisr # NoIrq => x.p[s].pprio < c)
         \/ x.p[s].xisr # NoIrq /\ (s \in O \/ x.p[s].pprio < c)
  PROVE  XGood(y, O, R, E, K)
<1>1. x \in XStates /\ Wired(x) /\ Above(x, O) /\ Faithful(x, R) /\ AllHeld(x, E) /\ AllWait(x, O, R, K)
  BY DEF XGood
<1>2. /\ y \in XStates /\ y.i = x.i /\ y.owed = x.owed /\ (\A t \in Servers : t # s => y.p[t] = x.p[t])
      /\ y.p[s].cppr = c /\ y.p[s].xisr = x.p[s].xisr /\ y.p[s].pprio = x.p[s].pprio
      /\ (y.p[s].line <=> x.p[s].line)
  BY Zenon DEF WithCppr
<1>3. \A t \in Servers : y.p[t].xisr = x.p[t].xisr /\ y.p[t].pprio = x.p[t].pprio /\ (y.p[t].line <=> x.p[t].line)
  BY <1>2
<1>4. c \in Nat /\ x.p[s].cppr \in Nat /\ x.p[s].pprio \in Nat
  BY <1>1, XFields, XicsAssumption DEF XPrios
<1>5. Wired(y)
  BY <1>1, <1>3 DEF Wired
<1>6. Faithful(y, R)
  BY <1>1, <1>2, <1>3 DEF Faithful
<1>7. AllHeld(y, E)
  BY <1>1, <1>2, <1>3 DEF AllHeld, Held
<1>8. Above(y, O)
  <2> SUFFICES ASSUME NEW t \in Servers \ O, y.p[t].xisr # NoIrq PROVE y.p[t].pprio < y.p[t].cppr
    BY DEF Above
  <2>1. CASE t = s
    <3>1. x.p[s].xisr # NoIrq /\ x.p[s].pprio < x.p[s].cppr
      BY <1>1, <1>2, <2>1 DEF Above
    <3> QED BY <1>2, <1>4, <2>1, <3>1
  <2>2. CASE t # s
    BY <1>1, <1>2, <2>2 DEF Above
  <2> QED BY <2>1, <2>2
<1>9. AllWait(y, O, R, K)
  <2> SUFFICES ASSUME NEW n \in (IrqSources \cap K) \ R, y.i[n].rejected, y.i[n].prio # Masked, y.i[n].server \notin O
               PROVE  Refuses(y.p[y.i[n].server], y.i[n].prio)
    BY DEF AllWait, Waits
  <2>1. PICK t \in Servers, q \in Nat : t = x.i[n].server /\ q = x.i[n].prio
    BY <1>1, XFields
  <2>2. Refuses(x.p[t], q) /\ t \notin O
    BY <1>1, <1>2, <2>1 DEF AllWait, Waits
  <2>3. CASE t = s
    <3>1. q >= x.p[s].cppr \/ (x.p[s].xisr # NoIrq /\ x.p[s].pprio <= q)
      BY <2>2, <2>3 DEF Refuses
    <3>2. x.p[s].xisr # NoIrq => x.p[s].pprio < x.p[s].cppr
      BY <1>1, <2>2, <2>3 DEF Above
    <3>3. q >= c \/ (x.p[s].xisr # NoIrq /\ x.p[s].pprio <= q)
      <4>1. K # {}
        OBVIOUS
      <4> QED BY <1>4, <2>2, <2>3, <3>1, <3>2, <4>1
    <3>4. Refuses(y.p[s], q)
      BY <1>2, <3>3 DEF Refuses
    <3> QED BY <1>2, <2>1, <2>3, <3>4
  <2>4. CASE t # s
    BY <1>2, <2>1, <2>2, <2>4
  <2> QED BY <2>3, <2>4
<1> QED BY <1>2, <1>5, <1>6, <1>7, <1>8, <1>9, Zenon DEF XGood

\* A presenter is emptied and its priority set to at most that of what it held, which is
\* rejected or accepted.
Emptied(y, x, s, c, N) ==
  /\ y \in XStates /\ (\A t \in Servers : t # s => y.p[t] = x.p[t])
  /\ y.p[s].cppr = c /\ y.p[s].xisr = NoIrq /\ ~y.p[s].line
  /\ y.owed \subseteq x.owed /\ (x.p[s].xisr \in y.owed => x.p[s].xisr \in N)
  /\ \A n \in IrqSources :
       /\ y.i[n].server = x.i[n].server /\ y.i[n].prio = x.i[n].prio /\ (y.i[n].masked <=> x.i[n].masked)
       /\ y.i[n].rejected <=> (x.i[n].rejected \/ n \in N)

\* A server that drops its pending interrupt keeps XGood.
LEMMA Empties ==
  ASSUME NEW O, NEW R, NEW E, NEW K, NEW x, XGood(x, O, R, E, K), NEW s \in Servers, NEW c \in XPrios,
         x.p[s].xisr # NoIrq, c <= x.p[s].pprio, NEW N, N \subseteq {x.p[s].xisr}, NEW y, Emptied(y, x, s, c, N)
  PROVE  XGood(y, O, R, E, K)
<1>1. x \in XStates /\ Wired(x) /\ Above(x, O) /\ Faithful(x, R) /\ AllHeld(x, E) /\ AllWait(x, O, R, K)
  BY DEF XGood
<1>2. /\ y \in XStates /\ (\A t \in Servers : t # s => y.p[t] = x.p[t])
      /\ y.p[s].cppr = c /\ y.p[s].xisr = NoIrq /\ ~y.p[s].line
      /\ y.owed \subseteq x.owed /\ (x.p[s].xisr \in y.owed => x.p[s].xisr \in N)
      /\ \A n \in IrqSources :
           /\ y.i[n].server = x.i[n].server /\ y.i[n].prio = x.i[n].prio /\ (y.i[n].masked <=> x.i[n].masked)
           /\ y.i[n].rejected <=> (x.i[n].rejected \/ n \in N)
  BY Zenon DEF Emptied
<1>3. PICK old : old = x.p[s].xisr
  OBVIOUS
<1>4. c \in Nat /\ x.p[s].cppr \in Nat /\ x.p[s].pprio \in Nat
  BY <1>1, XFields, XicsAssumption DEF XPrios
<1>5. Wired(y)
  <2> SUFFICES ASSUME NEW t \in Servers PROVE y.p[t].line <=> y.p[t].xisr # NoIrq
    BY DEF Wired
  <2>1. CASE t = s
    BY <1>2, <2>1, Zenon
  <2>2. CASE t # s
    <3>1. y.p[t] = x.p[t]
      BY <1>2, <2>2, Zenon
    <3> QED BY <1>1, <3>1, Zenon DEF Wired
  <2> QED BY <2>1, <2>2
<1>6. Above(y, O)
  <2> SUFFICES ASSUME NEW t \in Servers \ O, y.p[t].xisr # NoIrq PROVE y.p[t].pprio < y.p[t].cppr
    BY DEF Above
  <2>1. t # s
    BY <1>2
  <2>2. y.p[t] = x.p[t]
    BY <1>2, <2>1, Zenon
  <2> QED BY <1>1, <2>2, Zenon DEF Above
<1>7. Faithful(y, R)
  <2> SUFFICES ASSUME NEW t \in Servers, NEW n \in IrqSources \ R, y.p[t].xisr = n
               PROVE  y.i[n].server = t /\ y.i[n].prio = y.p[t].pprio
    BY DEF Faithful
  <2>1. t # s
    BY <1>2, IrqNumbers
  <2>2. y.p[t] = x.p[t] /\ y.i[n].server = x.i[n].server /\ y.i[n].prio = x.i[n].prio
    BY <1>2, <2>1, Zenon
  <2>3. x.p[t].xisr = n
    BY <2>2
  <2>4. x.i[n].server = t /\ x.i[n].prio = x.p[t].pprio
    BY <1>1, <2>3, Zenon DEF Faithful
  <2> QED BY <2>2, <2>4, Zenon
<1>8. AllHeld(y, E)
  <2> SUFFICES ASSUME NEW n \in y.owed \ E PROVE Held(y, n)
    BY DEF AllHeld
  <2>1. n \in IrqSources /\ Held(x, n)
    BY <1>1, <1>2, XFields DEF AllHeld
  <2>2. CASE x.i[n].rejected \/ x.i[n].masked
    BY <1>2, <2>1, <2>2 DEF Held
  <2>3. CASE \E t \in Servers : x.p[t].xisr = n
    <3>1. PICK t \in Servers : x.p[t].xisr = n
      BY <2>3
    <3>2. CASE t = s
      <4>1. n \in N
        BY <1>2, <3>1, <3>2
      <4> QED BY <1>2, <2>1, <4>1 DEF Held
    <3>3. CASE t # s
      BY <1>2, <3>1, <3>3 DEF Held
    <3> QED BY <3>2, <3>3
  <2> QED BY <2>1, <2>2, <2>3 DEF Held
<1>9. AllWait(y, O, R, K)
  <2> SUFFICES ASSUME NEW n \in (IrqSources \cap K) \ R, y.i[n].rejected, y.i[n].prio # Masked, y.i[n].server \notin O
               PROVE  Refuses(y.p[y.i[n].server], y.i[n].prio)
    BY DEF AllWait, Waits
  <2>1. PICK t \in Servers, q \in Nat : t = x.i[n].server /\ q = x.i[n].prio
    BY <1>1, XFields
  <2>2. y.i[n].server = t /\ y.i[n].prio = q
    BY <1>2, <2>1
  <2>3. q >= c => Refuses(y.p[s], q)
    BY <1>2 DEF Refuses
  <2>4. CASE n \in N
    <3>1. t = s /\ q = x.p[s].pprio
      <4>1. n \in IrqSources \ R /\ x.p[s].xisr = n
        BY <2>4
      <4>2. x.i[n].server = s /\ x.i[n].prio = x.p[s].pprio
        BY <1>1, <4>1, Zenon DEF Faithful
      <4> QED BY <2>1, <4>2
    <3> QED BY <1>4, <2>2, <2>3, <3>1
  <2>5. CASE n \notin N
    <3>1. Refuses(x.p[t], q) /\ t \notin O
      BY <1>1, <1>2, <2>1, <2>2, <2>5 DEF AllWait, Waits
    <3>2. CASE t = s
      <4>1. q >= x.p[s].cppr \/ x.p[s].pprio <= q
        BY <3>1, <3>2 DEF Refuses
      <4>2. x.p[s].pprio < x.p[s].cppr
        BY <1>1, <3>1, <3>2 DEF Above
      <4> QED BY <1>4, <2>2, <2>3, <3>2, <4>1, <4>2
    <3>3. CASE t # s
      BY <1>2, <2>2, <3>1, <3>3
    <3> QED BY <3>2, <3>3
  <2> QED BY <2>4, <2>5
<1> QED BY <1>2, <1>5, <1>6, <1>7, <1>8, <1>9, Zenon DEF XGood

\* icp_set_cppr.  P and Q are what is outranked and retargeted afterwards.
LEMMA SetCpprKeeps ==
  ASSUME NEW O, NEW R, NEW E, NEW x, XGood(x, O, R, E, IrqSources), NEW s \in Servers, NEW c \in XPrios, NEW P, NEW Q,
         P = IF c >= x.p[s].cppr /\ x.p[s].xisr = NoIrq THEN {t \in O : Overhangs(x.p[t])} ELSE O,
         Q = IF c >= x.p[s].cppr /\ x.p[s].xisr = NoIrq THEN {nr \in R : \E t \in Servers : x.p[t].xisr = nr} ELSE R
  PROVE  XGood(SetCppr(x, s, c), P, Q, E, IrqSources)
<1>1. x \in XStates
  BY DEF XGood
<1>2. PICK y : y = CpprTo(x, s, c)
  OBVIOUS
<1>3. WithCppr(y, x, s, c)
  BY <1>1, <1>2, CpprStores
<1>4. c \in Nat /\ x.p[s].cppr \in Nat /\ x.p[s].pprio \in Nat
  BY <1>1, XFields, XicsAssumption DEF XPrios
<1>5. CASE c >= x.p[s].cppr /\ x.p[s].xisr = NoIrq
  <2>1. XGood(x, P, Q, E, {})
    BY <1>5, Restarts
  <2>2. XGood(y, P, Q, E, {})
    BY <1>3, <1>5, <2>1, CpprSet
  <2>3. SetCppr(x, s, c) = IcpResend(y, s)
    BY <1>2, <1>4, <1>5 DEF SetCppr, CpprTo
  <2> QED BY <2>2, <2>3, IcpResendKeeps
<1>6. CASE c >= x.p[s].cppr /\ x.p[s].xisr # NoIrq
  <2>1. P = O /\ Q = R /\ SetCppr(x, s, c) = y
    BY <1>2, <1>4, <1>6 DEF SetCppr, CpprTo
  <2>2. s \in O \/ x.p[s].pprio < c
    <3>1. s \notin O => x.p[s].pprio < x.p[s].cppr
      BY <1>6 DEF XGood, Above
    <3> QED BY <1>4, <1>6, <3>1
  <2>3. XGood(y, O, R, E, IrqSources)
    BY <1>3, <1>6, <2>2, CpprSet
  <2> QED BY <2>1, <2>3
<1>7. CASE c < x.p[s].cppr /\ ~(x.p[s].xisr # NoIrq /\ c <= x.p[s].pprio)
  <2>1. P = O /\ Q = R /\ SetCppr(x, s, c) = y
    BY <1>2, <1>4, <1>7 DEF SetCppr, CpprTo
  <2>2. XGood(y, O, R, E, IrqSources)
    BY <1>3, <1>4, <1>7, CpprSet
  <2> QED BY <2>1, <2>2
<1>8. CASE c < x.p[s].cppr /\ x.p[s].xisr # NoIrq /\ c <= x.p[s].pprio
  <2>1. PICK w, z, old : /\ w = [y EXCEPT !.p[s].xisr = NoIrq, !.p[s].line = FALSE] /\ old = x.p[s].xisr
                         /\ z = Reject(w, old)
    OBVIOUS
  <2>2. P = O /\ Q = R /\ SetCppr(x, s, c) = z
    BY <1>2, <1>4, <1>8, <2>1 DEF SetCppr, CpprTo
  <2>3. /\ w \in XStates /\ w.i = x.i /\ w.owed = x.owed /\ (\A t \in Servers : t # s => w.p[t] = x.p[t])
        /\ w.p[s].cppr = c /\ w.p[s].xisr = NoIrq /\ ~w.p[s].line
    <3>0. /\ y \in XStates /\ y.i = x.i /\ y.owed = x.owed /\ (\A t \in Servers : t # s => y.p[t] = x.p[t])
          /\ y.p[s].cppr = c /\ x.owed \in SUBSET IrqSources
      BY <1>1, <1>3 DEF WithCppr, XStates
    <3>1. PICK d, o : d = [y.p[s] EXCEPT !.xisr = NoIrq, !.line = FALSE] /\ o = y.owed
      OBVIOUS
    <3>2. d \in Presenters /\ d.cppr = c /\ d.xisr = NoIrq /\ ~d.line
      <4>1. y.p[s] \in Presenters /\ NoIrq \in Numbers
        BY <3>0 DEF XStates, Numbers
      <4> QED BY <3>0, <3>1, <4>1 DEF Presenters
    <3>3. o \in SUBSET IrqSources /\ w = SwapTo(y, s, d, o)
      BY <2>1, <3>0, <3>1 DEF XStates, SwapTo
    <3>4. Swapped(w, y, s, d) /\ w.owed = o
      BY <3>0, <3>2, <3>3, SwapStores
    <3> QED BY <3>0, <3>1, <3>2, <3>4 DEF Swapped
  <2>4. Rejected(z, w, old)
    BY <2>1, <2>3, RejectStores
  <2>5. Emptied(z, x, s, c, {old})
    BY <2>1, <2>3, <2>4 DEF Rejected, Emptied
  <2>6. XGood(z, O, R, E, IrqSources)
    BY <1>8, <2>1, <2>5, Empties
  <2> QED BY <2>2, <2>6
<1> QED BY <1>4, <1>5, <1>6, <1>7, <1>8

\* icp_eoi
LEMMA EoiKeeps ==
  ASSUME NEW O, NEW R, NEW E, NEW x, XGood(x, O, R, E, IrqSources), NEW s \in Servers, NEW c \in XPrios, NEW P, NEW Q,
         NEW z, z = Eoi(x, s, c),
         P = IF x.p[s].xisr = NoIrq THEN {t \in O : Overhangs(x.p[t])} ELSE O \cup {t \in {s} : Overhangs(z.p[s])},
         Q = IF x.p[s].xisr = NoIrq THEN {nr \in R : \E t \in Servers : x.p[t].xisr = nr} ELSE R
  PROVE  XGood(z, P, Q, E, IrqSources)
<1>1. x \in XStates
  BY DEF XGood
<1>2. PICK y : y = CpprTo(x, s, c)
  OBVIOUS
<1>3. WithCppr(y, x, s, c)
  BY <1>1, <1>2, CpprStores
<1>4. c \in Nat /\ x.p[s].cppr \in Nat /\ x.p[s].pprio \in Nat
  BY <1>1, XFields, XicsAssumption DEF XPrios
<1>5. y.p[s].xisr = x.p[s].xisr /\ y.p[s].cppr = c /\ y.p[s].pprio = x.p[s].pprio
  BY <1>3 DEF WithCppr
<1>6. CASE x.p[s].xisr = NoIrq
  <2>1. XGood(x, P, Q, E, {})
    BY <1>6, Restarts
  <2>2. XGood(y, P, Q, E, {})
    BY <1>3, <1>6, <2>1, CpprSet
  <2>3. z = IcpResend(y, s)
    BY <1>2, <1>5, <1>6 DEF Eoi, EoiResends, CpprTo
  <2> QED BY <2>2, <2>3, IcpResendKeeps
<1>7. CASE x.p[s].xisr # NoIrq
  <2>1. z = y
    BY <1>2, <1>5, <1>7 DEF Eoi, EoiResends, CpprTo
  <2>2. Q = R /\ O \subseteq P /\ (s \in P \/ x.p[s].pprio < c)
    BY <1>4, <1>5, <1>7, <2>1 DEF Overhangs
  <2>3. XGood(x, P, R, E, IrqSources)
    BY <2>2 DEF XGood, Above, AllWait, Waits
  <2>4. XGood(y, P, R, E, IrqSources)
    BY <1>3, <1>7, <2>2, <2>3, CpprSet
  <2> QED BY <2>1, <2>2, <2>4
<1> QED BY <1>6, <1>7

\* The priority of an IPI is set.
MfrrTo(x, s, m) == [x EXCEPT !.p[s].mfrr = m]

\* What writing a server's IPI priority writes.
LEMMA MfrrStores ==
  ASSUME NEW x, x \in XStates, NEW s, s \in Servers, NEW m, m \in XPrios, NEW y, y = MfrrTo(x, s, m),
         NEW c, c = x.p[s].cppr
  PROVE  WithCppr(y, x, s, c) /\ y.p[s].mfrr = m
<1>1. PICK d : d = [x.p[s] EXCEPT !.mfrr = m]
  OBVIOUS
<1>2. /\ d \in Presenters /\ d.cppr = c /\ d.xisr = x.p[s].xisr /\ d.pprio = x.p[s].pprio
      /\ (d.line <=> x.p[s].line) /\ d.mfrr = m
  <2>1. x.p[s] \in Presenters
    BY DEF XStates
  <2> QED BY <1>1, <2>1 DEF Presenters
<1>3. PICK o : o = x.owed
  OBVIOUS
<1>4. o \in SUBSET IrqSources /\ y = SwapTo(x, s, d, o)
  BY <1>1, <1>3 DEF XStates, SwapTo, MfrrTo
<1>5. Swapped(y, x, s, d) /\ y.owed = o
  BY <1>2, <1>4, SwapStores
<1> QED BY <1>2, <1>3, <1>5 DEF Swapped, WithCppr

\* icp_set_mfrr
LEMMA SetMfrrKeeps ==
  ASSUME NEW O, NEW R, NEW E, NEW K, NEW x, XGood(x, O, R, E, K), NEW s, s \in Servers, NEW m, m \in XPrios
  PROVE  XGood(SetMfrr(x, s, m), O, R, E, K)
<1>1. x \in XStates
  BY DEF XGood
<1>2. PICK y, c : y = MfrrTo(x, s, m) /\ c = x.p[s].cppr
  OBVIOUS
<1>3. WithCppr(y, x, s, c) /\ y.p[s].mfrr = m /\ c \in XPrios
  BY <1>1, <1>2, MfrrStores, XFields
<1>4. XGood(y, O, R, E, K)
  BY <1>2, <1>3, CpprSet
<1>5. SetMfrr(x, s, m) = IF m < y.p[s].cppr THEN CheckIpi(y, s) ELSE y
  BY <1>2 DEF SetMfrr, MfrrTo
<1>6. CASE m < y.p[s].cppr
  <2>1. XGood(CheckIpi(y, s), O, R, E, K)
    BY <1>3, <1>4, <1>6, CheckIpiKeeps
  <2> QED BY <1>5, <1>6, <2>1
<1>7. CASE ~(m < y.p[s].cppr)
  BY <1>4, <1>5, <1>7
<1> QED BY <1>6, <1>7

\* icp_accept
AcceptBy(x, s) ==
  [x EXCEPT !.p[s] = [@ EXCEPT !.line = FALSE, !.cppr = x.p[s].pprio, !.xisr = NoIrq],
            !.owed = @ \ {x.p[s].xisr}]

\* Accepting the pending interrupt keeps XGood.
LEMMA AcceptKeeps ==
  ASSUME NEW O, NEW R, NEW E, NEW K, NEW x, XGood(x, O, R, E, K), NEW s, s \in Servers, x.p[s].line,
         NEW y, y = AcceptBy(x, s)
  PROVE  XGood(y, O, R, E, K)
<1>1. x \in XStates /\ Wired(x)
  BY DEF XGood
<1>2. PICK c, old, d, o : /\ c = x.p[s].pprio /\ old = x.p[s].xisr /\ o = x.owed \ {old}
                          /\ d = [x.p[s] EXCEPT !.line = FALSE, !.cppr = c, !.xisr = NoIrq]
  OBVIOUS
<1>3. c \in XPrios /\ old # NoIrq /\ o \in SUBSET IrqSources
  BY <1>1, <1>2, XFields DEF Wired
<1>4. d \in Presenters /\ d.cppr = c /\ d.xisr = NoIrq /\ ~d.line
  <2>1. x.p[s] \in Presenters /\ NoIrq \in Numbers
    BY <1>1 DEF XStates, Numbers
  <2> QED BY <1>2, <1>3, <2>1 DEF Presenters
<1>5. y = SwapTo(x, s, d, o)
  BY <1>1, <1>2 DEF AcceptBy, SwapTo, XStates
<1>6. Swapped(y, x, s, d) /\ y.owed = o
  BY <1>1, <1>3, <1>4, <1>5, SwapStores
<1>7. Emptied(y, x, s, c, {})
  BY <1>2, <1>4, <1>6 DEF Swapped, Emptied
<1>8. {} \subseteq {x.p[s].xisr} /\ c <= x.p[s].pprio /\ x.p[s].xisr # NoIrq
  BY <1>1, <1>2, <1>3, XFields
<1> QED BY <1>3, <1>7, <1>8, Empties

-----------------------------------------------------------------------------
(* One source changes                                                      *)

SourceChanged(y, x, nr) ==
  /\ y \in XStates /\ y.p = x.p /\ y.owed \subseteq x.owed \cup {nr}
  /\ \A n \in IrqSources :
       /\ y.i[n].rejected <=> x.i[n].rejected
       /\ n # nr => /\ y.i[n].server = x.i[n].server /\ y.i[n].prio = x.i[n].prio
                    /\ (y.i[n].masked <=> x.i[n].masked)

\* Its xive may change if it is neither presented nor rejected, or counts as retargeted.
LEMMA SourceKeeps ==
  ASSUME NEW O, NEW R, NEW E, NEW K, NEW x, XGood(x, O, R, E, K), NEW nr, nr \in IrqSources,
         NEW y, SourceChanged(y, x, nr), NEW Q, R \subseteq Q,
         \/ nr \in Q
         \/ y.i[nr].server = x.i[nr].server /\ y.i[nr].prio = x.i[nr].prio
         \/ ~x.i[nr].rejected /\ ~(\E t \in Servers : x.p[t].xisr = nr)
  PROVE  XGood(y, O, Q, E \cup {nr}, K)
<1>1. x \in XStates /\ Wired(x) /\ Above(x, O) /\ Faithful(x, R) /\ AllHeld(x, E) /\ AllWait(x, O, R, K)
  BY DEF XGood
<1>2. /\ y \in XStates /\ y.p = x.p /\ y.owed \subseteq x.owed \cup {nr}
      /\ \A n \in IrqSources :
           /\ y.i[n].rejected <=> x.i[n].rejected
           /\ n # nr => /\ y.i[n].server = x.i[n].server /\ y.i[n].prio = x.i[n].prio
                        /\ (y.i[n].masked <=> x.i[n].masked)
  BY Zenon DEF SourceChanged
<1>3. Wired(y)
  BY <1>1, <1>2 DEF Wired
<1>4. Above(y, O)
  BY <1>1, <1>2 DEF Above
<1>5. Faithful(y, Q)
  <2> SUFFICES ASSUME NEW t \in Servers, NEW n \in IrqSources \ Q, y.p[t].xisr = n
               PROVE  y.i[n].server = t /\ y.i[n].prio = y.p[t].pprio
    BY DEF Faithful
  <2>1. n \in IrqSources \ R /\ x.p[t].xisr = n /\ y.p[t].pprio = x.p[t].pprio
    BY <1>2
  <2>2. x.i[n].server = t /\ x.i[n].prio = x.p[t].pprio
    BY <1>1, <2>1, Zenon DEF Faithful
  <2>3. y.i[n].server = x.i[n].server /\ y.i[n].prio = x.i[n].prio
    BY <1>2, <2>1
  <2> QED BY <2>1, <2>2, <2>3
<1>6. AllHeld(y, E \cup {nr})
  <2> SUFFICES ASSUME NEW n \in y.owed \ (E \cup {nr}) PROVE Held(y, n)
    BY DEF AllHeld
  <2>1. n \in IrqSources /\ n # nr /\ Held(x, n)
    BY <1>1, <1>2, XFields DEF AllHeld
  <2> QED BY <1>2, <2>1 DEF Held
<1>7. AllWait(y, O, Q, K)
  <2> SUFFICES ASSUME NEW n \in (IrqSources \cap K) \ Q, y.i[n].rejected, y.i[n].prio # Masked, y.i[n].server \notin O
               PROVE  Refuses(y.p[y.i[n].server], y.i[n].prio)
    BY DEF AllWait, Waits
  <2>1. n \in (IrqSources \cap K) \ R /\ x.i[n].rejected
    BY <1>2
  <2>2. y.i[n].server = x.i[n].server /\ y.i[n].prio = x.i[n].prio
    BY <1>2, <2>1
  <2>3. Waits(x, n, O)
    BY <1>1, <2>1 DEF AllWait
  <2> QED BY <1>2, <2>1, <2>2, <2>3 DEF Waits
<1> QED BY <1>2, <1>3, <1>4, <1>5, <1>6, <1>7, Zenon DEF XGood

\* An excepted source that is held again needs no exception.
LEMMA Settles ==
  ASSUME NEW O, NEW R, NEW E, NEW K, NEW nr, NEW y, XGood(y, O, R, E \cup {nr}, K),
         nr \in y.owed \ E => Held(y, nr)
  PROVE  XGood(y, O, R, E, K)
<1>1. y \in XStates /\ Wired(y) /\ Above(y, O) /\ Faithful(y, R) /\ AllHeld(y, E \cup {nr}) /\ AllWait(y, O, R, K)
  BY DEF XGood
<1>2. AllHeld(y, E)
  BY <1>1 DEF AllHeld
<1> QED BY <1>1, <1>2 DEF XGood

\* A source is stored anew.
SourceTo(x, nr, d) == [x EXCEPT !.i = [x.i EXCEPT ![nr] = d]]

AsRejected(d, x, nr) == d.rejected <=> x.i[nr].rejected

\* What rewriting a source's server, priority or mask writes.
LEMMA SourceStores ==
  ASSUME NEW x, x \in XStates, NEW nr, nr \in IrqSources, NEW d, d \in Waiters,
         AsRejected(d, x, nr), NEW y, y = SourceTo(x, nr, d)
  PROVE  SourceChanged(y, x, nr) /\ y.i[nr] = d /\ y.owed = x.owed
<1>1. x.i \in [IrqSources -> Waiters] /\ x.p \in [Servers -> Presenters] /\ x.owed \in SUBSET IrqSources
  BY DEF XStates
<1>2. PICK j : j = [x.i EXCEPT ![nr] = d]
  OBVIOUS
<1>3. j \in [IrqSources -> Waiters] /\ j[nr] = d /\ \A n \in IrqSources : n # nr => j[n] = x.i[n]
  BY <1>1, <1>2
<1>4. y = [x EXCEPT !.i = j]
  BY <1>2 DEF SourceTo
<1>5. y \in XStates /\ y.p = x.p /\ y.owed = x.owed /\ y.i = j
  BY <1>1, <1>3, <1>4 DEF XStates
<1> QED BY <1>3, <1>5 DEF SourceChanged, AsRejected

\* ics_write_xive_msi.  Q is what is retargeted afterwards.
XiveTo(x, nr, s, pr) ==
  LET y == [x EXCEPT !.i[nr].server = s, !.i[nr].prio = pr]
  IN IF x.i[nr].masked /\ pr # Masked THEN IcpIrq([y EXCEPT !.i[nr].masked = FALSE], s, nr, pr) ELSE y

\* A source's new server and priority, with the resend of a rejected source,
\* keep XGood.
LEMMA SetXiveKeeps ==
  ASSUME NEW O, NEW R, NEW E, NEW K, NEW x, XGood(x, O, R, E, K), NEW nr, nr \in IrqSources,
         NEW s, s \in Servers, NEW pr, pr \in XPrios, NEW z, z = XiveTo(x, nr, s, pr), NEW Q,
         Q = R \cup {n \in {nr} : x.i[n].rejected \/ \E t \in Servers : x.p[t].xisr = n}
  PROVE  XGood(z, O, Q, E, K)
<1>1. x \in XStates /\ AllHeld(x, E)
  BY DEF XGood
<1>2. x.i[nr] \in Waiters
  BY <1>1 DEF XStates
<1>3. /\ R \subseteq Q
      /\ nr \in Q \/ (~x.i[nr].rejected /\ ~(\E t \in Servers : x.p[t].xisr = nr))
  OBVIOUS
<1>4. PICK d, y : d = [x.i[nr] EXCEPT !.server = s, !.prio = pr] /\ y = SourceTo(x, nr, d)
  OBVIOUS
<1>5. /\ d \in Waiters /\ d.server = s /\ d.prio = pr /\ (d.rejected <=> x.i[nr].rejected)
      /\ (d.masked <=> x.i[nr].masked)
  BY <1>2, <1>4 DEF Waiters
<1>6. CASE ~(x.i[nr].masked /\ pr # Masked)
  <2>1. z = y
    BY <1>1, <1>4, <1>6 DEF XiveTo, SourceTo, XStates
  <2>2. SourceChanged(y, x, nr) /\ y.i[nr] = d /\ y.owed = x.owed
    <3>1. d \in Waiters /\ AsRejected(d, x, nr) /\ y = SourceTo(x, nr, d)
      BY <1>4, <1>5 DEF AsRejected
    <3> QED BY <1>1, <3>1, SourceStores
  <2>3. XGood(y, O, Q, E \cup {nr}, K)
    BY <1>3, <2>2, SourceKeeps
  <2>4. nr \in y.owed \ E => Held(y, nr)
    <3>1. nr \in y.owed \ E => Held(x, nr)
      BY <1>1, <2>2 DEF AllHeld
    <3>2. y.p = x.p /\ (y.i[nr].rejected <=> x.i[nr].rejected) /\ (y.i[nr].masked <=> x.i[nr].masked)
      BY <1>5, <2>2 DEF SourceChanged
    <3> QED BY <3>1, <3>2 DEF Held
  <2> QED BY <2>1, <2>3, <2>4, Settles
<1>7. CASE x.i[nr].masked /\ pr # Masked
  <2>1. PICK e, w : e = [d EXCEPT !.masked = FALSE] /\ w = SourceTo(x, nr, e)
    OBVIOUS
  <2>2. e \in Waiters /\ e.server = s /\ e.prio = pr /\ (e.rejected <=> x.i[nr].rejected)
    BY <1>5, <2>1 DEF Waiters
  <2>3. z = IcpIrq(w, s, nr, pr)
    <3>1. w = [[x EXCEPT !.i[nr].server = s, !.i[nr].prio = pr] EXCEPT !.i[nr].masked = FALSE]
      BY <1>1, <1>4, <2>1 DEF SourceTo, XStates
    <3> QED BY <1>7, <3>1 DEF XiveTo
  <2>4. SourceChanged(w, x, nr) /\ w.i[nr] = e
    <3>1. e \in Waiters /\ AsRejected(e, x, nr) /\ w = SourceTo(x, nr, e)
      BY <2>1, <2>2 DEF AsRejected
    <3> QED BY <1>1, <3>1, SourceStores
  <2>5. XGood(w, O, Q, E \cup {nr}, K)
    BY <1>3, <2>4, SourceKeeps
  <2>6. XGood(z, O, Q, E \cup {nr}, K) /\ Held(z, nr)
    BY <2>2, <2>3, <2>4, <2>5, IcpIrqKeeps
  <2> QED BY <2>6, Settles
<1> QED BY <1>6, <1>7


-----------------------------------------------------------------------------
(* The interrupt controller's inductive invariant                          *)

\* What a device's thread has seen is what there is, until a handler comes between.
SeenIn(r, x) ==
  r = <<>> \/ \E nr \in IrqSources : r = <<nr, x.i[nr].server, x.p[x.i[nr].server], x.i[nr].prio>>
BusyWith(r) == {nr \in IrqSources : r # <<>> /\ nr = r[1]}
XsTrue(x, h, r, O, R) ==
  /\ h \in [Servers -> Seq(XPrios \X Numbers)]
  /\ SeenIn(r, x)
  /\ XGood(x, O, R, BusyWith(r), IrqSources)
XsIInv == raced \in BOOLEAN /\ (~raced => XsTrue(Now, handling, raising, outranked, retargeted))

\* A handler stores y.
LEMMA HandlerStores ==
  ASSUME NEW y, y \in XStates, ~raced, SeenIn(raising, Now), NowIs(y), raising' = raising
  PROVE  Now' = y /\ raced' \in BOOLEAN /\ (~raced' => SeenIn(raising', Now'))
<1>1. icp' = y.p /\ ics' = y.i /\ owed' = y.owed
  BY DEF NowIs
<1>2. Now' = y
  BY <1>1 DEF Now, XStates
<1>3. raced' \in BOOLEAN
  BY DEF NowIs
<1>4. ASSUME ~raced' PROVE SeenIn(raising', y)
  <2>1. CASE raising = <<>>
    BY <2>1 DEF SeenIn
  <2>2. CASE raising # <<>>
    <3>1. PICK nr \in IrqSources : raising = <<nr, Now.i[nr].server, Now.p[Now.i[nr].server], Now.i[nr].prio>>
      BY <2>2 DEF SeenIn
    <3>2. raising = <<nr, ics[nr].server, icp[ics[nr].server], ics[nr].prio>>
      BY <3>1 DEF Now
    <3>3. y.p[raising[2]] = raising[3] /\ y.i[raising[1]] = ics[raising[1]]
      BY <1>4, <2>2 DEF NowIs
    <3>4. PICK s : s = ics[nr].server
      OBVIOUS
    <3>5. y.i[nr] = ics[nr] /\ y.p[s] = icp[s]
      BY <3>2, <3>3, <3>4
    <3>6. raising' = <<nr, y.i[nr].server, y.p[y.i[nr].server], y.i[nr].prio>>
      BY <3>2, <3>4, <3>5
    <3> QED BY <3>6 DEF SeenIn
  <2> QED BY <2>1, <2>2
<1> QED BY <1>2, <1>3, <1>4

\* The load half of an interrupt's raise keeps XsTrue.
LEMMA Raises ==
  ASSUME ~raced, XsTrue(Now, handling, raising, outranked, retargeted), NEW nr \in IrqSources, RaiseLoad(nr)
  PROVE  raced' = raced /\ XsTrue(Now', handling', raising', outranked', retargeted')
<1>1. PICK x, y : x = Now /\ y = Now'
  OBVIOUS
<1>2. /\ raising = <<>> /\ owed' = owed \cup {nr} /\ icp' = icp /\ handling' = handling /\ retargeted' = retargeted
      /\ outranked' = outranked /\ raced' = raced
  BY DEF RaiseLoad
<1>3. XGood(x, outranked, retargeted, {}, IrqSources) /\ handling' \in [Servers -> Seq(XPrios \X Numbers)]
  <2>1. BusyWith(raising) = {}
    BY <1>2 DEF BusyWith
  <2> QED BY <1>1, <1>2, <2>1 DEF XsTrue
<1>4. x \in XStates
  BY <1>3 DEF XGood
<1>5. /\ x.p = icp /\ x.i = ics /\ x.owed = owed /\ y.p = icp' /\ y.i = ics' /\ y.owed = owed'
      /\ y = [p |-> icp', i |-> ics', owed |-> owed']
  BY <1>1 DEF Now
<1>6. ics \in [IrqSources -> Waiters] /\ icp \in [Servers -> Presenters] /\ owed \in SUBSET IrqSources
  BY <1>4, <1>5 DEF XStates
<1>7. CASE ics[nr].prio = Masked
  <2>1. ics' = [ics EXCEPT ![nr].masked = TRUE] /\ raising' = raising
    BY <1>7 DEF RaiseLoad
  <2>2. PICK d : d = [ics[nr] EXCEPT !.masked = TRUE]
    OBVIOUS
  <2>3. /\ d \in Waiters /\ d.server = ics[nr].server /\ d.prio = ics[nr].prio
        /\ (d.rejected <=> ics[nr].rejected) /\ d.masked
    <3>1. ics[nr] \in Waiters
      BY <1>6
    <3> QED BY <2>2, <3>1 DEF Waiters
  <2>4. ics' = [ics EXCEPT ![nr] = d]
    BY <2>1, <2>2
  <2>5. ics' \in [IrqSources -> Waiters] /\ ics'[nr] = d /\ \A n \in IrqSources : n # nr => ics'[n] = ics[n]
    BY <1>6, <2>3, <2>4
  <2>6. y \in XStates
    BY <1>2, <1>5, <1>6, <2>5 DEF XStates
  <2>7. SourceChanged(y, x, nr) /\ y.i[nr].server = x.i[nr].server /\ y.i[nr].prio = x.i[nr].prio /\ Held(y, nr)
    BY <1>2, <1>5, <2>3, <2>5, <2>6 DEF SourceChanged, Held
  <2>8. XGood(y, outranked, retargeted, {} \cup {nr}, IrqSources)
    BY <1>3, <2>7, SourceKeeps
  <2>9. XGood(y, outranked, retargeted, {}, IrqSources)
    BY <2>7, <2>8, Settles
  <2>10. BusyWith(raising') = {} /\ SeenIn(raising', y)
    BY <1>2, <2>1 DEF BusyWith, SeenIn
  <2> QED BY <1>1, <1>2, <1>3, <2>9, <2>10 DEF XsTrue
<1>8. CASE ics[nr].prio # Masked
  <2>1. ics' = ics /\ raising' = <<nr, ics[nr].server, icp[ics[nr].server], ics[nr].prio>>
    BY <1>8 DEF RaiseLoad
  <2>2. y \in XStates
    BY <1>2, <1>5, <1>6, <2>1 DEF XStates
  <2>3. SourceChanged(y, x, nr) /\ y.i[nr].server = x.i[nr].server /\ y.i[nr].prio = x.i[nr].prio
    BY <1>2, <1>5, <2>1, <2>2 DEF SourceChanged
  <2>4. XGood(y, outranked, retargeted, {} \cup {nr}, IrqSources)
    BY <1>3, <2>3, SourceKeeps
  <2>5. raising' # <<>> /\ raising'[1] = nr
    BY <2>1
  <2>6. BusyWith(raising') = {} \cup {nr}
    BY <2>5 DEF BusyWith
  <2>7. SeenIn(raising', y)
    BY <1>2, <1>5, <2>1 DEF SeenIn
  <2> QED BY <1>1, <1>2, <1>3, <2>4, <2>6, <2>7 DEF XsTrue
<1> QED BY <1>7, <1>8

\* A source is sent: nothing is accepted or forgotten.
LEMMA IrqOwes ==
  ASSUME NEW x, x \in XStates, NEW s, s \in Servers, NEW nr, nr \in IrqSources, NEW pr, pr \in XPrios,
         NEW y, y = IcpIrq(x, s, nr, pr)
  PROVE  y.owed = x.owed
<1>1. CASE Refuses(x.p[s], pr)
  <2>1. y = Reject(x, nr)
    BY <1>1 DEF IcpIrq, IcpStore
  <2> QED BY <2>1, RejectStores DEF Rejected
<1>2. CASE ~Refuses(x.p[s], pr)
  <2>1. PICK z : z = IF x.p[s].xisr # NoIrq THEN Reject(x, x.p[s].xisr) ELSE x
    OBVIOUS
  <2>2. z \in XStates /\ z.owed = x.owed
    BY <2>1, RejectStores DEF Rejected
  <2>3. y = Present(z, s, nr, pr)
    BY <1>2, <2>1 DEF IcpIrq, IcpStore
  <2> QED BY <2>2, <2>3, PresentStores DEF Put, Numbers
<1> QED BY <1>1, <1>2

\* The store half of an interrupt's raise keeps XsTrue.
LEMMA Stores ==
  ASSUME ~raced, XsTrue(Now, handling, raising, outranked, retargeted), RaiseStore
  PROVE  raced' = raced /\ XsTrue(Now', handling', raising', outranked', retargeted')
<1>1. PICK x, y : x = Now /\ y = IcpStore(x, raising[2], raising[1], raising[4], raising[3])
  OBVIOUS
<1>2. /\ raising # <<>> /\ raising' = <<>> /\ icp' = y.p /\ ics' = y.i /\ handling' = handling /\ owed' = owed
      /\ retargeted' = retargeted /\ outranked' = outranked /\ raced' = raced
  BY <1>1 DEF RaiseStore
<1>3. SeenIn(raising, x) /\ XGood(x, outranked, retargeted, BusyWith(raising), IrqSources)
  BY <1>1 DEF XsTrue
<1>4. PICK nr \in IrqSources : raising = <<nr, x.i[nr].server, x.p[x.i[nr].server], x.i[nr].prio>>
  BY <1>2, <1>3 DEF SeenIn
<1>5. PICK s, pr : s = x.i[nr].server /\ pr = x.i[nr].prio
  OBVIOUS
<1>6. raising[1] = nr /\ raising[2] = s /\ raising[3] = x.p[s] /\ raising[4] = pr
  BY <1>4, <1>5
<1>7. y = IcpIrq(x, s, nr, pr)
  BY <1>1, <1>6 DEF IcpIrq
<1>8. BusyWith(raising) = {} \cup {nr}
  BY <1>2, <1>6 DEF BusyWith
<1>9. XGood(y, outranked, retargeted, {} \cup {nr}, IrqSources) /\ Held(y, nr)
  BY <1>3, <1>5, <1>7, <1>8, IcpIrqKeeps
<1>10. XGood(y, outranked, retargeted, {}, IrqSources)
  BY <1>9, Settles
<1>11. y.owed = owed /\ y \in XStates
  <2>1. x \in XStates /\ x.owed = owed /\ y \in XStates
    BY <1>1, <1>3, <1>9 DEF XGood, Now
  <2>2. s \in Servers /\ pr \in XPrios
    BY <1>5, <2>1, XFields
  <2> QED BY <1>7, <2>1, <2>2, IrqOwes
<1>12. Now' = y
  BY <1>2, <1>11 DEF Now, XStates
<1>13. BusyWith(raising') = {} /\ SeenIn(raising', y)
  BY <1>2 DEF BusyWith, SeenIn
<1> QED BY <1>2, <1>10, <1>12, <1>13 DEF XsTrue

\* A handler that keeps the presenters and sources good.
LEMMA Handles ==
  ASSUME ~raced, XsTrue(Now, handling, raising, outranked, retargeted), NEW y, NowIs(y), raising' = raising,
         handling' \in [Servers -> Seq(XPrios \X Numbers)],
         XGood(y, outranked', retargeted', BusyWith(raising), IrqSources)
  PROVE  raced' \in BOOLEAN /\ (~raced' => XsTrue(Now', handling', raising', outranked', retargeted'))
<1>1. y \in XStates /\ SeenIn(raising, Now)
  BY DEF XGood, XsTrue
<1>2. Now' = y /\ raced' \in BOOLEAN /\ (~raced' => SeenIn(raising', Now'))
  BY <1>1, HandlerStores
<1> QED BY <1>2 DEF XsTrue

\* A hypercall keeps XsTrue unless it changes what a raise under way has
\* loaded.
LEMMA Hypercalls ==
  ASSUME ~raced, XsTrue(Now, handling, raising, outranked, retargeted), NEW s \in Servers, Hypercall(s)
  PROVE  raced' \in BOOLEAN /\ (~raced' => XsTrue(Now', handling', raising', outranked', retargeted'))
<1>1. PICK x, E : x = Now /\ E = BusyWith(raising)
  OBVIOUS
<1>2. XGood(x, outranked, retargeted, E, IrqSources) /\ handling \in [Servers -> Seq(XPrios \X Numbers)]
  BY <1>1 DEF XsTrue
<1>3. x.p = icp /\ x.i = ics /\ x.owed = owed
  BY <1>1 DEF Now
<1>4. VcpuPrios \cup IpiPrios \cup {Masked} \subseteq XPrios
  BY XicsAssumption DEF XPrios
<1>5. \A t \in Servers : icp[t].cppr \in XPrios /\ icp[t].xisr \in Numbers
  <2>1. x \in XStates
    BY <1>2 DEF XGood
  <2> QED BY <1>3, <2>1, XFields
<1>6. ASSUME NEW c \in VcpuPrios \cup {Masked}, HCppr(s, c)
      PROVE  raced' \in BOOLEAN /\ (~raced' => XsTrue(Now', handling', raising', outranked', retargeted'))
  <2>1. PICK y : y = SetCppr(x, s, c)
    OBVIOUS
  <2>2. /\ NowIs(y) /\ raising' = raising /\ handling' = handling
        /\ AfterResend(c >= icp[s].cppr /\ icp[s].xisr = NoIrq, {})
    BY <1>1, <1>6, <2>1 DEF HCppr
  <2>3. /\ outranked' = IF c >= x.p[s].cppr /\ x.p[s].xisr = NoIrq
                        THEN {t \in outranked : Overhangs(x.p[t])} ELSE outranked
        /\ retargeted' = IF c >= x.p[s].cppr /\ x.p[s].xisr = NoIrq
                         THEN {nr \in retargeted : \E t \in Servers : x.p[t].xisr = nr} ELSE retargeted
    BY <1>3, <2>2 DEF AfterResend, Presented
  <2>4. PICK P, Q : P = outranked' /\ Q = retargeted'
    OBVIOUS
  <2>5. c \in XPrios
    BY <1>4
  <2>6. XGood(y, P, Q, E, IrqSources)
    BY <1>2, <2>1, <2>3, <2>4, <2>5, SetCpprKeeps
  <2> QED BY <1>1, <1>2, <2>2, <2>4, <2>6, Handles
<1>7. ASSUME NEW t \in Servers, NEW m \in IpiPrios \cup {Masked}, HIpi(t, m)
      PROVE  raced' \in BOOLEAN /\ (~raced' => XsTrue(Now', handling', raising', outranked', retargeted'))
  <2>1. PICK y : y = SetMfrr(x, t, m)
    OBVIOUS
  <2>2. /\ NowIs(y) /\ raising' = raising /\ handling' = handling
        /\ outranked' = outranked /\ retargeted' = retargeted
    BY <1>1, <1>7, <2>1 DEF HIpi
  <2>3. XGood(y, outranked, retargeted, E, IrqSources)
    BY <1>2, <1>4, <2>1, SetMfrrKeeps
  <2> QED BY <1>1, <1>2, <2>2, <2>3, Handles
<1>8. ASSUME HXirr(s)
      PROVE  raced' \in BOOLEAN /\ (~raced' => XsTrue(Now', handling', raising', outranked', retargeted'))
  <2>1. PICK y : y = AcceptBy(x, s)
    OBVIOUS
  <2>2. /\ NowIs(y) /\ raising' = raising /\ outranked' = outranked /\ retargeted' = retargeted /\ icp[s].line
        /\ handling' = [handling EXCEPT ![s] = Append(@, <<icp[s].cppr, icp[s].xisr>>)]
    BY <1>1, <1>3, <1>8, <2>1 DEF HXirr, AcceptBy
  <2>3. XGood(y, outranked, retargeted, E, IrqSources)
    BY <1>2, <1>3, <2>1, <2>2, AcceptKeeps
  <2>4. handling' \in [Servers -> Seq(XPrios \X Numbers)]
    BY <1>2, <1>5, <2>2
  <2> QED BY <1>1, <2>2, <2>3, <2>4, Handles
<1>9. ASSUME HEoi(s)
      PROVE  raced' \in BOOLEAN /\ (~raced' => XsTrue(Now', handling', raising', outranked', retargeted'))
  <2>1. PICK c, y : c = Last(handling[s])[1] /\ y = Eoi(x, s, c)
    OBVIOUS
  <2>2. /\ NowIs(y) /\ raising' = raising /\ handling[s] # <<>>
        /\ handling' = [handling EXCEPT ![s] = Front(@)]
        /\ AfterResend(icp[s].xisr = NoIrq, {t \in {s} : Overhangs(icp'[s])})
    BY <1>1, <1>9, <2>1 DEF HEoi
  <2>3. c \in XPrios /\ Front(handling[s]) \in Seq(XPrios \X Numbers)
    <3>1. handling[s] \in Seq(XPrios \X Numbers) /\ Len(handling[s]) > 0
      BY <1>2, <2>2
    <3>2. Last(handling[s]) \in XPrios \X Numbers
      BY <3>1 DEF Last
    <3>3. Front(handling[s]) \in Seq(XPrios \X Numbers)
      BY <3>1 DEF Front
    <3> QED BY <2>1, <3>2, <3>3
  <2>4. handling' \in [Servers -> Seq(XPrios \X Numbers)]
    BY <1>2, <2>2, <2>3
  <2>5. icp' = y.p
    BY <2>2 DEF NowIs
  <2>6. /\ outranked' = IF x.p[s].xisr = NoIrq THEN {t \in outranked : Overhangs(x.p[t])}
                        ELSE outranked \cup {t \in {s} : Overhangs(y.p[s])}
        /\ retargeted' = IF x.p[s].xisr = NoIrq
                         THEN {nr \in retargeted : \E t \in Servers : x.p[t].xisr = nr} ELSE retargeted
    BY <1>3, <2>2, <2>5 DEF AfterResend, Presented
  <2>7. PICK P, Q : P = outranked' /\ Q = retargeted'
    OBVIOUS
  <2>8. XGood(y, P, Q, E, IrqSources)
    <3>1. /\ P = IF x.p[s].xisr = NoIrq THEN {t \in outranked : Overhangs(x.p[t])}
                 ELSE outranked \cup {t \in {s} : Overhangs(y.p[s])}
          /\ Q = IF x.p[s].xisr = NoIrq
                 THEN {nr \in retargeted : \E t \in Servers : x.p[t].xisr = nr} ELSE retargeted
      BY <2>6, <2>7
    <3>2. c \in XPrios /\ y = Eoi(x, s, c)
      BY <2>1, <2>3
    <3>3. PICK O, R : O = outranked /\ R = retargeted
      OBVIOUS
    <3>4. XGood(x, O, R, E, IrqSources)
      BY <1>2, <3>3
    <3> QED BY <3>1, <3>2, <3>3, <3>4, EoiKeeps
  <2> QED BY <1>1, <2>2, <2>4, <2>7, <2>8, Handles
<1> QED BY <1>6, <1>7, <1>8, <1>9 DEF Hypercall

\* An RTAS call keeps XsTrue unless it changes what a raise under way has
\* loaded.
LEMMA RtasCalls ==
  ASSUME ~raced, XsTrue(Now, handling, raising, outranked, retargeted), RtasCall
  PROVE  raced' \in BOOLEAN /\ (~raced' => XsTrue(Now', handling', raising', outranked', retargeted'))
<1>1. PICK nr \in IrqSources, s \in Servers, pr \in XPriorities \cup {Masked} : SetXive(nr, s, pr)
  BY DEF RtasCall
<1>2. PICK x, E, y : x = Now /\ E = BusyWith(raising) /\ y = XiveTo(x, nr, s, pr)
  OBVIOUS
<1>3. XGood(x, outranked, retargeted, E, IrqSources) /\ handling \in [Servers -> Seq(XPrios \X Numbers)]
  BY <1>2 DEF XsTrue
<1>4. x.p = icp /\ x.i = ics /\ x.owed = owed
  BY <1>2 DEF Now
<1>5. /\ NowIs(y) /\ raising' = raising /\ handling' = handling /\ outranked' = outranked
      /\ retargeted' = IF ics[nr].rejected \/ Presented(nr) THEN retargeted \cup {nr} ELSE retargeted
  BY <1>1, <1>2, <1>4 DEF SetXive, XiveTo
<1>6. PICK Q : Q = retargeted'
  OBVIOUS
<1>7. Q = retargeted \cup {n \in {nr} : x.i[n].rejected \/ \E t \in Servers : x.p[t].xisr = n}
  BY <1>4, <1>5, <1>6 DEF Presented
<1>8. pr \in XPrios
  BY XicsAssumption DEF XPrios
<1>9. XGood(y, outranked, Q, E, IrqSources)
  BY <1>2, <1>3, <1>7, <1>8, SetXiveKeeps
<1> QED BY <1>2, <1>3, <1>5, <1>6, <1>9, Handles

\* XsIInv holds of the controller after reset.
LEMMA XicsStarts == XsInit => XsIInv
<1> SUFFICES ASSUME XsInit PROVE XsIInv
  OBVIOUS
<1>1. /\ icp = [s \in Servers |-> [cppr |-> 0, xisr |-> NoIrq, pprio |-> 0, mfrr |-> Masked, line |-> FALSE]]
      /\ ics = [nr \in IrqSources |-> [server |-> 0, prio |-> Masked, rejected |-> FALSE, masked |-> FALSE]]
      /\ handling = [s \in Servers |-> <<>>] /\ raising = <<>> /\ owed = {} /\ raced = FALSE
  BY DEF XsInit
<1>2. icp \in [Servers -> Presenters]
  BY <1>1, XicsAssumption DEF Presenters, XPrios, Numbers
<1>3. ics \in [IrqSources -> Waiters]
  BY <1>1, XicsAssumption DEF Waiters, XPrios
<1>4. \A s \in Servers : icp[s].xisr = NoIrq /\ ~icp[s].line
  BY <1>1
<1>5. \A nr \in IrqSources : ~ics[nr].rejected
  BY <1>1
<1>6. PICK x : x = Now
  OBVIOUS
<1>7. x \in XStates /\ x.p = icp /\ x.i = ics /\ x.owed = {}
  BY <1>1, <1>2, <1>3, <1>6 DEF Now, XStates
<1>8. XGood(x, outranked, retargeted, BusyWith(raising), IrqSources)
  BY <1>4, <1>5, <1>7, IrqNumbers DEF XGood, Wired, Above, Faithful, AllHeld, AllWait, Waits
<1>9. handling \in [Servers -> Seq(XPrios \X Numbers)]
  BY <1>1
<1>10. SeenIn(raising, x)
  BY <1>1 DEF SeenIn
<1> QED BY <1>1, <1>6, <1>8, <1>9, <1>10 DEF XsIInv, XsTrue

\* Every step of the controller, or a stutter, keeps XsIInv.
LEMMA XicsSteps == XsIInv /\ [XsNext]_xsVars => XsIInv'
<1> SUFFICES ASSUME XsIInv, [XsNext]_xsVars PROVE XsIInv'
  OBVIOUS
<1>1. raced \in BOOLEAN /\ (~raced => XsTrue(Now, handling, raising, outranked, retargeted))
  BY DEF XsIInv
<1>2. CASE UNCHANGED xsVars
  <2>1. Now' = Now /\ handling' = handling /\ raising' = raising /\ outranked' = outranked
        /\ retargeted' = retargeted /\ raced' = raced
    BY <1>2 DEF xsVars, Now
  <2> QED BY <1>1, <2>1 DEF XsIInv
<1>3. CASE XsNext
  <2>1. ~raced
    BY <1>3 DEF XsNext
  <2>2. ASSUME NEW nr \in IrqSources, RaiseLoad(nr) PROVE XsIInv'
    BY <1>1, <2>1, <2>2, Raises DEF XsIInv
  <2>3. CASE RaiseStore
    BY <1>1, <2>1, <2>3, Stores DEF XsIInv
  <2>4. ASSUME NEW s \in Servers, Hypercall(s) PROVE XsIInv'
    BY <1>1, <2>1, <2>4, Hypercalls DEF XsIInv
  <2>5. CASE RtasCall
    BY <1>1, <2>1, <2>5, RtasCalls DEF XsIInv
  <2> QED BY <1>3, <2>2, <2>3, <2>4, <2>5 DEF XsNext
<1> QED BY <1>2, <1>3

\* XsIInv implies what the run checks.
LEMMA XicsImplied == XsIInv => XicsInv
<1> SUFFICES ASSUME XsIInv, raising = <<>>, ~raced
             PROVE  /\ \A nr \in owed : Presented(nr) \/ ics[nr].rejected \/ ics[nr].masked
                    /\ \A s \in Servers : icp[s].line <=> icp[s].xisr # NoIrq
                    /\ \A nr \in IrqSources \ retargeted :
                         ics[nr].rejected /\ ics[nr].prio # Masked /\ ics[nr].server \notin outranked
                           => Refuses(icp[ics[nr].server], ics[nr].prio)
  BY DEF XicsInv
<1>1. PICK x : x = Now
  OBVIOUS
<1>2. x.p = icp /\ x.i = ics /\ x.owed = owed
  BY <1>1 DEF Now
<1>3. XGood(x, outranked, retargeted, {}, IrqSources)
  <2>1. BusyWith(raising) = {}
    BY DEF BusyWith
  <2> QED BY <1>1, <2>1 DEF XsIInv, XsTrue
<1>4. Wired(x) /\ AllHeld(x, {}) /\ AllWait(x, outranked, retargeted, IrqSources)
  BY <1>3 DEF XGood
<1>5. \A nr \in owed : Presented(nr) \/ ics[nr].rejected \/ ics[nr].masked
  BY <1>2, <1>4 DEF AllHeld, Held, Presented
<1>6. \A s \in Servers : icp[s].line <=> icp[s].xisr # NoIrq
  BY <1>2, <1>4 DEF Wired
<1>7. \A nr \in IrqSources \ retargeted :
        ics[nr].rejected /\ ics[nr].prio # Masked /\ ics[nr].server \notin outranked
          => Refuses(icp[ics[nr].server], ics[nr].prio)
  BY <1>2, <1>4 DEF AllWait, Waits
<1> QED BY <1>5, <1>6, <1>7

-----------------------------------------------------------------------------
(* The parts together                                                      *)

\* A step of the machine is a step of one part, and of no other.
LEMMA PartMoves ==
  [MCNext]_all => [PlNext]_plVars /\ [FlNext]_flVars /\ [KbNext]_kbVars /\ [Next]_vars /\ [MemNext]_memVars
            /\ [XsNext]_xsVars
BY DEF MCNext, all

\* The interrupt controller of the RISC-V machine (riscv/plic.c): a level source is
\* pending where it is enabled exactly as long as its line is high, an edge is not
\* lost when the guest moves its source, and a vCPU is interrupted exactly while its
\* context has something to claim.
THEOREM PlicHolds == MCSpec => []PlicInv
<1>1. MCInit => PlicIInv
  BY PlicStarts DEF MCInit
<1>2. PlicIInv /\ [MCNext]_all => PlicIInv'
  BY PartMoves, PlicKept
<1>3. PlicIInv => PlicInv
  BY DEF PlicIInv
<1> QED BY <1>1, <1>2, <1>3, PTL DEF MCSpec

\* The flash (hw/cfi_flash.c): the array holds what the confirmed operations made it,
\* and the slot never answers in place of the read mode that the guest asked for.
THEOREM FlashHolds == MCSpec => []FlashTrue
<1>1. MCInit => FlashIInv
  BY FlashStarts DEF MCInit
<1>2. FlashIInv /\ [MCNext]_all => FlashIInv'
  BY PartMoves, FlashKept
<1>3. FlashIInv => FlashTrue
  BY DEF FlashIInv, SlotOK, FlashTrue, GuestLoad, FlashRead
<1> QED BY <1>1, <1>2, <1>3, PTL DEF MCSpec

\* The keyboard controller (hw/i8042.c): unless two threads met in a queue, the bytes
\* that the guest reads are the bytes that were queued, in order.
THEOREM KeysInOrder == MCSpec => []KbdInOrder
<1>1. MCInit => KbIInv
  BY KbStarts DEF MCInit
<1>2. KbIInv /\ [MCNext]_all => KbIInv'
  BY PartMoves, KbKept
<1>3. KbIInv => KbdInOrder
  BY DEF KbIInv, KbGood, SignalsOK, CountOK, Settled, KbdInOrder
<1> QED BY <1>1, <1>2, <1>3, PTL DEF MCSpec

\* The serial ports (hw/serial.c): line status, interrupt state and interrupt line tell
\* the truth about the FIFO between any two steps of vCPU and terminal thread.
THEOREM SerialHolds == MCSpec => []SerialInv
<1>1. MCInit => SerialIInv
  BY SerialStarts DEF MCInit
<1>2. SerialIInv /\ [MCNext]_all => SerialIInv'
  BY PartMoves, SerialKept
<1>3. SerialIInv => SerialInv
  BY SerialGives
<1> QED BY <1>1, <1>2, <1>3, PTL DEF MCSpec

\* The input of the serial ports (serial8250__receive, serial8250_rx): of a port that
\* no break, loop back or clearing disturbed, the guest has read what was typed, in
\* order and each character once, but for escapes, FIFO and terminal holding the rest.
THEOREM InputInOrder == MCSpec => []InOrder
<1>1. MCInit => OrderIInv
  BY OrderStarts DEF MCInit
<1>2. OrderIInv /\ [MCNext]_all => OrderIInv'
  BY PartMoves, OrderKept
<1>3. OrderIInv => InOrder
  BY DEF OrderIInv
<1> QED BY <1>1, <1>2, <1>3, PTL DEF MCSpec

\* The memory banks (init/kvm.c): whatever is registered, merged, refused and destroyed,
\* slots ascend, KVM has the slots of the banks with memory, and until a reservation
\* fails halfway no two banks overlap and translation is true in both directions.
THEOREM BanksHold == MCSpec => []BanksInv
<1>1. MCInit => MemIInv
  BY MemStarts DEF MCInit
<1>2. MemIInv /\ [MCNext]_all => MemIInv'
  BY PartMoves, MemKept
<1>3. MemIInv => BanksInv
  BY MemGives
<1> QED BY <1>1, <1>2, <1>3, PTL DEF MCSpec

\* The interrupt controller of the PowerPC machine (powerpc/xics.c), as long as no
\* hypercall falls between the two steps of a device's thread: an interrupt that was
\* raised and not accepted is presented or remembered, a vCPU's line is high exactly
\* while it is presented something, and a rejected source could not be presented now.
THEOREM XicsHolds == MCSpec => []XicsInv
<1>1. MCInit => XsIInv
  BY XicsStarts DEF MCInit
<1>2. XsIInv /\ [MCNext]_all => XsIInv'
  BY PartMoves, XicsSteps
<1>3. XsIInv => XicsInv
  BY XicsImplied
<1> QED BY <1>1, <1>2, <1>3, PTL DEF MCSpec
==============================================================================
