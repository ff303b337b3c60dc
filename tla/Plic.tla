---------------------------------- MODULE Plic ----------------------------------
(***************************************************************************)
(* The RISC-V interrupt controller of arch/riscv/plic.c.  Devices raise    *)
(* sources (kvm__irq_line: a level, kvm__irq_trigger: an edge), vCPUs      *)
(* write the registers, claim and complete.  Every operation holds the     *)
(* locks of what it changes and is one step.                               *)
(*                                                                         *)
(* Of the two contexts of a vCPU the guest uses the one the device tree    *)
(* gives an interrupt number; it enables a source in one context at a time *)
(* and completes what it has claimed.                                      *)
(***************************************************************************)
EXTENDS Naturals

CONSTANTS
  Contexts,     \* the contexts the guest uses, one per vCPU
  LevelSources, \* sources of devices that hold a line
  EdgeSources,  \* sources of devices that trigger
  Priorities    \* bound: the values of the priority and threshold registers

Sources == LevelSources \cup EdgeSources

ASSUME PlicAssumption ==
  /\ Sources \subseteq Nat \ {0} /\ LevelSources \cap EdgeSources = {}
  /\ Priorities \subseteq Nat /\ 0 \in Priorities

VARIABLES
  prio,      \* irq_priority
  level,     \* irq_level
  threshold, \* per context: irq_priority_threshold
  enable,    \* per context: irq_enable
  pend,      \* per context: irq_pending
  pprio,     \* per context: irq_pending_priority
  claimed,   \* per context: irq_claimed
  autoclear, \* per context: irq_autoclear
  virq,      \* contexts whose vCPU has its external interrupt set
  edges,     \* history: edge sources triggered and not claimed since
  spurious   \* history: an edge source was claimed that had not been triggered

ctxState == <<enable, pend, pprio, claimed, autoclear>>
plVars == <<prio, level, threshold, ctxState, virq, edges, spurious>>

PlInit ==
  /\ prio = [i \in Sources |-> 0] /\ level = {}
  /\ threshold = [c \in Contexts |-> 0]
  /\ enable = [c \in Contexts |-> {}] /\ pend = [c \in Contexts |-> {}]
  /\ pprio = [c \in Contexts |-> [i \in Sources |-> 0]]
  /\ claimed = [c \in Contexts |-> {}] /\ autoclear = [c \in Contexts |-> {}]
  /\ virq = {} /\ edges = {} /\ spurious = FALSE

\* __plic_context_best_pending_irq: the highest priority, then the lowest number;
\* 0 is none.
Best(p, pp, cl) ==
  LET open == p \ cl
  IN IF open = {} THEN 0
     ELSE CHOOSE i \in open : \A j \in open : pp[j] < pp[i] \/ (pp[j] = pp[i] /\ i <= j)

\* __plic_context_irq_update
LineKept(c) == virq
LineAfter(c) ==
  IF Best(pend'[c], pprio'[c], claimed'[c]) # 0 THEN virq \cup {c} ELSE virq \ {c}

\* What a context forgets of a source.
Forget(c, S) ==
  /\ pend' = [pend EXCEPT ![c] = @ \ S]
  /\ pprio' = [pprio EXCEPT ![c] = [i \in Sources |-> IF i \in S THEN 0 ELSE @[i]]]
  /\ claimed' = [claimed EXCEPT ![c] = @ \ S]

-----------------------------------------------------------------------------
\* plic__irq_trig: the first context that has the source enabled takes it.
Takers(i) == {c \in Contexts : i \in enable[c]}

Raise(i) ==
  /\ i \in EdgeSources \/ i \notin level
  /\ level' = level \cup {i}
  /\ edges' = edges \cup ({i} \cap EdgeSources)
  /\ \/ /\ Takers(i) = {}
        /\ UNCHANGED <<ctxState, virq>>
     \/ \E c \in Takers(i) :
          /\ pend' = [pend EXCEPT ![c] = @ \cup {i}]
          /\ pprio' = [pprio EXCEPT ![c][i] = prio[i]]
          /\ autoclear' = [autoclear EXCEPT ![c] = @ \cup ({i} \cap EdgeSources)]
          /\ UNCHANGED <<enable, claimed>>
          /\ virq' = LineAfter(c)
  /\ UNCHANGED <<prio, threshold, spurious>>

Lower(i) ==
  /\ i \in LevelSources \cap level
  /\ level' = level \ {i}
  /\ \/ /\ Takers(i) = {}
        /\ UNCHANGED <<ctxState, virq>>
     \/ \E c \in Takers(i) :
          /\ Forget(c, {i})
          /\ autoclear' = [autoclear EXCEPT ![c] = @ \ {i}]
          /\ UNCHANGED enable
          /\ virq' = LineAfter(c)
  /\ UNCHANGED <<prio, threshold, edges, spurious>>

PriorityWrite(i, p) ==
  /\ prio' = [prio EXCEPT ![i] = p]
  /\ UNCHANGED <<level, threshold, ctxState, virq, edges, spurious>>

\* plic__context_enable_write: a source that is enabled while its level is high
\* becomes pending, one that is disabled is forgotten (its autoclear bit is not).
RaisedNever(on) == {}
RaisedNow(on) == on \cap level

EnableWrite(c, new) ==
  /\ \A d \in Contexts \ {c} : new \cap enable[d] = {}
  /\ enable' = [enable EXCEPT ![c] = new]
  /\ LET on == new \ enable[c]
         off == enable[c] \ new
     IN /\ pend' = [pend EXCEPT ![c] = (@ \ off) \cup RaisedNow(on)]
        /\ pprio' = [pprio EXCEPT ![c] =
                       [i \in Sources |-> CASE i \in RaisedNow(on) -> prio[i]
                                            [] i \in off -> 0
                                            [] OTHER -> @[i]]]
        /\ claimed' = [claimed EXCEPT ![c] = @ \ off]
  /\ virq' = LineAfter(c)
  /\ UNCHANGED <<prio, level, threshold, autoclear, edges, spurious>>

\* plic__context_read of CONTEXT_CLAIM, __plic_context_irq_claim.
Claim(c) ==
  LET best == Best(pend[c], pprio[c], claimed[c])
  IN /\ IF best \in autoclear[c]
        THEN /\ Forget(c, {best})
             /\ autoclear' = [autoclear EXCEPT ![c] = @ \ {best}]
        ELSE /\ claimed' = [claimed EXCEPT ![c] = @ \cup ({best} \ {0})]
             /\ UNCHANGED <<pend, pprio, autoclear>>
     /\ edges' = edges \ {best}
     /\ spurious' = (spurious \/ best \in EdgeSources \ edges)
     /\ virq' = LineAfter(c)
     /\ UNCHANGED <<prio, level, threshold, enable>>

\* plic__context_write of CONTEXT_CLAIM completes a source that is enabled here.
Complete(c, i) ==
  /\ i \in enable[c] \cap claimed[c]
  /\ claimed' = [claimed EXCEPT ![c] = @ \ {i}]
  /\ UNCHANGED <<enable, pend, pprio, autoclear>>
  /\ virq' = LineAfter(c)
  /\ UNCHANGED <<prio, level, threshold, edges, spurious>>

\* CONTEXT_THRESHOLD is stored; the line is not updated.
ThresholdWrite(c, p) ==
  /\ threshold' = [threshold EXCEPT ![c] = p]
  /\ UNCHANGED <<prio, level, ctxState, virq, edges, spurious>>

PlNext ==
  \/ \E i \in Sources : Raise(i) \/ Lower(i) \/ \E p \in Priorities : PriorityWrite(i, p)
  \/ \E c \in Contexts :
       \/ Claim(c)
       \/ \E new \in SUBSET Sources : EnableWrite(c, new)
       \/ \E i \in Sources : Complete(c, i)
       \/ \E p \in Priorities : ThresholdWrite(c, p)

-----------------------------------------------------------------------------
(* Properties                                                              *)

\* However the guest moves sources between contexts while devices raise and lower
\* them: a level source is pending where it is enabled exactly as long as its line
\* is high, an edge is not lost (plic__irq_trig, plic__context_enable_write), and a
\* vCPU is interrupted exactly while its context has something to claim.
PlicInv ==
  /\ \A c \in Contexts : c \in virq <=> Best(pend[c], pprio[c], claimed[c]) # 0
  /\ \A c \in Contexts : \A i \in enable[c] :
       /\ i \in LevelSources => (i \in pend[c] <=> i \in level)
       /\ i \in edges => i \in pend[c]

\* "a source priority threshold over which the hart will take an interrupt"
\* (CONTEXT_BASE): a vCPU is not interrupted for a source at or below its
\* threshold.
ThresholdHonoured ==
  \A c \in virq : prio[Best(pend[c], pprio[c], claimed[c])] > threshold[c]

\* "we auto-clear edge-triggered interrupts when PLIC context CLAIM register is
\* read" (plic__irq_trig): an edge is claimed once.
EdgeClaimedOnce == ~spurious
=================================================================================
