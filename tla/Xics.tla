----------------------------------- MODULE Xics -----------------------------------
(***************************************************************************)
(* The interrupt controller of PowerPC guests, arch/powerpc/xics.c, with   *)
(* the hypercalls and RTAS calls that drive it (spapr_hcall.c,             *)
(* spapr_rtas.c).  A presenter per vCPU holds one interrupt; the source    *)
(* layer keeps the ones a presenter has rejected and sends them again.     *)
(*                                                                         *)
(* Nothing is locked: a device's thread looks at a presenter in one step   *)
(* and stores its interrupt in the next, and a hypercall may come between. *)
(* Smaller priorities are more favoured; Masked stands for 0xff.           *)
(***************************************************************************)
EXTENDS Integers, Sequences, FiniteSets, SequencesExt

CONSTANTS
  Servers,     \* the vCPUs, which are the interrupt servers
  NrIrqs,      \* bound: the sources of the ICS
  XPriorities, \* bound: the priorities the guest gives its sources,
  VcpuPrios,   \*   its vCPUs
  IpiPrios,    \*   and its IPIs
  Masked,      \* priority 0xff
  MaxNest      \* bound: interrupts a vCPU handles at once

ASSUME XicsAssumption ==
  /\ 0 \in Servers /\ NrIrqs \in Nat
  /\ Masked \in Nat /\ XPriorities \cup VcpuPrios \cup IpiPrios \subseteq 0 .. Masked - 1

Ipi == 2          \* XICS_IPI
NoIrq == 0
IrqOffset == 16   \* XICS_IRQ_OFFSET
IrqSources == IrqOffset .. IrqOffset + NrIrqs - 1

VARIABLES
  icp,         \* per server: cppr, xisr, pprio (pending_priority), mfrr, line
  ics,         \* per source: server, prio, rejected, masked (masked_pending)
  handling,    \* per server: the xirr values it has accepted and not ended
  raising,     \* what a device's thread has seen: its source and the presenter, or <<>>
  owed,        \* history: sources raised, and neither accepted nor forgotten since
  retargeted,  \* history: sources whose xive was changed while they waited
  outranked,   \* history: servers whose EOI left an interrupt below the restored priority
  raced        \* history: a presenter or source changed between a thread's two steps

xsVars == <<icp, ics, handling, raising, owed, retargeted, outranked, raced>>

\* xics_init
XsInit ==
  /\ icp = [s \in Servers |-> [cppr |-> 0, xisr |-> NoIrq, pprio |-> 0, mfrr |-> Masked,
                               line |-> FALSE]]
  /\ ics = [nr \in IrqSources |-> [server |-> 0, prio |-> Masked, rejected |-> FALSE,
                                  masked |-> FALSE]]
  /\ handling = [s \in Servers |-> <<>>] /\ raising = <<>>
  /\ owed = {} /\ retargeted = {} /\ outranked = {} /\ raced = FALSE

-----------------------------------------------------------------------------
(* The two layers, as functions of the state x: p for icp, i for ics and,  *)
(* as history, owed.                                                       *)

\* ics_reject: an IPI has no source; its index is outside of irqs.
RejectForgets(x, nr) == x
Reject(x, nr) == IF nr \in IrqSources THEN [x EXCEPT !.i[nr].rejected = TRUE] ELSE x

Present(x, s, nr, prio) ==
  [x EXCEPT !.p[s].xisr = nr, !.p[s].pprio = prio, !.p[s].line = TRUE]

\* icp_check_ipi
CheckIpi(x, s) ==
  LET ss == x.p[s]
  IN IF ss.xisr # NoIrq /\ ss.pprio <= ss.mfrr THEN x
     ELSE Present(IF ss.xisr # NoIrq THEN Reject(x, ss.xisr) ELSE x, s, Ipi, ss.mfrr)

\* icp_irq: what it decides from a presenter, and what it stores.
Refuses(ss, prio) == prio >= ss.cppr \/ (ss.xisr # NoIrq /\ ss.pprio <= prio)
IcpStore(x, s, nr, prio, seen) ==
  IF Refuses(seen, prio) THEN Reject(x, nr)
  ELSE Present(IF seen.xisr # NoIrq THEN Reject(x, seen.xisr) ELSE x, s, nr, prio)
IcpIrq(x, s, nr, prio) == IcpStore(x, s, nr, prio, x.p[s])

\* ics_resend: every rejected source, in order, to its own server.  One that is
\* masked by now loses its rejected bit all the same, and is forgotten.
ResendOne(x, nr) ==
  LET y == [x EXCEPT !.i[nr].rejected = FALSE]
  IN IF ~x.i[nr].rejected THEN x
     ELSE IF x.i[nr].prio = Masked THEN [y EXCEPT !.owed = {n \in @ : n # nr \/ x.i[n].masked}]
     ELSE IcpIrq(y, x.i[nr].server, nr, x.i[nr].prio)
IcsResend(x) ==
  LET f[n \in 0 .. NrIrqs] == IF n = 0 THEN x ELSE ResendOne(f[n - 1], IrqOffset + n - 1)
  IN f[NrIrqs]

\* icp_resend
IcpResend(x, s) ==
  IcsResend(IF x.p[s].mfrr < x.p[s].cppr THEN CheckIpi(x, s) ELSE x)

\* icp_set_cppr
SetCppr(x, s, cppr) ==
  LET y == [x EXCEPT !.p[s].cppr = cppr]
      ss == x.p[s]
  IN IF cppr < ss.cppr
     THEN IF ss.xisr # NoIrq /\ cppr <= ss.pprio
          THEN Reject([y EXCEPT !.p[s].xisr = NoIrq, !.p[s].line = FALSE], ss.xisr)
          ELSE y
     ELSE IF ss.xisr = NoIrq THEN IcpResend(y, s) ELSE y

\* icp_set_mfrr
SetMfrr(x, s, mfrr) ==
  LET y == [x EXCEPT !.p[s].mfrr = mfrr]
  IN IF mfrr < y.p[s].cppr THEN CheckIpi(y, s) ELSE y

\* icp_eoi: the priority comes back from the guest; a waiting interrupt stays.
EoiNeverResends(ss) == FALSE
EoiResends(ss) == ss.xisr = NoIrq
Eoi(x, s, cppr) ==
  LET y == [x EXCEPT !.p[s].cppr = cppr]
  IN IF EoiResends(y.p[s]) THEN IcpResend(y, s) ELSE y

-----------------------------------------------------------------------------
(* Actions                                                                 *)

Now == [p |-> icp, i |-> ics, owed |-> owed]
Presented(nr) == \E s \in Servers : icp[s].xisr = nr

\* A handler leaves the state y: a thread between its two steps has seen an old
\* presenter or source.
NowIs(y) ==
  /\ icp' = y.p /\ ics' = y.i /\ owed' = y.owed
  /\ raced' = (raced \/ (raising # <<>> /\ (\/ y.p[raising[2]] # raising[3]
                                          \/ y.i[raising[1]] # ics[raising[1]])))

\* A presenter that holds an interrupt its vCPU must not take yet.
Overhangs(ss) == ss.xisr # NoIrq /\ ss.cppr <= ss.pprio

\* A resend looks at the new xive of every source that waits as rejected, and at
\* every presenter; over is what has come to overhang.
AfterResend(resent, over) ==
  /\ retargeted' = IF resent THEN {nr \in retargeted : Presented(nr)} ELSE retargeted
  /\ outranked' = IF resent THEN {t \in outranked : Overhangs(icp[t])} ELSE outranked \cup over

\* kvm_irq_line and ics_set_irq_msi, on a device's thread.
RaiseLoad(nr) ==
  /\ raising = <<>>
  /\ owed' = owed \cup {nr}
  /\ IF ics[nr].prio = Masked
     THEN ics' = [ics EXCEPT ![nr].masked = TRUE] /\ UNCHANGED raising
     ELSE raising' = <<nr, ics[nr].server, icp[ics[nr].server], ics[nr].prio>> /\ UNCHANGED ics
  /\ UNCHANGED <<icp, handling, retargeted, outranked, raced>>

RaiseStore ==
  LET y == IcpStore(Now, raising[2], raising[1], raising[4], raising[3])
  IN /\ raising # <<>>
     /\ icp' = y.p /\ ics' = y.i /\ raising' = <<>>
     /\ UNCHANGED <<handling, owed, retargeted, outranked, raced>>

\* h_cppr
HCppr(s, cppr) ==
  /\ NowIs(SetCppr(Now, s, cppr))
  /\ AfterResend(cppr >= icp[s].cppr /\ icp[s].xisr = NoIrq, {})
  /\ UNCHANGED <<handling, raising>>

\* h_ipi: any server, from any vCPU.
HIpi(s, mfrr) ==
  /\ NowIs(SetMfrr(Now, s, mfrr))
  /\ UNCHANGED <<handling, raising, retargeted, outranked>>

\* h_xirr and icp_accept.  The guest accepts when its interrupt line is high.
HXirr(s) ==
  /\ icp[s].line /\ Len(handling[s]) < MaxNest
  /\ NowIs([Now EXCEPT !.p[s] = [@ EXCEPT !.line = FALSE, !.cppr = icp[s].pprio, !.xisr = NoIrq],
                        !.owed = @ \ {icp[s].xisr}])
  /\ handling' = [handling EXCEPT ![s] = Append(@, <<icp[s].cppr, icp[s].xisr>>)]
  /\ UNCHANGED <<raising, retargeted, outranked>>

\* h_eoi with what was accepted last; the guest clears an IPI before.
HEoi(s) ==
  /\ handling[s] # <<>>
  /\ Last(handling[s])[2] = Ipi => icp[s].mfrr = Masked
  /\ NowIs(Eoi(Now, s, Last(handling[s])[1]))
  /\ handling' = [handling EXCEPT ![s] = Front(@)]
  /\ AfterResend(icp[s].xisr = NoIrq, {t \in {s} : Overhangs(icp'[s])})
  /\ UNCHANGED raising

\* rtas_set_xive and ics_write_xive_msi
SetXive(nr, s, prio) ==
  LET y == [Now EXCEPT !.i[nr].server = s, !.i[nr].prio = prio]
      sends == ics[nr].masked /\ prio # Masked
  IN /\ NowIs(IF sends THEN IcpIrq([y EXCEPT !.i[nr].masked = FALSE], s, nr, prio) ELSE y)
     /\ retargeted' = IF ics[nr].rejected \/ Presented(nr) THEN retargeted \cup {nr} ELSE retargeted
     /\ UNCHANGED <<handling, raising, outranked>>

\* spapr_hypercall and spapr_rtas_call find the handlers that xics_init registered.
\* ibm,get-xive, ibm,int-off and ibm,int-on change nothing.
Hypercall(s) ==
  \/ \E cppr \in VcpuPrios \cup {Masked} : HCppr(s, cppr)
  \/ \E t \in Servers, mfrr \in IpiPrios \cup {Masked} : HIpi(t, mfrr)
  \/ HXirr(s) \/ HEoi(s)
RtasCall == \E nr \in IrqSources, s \in Servers, prio \in XPriorities \cup {Masked} : SetXive(nr, s, prio)

\* The model stops at the first race: what a presenter holds after it is anything.
XsNext ==
  /\ ~raced
  /\ \/ \E nr \in IrqSources : RaiseLoad(nr)
     \/ RaiseStore
     \/ \E s \in Servers : Hypercall(s)
     \/ RtasCall

-----------------------------------------------------------------------------
(* Properties                                                              *)

\* As long as no hypercall falls between the two steps of a device's thread.  An
\* interrupt that was raised and not accepted is presented to a vCPU, rejected and
\* remembered, or remembered as masked (one that was rejected, masked and then
\* resent is lost: ics_resend_msi).  A vCPU's line is high exactly while it is
\* presented something.  And a source that waits as rejected really could not be
\* presented now, unless its xive was changed since (ics_write_xive_msi does not
\* send it again) or its server was outranked and nothing was resent since: icp_eoi
\* may restore a priority at which the interrupt that the presenter holds may not be
\* taken, a source is then rejected for the priority alone, and icp_set_cppr does not
\* resend it when the vCPU relents, because the presenter is not empty.
XicsInv ==
  raising = <<>> /\ ~raced =>
    /\ \A nr \in owed : Presented(nr) \/ ics[nr].rejected \/ ics[nr].masked
    /\ \A s \in Servers : icp[s].line <=> icp[s].xisr # NoIrq
    /\ \A nr \in IrqSources \ retargeted :
         ics[nr].rejected /\ ics[nr].prio # Masked /\ ics[nr].server \notin outranked
           => Refuses(icp[ics[nr].server], ics[nr].prio)

\* The last part without its exception for outranked servers, which does not hold.
RejectedCouldNotBeTaken ==
  raising = <<>> /\ ~raced =>
    \A nr \in IrqSources \ retargeted :
      ics[nr].rejected /\ ics[nr].prio # Masked => Refuses(icp[ics[nr].server], ics[nr].prio)
=================================================================================
