----------------------------- MODULE Serial8250 -----------------------------
(***************************************************************************)
(* The serial ports of hw/serial.c: registers written and read by vCPUs,   *)
(* a receive FIFO filled by the terminal thread, sysrq characters injected *)
(* by the IPC thread, and the interrupt line of each port.                 *)
(*                                                                         *)
(* Everything but the injection happens under the port's mutex, so a       *)
(* register access and a turn of serial8250__update_consoles are steps.    *)
(* Both end with serial8250_update_irq.  A port is a record, and the parts *)
(* of a step are functions on it, in the order of the code.                *)
(***************************************************************************)
EXTENDS Naturals, Sequences

CONSTANTS
  Ports,      \* devices[]
  Sysrqed,    \* the port that takes sysrqs (the first one)
  Irq,        \* the interrupt line of a port
  Console,    \* whether active_console is CONSOLE_8250
  FifoLen,    \* FIFO_LEN: 64 in the code
  Chars,      \* what users type, monitor commands apart
  Escape,     \* term_escape_char, one of Chars
  Other,      \* a character that is not typed: a sysrq, or looped back
  MaxTyped    \* bound: characters typed, per port

ASSUME SerialAssumption ==
  /\ Sysrqed \in Ports
  /\ FifoLen \in Nat \ {0}
  /\ Escape \in Chars
  /\ Console \in BOOLEAN
  /\ MaxTyped \in Nat

VARIABLES
  port,      \* the registers and FIFOs of the ports
  line,      \* the interrupt lines, as the kernel sees them
  sysrq,     \* sysrq_pending
  escape,    \* term_in_escape, which all terminals share
  input,     \* characters that wait in the terminal of a port
  typed,     \* history: everything typed
  got,       \* history: what the guest read from ports not disturbed
  disturbed  \* history: ports with a break, a loop back or a cleared FIFO

vars == <<port, line, sysrq, escape, input, typed, got, disturbed>>

\* lcr, fcr and ier are sets of the bits that matter.  "2" and "4" have the values
\* of UART_FCR_CLEAR_RCVR and UART_FCR_CLEAR_XMIT; in the line control register
\* they are part of the word length, and the stop bits.
LcrBits == {"DLAB", "2", "4"}
FcrBits == {"2"}
IerBits == {"RDI", "THRI"}

Reset ==
  [ier |-> {}, lcr |-> {}, fcr |-> {}, loop |-> FALSE, dr |-> FALSE, bi |-> FALSE,
   temt |-> TRUE, thre |-> TRUE, txcnt |-> 0, rxbuf |-> <<>>, rxdone |-> 0, iir |-> {}]

Init ==
  /\ port = [p \in Ports |-> Reset]
  /\ line = [i \in {Irq[p] : p \in Ports} |-> FALSE]
  /\ sysrq = FALSE
  /\ escape = FALSE
  /\ input = [p \in Ports |-> <<>>]
  /\ typed = [p \in Ports |-> <<>>]
  /\ got = [p \in Ports |-> <<>>]
  /\ disturbed = {}

-----------------------------------------------------------------------------
(* serial8250_update_irq                                                   *)

FlushTx(d) == [d EXCEPT !.temt = TRUE, !.thre = TRUE, !.txcnt = 0]

ClearRx(d) ==
  IF "2" \in d.lcr
  THEN [d EXCEPT !.lcr = @ \ {"2"}, !.rxbuf = <<>>, !.rxdone = 0, !.dr = FALSE]
  ELSE d

ClearTx(d) ==
  IF "4" \in d.lcr
  THEN [d EXCEPT !.lcr = @ \ {"4"}, !.txcnt = 0, !.temt = TRUE, !.thre = TRUE]
  ELSE d

\* The interrupts that a port asks for.
Causes(d) == {c \in d.ier : (c = "RDI" /\ d.dr) \/ (c = "THRI" /\ d.temt)}

\* irq_state and iir, then the transmitter when its interrupt is off.
SetIrq(d) == [d EXCEPT !.iir = Causes(d)]
Settle(d) == IF "THRI" \in d.ier THEN d ELSE FlushTx(d)
Updated(d) == Settle(SetIrq(ClearTx(ClearRx(d))))

\* kvm_irq_line is called when irq_state goes from or to zero.
LevelStays(level, old, new) == level \/ new # {}
Level(level, old, new) ==
  IF old = {} /\ new # {} THEN TRUE
  ELSE IF old # {} /\ new = {} THEN FALSE
  ELSE level

\* The step of a port ends: d is what it was before serial8250_update_irq.
Update(p, d) ==
  /\ port' = [port EXCEPT ![p] = Updated(d)]
  /\ line' = [line EXCEPT ![Irq[p]] = Level(@, port[p].iir, Updated(d).iir)]

-----------------------------------------------------------------------------
(* serial8250_out                                                          *)

\* UART_TX while the divisor latch is not in the way.  The character goes to the
\* terminal at once.
Transmit(d) ==
  IF d.txcnt < FifoLen
  THEN FlushTx([d EXCEPT !.txcnt = @ + 1, !.temt = FALSE,
                         !.thre = @ /\ d.txcnt + 1 # FifoLen \div 2])
  ELSE [d EXCEPT !.temt = FALSE, !.thre = FALSE]

WriteTx(p) ==
  /\ "DLAB" \notin port[p].lcr /\ ~port[p].loop
  /\ Update(p, Transmit(port[p]))
  /\ UNCHANGED <<sysrq, escape, input, typed, got, disturbed>>

\* UART_TX in loop back mode.
WriteLoop(p) ==
  LET d == port[p] IN
  /\ "DLAB" \notin d.lcr /\ d.loop
  /\ \/ /\ Len(d.rxbuf) < FifoLen
        /\ Update(p, [d EXCEPT !.rxbuf = Append(@, Other), !.dr = TRUE])
        /\ disturbed' = disturbed \cup {p}
     \/ /\ Len(d.rxbuf) = FifoLen
        /\ Update(p, d)
        /\ UNCHANGED disturbed
  /\ UNCHANGED <<sysrq, escape, input, typed, got>>

WriteIer(p, bits) ==
  /\ "DLAB" \notin port[p].lcr
  /\ Update(p, [port[p] EXCEPT !.ier = bits])
  /\ UNCHANGED <<sysrq, escape, input, typed, got, disturbed>>

\* The value is kept and nothing looks at it.
WriteFcr(p, bits) ==
  /\ Update(p, [port[p] EXCEPT !.fcr = bits])
  /\ UNCHANGED <<sysrq, escape, input, typed, got, disturbed>>

WriteLcr(p, bits) ==
  /\ Update(p, [port[p] EXCEPT !.lcr = bits])
  /\ disturbed' = IF "2" \in bits THEN disturbed \cup {p} ELSE disturbed
  /\ UNCHANGED <<sysrq, escape, input, typed, got>>

WriteMcr(p, loop) ==
  /\ Update(p, [port[p] EXCEPT !.loop = loop])
  /\ UNCHANGED <<sysrq, escape, input, typed, got, disturbed>>

-----------------------------------------------------------------------------
(* serial8250_in                                                           *)

\* `dev->rxcnt == dev->rxdone` after the increment: the FIFO starts afresh.
ReadNextStale(d) ==
  IF d.rxdone + 1 = Len(d.rxbuf)
  THEN [d EXCEPT !.rxbuf = <<>>, !.rxdone = 0]
  ELSE [d EXCEPT !.rxdone = @ + 1]
ReadNext(d) ==
  IF d.rxdone + 1 = Len(d.rxbuf)
  THEN [d EXCEPT !.rxbuf = <<>>, !.rxdone = 0, !.dr = FALSE]
  ELSE [d EXCEPT !.rxdone = @ + 1]

\* serial8250_rx.
ReadRx(p) ==
  LET d == port[p] IN
  /\ "DLAB" \notin d.lcr
  /\ \/ /\ d.rxdone = Len(d.rxbuf)
        /\ Update(p, d)
        /\ UNCHANGED got
     \/ /\ d.rxdone < Len(d.rxbuf) /\ d.bi
        /\ Update(p, [d EXCEPT !.bi = FALSE])
        /\ UNCHANGED got
     \/ /\ d.rxdone < Len(d.rxbuf) /\ ~d.bi
        /\ Update(p, ReadNext(d))
        /\ got' = IF p \in disturbed THEN got
                  ELSE [got EXCEPT ![p] = Append(@, d.rxbuf[d.rxdone + 1])]
  /\ UNCHANGED <<sysrq, escape, input, typed, disturbed>>

\* The registers that read or keep a value without further effect: dll and dlm
\* behind the divisor latch, scr, and all that is only read.
OtherAccess(p) ==
  /\ Update(p, port[p])
  /\ UNCHANGED <<sysrq, escape, input, typed, got, disturbed>>

-----------------------------------------------------------------------------
(* serial8250__update_consoles and serial8250__inject_sysrq                *)

Type(p, c) ==
  /\ Len(typed[p]) < MaxTyped
  /\ typed' = [typed EXCEPT ![p] = Append(@, c)]
  /\ input' = [input EXCEPT ![p] = Append(@, c)]
  /\ UNCHANGED <<port, line, sysrq, escape, got, disturbed>>

InjectSysrq ==
  /\ sysrq' = TRUE
  /\ UNCHANGED <<port, line, escape, input, typed, got, disturbed>>

\* serial8250__receive waits until the guest has read what there is.
NeverBusy(d) == FALSE
Busy(d) == d.loop \/ d.dr \/ d.rxbuf # <<>>

\* term_monitor_check keeps an escape that does not follow another one.  The
\* loop over term_getc ends with it, or when the FIFO is full.
Keeps(s, i) == s[i] = Escape /\ ~(i = 1 /\ escape)
Taken(s) ==
  CHOOSE n \in 0 .. Len(s) :
    /\ n <= FifoLen
    /\ \A i \in 1 .. n : ~Keeps(s, i)
    /\ n < Len(s) /\ n < FifoLen => Keeps(s, n + 1)
ConsumedFirst(s) == IF Taken(s) < Len(s) THEN Taken(s) + 1 ELSE Taken(s)
Consumed(s) ==
  IF Taken(s) < Len(s) /\ Taken(s) < FifoLen THEN Taken(s) + 1 ELSE Taken(s)

ReceiveSysrq(p) ==
  /\ ~Busy(port[p])
  /\ p = Sysrqed /\ sysrq
  /\ sysrq' = FALSE
  /\ Update(p, [port[p] EXCEPT !.dr = TRUE, !.bi = TRUE, !.rxbuf = Append(@, Other)])
  /\ disturbed' = disturbed \cup {p}
  /\ UNCHANGED <<escape, input, typed, got>>

ReceiveChars(p) ==
  /\ ~Busy(port[p])
  /\ ~(p = Sysrqed /\ sysrq)
  /\ Console
  /\ LET n == Taken(input[p]) IN
     Update(p, [port[p] EXCEPT !.rxbuf = @ \o SubSeq(input[p], 1, n),
                               !.dr = @ \/ n > 0])
  /\ input' = [input EXCEPT ![p] = SubSeq(@, Consumed(@) + 1, Len(@))]
  /\ escape' = IF input[p] = <<>> THEN escape ELSE Consumed(input[p]) > Taken(input[p])
  /\ UNCHANGED <<sysrq, typed, got, disturbed>>

ReceiveNothing(p) ==
  /\ Busy(port[p]) \/ (~Console /\ ~(p = Sysrqed /\ sysrq))
  /\ Update(p, port[p])
  /\ UNCHANGED <<sysrq, escape, input, typed, got, disturbed>>

\* A port's turn in serial8250__update_consoles.
Receive(p) == ReceiveSysrq(p) \/ ReceiveChars(p) \/ ReceiveNothing(p)

-----------------------------------------------------------------------------
Guest(p) ==
  \/ WriteTx(p)
  \/ WriteLoop(p)
  \/ \E bits \in SUBSET IerBits : WriteIer(p, bits)
  \/ \E bits \in SUBSET FcrBits : WriteFcr(p, bits)
  \/ \E bits \in SUBSET LcrBits : WriteLcr(p, bits)
  \/ \E loop \in BOOLEAN : WriteMcr(p, loop)
  \/ ReadRx(p)
  \/ OtherAccess(p)

Next ==
  \/ \E p \in Ports : Guest(p) \/ Receive(p)
  \/ \E p \in Ports, c \in Chars : Type(p, c)
  \/ InjectSysrq

Spec == Init /\ [][Next]_vars

\* The handler of the guest reads a character when the line is high.
Handle(p) == line[Irq[p]] /\ ReadRx(p)

\* The terminal thread is woken as long as there is input (poll is level
\* triggered), and visits every port.
Fairness == \A p \in Ports : WF_vars(input[p] # <<>> /\ Receive(p)) /\ WF_vars(Handle(p))

FairSpec == Spec /\ Fairness

-----------------------------------------------------------------------------
(* Properties                                                              *)

Unread(p) == SubSeq(port[p].rxbuf, port[p].rxdone + 1, Len(port[p].rxbuf))

TypeOK ==
  /\ \A p \in Ports :
       /\ port[p].ier \subseteq IerBits
       /\ port[p].lcr \subseteq LcrBits
       /\ port[p].fcr \subseteq FcrBits
       /\ Len(port[p].rxbuf) <= FifoLen
       /\ port[p].rxdone <= Len(port[p].rxbuf)
       /\ port[p].txcnt \in 0 .. FifoLen
       /\ port[p].iir \subseteq IerBits
  /\ sysrq \in BOOLEAN
  /\ disturbed \subseteq Ports

\* Between two register accesses the line status tells the truth about the FIFO,
\* irq_state is what enables and status call for, and the transmitter can take
\* a character ("Should never happpen" in serial8250_out does not).
PortInv ==
  \A p \in Ports :
    /\ port[p].dr <=> Unread(p) # <<>>
    /\ port[p].iir = Causes(port[p])
    /\ port[p].txcnt = 0 /\ port[p].temt /\ port[p].thre

Alone(p) == \A q \in Ports : Irq[q] = Irq[p] => q = p

\* The interrupt line of a port that shares it with no other is high exactly while
\* the port has an interrupt pending, whoever changed the port last.
LineFollows ==
  \A p \in Ports : Alone(p) => (line[Irq[p]] <=> Causes(port[p]) # {})

\* The characters of s that are not escapes.
Shown(t, c) == IF c = Escape THEN t ELSE Append(t, c)
Plain(s) ==
  LET f[i \in 0 .. Len(s)] == IF i = 0 THEN <<>> ELSE Shown(f[i - 1], s[i])
  IN  f[Len(s)]

\* But for escapes, what the guest has read, what waits in the FIFO and what waits
\* in the terminal is what was typed, in order: the refill of the FIFO
\* (serial8250__receive) loses and repeats nothing.
InOrder ==
  \A p \in Ports \ disturbed :
    Plain(typed[p]) = Plain(got[p] \o Unread(p) \o input[p])

\* Input reaches a guest that keeps the receive interrupt on, loop back and divisor
\* latch off, and reads while the line is high, once nobody injects sysrqs, which
\* go first.
InputRead ==
  \A p \in Ports :
    <>[](Alone(p) /\ "RDI" \in port[p].ier /\ ~port[p].loop /\ "DLAB" \notin port[p].lcr
            /\ ~sysrq)
      => []<>(input[p] = <<>>)

\* "Handle clear rx" (serial8250_update_irq): a write of UART_FCR_CLEAR_RCVR to the
\* FIFO control register empties the receive FIFO.
FcrClears ==
  [][\A p \in Ports :
       port'[p].fcr # port[p].fcr /\ "2" \in port'[p].fcr => port'[p].rxbuf = <<>>]_vars

\* The registers and the line of a port, whatever vCPU and terminal do to it in turn.
SerialInv == TypeOK /\ PortInv /\ LineFollows
=============================================================================
