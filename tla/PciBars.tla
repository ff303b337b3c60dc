------------------------------- MODULE PciBars -------------------------------
(***************************************************************************)
(* Configuration writes of init/pci.c that enable, disable, size and move  *)
(* the BARs of virtio PCI devices, on top of the trap regions of MmioBus.  *)
(*                                                                         *)
(* A configuration write is a sequence of steps: a BAR is looked at, its   *)
(* callback (virtio_pci__bar_activate, virtio_pci__bar_deactivate) runs    *)
(* under mmio_lock, then its bar_active flag is set.  Nothing locks the    *)
(* PCI state, so other vCPUs use the BARs in between.  The guest serialises*)
(* its configuration writes (there is one address register for all).       *)
(***************************************************************************)
EXTENDS MmioBus, Sequences

CONSTANTS
  Bars,     \* implemented BARs in the order of the device list: a sequence of
            \* records with fields dev, space, size and home (initial address)
  Targets,  \* addresses the guest assigns: a sequence of sets, one per BAR
  Top,      \* addresses are u32: 2^32 in the code
  Rules     \* what the guest keeps to: "size", it sizes BARs with decoding off and
            \* gives them an address before it turns decoding on; "overlap", BARs of
            \* disabled devices, or of devices it toggles, overlap no other

BarNums == 1 .. Len(Bars)
Devs == {Bars[b].dev : b \in BarNums}
Spaces == {"io", "mem"}

\* What a BAR holds after all ones were written to it: ~(size - 1).
ProbeOverflow(b) == Top
Probe(b) == Top - Bars[b].size

Region(b, a) ==
  [space |-> Bars[b].space, low |-> a, high |-> a + Bars[b].size, owner |-> b]
BarRegions == UNION {{Region(b, a) : a \in Targets[b] \cup {Probe(b)}} : b \in BarNums}

\* pci_get_mmio_block and pci_get_io_port_block never hand out an address twice,
\* so the BARs are apart at home.
ASSUME BarAssumption ==
  /\ Top \in Nat
  /\ Rules \subseteq {"size", "overlap"}
  /\ Len(Bars) \in Nat
  /\ Len(Targets) = Len(Bars)
  /\ \A b \in BarNums :
       /\ Bars[b].space \in Spaces
       /\ Bars[b].size \in 1 .. Top
       /\ Bars[b].home \in Targets[b]
       /\ \A a \in Targets[b] : a \in Nat /\ a + Bars[b].size < Top
  /\ \A b, c \in BarNums :
       Meets(Region(b, Bars[b].home), Region(c, Bars[c].home)) => b = c
  /\ BarRegions \subseteq Regions

VARIABLES
  bar,      \* pci_hdr->bar: the address in it
  active,   \* pci_hdr->bar_active
  command,  \* pci_hdr->command: the spaces a device decodes
  stage,    \* where a vCPU is in a configuration write
  step,     \* where it is with the BAR at hand
  k,        \* its loop counter over the BARs
  args,     \* the write it performs
  spoiled   \* history: the BARs that are off because an activation failed

writeVars == <<stage, step, k, args>>
barVars == <<bar, active, command>>
pciVars == <<tree, refcount, removed, using, bar, active, command, stage, step, k,
             args, spoiled>>

NoArgs == [bar |-> 0, value |-> 0, old |-> 0, from |-> 0,
           dev |-> 0, spaces |-> {}, toggled |-> {}]

Writes ==
  [bar : BarNums \cup {0}, value : Nat, old : Nat, from : Nat,
   dev : Devs \cup {0}, spaces : SUBSET Spaces, toggled : SUBSET Spaces]

\* virtio_pci__init: every BAR is registered at its home address and active.
PciInit ==
  /\ bar = [b \in BarNums |-> Bars[b].home]
  /\ active = [b \in BarNums |-> TRUE]
  /\ command = [d \in Devs |-> Spaces]
  /\ tree = {Region(b, Bars[b].home) : b \in BarNums}
  /\ refcount = [r \in Regions |-> 0]
  /\ removed = {}
  /\ using = [v \in Vcpus |-> None]
  /\ stage = [v \in Vcpus |-> "idle"]
  /\ step = [v \in Vcpus |-> "scan"]
  /\ k = [v \in Vcpus |-> 1]
  /\ args = [v \in Vcpus |-> NoArgs]
  /\ spoiled = {}

Enabled(b) == Bars[b].space \in command[Bars[b].dev]

\* Ports and memory have windows of their own: pci_toggle_bar_regions compares
\* addresses without a look at the space.
WindowsApart ==
  \A b, c \in BarNums :
    Bars[b].space # Bars[c].space =>
      \A a \in Targets[b], e \in Targets[c] :
        a + Bars[b].size <= e \/ e + Bars[c].size <= a
Orderly == Rules = {"size", "overlap"} /\ WindowsApart
Idle(v) == stage[v] = "idle" /\ using[v] = None
Quiet == \A v \in Vcpus : stage[v] = "idle"

\* Two BARs answer to the same address.
Collide(b, a, c) == b # c /\ Meets(Region(b, a), Region(c, bar[c]))

-----------------------------------------------------------------------------
(* Accesses of the guest                                                   *)

Access(v) ==
  /\ Idle(v)
  /\ \E s \in Spaces, a \in Addrs, n \in Lens : Get(v, s, a, n)
  /\ UNCHANGED <<barVars, writeVars, spoiled>>

Return(v) ==
  /\ Put(v)
  /\ UNCHANGED <<barVars, writeVars, spoiled>>

-----------------------------------------------------------------------------
(* pci__config_wr                                                          *)

\* The write goes on with stage s, or starts; `from` is the loop's start.
Goto(v, s, a) ==
  /\ stage' = [stage EXCEPT ![v] = s]
  /\ step' = [step EXCEPT ![v] = "scan"]
  /\ k' = [k EXCEPT ![v] = 1]
  /\ args' = [args EXCEPT ![v] = IF s = "idle" THEN NoArgs ELSE a]

\* pci_config_command_wr.
CommandWrite(v, d, new) ==
  LET toggled == (command[d] \ new) \cup (new \ command[d])
      concerned == {b \in BarNums : Bars[b].dev = d /\ Bars[b].space \in toggled}
  IN
  /\ Idle(v) /\ Quiet
  /\ "size" \in Rules => \A b \in concerned : bar[b] # Probe(b)
  /\ "overlap" \in Rules =>
       \A b \in concerned, c \in BarNums : ~Collide(b, bar[b], c)
  /\ Goto(v, "command", [NoArgs EXCEPT !.dev = d, !.spaces = new, !.toggled = toggled])
  /\ UNCHANGED <<vars, barVars, spoiled>>

\* pci_config_bar_wr with all ones: the guest sizes the BAR.
SizeWrite(v, b) ==
  /\ Idle(v) /\ Quiet
  /\ "size" \in Rules => ~Enabled(b)
  /\ bar' = [bar EXCEPT ![b] = Probe(b)]
  /\ UNCHANGED <<vars, active, command, writeVars, spoiled>>

\* "Don't toggle emulation when region type access is disbled."
DisabledWrite(v, b, a) ==
  /\ Idle(v) /\ Quiet
  /\ ~Enabled(b)
  /\ "overlap" \in Rules => \A c \in BarNums : ~Collide(b, a, c)
  /\ bar' = [bar EXCEPT ![b] = a]
  /\ UNCHANGED <<vars, active, command, writeVars, spoiled>>

\* Moving a BAR while the device decodes its space.
BarWrite(v, b, a) ==
  /\ Idle(v) /\ Quiet
  /\ Enabled(b)
  /\ "overlap" \in Rules => \A c \in BarNums : Collide(b, a, c) => Enabled(c)
  /\ Goto(v, "off", [NoArgs EXCEPT !.bar = b, !.value = a, !.old = bar[b]])
  /\ UNCHANGED <<vars, barVars, spoiled>>

-----------------------------------------------------------------------------
(* The steps of a write                                                    *)

Loops == {"command", "clear", "again"}

\* The BAR at hand, and whether it is to become active.
Target(v) == IF stage[v] \in Loops THEN k[v] ELSE args[v].bar
Activate(v) ==
  \/ stage[v] = "command" /\ Bars[Target(v)].space \in args[v].spaces
  \/ stage[v] \in {"on", "back", "again"}

\* The overlap test of pci_toggle_bar_regions, in u32 arithmetic.
OverlapsOffByOne(b, start, size) ==
  ~((bar[b] + Bars[b].size) % Top < start \/ bar[b] > (start + size) % Top)
Overlaps(b, start, size) ==
  ~((bar[b] + Bars[b].size) % Top <= start \/ bar[b] >= (start + size) % Top)

\* The BAR at hand is one the loop works on.
Wanted(v) ==
  LET size == Bars[args[v].bar].size IN
  CASE stage[v] = "command" ->
         Bars[k[v]].dev = args[v].dev /\ Bars[k[v]].space \in args[v].toggled
    [] stage[v] = "clear" -> Overlaps(k[v], args[v].value, size)
    [] stage[v] = "again" -> Overlaps(k[v], args[v].from, size)
    [] OTHER -> TRUE

NextBar(v) ==
  /\ k' = [k EXCEPT ![v] = @ + 1]
  /\ step' = [step EXCEPT ![v] = "scan"]
  /\ UNCHANGED <<stage, args>>

\* pci_activate_bar or pci_deactivate_bar has returned without an error.
Succeed(v) ==
  CASE stage[v] \in Loops -> NextBar(v)
    [] stage[v] = "off" -> Goto(v, "clear", args[v])
    [] stage[v] = "on" -> Goto(v, "again", [args[v] EXCEPT !.from = args[v].old])
    [] stage[v] = "back" -> Goto(v, "idle", NoArgs)

\* It has returned an error.
Fail(v) ==
  CASE stage[v] = "command" -> NextBar(v)
    [] stage[v] = "clear" -> Goto(v, "back", args[v])
    [] stage[v] = "on" -> Goto(v, "again", [args[v] EXCEPT !.from = args[v].value])
    [] stage[v] \in {"off", "back", "again"} -> Goto(v, "idle", NoArgs)

\* `if (pci_bar_is_active(...))`, or the loop goes on to the next BAR.
Scan(v) ==
  /\ stage[v] # "idle" /\ step[v] = "scan"
  /\ k[v] <= Len(Bars)
  /\ \/ /\ Wanted(v) /\ active[Target(v)] # Activate(v)
        /\ step' = [step EXCEPT ![v] = "call"]
        /\ UNCHANGED <<stage, k, args>>
     \/ /\ Wanted(v) => active[Target(v)] = Activate(v)
        /\ Succeed(v)
  /\ UNCHANGED <<vars, barVars, spoiled>>

\* The BARs that an activation which fails leaves off: the BAR at hand, if what is
\* in its way is a removed region that is still in use, and those that the write
\* would have turned on after it.
LeftOff(v) ==
  LET b == Target(v)
      size == Bars[args[v].bar].size
      next == CASE stage[v] = "on" -> {c \in BarNums : Overlaps(c, args[v].old, size)}
                [] stage[v] = "again" ->
                     {c \in BarNums : c > k[v] /\ Overlaps(c, args[v].from, size)}
                [] OTHER -> {}
  IN {c \in {b} : \E q \in removed : Meets(q, Region(b, bar[b]))}
       \cup {c \in next : ~active[c]}

\* virtio_pci__bar_activate: kvm_register_mmio or kvm_register_pio.
CallActivate(v) ==
  LET r == Region(Target(v), bar[Target(v)]) IN
  /\ step[v] = "call" /\ Activate(v)
  /\ \/ /\ Register(r)
        /\ step' = [step EXCEPT ![v] = "set"]
        /\ UNCHANGED <<stage, k, args>>
        /\ UNCHANGED spoiled
     \/ /\ ~CanInsert(r)
        /\ Fail(v)
        /\ spoiled' = spoiled \cup LeftOff(v)
        /\ UNCHANGED vars
  /\ UNCHANGED barVars

\* virtio_pci__bar_deactivate.  kvm_deregister_pio returns a bool, which is
\* never negative, so for an I/O BAR a region not found is no error.
CallDeactivate(v) ==
  LET b == Target(v)
      found == AtPoint(Bars[b].space, bar[b])
  IN
  /\ step[v] = "call" /\ ~Activate(v)
  /\ \/ /\ \E r \in found : Deregister(r)
        /\ step' = [step EXCEPT ![v] = "set"]
        /\ UNCHANGED <<stage, k, args>>
     \/ /\ found = {} /\ Bars[b].space = "io"
        /\ step' = [step EXCEPT ![v] = "set"]
        /\ UNCHANGED <<vars, stage, k, args>>
     \/ /\ found = {} /\ Bars[b].space = "mem"
        /\ Fail(v)
        /\ UNCHANGED vars
  /\ UNCHANGED <<barVars, spoiled>>

\* `pci_hdr->bar_active[bar_num] = true` or `= false`.
FlagKept(v) == active[Target(v)]
FlagAfter(v) == Activate(v)

SetActive(v) ==
  /\ step[v] = "set"
  /\ active' = [active EXCEPT ![Target(v)] = FlagAfter(v)]
  /\ spoiled' = {c \in spoiled : Activate(v) => c # Target(v)}
  /\ Succeed(v)
  /\ UNCHANGED <<vars, bar, command>>

\* What follows a loop over the BARs.
EndLoop(v) ==
  /\ stage[v] \in Loops /\ step[v] = "scan"
  /\ k[v] > Len(Bars)
  /\ \/ /\ stage[v] = "clear"
        /\ bar' = [bar EXCEPT ![args[v].bar] = args[v].value]
        /\ Goto(v, "on", args[v])
        /\ UNCHANGED command
     \/ /\ stage[v] = "again"
        /\ Goto(v, "idle", NoArgs)
        /\ UNCHANGED <<bar, command>>
     \/ /\ stage[v] = "command"
        /\ command' = [command EXCEPT ![args[v].dev] = args[v].spaces]
        /\ Goto(v, "idle", NoArgs)
        /\ UNCHANGED bar
  /\ UNCHANGED <<vars, active, spoiled>>

Write(v) ==
  \/ \E d \in Devs, new \in SUBSET Spaces : CommandWrite(v, d, new)
  \/ \E b \in BarNums : SizeWrite(v, b)
  \/ \E b \in BarNums : \E a \in Targets[b] : DisabledWrite(v, b, a) \/ BarWrite(v, b, a)

Steps(v) ==
  Scan(v) \/ CallActivate(v) \/ CallDeactivate(v) \/ SetActive(v) \/ EndLoop(v)

PciNext == \E v \in Vcpus : Access(v) \/ Return(v) \/ Write(v) \/ Steps(v)

PciSpec == PciInit /\ [][PciNext]_pciVars

-----------------------------------------------------------------------------
(* Properties                                                              *)

TypeOK ==
  /\ BusTypeOK
  /\ bar \in [BarNums -> 0 .. Top - 1]
  /\ active \in [BarNums -> BOOLEAN]
  /\ command \in [Devs -> SUBSET Spaces]
  /\ stage \in [Vcpus -> {"idle", "command", "off", "clear", "on", "back", "again"}]
  /\ step \in [Vcpus -> {"scan", "call", "set"}]
  /\ k \in [Vcpus -> 1 .. Len(Bars) + 1]
  /\ args \in [Vcpus -> Writes]

\* A BAR holds an address the guest gave it or the answer to a probe, a write
\* knows its BAR and its address until it ends, and a callback runs for a BAR that
\* exists.  With BusInv this is inductive.
Placed ==
  /\ \A b \in BarNums : bar[b] \in Targets[b] \cup {Probe(b)}
  /\ \A v \in Vcpus :
       /\ stage[v] \notin {"idle", "command"} =>
            args[v].bar \in BarNums /\ args[v].value \in Targets[args[v].bar]
       /\ step[v] # "scan" => stage[v] # "idle" /\ k[v] <= Len(Bars)

PciInv == TypeOK /\ BusInv /\ Placed

\* "memory regions for different devices can overlap as long as no access is
\* made to the overlapping memory regions" (pci_config_bar_wr): after any number
\* of moves by an orderly guest, a BAR that is enabled and collides with no other
\* enabled BAR is emulated where it says, unless a failed activation left it off.
Emulated ==
  Orderly /\ Quiet =>
    \A b \in BarNums \ spoiled :
      /\ Enabled(b)
      /\ \A c \in BarNums : Enabled(c) => ~Collide(b, bar[b], c)
      => Region(b, bar[b]) \in tree \ removed

\* "finally we enable emulation for all device regions that were overlapping with
\* the old value" (pci_config_bar_wr).  Not so: pci_toggle_bar_regions returns at the
\* first region that cannot be activated, for instance because it still overlaps the
\* new place, and BARs further on stay off although nothing overlaps them.
AllEmulated ==
  Orderly /\ Quiet /\ removed = {} =>
    \A b \in BarNums :
      /\ Enabled(b)
      /\ \A c \in BarNums : Enabled(c) => ~Collide(b, bar[b], c)
      => Region(b, bar[b]) \in tree

\* bar_active tells whether a BAR has a region, and the region is where the BAR
\* says, so that virtio_pci__bar_deactivate finds its own region.
FlagTrue ==
  Orderly /\ Quiet =>
    \A b \in BarNums :
      /\ active[b] => Region(b, bar[b]) \in tree
      /\ \A r \in tree \ removed : r.owner = b => active[b] /\ r = Region(b, bar[b])

\* "Don't toggle emulation when region type access is disbled"
\* (pci_config_bar_wr): a BAR is emulated only if its device decodes its space.
DisabledSilent ==
  Quiet => \A b \in BarNums : active[b] => Enabled(b)

\* The BAR callbacks leave the bus as the headers say: regions that were removed
\* are only those in use, and an orderly guest finds its BARs where they point.
BarsTrue == RemovedInUse /\ Emulated /\ FlagTrue
==============================================================================
