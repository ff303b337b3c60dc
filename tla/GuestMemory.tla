---------------------------- MODULE GuestMemory ----------------------------
(***************************************************************************)
(* The memory banks of the guest (init/kvm.c): kvm_register_mem for RAM,    *)
(* device memory and reserved regions, kvm_destroy_mem, and the address     *)
(* translation that scans the banks.  Each call holds mem_banks_lock.  An   *)
(* address is a page number; the host memory behind a bank is named by the  *)
(* number of the registration that brought it.                              *)
(***************************************************************************)
EXTENDS Integers, Sequences, SequencesExt, FiniteSets

CONSTANTS
    Pages,      \* guest page numbers, 0..n
    MaxBanks,   \* bound on the banks
    MaxRegs     \* bound on the registrations of a run

ASSUME MemAssumption == Pages \subseteq Nat

VARIABLES
    banks,      \* kvm->mem_banks, in list order
    kvmSlots,   \* KVM's memory slots: slot |-> <<first page, last page>>
    memSlots,   \* kvm->mem_slots
    regs,       \* registrations so far
    tornMem     \* a failed registration had already grown a reserved bank

memVars == <<banks, kvmSlots, memSlots, regs, tornMem>>

MemTypes == {"ram", "device", "reserved"}

MemInit ==
    /\ banks = <<>>
    /\ kvmSlots = <<>>
    /\ memSlots = 0
    /\ regs = 0
    /\ tornMem = FALSE

Apart(lo, hi, b) == lo > b.hi \/ hi < b.lo

Lesser(a, b) == IF a < b THEN a ELSE b
Greater(a, b) == IF a > b THEN a ELSE b

\* One bank of the scan, with the list as the scan leaves it so far.  A bank apart
\* from the region may push the slot up; a reserved region swallows the reserved
\* banks it meets, each of which takes the place of the one before, and the scan
\* goes on with the union; any other overlap is an error.
ScanBank(s, b, type) ==
    LET l == Lesser(b.lo, s.lo)
        h == Greater(b.hi, s.hi)
        others == IF s.merged = 0 THEN s.left ELSE RemoveAt(s.left, s.merged)
    IN IF s.err THEN [s EXCEPT !.left = Append(@, b)]
       ELSE IF Apart(s.lo, s.hi, b)
       THEN IF b.slot = s.slot
            THEN [s EXCEPT !.left = Append(@, b), !.slot = @ + 1, !.at = Len(s.left) + 1]
            ELSE [s EXCEPT !.left = Append(@, b)]
       ELSE IF b.type = "reserved" /\ type = "reserved"
       THEN [s EXCEPT !.lo = l, !.hi = h, !.merged = Len(others) + 1,
                      !.left = Append(others, [b EXCEPT !.lo = l, !.hi = h])]
       ELSE [s EXCEPT !.left = Append(@, b), !.err = TRUE]

Scan(bs, lo, hi, type) ==
    LET f[i \in 0..Len(bs)] ==
        IF i = 0 THEN [lo |-> lo, hi |-> hi, slot |-> 0, at |-> 0, merged |-> 0,
                       err |-> FALSE, left |-> <<>>]
        ELSE ScanBank(f[i - 1], bs[i], type)
    IN f[Len(bs)]

\* "Keep the banks sorted ascending by slot, so it's easier for us to find a
\* free slot": the new bank goes behind the one that gave its slot.
PlaceAtEnd(s) == Len(s.left) + 1
Place(s) == s.at + 1

\* kvm_register_mem; ok is the result of KVM_SET_USER_MEMORY_REGION.
RegisterMem(lo, hi, type, ok) ==
    LET s == Scan(banks, lo, hi, type)
        bank == [lo |-> lo, hi |-> hi, type |-> type, slot |-> s.slot, host |-> regs]
        enters == ~s.err /\ s.merged = 0 /\ (type = "reserved" \/ ok)
    IN
    /\ lo <= hi
    /\ regs < MaxRegs /\ Len(banks) < MaxBanks
    /\ regs' = regs + 1
    /\ banks' = IF enters THEN InsertAt(s.left, Place(s), bank) ELSE s.left
    /\ kvmSlots' = IF enters /\ type # "reserved"
                   THEN [i \in DOMAIN kvmSlots \cup {s.slot} |->
                            IF i = s.slot THEN <<lo, hi>> ELSE kvmSlots[i]]
                   ELSE kvmSlots
    /\ memSlots' = IF enters THEN memSlots + 1 ELSE memSlots
    /\ tornMem' = (tornMem \/ (s.err /\ s.merged # 0))

\* kvm_destroy_mem: the bank with exactly this range and host memory goes.
DestroyMem(i, ok) ==
    /\ banks[i].type # "reserved"
    /\ regs < MaxRegs
    /\ regs' = regs + 1
    /\ IF ok
       THEN /\ banks' = RemoveAt(banks, i)
            /\ kvmSlots' = [n \in DOMAIN kvmSlots \ {banks[i].slot} |-> kvmSlots[n]]
            /\ memSlots' = memSlots - 1
       ELSE UNCHANGED <<banks, kvmSlots, memSlots>>
    /\ tornMem' = tornMem

\* kvm_exit frees the banks.
MemExit ==
    /\ banks # <<>>
    /\ regs = MaxRegs
    /\ banks' = <<>>
    /\ UNCHANGED <<kvmSlots, memSlots, regs, tornMem>>

MemNext ==
    \/ \E lo \in Pages, hi \in Pages, type \in MemTypes, ok \in BOOLEAN : RegisterMem(lo, hi, type, ok)
    \/ \E i \in DOMAIN banks, ok \in BOOLEAN : DestroyMem(i, ok)
    \/ MemExit

-----------------------------------------------------------------------------
(* Address translation: the first bank that contains the address. *)

\* guest_flat_to_host, as <<registration, offset>>, or NULL.
GuestFlatToHost(p) ==
    LET hits == {i \in DOMAIN banks : p >= banks[i].lo /\ p <= banks[i].hi}
        b == banks[Min(hits)]
    IN IF hits = {} THEN <<>> ELSE <<b.host, p - b.lo>>

\* host_to_guest_flat of such a pointer.
HostToGuestFlat(h) ==
    LET hits == {i \in DOMAIN banks : banks[i].host = h[1] /\ h[2] <= banks[i].hi - banks[i].lo}
    IN IF hits = {} THEN -1 ELSE banks[Min(hits)].lo + h[2]

-----------------------------------------------------------------------------
(* Properties *)

\* kvm_register_mem: whatever is registered, merged, refused and destroyed, no
\* two banks overlap (unless a refused reservation had already grown a bank),
\* slots are unique and ascending, KVM has exactly the slots of the banks that
\* are not reserved, and what guest_flat_to_host returns for a page of a bank
\* with memory behind it leads back to the page.
BanksInv ==
    /\ \A i, j \in DOMAIN banks : i < j => banks[i].slot < banks[j].slot
    /\ ~tornMem => \A i, j \in DOMAIN banks : i # j => Apart(banks[i].lo, banks[i].hi, banks[j])
    /\ banks # <<>> =>
         /\ DOMAIN kvmSlots = {b.slot : b \in {c \in Range(banks) : c.type # "reserved"}}
         /\ \A b \in Range(banks) : b.type # "reserved" => kvmSlots[b.slot] = <<b.lo, b.hi>>
    /\ ~tornMem => \A b \in Range(banks) : \A p \in b.lo..b.hi :
                    b.type # "reserved" => HostToGuestFlat(GuestFlatToHost(p)) = p

=============================================================================
