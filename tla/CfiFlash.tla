-------------------------------- MODULE CfiFlash --------------------------------
(***************************************************************************)
(* The parallel flash of hw/cfi_flash.c: the command state machine, the    *)
(* lock bits, the program buffer, and the direct mapping of the array into *)
(* the guest, which follows the read mode after every write.  A memory     *)
(* word is one bus access; the words that are commands are data as well.   *)
(*                                                                         *)
(* The guest's driver programs a buffer from its base upwards and erases   *)
(* at the start of a block.  Accesses take the device's mutex and are one  *)
(* step each.                                                              *)
(***************************************************************************)
EXTENDS Naturals

CONSTANTS
  FlashSize,   \* words of the array
  BlockWords,  \* FLASH_BLOCK_SIZE
  BufferWords, \* PROGRAM_BUFF_SIZE
  FlashData    \* bound: the words the guest programs

ASSUME FlashAssumption ==
  /\ FlashSize \in Nat /\ BlockWords \in Nat \ {0} /\ BufferWords \in Nat \ {0}
  /\ FlashSize % BlockWords = 0 /\ BlockWords % BufferWords = 0
  /\ "confirm" \in FlashData

VARIABLES
  flash,      \* flash_memory
  lockBm,     \* lock_bm: the locked blocks
  fstate,     \* state
  mode,       \* read_mode
  sr,         \* the error bits of sr
  buffer,     \* program_buffer
  base,       \* block_address (FlashSize: none yet)
  written, bufferLength,
  isMapped,   \* is_mapped
  slot,       \* KVM has the array in a read-only memory slot
  refused,    \* history: the last attempt to take the slot away failed
  wanted      \* history: the array after the operations the driver has confirmed

bufState == <<buffer, base, written, bufferLength>>
flVars == <<flash, lockBm, fstate, mode, sr, bufState, isMapped, slot, refused, wanted>>

Addrs == 0 .. FlashSize - 1
Commands == {"devid", "status", "query", "clear", "word", "lock_setup", "erase_setup",
             "buffer_setup", "confirm", "lock", "array"}

\* The words that 0 and 0xff stand for.
Erased == "array"
Zeros == "unknown"

BlockOf(a) == a \div BlockWords
BlockIsLocked(a) == BlockOf(a) \in lockBm

\* create_flash_device_file.  is_mapped is not initialised: it keeps what malloc
\* returned when the first mapping fails.
FlInit ==
  /\ flash = [a \in Addrs |-> Erased] /\ wanted = flash
  /\ lockBm = {} /\ fstate = "READY" /\ mode = "READ_ARRAY" /\ sr = {}
  /\ buffer = [i \in 0 .. BufferWords - 1 |-> Zeros]
  /\ base = FlashSize /\ written = 0 /\ bufferLength = 0
  /\ slot \in BOOLEAN
  /\ isMapped \in IF slot THEN {TRUE} ELSE BOOLEAN
  /\ refused = FALSE

-----------------------------------------------------------------------------
(* Reads                                                                   *)

ReadDevId(a) == IF a % BlockWords = 2 % BlockWords THEN BlockIsLocked(a) ELSE FALSE

\* cfi_flash_read: what an access that is trapped returns.
FlashRead(a) ==
  CASE mode = "READ_ARRAY" -> <<"array", flash[a]>>
    [] mode = "READ_STATUS_REG" -> <<"status", sr>>
    [] mode = "READ_JEDEC_DEVID" -> <<"devid", ReadDevId(a)>>
    [] mode = "READ_CFI_QUERY" -> <<"query", a>>

\* A load of the guest: the slot answers when there is one.
GuestLoad(a) == IF slot THEN <<"array", flash[a]>> ELSE FlashRead(a)

-----------------------------------------------------------------------------
(* The mapping                                                             *)

\* map_flash_memory: kvm_register_mem may fail.
MapFlash ==
  /\ \/ slot' = TRUE /\ isMapped' = TRUE
     \/ UNCHANGED <<slot, isMapped>>
  /\ refused' = FALSE

\* unmap_flash_memory: kvm_destroy_mem fails without a slot, and may fail with one.
UnmapFlash ==
  \/ slot /\ slot' = FALSE /\ isMapped' = FALSE /\ refused' = FALSE
  \/ UNCHANGED <<slot, isMapped>> /\ refused' = TRUE

\* The end of cfi_flash_mmio.
AdjustOnMap ==
  IF ~isMapped /\ mode' = "READ_ARRAY" THEN MapFlash ELSE UNCHANGED <<slot, isMapped, refused>>
AdjustMapping ==
  CASE ~isMapped /\ mode' = "READ_ARRAY" -> MapFlash
    [] isMapped /\ mode' # "READ_ARRAY" -> UnmapFlash
    [] OTHER -> UNCHANGED <<slot, isMapped>> /\ refused' = FALSE

-----------------------------------------------------------------------------
(* Writes: cfi_flash_write, by state                                       *)

Becomes(s, m) == fstate' = s /\ mode' = m

BufferSetup ==
  /\ buffer' = [i \in 0 .. BufferWords - 1 |-> Zeros]
  /\ base' = FlashSize /\ written' = 0
  /\ UNCHANGED bufferLength

WriteReady(c) ==
  /\ fstate = "READY"
  /\ CASE c = "devid" -> Becomes("READY", "READ_JEDEC_DEVID")
       [] c = "status" -> Becomes("READY", "READ_STATUS_REG")
       [] c = "query" -> Becomes("READY", "READ_CFI_QUERY")
       [] c \in {"clear", "confirm"} -> Becomes("READY", mode)
       [] c = "word" -> Becomes("WORD_PROGRAM", "READ_STATUS_REG")
       [] c = "lock_setup" -> Becomes("LOCK_BLOCK_SETUP", mode)
       [] c = "erase_setup" -> Becomes("ERASE_BLOCK_SETUP", "READ_STATUS_REG")
       [] c = "buffer_setup" -> Becomes("BUFFERED_PROGRAM_SETUP", "READ_STATUS_REG")
       [] OTHER -> Becomes("READY", "READ_ARRAY")
  /\ sr' = IF c = "clear" THEN {} ELSE sr
  /\ IF c = "buffer_setup" THEN BufferSetup ELSE UNCHANGED bufState
  /\ AdjustMapping
  /\ UNCHANGED <<flash, lockBm, wanted>>

WriteLock(c, a) ==
  /\ fstate = "LOCK_BLOCK_SETUP"
  /\ lockBm' = CASE c = "lock" -> lockBm \cup {BlockOf(a)}
                 [] c = "confirm" -> lockBm \ {BlockOf(a)}
                 [] OTHER -> lockBm
  /\ Becomes("READY", IF c \in {"lock", "confirm"} THEN "READ_STATUS_REG" ELSE mode)
  /\ sr' = IF c \in {"lock", "confirm"} THEN sr ELSE sr \cup {"ERASE_ERROR"}
  /\ AdjustMapping
  /\ UNCHANGED <<flash, bufState, wanted>>

\* A locked block is left alone and the error recorded.
Program(a, new) ==
  /\ flash' = IF BlockIsLocked(a) THEN flash ELSE new
  /\ sr' = IF BlockIsLocked(a) THEN sr \cup {"LOCK_ERROR"} ELSE sr

\* What the operation on words S has to leave, by the lock bits.
Wanted(S, val(_)) ==
  [a \in Addrs |-> IF a \in S /\ ~BlockIsLocked(a) THEN val(a) ELSE wanted[a]]

WordProgram(c, a) ==
  /\ fstate = "WORD_PROGRAM"
  /\ Program(a, [flash EXCEPT ![a] = c])
  /\ wanted' = Wanted({a}, LAMBDA x : c)
  /\ Becomes("READY", "READ_STATUS_REG")
  /\ AdjustMapping
  /\ UNCHANGED <<lockBm, bufState>>

\* BUFFERED_PROGRAM_SETUP: the number of words, less one.
WriteCount(n) ==
  /\ fstate = "BUFFERED_PROGRAM_SETUP"
  /\ bufferLength' = IF n + 1 > BufferWords THEN BufferWords ELSE n + 1
  /\ Becomes("BUFFER_WRITE", "READ_STATUS_REG")
  /\ AdjustMapping
  /\ UNCHANGED <<flash, lockBm, sr, buffer, base, written, wanted>>

BufferFullPlusOne == written > bufferLength
BufferFull == written >= bufferLength

\* buffer_write: the first word gives the base (the driver starts at a multiple of
\* the buffer and goes on upwards).
BufferWrite(c, a) ==
  /\ fstate = "BUFFER_WRITE" /\ ~BufferFull
  /\ IF base = FlashSize THEN a % BufferWords = 0 ELSE a = base + written
  /\ base' = IF base = FlashSize THEN a ELSE base
  /\ buffer' = [buffer EXCEPT ![a - base'] = c]
  /\ written' = written + 1
  /\ Becomes("BUFFER_WRITE", mode)
  /\ AdjustMapping
  /\ UNCHANGED <<flash, lockBm, sr, bufferLength, wanted>>

\* buffer_confirm, or an error.
BufferEnd(c) ==
  /\ fstate = "BUFFER_WRITE" /\ BufferFull
  /\ LET S == base .. base + bufferLength - 1
         put == [a \in Addrs |-> IF a \in base .. base + written - 1
                                   THEN buffer[a - base] ELSE flash[a]]
     IN IF c = "confirm"
        THEN Program(base, put) /\ wanted' = Wanted(S, LAMBDA a : buffer[a - base])
        ELSE sr' = sr \cup {"PROGRAM_LOCK_BIT"} /\ UNCHANGED <<flash, wanted>>
  /\ Becomes("READY", IF c = "confirm" THEN "READ_STATUS_REG" ELSE mode)
  /\ AdjustMapping
  /\ UNCHANGED <<lockBm, bufState>>

\* block_erase_confirm fills a block's worth of bytes from the address it is given.
EraseBlock(c, a) ==
  /\ fstate = "ERASE_BLOCK_SETUP" /\ a % BlockWords = 0
  /\ LET S == a .. a + BlockWords - 1
     IN IF c = "confirm"
        THEN /\ Program(a, [x \in Addrs |-> IF x \in S THEN Erased ELSE flash[x]])
             /\ wanted' = Wanted(S, LAMBDA x : Erased)
        ELSE sr' = sr \cup {"ERASE_ERROR"} /\ UNCHANGED <<flash, wanted>>
  /\ Becomes("READY", "READ_STATUS_REG")
  /\ AdjustMapping
  /\ UNCHANGED <<lockBm, bufState>>

FlNext ==
  \/ \E c \in Commands : WriteReady(c) \/ BufferEnd(c)
  \/ \E c \in {"lock", "confirm", "array"}, a \in Addrs : WriteLock(c, a) \/ EraseBlock(c, a)
  \/ \E c \in FlashData, a \in Addrs : WordProgram(c, a) \/ BufferWrite(c, a)
  \/ \E n \in 0 .. BufferWords : WriteCount(n)

-----------------------------------------------------------------------------
(* Properties                                                              *)

\* The array holds what the confirmed operations made it, a locked block included,
\* although the confirming word may be data or a command (cfi_flash_write), and a
\* guest's load never sees the array through the slot when the read mode asks for
\* something else - unless KVM would not give the slot back (cfi_flash_mmio).
FlashTrue ==
  /\ flash = wanted
  /\ ~refused => \A a \in Addrs : GuestLoad(a) = FlashRead(a)
=================================================================================
