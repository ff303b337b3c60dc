--------------------------------- MODULE IoRetry ---------------------------------
(***************************************************************************)
(* The "in full" transfers of util/read-write.c over a kernel that may     *)
(* transfer less than it is asked for, interrupt a call or fail, and the   *)
(* copies between a buffer and an iovec of util/iovec.c.                   *)
(*                                                                         *)
(* Bytes are named by where they come from: moved[d] is the index of the   *)
(* source byte that destination byte d holds.  A read moves file bytes to  *)
(* buffer bytes, a write moves buffer bytes to file bytes; the bytes of an *)
(* iovec are numbered through all of its elements.                         *)
(***************************************************************************)
EXTENDS Integers, Sequences, FiniteSets

CONSTANTS
  Iovecs,    \* bound: the iovecs, as sequences of lengths
  FileLen,   \* bound: bytes of the file
  FileRoom,  \* bound: bytes a written file can hold
  IoStart,   \* bound: the offset (or file position) a transfer starts at
  MaxErrs    \* bound: interruptions and failures

ASSUME IovecsAssumption == \A v \in Iovecs : v \in Seq(Nat)
ASSUME FileAssumption == FileLen \in Nat /\ FileRoom \in Nat /\ IoStart \in Nat

VARIABLES
  iop,       \* the function that was called
  iov,       \* the lengths of its iovec; a plain buffer is an iovec of one
  cur,       \* the element the iov pointer is at
  part,      \* bytes of that element already done (plain buffers: p)
  total,     \* total
  offset,    \* offset, or the position of the file
  moved,     \* the transfer
  ret,       \* what was returned: -2 for nothing yet
  errs,      \* interruptions and failures so far
  failed,    \* history: the kernel has failed or reported the end of the file
  torn       \* history: a transfer has ended in the middle of an element

ioVars == <<iop, iov, cur, part, total, offset, moved, ret, errs, failed, torn>>

ReadOps == {"read", "pread", "readv", "preadv", "read_file"}
WriteOps == {"write", "pwrite", "writev", "pwritev"}
PlainOps == {"read", "pread", "write", "pwrite", "read_file"}
StreamOps == {"read", "write", "readv", "writev", "read_file"}
CopyOps == {"toiovec", "toiovecend", "fromiovec", "fromiovec_safe", "fromiovecend"}

\* get_iov_size, of the first i elements.
SizeTo(i) ==
  LET size[j \in 0 .. Len(iov)] == IF j = 0 THEN 0 ELSE size[j - 1] + iov[j] IN size[i]
Asked == SizeTo(Len(iov))

\* The number of the byte that the cursor is at.
BufAt == SizeTo(cur - 1) + part
Remaining == Asked - BufAt

IoInit ==
  /\ iop \in ReadOps \cup WriteOps \cup CopyOps
  /\ iov \in Iovecs
  /\ iop \in PlainOps => Len(iov) = 1
  /\ cur = 1 /\ part = 0 /\ total = 0
  /\ offset = IF iop = "read_file" THEN 0 ELSE IoStart
  /\ moved = <<>> /\ ret = -2 /\ errs = 0
  /\ failed = FALSE /\ torn = FALSE

Returns(v) == ret' = v /\ UNCHANGED <<cur, part, total, offset, moved, torn>>

-----------------------------------------------------------------------------
(* The system calls                                                        *)

\* read, write and their variants restart after EAGAIN and EINTR.
RetriesEintrOnly(e) == e = "EINTR"
Retries(e) == e \in {"EAGAIN", "EINTR"}

\* What a function returns when a call of the kernel has failed: a read returns what
\* it has, when it has something.
OnError == IF iop \in ReadOps /\ total > 0 THEN total ELSE -1

IoError(e) ==
  /\ iop \notin CopyOps /\ ret = -2 /\ Remaining > 0
  /\ errs < MaxErrs /\ errs' = errs + 1
  /\ failed' = (failed \/ e = "EIO")
  /\ IF Retries(e) THEN UNCHANGED <<cur, part, total, offset, moved, ret, torn>>
                   ELSE Returns(OnError)
  /\ UNCHANGED <<iop, iov>>

\* The end of the file, or no space left (the errno of write_in_full).
IoZero ==
  /\ iop \notin CopyOps /\ ret = -2 /\ Remaining > 0
  /\ iop \in ReadOps => offset >= FileLen
  /\ failed' = TRUE
  /\ Returns(OnError)
  /\ UNCHANGED <<iop, iov, errs>>

\* The bytes a call moves: n of them, from the cursor and from the file's offset.
Transfer(n) ==
  LET new == [d \in {IF iop \in ReadOps THEN BufAt + k ELSE offset + k : k \in 0 .. n - 1}
                |-> IF iop \in ReadOps THEN d - BufAt + offset ELSE d - offset + BufAt]
  IN [d \in DOMAIN moved \cup DOMAIN new |->
        IF d \in DOMAIN new THEN new[d] ELSE moved[d]]

\* shift_iovec: the elements that n bytes cover go; what is left of n is forgotten.
Covered(n) ==
  CHOOSE i \in cur .. Len(iov) + 1 :
    /\ SizeTo(i - 1) - SizeTo(cur - 1) <= n
    /\ i <= Len(iov) => SizeTo(i) - SizeTo(cur - 1) > n

\* The whole elements advance a positioned transfer; a stream's position has moved
\* by what the kernel transferred.
OffsetByCall(n, whole) == offset + n
OffsetAfter(n, whole) ==
  IF iop \in PlainOps \/ iop \in StreamOps THEN offset + n ELSE offset + whole

IoCall(n) ==
  /\ iop \notin CopyOps /\ ret = -2 /\ n \in 1 .. Remaining
  /\ offset + n <= IF iop \in ReadOps THEN FileLen ELSE FileRoom
  /\ moved' = Transfer(n)
  /\ IF iop \in PlainOps
     THEN part' = part + n /\ total' = total + n /\ UNCHANGED <<cur, torn>>
          /\ offset' = OffsetAfter(n, n)
     ELSE LET whole == SizeTo(Covered(n) - 1) - SizeTo(cur - 1)
          IN /\ cur' = Covered(n) /\ total' = total + whole
             /\ torn' = (torn \/ whole # n)
             /\ offset' = OffsetAfter(n, whole)
             /\ UNCHANGED part
  /\ UNCHANGED <<iop, iov, ret, errs, failed>>

\* The loop ends: everything was transferred.  read_file then probes for more.
IoDone ==
  /\ iop \notin CopyOps \cup {"read_file"} /\ ret = -2 /\ Remaining = 0
  /\ Returns(total)
  /\ UNCHANGED <<iop, iov, errs, failed>>

FileProbe ==
  /\ iop = "read_file" /\ ret = -2 /\ Remaining = 0
  /\ Returns(IF offset = FileLen THEN total ELSE -1)
  /\ UNCHANGED <<iop, iov, errs, failed>>

-----------------------------------------------------------------------------
(* The copies                                                              *)

Least(a, b) == IF a < b THEN a ELSE b

\* One turn of the loops of memcpy_toiovecend and memcpy_fromiovecend, at element i:
\* skip the offset, then copy up to the end of the element.  c.out lists the bytes
\* touched, in order.
FirstBytes(i, off, n) == [k \in 1 .. n |-> SizeTo(i - 1) + off + k - 1]
Skip(off, i) == off >= iov[i]

CopyTurn(c, i) ==
  LET n == Least(iov[i] - c.off, c.len) IN
  IF c.len = 0 THEN c
  ELSE IF Skip(c.off, i) THEN [c EXCEPT !.off = @ - iov[i]]
  ELSE [off |-> 0, len |-> c.len - n, out |-> c.out \o FirstBytes(i, c.off, n)]

CopyEnd(off, len) ==
  LET go[i \in 0 .. Len(iov)] == IF i = 0 THEN [off |-> off, len |-> len, out |-> <<>>]
                                 ELSE CopyTurn(go[i - 1], i)
  IN go[Len(iov)].out

\* memcpy_toiovec, memcpy_fromiovec and memcpy_fromiovec_safe copy from the start.
\* The last stops at the end of the iovec and returns what is left.
Touched(off, len) ==
  IF iop \in {"toiovecend", "fromiovecend"} THEN CopyEnd(off, len) ELSE CopyEnd(0, len)

CopyIovec(off, len) ==
  /\ iop \in CopyOps /\ ret = -2
  /\ len > 0
  /\ iop # "fromiovec_safe" => off + len <= Asked
  /\ iop \notin {"toiovecend", "fromiovecend"} => off = 0
  /\ offset' = off /\ total' = len
  /\ moved' = Touched(off, len)
  /\ ret' = IF iop = "fromiovec_safe" THEN len - Len(moved') ELSE 0
  /\ UNCHANGED <<iop, iov, cur, part, errs, failed, torn>>

IoNext ==
  \/ \E e \in {"EAGAIN", "EINTR", "EIO"} : IoError(e)
  \/ IoZero
  \/ \E n \in 1 .. Asked : IoCall(n)
  \/ IoDone \/ FileProbe
  \/ \E off \in 0 .. Asked, len \in 0 .. Asked + 1 : CopyIovec(off, len)

IoSpec == IoInit /\ [][IoNext]_ioVars

-----------------------------------------------------------------------------
(* Properties                                                              *)

\* What the transfers promise, however the kernel splits and interrupts them.  The
\* bytes a positive result counts are in place; less than was asked for, or an
\* error, is returned only after the kernel failed or the file ended; read_file
\* returns a size only for a whole file.  A stream is exempt once a call ended in
\* the middle of an element: shift_iovec forgets that part, which a positioned
\* transfer makes good by doing it again.  The copies touch the bytes of their
\* range and no others.
TransferTrue ==
  /\ iop \notin CopyOps /\ ret # -2 =>
       /\ (iop \in StreamOps => ~torn) =>
            \A k \in 0 .. ret - 1 :
              IF iop \in ReadOps
              THEN k \in DOMAIN moved /\ moved[k] = (IF iop = "read_file" THEN 0 ELSE IoStart) + k
              ELSE IoStart + k \in DOMAIN moved /\ moved[IoStart + k] = k
       /\ ret < Asked /\ iop # "read_file" => failed
       /\ iop = "read_file" /\ ret > 0 /\ ~failed => ret = FileLen
  /\ iop \in CopyOps /\ ret # -2 =>
       /\ moved = [k \in 1 .. Least(total, Asked) |-> offset + k - 1]
       /\ ret = total - Len(moved) \/ (ret = 0 /\ iop # "fromiovec_safe")
=================================================================================
