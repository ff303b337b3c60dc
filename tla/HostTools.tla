------------------------------ MODULE HostTools ------------------------------
(***************************************************************************)
(* The helpers that no part owns: transfers (read-write.c, iovec.c) and    *)
(* CPU lists (bitmap.c, find.c).  Each works on the arguments of its       *)
(* caller, so that they share no state.                                    *)
(***************************************************************************)
EXTENDS IoRetry, CpuMask

\* A transfer moves the bytes it reports, whatever was cut short or interrupted,
\* and a list of CPUs becomes the mask it says.
UtilitiesTrue == TransferTrue /\ CpuMaskInv
=============================================================================
