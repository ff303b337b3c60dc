---------------------------- MODULE RequestQueue ----------------------------
(***************************************************************************)
(* What a virtqueue promises to the driver: requests are taken in the      *)
(* order they were submitted, each one is answered at most once, answers   *)
(* come back in the order they were given, and no request appears that the *)
(* driver did not submit.  No rings, indices or notifications.             *)
(***************************************************************************)
EXTENDS Naturals, Sequences

CONSTANTS Requests, None

VARIABLES
  waiting,   \* submitted, not yet taken by the device
  serving,   \* the request the device works on
  answered,  \* answers the driver has not seen yet
  dropped    \* taken and never to be answered

vars == <<waiting, serving, answered, dropped>>

InSeq(r, s) == \E i \in DOMAIN s : s[i] = r

Outstanding(r) ==
  InSeq(r, waiting) \/ serving = r \/ InSeq(r, answered) \/ r \in dropped

Init ==
  /\ waiting = <<>>
  /\ serving = None
  /\ answered = <<>>
  /\ dropped = {}

Submit(r) ==
  /\ ~Outstanding(r)
  /\ waiting' = Append(waiting, r)
  /\ UNCHANGED <<serving, answered, dropped>>

Take ==
  /\ serving = None
  /\ waiting # <<>>
  /\ serving' = Head(waiting)
  /\ waiting' = Tail(waiting)
  /\ UNCHANGED <<answered, dropped>>

Answer ==
  /\ serving # None
  /\ answered' = Append(answered, serving)
  /\ serving' = None
  /\ UNCHANGED <<waiting, dropped>>

Drop ==
  /\ serving # None
  /\ dropped' = dropped \cup {serving}
  /\ serving' = None
  /\ UNCHANGED <<waiting, answered>>

Reap ==
  /\ answered # <<>>
  /\ answered' = Tail(answered)
  /\ UNCHANGED <<waiting, serving, dropped>>

Next ==
  \/ \E r \in Requests : Submit(r)
  \/ Take
  \/ Answer
  \/ Drop
  \/ Reap

Spec == Init /\ [][Next]_vars
=============================================================================
