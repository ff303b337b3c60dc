--------------------------- MODULE VirtQueueProofs ---------------------------
(***************************************************************************)
(* Proofs about a virtqueue for every ring size and every index modulus    *)
(* that is a multiple of it: the rings implement RequestQueue, no kick is  *)
(* lost, and no interrupt is lost as long as the device signals before the *)
(* indices have gone round once.                                           *)
(***************************************************************************)
EXTENDS VirtQueue, Integers, FiniteSetTheorems, TLAPS

-----------------------------------------------------------------------------
(* Remainders                                                              *)

\* Quotient and remainder of a division, and that they are the only ones.
LEMMA Euclid ==
  ASSUME NEW n \in Nat \ {0}, NEW x \in Nat
  PROVE  /\ x % n \in 0 .. n - 1
         /\ x \div n \in Nat
         /\ x = (n * (x \div n)) + (x % n)
OBVIOUS

\* Two remainders of the same number are the same.
LEMMA RemainderUnique ==
  ASSUME NEW n \in Nat \ {0}, NEW q \in Int, NEW p \in Int,
         NEW r \in 0 .. n - 1, NEW s \in 0 .. n - 1,
         n * q + r = n * p + s
  PROVE  r = s
<1>1. q = p
  OBVIOUS
<1> QED BY <1>1

\* A number written as a multiple and a rest has that rest as its remainder.
LEMMA RemainderIs ==
  ASSUME NEW n \in Nat \ {0}, NEW x \in Nat, NEW q \in Int, NEW r \in 0 .. n - 1,
         x = n * q + r
  PROVE  x % n = r
<1> DEFINE p == x \div n
           s == x % n
<1>1. x = n * p + s /\ s \in 0 .. n - 1 /\ p \in Nat
  BY Euclid
<1> HIDE DEF p, s
<1>2. n * p + s = n * q + r /\ p \in Int
  BY <1>1
<1>3. s = r
  BY ONLY <1>1, <1>2, n \in Nat \ {0}, q \in Int, r \in 0 .. n - 1, RemainderUnique
<1> QED BY <1>3 DEF s

\* Going round the ring a whole number of times comes back to the same slot.
LEMMA RemainderAround ==
  ASSUME NEW n \in Nat \ {0}, NEW x \in Nat, NEW k \in Nat
  PROVE  (x + n * k) % n = x % n
<1> DEFINE q == x \div n
           r == x % n
<1>1. x = n * q + r /\ r \in 0 .. n - 1 /\ q \in Nat
  BY Euclid
<1> HIDE DEF q, r
<1>2. x + n * k \in Nat /\ q + k \in Int
  BY <1>1
<1>3. x + n * k = n * (q + k) + r
  BY <1>1
<1>4. (x + n * k) % n = r
  BY <1>1, <1>2, <1>3, RemainderIs
<1> QED BY <1>4 DEF r

\* Fewer than n numbers in a row have different remainders.
LEMMA RemaindersDiffer ==
  ASSUME NEW n \in Nat \ {0}, NEW x \in Nat, NEW y \in Nat, x < y, y < x + n
  PROVE  x % n # y % n
<1> SUFFICES ASSUME x % n = y % n
             PROVE  FALSE
  OBVIOUS
<1> DEFINE q == x \div n
           p == y \div n
           r == x % n
<1>1. x = n * q + r /\ y = n * p + r /\ r \in 0 .. n - 1 /\ q \in Nat /\ p \in Nat
  BY Euclid
<1> HIDE DEF q, p, r
<1>2. n * (p - q) > 0 /\ n * (p - q) < n /\ p - q \in Int
  BY <1>1
<1>3. p - q >= 1 => n * (p - q) >= n
  BY <1>2
<1>4. p - q <= 0 => n * (p - q) <= 0
  BY <1>2
<1> QED BY <1>2, <1>3, <1>4

-----------------------------------------------------------------------------
(* Ring indices                                                            *)

\* The ring size divides the range of the free-running 16-bit indices.
LEMMA Sizes ==
  /\ Num \in Nat \ {0}
  /\ IdxMod \in Nat \ {0}
  /\ IdxMod > Num
  /\ \E k \in Nat : IdxMod = Num * k
<1>1. Num \in Nat \ {0} /\ IdxMod \in Nat \ {0} /\ IdxMod > Num
  BY QueueAssumption
<1>2. IdxMod = Num * (IdxMod \div Num) /\ IdxMod \div Num \in Nat
  BY <1>1, Euclid, QueueAssumption
<1> QED BY <1>1, <1>2

\* The u16 arithmetic without remainders.
LEMMA PlusIs ==
  ASSUME NEW i \in Idx
  PROVE  /\ Plus(i, 1) \in Idx
         /\ Plus(i, 1) = IF i + 1 = IdxMod THEN 0 ELSE i + 1
<1>1. IdxMod \in Nat \ {0} /\ IdxMod > 1 /\ i \in Nat /\ i < IdxMod
  BY Sizes DEF Idx
<1>2. CASE i + 1 = IdxMod
  <2>1. (i + 1) % IdxMod = 0
    BY <1>1, <1>2, RemainderIs
  <2> QED BY <2>1, <1>1, <1>2 DEF Plus, Idx
<1>3. CASE i + 1 # IdxMod
  <2>1. (i + 1) % IdxMod = i + 1
    BY <1>1, <1>3, RemainderIs
  <2> QED BY <2>1, <1>1, <1>3 DEF Plus, Idx
<1> QED BY <1>2, <1>3

\* The distance of two indices, with the wrap-around spelled out.
LEMMA DistanceIs ==
  ASSUME NEW a \in Idx, NEW b \in Idx
  PROVE  /\ Distance(a, b) \in Idx
         /\ Distance(a, b) = IF a >= b THEN a - b ELSE a + IdxMod - b
<1>1. IdxMod \in Nat \ {0} /\ a \in Nat /\ b \in Nat /\ a < IdxMod /\ b < IdxMod
  BY Sizes DEF Idx
<1>2. CASE a >= b
  <2>1. a + IdxMod - b \in Nat /\ a - b \in 0 .. IdxMod - 1
    BY <1>1, <1>2
  <2>2. a + IdxMod - b = IdxMod * 1 + (a - b)
    BY <1>1
  <2>3. (a + IdxMod - b) % IdxMod = a - b
    BY <1>1, <2>1, <2>2, RemainderIs
  <2> QED BY <2>1, <2>3, <1>1, <1>2 DEF Distance, Idx
<1>3. CASE a < b
  <2>1. a + IdxMod - b \in Nat /\ a + IdxMod - b \in 0 .. IdxMod - 1
    BY <1>1, <1>3
  <2>2. a + IdxMod - b = IdxMod * 0 + (a + IdxMod - b)
    BY <1>1
  <2>3. (a + IdxMod - b) % IdxMod = a + IdxMod - b
    BY <1>1, <2>1, <2>2, RemainderIs
  <2> QED BY <2>1, <2>3, <1>1, <1>3 DEF Distance, Idx
<1> QED BY <1>1, <1>2, <1>3

\* A distance is a natural number.
LEMMA DistanceNat ==
  ASSUME NEW a \in Idx, NEW b \in Idx
  PROVE  Distance(a, b) \in Nat
BY DistanceIs, Sizes DEF Idx

\* What one step of either index does to the distance between two of them.
LEMMA DistanceSteps ==
  ASSUME NEW a \in Idx, NEW b \in Idx
  PROVE  /\ Distance(a, b) = 0 <=> a = b
         /\ Distance(a, b) + 1 < IdxMod => Distance(Plus(a, 1), b) = Distance(a, b) + 1
         /\ a # b => Distance(a, Plus(b, 1)) = Distance(a, b) - 1
         /\ Distance(a, a) = 0
<1>1. IdxMod \in Nat \ {0} /\ a \in Nat /\ b \in Nat /\ a < IdxMod /\ b < IdxMod
  BY Sizes DEF Idx
<1>2. /\ Plus(a, 1) \in Idx
      /\ Plus(b, 1) \in Idx
      /\ Plus(a, 1) = IF a + 1 = IdxMod THEN 0 ELSE a + 1
      /\ Plus(b, 1) = IF b + 1 = IdxMod THEN 0 ELSE b + 1
  BY PlusIs
<1>3. Distance(a, b) = IF a >= b THEN a - b ELSE a + IdxMod - b
  BY DistanceIs
<1>4. Distance(a, a) = 0
  BY <1>1, DistanceIs
<1>5. Distance(Plus(a, 1), b) = IF Plus(a, 1) >= b THEN Plus(a, 1) - b ELSE Plus(a, 1) + IdxMod - b
  BY <1>2, DistanceIs
<1>6. Distance(a, Plus(b, 1)) = IF a >= Plus(b, 1) THEN a - Plus(b, 1) ELSE a + IdxMod - Plus(b, 1)
  BY <1>2, DistanceIs
<1> QED BY <1>1, <1>2, <1>3, <1>4, <1>5, <1>6

\* Distances add up as long as they do not go round.
LEMMA DistanceSum ==
  ASSUME NEW a \in Idx, NEW b \in Idx, NEW c \in Idx,
         Distance(a, b) + Distance(b, c) < IdxMod
  PROVE  Distance(a, c) = Distance(a, b) + Distance(b, c)
<1>1. IdxMod \in Nat \ {0} /\ a \in 0 .. IdxMod - 1 /\ b \in 0 .. IdxMod - 1 /\ c \in 0 .. IdxMod - 1
  BY Sizes DEF Idx
<1>2. /\ Distance(a, b) = IF a >= b THEN a - b ELSE a + IdxMod - b
      /\ Distance(b, c) = IF b >= c THEN b - c ELSE b + IdxMod - c
      /\ Distance(a, c) = IF a >= c THEN a - c ELSE a + IdxMod - c
  BY DistanceIs
<1> QED BY <1>1, <1>2

\* The slot of an index n entries further on, counted from either index.
LEMMA SlotFacts ==
  ASSUME NEW i \in Idx, NEW n \in Nat
  PROVE  /\ (i + n) % Num \in Heads
         /\ i % Num \in Heads
         /\ (Plus(i, 1) + n) % Num = (i + 1 + n) % Num
<1>1. Num \in Nat \ {0} /\ IdxMod \in Nat \ {0} /\ i \in Nat
  BY Sizes DEF Idx
<1>2. (i + n) % Num \in Heads /\ i % Num \in Heads
  BY <1>1, Euclid DEF Heads
<1>3. CASE i + 1 = IdxMod
  <2>1. Plus(i, 1) = 0
    BY <1>3, PlusIs
  <2>2. PICK k \in Nat : IdxMod = Num * k
    BY Sizes
  <2>3. (n + Num * k) % Num = n % Num
    BY <1>1, RemainderAround
  <2>4. i + 1 + n = n + Num * k /\ Plus(i, 1) + n = n
    BY <1>1, <1>3, <2>1, <2>2
  <2> QED BY <1>2, <2>3, <2>4
<1>4. CASE i + 1 # IdxMod
  <2>1. Plus(i, 1) = i + 1
    BY <1>4, PlusIs
  <2> QED BY <1>2, <2>1
<1> QED BY <1>3, <1>4

\* An index has the ring slot of any other index plus their distance.
LEMMA SlotOfSum ==
  ASSUME NEW a \in Idx, NEW b \in Idx
  PROVE  a % Num = (b + Distance(a, b)) % Num
<1>1. Num \in Nat \ {0} /\ IdxMod \in Nat \ {0} /\ a \in Nat /\ b \in Nat
  BY Sizes DEF Idx
<1>2. Distance(a, b) = IF a >= b THEN a - b ELSE a + IdxMod - b
  BY DistanceIs
<1>3. CASE a >= b
  <2>1. b + Distance(a, b) = a
    BY <1>1, <1>2, <1>3
  <2> QED BY <2>1
<1>4. CASE a < b
  <2>1. PICK k \in Nat : IdxMod = Num * k
    BY Sizes
  <2>2. b + Distance(a, b) = a + Num * k
    BY <1>1, <1>2, <1>4, <2>1
  <2>3. (a + Num * k) % Num = a % Num
    BY <1>1, RemainderAround
  <2> QED BY <2>2, <2>3
<1> QED BY <1>1, <1>3, <1>4

-----------------------------------------------------------------------------
(* The part of a ring between two indices                                  *)

\* The length and the elements of the part of a ring between two indices.
LEMMA WindowIs ==
  ASSUME NEW r \in [Heads -> Heads], NEW from \in Idx, NEW to \in Idx
  PROVE  /\ Window(r, from, to) \in Seq(Heads)
         /\ Len(Window(r, from, to)) = Distance(to, from)
         /\ \A i \in 1 .. Distance(to, from) :
              /\ Window(r, from, to)[i] = r[(from + (i - 1)) % Num]
              /\ (from + (i - 1)) % Num \in Heads
<1> DEFINE d == Distance(to, from)
<1>1. d \in Nat /\ from \in Nat
  BY DistanceIs, Sizes DEF Idx
<1>2. \A i \in 1 .. d : (from + (i - 1)) % Num \in Heads
  <2> SUFFICES ASSUME NEW i \in 1 .. d
               PROVE  (from + (i - 1)) % Num \in Heads
    OBVIOUS
  <2>1. i - 1 \in Nat
    BY <1>1
  <2> QED BY <2>1, SlotFacts
<1> HIDE DEF d
<1>3. \A i \in 1 .. d : from + i - 1 = from + (i - 1)
  BY <1>1
<1>4. Window(r, from, to) = [i \in 1 .. d |-> r[(from + (i - 1)) % Num]]
  BY <1>3 DEF Window, d
<1>5. [i \in 1 .. d |-> r[(from + (i - 1)) % Num]] \in [1 .. d -> Heads]
  BY <1>2
<1> QED BY <1>1, <1>2, <1>4, <1>5 DEF d

\* Two sequences of the same length with the same elements are the same.
LEMMA SeqEqual ==
  ASSUME NEW S, NEW s \in Seq(S), NEW t \in Seq(S), Len(s) = Len(t),
         \A i \in 1 .. Len(s) : s[i] = t[i]
  PROVE  s = t
OBVIOUS

\* While there is room, the slot at the end is none of the window's.
LEMMA SlotAtEnd ==
  ASSUME NEW from \in Idx, NEW to \in Idx, Distance(to, from) < Num,
         NEW i \in 1 .. Distance(to, from)
  PROVE  (from + (i - 1)) % Num # to % Num
<1>1. Distance(to, from) \in Nat /\ from \in Nat /\ Num \in Nat \ {0}
  BY DistanceIs, Sizes DEF Idx
<1>2. to % Num = (from + Distance(to, from)) % Num
  BY SlotOfSum
<1>3. /\ from + (i - 1) \in Nat
      /\ from + Distance(to, from) \in Nat
      /\ from + (i - 1) < from + Distance(to, from)
      /\ from + Distance(to, from) < (from + (i - 1)) + Num
  BY <1>1
<1> QED BY <1>1, <1>2, <1>3, RemaindersDiffer

\* Moving the end of a window that has room appends the entry it passes.
LEMMA WindowGrows ==
  ASSUME NEW r \in [Heads -> Heads], NEW from \in Idx, NEW to \in Idx,
         Distance(to, from) < Num
  PROVE  Window(r, from, Plus(to, 1)) = Append(Window(r, from, to), r[to % Num])
<1> DEFINE d == Distance(to, from)
           w == Window(r, from, to)
           v == Window(r, from, Plus(to, 1))
           e == r[to % Num]
<1>1. d \in Nat /\ Plus(to, 1) \in Idx /\ Distance(Plus(to, 1), from) = d + 1
  <2>1. d \in 0 .. IdxMod - 1 /\ d < Num
    BY DistanceIs DEF Idx
  <2>2. d \in Nat /\ d + 1 < IdxMod
    BY ONLY <2>1, Sizes
  <2> QED BY <2>2, DistanceSteps, PlusIs
<1>2. e \in Heads /\ e = r[(from + ((d + 1) - 1)) % Num]
  <2>1. to % Num \in Heads
    BY SlotFacts
  <2>2. to % Num = (from + d) % Num
    BY SlotOfSum
  <2>3. (d + 1) - 1 = d
    BY <1>1
  <2> QED BY <2>1, <2>2, <2>3
<1>3. /\ w \in Seq(Heads) /\ Len(w) = d
      /\ \A i \in 1 .. d : w[i] = r[(from + (i - 1)) % Num]
  BY WindowIs
<1>4. /\ v \in Seq(Heads) /\ Len(v) = d + 1
      /\ \A i \in 1 .. d + 1 : v[i] = r[(from + (i - 1)) % Num]
  BY <1>1, WindowIs
<1> HIDE DEF d, w, v, e
<1>5. v[d + 1] = e /\ \A i \in 1 .. d : v[i] = w[i]
  <2>1. d + 1 \in 1 .. d + 1 /\ \A i \in 1 .. d : i \in 1 .. d + 1
    BY <1>1
  <2>2. v[d + 1] = e
    BY ONLY <1>2, <1>4, <2>1, Zenon
  <2>3. \A i \in 1 .. d : v[i] = w[i]
    BY ONLY <1>3, <1>4, <2>1, Zenon
  <2> QED BY <2>2, <2>3
<1>6. /\ Append(w, e) \in Seq(Heads) /\ Len(Append(w, e)) = d + 1
      /\ Append(w, e)[d + 1] = e
      /\ \A i \in 1 .. d : Append(w, e)[i] = w[i]
  BY <1>1, <1>2, <1>3
<1>7. \A i \in 1 .. d + 1 : v[i] = Append(w, e)[i]
  BY <1>1, <1>5, <1>6
<1>8. v = Append(w, e)
  BY <1>4, <1>6, <1>7, SeqEqual
<1> QED BY <1>8 DEF v, w, e

\* Writing the slot at the end of a window that has room leaves it alone.
LEMMA WindowKept ==
  ASSUME NEW r \in [Heads -> Heads], NEW q \in [Heads -> Heads],
         NEW from \in Idx, NEW to \in Idx, Distance(to, from) < Num,
         \A k \in Heads : k # to % Num => q[k] = r[k]
  PROVE  Window(q, from, to) = Window(r, from, to)
<1> DEFINE d == Distance(to, from)
           slot(i) == (from + (i - 1)) % Num
<1>1. /\ Window(r, from, to) \in Seq(Heads) /\ Len(Window(r, from, to)) = d
      /\ \A i \in 1 .. d : Window(r, from, to)[i] = r[slot(i)] /\ slot(i) \in Heads
  BY WindowIs
<1>2. /\ Window(q, from, to) \in Seq(Heads) /\ Len(Window(q, from, to)) = d
      /\ \A i \in 1 .. d : Window(q, from, to)[i] = q[slot(i)]
  BY WindowIs
<1>3. \A i \in 1 .. d : slot(i) # to % Num
  BY SlotAtEnd
<1> HIDE DEF d, slot
<1>4. \A i \in 1 .. d : Window(q, from, to)[i] = Window(r, from, to)[i]
  BY <1>1, <1>2, <1>3
<1> QED BY <1>1, <1>2, <1>4, SeqEqual

\* Moving the start of a window drops its first entry.
LEMMA WindowShrinks ==
  ASSUME NEW r \in [Heads -> Heads], NEW from \in Idx, NEW to \in Idx, from # to
  PROVE  /\ Window(r, from, to) # <<>>
         /\ Head(Window(r, from, to)) = r[from % Num]
         /\ Window(r, Plus(from, 1), to) = Tail(Window(r, from, to))
<1> DEFINE d == Distance(to, from)
           w == Window(r, from, to)
           v == Window(r, Plus(from, 1), to)
<1>1. /\ d \in Nat /\ d > 0 /\ from \in Nat
      /\ Plus(from, 1) \in Idx
      /\ Distance(to, Plus(from, 1)) = d - 1
  BY DistanceIs, DistanceSteps, PlusIs, Sizes DEF Idx
<1>2. /\ w \in Seq(Heads) /\ Len(w) = d
      /\ \A i \in 1 .. d : w[i] = r[(from + (i - 1)) % Num]
  BY WindowIs
<1>3. /\ v \in Seq(Heads) /\ Len(v) = d - 1
      /\ \A i \in 1 .. d - 1 : v[i] = r[(Plus(from, 1) + (i - 1)) % Num]
  BY <1>1, WindowIs
<1>4. ASSUME NEW i \in 1 .. d - 1
      PROVE  v[i] = w[i + 1]
  <2>1. i - 1 \in Nat /\ i + 1 \in 1 .. d
    BY <1>1
  <2>2. (Plus(from, 1) + (i - 1)) % Num = (from + 1 + (i - 1)) % Num
    BY <2>1, SlotFacts
  <2>3. from + 1 + (i - 1) = from + ((i + 1) - 1)
    BY <1>1
  <2>4. w[i + 1] = r[(from + ((i + 1) - 1)) % Num]
    BY <1>2, <2>1
  <2>5. v[i] = r[(Plus(from, 1) + (i - 1)) % Num]
    BY <1>3
  <2> QED BY <2>2, <2>3, <2>4, <2>5
<1>5. w[1] = r[from % Num]
  <2>1. from + (1 - 1) = from /\ 1 \in 1 .. d
    BY <1>1
  <2>2. w[1] = r[(from + (1 - 1)) % Num]
    BY <1>2, <2>1
  <2> QED BY <2>1, <2>2
<1> HIDE DEF d, w, v
<1>6. w # <<>> /\ Head(w) = w[1]
  BY <1>1, <1>2
<1>7. /\ Tail(w) \in Seq(Heads) /\ Len(Tail(w)) = d - 1
      /\ \A i \in 1 .. d - 1 : Tail(w)[i] = w[i + 1]
  BY <1>1, <1>2
<1>8. v = Tail(w)
  <2>1. \A i \in 1 .. d - 1 : v[i] = Tail(w)[i]
    BY <1>4, <1>7
  <2> QED BY <1>3, <1>7, <2>1, SeqEqual
<1> QED BY <1>5, <1>6, <1>8 DEF v, w

-----------------------------------------------------------------------------
(* The inductive invariant                                                 *)

Holds(s, h) == \E i \in 1 .. Len(s) : s[i] = h
Distinct(s) == \A i, k \in 1 .. Len(s) : s[i] = s[k] => i = k

\* A descriptor head is in at most one place, and at most once.
Apart(f, w, b, a, l) ==
  /\ Distinct(w) /\ Distinct(a)
  /\ \A h \in Heads :
       /\ h \in f => ~Holds(w, h) /\ b # h /\ ~Holds(a, h) /\ h \notin l
       /\ Holds(w, h) => b # h /\ ~Holds(a, h) /\ h \notin l
       /\ b = h => ~Holds(a, h) /\ h \notin l
       /\ Holds(a, h) => h \notin l

\* No head has disappeared, so neither ring can be overrun.
Busy(b) == IF b = None THEN 0 ELSE 1
Counted ==
  Cardinality(free) + Cardinality(lost) + Len(Waiting) + Len(Answered) + Busy(head) = Num

\* What the I/O thread holds, and that the used element is filled in before
\* the index moves.
HeldRequest ==
  /\ head # None <=> dpc \in {"serve", "advance"}
  /\ dpc = "advance" => usedRing[usedIdx % Num] = head

RingInv ==
  /\ TypeOK
  /\ Apart(free, Waiting, head, Answered, lost)
  /\ Counted
  /\ HeldRequest

\* A sleeping I/O thread has armed the event index, and every request it has
\* not seen belongs to the batch the driver has yet to consider.
KickInv ==
  /\ useEvent /\ dpc \in {"look", "sleep"} => availEvent = lastAvail
  /\ dpc = "sleep" /\ ~kick => Distance(availIdx, lastAvail) <= added

\* used_event is where the handler stopped; an idle handler with answers ahead of
\* it and no interrupt has all of them after the last signal.
IrqInv ==
  /\ gpc \in {"idle", "recheck"} => ~noIrq /\ usedEvent = lastUsed
  /\ gpc = "idle" /\ ~irq /\ lastUsed # usedIdx =>
       /\ dpc = "signal"
       /\ useEvent => Distance(usedIdx, lastUsed) <= Distance(usedIdx, signalled)

\* signalled, usedIdx and availIdx are in this order and less than a round apart;
\* between usedIdx and availIdx are the requests the device has and those it dropped.
LagInv ==
  useEvent =>
    /\ Distance(availIdx, usedIdx) = Len(Waiting) + Busy(head) + Cardinality(lost)
    /\ Distance(availIdx, signalled) =
         Distance(availIdx, usedIdx) + Distance(usedIdx, signalled)
    /\ Distance(availIdx, signalled) <= MaxLag

-----------------------------------------------------------------------------
(* Moving a head from one place to the next                                *)

\* What a list one longer holds.
LEMMA AppendHolds ==
  ASSUME NEW s \in Seq(Heads), NEW h \in Heads
  PROVE  /\ Append(s, h) \in Seq(Heads)
         /\ Len(Append(s, h)) = Len(s) + 1
         /\ \A k : Holds(Append(s, h), k) <=> Holds(s, k) \/ k = h
         /\ Distinct(s) /\ ~Holds(s, h) => Distinct(Append(s, h))
<1> DEFINE a == Append(s, h)
<1>1. /\ a \in Seq(Heads)
      /\ Len(a) = Len(s) + 1
      /\ \A i \in 1 .. Len(s) : a[i] = s[i]
      /\ a[Len(s) + 1] = h
      /\ Len(s) \in Nat
  OBVIOUS
<1> HIDE DEF a
<1>2. \A k : Holds(a, k) <=> Holds(s, k) \/ k = h
  BY <1>1 DEF Holds
<1>3. Distinct(s) /\ ~Holds(s, h) => Distinct(a)
  BY <1>1 DEF Holds, Distinct
<1> QED BY <1>1, <1>2, <1>3 DEF a

\* What a list of distinct heads without its first one holds.
LEMMA TailHolds ==
  ASSUME NEW s \in Seq(Heads), s # <<>>, Distinct(s)
  PROVE  /\ Head(s) \in Heads
         /\ Tail(s) \in Seq(Heads)
         /\ Len(Tail(s)) = Len(s) - 1
         /\ Holds(s, Head(s))
         /\ \A k : Holds(Tail(s), k) <=> Holds(s, k) /\ k # Head(s)
         /\ Distinct(Tail(s))
<1> DEFINE t == Tail(s)
           e == Head(s)
<1>1. /\ Len(s) \in Nat /\ Len(s) >= 1
      /\ e = s[1] /\ e \in Heads
      /\ t \in Seq(Heads)
      /\ Len(t) = Len(s) - 1
      /\ \A i \in 1 .. Len(s) - 1 : t[i] = s[i + 1]
  OBVIOUS
<1> HIDE DEF t, e
<1>2. Holds(s, e)
  BY <1>1 DEF Holds
<1>3. ASSUME NEW k, Holds(t, k)
      PROVE  Holds(s, k) /\ k # e
  <2>1. PICK i \in 1 .. Len(t) : t[i] = k
    BY <1>3 DEF Holds
  <2>2. i + 1 \in 1 .. Len(s) /\ s[i + 1] = k /\ i + 1 # 1 /\ 1 \in 1 .. Len(s)
    BY <1>1, <2>1
  <2> QED BY <1>1, <2>2 DEF Holds, Distinct
<1>4. ASSUME NEW k, Holds(s, k), k # e
      PROVE  Holds(t, k)
  <2>1. PICK i \in 1 .. Len(s) : s[i] = k
    BY <1>4 DEF Holds
  <2>2. i # 1
    BY <1>1, <1>4, <2>1
  <2>3. i - 1 \in 1 .. Len(t) /\ t[i - 1] = s[i]
    BY <1>1, <2>1, <2>2
  <2> QED BY <2>1, <2>3 DEF Holds
<1>5. Distinct(t)
  BY <1>1 DEF Distinct
<1> QED BY <1>1, <1>2, <1>3, <1>4, <1>5 DEF t, e

\* A head that moves from one place to the next leaves every head in one
\* place.
LEMMA ApartMoves ==
  ASSUME NEW f \in SUBSET Heads, NEW l \in SUBSET Heads,
         NEW w \in Seq(Heads), NEW a \in Seq(Heads), NEW b \in Heads \cup {None},
         Apart(f, w, b, a, l)
  PROVE  /\ \A h \in f : Apart(f \ {h}, Append(w, h), b, a, l)
         /\ b = None /\ w # <<>> => Apart(f, Tail(w), Head(w), a, l)
         /\ b # None => Apart(f, w, None, a, l \cup {b})
         /\ b # None => Apart(f, w, None, Append(a, b), l)
         /\ a # <<>> => Apart(f \cup {Head(a)}, w, b, Tail(a), l)
         /\ a # <<>> => Head(a) \in Heads \ f
         /\ b # None => b \in Heads \ l
<1>0. None \notin Heads
  BY QueueAssumption DEF Heads
<1>1. ASSUME NEW h \in f
      PROVE  Apart(f \ {h}, Append(w, h), b, a, l)
  <2>1. h \in Heads /\ ~Holds(w, h)
    BY DEF Apart
  <2>2. /\ \A k : Holds(Append(w, h), k) <=> Holds(w, k) \/ k = h
        /\ Distinct(Append(w, h))
    BY <2>1, AppendHolds DEF Apart
  <2> QED BY <2>1, <2>2 DEF Apart
<1>2. ASSUME b = None, w # <<>>
      PROVE  Apart(f, Tail(w), Head(w), a, l)
  <2>1. /\ Head(w) \in Heads
        /\ Holds(w, Head(w))
        /\ \A k : Holds(Tail(w), k) <=> Holds(w, k) /\ k # Head(w)
        /\ Distinct(Tail(w))
    BY <1>2, TailHolds DEF Apart
  <2> QED BY <2>1 DEF Apart
<1>3. ASSUME b # None
      PROVE  Apart(f, w, None, a, l \cup {b}) /\ b \in Heads \ l
  BY <1>0, <1>3 DEF Apart
<1>4. ASSUME b # None
      PROVE  Apart(f, w, None, Append(a, b), l)
  <2>1. b \in Heads /\ ~Holds(a, b)
    BY <1>4 DEF Apart
  <2>2. /\ \A k : Holds(Append(a, b), k) <=> Holds(a, k) \/ k = b
        /\ Distinct(Append(a, b))
    BY <2>1, AppendHolds DEF Apart
  <2> QED BY <1>0, <2>1, <2>2 DEF Apart
<1>5. ASSUME a # <<>>
      PROVE  Apart(f \cup {Head(a)}, w, b, Tail(a), l) /\ Head(a) \in Heads \ f
  <2>1. /\ Head(a) \in Heads
        /\ Holds(a, Head(a))
        /\ \A k : Holds(Tail(a), k) <=> Holds(a, k) /\ k # Head(a)
        /\ Distinct(Tail(a))
    BY <1>5, TailHolds DEF Apart
  <2> QED BY <2>1 DEF Apart
<1> QED BY <1>1, <1>2, <1>3, <1>4, <1>5

\* The cardinalities Counted adds up.
LEMMA HeadsCounted ==
  ASSUME NEW f \in SUBSET Heads
  PROVE  /\ Cardinality(f) \in Nat
         /\ \A h \in f : Cardinality(f \ {h}) = Cardinality(f) - 1 /\ Cardinality(f) >= 1
         /\ \A h \in Heads \ f : Cardinality(f \cup {h}) = Cardinality(f) + 1
<1>1. IsFiniteSet(Heads)
  BY Sizes, FS_Interval DEF Heads
<1>2. IsFiniteSet(f)
  BY <1>1, FS_Subset
<1>3. Cardinality(f) \in Nat
  BY <1>2, FS_CardinalityType
<1>4. ASSUME NEW h \in f
      PROVE  Cardinality(f \ {h}) = Cardinality(f) - 1 /\ Cardinality(f) >= 1
  <2>1. IsFiniteSet(f \ {h}) /\ Cardinality(f \ {h}) = Cardinality(f) - 1
    BY <1>2, FS_RemoveElement
  <2>2. Cardinality(f \ {h}) \in Nat
    BY <2>1, FS_CardinalityType
  <2> QED BY <1>3, <2>1, <2>2
<1>5. ASSUME NEW h \in Heads \ f
      PROVE  Cardinality(f \cup {h}) = Cardinality(f) + 1
  BY <1>2, FS_AddElement
<1> QED BY <1>3, <1>4, <1>5

-----------------------------------------------------------------------------
(* What a step of the rings does to the two queues                         *)

\* What RingInv says of the waiting and the answered chains.
LEMMA RingFacts ==
  ASSUME RingInv
  PROVE  /\ Waiting \in Seq(Heads) /\ Len(Waiting) = Distance(availIdx, lastAvail)
         /\ Answered \in Seq(Heads) /\ Len(Answered) = Distance(usedIdx, lastUsed)
         /\ Len(Waiting) \in Nat /\ Len(Answered) \in Nat
         /\ Len(Waiting) <= Num /\ Len(Answered) <= Num
         /\ Cardinality(free) \in Nat /\ Cardinality(lost) \in Nat
         /\ Len(Waiting) + Busy(head) + Cardinality(lost) <= Num
         /\ free # {} => /\ Len(Waiting) < Num
                         /\ Len(Waiting) + Busy(head) + Cardinality(lost) < Num
         /\ head # None => Len(Answered) < Num
         /\ Busy(head) \in {0, 1}
<1>1. /\ Waiting \in Seq(Heads) /\ Len(Waiting) = Distance(availIdx, lastAvail)
      /\ Answered \in Seq(Heads) /\ Len(Answered) = Distance(usedIdx, lastUsed)
  BY WindowIs DEF RingInv, TypeOK, Waiting, Answered
<1>2. Len(Waiting) \in Nat /\ Len(Answered) \in Nat
  BY <1>1
<1>3. /\ Cardinality(free) \in Nat /\ Cardinality(lost) \in Nat
      /\ free # {} => Cardinality(free) >= 1
  BY HeadsCounted DEF RingInv, TypeOK
<1>4. Busy(head) \in {0, 1} /\ (head # None => Busy(head) = 1)
  BY DEF Busy
<1>5. Cardinality(free) + Cardinality(lost) + Len(Waiting) + Len(Answered) + Busy(head) = Num
  BY DEF RingInv, Counted
<1> QED BY <1>1, <1>2, <1>3, <1>4, <1>5, Sizes

\* The driver publishes a request: it joins the waiting ones.
LEMMA SubmitEffect ==
  ASSUME RingInv, NEW h \in Heads, Submit(h)
  PROVE  /\ Waiting' = Append(Waiting, h)
         /\ Answered' = Answered
         /\ h \in free /\ free' = free \ {h} /\ head' = head /\ lost' = lost
         /\ TypeOK'
<1>1. Distance(availIdx, lastAvail) < Num
  <2>1. free # {}
    BY DEF Submit
  <2> QED BY <2>1, RingFacts
<1>2. /\ ring \in [Heads -> Heads] /\ lastAvail \in Idx /\ availIdx \in Idx
      /\ Plus(availIdx, 1) \in Idx
  BY PlusIs DEF RingInv, TypeOK
<1>3. /\ ring' \in [Heads -> Heads]
      /\ ring'[availIdx % Num] = h
      /\ \A k \in Heads : k # availIdx % Num => ring'[k] = ring[k]
      /\ availIdx' = Plus(availIdx, 1) /\ lastAvail' = lastAvail
  BY <1>2, SlotFacts DEF Submit, devVars
<1>4. Window(ring', lastAvail, availIdx) = Window(ring, lastAvail, availIdx)
  BY ONLY <1>1, <1>2, <1>3, WindowKept
<1>5. Window(ring', lastAvail, Plus(availIdx, 1)) = Append(Waiting, h)
  BY <1>1, <1>2, <1>3, <1>4, WindowGrows DEF Waiting
<1>6. Waiting' = Append(Waiting, h)
  BY <1>3, <1>5 DEF Waiting
<1>7. Answered' = Answered
  BY DEF Submit, Answered
<1>8. TypeOK'
  <2>1. added + 1 \in 0 .. Num
    BY Sizes DEF RingInv, TypeOK, Submit
  <2> QED BY <1>2, <1>3, <1>4, <2>1 DEF RingInv, TypeOK, Submit, devVars
<1> QED BY <1>6, <1>7, <1>8 DEF Submit, devVars

\* virt_queue__pop takes the oldest waiting request.
LEMMA LookEffect ==
  ASSUME RingInv, DevLook
  PROVE  /\ Answered' = Answered /\ free' = free /\ lost' = lost
         /\ availIdx # lastAvail =>
              /\ Waiting # <<>>
              /\ head' = Head(Waiting)
              /\ Waiting' = Tail(Waiting)
              /\ dpc' = "serve"
         /\ availIdx = lastAvail =>
              /\ head' = head
              /\ Waiting' = Waiting
              /\ dpc' = "sleep"
         /\ TypeOK'
<1>1. ring \in [Heads -> Heads] /\ lastAvail \in Idx /\ availIdx \in Idx
  BY DEF RingInv, TypeOK
<1>2. Answered' = Answered /\ free' = free /\ lost' = lost /\ ring' = ring /\ availIdx' = availIdx
  BY DEF DevLook, Answered, drvVars
<1>3. CASE availIdx # lastAvail
  <2>1. head' = ring[lastAvail % Num] /\ lastAvail' = Plus(lastAvail, 1) /\ dpc' = "serve"
    BY <1>3 DEF DevLook, AvailSlot
  <2>2. /\ Waiting # <<>>
        /\ Head(Waiting) = ring[lastAvail % Num]
        /\ Window(ring, Plus(lastAvail, 1), availIdx) = Tail(Waiting)
    BY <1>1, <1>3, WindowShrinks DEF Waiting
  <2>3. Waiting' = Tail(Waiting)
    BY <1>2, <2>1, <2>2 DEF Waiting
  <2>4. lastAvail' \in Idx /\ head' \in Heads
    BY <1>1, <2>1, PlusIs, SlotFacts
  <2>5. TypeOK'
    BY <1>2, <2>1, <2>4 DEF RingInv, TypeOK, DevLook, drvVars
  <2> QED BY <1>2, <1>3, <2>1, <2>2, <2>3, <2>5
<1>4. CASE availIdx = lastAvail
  <2>1. head' = head /\ lastAvail' = lastAvail /\ dpc' = "sleep"
    BY <1>4 DEF DevLook
  <2>2. Waiting' = Waiting
    BY <1>2, <2>1 DEF Waiting
  <2>3. TypeOK'
    BY <1>2, <2>1 DEF RingInv, TypeOK, DevLook, drvVars
  <2> QED BY <1>2, <1>4, <2>1, <2>2, <2>3
<1> QED BY <1>3, <1>4

\* Filling in the used element changes nothing the driver can see yet.
LEMMA ServeEffect ==
  ASSUME RingInv, DevServe
  PROVE  /\ Waiting' = Waiting /\ Answered' = Answered
         /\ free' = free /\ head' = head /\ lost' = lost
         /\ usedRing'[usedIdx' % Num] = head'
         /\ TypeOK'
<1>1. head \in Heads /\ head # None
  BY QueueAssumption DEF RingInv, TypeOK, HeldRequest, DevServe
<1>2. Distance(usedIdx, lastUsed) < Num
  BY <1>1, RingFacts
<1>3. usedRing \in [Heads -> Heads] /\ lastUsed \in Idx /\ usedIdx \in Idx
  BY DEF RingInv, TypeOK
<1>4. /\ usedRing' \in [Heads -> Heads]
      /\ usedRing'[usedIdx % Num] = head
      /\ \A k \in Heads : k # usedIdx % Num => usedRing'[k] = usedRing[k]
      /\ usedIdx' = usedIdx /\ lastUsed' = lastUsed
      /\ free' = free /\ head' = head /\ lost' = lost
      /\ Waiting' = Waiting
  BY <1>1, <1>3, SlotFacts DEF DevServe, Waiting, drvVars
<1>5. Window(usedRing', lastUsed, usedIdx) = Window(usedRing, lastUsed, usedIdx)
  BY ONLY <1>2, <1>3, <1>4, WindowKept
<1>6. Answered' = Answered
  BY <1>4, <1>5 DEF Answered
<1>7. TypeOK'
  BY <1>4, <1>5 DEF RingInv, TypeOK, DevServe, drvVars
<1> QED BY <1>4, <1>5, <1>6, <1>7

\* Moving used->idx makes the answer visible.
LEMMA AdvanceEffect ==
  ASSUME RingInv, DevAdvance
  PROVE  /\ Waiting' = Waiting /\ Answered' = Append(Answered, head)
         /\ free' = free /\ head # None /\ head' = None /\ lost' = lost
         /\ TypeOK'
<1>1. head \in Heads /\ head # None /\ usedRing[usedIdx % Num] = head
  BY QueueAssumption DEF RingInv, TypeOK, HeldRequest, DevAdvance
<1>2. Distance(usedIdx, lastUsed) < Num
  BY <1>1, RingFacts
<1>3. usedRing \in [Heads -> Heads] /\ lastUsed \in Idx /\ usedIdx \in Idx
  BY DEF RingInv, TypeOK
<1>4. Window(usedRing, lastUsed, Plus(usedIdx, 1)) = Append(Answered, head)
  BY <1>1, <1>2, <1>3, WindowGrows DEF Answered
<1>5. /\ usedRing' = usedRing
      /\ usedIdx' = Plus(usedIdx, 1) /\ lastUsed' = lastUsed
      /\ free' = free /\ head' = None /\ lost' = lost
      /\ Waiting' = Waiting
  BY DEF DevAdvance, Waiting, drvVars
<1>6. Answered' = Append(Answered, head)
  BY <1>4, <1>5 DEF Answered
<1>7. TypeOK'
  BY <1>3, <1>5, PlusIs DEF RingInv, TypeOK, DevAdvance, drvVars
<1> QED BY <1>1, <1>5, <1>6, <1>7

\* The driver takes back the oldest answer.
LEMMA ReapEffect ==
  ASSUME RingInv, Reap
  PROVE  /\ Waiting' = Waiting
         /\ Answered # <<>> /\ Answered' = Tail(Answered)
         /\ free' = free \cup {Head(Answered)} /\ head' = head /\ lost' = lost
         /\ TypeOK'
<1>1. usedRing \in [Heads -> Heads] /\ lastUsed \in Idx /\ usedIdx \in Idx /\ lastUsed # usedIdx
  BY DEF RingInv, TypeOK, Reap
<1>2. /\ Answered # <<>>
      /\ Head(Answered) = usedRing[lastUsed % Num]
      /\ Window(usedRing, Plus(lastUsed, 1), usedIdx) = Tail(Answered)
  BY <1>1, WindowShrinks DEF Answered
<1>3. /\ usedRing' = usedRing /\ usedIdx' = usedIdx
      /\ lastUsed' = Plus(lastUsed, 1)
      /\ free' = free \cup {usedRing[lastUsed % Num]} /\ head' = head /\ lost' = lost
      /\ Waiting' = Waiting
  BY DEF Reap, Waiting, devVars
<1>4. Answered' = Tail(Answered)
  BY <1>2, <1>3 DEF Answered
<1>5. usedRing[lastUsed % Num] \in Heads
  BY <1>1, SlotFacts
<1>6. TypeOK'
  BY <1>1, <1>3, <1>5, PlusIs DEF RingInv, TypeOK, Reap, devVars
<1> QED BY <1>2, <1>3, <1>4, <1>6

\* Every other step leaves both queues alone, and DevDrop only moves the head.
OtherStep ==
  ConsiderKick \/ Interrupt \/ EnableIrq \/ Recheck \/ DevWake \/ DevArm \/ DevSignal

\* The steps that touch no ring leave the waiting and the answered chains
\* alone.
LEMMA OtherEffect ==
  ASSUME RingInv, OtherStep \/ UNCHANGED vars
  PROVE  /\ Waiting' = Waiting /\ Answered' = Answered
         /\ free' = free /\ head' = head /\ lost' = lost
         /\ usedRing' = usedRing /\ usedIdx' = usedIdx
         /\ (dpc' \in {"serve", "advance"} <=> dpc \in {"serve", "advance"})
         /\ (dpc' = "advance" => dpc = "advance")
         /\ TypeOK'
<1>1. CASE ConsiderKick
  <2>1. WouldKick \in BOOLEAN
    BY DEF WouldKick, RingInv, TypeOK, NeedEvent
  <2> QED BY <1>1, <2>1, Sizes DEF RingInv, TypeOK, ConsiderKick, Waiting, Answered, devVars, drvVars
<1>2. CASE Interrupt
  BY <1>2 DEF RingInv, TypeOK, Interrupt, Waiting, Answered, devVars, drvVars
<1>3. CASE EnableIrq
  BY <1>3 DEF RingInv, TypeOK, EnableIrq, Waiting, Answered, devVars, drvVars
<1>4. CASE Recheck
  BY <1>4 DEF RingInv, TypeOK, Recheck, Waiting, Answered, devVars, drvVars
<1>5. CASE DevWake
  BY <1>5 DEF RingInv, TypeOK, DevWake, Waiting, Answered, devVars, drvVars
<1>6. CASE DevArm
  BY <1>6 DEF RingInv, TypeOK, DevArm, ArmedEvent, Waiting, Answered, devVars, drvVars
<1>7. CASE DevSignal
  <2>1. ShouldSignal \in BOOLEAN
    <3>1. CASE useEvent
      BY <3>1 DEF ShouldSignal, NeedEvent
    <3>2. CASE ~useEvent
      BY <3>2 DEF ShouldSignal
    <3> QED BY <3>1, <3>2
  <2> QED BY <1>7, <2>1 DEF RingInv, TypeOK, DevSignal, Waiting, Answered, devVars, drvVars
<1>8. CASE UNCHANGED vars
  BY <1>8 DEF RingInv, TypeOK, vars, Waiting, Answered, devVars, drvVars
<1> QED BY <1>1, <1>2, <1>3, <1>4, <1>5, <1>6, <1>7, <1>8 DEF OtherStep

-----------------------------------------------------------------------------
(* RingInv is inductive                                                    *)

\* RingInv holds of an empty ring.
LEMMA RingInit == Init => RingInv
<1> SUFFICES ASSUME Init
             PROVE  RingInv
  OBVIOUS
<1>1. 0 \in Heads /\ 0 \in Idx /\ None \notin Heads
  BY Sizes, QueueAssumption DEF Heads, Idx
<1>2. TypeOK
  <2>1. [i \in Heads |-> 0] \in [Heads -> Heads] /\ 0 \in 0 .. Num
    BY <1>1, Sizes
  <2> QED BY <1>1, <2>1 DEF Init, TypeOK
<1>3. Distance(0, 0) = 0
  BY <1>1, DistanceSteps
<1>4. /\ Waiting \in Seq(Heads) /\ Len(Waiting) = 0
      /\ Answered \in Seq(Heads) /\ Len(Answered) = 0
  BY <1>1, <1>2, <1>3, WindowIs DEF Init, Waiting, Answered, TypeOK
<1>5. \A h : ~Holds(Waiting, h) /\ ~Holds(Answered, h)
  BY <1>4 DEF Holds
<1>6. Distinct(Waiting) /\ Distinct(Answered)
  BY <1>4 DEF Distinct
<1>7. Apart(free, Waiting, head, Answered, lost)
  BY <1>1, <1>5, <1>6 DEF Init, Apart
<1>8. Counted
  <2>1. Cardinality(Heads) = Num
    BY Sizes, FS_Interval DEF Heads
  <2>2. Cardinality({}) = 0
    BY FS_EmptySet
  <2> QED BY <1>4, <2>1, <2>2, Sizes DEF Init, Counted, Busy
<1>9. HeldRequest
  BY DEF Init, HeldRequest
<1> QED BY <1>2, <1>7, <1>8, <1>9 DEF RingInv

\* Every step of driver and device, or a stutter, keeps RingInv.
LEMMA RingStep == RingInv /\ [Next]_vars => RingInv'
<1> SUFFICES ASSUME RingInv, [Next]_vars
             PROVE  RingInv'
  OBVIOUS
<1>0. /\ free \in SUBSET Heads /\ lost \in SUBSET Heads /\ head \in Heads \cup {None}
      /\ Waiting \in Seq(Heads) /\ Answered \in Seq(Heads)
      /\ Apart(free, Waiting, head, Answered, lost)
  BY RingFacts DEF RingInv, TypeOK
<1>c. /\ Cardinality(free) + Cardinality(lost) + Len(Waiting) + Len(Answered) + Busy(head) = Num
      /\ Cardinality(free) \in Nat /\ Cardinality(lost) \in Nat
      /\ Len(Waiting) \in Nat /\ Len(Answered) \in Nat /\ Busy(head) \in {0, 1}
      /\ Num \in Nat
  BY RingFacts, Sizes DEF RingInv, Counted
<1>n. None \notin Heads
  BY QueueAssumption DEF Heads
<1>1. ASSUME NEW h \in Heads, Submit(h)
      PROVE  RingInv'
  <2>1. /\ Waiting' = Append(Waiting, h)
        /\ Answered' = Answered
        /\ h \in free /\ free' = free \ {h} /\ head' = head /\ lost' = lost
        /\ TypeOK'
    BY <1>1, SubmitEffect
  <2>2. Apart(free', Waiting', head', Answered', lost')
    BY <1>0, <2>1, ApartMoves
  <2>3. Counted'
    <3>1. Cardinality(free') = Cardinality(free) - 1
      BY <1>0, <2>1, HeadsCounted
    <3>2. Len(Waiting') = Len(Waiting) + 1
      BY <1>0, <2>1, AppendHolds
    <3> QED BY <1>c, <2>1, <3>1, <3>2 DEF Counted, Busy
  <2>4. HeldRequest'
    BY <1>1 DEF RingInv, HeldRequest, Submit, devVars
  <2> QED BY <2>1, <2>2, <2>3, <2>4 DEF RingInv
<1>2. CASE DevLook
  <2>0. head = None
    BY <1>2 DEF RingInv, HeldRequest, DevLook
  <2>1. TypeOK' /\ Answered' = Answered /\ free' = free /\ lost' = lost
    BY <1>2, LookEffect
  <2>2. CASE availIdx # lastAvail
    <3>1. Waiting # <<>> /\ head' = Head(Waiting) /\ Waiting' = Tail(Waiting) /\ dpc' = "serve"
      BY <1>2, <2>2, LookEffect
    <3>2. Apart(free', Waiting', head', Answered', lost')
      BY <1>0, <2>0, <2>1, <3>1, ApartMoves
    <3>3. Len(Waiting') = Len(Waiting) - 1 /\ head' \in Heads
      BY <1>0, <3>1, TailHolds DEF Apart
    <3>4. Counted'
      BY <1>c, <1>n, <2>0, <2>1, <3>3 DEF Counted, Busy
    <3>5. HeldRequest'
      BY <1>n, <3>1, <3>3 DEF HeldRequest
    <3> QED BY <2>1, <3>2, <3>4, <3>5 DEF RingInv
  <2>3. CASE availIdx = lastAvail
    <3>1. head' = head /\ Waiting' = Waiting /\ dpc' = "sleep"
      BY <1>2, <2>3, LookEffect
    <3>2. HeldRequest'
      BY <2>0, <3>1 DEF HeldRequest
    <3>3. Counted'
      BY <1>c, <2>1, <3>1 DEF Counted, Busy
    <3> QED BY <1>0, <2>1, <3>1, <3>2, <3>3 DEF RingInv
  <2> QED BY <2>2, <2>3
<1>3. CASE DevServe
  <2>1. /\ Waiting' = Waiting /\ Answered' = Answered
        /\ free' = free /\ head' = head /\ lost' = lost
        /\ usedRing'[usedIdx' % Num] = head'
        /\ TypeOK'
    BY <1>3, ServeEffect
  <2>2. HeldRequest'
    BY <1>3, <2>1 DEF RingInv, HeldRequest, DevServe
  <2>3. Counted'
    BY <1>c, <2>1 DEF Counted, Busy
  <2> QED BY <1>0, <2>1, <2>2, <2>3 DEF RingInv
<1>4. CASE DevDrop
  <2>1. /\ head # None /\ head' = None /\ lost' = lost \cup {head} /\ free' = free
        /\ Waiting' = Waiting /\ Answered' = Answered /\ dpc' = "arm"
    BY <1>4 DEF RingInv, HeldRequest, DevDrop, Waiting, Answered, drvVars
  <2>2. Apart(free', Waiting', head', Answered', lost') /\ head \in Heads \ lost
    BY <1>0, <2>1, ApartMoves
  <2>3. TypeOK'
    BY <1>4, <2>1, <2>2 DEF RingInv, TypeOK, DevDrop, drvVars
  <2>4. Cardinality(lost') = Cardinality(lost) + 1
    BY <1>0, <2>1, <2>2, HeadsCounted
  <2>5. Counted'
    BY <1>c, <2>1, <2>4 DEF Counted, Busy
  <2>6. HeldRequest'
    BY <2>1 DEF HeldRequest
  <2> QED BY <2>2, <2>3, <2>5, <2>6 DEF RingInv
<1>5. CASE DevAdvance
  <2>1. /\ Waiting' = Waiting /\ Answered' = Append(Answered, head)
        /\ free' = free /\ head # None /\ head' = None /\ lost' = lost
        /\ TypeOK'
    BY <1>5, AdvanceEffect
  <2>2. Apart(free', Waiting', head', Answered', lost')
    BY <1>0, <2>1, ApartMoves
  <2>3. Len(Answered') = Len(Answered) + 1
    BY <1>0, <2>1, AppendHolds
  <2>4. Counted'
    BY <1>c, <2>1, <2>3 DEF Counted, Busy
  <2>5. HeldRequest'
    BY <1>5, <2>1 DEF HeldRequest, DevAdvance
  <2> QED BY <2>1, <2>2, <2>4, <2>5 DEF RingInv
<1>6. CASE Reap
  <2>1. /\ Waiting' = Waiting
        /\ Answered # <<>> /\ Answered' = Tail(Answered)
        /\ free' = free \cup {Head(Answered)} /\ head' = head /\ lost' = lost
        /\ TypeOK'
    BY <1>6, ReapEffect
  <2>2. Apart(free', Waiting', head', Answered', lost') /\ Head(Answered) \in Heads \ free
    BY <1>0, <2>1, ApartMoves
  <2>3. Len(Answered') = Len(Answered) - 1
    BY <1>0, <2>1, TailHolds DEF Apart
  <2>4. Cardinality(free') = Cardinality(free) + 1
    BY <1>0, <2>1, <2>2, HeadsCounted
  <2>5. Counted'
    BY <1>c, <2>1, <2>3, <2>4 DEF Counted, Busy
  <2>6. HeldRequest'
    BY <1>6 DEF RingInv, HeldRequest, Reap, devVars
  <2> QED BY <2>1, <2>2, <2>5, <2>6 DEF RingInv
<1>7. CASE OtherStep \/ UNCHANGED vars
  <2>1. /\ Waiting' = Waiting /\ Answered' = Answered
        /\ free' = free /\ head' = head /\ lost' = lost
        /\ usedRing' = usedRing /\ usedIdx' = usedIdx
        /\ (dpc' \in {"serve", "advance"} <=> dpc \in {"serve", "advance"})
        /\ (dpc' = "advance" => dpc = "advance")
        /\ TypeOK'
    BY <1>7, OtherEffect
  <2>2. HeldRequest'
    BY <2>1 DEF RingInv, HeldRequest
  <2>3. Counted'
    BY <1>c, <2>1 DEF Counted, Busy
  <2> QED BY <1>0, <2>1, <2>2, <2>3 DEF RingInv
<1> QED BY <1>1, <1>2, <1>3, <1>4, <1>5, <1>6, <1>7
        DEF Next, Driver, Device, OtherStep

-----------------------------------------------------------------------------
(* The rings implement the queues                                          *)

\* The empty ring is the empty abstract queue.
LEMMA RefinementInit == Init => Queue!Init
<1> SUFFICES ASSUME Init
             PROVE  Queue!Init
  OBVIOUS
<1>1. RingInv /\ 0 \in Idx /\ Distance(0, 0) = 0
  BY RingInit, DistanceSteps, Sizes DEF Idx
<1>2. /\ Waiting \in Seq(Heads) /\ Len(Waiting) = 0
      /\ Answered \in Seq(Heads) /\ Len(Answered) = 0
  BY <1>1, RingFacts DEF Init
<1>3. Waiting = <<>> /\ Answered = <<>>
  BY <1>2
<1> QED BY <1>3 DEF Init, Queue!Init

\* Every step of the ring is a step, or a stutter, of the abstract queue.
LEMMA RefinementStep == RingInv /\ [Next]_vars => [Queue!Next]_(Queue!vars)
<1> SUFFICES ASSUME RingInv, [Next]_vars
             PROVE  Queue!Next \/ UNCHANGED Queue!vars
  OBVIOUS
<1>0. /\ Waiting \in Seq(Heads) /\ Answered \in Seq(Heads)
      /\ Apart(free, Waiting, head, Answered, lost)
  BY RingFacts DEF RingInv
<1>1. ASSUME NEW h \in Heads, Submit(h)
      PROVE  Queue!Next
  <2>1. /\ Waiting' = Append(Waiting, h) /\ Answered' = Answered
        /\ h \in free /\ head' = head /\ lost' = lost
    BY <1>1, SubmitEffect
  <2>2. ~Holds(Waiting, h) /\ head # h /\ ~Holds(Answered, h) /\ h \notin lost
    BY <1>0, <2>1 DEF Apart
  <2>3. ~Queue!InSeq(h, Waiting) /\ ~Queue!InSeq(h, Answered)
    BY <1>0, <2>2 DEF Holds, Queue!InSeq
  <2>4. Queue!Submit(h)
    BY <2>1, <2>2, <2>3 DEF Queue!Submit, Queue!Outstanding
  <2> QED BY <2>4 DEF Queue!Next
<1>2. CASE DevLook
  <2>1. /\ head = None
        /\ Answered' = Answered /\ lost' = lost
        /\ availIdx # lastAvail => /\ Waiting # <<>>
                                   /\ head' = Head(Waiting)
                                   /\ Waiting' = Tail(Waiting)
        /\ availIdx = lastAvail => head' = head /\ Waiting' = Waiting
    BY <1>2, LookEffect DEF RingInv, HeldRequest, DevLook
  <2>2. Queue!Take \/ UNCHANGED Queue!vars
    BY <2>1 DEF Queue!Take, Queue!vars
  <2> QED BY <2>2 DEF Queue!Next
<1>3. CASE DevDrop
  <2>1. /\ head # None /\ head' = None /\ lost' = lost \cup {head}
        /\ Waiting' = Waiting /\ Answered' = Answered
    BY <1>3 DEF RingInv, HeldRequest, DevDrop, Waiting, Answered, drvVars
  <2> QED BY <2>1 DEF Queue!Drop, Queue!Next
<1>4. CASE DevAdvance
  <2>1. /\ Waiting' = Waiting /\ Answered' = Append(Answered, head)
        /\ head # None /\ head' = None /\ lost' = lost
    BY <1>4, AdvanceEffect
  <2> QED BY <2>1 DEF Queue!Answer, Queue!Next
<1>5. CASE Reap
  <2>1. /\ Waiting' = Waiting /\ Answered # <<>> /\ Answered' = Tail(Answered)
        /\ head' = head /\ lost' = lost
    BY <1>5, ReapEffect
  <2> QED BY <2>1 DEF Queue!Reap, Queue!Next
<1>6. CASE DevServe
  BY <1>6, ServeEffect DEF Queue!vars
<1>7. CASE OtherStep \/ UNCHANGED vars
  BY <1>7, OtherEffect DEF Queue!vars
<1> QED BY <1>1, <1>2, <1>3, <1>4, <1>5, <1>6, <1>7
        DEF Next, Driver, Device, OtherStep

\* The rings, whose indices wrap, behave as two first in first out queues with one
\* request in service between them: virt_queue__pop takes the requests in the order
\* the driver published them, the driver sees the answers in the order
\* virt_queue__set_used_elem gave them, no request is answered twice, overwritten or
\* invented, and one the device dropped never comes back.
THEOREM RingsAreQueues == Spec => QueueSpec
<1>1. Spec => []RingInv
  BY RingInit, RingStep, PTL DEF Spec
<1>2. Init => Queue!Init
  BY RefinementInit
<1>3. RingInv /\ [Next]_vars => [Queue!Next]_(Queue!vars)
  BY RefinementStep
<1> QED BY <1>1, <1>2, <1>3, PTL DEF Spec, QueueSpec, Queue!Spec

-----------------------------------------------------------------------------
(* Kicks                                                                   *)

\* KickInv holds of an empty ring.
LEMMA KickInit == Init => KickInv
<1>1. 0 \in Idx
  BY Sizes DEF Idx
<1> QED BY <1>1, DistanceSteps DEF Init, KickInv

\* A driver that has published the requests the device sleeps on is told to kick.
LEMMA ArmedMeansKick ==
  ASSUME RingInv, KickInv, dpc = "sleep", ~kick, availIdx # lastAvail
  PROVE  added > 0 /\ WouldKick
<1>1. /\ availIdx \in Idx /\ lastAvail \in Idx /\ added \in 0 .. Num
      /\ Num \in Nat \ {0} /\ IdxMod \in Nat \ {0} /\ Num < IdxMod
      /\ added \in Idx
  BY Sizes DEF RingInv, TypeOK, Idx
<1>2. /\ Distance(availIdx, lastAvail) <= added
      /\ useEvent => availEvent = lastAvail
  BY DEF KickInv
<1>3. Distance(availIdx, lastAvail) \in Nat /\ Distance(availIdx, lastAvail) > 0
  BY <1>1, DistanceIs, DistanceSteps DEF Idx
<1>4. added > 0
  BY <1>1, <1>2, <1>3
<1>5. Distance(availIdx, Plus(lastAvail, 1)) = Distance(availIdx, lastAvail) - 1
  BY <1>1, DistanceSteps
<1>6. Distance(availIdx, Distance(availIdx, added)) = added
  <2>1. Distance(availIdx, added) \in Idx
    BY <1>1, DistanceIs
  <2>2. Distance(availIdx, added) =
          IF availIdx >= added THEN availIdx - added ELSE availIdx + IdxMod - added
    BY <1>1, DistanceIs
  <2>3. Distance(availIdx, Distance(availIdx, added)) =
          IF availIdx >= Distance(availIdx, added)
          THEN availIdx - Distance(availIdx, added)
          ELSE availIdx + IdxMod - Distance(availIdx, added)
    BY <1>1, <2>1, DistanceIs
  <2> QED BY <1>1, <1>4, <2>1, <2>2, <2>3 DEF Idx
<1> QED BY <1>1, <1>2, <1>3, <1>4, <1>5, <1>6 DEF WouldKick, NeedEvent

\* Every step, or a stutter, keeps KickInv.
LEMMA KickStep == RingInv /\ KickInv /\ [Next]_vars => KickInv'
<1> SUFFICES ASSUME RingInv, KickInv, [Next]_vars
             PROVE  KickInv'
  OBVIOUS
<1>0. /\ availIdx \in Idx /\ lastAvail \in Idx /\ added \in Nat
      /\ Distance(availIdx, lastAvail) \in Nat
  BY DistanceIs, Sizes DEF RingInv, TypeOK, Idx
<1>1. ASSUME NEW h \in Heads, Submit(h)
      PROVE  KickInv'
  <2>1. Distance(availIdx, lastAvail) + 1 < IdxMod
    <3>1. free # {}
      BY <1>1 DEF Submit
    <3> QED BY <3>1, RingFacts, Sizes
  <2>2. Distance(Plus(availIdx, 1), lastAvail) = Distance(availIdx, lastAvail) + 1
    BY <1>0, <2>1, DistanceSteps
  <2>3. /\ availIdx' = Plus(availIdx, 1) /\ lastAvail' = lastAvail /\ added' = added + 1
        /\ dpc' = dpc /\ kick' = kick /\ useEvent' = useEvent /\ availEvent' = availEvent
    BY <1>1 DEF Submit, devVars
  <2> QED BY <1>0, <2>2, <2>3 DEF KickInv
<1>2. CASE ConsiderKick
  <2>1. /\ availIdx' = availIdx /\ lastAvail' = lastAvail /\ added' = 0
        /\ dpc' = dpc /\ (~kick' => ~kick /\ ~WouldKick)
        /\ useEvent' = useEvent /\ availEvent' = availEvent
    BY <1>2 DEF ConsiderKick, devVars
  <2>2. dpc = "sleep" /\ ~kick' => availIdx = lastAvail
    BY <2>1, ArmedMeansKick
  <2>3. Distance(availIdx, availIdx) = 0
    BY <1>0, DistanceSteps
  <2> QED BY <2>1, <2>2, <2>3 DEF KickInv
<1>3. CASE DevLook
  <2>1. CASE availIdx # lastAvail
    BY <1>3, <2>1 DEF DevLook, KickInv
  <2>2. CASE availIdx = lastAvail
    <3>1. /\ availIdx' = availIdx /\ lastAvail' = lastAvail /\ added' = added /\ dpc = "look"
          /\ useEvent' = useEvent /\ availEvent' = availEvent
      BY <1>3, <2>2 DEF DevLook, drvVars
    <3>2. Distance(availIdx, availIdx) = 0
      BY <1>0, DistanceSteps
    <3> QED BY <1>0, <2>2, <3>1, <3>2 DEF KickInv
  <2> QED BY <2>1, <2>2
<1>4. CASE Interrupt \/ Reap \/ EnableIrq \/ Recheck
  BY <1>4 DEF Interrupt, Reap, EnableIrq, Recheck, KickInv, devVars
<1>5. CASE DevWake \/ DevServe \/ DevDrop \/ DevAdvance \/ DevSignal
  BY <1>5 DEF DevWake, DevServe, DevDrop, DevAdvance, DevSignal, KickInv
<1>6. CASE DevArm
  BY <1>6 DEF DevArm, ArmedEvent, KickInv
<1>7. CASE UNCHANGED vars
  BY <1>7 DEF vars, devVars, drvVars, KickInv
<1> QED BY <1>1, <1>2, <1>3, <1>4, <1>5, <1>6, <1>7 DEF Next, Driver, Device

\* The I/O thread cannot sleep over a request: when it has gone to sleep, its eventfd
\* is not readable and requests wait, the driver has yet to look at avail_event for
\* them, and will find that it must kick.  Between virt_queue__available arming the
\* event index and reading avail->idx the driver may publish, look and decide not to
\* kick at any point, and the indices may wrap.
THEOREM KicksKept == Spec => [](TypeOK /\ KickNotLost)
<1>1. Init => RingInv /\ KickInv
  BY RingInit, KickInit
<1>2. (RingInv /\ KickInv) /\ [Next]_vars => (RingInv /\ KickInv)'
  BY RingStep, KickStep
<1>3. RingInv /\ KickInv => TypeOK /\ KickNotLost
  BY ArmedMeansKick DEF RingInv, KickNotLost
<1> QED BY <1>1, <1>2, <1>3, PTL DEF Spec

-----------------------------------------------------------------------------
(* Interrupts                                                              *)

\* IrqInv and LagInv hold of an empty ring.
LEMMA IrqInit == Init => IrqInv /\ LagInv
<1> SUFFICES ASSUME Init
             PROVE  IrqInv /\ LagInv
  OBVIOUS
<1>1. RingInv /\ 0 \in Idx /\ Distance(0, 0) = 0
  BY RingInit, DistanceSteps, Sizes DEF Idx
<1>2. Len(Waiting) = 0
  BY <1>1, RingFacts DEF Init
<1>3. Cardinality({}) = 0
  BY FS_EmptySet
<1> QED BY <1>1, <1>2, <1>3, QueueAssumption DEF Init, IrqInv, LagInv, Busy

\* An idle handler with answers ahead of it left used_event where the device must
\* signal for them.
LEMMA IdleMeansSignal ==
  ASSUME RingInv, IrqInv, gpc = "idle", ~irq, lastUsed # usedIdx
  PROVE  dpc = "signal" /\ ShouldSignal
<1>1. usedIdx \in Idx /\ lastUsed \in Idx /\ signalled \in Idx /\ useEvent \in BOOLEAN
  BY DEF RingInv, TypeOK
<1>2. dpc = "signal" /\ ~noIrq /\ usedEvent = lastUsed
  BY DEF IrqInv
<1>3. CASE useEvent
  <2>1. Distance(usedIdx, lastUsed) <= Distance(usedIdx, signalled)
    BY <1>3 DEF IrqInv
  <2>2. Distance(usedIdx, Plus(lastUsed, 1)) = Distance(usedIdx, lastUsed) - 1
    BY <1>1, DistanceSteps
  <2>3. Distance(usedIdx, lastUsed) \in Nat /\ Distance(usedIdx, signalled) \in Nat
    BY <1>1, DistanceNat
  <2> QED BY <1>2, <1>3, <2>1, <2>2, <2>3 DEF ShouldSignal, NeedEvent
<1>4. CASE ~useEvent
  BY <1>2, <1>4 DEF ShouldSignal
<1> QED BY <1>3, <1>4

\* The distances between the indices while the driver uses the event index.
LEMMA LagFacts ==
  ASSUME RingInv, LagInv, useEvent
  PROVE  /\ availIdx \in Idx /\ usedIdx \in Idx /\ signalled \in Idx /\ lastUsed \in Idx
         /\ Distance(availIdx, usedIdx) \in Nat
         /\ Distance(availIdx, signalled) \in Nat
         /\ Distance(usedIdx, signalled) \in Nat
         /\ Distance(usedIdx, lastUsed) \in Nat
         /\ Distance(availIdx, usedIdx) <= Num
         /\ Distance(availIdx, usedIdx) + Distance(usedIdx, signalled) <= MaxLag
         /\ MaxLag \in Nat /\ IdxMod \in Nat /\ Num \in Nat /\ Num < IdxMod
<1>1. /\ availIdx \in Idx /\ usedIdx \in Idx /\ signalled \in Idx /\ lastUsed \in Idx
  BY DEF RingInv, TypeOK
<1>2. /\ Distance(availIdx, usedIdx) \in Nat
      /\ Distance(availIdx, signalled) \in Nat
      /\ Distance(usedIdx, signalled) \in Nat
      /\ Distance(usedIdx, lastUsed) \in Nat
  BY <1>1, DistanceNat
<1>3. MaxLag \in Nat /\ IdxMod \in Nat /\ Num \in Nat /\ Num < IdxMod
  BY QueueAssumption
<1>4. Distance(availIdx, usedIdx) <= Num
  BY RingFacts DEF LagInv
<1>5. Distance(availIdx, usedIdx) + Distance(usedIdx, signalled) <= MaxLag
  BY DEF LagInv
<1> QED BY <1>1, <1>2, <1>3, <1>4, <1>5

\* Every step, or a stutter, keeps LagInv where the lag cannot span the
\* index range.
LEMMA LagStep ==
  ASSUME MaxLag < IdxMod, RingInv, LagInv, [Next]_vars
  PROVE  LagInv'
<1> SUFFICES ASSUME useEvent'
             PROVE  LagInv'
  BY DEF LagInv
<1>e. useEvent
  BY DEF Next, Driver, Device, vars, Submit, ConsiderKick, Interrupt, Reap, EnableIrq,
         Recheck, DevWake, DevArm, DevLook, DevServe, DevDrop, DevAdvance, DevSignal
<1> DEFINE P == Distance(availIdx, usedIdx)
           S == Distance(usedIdx, signalled)
           G == Distance(availIdx, signalled)
<1>0. /\ availIdx \in Idx /\ usedIdx \in Idx /\ signalled \in Idx
      /\ P \in Nat /\ S \in Nat /\ G \in Nat /\ P <= Num /\ G <= MaxLag /\ G = P + S
      /\ MaxLag \in Nat /\ IdxMod \in Nat /\ Num \in Nat /\ Num < IdxMod
      /\ P = Len(Waiting) + Busy(head) + Cardinality(lost)
      /\ Len(Waiting) \in Nat /\ Cardinality(lost) \in Nat /\ Busy(head) \in {0, 1}
  BY <1>e, LagFacts, RingFacts DEF LagInv
<1>k. ASSUME P' = P, S' = S, G' = G,
             Len(Waiting') + Busy(head') + Cardinality(lost') = P
      PROVE  LagInv'
  BY <1>0, <1>k DEF LagInv
<1> HIDE DEF P, S, G
<1>1. ASSUME NEW h \in Heads, Submit(h)
      PROVE  LagInv'
  <2>1. /\ Waiting' = Append(Waiting, h) /\ head' = head /\ lost' = lost
        /\ h \in free
    BY <1>1, SubmitEffect
  <2>2. Len(Waiting') = Len(Waiting) + 1
    BY <2>1, RingFacts, AppendHolds
  <2>3. P < Num /\ G < MaxLag
    <3>1. free # {}
      BY <2>1
    <3> QED BY <1>0, <1>1, <1>e, <3>1, RingFacts DEF Submit, G
  <2>4. P + 1 < IdxMod /\ G + 1 < IdxMod
    BY <1>0, <2>3
  <2>5. Distance(Plus(availIdx, 1), usedIdx) = P + 1 /\ Distance(Plus(availIdx, 1), signalled) = G + 1
    BY <1>0, <2>4, DistanceSteps DEF P, G
  <2>6. availIdx' = Plus(availIdx, 1) /\ usedIdx' = usedIdx /\ signalled' = signalled
    BY <1>1 DEF Submit, devVars
  <2>7. P' = P + 1 /\ G' = G + 1 /\ S' = S
    BY <2>5, <2>6 DEF P, G, S
  <2>8. P' = Len(Waiting') + Busy(head') + Cardinality(lost')
    <3>1. Busy(head') = Busy(head) /\ Cardinality(lost') = Cardinality(lost)
      BY <2>1
    <3>2. Busy(head) \in Nat
      BY <1>0
    <3>3. Len(Waiting) + 1 + Busy(head) + Cardinality(lost) = P + 1
      BY <1>0, <3>2
    <3> QED BY <2>2, <2>7, <3>1, <3>3
  <2> QED BY <1>0, <2>3, <2>7, <2>8 DEF LagInv, P, S, G
<1>2. CASE DevAdvance
  <2>1. Waiting' = Waiting /\ head # None /\ head' = None /\ lost' = lost
    BY <1>2, AdvanceEffect
  <2>2. usedIdx' = Plus(usedIdx, 1) /\ availIdx' = availIdx /\ signalled' = signalled
    BY <1>2 DEF DevAdvance
  <2>3. P > 0 /\ S + 1 < IdxMod
    BY <1>0, <2>1 DEF Busy
  <2>4. availIdx # usedIdx
    BY <1>0, <2>3, DistanceSteps DEF P
  <2>5. Distance(availIdx, Plus(usedIdx, 1)) = P - 1 /\ Distance(Plus(usedIdx, 1), signalled) = S + 1
    BY <1>0, <2>3, <2>4, DistanceSteps DEF P, S
  <2>6. P' = P - 1 /\ S' = S + 1 /\ G' = G
    BY <2>2, <2>5 DEF P, S, G
  <2>7. P' = Len(Waiting') + Busy(head') + Cardinality(lost')
    BY <1>0, <2>1, <2>6 DEF Busy
  <2> QED BY <1>0, <2>6, <2>7 DEF LagInv, P, S, G
<1>3. CASE DevSignal
  <2>1. Waiting' = Waiting /\ head' = head /\ lost' = lost
    BY <1>3, OtherEffect DEF OtherStep
  <2>2. availIdx' = availIdx /\ usedIdx' = usedIdx /\ signalled' \in {signalled, usedIdx}
    BY <1>3 DEF DevSignal
  <2>3. P' = P
    BY <2>2 DEF P
  <2>4. CASE signalled' = signalled
    <3>1. S' = S /\ G' = G
      BY <2>2, <2>4 DEF S, G
    <3> QED BY <1>k, <1>0, <2>1, <2>3, <3>1 DEF Busy
  <2>5. CASE signalled' = usedIdx
    <3>1. S' = 0 /\ G' = P
      BY <1>0, <2>2, <2>5, DistanceSteps DEF S, G, P
    <3>2. P' = Len(Waiting') + Busy(head') + Cardinality(lost')
      BY <1>0, <2>1, <2>3 DEF Busy
    <3>3. G' = P' + S' /\ G' <= MaxLag
      BY <1>0, <2>3, <3>1
    <3> QED BY <3>2, <3>3 DEF LagInv, P, S, G
  <2> QED BY <2>2, <2>4, <2>5
<1>4. CASE DevLook
  <2>1. availIdx' = availIdx /\ usedIdx' = usedIdx /\ signalled' = signalled
    BY <1>4 DEF DevLook
  <2>2. P' = P /\ S' = S /\ G' = G
    BY <2>1 DEF P, S, G
  <2>3. lost' = lost /\ head = None
    BY <1>4 DEF DevLook, RingInv, HeldRequest
  <2>4. CASE availIdx # lastAvail
    <3>1. Waiting # <<>> /\ head' = Head(Waiting) /\ Waiting' = Tail(Waiting)
      BY <1>4, <2>4, LookEffect
    <3>2. Waiting \in Seq(Heads) /\ Distinct(Waiting)
      BY RingFacts DEF RingInv, Apart
    <3>3. Len(Waiting') = Len(Waiting) - 1 /\ head' \in Heads
      BY <3>1, <3>2, TailHolds
    <3>4. Busy(head') = 1 /\ Busy(head) = 0
      BY <2>3, <3>3, QueueAssumption DEF Busy, Heads
    <3> QED BY <1>0, <1>k, <2>2, <2>3, <3>3, <3>4
  <2>5. CASE availIdx = lastAvail
    <3>1. head' = head /\ Waiting' = Waiting
      BY <1>4, <2>5, LookEffect
    <3> QED BY <1>0, <1>k, <2>2, <2>3, <3>1 DEF Busy
  <2> QED BY <2>4, <2>5
<1>5. CASE DevDrop
  <2>1. availIdx' = availIdx /\ usedIdx' = usedIdx /\ signalled' = signalled
    BY <1>5 DEF DevDrop
  <2>2. P' = P /\ S' = S /\ G' = G
    BY <2>1 DEF P, S, G
  <2>3. /\ head # None /\ head' = None /\ lost' = lost \cup {head} /\ Waiting' = Waiting
    BY <1>5 DEF RingInv, HeldRequest, DevDrop, Waiting
  <2>4. head \in Heads \ lost /\ lost \in SUBSET Heads
    BY <2>3 DEF RingInv, TypeOK, Apart
  <2>5. Cardinality(lost') = Cardinality(lost) + 1
    BY <2>3, <2>4, HeadsCounted
  <2> QED BY <1>0, <1>k, <2>2, <2>3, <2>5 DEF Busy
<1>6. CASE Reap \/ DevServe
  <2>1. /\ Waiting' = Waiting /\ head' = head /\ lost' = lost
        /\ availIdx' = availIdx /\ usedIdx' = usedIdx /\ signalled' = signalled
    BY <1>6, ReapEffect, ServeEffect DEF Reap, DevServe, devVars
  <2> QED BY <1>0, <1>k, <2>1 DEF Busy, P, S, G
<1>7. CASE ConsiderKick \/ Interrupt \/ EnableIrq \/ Recheck \/ DevWake \/ DevArm \/ UNCHANGED vars
  <2>1. /\ Waiting' = Waiting /\ head' = head /\ lost' = lost
    BY <1>7, OtherEffect DEF OtherStep
  <2>2. availIdx' = availIdx /\ usedIdx' = usedIdx /\ signalled' = signalled
    BY <1>7 DEF ConsiderKick, Interrupt, EnableIrq, Recheck, DevWake, DevArm, vars, devVars
  <2> QED BY <1>0, <1>k, <2>1, <2>2 DEF Busy, P, S, G
<1> QED BY <1>1, <1>2, <1>3, <1>4, <1>5, <1>6, <1>7 DEF Next, Driver, Device

\* Every step, or a stutter, keeps IrqInv where the lag cannot span the
\* index range.
LEMMA IrqStep ==
  ASSUME MaxLag < IdxMod, RingInv, LagInv, IrqInv, [Next]_vars
  PROVE  IrqInv'
<1>0. usedIdx \in Idx /\ lastUsed \in Idx /\ signalled \in Idx
  BY DEF RingInv, TypeOK
<1>1. ASSUME NEW h \in Heads, Submit(h)
      PROVE  IrqInv'
  BY <1>1 DEF Submit, IrqInv, devVars
<1>2. CASE ConsiderKick \/ DevWake \/ DevArm \/ DevServe \/ DevDrop \/ UNCHANGED vars
  BY <1>2 DEF ConsiderKick, DevWake, DevArm, DevServe, DevDrop, vars, devVars, drvVars, IrqInv
<1>3. CASE DevLook
  BY <1>3 DEF DevLook, drvVars, IrqInv
<1>4. CASE Interrupt \/ Reap \/ EnableIrq
  BY <1>4 DEF Interrupt, Reap, EnableIrq, IrqInv
<1>5. CASE Recheck
  <2>1. usedEvent = lastUsed /\ ~noIrq
    BY <1>5 DEF Recheck, IrqInv
  <2> QED BY <1>5, <2>1 DEF Recheck, IrqInv
<1>6. CASE DevAdvance
  <2>1. /\ usedIdx' = Plus(usedIdx, 1) /\ lastUsed' = lastUsed /\ signalled' = signalled
        /\ dpc = "advance" /\ dpc' = "signal" /\ gpc' = gpc /\ irq' = irq /\ noIrq' = noIrq
        /\ usedEvent' = usedEvent /\ useEvent' = useEvent
    BY <1>6 DEF DevAdvance, drvVars
  <2>2. ASSUME gpc = "idle", ~irq, useEvent
        PROVE  Distance(usedIdx', lastUsed) <= Distance(usedIdx', signalled)
    <3>1. lastUsed = usedIdx
      BY <2>1, <2>2 DEF IrqInv
    <3>2. Distance(usedIdx, lastUsed) = 0
      BY <1>0, <3>1, DistanceSteps
    <3>3. /\ head # None
          /\ Distance(availIdx, usedIdx) = Len(Waiting) + Busy(head) + Cardinality(lost)
          /\ Len(Waiting) \in Nat /\ Cardinality(lost) \in Nat
      BY <2>1, <2>2, RingFacts DEF RingInv, HeldRequest, LagInv
    <3>4. Distance(availIdx, usedIdx) >= 1
      BY <3>3 DEF Busy
    <3>5. /\ Distance(availIdx, usedIdx) \in Nat /\ Distance(usedIdx, signalled) \in Nat
          /\ Distance(availIdx, usedIdx) + Distance(usedIdx, signalled) <= MaxLag
          /\ MaxLag \in Nat /\ IdxMod \in Nat /\ Num \in Nat \ {0} /\ Num < IdxMod
      BY <2>2, LagFacts, Sizes
    <3>6. Distance(usedIdx, signalled) + 1 < IdxMod /\ 0 + 1 < IdxMod
      BY <3>4, <3>5
    <3>7. /\ Distance(Plus(usedIdx, 1), lastUsed) = 0 + 1
          /\ Distance(Plus(usedIdx, 1), signalled) = Distance(usedIdx, signalled) + 1
      BY <1>0, <3>2, <3>6, DistanceSteps
    <3> QED BY <2>1, <3>5, <3>7
  <2> QED BY <2>1, <2>2 DEF IrqInv
<1>7. CASE DevSignal
  <2>1. /\ usedIdx' = usedIdx /\ lastUsed' = lastUsed
        /\ gpc' = gpc /\ noIrq' = noIrq /\ (~irq' => ~irq /\ ~ShouldSignal)
        /\ usedEvent' = usedEvent
    BY <1>7 DEF DevSignal, drvVars
  <2>2. ~(gpc = "idle" /\ ~irq' /\ lastUsed # usedIdx)
    BY <2>1, IdleMeansSignal
  <2> QED BY <2>1, <2>2 DEF IrqInv
<1> QED BY <1>1, <1>2, <1>3, <1>4, <1>5, <1>6, <1>7 DEF Next, Driver, Device

\* Neither side sleeps over the other's work: the statement of KicksKept, and when
\* the driver's handler is idle, no interrupt is pending and answers wait, the I/O
\* thread is still about to run virtio_queue__should_signal, which will find that it
\* must interrupt.  The comparison of should_signal is made modulo 2^16: it can only
\* be trusted while fewer requests than that were submitted since the last signal.
THEOREM NotificationsKept ==
  ASSUME MaxLag < IdxMod
  PROVE  Spec => []QueueInv
<1> DEFINE Inv == RingInv /\ KickInv /\ IrqInv /\ LagInv
<1>1. Init => Inv
  BY RingInit, KickInit, IrqInit
<1>2. Inv /\ [Next]_vars => Inv'
  BY RingStep, KickStep, LagStep, IrqStep
<1>3. Inv => QueueInv
  BY ArmedMeansKick, IdleMeansSignal DEF RingInv, KickNotLost, IrqNotLost, QueueInv
<1> QED BY <1>1, <1>2, <1>3, PTL DEF Spec
==============================================================================
