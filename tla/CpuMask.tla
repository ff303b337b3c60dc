------------------------------- MODULE CpuMask -------------------------------
(***************************************************************************)
(* CPU lists: bitmap_parselist turns the list of --vcpu-affinity (or of a  *)
(* PMU's sysfs file) into a bitmap of machine words, for_each_cpu walks    *)
(* it, and find_pmu_cpumask looks for the PMU that all CPUs of the mask    *)
(* share.  The loops over groups and words are steps; the reference is a   *)
(* set of CPUs.  A word is the set of its one bits.                        *)
(***************************************************************************)
EXTENDS Integers, FiniteSets, FiniteSetsExt

CONSTANTS
  WordBits,     \* BITS_PER_LONG
  NrCpus,       \* NR_CPUS
  UintMax,      \* 2^32, where an unsigned int wraps
  CpuNums,      \* bound: the numbers in a list
  MaxRegions    \* bound: the regions of a list

ASSUME CpuMaskAssumption ==
  /\ WordBits \in Nat \ {0} /\ NrCpus \in Nat \ {0} /\ UintMax \in Nat /\ NrCpus < UintMax
  /\ CpuNums \subseteq 0 .. UintMax - 1

VARIABLES
  cmStep,     \* "region", "group", "words", "copy", "search", "end"
  cmErr,      \* 0, or the error of bitmap_parselist
  cmWords,    \* the bitmap
  region,     \* struct region
  regions,    \* regions parsed so far
  at,         \* start, in bitmap_set_region
  word, len, room, ones, \* p, len, bits_to_set, mask_to_set in __bitmap_set
  cpu, cpuset,\* for_each_cpu, vcpu_affinity_cpuset
  pmuCpus,    \* CPUs of the PMUs looked at (no two PMUs share one)
  pmu,        \* "none", "stop" (no PMU can match), or the CPUs of the PMU found
  listed,     \* history: the CPUs the list names
  wraps       \* history: a group size that makes start wrap

parseState == <<cmErr, cmWords, region, regions, at, word, len, room, ones>>
cmVars == <<cmStep, parseState, cpu, cpuset, pmuCpus, pmu, listed, wraps>>

Cpus == 0 .. NrCpus - 1
WordNrs == 0 .. (NrCpus - 1) \div WordBits
AllOnes == 0 .. WordBits - 1
FirstWordMask(start) == (start % WordBits) .. (WordBits - 1)
LastWordMask(nbits) == 0 .. ((nbits - 1) % WordBits)
Bits(words) == {b \in 0 .. (WordBits * Cardinality(WordNrs) - 1) :
                  b % WordBits \in words[b \div WordBits]}
WordsOf(set) == [w \in WordNrs |-> {b \in AllOnes : w * WordBits + b \in set}]
-----------------------------------------------------------------------------
(* bitmap_parselist                                                        *)

NoPattern(a, b) == [start |-> a, end |-> b, off |-> (b + 1) % UintMax,
                    group |-> (b + 1) % UintMax]

\* The regions bitmap_parse_region returns: "a", "a-b", "all", with or without
\* ":off/group".
ParsedRegions ==
  {NoPattern(a, a) : a \in CpuNums}
    \cup {NoPattern(a, b) : a \in CpuNums, b \in CpuNums}
    \cup {NoPattern(0, NrCpus - 1)}
    \cup [start : CpuNums, end : CpuNums \cup {NrCpus - 1}, off : CpuNums, group : CpuNums]

\* bitmap_check_region.
CheckRegion(r) ==
  IF r.start > r.end \/ r.group = 0 \/ r.off > r.group THEN "EINVAL"
  ELSE IF r.end >= NrCpus THEN "ERANGE"
  ELSE "ok"

Reference(r) == {i \in r.start .. r.end : (i - r.start) % r.group < r.off}

\* One turn of the loop of bitmap_parselist: a region, or one that is malformed
\* ("bad"), or the end of the string.
ParseRegion(r) ==
  /\ cmStep = "region" /\ regions < MaxRegions
  /\ regions' = regions + 1
  /\ \/ /\ CheckRegion(r) = "ok"
        /\ region' = r /\ at' = r.start /\ cmStep' = "group"
        /\ listed' = listed \cup Reference(r)
        /\ wraps' = (wraps \/ r.end + r.group >= UintMax)
        /\ UNCHANGED cmErr
     \/ /\ CheckRegion(r) # "ok"
        /\ cmErr' = CheckRegion(r) /\ cmStep' = "end"
        /\ UNCHANGED <<region, at, listed, wraps>>
  /\ UNCHANGED <<cmWords, word, len, room, ones, cpu, cpuset, pmuCpus, pmu>>

BadRegion ==
  /\ cmStep = "region" /\ regions < MaxRegions
  /\ cmErr' \in {"EINVAL", "EOVERFLOW"} /\ cmStep' = "end"
  /\ UNCHANGED <<cmWords, region, regions, at, word, len, room, ones, cpu, cpuset,
                 pmuCpus, pmu, listed, wraps>>

ListEnds ==
  /\ cmStep = "region" /\ cmStep' = "copy"
  /\ UNCHANGED <<parseState, cpu, cpuset, pmuCpus, pmu, listed, wraps>>

\* bitmap_set_region: the next group, clipped to the end of the region.  The locals
\* of the loops are zero outside them.
GroupUnclipped == region.off
GroupLen == Min({region.end - at + 1, region.off})

SetGroup ==
  /\ cmStep = "group"
  /\ \/ /\ at <= region.end
        /\ word' = at \div WordBits /\ len' = GroupLen
        /\ room' = WordBits - (at % WordBits) /\ ones' = FirstWordMask(at)
        /\ cmStep' = "words"
        /\ UNCHANGED <<at, region>>
     \/ /\ at > region.end /\ cmStep' = "region"
        /\ word' = 0 /\ len' = 0 /\ room' = 0 /\ ones' = {}
        /\ at' = 0 /\ region' = NoPattern(0, 0)
  /\ UNCHANGED <<cmErr, cmWords, regions, cpu, cpuset, pmuCpus, pmu,
                 listed, wraps>>

\* __bitmap_set: whole words, then what is left of the last one.
FillsWordTooSoon == len - room >= -1
FillsWord == len - room >= 0

SetWord ==
  /\ cmStep = "words"
  /\ \/ /\ FillsWord
        /\ cmWords' = [cmWords EXCEPT ![word] = @ \cup ones]
        /\ len' = len - room /\ room' = WordBits /\ ones' = AllOnes
        /\ word' = word + 1
        /\ UNCHANGED <<cmStep, at>>
     \/ /\ ~FillsWord
        /\ cmWords' = IF len = 0 THEN cmWords
                      ELSE [cmWords EXCEPT ![word] =
                              @ \cup (ones \cap LastWordMask(at + GroupLen))]
        /\ at' = (at + region.group) % UintMax /\ cmStep' = "group"
        /\ UNCHANGED <<word, len, room, ones>>
  /\ UNCHANGED <<cmErr, region, regions, cpu, cpuset, pmuCpus, pmu, listed, wraps>>
-----------------------------------------------------------------------------
(* The users of a mask                                                     *)

\* _find_next_bit: the first word from start's on that has a bit, the bits of the
\* first word below start left out.
FindNextBit(words, start) ==
  LET tmp(w) == IF w = start \div WordBits THEN words[w] \cap FirstWordMask(start)
                                           ELSE words[w]
      from == {w \in WordNrs : w >= start \div WordBits /\ tmp(w) # {}}
  IN IF start >= NrCpus \/ from = {} THEN NrCpus
     ELSE Min({Min(from) * WordBits + Min(tmp(Min(from))), NrCpus})

\* vcpu_affinity_parser: for_each_cpu, CPU_SET.
CopyCpu ==
  /\ cmStep = "copy"
  /\ LET next == FindNextBit(cmWords, cpu + 1)
     IN \/ /\ next < NrCpus
           /\ cpu' = next /\ cpuset' = cpuset \cup {next} /\ UNCHANGED cmStep
        \/ next >= NrCpus /\ cmStep' = "search" /\ UNCHANGED <<cpu, cpuset>>
  /\ UNCHANGED <<parseState, pmuCpus, pmu, listed, wraps>>

\* bitmap_and, bitmap_subset: whole words, then the masked last one.
WordMask(w) == IF w < NrCpus \div WordBits THEN AllOnes ELSE LastWordMask(NrCpus)
BitmapAnd(a, b) == \E w \in WordNrs : a[w] \cap b[w] \cap WordMask(w) # {}
BitmapSubset(a, b) == \A w \in WordNrs : (a[w] \ b[w]) \cap WordMask(w) = {}

\* find_pmu_cpumask: the next PMU of the directory; its "type" file may fail to
\* open, or read, which ends the search.
TryPmu(cpus) ==
  /\ cmStep = "search" /\ cpus \cap pmuCpus = {}
  /\ pmuCpus' = pmuCpus \cup cpus
  /\ LET mask == WordsOf(cpuset)
         theirs == WordsOf(cpus)
     IN \/ ~BitmapAnd(mask, theirs) /\ UNCHANGED <<cmStep, pmu>>
        \/ /\ BitmapAnd(mask, theirs) /\ ~BitmapSubset(mask, theirs)
           /\ cmStep' = "end" /\ pmu' = <<"stop">>
        \/ /\ BitmapAnd(mask, theirs) /\ BitmapSubset(mask, theirs)
           /\ \/ cmStep' = "end" /\ pmu' = <<"found", cpus>>
              \/ UNCHANGED <<cmStep, pmu>>
              \/ cmStep' = "end" /\ UNCHANGED pmu
  /\ UNCHANGED <<parseState, cpu, cpuset, listed, wraps>>
-----------------------------------------------------------------------------
CmaskInit ==
  /\ cmStep = "region" /\ cmErr = "ok"
  /\ cmWords = [w \in WordNrs |-> {}]
  /\ region = NoPattern(0, 0) /\ regions = 0 /\ at = 0
  /\ word = 0 /\ len = 0 /\ room = 0 /\ ones = {}
  /\ cpu = -1 /\ cpuset = {}
  /\ pmuCpus = {} /\ pmu = <<"none">>
  /\ listed = {} /\ wraps = FALSE

CmaskNext ==
  \/ \E r \in ParsedRegions : ParseRegion(r)
  \/ BadRegion \/ ListEnds \/ SetGroup \/ SetWord \/ CopyCpu
  \/ \E cpus \in SUBSET Cpus : TryPmu(cpus)

CmaskSpec == CmaskInit /\ [][CmaskNext]_cmVars
-----------------------------------------------------------------------------
(* Properties                                                              *)

\* Between two regions the bitmap holds the CPUs the list has named, as the comment
\* of bitmap_parselist defines them, over the word boundaries and with a last word
\* that is partly used.
MaskTrue ==
  cmStep \in {"region", "copy", "search"} /\ ~wraps => Bits(cmWords) = listed

\* The affinity set gets every CPU of the list and no other, and the PMU that is
\* chosen serves all of them; a search that is given up would not have found one
\* among the PMUs left (find_pmu_cpumask, the comment on disjoint PMUs).
PmuRight ==
  ~wraps =>
    /\ cmStep = "search" => cpuset = listed
    /\ pmu[1] = "found" => cpuset \subseteq pmu[2]
    /\ pmu[1] = "stop" => ~(cpuset \subseteq Cpus \ pmuCpus)

CpuMaskInv == MaskTrue /\ PmuRight

\* bitmap_parselist: "From each group will be used only defined amount of bits".
\* The same, also for a group size that makes the unsigned start wrap.
ListTrue ==
  cmStep \in {"region", "copy", "search"} => Bits(cmWords) = listed
=============================================================================
