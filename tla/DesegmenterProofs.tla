-------------------------- MODULE DesegmenterProofs -------------------------
(***************************************************************************)
(* The desegmenter for every number of threads, message length, word width *)
(* and segmentation.                                                       *)
(*                                                                         *)
(* No marked byte is ever forgotten.  MarkedIsCopied is not inductive      *)
(* alone: a scan step must know that its carried start lies below the word *)
(* it scans and that it has no range left to copy (Scanning), and both     *)
(* rest on the types (TypeInv); CopyInv is their conjunction.              *)
(*                                                                         *)
(* The memory is taken once, again whatever the segments: OnceInv bounds   *)
(* the count from below, which is all that Completes needs.                *)
(*                                                                         *)
(* Ranges are exclusive, the message is taken whole and nothing is lost    *)
(* when segments do not overlap and no two threads are at work on copies   *)
(* of one (SpecApart); segments may cross words and be repeated at will.   *)
(* One thread, as in recv_mut, is a special case.  Two calls on one copy   *)
(* at once break all three: MC_DesegmenterWords.  ShareInv says why a      *)
(* range to be copied is new, CountInv that bytes are counted once, and    *)
(* DoneInv which call takes the memory.                                    *)
(***************************************************************************)
EXTENDS Desegmenter, WellFoundedInduction, TLAPS

\* A leaf that names no prover is tried with these, in this order.
USE SMTT(10), Zenon, Z3T(30)

\* A non-empty set of naturals has a least element.
LEMMA NatMin ==
    ASSUME NEW T \in SUBSET Nat, T # {}
    PROVE  \E x \in T : \A y \in T : x <= y
<1> DEFINE R == OpToRel(<, Nat)
<1>1. IsWellFoundedOn(R, Nat)
  BY NatLessThanWellFounded, Zenon
<1>2. PICK x \in T : \A y \in T : ~(<<y, x>> \in R)
  <2> HIDE DEF R
  <2> QED
    BY <1>1, WFMin, Zenon
<1>3. \A y \in T : ~(y < x)
  BY <1>2, Zenon DEF OpToRel
<1> QED
  BY <1>3

\* Every byte of a set lies in a maximal run of it.
LEMMA RunsCover ==
    ASSUME NEW S \in SUBSET Bytes, NEW x \in S
    PROVE  \E r \in Runs(S) : x \in RangeBytes(r)
<1> DEFINE Up == {y \in Nat : y > x /\ y \notin S}
           Down == {n \in Nat : x - n \notin S}
<1>1. x \in Nat /\ x < Len /\ Len \in Nat
  BY SizeAssumption DEF Bytes
<1>2. PICK hi \in Up : \A y \in Up : hi <= y
  <2>1. Len \in Up
    BY <1>1 DEF Bytes
  <2> QED
    BY <2>1, NatMin, Zenon
<1>3. PICK n \in Down : \A y \in Down : n <= y
  <2>1. x + 1 \in Down
    BY <1>1 DEF Bytes
  <2> QED
    BY <2>1, NatMin, Zenon
<1> DEFINE lo == x - n + 1
<1>4. n > 0 /\ lo \in Int /\ lo <= x /\ lo - 1 \notin S
  BY <1>1, <1>3
<1>5. \A y \in lo..(hi - 1) : y \in S
  <2> SUFFICES ASSUME NEW y \in lo..(hi - 1), y \notin S PROVE FALSE
    OBVIOUS
  <2>1. CASE y > x
    BY <2>1, <1>1, <1>2, <1>4
  <2>2. CASE y <= x
    <3>1. x - y \in Down
      BY <2>2, <1>1, <1>4
    <3> QED
      BY <3>1, <1>1, <1>3
  <2> QED
    BY <2>1, <2>2, <1>1
<1>6. lo \in S /\ hi - 1 \in S /\ lo < hi
  BY <1>1, <1>2, <1>4, <1>5
<1> HIDE DEF lo
<1> DEFINE r == Span(lo, hi)
<1>7. r.lo = lo /\ r.hi = hi /\ r \in [lo : S, hi : {b + 1 : b \in S}]
  <2>1. hi = (hi - 1) + 1
    BY <1>2
  <2>2. hi \in {b + 1 : b \in S}
    BY <2>1, <1>6
  <2> QED
    BY <2>2, <1>6 DEF Span
<1>8. x \in lo..(hi - 1)
  BY <1>1, <1>2, <1>4
<1> HIDE DEF r
<1>9. r \in Runs(S)
  BY <1>2, <1>4, <1>5, <1>6, <1>7 DEF Runs, RangeBytes
<1> QED
  BY <1>7, <1>8, <1>9 DEF RangeBytes

\* What membership in Runs(S) means.
LEMMA RunFacts ==
    ASSUME NEW S \in SUBSET Bytes, NEW r \in Runs(S)
    PROVE  /\ r \in [lo : Bytes, hi : 1..Len]
           /\ r.lo \in Nat /\ r.hi \in Nat /\ r.lo < r.hi /\ r.hi <= Len
           /\ r.lo \in S /\ r.hi - 1 \in S
           /\ RangeBytes(r) \subseteq S
           /\ r.lo - 1 \notin S /\ r.hi \notin S
           /\ r = Span(r.lo, r.hi)
<1>1. /\ r \in [lo : S, hi : {b + 1 : b \in S}]
      /\ r.lo < r.hi /\ RangeBytes(r) \subseteq S /\ r.lo - 1 \notin S /\ r.hi \notin S
  BY DEF Runs
<1>2. r.lo \in S /\ r = Span(r.lo, r.hi)
  BY <1>1 DEF Span
<1>3. PICK b \in S : r.hi = b + 1
  BY <1>1
<1>4. r.lo \in Bytes /\ b \in Bytes /\ Len \in Nat
  BY <1>2, SizeAssumption
<1>5. r.hi \in 1..Len /\ r.hi - 1 \in S /\ r.lo \in Nat
  BY <1>3, <1>4 DEF Bytes
<1>6. Span(r.lo, r.hi) \in [lo : Bytes, hi : 1..Len]
  BY <1>2, <1>5 DEF Span
<1> QED
  BY <1>1, <1>2, <1>5, <1>6

\* Two different maximal runs have no byte in common.
LEMMA RunsDisjoint ==
    ASSUME NEW S \in SUBSET Bytes, NEW r \in Runs(S), NEW q \in Runs(S), r # q
    PROVE  RangeBytes(r) \intersect RangeBytes(q) = {}
<1> SUFFICES ASSUME NEW x \in RangeBytes(r), x \in RangeBytes(q) PROVE FALSE
  OBVIOUS
<1>1. /\ r.lo \in Nat /\ r.hi \in Nat /\ r.lo <= x /\ x < r.hi /\ x \in Int
      /\ q.lo \in Nat /\ q.hi \in Nat /\ q.lo <= x /\ x < q.hi
  BY RunFacts DEF RangeBytes
<1>2. /\ \A y \in r.lo..(r.hi - 1) : y \in S
      /\ \A y \in q.lo..(q.hi - 1) : y \in S
      /\ r.lo - 1 \notin S /\ r.hi \notin S /\ q.lo - 1 \notin S /\ q.hi \notin S
  BY RunFacts DEF RangeBytes
<1>3. r.lo = q.lo
  BY <1>1, <1>2
<1>4. r.hi = q.hi
  BY <1>1, <1>2
<1> QED
  BY <1>3, <1>4, RunFacts
-----------------------------------------------------------------------------

\* Words of the bit set are consecutive blocks of WIDTH bytes.
LEMMA BaseFacts ==
    ASSUME NEW k \in Nat, NEW j \in Nat
    PROVE  Base(k) \in Nat /\ (k < j => Base(k) + WIDTH <= Base(j))
<1>1. WIDTH \in Nat /\ k * WIDTH \in Nat /\ j * WIDTH \in Nat
  BY SizeAssumption
<1>2. ASSUME k < j PROVE k * WIDTH + WIDTH <= j * WIDTH
  <2>1. j * WIDTH = k * WIDTH + (j - k) * WIDTH /\ (j - k) * WIDTH >= WIDTH
    BY <1>1, <1>2
  <2> QED
    BY <2>1, <1>1
<1> QED
  BY <1>1, <1>2 DEF Base

\* A byte lies in the word that division by WIDTH gives.
LEMMA DivFacts ==
    ASSUME NEW n \in Nat
    PROVE  /\ n \div WIDTH \in Nat
           /\ Base(n \div WIDTH) <= n /\ n < Base(n \div WIDTH) + WIDTH
  BY SizeAssumption DEF Base

\* Where a segment begins and ends, in bytes and in words.
LEMMA SegFacts ==
    ASSUME NEW ss \in Segmentations, NEW s \in ss
    PROVE  /\ s.off \in Nat /\ SegEnd(s) \in Nat /\ s.off < SegEnd(s) /\ SegEnd(s) <= Len
           /\ SegBytes(s) \subseteq Bytes
           /\ FirstWord(s) \in Nat /\ LastWord(s) \in Nat /\ FirstWord(s) <= LastWord(s)
           /\ Base(FirstWord(s)) <= s.off
           /\ Base(LastWord(s)) < SegEnd(s) /\ SegEnd(s) <= Base(LastWord(s)) + WIDTH
<1>1. s.off \in Nat /\ s.len \in Nat \ {0} /\ s.off + s.len <= Len /\ Len \in Nat
      /\ WIDTH \in Nat \ {0}
  BY SizeAssumption
<1>2. SegEnd(s) \in Nat /\ s.off < SegEnd(s) /\ SegEnd(s) <= Len /\ SegBytes(s) \subseteq Bytes
  BY <1>1 DEF SegEnd, SegBytes, Bytes
<1>3. /\ FirstWord(s) \in Nat /\ LastWord(s) \in Nat
      /\ Base(FirstWord(s)) <= s.off
      /\ Base(LastWord(s)) <= SegEnd(s) - 1 /\ SegEnd(s) - 1 < Base(LastWord(s)) + WIDTH
  BY <1>1, <1>2, DivFacts DEF FirstWord, LastWord
<1>4. FirstWord(s) <= LastWord(s)
  <2> SUFFICES ASSUME LastWord(s) < FirstWord(s) PROVE FALSE
    BY <1>3
  <2>1. Base(LastWord(s)) + WIDTH <= Base(FirstWord(s))
    BY <1>3, BaseFacts
  <2> QED
    BY <1>1, <1>2, <1>3, <2>1, BaseFacts
<1> QED
  BY <1>1, <1>2, <1>3, <1>4, BaseFacts

-----------------------------------------------------------------------------

\* One word of a call: k is the word, m the bits before the fetch_or, st the carried
\* start, which points below the word.
WordStep(s, k, m, st) ==
    /\ \E ss \in Segmentations : s \in ss
    /\ k \in Nat /\ FirstWord(s) <= k /\ k <= LastWord(s)
    /\ m \in SUBSET Bytes
    /\ st \in Bytes \union {None}
    /\ st # None => st < Base(k)

\* The bytes that one fetch_or finds new lie in the word, the segment and the message.
LEMMA NewFacts ==
    ASSUME NEW s, NEW k, NEW m, NEW st, WordStep(s, k, m, st)
    PROVE  /\ NewBytes(s, k, m) \in SUBSET Bytes
           /\ NewBytes(s, k, m) \intersect m = {}
           /\ Base(k) \in Nat /\ WIDTH \in Nat \ {0} /\ Base(k) < Len
           /\ SegEnd(s) \in Nat /\ Base(k) < SegEnd(s) /\ SegEnd(s) <= Len
           /\ \A b \in NewBytes(s, k, m) :
                b \in Nat /\ Base(k) <= b /\ b < TopOf(k) /\ b < SegEnd(s) /\ s.off <= b
<1>1. PICK ss \in Segmentations : s \in ss
  BY DEF WordStep
<1>2. NewBytes(s, k, m) \subseteq SegBytes(s)
  BY DEF NewBytes
<1>3. Base(k) \in Nat /\ WIDTH \in Nat \ {0} /\ Len \in Nat
  BY BaseFacts, SizeAssumption DEF WordStep
<1>4. Base(k) < Len /\ SegEnd(s) \in Nat /\ Base(k) < SegEnd(s) /\ SegEnd(s) <= Len
  <2>1. k = LastWord(s) \/ Base(k) + WIDTH <= Base(LastWord(s))
    BY <1>1, SegFacts, BaseFacts DEF WordStep
  <2> QED
    BY <2>1, <1>1, <1>3, SegFacts, BaseFacts
<1>5. \A b \in NewBytes(s, k, m) :
        b \in Int /\ Base(k) <= b /\ b < TopOf(k) /\ b < SegEnd(s) /\ s.off <= b
  BY <1>1, <1>3, SegFacts DEF NewBytes, Word, TopOf, SegBytes
<1> QED
  BY <1>1, <1>2, <1>3, <1>4, <1>5, SegFacts DEF NewBytes

\* The ranges passed to f are well formed and contain, with the carried start, every
\* new byte and every byte carried so far.
LEMMA PassedFacts ==
    ASSUME NEW s, NEW k, NEW m, NEW st, WordStep(s, k, m, st),
           NEW S, S = NewBytes(s, k, m)
    PROVE  /\ \A r \in Passed(k, S, st) :
                r \in [lo : Bytes, hi : 1..Len] /\ r.lo < r.hi
           /\ Carried(k, S, st) \in Bytes \union {None}
           /\ Carried(k, S, st) # None => Carried(k, S, st) < SegEnd(s) /\ Carried(k, S, st) < TopOf(k)
           /\ \A b \in S :
                \/ \E r \in Passed(k, S, st) : b \in RangeBytes(r)
                \/ Carried(k, S, st) # None /\ Carried(k, S, st) <= b
           /\ st # None => \A b \in st..(Base(k) - 1) :
                \/ \E r \in Passed(k, S, st) : b \in RangeBytes(r)
                \/ Carried(k, S, st) # None /\ Carried(k, S, st) <= b
<1>1. /\ S \in SUBSET Bytes
      /\ Base(k) \in Nat /\ WIDTH \in Nat \ {0} /\ Base(k) < Len /\ Len \in Nat
      /\ \A b \in S : b \in Nat /\ Base(k) <= b /\ b < TopOf(k) /\ b < SegEnd(s)
      /\ TopOf(k) = Base(k) + WIDTH /\ SegEnd(s) \in Nat /\ Base(k) < SegEnd(s)
  BY NewFacts, SizeAssumption DEF TopOf
<1>2. st \in Bytes \union {None} /\ (st # None => st \in Nat /\ st < Base(k)) /\ None \notin Nat
  BY DEF WordStep, Bytes, None
<1>3. \A r \in Runs(S) :
        /\ r \in [lo : Bytes, hi : 1..Len]
        /\ r.lo \in Nat /\ r.hi \in Nat /\ r.lo < r.hi /\ r.hi <= Len
        /\ r.lo \in S /\ Base(k) <= r.lo /\ r.lo < TopOf(k) /\ r.lo < SegEnd(s)
  BY <1>1, RunFacts
<1> DEFINE C(r) == Continued(k, r, st)
<1>4. ASSUME NEW r \in Runs(S)
      PROVE  /\ C(r) \in [lo : Bytes, hi : 1..Len]
             /\ C(r).hi = r.hi /\ C(r).lo <= r.lo /\ C(r).lo \in Bytes /\ C(r).lo \in Nat
             /\ r.lo = Base(k) /\ st # None => C(r).lo = st
  <2>1. CASE r.lo = Base(k) /\ st # None
    BY <2>1, <1>2, <1>3 DEF Continued, Span
  <2>2. CASE ~(r.lo = Base(k) /\ st # None)
    BY <2>2, <1>2, <1>3 DEF Continued
  <2> QED
    BY <2>1, <2>2
<1> HIDE DEF C
<1>5. \A r \in Runs(S) : r.hi # TopOf(k) => C(r) \in Passed(k, S, st)
  BY DEF Passed, C
<1>6. S # {} /\ Base(k) \notin S /\ st # None => Span(st, Base(k)) \in Passed(k, S, st)
  BY DEF Passed
<1>7. \A r \in Passed(k, S, st) :
        \/ \E q \in Runs(S) : r = C(q)
        \/ st # None /\ S # {} /\ r = Span(st, Base(k))
  BY DEF Passed, C
<1>8. \A r \in Passed(k, S, st) : r \in [lo : Bytes, hi : 1..Len] /\ r.lo < r.hi
  <2> SUFFICES ASSUME NEW r \in Passed(k, S, st)
               PROVE  r \in [lo : Bytes, hi : 1..Len] /\ r.lo < r.hi
    OBVIOUS
  <2>1. CASE \E q \in Runs(S) : r = C(q)
    <3>1. PICK q \in Runs(S) : r = C(q)
      BY <2>1
    <3>2. C(q).hi = q.hi /\ C(q).lo <= q.lo /\ C(q).lo \in Nat /\ q.lo \in Nat /\ q.hi \in Nat /\ q.lo < q.hi
      BY <1>3, <1>4
    <3>3. C(q).lo < C(q).hi
      BY <3>2
    <3> QED
      BY <3>1, <3>3, <1>4
  <2>2. CASE st # None /\ S # {} /\ r = Span(st, Base(k))
    BY <2>2, <1>1, <1>2 DEF Span, Bytes
  <2> QED
    BY <2>1, <2>2, <1>7
<1> DEFINE top == {r \in Runs(S) : r.hi = TopOf(k)}
           c == Carried(k, S, st)
<1>9. ASSUME NEW r \in top PROVE c = C(r).lo
  <2>1. \A q \in top : q = r
    <3> SUFFICES ASSUME NEW q \in top, q # r PROVE FALSE
      OBVIOUS
    <3>1. RangeBytes(q) \intersect RangeBytes(r) = {}
      BY <1>1, RunsDisjoint
    <3>2. TopOf(k) - 1 \in RangeBytes(q) /\ TopOf(k) - 1 \in RangeBytes(r)
      BY <1>1, <1>3 DEF RangeBytes
    <3> QED
      BY <3>1, <3>2
  <2>2. (CHOOSE q \in top : TRUE) = r
    BY <2>1
  <2>3. S # {}
    BY <1>3
  <2> QED
    BY <2>2, <2>3, Zenon DEF Carried, C
<1>10. top = {} /\ S # {} => c = None
  BY DEF Carried
<1>11. S = {} => c = st
  BY DEF Carried
<1>12. c \in Bytes \union {None} /\ (c # None => c < SegEnd(s) /\ c < TopOf(k))
  <2>1. CASE \E r \in top : TRUE
    <3>1. PICK r \in top : TRUE
      BY <2>1, Zenon
    <3>2. c = C(r).lo /\ C(r).lo <= r.lo /\ C(r).lo \in Bytes /\ C(r).lo \in Nat
      BY <3>1, <1>4, <1>9
    <3>3. r.lo \in Nat /\ r.lo < SegEnd(s) /\ r.lo < TopOf(k)
      BY <3>1, <1>3
    <3> QED
      BY <3>2, <3>3, <1>1
  <2>2. CASE top = {} /\ S # {}
    BY <2>2, <1>10
  <2>3. CASE S = {}
    BY <2>3, <1>1, <1>2, <1>11
  <2> QED
    BY <2>1, <2>2, <2>3
<1>13. ASSUME NEW r \in Runs(S), NEW b \in Nat, C(r).lo <= b, b < r.hi
       PROVE  (\E q \in Passed(k, S, st) : b \in RangeBytes(q)) \/ (c # None /\ c <= b)
  <2>1. CASE r.hi = TopOf(k)
    BY <2>1, <1>2, <1>4, <1>9, <1>13
  <2>2. CASE r.hi # TopOf(k)
    <3>1. b \in RangeBytes(C(r))
      BY <1>3, <1>4, <1>13 DEF RangeBytes
    <3> QED
      BY <3>1, <2>2, <1>5, Zenon
  <2> QED
    BY <2>1, <2>2
<1>14. ASSUME NEW b \in S
       PROVE  (\E q \in Passed(k, S, st) : b \in RangeBytes(q)) \/ (c # None /\ c <= b)
  <2>1. PICK r \in Runs(S) : b \in RangeBytes(r)
    BY <1>1, RunsCover
  <2>2. b \in Nat /\ r.lo <= b /\ b < r.hi /\ r.lo \in Nat
    BY <2>1, <1>1, <1>3 DEF RangeBytes
  <2>3. C(r).lo <= b
    BY <2>2, <1>4
  <2> QED
    BY <2>2, <2>3, <1>13
<1>15. ASSUME st # None, NEW b \in st..(Base(k) - 1)
       PROVE  (\E q \in Passed(k, S, st) : b \in RangeBytes(q)) \/ (c # None /\ c <= b)
  <2>0. b \in Nat /\ st <= b /\ b < Base(k)
    BY <1>1, <1>2, <1>15
  <2>1. CASE S = {}
    BY <2>0, <2>1, <1>11, <1>15
  <2>2. CASE S # {} /\ Base(k) \notin S
    <3>1. b \in RangeBytes(Span(st, Base(k)))
      BY <2>0, <1>1, <1>2, <1>15 DEF RangeBytes, Span
    <3> QED
      BY <3>1, <2>2, <1>6, <1>15
  <2>3. CASE Base(k) \in S
    <3>1. PICK r \in Runs(S) : Base(k) \in RangeBytes(r)
      BY <2>3, <1>1, RunsCover, Zenon
    <3>2. r.lo = Base(k) /\ Base(k) < r.hi
      BY <3>1, <1>1, <1>3 DEF RangeBytes
    <3>3. C(r).lo = st /\ b < r.hi
      BY <3>2, <2>0, <1>1, <1>3, <1>4, <1>15
    <3> QED
      BY <3>3, <2>0, <1>13
  <2> QED
    BY <2>1, <2>2, <2>3
<1> HIDE DEF c
<1>16. c = Carried(k, S, st)
  BY DEF c
<1> QED
  BY <1>8, <1>12, <1>14, <1>15, <1>16

-----------------------------------------------------------------------------
(* No marked byte is forgotten, whatever the segmentation.                 *)

Ranges == {r \in [lo : Bytes, hi : 1..Len] : r.lo < r.hi}

\* Types without the bounds on the counts, which only the second part needs.
TypeInv ==
    /\ segs \in Segmentations
    /\ marked \in SUBSET Bytes
    /\ pc \in [Threads -> {"idle", "scan", "copy", "add", "take"}]
    /\ seg \in [Threads -> Segments \union {NoSeg}]
    /\ word \in [Threads -> Nat \union {None}]
    /\ start \in [Threads -> Bytes \union {None}]
    /\ pending \in [Threads -> SUBSET Ranges]

\* Where a thread is in its segment.
Control(t) ==
    /\ pc[t] = "scan" => word[t] # None
    /\ pc[t] \in {"idle", "add", "take"} => word[t] = None
    /\ word[t] = None => start[t] = None
    /\ word[t] # None =>
        /\ seg[t] \in segs
        /\ FirstWord(seg[t]) <= word[t] /\ word[t] <= LastWord(seg[t])
        /\ start[t] # None => start[t] < Base(word[t])
    /\ pc[t] # "copy" => pending[t] = {}

Scanning == \A t \in Threads : Control(t)

CopyInv == TypeInv /\ Scanning /\ MarkedIsCopied

\* The loop over the words of a segment moves forward and ends at the last word.
LEMMA NextWordFacts ==
    ASSUME NEW s, NEW k \in Nat, LastWord(s) \in Nat, k < LastWord(s)
    PROVE  NextWord(s, k) \in Nat /\ k < NextWord(s, k) /\ NextWord(s, k) <= LastWord(s)
  BY DEF NextWord

\* A thread that is about to scan satisfies the hypotheses of the word lemmas.
LEMMA ScanIsWordStep ==
    ASSUME TypeInv, Scanning, NEW t \in Threads, pc[t] = "scan"
    PROVE  WordStep(seg[t], word[t], marked, start[t]) /\ pending[t] = {}
  BY Zenon DEF TypeInv, Scanning, Control, WordStep

\* What CheckAndSetBits(t) leaves in t's part of the state, and that no byte it
\* marked or carried is dropped.
LEMMA ScanFacts ==
    ASSUME TypeInv, Scanning, NEW t \in Threads, CheckAndSetBits(t)
    PROVE  /\ marked' \in SUBSET Bytes
           /\ start'[t] \in Bytes \union {None}
           /\ word'[t] \in Nat \union {None}
           /\ pending'[t] \in SUBSET Ranges
           /\ word'[t] = None => start'[t] = None
           /\ word'[t] # None =>
                /\ FirstWord(seg[t]) <= word'[t] /\ word'[t] <= LastWord(seg[t])
                /\ start'[t] # None => start'[t] < Base(word'[t])
           /\ \A b \in (marked' \ marked) \union
                  (IF start[t] # None THEN start[t]..(Base(word[t]) - 1) ELSE {}) :
                \/ \E r \in pending'[t] : b \in RangeBytes(r)
                \/ /\ start'[t] # None /\ word'[t] # None
                   /\ start'[t] <= b /\ b < Base(word'[t])
<1> DEFINE s == seg[t]
           k == word[t]
           st == start[t]
           S == NewBytes(s, k, marked)
           c == Carried(k, S, st)
           last == k = LastWord(s)
           nx == IF last THEN None ELSE NextWord(s, k)
           ps == Passed(k, S, st) \union (IF last THEN Rest(s, c) ELSE {})
<1>1. WordStep(s, k, marked, st) /\ pending[t] = {}
  BY ScanIsWordStep, Zenon DEF CheckAndSetBits
<1>2. /\ marked' = marked \union S
      /\ start'[t] = IF last THEN None ELSE c
      /\ word'[t] = nx
      /\ pending'[t] = ps
  BY Zenon DEF CheckAndSetBits, TypeInv
<1>3. /\ S \in SUBSET Bytes /\ S \intersect marked = {}
      /\ Base(k) \in Nat /\ WIDTH \in Nat \ {0}
      /\ SegEnd(s) \in Nat /\ Base(k) < SegEnd(s) /\ SegEnd(s) <= Len /\ Len \in Nat
      /\ \A b \in S : b \in Nat /\ b < TopOf(k) /\ b < SegEnd(s)
  BY <1>1, NewFacts, SizeAssumption
<1>4. /\ k \in Nat /\ LastWord(s) \in Nat /\ FirstWord(s) \in Nat
      /\ FirstWord(s) <= k /\ k <= LastWord(s)
  BY <1>1, SegFacts, Zenon DEF WordStep
<1>5. /\ \A r \in Passed(k, S, st) : r \in Ranges
      /\ c \in Bytes \union {None}
      /\ c # None => c < SegEnd(s) /\ c < TopOf(k)
      /\ \A b \in S : (\E r \in Passed(k, S, st) : b \in RangeBytes(r)) \/ (c # None /\ c <= b)
      /\ st # None => \A b \in st..(Base(k) - 1) :
            (\E r \in Passed(k, S, st) : b \in RangeBytes(r)) \/ (c # None /\ c <= b)
  BY <1>1, PassedFacts DEF Ranges
<1>6. c # None => c \in Nat
  BY <1>5 DEF Bytes
<1>7. ~last => nx \in Nat /\ k < nx /\ nx <= LastWord(s) /\ TopOf(k) <= Base(nx) /\ Base(nx) \in Nat
  BY <1>4, NextWordFacts, BaseFacts DEF TopOf
<1>8. None \notin Nat
  BY DEF None
<1>9. TopOf(k) \in Nat
  BY <1>3 DEF TopOf
<1> HIDE DEF s, k, st, S, c, last
<1>10. Rest(s, c) \in SUBSET Ranges
  BY <1>3, <1>5, <1>6 DEF Rest, Ranges, Span, Bytes
<1>11. ps \in SUBSET Ranges
  BY <1>5, <1>10, Zenon
<1>12. ASSUME NEW b \in Nat, b < SegEnd(s), b < TopOf(k),
              (\E r \in Passed(k, S, st) : b \in RangeBytes(r)) \/ (c # None /\ c <= b)
       PROVE  \/ \E r \in ps : b \in RangeBytes(r)
              \/ ~last /\ c # None /\ c <= b /\ b < Base(nx)
  <2>1. CASE \E r \in Passed(k, S, st) : b \in RangeBytes(r)
    BY <2>1
  <2>2. CASE c # None /\ c <= b /\ ~last
    BY <2>2, <1>7, <1>9, <1>12
  <2>3. CASE c # None /\ c <= b /\ last
    <3>1. Span(c, SegEnd(s)) \in ps
      BY <2>3 DEF Rest
    <3>2. b \in RangeBytes(Span(c, SegEnd(s)))
      BY <2>3, <1>3, <1>6, <1>12 DEF RangeBytes, Span
    <3> QED
      BY <3>1, <3>2
  <2> QED
    BY <2>1, <2>2, <2>3, <1>12
<1>13. \A b \in S : b \in Nat /\ b < SegEnd(s) /\ b < TopOf(k)
  BY <1>3
<1>14. ASSUME st # None, NEW b \in st..(Base(k) - 1)
       PROVE  b \in Nat /\ b < SegEnd(s) /\ b < TopOf(k)
  <2>1. st \in Nat
    BY <1>1, <1>14 DEF WordStep, Bytes
  <2> QED
    BY <2>1, <1>3, <1>14 DEF TopOf
<1> HIDE DEF ps
<1>15. \A b \in S \union (IF st # None THEN st..(Base(k) - 1) ELSE {}) :
         \/ \E r \in ps : b \in RangeBytes(r)
         \/ ~last /\ c # None /\ c <= b /\ b < Base(nx)
  BY <1>5, <1>12, <1>13, <1>14, Zenon
<1>16. marked' \ marked \subseteq S /\ marked' \in SUBSET Bytes
  BY <1>2, <1>3, Zenon DEF TypeInv
<1>17. word'[t] # None => ~last
  BY <1>2, Zenon
<1>18. ~last => word'[t] # None /\ start'[t] = c /\ word'[t] = nx
  BY <1>2, <1>7, <1>8, Zenon
<1>19. last => word'[t] = None /\ start'[t] = None
  BY <1>2, Zenon
<1>20. ~last /\ c # None => c < Base(nx)
  BY <1>5, <1>6, <1>7, <1>9
<1>21. st = start[t] /\ k = word[t] /\ s = seg[t]
  BY Zenon DEF st, k, s
<1>22. pending'[t] = ps
  BY <1>2, Zenon
<1> HIDE DEF nx
<1>23. \A b \in (marked' \ marked) \union (IF st # None THEN st..(Base(k) - 1) ELSE {}) :
         \/ \E r \in pending'[t] : b \in RangeBytes(r)
         \/ start'[t] # None /\ word'[t] # None /\ start'[t] <= b /\ b < Base(word'[t])
  BY <1>15, <1>16, <1>18, <1>22, Zenon
<1>24. /\ start'[t] \in Bytes \union {None}
       /\ word'[t] \in Nat \union {None}
       /\ word'[t] = None => start'[t] = None
       /\ word'[t] # None => /\ FirstWord(s) <= word'[t] /\ word'[t] <= LastWord(s)
                             /\ start'[t] # None => start'[t] < Base(word'[t])
  BY <1>4, <1>5, <1>7, <1>17, <1>18, <1>19, <1>20
<1> QED
  BY <1>11, <1>16, <1>21, <1>22, <1>23, <1>24, Zenon

\* try_new starts with no bit set.
LEMMA InitCopyInv == Init => CopyInv
<1> SUFFICES ASSUME Init PROVE CopyInv
  OBVIOUS
<1>1. TypeInv
  BY DEF Init, TypeInv
<1>2. Scanning
  BY DEF Init, Scanning, Control
<1>3. MarkedIsCopied
  BY Zenon DEF Init, MarkedIsCopied
<1> QED
  BY <1>1, <1>2, <1>3 DEF CopyInv

\* Types and control, one step per action.
LEMMA StepScanning ==
    ASSUME TypeInv, Scanning, [Next]_vars
    PROVE  TypeInv' /\ Scanning'
<1>1. ASSUME NEW t \in Threads, NEW s \in segs, Begin(t, s)
      PROVE  TypeInv' /\ Scanning'
  <2>0. /\ FirstWord(s) \in Nat /\ LastWord(s) \in Nat /\ FirstWord(s) <= LastWord(s)
        /\ s \in Segments /\ None \notin Nat
    BY SegFacts DEF TypeInv, Segments, None
  <2>1. TypeInv'
    BY <1>1, <2>0, Zenon DEF Begin, TypeInv
  <2>2. word[t] = None /\ start[t] = None /\ pending[t] = {}
    BY <1>1 DEF Begin, Scanning, Control
  <2>3. ASSUME NEW u \in Threads PROVE Control(u)'
    <3>1. CASE u = t
      BY <3>1, <1>1, <2>0, <2>2 DEF Begin, TypeInv, Control
    <3>2. CASE u # t
      BY <3>2, <1>1 DEF Begin, TypeInv, Scanning, Control
    <3> QED
      BY <3>1, <3>2, Zenon
  <2> QED
    BY <2>1, <2>3 DEF Scanning
<1>2. ASSUME NEW t \in Threads, CheckAndSetBits(t)
      PROVE  TypeInv' /\ Scanning'
  <2>0. /\ seg' = seg /\ segs' = segs /\ pc[t] = "scan"
        /\ pc' = [pc EXCEPT ![t] = After(pending'[t], word'[t])]
        /\ \A u \in Threads \ {t} :
            word'[u] = word[u] /\ start'[u] = start[u] /\ pending'[u] = pending[u]
        /\ word' = [word EXCEPT ![t] = word'[t]]
        /\ start' = [start EXCEPT ![t] = start'[t]]
        /\ pending' = [pending EXCEPT ![t] = pending'[t]]
    BY <1>2, Zenon DEF CheckAndSetBits, TypeInv
  <2>1. TypeInv'
    BY <2>0, <1>2, ScanFacts DEF TypeInv, After
  <2>2. ASSUME NEW u \in Threads PROVE Control(u)'
    <3>1. CASE u = t
      <4>1. seg[t] \in segs
        BY <2>0 DEF Scanning, Control
      <4>2. pc'[t] = After(pending'[t], word'[t])
        BY <2>0, Zenon DEF TypeInv
      <4> QED
        BY <3>1, <4>1, <4>2, <2>0, <1>2, ScanFacts DEF Control, After
    <3>2. CASE u # t
      <4>1. pc'[u] = pc[u]
        BY <3>2, <2>0 DEF TypeInv
      <4> QED
        BY <3>2, <4>1, <2>0, Zenon DEF Scanning, Control
    <3> QED
      BY <3>1, <3>2, Zenon
  <2> QED
    BY <2>1, <2>2, Zenon DEF Scanning
<1>3. ASSUME NEW t \in Threads, NEW r \in pending[t], Copy(t, r)
      PROVE  TypeInv' /\ Scanning'
  <2>1. TypeInv'
    BY <1>3 DEF Copy, TypeInv, After
  <2>2. ASSUME NEW u \in Threads PROVE Control(u)'
    <3>1. CASE u = t
      BY <3>1, <1>3, Zenon DEF Copy, TypeInv, Scanning, Control, After
    <3>2. CASE u # t
      BY <3>2, <1>3, Zenon DEF Copy, TypeInv, Scanning, Control
    <3> QED
      BY <3>1, <3>2, Zenon
  <2> QED
    BY <2>1, <2>2, Zenon DEF Scanning
<1>4. ASSUME NEW t \in Threads, FetchAdd(t)
      PROVE  TypeInv' /\ Scanning'
  BY <1>4, Zenon DEF FetchAdd, TypeInv, Scanning, Control
<1>5. ASSUME NEW t \in Threads, Take(t)
      PROVE  TypeInv' /\ Scanning'
  BY <1>5, Zenon DEF Take, TypeInv, Scanning, Control
<1>6. CASE UNCHANGED vars
  BY <1>6 DEF vars, TypeInv, Scanning, Control
<1> QED
  BY <1>1, <1>2, <1>3, <1>4, <1>5, <1>6 DEF Next, TryNew, Recv

\* Every step of every thread keeps the inductive invariant.
LEMMA StepCopyInv == CopyInv /\ [Next]_vars => CopyInv'
<1> SUFFICES ASSUME CopyInv, [Next]_vars PROVE CopyInv'
  OBVIOUS
<1>0. TypeInv /\ Scanning /\ MarkedIsCopied
  BY Zenon DEF CopyInv
<1>1. ASSUME NEW t \in Threads, NEW s \in segs, Begin(t, s)
      PROVE  MarkedIsCopied'
  <2>1. word[t] = None /\ pending' = pending /\ start' = start /\ marked' = marked
        /\ written' = written
    BY <1>0, <1>1, Zenon DEF Begin, Scanning, Control
  <2>2. \A u \in Threads : u # t => word'[u] = word[u]
    BY <1>0, <1>1, Zenon DEF Begin, TypeInv
  <2> QED
    BY <1>0, <2>1, <2>2, Zenon DEF MarkedIsCopied
<1>2. ASSUME NEW t \in Threads, CheckAndSetBits(t)
      PROVE  MarkedIsCopied'
  <2>0. /\ written' = written /\ pending[t] = {}
        /\ \A u \in Threads \ {t} :
            word'[u] = word[u] /\ start'[u] = start[u] /\ pending'[u] = pending[u]
    BY <1>0, <1>2, ScanIsWordStep, Zenon DEF CheckAndSetBits, TypeInv
  <2> SUFFICES ASSUME NEW b \in marked' \ written
               PROVE  \E u \in Threads :
                        \/ \E r \in pending'[u] : b \in RangeBytes(r)
                        \/ /\ start'[u] # None /\ word'[u] # None
                           /\ start'[u] <= b /\ b < Base(word'[u])
    BY <2>0, Zenon DEF MarkedIsCopied
  <2>1. CASE b \notin marked
    BY <2>1, <1>0, <1>2, ScanFacts, Zenon
  <2>2. CASE b \in marked
    <3>1. PICK u \in Threads :
            \/ \E r \in pending[u] : b \in RangeBytes(r)
            \/ start[u] # None /\ word[u] # None /\ start[u] <= b /\ b < Base(word[u])
      BY <2>2, <1>0, Zenon DEF MarkedIsCopied
    <3>2. CASE u # t
      BY <3>1, <3>2, <2>0, Zenon
    <3>3. CASE u = t
      <4>1. start[t] # None /\ start[t] <= b /\ b < Base(word[t]) /\ word[t] \in Nat
        BY <3>1, <3>3, <2>0, <1>0, Zenon DEF TypeInv
      <4>2. b \in Nat /\ start[t] \in Nat /\ Base(word[t]) \in Nat
        BY <4>1, <2>2, <1>0, BaseFacts DEF TypeInv, Bytes
      <4>3. b \in start[t]..(Base(word[t]) - 1)
        BY <4>1, <4>2
      <4> QED
        BY <4>1, <4>3, <1>0, <1>2, ScanFacts, Zenon
    <3> QED
      BY <3>2, <3>3
  <2> QED
    BY <2>1, <2>2, Zenon
<1>3. ASSUME NEW t \in Threads, NEW r \in pending[t], Copy(t, r)
      PROVE  MarkedIsCopied'
  BY <1>0, <1>3, Zenon DEF Copy, MarkedIsCopied, TypeInv
<1>4. ASSUME NEW t \in Threads, FetchAdd(t) \/ Take(t)
      PROVE  MarkedIsCopied'
  BY <1>0, <1>4, Zenon DEF FetchAdd, Take, MarkedIsCopied
<1>5. ASSUME UNCHANGED vars PROVE MarkedIsCopied'
  <2>1. UNCHANGED <<marked, written, pending, start, word>>
    BY <1>5 DEF vars
  <2> QED
    BY <1>0, <2>1 DEF MarkedIsCopied
<1>6. MarkedIsCopied'
  <2>1. CASE Next
    <3>1. PICK t \in Threads :
            \/ \E s \in segs : Begin(t, s)
            \/ CheckAndSetBits(t)
            \/ \E r \in pending[t] : Copy(t, r)
            \/ FetchAdd(t) \/ Take(t)
      BY <2>1 DEF Next, TryNew, Recv
    <3> QED
      BY <3>1, <1>1, <1>2, <1>3, <1>4, Zenon
  <2> QED
    BY <2>1, <1>5, Zenon
<1>7. TypeInv' /\ Scanning'
  BY <1>0, StepScanning
<1> QED
  BY <1>6, <1>7 DEF CopyInv

\* A byte whose bit check_and_set_bits has set is in the memory or is still going to
\* be copied by a running call, for any segmentation and any interleaving: a byte that
\* later calls skip as already set is never left out.
THEOREM MarkedNeverForgotten == Spec => []MarkedIsCopied
<1>1. CopyInv => MarkedIsCopied
  BY Zenon DEF CopyInv
<1> QED
  BY InitCopyInv, StepCopyInv, <1>1, PTL DEF Spec

-----------------------------------------------------------------------------
(* The memory is taken once, whatever the segmentation.                    *)

\* The control points do not depend on which of try_new and recv was called.
LEMMA BeginFacts ==
    ASSUME TypeInv, NEW t \in Threads, NEW s \in segs, TryNew(t, s) \/ Recv(t, s)
    PROVE  /\ pc[t] = "idle" /\ pc'[t] = "scan" /\ \A u \in Threads \ {t} : pc'[u] = pc[u]
           /\ UNCHANGED <<marked, total_set, written, received, start, pending, cur, copied>>
           /\ \A u \in Threads \ {t} : seg'[u] = seg[u]
           /\ \/ mem = "absent" /\ mem' = "building"
              \/ mem \in {"some", "taken"} /\ mem' = mem
BY DEF TryNew, Recv, Begin, TypeInv

\* The counts only grow, so that the length is reached once at most.
OnceInv ==
    /\ mem \in {"absent", "building", "some", "taken"}
    /\ total_set \in Nat /\ cur \in [Threads -> Nat]
    /\ mem = "absent" => \A t \in Threads : pc[t] = "idle"
    /\ \A t \in Threads : pc[t] = "take" => mem = "some" /\ Len <= total_set
    /\ \A t, u \in Threads : pc[t] = "take" /\ pc[u] = "take" => t = u
    /\ mem = "taken" => Len <= total_set

\* OnceInv, one step per action.
LEMMA OnceStep ==
    ASSUME TypeInv, OnceInv, [Next]_vars
    PROVE  OnceInv'
<1>0. /\ mem \in {"absent", "building", "some", "taken"}
      /\ total_set \in Nat /\ cur \in [Threads -> Nat] /\ Len \in Nat
      /\ mem = "absent" => \A t \in Threads : pc[t] = "idle"
      /\ \A t \in Threads : pc[t] = "take" => mem = "some" /\ Len <= total_set
      /\ \A t, u \in Threads : pc[t] = "take" /\ pc[u] = "take" => t = u
      /\ mem = "taken" => Len <= total_set
  BY SizeAssumption, Zenon DEF OnceInv
<1>1. ASSUME NEW t \in Threads, NEW s \in segs, TryNew(t, s) \/ Recv(t, s) PROVE OnceInv'
  <2>1. /\ pc[t] = "idle" /\ pc'[t] = "scan" /\ \A u \in Threads \ {t} : pc'[u] = pc[u]
        /\ total_set' = total_set /\ cur' = cur
        /\ \/ mem = "absent" /\ mem' = "building"
           \/ mem \in {"some", "taken"} /\ mem' = mem
    BY <1>1, BeginFacts, Zenon
  <2> QED
    BY <1>0, <2>1, ZenonT(60) DEF OnceInv
<1>2. ASSUME NEW t \in Threads, NEW p, p # "take", p # "idle", pc[t] # "take", pc[t] # "idle", pc' = [pc EXCEPT ![t] = p],
             UNCHANGED <<mem, total_set>>, cur' \in [Threads -> Nat]
      PROVE  OnceInv'
  <2>1. pc'[t] = p /\ \A u \in Threads \ {t} : pc'[u] = pc[u]
    BY <1>2, Zenon DEF TypeInv
  <2> QED
    BY <1>0, <1>2, <2>1, ZenonT(60) DEF OnceInv
<1>3. ASSUME NEW t \in Threads, CheckAndSetBits(t) PROVE OnceInv'
  <2>1. PICK p : p \in {"copy", "scan", "add"} /\ pc' = [pc EXCEPT ![t] = p]
    BY <1>3, Zenon DEF CheckAndSetBits, After
  <2>2. pc[t] = "scan" /\ UNCHANGED <<mem, total_set>> /\ cur' \in [Threads -> Nat]
    BY <1>0, <1>3, Zenon DEF CheckAndSetBits
  <2>3. pc[t] # "take" /\ pc[t] # "idle" /\ p # "take" /\ p # "idle"
    BY <2>1, <2>2, Zenon
  <2> QED
    BY <1>2, <2>1, <2>2, <2>3, Zenon
<1>4. ASSUME NEW t \in Threads, NEW r \in pending[t], Copy(t, r) PROVE OnceInv'
  <2>1. PICK p : p \in {"copy", "scan", "add"} /\ pc' = [pc EXCEPT ![t] = p]
    BY <1>4, Zenon DEF Copy, After
  <2>2. r \in Ranges
    BY Zenon DEF TypeInv
  <2>3. RangeLen(r) \in Nat
    BY <2>2, SizeAssumption DEF Ranges, Bytes, RangeLen
  <2>4. cur' = [cur EXCEPT ![t] = cur[t] + RangeLen(r)]
    BY <1>4, Zenon DEF Copy
  <2>5. cur' \in [Threads -> Nat]
    <3>1. PICK v : v = RangeLen(r)
      OBVIOUS
    <3>2. cur[t] + v \in Nat
      BY <1>0, <2>3, <3>1
    <3> QED
      BY <1>0, <2>4, <3>1, <3>2, ZenonT(60)
  <2> QED
    BY <1>2, <1>4, <2>1, <2>5, ZenonT(60) DEF Copy
<1>5. ASSUME NEW t \in Threads, FetchAdd(t) PROVE OnceInv'
  <2>1. /\ pc[t] = "add" /\ total_set' = total_set + cur[t]
        /\ mem' = IF mem = "building" THEN "some" ELSE mem
        /\ pc'[t] = IF cur[t] > 0 /\ total_set + cur[t] = Len THEN "take" ELSE "idle"
        /\ \A u \in Threads \ {t} : pc'[u] = pc[u]
        /\ cur' = [cur EXCEPT ![t] = 0]
    BY <1>5, ZenonT(60) DEF FetchAdd, Completes, TypeInv
  <2>2. cur[t] \in Nat /\ cur' \in [Threads -> Nat]
    BY <1>0, <2>1
  <2>3. /\ total_set' \in Nat /\ (Len <= total_set => Len <= total_set')
        /\ pc'[t] = "take" => Len <= total_set' /\ ~(Len <= total_set)
        /\ pc'[t] \in {"take", "idle"}
    BY <1>0, <2>1, <2>2
  <2>4. mem # "absent"
    BY <1>0, <2>1, Zenon
  <2>5. mem' \in {"some", "taken"} /\ (mem' = "taken" <=> mem = "taken")
    BY <1>0, <2>1, <2>4, ZenonT(60)
  <2>6. CASE pc'[t] = "take"
    BY <1>0, <2>1, <2>2, <2>3, <2>5, <2>6, ZenonT(60) DEF OnceInv
  <2>7. CASE pc'[t] = "idle"
    <3>1. \A u \in Threads : pc'[u] = "take" => mem' = "some"
      BY <1>0, <2>1, <2>5, <2>7, ZenonT(60)
    <3> QED
      BY <1>0, <2>1, <2>2, <2>3, <2>5, <2>7, <3>1, ZenonT(60) DEF OnceInv
  <2> QED
    BY <2>3, <2>6, <2>7, Zenon
<1>6. ASSUME NEW t \in Threads, Take(t) PROVE OnceInv'
  <2>1. /\ pc[t] = "take" /\ total_set' = total_set /\ mem' = "taken" /\ pc'[t] = "idle" /\ cur' = cur
        /\ \A u \in Threads \ {t} : pc'[u] = pc[u]
    BY <1>6, Zenon DEF Take, TypeInv
  <2> QED
    BY <1>0, <2>1, ZenonT(60) DEF OnceInv
<1>7. ASSUME UNCHANGED vars PROVE OnceInv'
  BY <1>0, <1>7, ZenonT(60) DEF vars, OnceInv
<1> QED
  BY <1>1, <1>3, <1>4, <1>5, <1>6, <1>7, ZenonT(60) DEF Next

\* TakenOnce for any segments, overlapping, repeated and received at once: whatever a call
\* counts twice, total_set passes the length once only (desegmenter.rs:133-137), so that no
\* second thread finds the memory gone where it is unwrapped unchecked.
THEOREM NeverTakenTwice == Spec => []TakenOnce
<1>1. Init => OnceInv
  <2> SUFFICES ASSUME Init PROVE OnceInv
    OBVIOUS
  <2>1. total_set \in Nat /\ cur \in [Threads -> Nat]
    BY SMTT(30) DEF Init
  <2>2. mem = "absent" /\ \A t \in Threads : pc[t] = "idle"
    BY Zenon DEF Init
  <2> QED
    BY <2>1, <2>2, ZenonT(30) DEF OnceInv
<1>2. CopyInv /\ OnceInv /\ [Next]_vars => OnceInv'
  BY OnceStep, Zenon DEF CopyInv
<1>3. OnceInv => TakenOnce
  BY Zenon DEF OnceInv, TakenOnce
<1> QED
  BY InitCopyInv, StepCopyInv, <1>1, <1>2, <1>3, PTL DEF Spec

-----------------------------------------------------------------------------
(* Segments that cross words, shared out among threads.                    *)

\* Segments do not overlap.
Disjoint ==
    \A ss \in Segmentations : \A s, q \in ss : s # q => SegBytes(s) \cap SegBytes(q) = {}

\* The words that the loop over the words of a segment visits.
ScanWords(s) ==
    {k \in FirstWord(s)..LastWord(s) : k \in {FirstWord(s), LastWord(s)} \/ k + 1 < LastWord(s)}

\* A segment none of whose bytes was received, and one that was received: the words the loop
\* visits are marked, and every byte is copied.
Fresh(s) == SegBytes(s) \cap marked = {} /\ SegBytes(s) \cap written = {}

Seen(s) ==
    /\ SegBytes(s) \subseteq written
    /\ \A j \in ScanWords(s) : SegBytes(s) \cap Word(j) \subseteq marked

\* A call that receives s for the first time carries its first byte from word to word.
FirstTime(s, k, st) ==
    /\ SegBytes(s) \cap written = {}
    /\ \A b \in SegBytes(s) : Base(k) <= b => b \notin marked
    /\ \A j \in ScanWords(s) : j < k => SegBytes(s) \cap Word(j) \subseteq marked
    /\ st = IF k = FirstWord(s) THEN None ELSE s.off

Scans(s, k, st) == k \in ScanWords(s) /\ (FirstTime(s, k, st) \/ (Seen(s) /\ st = None))

\* A call that is to copy its segment whole.
Copies(s, k, p) ==
    /\ s \in segs /\ k = None /\ p = {Span(s.off, SegEnd(s))} /\ SegBytes(s) \cap written = {}
    /\ \A j \in ScanWords(s) : SegBytes(s) \cap Word(j) \subseteq marked

\* What a call knows of its own segment.
CallOK(t) ==
    /\ pc[t] = "scan" => Scans(seg[t], word[t], start[t])
    /\ pc[t] = "copy" => Copies(seg[t], word[t], pending[t])
    /\ pc[t] = "add" => Seen(seg[t])

AtWork(t, s) == pc[t] \in {"scan", "copy"} /\ seg[t] = s

\* A segment is received, untouched, or in the hands of a thread.
Placed(s) == Seen(s) \/ Fresh(s) \/ \E t \in Threads : AtWork(t, s)

ShareInv ==
    /\ written \in SUBSET Bytes
    /\ \A s \in segs : Placed(s)
    /\ \A t \in Threads : CallOK(t)
    /\ \A s \in received : Seen(s)

\* An interval is its only run.
LEMMA OneRun ==
    ASSUME NEW lo \in Nat, NEW hi \in Nat, lo < hi, hi <= Len, NEW S, S = lo..(hi - 1)
    PROVE  Runs(S) = {Span(lo, hi)}
<1>1. Len \in Nat /\ S \in SUBSET Bytes
  BY SizeAssumption DEF Bytes
<1>2. Span(lo, hi) \in Runs(S)
  <2>1. PICK r : r = Span(lo, hi)
    OBVIOUS
  <2>2. r.lo = lo /\ r.hi = hi /\ hi = (hi - 1) + 1 /\ hi - 1 \in S /\ lo \in S
    BY <2>1 DEF Span
  <2>3. r \in [lo : S, hi : {b + 1 : b \in S}]
    BY <2>1, <2>2 DEF Span
  <2> QED
    BY <2>1, <2>2, <2>3 DEF Runs, RangeBytes
<1>3. ASSUME NEW r \in Runs(S) PROVE r = Span(lo, hi)
  <2>1. /\ r.lo \in S /\ r.hi - 1 \in S /\ r.lo - 1 \notin S /\ r.hi \notin S /\ r = Span(r.lo, r.hi)
        /\ r.lo \in Nat /\ r.hi \in Nat
    BY <1>1, RunFacts
  <2>2. r.lo = lo /\ r.hi = hi
    BY <2>1
  <2> QED
    BY <2>1, <2>2
<1> QED
  BY <1>2, <1>3

\* A word whose only run of new bytes is q passes it, or carries its start to the next word when
\* the run reaches the end of the word.
PassesRun(k, S, st, q) ==
    /\ q.hi # TopOf(k) => Passed(k, S, st) = {Continued(k, q, st)} /\ Carried(k, S, st) = None
    /\ q.hi = TopOf(k) => Passed(k, S, st) = {} /\ Carried(k, S, st) = Continued(k, q, st).lo

\* What is passed and carried when the new bytes of a word are an interval.
LEMMA IntervalPassed ==
    ASSUME NEW k, NEW S, NEW q, NEW st, Runs(S) = {q} /\ (st # None => Base(k) \in S)
    PROVE  PassesRun(k, S, st, q)
<1>1. S # {}
  BY DEF Runs
<1>2. Passed(k, S, st) = {Continued(k, v, st) : v \in {w \in Runs(S) : w.hi # TopOf(k)}}
  BY Zenon DEF Passed
<1>3. CASE q.hi # TopOf(k)
  <2>1. {v \in Runs(S) : v.hi # TopOf(k)} = {q} /\ {v \in Runs(S) : v.hi = TopOf(k)} = {}
    BY <1>3
  <2>2. Passed(k, S, st) = {Continued(k, q, st)}
    BY <1>2, <2>1, Zenon
  <2>3. Carried(k, S, st) = None
    BY <1>1, <2>1, Zenon DEF Carried
  <2> QED
    BY <1>3, <2>2, <2>3 DEF PassesRun
<1>4. CASE q.hi = TopOf(k)
  <2>1. {v \in Runs(S) : v.hi # TopOf(k)} = {} /\ {v \in Runs(S) : v.hi = TopOf(k)} = {q}
    BY <1>4
  <2>2. Passed(k, S, st) = {}
    BY <1>2, <2>1, Zenon
  <2>3. (CHOOSE v \in {q} : TRUE) = q
    OBVIOUS
  <2>4. Carried(k, S, st) = Continued(k, q, st).lo
    BY <1>1, <2>1, <2>3, ZenonT(60) DEF Carried
  <2> QED
    BY <1>4, <2>2, <2>4, Zenon DEF PassesRun
<1> QED
  BY <1>3, <1>4, Zenon

\* The words of a segment and its bytes in them.
LEMMA WordBytes ==
    ASSUME NEW ss \in Segmentations, NEW s \in ss, NEW k \in ScanWords(s)
    PROVE  /\ k \in Nat /\ FirstWord(s) <= k /\ k <= LastWord(s)
           /\ Base(k) \in Nat /\ TopOf(k) \in Nat /\ Base(k) < TopOf(k)
           /\ k = FirstWord(s) => Base(k) <= s.off /\ s.off < TopOf(k)
           /\ k # FirstWord(s) => s.off < Base(k)
           /\ k = LastWord(s) => Base(k) < SegEnd(s) /\ SegEnd(s) <= TopOf(k)
           /\ k # LastWord(s) => TopOf(k) < SegEnd(s)
<1>1. /\ s.off \in Nat /\ SegEnd(s) \in Nat /\ s.off < SegEnd(s) /\ SegEnd(s) <= Len
      /\ FirstWord(s) \in Nat /\ LastWord(s) \in Nat /\ FirstWord(s) <= LastWord(s)
      /\ Base(FirstWord(s)) <= s.off
      /\ Base(LastWord(s)) < SegEnd(s) /\ SegEnd(s) <= Base(LastWord(s)) + WIDTH
  BY SegFacts, Zenon
<1>2. k \in Nat /\ FirstWord(s) <= k /\ k <= LastWord(s)
  BY <1>1 DEF ScanWords
<1>3. Base(k) \in Nat /\ TopOf(k) = Base(k) + WIDTH /\ WIDTH \in Nat \ {0}
  BY <1>2, BaseFacts, SizeAssumption, Zenon DEF TopOf
<1>4. s.off < Base(FirstWord(s)) + WIDTH
  BY <1>1, DivFacts, Zenon DEF FirstWord
<1>5. k # FirstWord(s) => Base(FirstWord(s)) + WIDTH <= Base(k)
  BY <1>1, <1>2, BaseFacts
<1>6. k # LastWord(s) => Base(k) + WIDTH <= Base(LastWord(s))
  BY <1>1, <1>2, BaseFacts
<1>7. Base(FirstWord(s)) \in Nat /\ Base(LastWord(s)) \in Nat
  BY <1>1, BaseFacts, Zenon
<1>8. k = FirstWord(s) => Base(k) <= s.off /\ s.off < TopOf(k)
  BY <1>1, <1>3, <1>4, ZenonT(60)
<1>9. k # FirstWord(s) => s.off < Base(k)
  BY <1>1, <1>3, <1>4, <1>5, <1>7
<1>10. k = LastWord(s) => Base(k) < SegEnd(s) /\ SegEnd(s) <= TopOf(k)
  BY <1>1, <1>3, ZenonT(60)
<1>11. k # LastWord(s) => TopOf(k) < SegEnd(s)
  BY <1>1, <1>3, <1>6, <1>7
<1> QED
  BY <1>2, <1>3, <1>8, <1>9, <1>10, <1>11

\* The loop goes from one of these words to the next.
LEMMA NextScan ==
    ASSUME NEW ss \in Segmentations, NEW s \in ss, NEW k \in ScanWords(s), k # LastWord(s)
    PROVE  LET n == NextWord(s, k) IN
           /\ n \in ScanWords(s) /\ k < n /\ n # FirstWord(s) /\ TopOf(k) <= Base(n)
           /\ \A j \in ScanWords(s) : j < n => j <= k
<1>1. FirstWord(s) \in Nat /\ LastWord(s) \in Nat
  BY SegFacts
<1>2. k \in Nat /\ FirstWord(s) <= k /\ k < LastWord(s)
  BY <1>1 DEF ScanWords
<1>3. PICK n : n = NextWord(s, k)
  OBVIOUS
<1>4. n \in Nat /\ n \in ScanWords(s) /\ k < n
  BY <1>1, <1>2, <1>3 DEF NextWord, ScanWords
<1>5. \A j \in ScanWords(s) : j < n => j <= k
  BY <1>1, <1>2, <1>3 DEF NextWord, ScanWords
<1>6. TopOf(k) <= Base(n)
  BY <1>2, <1>4, BaseFacts DEF TopOf
<1>7. n # FirstWord(s)
  BY <1>1, <1>2, <1>4
<1> QED
  BY <1>3, <1>4, <1>5, <1>6, <1>7, Zenon

\* A word of a segment that is received for the first time.
LEMMA FreshWord ==
    ASSUME NEW ss \in Segmentations, NEW s \in ss, NEW k \in ScanWords(s), NEW m, NEW st,
           \A b \in SegBytes(s) : Base(k) <= b => b \notin m,
           st = IF k = FirstWord(s) THEN None ELSE s.off,
           NEW S, S = NewBytes(s, k, m)
    PROVE  /\ S = SegBytes(s) \cap Word(k)
           /\ k # LastWord(s) => Passed(k, S, st) = {} /\ Carried(k, S, st) = s.off
           /\ k = LastWord(s) => Passed(k, S, st) \cup Rest(s, Carried(k, S, st)) = {Span(s.off, SegEnd(s))}
<1>1. /\ k \in Nat /\ FirstWord(s) <= k /\ k <= LastWord(s)
      /\ Base(k) \in Nat /\ TopOf(k) \in Nat /\ Base(k) < TopOf(k)
      /\ k = FirstWord(s) => Base(k) <= s.off /\ s.off < TopOf(k)
      /\ k # FirstWord(s) => s.off < Base(k)
      /\ k = LastWord(s) => Base(k) < SegEnd(s) /\ SegEnd(s) <= TopOf(k)
      /\ k # LastWord(s) => TopOf(k) < SegEnd(s)
  BY WordBytes, Zenon
<1>2. s.off \in Nat /\ SegEnd(s) \in Nat /\ s.off < SegEnd(s) /\ SegEnd(s) <= Len /\ Len \in Nat
  BY SegFacts, SizeAssumption, Zenon
<1>3. PICK lo \in Nat, hi \in Nat : /\ lo = IF k = FirstWord(s) THEN s.off ELSE Base(k)
                                    /\ hi = IF k = LastWord(s) THEN SegEnd(s) ELSE TopOf(k)
  BY <1>1, <1>2, ZenonT(60)
<1>4. lo < hi /\ hi <= Len
  BY <1>1, <1>2, <1>3
<1>5. SegBytes(s) \cap Word(k) = lo..(hi - 1)
  <2>1. \A b : b \in SegBytes(s) <=> b \in Int /\ s.off <= b /\ b < SegEnd(s)
    BY <1>2 DEF SegBytes
  <2>2. \A b : b \in Word(k) <=> b \in Int /\ Base(k) <= b /\ b < TopOf(k)
    <3>1. TopOf(k) = Base(k) + WIDTH /\ WIDTH \in Nat
      BY SizeAssumption, ZenonT(60) DEF TopOf
    <3> QED
      BY <1>1, <3>1 DEF Word
  <2>3. \A b \in Int : lo <= b <=> s.off <= b /\ Base(k) <= b
    BY <1>1, <1>2, <1>3
  <2>4. \A b \in Int : b < hi <=> b < SegEnd(s) /\ b < TopOf(k)
    BY <1>1, <1>2, <1>3
  <2>5. \A b : b \in lo..(hi - 1) <=> b \in Int /\ lo <= b /\ b < hi
    OBVIOUS
  <2> QED
    BY <2>1, <2>2, <2>3, <2>4, <2>5, ZenonT(60)
<1>6. S = SegBytes(s) \cap Word(k)
  <2>1. \A b \in Word(k) : Base(k) <= b
    BY <1>1 DEF Word
  <2> QED
    BY <2>1, Zenon DEF NewBytes
<1>7. s.off # None
  BY <1>2 DEF None
<1>8. PICK q, r : q = Span(lo, hi) /\ r = Continued(k, q, st)
  BY Zenon
<1>9. r = Span(s.off, hi) /\ r.lo = s.off /\ q.hi = hi
  BY <1>3, <1>7, <1>8, Zenon DEF Continued, Span
<1>10. Runs(S) = {q} /\ (st # None => Base(k) \in S)
  <2>1. S = lo..(hi - 1)
    BY <1>5, <1>6, Zenon
  <2>2. lo < hi /\ hi <= Len /\ (st # None => Base(k) = lo)
    BY <1>3, <1>4, Zenon
  <2>3. Runs(S) = {Span(lo, hi)}
    BY <2>1, <2>2, OneRun, Zenon
  <2>4. lo \in S
    BY <2>1, <2>2
  <2> QED
    BY <1>8, <2>2, <2>3, <2>4, Zenon
<1>11. /\ hi # TopOf(k) => Passed(k, S, st) = {r} /\ Carried(k, S, st) = None
       /\ hi = TopOf(k) => Passed(k, S, st) = {} /\ Carried(k, S, st) = r.lo
  <2>1. /\ q.hi # TopOf(k) => Passed(k, S, st) = {r} /\ Carried(k, S, st) = None
        /\ q.hi = TopOf(k) => Passed(k, S, st) = {} /\ Carried(k, S, st) = r.lo
    <3>1. PassesRun(k, S, st, q)
      BY <1>10, IntervalPassed, Zenon
    <3> QED
      BY <1>8, <3>1, Zenon DEF PassesRun
  <2> QED
    BY <1>9, <2>1
<1>12. CASE k # LastWord(s)
  BY <1>3, <1>6, <1>9, <1>11, <1>12, Zenon
<1>13. CASE k = LastWord(s) /\ hi = TopOf(k)
  BY <1>3, <1>6, <1>7, <1>9, <1>11, <1>13, ZenonT(60) DEF Rest
<1>14. CASE k = LastWord(s) /\ hi # TopOf(k)
  BY <1>3, <1>6, <1>9, <1>11, <1>14, ZenonT(60) DEF Rest
<1> QED
  BY <1>12, <1>13, <1>14, Zenon

\* A word of a segment that was received before.
LEMMA SeenWord ==
    ASSUME NEW s, NEW k, NEW m, SegBytes(s) \cap Word(k) \subseteq m
    PROVE  LET S == NewBytes(s, k, m) IN
           S = {} /\ Passed(k, S, None) = {} /\ Carried(k, S, None) = None /\ Rest(s, None) = {}
<1>1. NewBytes(s, k, m) = {}
  BY Zenon DEF NewBytes
<1>2. Runs({}) = {}
  BY Zenon DEF Runs
<1>3. Passed(k, {}, None) = {}
  BY <1>2 DEF Passed
<1> QED
  BY <1>1, <1>3 DEF Carried, Rest

\* A step marks or copies bytes of segment s only.
Confined(s) ==
    /\ marked \subseteq marked' /\ marked' \subseteq marked \cup SegBytes(s)
    /\ written \subseteq written' /\ written' \subseteq written \cup SegBytes(s)
    /\ segs' = segs

\* Such a step leaves what is known of every other segment.
LEMMA OthersKept ==
    ASSUME NEW s, NEW q, Confined(s), SegBytes(q) \cap SegBytes(s) = {}
    PROVE  /\ Seen(q) => Seen(q)'
           /\ Fresh(q) => Fresh(q)'
           /\ \A k, st : Scans(q, k, st) => Scans(q, k, st)'
           /\ \A k, p : Copies(q, k, p) => Copies(q, k, p)'
<1>0. /\ marked \subseteq marked' /\ marked' \subseteq marked \cup SegBytes(s)
      /\ written \subseteq written' /\ written' \subseteq written \cup SegBytes(s)
      /\ segs' = segs
  BY Zenon DEF Confined
<1>1. Seen(q) => Seen(q)'
  BY <1>0, Zenon DEF Seen
<1>2. Fresh(q) => Fresh(q)'
  BY <1>0, Zenon DEF Fresh
<1>3. ASSUME NEW k, NEW st, FirstTime(q, k, st) PROVE FirstTime(q, k, st)'
  <2>1. /\ SegBytes(q) \cap written = {}
        /\ \A b \in SegBytes(q) : Base(k) <= b => b \notin marked
        /\ \A j \in ScanWords(q) : j < k => SegBytes(q) \cap Word(j) \subseteq marked
        /\ st = IF k = FirstWord(q) THEN None ELSE q.off
    BY <1>3, ZenonT(60) DEF FirstTime
  <2>2. /\ SegBytes(q) \cap written' = {}
        /\ \A b \in SegBytes(q) : Base(k) <= b => b \notin marked'
        /\ \A j \in ScanWords(q) : j < k => SegBytes(q) \cap Word(j) \subseteq marked'
    BY <1>0, <2>1, ZenonT(60)
  <2> QED
    BY <2>1, <2>2, ZenonT(60) DEF FirstTime
<1>4. \A k, st : Scans(q, k, st) => Scans(q, k, st)'
  BY <1>1, <1>3, ZenonT(60) DEF Scans
<1>5. \A k, p : Copies(q, k, p) => Copies(q, k, p)'
  BY <1>0, ZenonT(60) DEF Copies
<1> QED
  BY <1>1, <1>2, <1>4, <1>5, Zenon

\* A segment in somebody's hands is one of the sender's.
LEMMA OwnSegment ==
    ASSUME TypeInv, Scanning, ShareInv, NEW t \in Threads, pc[t] \in {"scan", "copy"}
    PROVE  seg[t] \in segs
<1>1. CASE pc[t] = "scan"
  BY <1>1, Zenon DEF Scanning, Control
<1>2. CASE pc[t] = "copy"
  BY <1>2, Zenon DEF ShareInv, CallOK, Copies
<1> QED
  BY <1>1, <1>2, Zenon

\* The part of ShareInv that is not about the thread t that moves, nor its segment s.
LEMMA ShareStep ==
    ASSUME Disjoint, TypeInv, Scanning, NoCopies, ShareInv, NEW t \in Threads, NEW s \in segs, AtWork(t, s),
           Confined(s), received' = received, seg' = seg,
           \A u \in Threads \ {t} : /\ pc'[u] = pc[u] /\ word'[u] = word[u]
                                     /\ start'[u] = start[u] /\ pending'[u] = pending[u],
           written' \in SUBSET Bytes, \A q : Seen(q) => Seen(q)', CallOK(t)', Placed(s)'
    PROVE  ShareInv'
<1>0. segs \in Segmentations /\ segs' = segs
  BY Zenon DEF TypeInv, Confined
<1>1. \A q \in segs : q # s => SegBytes(q) \cap SegBytes(s) = {}
  BY <1>0, Zenon DEF Disjoint
<1>2. ASSUME NEW q \in segs, q # s PROVE Placed(q)'
  <2>1. SegBytes(q) \cap SegBytes(s) = {}
    BY <1>1, <1>2, Zenon
  <2>2. (Seen(q) => Seen(q)') /\ (Fresh(q) => Fresh(q)')
    BY <2>1, OthersKept, ZenonT(60)
  <2>3. ASSUME NEW u \in Threads, AtWork(u, q) PROVE AtWork(u, q)'
    <3>1. u # t
      BY <1>2, <2>3, Zenon DEF AtWork
    <3> QED
      BY <2>3, <3>1, Zenon DEF AtWork
  <2>4. Placed(q)
    BY Zenon DEF ShareInv
  <2> QED
    BY <2>2, <2>3, <2>4, ZenonT(60) DEF Placed
<1>3. ASSUME NEW u \in Threads \ {t} PROVE CallOK(u)'
  <2>1. /\ pc'[u] = pc[u] /\ word'[u] = word[u] /\ start'[u] = start[u] /\ pending'[u] = pending[u]
        /\ seg'[u] = seg[u] /\ CallOK(u)
    BY <1>3, Zenon DEF ShareInv
  <2>2. CASE pc[u] \in {"scan", "copy"}
    <3>1. seg[u] \in segs /\ seg[u] # s
      BY <2>2, OwnSegment, Zenon DEF NoCopies, AtWork
    <3>2. PICK q : q = seg[u] /\ SegBytes(q) \cap SegBytes(s) = {}
      BY <1>1, <3>1, Zenon
    <3>3. /\ Scans(q, word[u], start[u]) => Scans(q, word[u], start[u])'
          /\ Copies(q, word[u], pending[u]) => Copies(q, word[u], pending[u])'
      <4>1. PICK k, st, p : k = word[u] /\ st = start[u] /\ p = pending[u]
        BY ZenonT(60)
      <4>2. (Scans(q, k, st) => Scans(q, k, st)') /\ (Copies(q, k, p) => Copies(q, k, p)')
        BY <3>2, OthersKept, ZenonT(60)
      <4> QED
        BY <2>1, <4>1, <4>2
    <3> QED
      BY <2>1, <2>2, <3>2, <3>3, ZenonT(60) DEF CallOK
  <2>3. CASE pc[u] \notin {"scan", "copy"}
    BY <2>1, <2>3, Zenon DEF CallOK
  <2> QED
    BY <2>2, <2>3
<1>4. \A q \in received' : Seen(q)'
  BY Zenon DEF ShareInv
<1> QED
  BY <1>0, <1>2, <1>3, <1>4, ZenonT(60) DEF ShareInv

\* The scan of a word.
LEMMA ShareScan ==
    ASSUME Disjoint, TypeInv, Scanning, NoCopies, ShareInv, NEW t \in Threads, CheckAndSetBits(t)
    PROVE  ShareInv'
<1>1. PICK s, k, st : s = seg[t] /\ k = word[t] /\ st = start[t]
  BY ZenonT(60)
<1>2. pc[t] = "scan" /\ s \in segs /\ segs \in Segmentations
  BY <1>1 DEF CheckAndSetBits, Scanning, Control, TypeInv
<1>3. Scans(s, k, st)
  BY <1>1, <1>2, Zenon DEF ShareInv, CallOK
<1>4. k \in ScanWords(s)
  BY <1>3 DEF Scans
<1>5. PICK S : S = NewBytes(s, k, marked)
  OBVIOUS
<1>6. PICK P : P = Passed(k, S, st) \cup (IF k = LastWord(s) THEN Rest(s, Carried(k, S, st)) ELSE {})
  BY Zenon
<1>7. PICK n : n = IF k = LastWord(s) THEN None ELSE NextWord(s, k)
  BY ZenonT(60)
<1>8. /\ marked' = marked \cup S /\ pending'[t] = P /\ word'[t] = n /\ pc'[t] = After(P, n)
      /\ start'[t] = IF k = LastWord(s) THEN None ELSE Carried(k, S, st)
      /\ segs' = segs /\ seg'[t] = s /\ written' = written /\ received' = received
  BY <1>1, <1>5, <1>6, <1>7 DEF CheckAndSetBits, TypeInv
<1>9. S \subseteq SegBytes(s)
  BY <1>5 DEF NewBytes
<1>a. PICK z : z = start'[t]
  OBVIOUS
<1>b. seg' = seg /\ \A u \in Threads \ {t} : /\ pc'[u] = pc[u] /\ word'[u] = word[u]
                                            /\ start'[u] = start[u] /\ pending'[u] = pending[u]
  BY Zenon DEF CheckAndSetBits, TypeInv
<1>10. \A q : Seen(q) => Seen(q)'
  BY <1>8, Zenon DEF Seen
<1>11. Confined(s)
  BY <1>8, <1>9, Zenon DEF Confined
<1>12. written' \in SUBSET Bytes
  BY <1>8, Zenon DEF ShareInv
<1>13. ASSUME CallOK(t)', Placed(s)' PROVE ShareInv'
  <2>1. AtWork(t, s)
    BY <1>1, <1>2, Zenon DEF AtWork
  <2> QED
    BY <1>2, <1>8, <1>b, <1>10, <1>11, <1>12, <1>13, <2>1, ShareStep, ZenonT(60)
<1>14. ASSUME \/ n # None /\ P = {} /\ Scans(s, n, z)'
              \/ n = None /\ Copies(s, None, P)'
              \/ n = None /\ P = {} /\ Seen(s)'
       PROVE  ShareInv'
  <2>1. CASE n # None /\ P = {} /\ Scans(s, n, z)'
    <3>1. pc'[t] = "scan"
      BY <1>8, <2>1, Zenon DEF After
    <3>2. Scans(seg[t], word[t], start[t])'
      BY <1>8, <1>a, <2>1, Zenon
    <3>3. CallOK(t)' /\ Placed(s)'
      BY <1>8, <3>1, <3>2, ZenonT(60) DEF CallOK, Placed, AtWork
    <3> QED
      BY <1>13, <3>3, Zenon
  <2>2. CASE n = None /\ Copies(s, None, P)'
    <3>1. pc'[t] = "copy"
      BY <1>8, <2>2, ZenonT(60) DEF After, Copies
    <3>2. Copies(seg[t], word[t], pending[t])'
      BY <1>8, <2>2
    <3>3. CallOK(t)' /\ Placed(s)'
      BY <1>8, <3>1, <3>2, ZenonT(60) DEF CallOK, Placed, AtWork
    <3> QED
      BY <1>13, <3>3, Zenon
  <2>3. CASE n = None /\ P = {} /\ Seen(s)'
    <3>1. pc'[t] = "add" /\ Seen(seg[t])'
      BY <1>8, <2>3, Zenon DEF After
    <3>2. CallOK(t)' /\ Placed(s)'
      BY <2>3, <3>1, Zenon DEF CallOK, Placed
    <3> QED
      BY <1>13, <3>2, Zenon
  <2> QED
    BY <1>14, <2>1, <2>2, <2>3
<1>15. k # LastWord(s) => /\ n \in ScanWords(s) /\ k < n /\ n # FirstWord(s) /\ TopOf(k) <= Base(n)
                          /\ \A j \in ScanWords(s) : j < n => j <= k
  BY <1>2, <1>4, <1>7, NextScan, Zenon
<1>16. n = None <=> k = LastWord(s)
  <2>1. k # LastWord(s) => n \in Nat
    BY <1>2, <1>15, WordBytes, Zenon
  <2> QED
    BY <1>7, <2>1 DEF None
<1>17. CASE FirstTime(s, k, st)
  <2>1. /\ SegBytes(s) \cap written = {}
        /\ \A b \in SegBytes(s) : Base(k) <= b => b \notin marked
        /\ \A j \in ScanWords(s) : j < k => SegBytes(s) \cap Word(j) \subseteq marked
        /\ st = IF k = FirstWord(s) THEN None ELSE s.off
    BY <1>17, ZenonT(60) DEF FirstTime
  <2>2. /\ S = SegBytes(s) \cap Word(k)
        /\ k # LastWord(s) => Passed(k, S, st) = {} /\ Carried(k, S, st) = s.off
        /\ k = LastWord(s) => Passed(k, S, st) \cup Rest(s, Carried(k, S, st)) = {Span(s.off, SegEnd(s))}
    BY <1>2, <1>4, <1>5, <2>1, FreshWord
  <2>3. \A j \in ScanWords(s) : j < k \/ j = k => SegBytes(s) \cap Word(j) \subseteq marked'
    BY <1>8, <2>1, <2>2, Zenon
  <2>4. CASE k = LastWord(s)
    <3>1. \A j \in ScanWords(s) : j < k \/ j = k
      BY <1>2, <1>4, <2>4, WordBytes
    <3>2. Copies(s, None, P)'
      BY <1>2, <1>6, <1>8, <2>1, <2>2, <2>3, <2>4, <3>1, ZenonT(60) DEF Copies
    <3> QED
      BY <1>14, <1>16, <2>4, <3>2, ZenonT(60)
  <2>5. CASE k # LastWord(s)
    <3>1. P = {} /\ z = s.off
      BY <1>6, <1>8, <1>a, <2>2, <2>5, ZenonT(60)
    <3>2. \A j \in ScanWords(s) : j < n => j < k \/ j = k
      BY <1>2, <1>4, <1>15, <2>5, WordBytes
    <3>3. \A j \in ScanWords(s) : j < n => SegBytes(s) \cap Word(j) \subseteq marked'
      BY <2>3, <3>2, Zenon
    <3>4. ASSUME NEW b \in SegBytes(s), Base(n) <= b PROVE b \notin marked'
      <4>1. /\ Base(k) \in Nat /\ TopOf(k) \in Nat /\ Base(k) < TopOf(k) /\ Base(n) \in Nat /\ TopOf(k) <= Base(n)
        BY <1>2, <1>4, <1>15, <2>5, WordBytes, ZenonT(60)
      <4>2. s.off \in Nat /\ SegEnd(s) \in Nat
        BY <1>2, SegFacts, ZenonT(60)
      <4>3. b \in Nat /\ Base(k) <= b
        BY <3>4, <4>1, <4>2 DEF SegBytes
      <4>4. b \notin Word(k)
        <5>1. TopOf(k) = Base(k) + WIDTH /\ WIDTH \in Nat /\ b >= TopOf(k)
          BY <3>4, <4>1, <4>3, SizeAssumption DEF TopOf
        <5> QED
          BY <4>1, <4>3, <5>1 DEF Word
      <4> QED
        BY <1>8, <2>1, <2>2, <4>3, <4>4, Zenon
    <3>5. FirstTime(s, n, z)'
      BY <1>8, <1>15, <2>1, <2>5, <3>1, <3>3, <3>4, ZenonT(60) DEF FirstTime
    <3>6. Scans(s, n, z)'
      BY <1>15, <2>5, <3>5, Zenon DEF Scans
    <3> QED
      BY <1>14, <1>16, <2>5, <3>1, <3>6, ZenonT(60)
  <2> QED
    BY <2>4, <2>5, Zenon
<1>18. CASE Seen(s) /\ st = None
  <2>1. SegBytes(s) \cap Word(k) \subseteq marked
    BY <1>4, <1>18 DEF Seen
  <2>2. S = {} /\ Passed(k, S, st) = {} /\ Carried(k, S, st) = None /\ Rest(s, None) = {}
    BY <1>5, <1>18, <2>1, SeenWord, Zenon
  <2>3. P = {} /\ z = None /\ Seen(s)'
    BY <1>6, <1>8, <1>a, <1>10, <1>18, <2>2, Zenon
  <2>4. n # None => Scans(s, n, z)'
    BY <1>15, <1>16, <2>3, Zenon DEF Scans
  <2> QED
    BY <1>14, <2>3, <2>4, ZenonT(60)
<1> QED
  BY <1>3, <1>17, <1>18, Zenon DEF Scans

\* The copy of a segment.
LEMMA ShareCopy ==
    ASSUME Disjoint, TypeInv, Scanning, NoCopies, ShareInv, NEW t \in Threads, NEW r \in pending[t], Copy(t, r)
    PROVE  ShareInv'
<1>0. segs \in Segmentations
  BY DEF TypeInv
<1>1. PICK s : s = seg[t]
  OBVIOUS
<1>2. pc[t] = "copy"
  BY Zenon DEF Copy
<1>3. Copies(s, word[t], pending[t])
  BY <1>1, <1>2, Zenon DEF ShareInv, CallOK
<1>4. s \in segs /\ r = Span(s.off, SegEnd(s)) /\ pending[t] \ {r} = {} /\ word[t] = None
  BY <1>3, Zenon DEF Copies
<1>5. RangeBytes(r) = SegBytes(s)
  BY <1>4, Zenon DEF RangeBytes, Span, SegBytes
<1>6. /\ written' = written \cup SegBytes(s) /\ pc'[t] = "add"
      /\ UNCHANGED <<marked, received, segs, seg, word, start>>
      /\ \A u \in Threads \ {t} : pc'[u] = pc[u] /\ pending'[u] = pending[u]
  BY <1>4, <1>5, Zenon DEF Copy, TypeInv, After
<1>7. \A q : Seen(q) => Seen(q)'
  BY <1>6, Zenon DEF Seen
<1>8. Seen(s)'
  BY <1>3, <1>6, Zenon DEF Copies, Seen
<1>9. Confined(s)
  BY <1>6, Zenon DEF Confined
<1>10. written' \in SUBSET Bytes
  BY <1>0, <1>4, <1>6, SegFacts, Zenon DEF ShareInv
<1>11. CallOK(t)' /\ Placed(s)'
  BY <1>1, <1>6, <1>8, ZenonT(60) DEF CallOK, Placed
<1>12. AtWork(t, s)
  BY <1>1, <1>2, Zenon DEF AtWork
<1> QED
  BY <1>4, <1>6, <1>7, <1>9, <1>10, <1>11, <1>12, ShareStep, ZenonT(60)

\* A call begins on a segment that is in nobody's hands.
LEMMA ShareBegin ==
    ASSUME TypeInv, Scanning, ShareInv, NoCopies', NEW t \in Threads, NEW s \in segs, TryNew(t, s) \/ Recv(t, s)
    PROVE  ShareInv'
<1>0. segs \in Segmentations
  BY DEF TypeInv
<1>1. /\ pc[t] = "idle" /\ pc'[t] = "scan" /\ UNCHANGED <<marked, written, received, start, segs, pending>>
      /\ seg'[t] = s /\ word'[t] = FirstWord(s)
      /\ \A u \in Threads \ {t} : pc'[u] = pc[u] /\ seg'[u] = seg[u] /\ word'[u] = word[u]
  BY Zenon DEF TryNew, Recv, Begin, TypeInv
<1>2. start[t] = None
  BY <1>1, Zenon DEF Scanning, Control
<1>3. FirstWord(s) \in ScanWords(s) /\ \A j \in ScanWords(s) : ~(j < FirstWord(s))
  BY <1>0, SegFacts DEF ScanWords
<1>4. Seen(s) \/ Fresh(s)
  <2>1. ASSUME NEW u \in Threads, AtWork(u, s) PROVE FALSE
    <3>1. u # t
      BY <1>1, <2>1, Zenon DEF AtWork
    <3>2. pc'[u] \in {"scan", "copy"} /\ seg'[u] = seg'[t]
      BY <1>1, <2>1, <3>1, Zenon DEF AtWork
    <3> QED
      BY <1>1, <3>1, <3>2, ZenonT(60) DEF NoCopies
  <2> QED
    BY <2>1, Zenon DEF ShareInv, Placed
<1>5. FirstTime(s, FirstWord(s), None) \/ Seen(s)
  BY <1>3, <1>4, Zenon DEF Fresh, FirstTime
<1>6. /\ (\A q : Seen(q)' <=> Seen(q)) /\ (\A q : Fresh(q)' <=> Fresh(q))
      /\ (\A q, k, st : Scans(q, k, st)' <=> Scans(q, k, st)) /\ (\A q, k, p : Copies(q, k, p)' <=> Copies(q, k, p))
  BY <1>1 DEF Seen, Fresh, Scans, Copies, FirstTime
<1>7. Scans(s, FirstWord(s), None)
  BY <1>3, <1>5, ZenonT(60) DEF Scans
<1>8. CallOK(t)'
  BY <1>1, <1>2, <1>6, <1>7, ZenonT(60) DEF CallOK
<1>9. ASSUME NEW u \in Threads \ {t} PROVE CallOK(u)'
  BY <1>1, <1>6, ZenonT(60) DEF CallOK, ShareInv
<1>10. ASSUME NEW q \in segs PROVE Placed(q)'
  <2>1. ASSUME NEW u \in Threads, AtWork(u, q) PROVE AtWork(u, q)'
    <3>1. u # t
      BY <1>1, <2>1, Zenon DEF AtWork
    <3> QED
      BY <1>1, <2>1, <3>1, Zenon DEF AtWork
  <2> QED
    BY <1>6, <2>1, ZenonT(60) DEF Placed, ShareInv
<1>11. written' \in SUBSET Bytes /\ \A q \in received' : Seen(q)'
  BY <1>1, <1>6, Zenon DEF ShareInv
<1> QED
  BY <1>1, <1>8, <1>9, <1>10, <1>11, ZenonT(60) DEF ShareInv

\* The steps that touch neither the bit set nor the memory.
LEMMA ShareRest ==
    ASSUME TypeInv, ShareInv, UNCHANGED <<marked, written, segs, seg, word, start, pending>>,
           NEW t \in Threads, pc[t] \notin {"scan", "copy"}, pc'[t] \in {"idle", "take"},
           \A u \in Threads \ {t} : pc'[u] = pc[u],
           \A q \in received' : q \in received \/ (pc[t] = "add" /\ q = seg[t])
    PROVE  ShareInv'
<1>1. /\ (\A q : Seen(q)' <=> Seen(q)) /\ (\A q : Fresh(q)' <=> Fresh(q))
      /\ (\A q, k, st : Scans(q, k, st)' <=> Scans(q, k, st)) /\ (\A q, k, p : Copies(q, k, p)' <=> Copies(q, k, p))
  BY DEF Seen, Fresh, Scans, Copies, FirstTime
<1>2. ASSUME NEW u \in Threads PROVE CallOK(u)'
  <2>1. CASE u = t
    BY <2>1, Zenon DEF CallOK
  <2>2. CASE u # t
    BY <1>1, <2>2, ZenonT(60) DEF CallOK, ShareInv
  <2> QED
    BY <2>1, <2>2
<1>3. ASSUME NEW q \in segs PROVE Placed(q)'
  <2>1. \A u \in Threads : AtWork(u, q) => AtWork(u, q)'
    BY Zenon DEF AtWork
  <2> QED
    BY <1>1, <2>1, ZenonT(60) DEF Placed, ShareInv
<1>4. written' \in SUBSET Bytes /\ \A q \in received' : Seen(q)'
  BY <1>1, ZenonT(60) DEF ShareInv, CallOK
<1> QED
  BY <1>2, <1>3, <1>4, ZenonT(60) DEF ShareInv

\* ShareInv, one step per action.
LEMMA ShareKept ==
    ASSUME Disjoint, TypeInv, Scanning, NoCopies, ShareInv, [Next /\ NoCopies']_vars
    PROVE  ShareInv'
<1>1. ASSUME NEW t \in Threads, FetchAdd(t) PROVE ShareInv'
  <2>1. /\ pc[t] = "add" /\ pc'[t] \in {"take", "idle"} /\ UNCHANGED <<marked, written, segs, seg, word, start, pending>>
        /\ received' = received \cup {seg[t]} /\ \A u \in Threads \ {t} : pc'[u] = pc[u]
    BY <1>1, ZenonT(60) DEF FetchAdd, TypeInv
  <2> QED
    BY <2>1, ShareRest, ZenonT(60)
<1>2. ASSUME NEW t \in Threads, Take(t) PROVE ShareInv'
  <2>1. /\ pc[t] = "take" /\ pc'[t] = "idle" /\ UNCHANGED <<marked, written, segs, seg, word, start, pending, received>>
        /\ \A u \in Threads \ {t} : pc'[u] = pc[u]
    BY <1>2, ZenonT(60) DEF Take, TypeInv
  <2> QED
    BY <2>1, ShareRest, ZenonT(60)
<1>3. ASSUME UNCHANGED vars PROVE ShareInv'
  <2>1. UNCHANGED <<marked, written, segs, seg, received, pc, word, start, pending>>
    BY <1>3, ZenonT(60) DEF vars
  <2>2. /\ (\A q : Seen(q)' <=> Seen(q)) /\ (\A q : Fresh(q)' <=> Fresh(q))
        /\ (\A q, k, st : Scans(q, k, st)' <=> Scans(q, k, st)) /\ (\A q, k, p : Copies(q, k, p)' <=> Copies(q, k, p))
    BY <2>1 DEF Seen, Fresh, Scans, Copies, FirstTime
  <2> QED
    BY <2>1, <2>2, ZenonT(60) DEF ShareInv, CallOK, Placed, AtWork
<1>4. ASSUME Next, NoCopies' PROVE ShareInv'
  BY <1>1, <1>2, <1>4, ShareScan, ShareCopy, ShareBegin, ZenonT(60) DEF Next
<1> QED
  BY <1>3, <1>4, Zenon

\* What the counts need to know of the copies.
PendOK ==
    /\ written \in SUBSET Bytes
    /\ \A t \in Threads : \A r \in pending[t] : r.lo < r.hi /\ RangeBytes(r) \cap written = {}
    /\ \A t \in Threads : pc[t] = "copy" => word[t] = None

\* What the threads copy is exclusive.
LEMMA SharePend ==
    ASSUME Disjoint, TypeInv, Scanning, NoCopies, ShareInv
    PROVE  PendOK /\ ExclusiveRanges
<1>0. segs \in Segmentations
  BY DEF TypeInv
<1>1. ASSUME NEW t \in Threads, NEW r \in pending[t]
      PROVE  /\ pending[t] = {r} /\ r.lo < r.hi /\ RangeBytes(r) \cap written = {}
             /\ pc[t] = "copy" /\ seg[t] \in segs /\ RangeBytes(r) = SegBytes(seg[t])
  <2>1. pc[t] = "copy" /\ Copies(seg[t], word[t], pending[t])
    BY <1>1, Zenon DEF Scanning, Control, ShareInv, CallOK
  <2>2. PICK s : s = seg[t]
    OBVIOUS
  <2>3. s \in segs /\ pending[t] = {r} /\ r = Span(s.off, SegEnd(s)) /\ SegBytes(s) \cap written = {}
    BY <1>1, <2>1, <2>2, ZenonT(60) DEF Copies
  <2>4. s.off < SegEnd(s)
    BY <2>3, SegFacts DEF TypeInv
  <2> QED
    BY <2>1, <2>2, <2>3, <2>4, ZenonT(60) DEF Span, RangeBytes, SegBytes
<1>2. PendOK
  BY <1>1, Zenon DEF PendOK, ShareInv, CallOK, Copies
<1>3. ExclusiveRanges
  <2>1. ASSUME NEW t \in Threads, NEW u \in Threads, NEW r \in pending[t], NEW q \in pending[u], <<t, r>> # <<u, q>>
        PROVE  RangeBytes(r) \cap RangeBytes(q) = {}
    <3>1. t # u
      BY <1>1, <2>1, Zenon
    <3>2. seg[t] # seg[u]
      BY <1>1, <3>1, ZenonT(60) DEF NoCopies
    <3> QED
      BY <1>0, <1>1, <3>2, ZenonT(60) DEF Disjoint
  <2> QED
    BY <1>1, <2>1, ZenonT(60) DEF ExclusiveRanges
<1> QED
  BY <1>2, <1>3

-----------------------------------------------------------------------------
(* Counting the bytes.                                                     *)

INSTANCE FiniteSetTheorems

\* The bytes that total_set counts.
Counted == {b \in written : \A t \in Threads : b \notin copied[t]}

\* A copied byte is counted once: by the call that copied it or in total_set.
CountInv ==
    /\ copied \in [Threads -> SUBSET Bytes] /\ DOMAIN cur = Threads
    /\ \A t \in Threads : copied[t] \subseteq written /\ cur[t] = Cardinality(copied[t])
    /\ \A t, u \in Threads : t # u => copied[t] \cap copied[u] = {}
    /\ \A t \in Threads : pc[t] \in {"idle", "scan", "take"} => copied[t] = {}
    /\ total_set = Cardinality(Counted)

\* The memory is taken by the call that counts the last byte.
DoneInv ==
    /\ mem \in {"absent", "building", "some", "taken"}
    /\ mem = "absent" => \A t \in Threads : pc[t] = "idle"
    /\ \A t \in Threads : pc[t] = "take" => mem = "some" /\ total_set = Len
    /\ \A t, u \in Threads : pc[t] = "take" /\ pc[u] = "take" => t = u
    /\ mem = "taken" => total_set = Len
    /\ total_set = Len => mem = "taken" \/ \E t \in Threads : pc[t] = "take"

\* Sets of bytes are finite.
LEMMA ByteSets ==
    ASSUME NEW S \in SUBSET Bytes
    PROVE  /\ IsFiniteSet(S) /\ Cardinality(S) \in Nat /\ Cardinality(S) <= Len
           /\ Cardinality(S) = Len => S = Bytes
           /\ Cardinality(S) = 0 <=> S = {}
           /\ \A T \in SUBSET Bytes : S \cap T = {} => Cardinality(S \cup T) = Cardinality(S) + Cardinality(T)
<1>1. IsFiniteSet(Bytes) /\ Cardinality(Bytes) = Len
  <2>1. 0 \in Int /\ Len - 1 \in Int /\ ~(0 > Len - 1) /\ (Len - 1) - 0 + 1 = Len
    BY SizeAssumption
  <2> QED
    BY <2>1, FS_Interval, ZenonT(60) DEF Bytes
<1>2. \A T \in SUBSET Bytes : IsFiniteSet(T) /\ Cardinality(T) <= Len /\ (Cardinality(T) = Len => T = Bytes)
  BY <1>1, FS_Subset, Zenon
<1>3. \A T \in SUBSET Bytes : Cardinality(T) \in Nat
  BY <1>2, FS_CardinalityType, ZenonT(60)
<1>4. Cardinality(S) = 0 <=> S = {}
  BY <1>2, FS_EmptySet, ZenonT(60)
<1>5. ASSUME NEW T \in SUBSET Bytes, S \cap T = {} PROVE Cardinality(S \cup T) = Cardinality(S) + Cardinality(T)
  <2>1. Cardinality(S \cup T) = Cardinality(S) + Cardinality(T) - Cardinality(S \cap T)
    BY <1>2, FS_Union, ZenonT(60)
  <2>2. Cardinality(S \cap T) = 0
    BY <1>5, FS_EmptySet, ZenonT(60)
  <2> QED
    BY <1>3, <2>1, <2>2
<1> QED
  BY <1>2, <1>3, <1>4, <1>5, ZenonT(60)

\* Disjoint sets of bytes are counted together.
LEMMA UnionCount ==
    ASSUME NEW S \in SUBSET Bytes, NEW T \in SUBSET Bytes, S \cap T = {}
    PROVE  Cardinality(S \cup T) = Cardinality(S) + Cardinality(T)
BY ByteSets

\* A range has as many bytes as RangeLen says.
LEMMA RangeCount ==
    ASSUME NEW r \in Ranges, r.lo < r.hi
    PROVE  RangeBytes(r) \in SUBSET Bytes /\ Cardinality(RangeBytes(r)) = RangeLen(r)
<1>1. r.lo \in Nat /\ r.hi \in Nat /\ r.hi <= Len /\ Len \in Nat
  BY SizeAssumption DEF Ranges, Bytes
<1>2. r.hi - 1 \in Int /\ r.lo \in Int /\ ~(r.lo > r.hi - 1) /\ (r.hi - 1) - r.lo + 1 = r.hi - r.lo
  BY <1>1
<1>3. Cardinality(r.lo..(r.hi - 1)) = (r.hi - 1) - r.lo + 1
  BY <1>2, FS_Interval, ZenonT(60)
<1>4. RangeBytes(r) \in SUBSET Bytes
  BY <1>1 DEF RangeBytes, Bytes
<1> QED
  BY <1>2, <1>3, <1>4, ZenonT(60) DEF RangeBytes, RangeLen

\* CountInv, one step per action.
LEMMA CountStep ==
    ASSUME TypeInv, PendOK, CountInv, [Next]_vars
    PROVE  CountInv'
<1>0. /\ copied \in [Threads -> SUBSET Bytes] /\ DOMAIN cur = Threads
      /\ \A t \in Threads : copied[t] \subseteq written /\ cur[t] = Cardinality(copied[t])
      /\ \A t, u \in Threads : t # u => copied[t] \cap copied[u] = {}
      /\ \A t \in Threads : pc[t] \in {"idle", "scan", "take"} => copied[t] = {}
      /\ total_set = Cardinality(Counted)
      /\ written \in SUBSET Bytes
  BY Zenon DEF CountInv, PendOK
<1>1. ASSUME UNCHANGED <<copied, cur, total_set, written>>,
             \A t \in Threads : pc'[t] \in {"idle", "scan", "take"} => copied[t] = {}
      PROVE  CountInv'
  <2>1. Counted' = Counted
    BY <1>1, Zenon DEF Counted
  <2> QED
    BY <1>0, <1>1, <2>1, ZenonT(60) DEF CountInv
<1>2. ASSUME NEW t \in Threads, NEW s \in segs, TryNew(t, s) \/ Recv(t, s) PROVE CountInv'
  BY <1>0, <1>1, <1>2, BeginFacts, ZenonT(60)
<1>3. ASSUME NEW t \in Threads, CheckAndSetBits(t) PROVE CountInv'
  BY <1>0, <1>1, <1>3, Zenon DEF CheckAndSetBits, TypeInv
<1>4. ASSUME NEW t \in Threads, NEW r \in pending[t], Copy(t, r) PROVE CountInv'
  <2>1. r \in Ranges /\ r.lo < r.hi /\ RangeBytes(r) \cap written = {}
    BY DEF TypeInv, PendOK
  <2>2. PICK R \in SUBSET Bytes : R = RangeBytes(r) /\ Cardinality(R) = RangeLen(r) /\ R \cap written = {} /\ R # {}
    <3>1. RangeBytes(r) # {}
      BY <2>1 DEF Ranges, Bytes, RangeBytes
    <3> QED
      BY <2>1, <3>1, RangeCount, Zenon
  <2>3. /\ written' = written \cup R /\ total_set' = total_set
        /\ copied' = [copied EXCEPT ![t] = copied[t] \cup R]
        /\ cur' = [cur EXCEPT ![t] = cur[t] + RangeLen(r)]
        /\ pc[t] = "copy" /\ \A u \in Threads \ {t} : pc'[u] = pc[u]
        /\ pc'[t] \in {"copy", "scan", "add"}
    BY <1>4, <2>2, Zenon DEF Copy, TypeInv, After
  <2>4. copied'[t] = copied[t] \cup R /\ \A u \in Threads \ {t} : copied'[u] = copied[u]
    BY <1>0, <2>3, Zenon
  <2>5. cur'[t] = cur[t] + RangeLen(r) /\ \A u \in Threads \ {t} : cur'[u] = cur[u]
    BY <1>0, <2>3, ZenonT(60)
  <2>6. Cardinality(copied[t] \cup R) = Cardinality(copied[t]) + Cardinality(R)
    <3>1. copied[t] \in SUBSET Bytes /\ copied[t] \cap R = {}
      BY <1>0, <2>2, ZenonT(60)
    <3> QED
      BY <3>1, UnionCount, ZenonT(60)
  <2>7. Counted' = Counted
    <3>1. \A b : b \in Counted' <=> b \in written' /\ \A u \in Threads : b \notin copied'[u]
      BY Zenon DEF Counted
    <3>2. \A b : b \in Counted <=> b \in written /\ \A u \in Threads : b \notin copied[u]
      BY Zenon DEF Counted
    <3> QED
      <4>1. \A b : b \in Counted' => b \in written /\ \A u \in Threads : b \notin copied[u]
        BY <2>2, <2>3, <2>4, <3>1, ZenonT(60)
      <4>2. \A b \in Counted : b \notin R /\ \A u \in Threads : b \notin copied'[u]
        BY <2>2, <2>4, <3>2, ZenonT(60)
      <4> QED
        BY <2>3, <3>1, <3>2, <4>1, <4>2, ZenonT(60)
  <2>8. pc'[t] # "scan"
    BY <1>4, Zenon DEF Copy, PendOK, After, TypeInv
  <2> QED
    BY <1>0, <2>2, <2>3, <2>4, <2>5, <2>6, <2>7, <2>8, ZenonT(60) DEF CountInv
<1>5. ASSUME NEW t \in Threads, FetchAdd(t) PROVE CountInv'
  <2>1. /\ written' = written /\ total_set' = total_set + cur[t]
        /\ copied' = [copied EXCEPT ![t] = {}] /\ cur' = [cur EXCEPT ![t] = 0]
        /\ \A u \in Threads \ {t} : pc'[u] = pc[u]
    BY <1>5, Zenon DEF FetchAdd, TypeInv
  <2>2. copied'[t] = {} /\ \A u \in Threads \ {t} : copied'[u] = copied[u]
    BY <1>0, <2>1, ZenonT(60)
  <2>3. cur'[t] = 0 /\ \A u \in Threads \ {t} : cur'[u] = cur[u]
    BY <1>0, <2>1, ZenonT(60)
  <2>4. Counted' = Counted \cup copied[t] /\ Counted \cap copied[t] = {}
    <3>1. \A b : b \in Counted' <=> b \in written' /\ \A u \in Threads : b \notin copied'[u]
      BY Zenon DEF Counted
    <3>2. \A b : b \in Counted <=> b \in written /\ \A u \in Threads : b \notin copied[u]
      BY Zenon DEF Counted
    <3> QED
      BY <1>0, <2>1, <2>2, <3>1, <3>2, ZenonT(60)
  <2>5. Counted \in SUBSET Bytes /\ copied[t] \in SUBSET Bytes
    BY <1>0, ZenonT(60) DEF Counted
  <2>6. total_set' = Cardinality(Counted')
    BY <1>0, <2>1, <2>4, <2>5, ByteSets
  <2>7. Cardinality({}) = 0
    BY FS_EmptySet, Zenon
  <2> QED
    BY <1>0, <2>1, <2>2, <2>3, <2>6, <2>7, ZenonT(60) DEF CountInv
<1>6. ASSUME NEW t \in Threads, Take(t) PROVE CountInv'
  BY <1>0, <1>1, <1>6, ZenonT(60) DEF Take, TypeInv
<1>7. ASSUME UNCHANGED vars PROVE CountInv'
  BY <1>0, <1>1, <1>7, ZenonT(60) DEF vars
<1> QED
  BY <1>2, <1>3, <1>4, <1>5, <1>6, <1>7, ZenonT(60) DEF Next

\* What the counts say: all bytes are counted when total_set is the length.
LEMMA CountFacts ==
    ASSUME TypeInv, PendOK, CountInv
    PROVE  /\ total_set \in 0..Len
           /\ \A t \in Threads : cur[t] \in 0..Len /\ total_set + cur[t] <= Len
           /\ total_set = Len => written = Bytes /\ \A t \in Threads : cur[t] = 0 /\ pending[t] = {}
<1>1. Counted \in SUBSET Bytes /\ written \in SUBSET Bytes /\ Len \in Nat
  BY SizeAssumption, Zenon DEF Counted, PendOK
<1>2. total_set \in Nat /\ total_set <= Len /\ (total_set = Len => Counted = Bytes)
  BY <1>1, ByteSets, ZenonT(60) DEF CountInv
<1>3. ASSUME NEW t \in Threads
      PROVE  /\ cur[t] \in 0..Len /\ total_set + cur[t] <= Len
             /\ total_set = Len => cur[t] = 0 /\ pending[t] = {}
  <2>1. copied[t] \in SUBSET Bytes /\ cur[t] = Cardinality(copied[t]) /\ Counted \cap copied[t] = {}
    BY ZenonT(60) DEF CountInv, Counted
  <2>2. cur[t] \in Nat /\ cur[t] <= Len
    BY <2>1, ByteSets
  <2>3. Counted \cup copied[t] \in SUBSET Bytes /\ Cardinality(Counted \cup copied[t]) = total_set + cur[t]
    BY <1>1, <2>1, ByteSets DEF CountInv
  <2>4. total_set + cur[t] <= Len
    BY <2>3, ByteSets
  <2>5. ASSUME total_set = Len PROVE pending[t] = {}
    <3>1. written = Bytes
      BY <1>1, <1>2, <2>5, ZenonT(60) DEF Counted
    <3>2. ASSUME NEW r \in pending[t] PROVE FALSE
      <4>1. r \in Ranges /\ r.lo < r.hi /\ RangeBytes(r) \cap Bytes = {}
        BY <3>1, Zenon DEF TypeInv, PendOK
      <4> QED
        BY <4>1 DEF Ranges, Bytes, RangeBytes
    <3> QED
      BY <3>2, Zenon
  <2> QED
    BY <1>1, <1>2, <2>2, <2>4, <2>5
<1> QED
  <2>1. total_set = Len => written = Bytes
    BY <1>1, <1>2, Zenon DEF Counted
  <2> QED
    BY <1>1, <1>2, <1>3, <2>1

\* DoneInv, one step per action.
LEMMA DoneStep ==
    ASSUME TypeInv, PendOK, CountInv, DoneInv, [Next]_vars
    PROVE  DoneInv'
<1>0. /\ mem \in {"absent", "building", "some", "taken"}
      /\ mem = "absent" => \A t \in Threads : pc[t] = "idle"
      /\ \A t \in Threads : pc[t] = "take" => mem = "some" /\ total_set = Len
      /\ \A t, u \in Threads : pc[t] = "take" /\ pc[u] = "take" => t = u
      /\ mem = "taken" => total_set = Len
      /\ total_set = Len => mem = "taken" \/ \E t \in Threads : pc[t] = "take"
  BY Zenon DEF DoneInv
<1>1. ASSUME NEW t \in Threads, NEW s \in segs, TryNew(t, s) \/ Recv(t, s) PROVE DoneInv'
  <2>1. /\ pc[t] = "idle" /\ pc'[t] = "scan" /\ \A u \in Threads \ {t} : pc'[u] = pc[u]
        /\ total_set' = total_set
        /\ \/ mem = "absent" /\ mem' = "building"
           \/ mem \in {"some", "taken"} /\ mem' = mem
    BY <1>1, BeginFacts, Zenon
  <2> QED
    BY <1>0, <2>1, ZenonT(60) DEF DoneInv
<1>2. ASSUME NEW t \in Threads, NEW p, p # "take", p # "idle", pc[t] # "take", pc[t] # "idle", pc' = [pc EXCEPT ![t] = p],
             UNCHANGED <<mem, total_set>>
      PROVE  DoneInv'
  <2>1. pc'[t] = p /\ \A u \in Threads \ {t} : pc'[u] = pc[u]
    BY <1>2, Zenon DEF TypeInv
  <2> QED
    BY <1>0, <1>2, <2>1, ZenonT(60) DEF DoneInv
<1>3. ASSUME NEW t \in Threads, CheckAndSetBits(t) PROVE DoneInv'
  <2>1. PICK p : p \in {"copy", "scan", "add"} /\ pc' = [pc EXCEPT ![t] = p]
    BY <1>3, Zenon DEF CheckAndSetBits, After
  <2> QED
    BY <1>2, <1>3, <2>1, ZenonT(60) DEF CheckAndSetBits
<1>4. ASSUME NEW t \in Threads, NEW r \in pending[t], Copy(t, r) PROVE DoneInv'
  <2>1. PICK p : p \in {"copy", "scan", "add"} /\ pc' = [pc EXCEPT ![t] = p]
    BY <1>4, Zenon DEF Copy, After
  <2> QED
    BY <1>2, <1>4, <2>1, Zenon DEF Copy
<1>5. ASSUME NEW t \in Threads, FetchAdd(t) PROVE DoneInv'
  <2>1. /\ pc[t] = "add" /\ total_set' = total_set + cur[t]
        /\ mem' = IF mem = "building" THEN "some" ELSE mem
        /\ pc'[t] = IF cur[t] > 0 /\ total_set + cur[t] = Len THEN "take" ELSE "idle"
        /\ \A u \in Threads \ {t} : pc'[u] = pc[u]
    BY <1>5, ZenonT(60) DEF FetchAdd, Completes, TypeInv
  <2>2. /\ total_set \in Nat /\ cur[t] \in Nat /\ Len \in Nat /\ total_set + cur[t] <= Len
        /\ total_set = Len => cur[t] = 0
    BY CountFacts, SizeAssumption
  <2>3. mem # "absent"
    BY <1>0, <2>1, Zenon
  <2>4. CASE cur[t] > 0
    <3>1. total_set # Len
      BY <2>2, <2>4
    <3>2. mem' = "some" /\ \A u \in Threads \ {t} : pc'[u] # "take"
      BY <1>0, <2>1, <2>3, <3>1, ZenonT(60)
    <3> QED
      BY <1>0, <2>1, <2>4, <3>1, <3>2, ZenonT(60) DEF DoneInv
  <2>5. CASE cur[t] = 0
    <3>1. total_set' = total_set /\ pc'[t] = "idle"
      BY <2>1, <2>2, <2>5
    <3> QED
      BY <1>0, <2>1, <2>3, <3>1, ZenonT(60) DEF DoneInv
  <2> QED
    BY <2>2, <2>4, <2>5
<1>6. ASSUME NEW t \in Threads, Take(t) PROVE DoneInv'
  <2>1. /\ pc[t] = "take" /\ total_set' = total_set /\ mem' = "taken" /\ pc'[t] = "idle"
        /\ \A u \in Threads \ {t} : pc'[u] = pc[u]
    BY <1>6, Zenon DEF Take, TypeInv
  <2> QED
    BY <1>0, <2>1, ZenonT(60) DEF DoneInv
<1>7. ASSUME UNCHANGED vars PROVE DoneInv'
  BY <1>0, <1>7, ZenonT(60) DEF vars, DoneInv
<1> QED
  BY <1>1, <1>3, <1>4, <1>5, <1>6, <1>7, ZenonT(60) DEF Next

\* A thread about to take the memory is alone, and the message is whole.
LEMMA TakesWhole ==
    ASSUME TypeInv, PendOK, CountInv, DoneInv
    PROVE  CompletesOnceAndWhole
BY CountFacts, Zenon DEF DoneInv, CompletesOnceAndWhole

\* A message that is all written when no call runs has been handed out.
LEMMA AllWritten ==
    ASSUME CountInv, DoneInv, \A t \in Threads : pc[t] = "idle", Bytes \subseteq written, written \in SUBSET Bytes
    PROVE  mem = "taken"
<1>1. Counted = Bytes
  BY Zenon DEF Counted, CountInv
<1>2. Cardinality(Bytes) = Len
  <2>1. 0 \in Int /\ Len - 1 \in Int /\ ~(0 > Len - 1) /\ (Len - 1) - 0 + 1 = Len
    BY SizeAssumption
  <2> QED
    BY <2>1, FS_Interval, ZenonT(60) DEF Bytes
<1>3. total_set = Len
  BY <1>1, <1>2, ZenonT(60) DEF CountInv
<1> QED
  BY <1>3, Zenon DEF DoneInv

-----------------------------------------------------------------------------
(* The properties of segments that cross words.                            *)

\* The inductive invariant.
ApartInv == CopyInv /\ NoCopies /\ ShareInv /\ CountInv /\ DoneInv

\* The invariant holds at first.
LEMMA ApartInit == Init => ApartInv
<1> SUFFICES ASSUME Init PROVE ApartInv
  OBVIOUS
<1>1. ShareInv /\ NoCopies
  BY Zenon DEF Init, ShareInv, Placed, CallOK, Fresh, NoCopies
<1>2. DoneInv
  BY SizeAssumption, Zenon DEF Init, DoneInv
<1>3. Counted = {} /\ Cardinality({}) = 0
  BY FS_EmptySet, Zenon DEF Init, Counted
<1>4. CountInv
  BY <1>3, Zenon DEF Init, CountInv
<1> QED
  BY <1>1, <1>2, <1>4, InitCopyInv, ZenonT(60) DEF ApartInv

\* Every step keeps it.
LEMMA ApartStep ==
    ASSUME Disjoint
    PROVE  ApartInv /\ [Next /\ NoCopies']_vars => ApartInv'
<1> SUFFICES ASSUME ApartInv, [Next /\ NoCopies']_vars PROVE ApartInv'
  OBVIOUS
<1>1. TypeInv /\ Scanning /\ CopyInv /\ NoCopies /\ ShareInv /\ CountInv /\ DoneInv
  BY DEF ApartInv, CopyInv
<1>2. PendOK
  BY <1>1, SharePend, ZenonT(60)
<1>3. NoCopies'
  BY <1>1 DEF NoCopies, vars
<1>4. [Next]_vars
  BY Zenon
<1>5. ShareInv'
  BY <1>1, ShareKept, ZenonT(60)
<1> QED
  BY <1>1, <1>2, <1>3, <1>4, <1>5, StepCopyInv, CountStep, DoneStep, ZenonT(60) DEF ApartInv

\* The properties follow.
LEMMA ApartFacts ==
    ASSUME Disjoint
    PROVE  ApartInv => ExclusiveRanges /\ CompletesOnceAndWhole /\ NothingIsLost
<1> SUFFICES ASSUME ApartInv PROVE ExclusiveRanges /\ CompletesOnceAndWhole /\ NothingIsLost
  OBVIOUS
<1>1. TypeInv /\ Scanning /\ NoCopies /\ ShareInv /\ CountInv /\ DoneInv
  BY DEF ApartInv, CopyInv
<1>2. PendOK /\ ExclusiveRanges
  BY <1>1, SharePend, Zenon
<1>3. CompletesOnceAndWhole
  BY <1>1, <1>2, TakesWhole, ZenonT(60)
<1>4. ASSUME \A t \in Threads : pc[t] = "idle", UNION {SegBytes(s) : s \in received} = Bytes
      PROVE  mem = "taken"
  <2>1. Bytes \subseteq written /\ written \in SUBSET Bytes
    BY <1>1, <1>4, ZenonT(60) DEF ShareInv, Seen
  <2> QED
    BY <1>1, <1>4, <2>1, AllWritten, ZenonT(60)
<1> QED
  BY <1>2, <1>3, <1>4, ZenonT(60) DEF NothingIsLost

\* ExclusiveRanges for any number of threads and disjoint segments of any length, repeated at
\* will but not received twice at once: the range a call carries from word to word is new
\* whenever its first word is, although neighbours share words (desegmenter.rs:92-119).
THEOREM RangesExclusive == ASSUME Disjoint PROVE SpecApart => []ExclusiveRanges
BY ApartInit, ApartStep, ApartFacts, PTL DEF SpecApart

\* CompletesOnceAndWhole for the same: only one call sees total_set reach the length, and
\* all bytes are written by then.
THEOREM TakenOnceAndWhole == ASSUME Disjoint PROVE SpecApart => []CompletesOnceAndWhole
BY ApartInit, ApartStep, ApartFacts, PTL DEF SpecApart

\* NothingIsLost for the same: the words that run_over_unset_ranges does not visit lose no
\* byte, since the copied range goes over them.
THEOREM NothingLost == ASSUME Disjoint PROVE SpecApart => []NothingIsLost
BY ApartInit, ApartStep, ApartFacts, PTL DEF SpecApart

-----------------------------------------------------------------------------
(* One thread, which is how context.rs uses the desegmenter (recv_mut).    *)

\* One thread, and segments that do not overlap.
Serial == Disjoint /\ \E t \in Threads : Threads = {t}

\* One thread alone never has two copies at work.
LEMMA AloneApart == ASSUME Serial PROVE Spec => SpecApart
<1>1. NoCopies
  BY Zenon DEF Serial, NoCopies
<1> QED
  BY <1>1, PTL DEF Spec, SpecApart

\* ExclusiveRanges for recv_mut, with segments that cross words and are repeated at will.
THEOREM RangesExclusiveAlone == ASSUME Serial PROVE Spec => []ExclusiveRanges
BY AloneApart, RangesExclusive DEF Serial

\* CompletesOnceAndWhole for recv_mut.
THEOREM TakenOnceAndWholeAlone == ASSUME Serial PROVE Spec => []CompletesOnceAndWhole
BY AloneApart, TakenOnceAndWhole DEF Serial

\* NothingIsLost for recv_mut.
THEOREM NothingLostAlone == ASSUME Serial PROVE Spec => []NothingIsLost
BY AloneApart, NothingLost DEF Serial
=============================================================================
