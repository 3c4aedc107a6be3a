---------------------------- MODULE PacketProofs ----------------------------
(***************************************************************************)
(* Proofs about what goes into a packet and about its counter on arrival.  *)
(* The replay filter's guarantees hold for every number of threads, every  *)
(* number of slots and every counter width.  What the packet builder       *)
(* promises holds for any mtu, document lengths, parents and document      *)
(* numbers: a packet stays within the mtu, headers have the lengths        *)
(* computed for them, and a cut segment loses no byte.                     *)
(***************************************************************************)
EXTENDS Antireplay, PacketBuilder, SequenceTheorems, TLAPS

\* A leaf that names no prover is tried with these, in this order.
USE SMTT(10), Zenon, Z3T(30)

(***************************************************************************)
(* The replay filter.                                                      *)
(***************************************************************************)

\* A slot holds 0 or the largest counter of its own that went through update().
SlotHoldsUpdated ==
    \A i \in Slots : last[i] # 0 => last[i] \in updated /\ slot(last[i]) = i

\* Only a counter that went through update() was ever accepted.
AcceptedWasUpdated ==
    \A c \in Counters : accepts[c] <= 1 /\ (accepts[c] # 0 => c \in updated)

IInv == TypeOK /\ ReplayIsRejected /\ SlotHoldsUpdated /\ AcceptedWasUpdated

\* Two counters with the same residue are at least the modulus apart.
LEMMA ResidueGap ==
    ASSUME NEW m \in Nat \ {0}, NEW c \in Nat, NEW d \in Nat, c % m = d % m, c < d
    PROVE  c + m <= d
<1> DEFINE q == c \div m
           p == d \div m
<1>1. c = m * q + (c % m) /\ q \in Int
  OBVIOUS
<1>2. d = m * p + (d % m) /\ p \in Int
  OBVIOUS
<1> HIDE DEF q, p
<1>3. d - c = m * (p - q)
  BY <1>1, <1>2
<1>4. p - q > 0
  <2>1. ASSUME p - q <= 0 PROVE m * (p - q) <= 0
    BY <2>1, <1>1, <1>2
  <2> QED
    BY <2>1, <1>1, <1>2, <1>3
<1>5. m * (p - q) >= m
  BY <1>4, <1>1, <1>2
<1> QED
  BY <1>3, <1>5

\* The filter that has seen nothing satisfies the invariant.
LEMMA InitIInv == Init => IInv
  BY SizeAssumption DEF Init, IInv, TypeOK, ReplayIsRejected, SlotHoldsUpdated,
     AcceptedWasUpdated, Counters, Idle

\* The load and the fetch_max of every thread keep the invariant.
LEMMA StepIInv == IInv /\ [Next]_vars => IInv'
<1> SUFFICES ASSUME IInv, [Next]_vars PROVE IInv'
  OBVIOUS
<1> USE DEF IInv
<1>1. ASSUME NEW t \in Threads, NEW c \in Counters, Check(t, c) PROVE IInv'
  BY <1>1 DEF Check, TypeOK, ReplayIsRejected, SlotHoldsUpdated, AcceptedWasUpdated
<1>2. ASSUME NEW t \in Threads, Update(t) PROVE IInv'
  <2> DEFINE c == checked[t]
             pre == last[slot(c)]
  <2>1. c \in Counters /\ slot(c) \in Slots /\ pre \in Nat /\ c \in Nat /\ c # 0
    BY <1>2, SlotAssumption DEF Update, TypeOK, Counters, Idle
  <2>2. /\ last' = [last EXCEPT ![slot(c)] = IF pre < c THEN c ELSE pre]
        /\ accepts' = [accepts EXCEPT ![c] = IF pre < c THEN @ + 1 ELSE @]
        /\ updated' = updated \union {c}
        /\ checked' = [checked EXCEPT ![t] = Idle]
    BY <1>2 DEF Update
  <2> HIDE DEF c, pre
  <2>3. TypeOK'
    BY <2>1, <2>2 DEF TypeOK, pre
  <2>4. ReplayIsRejected'
    <3>1. \A i \in Slots : last[i] \in Nat /\ last'[i] \in Nat /\ last[i] <= last'[i]
      BY <2>1, <2>2 DEF TypeOK, pre, Counters
    <3>2. c <= last'[slot(c)]
      BY <2>1, <2>2 DEF TypeOK
    <3>3. \A d \in updated : d \in Nat /\ slot(d) \in Slots /\ d <= last[slot(d)]
      BY <3>1, SlotAssumption DEF ReplayIsRejected, TypeOK, Counters
    <3> QED
      BY <2>1, <2>2, <3>1, <3>2, <3>3 DEF ReplayIsRejected
  <2>5. SlotHoldsUpdated'
    BY <2>1, <2>2 DEF SlotHoldsUpdated, TypeOK, pre
  <2>6. AcceptedWasUpdated'
    <3>1. CASE pre < c
      <4>1. c \notin updated
        BY <3>1, <2>1 DEF ReplayIsRejected, pre
      <4>2. accepts[c] = 0
        BY <4>1, <2>1 DEF AcceptedWasUpdated
      <4> QED
        BY <3>1, <4>2, <2>1, <2>2 DEF AcceptedWasUpdated, TypeOK
    <3>2. CASE ~(pre < c)
      BY <3>2, <2>1, <2>2 DEF AcceptedWasUpdated, TypeOK
    <3> QED
      BY <3>1, <3>2
  <2> QED
    BY <2>3, <2>4, <2>5, <2>6
<1>3. CASE UNCHANGED vars
  BY <1>3 DEF vars, TypeOK, ReplayIsRejected, SlotHoldsUpdated, AcceptedWasUpdated
<1> QED
  BY <1>1, <1>2, <1>3 DEF Next

\* The invariant holds in every reachable state.
LEMMA Invariance == Spec => []IInv
  BY InitIInv, StepIInv, PTL DEF Spec

\* Type correctness of the filter: no access outside its array, for every size.
THEOREM TypeCorrect == Spec => []TypeOK
<1>1. IInv => TypeOK
  BY DEF IInv
<1> QED
  BY Invariance, <1>1, PTL

\* A counter that went through update() is never accepted by check() or update()
\* again, for every number of threads and slots.
THEOREM ReplayRejected == Spec => []ReplayIsRejected
<1>1. IInv => ReplayIsRejected
  BY DEF IInv
<1> QED
  BY Invariance, <1>1, PTL

\* update() returns true at most once per counter, for every number of threads
\* racing on the same packet.
THEOREM AtMostOnce == Spec => []AcceptedAtMostOnce
<1>1. IInv => AcceptedAtMostOnce
  BY DEF IInv, AcceptedWasUpdated, AcceptedAtMostOnce
<1> QED
  BY Invariance, <1>1, PTL

\* No fresh counter less than L behind the newest one is turned away by check().
THEOREM WindowPasses == Spec => []FreshInWindowPasses
<1>1. IInv => FreshInWindowPasses
  <2> SUFFICES ASSUME IInv, NEW c \in Counters, c \notin updated,
                      \A d \in updated : d < c + L, ~(last[slot(c)] < c)
               PROVE  FALSE
    BY DEF FreshInWindowPasses
  <2> DEFINE d == last[slot(c)]
  <2>1. slot(c) \in Slots /\ c \in Nat /\ c > 0 /\ L \in Nat \ {0}
    BY SlotAssumption, SizeAssumption DEF Counters
  <2>2. d \in Nat /\ c <= d /\ d # 0
    BY <2>1 DEF IInv, TypeOK, Counters
  <2>3. d \in updated /\ slot(d) = slot(c) /\ d \in Counters
    BY <2>1, <2>2 DEF IInv, SlotHoldsUpdated, TypeOK
  <2>4. c % L = d % L /\ c < d /\ d < c + L
    BY <2>1, <2>2, <2>3, SlotAssumption
  <2> HIDE DEF d
  <2>5. c + L <= d
    BY <2>1, <2>2, <2>4, ResidueGap
  <2> QED
    BY <2>1, <2>2, <2>4, <2>5
<1> QED
  BY Invariance, <1>1, PTL

\* The filter implements the once-only filter of OnceFilter, for every number of threads,
\* slots and counters: no packet is delivered twice, none refused without a reason.
THEOREM FilterImplemented == Spec => ImplementsFilter
<1>1. Init => Filter!Init
  BY DEF Init, Filter!Init
<1>2. IInv /\ [Next]_vars => [Filter!Next]_(Filter!vars)
  <2> SUFFICES ASSUME IInv, [Next]_vars PROVE [Filter!Next]_(Filter!vars)
    OBVIOUS
  <2>1. ASSUME NEW t \in Threads, NEW c \in Counters, Check(t, c)
        PROVE  UNCHANGED Filter!vars
    BY <2>1 DEF Check, Filter!vars
  <2>2. ASSUME NEW t \in Threads, Update(t) PROVE Filter!Next \/ UNCHANGED Filter!vars
    <3> DEFINE c == checked[t]
               pre == last[slot(c)]
    <3>1. /\ c \in Counters /\ slot(c) \in Slots
          /\ c \in Nat /\ c > 0 /\ L \in Nat \ {0}
          /\ pre \in Nat /\ pre \in Counters \union {0}
          /\ accepts \in [Counters -> Nat]
      BY <2>2, SlotAssumption, SizeAssumption DEF Update, IInv, TypeOK, Counters, Idle
    <3>2. /\ accepts' = [accepts EXCEPT ![c] = IF pre < c THEN @ + 1 ELSE @]
          /\ updated' = updated \union {c}
      BY <2>2 DEF Update
    <3>3. CASE pre < c
      <4>1. c \notin updated
        BY <3>3 DEF IInv, ReplayIsRejected
      <4>2. accepts' = [accepts EXCEPT ![c] = @ + 1]
        BY <3>2, <3>3, <3>1
      <4> HIDE DEF c, pre
      <4>3. Filter!Deliver(c)
        BY <4>1, <4>2, <3>2 DEF Filter!Deliver
      <4> QED
        BY <4>3, <3>1 DEF Filter!Next
    <3>4. CASE ~(pre < c) /\ c \in updated
      <4>1. accepts' = accepts /\ updated' = updated
        BY <3>1, <3>2, <3>4
      <4> QED
        BY <4>1 DEF Filter!vars
    <3>5. CASE ~(pre < c) /\ c \notin updated
      <4>1. pre # 0 /\ c <= pre
        BY <3>1, <3>5
      <4>2. pre \in updated /\ slot(pre) = slot(c)
        BY <3>1, <4>1 DEF IInv, SlotHoldsUpdated
      <4>3. c % L = pre % L /\ c # pre
        BY <3>1, <3>5, <4>1, <4>2, SlotAssumption
      <4>4. accepts' = accepts
        BY <3>1, <3>2, <3>5
      <4> HIDE DEF c, pre
      <4>5. c + L <= pre
        <5>1. c < pre
          BY <3>1, <4>1, <4>3
        <5> QED
          BY <3>1, <4>3, <5>1, ResidueGap
      <4>6. pre >= c + L
        BY <4>5, <3>1
      <4>7. Filter!TooLate(c)
        BY <3>2, <3>5, <4>2, <4>4, <4>6 DEF Filter!TooLate
      <4> QED
        BY <4>7, <3>1 DEF Filter!Next
    <3> QED
      BY <3>3, <3>4, <3>5
  <2>3. CASE UNCHANGED vars
    BY <2>3 DEF vars, Filter!vars
  <2> QED
    BY <2>1, <2>2, <2>3 DEF Next
<1> QED
  BY <1>1, <1>2, Invariance, PTL DEF Spec, ImplementsFilter, Filter!Spec

(***************************************************************************)
(* The packet builder.                                                     *)
(***************************************************************************)

SegType ==
    [kind : {"seg"}, doc : Nat, data : DOMAIN DocLen, off : Nat, first : BOOLEAN,
     single : BOOLEAN, docLen : BOOLEAN, special : BOOLEAN, closed : BOOLEAN,
     header : Nat, n : Nat]

ControlType == [kind : {"control"}, doc : Nat, data : Nat, variant : SUBSET {"close", "fin"}]

PacketType ==
    [len : Nat, resend : Nat, frames : Seq(SegType \cup ControlType), bind : Nat, acks : SUBSET Nat]

\* A varint is one, two, four or eight bytes long.
LEMMA VaruLen == \A v : varu_len(v) \in {1, 2, 4, 8}
BY DEF varu_len

\* The written header of a segment has a length.
LEMMA WrittenHeaderType == ASSUME NEW seg PROVE WrittenHeader(seg) \in Nat
BY VaruLen DEF WrittenHeader

\* Appending a frame that fits to a packet in order leaves it in order.
LEMMA PushedOK ==
    ASSUME NEW p \in PacketType, PacketOK(p), NEW f \in SegType \cup ControlType,
           NEW len \in Nat, p.len <= len, len <= Mtu, f.kind = "seg" => Exact(f)
    PROVE  /\ Pushed(p, f, len) \in PacketType /\ PacketOK(Pushed(p, f, len))
           /\ Pushed(p, f, len).len = len
           /\ Pushed(p, f, len).frames = Append(p.frames, f)
<1> DEFINE F == SegType \cup ControlType
           q == Pushed(p, f, len)
<1>1. p.frames \in Seq(F) /\ p.len \in Nat /\ p.resend \in Nat
    BY DEF PacketType
<1>2. /\ Append(p.frames, f) \in Seq(F)
      /\ DOMAIN Append(p.frames, f) = 1 .. Len(p.frames) + 1
      /\ \A k \in 1 .. Len(p.frames) : Append(p.frames, f)[k] = p.frames[k]
      /\ Append(p.frames, f)[Len(p.frames) + 1] = f
      /\ DOMAIN p.frames = 1 .. Len(p.frames) /\ Len(p.frames) \in Nat
    <2> HIDE DEF F
    <2> QED BY <1>1 DEF F
<1>3. /\ q.len = len /\ q.frames = Append(p.frames, f) /\ q.resend = p.resend + (len - p.len)
      /\ q.bind = p.bind /\ q.acks = p.acks
    BY DEF Pushed, PacketType
<1>4. q \in PacketType
    <2> DEFINE r == p.resend + (len - p.len)
               fs == Append(p.frames, f)
    <2>1. r \in Nat
        BY <1>1
    <2>2. fs \in Seq(F)
        BY <1>2
    <2>3. q = [p EXCEPT !.len = len, !.resend = r, !.frames = fs]
        BY DEF Pushed
    <2> HIDE DEF r, fs, q, F
    <2>4. [p EXCEPT !.len = len, !.resend = r, !.frames = fs] \in PacketType
        BY <2>1, <2>2, Zenon DEF PacketType, F
    <2> QED BY <2>3, <2>4
<1>5. PacketOK(q)
    <2>1. ASSUME NEW k \in DOMAIN q.frames, q.frames[k].kind = "seg"
          PROVE  Exact(q.frames[k])
        <3> HIDE DEF q
        <3>1. CASE k \in 1 .. Len(p.frames)
            BY <1>2, <1>3, <2>1, <3>1 DEF PacketOK
        <3>2. CASE k = Len(p.frames) + 1
            BY <1>2, <1>3, <2>1, <3>2
        <3> QED BY <1>2, <1>3, <3>1, <3>2
    <2> HIDE DEF q
    <2> QED BY <1>3, <2>1 DEF PacketOK
<1> HIDE DEF q
<1> QED BY <1>3, <1>4, <1>5 DEF q

\* append_seg trusts that the segment fits; the length written before the data and the
\* padding after an awkward segment never make the packet longer than the mtu.
LEMMA AppendSegOK ==
    ASSUME NEW p \in PacketType, PacketOK(p), NEW seg \in SegType, Exact(seg),
           p.len + seg.header + seg.n <= Mtu
    PROVE  /\ append_seg(p, seg) \in PacketType /\ PacketOK(append_seg(p, seg))
           /\ append_seg(p, seg).frames = Append(p.frames, seg)
<1> DEFINE len == AppendedLen(p, seg)
<1>1. p.len \in Nat /\ seg.n \in Nat /\ WrittenHeader(seg) \in Nat /\ Mtu \in Nat
    BY WrittenHeaderType, MtuAssumption DEF PacketType, SegType
<1>2. varu_len(seg.n) \in {1, 2, 4, 8}
    BY VaruLen
<1>3. len \in Nat /\ p.len <= len /\ len <= Mtu
    BY <1>1, <1>2 DEF AppendedLen, Padded, Exact
<1> HIDE DEF len
<1> QED BY <1>3, PushedOK DEF append_seg, len

\* Segment::try_new computes the length of the header that append_seg is going to write, and
\* makes segments that fit the space they were made for, have at least one byte and end
\* within the document.
THEOREM NewSegmentFits ==
    ASSUME NEW no \in Nat, NEW d \in DOMAIN DocLen, DocLen[d] \in Nat,
           NEW off \in Nat, NEW closed \in BOOLEAN, NEW cap \in Nat,
           HasData(d, off), ~Overflows(no, d, off, cap)
    PROVE  LET seg == NewSegment(no, d, off, closed, cap) IN
           /\ seg \in SegType /\ Exact(seg) /\ seg.header + seg.n <= cap
           /\ seg.n >= 1 /\ seg.off = off /\ seg.off + seg.n <= DocLen[d]
<1> DEFINE single == IsSingle(no, d, off, cap)
           header == HeaderLen(no, d, off, single)
           n == SegLen(DocLen[d] - off, cap - header)
           seg == NewSegment(no, d, off, closed, cap)
<1>1. single \in BOOLEAN /\ (single => off = 0 /\ header + DocLen[d] <= cap)
    <2>1. single \in BOOLEAN
        BY DEF IsSingle
    <2>2. single => off = 0 /\ single = TRUE /\ HeaderLen(no, d, off, TRUE) + DocLen[d] <= cap
        BY <2>1, Zenon DEF IsSingle
    <2> HIDE DEF single
    <2> QED BY <2>1, <2>2, Zenon
<1>2. off < DocLen[d]
    BY DEF HasData
<1>3. seg = [kind |-> "seg", doc |-> no, data |-> d, off |-> off, first |-> off = 0,
             single |-> single, docLen |-> ~single, special |-> d \in Special,
             closed |-> closed, header |-> header, n |-> n]
    BY DEF NewSegment
<1>4. ~single => header + MIN_SEG_DATA_LEN <= cap
    <2> SUFFICES ASSUME ~single PROVE header + MIN_SEG_DATA_LEN <= cap
        OBVIOUS
    <2> DEFINE h == HeaderLen(no, d, off, FALSE)
    <2>1. h \in Nat
        BY VaruLen DEF HeaderLen
    <2>2. ~(h + MIN_SEG_DATA_LEN > cap)
        BY Zenon DEF Overflows
    <2> HIDE DEF single
    <2>3. header = h
        <3>1. single = FALSE
            BY <1>1, Zenon
        <3> QED BY <3>1, Zenon
    <2> HIDE DEF h, header
    <2> QED BY <2>1, <2>2, <2>3 DEF MIN_SEG_DATA_LEN
<1> HIDE DEF single
<1>5. header \in Nat
    BY VaruLen DEF HeaderLen
<1>6. header = WrittenHeader(seg)
    <2> DEFINE DL == IF single THEN 0 ELSE varu_len(DocLen[d])
               P == IF off = 0 \/ d \in Special THEN varu_len(ParentNo[d]) ELSE 0
               O == IF off = 0 THEN 0 ELSE varu_len(off)
    <2>1. /\ seg.doc = no /\ seg.data = d /\ seg.off = off /\ (seg.first <=> off = 0)
          /\ (seg.docLen <=> ~single) /\ (seg.special <=> d \in Special)
        <3> HIDE DEF seg, header, n
        <3> QED BY <1>3, Zenon
    <2>2. varu_len(no) \in Nat /\ DL \in Nat /\ P \in Nat /\ O \in Nat
        BY VaruLen
    <2>3. header = 1 + varu_len(no) + P + O + DL
        BY DEF HeaderLen
    <2> HIDE DEF seg, header
    <2>4. /\ (IF seg.docLen THEN varu_len(DocLen[seg.data]) ELSE 0) = DL
          /\ (IF seg.special \/ seg.first THEN varu_len(ParentNo[seg.data]) ELSE 0) = P
          /\ (IF seg.first THEN 0 ELSE varu_len(seg.off)) = O
        BY <2>1, Zenon
    <2> HIDE DEF DL, P, O
    <2>5. WrittenHeader(seg) = 1 + varu_len(no) + DL + P + O
        BY <2>1, <2>4, Zenon DEF WrittenHeader
    <2> QED BY <2>2, <2>3, <2>5
<1> HIDE DEF header
<1>7. n \in Nat /\ n >= 1 /\ header + n <= cap /\ off + n <= DocLen[d]
    BY <1>1, <1>2, <1>4, <1>5 DEF SegLen, MIN_SEG_DATA_LEN
<1> HIDE DEF n, seg
<1>8. seg \in SegType
    BY <1>1, <1>3, <1>5, <1>7 DEF SegType
<1> QED BY <1>3, <1>6, <1>7, <1>8 DEF Exact, seg

\* A whole document that is going to be cut gets the length of its header adjusted.
LEMMA CuttableExact ==
    ASSUME NEW seg \in SegType, Exact(seg)
    PROVE  /\ Cuttable(seg) \in SegType /\ Exact(Cuttable(seg))
           /\ Cuttable(seg).off = seg.off /\ Cuttable(seg).n = seg.n
           /\ Cuttable(seg).first = seg.first /\ Cuttable(seg).header >= seg.header
<1> DEFINE c == Cuttable(seg)
           h == seg.header + (IF seg.docLen THEN 0 ELSE varu_len(DocLen[seg.data]))
<1>1. CASE ~seg.single
    <2>1. seg.header \in Nat
        BY DEF SegType
    <2> QED BY <1>1, <2>1 DEF Cuttable
<1>2. CASE seg.single
    <2>1. h \in Nat /\ h >= seg.header
        BY VaruLen DEF SegType
    <2>2. c = [seg EXCEPT !.single = FALSE, !.docLen = TRUE, !.header = h]
        BY <1>2, Zenon DEF Cuttable
    <2> HIDE DEF h, c
    <2>3. /\ c \in SegType /\ c.header = h /\ c.docLen = TRUE
          /\ c.off = seg.off /\ c.n = seg.n /\ c.first = seg.first /\ c.doc = seg.doc
          /\ c.data = seg.data /\ c.special = seg.special
        BY <2>1, <2>2, Zenon DEF SegType
    <2>4. c.header = WrittenHeader(c)
        <3> DEFINE P == IF seg.special \/ seg.first THEN varu_len(ParentNo[seg.data]) ELSE 0
                   O == IF seg.first THEN 0 ELSE varu_len(seg.off)
                   DL == varu_len(DocLen[seg.data])
        <3>1. varu_len(seg.doc) \in Nat /\ DL \in Nat /\ P \in Nat /\ O \in Nat
            BY VaruLen
        <3>2. WrittenHeader(seg) = 1 + varu_len(seg.doc) + (IF seg.docLen THEN DL ELSE 0) + P + O
            BY DEF WrittenHeader
        <3>3. WrittenHeader(c) = 1 + varu_len(seg.doc) + DL + P + O
            BY <2>3, Zenon DEF WrittenHeader
        <3>4. h = seg.header + (IF seg.docLen THEN 0 ELSE DL)
            BY DEF h
        <3> HIDE DEF DL, P, O
        <3> QED BY <2>3, <3>1, <3>2, <3>3, <3>4 DEF Exact
    <2> QED BY <2>1, <2>3, <2>4 DEF Exact, c
<1> QED BY <1>1, <1>2

\* What is left of a cut segment are its last bytes.  Its header is exact if the cut segment
\* was the first one, or if the new offset takes as many bytes as the old one.
LEMMA RemainderExact ==
    ASSUME NEW seg \in SegType, Exact(seg), NEW k \in 0 .. seg.n
    PROVE  LET r == Remainder(seg, k) IN
           /\ r \in SegType /\ r.off = seg.off + k /\ r.n = seg.n - k
           /\ seg.first \/ varu_len(seg.off + k) = varu_len(seg.off) => Exact(r)
<1> DEFINE r == Remainder(seg, k)
           h == RemainderHeader(seg, k)
           D == IF seg.docLen THEN varu_len(DocLen[seg.data]) ELSE 0
           P == varu_len(ParentNo[seg.data])
           N == varu_len(seg.doc)
           O == varu_len(seg.off)
           O2 == varu_len(seg.off + k)
<1>1. N \in Nat /\ D \in Nat /\ P \in Nat /\ O \in Nat /\ O2 \in Nat
    BY VaruLen
<1>2. /\ seg.n \in Nat /\ seg.off \in Nat /\ seg.header \in Nat
      /\ seg.first \in BOOLEAN /\ seg.special \in BOOLEAN
    BY DEF SegType
<1>3. seg.header = 1 + N + D + (IF seg.special \/ seg.first THEN P ELSE 0)
                     + (IF seg.first THEN 0 ELSE O)
    BY DEF Exact, WrittenHeader
<1>4. h = IF seg.first THEN seg.header + O2 - (IF seg.special THEN 0 ELSE P) ELSE seg.header
    BY DEF RemainderHeader
<1>5. r = [seg EXCEPT !.first = FALSE, !.off = seg.off + k, !.n = seg.n - k, !.header = h]
    BY DEF Remainder, SegType
<1> HIDE DEF r, h, D, P, N, O, O2
<1>6. h \in Nat
    BY <1>1, <1>2, <1>3, <1>4
<1>7. seg.off + k \in Nat /\ seg.n - k \in Nat
    BY <1>2
<1>8. /\ r \in SegType /\ r.off = seg.off + k /\ r.n = seg.n - k /\ r.header = h
      /\ r.first = FALSE /\ r.doc = seg.doc /\ r.data = seg.data
      /\ r.docLen = seg.docLen /\ r.special = seg.special
    BY <1>5, <1>6, <1>7, Zenon DEF SegType
<1>9. WrittenHeader(r) = 1 + N + D + (IF seg.special THEN P ELSE 0) + O2
    BY <1>8, Zenon DEF WrittenHeader, D, P, N, O2
<1>10. seg.first \/ O2 = O => h = WrittenHeader(r)
    BY <1>1, <1>2, <1>3, <1>4, <1>9
<1> QED BY <1>8, <1>10 DEF Exact, r, O, O2

\* try_append_seg keeps the packet within the mtu with exact headers.  It leaves the segment
\* and the packet as they were, or appends the whole segment, or cuts it in two with no
\* byte lost or sent twice, each part having data.  The header of the second part is exact
\* when the segment was a first one or the offset keeps its width; otherwise it is not
\* computed anew.
THEOREM TryAppendKeepsBytes ==
    ASSUME NEW p \in PacketType, PacketOK(p), NEW seg \in SegType, Exact(seg)
    PROVE  LET r == try_append_seg(p, seg) IN
           /\ r.packet \in PacketType /\ PacketOK(r.packet)
           /\ \/ r.packet = p /\ r.rest = <<seg>>
              \/ r.packet.frames = Append(p.frames, seg) /\ r.rest = <<>>
              \/ \E a, b \in SegType :
                    /\ r.packet.frames = Append(p.frames, a) /\ r.rest = <<b>>
                    /\ a.off = seg.off /\ b.off = a.off + a.n /\ a.n + b.n = seg.n
                    /\ a.n >= MIN_SEG_DATA_LEN /\ b.n >= 1
                    /\ seg.first \/ varu_len(b.off) = varu_len(a.off) => Exact(b)
<1> DEFINE cap == remaining_cap(p)
           whole == seg.header + seg.n <= cap
           cut == Cuttable(seg)
           k == cap - cut.header
           a == [cut EXCEPT !.n = k]
           b == Remainder(cut, k)
           r == try_append_seg(p, seg)
<1>1. /\ cut \in SegType /\ Exact(cut) /\ cut.off = seg.off /\ cut.n = seg.n
      /\ cut.first = seg.first /\ cut.header >= seg.header
    BY CuttableExact
<1>2. /\ p.len \in Nat /\ Mtu \in Nat /\ seg.header \in Nat /\ seg.n \in Nat
      /\ cut.header \in Nat /\ p.len <= Mtu
    BY <1>1, MtuAssumption DEF PacketType, SegType, PacketOK
<1>3. cap = Mtu - p.len
    BY DEF remaining_cap
<1>4. CASE ~(Fits(p, seg) /\ (whole \/ Fits(p, cut)))
    <2>1. r.packet = p /\ r.rest = <<seg>>
        BY <1>4 DEF try_append_seg
    <2> HIDE DEF r
    <2> QED BY <2>1 DEF r
<1>5. CASE Fits(p, seg) /\ whole
    <2>1. r.packet = append_seg(p, seg) /\ r.rest = <<>>
        BY <1>5 DEF try_append_seg
    <2>2. p.len + seg.header + seg.n <= Mtu
        BY <1>2, <1>3, <1>5
    <2>3. /\ append_seg(p, seg) \in PacketType /\ PacketOK(append_seg(p, seg))
          /\ append_seg(p, seg).frames = Append(p.frames, seg)
        BY <2>2, AppendSegOK
    <2> HIDE DEF r
    <2> QED BY <2>1, <2>3 DEF r
<1>6. CASE ~whole /\ Fits(p, seg) /\ Fits(p, cut)
    <2>1. r.packet = append_seg(p, a) /\ r.rest = <<b>>
        BY <1>6 DEF try_append_seg
    <2> HIDE DEF cut
    <2>2. k \in Nat /\ k >= MIN_SEG_DATA_LEN
        BY <1>2, <1>3, <1>6 DEF Fits, MIN_SEG_DATA_LEN
    <2>3. k < seg.n
        BY <1>1, <1>2, <1>3, <1>6
    <2>4. k \in 0 .. cut.n
        BY <1>1, <1>2, <2>2, <2>3
    <2> HIDE DEF k
    <2>5. /\ b \in SegType /\ b.off = cut.off + k /\ b.n = cut.n - k
          /\ cut.first \/ varu_len(cut.off + k) = varu_len(cut.off) => Exact(b)
        BY <1>1, <2>4, RemainderExact
    <2>6. /\ a \in SegType /\ a.off = cut.off /\ a.n = k /\ a.header = cut.header
          /\ a.doc = cut.doc /\ a.data = cut.data /\ a.docLen = cut.docLen
          /\ a.special = cut.special /\ a.first = cut.first
        BY <1>1, <2>2, Zenon DEF SegType
    <2> HIDE DEF a, b, r
    <2>7. Exact(a)
        BY <1>1, <2>6, Zenon DEF Exact, WrittenHeader
    <2>8. p.len + a.header + a.n <= Mtu
        BY <1>2, <1>3, <2>6 DEF k
    <2>9. /\ append_seg(p, a) \in PacketType /\ PacketOK(append_seg(p, a))
          /\ append_seg(p, a).frames = Append(p.frames, a)
        BY <2>6, <2>7, <2>8, AppendSegOK
    <2>10. b.off = a.off + a.n /\ a.n + b.n = seg.n /\ b.n >= 1
        BY <1>1, <1>2, <2>2, <2>3, <2>5, <2>6
    <2>11. seg.first \/ varu_len(b.off) = varu_len(a.off) => Exact(b)
        BY <1>1, <2>5, <2>6
    <2> QED BY <1>1, <2>1, <2>2, <2>5, <2>6, <2>9, <2>10, <2>11, Zenon DEF r
<1> QED BY <1>4, <1>5, <1>6

\* A control frame fits any packet that transmit goes on with, since that is not full.
THEOREM ControlFits ==
    ASSUME NEW p \in PacketType, PacketOK(p), ~is_full(p), NEW no \in Nat, NEW d \in Nat,
           NEW variant \in SUBSET {"close", "fin"}
    PROVE  /\ append_control(p, variant, no, d) \in PacketType
           /\ PacketOK(append_control(p, variant, no, d))
<1> DEFINE f == Control(variant, no, d)
           len == p.len + 1 + varu_len(no)
<1>1. f \in ControlType /\ f.kind # "seg"
    BY DEF Control, ControlType
<1>2. p.len \in Nat /\ Mtu \in Nat /\ varu_len(no) \in {1, 2, 4, 8}
    BY VaruLen, MtuAssumption DEF PacketType
<1>3. len \in Nat /\ p.len <= len /\ len <= Mtu
    BY <1>2 DEF is_full, remaining_cap, MIN_FRAME_APPEND_LEN
<1> HIDE DEF f, len
<1> QED BY <1>1, <1>3, PushedOK DEF append_control, f, len

\* "It should not be possible for the document to overflow a fresh packet" (send.rs): for
\* every mtu from MIN_MTU on, try_new fails in a fresh packet only if the mtu is less than
\* 57 (MIN_MTU leaves out the packet's header and counts four bytes try_new does not), and
\* then only for a later segment of a document with a special parent of which the number,
\* the parent, the offset and the length all take eight bytes.  Every other document has
\* room for its header and the minimum of data.
THEOREM FreshPacketSuffices ==
    ASSUME NEW no, NEW d, NEW off, Overflows(no, d, off, remaining_cap(NewPacket))
    PROVE  /\ Mtu < HEADER_LEN + MIN_MTU - 4
           /\ off # 0 /\ d \in Special
           /\ \A v \in {no, ParentNo[d], off, DocLen[d]} : varu_len(v) = 8
<1>1. PICK a, b, c, e \in {1, 2, 4, 8} :
        a = varu_len(no) /\ b = varu_len(ParentNo[d]) /\ c = varu_len(off) /\ e = varu_len(DocLen[d])
    BY VaruLen, Zenon
<1>2. PICK h, m : h = HeaderLen(no, d, off, FALSE) /\ m = remaining_cap(NewPacket)
    BY Zenon
<1>3. h + MIN_SEG_DATA_LEN > m
    BY <1>2, Zenon DEF Overflows
<1>4. m = Mtu - 8 /\ Mtu \in Nat /\ Mtu >= 53
    BY <1>2, MtuAssumption
       DEF remaining_cap, NewPacket, HEADER_LEN, MIN_MTU, MAX_SEG_HEADER_LEN, MIN_SEG_DATA_LEN
<1>5. h = 1 + a + (IF off = 0 \/ d \in Special THEN b ELSE 0) + (IF off = 0 THEN 0 ELSE c) + e
    BY <1>1, <1>2, Zenon DEF HeaderLen
<1>6. h > 29
    BY <1>3, <1>4, <1>5 DEF MIN_SEG_DATA_LEN
<1>7. off # 0 /\ d \in Special
    BY <1>5, <1>6
<1>8. a = 8 /\ b = 8 /\ c = 8 /\ e = 8 /\ h = 33
    BY <1>5, <1>6, <1>7
<1>9. Mtu < HEADER_LEN + MIN_MTU - 4
    BY <1>3, <1>4, <1>8 DEF MIN_SEG_DATA_LEN, HEADER_LEN, MIN_MTU, MAX_SEG_HEADER_LEN
<1> QED BY <1>1, <1>7, <1>8, <1>9, Zenon
=============================================================================
