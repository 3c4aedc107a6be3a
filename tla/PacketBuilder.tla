--------------------------- MODULE PacketBuilder ----------------------------
(***************************************************************************)
(* Packets and the frames in them, session/src/packet_builder.rs.  A       *)
(* packet is its length so far, the length and the frames that have to be  *)
(* sent again when it is lost, and the socket its acknowledgements bind it *)
(* to.  A segment keeps the length of its header from the time it was made *)
(* (try_new) or cut in two (try_append_seg); append_seg writes the header. *)
(***************************************************************************)
EXTENDS Varint

CONSTANTS
    Mtu,       \* PacketBuilder.mtu
    DocLen,    \* document -> number of bytes
    ParentNo,  \* document -> parent_no
    Special    \* the documents with has_special_parent

HEADER_LEN == 8
MIN_FRAME_APPEND_LEN == 16
MIN_SEG_DATA_LEN == 16
MAX_SEG_HEADER_LEN == 37

MIN_MTU == MAX_SEG_HEADER_LEN + MIN_SEG_DATA_LEN

\* MIN_MTU does not count the header of the packet, and nothing compares an mtu with it.
ASSUME MtuAssumption == Mtu \in Nat /\ Mtu >= MIN_MTU

resend_ratio == (Mtu * 2) \div 3

Unbound == 0

NewPacket == [len |-> HEADER_LEN, resend |-> 0, frames |-> <<>>, bind |-> Unbound, acks |-> {}]

remaining_cap(p) == Mtu - p.len

is_full(p) == remaining_cap(p) < MIN_FRAME_APPEND_LEN

-----------------------------------------------------------------------------
(* Segment::try_new, for the document d found in the slot of document      *)
(* number no, with next_seg_off = off.  has_been_acked is never set.       *)

HasData(d, off) == off < DocLen[d]

\* The parts of a header that depend on the segment being first, and on it being whole.
HeaderLen(no, d, off, single) ==
    1 + varu_len(no)
      + (IF off = 0 \/ d \in Special THEN varu_len(ParentNo[d]) ELSE 0)
      + (IF off = 0 THEN 0 ELSE varu_len(off))
      + (IF single THEN 0 ELSE varu_len(DocLen[d]))

IsSingle(no, d, off, cap) ==
    off = 0 /\ HeaderLen(no, d, off, TRUE) + DocLen[d] <= cap

\* Err(true): the header and a minimum of data do not fit.
Overflows(no, d, off, cap) ==
    /\ ~IsSingle(no, d, off, cap)
    /\ HeaderLen(no, d, off, FALSE) + MIN_SEG_DATA_LEN > cap

\* Mutant: the last segment takes all that is left.
SegLenUncut(left, cap) == left

SegLen(left, cap) == IF left <= cap THEN left ELSE cap

NewSegment(no, d, off, closed, cap) ==
    LET single == IsSingle(no, d, off, cap)
        header == HeaderLen(no, d, off, single)
    IN [kind |-> "seg", doc |-> no, data |-> d, off |-> off, first |-> off = 0,
        single |-> single, docLen |-> ~single, special |-> d \in Special,
        closed |-> closed, header |-> header, n |-> SegLen(DocLen[d] - off, cap - header)]

-----------------------------------------------------------------------------
(* Appending frames.                                                       *)

\* The bytes append_seg writes before the data.
WrittenHeader(seg) ==
    1 + varu_len(seg.doc)
      + (IF seg.docLen THEN varu_len(DocLen[seg.data]) ELSE 0)
      + (IF seg.special \/ seg.first THEN varu_len(ParentNo[seg.data]) ELSE 0)
      + (IF seg.first THEN 0 ELSE varu_len(seg.off))

Pushed(p, frame, len) ==
    [p EXCEPT !.len = len, !.resend = @ + (len - p.len), !.frames = Append(@, frame)]

\* An awkward segment ends the packet, with a terminator and padding up to the mtu.
Padded(end) == IF end + 1 <= Mtu THEN Mtu ELSE end + 1

\* The data fills the packet, or has its length before it, or is padded.
AppendedLen(p, seg) ==
    LET end == p.len + WrittenHeader(seg) + seg.n IN
    IF end = Mtu THEN Mtu
    ELSE IF end + varu_len(seg.n) <= Mtu THEN end + varu_len(seg.n) ELSE Padded(end)

append_seg(p, seg) == Pushed(p, seg, AppendedLen(p, seg))

\* A whole document that is going to be cut needs its length in the header.
Cuttable(seg) ==
    IF seg.single
    THEN [seg EXCEPT !.single = FALSE, !.docLen = TRUE,
                     !.header = @ + (IF seg.docLen THEN 0 ELSE varu_len(DocLen[seg.data]))]
    ELSE seg

\* The header length of what is left after k bytes; it is not computed anew when the
\* segment was not the first one.
RemainderHeader(seg, k) ==
    IF seg.first
    THEN seg.header + varu_len(seg.off + k)
           - (IF seg.special THEN 0 ELSE varu_len(ParentNo[seg.data]))
    ELSE seg.header

Remainder(seg, k) ==
    [seg EXCEPT !.first = FALSE, !.off = @ + k, !.n = @ - k,
                !.header = RemainderHeader(seg, k)]

Fits(p, seg) == seg.header + MIN_SEG_DATA_LEN <= remaining_cap(p)

\* try_append_seg: the packet, whether it has to be sent now, and the rest of the segment
\* as a sequence of at most one.
try_append_seg(p, seg) ==
    LET whole == seg.header + seg.n <= remaining_cap(p)
        cut == Cuttable(seg)
        k == remaining_cap(p) - cut.header
        appended == append_seg(p, IF whole THEN seg ELSE [cut EXCEPT !.n = k])
    IN IF Fits(p, seg) /\ (whole \/ Fits(p, cut))
       THEN [packet |-> appended, now |-> is_full(appended),
             rest |-> IF whole THEN <<>> ELSE <<Remainder(cut, k)>>]
       ELSE [packet |-> p, now |-> TRUE, rest |-> <<seg>>]

\* `data` is the document the signal is about, no the number it is sent under.
Control(variant, no, d) == [kind |-> "control", doc |-> no, data |-> d, variant |-> variant]

append_control(p, variant, no, d) ==
    Pushed(p, Control(variant, no, d), p.len + 1 + varu_len(no))

-----------------------------------------------------------------------------
(* What append_seg asserts and relies on.                                  *)

\* The header has the length that was computed for it.
Exact(seg) == seg.header = WrittenHeader(seg)

PacketOK(p) ==
    /\ p.len <= Mtu
    /\ \A k \in DOMAIN p.frames : p.frames[k].kind = "seg" => Exact(p.frames[k])
=============================================================================
