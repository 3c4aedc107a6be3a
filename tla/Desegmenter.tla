---------------------------- MODULE Desegmenter -----------------------------
(***************************************************************************)
(* session/src/desegmenter.rs: one message of Len bytes is reassembled     *)
(* from segments by threads that share nothing but a bit set (one atomic   *)
(* word per WIDTH bytes), an atomic byte count and the message memory.     *)
(*                                                                         *)
(* A call of recv_inner goes through the words of its segment.  For each   *)
(* word one fetch_or marks the bytes and tells the thread which of them    *)
(* were new; runs of new bytes are copied (`f`), a run that touches the    *)
(* top of the word is carried in `start` to the next word.  At the end one *)
(* fetch_add adds the number of copied bytes; the thread that brings the   *)
(* total to Len takes the memory.  Every atomic operation, every copy and  *)
(* the take are steps of their own.                                        *)
(*                                                                         *)
(* The network may drop, duplicate and reorder segments: an idle thread    *)
(* receives any segment of the sender's segmentation at any time.          *)
(***************************************************************************)
EXTENDS Integers, FiniteSets

CONSTANTS
    Threads,        \* the receiving threads; one thread for recv_mut (&mut self)
    Len,            \* message length in bytes
    WIDTH,          \* bits of a word of the bit set, usize::BITS in the code
    Segmentations   \* the sets of segments [off, len] a sender may send

Bytes == 0..(Len - 1)

\* An empty segment is left out: `range.end - 1` underflows on it (see README).
ASSUME SizeAssumption ==
    /\ Len \in Nat \ {0}
    /\ WIDTH \in Nat \ {0}
    /\ \A segs \in Segmentations : \A s \in segs :
        /\ s \in [off : Nat, len : Nat \ {0}]
        /\ s.off + s.len <= Len

None == -1

SegEnd(s) == s.off + s.len

SegBytes(s) == s.off..(SegEnd(s) - 1)

FirstWord(s) == s.off \div WIDTH

LastWord(s) == (SegEnd(s) - 1) \div WIDTH

\* The word after k in run_over_unset_ranges: the loop over the inner words is
\* `seg_off_idx + 1..seg_end_idx - 1`, whose upper bound is exclusive.
NextWord(s, k) == IF k + 1 < LastWord(s) - 1 THEN k + 1 ELSE LastWord(s)

Base(k) == k * WIDTH

Word(k) == Base(k)..(Base(k) + WIDTH - 1)

Span(lo, hi) == [lo |-> lo, hi |-> hi]

RangeBytes(r) == r.lo..(r.hi - 1)

\* The maximal runs of a set of bytes, found in the code by adding 1 << i and
\* looking where the carry stops.
Runs(S) ==
    {r \in [lo : S, hi : {b + 1 : b \in S}] :
        /\ r.lo < r.hi
        /\ RangeBytes(r) \subseteq S
        /\ r.lo - 1 \notin S
        /\ r.hi \notin S}

\* A run that begins at the bottom of word k continues the carried range.
Continued(k, r, start) ==
    IF r.lo = Base(k) /\ start # None THEN Span(start, r.hi) ELSE r

TopOf(k) == Base(k) + WIDTH

\* Session::recv_doc (recv.rs) goes over the words of a bit set of its own with the same
\* loop, under a mutex: the bytes of segment s it marks and counts.
recv_doc_marks(s) ==
    {b \in SegBytes(s) :
        b \div WIDTH \in {FirstWord(s), LastWord(s)} \union ((FirstWord(s) + 1)..(LastWord(s) - 2))}

\* The same without looking at the bits fetch_or returned.
NewBytesUnchecked(s, k, bits) == SegBytes(s) \intersect Word(k)

\* `!pre_bits & seg_bits`: the bytes of segment s in word k not set in bits.
NewBytes(s, k, bits) == (SegBytes(s) \intersect Word(k)) \ bits

\* The ranges check_and_set_bits passes to f when the bytes S of word k are new.
Passed(k, S, start) ==
    {Continued(k, r, start) : r \in {q \in Runs(S) : q.hi # TopOf(k)}}
    \union (IF S # {} /\ Base(k) \notin S /\ start # None
            THEN {Span(start, Base(k))} ELSE {})

\* The start it leaves behind: untouched when no byte of the word was new.
Carried(k, S, start) ==
    LET top == {r \in Runs(S) : r.hi = TopOf(k)} IN
    IF S = {} THEN start
    ELSE IF top = {} THEN None
    ELSE Continued(k, CHOOSE r \in top : TRUE, start).lo

\* The same without the final call.
RestDropped(s, carry) == {}

\* The last f(start..range.end) of run_over_unset_ranges.
Rest(s, carry) == IF carry = None THEN {} ELSE {Span(carry, SegEnd(s))}

\* What a copied range adds to cur_total_set.
RangeLen(r) == r.hi - r.lo

\* The completion test without `cur_total_set > 0`.
CompletesOnAnyCall(pre, n) == pre + n = Len

\* The completion test on the value before the addition.
CompletesOnPre(pre, n) == n > 0 /\ pre = Len

\* The completion test of recv_inner after adding n to pre.
Completes(pre, n) == n > 0 /\ pre + n = Len

-----------------------------------------------------------------------------

VARIABLES
    segs,       \* the sender's segmentation of the message
    marked,     \* set_segs: the bytes whose bit is set
    total_set,  \* the atomic count of copied bytes
    mem,        \* "absent", "building" (in try_new), "some" or "taken"
    written,    \* the bytes of the memory that have been copied into
    received,   \* history: segments whose recv has returned
    pc, seg,    \* per thread: control point and segment being received
    word,       \* per thread: next word of the segment, None after the last
    start,      \* per thread: the carried start
    pending,    \* per thread: ranges passed to f and not yet copied
    cur,        \* per thread: cur_total_set
    copied      \* history: the bytes cur counts

vars == <<segs, marked, total_set, mem, written, received, pc, seg, word, start,
          pending, cur, copied>>

NoSeg == [off |-> 0, len |-> 1]

Init ==
    /\ segs \in Segmentations
    /\ marked = {}
    /\ total_set = 0
    /\ mem = "absent"
    /\ written = {}
    /\ received = {}
    /\ pc = [t \in Threads |-> "idle"]
    /\ seg = [t \in Threads |-> NoSeg]
    /\ word = [t \in Threads |-> None]
    /\ start = [t \in Threads |-> None]
    /\ pending = [t \in Threads |-> {}]
    /\ cur = [t \in Threads |-> 0]
    /\ copied = [t \in Threads |-> {}]

\* Entry of recv_inner.
Begin(t, s) ==
    /\ pc[t] = "idle"
    /\ pc' = [pc EXCEPT ![t] = "scan"]
    /\ seg' = [seg EXCEPT ![t] = s]
    /\ word' = [word EXCEPT ![t] = FirstWord(s)]
    /\ UNCHANGED <<segs, marked, total_set, written, received, start, pending, cur, copied>>

\* try_new: a segment that is the whole message needs no desegmenter; otherwise
\* memory is allocated and the segment received before anyone shares the object.
TryNew(t, s) ==
    /\ mem = "absent"
    /\ s.len # Len
    /\ mem' = "building"
    /\ Begin(t, s)

\* recv and recv_mut.  A header that does not pass the checks, or has another message
\* length, returns Invalid and changes nothing.
Recv(t, s) ==
    /\ mem \in {"some", "taken"}
    /\ Begin(t, s)
    /\ UNCHANGED mem

\* Where a thread goes once its call of f, for ranges p, is done.
After(p, w) == IF p # {} THEN "copy" ELSE IF w # None THEN "scan" ELSE "add"

\* check_and_set_bits on one word, and the final f(start..range.end) after the
\* last one.
CheckAndSetBits(t) ==
    LET s == seg[t]
        k == word[t]
        new == NewBytes(s, k, marked)
        carry == Carried(k, new, start[t])
        last == k = LastWord(s)
        passed == Passed(k, new, start[t]) \union (IF last THEN Rest(s, carry) ELSE {})
        next == IF last THEN None ELSE NextWord(s, k)
    IN
    /\ pc[t] = "scan"
    /\ marked' = marked \union new
    /\ start' = [start EXCEPT ![t] = IF last THEN None ELSE carry]
    /\ word' = [word EXCEPT ![t] = next]
    /\ pending' = [pending EXCEPT ![t] = passed]
    /\ pc' = [pc EXCEPT ![t] = After(passed, next)]
    /\ UNCHANGED <<segs, total_set, mem, written, received, seg, cur, copied>>

\* The closure of recv_inner: copy one range, lowest first.
Copy(t, r) ==
    /\ pc[t] = "copy"
    /\ r \in pending[t]
    /\ \A q \in pending[t] : r.lo <= q.lo
    /\ written' = written \union RangeBytes(r)
    /\ copied' = [copied EXCEPT ![t] = @ \union RangeBytes(r)]
    /\ cur' = [cur EXCEPT ![t] = @ + RangeLen(r)]
    /\ pending' = [pending EXCEPT ![t] = @ \ {r}]
    /\ pc' = [pc EXCEPT ![t] = After(pending[t] \ {r}, word[t])]
    /\ UNCHANGED <<segs, marked, total_set, mem, received, seg, word, start>>

\* The fetch_add at the end of recv_inner; try_new then publishes the object.
FetchAdd(t) ==
    /\ pc[t] = "add"
    /\ total_set' = total_set + cur[t]
    /\ cur' = [cur EXCEPT ![t] = 0]
    /\ copied' = [copied EXCEPT ![t] = {}]
    /\ received' = received \union {seg[t]}
    /\ mem' = IF mem = "building" THEN "some" ELSE mem
    /\ pc' = [pc EXCEPT ![t] = IF Completes(total_set, cur[t]) THEN "take" ELSE "idle"]
    /\ UNCHANGED <<segs, marked, written, seg, word, start, pending>>

\* mem.take(): the finished message leaves the desegmenter.
Take(t) ==
    /\ pc[t] = "take"
    /\ mem' = "taken"
    /\ pc' = [pc EXCEPT ![t] = "idle"]
    /\ UNCHANGED <<segs, marked, total_set, written, received, seg, word, start,
                   pending, cur, copied>>

Next ==
    \E t \in Threads :
        \/ \E s \in segs : TryNew(t, s)
        \/ \E s \in segs : Recv(t, s)
        \/ CheckAndSetBits(t)
        \/ \E r \in pending[t] : Copy(t, r)
        \/ FetchAdd(t)
        \/ Take(t)

Spec == Init /\ [][Next]_vars

\* No two threads are at work on copies of one segment.  With one thread (recv_mut) this is
\* always so; callers that share the object (recv) have to see to it themselves.
NoCopies ==
    \A t, u \in Threads :
        pc[t] \in {"scan", "copy"} /\ pc[u] \in {"scan", "copy"} /\ seg[t] = seg[u] => t = u

SpecApart == Init /\ [][Next /\ NoCopies']_vars

-----------------------------------------------------------------------------

Segments == UNION Segmentations

\* Every variable keeps its type, ranges lie inside the message and the count
\* never exceeds the message length.
TypeOK ==
    /\ segs \in Segmentations
    /\ marked \in SUBSET Bytes
    /\ total_set \in 0..Len
    /\ mem \in {"absent", "building", "some", "taken"}
    /\ written \in SUBSET Bytes
    /\ received \in SUBSET Segments
    /\ pc \in [Threads -> {"idle", "scan", "copy", "add", "take"}]
    /\ seg \in [Threads -> Segments \union {NoSeg}]
    /\ word \in [Threads -> Nat \union {None}]
    /\ start \in [Threads -> Bytes \union {None}]
    /\ pending \in [Threads -> SUBSET [lo : Bytes, hi : 1..Len]]
    /\ cur \in [Threads -> 0..Len]
    /\ copied \in [Threads -> SUBSET Bytes]

\* "f will always be passed mutually-exclusive, non-overlapping ranges of bytes of
\* the full message": no range waiting to be copied overlaps another one, of this or
\* any other thread, or a byte that was already copied.
ExclusiveRanges ==
    \A t \in Threads : \A r \in pending[t] :
        /\ RangeBytes(r) \intersect written = {}
        /\ \A u \in Threads : \A q \in pending[u] :
            <<t, r>> # <<u, q>> => RangeBytes(r) \intersect RangeBytes(q) = {}

\* "total_set can only atomically sum to self.len exactly once": a thread that is
\* about to take the memory is the only one, finds it there, finds every byte
\* written, and no other thread still writes to it (with ExclusiveRanges, no thread
\* copies later into memory that the closure unwraps unchecked).
CompletesOnceAndWhole ==
    \A t \in Threads : pc[t] = "take" =>
        /\ mem = "some"
        /\ written = Bytes
        /\ \A u \in Threads \ {t} : pc[u] # "take" /\ pending[u] = {}

\* Whatever the segments, a thread that is about to take the memory is the only one and
\* finds it there: it is taken with unwrap_unchecked.
TakenOnce ==
    \A t \in Threads : pc[t] = "take" => mem = "some" /\ \A u \in Threads \ {t} : pc[u] # "take"

\* When all segments have come, recv_doc has counted every byte of the document, so that it
\* is complete.
RecvDocCounts == received = segs => UNION {recv_doc_marks(s) : s \in segs} = Bytes

\* When every byte was in some received segment and no call is in progress, the
\* message has been handed out.
NothingIsLost ==
    (/\ \A t \in Threads : pc[t] = "idle"
     /\ UNION {SegBytes(s) : s \in received} = Bytes) => mem = "taken"

\* A byte whose bit is set has been copied, or a thread is about to copy it: it lies
\* in a pending range, or between the carried start and the next word of a call that
\* is still running.  The bit set never runs ahead of the memory for good.
MarkedIsCopied ==
    \A b \in marked \ written : \E t \in Threads :
        \/ \E r \in pending[t] : b \in RangeBytes(r)
        \/ start[t] # None /\ word[t] # None /\ start[t] <= b /\ b < Base(word[t])
=============================================================================
