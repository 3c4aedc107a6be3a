--------------------------- MODULE MC_Desegmenter ---------------------------
(* Segmentations for the desegmenter's runs.                               *)
EXTENDS Desegmenter, TLC

Symmetry == Permutations(Threads)

Seg(off, len) == [off |-> off, len |-> len]

\* Every segment of the message that lies inside one word of the bit set.
WordSegs ==
    {s \in {Seg(o, l) : o \in Bytes, l \in 1..Len} : SegEnd(s) <= Len /\ FirstWord(s) = LastWord(s)}

OneWordSegments == {WordSegs}

\* Every way to cut the message into two to four consecutive segments: cuts are the offsets
\* where a new segment begins.
Partition(cuts) ==
    {Seg(o, e - o) : <<o, e>> \in
        {p \in ({0} \union cuts) \X (cuts \union {Len}) :
            p[1] < p[2] /\ \A c \in cuts : ~(p[1] < c /\ c < p[2])}}

Partitions == {Partition(cuts) : cuts \in {c \in SUBSET (1..(Len - 1)) : Cardinality(c) \in 1..3}}

\* One segment across two words.
TwoWordSegment == {{Seg(0, 1), Seg(1, WIDTH), Seg(WIDTH + 1, Len - WIDTH - 1)}}

\* A segment of three words and, after re-segmentation, a part of its middle word.
Resegmented == {{Seg(0, 3 * WIDTH), Seg(WIDTH, WIDTH - 1), Seg(3 * WIDTH, Len - 3 * WIDTH)}}

AcrossWords == TwoWordSegment \union Resegmented

\* All segments inside a word, or one of the partitions.
WordsOrPartitions == OneWordSegments \union Partitions

\* Two threads may be at work on copies of a segment if it lies inside a word.
InWords == \A s \in segs : FirstWord(s) = LastWord(s)

SpecShared == Init /\ [][Next /\ (InWords \/ NoCopies')]_vars
=============================================================================
