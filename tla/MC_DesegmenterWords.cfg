\* Two threads receive copies of a segment that crosses a word.
SPECIFICATION Spec
CONSTANTS
    Threads = {t1, t2}
    Len = 7
    WIDTH = 2
    Segmentations <- TwoWordSegment
SYMMETRY Symmetry
INVARIANTS
    ExclusiveRanges
    RecvDocCounts
