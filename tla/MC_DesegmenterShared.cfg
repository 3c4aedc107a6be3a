\* Segments shared out between two threads: copies of short ones at once, longer ones apart.
SPECIFICATION SpecShared
CONSTANTS
    Threads = {t1, t2}
    Len = 7
    WIDTH = 2
    Segmentations <- WordsOrPartitions
SYMMETRY Symmetry
INVARIANTS
    ExclusiveRanges
    CompletesOnceAndWhole
    NothingIsLost
    MarkedIsCopied
