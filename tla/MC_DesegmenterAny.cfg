\* Segments over several words that overlap and are received twice at once.
SPECIFICATION Spec
CONSTANTS
    Threads = {t1, t2}
    Len = 7
    WIDTH = 2
    Segmentations <- AcrossWords
SYMMETRY Symmetry
INVARIANTS
    MarkedIsCopied
    TakenOnce
