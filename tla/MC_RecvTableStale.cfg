\* A thread waits for a slot that is used again before it wakes.
CONSTANTS
    Threads = {t1, t2}
    App = app
    NRecv = 1
    NSend = 1
    Own = {1}
    Awaited = {}
    Docs <- SpecialTurns
    Closable = {}
    PeerCloses = {}
    MaxBytes = 3
    Behaved = TRUE
    MaxHandles = 1
SPECIFICATION Spec
SYMMETRY Symmetry
CHECK_DEADLOCK FALSE
INVARIANTS
    OwnSegments
