\* A document that comes into the slot of its own parent.
CONSTANTS
    Threads = {t1}
    App = app
    NRecv = 2
    NSend = 1
    Own = {1}
    Awaited = {}
    Docs <- OwnSlot
    Closable = {}
    PeerCloses = {}
    MaxBytes = 3
    Behaved = TRUE
    MaxHandles = 1
SPECIFICATION Spec
SYMMETRY Symmetry
CHECK_DEADLOCK FALSE
INVARIANTS
    NoDeadlock
