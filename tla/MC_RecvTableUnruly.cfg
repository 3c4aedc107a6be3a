\* A peer that does not wait for fins and names parents that do not exist.
CONSTANTS
    Threads = {t1, t2}
    App = app
    NRecv = 2
    NSend = 1
    Own = {1}
    Awaited = {}
    Docs <- Unruly
    Closable = {2, 4}
    PeerCloses = {}
    MaxBytes = 2
    Behaved = FALSE
    MaxHandles = 1
SPECIFICATION Spec
SYMMETRY Symmetry
CHECK_DEADLOCK FALSE
INVARIANTS
    TypeOK
    OwnedOnce
    BytesExact
    RefCountExact
    LocksAscend
