\* A tree of documents in two slots that are used again; channels are closed by either side.
CONSTANTS
    Threads = {t1, t2}
    App = app
    NRecv = 2
    NSend = 1
    Own = {1}
    Awaited = {}
    Docs <- Tree
    Closable = {1, 2, 4}
    PeerCloses = {2, 4}
    MaxBytes = 2
    Behaved = TRUE
    MaxHandles = 2
SPECIFICATION Spec
SYMMETRY Symmetry
CHECK_DEADLOCK FALSE
INVARIANTS
    OrphansWait
    OwnedOnce
    BytesExact
    RefCountExact
    NoDeadlock
    SlotsKept
    RejectedForKnownReasons
