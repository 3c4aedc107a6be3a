\* A reply received in the application's buffer, and the future dropped with it.
CONSTANTS
    Threads = {t1}
    App = app
    NRecv = 3
    NSend = 1
    Own = {1}
    Awaited = {1}
    Docs <- Reply
    Closable = {1}
    PeerCloses = {}
    MaxBytes = 3
    Behaved = TRUE
    MaxHandles = 1
SPECIFICATION Spec
SYMMETRY Symmetry
CHECK_DEADLOCK FALSE
INVARIANTS
    OwnedOnce
    DeliveredIsReleased
