\* A slot whose document was dropped is used again after its fin.
CONSTANTS
    Threads = {t1}
    App = app
    NRecv = 2
    NSend = 1
    Own = {1}
    Awaited = {}
    Docs <- Turns
    Closable = {1}
    PeerCloses = {}
    MaxBytes = 3
    Behaved = TRUE
    MaxHandles = 1
SPECIFICATION Spec
SYMMETRY Symmetry
CHECK_DEADLOCK FALSE
INVARIANTS
    FinFreesSlot
