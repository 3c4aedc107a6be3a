\* A slot that has had orphans is offered to the document after their parent; the second
\* segment of the parent may arrive first.
CONSTANTS
    Threads = {t1, t2}
    App = app
    NRecv = 2
    NSend = 1
    Own = {1}
    Awaited = {}
    Docs <- OrphanFirst
    Closable = {}
    PeerCloses = {}
    MaxBytes = 3
    Behaved = TRUE
    MaxHandles = 1
SPECIFICATION Spec
SYMMETRY Symmetry
CHECK_DEADLOCK FALSE
INVARIANTS
    KeptForOrphansOnly
    CompleteHasParent
