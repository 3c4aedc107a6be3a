\* A reply into the application's buffer, the future being polled and not dropped before,
\* and a slot that is used again when its first document is finished.
CONSTANTS
    Threads = {t1, t2}
    App = app
    NRecv = 3
    NSend = 2
    Own = {1, 3}
    Awaited = {1}
    Docs <- Replies
    Closable = {2, 4, 6, 10}
    PeerCloses = {4}
    MaxBytes = 3
    Behaved = TRUE
    MaxHandles = 1
SPECIFICATION FairSpec
INVARIANTS
    ReplyStillAwaited
PROPERTIES
    EveryCallReturns
