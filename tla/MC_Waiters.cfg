SPECIFICATION FairSpec
CONSTANTS
    Receivers = {r1, r2, r3}
    Flushers = {f1, f2}
    Docs = {d1, d2, d3}
    Spurious = {}
    Cancels = {f1}
INVARIANT NobodyForgotten
PROPERTIES
    ReceiversServed
    FlushReturns
CHECK_DEADLOCK FALSE
