SPECIFICATION Spec
CONSTANTS
    Receivers = {r1, r2}
    Flushers = {f1}
    Docs = {d1, d2}
    Spurious = {f1}
    Cancels = {r1}
INVARIANT NobodyForgotten
PROPERTY FlushMeansFinished
CHECK_DEADLOCK FALSE
