\* Two senders wait for a place.
CONSTANTS
    a = a
    b = b
    c = c
    Senders = {a, b}
    Waits = {a, b}
    LenOf <- Short
    Count = 1
    N = 2
    BytesMax = 4
SPECIFICATION Spec
CHECK_DEADLOCK FALSE
INVARIANTS
    NobodyLeftAsleep
    ParentIsOlder
