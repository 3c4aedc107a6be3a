\* Three senders race for two places and three bytes; one document is too large.
CONSTANTS
    a = a
    b = b
    c = c
    Senders = {a, b, c}
    Waits = {b, c}
    LenOf <- Lens
    Count = 2
    N = 3
    BytesMax = 4
SPECIFICATION Spec
CHECK_DEADLOCK FALSE
INVARIANTS
    TypeOK
    SlotForEach
    BytesBelowMax
    CountersSettle
