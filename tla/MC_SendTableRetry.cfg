\* Senders that try again until their documents are sent.
CONSTANTS
    a = a
    b = b
    c = c
    Senders = {a, b, c}
    Waits = {}
    LenOf <- Short
    Count = 1
    N = 2
    BytesMax = 4
SPECIFICATION FairSpec
CHECK_DEADLOCK FALSE
PROPERTIES
    AllSent
