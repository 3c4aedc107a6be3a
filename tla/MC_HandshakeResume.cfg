CONSTANTS
    A = A
    B = B
    C = C
    Party = {A, B, C}
    Reliable = {A, B}
    MaxHandshake = 2
    Validity <- Lifetimes
    MaxTime = 2
    TAG_LEN = 16
    SIGN_LEN = 64
    InitSignTagRev = 0
SPECIFICATION Spec
SYMMETRY Symmetry
INVARIANTS Agreement CompletionOrder NoFallbackWithReliableStorage
PROPERTIES IntendedParty OnlyJustifiedFailures
CHECK_DEADLOCK FALSE
