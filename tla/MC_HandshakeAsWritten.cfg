CONSTANTS
    A = A
    B = B
    C = C
    Party = {A, B, C}
    Reliable = {A, B}
    MaxHandshake = 2
    Validity <- OneLifetime
    MaxTime = 0
    TAG_LEN = 16
    SIGN_LEN = 64
    InitSignTagRev = 16
SPECIFICATION Spec
SYMMETRY Symmetry
INVARIANTS ResumptionInitializes
CHECK_DEADLOCK FALSE
