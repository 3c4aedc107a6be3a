SPECIFICATION Spec
CONSTANTS
    Threads = {t1, t2, t3}
    CounterBits = 3
    LBits = 1
SYMMETRY Symmetry
INVARIANTS
    FreshInWindowPasses
PROPERTY
    ImplementsFilter
CHECK_DEADLOCK FALSE
