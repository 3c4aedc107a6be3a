SPECIFICATION Spec
CONSTANTS
    ByteBits = 3
    Numbers <- SomeNumbers
    Spaces = {5, 6, 7, 9, 13, 40}
INVARIANTS
    TypeOK
    AcksExact
    FilledWithinCapacity
CHECK_DEADLOCK FALSE
