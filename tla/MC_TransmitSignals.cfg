SPECIFICATION Spec
CONSTANTS
    ByteBits = 8
    Mtu = 64
    DocLen <- Lengths
    ParentNo <- Parents
    Special = {}
    Threads = {t1, t2}
    SendDocs = {2, 4}
    RecvDocs = {3}
    SlotOf <- OwnSlots
    InitAcks <- FewAcks
    Uid <- Socket
    LocalId <- Socket
    CurIdx = 1
    Budgets = {2}
    InitQueue <- Queued
    Ending = {3, 4}
    MaxEnding = 1
    MaxSends = 1
    MaxCalls = 2
SYMMETRY Symmetry
INVARIANTS
    SignalsKept
    SignalsScheduled
CHECK_DEADLOCK FALSE
