SPECIFICATION Spec
CONSTANTS
    ByteBits = 8
    Mtu = 64
    DocLen <- Lengths
    ParentNo <- Parents
    Special = {}
    Threads = {t1}
    SendDocs = {2, 4}
    RecvDocs = {}
    SlotOf <- OwnSlots
    InitAcks <- FewAcks
    Uid <- Socket
    LocalId <- Socket
    CurIdx = 1
    Budgets = {1, 3}
    InitQueue <- Queued
    Ending = {}
    MaxEnding = 1
    MaxSends = 1
    MaxCalls = 3
INVARIANTS
    TypeOK
    SentOnce
    WithinMtu
CHECK_DEADLOCK FALSE
