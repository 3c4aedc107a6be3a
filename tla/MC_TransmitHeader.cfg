SPECIFICATION Spec
CONSTANTS
    ByteBits = 8
    Mtu = 64
    DocLen <- LongLengths
    ParentNo <- Parents
    Special = {}
    Threads = {t1}
    SendDocs = {2}
    RecvDocs = {}
    SlotOf <- OwnSlots
    InitAcks <- ManyAcks
    Uid <- Socket
    LocalId <- Socket
    CurIdx = 1
    Budgets = {3}
    InitQueue <- QueuedAlone
    Ending = {}
    MaxEnding = 1
    MaxSends = 1
    MaxCalls = 2
INVARIANT WithinMtu
CHECK_DEADLOCK FALSE
