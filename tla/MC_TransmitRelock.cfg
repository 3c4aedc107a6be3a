SPECIFICATION ReuseSpec
CONSTANTS
    ByteBits = 8
    Mtu = 64
    DocLen <- LongLengths
    ParentNo <- Parents
    Special = {}
    Threads = {t1}
    SendDocs = {2, 4, 6}
    RecvDocs = {}
    SlotOf <- SharedSlot
    InitAcks <- FewAcks
    Uid <- Socket
    LocalId <- Socket
    CurIdx = 1
    Budgets = {3}
    InitQueue <- QueuedTwice
    Ending = {2}
    MaxEnding = 1
    MaxSends = 1
    MaxCalls = 1
INVARIANT OwnNumber
CHECK_DEADLOCK FALSE
