SPECIFICATION Spec
CONSTANTS
    ByteBits = 8
    Mtu = 64
    DocLen <- Lengths
    ParentNo <- Parents
    Special = {}
    Threads = {t1}
    SendDocs = {2, 4}
    RecvDocs = {3}
    SlotOf <- OwnSlots
    InitAcks <- TwoAcks
    Uid <- Uids
    LocalId <- Uids
    CurIdx = 1
    Budgets = {3}
    InitQueue <- Queued
    Ending = {3}
    MaxEnding = 1
    MaxSends = 1
    MaxCalls = 2
INVARIANTS AcksOnTheirSocket DroppedAnnounced
CHECK_DEADLOCK FALSE
