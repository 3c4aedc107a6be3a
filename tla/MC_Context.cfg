\* Messages of two fragments; confirm numbers share shards with initial ones, so that threads may
\* wait for each other for ever.
CONSTANTS
    p = p
    l = l
    s1 = s1
    s2 = s2
    s3 = s3
    t1 = t1
    t2 = t2
    NoThread = NoThread
    NoSocket = NoSocket
    Threads = {t1, t2}
    Remote = {p}
    Local = {l}
    Segs = 2
    SocketIds = {s1, s2, s3}
    ShardOf <- CrossedShards
SPECIFICATION FairSpec
INVARIANTS
    ProcessedOnce
    OneHolder
    NoCollision
    OnlyAnswersDeadlock
CHECK_DEADLOCK FALSE
PROPERTY CallsReturn
