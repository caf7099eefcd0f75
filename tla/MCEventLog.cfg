SPECIFICATION FairSpec
CONSTANTS
    c1 = c1
    c2 = c2
    s1 = s1
    chA = chA
    chB = chB
    nsX = nsX
    Caches <- TwoCaches
    Admins <- AdminC2
    Subs <- OneSub
    Channels <- TwoChannels
    Namespaces <- OneNamespace
    NamespaceOf <- AllInX
    CacheOf <- AllOnC1
    Patterns <- ListensToA
    Retention = 1
    MaxCount = 1
    EventsBatch = 2
    SweepBatch = 1
    QueueCap = 1
    MaxSeq = 2
    MaxTime = 1
    MaxBatch = 2
INVARIANT TypeOK
INVARIANT RetentionLeavesNoHole
INVARIANT NoSilentLoss
INVARIANT InSeqOrder
INVARIANT SavedCursorIsSafe
INVARIANT ResumeSeqSkipsNothing
PROPERTY EventuallyReceived
