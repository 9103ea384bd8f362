SPECIFICATION SyncSpec
CONSTANTS
    acc = acc
    main = main
    gov = gov
    lock = lock
    tparams = tparams
    Iavl = {acc, gov, main, lock}
    Transient = {tparams}
    StoreKeyHeight <- LockUpgrade
    NumRecent = 1
    StoreEvery = 3
    StartVersion = 1
    MaxVersion = 6
    MaxCrashes = 2
    StoreNames <- ByName
    Layouts <- SomeLayouts
    PayloadMax = 2
    FlushEvery = 2
    MaxRecoveries = 2
CHECK_DEADLOCK FALSE
INVARIANTS
    RecoversCommitted
    PrunedExactly
    SyncedWhole
PROPERTIES
    ReachesLastBlock
