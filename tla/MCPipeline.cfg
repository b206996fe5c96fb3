CONSTANTS
    a = a
    b = b
    Accounts = {a, b}
    Txs <- Signed
    StartAccounts <- Start
    MiningCap = 0
    Unit = 1
    Seeds = {}
    MaxApplied = 2
    Clients = {c}
    MaxTxs = 2
    CacheSize = 1
    MaxBlockTxs = 2
    MaxBlocks = 2
    MaxRestarts = 1
    NoTx = NoTx
SPECIFICATION PipelineSpec
CHECK_DEADLOCK FALSE
INVARIANTS
    PoolConsistent
    FollowsDecided
    NoReplay
PROPERTY
    ImplementsLedger
