CONSTANTS
    a = a
    b = b
    Accounts = {a, b}
    Txs <- Signed
    StartAccounts <- Start
    MiningCap = 1
    Unit = 1
    MaxApplied = 1
    Seed = seed
    Joiner = joiner
    BFTEnabled = FALSE
    MaxBlockTxs = 2
    RecentBlocks = 1
    MaxHeight = 3
    MaxFailures = 1
    MaxImports = 2
    NoBlock = NoBlock
SPECIFICATION Spec
CHECK_DEADLOCK FALSE
INVARIANTS
    HeadersAgree
    JoinerFollows
