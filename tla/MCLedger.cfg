CONSTANTS
    a = a
    b = b
    c = c
    d = d
    e = e
    Accounts = {a, b, c, d, e}
    AddressOrder <- Order
    Txs <- Signed
    StartAccounts <- Start
    MiningCap = 3
    Unit = 2
    Seeds <- Seeding
    MaxApplied = 2
SPECIFICATION Spec
CHECK_DEADLOCK FALSE
INVARIANTS
    Solvent
    AppliedOnce
    NoncesUsed
    SupplyAccounted
    ProofsVerify
    RootDetermines
