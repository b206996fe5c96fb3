CONSTANTS
    x = x
    y = y
    Roster <- Turns
    Syncers = {x}
    ChunkSize = 2
    Keep = 1
    Word = 16
    NoBlock = NoBlock
    MaxHeight = 3
    MaxSeals = 2
    Judgements <- Views
    MaxViews = 1
    MaxSyncs = 1
    MaxPrunes = 1
SPECIFICATION Spec
CHECK_DEADLOCK FALSE
INVARIANTS
    OneChain
    TipStaysLoadable
PROPERTIES
    FallsOnlyOvertaken
    SyncEnds
