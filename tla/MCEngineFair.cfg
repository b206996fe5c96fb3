CONSTANTS
    a = a
    b = b
    Validators = {a, b}
    Roster <- RosterAB
    MaxHeight = 1
    MaxRound = 1
    Restartable = {}
    MaxRestarts = 0
    StoreMayFail = FALSE
    Outside <- OutsideFirst
    Nil = Nil
    Genesis = Genesis
    NoProposal = NoProposal
SPECIFICATION FairSpec
PROPERTIES
    ImplementsVoting
    LeavesCommit
    NeverHangs
