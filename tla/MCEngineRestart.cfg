CONSTANTS
    a = a
    b = b
    Validators = {a, b}
    Roster <- RosterAB
    MaxHeight = 2
    MaxRound = 0
    Restartable = {b}
    MaxRestarts = 1
    StoreMayFail = TRUE
    Outside = {}
    Nil = Nil
    Genesis = Genesis
    NoProposal = NoProposal
SPECIFICATION Spec
INVARIANTS
    StoredBlocksCertified
    OnlyRestartedJailed
PROPERTIES
    ImplementsVoting
