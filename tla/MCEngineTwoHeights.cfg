CONSTANTS
    a = a
    b = b
    Validators = {a, b}
    Roster <- RosterAB
    MaxHeight = 2
    MaxRound = 1
    Restartable = {}
    MaxRestarts = 0
    StoreMayFail = FALSE
    Outside <- OutsideSecond
    Nil = Nil
    Genesis = Genesis
    NoProposal = NoProposal
SPECIFICATION Spec
INVARIANTS
    TypeOK
    ChainsAgree
    BuildsOncePerRound
    OneCommitAtATime
PROPERTIES
    NeverGoesBack
