CONSTANTS
    u = u
    v = v
    w = w
    AddressOrder <- Order
    Local = v
    Sets <- Posted
    Registrants = {w}
    Offenders = {u}
    Calls = {1, 2}
    MaxEpoch = 3
    MaxStakes = 1
    MaxRestarts = 1
SPECIFICATION Spec
CHECK_DEADLOCK FALSE
INVARIANTS
    EveryoneLeads
    RosterSurvives
    JailHolds
PROPERTY
    EpochIsRevision
