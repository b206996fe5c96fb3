CONSTANTS
    Validators = {v1, v2, v3, v4}
    Faulty = {v4}
    Heights = {1}
    Rounds = {0, 1}
    Blocks = {x, y}
    Nil = Nil
SYMMETRY Symmetry
SPECIFICATION Spec
CHECK_DEADLOCK FALSE
INVARIANTS
    Agreement
    NoEquivocation
    AgreementInv
