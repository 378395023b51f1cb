CONSTANTS
    u1 = u1
    x1 = x1
    a1 = a1
    a2 = a2
    i1 = i1
    NoActivity = NoActivity
    Activity <- MCActivity
    kindOf <- MCKindOf
SPECIFICATION ManagerSpec
CHECK_DEADLOCK FALSE
INVARIANTS
    ManagerTypeOK
    ForegroundIsTheActive
PROPERTIES
    OnlyCancellationStrands
    NeverRevived
    ResumesInOrder
