CONSTANTS
    n1 = n1
    n2 = n2
    e1 = e1
    NoCommand = NoCommand
    Normal = {n1}
    Emergency = {e1}
SPECIFICATION Spec
INVARIANTS EmergencyTakesEffect
CHECK_DEADLOCK FALSE
