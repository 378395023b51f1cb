CONSTANTS
    n1 = n1
    n2 = n2
    e1 = e1
    NoCommand = NoCommand
    Normal = {n1, n2}
    Emergency = {e1}
SPECIFICATION FairSpec
INVARIANTS EndingHasRunner FinishedMeansStopped NormalEndInOrder SuccessMatchesStatus
PROPERTIES EmergencyEndsFarewell EveryCommandEnds
CHECK_DEADLOCK FALSE
