SPECIFICATION FairSpec
CONSTANTS
    r1 = r1
    MaxComments = 3
    PerPoll = 2
    MaxRetries = 1
    MaxPolls = 2
    PoolSize = 2
    Retries = {r1}
    MaxResponses = 1
CHECK_DEADLOCK FALSE
INVARIANTS SeenIsAccountedFor AnsweredOnce ReservationMatchesResponse
PROPERTIES EveryTaskEnds
