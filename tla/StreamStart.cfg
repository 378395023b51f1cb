SPECIFICATION FairSpec
CONSTANTS
    p1 = p1  p2 = p2  p3 = p3  s1 = s1  s2 = s2  r1 = r1  r2 = r2
    Required = {"youtube", "obs", "tts", "run_of_show"}
    AllowDegraded = FALSE
    AllowLive = FALSE
    MaxSessions = 2
    Prepares = {p1, p2}
    Naming = {}
    Starts = {s1, s2}
    NoPrepare = NoPrepare
    Retries = {r1, r2}
    MaxAttempts = 2
    Order <- InOrder
CHECK_DEADLOCK FALSE
INVARIANTS OneOwner OneActiveSession
PROPERTIES SegmentsInOrder ImplementsLife StartsSettle
