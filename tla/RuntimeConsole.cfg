CONSTANTS
    u1 = u1
    s1 = s1
    x1 = x1
    a1 = a1
    a2 = a2
    NoActivity = NoActivity
    Activity <- Console
    kindOf <- ConsoleKindOf
    MaxQueueSize = 1
SPECIFICATION FairSpec
CHECK_DEADLOCK FALSE
INVARIANTS
    QueuedTalkIsFresh
    ConversationHasRunner
PROPERTIES
    AcceptanceClearsTalk
    UserTextAnswered
