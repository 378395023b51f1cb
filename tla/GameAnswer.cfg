SPECIFICATION Spec
CONSTANTS
    Ka = Ka
    Me = Me
    Nn = Nn
    AnyKana = AnyKana
    Ame = Ame
    Meka = Meka
    Men = Men
    NoWord = NoWord
    Words <- MCWords
    FirstKana <- MCFirst
    LastKana <- MCLast
    Fallbacks <- MCFallbacks
    Texts <- MCTexts
    Drafts <- MCDrafts
    NoText = NoText
    NoPlan = NoPlan
    NoQuestion = NoQuestion
    NoOngoing = NoOngoing
    MaxAttempts = 2
    MaxTries = 2
    MaxTurns = 4
INVARIANT AnswerIsNotPlayed
CHECK_DEADLOCK FALSE
