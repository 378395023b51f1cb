CONSTANTS
    reply = reply
    scene = scene
    talk1 = talk1
    talk2 = talk2
    NoUnit = NoUnit
    Unit = {reply, scene, talk1, talk2}
    ThreadUnits = {talk1, talk2}
    Gesturing = {scene}
    Priority <- MCPriority
SPECIFICATION FairSpec
INVARIANTS OneUnitAtATime GateHasOwner ReportMatchesSound OneSlipsThrough
PROPERTIES MainLoopFallsSilent EveryOutputEnds
CHECK_DEADLOCK FALSE
