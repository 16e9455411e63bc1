SPECIFICATION Spec
CHECK_DEADLOCK FALSE
CONSTANTS
    Sessions <- TwoSessions
    Refs <- MCHomes
    SpaceLists <- OneList
    StartTrees <- HomeTrees
    Commands <- HomeCommands
    MoveReplaces = {FALSE}
    Faults <- FaultKinds
    MaxCommands = 3
    MaxForeign = 0
    s1 = s1
    s2 = s2
    id1 = id1
    id2 = id2
    Personal = Personal
    Project = Project
    docs = docs
    pics = pics
PROPERTIES
    ImplementsNamespace
