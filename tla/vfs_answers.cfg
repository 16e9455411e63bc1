SPECIFICATION Spec
CHECK_DEADLOCK FALSE
CONSTANTS
    Sessions <- TwoSessions
    Refs <- MCRefs
    SpaceLists <- SwapLists
    StartTrees <- MixedTrees
    Commands <- AllCommands
    MoveReplaces = {TRUE, FALSE}
    Faults <- FaultKinds
    MaxCommands = 2
    MaxForeign = 1
    s1 = s1
    s2 = s2
    id1 = id1
    id2 = id2
    Personal = Personal
    Project = Project
    docs = docs
    pics = pics
INVARIANTS
    TypeOK
    AnswersTrue
PROPERTIES
    ChangesOnlyNamed
