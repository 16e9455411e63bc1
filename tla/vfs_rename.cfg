SPECIFICATION Spec
CHECK_DEADLOCK FALSE
CONSTANTS
    Sessions <- OneSession
    Refs <- MCRefs
    SpaceLists <- OneList
    StartTrees <- FileTree
    Commands <- OnlyRename
    MoveReplaces = {TRUE}
    Faults = {"stat"}
    MaxCommands = 1
    MaxForeign = 0
    s1 = s1
    s2 = s2
    id1 = id1
    id2 = id2
    Personal = Personal
    Project = Project
    docs = docs
    pics = pics
PROPERTIES
    RenameKeepsTarget
