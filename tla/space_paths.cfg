SPECIFICATION Spec
CONSTANTS
    Letters = {a}
    Slash = Slash
    Dot = Dot
    Ids <- MCIds
    SpaceLists <- MCLists
    MaxLength = 7
    a = a
    id1 = id1
    id2 = id2
INVARIANTS
    LooksUpWhatIsNamed
    SlashesDoNotMatter
