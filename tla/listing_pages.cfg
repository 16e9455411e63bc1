SPECIFICATION FairSpec
CONSTANTS
    Files = {docs, pics, music, notes}
    Handles = {h1, h2}
    MaxFilelist = 2
    MaxChanges = 1
INVARIANTS
    EndIsWhole
PROPERTIES
    ReadingEnds
