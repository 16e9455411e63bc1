SPECIFICATION Spec
CONSTANTS
    Workers <- Workers2
    NoWorker = NoWorker
    Bytes <- MCBytes
    Zero = 0
    Offsets = {0, 1}
    Lengths = {1}
    Chunks <- MCChunks
    OpenFlags <- MCFlagsWrite
    StartContents = {}
    StartAbsent = TRUE
    ForeignContents <- MCForeign
    ForeignDeletes = FALSE
    GetEtag = {TRUE}
    PutEtag = {TRUE}
    Faults = {}
    MaxWrites = 2
    MaxForeign = 0
    w1 = w1
    w2 = w2
    x = x
    y = y
    o = o
PROPERTIES
    NoLostUpdate
