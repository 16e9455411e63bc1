SPECIFICATION Spec
CONSTANTS
    Workers <- Workers1
    NoWorker = NoWorker
    Bytes <- MCBytes
    Zero = 0
    Offsets = {0}
    Lengths = {1}
    Chunks <- MCShort
    OpenFlags <- MCFlagsRW
    StartContents <- MCAny
    StartAbsent = FALSE
    ForeignContents <- MCForeign
    ForeignDeletes = FALSE
    GetEtag = {TRUE}
    PutEtag = {TRUE}
    Faults <- MCStatFault
    MaxWrites = 2
    MaxForeign = 0
    w1 = w1
    w2 = w2
    x = x
    y = y
    o = o
PROPERTIES
    NoLostUpdate
