SPECIFICATION FairSpec
CONSTANTS
    Workers <- Workers2
    NoWorker = NoWorker
    Bytes <- MCBytes
    Zero = 0
    Offsets = {1}
    Lengths = {2}
    Chunks <- MCPair
    OpenFlags <- MCFlagsAny
    StartContents <- MCAny
    StartAbsent = TRUE
    ForeignContents <- MCForeign
    ForeignDeletes = TRUE
    GetEtag = {TRUE, FALSE}
    PutEtag = {TRUE}
    Faults <- FaultKinds
    MaxWrites = 2
    MaxForeign = 1
    w1 = w1
    w2 = w2
    x = x
    y = y
    o = o
INVARIANTS
    ReadContract
    UploadAsAnnounced
    CacheIsVersionPlusWrites
PROPERTIES
    AckedWriteStored
    RequestReturns
