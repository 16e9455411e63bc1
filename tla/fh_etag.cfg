SPECIFICATION Spec
CONSTANTS
    Workers <- Workers2
    NoWorker = NoWorker
    Bytes <- MCBytes
    Zero = 0
    Offsets = {0, 1}
    Lengths = {2}
    Chunks <- MCChunks
    OpenFlags <- MCFlags
    StartContents <- MCStart
    StartAbsent = FALSE
    ForeignContents <- MCForeign
    ForeignDeletes = FALSE
    GetEtag = {TRUE}
    PutEtag = {TRUE, FALSE}
    Faults <- MCUploadFaults
    MaxWrites = 2
    MaxForeign = 1
    w1 = w1
    w2 = w2
    x = x
    y = y
    o = o
INVARIANTS
    TypeOK
    EtagDescribesCache
PROPERTIES
    ImplementsSpaceFile
    NoLostUpdate
    StaleHandleNeverCommits
