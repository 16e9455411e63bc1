SPECIFICATION FairSpec
CHECK_DEADLOCK FALSE
CONSTANTS
    Values <- MCValues
    Unset = unset
    Paths <- MCPaths
    DataDir <- MCDataDir
    DataKey = idRsa
    DataPub = idRsaPub
    DefaultAddress = builtIn
    Addresses <- TwoAddresses
    KeyArgs <- AnyKeyArg
    ConfigFiles <- AnyConf
    CommonsSets <- AnyCommons
    Envs <- AnyEnv
    Faults <- AllFaults
    MaxRuns = 3
    idRsa = idRsa
    idRsaPub = idRsaPub
    hostKey = hostKey
    etcKey = etcKey
    builtIn = builtIn
    a1 = a1
    a2 = a2
    secret = secret
    unset = unset
INVARIANTS
    TypeOK
    PairMatches
    ServerReadsWhatInitSaw
    ServerStarts
    SuccessIsSetUp
PROPERTIES
    CheckedIsKept
    ForcedInitRepairs
