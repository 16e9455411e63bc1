SPECIFICATION Spec
CHECK_DEADLOCK FALSE
CONSTANTS
    Values <- MCValues
    Unset = unset
    Paths <- MCPaths
    DataDir <- PairOnly
    DataKey = idRsa
    DataPub = idRsaPub
    DefaultAddress = builtIn
    Addresses <- OneAddress
    KeyArgs <- Elsewhere
    ConfigFiles <- NoSettings
    CommonsSets <- SecretCommons
    Envs <- NoSettings
    Faults <- NoFaults
    MaxRuns = 1
    idRsa = idRsa
    idRsaPub = idRsaPub
    hostKey = hostKey
    etcKey = etcKey
    builtIn = builtIn
    a1 = a1
    a2 = a2
    secret = secret
    unset = unset
PROPERTIES
    KeysKeptUnforced
