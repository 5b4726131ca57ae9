SPECIFICATION Spec
CONSTANTS
    i1 = i1
    i2 = i2
    w1 = w1
    w2 = w2
    None = None
    Instances <- MCInstances
    Workers <- MCWorkers
    TableSeq <- MCTableSeq
    Listed <- MCListed
    Keys <- MCKeys
    TableOf <- MCTableOf
    Parents <- MCParents
    Settings <- MCSettings
    LocalHosts <- MCLocalHosts
    RemoteHosts <- MCRemoteHosts
    PoolSize = 1
    MaxFaults = 2
    MaxWrites = 2
CHECK_DEADLOCK FALSE
INVARIANT ConnectorOnlyWriter
