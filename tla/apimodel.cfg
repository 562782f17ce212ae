SPECIFICATION Spec
CONSTANTS
    Builds <- MCBuilds
    PoolNames <- MCPoolNames
    DnsNames <- MCDnsNames
    Docs <- MCDocs
    Counts <- MCCounts
INVARIANTS
    TypeOK
    SavedLoads
    SameAgain
    AddressesKept
    NoAddressTwice
    DeployIsGenerate
PROPERTY
    UpgradeRange
    ImplementsLife
CHECK_DEADLOCK FALSE
