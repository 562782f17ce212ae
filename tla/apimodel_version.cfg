SPECIFICATION Spec
CONSTANTS
    Builds <- MCBuilds
    PoolNames <- MCPoolNames
    DnsNames <- MCDnsNames
    Docs <- MCDocs
    Counts <- MCCounts
PROPERTY VersionAsAsked
CHECK_DEADLOCK FALSE
