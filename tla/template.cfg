SPECIFICATION Spec
CONSTANTS
    Docs <- MCDocs
    Followed <- MCFollowed
    Extensions <- MCExtensions
INVARIANTS
    RefusedOnly
    ReferencesExist
    NodesAfterBootstrap
    PublicAgents
PROPERTY
    Completes
CHECK_DEADLOCK FALSE
