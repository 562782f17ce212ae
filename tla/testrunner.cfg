SPECIFICATION Spec
CONSTANTS
    Deployments = {1, 2}
    Settings <- MCSettings
    LogErrors <- MCLogErrors
INVARIANTS
    GroupsCleaned
    VerdictExact
PROPERTIES
    RunReturns
CHECK_DEADLOCK FALSE
