SPECIFICATION Spec
CONSTANTS
    Keys <- MCKeys
    Folded <- MCFolded
    Rank <- MCRank
    Element <- MCElement
    Number <- MCNumber
    Schema <- MCSchema
    Free <- MCFree
    Files <- MCFiles
    Commands <- MCCommands
INVARIANTS
    OrderFree
    AcceptedMeansAsked
CHECK_DEADLOCK FALSE
