SPECIFICATION FairSpec
CONSTANTS
    Holders <- EveryHolder
    ForeignAnswers <- CardAndRefusal
INVARIANTS
    TypeOK
    PassedServedItself
    OverMeansClosed
    RunningHasItsServers
PROPERTIES
    RunningIsMadeGood
    CleanUpEnds
CHECK_DEADLOCK FALSE
