SPECIFICATION Spec
CONSTANTS
    r1 = r1
    r2 = r2
    Runs <- TwoRuns
    Ids = {"a", "b"}
    Kinds = {"live", "lan"}
    NoId = NoId
INVARIANTS
    TypeOK
    StatusIsReceipted
    PassedIsBacked
PROPERTIES
    ReceiptsAreFinal
CHECK_DEADLOCK FALSE
