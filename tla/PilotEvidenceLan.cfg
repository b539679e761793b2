SPECIFICATION Spec
CONSTANTS
    r1 = r1
    r2 = r2
    Runs <- TwoRuns
    Ids = {"a", "b"}
    Kinds = {"lan"}
    NoId = NoId
INVARIANT
    InconclusiveIsBlocked
CHECK_DEADLOCK FALSE
