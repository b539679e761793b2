SPECIFICATION Spec
CONSTANTS
    r1 = r1
    r2 = r2
    Runs <- TwoRuns
    Ids = {"a", "b"}
    Kinds = {"triad"}
    NoId = NoId
INVARIANT
    SynthesisIsReceipted
CHECK_DEADLOCK FALSE
