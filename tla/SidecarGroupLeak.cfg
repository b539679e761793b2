SPECIFICATION Spec
CONSTANTS
    N = 3
    Permitted <- Everyone
    WithGrpc <- OddOnes
INVARIANT
    FailedStartLeavesNothing
