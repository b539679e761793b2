SPECIFICATION PilotSpec
CONSTANTS
    N = 2
    Permitted <- Everyone
    WithGrpc <- Everyone
    ForeignAnswers <- CardAndRefusal
INVARIANTS
    PilotTypeOK
    StoppedMeansClosed
    ServesOnOwnListeners
    PassedAnsweredItself
    FailsOnlyIfDisturbed
PROPERTIES
    GroupSettles
    PilotEnds
CHECK_DEADLOCK FALSE
