SPECIFICATION Spec
CONSTANTS
    rollout = rollout
    plugin = plugin
    N = 2
    Installers = {rollout, plugin}
    Scope <- MCScope
    Rollouts = {rollout}
    MaxTrouble = 1
INVARIANTS
    TypeOK
    PassedRanOwnOrLater
    InForceIsRun
    UncontestedRanOwn
CHECK_DEADLOCK FALSE
