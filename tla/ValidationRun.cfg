SPECIFICATION Spec
CONSTANTS
    Validators <- TwoValidators
    FailureWriters = {"v1"}
    Servers <- OneServer
    Paths = {f, g}
    Contents = {"good", "bad"}
    WellFormed = {"good", "bad"}
    Says <- RosterOf
    Dirs = {"run"}
    RunDir = "run"
    NoFile = NoFile
SYMMETRY PathSymmetry
INVARIANTS
    TypeOK
    OnlyOnePasses
    BoundUnderReceipt
    BoundIsServable
PROPERTIES
    UsedUpStaysUsedUp
    ImplementsOneRoster
