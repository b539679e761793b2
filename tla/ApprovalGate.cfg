SPECIFICATION Spec
CONSTANTS
    Procs = {p1, p2}
    Ids = {"i1"}
    Paths = {"canonical", "copy"}
    ApprovalPaths = {"canonical", "copy"}
    CanonicalPath <- MCCanonicalPath
    Instances = {"local", "work"}
    ServiceInstances = {"local"}
    SmokeInstances = {"local"}
    Receipts <- RuleReceipts
    Requests <- RuleRequests
    MaxTTL = 2
    MaxClock = 2
    NoReceipt = NoReceipt
    NoPath = NoPath
INVARIANTS
    TypeOK
    AtMostOneHolder
    ConsumedMeansTaken
    SpentOnlyAsIssued
    SpentInsideWindow
PROPERTIES
    MarkersStay
    ImplementsSingleUse
