SPECIFICATION FairSpec
CONSTANTS
    t1 = t1
    t2 = t2
    Tasks = {t1, t2}
    Executor <- LiveAndEcho
    Sizes = {0, 1, 2, 3}
    MaxVisible = 1
    MaxPrivate = 2
    NoticeSize = 1
    NoText = NoText
    Requests <- AllRequests
    Outputs <- AllOutputs
INVARIANTS
    TypeOK
    ReceiptBeforeExposure
    ReceiptsAreSound
    CompletesOnlyCleanly
PROPERTIES
    ImplementsPeerBoundary
    Settles
