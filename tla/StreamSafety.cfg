\* Two transactions of every kind at once, a repeated key, one failure, one
\* deleted event.
CONSTANTS
    Txns = {t1, t2}
    Keys = {k}
    NoKey = NoKey
    NoTxn = NoTxn
    Kinds = {"firing", "resolved", "change", "analyze", "report"}
    MaxOpen = 2
    MaxDeletes = 1
    MaxFaults = 1
SPECIFICATION FairSpec
INVARIANTS
    TypeOK
    RowIsProjection
    KeyUsedOnce
PROPERTIES
    StatusForwardUnlessOvertaken
    ImplementsEventLog
    EveryTransactionEnds
\* Every request is one transaction: when all have ended the model rests.
CHECK_DEADLOCK FALSE
