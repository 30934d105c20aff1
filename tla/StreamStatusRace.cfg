\* An analysis that was slow, and an alert that resolved the incident meanwhile.
CONSTANTS
    Txns = {t1, t2}
    Keys = {}
    NoKey = NoKey
    NoTxn = NoTxn
    Kinds = {"resolved", "analyze"}
    MaxOpen = 2
    MaxDeletes = 0
    MaxFaults = 0
SPECIFICATION FairSpec
PROPERTIES
    StatusForward
\* Every request is one transaction: when all have ended the model rests.
CHECK_DEADLOCK FALSE
