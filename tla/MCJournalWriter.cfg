CONSTANTS
    Client = {c1, c2}
    Writer = {w1, w2}
    Job <- MCJob
    None = None
    Capacity = 1
    MaxAttempt = 4
SPECIFICATION WriterSpec
CHECK_DEADLOCK FALSE
INVARIANTS
    InAcceptanceOrder
    ReceiptsTruthful
    ShutdownReports
PROPERTIES
    EveryReceiptAnswered
