CONSTANTS
    Writer = {w1, w2}
    AppendKind = {"edit", "track", "note", "finish"}
    None = None
    Capacity = 2
    MaxAttempt = 5
    Threshold = 2
    Budget = 6
SPECIFICATION Spec
CHECK_DEADLOCK FALSE
INVARIANTS
    LiveIsDurable
    AcknowledgedInOrder
    BudgetReserve
    FinishesReplayable
    BooksMatchReplay
    LockCoversWorker
PROPERTIES
    PoisonFinal
    CallsReturn
