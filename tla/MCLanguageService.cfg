CONSTANTS
    None = None
    Capacity = 1
    MAX_PENDING_REQUESTS = 2
    MAX_AUTOMATIC_RETRIES = 1
    MaxEdits = 2
    MaxSequence = 2
    MaxGeneration = 2
SPECIFICATION Spec
CHECK_DEADLOCK FALSE
INVARIANTS
    NothingStale
    ServerConfined
    NeverStranded
