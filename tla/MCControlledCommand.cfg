CONSTANTS
    None = None
    Pid = {p1, p2}
    SessionOutput = 2
    OutputLimit = 2
    ChunkBytes = 1
    Slack = 16
    MaxFiles = 1
    EventBudget = 26
    MaxTurns = 3
SPECIFICATION Spec
CHECK_DEADLOCK FALSE
INVARIANTS
    ReplayAccepts
    NoOrphans
PROPERTIES
    CommandEnds
