CONSTANTS
    Conn = {c1, c2}
    Session = {s1, s2}
    Payload = {p}
    Absent = Absent
    MaxSequence = 3
SYMMETRY ConnSymmetry
SPECIFICATION StoreSpec
CHECK_DEADLOCK FALSE
INVARIANTS
    TypeOK
    ContiguousPrefix
    CheckpointsOwned
    PairsWhole
    NoFalseAlarm
    ChainIntact
    SingleUnfinished
PROPERTIES
    AppendOnly
    ImplementsEventLog
