CONSTANTS
    Foreign = {f1, f2, f3}
    Other = {f3}
    Old = Old
    Mine = Mine
    Absent = Absent
    None = None
SPECIFICATION Spec
CHECK_DEADLOCK FALSE
INVARIANTS
    Atomic
    ForeignKept
