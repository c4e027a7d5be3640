CONSTANTS
    File = {1, 2}
    Assigned = {{1}, {1, 2}}
    Text = {"", "t"}
    Outside = {"x", "t"}
    Empty = ""
    Absent = Absent
    None = None
    MaxEvents = 6
    MaxExtent = 3
SPECIFICATION Spec
CHECK_DEADLOCK FALSE
INVARIANTS
    RestIsClean
    AlwaysResumable
    OnlyCutDeletesMiss
PROPERTIES
    ForeignVersionsKept
    OwnWorkNotForeign
