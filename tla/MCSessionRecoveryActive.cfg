CONSTANTS
    File = {1, 2}
    Assigned = {{1, 2}}
    Text = {"", "t"}
    Outside = {"x", "t"}
    Empty = ""
    Absent = Absent
    None = None
    MaxEvents = 6
    MaxExtent = 2
SPECIFICATION Spec
CHECK_DEADLOCK FALSE
INVARIANTS
    CheckpointsCertified
