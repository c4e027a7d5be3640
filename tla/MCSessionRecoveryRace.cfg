CONSTANTS
    File = {1}
    Assigned = {{1}}
    Text = {"", "t"}
    Outside = {"x", "t"}
    Empty = ""
    Absent = Absent
    None = None
    MaxEvents = 4
    MaxExtent = 2
SPECIFICATION Spec
CHECK_DEADLOCK FALSE
PROPERTIES
    NothingDeleted
