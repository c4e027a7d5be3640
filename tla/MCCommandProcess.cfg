CONSTANTS
    None = None
    SessionOutput = 3
    OutputLimit = 2
    MaxProduced = 3
SPECIFICATION Spec
CHECK_DEADLOCK FALSE
PROPERTIES
    CaptureHonest
    Contract
