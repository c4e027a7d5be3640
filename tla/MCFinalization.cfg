CONSTANTS
    Submitter = {s1, s2}
    Editor = {e}
    None = None
    MaxEvents = 4
    Budget = 12
    MaxFaults = 2
SPECIFICATION Spec
INVARIANTS
    EvidenceAgrees
PROPERTIES
    SubmissionSettles
