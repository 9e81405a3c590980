SPECIFICATION Spec
CONSTANTS
    Sender = s
    Receiver = r
    Deleters = {d}
    MaxRuns = 2
PROPERTIES
    ReprocessingIsHarmless
CHECK_DEADLOCK FALSE
