SPECIFICATION Spec
CONSTANTS
    e1 = e1
    Execs = {e1}
    None = None
    MaxRev = 2
    MaxStops = 1
PROPERTIES
    RescheduledStays
CHECK_DEADLOCK FALSE
