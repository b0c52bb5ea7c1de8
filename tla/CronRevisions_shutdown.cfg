SPECIFICATION Spec
CONSTANTS
    e1 = e1
    Execs = {e1}
    None = None
    MaxRev = 0
    MaxStops = 1
INVARIANTS
    ClosedIsSettled
CHECK_DEADLOCK FALSE
