\* A plan, two executions of it, and a reschedule or a shutdown.
SPECIFICATION RunSpec
CONSTANTS
    e1 = e1
    e2 = e2
    Execs = {e1, e2}
    None = None
    MaxRev = 1
    MaxStops = 1
    MaxChanges = 1
CONSTRAINT FewChanges
INVARIANTS OutcomeIsItsOwn EnabledIsScheduled OneShotEnds
PROPERTIES OutcomeArrives
CHECK_DEADLOCK FALSE
