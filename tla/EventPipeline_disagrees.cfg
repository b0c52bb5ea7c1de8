\* What the documents say of a stopped, a blocked and a reset event.
SPECIFICATION Spec
CONSTANTS
    e1 = e1
    e2 = e2
    Events = {e1, e2}
    Woken = {e1}
    Handlers = 1
    Talkers = {e1, e2}
    Most = 1
    MaxYields <- YieldsOf
INVARIANTS StopEndsSteps BlockedIsBlocked ResetSilences
CHECK_DEADLOCK FALSE
