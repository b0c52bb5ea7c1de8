\* Two events of a session, one of which wakes a handler and the agent.
SPECIFICATION LiveSpec
CONSTANTS
    e1 = e1
    e2 = e2
    Events = {e1, e2}
    Woken = {e1}
    Handlers = 1
    Talkers = {e1}
    Most = 2
    MaxYields <- YieldsOf
INVARIANTS ShownOnce StoppedIsQuiet
PROPERTIES EventsEnd
CHECK_DEADLOCK FALSE
