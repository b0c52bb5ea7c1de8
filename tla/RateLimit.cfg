\* Three events, every cap up to two, both strategies.
SPECIFICATION LimitLiveSpec
CONSTANTS
    e1 = e1
    e2 = e2
    e3 = e3
    SessionEvents = {e1, e2, e3}
    Window = 2
    Caps = {0, 1, 2}
    Strategies = {"stall", "discard"}
    MaxClock = 4
    Prompt = TRUE
INVARIANTS WindowHolds
PROPERTIES DiscardIsDue EventsDecided
