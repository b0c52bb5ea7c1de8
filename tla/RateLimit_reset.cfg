SPECIFICATION LimitSpec
CONSTANTS
    e1 = e1
    e2 = e2
    e3 = e3
    e4 = e4
    e5 = e5
    SessionEvents = {e1, e2, e3, e4, e5}
    Window = 2
    Caps = {2}
    Strategies = {"discard"}
    MaxClock = 4
    Prompt = FALSE
PROPERTIES
    LimitResets
SYMMETRY Alike
