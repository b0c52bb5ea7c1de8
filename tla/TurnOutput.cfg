\* A coordinated turn, each kind of gate, each fault once.
SPECIFICATION LiveSpec
CONSTANTS
    Gates = {"passed", "handled", "delegated"}
    Faults = {"send", "completion", "commit", "deadline", "interrupt"}
    MaxMessages = 3
INVARIANTS FinalOnce HistoryIsTrue CompletedIsKept
PROPERTIES TurnEnds
