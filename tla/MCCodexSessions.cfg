\* Two runs of one key, crashes, a discard and the closing registry.
SPECIFICATION LiveSpec
CONSTANTS
    r1 = r1
    r2 = r2
    NoRun = NoRun
    Runs = {r1, r2}
    Configs = {1, 2}
    Overlap = TRUE
    Named = TRUE
    MayCrash = TRUE
    Discards = TRUE
CONSTRAINT OneTrouble
INVARIANTS NoneLeft UpIsOwned
PROPERTIES RunsEnd
CHECK_DEADLOCK FALSE
