\* What the documents say of a handed out session, and of a stop.
SPECIFICATION Spec
CONSTANTS
    r1 = r1
    r2 = r2
    NoRun = NoRun
    Runs = {r1, r2}
    Configs = {1, 2}
    Overlap = FALSE
    Named = TRUE
    MayCrash = TRUE
    Discards = FALSE
PROPERTIES HandedIsAlive StopNamesItsTurn
SYMMETRY Alike
CHECK_DEADLOCK FALSE
