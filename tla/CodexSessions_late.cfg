SPECIFICATION Spec
CONSTANTS
    r1 = r1
    r2 = r2
    NoRun = NoRun
    Runs = {r1, r2}
    Configs = {1, 2}
    Overlap = FALSE
    Named = FALSE
    MayCrash = FALSE
    Discards = FALSE
INVARIANTS
    AnswerIsOwn
SYMMETRY Alike
CHECK_DEADLOCK FALSE
