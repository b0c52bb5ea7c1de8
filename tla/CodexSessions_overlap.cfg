SPECIFICATION Spec
CONSTANTS
    r1 = r1
    r2 = r2
    NoRun = NoRun
    Runs = {r1, r2}
    Configs = {1, 2}
    Overlap = TRUE
    Named = TRUE
    MayCrash = FALSE
    Discards = FALSE
INVARIANTS
    ReusedIsConfirmed
SYMMETRY Alike
CHECK_DEADLOCK FALSE
