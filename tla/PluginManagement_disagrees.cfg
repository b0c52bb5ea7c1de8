\* What the documents say of reloads, unleased handlers and switches.
SPECIFICATION ManagementSpec
CONSTANTS
    None = None
    m1 = m1
    m2 = m2
    t1 = t1
    Modules = {m1, m2}
    Turns = {t1}
    MaxOps = 2
INVARIANTS NothingRunsWhileDestroyed NoPluginLost TurnedOffIsRemembered
PROPERTIES RunsCurrentHandlers LeaseAlwaysPins
CHECK_DEADLOCK FALSE
