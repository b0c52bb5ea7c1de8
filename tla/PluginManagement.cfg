\* A turn, and a manager that works on two modules.
SPECIFICATION ManagerSpec
CONSTANTS
    None = None
    m1 = m1
    m2 = m2
    t1 = t1
    Modules = {m1, m2}
    Turns = {t1}
    MaxOps = 2
INVARIANTS LeasesCounted
PROPERTIES LeasePins MgrReturns
CHECK_DEADLOCK FALSE
