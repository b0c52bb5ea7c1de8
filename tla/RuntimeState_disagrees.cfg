\* What the documents say of eviction, of a cancelled save and of shutdown.
SPECIFICATION Spec
CONSTANTS
    Heart = Heart
    Sensor = Sensor
    Eval = Eval
    Closer = Closer
    Nobody = Nobody
    Users = {u1}
    Others = {o1}
    DailyLimit = 1
    MaxRuntimes = 2
    MaxFacts = 1
    MaxBeats = 1
    MaxFailures = 0
    MaxLoadFailures = 0
    MaxCancels = 1
    MaxEvictions = 1
    MaxRestarts = 0
    MaxShutdowns = 1
INVARIANTS EveryCallCounted ClosedIsQuiet
PROPERTIES EvictsOnlyStored
CHECK_DEADLOCK FALSE
