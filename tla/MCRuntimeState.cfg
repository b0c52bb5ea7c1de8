\* A turn, the heartbeat, the evaluation and the closer; any three faults.
SPECIFICATION Spec
CONSTANTS
    Heart = Heart
    Sensor = Sensor
    Eval = Eval
    Closer = Closer
    Nobody = Nobody
    Users = {u1}
    Others = {}
    DailyLimit = 1
    MaxRuntimes = 2
    MaxFacts = 2
    MaxBeats = 2
    MaxFailures = 1
    MaxLoadFailures = 1
    MaxCancels = 1
    MaxEvictions = 1
    MaxRestarts = 1
    MaxShutdowns = 1
    MaxFaults = 3
CONSTRAINT FewFaults
INVARIANTS BoundIsCurrent CleanIsDurable CallsAreCounted OncePerEpoch
CHECK_DEADLOCK FALSE
