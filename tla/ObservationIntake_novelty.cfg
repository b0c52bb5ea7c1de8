\* An expired newer fact and the held older one.
SPECIFICATION IntakeSpec
CONSTANTS
    Keys = {k}
    NoKey = NoKey
    Heartbeat = Heartbeat
    MaxPending = 3
    MaxRevision = 3
    MaxTurns = 2
INVARIANTS PendingIsNew
