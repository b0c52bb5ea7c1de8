\* Facts with and without identity, heartbeats and turns; an inbox of two.
SPECIFICATION IntakeFairSpec
CONSTANTS
    Keys = {k1, k2}
    NoKey = NoKey
    Heartbeat = Heartbeat
    MaxPending = 2
    MaxRevision = 2
    MaxTurns = 2
INVARIANTS SettledIsGone ToldOnce
PROPERTIES Reevaluated
