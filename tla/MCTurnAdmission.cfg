\* Any three of: a message, two follow-ups of its Core execution, an internal and a delayed turn.
SPECIFICATION FairSpec
CONSTANTS
    Messages = {n1}
    Candidates = {c1, c2}
    Internal = {i1}
    Delayed = {d1}
    NoTurn = NoTurn
    MaxArrivals = 3
CONSTRAINT FewArrive
INVARIANTS OneTurnAtATime NoLostWakeup FollowUpOrder
PROPERTIES EveryTurnSettles
CHECK_DEADLOCK FALSE
