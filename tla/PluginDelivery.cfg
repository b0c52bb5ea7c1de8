\* A plugin job of three artifacts and two provider requests, and its turn.
SPECIFICATION FairSpec
CONSTANTS
    MaxArtifacts = 3
    MaxRequests = 2
INVARIANTS ShownOnce FinalsAccounted
PROPERTIES JobSettles
CHECK_DEADLOCK FALSE
