SPECIFICATION Spec
CONSTANTS
    MaxArtifacts = 1
    MaxRequests = 1
PROPERTIES DelegatedInWindow
CHECK_DEADLOCK FALSE
