\* The docstring of cancel about an accepted cancellation.
CONSTANTS
    Executors = {native, codex}
    NoExecutor = NoExecutor
    Artifacts = {}
    NoArtifact = NoArtifact
    Mailboxes = {}
    MaxSize = 1
    MaxRepeats = 0
SPECIFICATION Spec
INVARIANTS AcceptedCancelEnds
CHECK_DEADLOCK FALSE
