\* The docstring of publish about the bound of a mailbox.
CONSTANTS
    Executors = {native}
    NoExecutor = NoExecutor
    Artifacts = {a1}
    NoArtifact = NoArtifact
    Mailboxes = {m1}
    MaxSize = 1
    MaxRepeats = 0
SPECIFICATION Spec
INVARIANTS ExceedsBoundByOne
CHECK_DEADLOCK FALSE
