\* Two bodies compete for one execution; one subscriber with a mailbox of one.
SPECIFICATION FairSpec
CONSTANTS
    Executors = {native, codex}
    NoExecutor = NoExecutor
    Artifacts = {a1}
    NoArtifact = NoArtifact
    Mailboxes = {m1}
    MaxSize = 1
    MaxRepeats = 1
    MaxEvents = 3
CONSTRAINT ShortHistory
INVARIANTS AttachedBodyStoppable MailboxLosesOnlyProgress
PROPERTIES ImplementsContract EndIsDelivered
CHECK_DEADLOCK FALSE
