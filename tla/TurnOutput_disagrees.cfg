\* What the documents say of a committed, a claimed and an answering output.
SPECIFICATION Spec
CONSTANTS
    Gates = {"handled", "delegated"}
    Faults = {"deadline"}
    MaxMessages = 2
INVARIANTS CommittedIsShown AnswerIsClaimed ClaimedIsFinished
