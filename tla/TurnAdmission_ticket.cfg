\* The implementation guide about the tickets of a stopped body.
SPECIFICATION Spec
CONSTANTS
    Messages = {n1}
    Candidates = {c1}
    Internal = {}
    Delayed = {}
    NoTurn = NoTurn
CHECK_DEADLOCK FALSE
INVARIANTS NoTicketOutlivesCore
