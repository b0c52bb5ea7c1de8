\* Three tasks settle one execution; the code's three attempts.
SPECIFICATION LedgerSpec
CONSTANTS
    Settlers = {t1, t2, t3}
    MaxAttempts = 3
    None = None
INVARIANTS ClaimIsHeldOrStored
PROPERTIES RowIsFinal
