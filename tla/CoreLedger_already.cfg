\* The docstring of settle_ledger about its None result.
CONSTANTS
    Settlers = {t1, t2}
    MaxAttempts = 3
    None = None
SPECIFICATION LedgerSpec
INVARIANTS AlreadyMeansStored
