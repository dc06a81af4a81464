\* Both callers and arms, with and without the files of an earlier attempt.
SPECIFICATION FairSpec
INVARIANTS
    LedgerHonest
    NoOrphan
PROPERTIES
    Ends
CHECK_DEADLOCK FALSE
