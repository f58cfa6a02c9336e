SPECIFICATION FairSpec
CONSTANTS
    Attempt = {a1, a2, a3, a4}
    Key = {k1}
    None = None
    MaxAttempts = 2
    Window = 1
    MaxInFlight = 2
    MaxTime = 2
INVARIANTS
    TypeOK
    OvershootBounded
    BlockedOnEvidence
PROPERTY
    ExpiredEntriesLeave
