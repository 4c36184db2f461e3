CONSTANTS
    None = None
    Dossiers <- MCDossiers
    Sentinels = {"s1", "s2"}
    Views <- MCViews
    Nonces = {"n"}
    Searches <- MCSearches
    Skew <- MCSkew
    MaxTime = 1
    MaxSnapshots = 2
    MaxRecords = 2
SPECIFICATION Spec
CHECK_DEADLOCK FALSE
INVARIANTS
    PassIsGrounded
    OfflineAgrees
    FailStands
    LaterIsNoBetter
