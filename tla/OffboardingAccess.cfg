SPECIFICATION FairSpec
CONSTANTS
    r1 = r1
    r2 = r2
    a1 = a1
    a2 = a2
    Requests <- MCRequests
    Assets <- NoAssets
    Untagged <- NoAssets
    Holds <- AccessHolds
    FirstSearch <- Finds
CHECK_DEADLOCK FALSE
INVARIANTS TypeOK NoSilentDrop AuditTruth RecordSound
PROPERTIES ClaimJustified Progress
