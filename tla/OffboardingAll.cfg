SPECIFICATION Spec
CONSTANTS
    r1 = r1
    r2 = r2
    a1 = a1
    a2 = a2
    Requests <- OneRequest
    Assets <- TwoAssets
    Untagged <- SecondAsset
    Holds <- AllHolds
    FirstSearch <- MayNotFind
CHECK_DEADLOCK FALSE
INVARIANTS NoSilentDrop AuditTruth
PROPERTIES Promised
