SPECIFICATION FWFairSpec
CONSTANTS
    MaxChanges = 3
    MaxEvents = 2
CHECK_DEADLOCK FALSE
INVARIANTS
    FWTypeOK
    NoChangeForgotten
PROPERTIES
    LatestChangeIsReadOrBlocked
