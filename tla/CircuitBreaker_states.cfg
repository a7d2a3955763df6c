SPECIFICATION Spec
CONSTANTS
    Checks = {k1, k2}
    Threshold = 2
    Timeout = 2
    MaxEdits = 2
    None = None
INVARIANTS
    TypeOK
PROPERTIES
    OpensOnStreak
    OpenLasts
    Recovers
    OutageHolds
