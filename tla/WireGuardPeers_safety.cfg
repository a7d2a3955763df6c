INIT Init
NEXT Next
CONSTANTS
    Peers = {p1}
    Ruled = {p1}
    Requests = {q1, q2}
    Cycles = {c1, c2}
    SyncRemoves <- Either
    Faults <- FaultKinds
    None = None
SYMMETRY Symmetry
INVARIANTS
    TypeOK
    RevokedIsOff
    DeniedIsOff
    AllowedIsOn
