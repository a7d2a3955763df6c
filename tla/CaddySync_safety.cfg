INIT Init
NEXT Next
CONSTANTS
    Routes = {r1}
    Targets = {"a"}
    BadTargets = {}
    AclPeers = {}
    Breakers = {r1}
    Requests = {q1, q2}
    Preloaded = TRUE
    AutoRepair = FALSE
    Faults <- CaddyStopping
    Absent = Absent
    Caddyfile = Caddyfile
    Foreign = Foreign
    Nothing = Nothing
SYMMETRY Symmetry
INVARIANTS
    TypeOK
    SyncedAtRest
