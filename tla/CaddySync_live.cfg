SPECIFICATION Spec
CONSTANTS
    Routes = {r1}
    Targets = {"a"}
    BadTargets = {}
    AclPeers = {}
    Breakers = {}
    Requests = {q1}
    Preloaded = FALSE
    AutoRepair = TRUE
    Faults <- AllFaults
    Absent = Absent
    Caddyfile = Caddyfile
    Foreign = Foreign
    Nothing = Nothing
INVARIANT
    SyncedAtRest
PROPERTIES
    OwnerGuard
    RequestsSettle
    DivergenceRepaired
