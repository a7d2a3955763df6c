SPECIFICATION Spec
CONSTANTS
    a = a
    b = b
    Gateways = {a, b}
    Pools = {"p"}
    Members <- OnePool
    Balancing = {}
    Routes = {r1}
    PoolRoutes = {"p"}
    Edited = {}
    None = None
    MaxChain = 3
INVARIANTS
    LastWordIsUp
    DeadLeavePools
PROPERTIES
    HealthConverges
    FailbackHappens
