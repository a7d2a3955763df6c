INIT Init
NEXT Next
CONSTANTS
    a = a
    b = b
    Gateways = {a, b}
    Pools = {"p"}
    Members <- OnePool
    Balancing = {}
    Routes = {r1}
    PoolRoutes = {}
    Edited = {r1}
    None = None
    MaxChain = 2
INVARIANTS
    TypeOK
    HomeRestored
    UpstreamFollowsTarget
PROPERTIES
    HomeKept
