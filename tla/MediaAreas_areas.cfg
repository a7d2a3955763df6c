SPECIFICATION Spec
CONSTANTS
    f1 = f1
    f2 = f2
    p1 = p1
    p2 = p2
    t1 = t1
    Files = {f1, f2}
    Paths = {p1}
    Targets = {t1}
    Server = Server
    None = None
    MaxCommands = 3
    MaxFaults = 1
INVARIANTS
    TypeOK
    OnePlaceEach
    NoneLost
    NoneLeft
PROPERTIES
    ScanHarmless
    EndsInPlace
