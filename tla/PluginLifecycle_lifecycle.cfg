SPECIFICATION Spec
CONSTANTS
    p1 = p1
    v1 = v1
    v2 = v2
    q1 = q1
    q2 = q2
    i1 = i1
    i2 = i2
    Plugins = {p1}
    Versions = {v1, v2}
    Requests = {q1, q2}
    Procs = {i1, i2}
    None = None
CONSTRAINT Followed
INVARIANTS
    TypeOK
    RunsWhatMayRun
    NothingOutside
PROPERTIES
    RequestsAnswered
    ComesBack
