SPECIFICATION Spec
CONSTANTS
    MaxConns = 2
    MaxSeq = 2
    QueueMax = 1
    Switched = TRUE
    Eager = TRUE
INVARIANTS
    TypeOK
    QueueAscends
PROPERTIES
    PromiseKept
    AllTaken
