INIT Init
NEXT Next
CONSTANTS
    MaxConns = 1
    MaxSeq = 3
    QueueMax = 1
    Switched = FALSE
    Eager = FALSE
INVARIANTS
    NothingLost
\* Behaviours end when the connections and the events of the bounds are used up.
CHECK_DEADLOCK FALSE
