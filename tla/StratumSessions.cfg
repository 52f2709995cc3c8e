SPECIFICATION Spec
CONSTANTS
    Connections = 3
    Extranonces = {e1, e2}
    NoExtranonce = NoExtranonce
    MaxConnections = 1
    MaxSubscribes = 2
    MaxWork = 1
CHECK_DEADLOCK FALSE
INVARIANTS TypeOK UniqueWithinLimit LatestWork EndedIsForgotten
PROPERTY ListenerReturns
