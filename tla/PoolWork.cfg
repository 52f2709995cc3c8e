SPECIFICATION Spec
CONSTANTS
    Clients = {k1, k2}
    AuxCount = 1
    ChainIDs = {3, 98}
    Variants = {v1, v2}
    MaxOthers = 1
    MaxSubmissions = 1
    MaxFaults = 1
CHECK_DEADLOCK FALSE
INVARIANTS TypeOK HashIsAccepted AcceptedIsRecorded PanicsHaveACause
PROPERTIES ImplementsLedger WorkFollowsChains
