CONSTANTS
    m1 = m1
    m2 = m2
    b1 = b1
    b2 = b2
    Miners = {m1, m2}
    Scores = {1, 5}
    NWindow = 4
    Blocks = {b1, b2}
    BlockReward = 4
    PageSize = 2
    Times <- ThreeTimes
    MaxShares = 3
    MaxFaults = 1
SPECIFICATION Spec
SYMMETRY Symmetric
CHECK_DEADLOCK FALSE
INVARIANTS
    TypeOK
    AwardsFollowWork
    PaidOnce
    DeletedWasCounted
