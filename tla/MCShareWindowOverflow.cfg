CONSTANTS
    m1 = m1
    m2 = m2
    b1 = b1
    b2 = b2
    Miners = {m1, m2}
    Scores = {1, 2}
    NWindow = 4
    Blocks = {b1, b2}
    BlockReward = 4
    PageSize = 2
    Times <- TwoTimes
    MaxShares = 2
    MaxFaults = 0
SPECIFICATION Spec
CHECK_DEADLOCK FALSE
PROPERTY OverflowMeansOverAward
