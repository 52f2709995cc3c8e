SPECIFICATION Spec
CHECK_DEADLOCK FALSE
CONSTANTS
    Heights = {1}
    Lengths = {0}
    Counts = {0}
    Trees = {8, 16}
    ChainIDs = {1, 3, 4, 19, 63, 98}
    MaxChains = 2
    Hashes = {1}
    Miners = {m1}
    Workers = {w1}
    Difficulties = {7}
    MaxRows = 1
    HashWindow = 10
    Interval = 4
    Times = {1}
INVARIANT MergedMiningWorks
