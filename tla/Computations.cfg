SPECIFICATION Spec
CHECK_DEADLOCK FALSE
CONSTANTS
    Heights = {1, 16, 17, 127, 128, 32767, 32768}
    Lengths = {0, 241, 242, 300}
    Counts = {0, 1, 2, 3, 5, 7, 252}
    Trees = {4, 8, 16}
    ChainIDs = {1, 3, 4, 19, 63, 98}
    MaxChains = 3
    Hashes = {1, 4, 34, 35, 65, 66}
    Miners = {m1, m2}
    Workers = {w1, w2}
    Difficulties = {7}
    MaxRows = 3
    HashWindow = 10
    Interval = 4
    Times = {1, 2, 3, 7, 11, 12}
INVARIANT BlocksAssemble
INVARIANT ProofVerifies
INVARIANT WorkIsCredited
