CONSTANTS
    NodesLength = 2
    MaxLoops = 1
    MaxFailures = 2
SPECIFICATION PoolSpec
INVARIANT SwitchesNodes
