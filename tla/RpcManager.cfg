CONSTANTS
    NodesLength = 3
    MaxLoops = 2
    MaxFailures = 4
SPECIFICATION FairSpec
INVARIANTS
    TypeOK
    IndexInRange
    PrimaryWillBeRestored
    GivesUpOnlyWhenAllDown
PROPERTY ReturnsToPrimary
