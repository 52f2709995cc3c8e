CONSTANTS
    Shares = {s1, s2, s3}
    MaxFaults = 2
    MaxCrashes = 1
SPECIFICATION FairSpec
INVARIANTS
    TypeOK
    CountedOnce
PROPERTIES
    ImplementsLog
    SharesAreFlushed
