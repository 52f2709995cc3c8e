CONSTANTS
    ChainOrder <- TwoChains
    Logins <- MCLogins
    Addresses <- MCAddresses
    Blocks <- TwoBlocks
    NoBlock = NoBlock
    ChainOf <- MCChainOf
    Reward <- MCReward
    Recipients <- Fee
    RewardTo <- DogePaysPool
    MinerPlans <- SoloPlans
    MayRefuse = {"b2"}
    Fates = {"generate", "orphan"}
    Minimum <- MCMinimum
    Setting <- MCSetting
    MaxFaults = 1
    MaxCrashes = 1
SPECIFICATION FairSpec
INVARIANTS
    TypeOK
    BalancesNeverNegative
    JournalAgrees
    NoDoubleAward
    ConfirmedIsAwarded
    AwardedIsMature
    PaymentsAreCovered
    SentIsRecorded
    RecordedIsSent
PROPERTIES
    DebitsResetBalance
    StatusIsFinal
    MatureIsDecided
    DueIsPaid
