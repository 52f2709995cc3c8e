CONSTANTS
    ChainOrder <- TwoChains
    Logins <- MCLogins
    Addresses <- MCAddresses
    Blocks <- TwoBlocks
    NoBlock = NoBlock
    ChainOf <- MCChainOf
    Reward <- MCReward
    Recipients <- Fee
    RewardTo <- DogePaysPool
    MinerPlans <- SoloPlans
    MayRefuse = {}
    Fates = {"generate", "unknown"}
    Minimum <- MCMinimum
    Setting <- MCSetting
    MaxFaults = 0
    MaxCrashes = 0
SPECIFICATION FairSpec
PROPERTY LikelyOrphanIsOrphaned
