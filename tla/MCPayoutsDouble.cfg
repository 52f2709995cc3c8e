CONSTANTS
    ChainOrder <- TwoChains
    Logins <- MCLogins
    Addresses <- MCAddresses
    Blocks <- TwoBlocks
    NoBlock = NoBlock
    ChainOf <- MCChainOf
    Reward <- MCReward
    Recipients <- Fee
    RewardTo <- DogePaysPool
    MinerPlans <- SoloPlans
    MayRefuse = {}
    Fates = {"generate", "orphan"}
    Minimum <- MCMinimum
    Setting <- MCSetting
    MaxFaults = 1
    MaxCrashes = 0
SPECIFICATION Spec
INVARIANT NoDoublePayment
