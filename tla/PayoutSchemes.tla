--------------------------- MODULE PayoutSchemes ---------------------------
(***************************************************************************)
(* How a block's reward is split: payouts/rewards.go and the schemes of    *)
(* solo.go, prop.go and pplns.go, on integer units of coin and score.      *)
(***************************************************************************)
EXTENDS Integers, Sequences, FiniteSets, Functions

\* Percentage * Reward of each recipient, in the order of the config.
RecipientCredits(reward, recipients) ==
    [i \in DOMAIN recipients |->
        [to |-> recipients[i].to,
         amount |-> (recipients[i].percent * reward) \div 100]]

\* calculatePoolReward: what is left for the miners.  A recipient that the
\* coinbase pays directly is subtracted like the others.
RemainingReward(reward, recipients) ==
    LET credits == RecipientCredits(reward, recipients)
    IN  reward - SumFunctionOnSet([i \in DOMAIN credits |-> credits[i].amount],
                                  DOMAIN credits)

\* SOLO: everything to the miner who found the block.
SoloPlan(miner, remaining) == <<[to |-> miner, amount |-> remaining]>>

=============================================================================
