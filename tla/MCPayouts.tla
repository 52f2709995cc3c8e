----------------------------- MODULE MCPayouts -----------------------------
(***************************************************************************)
(* Instances of Payouts for TLC: two chains, two miners and a pool         *)
(* recipient, SOLO.  Rewards are in tens so that percentages are exact.    *)
(***************************************************************************)
EXTENDS Payouts, TLC

ChainNames == {"litecoin", "dogecoin"}
TwoChains == <<"litecoin", "dogecoin">>
alice == <<"lA", "dA">>
bob == <<"lB", "dB">>
pool == <<"pool">>
MCLogins == {alice, bob, pool}
MCAddresses == {"lA", "dA", "lB", "dB", "pool"}

\* Alice's litecoin block (9 after the fee), bob's dogecoin block and the
\* litecoin fee of 1 make each of them due.
MCMinimum == ("litecoin" :> 5) @@ ("dogecoin" :> 5)
MCSetting == [l \in MCLogins |-> IF l = pool THEN 1 ELSE 0]

\* The pool takes 10 percent; the dogecoin node pays its coinbase to the pool.
Fee == [c \in ChainNames |-> <<[to |-> pool, percent |-> 10]>>]
DogePaysPool == ("litecoin" :> {}) @@ ("dogecoin" :> {pool})

\* b1 is a litecoin block of alice, b2 a dogecoin block of bob.
TwoBlocks == {"b1", "b2"}
MCChainOf == [b \in Blocks |-> IF b = "b2" THEN "dogecoin" ELSE "litecoin"]
MCReward == [b \in Blocks |-> 10]
SoloPlans ==
    [b \in Blocks |->
        {SoloPlan(IF b = "b2" THEN bob ELSE alice,
                  RemainingReward(Reward[b], Recipients[ChainOf[b]]))}]

\* The instances are configured as the theorems about them ask.
ASSUME TheoremsApply == PlansFit /\ PlansExact /\ DistinctAddresses

=============================================================================
