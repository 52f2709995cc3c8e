--------------------------- MODULE PayoutsProofs ---------------------------
(***************************************************************************)
(* Proofs about Payouts, for any chains, logins, blocks, rewards, payout   *)
(* scheme and number of faults and crashes that the assumptions allow.     *)
(***************************************************************************)
EXTENDS Payouts, SequenceTheorems, SumTheorems

(* What the recipients get is a sequence of credits. *)
LEMMA PoolCreditsType ==
    ASSUME NEW b \in Blocks
    PROVE  PoolCredits(b) \in Seq(Credits)
<1> DEFINE r == Recipients[ChainOf[b]]
<1>1. r \in Seq([to : Logins, percent : Nat])
  BY ConfigAssumption
<1>2. DOMAIN r = 1 .. Len(r) /\ Len(r) \in Nat
  BY <1>1
<1>3. ASSUME NEW i \in 1 .. Len(r)
      PROVE  [to |-> r[i].to, amount |-> (r[i].percent * Reward[b]) \div 100]
                \in Credits
  <2>1. r[i] \in [to : Logins, percent : Nat]
    BY <1>1, ElementOfSeq
  <2>2. Reward[b] \in Nat
    BY ConfigAssumption
  <2>3. r[i].percent * Reward[b] \in Nat
    BY <2>1, <2>2
  <2>4. ASSUME NEW n \in Nat PROVE n \div 100 \in Nat
    OBVIOUS
  <2> QED
    BY <2>1, <2>3, <2>4 DEF Credits
<1>4. PoolCredits(b) \in [1 .. Len(r) -> Credits]
  BY <1>2, <1>3 DEF PoolCredits, RecipientCredits
<1> QED
  BY <1>2, <1>4, SeqDef


-----------------------------------------------------------------------------
(* TypeOK is inductive. *)

LEMMA HeadIsCredit ==
    ASSUME NEW s \in Seq(Credits), s # <<>>
    PROVE  /\ Head(s).to \in Logins
           /\ Head(s).amount \in Nat
           /\ Tail(s) \in Seq(Credits)
<1>1. Head(s) \in Credits /\ Tail(s) \in Seq(Credits)
  BY HeadTailProperties
<1> QED
  BY <1>1 DEF Credits

\* The head of todo, when it is to be credited, is a credit to a balance.
LEMMA CreditingType ==
    ASSUME TypeOK, Crediting
    PROVE  /\ block \in Blocks
           /\ CreditKey \in Keys
           /\ Head(todo).amount \in Nat
           /\ Tail(todo) \in Seq(Credits)
<1>1. block \in Blocks /\ todo # <<>> /\ todo \in Seq(Credits)
  BY DEF TypeOK, Crediting
<1>2. ChainOf[block] \in Chains
  BY <1>1, ConfigAssumption
<1>3. /\ Head(todo).to \in Logins /\ Head(todo).amount \in Nat
      /\ Tail(todo) \in Seq(Credits)
  BY <1>1, HeadIsCredit
<1> QED
  BY <1>1, <1>2, <1>3 DEF CreditKey, Keys

LEMMA TypeInit == Init => TypeOK
<1> SUFFICES ASSUME Init PROVE TypeOK
  OBVIOUS
<1>1. todo \in Seq(Credits)
  BY EmptySeq DEF Init
<1>2. payments \in [Chains -> [Addresses -> Nat]] /\ sent \in [Chains -> [Addresses -> Nat]]
  BY DEF Init, PerAddress
<1>3. balance \in [Keys -> Int] /\ changes \in [Keys -> Int] /\ due \in [Keys -> Nat]
  BY DEF Init, NothingDue
<1>4. faults \in 0 .. MaxFaults /\ crashes \in 0 .. MaxCrashes
  BY ConfigAssumption DEF Init
<1> QED
  BY <1>1, <1>2, <1>3, <1>4
     DEF Init, TypeOK, NothingFound, Statuses, Stages

LEMMA TypeStep == TypeOK /\ [Next]_vars => TypeOK'
<1> USE DEF TypeOK, Stages
<1> SUFFICES ASSUME TypeOK, [Next]_vars
             PROVE  TypeOK'
  OBVIOUS
<1> USE DEF vars, db, chain, locals, history
<1>1. CASE UnlockBlocks
  BY <1>1 DEF UnlockBlocks, Pending, Classify, Statuses
<1>2. ASSUME NEW b \in Blocks, CalculateBlockRewards(b)
      PROVE  TypeOK'
  BY <1>2, PoolCreditsType DEF CalculateBlockRewards
<1>3. CASE SkipRecipient
  BY <1>3, HeadIsCredit DEF SkipRecipient
<1>4. CASE CreditInsert
  <2>1. CreditKey \in Keys /\ Head(todo).amount \in Nat
    BY <1>4, CreditingType DEF CreditInsert
  <2>2. changes' \in [Keys -> Int]
    BY <1>4, <2>1 DEF CreditInsert, InsertChange
  <2> QED
    BY <1>4, <2>2 DEF CreditInsert, InsertChange
<1>5. CASE CreditUpdate
  <2>1. /\ block \in Blocks /\ CreditKey \in Keys
        /\ Head(todo).amount \in Nat /\ Tail(todo) \in Seq(Credits)
    BY <1>5, CreditingType DEF CreditUpdate
  <2>2. balance' \in [Keys -> Int]
    BY SMTT(30), <1>5, <2>1 DEF CreditUpdate, UpdateBalance
  <2>3. awarded' \in [Blocks -> Nat]
    BY <1>5, <2>1 DEF CreditUpdate
  <2> QED
    BY <1>5, <2>1, <2>2, <2>3 DEF CreditUpdate, UpdateBalance, NoFault
<1>6. CASE UpdateMinerBalances
  <2>1. todo' \in Seq(Credits)
    BY <1>6, PlansAssumption DEF UpdateMinerBalances
  <2> QED
    BY <1>6, <2>1 DEF UpdateMinerBalances
<1>7. CASE BlockRewarded
  BY <1>7, EmptySeq DEF BlockRewarded, NextBlock
<1>8. CASE AllRewarded
  BY <1>8 DEF AllRewarded
<1>9. ASSUME NEW b \in Blocks, SaveBlock(b)
      PROVE  TypeOK'
  BY <1>9 DEF SaveBlock, Statuses
<1>10. CASE AllSaved
  BY <1>10 DEF AllSaved
<1>11. CASE GetPoolBalancesOverThreshold
  <2>1. due' \in [Keys -> Nat]
    BY <1>11, ThresholdAssumption
       DEF GetPoolBalancesOverThreshold, AmountDue, IsDue
  <2> QED
    BY <1>11, <2>1 DEF GetPoolBalancesOverThreshold
<1>12. ASSUME NEW c \in Chains, PayOut(c)
       PROVE  sent' \in [Chains -> [Addresses -> Nat]]
  <2>1. PICK t \in Transactions(c) :
           sent' = [sent EXCEPT ![c] = [a \in Addresses |-> @[a] + t[a]]]
    BY <1>12 DEF PayOut
  <2>2. t \in [Addresses -> {0} \cup {due[k] : k \in Keys}]
    BY <2>1 DEF Transactions
  <2>3. \A a \in Addresses : t[a] \in Nat
    BY <2>2
  <2>4. [a \in Addresses |-> sent[c][a] + t[a]] \in [Addresses -> Nat]
    BY <2>3
  <2> QED
    BY <2>1, <2>4
<1>13. ASSUME NEW c \in Chains, SendMany(c)
       PROVE  TypeOK'
  BY <1>13, <1>12 DEF SendMany
<1>14. CASE AllSent
  BY <1>14 DEF AllSent
<1>15. ASSUME NEW k \in Keys, RecordPayment(k)
       PROVE  TypeOK'
  <2>1. k[1] \in Chains /\ PayAddress(k) \in Addresses
    BY LoginAssumption DEF Keys
  <2>2. payments' \in [Chains -> [Addresses -> Nat]]
    BY SMTT(30), <1>15, <2>1 DEF RecordPayment
  <2> QED
    BY <1>15, <2>2 DEF RecordPayment
<1>16. CASE ResetInsert
  BY <1>16 DEF ResetInsert, InsertChange
<1>17. CASE ResetUpdate
  <2>1. payee \in Keys /\ due[payee] \in Nat
    BY <1>17 DEF ResetUpdate
  <2>2. balance' \in [Keys -> Int]
    BY <1>17, <2>1 DEF ResetUpdate, UpdateBalance
  <2> QED
    BY <1>17, <2>2 DEF ResetUpdate, UpdateBalance
<1>18. ASSUME BackToSleep
       PROVE  /\ stage' = "sleeping" /\ found' \in [Blocks -> Statuses]
              /\ confirmed' \in SUBSET Blocks /\ block' \in Blocks \cup {NoBlock}
              /\ todo' \in Seq(Credits) /\ half' \in BOOLEAN
              /\ due' \in [Keys -> Nat] /\ unsent' \in SUBSET Chains
              /\ payee' \in Keys \cup {NoPayee}
  BY <1>18, EmptySeq DEF BackToSleep, NothingFound, NothingDue, Statuses
<1>19. CASE AllPaid
  BY <1>18, <1>19 DEF AllPaid
<1>20. CASE UnlockFails
  <2>1. /\ faults' \in 0 .. MaxFaults
        /\ UNCHANGED <<awarded, crashes>>
    BY <1>20, ConfigAssumption DEF UnlockFails, Fault
  <2> QED
    BY <1>20, <2>1 DEF UnlockFails
<1>21. CASE RewardFails
  <2>1. faults' \in 0 .. MaxFaults
    BY <1>21, ConfigAssumption DEF RewardFails, Fault
  <2> QED
    BY <1>21, <2>1, EmptySeq DEF RewardFails, Fault, NextBlock
<1>22. ASSUME NEW b \in Blocks, SaveFails(b)
       PROVE  TypeOK'
  <2>1. faults' \in 0 .. MaxFaults
    BY <1>22, ConfigAssumption DEF SaveFails, Fault
  <2> QED
    BY <1>22, <2>1 DEF SaveFails, Fault, Statuses
<1>23. ASSUME NEW c \in Chains, SendManyFails(c)
       PROVE  TypeOK'
  <2>1. faults' \in 0 .. MaxFaults
    BY <1>23, ConfigAssumption DEF SendManyFails, Fault
  <2>2. sent' \in [Chains -> [Addresses -> Nat]]
    BY <1>23, <1>12 DEF SendManyFails
  <2> QED
    BY <1>23, <1>18, <2>1, <2>2 DEF SendManyFails, Fault
<1>24. CASE PayoutFails
  <2>1. faults' \in 0 .. MaxFaults
    BY <1>24, ConfigAssumption DEF PayoutFails, Fault
  <2> QED
    BY <1>24, <1>18, <2>1 DEF PayoutFails, Fault
<1>25. CASE Crash
  <2>1. crashes' \in 0 .. MaxCrashes
    BY <1>25, ConfigAssumption DEF Crash
  <2> QED
    BY <1>25, <1>18, <2>1 DEF Crash
<1>26. ASSUME NEW b \in Blocks, FindBlock(b)
       PROVE  TypeOK'
  BY <1>26 DEF FindBlock, Statuses
<1>27. ASSUME NEW b \in Blocks, ChainDecides(b)
       PROVE  TypeOK'
  BY <1>27 DEF ChainDecides
<1>28. CASE UNCHANGED vars
  BY <1>28
<1> QED
  BY <1>1, <1>2, <1>3, <1>4, <1>5, <1>6, <1>7, <1>8, <1>9, <1>10, <1>11,
     <1>13, <1>14, <1>15, <1>16, <1>17, <1>19, <1>20, <1>21, <1>22, <1>23,
     <1>24, <1>25, <1>26, <1>27, <1>28
     DEF Next, RunManager, Failure, Environment

(* The tables and the manager's locals always hold values of their type:   *)
(* no amount read for a payment is negative, and there is a block being    *)
(* rewarded or a balance being reset whenever a statement needs one.       *)
THEOREM TypeCorrect == Spec => []TypeOK
<1>1. TypeOK /\ [Next]_vars => TypeOK'
  BY TypeStep
<1> QED
  BY <1>1, TypeInit, PTL DEF Spec

-----------------------------------------------------------------------------
(* Balances.  BalancesNeverNegative is not inductive: it holds because the *)
(* amounts payoutBalances works on are still the balances, which nothing   *)
(* but their own reset changes while there are any.                        *)

Paying == stage \in {"sending", "recording", "resetting"}

DueInv ==
    /\ ~Paying => due = NothingDue
    /\ \A k \in Keys : due[k] # 0 => due[k] = balance[k]
    /\ BalancesNeverNegative

LEMMA DueInit == Init => DueInv
BY DEF Init, DueInv, Paying, NothingDue, BalancesNeverNegative

LEMMA DueStep == TypeOK /\ DueInv /\ [Next]_vars => DueInv'
<1> SUFFICES ASSUME TypeOK, DueInv, [Next]_vars
             PROVE  DueInv'
  OBVIOUS
<1> USE DEF DueInv, Paying, BalancesNeverNegative, vars, db, chain, locals
<1>1. CASE CreditUpdate
  <2>1. CreditKey \in Keys /\ Head(todo).amount \in Nat
    BY <1>1, CreditingType DEF CreditUpdate
  <2>2. ~Paying /\ due = NothingDue
    BY <1>1 DEF CreditUpdate, Crediting
  <2>3. \A k \in Keys : balance'[k] >= 0
    BY <1>1, <2>1 DEF CreditUpdate, UpdateBalance, TypeOK
  <2> QED
    BY <1>1, <2>2, <2>3 DEF CreditUpdate, NothingDue
<1>2. CASE GetPoolBalancesOverThreshold
  <2>1. \A k \in Keys : due'[k] # 0 => due'[k] = balance[k]
    BY <1>2 DEF GetPoolBalancesOverThreshold, AmountDue
  <2> QED
    BY <1>2, <2>1 DEF GetPoolBalancesOverThreshold
<1>3. CASE ResetUpdate
  <2>1. payee \in Keys /\ due[payee] \in Nat /\ balance[payee] \in Int
    BY <1>3 DEF ResetUpdate, TypeOK
  <2>2. balance'[payee] = balance[payee] - due[payee] /\ due'[payee] = 0
    BY <1>3, <2>1 DEF ResetUpdate, UpdateBalance, TypeOK
  <2>3. balance'[payee] >= 0
    BY <2>1, <2>2
  <2>4. \A k \in Keys : k # payee => balance'[k] = balance[k] /\ due'[k] = due[k]
    BY <1>3 DEF ResetUpdate, UpdateBalance, TypeOK
  <2> QED
    BY <1>3, <2>2, <2>3, <2>4 DEF ResetUpdate
<1>4. ASSUME BackToSleep, UNCHANGED balance
      PROVE  DueInv'
  BY <1>4 DEF BackToSleep, NothingDue
<1>5. CASE AllPaid \/ PayoutFails \/ Crash
  BY <1>4, <1>5 DEF AllPaid, PayoutFails, Crash
<1>6. ASSUME NEW c \in Chains, SendManyFails(c)
      PROVE  DueInv'
  BY <1>4, <1>6 DEF SendManyFails
<1>7. ASSUME UNCHANGED <<balance, due>>, Paying' = Paying
      PROVE  DueInv'
  BY <1>7
<1>8. CASE UnlockBlocks \/ SkipRecipient \/ UpdateMinerBalances \/ BlockRewarded
           \/ AllRewarded \/ AllSaved \/ UnlockFails
  BY <1>7, <1>8
     DEF UnlockBlocks, SkipRecipient, UpdateMinerBalances, BlockRewarded,
         NextBlock, AllRewarded, AllSaved, UnlockFails
<1>9. CASE CreditInsert \/ RewardFails
  BY <1>7, <1>9 DEF CreditInsert, Crediting, RewardFails, NextBlock
<1>10. CASE AllSent \/ ResetInsert
  BY <1>7, <1>10 DEF AllSent, ResetInsert
<1>11. ASSUME NEW b \in Blocks,
              \/ CalculateBlockRewards(b) \/ SaveBlock(b) \/ SaveFails(b)
              \/ FindBlock(b) \/ ChainDecides(b)
       PROVE  DueInv'
  BY <1>7, <1>11
     DEF CalculateBlockRewards, SaveBlock, SaveFails, FindBlock, ChainDecides
<1>12. ASSUME NEW c \in Chains, SendMany(c)
       PROVE  DueInv'
  BY <1>7, <1>12 DEF SendMany
<1>13. ASSUME NEW k \in Keys, RecordPayment(k)
       PROVE  DueInv'
  BY <1>7, <1>13 DEF RecordPayment
<1>14. CASE UNCHANGED vars
  BY <1>7, <1>14
<1> QED
  BY <1>1, <1>2, <1>3, <1>5, <1>6, <1>8, <1>9, <1>10, <1>11, <1>12, <1>13,
     <1>14 DEF Next, RunManager, Failure, Environment

(* Resetting a paid balance never overdraws it, whatever failed or crashed *)
(* since payoutBalances read it.                                           *)
THEOREM NoOverdraft == Spec => []BalancesNeverNegative
<1>1. DueInv => BalancesNeverNegative
  BY DEF DueInv
<1> QED
  BY <1>1, DueInit, DueStep, TypeCorrect, PTL DEF Spec

LEMMA DebitIsReset ==
    ASSUME TypeOK, DueInv, [Next]_vars, NEW k \in Keys, balance'[k] < balance[k]
    PROVE  balance'[k] = 0
<1> USE DEF vars, db, chain, locals
<1>1. CASE CreditUpdate
  <2>1. CreditKey \in Keys /\ Head(todo).amount \in Nat
    BY <1>1, CreditingType DEF CreditUpdate
  <2>2. balance'[k] \in {balance[k], balance[k] + Head(todo).amount}
    BY <1>1, <2>1 DEF CreditUpdate, UpdateBalance, TypeOK
  <2>3. ~(balance'[k] < balance[k])
    BY <2>1, <2>2 DEF TypeOK
  <2> QED
    BY <2>3
<1>2. CASE ResetUpdate
  <2>1. payee \in Keys /\ due[payee] \in Nat
    BY <1>2 DEF ResetUpdate, TypeOK
  <2>2. k = payee /\ balance'[k] = balance[k] - due[k]
    BY <1>2, <2>1 DEF ResetUpdate, UpdateBalance, TypeOK
  <2>3. due[k] # 0
    BY <2>1, <2>2 DEF TypeOK
  <2> QED
    BY <2>1, <2>2, <2>3 DEF DueInv, TypeOK
<1>3. CASE UNCHANGED balance
  BY <1>3 DEF TypeOK
<1>4. ASSUME NEW b \in Blocks,
             \/ CalculateBlockRewards(b) \/ SaveBlock(b) \/ SaveFails(b)
             \/ FindBlock(b) \/ ChainDecides(b)
      PROVE  UNCHANGED balance
  BY <1>4
     DEF CalculateBlockRewards, SaveBlock, SaveFails, FindBlock, ChainDecides
<1>5. ASSUME NEW c \in Chains, SendMany(c) \/ SendManyFails(c)
      PROVE  UNCHANGED balance
  BY <1>5 DEF SendMany, SendManyFails
<1>6. ASSUME NEW j \in Keys, RecordPayment(j)
      PROVE  UNCHANGED balance
  BY <1>6 DEF RecordPayment
<1>7. CASE \/ UnlockBlocks \/ SkipRecipient \/ CreditInsert \/ UpdateMinerBalances
           \/ BlockRewarded \/ AllRewarded \/ AllSaved
           \/ GetPoolBalancesOverThreshold \/ AllSent \/ ResetInsert \/ AllPaid
  <2>1. UNCHANGED balance
    BY <1>7
       DEF UnlockBlocks, SkipRecipient, CreditInsert, UpdateMinerBalances,
           BlockRewarded, NextBlock, AllRewarded, AllSaved,
           GetPoolBalancesOverThreshold, AllSent, ResetInsert, AllPaid
  <2> QED
    BY <1>3, <2>1
<1>8. CASE UnlockFails \/ RewardFails \/ PayoutFails \/ Crash
  <2>1. UNCHANGED balance
    BY <1>8 DEF UnlockFails, RewardFails, NextBlock, PayoutFails, Crash
  <2> QED
    BY <1>3, <2>1
<1>9. CASE UNCHANGED vars
  BY <1>3, <1>9
<1> QED
  BY <1>1, <1>2, <1>3, <1>4, <1>5, <1>6, <1>7, <1>8, <1>9
     DEF Next, RunManager, Failure, Environment

(* "Reset Balance": the only step that lowers a balance takes it to zero,  *)
(* so nothing credited between the read and the reset is ever lost.        *)
THEOREM OnlyResetsDebit == Spec => DebitsResetBalance
<1>1. TypeOK /\ DueInv /\ [Next]_vars
         => [\A k \in Keys : balance'[k] < balance[k] => balance'[k] = 0]_vars
  BY DebitIsReset
<1> QED
  BY <1>1, TypeCorrect, DueInit, DueStep, PTL DEF Spec, DebitsResetBalance

-----------------------------------------------------------------------------
(* Blocks.  The manager writes a status from a copy it took a round ago,   *)
(* and credits from a list it made then; both are still right because the  *)
(* copy holds pending blocks only, a block leaves it when it is saved, and *)
(* a mature coinbase stays mature.                                         *)

BlockInv ==
    /\ \A b \in Blocks : found[b] # "none" => status[b] = "pending"
    /\ \A b \in Blocks : remote[b] = "none" => status[b] = "none"
    /\ \A b \in confirmed : remote[b] = "generate"
    /\ stage \in {"recipients", "miners"} => block \in confirmed
    /\ AwardedIsMature

LEMMA BlockInit == Init => BlockInv
BY DEF Init, BlockInv, NothingFound, AwardedIsMature

LEMMA BlockStep == TypeOK /\ BlockInv /\ [Next]_vars => BlockInv'
<1> SUFFICES ASSUME TypeOK, BlockInv, [Next]_vars
             PROVE  BlockInv'
  OBVIOUS
<1> USE DEF BlockInv, AwardedIsMature, vars, db, chain, locals, history
<1>1. CASE UnlockBlocks
  BY <1>1 DEF UnlockBlocks, Pending, Classify
<1>2. ASSUME NEW b \in Blocks, CalculateBlockRewards(b)
      PROVE  BlockInv'
  BY <1>2 DEF CalculateBlockRewards
<1>3. CASE CreditUpdate
  <2>1. block \in confirmed /\ block \in Blocks
    BY <1>3 DEF CreditUpdate, Crediting, TypeOK
  <2>2. \A b \in Blocks : b # block => awarded'[b] = awarded[b]
    BY <1>3 DEF CreditUpdate, TypeOK
  <2> QED
    BY <1>3, <2>1, <2>2 DEF CreditUpdate
<1>4. CASE BlockRewarded \/ RewardFails
  BY <1>4 DEF BlockRewarded, RewardFails, NextBlock, Fault
<1>5. ASSUME NEW b \in Blocks, SaveBlock(b)
      PROVE  BlockInv'
  BY <1>5 DEF SaveBlock, TypeOK
<1>6. ASSUME NEW b \in Blocks, SaveFails(b)
      PROVE  BlockInv'
  BY <1>6 DEF SaveFails, Fault, TypeOK
<1>7. ASSUME NEW b \in Blocks, FindBlock(b)
      PROVE  BlockInv'
  BY <1>7 DEF FindBlock, TypeOK
<1>8. ASSUME NEW b \in Blocks, ChainDecides(b)
      PROVE  BlockInv'
  <2>1. \A a \in Blocks : remote[a] = "generate" => remote'[a] = "generate"
    BY <1>8 DEF ChainDecides, TypeOK
  <2>2. remote'[b] # "none"
    BY <1>8, ConfigAssumption DEF ChainDecides, TypeOK
  <2>3. \A a \in Blocks : a # b => remote'[a] = remote[a]
    BY <1>8 DEF ChainDecides, TypeOK
  <2>4. confirmed \subseteq Blocks
    BY DEF TypeOK
  <2> QED
    BY <1>8, <2>1, <2>2, <2>3, <2>4 DEF ChainDecides
<1>9. ASSUME BackToSleep, UNCHANGED <<status, remote, awarded>>
      PROVE  BlockInv'
  BY <1>9 DEF BackToSleep, NothingFound
<1>10. CASE AllPaid \/ PayoutFails \/ Crash
  BY <1>9, <1>10 DEF AllPaid, PayoutFails, Crash, Fault
<1>11. ASSUME NEW c \in Chains, SendManyFails(c)
       PROVE  BlockInv'
  BY <1>9, <1>11 DEF SendManyFails, Fault
<1>12. ASSUME UNCHANGED <<status, remote, found, confirmed, block, awarded>>,
              stage' \in {"recipients", "miners"}
                 => stage \in {"recipients", "miners"}
       PROVE  BlockInv'
  BY <1>12
<1>13. CASE SkipRecipient \/ CreditInsert \/ UpdateMinerBalances \/ UnlockFails
  BY <1>12, <1>13
     DEF SkipRecipient, CreditInsert, UpdateMinerBalances, UnlockFails, Fault
<1>14. CASE \/ AllRewarded \/ AllSaved \/ GetPoolBalancesOverThreshold \/ AllSent
            \/ ResetInsert \/ ResetUpdate
  BY <1>12, <1>14
     DEF AllRewarded, AllSaved, GetPoolBalancesOverThreshold, AllSent,
         ResetInsert, ResetUpdate
<1>15. ASSUME NEW c \in Chains, SendMany(c)
       PROVE  BlockInv'
  BY <1>12, <1>15 DEF SendMany
<1>16. ASSUME NEW k \in Keys, RecordPayment(k)
       PROVE  BlockInv'
  BY <1>12, <1>16 DEF RecordPayment
<1>17. CASE UNCHANGED vars
  BY <1>12, <1>17
<1> QED
  BY <1>1, <1>2, <1>3, <1>4, <1>5, <1>6, <1>7, <1>8, <1>10, <1>11, <1>13,
     <1>14, <1>15, <1>16, <1>17 DEF Next, RunManager, Failure, Environment

(* Only mature blocks are ever credited: an orphan found between the       *)
(* unlocking and the crediting cannot slip in.                             *)
THEOREM OnlyMatureAwarded == Spec => []AwardedIsMature
<1>1. BlockInv => AwardedIsMature
  BY DEF BlockInv
<1> QED
  BY <1>1, BlockInit, BlockStep, TypeCorrect, PTL DEF Spec

LEMMA StatusStep ==
    ASSUME TypeOK, BlockInv, [Next]_vars, NEW b \in Blocks,
           status[b] \in {"confirmed", "orphaned"}
    PROVE  status'[b] = status[b]
<1> USE DEF vars, db, chain, locals
<1>1. ASSUME NEW a \in Blocks, SaveBlock(a)
      PROVE  status'[b] = status[b]
  BY <1>1 DEF SaveBlock, BlockInv, TypeOK
<1>2. ASSUME NEW a \in Blocks, FindBlock(a)
      PROVE  status'[b] = status[b]
  BY <1>2 DEF FindBlock, BlockInv, TypeOK
<1>3. ASSUME NEW a \in Blocks,
             CalculateBlockRewards(a) \/ SaveFails(a) \/ ChainDecides(a)
      PROVE  UNCHANGED status
  BY <1>3 DEF CalculateBlockRewards, SaveFails, ChainDecides
<1>4. ASSUME NEW c \in Chains, SendMany(c) \/ SendManyFails(c)
      PROVE  UNCHANGED status
  BY <1>4 DEF SendMany, SendManyFails
<1>5. ASSUME NEW k \in Keys, RecordPayment(k)
      PROVE  UNCHANGED status
  BY <1>5 DEF RecordPayment
<1>6. ASSUME \/ UnlockBlocks \/ SkipRecipient \/ CreditInsert \/ CreditUpdate
             \/ UpdateMinerBalances \/ BlockRewarded \/ AllRewarded \/ AllSaved
             \/ GetPoolBalancesOverThreshold \/ AllSent \/ ResetInsert
             \/ ResetUpdate \/ AllPaid
      PROVE  UNCHANGED status
  BY <1>6
     DEF UnlockBlocks, SkipRecipient, CreditInsert, CreditUpdate,
         UpdateMinerBalances, BlockRewarded, NextBlock, AllRewarded, AllSaved,
         GetPoolBalancesOverThreshold, AllSent, ResetInsert, ResetUpdate, AllPaid
<1>7. ASSUME UnlockFails \/ RewardFails \/ PayoutFails \/ Crash
      PROVE  UNCHANGED status
  BY <1>7 DEF UnlockFails, RewardFails, NextBlock, PayoutFails, Crash
<1> QED
  BY <1>1, <1>2, <1>3, <1>4, <1>5, <1>6, <1>7
     DEF Next, RunManager, Failure, Environment

(* A decision about a block is never overwritten by an older copy of it.   *)
THEOREM DecisionsAreFinal == Spec => StatusIsFinal
<1>1. TypeOK /\ BlockInv /\ [Next]_vars
         => [\A b \in Blocks : status[b] \in {"confirmed", "orphaned"}
                                  => status'[b] = status[b]]_vars
  BY StatusStep
<1> QED
  BY <1>1, TypeCorrect, BlockInit, BlockStep, PTL DEF Spec, StatusIsFinal

-----------------------------------------------------------------------------
(* The journal.  AddAmount has written balance_changes and not yet         *)
(* balances while half holds; apart from that amount, only what was        *)
(* interrupted between the two statements is torn.                         *)

WrittenKey == IF stage = "resetting" THEN payee ELSE CreditKey
WrittenAmount == IF stage = "resetting" THEN -due[payee] ELSE Head(todo).amount
InFlight(k) == IF half /\ k = WrittenKey THEN WrittenAmount ELSE 0
Torn == {k \in Keys : changes[k] # balance[k] + InFlight(k)}

JournalInv ==
    /\ half => Crediting \/ stage = "resetting"
    /\ IsFiniteSet(Torn)
    /\ Cardinality(Torn) <= Interruptions

LEMMA JournalInit == Init => JournalInv
<1> SUFFICES ASSUME Init
             PROVE  JournalInv
  OBVIOUS
<1>1. Torn = {}
  BY DEF Init, Torn, InFlight, NothingDue
<1> QED
  BY <1>1, FS_EmptySet DEF Init, JournalInv, Interruptions

LEMMA InterruptionsType ==
    ASSUME TypeOK
    PROVE  Interruptions \in Nat /\ faults \in Nat /\ crashes \in Nat
BY ConfigAssumption DEF TypeOK, Interruptions

\* AddAmount is not under way, or nothing it works on changes.
LEMMA JournalKept ==
    ASSUME JournalInv, UNCHANGED <<balance, changes, faults, crashes>>,
           (~half /\ ~half') \/ UNCHANGED <<stage, half, block, todo, due, payee>>
    PROVE  JournalInv'
<1>1. Torn' = Torn
  BY DEF Torn, InFlight, WrittenKey, WrittenAmount, CreditKey
<1> QED
  BY <1>1 DEF JournalInv, Interruptions, Crediting, NotPaidByCoinbase

\* One more interruption, one more torn key at most.
LEMMA JournalTorn ==
    ASSUME TypeOK, JournalInv, UNCHANGED <<balance, changes>>, ~half',
           Interruptions' = Interruptions + 1
    PROVE  JournalInv'
<1> DEFINE W == Torn \cup {WrittenKey}
<1>1. \A k \in Torn' : k \in W
  BY DEF Torn, InFlight, TypeOK
<1>2. Torn' \in SUBSET W
  BY <1>1
<1>3. /\ IsFiniteSet(Torn) /\ Cardinality(Torn) \in Nat
      /\ Cardinality(Torn) <= Interruptions
  BY FS_CardinalityType DEF JournalInv
<1>4. IsFiniteSet(W) /\ Cardinality(W) <= Cardinality(Torn) + 1
  BY SMTT(30), <1>3, FS_AddElement
<1> HIDE DEF W
<1>5. IsFiniteSet(Torn') /\ Cardinality(Torn') <= Cardinality(W)
  BY <1>2, <1>4, FS_Subset
<1>6. Cardinality(W) \in Nat /\ Cardinality(Torn') \in Nat /\ Interruptions \in Nat
  BY <1>4, <1>5, FS_CardinalityType, InterruptionsType
<1>7. Cardinality(Torn') <= Interruptions + 1
  BY <1>3, <1>4, <1>5, <1>6
<1> QED
  BY <1>5, <1>7 DEF JournalInv

LEMMA JournalStep == TypeOK /\ JournalInv /\ [Next]_vars => JournalInv'
<1> SUFFICES ASSUME TypeOK, JournalInv, [Next]_vars
             PROVE  JournalInv'
  OBVIOUS
<1> USE DEF vars, db, chain, locals, history
<1>0. half => Crediting \/ stage = "resetting"
  BY DEF JournalInv
<1>1. CASE CreditInsert
  <2>1. /\ ~half /\ half' /\ stage # "resetting" /\ Crediting
        /\ changes' = [changes EXCEPT ![CreditKey] = @ + Head(todo).amount]
        /\ UNCHANGED <<balance, stage, block, todo, due, payee, faults, crashes>>
    BY <1>1 DEF CreditInsert, InsertChange, Crediting
  <2>2. CreditKey \in Keys /\ Head(todo).amount \in Nat
    BY <1>1, CreditingType DEF CreditInsert
  <2>3. \A k \in Keys :
          InFlight(k) = 0 /\ InFlight(k)' = IF k = CreditKey THEN Head(todo).amount ELSE 0
    BY <2>1 DEF InFlight, WrittenKey, WrittenAmount, CreditKey
  <2>4. \A k \in Keys : changes'[k] # balance'[k] + InFlight(k)'
                         <=> changes[k] # balance[k] + InFlight(k)
    BY SMTT(30), <2>1, <2>2, <2>3 DEF TypeOK
  <2>5. Torn' = Torn
    BY <2>4 DEF Torn
  <2> QED
    BY <2>1, <2>5 DEF JournalInv, Interruptions, Crediting, NotPaidByCoinbase
<1>2. CASE CreditUpdate
  <2>1. /\ half /\ ~half' /\ stage # "resetting"
        /\ balance' = [balance EXCEPT ![CreditKey] = @ + Head(todo).amount]
        /\ UNCHANGED <<changes, faults, crashes>>
    BY <1>2 DEF CreditUpdate, UpdateBalance, Crediting, NoFault
  <2>2. CreditKey \in Keys /\ Head(todo).amount \in Nat
    BY <1>2, CreditingType DEF CreditUpdate
  <2>3. \A k \in Keys :
          InFlight(k)' = 0 /\ InFlight(k) = IF k = CreditKey THEN Head(todo).amount ELSE 0
    BY <2>1 DEF InFlight, WrittenKey, WrittenAmount
  <2>4. \A k \in Keys : changes'[k] # balance'[k] + InFlight(k)'
                         <=> changes[k] # balance[k] + InFlight(k)
    BY SMTT(30), <2>1, <2>2, <2>3 DEF TypeOK
  <2>5. Torn' = Torn
    BY <2>4 DEF Torn
  <2> QED
    BY <2>1, <2>5 DEF JournalInv, Interruptions
<1>3. CASE ResetInsert
  <2>1. /\ ~half /\ half' /\ stage = "resetting"
        /\ changes' = [changes EXCEPT ![payee] = @ + (-due[payee])]
        /\ UNCHANGED <<balance, stage, block, todo, due, payee, faults, crashes>>
    BY <1>3 DEF ResetInsert, InsertChange
  <2>2. payee \in Keys /\ due[payee] \in Nat
    BY <2>1 DEF TypeOK
  <2>3. \A k \in Keys :
          InFlight(k) = 0 /\ InFlight(k)' = IF k = payee THEN -due[payee] ELSE 0
    BY <2>1 DEF InFlight, WrittenKey, WrittenAmount
  <2>4. \A k \in Keys : changes'[k] # balance'[k] + InFlight(k)'
                         <=> changes[k] # balance[k] + InFlight(k)
    BY <2>1, <2>2, <2>3 DEF TypeOK
  <2>5. Torn' = Torn
    BY <2>4 DEF Torn
  <2> QED
    BY <2>1, <2>5 DEF JournalInv, Interruptions
<1>4. CASE ResetUpdate
  <2>1. /\ half /\ ~half' /\ stage = "resetting"
        /\ balance' = [balance EXCEPT ![payee] = @ + (-due[payee])]
        /\ UNCHANGED <<changes, faults, crashes>>
    BY <1>4 DEF ResetUpdate, UpdateBalance
  <2>2. payee \in Keys /\ due[payee] \in Nat
    BY <2>1 DEF TypeOK
  <2>3. \A k \in Keys :
          InFlight(k)' = 0 /\ InFlight(k) = IF k = payee THEN -due[payee] ELSE 0
    BY <2>1 DEF InFlight, WrittenKey, WrittenAmount
  <2>4. \A k \in Keys : changes'[k] # balance'[k] + InFlight(k)'
                         <=> changes[k] # balance[k] + InFlight(k)
    BY <2>1, <2>2, <2>3 DEF TypeOK
  <2>5. Torn' = Torn
    BY <2>4 DEF Torn
  <2> QED
    BY <2>1, <2>5 DEF JournalInv, Interruptions
<1>5. ASSUME ~Crediting, stage # "resetting", half' = half \/ ~half',
             UNCHANGED <<balance, changes, faults, crashes>>
      PROVE  JournalInv'
  BY <1>0, <1>5, JournalKept
<1>6. CASE UnlockBlocks \/ SkipRecipient \/ UpdateMinerBalances \/ BlockRewarded \/ AllRewarded
  <2>1. ~half /\ ~half'
    BY <1>0, <1>6 DEF UnlockBlocks, SkipRecipient, UpdateMinerBalances, BlockRewarded, NextBlock,
          AllRewarded, Crediting
  <2>2. UNCHANGED <<balance, changes, faults, crashes>>
    BY <1>6 DEF UnlockBlocks, SkipRecipient, UpdateMinerBalances, BlockRewarded, NextBlock,
          AllRewarded
  <2> QED
    BY <2>1, <2>2, JournalKept
<1>7. CASE AllSaved \/ GetPoolBalancesOverThreshold \/ AllSent \/ AllPaid
  BY <1>5, <1>7 DEF AllSaved, GetPoolBalancesOverThreshold, AllSent, AllPaid, BackToSleep, Crediting
<1>8. ASSUME NEW b \in Blocks, CalculateBlockRewards(b) \/ SaveBlock(b)
      PROVE  JournalInv'
  BY <1>5, <1>8 DEF CalculateBlockRewards, SaveBlock, Crediting
<1>9. ASSUME NEW b \in Blocks, FindBlock(b) \/ ChainDecides(b)
      PROVE  JournalInv'
  BY <1>9, JournalKept DEF FindBlock, ChainDecides
<1>10. ASSUME NEW c \in Chains, SendMany(c)
      PROVE  JournalInv'
  BY <1>5, <1>10 DEF SendMany, Crediting
<1>11. ASSUME NEW k \in Keys, RecordPayment(k)
      PROVE  JournalInv'
  <2>1. ~half /\ ~half' /\ UNCHANGED <<balance, changes, faults, crashes>>
    BY <1>0, <1>11 DEF RecordPayment, Crediting
  <2> QED
    BY <2>1, JournalKept
<1>12. ASSUME Fault
       PROVE  Interruptions' = Interruptions + 1
  BY <1>12, InterruptionsType DEF Fault, Interruptions
<1>13. CASE UnlockFails
  <2>1. ~half /\ ~half' /\ UNCHANGED <<balance, changes>>
    BY <1>0, <1>13 DEF UnlockFails, Crediting
  <2>2. Interruptions' = Interruptions + 1 \/ UNCHANGED <<faults, crashes>>
    BY <1>12, <1>13 DEF UnlockFails
  <2> QED
    BY <2>1, <2>2, JournalKept, JournalTorn
<1>14. CASE RewardFails
  <2>1. ~half' /\ UNCHANGED <<balance, changes>>
    BY <1>14 DEF RewardFails, NextBlock
  <2>2. Interruptions' = Interruptions + 1 \/ (~half /\ UNCHANGED <<faults, crashes>>)
    BY <1>0, <1>12, <1>14 DEF RewardFails, Crediting
  <2> QED
    BY <2>1, <2>2, JournalKept, JournalTorn
<1>15. ASSUME NEW b \in Blocks, SaveFails(b)
       PROVE  JournalInv'
  <2>1. ~half' /\ UNCHANGED <<balance, changes>>
    BY <1>0, <1>15 DEF SaveFails, Crediting
  <2> QED
    BY <1>12, <1>15, <2>1, JournalTorn DEF SaveFails
<1>16. ASSUME NEW c \in Chains, SendManyFails(c)
       PROVE  JournalInv'
  BY <1>12, <1>16, JournalTorn DEF SendManyFails, BackToSleep
<1>17. CASE PayoutFails
  BY <1>12, <1>17, JournalTorn DEF PayoutFails, BackToSleep
<1>18. CASE Crash
  <2>1. Interruptions' = Interruptions + 1
    BY <1>18, InterruptionsType DEF Crash, Interruptions
  <2> QED
    BY <1>18, <2>1, JournalTorn DEF Crash, BackToSleep
<1>19. CASE UNCHANGED vars
  BY <1>19, JournalKept
<1> QED
  BY <1>1, <1>2, <1>3, <1>4, <1>6, <1>7, <1>8, <1>9, <1>10, <1>11, <1>13, <1>14, <1>15,
     <1>16, <1>17, <1>18, <1>19 DEF Next, RunManager, Failure, Environment

LEMMA JournalInvIsAgreement == TypeOK /\ JournalInv => JournalAgrees
<1> SUFFICES ASSUME TypeOK, JournalInv
             PROVE  JournalAgrees
  OBVIOUS
<1> DEFINE torn == {k \in Keys : changes[k] # balance[k]}
           W == Torn \cup {WrittenKey}
<1>1. /\ IsFiniteSet(Torn) /\ Cardinality(Torn) \in Nat
      /\ Cardinality(Torn) <= Interruptions /\ Interruptions \in Nat
  BY FS_CardinalityType, InterruptionsType DEF JournalInv
<1>2. CASE half
  <2>1. torn \in SUBSET W
    BY DEF Torn, InFlight, TypeOK
  <2>2. IsFiniteSet(W) /\ Cardinality(W) \in Nat /\ Cardinality(W) <= Cardinality(Torn) + 1
    BY <1>1, FS_AddElement, FS_CardinalityType
  <2> HIDE DEF torn, W
  <2>3. IsFiniteSet(torn) /\ Cardinality(torn) <= Cardinality(W)
    BY <2>1, <2>2, FS_Subset
  <2>4. Cardinality(torn) \in Nat
    BY <2>3, FS_CardinalityType
  <2>5. Cardinality(torn) <= Interruptions + 1
    BY <1>1, <2>2, <2>3, <2>4
  <2> QED
    BY <1>2, <2>5 DEF JournalAgrees, torn
<1>3. CASE ~half
  <2>1. torn = Torn
    BY <1>3 DEF Torn, InFlight, TypeOK
  <2> QED
    BY <1>1, <1>3, <2>1 DEF JournalAgrees
<1> QED
  BY <1>2, <1>3

(* However AddAmount is interrupted between its two statements, journal and *)
(* balances differ on no more keys than there were interruptions.          *)
THEOREM JournalCorrect == Spec => []JournalAgrees
BY JournalInit, JournalStep, JournalInvIsAgreement, TypeCorrect, PTL DEF Spec

-----------------------------------------------------------------------------
(* Payments.  Balances of a chain never exceed its awards, and what the    *)
(* wallet has paid together with the balances it has not paid is within    *)
(* the awards, once for the payouts that ended and once for each that was  *)
(* interrupted: only then does a paid balance survive.                     *)

KeysOf(c) == {k \in Keys : k[1] = c}
BlocksOf(c) == {b \in Blocks : ChainOf[b] = c}
Balances(c) == SumFunctionOnSet(balance, KeysOf(c))
Owed(c) == SumFunctionOnSet(due, KeysOf(c))

\* Paid by the wallet in the round that is under way, and not yet reset.
Settled(c) == IF Paying /\ c \notin unsent THEN Owed(c) ELSE 0

Budget(c) == (1 + Interruptions) * Awards(c)

CoveredInv ==
    \A c \in Chains :
        /\ Balances(c) <= Awards(c)
        /\ Total(sent[c]) + Balances(c) - Settled(c) <= Budget(c)

LEMMA SetsFinite ==
    ASSUME NEW c
    PROVE  /\ IsFiniteSet(KeysOf(c)) /\ KeysOf(c) \in SUBSET Keys
           /\ IsFiniteSet(BlocksOf(c)) /\ BlocksOf(c) \in SUBSET Blocks
           /\ IsFiniteSet(Keys) /\ IsFiniteSet(Addresses) /\ IsFiniteSet(Blocks)
<1>1. KeysOf(c) \in SUBSET Keys /\ BlocksOf(c) \in SUBSET Blocks
  BY DEF KeysOf, BlocksOf
<1> QED
  BY <1>1, FiniteAssumption, FS_Subset

LEMMA MoneyTypes ==
    ASSUME TypeOK, NEW c \in Chains
    PROVE  /\ Balances(c) \in Int /\ Owed(c) \in Nat /\ Awards(c) \in Nat
           /\ Total(sent[c]) \in Nat /\ Interruptions \in Nat
<1>1. /\ \A k \in KeysOf(c) : balance[k] \in Int /\ due[k] \in Nat
      /\ \A b \in BlocksOf(c) : awarded[b] \in Nat
      /\ \A a \in Addresses : sent[c][a] \in Nat
      /\ DOMAIN sent[c] = Addresses
  BY DEF TypeOK, KeysOf, BlocksOf
<1>2. Balances(c) \in Int
  BY <1>1, SetsFinite, SumInt DEF Balances
<1>3. Owed(c) \in Nat
  BY <1>1, SetsFinite, SumNat DEF Owed
<1>4. Awards(c) \in Nat
  BY <1>1, SetsFinite, SumNat DEF Awards, BlocksOf
<1>5. Total(sent[c]) \in Nat
  BY <1>1, SetsFinite, SumNat DEF Total
<1> QED
  BY <1>2, <1>3, <1>4, <1>5, InterruptionsType

\* What is due is part of the balances.
LEMMA OwedIsBalance ==
    ASSUME TypeOK, DueInv, NEW c \in Chains
    PROVE  Owed(c) <= Balances(c)
<1>1. ASSUME NEW k \in KeysOf(c)
      PROVE  due[k] \in Int /\ balance[k] \in Int /\ due[k] <= balance[k]
  <2>1. k \in Keys
    BY DEF KeysOf
  <2>2. due[k] \in Nat /\ balance[k] \in Int
    BY <2>1 DEF TypeOK
  <2>3. balance[k] >= 0 /\ (due[k] # 0 => due[k] = balance[k])
    BY <2>1 DEF DueInv, BalancesNeverNegative
  <2> QED
    BY <2>2, <2>3
<1> QED
  BY <1>1, SetsFinite, SumLeq DEF Owed, Balances

\* One sendmany pays no more than what is due: of the balances with the same
\* pay address it pays one.
LEMMA TransactionsBound ==
    ASSUME TypeOK, NEW c \in Chains, NEW t \in Transactions(c)
    PROVE  /\ t \in [Addresses -> Nat]
           /\ SumFunctionOnSet(t, Addresses) \in Nat
           /\ SumFunctionOnSet(t, Addresses) <= Owed(c)
<1> DEFINE payees(a) == {k \in Keys : k[1] = c /\ due[k] # 0 /\ PayAddress(k) = a}
           A == {a \in Addresses : payees(a) # {}}
           h == [a \in A |-> CHOOSE k \in payees(a) : t[a] = due[k]]
<1>1. /\ t \in [Addresses -> {0} \cup {due[k] : k \in Keys}]
      /\ \A a \in Addresses : IF payees(a) = {} THEN t[a] = 0
                                                ELSE \E k \in payees(a) : t[a] = due[k]
  BY DEF Transactions
<1>2. t \in [Addresses -> Nat]
  <2>1. \A k \in Keys : due[k] \in Nat
    BY DEF TypeOK
  <2>2. \A a \in Addresses : t[a] \in Nat
    BY <1>1, <2>1
  <2> QED
    BY <1>1, <2>2
<1>3. A \in SUBSET Addresses /\ IsFiniteSet(A) /\ IsFiniteSet(Addresses)
  BY SetsFinite, FS_Subset
<1>4. \A a \in A : h[a] \in payees(a) /\ t[a] = due[h[a]]
  BY <1>1
<1>5. \A a \in A : h[a] \in KeysOf(c) /\ PayAddress(h[a]) = a
  BY <1>4 DEF KeysOf
<1>6. h \in [A -> KeysOf(c)]
  BY <1>5
<1>7. \A a, b \in A : h[a] = h[b] => a = b
  BY <1>5
<1>8. \A a \in A : due[h[a]] \in Int /\ t[a] = due[h[a]]
  <2>1. \A k \in KeysOf(c) : due[k] \in Int
    BY DEF KeysOf, TypeOK
  <2> QED
    BY <1>4, <1>5, <2>1
<1>9. \A a \in Addresses \ A : t[a] = 0
  BY <1>1
<1>10. \A a \in A : t[a] \in Int
  BY <1>2, <1>3
<1> HIDE DEF h, A, payees
<1>11. SumFunctionOnSet(t, Addresses) = SumFunctionOnSet(t, A)
  BY <1>3, <1>9, <1>10, SumOutside
<1>12. SumFunctionOnSet(t, A) = SumFunctionOnSet(due, {h[a] : a \in A})
  BY <1>3, <1>6, <1>7, <1>8, SetsFinite, SumRename
<1>13. {h[a] : a \in A} \in SUBSET KeysOf(c)
  BY <1>6
<1>14. \A k \in KeysOf(c) : due[k] \in Nat
  BY DEF KeysOf, TypeOK
<1>15. SumFunctionOnSet(due, {h[a] : a \in A}) <= Owed(c)
  BY <1>13, <1>14, SetsFinite, SumSubset DEF Owed
<1>16. SumFunctionOnSet(t, Addresses) \in Nat
  BY <1>2, <1>3, SumNat
<1> QED
  BY <1>2, <1>11, <1>12, <1>15, <1>16

LEMMA PayOutBound ==
    ASSUME TypeOK, NEW c \in Chains, PayOut(c)
    PROVE  /\ \A d \in Chains \ {c} : sent'[d] = sent[d]
           /\ Total(sent'[c]) <= Total(sent[c]) + Owed(c)
<1>1. PICK t \in Transactions(c) :
         sent' = [sent EXCEPT ![c] = [a \in Addresses |-> @[a] + t[a]]]
  BY DEF PayOut
<1>2. /\ t \in [Addresses -> Nat]
      /\ SumFunctionOnSet(t, Addresses) \in Nat
      /\ SumFunctionOnSet(t, Addresses) <= Owed(c)
  BY TransactionsBound
<1>3. sent'[c] = [a \in Addresses |-> sent[c][a] + t[a]] /\ sent[c] \in [Addresses -> Nat]
  BY <1>1 DEF TypeOK
<1>4. \A a \in Addresses : sent[c][a] \in Int /\ t[a] \in Int
                           /\ sent'[c][a] = sent[c][a] + t[a]
  BY <1>2, <1>3
<1>5. SumFunctionOnSet(sent'[c], Addresses)
        = SumFunctionOnSet(sent[c], Addresses) + SumFunctionOnSet(t, Addresses)
  BY <1>4, SetsFinite, SumPlus
<1>6. DOMAIN sent[c] = Addresses /\ DOMAIN sent'[c] = Addresses
  BY <1>3
<1>7. Total(sent'[c]) = Total(sent[c]) + SumFunctionOnSet(t, Addresses)
  BY <1>5, <1>6 DEF Total
<1>8. \A d \in Chains \ {c} : sent'[d] = sent[d]
  BY <1>1 DEF TypeOK
<1> QED
  BY <1>2, <1>7, <1>8, MoneyTypes

LEMMA BudgetGrows ==
    ASSUME NEW i \in Nat, NEW a \in Nat, NEW x \in Nat
    PROVE  /\ (1 + i) * (a + x) >= (1 + i) * a + x
           /\ (1 + (i + 1)) * a = (1 + i) * a + a
           /\ (1 + i) * a \in Nat /\ (1 + i) * (a + x) \in Nat
<1>1. i * x \in Nat /\ i * a \in Nat
  OBVIOUS
<1>2. (1 + i) * (a + x) = (a + x) + (i * a + i * x) /\ (1 + i) * a = a + i * a
  OBVIOUS
<1> QED
  BY <1>1, <1>2

MoneyTyped ==
    \A c \in Chains :
        /\ Balances(c) \in Int /\ Owed(c) \in Nat /\ Awards(c) \in Nat
        /\ Total(sent[c]) \in Nat /\ Interruptions \in Nat

LEMMA MoneyIsTyped == TypeOK => MoneyTyped
BY MoneyTypes DEF MoneyTyped

LEMMA MoneyStaysTyped == TypeOK' => MoneyTyped'
BY MoneyIsTyped, PTL

LEMMA MoneyTypesNext ==
    ASSUME TypeOK', NEW c \in Chains
    PROVE  /\ Balances(c)' \in Int /\ Owed(c)' \in Nat /\ Awards(c)' \in Nat
           /\ Total(sent[c])' \in Nat /\ Interruptions' \in Nat
BY MoneyStaysTyped DEF MoneyTyped

LEMMA CoveredInit == Init => CoveredInv
<1> SUFFICES ASSUME Init, NEW c \in Chains
             PROVE  /\ Balances(c) <= Awards(c)
                    /\ Total(sent[c]) + Balances(c) - Settled(c) <= Budget(c)
  BY DEF CoveredInv
<1>1. TypeOK
  BY TypeInit
<1>2. Balances(c) = 0
  <2>1. \A k \in KeysOf(c) : balance[k] = 0
    BY DEF Init, NothingDue, KeysOf
  <2> QED
    BY <2>1, SetsFinite, SumZero DEF Balances
<1>3. Total(sent[c]) = 0
  <2>1. DOMAIN sent[c] = Addresses /\ \A a \in Addresses : sent[c][a] = 0
    BY DEF Init, PerAddress
  <2> QED
    BY <2>1, SetsFinite, SumZero DEF Total
<1>4. Settled(c) = 0
  BY DEF Init, Settled, Paying
<1>5. Awards(c) \in Nat /\ Interruptions \in Nat
  BY <1>1, MoneyTypes
<1>6. Budget(c) \in Nat
  BY <1>5, BudgetGrows DEF Budget
<1> QED
  BY <1>2, <1>3, <1>4, <1>5, <1>6

LEMMA SettledBound ==
    ASSUME TypeOK, NEW c \in Chains
    PROVE  Settled(c) \in Nat /\ Settled(c) <= Owed(c)
BY MoneyTypes DEF Settled

\* A step that moves no money, and forgets no payment that is still owed.
LEMMA CoveredKept ==
    ASSUME TypeOK, TypeOK', CoveredInv, UNCHANGED <<balance, awarded, sent>>,
           Interruptions' \in {Interruptions, Interruptions + 1},
           \A c \in Chains : Settled(c)' \in Nat /\ Settled(c)' >= Settled(c)
    PROVE  CoveredInv'
<1> SUFFICES ASSUME NEW c \in Chains
             PROVE  /\ Balances(c)' <= Awards(c)'
                    /\ Total(sent[c])' + Balances(c)' - Settled(c)' <= Budget(c)'
  BY DEF CoveredInv
<1>1. /\ Balances(c)' = Balances(c) /\ Awards(c)' = Awards(c)
      /\ Total(sent[c])' = Total(sent[c])
  BY DEF Balances, Awards, Total
<1>2. Budget(c)' \in Nat /\ Budget(c) \in Nat /\ Budget(c)' >= Budget(c)
  BY <1>1, MoneyTypes, BudgetGrows DEF Budget
<1>3. /\ Balances(c) <= Awards(c)
      /\ Total(sent[c]) + Balances(c) - Settled(c) <= Budget(c)
  BY DEF CoveredInv
<1>4. Settled(c) \in Nat /\ Settled(c)' \in Nat /\ Settled(c)' >= Settled(c)
  BY SettledBound
<1> QED
  BY <1>1, <1>2, <1>3, <1>4, MoneyTypes

\* An interruption loses what was settled, and a sendmany that timed out may
\* have paid what was not: at most one balance more, for one more award.
LEMMA CoveredInterrupted ==
    ASSUME TypeOK, TypeOK', DueInv, CoveredInv, UNCHANGED <<balance, awarded>>, ~Paying',
           Interruptions' = Interruptions + 1,
           \A c \in Chains :
              Total(sent[c])' + Settled(c) <= Total(sent[c]) + Owed(c)
    PROVE  CoveredInv'
<1> SUFFICES ASSUME NEW c \in Chains
             PROVE  /\ Balances(c)' <= Awards(c)'
                    /\ Total(sent[c])' + Balances(c)' - Settled(c)' <= Budget(c)'
  BY DEF CoveredInv
<1>1. Balances(c)' = Balances(c) /\ Awards(c)' = Awards(c)
  BY DEF Balances, Awards
<1>2. Budget(c)' = Budget(c) + Awards(c) /\ Budget(c) \in Nat
  BY <1>1, MoneyTypes, BudgetGrows DEF Budget
<1>3. /\ Balances(c) <= Awards(c)
      /\ Total(sent[c]) + Balances(c) - Settled(c) <= Budget(c)
  BY DEF CoveredInv
<1>4. Settled(c) \in Nat /\ Settled(c)' = 0 /\ Owed(c) <= Balances(c)
  BY SettledBound, OwedIsBalance DEF Settled
<1>5. Total(sent[c])' + Settled(c) <= Total(sent[c]) + Owed(c)
  OBVIOUS
<1> QED
  BY <1>1, <1>2, <1>3, <1>4, <1>5, MoneyTypes, MoneyTypesNext

LEMMA CoveredCredit ==
    ASSUME TypeOK, TypeOK', CoveredInv, CreditUpdate
    PROVE  CoveredInv'
<1> SUFFICES ASSUME NEW c \in Chains
             PROVE  /\ Balances(c)' <= Awards(c)'
                    /\ Total(sent[c])' + Balances(c)' - Settled(c)' <= Budget(c)'
  BY DEF CoveredInv
<1> DEFINE x == Head(todo).amount
<1>1. /\ block \in Blocks /\ CreditKey \in Keys /\ x \in Nat
      /\ CreditKey[1] = ChainOf[block]
  BY CreditingType DEF CreditUpdate, CreditKey
<1>2. /\ balance' = [balance EXCEPT ![CreditKey] = @ + x]
      /\ awarded' = [awarded EXCEPT ![block] = @ + x]
      /\ UNCHANGED <<sent, faults, crashes>> /\ ~Paying /\ ~Paying'
  BY DEF CreditUpdate, UpdateBalance, NoFault, chain, Crediting, Paying
<1>3. /\ balance \in [Keys -> Int] /\ awarded \in [Blocks -> Nat]
      /\ balance' \in [Keys -> Int] /\ awarded' \in [Blocks -> Nat]
  BY DEF TypeOK
<1> HIDE DEF x
<1>4. CASE ChainOf[block] = c
  <2>1. CreditKey \in KeysOf(c) /\ block \in BlocksOf(c)
    BY <1>1, <1>4 DEF KeysOf, BlocksOf
  <2>2. Balances(c)' = Balances(c) + x
    <3>1. \A k \in KeysOf(c) : balance[k] \in Int /\ balance'[k] \in Int
      BY <1>3 DEF KeysOf
    <3>2. \A k \in KeysOf(c) \ {CreditKey} : balance'[k] = balance[k]
      BY <1>2, <1>3 DEF KeysOf
    <3>3. balance'[CreditKey] = balance[CreditKey] + x
      BY <1>1, <1>2, <1>3
    <3>4. SumFunctionOnSet(balance', KeysOf(c))
            = SumFunctionOnSet(balance, KeysOf(c)) + balance'[CreditKey] - balance[CreditKey]
      BY <2>1, <3>1, <3>2, SetsFinite, SumChange
    <3>5. Balances(c) \in Int /\ balance[CreditKey] \in Int
      BY <1>1, <1>3, MoneyTypes
    <3> QED
      BY <1>1, <3>3, <3>4, <3>5 DEF Balances
  <2>3. Awards(c)' = Awards(c) + x
    <3>1. \A b \in BlocksOf(c) : awarded[b] \in Int /\ awarded'[b] \in Int
      BY <1>3 DEF BlocksOf
    <3>2. \A b \in BlocksOf(c) \ {block} : awarded'[b] = awarded[b]
      BY <1>2, <1>3 DEF BlocksOf
    <3>3. awarded'[block] = awarded[block] + x
      BY <1>1, <1>2, <1>3
    <3>4. SumFunctionOnSet(awarded', BlocksOf(c))
            = SumFunctionOnSet(awarded, BlocksOf(c)) + awarded'[block] - awarded[block]
      BY <2>1, <3>1, <3>2, SetsFinite, SumChange
    <3>5. Awards(c) \in Nat /\ awarded[block] \in Nat
      BY <1>1, <1>3, MoneyTypes
    <3> QED
      BY <1>1, <3>3, <3>4, <3>5 DEF Awards, BlocksOf
  <2>4. Total(sent[c])' = Total(sent[c]) /\ Settled(c)' = 0 /\ Settled(c) = 0
    BY <1>2 DEF Total, Settled
  <2>5. Budget(c)' >= Budget(c) + x /\ Budget(c)' \in Nat /\ Budget(c) \in Nat
    BY <1>1, <1>2, <2>3, MoneyTypes, BudgetGrows DEF Budget, Interruptions
  <2>6. /\ Balances(c) <= Awards(c)
        /\ Total(sent[c]) + Balances(c) - Settled(c) <= Budget(c)
    BY DEF CoveredInv
  <2> QED
    BY <1>1, <2>2, <2>3, <2>4, <2>5, <2>6, MoneyTypes
<1>5. CASE ChainOf[block] # c
  <2>1. CreditKey \notin KeysOf(c) /\ block \notin BlocksOf(c)
    BY <1>1, <1>5 DEF KeysOf, BlocksOf
  <2>2. \A k \in KeysOf(c) : balance[k] \in Int /\ balance'[k] = balance[k]
    BY <1>2, <1>3, <2>1 DEF KeysOf
  <2>3. \A b \in BlocksOf(c) : awarded[b] \in Int /\ awarded'[b] = awarded[b]
    BY <1>2, <1>3, <2>1 DEF BlocksOf
  <2>4. Balances(c)' = Balances(c)
    BY <2>2, SetsFinite, SumSame DEF Balances
  <2>5. Awards(c)' = Awards(c)
    BY <2>3, SetsFinite, SumSame DEF Awards, BlocksOf
  <2>6. Total(sent[c])' = Total(sent[c]) /\ Settled(c)' = Settled(c) /\ Budget(c)' = Budget(c)
    BY <1>2, <2>5 DEF Total, Settled, Budget, Interruptions
  <2> QED
    BY <2>4, <2>5, <2>6 DEF CoveredInv
<1> QED
  BY <1>4, <1>5

LEMMA CoveredSend ==
    ASSUME TypeOK, TypeOK', CoveredInv, NEW d \in Chains, SendMany(d)
    PROVE  CoveredInv'
<1> SUFFICES ASSUME NEW c \in Chains
             PROVE  /\ Balances(c)' <= Awards(c)'
                    /\ Total(sent[c])' + Balances(c)' - Settled(c)' <= Budget(c)'
  BY DEF CoveredInv
<1>1. /\ d \in unsent /\ unsent' = unsent \ {d} /\ Paying /\ Paying' /\ PayOut(d)
      /\ UNCHANGED <<balance, awarded, due, faults, crashes>>
  BY DEF SendMany, Paying, db, history
<1>2. /\ Balances(c)' = Balances(c) /\ Awards(c)' = Awards(c) /\ Owed(c)' = Owed(c)
      /\ Budget(c)' = Budget(c)
  BY <1>1 DEF Balances, Awards, Owed, Budget, Interruptions
<1>3. Total(sent[c])' - Settled(c)' <= Total(sent[c]) - Settled(c)
  <2>1. CASE c = d
    <3>1. Settled(c) = 0 /\ Settled(c)' = Owed(c)
      BY <1>1, <1>2, <2>1 DEF Settled
    <3>2. Total(sent[c])' <= Total(sent[c]) + Owed(c)
      BY <1>1, <2>1, PayOutBound DEF Total
    <3> QED
      BY <3>1, <3>2, MoneyTypes, MoneyTypesNext
  <2>2. CASE c # d
    <3>1. sent'[c] = sent[c]
      BY <1>1, <2>2, PayOutBound
    <3>2. Total(sent[c])' = Total(sent[c])
      BY <3>1 DEF Total
    <3>3. Settled(c)' = Settled(c)
      BY <1>1, <1>2, <2>2 DEF Settled
    <3> QED
      BY <3>2, <3>3, MoneyTypes, SettledBound
  <2> QED
    BY <2>1, <2>2
<1>4. /\ Balances(c) <= Awards(c)
      /\ Total(sent[c]) + Balances(c) - Settled(c) <= Budget(c)
  BY DEF CoveredInv
<1>5. Settled(c) \in Nat /\ Settled(c)' \in Nat /\ Budget(c) \in Nat
  BY <1>1, SettledBound, MoneyTypes, MoneyTypesNext, BudgetGrows DEF Settled, Budget
<1> QED
  BY <1>2, <1>3, <1>4, <1>5, MoneyTypes, MoneyTypesNext

LEMMA CoveredReset ==
    ASSUME TypeOK, TypeOK', CoveredInv, ResetUpdate
    PROVE  CoveredInv'
<1> SUFFICES ASSUME NEW c \in Chains
             PROVE  /\ Balances(c)' <= Awards(c)'
                    /\ Total(sent[c])' + Balances(c)' - Settled(c)' <= Budget(c)'
  BY DEF CoveredInv
<1>1. /\ payee \in Keys /\ Paying /\ Paying'
      /\ balance' = [balance EXCEPT ![payee] = @ + (-due[payee])]
      /\ due' = [due EXCEPT ![payee] = 0]
      /\ UNCHANGED <<sent, awarded, unsent, faults, crashes>>
  BY DEF ResetUpdate, UpdateBalance, Paying, chain, history, TypeOK
<1>2. /\ balance \in [Keys -> Int] /\ due \in [Keys -> Nat]
      /\ balance' \in [Keys -> Int] /\ due' \in [Keys -> Nat]
  BY DEF TypeOK
<1>3. /\ Awards(c)' = Awards(c) /\ Budget(c)' = Budget(c)
      /\ Total(sent[c])' = Total(sent[c])
  BY <1>1 DEF Awards, Budget, Interruptions, Total
<1>4. /\ Balances(c) <= Awards(c)
      /\ Total(sent[c]) + Balances(c) - Settled(c) <= Budget(c)
  BY DEF CoveredInv
<1>5. CASE payee[1] = c
  <2>1. payee \in KeysOf(c)
    BY <1>1, <1>5 DEF KeysOf
  <2>2. due[payee] \in Nat /\ balance'[payee] = balance[payee] - due[payee] /\ due'[payee] = 0
        /\ balance[payee] \in Int
    BY <1>1, <1>2
  <2>3. Balances(c)' = Balances(c) - due[payee]
    <3>1. \A k \in KeysOf(c) : balance[k] \in Int /\ balance'[k] \in Int
      BY <1>2 DEF KeysOf
    <3>2. \A k \in KeysOf(c) \ {payee} : balance'[k] = balance[k]
      BY <1>1, <1>2 DEF KeysOf
    <3>3. SumFunctionOnSet(balance', KeysOf(c))
            = SumFunctionOnSet(balance, KeysOf(c)) + balance'[payee] - balance[payee]
      BY <2>1, <3>1, <3>2, SetsFinite, SumChange
    <3> QED
      BY <2>2, <3>3, MoneyTypes DEF Balances
  <2>4. Owed(c)' = Owed(c) - due[payee]
    <3>1. \A k \in KeysOf(c) : due[k] \in Int /\ due'[k] \in Int
      BY <1>2 DEF KeysOf
    <3>2. \A k \in KeysOf(c) \ {payee} : due'[k] = due[k]
      BY <1>1, <1>2 DEF KeysOf
    <3>3. SumFunctionOnSet(due', KeysOf(c))
            = SumFunctionOnSet(due, KeysOf(c)) + due'[payee] - due[payee]
      BY <2>1, <3>1, <3>2, SetsFinite, SumChange
    <3> QED
      BY <2>2, <3>3, MoneyTypes DEF Owed
  <2>5. Settled(c)' >= Settled(c) - due[payee] /\ Settled(c)' \in Nat /\ Settled(c) \in Nat
    BY <1>1, <2>2, <2>4, MoneyTypes, MoneyTypesNext DEF Settled
  <2>6. Budget(c) \in Nat
    BY MoneyTypes, BudgetGrows DEF Budget
  <2> QED
    BY <1>3, <1>4, <2>2, <2>3, <2>5, <2>6, MoneyTypes, MoneyTypesNext
<1>6. CASE payee[1] # c
  <2>1. payee \notin KeysOf(c)
    BY <1>6 DEF KeysOf
  <2>2. \A k \in KeysOf(c) : /\ balance[k] \in Int /\ balance'[k] = balance[k]
                             /\ due[k] \in Int /\ due'[k] = due[k]
    BY <1>1, <1>2, <2>1 DEF KeysOf
  <2>3. Balances(c)' = Balances(c)
    BY <2>2, SetsFinite, SumSame DEF Balances
  <2>4. Owed(c)' = Owed(c)
    BY <2>2, SetsFinite, SumSame DEF Owed
  <2>5. Settled(c)' = Settled(c)
    BY <1>1, <2>4 DEF Settled
  <2> QED
    BY <1>3, <1>4, <2>3, <2>5
<1> QED
  BY <1>5, <1>6

LEMMA CoveredStep ==
    TypeOK /\ TypeOK' /\ DueInv /\ CoveredInv /\ [Next]_vars => CoveredInv'
<1> SUFFICES ASSUME TypeOK, TypeOK', DueInv, CoveredInv, [Next]_vars
             PROVE  CoveredInv'
  OBVIOUS
<1> USE DEF vars, db, chain, locals, history
<1>1. ASSUME Fault
      PROVE  Interruptions' = Interruptions + 1 /\ UNCHANGED awarded
  BY <1>1, InterruptionsType DEF Fault, Interruptions
<1>2. ASSUME UNCHANGED <<faults, crashes>>
      PROVE  Interruptions' = Interruptions
  BY <1>2 DEF Interruptions
<1>3. ASSUME ~Paying, UNCHANGED <<balance, awarded, sent>>,
             Interruptions' \in {Interruptions, Interruptions + 1}
      PROVE  CoveredInv'
  <2>1. ASSUME NEW c \in Chains
        PROVE  Settled(c)' \in Nat /\ Settled(c)' >= Settled(c)
    BY <1>3, MoneyTypesNext DEF Settled
  <2> QED
    BY <1>3, <2>1, CoveredKept
<1>4. ASSUME UNCHANGED <<balance, awarded, sent, due, unsent, faults, crashes>>,
             Paying' = Paying
      PROVE  CoveredInv'
  <2>1. ASSUME NEW c \in Chains
        PROVE  Settled(c)' \in Nat /\ Settled(c)' >= Settled(c)
    <3>1. Settled(c)' = Settled(c)
      BY <1>4 DEF Settled, Owed
    <3> QED
      BY <3>1, SettledBound
  <2> QED
    BY <1>2, <1>4, <2>1, CoveredKept
<1>5. CASE CreditUpdate
  BY <1>5, CoveredCredit
<1>6. ASSUME NEW c \in Chains, SendMany(c)
      PROVE  CoveredInv'
  BY <1>6, CoveredSend
<1>7. CASE ResetUpdate
  BY <1>7, CoveredReset
<1>8. ASSUME BackToSleep, UNCHANGED <<balance, awarded>>,
             Interruptions' = Interruptions + 1,
             UNCHANGED sent \/ \E d \in unsent : d \in Chains /\ Paying /\ PayOut(d)
      PROVE  CoveredInv'
  <2>1. ~Paying'
    BY <1>8 DEF BackToSleep, Paying
  <2>2. ASSUME NEW c \in Chains
        PROVE  Total(sent[c])' + Settled(c) <= Total(sent[c]) + Owed(c)
    <3>1. CASE sent'[c] = sent[c]
      <4>1. Total(sent[c])' = Total(sent[c])
        BY <3>1 DEF Total
      <4> QED
        BY <4>1, SettledBound, MoneyTypes
    <3>2. CASE sent'[c] # sent[c]
      <4>1. c \in unsent /\ PayOut(c)
        BY <1>8, <3>2, PayOutBound
      <4>2. Settled(c) = 0 /\ Total(sent[c])' <= Total(sent[c]) + Owed(c)
        BY <4>1, PayOutBound DEF Settled, Total
      <4> QED
        BY <4>2, MoneyTypes, MoneyTypesNext
    <3> QED
      BY <3>1, <3>2
  <2> QED
    BY <1>8, <2>1, <2>2, CoveredInterrupted
<1>9. ASSUME NEW c \in Chains, SendManyFails(c)
      PROVE  CoveredInv'
  BY <1>1, <1>8, <1>9 DEF SendManyFails, Paying
<1>10. CASE PayoutFails \/ Crash
  <2>1. Interruptions' = Interruptions + 1
    BY <1>1, <1>10, InterruptionsType DEF PayoutFails, Crash, Interruptions
  <2> QED
    BY <1>1, <1>8, <1>10, <2>1 DEF PayoutFails, Crash
<1>11. CASE AllPaid
  <2>1. ASSUME NEW c \in Chains
        PROVE  Settled(c)' \in Nat /\ Settled(c)' >= Settled(c)
    <3>1. \A k \in KeysOf(c) : due[k] = 0
      BY <1>11 DEF AllPaid, NothingDue, KeysOf
    <3>2. Owed(c) = 0
      BY <3>1, SetsFinite, SumZero DEF Owed
    <3>3. Settled(c) = 0 /\ Settled(c)' \in Nat
      BY <3>2, MoneyTypesNext DEF Settled
    <3> QED
      BY <3>3
  <2> QED
    BY <1>2, <1>11, <2>1, CoveredKept DEF AllPaid, BackToSleep
<1>12. CASE \/ UnlockBlocks \/ SkipRecipient \/ CreditInsert \/ UpdateMinerBalances
            \/ BlockRewarded \/ AllRewarded \/ AllSaved
            \/ GetPoolBalancesOverThreshold
  <2>1. ~Paying
    BY <1>12 DEF Paying, UnlockBlocks, SkipRecipient, CreditInsert, Crediting,
          UpdateMinerBalances, BlockRewarded, AllRewarded, AllSaved,
          GetPoolBalancesOverThreshold
  <2>2. UNCHANGED <<balance, awarded, sent, faults, crashes>>
    BY <1>12 DEF UnlockBlocks, SkipRecipient, CreditInsert, UpdateMinerBalances,
          BlockRewarded, NextBlock, AllRewarded, AllSaved, GetPoolBalancesOverThreshold
  <2> QED
    BY <1>2, <1>3, <2>1, <2>2
<1>13. CASE UnlockFails \/ RewardFails
  <2>1. ~Paying
    BY <1>13 DEF Paying, UnlockFails, RewardFails, Crediting
  <2>2. UNCHANGED <<balance, awarded, sent>>
    BY <1>13 DEF UnlockFails, RewardFails, NextBlock, Fault
  <2>3. Fault \/ UNCHANGED <<faults, crashes>>
    BY <1>13 DEF UnlockFails, RewardFails
  <2> QED
    BY <1>1, <1>2, <1>3, <2>1, <2>2, <2>3
<1>14. ASSUME NEW b \in Blocks, CalculateBlockRewards(b) \/ SaveBlock(b) \/ SaveFails(b)
       PROVE  CoveredInv'
  <2>1. ~Paying /\ UNCHANGED <<balance, awarded, sent>>
    BY <1>14 DEF Paying, CalculateBlockRewards, SaveBlock, SaveFails, Fault
  <2>2. Fault \/ UNCHANGED <<faults, crashes>>
    BY <1>14 DEF CalculateBlockRewards, SaveBlock, SaveFails
  <2> QED
    BY <1>1, <1>2, <1>3, <2>1, <2>2
<1>15. ASSUME NEW b \in Blocks, FindBlock(b) \/ ChainDecides(b)
       PROVE  CoveredInv'
  BY <1>4, <1>15 DEF FindBlock, ChainDecides, Paying
<1>16. CASE AllSent \/ ResetInsert
  BY <1>4, <1>16 DEF AllSent, ResetInsert, Paying
<1>17. ASSUME NEW k \in Keys, RecordPayment(k)
       PROVE  CoveredInv'
  BY <1>4, <1>17 DEF RecordPayment, Paying
<1>18. CASE UNCHANGED vars
  BY <1>4, <1>18 DEF Paying
<1> QED
  BY <1>5, <1>6, <1>7, <1>9, <1>10, <1>11, <1>12, <1>13, <1>14, <1>15, <1>16, <1>17,
     <1>18 DEF Next, RunManager, Failure, Environment

LEMMA CoveredInvCovers ==
    TypeOK /\ DueInv /\ CoveredInv => PaymentsAreCovered
<1> SUFFICES ASSUME TypeOK, DueInv, CoveredInv, NEW c \in Chains
             PROVE  Total(sent[c]) <= (1 + Interruptions) * Awards(c)
  BY DEF PaymentsAreCovered
<1>1. Total(sent[c]) + Balances(c) - Settled(c) <= Budget(c)
  BY DEF CoveredInv
<1>2. Settled(c) \in Nat /\ Settled(c) <= Owed(c) /\ Owed(c) <= Balances(c)
  BY SettledBound, OwedIsBalance
<1>3. Budget(c) \in Nat
  BY MoneyTypes, BudgetGrows DEF Budget
<1>4. Total(sent[c]) <= Budget(c)
  BY <1>1, <1>2, <1>3, MoneyTypes
<1> QED
  BY <1>4 DEF Budget

(* The wallet of a chain never pays out more than its blocks were awarded, *)
(* but for one more payout for each that a failure or a crash kept         *)
(* payoutBalances from recording.                                          *)
THEOREM PaymentsCovered == Spec => []PaymentsAreCovered
<1>1. TypeOK /\ [Next]_vars => TypeOK'
  BY TypeStep
<1> QED
  BY <1>1, TypeInit, DueInit, DueStep, CoveredInit, CoveredStep, CoveredInvCovers, PTL
     DEF Spec

(* Only a failure or a crash lets a wallet pay twice: until the first of   *)
(* them, no chain pays out more than was awarded ("Reset Balance",         *)
(* payer.go:62).                                                           *)
THEOREM PaysOnceUntilInterrupted == Spec => [](Interruptions = 0 => NoDoublePayment)
<1>1. TypeOK /\ PaymentsAreCovered /\ Interruptions = 0 => NoDoublePayment
  <2> SUFFICES ASSUME TypeOK, PaymentsAreCovered, Interruptions = 0, NEW c \in Chains
               PROVE  Total(sent[c]) <= Awards(c)
    BY DEF NoDoublePayment
  <2>1. Total(sent[c]) <= (1 + 0) * Awards(c)
    BY DEF PaymentsAreCovered
  <2>2. Awards(c) \in Nat /\ Total(sent[c]) \in Nat
    BY MoneyTypes
  <2> QED
    BY <2>1, <2>2
<1> QED
  BY <1>1, TypeCorrect, PaymentsCovered, PTL

-----------------------------------------------------------------------------
(* What is recorded.  Between the sendmany of a chain and the records of   *)
(* its payments the amounts are in due, of all payees but the one whose    *)
(* payment has just been inserted.                                         *)

PayeesOf(c, a) == {k \in Keys : k[1] = c /\ PayAddress(k) = a}

RecordedInv ==
    /\ stage # "resetting" => payee = NoPayee
    /\ stage \in {"recording", "resetting"} => unsent = {}
    /\ \A c \in Chains, a \in Addresses :
          /\ payments[c][a] + ToRecord(c, a) <= sent[c][a]
          /\ Interruptions = 0 => payments[c][a] + ToRecord(c, a) = sent[c][a]

LEMMA PayeesFinite ==
    ASSUME NEW c, NEW a
    PROVE  /\ IsFiniteSet(PayeesOf(c, a)) /\ PayeesOf(c, a) \in SUBSET Keys
           /\ \A k : /\ IsFiniteSet(PayeesOf(c, a) \ {k})
                     /\ PayeesOf(c, a) \ {k} \in SUBSET Keys
<1>1. PayeesOf(c, a) \in SUBSET Keys
  BY DEF PayeesOf
<1> QED
  BY <1>1, SetsFinite, FS_Subset

LEMMA NoPayeeIsNoKey == NoPayee \notin Keys
BY DEF NoPayee, Keys

\* ToRecord without its LET.
LEMMA ToRecordIs ==
    ASSUME NEW c, NEW a
    PROVE  ToRecord(c, a) =
             IF c \in unsent \/ ~Paying
             THEN 0 ELSE SumFunctionOnSet(due, PayeesOf(c, a) \ {payee})
<1>1. {k \in Keys : k[1] = c /\ PayAddress(k) = a /\ k # payee}
        = PayeesOf(c, a) \ {payee}
  BY DEF PayeesOf
<1> QED
  BY <1>1 DEF ToRecord, Paying

LEMMA ToRecordNat ==
    ASSUME TypeOK, NEW c, NEW a
    PROVE  /\ ToRecord(c, a) \in Nat
           /\ SumFunctionOnSet(due, PayeesOf(c, a)) \in Nat
           /\ due = NothingDue => ToRecord(c, a) = 0
<1>1. \A k \in Keys : due[k] \in Nat
  BY DEF TypeOK
<1>2. SumFunctionOnSet(due, PayeesOf(c, a) \ {payee}) \in Nat
  BY <1>1, PayeesFinite, SumNat
<1>3. SumFunctionOnSet(due, PayeesOf(c, a)) \in Nat
  BY <1>1, PayeesFinite, SumNat
<1>4. due = NothingDue => SumFunctionOnSet(due, PayeesOf(c, a) \ {payee}) = 0
  <2> SUFFICES ASSUME due = NothingDue
               PROVE  SumFunctionOnSet(due, PayeesOf(c, a) \ {payee}) = 0
    OBVIOUS
  <2>1. \A k \in PayeesOf(c, a) \ {payee} : due[k] = 0
    BY PayeesFinite DEF NothingDue
  <2> QED
    BY <2>1, PayeesFinite, SumZero
<1> QED
  BY <1>2, <1>3, <1>4, ToRecordIs

LEMMA RecordedTypes ==
    ASSUME TypeOK, NEW c \in Chains, NEW a \in Addresses
    PROVE  payments[c][a] \in Nat /\ sent[c][a] \in Nat
BY DEF TypeOK

\* With one payee to an address, sendmany pays each what is due to them.
LEMMA TransactionIsDue ==
    ASSUME TypeOK, DistinctAddresses, NEW c \in Chains, NEW t \in Transactions(c),
           NEW a \in Addresses
    PROVE  t[a] = SumFunctionOnSet(due, PayeesOf(c, a))
<1> DEFINE payees == {k \in Keys : k[1] = c /\ due[k] # 0 /\ PayAddress(k) = a}
<1>1. IF payees = {} THEN t[a] = 0 ELSE \E k \in payees : t[a] = due[k]
  BY DEF Transactions
<1>2. CASE PayeesOf(c, a) = {}
  <2>1. payees = {}
    BY <1>2 DEF PayeesOf
  <2>2. t[a] = 0
    BY <1>1, <2>1
  <2> QED
    BY <1>2, <2>2, SumEmpty
<1>3. ASSUME NEW k \in PayeesOf(c, a)
      PROVE  t[a] = SumFunctionOnSet(due, PayeesOf(c, a))
  <2>1. \A j \in PayeesOf(c, a) : j = k
    BY <1>3 DEF PayeesOf, DistinctAddresses
  <2>2. PayeesOf(c, a) \ {k} = {}
    BY <2>1
  <2>3. due[k] \in Nat /\ \A j \in PayeesOf(c, a) : due[j] \in Int
    BY <1>3 DEF PayeesOf, TypeOK
  <2>4. SumFunctionOnSet(due, PayeesOf(c, a))
          = due[k] + SumFunctionOnSet(due, PayeesOf(c, a) \ {k})
    BY <1>3, <2>3, PayeesFinite, SumRemove
  <2>5. SumFunctionOnSet(due, PayeesOf(c, a)) = due[k]
    BY <2>2, <2>3, <2>4, SumEmpty
  <2>6. payees = IF due[k] = 0 THEN {} ELSE {k}
    BY <1>3, <2>1 DEF PayeesOf
  <2>7. t[a] = due[k]
    BY <1>1, <2>6
  <2> QED
    BY <2>5, <2>7
<1> QED
  BY <1>2, <1>3

LEMMA PayOutIsDue ==
    ASSUME TypeOK, DistinctAddresses, NEW c \in Chains, PayOut(c)
    PROVE  /\ \A d \in Chains \ {c} : sent'[d] = sent[d]
           /\ \A a \in Addresses :
                 sent'[c][a] = sent[c][a] + SumFunctionOnSet(due, PayeesOf(c, a))
<1>1. PICK t \in Transactions(c) :
         sent' = [sent EXCEPT ![c] = [a \in Addresses |-> @[a] + t[a]]]
  BY DEF PayOut
<1>2. \A a \in Addresses : t[a] = SumFunctionOnSet(due, PayeesOf(c, a))
  BY TransactionIsDue
<1>3. \A a \in Addresses : sent'[c][a] = sent[c][a] + t[a]
  BY <1>1 DEF TypeOK
<1>4. \A d \in Chains \ {c} : sent'[d] = sent[d]
  BY <1>1 DEF TypeOK
<1> QED
  BY <1>2, <1>3, <1>4

LEMMA RecordedInit == Init => RecordedInv
<1> SUFFICES ASSUME Init, NEW c \in Chains, NEW a \in Addresses
             PROVE  payments[c][a] + ToRecord(c, a) = sent[c][a]
                    /\ payments[c][a] + ToRecord(c, a) <= sent[c][a]
  BY DEF Init, RecordedInv
<1>1. payments[c][a] = 0 /\ sent[c][a] = 0
  BY DEF Init, PerAddress
<1>2. ToRecord(c, a) = 0
  BY DEF Init, ToRecord
<1> QED
  BY <1>1, <1>2

\* Nothing is sent or recorded, and nothing that is to be recorded changes.
LEMMA RecordedKept ==
    ASSUME TypeOK, RecordedInv, UNCHANGED <<payments, sent>>,
           Interruptions' = 0 => Interruptions = 0,
           stage' # "resetting" => payee' = NoPayee,
           stage' \in {"recording", "resetting"} => unsent' = {},
           \A c \in Chains, a \in Addresses : ToRecord(c, a)' = ToRecord(c, a)
    PROVE  RecordedInv'
BY DEF RecordedInv

\* The round is given up: what was to be recorded never will be.
LEMMA RecordedLost ==
    ASSUME TypeOK, RecordedInv, BackToSleep, UNCHANGED payments,
           Interruptions' # 0,
           \A c \in Chains, a \in Addresses : sent'[c][a] \in Nat /\ sent'[c][a] >= sent[c][a]
    PROVE  RecordedInv'
<1> SUFFICES ASSUME NEW c \in Chains, NEW a \in Addresses
             PROVE  (payments[c][a] + ToRecord(c, a) <= sent[c][a])'
  BY DEF RecordedInv, BackToSleep
<1>1. ToRecord(c, a)' = 0
  BY DEF ToRecord, BackToSleep
<1>2. payments[c][a] + ToRecord(c, a) <= sent[c][a]
  BY DEF RecordedInv
<1>3. sent'[c][a] \in Nat /\ sent'[c][a] >= sent[c][a]
  OBVIOUS
<1> QED
  BY <1>1, <1>2, <1>3, ToRecordNat, RecordedTypes

LEMMA WithoutNoPayee ==
    ASSUME NEW c, NEW a
    PROVE  PayeesOf(c, a) \ {NoPayee} = PayeesOf(c, a)
BY NoPayeeIsNoKey DEF PayeesOf

LEMMA RecordedSend ==
    ASSUME TypeOK, DistinctAddresses, RecordedInv, NEW d \in Chains, SendMany(d)
    PROVE  RecordedInv'
<1>1. /\ d \in unsent /\ unsent' = unsent \ {d} /\ Paying /\ Paying' /\ PayOut(d)
      /\ stage = "sending" /\ stage' = "sending"
      /\ UNCHANGED <<payments, due, payee, faults, crashes>>
  BY DEF SendMany, Paying, db, history
<1>2. payee = NoPayee /\ payee' = NoPayee
  BY <1>1 DEF RecordedInv
<1>3. ASSUME NEW c \in Chains, NEW a \in Addresses
      PROVE  ToRecord(c, a)' - ToRecord(c, a) = sent'[c][a] - sent[c][a]
             /\ ToRecord(c, a)' \in Nat /\ sent'[c][a] \in Nat
  <2>1. ToRecord(c, a)' = IF c \in unsent'
                          THEN 0 ELSE SumFunctionOnSet(due, PayeesOf(c, a))
    <3>1. {k \in Keys : k[1] = c /\ PayAddress(k) = a /\ k # payee'} = PayeesOf(c, a)
      BY <1>2, NoPayeeIsNoKey DEF PayeesOf
    <3> QED
      BY <1>1, <3>1 DEF ToRecord
  <2>2. ToRecord(c, a) = IF c \in unsent
                         THEN 0 ELSE SumFunctionOnSet(due, PayeesOf(c, a))
    BY <1>1, <1>2, ToRecordIs, WithoutNoPayee
  <2>3. CASE c = d
    <3>1. ToRecord(c, a) = 0 /\ ToRecord(c, a)' = SumFunctionOnSet(due, PayeesOf(c, a))
      BY <1>1, <2>1, <2>2, <2>3
    <3>2. sent'[c][a] = sent[c][a] + SumFunctionOnSet(due, PayeesOf(c, a))
      BY <1>1, <2>3, PayOutIsDue
    <3> QED
      BY <3>1, <3>2, ToRecordNat, RecordedTypes
  <2>4. CASE c # d
    <3>1. sent'[c] = sent[c] /\ ToRecord(c, a)' = ToRecord(c, a)
      BY <1>1, <2>1, <2>2, <2>4, PayOutIsDue
    <3> QED
      BY <3>1, ToRecordNat, RecordedTypes
  <2> QED
    BY <2>3, <2>4
<1> SUFFICES ASSUME NEW c \in Chains, NEW a \in Addresses
             PROVE  /\ payments'[c][a] + ToRecord(c, a)' <= sent'[c][a]
                    /\ Interruptions' = 0
                          => payments'[c][a] + ToRecord(c, a)' = sent'[c][a]
  BY <1>1, <1>2 DEF RecordedInv
<1>4. /\ payments[c][a] + ToRecord(c, a) <= sent[c][a]
      /\ Interruptions = 0 => payments[c][a] + ToRecord(c, a) = sent[c][a]
  BY DEF RecordedInv
<1>5. payments' = payments /\ Interruptions' = Interruptions
  BY <1>1 DEF Interruptions
<1> QED
  BY <1>3, <1>4, <1>5, ToRecordNat, RecordedTypes

LEMMA RecordedRecord ==
    ASSUME TypeOK, RecordedInv, NEW k \in Keys, RecordPayment(k)
    PROVE  RecordedInv'
<1>1. /\ stage = "recording" /\ stage' = "resetting" /\ Paying /\ Paying' /\ payee' = k
      /\ payments' = [payments EXCEPT ![k[1]][PayAddress(k)] = @ + due[k]]
      /\ UNCHANGED <<due, unsent, sent, faults, crashes>>
  BY DEF RecordPayment, Paying, chain, history
<1>2. payee = NoPayee /\ unsent = {}
  BY <1>1 DEF RecordedInv
<1>3. k[1] \in Chains /\ PayAddress(k) \in Addresses /\ due[k] \in Nat
  BY LoginAssumption DEF Keys, TypeOK
<1>4. ASSUME NEW c \in Chains, NEW a \in Addresses
      PROVE  payments'[c][a] + ToRecord(c, a)' = payments[c][a] + ToRecord(c, a)
  <2>1. ToRecord(c, a)' = SumFunctionOnSet(due, PayeesOf(c, a) \ {k})
    <3>1. {j \in Keys : j[1] = c /\ PayAddress(j) = a /\ j # payee'} = PayeesOf(c, a) \ {k}
      BY <1>1 DEF PayeesOf
    <3> QED
      BY <1>1, <1>2, <3>1 DEF ToRecord
  <2>2. ToRecord(c, a) = SumFunctionOnSet(due, PayeesOf(c, a))
    BY <1>1, <1>2, ToRecordIs, WithoutNoPayee
  <2>3. \A j \in PayeesOf(c, a) : due[j] \in Int
    BY DEF PayeesOf, TypeOK
  <2>4. CASE c = k[1] /\ a = PayAddress(k)
    <3>1. k \in PayeesOf(c, a)
      BY <2>4 DEF PayeesOf
    <3>2. SumFunctionOnSet(due, PayeesOf(c, a))
            = due[k] + SumFunctionOnSet(due, PayeesOf(c, a) \ {k})
      BY <2>3, <3>1, PayeesFinite, SumRemove
    <3>3. payments'[c][a] = payments[c][a] + due[k]
      BY <1>1, <1>3, <2>4 DEF TypeOK
    <3>4. SumFunctionOnSet(due, PayeesOf(c, a) \ {k}) \in Int
      BY <2>3, PayeesFinite, SumInt
    <3> QED
      BY <1>3, <2>1, <2>2, <3>2, <3>3, <3>4, RecordedTypes
  <2>5. CASE c # k[1] \/ a # PayAddress(k)
    <3>1. k \notin PayeesOf(c, a)
      BY <2>5 DEF PayeesOf
    <3>2. PayeesOf(c, a) \ {k} = PayeesOf(c, a)
      BY <3>1
    <3>3. payments'[c][a] = payments[c][a]
      BY <1>1, <1>3, <2>5 DEF TypeOK
    <3> QED
      BY <2>1, <2>2, <3>2, <3>3
  <2> QED
    BY <2>4, <2>5
<1> QED
  BY <1>1, <1>2, <1>4 DEF RecordedInv, Interruptions

LEMMA RecordedReset ==
    ASSUME TypeOK, RecordedInv, ResetUpdate
    PROVE  RecordedInv'
<1>1. /\ stage = "resetting" /\ stage' = "recording" /\ Paying /\ Paying'
      /\ payee \in Keys /\ payee' = NoPayee
      /\ due' = [due EXCEPT ![payee] = 0]
      /\ UNCHANGED <<payments, unsent, sent, faults, crashes>>
  BY DEF ResetUpdate, Paying, chain, history, TypeOK
<1>2. unsent = {}
  BY <1>1 DEF RecordedInv
<1>3. ASSUME NEW c \in Chains, NEW a \in Addresses
      PROVE  ToRecord(c, a)' = ToRecord(c, a)
  <2> DEFINE P == PayeesOf(c, a)
             rest == PayeesOf(c, a) \ {payee}
  <2>1. ToRecord(c, a)' = SumFunctionOnSet(due', P)
    <3>1. {j \in Keys : j[1] = c /\ PayAddress(j) = a /\ j # payee'} = P
      BY <1>1, NoPayeeIsNoKey DEF PayeesOf
    <3> QED
      BY <1>1, <1>2, <3>1 DEF ToRecord
  <2>2. ToRecord(c, a) = SumFunctionOnSet(due, rest)
    BY <1>1, <1>2, ToRecordIs
  <2>3. \A j \in rest : due[j] \in Int /\ due'[j] = due[j]
    BY <1>1 DEF PayeesOf, TypeOK
  <2>4. SumFunctionOnSet(due', rest) = SumFunctionOnSet(due, rest)
    BY <2>3, PayeesFinite, SumSame
  <2>5. CASE payee \in P
    <3>1. due'[payee] = 0 /\ \A j \in P : due'[j] \in Int
      BY <1>1 DEF PayeesOf, TypeOK
    <3>2. SumFunctionOnSet(due', P) = due'[payee] + SumFunctionOnSet(due', rest)
      BY <2>5, <3>1, PayeesFinite, SumRemove
    <3>3. SumFunctionOnSet(due, rest) \in Int
      BY <2>3, PayeesFinite, SumInt
    <3> QED
      BY <2>1, <2>2, <2>4, <3>1, <3>2, <3>3
  <2>6. CASE payee \notin P
    <3>1. rest = P
      BY <2>6
    <3> QED
      BY <2>1, <2>2, <2>4, <3>1
  <2> QED
    BY <2>5, <2>6
<1> QED
  BY <1>1, <1>2, <1>3, RecordedKept DEF Interruptions

LEMMA RecordedStep ==
    ASSUME DistinctAddresses
    PROVE  TypeOK /\ RecordedInv /\ [Next]_vars => RecordedInv'
<1> SUFFICES ASSUME TypeOK, RecordedInv, [Next]_vars
             PROVE  RecordedInv'
  OBVIOUS
<1> USE DEF vars, db, chain, locals, history
<1>1. /\ stage # "resetting" => payee = NoPayee
      /\ stage \in {"recording", "resetting"} => unsent = {}
  BY DEF RecordedInv
<1>2. Interruptions' = 0 /\ (Fault \/ UNCHANGED <<faults, crashes>>) => Interruptions = 0
  BY InterruptionsType DEF Interruptions, Fault
<1>3. Fault \/ Crash => Interruptions' # 0
  BY InterruptionsType DEF Interruptions, Fault, Crash
<1>4. ASSUME ~Paying, stage' \notin {"recording", "resetting"},
             UNCHANGED <<payments, sent, payee>>, Fault \/ UNCHANGED <<faults, crashes>>,
             stage' = "sending" => \A c \in Chains \ unsent' : \A k \in KeysOf(c) : due'[k] = 0
      PROVE  RecordedInv'
  <2>1. ASSUME NEW c \in Chains, NEW a \in Addresses
        PROVE  ToRecord(c, a)' = ToRecord(c, a)
    <3>1. ToRecord(c, a) = 0
      BY <1>4, ToRecordIs
    <3>2. CASE stage' = "sending" /\ c \notin unsent'
      <4> DEFINE rest == {k \in Keys : k[1] = c /\ PayAddress(k) = a /\ k # payee'}
      <4>1. \A k \in rest : due'[k] = 0
        BY <1>4, <3>2 DEF KeysOf
      <4>2. rest \in SUBSET Keys
        OBVIOUS
      <4>3. IsFiniteSet(rest)
        BY <4>2, SetsFinite, FS_Subset
      <4> HIDE DEF rest
      <4>4. SumFunctionOnSet(due', rest) = 0
        BY <4>1, <4>3, SumZero
      <4> QED
        BY <3>1, <3>2, <4>4 DEF ToRecord, rest
    <3>3. CASE ~(stage' = "sending" /\ c \notin unsent')
      BY <1>4, <3>1, <3>3 DEF ToRecord
    <3> QED
      BY <3>2, <3>3
  <2>2. payee' = NoPayee
    BY <1>1, <1>4 DEF Paying
  <2> QED
    BY <1>2, <1>4, <2>1, <2>2, RecordedKept
<1>5. ASSUME UNCHANGED <<payments, sent, payee, due, unsent, stage, faults, crashes>>
      PROVE  RecordedInv'
  BY <1>1, <1>5, RecordedKept DEF ToRecord, Interruptions
<1>6. ASSUME NEW c \in Chains, SendMany(c)
      PROVE  RecordedInv'
  BY <1>6, RecordedSend
<1>7. ASSUME NEW k \in Keys, RecordPayment(k)
      PROVE  RecordedInv'
  BY <1>7, RecordedRecord
<1>8. CASE ResetUpdate
  BY <1>8, RecordedReset
<1>9. CASE AllSent
  <2>1. ASSUME NEW c \in Chains, NEW a \in Addresses
        PROVE  ToRecord(c, a)' = ToRecord(c, a)
    BY <1>9 DEF AllSent, ToRecord
  <2> QED
    BY <1>1, <1>9, <2>1, RecordedKept DEF AllSent, Interruptions
<1>10. CASE GetPoolBalancesOverThreshold
  <2>1. \A c \in Chains \ unsent' : \A k \in KeysOf(c) : due'[k] = 0
    BY <1>10 DEF GetPoolBalancesOverThreshold, KeysOf, AmountDue
  <2> QED
    BY <1>4, <1>10, <2>1 DEF GetPoolBalancesOverThreshold, Paying
<1>11. ASSUME NEW c \in Chains, SendManyFails(c)
       PROVE  RecordedInv'
  <2>1. ASSUME NEW d \in Chains, NEW a \in Addresses
        PROVE  sent'[d][a] \in Nat /\ sent'[d][a] >= sent[d][a]
    <3>1. CASE sent' = sent
      BY <3>1, RecordedTypes
    <3>2. CASE PayOut(c)
      <4>1. sent'[d][a] = sent[d][a]
            \/ sent'[d][a] = sent[d][a] + SumFunctionOnSet(due, PayeesOf(d, a))
        BY <3>2, PayOutIsDue
      <4> QED
        BY <4>1, ToRecordNat, RecordedTypes
    <3> QED
      BY <1>11, <3>1, <3>2 DEF SendManyFails
  <2> QED
    BY <1>3, <1>11, <2>1, RecordedLost DEF SendManyFails
<1>12. CASE PayoutFails \/ Crash
  <2>1. UNCHANGED <<payments, sent>> /\ BackToSleep
    BY <1>12 DEF PayoutFails, Crash
  <2>2. \A d \in Chains, a \in Addresses : sent'[d][a] \in Nat /\ sent'[d][a] >= sent[d][a]
    BY <2>1, RecordedTypes
  <2> QED
    BY <1>3, <1>12, <2>1, <2>2, RecordedLost DEF PayoutFails
<1>13. CASE AllPaid
  <2>1. ASSUME NEW c \in Chains, NEW a \in Addresses
        PROVE  ToRecord(c, a)' = ToRecord(c, a)
    <3>1. ToRecord(c, a) = 0
      BY <1>13, ToRecordNat DEF AllPaid
    <3> QED
      BY <1>13, <3>1 DEF AllPaid, BackToSleep, ToRecord
  <2> QED
    BY <1>2, <1>13, <2>1, RecordedKept DEF AllPaid, BackToSleep
<1>14. CASE UnlockBlocks \/ SkipRecipient \/ CreditInsert \/ CreditUpdate
  BY <1>4, <1>14 DEF UnlockBlocks, SkipRecipient, CreditInsert, CreditUpdate, Crediting,
     NoFault, Paying
<1>15. CASE UpdateMinerBalances \/ BlockRewarded \/ AllRewarded \/ AllSaved
  BY <1>4, <1>15 DEF UpdateMinerBalances, BlockRewarded, NextBlock, AllRewarded, AllSaved,
     Paying
<1>16. CASE UnlockFails \/ RewardFails
  BY <1>4, <1>16 DEF UnlockFails, RewardFails, Crediting, NextBlock, Paying
<1>17. ASSUME NEW b \in Blocks, CalculateBlockRewards(b) \/ SaveBlock(b) \/ SaveFails(b)
       PROVE  RecordedInv'
  BY <1>4, <1>17 DEF CalculateBlockRewards, SaveBlock, SaveFails, Paying
<1>18. ASSUME NEW b \in Blocks, FindBlock(b) \/ ChainDecides(b)
       PROVE  RecordedInv'
  BY <1>5, <1>18 DEF FindBlock, ChainDecides
<1>19. CASE ResetInsert
  BY <1>5, <1>19 DEF ResetInsert
<1>20. CASE UNCHANGED vars
  BY <1>5, <1>20
<1> QED
  BY <1>6, <1>7, <1>8, <1>9, <1>10, <1>11, <1>12, <1>13, <1>14, <1>15, <1>16, <1>17,
     <1>18, <1>19, <1>20 DEF Next, RunManager, Failure, Environment

LEMMA RecordedInvRecords ==
    TypeOK /\ RecordedInv => SentIsRecorded /\ RecordedIsSent
<1> SUFFICES ASSUME TypeOK, RecordedInv, NEW c \in Chains, NEW a \in Addresses
             PROVE  /\ Interruptions = 0 => sent[c][a] = payments[c][a] + ToRecord(c, a)
                    /\ payments[c][a] <= sent[c][a]
  BY DEF SentIsRecorded, RecordedIsSent
<1>1. /\ payments[c][a] + ToRecord(c, a) <= sent[c][a]
      /\ Interruptions = 0 => payments[c][a] + ToRecord(c, a) = sent[c][a]
  BY DEF RecordedInv
<1> QED
  BY <1>1, ToRecordNat, RecordedTypes

(* The payments table never claims a payment that the wallet did not make, *)
(* whatever was interrupted, if no two logins of a chain share an address. *)
THEOREM PaymentsWereSent ==
    ASSUME DistinctAddresses
    PROVE  Spec => []RecordedIsSent
<1>1. TypeOK /\ RecordedInv /\ [Next]_vars => RecordedInv'
  BY RecordedStep
<1> QED
  BY <1>1, RecordedInit, RecordedInvRecords, TypeCorrect, PTL DEF Spec

(* Until a statement fails or the process crashes, what a wallet has sent  *)
(* is in the payments table or about to be: nothing sendmany paid is       *)
(* forgotten, whatever the order of the chains.                            *)
THEOREM SentPaymentsRecorded ==
    ASSUME DistinctAddresses
    PROVE  Spec => []SentIsRecorded
<1>1. TypeOK /\ RecordedInv /\ [Next]_vars => RecordedInv'
  BY RecordedStep
<1> QED
  BY <1>1, RecordedInit, RecordedInvRecords, TypeCorrect, PTL DEF Spec

-----------------------------------------------------------------------------
(* Credits: how what they add up to changes as the head is credited.       *)

LEMMA CreditAt ==
    ASSUME NEW s \in Seq(Credits), NEW kept
    PROVE  /\ Len(s) \in Nat /\ DOMAIN s = 1 .. Len(s) /\ IsFiniteSet(DOMAIN s)
           /\ \A i \in DOMAIN s : /\ s[i].to \in Logins /\ s[i].amount \in Nat
                                  /\ NetAmount(s[i], kept) \in Nat
<1>1. Len(s) \in Nat /\ DOMAIN s = 1 .. Len(s)
  OBVIOUS
<1>2. ASSUME NEW i \in DOMAIN s
      PROVE  s[i].to \in Logins /\ s[i].amount \in Nat /\ NetAmount(s[i], kept) \in Nat
  <2>1. s[i] \in Credits
    BY ElementOfSeq
  <2> QED
    BY <2>1 DEF Credits, NetAmount
<1> QED
  BY <1>1, <1>2, FS_Interval

LEMMA NetNat ==
    ASSUME NEW s \in Seq(Credits), NEW kept
    PROVE  Net(s, kept) \in Nat
<1>1. \A i \in DOMAIN s : [j \in DOMAIN s |-> NetAmount(s[j], kept)][i] \in Nat
  BY CreditAt
<1> QED
  BY <1>1, CreditAt, SumNat DEF Net

LEMMA NetEmpty ==
    ASSUME NEW kept
    PROVE  Net(<<>>, kept) = 0
<1>1. DOMAIN <<>> = {}
  OBVIOUS
<1> QED
  BY <1>1, SumEmpty DEF Net

\* Crediting the head takes its amount off what is to be credited.
LEMMA NetTail ==
    ASSUME NEW s \in Seq(Credits), s # <<>>, NEW kept
    PROVE  Net(s, kept) = NetAmount(Head(s), kept) + Net(Tail(s), kept)
<1> DEFINE n == Len(s)
           t == Tail(s)
           f == [i \in DOMAIN s |-> NetAmount(s[i], kept)]
           g == [i \in DOMAIN t |-> NetAmount(t[i], kept)]
           h == [i \in DOMAIN t |-> i + 1]
<1>1. /\ t \in Seq(Credits) /\ n \in Nat /\ n # 0 /\ Len(t) = n - 1
      /\ DOMAIN s = 1 .. n /\ DOMAIN t = 1 .. n - 1
      /\ \A i \in 1 .. n - 1 : t[i] = s[i + 1]
      /\ Head(s) = s[1]
  BY HeadTailProperties
<1>2. IsFiniteSet(DOMAIN s) /\ IsFiniteSet(DOMAIN t)
  BY <1>1, CreditAt
<1>3. \A i \in DOMAIN s : f[i] \in Int
  BY CreditAt
<1>4. 1 \in DOMAIN s /\ f[1] = NetAmount(Head(s), kept)
  BY <1>1
<1>5. h \in [DOMAIN t -> DOMAIN s] /\ \A i, j \in DOMAIN t : h[i] = h[j] => i = j
  BY <1>1
<1>6. \A i \in DOMAIN t : f[h[i]] \in Int /\ g[i] = f[h[i]]
  BY <1>1, <1>3, <1>5
<1>7. {h[i] : i \in DOMAIN t} = DOMAIN s \ {1}
  <2>1. ASSUME NEW j \in DOMAIN s \ {1}
        PROVE  \E i \in DOMAIN t : h[i] = j
    <3>1. j - 1 \in DOMAIN t /\ h[j - 1] = j
      BY <1>1, <2>1
    <3> QED
      BY <3>1
  <2>2. \A i \in DOMAIN t : h[i] \in DOMAIN s \ {1}
    BY <1>1
  <2> QED
    BY <2>1, <2>2
<1> HIDE DEF f, g, h, t, n
<1>8. SumFunctionOnSet(f, DOMAIN s) = f[1] + SumFunctionOnSet(f, DOMAIN s \ {1})
  BY <1>2, <1>3, <1>4, SumRemove
<1>9. SumFunctionOnSet(g, DOMAIN t) = SumFunctionOnSet(f, {h[i] : i \in DOMAIN t})
  BY <1>2, <1>5, <1>6, SumRename
<1>10. Net(s, kept) = SumFunctionOnSet(f, DOMAIN s) /\ Net(t, kept) = SumFunctionOnSet(g, DOMAIN t)
  BY DEF Net, f, g
<1>11. SumFunctionOnSet(f, DOMAIN s) = f[1] + SumFunctionOnSet(g, DOMAIN t)
  BY <1>7, <1>8, <1>9
<1> QED
  BY <1>4, <1>10, <1>11 DEF t

\* What recipients are credited and what is left for the miners make the reward.
LEMMA RewardIsSplit ==
    ASSUME NEW b \in Blocks
    PROVE  /\ Net(PoolCredits(b), {}) \in Nat
           /\ RemainingReward(Reward[b], Recipients[ChainOf[b]])
                = Reward[b] - Net(PoolCredits(b), {})
<1> DEFINE s == PoolCredits(b)
           f == [i \in DOMAIN s |-> s[i].amount]
           g == [i \in DOMAIN s |-> NetAmount(s[i], {})]
<1>1. s \in Seq(Credits)
  BY PoolCreditsType
<1>2. g = f
  BY DEF NetAmount
<1>3. RemainingReward(Reward[b], Recipients[ChainOf[b]])
        = Reward[b] - SumFunctionOnSet(f, DOMAIN s)
  BY DEF RemainingReward, PoolCredits
<1>4. Net(s, {}) = SumFunctionOnSet(g, DOMAIN s)
  BY DEF Net
<1>5. Net(s, {}) \in Nat
  BY <1>1, NetNat
<1> HIDE DEF s, f, g
<1> QED
  BY <1>2, <1>3, <1>4, <1>5 DEF s

-----------------------------------------------------------------------------
(* The round: where the manager's working copies are in use.               *)

Rewarding == stage \in {"recipients", "miners"}

RoundInv ==
    /\ stage \in {"sleeping", "paying", "sending", "recording", "resetting"}
          => found = NothingFound
    /\ stage \notin {"rewarding", "recipients", "miners"} => confirmed = {}
    /\ \A b \in confirmed : found[b] = "confirmed"
    /\ ~Rewarding => block = NoBlock
    /\ Rewarding => block \in confirmed

LEMMA RoundInit == Init => RoundInv
BY DEF Init, RoundInv, Rewarding

LEMMA RoundStep == TypeOK /\ RoundInv /\ [Next]_vars => RoundInv'
<1> SUFFICES ASSUME TypeOK, RoundInv, [Next]_vars
             PROVE  RoundInv'
  OBVIOUS
<1> USE DEF RoundInv, Rewarding, vars, db, chain, locals, history
<1>1. CASE UnlockBlocks
  BY <1>1 DEF UnlockBlocks, Pending
<1>2. ASSUME NEW b \in Blocks, CalculateBlockRewards(b)
      PROVE  RoundInv'
  BY <1>2 DEF CalculateBlockRewards
<1>3. CASE SkipRecipient \/ UpdateMinerBalances
  BY <1>3 DEF SkipRecipient, UpdateMinerBalances
<1>4. CASE CreditInsert \/ CreditUpdate
  BY <1>4 DEF CreditInsert, CreditUpdate, Crediting
<1>5. CASE BlockRewarded \/ RewardFails
  BY <1>5 DEF BlockRewarded, RewardFails, NextBlock, Crediting
<1>6. CASE AllRewarded \/ AllSaved \/ GetPoolBalancesOverThreshold
  BY <1>6 DEF AllRewarded, AllSaved, GetPoolBalancesOverThreshold
<1>7. ASSUME NEW b \in Blocks, SaveBlock(b) \/ SaveFails(b)
      PROVE  RoundInv'
  BY <1>7 DEF SaveBlock, SaveFails
<1>8. CASE AllSent \/ ResetInsert \/ ResetUpdate
  BY <1>8 DEF AllSent, ResetInsert, ResetUpdate
<1>9. ASSUME BackToSleep
      PROVE  RoundInv'
  BY <1>9 DEF BackToSleep
<1>10. CASE AllPaid \/ PayoutFails \/ Crash
  BY <1>9, <1>10 DEF AllPaid, PayoutFails, Crash
<1>11. ASSUME NEW c \in Chains, SendMany(c) \/ SendManyFails(c)
       PROVE  RoundInv'
  BY <1>9, <1>11 DEF SendMany, SendManyFails
<1>12. ASSUME NEW k \in Keys, RecordPayment(k)
       PROVE  RoundInv'
  BY <1>12 DEF RecordPayment
<1>13. CASE UnlockFails
  BY <1>13 DEF UnlockFails
<1>14. ASSUME NEW b \in Blocks, FindBlock(b) \/ ChainDecides(b)
       PROVE  RoundInv'
  BY <1>14 DEF FindBlock, ChainDecides
<1>15. CASE UNCHANGED vars
  BY <1>15
<1> QED
  BY <1>1, <1>2, <1>3, <1>4, <1>5, <1>6, <1>7, <1>8, <1>10, <1>11, <1>12, <1>13, <1>14,
     <1>15 DEF Next, RunManager, Failure, Environment

-----------------------------------------------------------------------------
(* Awards.  A block that may be rewarded again has been awarded at most    *)
(* once for each interruption: only an interrupted round leaves it so.     *)

Allowance(b) == Interruptions * Reward[b]

\* The block is to be rewarded, in this round or in a later one.
Unrewarded(b) ==
    \/ status[b] \in {"none", "pending"} /\ found[b] # "confirmed"
    \/ b \in confirmed /\ b # block

AwardInv ==
    \A b \in Blocks :
        /\ awarded[b] <= Allowance(b) + Reward[b]
        /\ Unrewarded(b) => awarded[b] <= Allowance(b)
        /\ stage = "recipients" /\ b = block
              => awarded[b] + Net(todo, {}) + Left(b) <= Allowance(b) + Reward[b]
        /\ stage = "miners" /\ b = block
              => awarded[b] + Net(todo, {}) <= Allowance(b) + Reward[b]

LEMMA LeftInt ==
    ASSUME NEW b \in Blocks
    PROVE  Left(b) \in Int /\ Reward[b] \in Nat
BY RewardIsSplit, ConfigAssumption DEF Left

LEMMA AllowanceTypes ==
    ASSUME TypeOK, NEW b \in Blocks
    PROVE  /\ Allowance(b) \in Nat /\ awarded[b] \in Nat
           /\ Interruptions' = Interruptions => Allowance(b)' = Allowance(b)
           /\ Interruptions' = Interruptions + 1
                => Allowance(b)' = Allowance(b) + Reward[b]
<1>1. Interruptions \in Nat /\ Reward[b] \in Nat /\ awarded[b] \in Nat
  BY InterruptionsType, LeftInt DEF TypeOK
<1>2. ASSUME NEW i \in Nat, NEW r \in Nat
      PROVE  i * r \in Nat /\ (i + 1) * r = i * r + r
  OBVIOUS
<1> QED
  BY <1>1, <1>2 DEF Allowance

LEMMA AwardInit == Init => AwardInv
<1> SUFFICES ASSUME Init, NEW b \in Blocks
             PROVE  awarded[b] = 0 /\ Allowance(b) = 0 /\ Reward[b] \in Nat
                    /\ stage = "sleeping"
  BY DEF AwardInv
<1>1. Interruptions = 0
  BY DEF Init, Interruptions
<1> QED
  BY <1>1, LeftInt DEF Init, Allowance

\* Nothing is awarded and no block becomes one to be rewarded.
LEMMA AwardKept ==
    ASSUME TypeOK, AwardInv, UNCHANGED awarded,
           Interruptions' \in {Interruptions, Interruptions + 1},
           stage' \notin {"recipients", "miners"},
           Interruptions' # Interruptions \/ \A b \in Blocks : Unrewarded(b)' => Unrewarded(b)
    PROVE  AwardInv'
<1> SUFFICES ASSUME NEW b \in Blocks
             PROVE  /\ awarded[b]' <= Allowance(b)' + Reward[b]
                    /\ Unrewarded(b)' => awarded[b]' <= Allowance(b)'
  BY DEF AwardInv
<1>1. /\ awarded[b] <= Allowance(b) + Reward[b]
      /\ Unrewarded(b) => awarded[b] <= Allowance(b)
  BY DEF AwardInv
<1>2. Interruptions' = Interruptions \/ Interruptions' = Interruptions + 1
  OBVIOUS
<1>3. Interruptions' # Interruptions => Allowance(b)' = Allowance(b) + Reward[b]
  BY <1>2, AllowanceTypes
<1>4. Interruptions' = Interruptions => Allowance(b)' = Allowance(b)
  BY AllowanceTypes
<1> QED
  BY <1>1, <1>3, <1>4, AllowanceTypes, LeftInt

LEMMA AwardCredit ==
    ASSUME PlansFit, TypeOK, RoundInv, AwardInv, CreditUpdate
    PROVE  AwardInv'
<1>1. /\ block \in Blocks /\ todo # <<>> /\ todo \in Seq(Credits)
      /\ Head(todo).amount \in Nat
      /\ awarded' = [awarded EXCEPT ![block] = @ + Head(todo).amount]
      /\ todo' = Tail(todo) /\ Rewarding
      /\ UNCHANGED <<status, found, confirmed, block, stage, faults, crashes>>
  BY CreditingType DEF CreditUpdate, Crediting, NoFault, Rewarding, TypeOK
<1>2. Interruptions' = Interruptions
  BY <1>1 DEF Interruptions
<1>3. Net(todo, {}) = Head(todo).amount + Net(todo, {})' /\ Net(todo, {})' \in Nat
  <2>1. Tail(todo) \in Seq(Credits)
    BY <1>1, HeadTailProperties
  <2>2. Net(todo, {}) = NetAmount(Head(todo), {}) + Net(Tail(todo), {})
    BY <1>1, NetTail
  <2>3. Net(Tail(todo), {}) \in Nat
    BY <2>1, NetNat
  <2> QED
    BY <1>1, <2>2, <2>3 DEF NetAmount
<1> SUFFICES ASSUME NEW b \in Blocks
             PROVE  (/\ awarded[b] <= Allowance(b) + Reward[b]
                     /\ Unrewarded(b) => awarded[b] <= Allowance(b)
                     /\ stage = "recipients" /\ b = block
                           => awarded[b] + Net(todo, {}) + Left(b) <= Allowance(b) + Reward[b]
                     /\ stage = "miners" /\ b = block
                           => awarded[b] + Net(todo, {}) <= Allowance(b) + Reward[b])'
  BY DEF AwardInv
<1>4. /\ awarded[b] <= Allowance(b) + Reward[b]
      /\ Unrewarded(b) => awarded[b] <= Allowance(b)
      /\ stage = "recipients" /\ b = block
            => awarded[b] + Net(todo, {}) + Left(b) <= Allowance(b) + Reward[b]
      /\ stage = "miners" /\ b = block
            => awarded[b] + Net(todo, {}) <= Allowance(b) + Reward[b]
  BY DEF AwardInv
<1>5. /\ Allowance(b)' = Allowance(b) /\ Allowance(b) \in Nat /\ awarded[b] \in Nat
      /\ Left(b)' = Left(b) /\ Left(b) \in Int /\ Reward[b] \in Nat
      /\ Unrewarded(b)' = Unrewarded(b) /\ stage' = stage /\ block' = block
  BY <1>1, <1>2, AllowanceTypes, LeftInt DEF Left, Unrewarded
<1>6. CASE b = block
  <2>1. awarded'[b] = awarded[b] + Head(todo).amount
    BY <1>1, <1>6 DEF TypeOK
  <2>2. ~Unrewarded(b)
    BY <1>1, <1>6 DEF RoundInv, Unrewarded
  <2>3. Left(b) >= 0
    BY DEF PlansFit
  <2>4. awarded'[b] \in Nat
    BY <1>1, <1>5, <2>1
  <2>5. CASE stage = "recipients"
    <3>1. awarded[b] + Net(todo, {}) + Left(b) <= Allowance(b) + Reward[b]
      BY <1>4, <1>6, <2>5
    <3>2. awarded'[b] + Net(todo, {})' + Left(b) <= Allowance(b) + Reward[b]
      BY <1>1, <1>3, <1>5, <2>1, <3>1
    <3>3. awarded'[b] <= Allowance(b) + Reward[b]
      BY <1>3, <1>5, <2>3, <2>4, <3>2
    <3> QED
      BY <1>5, <2>2, <2>5, <3>2, <3>3
  <2>6. CASE stage = "miners"
    <3>1. awarded[b] + Net(todo, {}) <= Allowance(b) + Reward[b]
      BY <1>4, <1>6, <2>6
    <3>2. awarded'[b] + Net(todo, {})' <= Allowance(b) + Reward[b]
      BY <1>1, <1>3, <1>5, <2>1, <3>1
    <3>3. awarded'[b] <= Allowance(b) + Reward[b]
      BY <1>3, <1>5, <2>4, <3>2
    <3> QED
      BY <1>5, <2>2, <2>6, <3>2, <3>3
  <2> QED
    BY <1>1, <2>5, <2>6 DEF Rewarding
<1>7. CASE b # block
  <2>1. awarded'[b] = awarded[b]
    BY <1>1, <1>7 DEF TypeOK
  <2> QED
    BY <1>4, <1>5, <1>7, <2>1
<1> QED
  BY <1>6, <1>7

\* calculateBlockRewards begins: the whole reward is to be handed out.
LEMMA AwardBegins ==
    ASSUME TypeOK, RoundInv, AwardInv, NEW d \in Blocks, CalculateBlockRewards(d)
    PROVE  AwardInv'
<1>1. /\ d \in confirmed /\ block = NoBlock /\ block' = d /\ d # NoBlock
      /\ todo' = PoolCredits(d) /\ stage' = "recipients" /\ stage = "rewarding"
      /\ UNCHANGED <<status, found, confirmed, awarded, faults, crashes>>
  BY ConfigAssumption DEF CalculateBlockRewards, db, history, RoundInv, Rewarding
<1>2. Interruptions' = Interruptions
  BY <1>1 DEF Interruptions
<1> SUFFICES ASSUME NEW b \in Blocks
             PROVE  /\ awarded[b]' <= Allowance(b)' + Reward[b]
                    /\ Unrewarded(b)' => awarded[b]' <= Allowance(b)'
                    /\ b = d => awarded[b]' + Net(todo, {})' + Left(b)
                                   <= Allowance(b)' + Reward[b]
  BY <1>1 DEF AwardInv
<1>3. /\ awarded[b] <= Allowance(b) + Reward[b]
      /\ Unrewarded(b) => awarded[b] <= Allowance(b)
  BY DEF AwardInv
<1>4. Unrewarded(b)' => Unrewarded(b)
  BY <1>1, ConfigAssumption DEF Unrewarded
<1>5. Allowance(b)' = Allowance(b) /\ Allowance(b) \in Nat /\ awarded[b] \in Nat
      /\ Left(b) \in Int /\ Reward[b] \in Nat
  BY <1>2, AllowanceTypes, LeftInt
<1>6. ASSUME b = d
      PROVE  awarded[b]' + Net(todo, {})' + Left(b) <= Allowance(b)' + Reward[b]
  <2>1. Unrewarded(b)
    BY <1>1, <1>6 DEF Unrewarded
  <2>2. Net(todo, {})' = Reward[b] - Left(b)
    <3>1. Net(todo, {})' = Net(PoolCredits(b), {})
      BY <1>1, <1>6
    <3> QED
      BY <3>1, <1>5, RewardIsSplit DEF Left
  <2>3. awarded[b]' = awarded[b]
    BY <1>1
  <2> QED
    BY <1>3, <1>5, <2>1, <2>2, <2>3
<1> QED
  BY <1>1, <1>3, <1>4, <1>5, <1>6

\* The scheme decides its awards: they fit into what is left.
LEMMA AwardMiners ==
    ASSUME PlansFit, TypeOK, AwardInv, UpdateMinerBalances
    PROVE  AwardInv'
<1>1. /\ stage = "recipients" /\ stage' = "miners" /\ todo = <<>> /\ block \in Blocks
      /\ todo' \in MinerPlans[block]
      /\ UNCHANGED <<status, found, confirmed, block, awarded, faults, crashes>>
  BY DEF UpdateMinerBalances, db, history, TypeOK
<1>2. Interruptions' = Interruptions
  BY <1>1 DEF Interruptions
<1> SUFFICES ASSUME NEW b \in Blocks
             PROVE  /\ awarded[b]' <= Allowance(b)' + Reward[b]
                    /\ Unrewarded(b)' => awarded[b]' <= Allowance(b)'
                    /\ b = block => awarded[b]' + Net(todo, {})' <= Allowance(b)' + Reward[b]
  BY <1>1 DEF AwardInv
<1>3. /\ awarded[b] <= Allowance(b) + Reward[b]
      /\ Unrewarded(b) => awarded[b] <= Allowance(b)
      /\ b = block => awarded[b] + Net(todo, {}) + Left(b) <= Allowance(b) + Reward[b]
  BY <1>1 DEF AwardInv
<1>4. Unrewarded(b)' = Unrewarded(b) /\ awarded[b]' = awarded[b]
  BY <1>1 DEF Unrewarded
<1>5. Allowance(b)' = Allowance(b) /\ Allowance(b) \in Nat /\ awarded[b] \in Nat
      /\ Left(b) \in Int /\ Reward[b] \in Nat
  BY <1>2, AllowanceTypes, LeftInt
<1>6. Net(todo, {}) = 0
  BY <1>1, NetEmpty
<1>7. b = block => Net(todo, {})' <= Left(b) /\ Net(todo, {})' \in Nat
  <2> SUFFICES ASSUME b = block
               PROVE  Net(todo, {})' <= Left(b) /\ Net(todo, {})' \in Nat
    OBVIOUS
  <2>1. todo' \in Seq(Credits) /\ todo' \in MinerPlans[b]
    BY <1>1, PlansAssumption
  <2>2. Net(todo', {}) <= Left(b) /\ Net(todo', {}) \in Nat
    BY <2>1, NetNat DEF PlansFit
  <2> QED
    BY <2>2
<1> QED
  BY <1>3, <1>4, <1>5, <1>6, <1>7

LEMMA AwardStep ==
    ASSUME PlansFit
    PROVE  TypeOK /\ BlockInv /\ RoundInv /\ AwardInv /\ [Next]_vars => AwardInv'
<1> SUFFICES ASSUME TypeOK, BlockInv, RoundInv, AwardInv, [Next]_vars
             PROVE  AwardInv'
  OBVIOUS
<1> USE DEF vars, db, chain, locals, history
<1>1. Fault => Interruptions' = Interruptions + 1 /\ UNCHANGED awarded
  BY InterruptionsType DEF Fault, Interruptions
<1>2. UNCHANGED <<faults, crashes>> => Interruptions' = Interruptions
  BY DEF Interruptions
<1>3. ASSUME UNCHANGED <<status, found, confirmed, block, awarded>>,
             stage' \notin {"recipients", "miners"},
             Fault \/ UNCHANGED <<faults, crashes>>
      PROVE  AwardInv'
  BY <1>1, <1>2, <1>3, AwardKept DEF Unrewarded
<1>4. ASSUME UNCHANGED <<status, found, confirmed, block, awarded, stage, faults, crashes>>,
             Rewarding => \/ UNCHANGED todo
                          \/ todo # <<>> /\ todo' = Tail(todo)
      PROVE  AwardInv'
  <2>1. ASSUME NEW b \in Blocks
        PROVE  Allowance(b)' = Allowance(b) /\ Unrewarded(b)' = Unrewarded(b)
               /\ Allowance(b) \in Nat /\ awarded[b] \in Nat
               /\ Left(b) \in Int /\ Reward[b] \in Nat
    BY <1>2, <1>4, AllowanceTypes, LeftInt DEF Unrewarded
  <2>2. Rewarding => Net(todo, {})' <= Net(todo, {}) /\ Net(todo, {})' \in Nat
                     /\ Net(todo, {}) \in Nat
    <3>1. todo \in Seq(Credits)
      BY DEF TypeOK
    <3>2. CASE UNCHANGED todo
      BY <3>1, <3>2, NetNat
    <3>3. CASE todo # <<>> /\ todo' = Tail(todo)
      <4>1. Tail(todo) \in Seq(Credits) /\ NetAmount(Head(todo), {}) \in Nat
        BY <3>1, <3>3, HeadIsCredit DEF NetAmount
      <4>2. Net(todo, {}) = NetAmount(Head(todo), {}) + Net(Tail(todo), {})
        BY <3>1, <3>3, NetTail
      <4>3. Net(Tail(todo), {}) \in Nat /\ Net(todo, {}) \in Nat
        BY <3>1, <4>1, NetNat
      <4>4. Net(Tail(todo), {}) <= Net(todo, {})
        BY <4>1, <4>2, <4>3
      <4>5. Net(todo, {})' = Net(Tail(todo), {})
        BY <3>3
      <4> QED
        BY <4>3, <4>4, <4>5
    <3> QED
      BY <1>4, <3>2, <3>3
  <2> SUFFICES ASSUME NEW b \in Blocks
               PROVE  (/\ awarded[b] <= Allowance(b) + Reward[b]
                       /\ Unrewarded(b) => awarded[b] <= Allowance(b)
                       /\ stage = "recipients" /\ b = block
                             => awarded[b] + Net(todo, {}) + Left(b) <= Allowance(b) + Reward[b]
                       /\ stage = "miners" /\ b = block
                             => awarded[b] + Net(todo, {}) <= Allowance(b) + Reward[b])'
    BY DEF AwardInv
  <2>3. /\ awarded[b] <= Allowance(b) + Reward[b]
        /\ Unrewarded(b) => awarded[b] <= Allowance(b)
        /\ stage = "recipients" /\ b = block
              => awarded[b] + Net(todo, {}) + Left(b) <= Allowance(b) + Reward[b]
        /\ stage = "miners" /\ b = block
              => awarded[b] + Net(todo, {}) <= Allowance(b) + Reward[b]
    BY DEF AwardInv
  <2>4. (stage = "recipients" \/ stage = "miners") => Rewarding
    BY DEF Rewarding
  <2>5. awarded' = awarded /\ stage' = stage /\ block' = block /\ Left(b)' = Left(b)
    BY <1>4 DEF Left
  <2> QED
    BY <2>1, <2>2, <2>3, <2>4, <2>5
<1>5. CASE CreditUpdate
  BY <1>5, AwardCredit
<1>6. CASE UpdateMinerBalances
  BY <1>6, AwardMiners
<1>7. ASSUME NEW b \in Blocks, CalculateBlockRewards(b)
      PROVE  AwardInv'
  BY <1>7, AwardBegins
<1>8. CASE SkipRecipient
  BY <1>4, <1>8 DEF SkipRecipient
<1>9. CASE CreditInsert \/ ResetInsert
  BY <1>4, <1>9 DEF CreditInsert, ResetInsert
<1>10. CASE UnlockBlocks
  <2>1. \A b \in Blocks : Unrewarded(b)' => Unrewarded(b)
    BY <1>10 DEF UnlockBlocks, Unrewarded, Pending, RoundInv, NothingFound
  <2> QED
    BY <1>2, <1>10, <2>1, AwardKept DEF UnlockBlocks
<1>11. CASE BlockRewarded \/ RewardFails
  <2>1. \A b \in Blocks : Unrewarded(b)' => Unrewarded(b)
    <3>1. /\ UNCHANGED <<status, found>> /\ confirmed' = confirmed \ {block}
          /\ block' = NoBlock
      BY <1>11 DEF BlockRewarded, RewardFails, NextBlock
    <3> QED
      BY <3>1, ConfigAssumption DEF Unrewarded
  <2>2. UNCHANGED awarded /\ stage' = "rewarding" /\ (Fault \/ UNCHANGED <<faults, crashes>>)
    BY <1>1, <1>11 DEF BlockRewarded, RewardFails, NextBlock
  <2> QED
    BY <1>1, <1>2, <2>1, <2>2, AwardKept
<1>12. CASE AllRewarded \/ AllSaved \/ GetPoolBalancesOverThreshold
  BY <1>3, <1>12 DEF AllRewarded, AllSaved, GetPoolBalancesOverThreshold
<1>13. ASSUME NEW b \in Blocks, SaveBlock(b)
       PROVE  AwardInv'
  <2>1. \A a \in Blocks : Unrewarded(a)' => Unrewarded(a)
    BY <1>13 DEF SaveBlock, Unrewarded, BlockInv, TypeOK
  <2> QED
    BY <1>2, <1>13, <2>1, AwardKept DEF SaveBlock
<1>14. ASSUME NEW b \in Blocks, SaveFails(b)
       PROVE  AwardInv'
  <2>1. Interruptions' # Interruptions /\ Interruptions' = Interruptions + 1
    BY <1>1, <1>14, InterruptionsType DEF SaveFails
  <2> QED
    BY <1>1, <1>14, <2>1, AwardKept DEF SaveFails
<1>15. CASE AllSent \/ ResetUpdate
  BY <1>3, <1>15 DEF AllSent, ResetUpdate
<1>16. ASSUME BackToSleep, UNCHANGED awarded, Interruptions' = Interruptions + 1
       PROVE  AwardInv'
  <2>1. Interruptions' # Interruptions
    BY <1>16, InterruptionsType
  <2> QED
    BY <1>16, <2>1, AwardKept DEF BackToSleep
<1>17. CASE PayoutFails \/ Crash
  <2>1. Interruptions' = Interruptions + 1
    BY <1>1, <1>17, InterruptionsType DEF PayoutFails, Crash, Interruptions
  <2> QED
    BY <1>1, <1>16, <1>17, <2>1 DEF PayoutFails, Crash
<1>18. ASSUME NEW c \in Chains, SendManyFails(c)
       PROVE  AwardInv'
  BY <1>1, <1>16, <1>18 DEF SendManyFails
<1>19. CASE AllPaid
  <2>1. \A b \in Blocks : Unrewarded(b)' => Unrewarded(b)
    BY <1>19 DEF AllPaid, BackToSleep, Unrewarded, RoundInv, NothingFound
  <2> QED
    BY <1>2, <1>19, <2>1, AwardKept DEF AllPaid, BackToSleep
<1>20. ASSUME NEW c \in Chains, SendMany(c)
       PROVE  AwardInv'
  BY <1>3, <1>20 DEF SendMany
<1>21. ASSUME NEW k \in Keys, RecordPayment(k)
       PROVE  AwardInv'
  BY <1>3, <1>21 DEF RecordPayment
<1>22. CASE UnlockFails
  BY <1>1, <1>3, <1>22 DEF UnlockFails
<1>23. ASSUME NEW b \in Blocks, ChainDecides(b)
       PROVE  AwardInv'
  BY <1>4, <1>23 DEF ChainDecides
<1>24. CASE UNCHANGED vars
  BY <1>4, <1>24
<1>25. ASSUME NEW b \in Blocks, FindBlock(b)
       PROVE  AwardInv'
  <2>1. /\ status[b] = "none" /\ status' = [status EXCEPT ![b] = "pending"]
        /\ UNCHANGED <<found, confirmed, block, awarded, stage, todo, faults, crashes>>
    BY <1>25 DEF FindBlock, BlockInv
  <2>2. \A a \in Blocks : Unrewarded(a)' => Unrewarded(a)
    BY <2>1 DEF Unrewarded, TypeOK
  <2>3. \A a \in Blocks : Allowance(a)' = Allowance(a)
    BY <1>2, <2>1, AllowanceTypes
  <2> QED
    BY <2>1, <2>2, <2>3 DEF AwardInv, Left
<1> QED
  BY <1>5, <1>6, <1>7, <1>8, <1>9, <1>10, <1>11, <1>12, <1>13, <1>14, <1>15, <1>17, <1>18,
     <1>19, <1>20, <1>21, <1>22, <1>23, <1>24, <1>25
     DEF Next, RunManager, Failure, Environment

LEMMA AwardInvBounds == TypeOK /\ AwardInv => NoDoubleAward
<1> SUFFICES ASSUME TypeOK, AwardInv, NEW b \in Blocks
             PROVE  awarded[b] <= (1 + Interruptions) * Reward[b]
  BY DEF NoDoubleAward
<1>1. awarded[b] <= Allowance(b) + Reward[b]
  BY DEF AwardInv
<1>2. Interruptions \in Nat /\ Reward[b] \in Nat
  BY InterruptionsType, LeftInt
<1>3. \A i, r \in Nat : (1 + i) * r = i * r + r
  OBVIOUS
<1>4. (1 + Interruptions) * Reward[b] = Interruptions * Reward[b] + Reward[b]
  BY <1>2, <1>3
<1> QED
  BY <1>1, <1>4 DEF Allowance

(* A block is never shared out twice: the manager can come back to it only *)
(* when a failure or a crash kept its round from saving it as confirmed,   *)
(* and then at most once more for each.                                    *)
THEOREM AwardedOnce ==
    ASSUME PlansFit
    PROVE  Spec => []NoDoubleAward
<1>1. TypeOK /\ BlockInv /\ RoundInv /\ AwardInv /\ [Next]_vars => AwardInv'
  BY AwardStep
<1> QED
  BY <1>1, TypeCorrect, BlockInit, BlockStep, RoundInit, RoundStep, AwardInit,
     AwardInvBounds, PTL DEF Spec

-----------------------------------------------------------------------------
(* Exact awards.                                                           *)

Share(b) == Reward[b] - KeptByCoinbase(b)
Kept(b) == RewardTo[ChainOf[b]]

\* The round has finished with the block, or an earlier one has.
Done(b) ==
    status[b] = "confirmed" \/ (found[b] = "confirmed" /\ b \notin confirmed)

ExactInv ==
    Interruptions = 0 =>
        \A b \in Blocks :
            /\ Done(b) /\ b \notin MayRefuse => awarded[b] = Share(b)
            /\ stage = "recipients" /\ b = block
                  => awarded[b] + Net(todo, Kept(b)) + Left(b) = Share(b)
            /\ stage = "miners" /\ b = block
                  => awarded[b] + Net(todo, {}) = Share(b)

\* The recipients' credits are what the coinbase kept and what is credited.
LEMMA CreditsAreSplit ==
    ASSUME NEW b \in Blocks
    PROVE  /\ KeptByCoinbase(b) \in Nat /\ Net(PoolCredits(b), Kept(b)) \in Nat
           /\ Net(PoolCredits(b), Kept(b)) + Left(b) = Share(b)
<1> DEFINE s == PoolCredits(b)
           D == DOMAIN s
           kept == {i \in D : s[i].to \in Kept(b)}
           f == [i \in D |-> s[i].amount]
           g == [i \in D |-> NetAmount(s[i], Kept(b))]
           h == [i \in D |-> IF i \in kept THEN f[i] ELSE 0]
           n == [i \in D |-> NetAmount(s[i], {})]
<1>1. s \in Seq(Credits)
  BY PoolCreditsType
<1>2. \A i \in D : f[i] \in Nat
  BY <1>1, CreditAt
<1>3. IsFiniteSet(D) /\ kept \in SUBSET D /\ IsFiniteSet(kept)
  <2>1. IsFiniteSet(D) /\ kept \in SUBSET D
    BY <1>1, CreditAt
  <2> QED
    BY <2>1, FS_Subset
<1>4. \A i \in D : /\ g[i] \in Int /\ h[i] \in Int /\ n[i] = g[i] + h[i] /\ n[i] \in Int
  BY <1>2 DEF NetAmount
<1>5. \A i \in kept : h[i] \in Int /\ f[i] = h[i] /\ f[i] \in Nat
  BY <1>2, <1>4
<1>6. \A i \in D \ kept : h[i] = 0
  OBVIOUS
<1>7. KeptByCoinbase(b) = SumFunctionOnSet(f, kept)
  BY DEF KeptByCoinbase, Kept
<1>8. Net(s, {}) = SumFunctionOnSet(n, D) /\ Net(s, Kept(b)) = SumFunctionOnSet(g, D)
  BY DEF Net
<1> HIDE DEF f, g, h, n, kept, D, s
<1>9. SumFunctionOnSet(n, D) = SumFunctionOnSet(g, D) + SumFunctionOnSet(h, D)
  BY <1>3, <1>4, SumPlus
<1>10. SumFunctionOnSet(h, D) = SumFunctionOnSet(h, kept)
  BY <1>3, <1>5, <1>6, SumOutside
<1>11. SumFunctionOnSet(f, kept) = SumFunctionOnSet(h, kept)
  BY <1>3, <1>5, SumSame
<1>12. SumFunctionOnSet(f, kept) \in Nat
  BY <1>3, <1>5, SumNat
<1>13. Net(s, Kept(b)) \in Nat /\ Net(s, {}) \in Nat
  BY <1>1, NetNat
<1>14. Net(s, {}) = Net(s, Kept(b)) + KeptByCoinbase(b) /\ KeptByCoinbase(b) \in Nat
  BY <1>7, <1>8, <1>9, <1>10, <1>11, <1>12
<1>15. Left(b) = Reward[b] - Net(s, {}) /\ Reward[b] \in Nat
  BY RewardIsSplit, LeftInt DEF Left, s
<1> QED
  BY <1>13, <1>14, <1>15 DEF Share, s

LEMMA ExactInit == Init => ExactInv
<1> SUFFICES ASSUME Init, NEW b \in Blocks
             PROVE  ~Done(b) /\ stage = "sleeping"
  BY DEF ExactInv
<1> QED
  BY DEF Init, Done, NothingFound

LEMMA ExactKept ==
    ASSUME ExactInv, UNCHANGED awarded, stage' \notin {"recipients", "miners"},
           Interruptions' = 0 => Interruptions = 0,
           \A b \in Blocks : Done(b)' => Done(b)
    PROVE  ExactInv'
BY DEF ExactInv, Share, KeptByCoinbase

\* Credit the head of todo.
LEMMA ExactCredit ==
    ASSUME PlansExact, TypeOK, BlockInv, RoundInv, ExactInv, CreditUpdate
    PROVE  ExactInv'
<1>1. /\ block \in Blocks /\ todo # <<>> /\ todo \in Seq(Credits)
      /\ Head(todo).amount \in Nat /\ Tail(todo) \in Seq(Credits)
      /\ awarded' = [awarded EXCEPT ![block] = @ + Head(todo).amount]
      /\ todo' = Tail(todo) /\ Rewarding
      /\ stage = "recipients" => NotPaidByCoinbase(Head(todo))
      /\ UNCHANGED <<status, found, confirmed, block, stage, faults, crashes>>
  BY CreditingType DEF CreditUpdate, Crediting, NoFault, Rewarding, TypeOK
<1>2. Interruptions' = Interruptions
  BY <1>1 DEF Interruptions
<1>3. Net(todo, {}) = Head(todo).amount + Net(todo, {})' /\ Net(todo, {})' \in Nat
  <2>1. Net(todo, {}) = NetAmount(Head(todo), {}) + Net(Tail(todo), {})
    BY <1>1, NetTail
  <2>2. Net(Tail(todo), {}) \in Nat
    BY <1>1, NetNat
  <2> QED
    BY <1>1, <2>1, <2>2 DEF NetAmount
<1>4. stage = "recipients" =>
         /\ Net(todo, Kept(block)) = Head(todo).amount + Net(todo', Kept(block))
         /\ Net(todo', Kept(block)) \in Nat
  <2> SUFFICES ASSUME stage = "recipients"
               PROVE  /\ Net(todo, Kept(block)) = Head(todo).amount + Net(todo', Kept(block))
                      /\ Net(todo', Kept(block)) \in Nat
    OBVIOUS
  <2>1. Head(todo).to \notin Kept(block)
    <3>1. RewardTo[ChainOf[block]] # {Head(todo).to} /\ ChainOf[block] \in Chains
      BY <1>1, ConfigAssumption DEF NotPaidByCoinbase
    <3>2. \A l, m \in RewardTo[ChainOf[block]] : l = m
      BY <3>1 DEF PlansExact
    <3> QED
      BY <3>1, <3>2 DEF Kept
  <2>2. NetAmount(Head(todo), Kept(block)) = Head(todo).amount
    BY <2>1 DEF NetAmount
  <2>3. Net(todo, Kept(block)) = NetAmount(Head(todo), Kept(block)) + Net(Tail(todo), Kept(block))
    BY <1>1, NetTail
  <2>4. Net(Tail(todo), Kept(block)) \in Nat
    BY <1>1, NetNat
  <2> QED
    BY <1>1, <2>2, <2>3, <2>4
<1> SUFFICES ASSUME Interruptions = 0, NEW b \in Blocks
             PROVE  (/\ Done(b) /\ b \notin MayRefuse => awarded[b] = Share(b)
                     /\ stage = "recipients" /\ b = block
                           => awarded[b] + Net(todo, Kept(b)) + Left(b) = Share(b)
                     /\ stage = "miners" /\ b = block
                           => awarded[b] + Net(todo, {}) = Share(b))'
  BY <1>2 DEF ExactInv
<1>5. /\ Done(b) /\ b \notin MayRefuse => awarded[b] = Share(b)
      /\ stage = "recipients" /\ b = block
            => awarded[b] + Net(todo, Kept(b)) + Left(b) = Share(b)
      /\ stage = "miners" /\ b = block
            => awarded[b] + Net(todo, {}) = Share(b)
  BY DEF ExactInv
<1>6. /\ Done(b)' = Done(b) /\ Share(b)' = Share(b) /\ Left(b)' = Left(b) /\ Kept(b)' = Kept(b)
      /\ stage' = stage /\ block' = block /\ awarded[b] \in Nat /\ Left(b) \in Int
  BY <1>1, LeftInt DEF Done, Share, KeptByCoinbase, Left, Kept, TypeOK
<1>7. CASE b = block
  <2>1. awarded'[b] = awarded[b] + Head(todo).amount
    BY <1>1, <1>7 DEF TypeOK
  <2>2. ~Done(b)
    BY <1>1, <1>7 DEF RoundInv, BlockInv, Done
  <2>3. CASE stage = "recipients"
    <3>1. awarded[b] + Net(todo, Kept(b)) + Left(b) = Share(b)
      BY <1>5, <1>7, <2>3
    <3>2. awarded'[b] + Net(todo', Kept(b)) + Left(b) = Share(b)
      BY <1>1, <1>4, <1>6, <1>7, <2>1, <2>3, <3>1
    <3>3. stage' # "miners"
      BY <1>6, <2>3
    <3> QED
      BY <1>6, <2>2, <3>2, <3>3
  <2>4. CASE stage = "miners"
    <3>1. awarded[b] + Net(todo, {}) = Share(b)
      BY <1>5, <1>7, <2>4
    <3>2. awarded'[b] + Net(todo, {})' = Share(b)
      BY <1>1, <1>3, <1>6, <2>1, <3>1
    <3>3. stage' # "recipients"
      BY <1>6, <2>4
    <3> QED
      BY <1>6, <2>2, <3>2, <3>3
  <2> QED
    BY <1>1, <2>3, <2>4 DEF Rewarding
<1>8. CASE b # block
  <2>1. awarded'[b] = awarded[b]
    BY <1>1, <1>8 DEF TypeOK
  <2> QED
    BY <1>5, <1>6, <1>8, <2>1
<1> QED
  BY <1>7, <1>8

LEMMA ExactBegins ==
    ASSUME TypeOK, RoundInv, AwardInv, ExactInv, NEW d \in Blocks, CalculateBlockRewards(d)
    PROVE  ExactInv'
<1>1. /\ d \in confirmed /\ block = NoBlock /\ block' = d /\ d # NoBlock
      /\ todo' = PoolCredits(d) /\ stage' = "recipients"
      /\ UNCHANGED <<status, found, confirmed, awarded, faults, crashes>>
  BY ConfigAssumption DEF CalculateBlockRewards, db, history, RoundInv, Rewarding
<1> SUFFICES ASSUME Interruptions = 0, NEW b \in Blocks
             PROVE  /\ Done(b)' /\ b \notin MayRefuse => awarded'[b] = Share(b)
                    /\ b = d => awarded'[b] + Net(todo', Kept(b)) + Left(b) = Share(b)
  BY <1>1 DEF ExactInv, Interruptions, Share, KeptByCoinbase, Kept, Left
<1>2. Done(b)' = Done(b) /\ awarded' = awarded
  BY <1>1 DEF Done
<1>3. ASSUME b = d
      PROVE  awarded[b] + Net(todo', Kept(b)) + Left(b) = Share(b)
  <2>1. awarded[b] <= Allowance(b)
    BY <1>1, <1>3 DEF AwardInv, Unrewarded
  <2>2. Allowance(b) = 0
    BY LeftInt DEF Allowance
  <2>3. awarded[b] = 0
    BY <2>1, <2>2, AllowanceTypes
  <2> QED
    BY <1>1, <1>3, <2>3, CreditsAreSplit, LeftInt
<1> QED
  BY <1>2, <1>3 DEF ExactInv

LEMMA ExactMiners ==
    ASSUME PlansExact, TypeOK, ExactInv, UpdateMinerBalances
    PROVE  ExactInv'
<1>1. /\ stage = "recipients" /\ stage' = "miners" /\ todo = <<>> /\ block \in Blocks
      /\ todo' \in MinerPlans[block]
      /\ UNCHANGED <<status, found, confirmed, block, awarded, faults, crashes>>
  BY DEF UpdateMinerBalances, db, history, TypeOK
<1> SUFFICES ASSUME Interruptions = 0, NEW b \in Blocks
             PROVE  /\ Done(b)' /\ b \notin MayRefuse => awarded'[b] = Share(b)
                    /\ b = block => awarded'[b] + Net(todo', {}) = Share(b)
  BY <1>1 DEF ExactInv, Interruptions, Share, KeptByCoinbase
<1>2. Done(b)' = Done(b) /\ awarded' = awarded
  BY <1>1 DEF Done
<1>3. ASSUME b = block
      PROVE  awarded[b] + Net(todo', {}) = Share(b)
  <2>1. awarded[b] + Net(todo, Kept(b)) + Left(b) = Share(b)
    BY <1>1, <1>3 DEF ExactInv
  <2>2. Net(todo, Kept(b)) = 0
    BY <1>1, NetEmpty
  <2>3. Net(todo', {}) = Left(b)
    BY <1>1, <1>3 DEF PlansExact
  <2>4. awarded[b] \in Nat /\ Left(b) \in Int
    BY LeftInt DEF TypeOK
  <2> QED
    BY <2>1, <2>2, <2>3, <2>4
<1> QED
  BY <1>2, <1>3 DEF ExactInv

LEMMA ExactRewarded ==
    ASSUME TypeOK, RoundInv, ExactInv, BlockRewarded
    PROVE  ExactInv'
<1>1. /\ stage = "miners" /\ stage' = "rewarding" /\ todo = <<>> /\ block \in Blocks
      /\ confirmed' = confirmed \ {block}
      /\ UNCHANGED <<status, found, awarded, faults, crashes>>
  BY DEF BlockRewarded, NextBlock, db, history, TypeOK
<1> SUFFICES ASSUME Interruptions = 0, NEW b \in Blocks \ MayRefuse, Done(b)'
             PROVE  awarded'[b] = Share(b)
  BY <1>1 DEF ExactInv, Interruptions, Share, KeptByCoinbase
<1>2. CASE b = block
  <2>1. awarded[b] + Net(todo, {}) = Share(b)
    BY <1>1, <1>2 DEF ExactInv
  <2>2. Net(todo, {}) = 0 /\ awarded[b] \in Nat
    BY <1>1, NetEmpty DEF TypeOK
  <2> QED
    BY <1>1, <2>1, <2>2
<1>3. CASE b # block
  <2>1. Done(b)
    BY <1>1, <1>3 DEF Done
  <2> QED
    BY <1>1, <2>1 DEF ExactInv
<1> QED
  BY <1>2, <1>3

\* The coinbase has paid the recipient: nothing of it was to be credited.
LEMMA ExactSkip ==
    ASSUME TypeOK, ExactInv, SkipRecipient
    PROVE  ExactInv'
<1>1. /\ stage = "recipients" /\ stage' = stage /\ todo # <<>> /\ todo \in Seq(Credits)
      /\ Head(todo).to \in Kept(block) /\ todo' = Tail(todo)
      /\ UNCHANGED <<status, found, confirmed, block, awarded, faults, crashes>>
  BY DEF SkipRecipient, PaidByCoinbase, Kept, db, history, TypeOK
<1> SUFFICES ASSUME Interruptions = 0, NEW b \in Blocks
             PROVE  /\ Done(b)' /\ b \notin MayRefuse => awarded'[b] = Share(b)
                    /\ b = block => awarded'[b] + Net(todo', Kept(b)) + Left(b) = Share(b)
  BY <1>1 DEF ExactInv, Interruptions, Share, KeptByCoinbase, Kept, Left
<1>2. Done(b)' = Done(b) /\ awarded' = awarded
  BY <1>1 DEF Done
<1>3. ASSUME b = block
      PROVE  Net(todo', Kept(b)) = Net(todo, Kept(b))
  <2>1. Net(todo, Kept(b)) = NetAmount(Head(todo), Kept(b)) + Net(Tail(todo), Kept(b))
    BY <1>1, NetTail
  <2>2. NetAmount(Head(todo), Kept(b)) = 0
    BY <1>1, <1>3 DEF NetAmount
  <2>3. Net(Tail(todo), Kept(b)) \in Nat
    <3>1. Tail(todo) \in Seq(Credits)
      BY <1>1, HeadTailProperties
    <3> QED
      BY <3>1, NetNat
  <2> QED
    BY <1>1, <2>1, <2>2, <2>3
<1> QED
  BY <1>1, <1>2, <1>3 DEF ExactInv

\* The scheme refuses: the round goes on without the miners' awards.
LEMMA ExactRefused ==
    ASSUME TypeOK, ExactInv, NextBlock, UNCHANGED history,
           stage = "recipients", block \in MayRefuse
    PROVE  ExactInv'
<1>1. /\ stage' = "rewarding" /\ confirmed' = confirmed \ {block}
      /\ UNCHANGED <<status, found, awarded, faults, crashes>>
  BY DEF NextBlock, db, history
<1>2. ASSUME NEW b \in Blocks \ MayRefuse, Done(b)'
      PROVE  Done(b)
  BY <1>1, <1>2 DEF Done
<1> QED
  BY <1>1, <1>2 DEF ExactInv, Interruptions, Share, KeptByCoinbase

LEMMA ExactStep ==
    ASSUME PlansExact
    PROVE  /\ TypeOK /\ BlockInv /\ RoundInv /\ AwardInv /\ ExactInv /\ [Next]_vars
           => ExactInv'
<1> SUFFICES ASSUME TypeOK, BlockInv, RoundInv, AwardInv, ExactInv, [Next]_vars
             PROVE  ExactInv'
  OBVIOUS
<1> USE DEF vars, db, chain, locals, history
<1>1. Fault \/ Crash => Interruptions' # 0
  BY InterruptionsType DEF Interruptions, Fault, Crash
<1>2. UNCHANGED <<faults, crashes>> => Interruptions' = Interruptions
  BY DEF Interruptions
<1>3. ASSUME Interruptions' # 0
      PROVE  ExactInv'
  BY <1>3 DEF ExactInv
<1>4. ASSUME UNCHANGED <<status, found, confirmed, block, awarded, stage, todo, faults, crashes>>
      PROVE  ExactInv'
  BY <1>2, <1>4 DEF ExactInv, Done, Share, KeptByCoinbase, Kept, Left
<1>5. ASSUME UNCHANGED <<status, found, confirmed, awarded, faults, crashes>>,
             stage' \notin {"recipients", "miners"}
      PROVE  ExactInv'
  BY <1>2, <1>5, ExactKept DEF Done
<1>6. CASE CreditUpdate
  BY <1>6, ExactCredit
<1>7. CASE UpdateMinerBalances
  BY <1>7, ExactMiners
<1>8. ASSUME NEW b \in Blocks, CalculateBlockRewards(b)
      PROVE  ExactInv'
  BY <1>8, ExactBegins
<1>9. CASE SkipRecipient
  BY <1>9, ExactSkip
<1>10. CASE BlockRewarded
  BY <1>10, ExactRewarded
<1>11. CASE CreditInsert \/ ResetInsert
  BY <1>4, <1>11 DEF CreditInsert, ResetInsert
<1>12. CASE UnlockBlocks
  <2>1. \A b \in Blocks : Done(b)' => Done(b)
    BY <1>12 DEF UnlockBlocks, Done, Pending
  <2> QED
    BY <1>2, <1>12, <2>1, ExactKept DEF UnlockBlocks
<1>13. CASE RewardFails
  <2>1. CASE Fault
    BY <1>1, <1>3, <2>1
  <2>2. CASE ~Fault
    <3>1. /\ NextBlock /\ stage = "recipients" /\ block \in MayRefuse
          /\ UNCHANGED history
      BY <1>13, <2>2 DEF RewardFails
    <3> QED
      BY <3>1, ExactRefused
  <2> QED
    BY <2>1, <2>2
<1>14. ASSUME NEW b \in Blocks, SaveBlock(b)
       PROVE  ExactInv'
  <2>1. \A a \in Blocks : Done(a)' => Done(a)
    BY <1>14 DEF SaveBlock, Done, RoundInv, TypeOK
  <2> QED
    BY <1>2, <1>14, <2>1, ExactKept DEF SaveBlock
<1>15. ASSUME NEW b \in Blocks, FindBlock(b)
       PROVE  ExactInv'
  <2>1. /\ status' = [status EXCEPT ![b] = "pending"]
        /\ UNCHANGED <<found, confirmed, block, awarded, stage, todo, faults, crashes>>
    BY <1>15 DEF FindBlock
  <2>2. \A a \in Blocks : Done(a)' => Done(a)
    BY <2>1 DEF Done, TypeOK
  <2> QED
    BY <1>2, <2>1, <2>2 DEF ExactInv, Share, KeptByCoinbase, Kept, Left
<1>16. CASE AllRewarded \/ AllSaved \/ GetPoolBalancesOverThreshold \/ AllSent \/ ResetUpdate
  BY <1>5, <1>16
     DEF AllRewarded, AllSaved, GetPoolBalancesOverThreshold, AllSent, ResetUpdate
<1>17. CASE AllPaid
  <2>1. \A b \in Blocks : Done(b)' => Done(b)
    BY <1>17 DEF AllPaid, BackToSleep, Done, NothingFound
  <2> QED
    BY <1>2, <1>17, <2>1, ExactKept DEF AllPaid, BackToSleep
<1>18. CASE PayoutFails \/ Crash
  BY <1>1, <1>3, <1>18 DEF PayoutFails
<1>19. ASSUME NEW c \in Chains, SendManyFails(c)
       PROVE  ExactInv'
  BY <1>1, <1>3, <1>19 DEF SendManyFails
<1>20. ASSUME NEW b \in Blocks, SaveFails(b)
       PROVE  ExactInv'
  BY <1>1, <1>3, <1>20 DEF SaveFails
<1>21. CASE UnlockFails
  BY <1>1, <1>3, <1>4, <1>21 DEF UnlockFails
<1>22. ASSUME NEW c \in Chains, SendMany(c)
       PROVE  ExactInv'
  BY <1>5, <1>22 DEF SendMany
<1>23. ASSUME NEW k \in Keys, RecordPayment(k)
       PROVE  ExactInv'
  BY <1>5, <1>23 DEF RecordPayment
<1>24. ASSUME NEW b \in Blocks, ChainDecides(b)
       PROVE  ExactInv'
  BY <1>4, <1>24 DEF ChainDecides
<1>25. CASE UNCHANGED vars
  BY <1>4, <1>25
<1> QED
  BY <1>6, <1>7, <1>8, <1>9, <1>10, <1>11, <1>12, <1>13, <1>14, <1>15, <1>16, <1>17,
     <1>18, <1>19, <1>20, <1>21, <1>22, <1>23, <1>24, <1>25
     DEF Next, RunManager, Failure, Environment

(* Until something fails, a block saved as confirmed has been shared out   *)
(* in full, unless the scheme refused it: its recipients and miners have   *)
(* got all that the coinbase did not keep for a recipient, and nothing is  *)
(* credited after it is saved (manager.go:35-50).                          *)
THEOREM ConfirmedInFull ==
    ASSUME PlansFit, PlansExact
    PROVE  Spec => []ConfirmedIsAwarded
<1>1. TypeOK /\ BlockInv /\ RoundInv /\ AwardInv /\ [Next]_vars => AwardInv'
  BY AwardStep
<1>2. /\ TypeOK /\ BlockInv /\ RoundInv /\ AwardInv /\ ExactInv /\ [Next]_vars
      => ExactInv'
  BY ExactStep
<1>3. ExactInv => ConfirmedIsAwarded
  BY DEF ExactInv, ConfirmedIsAwarded, Done, Share
<1> QED
  BY <1>1, <1>2, <1>3, TypeCorrect, BlockInit, BlockStep, RoundInit, RoundStep, AwardInit,
     ExactInit, PTL DEF Spec

\* The SOLO scheme awards exactly what is left: with recipients that leave
\* something, PlansFit and the plans of PlansExact hold of it.
LEMMA SoloIsExact ==
    ASSUME NEW miner \in Logins, NEW remaining \in Nat
    PROVE  Net(SoloPlan(miner, remaining), {}) = remaining
<1> DEFINE s == SoloPlan(miner, remaining)
<1>1. s \in Seq(Credits) /\ s # <<>> /\ Head(s).amount = remaining /\ Tail(s) = <<>>
  BY DEF SoloPlan, Credits
<1>2. NetAmount(Head(s), {}) = remaining
  BY <1>1 DEF NetAmount
<1> HIDE DEF s
<1>3. Net(s, {}) = NetAmount(Head(s), {}) + Net(Tail(s), {})
  BY <1>1, NetTail
<1>4. Net(Tail(s), {}) = 0
  BY <1>1, NetEmpty
<1>5. Net(s, {}) = remaining
  BY <1>2, <1>3, <1>4
<1> QED
  BY <1>5 DEF s

=============================================================================
