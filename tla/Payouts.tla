------------------------------ MODULE Payouts ------------------------------
(***************************************************************************)
(* The payout manager (payouts/manager.go, unlock.go, rewards.go,          *)
(* payer.go) over the ledger tables it writes (persistence/found.go,       *)
(* balance.go, payment.go) and the coin daemons it asks (rpc/).            *)
(*                                                                         *)
(* One goroutine runs the round                                            *)
(*   sleep; unlockBlocks; reward each confirmed block; save every block;   *)
(*   payoutBalances                                                        *)
(* forever.  Every database statement and every SendMany is a step of its  *)
(* own, may fail, and the process may crash between any two of them.  The  *)
(* pool server inserts found blocks and the chains decide their fate at    *)
(* any time.                                                               *)
(***************************************************************************)
EXTENDS Integers, Sequences, FiniteSets, Functions, PayoutSchemes

CONSTANTS
    ChainOrder,     \* config.BlockChainOrder: a sequence of chain names
    Logins,         \* balances.address: sequences of pay addresses, one per
                    \*   chain ("A-B-C" split at "-"), or of length one
    Addresses,      \* pay addresses
    Blocks,         \* rows of the blocks table
    NoBlock,        \* not a block
    ChainOf,        \* [Blocks -> Chains]
    Reward,         \* [Blocks -> Nat], the coinbase amount the wallet reports
    Recipients,     \* PoolRewardRecipients: [Chains -> Seq([to, percent])]
    RewardTo,       \* [Chains -> SUBSET Logins], rewardTo of the chain's nodes
    MinerPlans,     \* [Blocks -> SUBSET Seq([to, amount])]: what the payout
                    \*   scheme may award, in the order it credits
    MayRefuse,      \* blocks for which the scheme may return its overflow error
    Minimum,        \* [Chains -> Nat], MinerMinimumPayment
    Fates,          \* what may become of an immature block
    Setting,        \* [Logins -> Nat], miner_settings.paymentthreshold, 0: none
    MaxFaults,      \* bound on failing statements and RPCs
    MaxCrashes      \* bound on process crashes

Chains == Range(ChainOrder)
Keys == Chains \X Logins            \* primary key of the balances table
Statuses == {"none", "pending", "confirmed", "orphaned"}
Credits == [to : Logins, amount : Nat]

\* COALESCE(ms.paymentthreshold, $3) of GetPoolBalancesOverThreshold
Threshold(k) == IF Setting[k[2]] # 0 THEN Setting[k[2]] ELSE Minimum[k[1]]

ChainRank(c) == CHOOSE i \in DOMAIN ChainOrder : ChainOrder[i] = c

\* findBalanceAddress: the part of the login that belongs to the chain
PayAddress(k) == IF Len(k[2]) = 1 THEN k[2][1] ELSE k[2][ChainRank(k[1])]

PoolCredits(b) == RecipientCredits(Reward[b], Recipients[ChainOf[b]])

ASSUME ConfigAssumption ==
    /\ IsInjective(ChainOrder)
    /\ NoBlock \notin Blocks
    /\ ChainOf \in [Blocks -> Chains]
    /\ Reward \in [Blocks -> Nat]
    /\ Recipients \in [Chains -> Seq([to : Logins, percent : Nat])]
    /\ RewardTo \in [Chains -> SUBSET Logins]
    /\ Fates \subseteq {"generate", "orphan", "unknown"}
    /\ MaxFaults \in Nat /\ MaxCrashes \in Nat

\* What the payout scheme awards is never negative.
ASSUME PlansAssumption == \A b \in Blocks : MinerPlans[b] \subseteq Seq(Credits)

\* A payment threshold is positive: with a zero one every round would send
\* zero amounts, which the wallets refuse.
ASSUME ThresholdAssumption ==
    \A k \in Keys : Threshold(k) \in Nat \ {0}

\* Logins have an address for every chain (mining.authorize checks that).
ASSUME LoginAssumption == \A k \in Keys : PayAddress(k) \in Addresses

\* The tables hold finitely many rows.
ASSUME FiniteAssumption ==
    IsFiniteSet(Keys) /\ IsFiniteSet(Addresses) /\ IsFiniteSet(Blocks)

VARIABLES
    \* the database
    status,     \* blocks.status; "none": no row yet
    balance,    \* balances.amount
    changes,    \* sum of balance_changes.amount
    payments,   \* sum of payments.amount, by chain and pay address
    \* the coin daemons
    remote,     \* what the chain will say of a block
    sent,       \* what the wallet has paid, by chain and pay address
    \* locals of the manager goroutine
    stage,      \* where it is
    found,      \* working copy of the pending blocks; "none": not in it
    confirmed,  \* GetConfirmed() still to be rewarded
    block,      \* the one being rewarded
    todo,       \* credits left of the block being rewarded
    half,       \* AddAmount has inserted the change, not yet the balance
    due,        \* amounts read by payoutBalances; 0: not selected or paid
    unsent,     \* chains still to be sent
    payee,      \* the balance being recorded and reset
    \* history
    awarded,    \* amount added to balances for each block
    faults,     \* failures so far
    crashes     \* crashes so far

db == <<status, balance, changes, payments>>
chain == <<remote, sent>>
locals == <<found, confirmed, block, todo, half, due, unsent, payee>>
history == <<awarded, faults, crashes>>
vars == <<db, chain, stage, locals, history>>

NoPayee == <<>>
NothingDue == [k \in Keys |-> 0]
NothingFound == [b \in Blocks |-> "none"]
PerAddress == [c \in Chains |-> [a \in Addresses |-> 0]]

Init ==
    /\ status = NothingFound
    /\ balance = NothingDue
    /\ changes = NothingDue
    /\ payments = PerAddress
    /\ remote = [b \in Blocks |-> "none"]
    /\ sent = PerAddress
    /\ stage = "sleeping"
    /\ found = NothingFound
    /\ confirmed = {}
    /\ block = NoBlock
    /\ todo = <<>>
    /\ half = FALSE
    /\ due = NothingDue
    /\ unsent = {}
    /\ payee = NoPayee
    /\ awarded = [b \in Blocks |-> 0]
    /\ faults = 0
    /\ crashes = 0

-----------------------------------------------------------------------------
(* The environment: the pool server records a submitted block, the chain   *)
(* lets it mature or orphans it.                                           *)

FindBlock(b) ==
    /\ remote[b] = "none"
    /\ remote' = [remote EXCEPT ![b] = "immature"]
    /\ status' = [status EXCEPT ![b] = "pending"]
    /\ UNCHANGED <<balance, changes, payments, sent, stage, locals, history>>

\* A block matures or falls off the best chain, and a reorganisation can
\* bring it back.
ChainDecides(b) ==
    /\ \/ /\ remote[b] = "immature"
          /\ \E fate \in Fates : remote' = [remote EXCEPT ![b] = fate]
       \/ /\ remote[b] = "orphan"
          /\ remote' = [remote EXCEPT ![b] = "immature"]
    /\ UNCHANGED <<db, sent, stage, locals, history>>

-----------------------------------------------------------------------------
(* Failures. *)

\* A statement or an RPC fails, within the bound.
Fault ==
    /\ faults < MaxFaults
    /\ faults' = faults + 1
    /\ UNCHANGED <<awarded, crashes>>

NoFault == UNCHANGED <<faults, crashes>>

\* The manager drops what it was doing: locals go out of scope.
BackToSleep ==
    /\ stage' = "sleeping"
    /\ found' = NothingFound
    /\ confirmed' = {}
    /\ block' = NoBlock
    /\ todo' = <<>>
    /\ half' = FALSE
    /\ due' = NothingDue
    /\ unsent' = {}
    /\ payee' = NoPayee

\* The process dies and is started again; only the database survives.
Crash ==
    /\ stage # "sleeping"
    /\ crashes < MaxCrashes
    /\ crashes' = crashes + 1
    /\ BackToSleep
    /\ UNCHANGED <<db, chain, awarded, faults>>

-----------------------------------------------------------------------------
(* unlockBlocks: read the pending blocks and classify each by the category *)
(* the wallet reports for its coinbase.                                    *)

\* PendingBlocksForPool
PendingMutant1 == {b \in Blocks : status[b] \in {"pending", "confirmed"}}
PendingMutant2 == {b \in Blocks : status[b] \in {"pending", "orphaned"}}
Pending == {b \in Blocks : status[b] = "pending"}

ClassifyMutant1(b) ==       \* stores the wallet's word for it
    remote[b]
ClassifyMutant2(b) ==       \* takes an immature coinbase for a spendable one
    IF remote[b] = "orphan" THEN "orphaned" ELSE "confirmed"
ClassifyMutant3(b) ==       \* case "generate" forgets to set the status
    IF remote[b] = "orphan" THEN "orphaned" ELSE "pending"
Classify(b) ==
    CASE remote[b] = "immature" -> "pending"
      [] remote[b] = "generate" -> "confirmed"
      [] OTHER                  -> "orphaned"

UnlockBlocks ==
    /\ stage = "sleeping"
    /\ \A b \in Pending : remote[b] # "unknown"
    /\ found' = [b \in Blocks |-> IF b \in Pending THEN Classify(b) ELSE "none"]
    /\ confirmed' = {b \in Pending : Classify(b) = "confirmed"}
    /\ stage' = "rewarding"
    /\ UNCHANGED <<db, chain, block, todo, half, due, unsent, payee, history>>

\* One block the daemon does not know, or whose coinbase differs ("Likely an
\* orphan"), and the whole round is skipped; so it is when an RPC or a query fails.
UnlockFails ==
    /\ stage = "sleeping"
    /\ \/ /\ \E b \in Pending : remote[b] = "unknown"
          /\ UNCHANGED history
       \/ Fault
    /\ UNCHANGED <<db, chain, stage, locals>>

-----------------------------------------------------------------------------
(* Balances.AddAmount: two statements, no transaction.  GetBalance between *)
(* them only chooses between INSERT and UPDATE of the row; the manager is  *)
(* the only writer of the table.                                           *)

InsertChangeMutant(k, amount) ==    \* no journal entry
    ~half /\ half' = TRUE /\ changes' = changes
InsertChange(k, amount) ==
    /\ ~half
    /\ half' = TRUE
    /\ changes' = [changes EXCEPT ![k] = @ + amount]

UpdateBalanceMutant(k, amount) ==   \* SET amount = $1
    half /\ half' = FALSE /\ balance' = [balance EXCEPT ![k] = amount]
UpdateBalance(k, amount) ==
    /\ half
    /\ half' = FALSE
    /\ balance' = [balance EXCEPT ![k] = @ + amount]

-----------------------------------------------------------------------------
(* calculateBlockRewards: the pool's recipients, then the payout scheme.   *)

CalculateBlockRewards(b) ==
    /\ stage = "rewarding"
    /\ b \in confirmed
    /\ block' = b
    /\ todo' = PoolCredits(b)
    /\ stage' = "recipients"
    /\ UNCHANGED <<db, chain, found, confirmed, half, due, unsent, payee, history>>

\* The recipient's address is where the active node's coinbase already pays;
\* which node is active may change while the loop runs.
PaidByCoinbaseMutant(c) == TRUE
PaidByCoinbase(c) == c.to \in RewardTo[ChainOf[block]]
NotPaidByCoinbase(c) == RewardTo[ChainOf[block]] # {c.to}

SkipRecipient ==
    /\ stage = "recipients" /\ todo # <<>> /\ ~half
    /\ PaidByCoinbase(Head(todo))
    /\ todo' = Tail(todo)
    /\ UNCHANGED <<db, chain, stage, found, confirmed, block, half, due, unsent, payee,
                   history>>

\* The head of todo is to be credited.
Crediting ==
    /\ todo # <<>>
    /\ \/ stage = "recipients" /\ NotPaidByCoinbase(Head(todo))
       \/ stage = "miners"

CreditKey == <<ChainOf[block], Head(todo).to>>

CreditInsert ==
    /\ Crediting
    /\ InsertChange(CreditKey, Head(todo).amount)
    /\ UNCHANGED <<status, balance, payments, chain, stage, found, confirmed,
                   block, todo, due, unsent, payee, history>>

CreditUpdate ==
    /\ Crediting
    /\ UpdateBalance(CreditKey, Head(todo).amount)
    /\ awarded' = [awarded EXCEPT ![block] = @ + Head(todo).amount]
    /\ todo' = Tail(todo)
    /\ NoFault
    /\ UNCHANGED <<status, changes, payments, chain, stage, found, confirmed,
                   block, due, unsent, payee>>

\* payoutScheme.UpdateMinerBalances decides all awards before it credits one.
UpdateMinerBalances ==
    /\ stage = "recipients" /\ todo = <<>>
    /\ todo' \in MinerPlans[block]
    /\ stage' = "miners"
    /\ UNCHANGED <<db, chain, found, confirmed, block, half, due, unsent, payee, history>>

\* The loop in RunManager goes on to the next confirmed block.
NextBlock ==
    /\ confirmed' = confirmed \ {block}
    /\ block' = NoBlock
    /\ todo' = <<>>
    /\ half' = FALSE
    /\ stage' = "rewarding"
    /\ UNCHANGED <<db, chain, found, due, unsent, payee>>

\* DeleteSharesBefore, success or not, touches none of these tables.
BlockRewarded ==
    /\ stage = "miners" /\ todo = <<>>
    /\ NextBlock
    /\ UNCHANGED history

\* An error of AddAmount, in either statement, or the scheme's overflow
\* error is logged and the block left as it is.
RewardFails ==
    /\ \/ Crediting /\ Fault
       \/ /\ stage = "recipients" /\ todo = <<>> /\ block \in MayRefuse
          /\ UNCHANGED history
    /\ NextBlock

AllRewarded ==
    /\ stage = "rewarding" /\ confirmed = {}
    /\ stage' = "saving"
    /\ UNCHANGED <<db, chain, locals, history>>

-----------------------------------------------------------------------------
(* Save block updates: every block of the working copy, in slice order.    *)

SaveBlock(b) ==
    /\ stage = "saving"
    /\ found[b] # "none"
    /\ status' = [status EXCEPT ![b] = found[b]]
    /\ found' = [found EXCEPT ![b] = "none"]
    /\ UNCHANGED <<balance, changes, payments, chain, stage, confirmed, block,
                   todo, half, due, unsent, payee, history>>

SaveFails(b) ==
    /\ stage = "saving"
    /\ found[b] # "none"
    /\ Fault
    /\ found' = [found EXCEPT ![b] = "none"]
    /\ UNCHANGED <<db, chain, stage, confirmed, block, todo, half, due, unsent, payee>>

AllSaved ==
    /\ stage = "saving" /\ found = NothingFound
    /\ stage' = "paying"
    /\ UNCHANGED <<db, chain, locals, history>>

-----------------------------------------------------------------------------
(* payoutBalances. *)

IsDueMutant(k) == balance[k] > Threshold(k)
IsDue(k) == balance[k] >= Threshold(k)

AmountDueMutant(k) == IF IsDue(k) THEN Threshold(k) ELSE 0
AmountDue(k) == IF IsDue(k) THEN balance[k] ELSE 0

GetPoolBalancesOverThreshold ==
    /\ stage = "paying"
    /\ due' = [k \in Keys |-> AmountDue(k)]
    /\ unsent' = {c \in Chains : \E k \in Keys : k[1] = c /\ IsDue(k)}
    /\ stage' = "sending"
    /\ UNCHANGED <<db, chain, found, confirmed, block, todo, half, payee, history>>

\* The map address -> amount of one chain.  A later balance with the same pay
\* address overwrites an earlier one, in the order the query returned them.
TransactionsMutant(c) ==    \* does not group by chain
    {[a \in Addresses |->
        SumFunctionOnSet(due, {k \in Keys : PayAddress(k) = a})]}
Transactions(c) ==
    LET payees(a) == {k \in Keys : k[1] = c /\ due[k] # 0 /\ PayAddress(k) = a}
    IN  {t \in [Addresses -> {0} \cup {due[k] : k \in Keys}] :
            \A a \in Addresses :
                IF payees(a) = {} THEN t[a] = 0
                                  ELSE \E k \in payees(a) : t[a] = due[k]}

PayOut(c) ==
    \E t \in Transactions(c) :
        sent' = [sent EXCEPT ![c] = [a \in Addresses |-> @[a] + t[a]]]

\* One sendmany per chain, in the order of a Go map.
SendMany(c) ==
    /\ stage = "sending"
    /\ c \in unsent
    /\ PayOut(c)
    /\ unsent' = unsent \ {c}
    /\ UNCHANGED <<db, remote, stage, found, confirmed, block, todo, half, due,
                   payee, history>>

\* An error on one chain ends payoutBalances.  When it is a timeout the
\* wallet may have paid all the same.
SendManyFailsMutant(c) ==   \* goes on as if it had been sent
    /\ stage = "sending"
    /\ c \in unsent
    /\ Fault
    /\ unsent' = unsent \ {c}
    /\ UNCHANGED <<db, chain, stage, found, confirmed, block, todo, half, due,
                   payee>>
SendManyFails(c) ==
    /\ stage = "sending"
    /\ c \in unsent
    /\ Fault
    /\ sent' = sent \/ PayOut(c)
    /\ BackToSleep
    /\ UNCHANGED <<db, remote>>

AllSent ==
    /\ stage = "sending" /\ unsent = {}
    /\ stage' = "recording"
    /\ UNCHANGED <<db, chain, locals, history>>

\* Payments.Insert, balances in chain order and then as the query gave them.
RecordPayment(k) ==
    /\ stage = "recording"
    /\ due[k] # 0
    /\ \A j \in Keys : due[j] # 0 => ChainRank(k[1]) <= ChainRank(j[1])
    /\ payments' = [payments EXCEPT ![k[1]][PayAddress(k)] = @ + due[k]]
    /\ payee' = k
    /\ stage' = "resetting"
    /\ UNCHANGED <<status, balance, changes, chain, found, confirmed, block,
                   todo, half, due, unsent, history>>

\* AddAmount(..., balance.Amount*-1)
ResetInsert ==
    /\ stage = "resetting"
    /\ InsertChange(payee, -due[payee])
    /\ UNCHANGED <<status, balance, payments, chain, stage, found, confirmed,
                   block, todo, due, unsent, payee, history>>

ResetUpdate ==
    /\ stage = "resetting"
    /\ UpdateBalance(payee, -due[payee])
    /\ due' = [due EXCEPT ![payee] = 0]
    /\ payee' = NoPayee
    /\ stage' = "recording"
    /\ UNCHANGED <<status, changes, payments, chain, found, confirmed, block,
                   todo, unsent, history>>

\* The query, Payments.Insert or AddAmount failed: payoutBalances returns.
PayoutFails ==
    /\ \/ stage \in {"paying", "resetting"}
       \/ stage = "recording" /\ due # NothingDue
    /\ Fault
    /\ BackToSleep
    /\ UNCHANGED <<db, chain>>

AllPaid ==
    /\ stage = "recording" /\ due = NothingDue
    /\ BackToSleep
    /\ UNCHANGED <<db, chain, history>>

-----------------------------------------------------------------------------

RunManager ==
    \/ UnlockBlocks
    \/ \E b \in Blocks : CalculateBlockRewards(b)
    \/ SkipRecipient \/ CreditInsert \/ CreditUpdate
    \/ UpdateMinerBalances
    \/ BlockRewarded
    \/ AllRewarded
    \/ \E b \in Blocks : SaveBlock(b)
    \/ AllSaved
    \/ GetPoolBalancesOverThreshold
    \/ \E c \in Chains : SendMany(c)
    \/ AllSent
    \/ \E k \in Keys : RecordPayment(k)
    \/ ResetInsert \/ ResetUpdate
    \/ AllPaid

Failure ==
    \/ UnlockFails
    \/ RewardFails
    \/ \E b \in Blocks : SaveFails(b)
    \/ \E c \in Chains : SendManyFails(c)
    \/ PayoutFails
    \/ Crash

Environment == \E b \in Blocks : FindBlock(b) \/ ChainDecides(b)

Next == RunManager \/ Failure \/ Environment

Spec == Init /\ [][Next]_vars

\* The goroutine keeps running: Go schedules it, the sleep ends, calls return.
FairSpec == Spec /\ WF_vars(RunManager)

-----------------------------------------------------------------------------
(* Properties. *)

Stages == {"sleeping", "rewarding", "recipients", "miners", "saving", "paying",
           "sending", "recording", "resetting"}

TypeOK ==
    /\ status \in [Blocks -> Statuses]
    /\ balance \in [Keys -> Int]
    /\ changes \in [Keys -> Int]
    /\ payments \in [Chains -> [Addresses -> Nat]]
    /\ remote \in [Blocks -> {"none", "immature"} \cup Fates]
    /\ sent \in [Chains -> [Addresses -> Nat]]
    /\ stage \in Stages
    /\ found \in [Blocks -> Statuses]
    /\ confirmed \in SUBSET Blocks
    /\ block \in Blocks \cup {NoBlock}
    /\ stage \in {"recipients", "miners"} => block \in Blocks
    /\ todo \in Seq(Credits)
    /\ half \in BOOLEAN
    /\ due \in [Keys -> Nat]
    /\ unsent \in SUBSET Chains
    /\ payee \in Keys \cup {NoPayee}
    /\ stage = "resetting" => payee \in Keys
    /\ awarded \in [Blocks -> Nat]
    /\ faults \in 0..MaxFaults
    /\ crashes \in 0..MaxCrashes

Interruptions == faults + crashes

\* Paying a balance never overdraws it: the amount that payoutBalances read
\* some steps ago is still there when the balance is reset, whatever failed
\* or crashed in between.
BalancesNeverNegative == \A k \in Keys : balance[k] >= 0

\* "Reset Balance" (payer.go:62): a balance only ever goes down to zero.
DebitsResetBalance ==
    [][\A k \in Keys : balance'[k] < balance[k] => balance'[k] = 0]_vars

\* The journal balance_changes and the balances table differ on at most one
\* key for each failure or crash, plus the one AddAmount is in the middle of.
JournalAgrees ==
    LET torn == {k \in Keys : changes[k] # balance[k]}
    IN  Cardinality(torn) <= Interruptions + (IF half THEN 1 ELSE 0)

\* A block is never awarded more than its reward, except once more for each
\* round that a failure or crash kept from saving it as confirmed.
NoDoubleAward ==
    \A b \in Blocks : awarded[b] <= (1 + Interruptions) * Reward[b]

\* What the coinbase has paid the recipients directly.
KeptByCoinbase(b) ==
    LET credits == PoolCredits(b)
        kept == {i \in DOMAIN credits : credits[i].to \in RewardTo[ChainOf[b]]}
    IN  SumFunctionOnSet([i \in DOMAIN credits |-> credits[i].amount], kept)

\* Without failures and crashes a block saved as confirmed, which the scheme
\* did not refuse, has been shared out in full, but for what the coinbase paid.
ConfirmedIsAwarded ==
    \A b \in Blocks \ MayRefuse :
        status[b] = "confirmed" /\ Interruptions = 0
            => awarded[b] = Reward[b] - KeptByCoinbase(b)

\* Money is only credited for blocks the wallet can spend.
AwardedIsMature ==
    \A b \in Blocks : awarded[b] > 0 => remote[b] = "generate"

\* Once decided, the status of a block is final, although the manager writes
\* it from a copy it took a round earlier.
StatusIsFinal ==
    [][\A b \in Blocks : status[b] \in {"confirmed", "orphaned"}
                            => status'[b] = status[b]]_vars

\* What the wallet paid out of one chain is covered by the awards of its
\* blocks; each interrupted payout lets one more batch through.
Total(f) == SumFunctionOnSet(f, DOMAIN f)
Awards(c) == SumFunctionOnSet(awarded, {b \in Blocks : ChainOf[b] = c})
PaymentsAreCovered ==
    \A c \in Chains : Total(sent[c]) <= (1 + Interruptions) * Awards(c)

\* Without a failure the payments table is what the wallet sent, except the
\* batch that has been sent and is being recorded.
ToRecord(c, a) ==
    LET rest == {k \in Keys : k[1] = c /\ PayAddress(k) = a /\ k # payee}
    IN  IF c \in unsent \/ stage \notin {"sending", "recording", "resetting"}
        THEN 0 ELSE SumFunctionOnSet(due, rest)
SentIsRecorded ==
    \A c \in Chains, a \in Addresses :
        Interruptions = 0 => sent[c][a] = payments[c][a] + ToRecord(c, a)

\* Nothing is recorded in the payments table that the wallet has not sent,
\* as long as no two logins of a chain share a pay address.
RecordedIsSent ==
    \A c \in Chains, a \in Addresses : payments[c][a] <= sent[c][a]

\* "Reset Balance" (payer.go:62) after "Send payments" (payer.go:30): what has
\* been paid cannot be paid again, so no chain pays out more than was awarded.
NoDoublePayment == \A c \in Chains : Total(sent[c]) <= Awards(c)

\* A block that has matured does not stay pending, whatever failed on the way.
\* It may still end up orphaned: a copy taken while a reorganisation had it
\* off the best chain is saved after the chain took it back.
MatureIsDecided ==
    \A b \in Blocks :
        status[b] = "pending" /\ remote[b] = "generate"
            ~> status[b] \in {"confirmed", "orphaned"}

\* "Likely an orphan" (unlock.go:62), of a block whose coinbase is not the one
\* the chain has at that hash: it is orphaned in the end.
LikelyOrphanIsOrphaned ==
    \A b \in Blocks :
        status[b] = "pending" /\ remote[b] = "unknown" ~> status[b] = "orphaned"

\* A balance that has reached its threshold is paid in the end.
DueIsPaid == \A k \in Keys : balance[k] >= Threshold(k) ~> balance[k] = 0

-----------------------------------------------------------------------------
(* What a configuration has to satisfy for some of the properties to hold, *)
(* whatever its chains, blocks and logins are.                             *)

\* What credits add up to when those to a login in kept are left out.
NetAmount(credit, kept) == IF credit.to \in kept THEN 0 ELSE credit.amount
Net(s, kept) ==
    SumFunctionOnSet([i \in DOMAIN s |-> NetAmount(s[i], kept)], DOMAIN s)

\* The recipients' percentages leave something for the miners, and the payout
\* scheme awards no more than that.
Left(b) == RemainingReward(Reward[b], Recipients[ChainOf[b]])
PlansFit ==
    \A b \in Blocks : /\ Left(b) >= 0
                      /\ \A p \in MinerPlans[b] : Net(p, {}) <= Left(b)

\* The scheme hands out all that is left, and the nodes of a chain pay their
\* coinbase to one login at most.
PlansExact ==
    /\ \A b \in Blocks : \A p \in MinerPlans[b] : Net(p, {}) = Left(b)
    /\ \A c \in Chains : \A l, m \in RewardTo[c] : l = m

\* No two logins have the same pay address on a chain.
DistinctAddresses ==
    \A j, k \in Keys : j[1] = k[1] /\ PayAddress(j) = PayAddress(k) => j = k

=============================================================================
