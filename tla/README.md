# Merged mining pool: TLA+ models, model checking and proofs

This directory holds the specification of the pool in `src/`: TLA+ modules
translated from the Go code, TLC configurations that check them on small
instances, and proofs checked by TLAPS.  `PROJECT.json` lists, for a tool, the
components, the runs, which source lines every definition stands for, the
hazards and the theorems; this file says the same to a reader.

## 1. The system

The pool is one Go process next to a Postgres database and to the daemons of
several chains, one *primary* (Litecoin, say) and any number of *aux* chains
that are merge-mined with it.  `main.go` starts the parts, which run as
goroutines for ever.

| Component | State | Operations | Talks to |
|---|---|---|---|
| Payout manager (`payouts/manager.go`, `unlock.go`, `payer.go`) | locals of one goroutine: the working copy of pending blocks, the list of confirmed ones, the balances read | the round: sleep, `unlockBlocks`, reward each confirmed block, save all blocks, `payoutBalances` | ledger tables, daemons' wallets |
| Rewards and schemes (`rewards.go`, `solo.go`, `prop.go`, `pplns.go`) | none | split a block's reward over pool recipients and miners; cutoff for old shares | shares, balances |
| Ledger (`persistence/found.go`, `balance.go`, `payment.go`) | tables `blocks`, `balances`, `balance_changes`, `payments` | insert, update, select; none in a transaction | Postgres |
| Share buffer (`pool/buffer.go`, `persistence/share.go`) | `shareBuffer` in memory, table `shares` | append under the lock, swap, `InsertBatch` (a transaction), put back | stratum clients, Postgres |
| RPC failover (`rpc/manager.go`, `health.go`) | `activeIndex`, per chain | `CheckAndRecoverRPCs`, `FindHealthyNode`, goroutines that restore the primary | daemons; read by rewards and payer |
| Work (`pool/work.go`, `server.go`, `nodes.go`, `pairs.go`) | `templates`, `workCache`, `activeNodes` | refresh on a block notification, receive a submission, submit blocks, record them | daemons, sessions, ledger, buffer |
| Stratum sessions (`pool/network.go`, `session.go`, `responses.go`, `extraNonce.go`) | map of sessions, connection counter, extranonces | accept, subscribe, authorize, submit, broadcast, disconnect | work |
| Share weighing (`pool/share.go`, `bitcoin/target.go`) | none | compare a hash with the pool, primary and aux targets | work |
| Merkle and aux proof of work (`bitcoin/merkle.go`, `auxMerkelBranch.go`, `auxpow.go`, `pool/work.go` top) | none | roots, branches, slots | work |
| Encoding (`bitcoin/coinbase.go`, `encoding.go`, `header.go`, `submission.go`) | job counter | serialisation | work |
| Statistics (`persistence/stats.go`, `pool.go`, `miner.go`), API (`api/`) | tables `poolstats`, `minerstats` | periodic aggregation, read-only views | shares |
| Configuration, start-up, logging | constants | | |

Interactions: clients' goroutines call `recieveWorkFromClient`, which appends to
the share buffer and inserts found blocks; the listener goroutine refreshes the
templates and calls the failover; the payout goroutine turns found blocks into
balances and balances into payments, asking the node the failover has chosen.
They share the database, the buffer (under a lock), the templates, the sessions
and `activeIndex` (under none).

What is hard here: money is moved by sequences of single statements and RPCs
with no transaction around them, each of which may fail or be cut off by a
crash; the manager writes from copies it read earlier; chains reorganise; an RPC
may time out after it was executed; goroutines share memory without locks.

What makes each component correct:

- *Payout manager and ledger*: money is credited once, only for spendable
  blocks; a decided block stays decided; a payment is covered by awards, is
  recorded, and resets exactly what was paid; journal and balances agree; and
  what is mature or due is settled in the end.
- *Schemes*: awards never exceed the reward, and depend only on the shares in
  the scheme's window.
- *Share buffer*: an accepted share is stored once, or lost in a crash.
- *Failover*: the index stays in the slice; the primary is restored; "no healthy
  nodes" is the truth.
- *Work*: what is recorded as found is what a chain accepted, under the hash
  that was submitted; the templates follow the chains.
- *Sessions*: a client that logged in works on the latest work, one that left is
  forgotten; no two mine with one extranonce; the listener is never held up.
- *Merkle, aux, encoding*: the miner, the pool and the daemon make the same
  header and read the same block; an aux daemon verifies the proof.
- *Weighing and statistics*: a lower hash ranks no lower, a share is counted
  once, and no rate is reported that was not worked for.

## 2. Modules

| Module | What it is |
|---|---|
| `PayoutSchemes` | pure: pool recipients, SOLO |
| `Payouts` | the payout manager over the ledger and the wallets |
| `MCPayouts` | instances of it for TLC |
| `PayoutsProofs` | theorems about it: types, stages, copies; journal, awards, payments |
| `SumTheorems` | lemmas on sums over finite sets, and on smallest sets and numbers |
| `RpcManager` | the failover of one chain |
| `RpcManagerProofs` | theorems about it, and about `PoolFailover` |
| `ShareLog` | abstract: the fate of a share |
| `ShareBuffer` | the buffer, its flusher and its table; implements `ShareLog` |
| `ShareBufferProofs` | theorems about it |
| `ShareWindow` | PROP and PPLNS over the shares table, and its clearing |
| `MCShareWindow` | instances of it for TLC |
| `ShareWindowProofs` | theorems about it |
| `FoundLedger` | abstract: rows of found blocks and the chains that accepted them |
| `PoolWork` | listener, templates and submissions; implements `FoundLedger` |
| `PoolWorkProofs` | theorems about it |
| `PoolFailover` | `RpcManager` composed with the listener that calls it |
| `StratumSessions` | connections, logins, the session map, the broadcast |
| `StratumProofs` | theorems about it |
| `MerkleTrees` | pure: transactions' branch; aux tree, branch and mask |
| `BlockAssembly` | pure: template to work, share to header and submission |
| `ShareWeighing` | pure: status and difficulty of a share |
| `Statistics` | pure: the window of shares to rates, and their report |
| `Computations` | inputs for the four pure modules, and what must hold of the results |
| `ComputationsProofs` | theorems about them |

### Payouts

`stage` is the program counter of the one goroutine; `found` is the slice
`blocks` of `RunManager` with its statuses, `confirmed` what is left of
`GetConfirmed()`, `todo` the credits left of the block being rewarded, `half`
the point of `AddAmount` between its two statements, `due` the balances
`payoutBalances` read, `unsent` the chains whose `sendmany` is outstanding,
`payee` the balance between its payment record and its reset.  The database is
`status`, `balance`, `changes` and `payments`; the last two are kept as sums,
since rows are only added.  `remote` and `sent` are the daemons' side.  `awarded`,
`faults` and `crashes` are history that only properties read.

One action is one statement or RPC, with the code after it up to the next one.
`AddAmount` is `InsertChange` and then `UpdateBalance`; the `SELECT` between them
only chooses between `INSERT` and `UPDATE` and its failure is the failure of the
second step.  `UnlockBlocks` is one step although it asks the wallet block by
block: nothing is written until all have been classified, and the blocks of a
snapshot are classified independently of each other.  `CreditInsert` and
`CreditUpdate` serve the pool recipients and the miners; the payout scheme is a
set of plans per block (`MinerPlans`) and may refuse (`MayRefuse`), which covers
SOLO exactly and PROP and PPLNS as any list of non-negative credits.  An amount is an
integer; the code uses float64 and `decimal(28,8)`, and nothing here depends on
rounding.

`Crash` throws the locals away and may come between any two steps.
`SendManyFails` includes the time-out after which the wallet has paid.
`PayoutFails`, `RewardFails`, `SaveFails` and `UnlockFails` are the error returns.
The configuration is a constant; `RewardTo` is a set because the node that is
active when the reward is calculated decides whether the coinbase has paid a
recipient.

The assumptions: a chain is listed once, a threshold is positive, a login has
an address for every chain (`miningAuthorize` checks it), plans are non-negative,
and the sets of blocks, logins' balances and addresses are finite, as the rows of
a table are.

### RpcManager

Every read and write of `activeIndex` is a step of its own, in the stages of one
call of `CheckAndRecoverRPCs` (the listener goroutine makes one at a time); the
goroutines that wait for the primary are counted in `waiting`, those between
their check and their write in `restoring`.  The health of a node is external
and changes at any time.  `foundDown`, `disturbed`, `gaveUp` and `failures` are
history.

### ShareBuffer

A section under the pool's lock is a step; `InsertBatch` is a step without the
lock, all or nothing, or an error before or after the commit took effect
(`doubtful`).  Shares are distinct submissions, so sets stand for the slices: the
order of rows is never read, every query orders by time.  Two rows of one share
are counted in `rows`.  The refinement mapping `fate` to `ShareLog` says of every
share whether it is stored, on its way, or lost.

### ShareWindow

`stage` is where `UpdateMinerBalances`, or the deletion after it, is; `before`
and `inclusive` are the cursor, `parts` the miners' rewards so far, `cutoffTime`
the cutoff.  A step is one statement: `ReadPage` is a query with the loop over
its rows, `Award` the loop over the miners (`AwardFails` stops it after any of
them), `DeleteSharesBefore` the manager's clearing.  A page is a set: PROP sums
it, and PPLNS's early return in the middle of one is `PPLNSOverflow`, with any
order among shares of one time.  Shares come in with any time at any moment,
since the buffer puts a failed batch back; blocks of several chains are rewarded
in any order, since each waits for its own confirmations.  Scores are integer
units of which a power of two is one network difficulty.  The comparison
`remainingReward <= 0` of PROP is decided by rounding unless the quotient is
exact in binary (`IsExact`): then it holds.  Miners are awarded parts of a whole
(the sum of scores, or the window).  The rest of the round, its crashes included,
is in `Payouts`.  `window`, `counted`, `seen`, `deletions` are history.  There
are finitely many miners (the keys of a map); any scores, times and page size.

### FoundLedger and PoolWork

A daemon is known by the tip of its chain: it accepts a block exactly when the
block builds on the tip, and then the tip moves and a notification is on its way.
`fetch` is the listener inside `fetchRpcBlockTemplatesAndCacheWork`: template,
aux blocks one by one, then the writes of `templates` in the order of the code,
the aux blocks before the block.  `jobs` are the blocks ever generated, and
`handler` is each client's goroutine inside `recieveWorkFromClient`: the copy of
the template, the candidates, and for each chain the submission, the row and the
next read of the templates.  `Copies` says what an unlocked copy may be while the
listener assigns: the old block, the new one, or a mixture that stands for no job.
A submission solves a job for a set of chains; the header of another job than the
copy's hashes to nothing.

Nothing recovers from a panic, which ends the process (`EndProcess`) and with it what
all handlers were doing.  There are three actions of it.  `ReadAuxPanics`: a nil slice
of aux blocks, `Nil`, is indexed.  `SubmitPanics`: the proof of an aux block has no
slot for one of the chains (`MakesAuxPow`, over the ids in `chainID`, with the tree of
`MerkleTrees`), or the primary's block has 253 transactions.  `GenerateWorkFails`: the
hashes of a template or an aux block cannot be read.  The number of transactions and
the hashes are the `form` of the template.

Assumptions: a daemon judges by the tip alone; a notification that comes while
another of the same chain waits adds nothing to it; the refresh begins with a
tip read after the notification.  `missed` says that the last notification was
lost, or that its refresh gave up; the next one clears it.  `unsaved` counts the
accepted blocks whose answer was lost, whose insert failed, or which a handler was
about to insert when the process ended.  Of requests, only well-formed ones come in,
and the coinbase script has a length that can be encoded (see `BlocksAssemble`).

The refinement mapping takes the rows of `blocks` to a count for each block, so
that `FoundLedger` says: one row at most, and only of an accepted block.

### PoolFailover

`activeNode` is the client that `loadBlockchainNodes` copied.  A failing fetch runs the
whole call of `RpcManager`, step by step, and the second fetch follows it.

### StratumSessions

`client[c]` is a connection with the goroutine that reads it.  `Authorize` enters
the session map and sends two of the three packets of the answer; `ReadWork` and
`SendWork` are the third, between which the listener may broadcast newer work
(`overtaken`).  `Forget` is the end that is noticed (`io.EOF`, or an overlong
line), `Fail` every other one, after which session and connection stay.
`Breaks` lets a write to a peer that is gone fail or succeed, and the encoder
keeps the error.  `Panic` is a login without a rig; `ConcurrentMapAccess` is the
runtime that ends the process when it notices two goroutines in the map.
`Notify` visits the map in any order, entries added meanwhile or not.

Requests reach the pool only from the connection's own goroutine, one at a time.
Work is a number; what a submission does is in `PoolWork`.

### The computations

`MerkleTrees` builds terms: a hash is free, so two roots are equal only if they
are made of the same leaves in the same way.  `BlockAssembly` keeps bytes where a
length is declared or an order reversed, and replaces constant runs of bytes by
runs of the same length.  `ShareWeighing` has integer targets below a small
highest one and rational difficulties; `Statistics` integer times in half seconds,
and integer rates.  Loops are recursive functions (`Levels` and `LoopEnd` for the
levels of a tree) and sums are sums over sets.  `Computations` takes one
input and computes from it; its sets of inputs are constants.
The other side is in the same modules, marked external: a
stratum miner (`MinerHeader`), a daemon that reads a block
(`CoinbaseParses`, `ReadVarUint`) and an aux daemon that checks a proof
(`Verifies`).

## 3. What TLC checks

Every property has a mutant: a change of one definition that a bug in the code
could be, under which the same run must fail.

| Run | Question | Bounds | Result |
|---|---|---|---|
| `payouts` | Is the ledger consistent, are its errors bounded by the interruptions, is everything mature decided and everything due paid? | two chains, two blocks, three logins, one failure, one crash, a scheme that may refuse one block | holds |
| `payouts_double` | Can more be paid out than was awarded? | one failure | **yes** |
| `payouts_orphan` | Is a likely orphan orphaned? | two blocks, no failure | **no** |
| `failover` | Does the index stay in range, are the promises kept up to their exceptions, is the primary restored? | three nodes, two restoring goroutines, four failures of nodes | holds |
| `share_buffer` | Does the buffer implement the log? | three shares, two failing inserts, one crash | holds |
| `window` | Do the awards of PROP and PPLNS follow the work and stay within the reward, and is only what was paid deleted? | three shares, pages of two, two blocks, one failure | holds |
| `window_overflow` | Is an overflow an over-award in PROP? | two shares | **no** |
| `pool_work` | Do found blocks implement the ledger, and does the work follow the chains? | two clients, one aux chain, two aux blocks per tip, one foreign block, one solution sent any number of times, one failure or bad template, a chain id with a slot and one without | holds |
| `stratum` | Who is sent the latest work, what stays in the map, does the listener get through? | three connections for a limit of one, two subscribes, one refresh | holds |
| `computations` | Do the algorithms agree with miners, daemons and the shares? | see below | holds |
| `aux_proof` | Does an aux daemon accept the pool's proof? | one or two aux chains, six ids | **no** |
| `work_switch` | Does a failed fetch switch nodes? | two nodes | **no** |

The properties of `payouts`:

- `BalancesNeverNegative`, `DebitsResetBalance`: the amount debited was read
  several statements before; it is still the whole balance.
- `JournalAgrees`: each interruption can tear at most one `AddAmount`.
- `NoDoubleAward`: each interruption can repeat at most one award of a block.
- `ConfirmedIsAwarded`: without interruptions a confirmed block that the scheme did
  not refuse has been shared out in full, except for what the coinbase paid.
- `AwardedIsMature`, `StatusIsFinal`: the stale copy does no harm.
- `PaymentsAreCovered`: each interruption can let at most one more batch through.
- `SentIsRecorded`: without interruptions the payments table is what was sent.
- `RecordedIsSent`: even with them it never claims more than was sent, as long as
  no two logins share a pay address.
- `MatureIsDecided`, `DueIsPaid`: in the end, whatever failed on the way, unless a
  block is unknown to its daemon for good (see `payouts_orphan`).

The properties of `window`: `AwardsFollowWork`, the paging loses a share
only where a page ends between shares of one time, and shows none twice, and what
PPLNS awards for a block stays below its whole reward (`RewardNotExhausted`);
`PaidOnce`, the blocks PROP shares out pay for disjoint shares, but for the cutoff;
`DeletedWasCounted`, a share that is cleared unpaid was cut off by a page's end
or came in late.  The exceptions are what the code does.

The properties of `pool_work`: `HashIsAccepted`, a row's hash is that of its
block unless the templates were written while the share was handled;
`AcceptedIsRecorded`, the accepted blocks that have no row, and that no handler is
about to insert, are exactly as many as the lost answers, the failed inserts and the
inserts that a panic prevented; `PanicsHaveACause`, a failed `createauxblock`, a chain
without a slot, 253 transactions or unreadable hashes; `ImplementsLedger`, in which a
repeated submission is refused because its own acceptance has moved the tip;
`WorkFollowsChains`.

The properties of `stratum`: `UniqueWithinLimit`, with one connection more than
the limit; `LatestWork` and `EndedIsForgotten`, whose exceptions are an answer
overtaken by a broadcast, a login before the subscription, and a second
subscription; `ListenerReturns`.

The properties of `computations`: `BlocksAssemble`, over heights on both sides of
every change of width, arbitrary data on both sides of 252 bytes, and every
number of transactions that makes the tree odd at a different level;
`ProofVerifies`, over up to three aux chains and trees of 4, 8 and 16 slots, when a
proof is accepted;
`WorkIsCredited`, over hashes around the targets and all sets of up to three
shares of two miners and two workers at times on both sides of every boundary of
the window.

The bounds: one failure and one crash reach every error return, in every stage,
and a second interruption of the same round; since the payout manager keeps nothing
between rounds, further ones add up, which is what the factors
`1 + Interruptions` say.  Of two blocks, one may be found and mature in the middle of
the round of the other; their chains are different, so that one batch can be sent
and the other fail, and on litecoin the miner and the pool are due together.  The
dogecoin node pays the pool directly, the litecoin one does not, so both branches of
the recipient loop run.  Two blocks of one chain are left to the theorems, which
prove all these invariants for any number of blocks.  For the failover two goroutines and three nodes let a reset fall
between any two steps of a search that is neither at the first nor at the last
node.  Three shares and pages of two make a full page, a short one and an empty
one, with ties within and across them; scores are a quarter of the
window and more than all of it; miners and blocks are symmetric.  In `pool_work`
the pool's own block, the foreign one and their refreshes overlap with a second
client that handles the same solution; two aux blocks on one tip tell the aux
block of one refresh from that of another; of the chain ids, 3 takes slot 5 and 98
slot 8, beyond the eight.  In `stratum` one connection is over
the limit, two sessions take part in a broadcast, and one client can subscribe
twice or two once.

Fairness: `WF_vars(RunManager)` for the payout goroutine, which always comes
back to its sleep, since every statement and RPC returns or fails; none on
failures, crashes, new blocks or the chain.  For the failover, fairness on the
steps of a call in progress and of the waiting goroutines, none on calls or on
the nodes.  For the buffer, on the flusher.  In `PoolWork`, on the listener: its
calls return, since the HTTP client has a time-out; none on clients, on
daemons or on notifications.  In `StratumSessions`, on the broadcast: a write returns
at the latest at the deadline of its connection.  A request renews the deadline
(`pool/responses.go:37`), but the goroutine that does so ends the request with a write
to the same connection (line 45): a miner that does not read blocks it there, and
there are no further renewals.

### Findings

1. *Paid twice* (`payouts_double`).  `bitcoinTryManyPayments` sends chain after
   chain and returns at the first error; nothing is recorded or reset for the
   chains already sent.  The same follows from a time-out after execution.
2. *Blocked for ever* (`payouts_orphan`).  A "likely orphan" is an error of the
   whole round, in every round.
3. *Refused for being exact* (`window_overflow`).  PROP's awards sum to the
   reward, and `<= 0` calls that an overflow; what is paid hangs on rounding.
4. *No switch* (`work_switch`).  The pool fetches from clients it copied at
   start; a failover changes the manager's index and nothing else.
5. *No aux block* (`aux_proof`).  The root in the coinbase is that of sixteen slots
   (`pool/work.go:22`), the branch in the proof one of eight
   (`bitcoin/auxMerkelBranch.go:18`): a daemon finds a size that does not go with the
   length of the branch, and refuses.  `src/README.md:4,14` promise merged mining.
   `NoProofIsAccepted` proves it of every number of chains and all ids.

What the passing runs show beside this, in the exceptions they name:

- Balances with the same pay address on a chain overwrite each other in the
  transaction (`payouts/payer.go:89`), which the runs exclude by distinct addresses.
- A search that gives up leaves the index away from the primary with no loop to
  bring it back (`rpc/manager.go:39`; `gaveUp` in `PrimaryWillBeRestored`).
- PPLNS never adds to `accumlatedScore` (`payouts/pplns.go:49`): shares are paid
  back to the oldest one until the reward is exhausted, and then the block is refused.
- A block of one chain deletes the shares a pending block of another chain was
  found with (`payouts/manager.go:42`).
- When an aux daemon fails once, the next solution ends the process.  So does, with
  all daemons healthy, a solution for an aux chain if one of the chains takes a slot
  beyond the eight, as Dogecoin's id 98 does (slot 8), or for a block of 253
  transactions; and so does a template whose hashes cannot be read
  (`PanicsHaveACause`).  The blocks that other clients were about to record are lost
  with the process (`AcceptedIsRecorded`).  A login without a rig ends it, too
  (`Panic` of `StratumSessions`).
- `miningSubmit` answers true whether or not the share was accepted
  (`pool/responses.go:208`).
- Two chains may take one slot, of which the later has it; a slot above nine has a
  mask of too many digits (`ProofVerifies`).
- Exactly 253 bytes of coinbase script or 252 transactions beside the coinbase
  panic (`bitcoin/encoding.go:19`; `Unencodable`).  The arbitrary data's length is
  written in one byte, modulo 256; it is inside the script, so that nobody reads it.
- The coinbase pays the whole reward three times over
  (`bitcoin/coinbase.go:158-171`).  `BlocksAssemble` only asks whether the block
  can be read.
- The window of a miner's rate is made longer by the time since its last share
  (`persistence/stats.go`), where `persistence/README.md:13-30` shows it shorter; the
  pool's shares per second are divided by nanoseconds, and are zero.
- Shares that the payouts have deleted are missing from the rates.

## 4. What is proved

The theorems hold for every value of the constants that satisfies the named
assumptions; no bound of the runs is used.

`PayoutsProofs`: `TypeCorrect`; `NoOverdraft` and `OnlyResetsDebit`, from the
invariant `DueInv`: while the manager pays, every amount in `due` that is not
zero *is* the balance, because a balance is only credited in other stages;
`OnlyMatureAwarded` and `DecisionsAreFinal`, from `BlockInv`: the copy holds
pending blocks only, what is in `confirmed` is spendable, and a spendable
coinbase stays spendable.  The property alone is not inductive in any of
these cases, since a debit happens steps after the read that justifies it.

`RpcManagerProofs`: `IndexStaysInRange`, from an invariant that bounds the value
`activeIndex++` has read as well as the index itself, so that a reset between
the test and the write does no harm; `TypeCorrect`; `LoopWhileOffPrimary`, whose
invariant says in every stage of a call, and not only between calls, who will
bring the primary back; and `GivesUpAfterAll`, whose invariant says that in an
undisturbed search the nodes found down are those fewer than `nodesChecked`
steps behind the index, around the ring.  `PoolUsesManager`: the composition with
the listener implements the manager, step by step, so that all of this holds of
`PoolFailover` too; and `CallsAreSequential`, that two calls of
`CheckAndRecoverRPCs` never overlap, is what `RpcManager` assumes of its caller.

`ShareBufferProofs`: `TypeCorrect`; `NoShareCountedTwice`, from the invariant that
a share in memory has rows only from inserts that lied about their failure; and
`BufferImplementsLog`, the refinement of `ShareLog`: every step of the buffer is a
step of the log or a stutter.

`StratumProofs`: all four invariants.  `TypeCorrect`, where the accepted
connections are the first `numberOfConnections`, so that counting them needs no
induction; `UniqueCorrect`, since a drawn extranonce is in `extranonces` until the
process ends; `ForgottenCorrect`; and `LatestWorkCorrect`, from two invariants.
`SessionInv`: a session id is drawn for one connection only, what is entered under
it stays that connection's (another's logout cannot remove it), and who logged
in after subscribing is entered.  `WorkInv`: during a round a miner that mines has
the work, was overtaken, or is still owed a visit; the work read for a login is
never newer than the listener's.  The property itself speaks of the time between
two rounds, and says nothing inductive of the round.

`SumTheorems`: what `SumFunctionOnSet` does when one value changes, when a set is
split, when two functions are compared.  A sum is a fold, and induction over the
set would need an induction theorem with a predicate as its parameter; instead the
subsets of a finite set for which a lemma fails have a smallest one, from which an
element is taken.

`PayoutsProofs` has seven more theorems, about money.  `JournalCorrect`, from
`JournalInv`: apart from the
amount between the two statements of `AddAmount`, the keys on which journal
and balance differ were torn by different interruptions.  `PaymentsCovered`, from
`CoveredInv`: what a wallet has sent, with the balances but without those it has
already paid in this round, is within the awards, once for the rounds that ended
and once for each that was interrupted; the property leaves the balances out, and a
payment could not be bounded without them.  `PaysOnceUntilInterrupted` follows: what
`payouts_double` violates holds until the first failure or crash.  `PaymentsWereSent` and
`SentPaymentsRecorded`, from `RecordedInv`: what is recorded and what is still to be
is what was sent.  `AwardedOnce`, from `RoundInv` and `AwardInv`: a block that may
still be rewarded was awarded at most once for each interruption, and in the
middle of its award, what was credited and what is left in `todo` is one award more.
`ConfirmedInFull`, from `ExactInv`: the same as an equation, for blocks that the
scheme does not refuse (after a refusal a block is confirmed without its awards,
`manager.go:35-39`).

Some of them hold under a hypothesis about the configuration, and say so:

| Hypothesis | What it says | Why |
|---|---|---|
| `DistinctAddresses` | no two logins share a pay address on a chain | the code overwrites one amount with the other (`payer.go:89`), and claims both |
| `PlansFit` | percentages of recipients leave something; a scheme awards no more than that | nothing checks the percentages; SOLO awards what is left, PPLNS stops at an overflow (`pplns.go:59`), PROP's parts sum to it |
| `PlansExact` | the scheme awards all that is left; a chain's coinbase goes to one login | SOLO does (`SoloIsExact` proves it); PPLNS need not |

The instances of `MCPayouts` satisfy them (`TheoremsApply`, which TLC evaluates).

`PoolWorkProofs`: all invariants, and the refinement.  `TypeCorrect`, which includes
that a handler submits only blocks that its work has.  `PanicsHaveCauses`, from
`AuxThere`: without a failed `createauxblock` all work ever generated has a block for
every aux chain, and so have the templates, so that both indices of a submission are
in range.  `HashesAreSubmitted`, from `TemplatesAgree` and
`HandlerAgrees`: the templates' aux blocks are those of the job beside them but
between the listener's two writes, and a handler that no write overlapped sees those
of its own work.  `LedgerImplemented`, from `RecordInv`: a block that its chain
accepted builds below the tip, so that it is never accepted again, and the rows and
the handlers about to record stand for different accepted blocks.  Its steps fall
into four kinds: an acceptance and a record, which are steps of `FoundLedger`, the end
of the process, and the rest.  `BlocksAreRecorded`, from the same and `LostInv`, is an
equation: the accepted blocks without a row and in nobody's hands number `unsaved`.
It needs that handlers about to record hold different blocks, of which none has a row,
since the end of the process loses one for each of them.

`ShareWindowProofs`: all invariants.  `TypeCorrect`; `AwardsCorrect`, from an
invariant in five parts.  `SeenInv`: the miners' parts are the sums of what the
pages have shown.  `CursorInv`: of the window, what was not shown is still ahead of
the cursor, or ties with what was.  `AllReadInv`: after the last page nothing is
ahead; `NothingCut` shows that PPLNS does not close its window early and come
this far.  `PaidInv` and `DeletingInv` keep this after the award, whatever is deleted or
inserted later.  `DeletionsFollowAwards` is a consequence for what is older than the
cutoff.  `SharesPaidOnce`, from `OnceInv`: a share's identity is not used again,
and what a deletion left of a block's shares is as old as its cutoff.
`PPLNSLeavesSome`, from `RewardInv`, is the part of `AwardsFollowWork` about the
reward: while a block is read its parts have not
exhausted the reward, and some of the miners never get more than all of them.

`ComputationsProofs`: all invariants, for whatever the sets of inputs hold within
`ComputationsAssumption`: lengths, heights and counts below 2147483000 (the code
writes them in four bytes at most), trees of 1, 2, 4, 8 or 16 leaves, any finite
sets of rows.  `Picked` is their invariant: the input is one of those enumerated.

- `SharesAreCredited`.  The groups of a window partition it, so the sums of the
  groups make the sum of the window (`SumGrouped`); the adjusted window of a miner
  is no shorter than the time between its shares (`WindowCovers`).
- `EveryBlockAssembles`.  The root folded from the coinbase and the branch is the
  root of the tree over all transactions, for any number of them: the first leaf
  apart, the levels are those that `templateMerkleBranchSteps` makes
  (`LevelsAgree`, `RootsAgree`).  Reversing twice, word by word and
  all at once, gives the miner's order (`OneHeader`).  Each field is read back at the
  place and width it was written (`NumberReads`, `VarUintReads`, `HeightReads`,
  `OutputsRead`, `CoinbaseReads`), and 253 is the only length that is not.
- `ProofsVerify`.  A slot holds the hash of a chain exactly when it is the
  chain's and no later one took it (`SlotsAre`); halving the level halves the index
  (`Shifts`), so that the branch of a slot leads to the root (`BranchLeadsToRoot`); and two
  trees of different sizes never verify, since the branch is as long as its own tree is high.
  `NoProofIsAccepted` is the consequence for the sizes in the code.

Their recursive functions need two arguments that are induction in disguise.  That
a function exists is shown by extending it from one index to the next, and that
something holds at all its indices by the smallest at which it does not
(`LeastIndex`).  Either is repeated for each function, since a lemma cannot
take an operator as its parameter.

Only model-checked: the liveness properties `MatureIsDecided`, `DueIsPaid`,
`ReturnsToPrimary`, `SharesAreFlushed`, `WorkFollowsChains` and `ListenerReturns`,
which need ENABLED; and of course that the five properties expected to be violated
are.

## 5. What is not modelled

- The API, and the queries that only it uses: paging, counts, hourly averages.
  They read only.  (Paging passes the page's number as `OFFSET`, so that pages
  overlap.)
- Chain parameters, digests and address patterns: constants and library calls.
- Configuration and start-up: the constants of the modules.  Panics on a
  malformed configuration (a chain without nodes or payout settings).
- The text of requests, replies and logs; the parsing of JSON and hexadecimal.
- Float rounding of amounts and difficulties; the displayed effort and progress of
  blocks.
- The growth of goroutines that wait for the primary (`rpc/manager.go:44`), beyond
  the bound of the run; a transaction that `InsertBatch` leaves open after an error
  (`persistence/share.go:36`).
- That `auxpow.go` joins its parts in the order of the format.

## 6. Plan

Done: all modules of section 2, and a theorem for every safety property that a
passing run checks.  Left:

1. Proofs: the hypotheses `PlansFit` and `PlansExact` for PROP and PPLNS, from the
   parts that `ShareWindow` awards; for PPLNS `RewardNotExhausted` is the step to
   the first of them.
2. Larger instances: two aux chains in `PoolWork`, two refreshes in `StratumSessions`.
3. The averages and intervals of `persistence/miner.go`.
