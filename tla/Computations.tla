---------------------------- MODULE Computations ----------------------------
(***************************************************************************)
(* Inputs for what the pool computes, and what must hold of the results:   *)
(* blocks, aux proofs, shares and statistics.  A behaviour takes one input. *)
(***************************************************************************)
EXTENDS BlockAssembly, ShareWeighing, Statistics

CONSTANTS
    Heights, Lengths, Counts,       \* of blocks, arbitrary data, transactions
    Trees, ChainIDs, MaxChains,     \* sizes of trees, aux chains
    Hashes,                         \* of shares, and targets
    Miners, Workers, Times, Difficulties, MaxRows,  \* rows of the shares table
    HashWindow, Interval            \* of the statistics

\* The lengths and heights fit in 31 bits, with the bytes added to them.
SizeLimit == 2147483000

ASSUME ComputationsAssumption ==
    /\ Heights \subseteq Nat /\ Lengths \subseteq Nat /\ Counts \subseteq Nat
    /\ \A n \in Heights \cup Lengths \cup Counts : n < SizeLimit
    /\ \A size \in Trees : \E d \in 0 .. 4 : size = 2 ^ d
    /\ ChainIDs \subseteq Nat /\ MaxChains \in Nat
    /\ Hashes \subseteq Nat
    /\ IsFiniteSet(Miners) /\ IsFiniteSet(Workers)
    /\ Times # {} /\ Times \subseteq Int /\ IsFiniteSet(Times)
    /\ Difficulties \subseteq Nat /\ IsFiniteSet(Difficulties)
    /\ MaxRows \in Nat
    /\ HashWindow \in Nat /\ HashWindow > 1
    /\ Interval \in Nat

VARIABLE input

Init == input = [kind |-> "none"]

-----------------------------------------------------------------------------
(* Templates, and shares of them *)

Transactions(n) == [i \in 1 .. n |-> Leaf(i)]
Bytes(n) == [i \in 1 .. n |-> i % 256]
Reward == 1000000000
Template(height, length, n, witness) ==
    [height |-> height, value |-> Reward, witness |-> witness,
     poolScript |-> Bytes(33), arbitrary |-> Bytes(length), version |-> 536870912,
     prevBlockHash |-> Bytes(32), bits |-> <<29, 0, 255, 255>>, curTime |-> 1700000000,
     transactions |-> Transactions(n), mimbleWimble |-> IF witness THEN <<7>> ELSE <<>>]
Extranonce1 == <<0, 0, 1, 2>>
Share == <<"miner.rig", "job", <<3, 4, 5, 6>>, <<101, 83, 241, 0>>, <<9, 8, 7, 6>>>>

PickTemplate ==
    /\ input.kind = "none"
    /\ \E height \in Heights, length \in Lengths, n \in Counts, witness \in BOOLEAN :
          input' = [kind |-> "template", template |-> Template(height, length, n, witness)]

\* The lengths that have no encoding, and the conversion panics
Unencodable(template) ==
    \/ Len(template.arbitrary) + 1 + ReservedLength + Len(EncodeNumber(template.height)) = 253
    \/ Len(template.transactions) + 1 = 253

HeadersAgree(template) ==
    LET header == HeaderOfShare(template, Extranonce1, Share)
        extranonce == Extranonce1 \o Share[Extranonce2Slot]
    IN  /\ header = MinerHeader(Work(template), Extranonce1, Share)
        /\ header[3] = MerkleRoot(<<CoinbaseDigest(MadeCoinbase(template, extranonce))>>
                                  \o template.transactions)

SubmissionReads(template) ==
    LET extranonce == Extranonce1 \o Share[Extranonce2Slot]
        submission == Submission(template, extranonce)
    IN  /\ CoinbaseParses(submission.transactions[1], template.height)
        /\ ReadVarUint(submission.count) = Len(submission.transactions)

\* The miner and the pool make the same header from a template, whose root is
\* that of the submitted transactions, and a daemon reads the submission to
\* its last byte; only the lengths without an encoding panic
\* (bitcoin/generator.go, coinbase.go, encoding.go, merkle.go).
BlocksAssemble ==
    input.kind = "template" =>
        LET t == input.template
        IN  IF Unencodable(t)
            THEN Panics \in {Generated(t).coinbaseInitial, Submission(t, <<>>).count}
            ELSE HeadersAgree(t) /\ SubmissionReads(t)

-----------------------------------------------------------------------------
(* Aux proofs *)

AuxBlocks(chainIDs) ==
    [i \in DOMAIN chainIDs |-> [chainID |-> chainIDs[i], hash |-> Leaf(i)]]

PickProof ==
    /\ input.kind = "none"
    /\ \E chains \in 1 .. MaxChains, rootSize \in Trees, branchSize \in Trees :
       \E chainIDs \in [1 .. chains -> ChainIDs], n \in 1 .. chains :
          /\ Fits(rootSize, AuxBlocks(chainIDs)) /\ Fits(branchSize, AuxBlocks(chainIDs))
          /\ input' = [kind |-> "proof", auxblocks |-> AuxBlocks(chainIDs), n |-> n,
                       rootSize |-> rootSize, branchSize |-> branchSize]

TakenByLater(auxblocks, n) ==
    \E j \in n + 1 .. Len(auxblocks) :
        GetExpectedIndex(auxblocks[j].chainID) = GetExpectedIndex(auxblocks[n].chainID)

\* An aux daemon accepts the proof of its block exactly when the coinbase and
\* the branch are made for trees of one size, no later chain has taken the
\* slot of the chain, and the slot is written with one digit
\* (pool/work.go, bitcoin/auxMerkelBranch.go).
ProofVerifies ==
    input.kind = "proof" =>
        (Verifies(input.rootSize, input.branchSize, input.auxblocks, input.n)
           <=> /\ input.rootSize = input.branchSize
               /\ ~TakenByLater(input.auxblocks, input.n)
               /\ GetExpectedIndex(input.auxblocks[input.n].chainID) <= 9)

\* What README.md:4, 14 say of the program: it mines Dogecoin merged with
\* Litecoin.  The proof that a chain with a slot of its own is given, with
\* the sizes that the code passes, is one that its daemon accepts
\* (pool/work.go:22, bitcoin/auxMerkelBranch.go:18).
MergedMiningWorks ==
    /\ input.kind = "proof"
    /\ input.rootSize = CoinbaseTreeSize /\ input.branchSize = BranchTreeSize
    /\ ~TakenByLater(input.auxblocks, input.n)
    => Verifies(input.rootSize, input.branchSize, input.auxblocks, input.n)

-----------------------------------------------------------------------------
(* Shares and their statistics *)

PoolDifficulties == {<<1000, 1>>, <<30000, 16>>}
PickWeighing ==
    /\ input.kind = "none"
    /\ \E targets \in [1 .. 2 -> Hashes], difficulty \in PoolDifficulties,
          better \in Hashes, worse \in Hashes :
          /\ better <= worse
          /\ input' = [kind |-> "weighing", targets |-> targets, difficulty |-> difficulty,
                       better |-> better, worse |-> worse]

Rows == [miner : Miners, worker : Workers, created : Times, difficulty : Difficulties]
Now == Max(Times)
PickShares ==
    /\ input.kind = "none"
    /\ \E shares \in UNION {kSubset(k, Rows) : k \in 0 .. MaxRows}, lost \in BOOLEAN :
          input' = [kind |-> "shares", shares |-> shares, lost |-> lost]

\* A lower hash ranks no lower, and a credited share counts at least the
\* pool's difficulty.
WeighedFairly(i) ==
    LET better == ValidateAndWeighShare(i.better, i.targets, i.difficulty)
        worse == ValidateAndWeighShare(i.worse, i.targets, i.difficulty)
    IN  /\ worse.status <= better.status /\ worse.candidate \subseteq better.candidate
        /\ worse.difficulty[1] * i.difficulty[2] >= i.difficulty[1] * worse.difficulty[2]

\* The workers of a window share out its shares, and no worker is reported a
\* higher rate than its work over the time between its miner's first and last
\* share.
CountedOnce(shares, now) ==
    LET window == InWindow(shares, now - HashWindow, now)
        workers == GetWorkerHashAccumulationBetween(shares, now - HashWindow, now)
    IN  /\ SumDifficulty(window) = AllWork(workers)
        /\ MakeNewPoolStat(workers, HashWindow).poolHashrate * HashWindow
             <= RateScale * (2 * SumDifficulty(window))

StatsAt(shares, now) ==
    MinerStats(GetWorkerHashAccumulationBetween(shares, now - HashWindow, now), now, HashWindow)
RateIsEarned(shares, row) ==
    LET window == InWindow(shares, row.created - HashWindow, row.created)
        ofMiner == {s \in window : s.miner = row.miner}
        span == Floor(LastShare(ofMiner) - FirstShare(ofMiner))
    IN  row.hashrate * Max({span, 1})
          <= RateScale * SumDifficulty({s \in ofMiner : s.worker = row.worker})

\* Shares are weighed by their hash alone, each is counted once, and the rates
\* reported to a miner are covered by its shares, also when the rows of the
\* last interval were not written (pool/share.go, persistence/stats.go).
WorkIsCredited ==
    /\ input.kind = "weighing" => WeighedFairly(input)
    /\ input.kind = "shares" =>
          LET shares == input.shares
              stats == StatsAt(shares, Now - Interval) \cup
                       (IF input.lost THEN {} ELSE StatsAt(shares, Now))
          IN  /\ CountedOnce(shares, Now)
              /\ \A m \in Miners : \A row \in MinerReport(shares, stats, m, Now, HashWindow) :
                    RateIsEarned(shares, row)

Next == PickTemplate \/ PickProof \/ PickWeighing \/ PickShares
Spec == Init /\ [][Next]_input
=============================================================================
