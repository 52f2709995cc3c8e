----------------------------- MODULE Statistics -----------------------------
(***************************************************************************)
(* The statistics of a window of shares (persistence/stats.go, and the     *)
(* queries of share.go, miner.go and pool.go that they are made from and   *)
(* read with).                                                             *)
(*                                                                         *)
(* shares and stats are the sets of rows of the tables shares and          *)
(* minerstats of one pool.  Times are in half seconds, and a hashrate is   *)
(* a multiple of 2^32 hashes in RateScale seconds.                         *)
(***************************************************************************)
EXTENDS Integers, FiniteSets, FiniteSetsExt

RateScale == 60
Floor(time) == time \div 2

SumDifficulty(shares) == SumFunctionOnSet([s \in shares |-> s.difficulty], shares)
AllWork(workers) == SumFunctionOnSet([w \in workers |-> w.sumDifficulty], workers)
FirstShare(shares) == Min({s.created : s \in shares})
LastShare(shares) == Max({s.created : s \in shares})

\* GetWorkerHashAccumulationBetween: the groups of (miner, worker)
InWindow(shares, start, end) == {s \in shares : s.created >= start /\ s.created <= end}
GroupedMutant(shares) == {[miner |-> s.miner, worker |-> s.worker,
                           shares |-> {o \in shares : o.worker = s.worker}] : s \in shares}
Grouped(shares) ==
    {[miner |-> s.miner, worker |-> s.worker,
      shares |-> {o \in shares : o.miner = s.miner /\ o.worker = s.worker}] : s \in shares}
GetWorkerHashAccumulationBetween(shares, start, end) ==
    {[miner |-> g.miner, worker |-> g.worker,
      sumDifficulty |-> SumDifficulty(g.shares), shareCount |-> Cardinality(g.shares),
      firstShare |-> FirstShare(g.shares), lastShare |-> LastShare(g.shares)]
     : g \in Grouped(InWindow(shares, start, end))}

GroupByMiner(workers) ==
    [m \in {w.miner : w \in workers} |-> {w \in workers : w.miner = m}]

GetWindowDifferences(now, timeFrom, workers) ==
    [startDifference |-> Min({w.firstShare : w \in workers}) - timeFrom,
     endDifference |-> now - Max({w.lastShare : w \in workers})]

\* A tenth of the window without a share makes the window shorter at its
\* start, and longer at its end.
AdjustHashWindow(differences, hashWindow) ==
    LET counted(difference) == IF 10 * difference >= hashWindow THEN difference ELSE 0
        seconds == Floor(hashWindow - counted(differences.startDifference)
                                    + counted(differences.endDifference))
    IN  IF seconds < 1 THEN 1 ELSE seconds

HashrateFromShares(shareSum, seconds) == (RateScale * shareSum) \div seconds

\* makeMinerStats: the rows, of which a failing insert skips its own
MinerStats(workers, now, hashWindow) ==
    {[miner |-> w.miner, worker |-> w.worker, created |-> now,
      hashrate |-> HashrateFromShares(w.sumDifficulty,
          AdjustHashWindow(GetWindowDifferences(now, now - hashWindow,
                                                GroupByMiner(workers)[w.miner]),
                           hashWindow))] : w \in workers}

\* makeNewPoolStat, whose window of half seconds is not rounded.  The shares per second are divided by nanoseconds, and
\* rounded to three digits there are none.
MakeNewPoolStat(workers, hashWindow) ==
    [connectedMiners |-> Cardinality(DOMAIN GroupByMiner(workers)),
     connectedWorkers |-> Cardinality(workers),
     poolHashrate |-> HashrateFromShares(2 * AllWork(workers), hashWindow),
     sharesPerSecond |-> 0]

-----------------------------------------------------------------------------
(* Reading the statistics of a miner *)

LastStatUpdate(stats, miner) == Max({s.created : s \in {t \in stats : t.miner = miner}})

GetMinerStatsByCreatedTime(stats, miner, created) ==
    {s \in stats : s.miner = miner /\ s.created = created}

\* GetMinerStatsReport.  A miner without shares, whose sum is NULL, or without
\* statistics gets an error; one whose last statistics are older than
\* minerStatWindow gets no workers.
MinerReport(shares, stats, miner, now, minerStatWindow) ==
    IF \/ \A s \in shares : s.miner # miner
       \/ \A s \in stats : s.miner # miner \/ s.created < now - minerStatWindow
    THEN {}
    ELSE GetMinerStatsByCreatedTime(stats, miner, LastStatUpdate(stats, miner))

=============================================================================
