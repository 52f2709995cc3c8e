------------------------- MODULE ComputationsProofs -------------------------
(***************************************************************************)
(* Proofs about Computations and the modules it puts together: any height, *)
(* arbitrary data and number of transactions, any aux chains in trees of   *)
(* up to 16 leaves, any hashes and targets, any rows of the shares table,  *)
(* window and interval.                                                    *)
(***************************************************************************)
EXTENDS Computations, SumTheorems

-----------------------------------------------------------------------------
(* Shares *)

LEMMA Window ==
    /\ HashWindow \in Nat /\ HashWindow > 1 /\ Interval \in Nat
    /\ Times \subseteq Int /\ Difficulties \subseteq Nat
BY ComputationsAssumption

\* A lower hash ranks no lower, and a credited share counts at least the
\* pool's difficulty.
LEMMA Weighed ==
    ASSUME NEW i, NEW better \in Nat, NEW worse \in Nat, better <= worse,
           NEW targets \in [1 .. 2 -> Nat],
           NEW difficulty \in PoolDifficulties,
           i = [kind |-> "weighing", targets |-> targets, difficulty |-> difficulty,
                better |-> better, worse |-> worse]
    PROVE  WeighedFairly(i)
<1> DEFINE goal == TargetFromDifficulty(difficulty)
<1>1. goal \in Nat /\ HighestTarget * difficulty[2] >= difficulty[1] * goal
  BY DEF TargetFromDifficulty, HighestTarget, PoolDifficulties
<1>2. Candidate(worse, targets) \subseteq Candidate(better, targets)
  BY DEF Candidate
<1> HIDE DEF goal
<1>3. Status(worse, targets, goal) <= Status(better, targets, goal)
  BY <1>1, <1>2 DEF Status, shareCandidate, shareValid, shareInvalid
<1>4. ToDifficulty(goal)[1] = HighestTarget /\ ToDifficulty(goal)[2] = goal
  BY DEF ToDifficulty
<1> QED
  BY <1>1, <1>2, <1>3, <1>4 DEF WeighedFairly, ValidateAndWeighShare, goal

-----------------------------------------------------------------------------
(* Sets of rows *)

\* The shares of one worker, and what is reported of them
SharesOf(window, miner, worker) == {o \in window : o.miner = miner /\ o.worker = worker}
WorkerOf(window, miner, worker) ==
    LET shares == SharesOf(window, miner, worker)
    IN  [miner |-> miner, worker |-> worker,
         sumDifficulty |-> SumDifficulty(shares), shareCount |-> Cardinality(shares),
         firstShare |-> FirstShare(shares), lastShare |-> LastShare(shares)]

LEMMA WorkersOfWindow ==
    ASSUME NEW shares, NEW start, NEW end
    PROVE  LET window == InWindow(shares, start, end)
           IN  GetWorkerHashAccumulationBetween(shares, start, end)
                 = {WorkerOf(window, s.miner, s.worker) : s \in window}
<1> DEFINE window == InWindow(shares, start, end)
           group(s) == [miner |-> s.miner, worker |-> s.worker,
                        shares |-> SharesOf(window, s.miner, s.worker)]
           reported(g) == [miner |-> g.miner, worker |-> g.worker,
                           sumDifficulty |-> SumDifficulty(g.shares),
                           shareCount |-> Cardinality(g.shares),
                           firstShare |-> FirstShare(g.shares),
                           lastShare |-> LastShare(g.shares)]
<1>1. GetWorkerHashAccumulationBetween(shares, start, end)
        = {reported(g) : g \in {group(s) : s \in window}}
  BY DEF GetWorkerHashAccumulationBetween, Grouped, SharesOf
<1>2. \A s : reported(group(s)) = WorkerOf(window, s.miner, s.worker)
  BY DEF WorkerOf
<1> HIDE DEF group, reported, window
<1>3. {reported(g) : g \in {group(s) : s \in window}} = {reported(group(s)) : s \in window}
  OBVIOUS
<1> QED
  BY <1>1, <1>2, <1>3 DEF window

LEMMA RowsAreFinite ==
    ASSUME NEW S \in SUBSET Rows, IsFiniteSet(S)
    PROVE  /\ \A s \in S : s.created \in Int /\ s.difficulty \in Nat
           /\ IsFiniteSet({s.created : s \in S}) /\ {s.created : s \in S} \in SUBSET Int
           /\ SumDifficulty(S) \in Nat
<1>1. \A s \in S : s.created \in Int /\ s.difficulty \in Nat
  BY Window DEF Rows
<1>2. IsFiniteSet({s.created : s \in S})
  <2> DEFINE C == {s.created : s \in S}
             f == [s \in S |-> s.created]
  <2>1. f \in Surjection(S, C)
    BY DEF Surjection
  <2> HIDE DEF C, f
  <2>2. IsFiniteSet(C)
    BY <2>1, FS_Surjection
  <2> QED
    BY <2>2 DEF C
<1>3. SumDifficulty(S) \in Nat
  BY <1>1, SumNat DEF SumDifficulty
<1> QED
  BY <1>1, <1>2, <1>3

LEMMA FirstAndLast ==
    ASSUME NEW S \in SUBSET Rows, IsFiniteSet(S), S # {}
    PROVE  /\ FirstShare(S) \in Int /\ LastShare(S) \in Int
           /\ \A s \in S : FirstShare(S) <= s.created /\ s.created <= LastShare(S)
           /\ \E s \in S : s.created = FirstShare(S)
           /\ \E s \in S : s.created = LastShare(S)
<1> DEFINE C == {s.created : s \in S}
<1>1. C \in SUBSET Int /\ IsFiniteSet(C) /\ C # {} /\ \A s \in S : s.created \in C
  BY RowsAreFinite
<1>2. \A c \in C : \E s \in S : s.created = c
  OBVIOUS
<1>3. FirstShare(S) = Min(C) /\ LastShare(S) = Max(C)
  BY DEF FirstShare, LastShare
<1> HIDE DEF C
<1>4. /\ Min(C) \in C /\ \A y \in C : Min(C) <= y
      /\ Max(C) \in C /\ \A y \in C : Max(C) >= y
  BY <1>1, FiniteExtremes DEF Min, Max
<1> QED
  BY <1>1, <1>2, <1>3, <1>4

\* The workers of a window share out its shares.
LEMMA SharesAreSharedOut ==
    ASSUME NEW shares \in SUBSET Rows, IsFiniteSet(shares), NEW start, NEW end
    PROVE  LET window == InWindow(shares, start, end)
               workers == GetWorkerHashAccumulationBetween(shares, start, end)
           IN  /\ window \in SUBSET Rows /\ IsFiniteSet(window)
               /\ \A s \in window : s.created >= start /\ s.created <= end
               /\ IsFiniteSet(workers)
               /\ AllWork(workers) = SumDifficulty(window)
<1> DEFINE window == InWindow(shares, start, end)
           workers == GetWorkerHashAccumulationBetween(shares, start, end)
           made == [s \in window |-> WorkerOf(window, s.miner, s.worker)]
           group == [w \in workers |-> SharesOf(window, w.miner, w.worker)]
           f == [s \in window |-> s.difficulty]
           g == [w \in workers |-> w.sumDifficulty]
<1>1. window \in SUBSET Rows /\ IsFiniteSet(window)
  BY FS_Subset DEF InWindow
<1>2. \A s \in window : s.created >= start /\ s.created <= end
  BY DEF InWindow
<1>3. workers = {WorkerOf(window, s.miner, s.worker) : s \in window}
  BY WorkersOfWindow
<1> HIDE DEF window, workers
<1>4. IsFiniteSet(workers)
  <2>1. made \in Surjection(window, workers)
    BY <1>3 DEF Surjection
  <2> HIDE DEF made
  <2> QED
    BY <1>1, <2>1, FS_Surjection
<1>5. \A w \in workers : /\ w = WorkerOf(window, w.miner, w.worker)
                         /\ w.sumDifficulty = SumDifficulty(group[w])
  BY <1>3 DEF WorkerOf
<1>6. /\ group \in [workers -> SUBSET window]
      /\ \A t, u \in workers : t # u => group[t] \cap group[u] = {}
  <2>1. ASSUME NEW t \in workers, NEW u \in workers, NEW x \in group[t] \cap group[u]
        PROVE  t = u
    <3>1. t.miner = u.miner /\ t.worker = u.worker
      BY DEF SharesOf
    <3> QED
      BY <1>5, <3>1, Zenon
  <2> QED
    BY <2>1 DEF SharesOf
<1>7. \A s \in window : \E w \in workers : s \in group[w]
  <2>1. ASSUME NEW s \in window
        PROVE  s \in group[made[s]] /\ made[s] \in workers
    BY <1>3 DEF WorkerOf, SharesOf
  <2> QED
    BY <2>1
<1>8. \A s \in window : f[s] \in Int
  <2>1. \A s \in window : s.difficulty \in Nat
    BY <1>1, RowsAreFinite
  <2> QED
    BY <2>1
<1>9. ASSUME NEW w \in workers
      PROVE  g[w] = SumFunctionOnSet(f, group[w])
  <2> DEFINE S == group[w]
             h == [s \in S |-> s.difficulty]
  <2>1. S \in SUBSET window /\ IsFiniteSet(S)
    BY <1>1, <1>6, FS_Subset
  <2>2. \A s \in S : h[s] \in Int /\ f[s] = h[s]
    BY <1>8, <2>1
  <2>3. g[w] = SumDifficulty(S)
    BY <1>5
  <2>4. SumDifficulty(S) = SumFunctionOnSet(h, S)
    BY DEF SumDifficulty
  <2> HIDE DEF S, h, f, g, group
  <2>5. SumFunctionOnSet(f, S) = SumFunctionOnSet(h, S)
    BY <2>1, <2>2, SumSame
  <2> QED
    BY <2>3, <2>4, <2>5 DEF S
<1> HIDE DEF group, f, g
<1>10. SumFunctionOnSet(g, workers) = SumFunctionOnSet(f, window)
  BY <1>1, <1>4, <1>6, <1>7, <1>8, <1>9, SumGrouped
<1>11. AllWork(workers) = SumDifficulty(window)
  BY <1>10 DEF AllWork, SumDifficulty, f, g
<1> QED
  BY <1>1, <1>2, <1>4, <1>11 DEF window, workers

LEMMA RateIsCovered ==
    ASSUME NEW sum \in Nat, NEW seconds \in Nat, seconds > 0, NEW span \in Nat, span <= seconds
    PROVE  /\ HashrateFromShares(sum, seconds) \in Nat
           /\ HashrateFromShares(sum, seconds) * span <= RateScale * sum
<1> DEFINE product == RateScale * sum
           rate == product \div seconds
<1>1. product \in Nat
  BY DEF RateScale
<1> HIDE DEF product
<1>2. rate \in Nat /\ rate * span <= product
  BY <1>1
<1> QED
  BY <1>2 DEF HashrateFromShares, product

\* A window's shares are counted once.
LEMMA Counted ==
    ASSUME NEW shares \in SUBSET Rows, IsFiniteSet(shares), NEW now \in Int
    PROVE  CountedOnce(shares, now)
<1> DEFINE start == now - HashWindow
           window == InWindow(shares, start, now)
           workers == GetWorkerHashAccumulationBetween(shares, start, now)
<1>1. window \in SUBSET Rows /\ IsFiniteSet(window) /\ AllWork(workers) = SumDifficulty(window)
  BY SharesAreSharedOut
<1>2. SumDifficulty(window) \in Nat
  BY <1>1, RowsAreFinite
<1>3. HashWindow \in Nat /\ HashWindow > 0
  BY Window
<1>4. MakeNewPoolStat(workers, HashWindow).poolHashrate
        = HashrateFromShares(2 * AllWork(workers), HashWindow)
  BY DEF MakeNewPoolStat
<1> HIDE DEF window, workers
<1>5. HashrateFromShares(2 * AllWork(workers), HashWindow) * HashWindow
        <= RateScale * (2 * SumDifficulty(window))
  <2>1. 2 * SumDifficulty(window) \in Nat /\ HashWindow <= HashWindow
    BY <1>2, <1>3
  <2> QED
    BY <1>1, <1>3, <2>1, RateIsCovered
<1> QED
  BY <1>1, <1>4, <1>5 DEF CountedOnce, window, workers

\* The workers of a miner saw its first share, and none after the window.
LEMMA MinersDifferences ==
    ASSUME NEW shares \in SUBSET Rows, IsFiniteSet(shares), NEW now \in Int,
           NEW w \in GetWorkerHashAccumulationBetween(shares, now - HashWindow, now)
    PROVE  LET start == now - HashWindow
               window == InWindow(shares, start, now)
               workers == GetWorkerHashAccumulationBetween(shares, start, now)
               ofMiner == {s \in window : s.miner = w.miner}
               differences == GetWindowDifferences(now, start, GroupByMiner(workers)[w.miner])
           IN  /\ FirstShare(ofMiner) \in Int /\ LastShare(ofMiner) \in Int
               /\ FirstShare(ofMiner) <= LastShare(ofMiner) /\ LastShare(ofMiner) <= now
               /\ differences.startDifference \in Int /\ differences.endDifference \in Int
               /\ 0 <= differences.startDifference
               /\ differences.startDifference <= FirstShare(ofMiner) - start
               /\ 0 <= differences.endDifference
<1> DEFINE start == now - HashWindow
           window == InWindow(shares, start, now)
           workers == GetWorkerHashAccumulationBetween(shares, start, now)
           ofMiner == {s \in window : s.miner = w.miner}
           miners == {v \in workers : v.miner = w.miner}
           firsts == {v.firstShare : v \in miners}
           lasts == {v.lastShare : v \in miners}
           differences == GetWindowDifferences(now, start, GroupByMiner(workers)[w.miner])
<1>1. /\ window \in SUBSET Rows /\ IsFiniteSet(window) /\ IsFiniteSet(workers)
      /\ \A s \in window : s.created >= start /\ s.created <= now
  BY SharesAreSharedOut
<1>2. workers = {WorkerOf(window, s.miner, s.worker) : s \in window}
  BY WorkersOfWindow
<1>3. start \in Int
  BY Window
<1>4. GroupByMiner(workers)[w.miner] = miners
  BY DEF GroupByMiner
<1>5. differences.startDifference = Min(firsts) - start
      /\ differences.endDifference = now - Max(lasts)
  BY <1>4 DEF GetWindowDifferences
<1> HIDE DEF window, workers, differences, start
\* What a worker reports lies in the window.
<1>6. ASSUME NEW v \in workers
      PROVE  LET S == SharesOf(window, v.miner, v.worker)
             IN  /\ S \in SUBSET window /\ S # {} /\ v.miner \in {s.miner : s \in window}
                 /\ v.firstShare \in Int /\ v.lastShare \in Int
                 /\ v.firstShare >= start /\ v.lastShare <= now
                 /\ \A s \in S : v.firstShare <= s.created
  <2> DEFINE S == SharesOf(window, v.miner, v.worker)
  <2>1. PICK x \in window : v = WorkerOf(window, x.miner, x.worker)
    BY <1>2
  <2>2. x \in S /\ S \in SUBSET window /\ v.miner = x.miner
    BY <2>1 DEF WorkerOf, SharesOf
  <2>3. S \in SUBSET Rows /\ IsFiniteSet(S) /\ S # {}
    BY <1>1, <2>2, FS_Subset
  <2>4. v.firstShare = FirstShare(S) /\ v.lastShare = LastShare(S)
    BY <2>1 DEF WorkerOf
  <2> HIDE DEF S
  <2>5. /\ FirstShare(S) \in Int /\ LastShare(S) \in Int
        /\ \A s \in S : FirstShare(S) <= s.created
        /\ \E s \in S : s.created = FirstShare(S)
        /\ \E s \in S : s.created = LastShare(S)
    BY <2>3, FirstAndLast
  <2> QED
    BY <1>1, <2>2, <2>3, <2>4, <2>5 DEF S
<1>7. /\ firsts \in SUBSET Int /\ lasts \in SUBSET Int
      /\ IsFiniteSet(firsts) /\ IsFiniteSet(lasts) /\ firsts # {} /\ lasts # {}
  <2>1. IsFiniteSet(miners) /\ w \in miners
    BY <1>1, FS_Subset DEF workers, start
  <2>2. firsts \in SUBSET Int /\ lasts \in SUBSET Int
    BY <1>6
  <2> DEFINE f == [v \in miners |-> v.firstShare]
             g == [v \in miners |-> v.lastShare]
  <2>3. f \in Surjection(miners, firsts) /\ g \in Surjection(miners, lasts)
    BY DEF Surjection
  <2>4. firsts # {} /\ lasts # {}
    BY <2>1
  <2> HIDE DEF f, g, miners, firsts, lasts
  <2> QED
    BY <2>1, <2>2, <2>3, <2>4, FS_Surjection
<1>8. /\ Min(firsts) \in firsts /\ \A y \in firsts : Min(firsts) <= y
      /\ Max(lasts) \in lasts
  <2> HIDE DEF firsts, lasts
  <2>1. (\A y \in firsts : y \in Int) /\ (\A y \in lasts : y \in Int)
    BY <1>7
  <2>2. \E x \in firsts : \A y \in firsts : x <= y
    BY <1>7, <2>1, FiniteExtremes
  <2>3. \E x \in lasts : \A y \in lasts : x >= y
    BY <1>7, <2>1, FiniteExtremes
  <2> QED
    BY <2>2, <2>3 DEF Min, Max
<1>9. /\ Min(firsts) \in Int /\ Max(lasts) \in Int
      /\ Min(firsts) >= start /\ Max(lasts) <= now
  BY <1>6, <1>8
<1>10. ofMiner \in SUBSET Rows /\ IsFiniteSet(ofMiner) /\ ofMiner # {}
  <2>1. w \in workers
    BY DEF workers, start
  <2>2. ofMiner # {}
    BY <1>6, <2>1
  <2> QED
    BY <1>1, <2>2, FS_Subset
<1>11. PICK one \in ofMiner, other \in ofMiner :
          /\ one.created = FirstShare(ofMiner) /\ other.created = LastShare(ofMiner)
          /\ FirstShare(ofMiner) \in Int /\ LastShare(ofMiner) \in Int
          /\ FirstShare(ofMiner) <= LastShare(ofMiner)
  <2> HIDE DEF ofMiner
  <2> QED
    BY <1>10, FirstAndLast
<1>12. Min(firsts) <= FirstShare(ofMiner)
  <2> DEFINE v == WorkerOf(window, one.miner, one.worker)
  <2>1. one \in window /\ one.miner = w.miner
    BY <1>11
  <2>2. v \in workers /\ v.miner = one.miner /\ v.worker = one.worker
    BY <1>2, <2>1 DEF WorkerOf
  <2>3. one \in SharesOf(window, v.miner, v.worker)
    BY <2>1, <2>2 DEF SharesOf
  <2> HIDE DEF v
  <2>4. v.firstShare <= one.created
    BY <1>6, <2>2, <2>3
  <2>5. v.firstShare \in firsts /\ v.firstShare \in Int
    BY <1>6, <2>1, <2>2
  <2>6. Min(firsts) <= v.firstShare
    BY <1>8, <2>5
  <2> QED
    BY <1>9, <1>11, <2>4, <2>5, <2>6
<1>13. LastShare(ofMiner) <= now
  BY <1>1, <1>11
<1> QED
  BY <1>3, <1>5, <1>9, <1>11, <1>12, <1>13 DEF window, workers, differences, start

\* The window that a rate is taken over is no shorter than the time between
\* the miner's first share and its last.
LEMMA WindowCovers ==
    ASSUME NEW first \in Int, NEW last \in Int, first <= last, NEW now \in Int, last <= now,
           NEW d, d.startDifference \in Int, d.endDifference \in Int,
           0 <= d.startDifference, 0 <= d.endDifference,
           d.startDifference <= first - (now - HashWindow)
    PROVE  /\ AdjustHashWindow(d, HashWindow) \in Nat
           /\ AdjustHashWindow(d, HashWindow) > 0
           /\ Floor(last - first) \in Nat
           /\ Floor(last - first) <= AdjustHashWindow(d, HashWindow)
<1> DEFINE counted(difference) == IF 10 * difference >= HashWindow THEN difference ELSE 0
           s == counted(d.startDifference)
           e == counted(d.endDifference)
           time == HashWindow - s + e
<1>1. HashWindow \in Nat
  BY Window
<1>2. /\ s \in Int /\ e \in Int /\ s <= d.startDifference /\ e >= 0
  BY <1>1
<1>3. AdjustHashWindow(d, HashWindow) = IF Floor(time) < 1 THEN 1 ELSE Floor(time)
  BY DEF AdjustHashWindow
<1> HIDE DEF s, e
<1>4. time \in Int /\ last - first <= time
  BY <1>1, <1>2
<1> HIDE DEF time
<1> QED
  BY <1>3, <1>4 DEF Floor

\* Every row of statistics is covered by the work of its worker.
LEMMA RowIsEarned ==
    ASSUME NEW shares \in SUBSET Rows, IsFiniteSet(shares), NEW now \in Int,
           NEW row \in StatsAt(shares, now)
    PROVE  RateIsEarned(shares, row)
<1> DEFINE start == now - HashWindow
           window == InWindow(shares, start, now)
           workers == GetWorkerHashAccumulationBetween(shares, start, now)
           D(w) == GetWindowDifferences(now, start, GroupByMiner(workers)[w.miner])
           seconds(w) == AdjustHashWindow(D(w), HashWindow)
<1>1. PICK w \in workers :
          row = [miner |-> w.miner, worker |-> w.worker, created |-> now,
                 hashrate |-> HashrateFromShares(w.sumDifficulty, seconds(w))]
  BY DEF StatsAt, MinerStats
<1> DEFINE ofMiner == {s \in window : s.miner = w.miner}
           S == SharesOf(window, w.miner, w.worker)
           first == FirstShare(ofMiner)
           last == LastShare(ofMiner)
           span == Floor(last - first)
<1>2. window \in SUBSET Rows /\ IsFiniteSet(window)
  BY SharesAreSharedOut
<1>3. /\ first \in Int /\ last \in Int /\ first <= last /\ last <= now
      /\ D(w).startDifference \in Int /\ D(w).endDifference \in Int
      /\ 0 <= D(w).startDifference /\ 0 <= D(w).endDifference
      /\ D(w).startDifference <= first - start
  BY MinersDifferences
<1>4. PICK x \in window : w = WorkerOf(window, x.miner, x.worker)
  BY WorkersOfWindow
<1>5. w.sumDifficulty = SumDifficulty(S)
  BY <1>4 DEF WorkerOf
<1>6. S = {s \in ofMiner : s.worker = row.worker}
  BY <1>1 DEF SharesOf
<1>7. S \in SUBSET Rows /\ IsFiniteSet(S)
  BY <1>2, FS_Subset DEF SharesOf
<1> HIDE DEF S
<1>8. SumDifficulty(S) \in Nat
  BY <1>7, RowsAreFinite
<1> DEFINE diff == D(w)
<1>9. /\ diff.startDifference \in Int /\ diff.endDifference \in Int
      /\ 0 <= diff.startDifference /\ 0 <= diff.endDifference
      /\ diff.startDifference <= first - (now - HashWindow)
      /\ seconds(w) = AdjustHashWindow(diff, HashWindow)
      /\ first \in Int /\ last \in Int /\ first <= last /\ last <= now
  BY <1>3
<1> HIDE DEF diff, first, last, D, seconds, ofMiner, window, workers
<1>10. /\ seconds(w) \in Nat /\ seconds(w) > 0
       /\ Floor(last - first) \in Nat /\ Floor(last - first) <= seconds(w)
  BY <1>9, WindowCovers
<1>11. Max({span, 1}) \in Nat /\ Max({span, 1}) <= seconds(w)
  <2>1. Max({span, 1}) \in {span, 1}
    <3>1. \E z \in {span, 1} : \A y \in {span, 1} : z >= y
      BY <1>10
    <3> QED
      BY <3>1 DEF Max
  <2> QED
    BY <1>10, <2>1
<1>12. row.hashrate * Max({span, 1}) <= RateScale * SumDifficulty(S)
  BY <1>1, <1>5, <1>8, <1>10, <1>11, RateIsCovered
<1>13. row.created = now /\ row.miner = w.miner
  BY <1>1
<1> QED
  BY <1>6, <1>12, <1>13 DEF RateIsEarned, ofMiner, window, first, last, start

LEMMA RowsFinite == IsFiniteSet(Rows)
<1> DEFINE P == (Miners \X Workers) \X (Times \X Difficulties)
           f == [p \in P |-> [miner |-> p[1][1], worker |-> p[1][2],
                              created |-> p[2][1], difficulty |-> p[2][2]]]
<1>1. IsFiniteSet(Miners \X Workers) /\ IsFiniteSet(Times \X Difficulties)
  BY ComputationsAssumption, FS_Product
<1>2. IsFiniteSet(P)
  BY <1>1, FS_Product
<1>3. \A p \in P : f[p] \in Rows
  BY DEF Rows
<1>4. ASSUME NEW r \in Rows
      PROVE  \E p \in P : f[p] = r
  <2> DEFINE q == <<<<r.miner, r.worker>>, <<r.created, r.difficulty>>>>
  <2>1. q \in P
    BY DEF Rows
  <2>2. f[q] = r
    BY <2>1 DEF Rows
  <2> QED
    BY <2>1, <2>2
<1>5. f \in Surjection(P, Rows)
  BY <1>3, <1>4 DEF Surjection
<1> HIDE DEF P, f
<1> QED
  BY <1>2, <1>5, FS_Surjection

-----------------------------------------------------------------------------
(* The input of a behaviour is one of those enumerated. *)

IsTemplate(i) ==
    \E height \in Heights, length \in Lengths, n \in Counts, witness \in BOOLEAN :
        i = [kind |-> "template", template |-> Template(height, length, n, witness)]

IsProof(i) ==
    \E chains \in 1 .. MaxChains, rootSize \in Trees, branchSize \in Trees :
    \E chainIDs \in [1 .. chains -> ChainIDs], n \in 1 .. chains :
        /\ Fits(rootSize, AuxBlocks(chainIDs)) /\ Fits(branchSize, AuxBlocks(chainIDs))
        /\ i = [kind |-> "proof", auxblocks |-> AuxBlocks(chainIDs), n |-> n,
                rootSize |-> rootSize, branchSize |-> branchSize]

IsWeighing(i) ==
    \E targets \in [1 .. 2 -> Hashes], difficulty \in PoolDifficulties,
       better \in Hashes, worse \in Hashes :
        /\ better <= worse
        /\ i = [kind |-> "weighing", targets |-> targets, difficulty |-> difficulty,
                better |-> better, worse |-> worse]

IsShares(i) ==
    \E shares \in SUBSET Rows, lost \in BOOLEAN :
        i = [kind |-> "shares", shares |-> shares, lost |-> lost]

Picked ==
    \/ input = [kind |-> "none"]
    \/ IsTemplate(input)
    \/ IsProof(input)
    \/ IsWeighing(input)
    \/ IsShares(input)

\* Nothing is picked after an input: every behaviour computes from one of the
\* inputs enumerated.
LEMMA OneInput == Spec => []Picked
<1>1. Init => Picked
  BY DEF Init, Picked
<1>2. Picked /\ [Next]_input => Picked'
  <2> SUFFICES ASSUME Picked, [Next]_input
               PROVE  Picked'
    OBVIOUS
  <2>1. CASE PickTemplate
    <3>1. IsTemplate(input')
      BY <2>1 DEF PickTemplate, IsTemplate
    <3> QED
      BY <3>1 DEF Picked, IsTemplate
  <2>2. CASE PickProof
    <3>1. IsProof(input')
      BY <2>2 DEF PickProof, IsProof
    <3> QED
      BY <3>1 DEF Picked, IsProof
  <2>3. CASE PickWeighing
    <3>1. IsWeighing(input')
      BY <2>3 DEF PickWeighing, IsWeighing
    <3> QED
      BY <3>1 DEF Picked, IsWeighing
  <2>4. CASE PickShares
    <3>1. \A shares \in UNION {kSubset(k, Rows) : k \in 0 .. MaxRows} : shares \in SUBSET Rows
      BY DEF kSubset
    <3>2. IsShares(input')
      BY <2>4, <3>1 DEF PickShares, IsShares
    <3> QED
      BY <3>2 DEF Picked, IsShares
  <2>5. CASE UNCHANGED input
    BY <2>5 DEF Picked, IsTemplate, IsProof, IsWeighing, IsShares
  <2> QED
    BY <2>1, <2>2, <2>3, <2>4, <2>5 DEF Next
<1> QED
  BY <1>1, <1>2, PTL DEF Spec

LEMMA Kinds ==
    /\ \A i : IsTemplate(i) => i.kind = "template"
    /\ \A i : IsProof(i) => i.kind = "proof"
    /\ \A i : IsWeighing(i) => i.kind = "weighing"
    /\ \A i : IsShares(i) => i.kind = "shares"
BY DEF IsTemplate, IsProof, IsWeighing, IsShares

\* Shares are weighed by their hash alone, each is counted once, and the rates
\* reported to a miner are covered by its shares (pool/share.go ValidateAndWeighShare,
\* persistence/stats.go), for every hash, target and set of rows.
THEOREM SharesAreCredited == Spec => []WorkIsCredited
<1>1. Picked => WorkIsCredited
  <2> SUFFICES ASSUME Picked
               PROVE  WorkIsCredited
    OBVIOUS
  <2>1. CASE input.kind = "weighing"
    <3>1. IsWeighing(input)
      BY <2>1, Kinds DEF Picked
    <3>2. PICK targets \in [1 .. 2 -> Hashes], difficulty \in PoolDifficulties,
               better \in Hashes, worse \in Hashes :
            /\ better <= worse
            /\ input = [kind |-> "weighing", targets |-> targets, difficulty |-> difficulty,
                        better |-> better, worse |-> worse]
      BY <3>1 DEF IsWeighing
    <3>3. Hashes \subseteq Nat
      BY ComputationsAssumption
    <3>4. targets \in [1 .. 2 -> Nat] /\ better \in Nat /\ worse \in Nat
      BY <3>2, <3>3
    <3>5. WeighedFairly(input)
      BY <3>2, <3>4, Weighed
    <3> QED
      BY <2>1, <3>5 DEF WorkIsCredited
  <2>2. CASE input.kind = "shares"
    <3>1. IsShares(input)
      BY <2>2, Kinds DEF Picked
    <3> DEFINE shares == input.shares
               stats == StatsAt(shares, Now - Interval) \cup
                        (IF input.lost THEN {} ELSE StatsAt(shares, Now))
    <3>2. shares \in SUBSET Rows /\ IsFiniteSet(shares)
      <4>1. shares \in SUBSET Rows
        BY <3>1 DEF IsShares
      <4> HIDE DEF shares
      <4> QED
        BY <4>1, RowsFinite, FS_Subset
    <3>3. Now \in Int /\ Now - Interval \in Int
      <4>1. Times # {} /\ IsFiniteSet(Times) /\ \A t \in Times : t \in Int
        BY ComputationsAssumption
      <4>2. \E x \in Times : \A y \in Times : x >= y
        BY <4>1, FiniteExtremes
      <4>3. Now \in Times
        BY <4>2 DEF Now, Max
      <4> QED
        BY <4>1, <4>3, Window
    <3> HIDE DEF shares
    <3>4. CountedOnce(shares, Now)
      BY <3>2, <3>3, Counted
    <3>5. ASSUME NEW m \in Miners, NEW row \in MinerReport(shares, stats, m, Now, HashWindow)
          PROVE  RateIsEarned(shares, row)
      <4>1. row \in stats
        BY DEF MinerReport, GetMinerStatsByCreatedTime
      <4>2. row \in StatsAt(shares, Now) \/ row \in StatsAt(shares, Now - Interval)
        BY <4>1
      <4> QED
        BY <3>2, <3>3, <4>2, RowIsEarned
    <3> QED
      BY <2>2, <3>4, <3>5 DEF WorkIsCredited, shares
  <2> QED
    BY <2>1, <2>2 DEF WorkIsCredited
<1> QED
  BY <1>1, OneInput, PTL

-----------------------------------------------------------------------------
(* Levels of Merkle trees.  The recursive functions of MerkleTrees exist:  *)
(* a function up to an index extends to the next one.                      *)

IsSequence(l) == \E S : l \in Seq(S)

LEMMA FunctionIsSequence ==
    ASSUME NEW n \in Nat, NEW p, p = [i \in 1 .. n |-> p[i]]
    PROVE  IsSequence(p) /\ Len(p) = n
<1> DEFINE T == {p[i] : i \in 1 .. n}
<1>1. \A i \in 1 .. n : p[i] \in T
  OBVIOUS
<1> HIDE DEF T
<1>2. p \in [1 .. n -> T]
  BY <1>1
<1>3. p \in Seq(T) /\ Len(p) = n
  BY <1>2
<1> QED
  BY <1>3 DEF IsSequence

LEMMA Halves ==
    ASSUME NEW l \in Nat, NEW i \in 1 .. (l + 1) \div 2
    PROVE  /\ i \in Nat /\ 2 * i - 1 \in 1 .. l
           /\ 2 * i <= l \/ (2 * i = l + 1 /\ l % 2 = 1)
<1>1. 2 * ((l + 1) \div 2) <= l + 1 /\ (l + 1) \div 2 \in Nat
  OBVIOUS
<1>2. i \in Nat /\ 1 <= i /\ 2 * i <= l + 1
  BY <1>1
<1>3. CASE 2 * i <= l
  BY <1>2, <1>3
<1>4. CASE 2 * i = l + 1
  BY <1>2, <1>4
<1> QED
  BY <1>2, <1>3, <1>4

LEMMA PairedLevel ==
    ASSUME NEW l, IsSequence(l)
    PROVE  /\ IsSequence(Paired(l))
           /\ Len(Paired(l)) = (Len(l) + 1) \div 2
           /\ \A i \in 1 .. Len(Paired(l)) :
                 Paired(l)[i] = Join(l[2 * i - 1],
                                     IF 2 * i <= Len(l) THEN l[2 * i] ELSE l[2 * i - 1])
<1>1. PICK S : l \in Seq(S)
  BY DEF IsSequence
<1> DEFINE m == IF Len(l) % 2 = 1 THEN Append(l, Last(l)) ELSE l
           n == Len(m) \div 2
           p == [i \in 1 .. n |-> Join(m[2 * i - 1], m[2 * i])]
<1>2. Paired(l) = p
  BY DEF Paired, Joined
<1>3. Len(l) \in Nat /\ n \in Nat /\ n = (Len(l) + 1) \div 2
  <2>1. Len(l) \in Nat
    BY <1>1
  <2>2. CASE Len(l) % 2 = 1
    <3>1. Last(l) \in S
      BY <1>1, <2>1, <2>2 DEF Last
    <3>2. Len(m) = Len(l) + 1
      BY <1>1, <2>2, <3>1
    <3> QED
      BY <2>1, <2>2, <3>2
  <2>3. CASE Len(l) % 2 # 1
    BY <2>1, <2>3
  <2> QED
    BY <2>2, <2>3
<1>4. ASSUME NEW i \in 1 .. n
      PROVE  p[i] = Join(l[2 * i - 1], IF 2 * i <= Len(l) THEN l[2 * i] ELSE l[2 * i - 1])
  <2>1. 2 * i - 1 \in 1 .. Len(l) /\ (2 * i <= Len(l) \/ (2 * i = Len(l) + 1 /\ Len(l) % 2 = 1))
    BY <1>3, Halves
  <2>2. m[2 * i - 1] = l[2 * i - 1]
    BY <1>1, <1>3, <2>1 DEF Last
  <2>3. CASE 2 * i <= Len(l)
    <3>1. m[2 * i] = l[2 * i]
      BY <1>1, <1>3, <2>3 DEF Last
    <3> QED
      BY <2>2, <2>3, <3>1
  <2>4. CASE 2 * i = Len(l) + 1 /\ Len(l) % 2 = 1
    <3>1. m[2 * i] = l[2 * i - 1]
      BY <1>1, <1>3, <2>4 DEF Last
    <3> QED
      BY <1>3, <2>2, <2>4, <3>1
  <2> QED
    BY <2>1, <2>3, <2>4
<1> HIDE DEF n
<1>5. p = [i \in 1 .. n |-> p[i]]
  OBVIOUS
<1> HIDE DEF p
<1>6. IsSequence(p) /\ Len(p) = n
  BY <1>3, <1>5, FunctionIsSequence
<1> QED
  BY <1>2, <1>3, <1>4, <1>6

\* The levels of a tree, up to one
TreeUpto(leaves, n, g) ==
    g = [k \in 0 .. n |-> IF k = 0 THEN leaves ELSE Paired(g[k - 1])]

LEMMA TreeExists ==
    ASSUME NEW leaves, NEW n \in Nat
    PROVE  \E g : TreeUpto(leaves, n, g)
<1> DEFINE Bad == {m \in 0 .. n : ~ \E g : TreeUpto(leaves, m, g)}
<1> SUFFICES ASSUME Bad # {}
             PROVE  FALSE
  OBVIOUS
<1>1. PICK m \in Bad : \A k \in Bad : m <= k
  BY LeastIndex
<1>2. m \in Nat /\ m \in 0 .. n /\ ~ \E g : TreeUpto(leaves, m, g)
  OBVIOUS
<1>3. CASE m = 0
  <2>1. TreeUpto(leaves, 0, [k \in 0 .. 0 |-> leaves])
    BY DEF TreeUpto
  <2> QED
    BY <1>2, <1>3, <2>1
<1>4. CASE m # 0
  <2>1. m - 1 \in 0 .. n /\ m - 1 \notin Bad
    BY <1>1, <1>2, <1>4
  <2>2. PICK g : TreeUpto(leaves, m - 1, g)
    BY <2>1
  <2> DEFINE h == [k \in 0 .. m |-> IF k < m THEN g[k] ELSE Paired(g[m - 1])]
  <2>3. ASSUME NEW k \in 0 .. m
        PROVE  h[k] = IF k = 0 THEN leaves ELSE Paired(h[k - 1])
    <3>1. CASE k = m
      BY <1>2, <1>4, <3>1
    <3>2. CASE k # m
      <4>1. k \in 0 .. m - 1 /\ k \in Nat /\ k < m
        BY <1>2, <3>2
      <4>2. g[k] = IF k = 0 THEN leaves ELSE Paired(g[k - 1])
        BY <2>2, <4>1 DEF TreeUpto
      <4>3. k # 0 => h[k - 1] = g[k - 1]
        BY <1>2, <4>1
      <4> QED
        BY <1>2, <4>1, <4>2, <4>3
    <3> QED
      BY <3>1, <3>2
  <2>4. TreeUpto(leaves, m, h)
    BY <2>3 DEF TreeUpto
  <2> QED
    BY <1>2, <2>4
<1> QED
  BY <1>3, <1>4

LEMMA TreeLevelsAre ==
    ASSUME NEW leaves, Len(leaves) \in Nat
    PROVE  TreeUpto(leaves, Len(leaves), TreeLevels(leaves))
<1>1. \E g : TreeUpto(leaves, Len(leaves), g)
  BY TreeExists
<1>2. TreeLevels(leaves) = CHOOSE g : TreeUpto(leaves, Len(leaves), g)
  BY DEF TreeLevels, Levels, TreeUpto
<1> QED
  BY <1>1, <1>2

\* The levels of the branch steps, up to one
BranchUpto(ids, n, g) ==
    g = [k \in 0 .. n |-> IF k = 0 THEN ids ELSE Others(g[k - 1])]

LEMMA BranchExists ==
    ASSUME NEW ids, NEW n \in Nat
    PROVE  \E g : BranchUpto(ids, n, g)
<1> DEFINE Bad == {m \in 0 .. n : ~ \E g : BranchUpto(ids, m, g)}
<1> SUFFICES ASSUME Bad # {}
             PROVE  FALSE
  OBVIOUS
<1>1. PICK m \in Bad : \A k \in Bad : m <= k
  BY LeastIndex
<1>2. m \in Nat /\ m \in 0 .. n /\ ~ \E g : BranchUpto(ids, m, g)
  OBVIOUS
<1>3. CASE m = 0
  <2>1. BranchUpto(ids, 0, [k \in 0 .. 0 |-> ids])
    BY DEF BranchUpto
  <2> QED
    BY <1>2, <1>3, <2>1
<1>4. CASE m # 0
  <2>1. m - 1 \in 0 .. n /\ m - 1 \notin Bad
    BY <1>1, <1>2, <1>4
  <2>2. PICK g : BranchUpto(ids, m - 1, g)
    BY <2>1
  <2> DEFINE h == [k \in 0 .. m |-> IF k < m THEN g[k] ELSE Others(g[m - 1])]
  <2>3. ASSUME NEW k \in 0 .. m
        PROVE  h[k] = IF k = 0 THEN ids ELSE Others(h[k - 1])
    <3>1. CASE k = m
      BY <1>2, <1>4, <3>1
    <3>2. CASE k # m
      <4>1. k \in 0 .. m - 1 /\ k \in Nat /\ k < m
        BY <1>2, <3>2
      <4>2. g[k] = IF k = 0 THEN ids ELSE Others(g[k - 1])
        BY <2>2, <4>1 DEF BranchUpto
      <4>3. k # 0 => h[k - 1] = g[k - 1]
        BY <1>2, <4>1
      <4> QED
        BY <1>2, <4>1, <4>2, <4>3
    <3> QED
      BY <3>1, <3>2
  <2>4. BranchUpto(ids, m, h)
    BY <2>3 DEF BranchUpto
  <2> QED
    BY <1>2, <2>4
<1> QED
  BY <1>3, <1>4

LEMMA BranchLevelsAre ==
    ASSUME NEW ids, Len(ids) \in Nat
    PROVE  BranchUpto(ids, Len(ids), Levels(Others, ids))
<1>1. \E g : BranchUpto(ids, Len(ids), g)
  BY BranchExists
<1>2. Levels(Others, ids) = CHOOSE g : BranchUpto(ids, Len(ids), g)
  BY DEF Levels, BranchUpto
<1> QED
  BY <1>1, <1>2

\* The roots that the steps make of a coinbase, up to one
RootUpto(coinbase, steps, n, g) ==
    g = [k \in 0 .. n |-> IF k = 0 THEN coinbase ELSE Join(g[k - 1], steps[k])]

LEMMA RootExists ==
    ASSUME NEW coinbase, NEW steps, NEW n \in Nat
    PROVE  \E g : RootUpto(coinbase, steps, n, g)
<1> DEFINE Bad == {m \in 0 .. n : ~ \E g : RootUpto(coinbase, steps, m, g)}
<1> SUFFICES ASSUME Bad # {}
             PROVE  FALSE
  OBVIOUS
<1>1. PICK m \in Bad : \A k \in Bad : m <= k
  BY LeastIndex
<1>2. m \in Nat /\ m \in 0 .. n /\ ~ \E g : RootUpto(coinbase, steps, m, g)
  OBVIOUS
<1>3. CASE m = 0
  <2>1. RootUpto(coinbase, steps, 0, [k \in 0 .. 0 |-> coinbase])
    BY DEF RootUpto
  <2> QED
    BY <1>2, <1>3, <2>1
<1>4. CASE m # 0
  <2>1. m - 1 \in 0 .. n /\ m - 1 \notin Bad
    BY <1>1, <1>2, <1>4
  <2>2. PICK g : RootUpto(coinbase, steps, m - 1, g)
    BY <2>1
  <2> DEFINE h == [k \in 0 .. m |-> IF k < m THEN g[k] ELSE Join(g[m - 1], steps[m])]
  <2>3. ASSUME NEW k \in 0 .. m
        PROVE  h[k] = IF k = 0 THEN coinbase ELSE Join(h[k - 1], steps[k])
    <3>1. CASE k = m
      BY <1>2, <1>4, <3>1
    <3>2. CASE k # m
      <4>1. k \in 0 .. m - 1 /\ k \in Nat /\ k < m
        BY <1>2, <3>2
      <4>2. g[k] = IF k = 0 THEN coinbase ELSE Join(g[k - 1], steps[k])
        BY <2>2, <4>1 DEF RootUpto
      <4>3. k # 0 => h[k - 1] = g[k - 1]
        BY <1>2, <4>1
      <4> QED
        BY <1>2, <4>1, <4>2, <4>3
    <3> QED
      BY <3>1, <3>2
  <2>4. RootUpto(coinbase, steps, m, h)
    BY <2>3 DEF RootUpto
  <2> QED
    BY <1>2, <2>4
<1> QED
  BY <1>3, <1>4

LEMMA RootIs ==
    ASSUME NEW coinbase, NEW steps, Len(steps) \in Nat
    PROVE  \E g : /\ RootUpto(coinbase, steps, Len(steps), g)
                  /\ MakeHeaderMerkleRoot(coinbase, steps) = g[Len(steps)]
<1> DEFINE root == CHOOSE g : RootUpto(coinbase, steps, Len(steps), g)
<1>1. \E g : RootUpto(coinbase, steps, Len(steps), g)
  BY RootExists
<1>2. MakeHeaderMerkleRoot(coinbase, steps) = root[Len(steps)]
  BY DEF MakeHeaderMerkleRoot, RootUpto
<1> QED
  BY <1>1, <1>2

\* One hash of a branch, on the left or on the right
AccStep(branch, mask, k, hash) ==
    IF Shifted(mask, k - 1) % 2 = 1 THEN Join(branch[k], hash) ELSE Join(hash, branch[k])

\* What the hashes of a branch make of one, up to one
AccUpto(hash, branch, mask, n, g) ==
    g = [k \in 0 .. n |-> IF k = 0 THEN hash ELSE AccStep(branch, mask, k, g[k - 1])]

LEMMA AccExists ==
    ASSUME NEW hash, NEW branch, NEW mask, NEW n \in Nat
    PROVE  \E g : AccUpto(hash, branch, mask, n, g)
<1> DEFINE Bad == {m \in 0 .. n : ~ \E g : AccUpto(hash, branch, mask, m, g)}
<1> SUFFICES ASSUME Bad # {}
             PROVE  FALSE
  OBVIOUS
<1>1. PICK m \in Bad : \A k \in Bad : m <= k
  BY LeastIndex
<1>2. m \in Nat /\ m \in 0 .. n /\ ~ \E g : AccUpto(hash, branch, mask, m, g)
  OBVIOUS
<1>3. CASE m = 0
  <2>1. AccUpto(hash, branch, mask, 0, [k \in 0 .. 0 |-> hash])
    BY DEF AccUpto
  <2> QED
    BY <1>2, <1>3, <2>1
<1>4. CASE m # 0
  <2>1. m - 1 \in 0 .. n /\ m - 1 \notin Bad
    BY <1>1, <1>2, <1>4
  <2>2. PICK g : AccUpto(hash, branch, mask, m - 1, g)
    BY <2>1
  <2> DEFINE h == [k \in 0 .. m |-> IF k < m THEN g[k] ELSE AccStep(branch, mask, m, g[m - 1])]
  <2>3. ASSUME NEW k \in 0 .. m
        PROVE  h[k] = IF k = 0 THEN hash ELSE AccStep(branch, mask, k, h[k - 1])
    <3>1. CASE k = m
      BY <1>2, <1>4, <3>1
    <3>2. CASE k # m
      <4>1. k \in 0 .. m - 1 /\ k \in Nat /\ k < m
        BY <1>2, <3>2
      <4>2. g[k] = IF k = 0 THEN hash ELSE AccStep(branch, mask, k, g[k - 1])
        BY <2>2, <4>1 DEF AccUpto
      <4>3. k # 0 => h[k - 1] = g[k - 1]
        BY <1>2, <4>1
      <4> QED
        BY <1>2, <4>1, <4>2, <4>3
    <3> QED
      BY <3>1, <3>2
  <2>4. AccUpto(hash, branch, mask, m, h)
    BY <2>3 DEF AccUpto
  <2> QED
    BY <1>2, <2>4
<1> QED
  BY <1>3, <1>4

LEMMA FoldedIs ==
    ASSUME NEW hash, NEW branch, NEW mask, Len(branch) \in Nat
    PROVE  \E g : /\ AccUpto(hash, branch, mask, Len(branch), g)
                  /\ Folded(hash, branch, mask) = g[Len(branch)]
<1> DEFINE acc == CHOOSE g : AccUpto(hash, branch, mask, Len(branch), g)
<1>1. \E g : AccUpto(hash, branch, mask, Len(branch), g)
  BY AccExists
<1>2. Folded(hash, branch, mask) = acc[Len(branch)]
  BY DEF Folded, AccUpto, AccStep
<1> QED
  BY <1>1, <1>2

\* The levels of the branch shrink until one is empty.
LEMMA BranchShrinks ==
    ASSUME NEW ids, IsSequence(ids),
           NEW T, BranchUpto(ids, Len(ids), T)
    PROVE  /\ Len(ids) \in Nat /\ DOMAIN T = 0 .. Len(ids) /\ T[0] = ids
           /\ \A k \in 0 .. Len(ids) :
                 (\A j \in 0 .. k - 1 : Len(T[j]) > 0)
                   => IsSequence(T[k]) /\ Len(T[k]) \in Nat /\ Len(T[k]) + k <= Len(ids)
<1> DEFINE n == Len(ids)
           Holds(k) == (\A j \in 0 .. k - 1 : Len(T[j]) > 0)
                         => IsSequence(T[k]) /\ Len(T[k]) \in Nat /\ Len(T[k]) + k <= n
           Bad == {k \in 0 .. n : ~Holds(k)}
<1>1. n \in Nat
  BY DEF IsSequence
<1>2. /\ DOMAIN T = 0 .. n /\ T[0] = ids
      /\ \A k \in 0 .. n : k # 0 => T[k] = Others(T[k - 1])
  BY <1>1 DEF BranchUpto
<1>3. Bad = {}
  <2> SUFFICES ASSUME Bad # {}
               PROVE  FALSE
    OBVIOUS
  <2> HIDE DEF n
  <2>1. PICK k \in Bad : \A j \in Bad : k <= j
    <3>1. Bad \in SUBSET (0 .. n) /\ Bad # {}
      OBVIOUS
    <3> HIDE DEF Bad
    <3> QED
      BY <1>1, <3>1, LeastIndex
  <2>2. k \in 0 .. n /\ k \in Nat /\ \A j \in 0 .. k - 1 : Len(T[j]) > 0
    BY <2>1
  <2>3. CASE k = 0
    BY <1>1, <1>2, <2>1, <2>3 DEF n
  <2>4. CASE k # 0
    <3> DEFINE l == T[k - 1]
    <3>1. Holds(k - 1)
      BY <1>1, <2>1, <2>2, <2>4
    <3>2. k - 1 \in 0 .. k - 1 /\ \A j \in 0 .. k - 1 - 1 : j \in 0 .. k - 1
      BY <2>2, <2>4
    <3>3. IsSequence(l) /\ Len(l) \in Nat /\ Len(l) > 0 /\ Len(l) + k - 1 <= n
      BY <1>1, <2>2, <3>1, <3>2
    <3>4. T[k] = Paired(Tail(l))
      BY <1>2, <2>2, <2>4 DEF Others
    <3> HIDE DEF l
    <3>5. IsSequence(Tail(l)) /\ Len(Tail(l)) = Len(l) - 1
      BY <3>3 DEF IsSequence
    <3>6. IsSequence(T[k]) /\ Len(T[k]) = (Len(l) - 1 + 1) \div 2
      BY <3>4, <3>5, PairedLevel
    <3>7. Len(T[k]) \in Nat /\ Len(T[k]) + k <= n
      BY <1>1, <2>2, <3>3, <3>6
    <3> QED
      BY <2>1, <3>6, <3>7
  <2> QED
    BY <2>3, <2>4
<1> QED
  BY <1>1, <1>2, <1>3

LEMMA BranchEnds ==
    ASSUME NEW ids, IsSequence(ids),
           NEW T, BranchUpto(ids, Len(ids), T)
    PROVE  LET e == LoopEnd(T, 0)
           IN  /\ e \in 0 .. Len(ids) /\ e \in Nat
               /\ \A k \in 0 .. e : IsSequence(T[k]) /\ Len(T[k]) \in Nat
               /\ \A k \in 0 .. e - 1 : Len(T[k]) > 0
               /\ Len(T[e]) = 0
<1> DEFINE n == Len(ids)
           Ends(k) == Len(T[k]) <= 0 /\ \A j \in 0 .. k - 1 : Len(T[j]) > 0
           Bad == {k \in 0 .. n : ~ Len(T[k]) > 0}
<1>1. /\ n \in Nat /\ DOMAIN T = 0 .. n
      /\ \A k \in 0 .. n :
            (\A j \in 0 .. k - 1 : Len(T[j]) > 0)
              => IsSequence(T[k]) /\ Len(T[k]) \in Nat /\ Len(T[k]) + k <= n
  BY BranchShrinks
<1> HIDE DEF n
<1>2. Bad # {}
  <2> SUFFICES ASSUME \A k \in 0 .. n : Len(T[k]) > 0
               PROVE  FALSE
    OBVIOUS
  <2>1. n \in 0 .. n /\ \A j \in 0 .. n - 1 : Len(T[j]) > 0
    BY <1>1
  <2>2. Len(T[n]) \in Nat /\ Len(T[n]) + n <= n /\ Len(T[n]) > 0
    BY <1>1, <2>1
  <2> QED
    BY <1>1, <2>2
<1>3. PICK m \in Bad : \A j \in Bad : m <= j
  <2> HIDE DEF Bad
  <2>1. Bad \in SUBSET (0 .. n)
    BY DEF Bad
  <2> QED
    BY <1>1, <1>2, <2>1, LeastIndex
<1>4. m \in 0 .. n /\ Ends(m)
  <2>1. \A j \in 0 .. m - 1 : Len(T[j]) > 0
    BY <1>1, <1>3
  <2> QED
    BY <1>1, <1>3, <2>1
<1>5. LoopEnd(T, 0) \in 0 .. n /\ Ends(LoopEnd(T, 0))
  BY <1>1, <1>4 DEF LoopEnd
<1> DEFINE e == LoopEnd(T, 0)
<1> HIDE DEF e
<1>6. e \in 0 .. n /\ e \in Nat /\ Len(T[e]) <= 0 /\ \A j \in 0 .. e - 1 : Len(T[j]) > 0
  BY <1>1, <1>5 DEF e
<1>7. ASSUME NEW k \in 0 .. e
      PROVE  IsSequence(T[k]) /\ Len(T[k]) \in Nat
  <2>1. k \in 0 .. n /\ \A j \in 0 .. k - 1 : j \in 0 .. e - 1
    BY <1>1, <1>6
  <2> QED
    BY <1>1, <1>6, <2>1
<1>8. Len(T[e]) = 0
  BY <1>6, <1>7
<1> QED
  BY <1>6, <1>7, <1>8 DEF e, n

\* The coinbase's level is the level of the branch with one hash before it.
LEMMA LevelsAgree ==
    ASSUME NEW c, NEW r, NEW l, NEW t, IsSequence(l), IsSequence(t), Len(t) > 0,
           Len(l) = Len(t) + 1, l[1] = r, \A i \in 1 .. Len(t) : l[i + 1] = t[i]
    PROVE  LET up == Paired(l)
               others == Others(t)
           IN  /\ IsSequence(up) /\ IsSequence(others)
               /\ Len(up) = Len(others) + 1
               /\ up[1] = Join(r, Head(t))
               /\ \A i \in 1 .. Len(others) : up[i + 1] = others[i]
<1> DEFINE up == Paired(l)
           others == Others(t)
           n == Len(t)
<1>1. n \in Nat /\ n > 0 /\ Len(l) = n + 1 /\ Head(t) = t[1]
  BY DEF IsSequence
<1>2. /\ IsSequence(Tail(t)) /\ Len(Tail(t)) = n - 1
      /\ \A i \in 1 .. n - 1 : Tail(t)[i] = t[i + 1]
  BY <1>1 DEF IsSequence
<1>3. /\ IsSequence(up) /\ Len(up) = (n + 2) \div 2
      /\ \A i \in 1 .. Len(up) :
            up[i] = Join(l[2 * i - 1], IF 2 * i <= n + 1 THEN l[2 * i] ELSE l[2 * i - 1])
  <2>1. /\ IsSequence(up) /\ Len(up) = (Len(l) + 1) \div 2
        /\ \A i \in 1 .. Len(up) :
              up[i] = Join(l[2 * i - 1], IF 2 * i <= Len(l) THEN l[2 * i] ELSE l[2 * i - 1])
    BY PairedLevel
  <2> HIDE DEF up
  <2>2. (Len(l) + 1) \div 2 = (n + 2) \div 2
    BY <1>1
  <2> QED
    BY <1>1, <2>1, <2>2
<1>4. /\ IsSequence(others) /\ Len(others) = n \div 2
      /\ \A i \in 1 .. Len(others) :
            others[i] = Join(Tail(t)[2 * i - 1],
                             IF 2 * i <= n - 1 THEN Tail(t)[2 * i] ELSE Tail(t)[2 * i - 1])
  <2> DEFINE u == Tail(t)
  <2>1. IsSequence(u) /\ Len(u) = n - 1
    BY <1>2
  <2> HIDE DEF u, n
  <2>2. /\ IsSequence(Paired(u)) /\ Len(Paired(u)) = (Len(u) + 1) \div 2
        /\ \A i \in 1 .. Len(Paired(u)) :
              Paired(u)[i] = Join(u[2 * i - 1],
                                  IF 2 * i <= Len(u) THEN u[2 * i] ELSE u[2 * i - 1])
    BY <2>1, PairedLevel
  <2>3. (Len(u) + 1) \div 2 = n \div 2
    BY <1>1, <2>1
  <2>4. others = Paired(u)
    BY DEF Others, u
  <2> HIDE DEF others
  <2> QED
    BY <2>1, <2>2, <2>3, <2>4 DEF u
<1> HIDE DEF up, others
<1>5. Len(up) = Len(others) + 1 /\ Len(others) \in Nat
  BY <1>1, <1>3, <1>4
<1>6. up[1] = Join(r, Head(t))
  <2>1. l[2] = t[1]
    BY <1>1
  <2> QED
    BY <1>1, <1>3, <1>5, <2>1
<1>7. ASSUME NEW i \in 1 .. Len(others)
      PROVE  up[i + 1] = others[i]
  <2>1. i \in Nat /\ 1 <= i /\ 2 * i <= n /\ i + 1 \in 1 .. Len(up)
    BY <1>1, <1>4, <1>5
  <2>2. l[2 * i + 1] = t[2 * i] /\ Tail(t)[2 * i - 1] = t[2 * i]
    BY <1>1, <1>2, <2>1
  <2>3. CASE 2 * i + 1 <= n
    <3>1. l[2 * i + 2] = t[2 * i + 1] /\ Tail(t)[2 * i] = t[2 * i + 1]
      BY <1>1, <1>2, <2>1, <2>3
    <3>2. up[i + 1] = Join(l[2 * i + 1], l[2 * i + 2])
      BY <1>1, <1>3, <2>1, <2>3
    <3>3. others[i] = Join(Tail(t)[2 * i - 1], Tail(t)[2 * i])
      <4>1. 2 * i <= n - 1
        BY <1>1, <2>1, <2>3
      <4> QED
        BY <1>4, <4>1
    <3> QED
      BY <2>2, <3>1, <3>2, <3>3
  <2>4. CASE ~ (2 * i + 1 <= n)
    <3>1. up[i + 1] = Join(l[2 * i + 1], l[2 * i + 1])
      BY <1>1, <1>3, <2>1, <2>4
    <3>2. others[i] = Join(Tail(t)[2 * i - 1], Tail(t)[2 * i - 1])
      BY <1>1, <1>4, <2>1, <2>4
    <3> QED
      BY <2>2, <3>1, <3>2
  <2> QED
    BY <2>3, <2>4
<1> QED
  BY <1>3, <1>4, <1>5, <1>6, <1>7 DEF up, others

\* The steps lead from the coinbase to the root of the tree over the coinbase
\* and the transactions, however many there are.
LEMMA RootsAgree ==
    ASSUME NEW c, NEW ids, IsSequence(ids)
    PROVE  MakeHeaderMerkleRoot(c, TemplateMerkleBranchSteps(ids)) = MerkleRoot(<<c>> \o ids)
<1> DEFINE T == Levels(Others, ids)
           e == LoopEnd(T, 0)
           steps == TemplateMerkleBranchSteps(ids)
           leaves == <<c>> \o ids
           L == TreeLevels(leaves)
<1>1. Len(ids) \in Nat /\ BranchUpto(ids, Len(ids), T)
  BY BranchLevelsAre DEF IsSequence
<1>2. /\ e \in 0 .. Len(ids) /\ e \in Nat
      /\ \A k \in 0 .. e : IsSequence(T[k]) /\ Len(T[k]) \in Nat
      /\ \A k \in 0 .. e - 1 : Len(T[k]) > 0
      /\ Len(T[e]) = 0
  BY <1>1, BranchEnds
<1>3. T[0] = ids /\ \A k \in 1 .. Len(ids) : T[k] = Others(T[k - 1])
  BY <1>1 DEF BranchUpto
<1>4. Len(steps) = e /\ \A k \in 1 .. e : steps[k] = Head(T[k - 1])
  BY <1>2 DEF TemplateMerkleBranchSteps
<1>5. /\ IsSequence(leaves) /\ Len(leaves) = Len(ids) + 1 /\ leaves[1] = c
      /\ \A i \in 1 .. Len(ids) : leaves[i + 1] = ids[i]
  <2>1. PICK S : ids \in Seq(S)
    BY DEF IsSequence
  <2>2. ids \in Seq(S \cup {c}) /\ <<c>> \in Seq(S \cup {c})
    BY <2>1
  <2>3. leaves \in Seq(S \cup {c})
    BY <2>2
  <2> QED
    BY <2>2, <2>3 DEF IsSequence
<1> HIDE DEF T, steps, leaves, L
<1>6. TreeUpto(leaves, Len(ids) + 1, L)
  BY <1>1, <1>5, TreeLevelsAre DEF L
<1>7. /\ DOMAIN L = 0 .. Len(ids) + 1 /\ L[0] = leaves
      /\ \A k \in 1 .. Len(ids) + 1 : L[k] = Paired(L[k - 1])
  BY <1>1, <1>6 DEF TreeUpto
<1> HIDE DEF e
<1>8. PICK root : /\ RootUpto(c, steps, e, root)
                  /\ MakeHeaderMerkleRoot(c, steps) = root[e]
  BY <1>2, <1>4, RootIs
<1>9. root[0] = c /\ \A k \in 1 .. e : root[k] = Join(root[k - 1], Head(T[k - 1]))
  BY <1>2, <1>4, <1>8 DEF RootUpto
<1> DEFINE Holds(k) == /\ IsSequence(L[k]) /\ Len(L[k]) = Len(T[k]) + 1
                       /\ L[k][1] = root[k]
                       /\ \A i \in 1 .. Len(T[k]) : L[k][i + 1] = T[k][i]
           Bad == {k \in 0 .. e : ~Holds(k)}
<1>10. Bad = {}
  <2> SUFFICES ASSUME Bad # {}
               PROVE  FALSE
    OBVIOUS
  <2>1. PICK k \in Bad : \A j \in Bad : k <= j
    <3>1. Bad \in SUBSET (0 .. e) /\ Bad # {}
      OBVIOUS
    <3> HIDE DEF Bad
    <3> QED
      BY <1>2, <3>1, LeastIndex
  <2>2. k \in 0 .. e /\ k \in Nat /\ ~Holds(k)
    BY <1>2, <2>1
  <2>3. CASE k = 0
    BY <1>3, <1>5, <1>7, <1>9, <2>2, <2>3
  <2>4. CASE k # 0
    <3>1. /\ k - 1 \in 0 .. e - 1 /\ k - 1 \in 0 .. e /\ k \in 1 .. e
          /\ k \in 1 .. Len(ids) /\ k \in 1 .. Len(ids) + 1
      BY <1>1, <1>2, <2>2, <2>4
    <3>2. Holds(k - 1)
      BY <2>1, <2>2, <3>1
    <3> HIDE DEF Bad
    <3>3. IsSequence(T[k - 1]) /\ Len(T[k - 1]) > 0
      BY <1>2, <3>1
    <3>4. Holds(k)
      <4> DEFINE l == L[k - 1]
                 t == T[k - 1]
                 r == root[k - 1]
      <4>1. /\ IsSequence(l) /\ IsSequence(t) /\ Len(t) > 0
            /\ Len(l) = Len(t) + 1 /\ l[1] = r /\ \A i \in 1 .. Len(t) : l[i + 1] = t[i]
        BY <3>2, <3>3
      <4>2. /\ L[k] = Paired(l) /\ T[k] = Others(t) /\ root[k] = Join(r, Head(t))
        BY <1>3, <1>7, <1>9, <3>1
      <4> HIDE DEF l, t, r
      <4>3. /\ IsSequence(Paired(l)) /\ Len(Paired(l)) = Len(Others(t)) + 1
            /\ Paired(l)[1] = Join(r, Head(t))
            /\ \A i \in 1 .. Len(Others(t)) : Paired(l)[i + 1] = Others(t)[i]
        BY <4>1, LevelsAgree
      <4> QED
        BY <4>2, <4>3
    <3> QED
      BY <2>2, <3>4
  <2> QED
    BY <2>3, <2>4
<1>11. \A k \in 0 .. e : Holds(k)
  BY <1>10
<1>12. LoopEnd(L, 1) = e
  <2>1. e \in DOMAIN L /\ Len(L[e]) <= 1 /\ \A j \in 0 .. e - 1 : Len(L[j]) > 1
    <3>1. e \in 0 .. e /\ \A j \in 0 .. e - 1 : j \in 0 .. e
      BY <1>2
    <3>2. Len(L[e]) = 1
      <4>1. Len(L[e]) = Len(T[e]) + 1
        BY <1>11, <3>1
      <4>2. Len(T[e]) = 0
        BY <1>2
      <4> QED
        BY <4>1, <4>2
    <3>3. \A j \in 0 .. e - 1 : Len(L[j]) > 1
      <4> SUFFICES ASSUME NEW j \in 0 .. e - 1
                   PROVE  Len(L[j]) > 1
        OBVIOUS
      <4>1. Len(L[j]) = Len(T[j]) + 1 /\ Len(T[j]) \in Nat /\ Len(T[j]) > 0
        BY <1>2, <1>11, <3>1
      <4> QED
        BY <4>1
    <3> QED
      BY <1>1, <1>2, <1>7, <3>2, <3>3
  <2>2. ASSUME NEW k \in DOMAIN L, Len(L[k]) <= 1, \A j \in 0 .. k - 1 : Len(L[j]) > 1
        PROVE  k = e
    <3>1. k \in Nat
      BY <1>7
    <3>2. CASE k < e
      <4>1. k \in 0 .. e - 1 /\ k \in 0 .. e
        BY <1>2, <3>1, <3>2
      <4>2. Len(L[k]) > 1 /\ Len(L[k]) \in Nat
        BY <1>2, <1>11, <2>1, <4>1
      <4> QED
        BY <2>2, <4>2
    <3>3. CASE k > e
      <4>1. e \in 0 .. k - 1 /\ e \in 0 .. e
        BY <1>2, <3>1, <3>3
      <4>2. Len(L[e]) > 1 /\ Len(L[e]) \in Nat
        BY <1>2, <1>11, <2>2, <4>1
      <4> QED
        BY <2>1, <4>2
    <3> QED
      BY <1>2, <3>1, <3>2, <3>3
  <2> QED
    BY <2>1, <2>2 DEF LoopEnd
<1>13. MerkleRoot(leaves) = L[e][1]
  BY <1>12 DEF MerkleRoot, L
<1>14. L[e][1] = root[e]
  <2>1. e \in 0 .. e
    BY <1>2
  <2> QED
    BY <1>11, <2>1
<1> QED
  BY <1>8, <1>13, <1>14 DEF steps, leaves

-----------------------------------------------------------------------------
(* Headers *)

LEMMA ReversedTwice ==
    ASSUME NEW n \in Nat, NEW s, s = [i \in 1 .. n |-> s[i]]
    PROVE  ReverseBytes(ReverseBytes(s)) = s
<1> DEFINE r == [i \in 1 .. n |-> s[(n - i) + 1]]
<1>1. Len(s) = n
  BY FunctionIsSequence
<1>2. ReverseBytes(s) = r
  BY <1>1 DEF ReverseBytes, Reverse
<1>3. r = [i \in 1 .. n |-> r[i]]
  OBVIOUS
<1>4. \A i \in 1 .. n : r[(n - i) + 1] = s[i]
  OBVIOUS
<1> HIDE DEF r
<1>5. Len(r) = n
  BY <1>3, FunctionIsSequence
<1>6. ReverseBytes(r) = [i \in 1 .. n |-> r[(n - i) + 1]]
  BY <1>5 DEF ReverseBytes, Reverse
<1>7. ReverseBytes(r) = [i \in 1 .. n |-> s[i]]
  BY <1>4, <1>6
<1> QED
  BY <1>2, <1>7

LEMMA FourAndRest ==
    ASSUME NEW q \in Nat, NEW r \in 0 .. 3
    PROVE  \A j : j = 4 * q + r => j \div 4 = q /\ j % 4 = r
OBVIOUS

\* Reversing the words, and the bytes of every word, reverses the bytes.
LEMMA WordsSwapped ==
    ASSUME NEW words \in Nat, NEW s, s = [i \in 1 .. 4 * words |-> s[i]]
    PROVE  SwapWords(ReverseHex4Bytes(s)) = ReverseBytes(s)
<1> DEFINE n == 4 * words
           At(i) == 4 * (words - 1 - ((i - 1) \div 4)) + ((i - 1) % 4) + 1
           To(i) == 4 * ((i - 1) \div 4) + 4 - ((i - 1) % 4)
           r == [i \in 1 .. n |-> s[At(i)]]
<1>1. n \in Nat /\ Len(s) = n /\ n \div 4 = words
  BY FunctionIsSequence
<1>2. ReverseHex4Bytes(s) = r
  BY <1>1 DEF ReverseHex4Bytes
<1>3. SwapWords(r) = [i \in 1 .. n |-> r[To(i)]]
  BY DEF SwapWords
<1>4. ASSUME NEW i \in 1 .. n
      PROVE  r[To(i)] = s[(n - i) + 1]
  <2> DEFINE q == (i - 1) \div 4
             m == (i - 1) % 4
  <2>1. /\ q \in Nat /\ m \in 0 .. 3 /\ i - 1 = 4 * q + m /\ q < words
    BY SMTT(30)
  <2>2. To(i) = 4 * q + 4 - m
    OBVIOUS
  <2> HIDE DEF q, m
  <2> DEFINE j == To(i)
  <2>3. j = 4 * q + 4 - m
    BY <2>2
  <2> HIDE DEF j
  <2>4. j \in 1 .. n /\ j - 1 = 4 * q + (3 - m) /\ 3 - m \in 0 .. 3
    BY <2>1, <2>3
  <2>5. (j - 1) \div 4 = q /\ (j - 1) % 4 = 3 - m
    <3> DEFINE p == 3 - m
               k == j - 1
    <3>1. q \in Nat /\ p \in 0 .. 3 /\ k = 4 * q + p
      BY <2>1, <2>4
    <3> HIDE DEF p, k
    <3>2. k \div 4 = q /\ k % 4 = p
      BY ZenonT(30), <3>1, FourAndRest
    <3> QED
      BY <3>2 DEF p, k
  <2>6. At(j) = 4 * (words - 1 - q) + (3 - m) + 1
    BY <2>5
  <2>7. 4 * (words - 1 - q) + (3 - m) + 1 = (n - i) + 1
    <3>1. i \in Int /\ i = 4 * q + m + 1
      BY <2>1
    <3> HIDE DEF r, To, At
    <3> QED
      BY SMTT(30), <2>1, <3>1
  <2>8. r[j] = s[At(j)]
    BY <2>4
  <2> HIDE DEF r, At, n
  <2> QED
    BY <2>6, <2>7, <2>8 DEF j
<1>5. ReverseBytes(s) = [i \in 1 .. n |-> s[(n - i) + 1]]
  BY <1>1 DEF ReverseBytes, Reverse
<1> HIDE DEF r, n, To
<1>6. [i \in 1 .. n |-> r[To(i)]] = [i \in 1 .. n |-> s[(n - i) + 1]]
  BY <1>4
<1> QED
  BY <1>2, <1>3, <1>5, <1>6

\* The pool and a miner make one header, over the root of the transactions.
LEMMA OneHeader ==
    ASSUME NEW t, IsSequence(t.transactions),
           t.prevBlockHash = [i \in 1 .. 32 |-> t.prevBlockHash[i]],
           t.bits = [i \in 1 .. 4 |-> t.bits[i]]
    PROVE  HeadersAgree(t)
<1> DEFINE block == Generated(t)
           work == Work(t)
           extranonce == Extranonce1 \o Share[Extranonce2Slot]
           made == MadeCoinbase(t, extranonce)
           root == MakeHeaderMerkleRoot(Leaf(made), block.merkleSteps)
<1>1. HeaderOfShare(t, Extranonce1, Share)
        = <<LittleEndian(t.version, 4), ReverseBytes(t.prevBlockHash), root,
            ReverseBytes(Share[NonceTimeSlot]), ReverseBytes(t.bits),
            ReverseBytes(Share[NonceSlot])>>
  BY DEF HeaderOfShare, MakeHeader, BlockHeader, CoinbaseDigest
<1>2. /\ work[2] = ReverseHex4Bytes(t.prevBlockHash) /\ work[3] = block.coinbaseInitial
      /\ work[4] = block.coinbaseFinal /\ work[5] = block.merkleSteps
      /\ work[6] = ReverseBytes(LittleEndian(t.version, 4)) /\ work[7] = t.bits
  <2> HIDE DEF block
  <2> QED
    BY DEF Work, block
<1>3. ReverseBytes(ReverseBytes(LittleEndian(t.version, 4))) = LittleEndian(t.version, 4)
  <2>1. LittleEndian(t.version, 4) = [i \in 1 .. 4 |-> LittleEndian(t.version, 4)[i]]
    BY DEF LittleEndian
  <2> QED
    BY <2>1, ReversedTwice
<1>4. SwapWords(ReverseHex4Bytes(t.prevBlockHash)) = ReverseBytes(t.prevBlockHash)
  <2>1. t.prevBlockHash = [i \in 1 .. 4 * 8 |-> t.prevBlockHash[i]]
    OBVIOUS
  <2> QED
    BY <2>1, WordsSwapped
<1>5. root = MerkleRoot(<<Leaf(made)>> \o t.transactions)
  BY RootsAgree DEF Generated
<1>6. MinerHeader(work, Extranonce1, Share)
        = <<ReverseBytes(work[6]), SwapWords(work[2]),
            MakeHeaderMerkleRoot(Leaf(work[3] \o (Extranonce1 \o Share[3]) \o work[4]), work[5]),
            ReverseBytes(Share[4]), ReverseBytes(work[7]), ReverseBytes(Share[5])>>
  BY DEF MinerHeader
<1>7. work[3] \o (Extranonce1 \o Share[3]) \o work[4] = made
  BY <1>2 DEF MadeCoinbase, Extranonce2Slot
<1> HIDE DEF work, block, extranonce, made, root
<1> QED
  BY <1>1, <1>2, <1>3, <1>4, <1>5, <1>6, <1>7
     DEF HeadersAgree, root, made, extranonce, work, CoinbaseDigest, NonceTimeSlot, NonceSlot

-----------------------------------------------------------------------------
(* Byte strings *)

Strings == Seq(Int)

LEMMA Pieces ==
    ASSUME NEW s \in Strings, NEW t \in Strings
    PROVE  /\ s \o t \in Strings /\ Len(s \o t) = Len(s) + Len(t)
           /\ Len(s) \in Nat /\ Len(t) \in Nat
           /\ \A i \in 1 .. Len(s) : (s \o t)[i] = s[i]
           /\ \A i \in 1 .. Len(t) : (s \o t)[Len(s) + i] = t[i]
           /\ From(s \o t, Len(s) + 1) = t
BY DEF Strings, From

LEMMA Joining ==
    ASSUME NEW s \in Strings, NEW t \in Strings
    PROVE  s \o t \in Strings /\ Len(s \o t) = Len(s) + Len(t)
BY DEF Strings

LEMMA Associates ==
    ASSUME NEW s \in Strings, NEW t \in Strings, NEW u \in Strings
    PROVE  (s \o t) \o u = s \o (t \o u)
BY DEF Strings

LEMMA FirstByte ==
    ASSUME NEW s \in Strings, NEW t \in Strings, Len(s) > 0
    PROVE  (s \o t)[1] = s[1]
BY DEF Strings

LEMMA Middle ==
    ASSUME NEW s \in Strings, NEW t \in Strings, NEW u \in Strings
    PROVE  /\ SubSeq(s \o (t \o u), Len(s) + 1, Len(s) + Len(t)) = t
           /\ (s \o t) \o u = s \o (t \o u)
BY DEF Strings

LEMMA ZeroString == \A n \in Nat : Zero(n) \in Strings /\ Len(Zero(n)) = n
BY DEF Zero, Strings

AreDigits(b, value, n) ==
    /\ b \in Strings /\ Len(b) = n
    /\ b[1] = value % 256
    /\ n > 1 => b[2] = (value \div 256) % 256
    /\ n > 2 => b[3] = (value \div 65536) % 256
    /\ n > 3 => b[4] = (value \div 16777216) % 256

LEMMA LittleEndianDigits ==
    ASSUME NEW n \in 1 .. 8, NEW value \in Nat
    PROVE  AreDigits(LittleEndian(value, n), value, n)
<1> DEFINE digit(i) == IF i > 4 THEN 0 ELSE (value \div 256 ^ (i - 1)) % 256
           d == [i \in 1 .. n |-> digit(i)]
<1>1. 256 ^ 0 = 1 /\ 256 ^ 1 = 256 /\ 256 ^ 2 = 65536 /\ 256 ^ 3 = 16777216
  OBVIOUS
<1>2. /\ digit(1) = value % 256 /\ digit(2) = (value \div 256) % 256
      /\ digit(3) = (value \div 65536) % 256 /\ digit(4) = (value \div 16777216) % 256
  BY <1>1
<1>3. \A i \in 1 .. n : digit(i) \in Int
  <2>1. ASSUME NEW i \in 1 .. n
        PROVE  digit(i) \in Int
    <3>1. i \in 1 .. 4 \/ i > 4
      OBVIOUS
    <3>2. i \in 1 .. 4 => i = 1 \/ i = 2 \/ i = 3 \/ i = 4
      OBVIOUS
    <3>3. value % 256 \in Int /\ (value \div 256) % 256 \in Int
          /\ (value \div 65536) % 256 \in Int /\ (value \div 16777216) % 256 \in Int
      OBVIOUS
    <3>4. i > 4 => digit(i) = 0
      OBVIOUS
    <3> HIDE DEF digit
    <3> QED
      BY <1>2, <3>1, <3>2, <3>3, <3>4
  <2> QED
    BY <2>1
<1>4. LittleEndian(value, n) = d
  BY DEF LittleEndian
<1> HIDE DEF digit
<1>5. d \in Strings /\ Len(d) = n
  BY <1>3 DEF Strings
<1>6. d[1] = digit(1) /\ (n > 1 => d[2] = digit(2)) /\ (n > 2 => d[3] = digit(3))
      /\ (n > 3 => d[4] = digit(4))
  OBVIOUS
<1>7. AreDigits(d, value, n)
  <2> HIDE DEF d
  <2> QED
    BY <1>2, <1>5, <1>6 DEF AreDigits
<1> QED
  BY <1>4, <1>7

LEMMA Digits ==
    ASSUME NEW v \in Nat
    PROVE  /\ v < 256 => v = v % 256
           /\ v < 65536 => v = (v % 256) + ((v \div 256) % 256) * 256
           /\ v < 16777216 => v = (v % 256) + ((v \div 256) % 256) * 256
                                  + ((v \div 65536) % 256) * 65536
           /\ v < 4294967296 => v = (v % 256) + ((v \div 256) % 256) * 256
                                    + ((v \div 65536) % 256) * 65536
                                    + ((v \div 16777216) % 256) * 16777216
<1> DEFINE a == v \div 256
           b == v \div 65536
           c == v \div 16777216
<1>1. /\ a \in Nat /\ v = 256 * a + (v % 256) /\ v % 256 \in 0 .. 255
  OBVIOUS
<1>2. b = a \div 256 /\ b \in Nat
  OBVIOUS
<1>3. c = b \div 256 /\ c \in Nat
  OBVIOUS
<1> HIDE DEF a, b, c
<1>4. a = 256 * b + (a % 256) /\ a % 256 \in 0 .. 255
  BY <1>1, <1>2
<1>5. b = 256 * c + (b % 256) /\ b % 256 \in 0 .. 255
  BY <1>2, <1>3
<1>6. /\ v < 256 => a = 0
      /\ v < 65536 => a < 256
      /\ v < 16777216 => b < 256
      /\ v < 4294967296 => c < 256
  BY <1>1, <1>2, <1>3, <1>4, <1>5
<1>7. (a < 256 => a % 256 = a) /\ (b < 256 => b % 256 = b) /\ (c < 256 => c % 256 = c)
  BY <1>1, <1>2, <1>3
<1>8. c % 256 \in Nat
  BY <1>3
<1> DEFINE v0 == v % 256
           a0 == a % 256
           b0 == b % 256
           c0 == c % 256
<1>9. /\ v0 \in Nat /\ a0 \in Nat /\ b0 \in Nat /\ c0 \in Nat
      /\ v = 256 * a + v0 /\ a = 256 * b + a0 /\ b = 256 * c + b0
      /\ (a < 256 => a0 = a) /\ (b < 256 => b0 = b) /\ (c < 256 => c0 = c)
  BY <1>1, <1>4, <1>5, <1>7, <1>8
<1> HIDE DEF v0, a0, b0, c0
<1>10. /\ v < 256 => v = v0
       /\ v < 65536 => v = v0 + a0 * 256
       /\ v < 16777216 => v = v0 + a0 * 256 + b0 * 65536
       /\ v < 4294967296 => v = v0 + a0 * 256 + b0 * 65536 + c0 * 16777216
  BY <1>1, <1>2, <1>3, <1>6, <1>9
<1> QED
  BY <1>10 DEF v0, a0, b0, c0, a, b, c

\* The numbers of n bytes are below
Limit(n) ==
    IF n = 1 THEN 256 ELSE IF n = 2 THEN 65536 ELSE IF n = 3 THEN 16777216 ELSE 4294967296

LEMMA ValueOf ==
    ASSUME NEW n \in 1 .. 8, n <= 4, NEW value \in Nat,
           value < Limit(n)
    PROVE  Value(LittleEndian(value, n)) = value
<1> DEFINE b == LittleEndian(value, n)
<1>0. AreDigits(b, value, n)
  BY LittleEndianDigits
<1>1. /\ Len(b) = n /\ b[1] = value % 256
      /\ n > 1 => b[2] = (value \div 256) % 256
      /\ n > 2 => b[3] = (value \div 65536) % 256
      /\ n > 3 => b[4] = (value \div 16777216) % 256
  BY <1>0 DEF AreDigits
<1>2. 256 ^ 0 = 1 /\ 256 ^ 1 = 256 /\ 256 ^ 2 = 65536 /\ 256 ^ 3 = 16777216
  OBVIOUS
<1> HIDE DEF b
<1>3. Value(b) = (IF 1 <= n THEN b[1] * 1 ELSE 0) + (IF 2 <= n THEN b[2] * 256 ELSE 0)
                 + (IF 3 <= n THEN b[3] * 65536 ELSE 0) + (IF 4 <= n THEN b[4] * 16777216 ELSE 0)
  BY <1>1, <1>2 DEF Value
<1>4. CASE n = 1
  BY <1>1, <1>3, <1>4, Digits DEF b, Limit
<1>5. CASE n = 2
  BY <1>1, <1>3, <1>5, Digits DEF b, Limit
<1>6. CASE n = 3
  BY <1>1, <1>3, <1>6, Digits DEF b, Limit
<1>7. CASE n = 4
  BY <1>1, <1>3, <1>7, Digits DEF b, Limit
<1>8. n = 1 \/ n = 2 \/ n = 3 \/ n = 4
  OBVIOUS
<1> QED
  BY <1>4, <1>5, <1>6, <1>7, <1>8 DEF b

\* What is left of a coinbase after some outputs, up to one
RestUpto(bytes, n, g) ==
    g = [k \in 0 .. n |-> IF k = 0 THEN bytes ELSE AfterOutput(g[k - 1])]

LEMMA RestExists ==
    ASSUME NEW bytes, NEW n \in Nat
    PROVE  \E g : RestUpto(bytes, n, g)
<1> DEFINE Bad == {m \in 0 .. n : ~ \E g : RestUpto(bytes, m, g)}
<1> SUFFICES ASSUME Bad # {}
             PROVE  FALSE
  OBVIOUS
<1>1. PICK m \in Bad : \A k \in Bad : m <= k
  BY LeastIndex
<1>2. m \in Nat /\ m \in 0 .. n /\ ~ \E g : RestUpto(bytes, m, g)
  OBVIOUS
<1>3. CASE m = 0
  <2>1. RestUpto(bytes, 0, [k \in 0 .. 0 |-> bytes])
    BY DEF RestUpto
  <2> QED
    BY <1>2, <1>3, <2>1
<1>4. CASE m # 0
  <2>1. m - 1 \in 0 .. n /\ m - 1 \notin Bad
    BY <1>1, <1>2, <1>4
  <2>2. PICK g : RestUpto(bytes, m - 1, g)
    BY <2>1
  <2> DEFINE h == [k \in 0 .. m |-> IF k < m THEN g[k] ELSE AfterOutput(g[m - 1])]
  <2>3. ASSUME NEW k \in 0 .. m
        PROVE  h[k] = IF k = 0 THEN bytes ELSE AfterOutput(h[k - 1])
    <3>1. CASE k = m
      BY <1>2, <1>4, <3>1
    <3>2. CASE k # m
      <4>1. k \in 0 .. m - 1 /\ k \in Nat /\ k < m
        BY <1>2, <3>2
      <4>2. g[k] = IF k = 0 THEN bytes ELSE AfterOutput(g[k - 1])
        BY <2>2, <4>1 DEF RestUpto
      <4>3. k # 0 => h[k - 1] = g[k - 1]
        BY <1>2, <4>1
      <4> QED
        BY <1>2, <4>1, <4>2, <4>3
    <3> QED
      BY <3>1, <3>2
  <2>4. RestUpto(bytes, m, h)
    BY <2>3 DEF RestUpto
  <2> QED
    BY <1>2, <2>4
<1> QED
  BY <1>3, <1>4

LEMMA OneByte == \A v \in Int : <<v>> \in Strings /\ Len(<<v>>) = 1 /\ <<v>>[1] = v
BY DEF Strings

LEMMA LittleEndianIsString ==
    ASSUME NEW n \in 1 .. 8, NEW value \in Nat
    PROVE  LittleEndian(value, n) \in Strings /\ Len(LittleEndian(value, n)) = n
<1>1. AreDigits(LittleEndian(value, n), value, n)
  BY LittleEndianDigits
<1> QED
  BY <1>1 DEF AreDigits

\* The bytes of a number are read back from the front of any string.
LEMMA NumberReads ==
    ASSUME NEW f \in Int, NEW n \in 1 .. 8, n <= 4, NEW v \in Nat,
           v < Limit(n),
           NEW rest \in Strings
    PROVE  LET u == <<f>> \o LittleEndian(v, n)
           IN  /\ u \in Strings /\ Len(u) = n + 1 /\ u[1] = f
               /\ (u \o rest)[1] = f
               /\ Value(SubSeq(u \o rest, 2, n + 1)) = v
<1> DEFINE d == LittleEndian(v, n)
           u == <<f>> \o d
<1>1. d \in Strings /\ Len(d) = n
  BY LittleEndianIsString
<1>2. <<f>> \in Strings /\ Len(<<f>>) = 1 /\ <<f>>[1] = f
  BY OneByte
<1> DEFINE o == <<f>>
<1> HIDE DEF d, o
<1>3. o \in Strings /\ Len(o) = 1 /\ o[1] = f
  BY <1>2 DEF o
<1>4. /\ o \o d \in Strings /\ Len(o \o d) = n + 1 /\ (o \o d)[1] = f
      /\ ((o \o d) \o rest)[1] = f
  <2>1. o \o d \in Strings /\ Len(o \o d) = 1 + n /\ (o \o d)[1] = f
    <3>1. o \o d \in Strings /\ Len(o \o d) = Len(o) + Len(d)
      BY <1>1, <1>3, Pieces
    <3>2. Len(o) > 0
      BY <1>3
    <3>3. (o \o d)[1] = o[1]
      BY <1>1, <1>3, <3>2, FirstByte
    <3> QED
      BY <1>1, <1>3, <3>1, <3>3
  <2> DEFINE w == o \o d
  <2> HIDE DEF w
  <2>2. w \in Strings /\ Len(w) = 1 + n /\ w[1] = f
    BY <2>1 DEF w
  <2>3. (w \o rest)[1] = f
    BY <2>2, FirstByte
  <2> QED
    BY <2>1, <2>3 DEF w
<1>5. SubSeq((o \o d) \o rest, 2, n + 1) = d
  <2>1. SubSeq(o \o (d \o rest), Len(o) + 1, Len(o) + Len(d)) = d
        /\ (o \o d) \o rest = o \o (d \o rest)
    BY <1>1, <1>3, Middle
  <2>2. Len(o) + 1 = 2 /\ Len(o) + Len(d) = n + 1
    BY <1>1, <1>3
  <2> QED
    BY <2>1, <2>2
<1>6. Value(d) = v
  BY ValueOf DEF d
<1> QED
  BY <1>4, <1>5, <1>6 DEF o, d

LEMMA VarUintReads ==
    ASSUME NEW v \in Nat, v # 253, v < Limit(4), NEW rest \in Strings
    PROVE  LET u == VarUint(v)
           IN  /\ u \in Strings /\ u # Panics
               /\ Width(u \o rest) = Len(u) /\ Len(u) \in 1 .. 5
               /\ ReadVarUint(u \o rest) = v
<1>1. CASE v <= 252
  <2> DEFINE u == <<v>>
  <2>1. VarUint(v) = u
    BY <1>1 DEF VarUint
  <2>2. u \in Strings /\ Len(u) = 1 /\ u[1] = v
    BY OneByte
  <2>3. u # Panics
    BY DEF Panics
  <2> HIDE DEF u
  <2>4. (u \o rest)[1] = v
    BY <2>2, FirstByte
  <2> QED
    BY <1>1, <2>1, <2>2, <2>3, <2>4 DEF Width, ReadVarUint
<1>2. CASE v > 253 /\ v <= 65535
  <2> DEFINE u == <<253>> \o LittleEndian(v, 2)
  <2>1. VarUint(v) = u
    BY <1>2 DEF VarUint
  <2>2. /\ u \in Strings /\ Len(u) = 3 /\ u[1] = 253 /\ (u \o rest)[1] = 253
        /\ Value(SubSeq(u \o rest, 2, 3)) = v
    <3>1. 2 \in 1 .. 8 /\ 2 <= 4 /\ v < Limit(2) /\ 2 + 1 = 3 /\ 253 \in Int
      BY <1>2 DEF Limit
    <3> QED
      BY <3>1, NumberReads
  <2>3. u # Panics
    BY <2>2, OneByte DEF Panics
  <2> HIDE DEF u
  <2> QED
    BY <1>2, <2>1, <2>2, <2>3 DEF Width, ReadVarUint
<1>3. CASE v > 65535
  <2> DEFINE u == <<254>> \o LittleEndian(v, 4)
  <2>1. VarUint(v) = u
    BY <1>3 DEF VarUint
  <2>2. /\ u \in Strings /\ Len(u) = 5 /\ u[1] = 254 /\ (u \o rest)[1] = 254
        /\ Value(SubSeq(u \o rest, 2, 5)) = v
    <3>1. 4 \in 1 .. 8 /\ 4 <= 4 /\ v < Limit(4) /\ 4 + 1 = 5 /\ 254 \in Int
      BY <1>3, SMT DEF Limit
    <3> QED
      BY <3>1, NumberReads
  <2>3. u # Panics
    BY <2>2, OneByte DEF Panics
  <2> HIDE DEF u
  <2> QED
    BY <1>3, <2>1, <2>2, <2>3 DEF Width, ReadVarUint
<1> QED
  BY <1>1, <1>2, <1>3

\* The height, as a number of one byte or as a number of up to four
LEMMA OneByteFirst == \A v \in Int : \A rest \in Strings : (<<v>> \o rest)[1] = v
BY OneByte, FirstByte

LEMMA SmallSets ==
    /\ Cardinality({}) = 0 /\ Cardinality({0}) = 1
    /\ Cardinality({0, 1}) = 2 /\ Cardinality({0, 1, 2}) = 3
<1>1. IsFiniteSet({0}) /\ Cardinality({0}) = 1
  BY FS_Singleton
<1>2. IsFiniteSet({0} \cup {1}) /\ Cardinality({0} \cup {1}) = 2
  BY <1>1, FS_AddElement
<1>3. {0, 1} = {0} \cup {1} /\ {0, 1, 2} = {0, 1} \cup {2} /\ 2 \notin {0, 1}
  OBVIOUS
<1>4. IsFiniteSet({0, 1}) /\ Cardinality({0, 1}) = 2
  BY <1>2, <1>3
<1>5. Cardinality({0, 1} \cup {2}) = 3
  BY <1>3, <1>4, FS_AddElement
<1> QED
  BY <1>1, <1>3, <1>4, <1>5, FS_EmptySet

\* How often a number is divided before it is below 128
Divisions(n) == {k \in 0 .. 2 : n \div 256 ^ k > 127}

LEMMA DivisionsAre ==
    ASSUME NEW n \in Nat
    PROVE  Divisions(n) = {k \in {0, 1, 2} :
               n \div (IF k = 0 THEN 1 ELSE IF k = 1 THEN 256 ELSE 65536) > 127}
<1> DEFINE power(k) == IF k = 0 THEN 1 ELSE IF k = 1 THEN 256 ELSE 65536
<1>1. 256 ^ 0 = 1 /\ 256 ^ 1 = 256 /\ 256 ^ 2 = 65536
  OBVIOUS
<1>2. 0 .. 2 = {0, 1, 2}
  OBVIOUS
<1>3. power(0) = 1 /\ power(1) = 256 /\ power(2) = 65536
  OBVIOUS
<1> HIDE DEF power
<1>4. \A k \in {0, 1, 2} : 256 ^ k = power(k)
  <2> SUFFICES ASSUME NEW k \in {0, 1, 2}
               PROVE  256 ^ k = power(k)
    OBVIOUS
  <2>1. CASE k = 0
    BY <1>1, <1>3, <2>1
  <2>2. CASE k = 1
    BY <1>1, <1>3, <2>2
  <2>3. CASE k = 2
    BY <1>1, <1>3, <2>3
  <2> QED
    BY <2>1, <2>2, <2>3
<1>5. Divisions(n) = {k \in {0, 1, 2} : n \div 256 ^ k > 127}
  BY <1>2 DEF Divisions
<1>6. {k \in {0, 1, 2} : n \div 256 ^ k > 127} = {k \in {0, 1, 2} : n \div power(k) > 127}
  <2> DEFINE q(k) == 256 ^ k
  <2>1. \A k \in {0, 1, 2} : q(k) = power(k)
    BY <1>4
  <2> HIDE DEF q
  <2>2. {k \in {0, 1, 2} : n \div q(k) > 127} = {k \in {0, 1, 2} : n \div power(k) > 127}
    BY <2>1
  <2> QED
    BY <2>2 DEF q
<1> QED
  BY <1>5, <1>6 DEF power

HeightLimit == 2147483648

LEMMA HeightReads ==
    ASSUME NEW height \in Nat, height < HeightLimit, NEW rest \in Strings
    PROVE  LET h == EncodeNumber(height)
           IN  /\ h \in Strings /\ Len(h) \in 1 .. 5
               /\ ReadHeight(h \o rest) = height
<1> DEFINE K == Divisions(height)
           l == 1 + Cardinality(K)
           h == EncodeNumber(height)
<1>1. CASE height \in 1 .. 16
  <2> DEFINE u == <<80 + height>>
  <2>1. h = u
    BY <1>1 DEF EncodeNumber
  <2>2. u \in Strings /\ Len(u) = 1 /\ u[1] = 80 + height
    BY OneByte
  <2> HIDE DEF u
  <2>3. (u \o rest)[1] = 80 + height
    BY OneByteFirst DEF u
  <2>4. ReadHeight(u \o rest) = height
    BY <1>1, <2>3 DEF ReadHeight
  <2> QED
    BY <2>1, <2>2, <2>4
<1>2. CASE height \notin 1 .. 16
  <2>2. K = {k \in {0, 1, 2} : height \div (IF k = 0 THEN 1 ELSE IF k = 1 THEN 256 ELSE 65536) > 127}
    BY DivisionsAre
  <2>3. /\ Cardinality({}) = 0 /\ Cardinality({0}) = 1
        /\ Cardinality({0, 1}) = 2 /\ Cardinality({0, 1, 2}) = 3
    BY SmallSets
  <2>4. /\ l \in 1 .. 8 /\ l <= 4
        /\ height < Limit(l)
    <3> HIDE DEF K
    <3>1. CASE height < 128
      <4>1. K = {}
        BY <2>2, <3>1
      <4> QED
        BY <2>3, <3>1, <4>1, SMT DEF Limit, HeightLimit
    <3>2. CASE height >= 128 /\ height < 32768
      <4>1. K = {0}
        BY <2>2, <3>2
      <4> QED
        BY <2>3, <3>2, <4>1, SMT DEF Limit, HeightLimit
    <3>3. CASE height >= 32768 /\ height < 8388608
      <4>1. K = {0, 1}
        BY <2>2, <3>3
      <4> QED
        BY <2>3, <3>3, <4>1, SMT DEF Limit, HeightLimit
    <3>4. CASE height >= 8388608
      <4>1. K = {0, 1, 2}
        BY <2>2, <3>4
      <4> QED
        BY <2>3, <3>4, <4>1, SMT DEF Limit, HeightLimit
    <3> QED
      BY <3>1, <3>2, <3>3, <3>4
  <2>5. h = <<l>> \o LittleEndian(height, l)
    BY <1>2 DEF EncodeNumber, Divisions
  <2> HIDE DEF l
  <2>6. l \in Int
    BY <2>4
  <2> DEFINE u == <<l>> \o LittleEndian(height, l)
  <2>7. /\ u \in Strings /\ Len(u) = l + 1 /\ u[1] = l /\ (u \o rest)[1] = l
        /\ Value(SubSeq(u \o rest, 2, l + 1)) = height
    BY <2>4, <2>6, NumberReads
  <2> HIDE DEF u
  <2>8. ReadHeight(u \o rest) = height
    <3>1. l \notin 81 .. 96
      BY <2>4
    <3> QED
      BY <2>7, <3>1 DEF ReadHeight
  <2>9. l + 1 \in 1 .. 5
    BY <2>4
  <2> QED
    BY <2>5, <2>7, <2>8, <2>9 DEF u
<1> QED
  BY <1>1, <1>2

-----------------------------------------------------------------------------
(* Outputs *)

LEMMA RestIs ==
    ASSUME NEW bytes, NEW n \in Nat
    PROVE  \E g : /\ g[0] = bytes /\ \A k \in 1 .. n : g[k] = AfterOutput(g[k - 1])
                  /\ AfterOutputs(bytes, n) = g[n]
<1> DEFINE rest == CHOOSE g : RestUpto(bytes, n, g)
<1>1. \E g : RestUpto(bytes, n, g)
  BY RestExists
<1>2. AfterOutputs(bytes, n) = rest[n]
  BY DEF AfterOutputs, RestUpto
<1> HIDE DEF rest
<1>3. RestUpto(bytes, n, rest)
  BY <1>1 DEF rest
<1>4. rest[0] = bytes /\ \A k \in 1 .. n : rest[k] = AfterOutput(rest[k - 1])
  BY <1>3 DEF RestUpto
<1> QED
  BY <1>2, <1>4

LEMMA SmallNumber == \A n \in Nat : n <= 252 => n # 253 /\ n < Limit(4)
BY SMT DEF Limit

LEMMA OutputReads ==
    ASSUME NEW amount \in Nat, NEW script \in Strings, Len(script) <= 252, NEW rest \in Strings
    PROVE  /\ TransactionOut(amount, script) \in Strings
           /\ AfterOutput(TransactionOut(amount, script) \o rest) = rest
<1> DEFINE a == LittleEndian(amount, 8)
           n == Len(script)
           u == VarUint(n)
           bytes == TransactionOut(amount, script) \o rest
<1>1. a \in Strings /\ Len(a) = 8
  <2>1. 8 \in 1 .. 8
    OBVIOUS
  <2> QED
    BY <2>1, LittleEndianIsString
<1>2. n \in Nat /\ n # 253 /\ n < Limit(4)
  <2>1. n \in Nat
    BY DEF Strings
  <2> QED
    BY <2>1, SmallNumber
<1>3. script \o rest \in Strings
  BY Pieces
<1>4. /\ u \in Strings /\ Len(u) \in 1 .. 5
      /\ Width(u \o (script \o rest)) = Len(u)
      /\ ReadVarUint(u \o (script \o rest)) = n
  BY <1>2, <1>3, VarUintReads
<1>5. bytes = ((a \o u) \o script) \o rest
  BY DEF TransactionOut
<1> HIDE DEF a, u, bytes
<1>6. /\ a \o u \in Strings /\ Len(a \o u) = 8 + Len(u)
  BY <1>1, <1>4, Joining
<1> DEFINE v == a \o u
<1> HIDE DEF v
<1>7. /\ v \o script \in Strings /\ Len(v \o script) = 8 + Len(u) + n
  BY <1>6, Pieces DEF v
<1>8. bytes = a \o (u \o (script \o rest))
  <2>1. (v \o script) \o rest = v \o (script \o rest)
    BY <1>6, Middle DEF v
  <2> DEFINE w == script \o rest
  <2>2. w \in Strings
    BY <1>3
  <2> HIDE DEF w
  <2>3. (a \o u) \o w = a \o (u \o w)
    <3>1. a \in Strings /\ u \in Strings
      BY <1>1, <1>4
    <3> QED
      BY ZenonT(30), <2>2, <3>1, Associates
  <2> QED
    BY <1>5, <2>1, <2>3 DEF v, w
<1>9. From(bytes, 9) = u \o (script \o rest)
  <2> DEFINE w == u \o (script \o rest)
  <2>1. w \in Strings
    BY <1>3, <1>4, Pieces
  <2> HIDE DEF w
  <2>2. From(a \o w, Len(a) + 1) = w
    BY <1>1, <2>1, Pieces
  <2>3. Len(a) + 1 = 9
    BY <1>1
  <2> QED
    BY <1>8, <2>2, <2>3 DEF w
<1>10. From(bytes, 9 + Len(u) + n) = rest
  <2> DEFINE w == v \o script
  <2>1. w \in Strings /\ Len(w) = 8 + Len(u) + n
    BY <1>7
  <2>2. bytes = w \o rest
    BY <1>5 DEF v
  <2> HIDE DEF w
  <2>3. From(w \o rest, Len(w) + 1) = rest
    BY <2>1, Pieces
  <2>4. Len(w) + 1 = 9 + Len(u) + n
    BY <1>2, <1>4, <2>1
  <2> QED
    BY <2>2, <2>3, <2>4
<1>11. AfterOutput(bytes) = rest
  BY <1>4, <1>9, <1>10 DEF AfterOutput
<1>12. TransactionOut(amount, script) \in Strings
  BY <1>7 DEF TransactionOut, v, u, a
<1> QED
  BY <1>11, <1>12 DEF bytes

\* After the outputs of a coinbase its lock time is left.
LEMMA OutputsRead ==
    ASSUME NEW t, t.value \in Nat, t.poolScript \in Strings, Len(t.poolScript) <= 252,
           t.witness \in BOOLEAN, NEW rest \in Strings
    PROVE  /\ Outputs(t) \in Strings
           /\ AfterOutputs(Outputs(t) \o rest, OutputsCount(t)) = rest
<1> DEFINE w == TransactionOut(0, Witness)
           a == TransactionOut(t.value, PubKeyHashScript)
           b == TransactionOut(t.value, t.poolScript)
           c == TransactionOut(t.value, TestScript)
           r2 == c \o rest
           r1 == b \o r2
           r0 == a \o r1
<1>1. /\ Witness \in Strings /\ Len(Witness) <= 252
      /\ PubKeyHashScript \in Strings /\ Len(PubKeyHashScript) <= 252
      /\ TestScript \in Strings /\ Len(TestScript) <= 252
  <2>1. /\ Zero(38) \in Strings /\ Len(Zero(38)) = 38
        /\ Zero(25) \in Strings /\ Len(Zero(25)) = 25
    BY ZeroString
  <2>2. TestScript \in Strings /\ Len(TestScript) = 2
    BY DEF TestScript, Strings
  <2>3. Witness = Zero(38) /\ PubKeyHashScript = Zero(25)
    BY DEF Witness, PubKeyHashScript
  <2>4. Len(Witness) = 38 /\ Len(PubKeyHashScript) = 25
    BY <2>1, <2>3
  <2>5. Witness \in Strings /\ PubKeyHashScript \in Strings
    BY <2>1, <2>3
  <2>6. Len(Witness) <= 252 /\ Len(PubKeyHashScript) <= 252 /\ Len(TestScript) <= 252
    BY <2>2, <2>4
  <2> QED
    BY <2>2, <2>5, <2>6
<1>2. c \in Strings /\ AfterOutput(r2) = rest
  BY <1>1, OutputReads
<1>3. r2 \in Strings
  BY <1>2, Pieces
<1> HIDE DEF c, r2
<1>4. b \in Strings /\ AfterOutput(r1) = r2
  BY <1>3, OutputReads
<1>5. r1 \in Strings
  BY <1>3, <1>4, Pieces
<1> HIDE DEF b, r1
<1>6. a \in Strings /\ AfterOutput(r0) = r1
  BY <1>1, <1>5, OutputReads
<1>7. r0 \in Strings
  BY <1>5, <1>6, Pieces
<1> HIDE DEF a, r0
<1>8. w \in Strings /\ AfterOutput(w \o r0) = r0
  BY <1>1, <1>7, OutputReads
<1> HIDE DEF w
<1> DEFINE first == IF t.witness THEN w ELSE <<>>
           outputs == ((first \o a) \o b) \o c
           n == OutputsCount(t)
<1>9. Outputs(t) = outputs
  BY DEF Outputs, w, a, b, c
<1>10. first \in Strings
  BY <1>8 DEF Strings
<1>11. outputs \in Strings /\ outputs \o rest = first \o r0
  <2> HIDE DEF first
  <2>1. first \o a \in Strings /\ (first \o a) \o b \in Strings /\ outputs \in Strings
    BY <1>2, <1>4, <1>6, <1>10 DEF Strings
  <2> DEFINE x == first \o a
             y == x \o b
  <2>2. x \in Strings /\ y \in Strings /\ outputs = y \o c
    BY <2>1
  <2> HIDE DEF outputs
  <2>4. x \o r1 = first \o r0
    BY <1>5, <1>6, <1>10, Associates DEF r0
  <2> HIDE DEF x
  <2>3. y \o r2 = x \o r1
    <3>1. (x \o b) \o r2 = x \o (b \o r2)
      <4>1. x \in Strings /\ b \in Strings /\ r2 \in Strings
        BY <1>3, <1>4, <2>2
      <4> QED
        BY ZenonT(30), <4>1, Associates
    <3> QED
      BY <3>1 DEF r1
  <2> HIDE DEF y
  <2>5. outputs \o rest = y \o r2
    <3>1. (y \o c) \o rest = y \o (c \o rest)
      <4>1. y \in Strings /\ c \in Strings
        BY <1>2, <2>2
      <4> QED
        BY ZenonT(30), <4>1, Associates
    <3> QED
      BY <2>2, <3>1 DEF r2
  <2> QED
    BY <2>1, <2>3, <2>4, <2>5
<1>12. AfterOutputs(first \o r0, n) = rest
  <2> DEFINE s == first \o r0
  <2>0. n \in Nat
    BY DEF OutputsCount
  <2>1. (t.witness => n = 4) /\ (~t.witness => n = 3)
    BY DEF OutputsCount
  <2>2. PICK g : /\ g[0] = s /\ \A k \in 1 .. n : g[k] = AfterOutput(g[k - 1])
                 /\ AfterOutputs(s, n) = g[n]
    <3> HIDE DEF s, n
    <3> QED
      BY <2>0, RestIs
  <2> HIDE DEF n
  <2>3. g[0] = s /\ \A k \in 1 .. n : g[k] = AfterOutput(g[k - 1])
    BY <2>2
  <2>4. CASE t.witness
    <3>1. s = w \o r0
      BY <2>4
    <3>2. g[1] = AfterOutput(g[0]) /\ g[2] = AfterOutput(g[1])
          /\ g[3] = AfterOutput(g[2]) /\ g[4] = AfterOutput(g[3])
      <4>1. /\ 1 \in 1 .. n /\ 2 \in 1 .. n /\ 3 \in 1 .. n /\ 4 \in 1 .. n
            /\ 1 - 1 = 0 /\ 2 - 1 = 1 /\ 3 - 1 = 2 /\ 4 - 1 = 3
        BY <2>1, <2>4
      <4> QED
        BY <2>3, <4>1
    <3> QED
      BY <1>2, <1>4, <1>6, <1>8, <2>1, <2>2, <2>3, <2>4, <3>1, <3>2
  <2>5. CASE ~t.witness
    <3>1. s = r0
      BY <1>7, <2>5 DEF Strings
    <3>2. g[1] = AfterOutput(g[0]) /\ g[2] = AfterOutput(g[1]) /\ g[3] = AfterOutput(g[2])
      BY <2>1, <2>3, <2>5
    <3> QED
      BY <1>2, <1>4, <1>6, <2>1, <2>2, <2>3, <2>5, <3>1, <3>2
  <2> QED
    BY <2>4, <2>5
<1> HIDE DEF outputs, first, n
<1> QED
  BY <1>9, <1>11, <1>12 DEF n

-----------------------------------------------------------------------------
(* Submissions *)

LEMMA SizeFits == \A n \in Nat : n < SizeLimit => n + 1 < Limit(4) /\ n < HeightLimit
BY SMT DEF Limit, HeightLimit, SizeLimit

LEMMA SumFits ==
    \A n \in Nat, m \in 1 .. 5 : n < SizeLimit => n + 9 + m \in Nat /\ n + 9 + m < Limit(4)
BY SMT DEF Limit, SizeLimit

LEMMA LengthByte ==
    ASSUME NEW s \in Strings
    PROVE  /\ BytesWithLengthHeader(s) \in Strings
           /\ Len(BytesWithLengthHeader(s)) = Len(s) + 1 /\ Len(s) \in Nat
<1> DEFINE o == <<Len(s) % 256>>
<1>1. Len(s) \in Nat
  BY DEF Strings
<1>2. Len(s) % 256 \in Int
  BY <1>1
<1>3. o \in Strings /\ Len(o) = 1
  BY <1>2, OneByte
<1>4. BytesWithLengthHeader(s) = o \o s
  BY DEF BytesWithLengthHeader
<1> HIDE DEF o
<1>5. o \o s \in Strings /\ Len(o \o s) = Len(o) + Len(s)
  BY <1>3, Joining
<1> QED
  BY <1>1, <1>3, <1>4, <1>5

\* What the templates of the runs have in common
IsPlain(t) ==
    /\ t.arbitrary \in Strings /\ Len(t.arbitrary) < SizeLimit
    /\ t.height \in Nat /\ t.height < SizeLimit
    /\ t.value \in Nat /\ t.witness \in BOOLEAN
    /\ t.poolScript \in Strings /\ Len(t.poolScript) <= 252
    /\ IsSequence(t.transactions) /\ Len(t.transactions) \in Nat
    /\ Len(t.transactions) < SizeLimit

\* A coinbase is the length of its script, the script, and what follows.
LEMMA CoinbaseReads ==
    ASSUME NEW t, IsPlain(t), ~Unencodable(t), NEW extranonce \in Strings, Len(extranonce) = 8
    PROVE  CoinbaseParses(MadeCoinbase(t, extranonce), t.height)
<1> DEFINE h == EncodeNumber(t.height)
           arb == BytesWithLengthHeader(t.arbitrary)
           N == Len(arb) + ReservedLength + Len(h)
           d == VarUint(N)
           z == Zero(4)
           count == VarUint(OutputsCount(t))
           out == Outputs(t)
           r == out \o z
           outputs == count \o r
           tail == z \o outputs
           script == (h \o extranonce) \o arb
           made == MadeCoinbase(t, extranonce)
<1>1. /\ t.arbitrary \in Strings /\ Len(t.arbitrary) < SizeLimit
      /\ t.height \in Nat /\ t.height < HeightLimit
  BY SizeFits DEF IsPlain
<1>2. z \in Strings /\ Len(z) = 4
  BY ZeroString
<1>3. arb \in Strings /\ Len(arb) = Len(t.arbitrary) + 1 /\ Len(t.arbitrary) \in Nat
  BY <1>1, LengthByte
<1> HIDE DEF arb
<1>4. extranonce \o arb \in Strings
  BY <1>3, Joining
<1>5. /\ h \in Strings /\ Len(h) \in 1 .. 5
      /\ ReadHeight(h \o (extranonce \o arb)) = t.height
  BY <1>1, <1>4, HeightReads
<1>6. N \in Nat /\ N # 253 /\ N < Limit(4)
  <2>1. Len(t.arbitrary) + 1 + ReservedLength + Len(h) # 253
    BY DEF Unencodable
  <2> DEFINE m == Len(h)
             n == Len(t.arbitrary)
  <2>2. m \in 1 .. 5 /\ n \in Nat /\ n < SizeLimit
    BY <1>1, <1>3, <1>5
  <2>3. N = n + 1 + 8 + m /\ n + 1 + 8 + m # 253
    BY <1>3, <2>1 DEF ReservedLength
  <2> HIDE DEF m, n, N
  <2>4. N = n + 9 + m
    BY <2>2, <2>3
  <2>5. n + 9 + m \in Nat /\ n + 9 + m < Limit(4)
    BY <2>2, SumFits
  <2> QED
    BY <2>3, <2>4, <2>5
<1>7. out \in Strings /\ AfterOutputs(r, OutputsCount(t)) = z
  BY <1>2, OutputsRead DEF IsPlain
<1> HIDE DEF z, out
<1>8. r \in Strings
  BY <1>2, <1>7, Joining
<1>9. /\ count \in Strings /\ Len(count) \in 1 .. 5 /\ Width(outputs) = Len(count)
      /\ ReadVarUint(outputs) = OutputsCount(t)
  <2>1. OutputsCount(t) \in Nat /\ OutputsCount(t) <= 252
    BY DEF OutputsCount
  <2>2. OutputsCount(t) # 253 /\ OutputsCount(t) < Limit(4)
    BY <2>1, SmallNumber
  <2> HIDE DEF r
  <2> QED
    BY <1>8, <2>1, <2>2, VarUintReads
<1> HIDE DEF r, count
<1>10. outputs \in Strings
  BY <1>8, <1>9, Joining
<1> HIDE DEF outputs
<1>11. tail \in Strings
  BY <1>2, <1>10, Joining
<1> HIDE DEF tail
<1>12. /\ script = h \o (extranonce \o arb) /\ script \in Strings
       /\ Len(script) = N
  <2> HIDE DEF h
  <2>1. h \o extranonce \in Strings /\ Len(h \o extranonce) = Len(h) + 8
    BY <1>5, Joining
  <2> DEFINE x == h \o extranonce
  <2>2. x \o arb \in Strings /\ Len(x \o arb) = Len(x) + Len(arb)
    <3> HIDE DEF x
    <3> QED
      BY <1>3, <2>1, Joining DEF x
  <2>3. x \o arb = h \o (extranonce \o arb)
    BY <1>3, <1>5, Associates
  <2>4. Len(arb) \in Nat /\ Len(h) \in Nat
    BY <1>3, <1>5 DEF Strings
  <2> QED
    BY <2>1, <2>2, <2>3, <2>4 DEF ReservedLength
<1> HIDE DEF script, h, N
<1>13. script \o tail \in Strings
  BY <1>11, <1>12, Joining
<1>14. /\ d \in Strings /\ d # Panics /\ Len(d) \in 1 .. 5
       /\ Width(d \o (script \o tail)) = Len(d)
       /\ ReadVarUint(d \o (script \o tail)) = N
  <2> DEFINE w == script \o tail
  <2>1. w \in Strings
    BY <1>13
  <2> HIDE DEF w
  <2>2. /\ d \in Strings /\ d # Panics /\ Len(d) \in 1 .. 5
        /\ Width(d \o w) = Len(d) /\ ReadVarUint(d \o w) = N
    BY <1>6, <2>1, VarUintReads
  <2> QED
    BY <2>2 DEF w
<1> HIDE DEF d
<1>15. made = d \o (script \o tail)
  <2>1. CoinbaseInitial(t, Len(arb) + ReservedLength) = d \o h
    BY <1>14 DEF CoinbaseInitial, d, h, N
  <2>2. CoinbaseFinal(t) = ((z \o count) \o out) \o z
    BY DEF CoinbaseFinal, z, count, out
  <2>3. made = ((d \o h) \o extranonce) \o (arb \o CoinbaseFinal(t))
    BY <2>1 DEF MadeCoinbase, Generated, arb
  <2>4. ((z \o count) \o out) \o z = tail
    <3> DEFINE x == z \o count
    <3>1. x \in Strings
      BY <1>2, <1>9, Joining
    <3>2. x \o r = z \o outputs
      BY <1>2, <1>8, <1>9, Associates DEF outputs
    <3> HIDE DEF x
    <3>3. (x \o out) \o z = x \o r
      BY <1>2, <1>7, <3>1, Associates DEF r
    <3> QED
      BY <3>2, <3>3 DEF x, tail
  <2>5. ((d \o h) \o extranonce) \o (arb \o tail) = d \o (script \o tail)
    <3> DEFINE x == h \o extranonce
    <3>1. x \in Strings
      BY <1>5, Joining
    <3>2. (d \o h) \o extranonce = d \o x
      BY <1>5, <1>14, Associates
    <3>3. script = x \o arb
      BY DEF script
    <3> HIDE DEF x
    <3>4. arb \o tail \in Strings
      BY <1>3, <1>11, Joining
    <3> DEFINE y == arb \o tail
    <3>5. (x \o arb) \o tail = x \o y
      BY <1>3, <1>11, <3>1, Associates
    <3> HIDE DEF y
    <3>6. (d \o x) \o y = d \o (x \o y)
      BY <1>14, <3>1, <3>4, Associates DEF y
    <3> QED
      BY <3>2, <3>3, <3>5, <3>6 DEF y
  <2> QED
    BY <2>2, <2>3, <2>4, <2>5
<1> HIDE DEF made
<1>16. SubSeq(made, Len(d) + 1, Len(d) + N) = script
  <2>1. SubSeq(d \o (script \o tail), Len(d) + 1, Len(d) + Len(script)) = script
    <3>1. d \in Strings /\ script \in Strings /\ tail \in Strings
      BY <1>11, <1>12, <1>14
    <3> QED
      BY <3>1, Middle
  <2> QED
    BY <1>12, <1>15, <2>1
<1>17. From(made, Len(d) + N + 5) = outputs
  <2> DEFINE x == d \o script
             y == x \o z
  <2>0. d \in Strings /\ script \in Strings /\ tail \in Strings /\ Len(script) = N
    BY <1>11, <1>12, <1>14
  <2>1. x \in Strings /\ Len(x) = Len(d) + N
    BY <2>0, Joining
  <2>2. made = x \o tail
    <3>1. (d \o script) \o tail = d \o (script \o tail)
      BY <2>0, Associates
    <3> QED
      BY <1>15, <3>1
  <2> HIDE DEF x
  <2>3. y \in Strings /\ Len(y) = Len(d) + N + 4
    BY <1>2, <2>1, Joining
  <2>4. x \o tail = y \o outputs
    BY <1>2, <1>10, <2>1, Associates DEF tail
  <2> HIDE DEF y
  <2>5. From(y \o outputs, Len(y) + 1) = outputs
    BY <1>10, <2>3, Pieces
  <2>6. Len(y) + 1 = Len(d) + N + 5
    BY <1>6, <1>14, <2>3
  <2> QED
    BY <2>2, <2>4, <2>5, <2>6
<1>18. From(outputs, Len(count) + 1) = r
  BY <1>8, <1>9, Pieces DEF outputs
<1>19. ReadHeight(script) = t.height
  BY <1>5, <1>12
<1>20. /\ Width(made) = Len(d) /\ ReadVarUint(made) = N
       /\ Width(outputs) = Len(count)
       /\ Len(AfterOutputs(r, ReadVarUint(outputs))) = 4
  BY <1>2, <1>7, <1>9, <1>14, <1>15
<1>21. CoinbaseParses(made, t.height)
  BY <1>16, <1>17, <1>18, <1>19, <1>20 DEF CoinbaseParses
<1> QED
  BY <1>21 DEF made

LEMMA SubmissionIsRead ==
    ASSUME NEW t, IsPlain(t), ~Unencodable(t)
    PROVE  SubmissionReads(t)
<1> DEFINE extranonce == Extranonce1 \o Share[Extranonce2Slot]
           made == MadeCoinbase(t, extranonce)
           n == Len(t.transactions)
           count == VarUint(n + 1)
           all == <<made>> \o t.transactions
<1>1. extranonce \in Strings /\ Len(extranonce) = 8
  <2>1. Extranonce1 \in Strings /\ Len(Extranonce1) = 4
    BY DEF Extranonce1, Strings
  <2>2. Share[Extranonce2Slot] \in Strings /\ Len(Share[Extranonce2Slot]) = 4
    <3>1. Share[Extranonce2Slot] = <<3, 4, 5, 6>>
      BY DEF Share, Extranonce2Slot
    <3> QED
      BY <3>1 DEF Strings
  <2> DEFINE a == Extranonce1
             b == Share[Extranonce2Slot]
  <2>3. a \in Strings /\ Len(a) = 4 /\ b \in Strings /\ Len(b) = 4
    BY <2>1, <2>2
  <2> HIDE DEF a, b
  <2>4. a \o b \in Strings /\ Len(a \o b) = Len(a) + Len(b)
    BY <2>3, Joining
  <2> QED
    BY <2>3, <2>4 DEF a, b
<1>2. CoinbaseParses(made, t.height)
  BY <1>1, CoinbaseReads
<1> HIDE DEF extranonce
<1>3. /\ n \in Nat /\ n + 1 \in Nat /\ n + 1 # 253 /\ n + 1 < Limit(4)
  <2>1. n \in Nat /\ n < SizeLimit
    BY DEF IsPlain
  <2>2. n + 1 # 253
    BY DEF Unencodable
  <2> HIDE DEF n
  <2> QED
    BY <2>1, <2>2, SizeFits
<1>4. Len(all) = n + 1 /\ all[1] = made
  <2> HIDE DEF made
  <2>1. PICK S : t.transactions \in Seq(S)
    BY DEF IsPlain, IsSequence
  <2>2. t.transactions \in Seq(S \cup {made}) /\ <<made>> \in Seq(S \cup {made})
    BY <2>1
  <2> QED
    BY <2>2
<1> HIDE DEF made, n
<1>5. ReadVarUint(count) = n + 1
  <2>1. <<>> \in Strings
    BY DEF Strings
  <2>2. count \in Strings /\ ReadVarUint(count \o <<>>) = n + 1
    BY <1>3, <2>1, VarUintReads
  <2> HIDE DEF count
  <2>3. count \o <<>> = count
    BY <2>2 DEF Strings
  <2> QED
    BY <2>2, <2>3
<1> HIDE DEF count, all
<1>6. Submission(t, extranonce).transactions = all /\ Submission(t, extranonce).count = count
  BY DEF Submission, all, made, count, n
<1> QED
  BY <1>2, <1>4, <1>5, <1>6 DEF SubmissionReads, extranonce

LEMMA Unencoded ==
    ASSUME NEW t, IsPlain(t), Unencodable(t)
    PROVE  Panics \in {Generated(t).coinbaseInitial, Submission(t, <<>>).count}
<1>1. VarUint(253) = Panics
  BY DEF VarUint
<1>2. CASE Len(t.transactions) + 1 = 253
  <2>1. Submission(t, <<>>).count = VarUint(Len(t.transactions) + 1)
    BY DEF Submission
  <2> QED
    BY <1>1, <1>2, <2>1
<1>3. CASE Len(t.transactions) + 1 # 253
  <2> DEFINE h == EncodeNumber(t.height)
             arb == BytesWithLengthHeader(t.arbitrary)
  <2>1. Len(t.arbitrary) + 1 + ReservedLength + Len(h) = 253
    BY <1>3 DEF Unencodable
  <2>2. Len(arb) = Len(t.arbitrary) + 1 /\ Len(t.arbitrary) \in Nat
    BY LengthByte DEF IsPlain
  <2>3. Len(arb) + ReservedLength + Len(h) = 253
    BY <2>1, <2>2
  <2>4. Generated(t).coinbaseInitial = CoinbaseInitial(t, Len(arb) + ReservedLength)
    BY DEF Generated
  <2> HIDE DEF arb, h
  <2>5. CoinbaseInitial(t, Len(arb) + ReservedLength) = Panics
    BY <1>1, <2>3 DEF CoinbaseInitial, h
  <2> QED
    BY <2>4, <2>5
<1> QED
  BY <1>2, <1>3

\* The miner and the pool make the same header from a template, whose root is
\* that of the submitted transactions, and a daemon reads the submission to
\* its last byte (bitcoin/generator.go GenerateWork, header.go makeHeader,
\* merkle.go, submission.go), for every height, length of the arbitrary data
\* and number of transactions.
THEOREM EveryBlockAssembles == Spec => []BlocksAssemble
<1>1. Picked => BlocksAssemble
  <2> SUFFICES ASSUME Picked, input.kind = "template"
               PROVE  LET t == input.template
                      IN  IF Unencodable(t)
                          THEN Panics \in {Generated(t).coinbaseInitial, Submission(t, <<>>).count}
                          ELSE HeadersAgree(t) /\ SubmissionReads(t)
    BY DEF BlocksAssemble
  <2> DEFINE t == input.template
  <2>1. IsTemplate(input)
    BY Kinds DEF Picked
  <2>2. PICK height \in Heights, length \in Lengths, n \in Counts, witness \in BOOLEAN :
            input = [kind |-> "template", template |-> Template(height, length, n, witness)]
    BY <2>1 DEF IsTemplate
  <2>3. t = Template(height, length, n, witness)
    BY <2>2
  <2>4. /\ height \in Nat /\ height < SizeLimit /\ length \in Nat /\ length < SizeLimit
        /\ n \in Nat /\ n < SizeLimit
    BY <2>2, ComputationsAssumption
  <2> HIDE DEF t
  <2>5. /\ t.transactions = Transactions(n) /\ t.arbitrary = Bytes(length)
        /\ t.height = height /\ t.value = Reward /\ t.witness = witness
        /\ t.poolScript = Bytes(33) /\ t.prevBlockHash = Bytes(32)
        /\ t.bits = <<29, 0, 255, 255>>
    BY <2>3 DEF Template
  <2>6. \A k \in Nat : Bytes(k) \in Strings /\ Len(Bytes(k)) = k
    BY DEF Bytes, Strings
  <2>7. IsSequence(Transactions(n)) /\ Len(Transactions(n)) = n
    <3> DEFINE p == Transactions(n)
    <3>1. p = [i \in 1 .. n |-> p[i]]
      BY DEF Transactions
    <3> HIDE DEF p
    <3>2. IsSequence(p) /\ Len(p) = n
      BY <2>4, <3>1, FunctionIsSequence
    <3> QED
      BY <3>2 DEF p
  <2>8. IsPlain(t)
    <3>1. t.value \in Nat /\ t.witness \in BOOLEAN /\ t.height \in Nat /\ t.height < SizeLimit
      BY <2>2, <2>4, <2>5, SMT DEF Reward
    <3>2. t.arbitrary \in Strings /\ Len(t.arbitrary) < SizeLimit
      BY <2>4, <2>5, <2>6
    <3>3. t.poolScript \in Strings /\ Len(t.poolScript) = 33
      <4>1. Bytes(33) \in Strings /\ Len(Bytes(33)) = 33
        BY <2>6
      <4> QED
        BY <2>5, <4>1
    <3>4. Len(t.poolScript) <= 252
      BY <3>3
    <3>5. /\ IsSequence(t.transactions) /\ Len(t.transactions) \in Nat
          /\ Len(t.transactions) < SizeLimit
      BY <2>4, <2>5, <2>7
    <3> QED
      BY <3>1, <3>2, <3>3, <3>4, <3>5 DEF IsPlain
  <2>9. /\ t.prevBlockHash = [i \in 1 .. 32 |-> t.prevBlockHash[i]]
        /\ t.bits = [i \in 1 .. 4 |-> t.bits[i]]
    <3>1. Bytes(32) = [i \in 1 .. 32 |-> Bytes(32)[i]]
      BY DEF Bytes
    <3>2. t.prevBlockHash = Bytes(32) /\ t.bits = <<29, 0, 255, 255>>
      BY <2>5, SMT
    <3>3. <<29, 0, 255, 255>> = [i \in 1 .. 4 |-> <<29, 0, 255, 255>>[i]]
      OBVIOUS
    <3> QED
      BY <3>1, <3>2, <3>3
  <2>10. IsSequence(t.transactions)
    BY <2>8 DEF IsPlain
  <2>11. CASE Unencodable(t)
    BY <2>8, <2>11, Unencoded DEF t
  <2>12. CASE ~Unencodable(t)
    BY <2>8, <2>9, <2>10, <2>12, OneHeader, SubmissionIsRead DEF t
  <2> QED
    BY <2>11, <2>12 DEF t
<1> QED
  BY <1>1, OneInput, PTL

-----------------------------------------------------------------------------
(* Aux proofs: trees of 1, 2, 4, 8 or 16 leaves *)

Two(k) == IF k = 0 THEN 1 ELSE IF k = 1 THEN 2 ELSE IF k = 2 THEN 4 ELSE IF k = 3 THEN 8 ELSE 16

LEMMA UpToFour == \A k \in 0 .. 4 : k = 0 \/ k = 1 \/ k = 2 \/ k = 3 \/ k = 4
OBVIOUS

LEMMA Powers ==
    ASSUME NEW k \in 0 .. 4
    PROVE  /\ 2 ^ k = Two(k) /\ Two(k) \in Nat /\ Two(k) > k
           /\ k # 0 => Two(k) = 2 * Two(k - 1) /\ Two(k - 1) \in Nat /\ Two(k) > 1
<1>1. 2 ^ 0 = 1 /\ 2 ^ 1 = 2 /\ 2 ^ 2 = 4 /\ 2 ^ 3 = 8 /\ 2 ^ 4 = 16
  OBVIOUS
<1>2. CASE k = 0
  BY <1>1, <1>2 DEF Two
<1>3. CASE k = 1
  BY <1>1, <1>3 DEF Two
<1>4. CASE k = 2
  BY <1>1, <1>4 DEF Two
<1>5. CASE k = 3
  BY <1>1, <1>5 DEF Two
<1>6. CASE k = 4
  BY <1>1, <1>6 DEF Two
<1> QED
  BY <1>2, <1>3, <1>4, <1>5, <1>6, UpToFour

LEMMA FullTree ==
    ASSUME NEW leaves, IsSequence(leaves), NEW d \in 0 .. 4, Len(leaves) = Two(d)
    PROVE  LET L == TreeLevels(leaves)
           IN  /\ L[0] = leaves /\ LoopEnd(L, 1) = d
               /\ \A k \in 0 .. d : Len(L[k]) = Two(d - k)
               /\ \A k \in 1 .. d : \A j \in 0 .. Two(d - k) - 1 :
                     L[k][j + 1] = Join(L[k - 1][2 * j + 1], L[k - 1][2 * j + 2])
<1> DEFINE L == TreeLevels(leaves)
           n == Len(leaves)
<1>1. n \in Nat /\ d \in Nat /\ d < n
  <2>1. Two(d) \in Nat /\ Two(d) > d
    BY Powers
  <2> QED
    BY <2>1
<1>2. TreeUpto(leaves, n, L)
  BY <1>1, TreeLevelsAre
<1> HIDE DEF L
<1>3. /\ DOMAIN L = 0 .. n /\ L[0] = leaves
      /\ \A k \in 1 .. n : L[k] = Paired(L[k - 1])
  BY <1>1, <1>2 DEF TreeUpto
<1> HIDE DEF n
<1> DEFINE Holds(k) == IsSequence(L[k]) /\ Len(L[k]) = Two(d - k)
           Bad == {k \in 0 .. d : ~Holds(k)}
<1>4. ASSUME NEW k \in 1 .. d, Holds(k - 1)
      PROVE  /\ Holds(k)
             /\ \A j \in 0 .. Two(d - k) - 1 :
                   L[k][j + 1] = Join(L[k - 1][2 * j + 1], L[k - 1][2 * j + 2])
  <2> DEFINE l == L[k - 1]
             m == Two(d - k)
  <2>1. d - k \in 0 .. 4 /\ d - (k - 1) \in 0 .. 4 /\ d - (k - 1) # 0
        /\ d - (k - 1) - 1 = d - k
    OBVIOUS
  <2>2. Len(l) = 2 * m /\ m \in Nat
    BY <1>4, <2>1, Powers
  <2>3. L[k] = Paired(l)
    BY <1>1, <1>3
  <2>4. IsSequence(l)
    BY <1>4
  <2> HIDE DEF l, m
  <2>5. /\ IsSequence(Paired(l)) /\ Len(Paired(l)) = (Len(l) + 1) \div 2
        /\ \A i \in 1 .. Len(Paired(l)) :
              Paired(l)[i] = Join(l[2 * i - 1],
                                  IF 2 * i <= Len(l) THEN l[2 * i] ELSE l[2 * i - 1])
    BY <2>4, PairedLevel
  <2>6. Len(Paired(l)) = m
    BY <2>2, <2>5
  <2>7. ASSUME NEW j \in 0 .. m - 1
        PROVE  Paired(l)[j + 1] = Join(l[2 * j + 1], l[2 * j + 2])
    <3>1. /\ j + 1 \in 1 .. m /\ 2 * (j + 1) - 1 = 2 * j + 1 /\ 2 * (j + 1) = 2 * j + 2
          /\ 2 * (j + 1) <= Len(l)
      BY <2>2
    <3>2. Paired(l)[j + 1]
            = Join(l[2 * (j + 1) - 1],
                   IF 2 * (j + 1) <= Len(l) THEN l[2 * (j + 1)] ELSE l[2 * (j + 1) - 1])
      BY <2>5, <2>6, <3>1
    <3> QED
      BY <3>1, <3>2
  <2> QED
    BY <2>3, <2>5, <2>6, <2>7 DEF l, m
<1>5. Bad = {}
  <2> SUFFICES ASSUME Bad # {}
               PROVE  FALSE
    OBVIOUS
  <2>1. PICK k \in Bad : \A j \in Bad : k <= j
    <3>1. Bad \in SUBSET (0 .. d) /\ Bad # {}
      OBVIOUS
    <3> HIDE DEF Bad
    <3> QED
      BY <1>1, <3>1, LeastIndex
  <2>2. k \in 0 .. d /\ ~Holds(k) /\ k \in Nat
    BY <1>1, <2>1
  <2>3. CASE k = 0
    BY <1>1, <1>3, <2>2, <2>3 DEF n
  <2>4. CASE k # 0
    <3>1. k \in 1 .. d /\ k - 1 \in 0 .. d
      BY <1>1, <2>2, <2>4
    <3>2. Holds(k - 1)
      BY <2>1, <2>2, <3>1
    <3> QED
      BY <1>4, <2>2, <3>1, <3>2
  <2> QED
    BY <2>3, <2>4
<1>6. \A k \in 0 .. d : Holds(k)
  BY <1>5
<1>7. ASSUME NEW k \in 1 .. d
      PROVE  \A j \in 0 .. Two(d - k) - 1 :
                 L[k][j + 1] = Join(L[k - 1][2 * j + 1], L[k - 1][2 * j + 2])
  <2>1. k - 1 \in 0 .. d
    BY <1>1
  <2> QED
    BY <1>4, <1>6, <2>1
<1> HIDE DEF Holds
<1>8. Len(L[d]) = 1 /\ \A j \in 0 .. d - 1 : Len(L[j]) > 1
  <2>1. Len(L[d]) = 1
    <3>1. d \in 0 .. d /\ d - d = 0
      BY <1>1
    <3> QED
      BY <1>6, <3>1 DEF Holds, Two
  <2>2. ASSUME NEW j \in 0 .. d - 1
        PROVE  Len(L[j]) > 1
    <3>1. j \in 0 .. d /\ d - j \in 0 .. 4 /\ d - j # 0
      BY <1>1
    <3> QED
      BY <1>6, <3>1, Powers DEF Holds
  <2> QED
    BY <2>1, <2>2
<1>9. LoopEnd(L, 1) = d
  <2>1. d \in DOMAIN L /\ Len(L[d]) <= 1 /\ \A j \in 0 .. d - 1 : Len(L[j]) > 1
    BY <1>1, <1>3, <1>8
  <2>2. ASSUME NEW k \in DOMAIN L, Len(L[k]) <= 1, \A j \in 0 .. k - 1 : Len(L[j]) > 1
        PROVE  k = d
    <3>1. k \in Nat
      BY <1>3
    <3>2. CASE k < d
      <4>1. k \in 0 .. d - 1 /\ k \in 0 .. d
        BY <1>1, <3>1, <3>2
      <4>2. Len(L[k]) > 1 /\ Len(L[k]) \in Nat
        <5>1. d - k \in 0 .. 4
          BY <1>1, <4>1
        <5> QED
          BY <1>6, <1>8, <4>1, <5>1, Powers DEF Holds
      <4> QED
        BY <2>2, <4>2
    <3>3. CASE k > d
      <4>1. d \in 0 .. k - 1
        BY <1>1, <3>1, <3>3
      <4>2. Len(L[d]) > 1
        BY <2>2, <4>1
      <4>3. Len(L[d]) = 1
        BY <1>8
      <4> QED
        BY <4>2, <4>3
    <3> QED
      BY <1>1, <3>1, <3>2, <3>3
  <2> QED
    BY <2>1, <2>2 DEF LoopEnd
<1> QED
  BY <1>3, <1>6, <1>7, <1>9 DEF L, Holds

LEMMA Shifts ==
    ASSUME NEW index \in Nat, NEW d \in 0 .. 4, index < Two(d)
    PROVE  /\ Shifted(index, 0) = index /\ Shifted(index, d) = 0
           /\ \A k \in 0 .. d : Shifted(index, k) \in Nat /\ Shifted(index, k) < Two(d - k)
           /\ \A k \in 1 .. d : Shifted(index, k) = Shifted(index, k - 1) \div 2
<1> DEFINE S(k) == IF k = 0 THEN index ELSE IF k = 1 THEN index \div 2
                   ELSE IF k = 2 THEN index \div 4 ELSE IF k = 3 THEN index \div 8
                   ELSE index \div 16
<1>1. 2 ^ 0 = 1 /\ 2 ^ 1 = 2 /\ 2 ^ 2 = 4 /\ 2 ^ 3 = 8 /\ 2 ^ 4 = 16
  OBVIOUS
<1>2. ASSUME NEW k \in 0 .. 4
      PROVE  Shifted(index, k) = S(k)
  <2>1. CASE k = 0
    BY <1>1, <2>1 DEF Shifted
  <2>2. CASE k = 1
    BY <1>1, <2>2 DEF Shifted
  <2>3. CASE k = 2
    BY <1>1, <2>3 DEF Shifted
  <2>4. CASE k = 3
    BY <1>1, <2>4 DEF Shifted
  <2>5. CASE k = 4
    BY <1>1, <2>5 DEF Shifted
  <2> QED
    BY <2>1, <2>2, <2>3, <2>4, <2>5, UpToFour
<1>3. ASSUME NEW k \in 1 .. 4
      PROVE  S(k) = S(k - 1) \div 2
  <2>1. k = 1 \/ k = 2 \/ k = 3 \/ k = 4
    OBVIOUS
  <2>2. /\ (index \div 2) \div 2 = index \div 4 /\ (index \div 4) \div 2 = index \div 8
        /\ (index \div 8) \div 2 = index \div 16
    OBVIOUS
  <2> QED
    BY <2>1, <2>2
<1>4. \A k \in 0 .. 4 : S(k) \in Nat
  <2>1. S(0) \in Nat /\ S(1) \in Nat /\ S(2) \in Nat /\ S(3) \in Nat /\ S(4) \in Nat
    OBVIOUS
  <2> HIDE DEF S
  <2> QED
    BY <2>1, UpToFour
<1>5. S(0) = index
  OBVIOUS
<1> HIDE DEF S
<1> DEFINE Holds(k) == S(k) < Two(d - k)
           Bad == {k \in 0 .. d : ~Holds(k)}
<1>6. Bad = {}
  <2> SUFFICES ASSUME Bad # {}
               PROVE  FALSE
    OBVIOUS
  <2>1. PICK k \in Bad : \A j \in Bad : k <= j
    <3>1. Bad \in SUBSET (0 .. d) /\ Bad # {} /\ d \in Nat
      OBVIOUS
    <3> HIDE DEF Bad
    <3> QED
      BY <3>1, LeastIndex
  <2>2. k \in 0 .. d /\ ~Holds(k)
    BY <2>1
  <2>3. CASE k = 0
    BY <1>5, <2>2, <2>3
  <2>4. CASE k # 0
    <3>1. k \in 1 .. 4 /\ k - 1 \in 0 .. d /\ k - 1 < k /\ k - 1 \in 0 .. 4
      BY <2>2, <2>4
    <3>2. S(k - 1) < Two(d - (k - 1))
      BY <2>1, <2>2, <3>1
    <3>3. /\ d - (k - 1) \in 0 .. 4 /\ d - (k - 1) # 0 /\ d - (k - 1) - 1 = d - k
      BY <2>2, <3>1
    <3>4. Two(d - (k - 1)) = 2 * Two(d - k) /\ Two(d - k) \in Nat
      BY <3>3, Powers
    <3> DEFINE a == S(k - 1)
               b == Two(d - k)
    <3>5. a \in Nat /\ b \in Nat /\ a < 2 * b /\ S(k) = a \div 2
      BY <1>3, <1>4, <3>1, <3>2, <3>4
    <3>6. a \div 2 < b
      <4> HIDE DEF a, b
      <4> QED
        BY <3>5
    <3> QED
      BY <2>2, <3>5, <3>6
  <2> QED
    BY <2>3, <2>4
<1>7. \A k \in 0 .. d : S(k) < Two(d - k) /\ k \in 0 .. 4
  BY <1>6
<1>8. S(d) = 0
  <2>1. d \in 0 .. d /\ d - d = 0
    OBVIOUS
  <2>2. S(d) < 1 /\ S(d) \in Nat
    BY <1>4, <1>7, <2>1 DEF Two
  <2> QED
    BY <2>2
<1>9. \A k \in 1 .. d : k \in 1 .. 4 /\ k \in 0 .. 4 /\ k - 1 \in 0 .. 4
  OBVIOUS
<1> QED
  BY <1>2, <1>3, <1>4, <1>5, <1>7, <1>8, <1>9

\* The branch of a leaf leads to the root.
LEMMA BranchLeadsToRoot ==
    ASSUME NEW leaves, IsSequence(leaves), NEW d \in 0 .. 4, Len(leaves) = Two(d),
           NEW index \in Nat, index < Two(d)
    PROVE  LET L == TreeLevels(leaves)
               branch == [k \in 1 .. LoopEnd(L, 1) |->
                             L[k - 1][Sibling(Shifted(index, k - 1)) + 1]]
           IN  /\ Len(branch) = d
               /\ Folded(leaves[index + 1], branch, index) = MerkleRoot(leaves)
<1> DEFINE L == TreeLevels(leaves)
           branch == [k \in 1 .. LoopEnd(L, 1) |->
                         L[k - 1][Sibling(Shifted(index, k - 1)) + 1]]
           hash == leaves[index + 1]
           At(k) == Shifted(index, k)
<1>1. /\ L[0] = leaves /\ LoopEnd(L, 1) = d
      /\ \A k \in 0 .. d : Len(L[k]) = Two(d - k)
      /\ \A k \in 1 .. d : \A j \in 0 .. Two(d - k) - 1 :
            L[k][j + 1] = Join(L[k - 1][2 * j + 1], L[k - 1][2 * j + 2])
  BY ZenonT(30), FullTree
<1>2. MerkleRoot(leaves) = L[d][1]
  BY <1>1 DEF MerkleRoot
<1> HIDE DEF L
<1>3. Len(branch) = d /\ \A k \in 1 .. d : branch[k] = L[k - 1][Sibling(At(k - 1)) + 1]
  BY <1>1
<1>4. /\ At(0) = index /\ At(d) = 0
      /\ \A k \in 0 .. d : At(k) \in Nat /\ At(k) < Two(d - k)
      /\ \A k \in 1 .. d : At(k) = At(k - 1) \div 2
  BY Shifts
<1> HIDE DEF branch
<1>5. PICK acc : /\ AccUpto(hash, branch, index, d, acc)
                 /\ Folded(hash, branch, index) = acc[d]
  <2> HIDE DEF hash
  <2> QED
    BY <1>3, FoldedIs
<1>6. /\ acc[0] = hash
      /\ \A k \in 1 .. d : acc[k] = AccStep(branch, index, k, acc[k - 1])
  <2> HIDE DEF hash
  <2> QED
    BY <1>5 DEF AccUpto
<1>7. \A k \in 1 .. d : acc[k] = IF At(k - 1) % 2 = 1 THEN Join(branch[k], acc[k - 1])
                                 ELSE Join(acc[k - 1], branch[k])
  BY <1>6 DEF AccStep
<1> HIDE DEF At
<1> DEFINE Holds(k) == acc[k] = L[k][At(k) + 1]
           Bad == {k \in 0 .. d : ~Holds(k)}
<1>8. ASSUME NEW k \in 1 .. d, Holds(k - 1)
      PROVE  Holds(k)
  <2> DEFINE i == At(k - 1)
             j == At(k)
             l == L[k - 1]
  <2>1. k - 1 \in 0 .. d /\ k \in 0 .. d
    OBVIOUS
  <2>2. i \in Nat /\ j \in Nat /\ j = i \div 2 /\ j \in 0 .. Two(d - k) - 1
    <3>1. d - k \in 0 .. 4
      OBVIOUS
    <3>2. Two(d - k) \in Nat
      BY <3>1, Powers
    <3>3. j \in Nat /\ j < Two(d - k) /\ i \in Nat /\ j = i \div 2
      BY <1>4, <2>1
    <3> HIDE DEF i, j
    <3> QED
      BY <3>2, <3>3
  <2>3. L[k][j + 1] = Join(l[2 * j + 1], l[2 * j + 2])
    BY <1>1, <2>2
  <2>4. branch[k] = l[Sibling(i) + 1] /\ acc[k - 1] = l[i + 1]
    BY <1>3, <1>8
  <2>5. acc[k] = IF i % 2 = 1 THEN Join(branch[k], acc[k - 1]) ELSE Join(acc[k - 1], branch[k])
    BY <1>7
  <2>6. /\ i % 2 = 1 => i + 1 = 2 * j + 2 /\ Sibling(i) + 1 = 2 * j + 1
        /\ i % 2 # 1 => i + 1 = 2 * j + 1 /\ Sibling(i) + 1 = 2 * j + 2
    <3> HIDE DEF i, j
    <3> QED
      BY <2>2 DEF Sibling
  <2> QED
    BY <2>3, <2>4, <2>5, <2>6
<1>9. Bad = {}
  <2> SUFFICES ASSUME Bad # {}
               PROVE  FALSE
    OBVIOUS
  <2>1. PICK k \in Bad : \A j \in Bad : k <= j
    <3>1. Bad \in SUBSET (0 .. d) /\ Bad # {} /\ d \in Nat
      OBVIOUS
    <3> HIDE DEF Bad
    <3> QED
      BY <3>1, LeastIndex
  <2>2. k \in 0 .. d /\ ~Holds(k)
    BY <2>1
  <2>3. CASE k = 0
    BY <1>1, <1>4, <1>6, <2>2, <2>3
  <2>4. CASE k # 0
    <3>1. k \in 1 .. d /\ k - 1 \in 0 .. d /\ k - 1 < k
      BY <2>2, <2>4
    <3>2. Holds(k - 1)
      BY <2>1, <2>2, <3>1
    <3> QED
      BY <1>8, <2>2, <3>1, <3>2
  <2> QED
    BY <2>3, <2>4
<1>10. acc[d] = L[d][1]
  <2>1. d \in 0 .. d /\ 0 + 1 = 1
    OBVIOUS
  <2>2. acc[d] = L[d][At(d) + 1]
    BY <1>9, <2>1
  <2> QED
    BY <1>4, <2>1, <2>2
<1> QED
  BY <1>2, <1>3, <1>5, <1>10 DEF L, branch

-----------------------------------------------------------------------------
(* The slots of the aux chains *)

LEMMA AuxBlocksAre ==
    ASSUME NEW chains \in Nat, NEW chainIDs \in [1 .. chains -> Nat]
    PROVE  LET aux == AuxBlocks(chainIDs)
           IN  /\ DOMAIN aux = 1 .. chains /\ Len(aux) = chains
               /\ \A i \in 1 .. chains : /\ aux[i].hash = Leaf(i)
                                         /\ aux[i].chainID \in Nat
                                         /\ GetExpectedIndex(aux[i].chainID) \in 0 .. 15
<1>1. DOMAIN chainIDs = 1 .. chains /\ \A i \in 1 .. chains : chainIDs[i] \in Nat
  OBVIOUS
<1>2. \A id \in Nat : GetExpectedIndex(id) \in 0 .. 15
  BY DEF GetExpectedIndex
<1>3. Len(AuxBlocks(chainIDs)) = chains
  BY DEF AuxBlocks
<1> QED
  BY <1>1, <1>2, <1>3 DEF AuxBlocks

\* A slot holds the hash of a chain exactly when it is the chain's and no
\* later chain has taken it.
LEMMA SlotsAre ==
    ASSUME NEW chains \in Nat, NEW chainIDs \in [1 .. chains -> Nat], NEW size \in Nat
    PROVE  LET aux == AuxBlocks(chainIDs)
               slots == BuildMerkleLeaf(size, aux)
           IN  /\ IsSequence(slots) /\ Len(slots) = size /\ DOMAIN slots = 1 .. size
               /\ \A k \in 1 .. size, i \in 1 .. chains :
                     slots[k] = aux[i].hash
                       <=> /\ GetExpectedIndex(aux[i].chainID) = k - 1
                           /\ ~TakenByLater(aux, i)
<1> DEFINE aux == AuxBlocks(chainIDs)
           slots == BuildMerkleLeaf(size, aux)
           e(i) == GetExpectedIndex(aux[i].chainID)
           takers(slot) == {i \in DOMAIN aux : GetExpectedIndex(aux[i].chainID) = slot}
<1>1. /\ DOMAIN aux = 1 .. chains /\ Len(aux) = chains
      /\ \A i \in 1 .. chains : aux[i].hash = Leaf(i)
  BY AuxBlocksAre
<1>2. slots = [k \in 1 .. size |->
                  IF takers(k - 1) = {} THEN Zeros
                  ELSE aux[CHOOSE i \in takers(k - 1) : \A j \in takers(k - 1) : j <= i].hash]
  BY DEF BuildMerkleLeaf
<1> HIDE DEF slots, aux
<1>3. slots = [k \in 1 .. size |-> slots[k]] /\ DOMAIN slots = 1 .. size
  BY <1>2
<1>4. IsSequence(slots) /\ Len(slots) = size
  BY <1>3, FunctionIsSequence
<1>5. ASSUME NEW k \in 1 .. size, NEW i \in 1 .. chains
      PROVE  slots[k] = aux[i].hash <=> e(i) = k - 1 /\ ~TakenByLater(aux, i)
  <2> DEFINE T == takers(k - 1)
  <2>1. slots[k] = IF T = {} THEN Zeros ELSE aux[CHOOSE m \in T : \A j \in T : j <= m].hash
    BY <1>2
  <2>2. \A j : j \in T <=> j \in 1 .. chains /\ e(j) = k - 1
    BY <1>1
  <2>3. TakenByLater(aux, i) <=> \E j \in i + 1 .. chains : e(j) = e(i)
    BY <1>1 DEF TakenByLater
  <2>4. aux[i].hash = <<i>> /\ Zeros = <<0>>
    BY <1>1 DEF Leaf, Zeros
  <2> HIDE DEF T
  <2>5. CASE T = {}
    <3>1. slots[k] = <<0>>
      BY <2>1, <2>4, <2>5
    <3>2. <<0>> # <<i>>
      <4>1. <<0>>[1] = 0 /\ <<i>>[1] = i /\ i # 0
        OBVIOUS
      <4> QED
        BY <4>1
    <3>3. e(i) # k - 1
      BY <2>2, <2>5
    <3> QED
      BY <2>4, <3>1, <3>2, <3>3
  <2>6. CASE T # {}
    <3> DEFINE m == CHOOSE m \in T : \A j \in T : j <= m
    <3>1. \E x \in T : \A y \in T : x >= y
      <4>1. IsFiniteSet(1 .. chains) /\ T \subseteq 1 .. chains
        BY <2>2, FS_Interval
      <4>2. IsFiniteSet(T)
        BY <4>1, FS_Subset
      <4>3. \A x \in T : x \in Int
        BY <2>2
      <4> QED
        BY <2>6, <4>2, <4>3, FiniteExtremes
    <3>2. \A x \in T : x \in Int
      BY <2>2
    <3>3. m \in T /\ \A j \in T : j <= m
      BY <3>1, <3>2
    <3>4. slots[k] = aux[m].hash
      BY <2>1, <2>6
    <3> HIDE DEF m
    <3>5. m \in 1 .. chains /\ e(m) = k - 1
      BY <2>2, <3>3
    <3>6. aux[m].hash = <<m>>
      BY <1>1, <3>5 DEF Leaf
    <3>7. slots[k] = aux[i].hash <=> m = i
      BY <2>4, <3>4, <3>6
    <3>8. m = i => e(i) = k - 1 /\ ~TakenByLater(aux, i)
      <4>1. \A j \in i + 1 .. chains : j \in 1 .. chains /\ j > i
        OBVIOUS
      <4> QED
        BY <2>2, <2>3, <3>3, <3>5, <4>1
    <3>9. e(i) = k - 1 /\ ~TakenByLater(aux, i) => m = i
      <4> SUFFICES ASSUME e(i) = k - 1, ~TakenByLater(aux, i), m # i
                   PROVE  FALSE
        OBVIOUS
      <4>1. i \in T
        BY <2>2
      <4>2. i <= m
        BY <3>3, <4>1
      <4>3. m \in i + 1 .. chains
        BY <3>5, <4>2
      <4> QED
        BY <2>3, <3>5, <4>3
    <3> QED
      BY <3>7, <3>8, <3>9
  <2> QED
    BY <2>5, <2>6
<1> QED
  BY <1>3, <1>4, <1>5 DEF slots, aux

\* The daemon's verdict in a tree where the slot of the chain is its own, and
\* where it is not.
LEMMA SlotSearched ==
    ASSUME NEW chains \in Nat, NEW chainIDs \in [1 .. chains -> Nat], NEW size \in Nat,
           NEW n \in 1 .. chains, Fits(size, AuxBlocks(chainIDs))
    PROVE  LET aux == AuxBlocks(chainIDs)
               e == GetExpectedIndex(aux[n].chainID)
           IN  /\ e \in Nat /\ e < size
               /\ SearchedIndex(size, aux, n) \in Nat /\ SearchedIndex(size, aux, n) < size
               /\ TakenByLater(aux, n) => MerkleMask(size, aux, n) = NoMask
               /\ ~TakenByLater(aux, n) =>
                     /\ SearchedIndex(size, aux, n) = e
                     /\ BuildMerkleLeaf(size, aux)[e + 1] = aux[n].hash
                     /\ MerkleMask(size, aux, n) = IF e <= 9 THEN e ELSE NoMask
<1> DEFINE aux == AuxBlocks(chainIDs)
           slots == BuildMerkleLeaf(size, aux)
           e == GetExpectedIndex(aux[n].chainID)
           found == {k \in DOMAIN slots : slots[k] = aux[n].hash}
           index == SearchedIndex(size, aux, n)
<1>1. /\ DOMAIN slots = 1 .. size
      /\ \A k \in 1 .. size : slots[k] = aux[n].hash <=> e = k - 1 /\ ~TakenByLater(aux, n)
  BY SlotsAre
<1>2. e \in 0 .. 15 /\ e < size
  BY AuxBlocksAre DEF Fits
<1>3. index = IF found = {} THEN 0 ELSE (CHOOSE k \in found : \A l \in found : l <= k) - 1
  BY DEF SearchedIndex
<1>4. MerkleMask(size, aux, n) = IF slots[index + 1] = aux[n].hash /\ index <= 9
                                 THEN index ELSE NoMask
  BY DEF MerkleMask
<1> HIDE DEF aux, slots, e, index
<1>5. CASE TakenByLater(aux, n)
  <2>1. found = {}
    BY <1>1, <1>5
  <2>2. index = 0 /\ 0 + 1 \in 1 .. size
    BY <1>2, <1>3, <2>1
  <2>3. slots[index + 1] # aux[n].hash
    BY <1>1, <1>5, <2>2
  <2> QED
    BY SMTT(30), <1>2, <1>4, <1>5, <2>2, <2>3 DEF aux, e, index
<1>6. CASE ~TakenByLater(aux, n)
  <2>1. e + 1 \in 1 .. size /\ (e + 1) - 1 = e
    BY <1>2
  <2>2. slots[e + 1] = aux[n].hash
    BY <1>1, <1>6, <2>1
  <2>3. found = {e + 1}
    <3>1. \A k \in 1 .. size : e = k - 1 => k = e + 1
      BY <1>2
    <3> QED
      BY <1>1, <2>1, <2>2, <3>1
  <2> HIDE DEF found
  <2>4. index = e
    <3>1. \E k \in found : \A l \in found : l <= k
      BY <1>2, <2>3
    <3>2. (CHOOSE k \in found : \A l \in found : l <= k) = e + 1
      BY <2>3, <3>1
    <3> QED
      BY <1>2, <1>3, <2>3, <3>2
  <2> QED
    BY SMTT(30), <1>2, <1>4, <1>6, <2>2, <2>4 DEF aux, e, slots, index
<1> QED
  BY <1>5, <1>6

LEMMA BranchIs ==
    ASSUME NEW chains \in Nat, NEW chainIDs \in [1 .. chains -> Nat], NEW d \in 0 .. 4,
           NEW n \in 1 .. chains, Fits(Two(d), AuxBlocks(chainIDs))
    PROVE  LET aux == AuxBlocks(chainIDs)
               index == SearchedIndex(Two(d), aux, n)
               branch == MerkleBranch(Two(d), aux, n)
           IN  /\ Len(branch) = d
               /\ Folded(BuildMerkleLeaf(Two(d), aux)[index + 1], branch, index)
                    = BuildMerkleRoot(Two(d), aux)
<1> DEFINE aux == AuxBlocks(chainIDs)
           slots == BuildMerkleLeaf(Two(d), aux)
           index == SearchedIndex(Two(d), aux, n)
<1>1. Two(d) \in Nat
  BY Powers
<1>2. IsSequence(slots) /\ Len(slots) = Two(d)
  BY <1>1, SlotsAre
<1>3. index \in Nat /\ index < Two(d)
  BY <1>1, SlotSearched
<1>4. /\ MerkleBranch(Two(d), aux, n)
           = [k \in 1 .. LoopEnd(TreeLevels(slots), 1) |->
                 TreeLevels(slots)[k - 1][Sibling(Shifted(index, k - 1)) + 1]]
      /\ BuildMerkleRoot(Two(d), aux) = MerkleRoot(slots)
  BY DEF MerkleBranch, BuildMerkleRoot
<1> HIDE DEF slots, index
<1>5. LET branch == [k \in 1 .. LoopEnd(TreeLevels(slots), 1) |->
                        TreeLevels(slots)[k - 1][Sibling(Shifted(index, k - 1)) + 1]]
      IN  Len(branch) = d /\ Folded(slots[index + 1], branch, index) = MerkleRoot(slots)
  BY <1>2, <1>3, BranchLeadsToRoot
<1>6. /\ Len(MerkleBranch(Two(d), aux, n)) = d
      /\ Folded(slots[index + 1], MerkleBranch(Two(d), aux, n), index)
           = BuildMerkleRoot(Two(d), aux)
  <2> HIDE DEF aux
  <2> QED
    BY <1>4, <1>5
<1> QED
  BY <1>6 DEF slots, index

LEMMA ProofAccepted ==
    ASSUME NEW chains \in Nat, NEW chainIDs \in [1 .. chains -> Nat],
           NEW rootDepth \in 0 .. 4, NEW d \in 0 .. 4, NEW n \in 1 .. chains,
           Fits(Two(d), AuxBlocks(chainIDs))
    PROVE  LET aux == AuxBlocks(chainIDs)
           IN  Verifies(Two(rootDepth), Two(d), aux, n)
                 <=> /\ Two(rootDepth) = Two(d)
                     /\ ~TakenByLater(aux, n)
                     /\ GetExpectedIndex(aux[n].chainID) <= 9
<1> DEFINE aux == AuxBlocks(chainIDs)
           e == GetExpectedIndex(aux[n].chainID)
           size == Two(d)
           rootSize == Two(rootDepth)
           branch == MerkleBranch(size, aux, n)
           index == SearchedIndex(size, aux, n)
           mask == MerkleMask(size, aux, n)
           slots == BuildMerkleLeaf(size, aux)
<1>1. size \in Nat /\ 2 ^ d = size
  BY Powers
<1>2. /\ e \in Nat
      /\ TakenByLater(aux, n) => mask = NoMask
      /\ ~TakenByLater(aux, n) =>
            /\ index = e
            /\ slots[e + 1] = aux[n].hash
            /\ mask = IF e <= 9 THEN e ELSE NoMask
  BY <1>1, SlotSearched
<1>3. Len(branch) = d /\ Folded(slots[index + 1], branch, index) = BuildMerkleRoot(size, aux)
  BY BranchIs
<1>4. Verifies(rootSize, size, aux, n)
        <=> /\ mask # NoMask
            /\ 2 ^ Len(branch) = rootSize
            /\ mask = e
            /\ Folded(aux[n].hash, branch, mask) = BuildMerkleRoot(rootSize, aux)
  BY DEF Verifies
<1>5. NoMask = -1
  BY DEF NoMask
<1> HIDE DEF e, size, rootSize, branch, index, mask, slots
<1>6. 2 ^ Len(branch) = rootSize <=> rootSize = size
  BY <1>1, <1>3
<1>7. CASE TakenByLater(aux, n)
  BY <1>2, <1>4, <1>7 DEF rootSize, size
<1>8. CASE ~TakenByLater(aux, n) /\ ~ e <= 9
  BY <1>2, <1>4, <1>8 DEF rootSize, size, e
<1>9. CASE ~TakenByLater(aux, n) /\ e <= 9
  <2>1. mask = e /\ mask # NoMask
    BY <1>2, <1>5, <1>9
  <2>2. rootSize = size => Folded(aux[n].hash, branch, mask) = BuildMerkleRoot(rootSize, aux)
    BY <1>2, <1>3, <1>9, <2>1
  <2>3. Verifies(rootSize, size, aux, n) <=> rootSize = size
    BY <1>4, <1>6, <2>1, <2>2
  <2> QED
    BY <1>9, <2>3 DEF rootSize, size, e
<1> QED
  BY <1>7, <1>8, <1>9

\* What a proof is made of
LEMMA ProofInput ==
    ASSUME Picked, input.kind = "proof"
    PROVE  \E chains \in Nat : \E chainIDs \in [1 .. chains -> Nat], n \in 1 .. chains,
              d \in 0 .. 4, rootDepth \in 0 .. 4 :
              /\ Fits(Two(d), AuxBlocks(chainIDs))
              /\ input.auxblocks = AuxBlocks(chainIDs) /\ input.n = n
              /\ input.branchSize = Two(d) /\ input.rootSize = Two(rootDepth)
<1>1. IsProof(input)
  BY Kinds DEF Picked
<1>2. PICK chains \in 1 .. MaxChains, rootSize \in Trees, branchSize \in Trees :
      \E chainIDs \in [1 .. chains -> ChainIDs], n \in 1 .. chains :
          /\ Fits(rootSize, AuxBlocks(chainIDs)) /\ Fits(branchSize, AuxBlocks(chainIDs))
          /\ input = [kind |-> "proof", auxblocks |-> AuxBlocks(chainIDs), n |-> n,
                      rootSize |-> rootSize, branchSize |-> branchSize]
  BY <1>1 DEF IsProof
<1>3. PICK chainIDs \in [1 .. chains -> ChainIDs], n \in 1 .. chains :
          /\ Fits(branchSize, AuxBlocks(chainIDs))
          /\ input = [kind |-> "proof", auxblocks |-> AuxBlocks(chainIDs), n |-> n,
                      rootSize |-> rootSize, branchSize |-> branchSize]
  BY <1>2
<1>4. chains \in Nat /\ chainIDs \in [1 .. chains -> Nat]
  <2>1. chains \in Nat /\ ChainIDs \subseteq Nat
    BY ComputationsAssumption
  <2> QED
    BY <2>1
<1>5. PICK d \in 0 .. 4, rootDepth \in 0 .. 4 : branchSize = Two(d) /\ rootSize = Two(rootDepth)
  <2>1. \A size \in Trees : \E k \in 0 .. 4 : size = 2 ^ k
    BY ComputationsAssumption
  <2>2. (\E k \in 0 .. 4 : branchSize = 2 ^ k) /\ \E k \in 0 .. 4 : rootSize = 2 ^ k
    BY <2>1
  <2>3. \A k \in 0 .. 4 : 2 ^ k = Two(k)
    BY Powers
  <2> QED
    BY <2>2, <2>3
<1>6. /\ input.auxblocks = AuxBlocks(chainIDs) /\ input.n = n
      /\ input.branchSize = branchSize /\ input.rootSize = rootSize
  BY <1>3
<1> QED
  BY <1>3, <1>4, <1>5, <1>6

\* An aux daemon accepts the proof of its block exactly when the coinbase and
\* the branch are made for trees of one size, no later chain has taken the
\* slot of the chain and the slot is written with one digit (pool/work.go,
\* bitcoin/auxMerkelBranch.go).  For any chains and chain IDs, and the trees
\* up to 16 leaves.
THEOREM ProofsVerify == Spec => []ProofVerifies
<1>1. Picked => ProofVerifies
  <2> SUFFICES ASSUME Picked, input.kind = "proof"
               PROVE  Verifies(input.rootSize, input.branchSize, input.auxblocks, input.n)
                        <=> /\ input.rootSize = input.branchSize
                            /\ ~TakenByLater(input.auxblocks, input.n)
                            /\ GetExpectedIndex(input.auxblocks[input.n].chainID) <= 9
    BY DEF ProofVerifies
  <2>1. PICK chains \in Nat : \E chainIDs \in [1 .. chains -> Nat], n \in 1 .. chains,
             d \in 0 .. 4, rootDepth \in 0 .. 4 :
             /\ Fits(Two(d), AuxBlocks(chainIDs))
             /\ input.auxblocks = AuxBlocks(chainIDs) /\ input.n = n
             /\ input.branchSize = Two(d) /\ input.rootSize = Two(rootDepth)
    BY ProofInput
  <2>2. PICK chainIDs \in [1 .. chains -> Nat], n \in 1 .. chains,
             d \in 0 .. 4, rootDepth \in 0 .. 4 :
             /\ Fits(Two(d), AuxBlocks(chainIDs))
             /\ input.auxblocks = AuxBlocks(chainIDs) /\ input.n = n
             /\ input.branchSize = Two(d) /\ input.rootSize = Two(rootDepth)
    BY <2>1
  <2>3. Verifies(Two(rootDepth), Two(d), AuxBlocks(chainIDs), n)
          <=> /\ Two(rootDepth) = Two(d)
              /\ ~TakenByLater(AuxBlocks(chainIDs), n)
              /\ GetExpectedIndex(AuxBlocks(chainIDs)[n].chainID) <= 9
    BY <2>2, ProofAccepted
  <2> QED
    BY <2>2, <2>3
<1> QED
  BY <1>1, OneInput, PTL

\* The sizes that the code passes, 16 for the coinbase (pool/work.go:22) and 8
\* for the proof (auxMerkelBranch.go:18), are not those of one tree: whatever
\* the chains and their ids, an aux daemon accepts no proof that the code
\* makes, so that no instance of MergedMiningWorks with an input for it holds.
THEOREM NoProofIsAccepted ==
    ASSUME NEW chains \in Nat, NEW chainIDs \in [1 .. chains -> Nat], NEW n \in 1 .. chains,
           Fits(BranchTreeSize, AuxBlocks(chainIDs))
    PROVE  ~Verifies(CoinbaseTreeSize, BranchTreeSize, AuxBlocks(chainIDs), n)
<1>1. /\ BranchTreeSize = Two(3) /\ CoinbaseTreeSize = Two(4)
      /\ Two(3) # Two(4) /\ 3 \in 0 .. 4 /\ 4 \in 0 .. 4
  BY DEF BranchTreeSize, CoinbaseTreeSize, Two
<1>2. Fits(Two(3), AuxBlocks(chainIDs))
  BY <1>1
<1>3. ~Verifies(Two(4), Two(3), AuxBlocks(chainIDs), n)
  BY <1>1, <1>2, ProofAccepted
<1> QED
  BY <1>1, <1>3

=============================================================================
