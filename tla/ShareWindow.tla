---------------------------- MODULE ShareWindow ----------------------------
(***************************************************************************)
(* PROP and PPLNS over the shares table (payouts/prop.go, pplns.go,        *)
(* persistence/share.go and the reward loop of payouts/manager.go).        *)
(*                                                                         *)
(* A scheme reads the shares that were there before the block, newest      *)
(* first and page by page, one query each; credits the miners by their     *)
(* scores; and names a cutoff before which the manager deletes shares.     *)
(* Meanwhile the share buffer inserts shares, late ones among them, and    *)
(* blocks of other chains wait for their own confirmations.                *)
(*                                                                         *)
(* A score is share.Difficulty / share.NetworkDifficulty in integer units; *)
(* a miner is awarded parts of a whole, in the same units.                 *)
(***************************************************************************)
EXTENDS Integers, FiniteSets, Functions

CONSTANTS
    Miners,
    Scores,
    NWindow,        \* the window of PPLNS, two network difficulties, in units
    Blocks,
    BlockReward,    \* what is left for the miners, in integer units of coin
    PageSize,
    Times,          \* when shares and blocks are created
    MaxShares,      \* bound on shares
    MaxFaults       \* bound on statements that fail

ASSUME ShareWindowAssumption ==
    /\ Scores \subseteq Nat \ {0}
    /\ Times \subseteq Nat \ {0}
    /\ {NWindow, BlockReward, PageSize} \subseteq Nat \ {0}
    /\ {MaxShares, MaxFaults} \subseteq Nat
    /\ IsFiniteSet(Miners)

NoTime == 0         \* time.Time{}

Share == [id : 1 .. MaxShares, miner : Miners, score : Scores, created : Times]

VARIABLES
    scheme,         \* config.Payouts.Scheme, read once
    shares,         \* the table
    created,        \* Found.Created, NoTime while the block is not found
    outcome,        \* what calculateMinerRewards made of the block
    awards,         \* parts credited to each miner for each block
    stage,          \* where UpdateMinerBalances, or the deletion after it, is
    block,          \* confirmed
    before, inclusive, parts, cutoffTime,   \* its locals
    \* history
    inserted,       \* number of shares so far
    window,         \* what the scheme should see: the shares before the block
    counted,        \* the shares behind the awards of each block
    seen,           \* the shares behind parts
    deletions,      \* shares deleted so far
    faults

cursor == <<before, inclusive>>
locals == <<block, cursor, parts, cutoffTime, seen>>
ledger == <<created, outcome, awards, counted, window>>
vars == <<scheme, shares, stage, locals, ledger, inserted, deletions, faults>>

-----------------------------------------------------------------------------

NoParts == [m \in Miners |-> 0]

Init ==
    /\ scheme \in {"PROP", "PPLNS"}
    /\ shares = {}
    /\ created = [b \in Blocks |-> NoTime]
    /\ outcome = [b \in Blocks |-> "pending"]
    /\ awards = [b \in Blocks |-> NoParts]
    /\ stage = "sleep"
    /\ block \in Blocks
    /\ before = NoTime /\ inclusive = TRUE
    /\ parts = NoParts /\ cutoffTime = NoTime /\ seen = {}
    /\ inserted = 0 /\ deletions = {} /\ faults = 0
    /\ window = [b \in Blocks |-> {}]
    /\ counted = [b \in Blocks |-> {}]

\* The buffer writes shares when it can: in any order of their times.
InsertShare ==
    /\ inserted < MaxShares
    /\ inserted' = inserted + 1
    /\ \E m \in Miners, w \in Scores, t \in Times :
          shares' = shares \cup
              {[id |-> inserted + 1, miner |-> m, score |-> w, created |-> t]}
    /\ UNCHANGED <<scheme, stage, locals, ledger, deletions, faults>>

FindBlock(b) ==
    /\ created[b] = NoTime
    /\ \E t \in Times : created' = [created EXCEPT ![b] = t]
    /\ UNCHANGED <<scheme, shares, stage, locals, outcome, awards, counted,
                   window, inserted, deletions, faults>>

-----------------------------------------------------------------------------
\* Reading: GetSharesBefore, page by page

Sum(S) == SumFunctionOnSet([s \in S |-> s.score], S)

\* ... created <= before, or <
MatchingMutant == {s \in shares : s.created < before}
Matching ==
    {s \in shares : s.created < before \/ (inclusive /\ s.created = before)}

\* The first shares of S by ORDER BY created DESC, ties in any order.
NewestOf(S) ==
    {P \in SUBSET S : \A p \in P, s \in S \ P : s.created <= p.created}

\* ... FETCH NEXT pageSize ROWS ONLY
Pages ==
    {P \in NewestOf(Matching) :
        \/ Cardinality(P) = PageSize
        \/ P = Matching /\ Cardinality(P) < PageSize}

NewestIn(S) == CHOOSE t \in {s.created : s \in S} : \A s \in S : s.created <= t

\* The time of the last share of a page, which is its oldest.
LastOfMutant(P) ==
    (CHOOSE t \in {p.created : p \in P} : \A p \in P : p.created >= t) - 1
LastOf(P) ==
    CHOOSE t \in {p.created : p \in P} : \A p \in P : p.created >= t

\* A block whose confirmations the manager has just seen.
StartReward(b) ==
    /\ stage = "sleep"
    /\ created[b] # NoTime /\ outcome[b] = "pending"
    /\ stage' = "page"
    /\ block' = b
    /\ before' = created[b] /\ inclusive' = TRUE
    /\ parts' = NoParts /\ cutoffTime' = NoTime /\ seen' = {}
    /\ window' = [window EXCEPT ![b] = {s \in shares : s.created <= created[b]}]
    /\ UNCHANGED <<scheme, shares, created, outcome, awards, counted, inserted,
                   deletions, faults>>

\* PPLNS cuts a share that reaches the end of the window.  What has been
\* accumulated stays zero: the scheme never adds to it.
accumulatedScore == 0
Credited(s) ==
    IF scheme = "PPLNS" /\ accumulatedScore + s.score >= NWindow
    THEN NWindow - accumulatedScore
    ELSE s.score

With(S) ==
    [m \in Miners |->
        LET mine == {s \in S : s.miner = m}
        IN  parts[m] + SumFunctionOnSet([s \in mine |-> Credited(s)], mine)]

Total(p) == SumFunctionOnSet(p, Miners)

\* PPLNS checks share by share that some of the reward remains.
Exhausts(S) == scheme = "PPLNS" /\ Total(With(S)) >= NWindow

\* PROP keeps the newest time of all; PPLNS never gets past the window.
CutoffAfterMutant(P) ==     \* the last one read
    IF scheme = "PROP" /\ P # {} THEN LastOf(P) ELSE cutoffTime
CutoffAfter(P) ==
    IF scheme = "PROP" /\ P # {} /\ cutoffTime < NewestIn(P)
    THEN NewestIn(P) ELSE cutoffTime

\* The cursor for the next page; after a short page there is none.
NextPage(P) ==
    IF Cardinality(P) < PageSize
    THEN stage' = "award" /\ UNCHANGED before
    ELSE before' = LastOf(P) /\ UNCHANGED stage

ReadPage ==
    /\ stage = "page"
    /\ \E P \in Pages :
          /\ ~Exhausts(P)
          /\ inclusive' = FALSE
          /\ parts' = With(P)
          /\ cutoffTime' = CutoffAfter(P)
          /\ seen' = seen \cup P
          /\ NextPage(P)
    /\ UNCHANGED <<scheme, shares, block, ledger, inserted, deletions, faults>>

Decide(b, how) ==
    /\ outcome' = [outcome EXCEPT ![b] = how]
    /\ UNCHANGED <<created, awards, counted, window>>

\* The share S \ rest is the one after which nothing remains.
PPLNSOverflow ==
    /\ stage = "page"
    /\ \E P \in Pages : \E S \in NewestOf(P) :
          /\ Exhausts(S)
          /\ \E s \in S : S \ {s} \in NewestOf(P) /\ ~Exhausts(S \ {s})
          /\ parts' = With(S)
          /\ seen' = seen \cup S
    /\ Decide(block, "refused")
    /\ stage' = "sleep"
    /\ UNCHANGED <<scheme, shares, block, cursor, cutoffTime, inserted, deletions,
                   faults>>

-----------------------------------------------------------------------------
\* Awarding and clearing

\* score * (blockReward / accumulated) is exact in binary floating point when
\* the accumulated score divides the reward up to a power of two.
PowerOfTwo == 2 ^ 10
IsExact(whole) == (BlockReward * PowerOfTwo) % whole = 0

\* The rewards of PROP sum to the block reward, up to rounding: whether some
\* of it remains is certain only when they are exact, or when there are none.
PROPOverflow ==
    /\ stage = "award" /\ scheme = "PROP"
    /\ Total(parts) # 0
    /\ Decide(block, "refused")
    /\ stage' = "sleep"
    /\ UNCHANGED <<scheme, shares, locals, inserted, deletions, faults>>

Remains ==
    scheme = "PROP" /\ Total(parts) # 0 => ~IsExact(Total(parts))

\* AddAmount for every miner of the map.
Award ==
    /\ stage = "award" /\ Remains
    /\ stage' = "delete"
    /\ outcome' = [outcome EXCEPT ![block] = "paid"]
    /\ awards' = [awards EXCEPT ![block] = parts]
    /\ counted' = [counted EXCEPT ![block] = seen]
    /\ UNCHANGED <<scheme, shares, locals, created, window, inserted, deletions,
                   faults>>

\* The table after DELETE FROM shares WHERE created < cutoff
SharesFrom(cutoff) == {s \in shares : s.created >= cutoff}

DeleteSharesBefore ==
    /\ stage = "delete"
    /\ shares' = SharesFrom(cutoffTime)
    /\ deletions' = deletions \cup (shares \ SharesFrom(cutoffTime))
    /\ stage' = "sleep"
    /\ UNCHANGED <<scheme, locals, ledger, inserted, faults>>

-----------------------------------------------------------------------------
\* Statements that fail; the manager logs the error and goes on

Fault ==
    /\ faults < MaxFaults
    /\ faults' = faults + 1
    /\ stage' = "sleep"
    /\ UNCHANGED <<scheme, shares, locals, inserted, deletions>>

PageFails == stage = "page" /\ Decide(block, "failed") /\ Fault

\* Some miners have been credited when the statement of another fails.
AwardFails ==
    /\ stage = "award" /\ Remains
    /\ \E M \in SUBSET {m \in Miners : parts[m] > 0} :
          /\ \E m \in Miners \ M : parts[m] > 0
          /\ awards' = [awards EXCEPT ![block] =
                           [m \in Miners |-> IF m \in M THEN parts[m] ELSE 0]]
          /\ counted' = [counted EXCEPT ![block] = {s \in seen : s.miner \in M}]
    /\ outcome' = [outcome EXCEPT ![block] = "failed"]
    /\ UNCHANGED <<created, window>>
    /\ Fault

DeleteFails == stage = "delete" /\ UNCHANGED ledger /\ Fault

Reward ==
    \/ \E b \in Blocks : StartReward(b)
    \/ ReadPage \/ PPLNSOverflow \/ PROPOverflow \/ Award \/ DeleteSharesBefore
    \/ PageFails \/ AwardFails \/ DeleteFails

Environment == InsertShare \/ \E b \in Blocks : FindBlock(b)

Next == Reward \/ Environment

Spec == Init /\ [][Next]_vars

-----------------------------------------------------------------------------
\* Properties

\* The locals and tables hold what the code's types let them hold, and a query
\* has a time to ask for.
TypeOK ==
    /\ scheme \in {"PROP", "PPLNS"}
    /\ shares \subseteq Share /\ deletions \subseteq Share
    /\ created \in [Blocks -> Times \cup {NoTime}]
    /\ outcome \in [Blocks -> {"pending", "paid", "refused", "failed"}]
    /\ awards \in [Blocks -> [Miners -> Nat]]
    /\ stage \in {"sleep", "page", "award", "delete"}
    /\ block \in Blocks
    /\ before \in Times \cup {NoTime} /\ (stage = "page" => before # NoTime)
    /\ inclusive \in BOOLEAN
    /\ parts \in [Miners -> Nat]
    /\ cutoffTime \in Times \cup {NoTime}
    /\ seen \subseteq Share
    /\ window \in [Blocks -> SUBSET Share]
    /\ counted \in [Blocks -> SUBSET Share]
    /\ inserted \in 0 .. MaxShares /\ faults \in 0 .. MaxFaults

By(m, S) == {s \in S : s.miner = m}
TiesWithOne(s, S) == \E t \in S : t # s /\ t.created = s.created

\* The awards of a PPLNS block stay below its whole reward: a block on whose
\* reward the shares lay claim in full is refused, and pays nobody.
RewardNotExhausted ==
    scheme = "PPLNS" => \A b \in Blocks : Total(awards[b]) < NWindow

\* A block that has been shared out pays every miner exactly for the shares the
\* pages have shown, none of them twice, none newer than the block; what the
\* pages have not shown of the shares that were there when the reward began was
\* cut off from others of the same time by the end of a page; and whatever
\* fails, PPLNS awards less than the reward.
AwardsFollowWork ==
    /\ \A b \in Blocks : outcome[b] = "paid" =>
          /\ \A m \in Miners : awards[b][m] = Sum(By(m, counted[b]))
          /\ \A s \in counted[b] : s.created <= created[b]
          /\ \A s \in window[b] \ counted[b] : TiesWithOne(s, counted[b])
    /\ RewardNotExhausted

\* While deletions succeed, PROP pays a share for two blocks only when it is
\* the newest that one of them counted: the deletion spares the cutoff itself.
PaidOnce ==
    \A b, c \in Blocks :
        b # c /\ outcome[b] = "paid" /\ outcome[c] = "paid"
        /\ scheme = "PROP" /\ faults = 0 =>
            \A s \in counted[b] \cap counted[c] :
                s.created \in {NewestIn(counted[b]), NewestIn(counted[c])}

\* A share is deleted only after some block has been shared out over it, unless
\* the end of a page cut it off or it came in while that block was rewarded.
DeletedWasCounted ==
    \A s \in deletions : \E b \in Blocks :
        /\ outcome[b] = "paid" /\ s.created <= created[b]
        /\ s \in window[b] => s \in counted[b] \/ TiesWithOne(s, counted[b])

\* prop.go: "PROP payout overflow! - we awarded more than we have".
OverflowMeansOverAward ==
    [][\A b \in Blocks : outcome[b] = "pending" /\ outcome'[b] = "refused"
          => Total(parts) > Sum(seen)]_vars

=============================================================================
