----------------------------- MODULE ShareBuffer -----------------------------
(***************************************************************************)
(* The share buffer (pool/buffer.go, pool/work.go, persistence/share.go).  *)
(*                                                                         *)
(* Each client goroutine appends the share it accepted under the pool's    *)
(* lock.  One goroutine swaps the buffer for nil under the lock, inserts   *)
(* what it took in one transaction without the lock, and puts it back      *)
(* under the lock when the insert failed.  A section under the lock is one *)
(* step.                                                                   *)
(***************************************************************************)
EXTENDS Integers, FiniteSets

CONSTANTS
    Shares,         \* the valid shares miners submit
    MaxFaults,      \* bound on failing InsertBatch calls
    MaxCrashes      \* bound on process crashes

ASSUME BoundsAssumption == MaxFaults \in Nat /\ MaxCrashes \in Nat

VARIABLES
    buffer,         \* pool.shareBuffer
    stage,          \* of flushShareBufferAtInterval
    sharesToWrite,  \* its local
    rows,           \* rows of the shares table, by share
    \* history
    handled,        \* shares appended to the buffer, in this run or before
    faults,         \* failed InsertBatch calls
    doubtful,       \* those of them that had committed
    crashes

flusher == <<stage, sharesToWrite>>
history == <<handled, faults, doubtful, crashes>>
vars == <<buffer, flusher, rows, history>>

Init ==
    /\ buffer = {}
    /\ stage = "sleep"
    /\ sharesToWrite = {}
    /\ rows = [s \in Shares |-> 0]
    /\ handled = {}
    /\ faults = 0
    /\ doubtful = 0
    /\ crashes = 0

\* recieveWorkFromClient, lines 181-193
AppendShare(s) ==
    /\ s \notin handled
    /\ handled' = handled \cup {s}
    /\ buffer' = buffer \cup {s}
    /\ UNCHANGED <<flusher, rows, faults, doubtful, crashes>>

\* Lock; take the buffer; leave nil; Unlock
LeaveNilMutant == buffer' = buffer
LeaveNil == buffer' = {}

TakeBuffer ==
    /\ stage = "sleep"
    /\ sharesToWrite' = buffer
    /\ LeaveNil
    /\ stage' = "insert"
    /\ UNCHANGED <<rows, history>>

Insert(S) == rows' = [s \in Shares |-> IF s \in S THEN rows[s] + 1 ELSE rows[s]]

InsertBatch ==
    /\ stage = "insert"
    /\ Insert(sharesToWrite)
    /\ sharesToWrite' = {}
    /\ stage' = "sleep"
    /\ UNCHANGED <<buffer, history>>

\* The transaction is all or nothing, but when Commit itself returns the
\* error the rows may be there.
InsertBatchFails ==
    /\ stage = "insert"
    /\ faults < MaxFaults
    /\ faults' = faults + 1
    /\ \/ UNCHANGED <<rows, doubtful>>
       \/ Insert(sharesToWrite) /\ doubtful' = doubtful + 1
    /\ stage' = "requeue"
    /\ UNCHANGED <<buffer, sharesToWrite, handled, crashes>>

\* Lock; append what was taken to what has come since; Unlock
PutBackMutant1 == buffer' = sharesToWrite
PutBackMutant2 == buffer' = buffer \cup {sharesToWrite}
PutBack == buffer' = buffer \cup sharesToWrite

RequeueMutant ==        \* the error is only logged
    /\ stage = "requeue"
    /\ sharesToWrite' = {}
    /\ stage' = "sleep"
    /\ UNCHANGED <<buffer, rows, history>>
Requeue ==
    /\ stage = "requeue"
    /\ PutBack
    /\ sharesToWrite' = {}
    /\ stage' = "sleep"
    /\ UNCHANGED <<rows, history>>

\* The buffer is only in memory.
Crash ==
    /\ crashes < MaxCrashes
    /\ crashes' = crashes + 1
    /\ buffer' = {}
    /\ sharesToWrite' = {}
    /\ stage' = "sleep"
    /\ UNCHANGED <<rows, handled, faults, doubtful>>

Flusher == TakeBuffer \/ InsertBatch \/ Requeue

Next ==
    \/ \E s \in Shares : AppendShare(s)
    \/ Flusher
    \/ InsertBatchFails
    \/ Crash

Spec == Init /\ [][Next]_vars

\* The flushing goroutine is scheduled, its sleep and its statements end.
FairSpec == Spec /\ WF_vars(Flusher)

-----------------------------------------------------------------------------
(* Properties. *)

TypeOK ==
    /\ buffer \in SUBSET Shares
    /\ stage \in {"sleep", "insert", "requeue"}
    /\ sharesToWrite \in SUBSET Shares
    /\ rows \in [Shares -> Nat]
    /\ handled \in SUBSET Shares
    /\ faults \in 0 .. MaxFaults
    /\ doubtful \in 0 .. faults
    /\ crashes \in 0 .. MaxCrashes

\* A share earns its miner at most one row, plus one for each insert that
\* reported a failure after it had committed.
CountedOnce == \A s \in Shares : rows[s] <= 1 + doubtful

\* Refinement: the fate of a share, seen from outside.
fate ==
    [s \in Shares |->
        IF rows[s] > 0 THEN "stored"
        ELSE IF s \in buffer \cup sharesToWrite THEN "accepted"
        ELSE IF s \in handled THEN "lost" ELSE "none"]

Log == INSTANCE ShareLog WITH Shares <- Shares, fate <- fate, crashes <- crashes

\* Every step of the buffer is a step of ShareLog or changes no fate: a failed
\* insert, a flush in progress or a concurrent append loses no share.
ImplementsLog == Log!Spec

\* Every accepted share is stored in the end, unless the process crashes first.
SharesAreFlushed ==
    \A s \in Shares, c \in 0 .. MaxCrashes :
        fate[s] = "accepted" /\ crashes = c
            ~> fate[s] = "stored" \/ crashes > c

=============================================================================
