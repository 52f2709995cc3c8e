----------------------------- MODULE RpcManager -----------------------------
(***************************************************************************)
(* Failover between the nodes of one chain (rpc/manager.go, health.go).    *)
(*                                                                         *)
(* The pool's listener goroutine calls CheckAndRecoverRPCs, one call at a  *)
(* time.  Every call that moved to another node leaves a goroutine behind  *)
(* that wakes up every primaryCheckInterval until the primary answers, and *)
(* then resets activeIndex.  Nothing synchronises them: each read and each *)
(* write of activeIndex is a step.  The payout goroutine only reads it.    *)
(***************************************************************************)
EXTENDS Integers

CONSTANTS
    NodesLength,    \* len(clients)
    MaxLoops,       \* bound on goroutines going back to the primary
    MaxFailures     \* bound on nodes going down

ASSUME NodesAssumption ==
    NodesLength \in Nat \ {0} /\ MaxLoops \in Nat /\ MaxFailures \in Nat

Nodes == 0 .. NodesLength - 1

VARIABLES
    up,             \* which nodes answer getblocktemplate
    activeIndex,
    stage,          \* where the call of CheckAndRecoverRPCs is
    nodesChecked,   \* its local of FindHealthyNode
    client,         \* index of the client it is checking
    index,          \* value of activeIndex that activeIndex++ has read
    waiting,        \* goroutines that sleep or find the primary down
    restoring,      \* goroutines that found the primary up, about to reset
    \* history
    foundDown,      \* nodes this search found down
    disturbed,      \* activeIndex was reset during this search
    gaveUp,         \* some search ended without a healthy node
    failures        \* nodes gone down so far

call == <<stage, nodesChecked, client, index>>
loops == <<waiting, restoring>>
history == <<foundDown, disturbed, gaveUp, failures>>
vars == <<up, activeIndex, call, loops, history>>

Init ==
    /\ up = [n \in Nodes |-> TRUE]
    /\ activeIndex = 0
    /\ stage = "idle"
    /\ nodesChecked = 0
    /\ client = 0
    /\ index = 0
    /\ waiting = 0
    /\ restoring = 0
    /\ foundDown = {}
    /\ disturbed = FALSE
    /\ gaveUp = FALSE
    /\ failures = 0

-----------------------------------------------------------------------------
(* CheckAndRecoverRPCs *)

\* GetActiveClient: the index is read before the node is asked.
CheckAndRecoverRPCs ==
    /\ stage = "idle"
    /\ waiting + restoring < MaxLoops
    /\ client' = activeIndex
    /\ nodesChecked' = 0
    /\ foundDown' = {}
    /\ disturbed' = FALSE
    /\ stage' = "checkActive"
    /\ UNCHANGED <<up, activeIndex, index, loops, gaveUp, failures>>

CheckActive ==
    /\ stage = "checkActive"
    /\ stage' = IF up[client] THEN "idle" ELSE "search"
    /\ UNCHANGED <<up, activeIndex, nodesChecked, client, index, loops, history>>

\* FindHealthyNode: the head of the loop
MoreNodesMutant1 == nodesChecked <= NodesLength
MoreNodesMutant2 == nodesChecked < NodesLength - 1
MoreNodes == nodesChecked < NodesLength

NextCheck ==
    /\ stage = "search"
    /\ MoreNodes
    /\ nodesChecked' = nodesChecked + 1
    /\ stage' = "nextNode"
    /\ UNCHANGED <<up, activeIndex, client, index, loops, history>>

NoHealthyNode ==
    /\ stage = "search"
    /\ ~MoreNodes
    /\ nodesChecked' = nodesChecked + 1
    /\ gaveUp' = TRUE
    /\ stage' = "error"
    /\ UNCHANGED <<up, activeIndex, client, index, loops, foundDown, disturbed,
                   failures>>

\* The error goes back to the caller, which logs it.
ReturnError ==
    /\ stage = "error"
    /\ stage' = "idle"
    /\ UNCHANGED <<up, activeIndex, nodesChecked, client, index, loops, history>>

\* nextNode: the comparison, then either the read and the write of
\* activeIndex++ or the write of 0.
HasNextMutant == activeIndex <= NodesLength - 1
HasNext == activeIndex < NodesLength - 1

CompareIndex ==
    /\ stage = "nextNode"
    /\ stage' = IF HasNext THEN "readIndex" ELSE "wrapIndex"
    /\ UNCHANGED <<up, activeIndex, nodesChecked, client, index, loops, history>>

ReadIndex ==
    /\ stage = "readIndex"
    /\ index' = activeIndex
    /\ stage' = "writeIndex"
    /\ UNCHANGED <<up, activeIndex, nodesChecked, client, loops, history>>

WriteIndex ==
    /\ \/ stage = "writeIndex" /\ activeIndex' = index + 1
       \/ stage = "wrapIndex" /\ activeIndex' = 0
    /\ stage' = "getActive"
    /\ UNCHANGED <<up, nodesChecked, client, index, loops, history>>

\* checkActiveNodeHealth
GetActiveClient ==
    /\ stage = "getActive"
    /\ client' = activeIndex
    /\ stage' = "checkHealth"
    /\ UNCHANGED <<up, activeIndex, nodesChecked, index, loops, history>>

NotHealthy ==
    /\ stage = "checkHealth"
    /\ ~up[client]
    /\ foundDown' = foundDown \cup {client}
    /\ stage' = "search"
    /\ UNCHANGED <<up, activeIndex, nodesChecked, client, index, loops,
                   disturbed, gaveUp, failures>>

\* Success launches the loop that goes back to the primary.
LaunchMutant == waiting' = waiting
Launch == waiting' = waiting + 1

NowHealthy ==
    /\ stage = "checkHealth"
    /\ up[client]
    /\ Launch
    /\ stage' = "idle"
    /\ UNCHANGED <<up, activeIndex, nodesChecked, client, index, restoring,
                   history>>

-----------------------------------------------------------------------------
(* The goroutines that go back to the primary. *)

CheckPrimary ==
    /\ waiting > 0
    /\ up[0]
    /\ waiting' = waiting - 1
    /\ restoring' = restoring + 1
    /\ UNCHANGED <<up, activeIndex, call, history>>

RestorePrimary ==
    /\ restoring > 0
    /\ restoring' = restoring - 1
    /\ activeIndex' = 0
    /\ disturbed' = (stage # "idle" \/ disturbed)
    /\ UNCHANGED <<up, call, waiting, foundDown, gaveUp, failures>>

-----------------------------------------------------------------------------
(* The nodes. *)

GoDown(n) ==
    /\ up[n]
    /\ failures < MaxFailures
    /\ failures' = failures + 1
    /\ up' = [up EXCEPT ![n] = FALSE]
    /\ UNCHANGED <<activeIndex, call, loops, foundDown, disturbed, gaveUp>>

ComeBack(n) ==
    /\ ~up[n]
    /\ up' = [up EXCEPT ![n] = TRUE]
    /\ UNCHANGED <<activeIndex, call, loops, history>>

Caller ==
    \/ CheckActive
    \/ NextCheck \/ NoHealthyNode \/ ReturnError
    \/ CompareIndex \/ ReadIndex \/ WriteIndex
    \/ GetActiveClient \/ NotHealthy \/ NowHealthy

Next ==
    \/ CheckAndRecoverRPCs \/ Caller
    \/ CheckPrimary \/ RestorePrimary
    \/ \E n \in Nodes : GoDown(n) \/ ComeBack(n)

Spec == Init /\ [][Next]_vars

\* Goroutines that can run do, a call in progress returns, a sleep ends.  A
\* call is made only when a fetch failed: no fairness on its start.
FairSpec ==
    /\ Spec
    /\ WF_vars(Caller)
    /\ WF_vars(CheckPrimary)
    /\ WF_vars(RestorePrimary)

-----------------------------------------------------------------------------
(* Properties. *)

Stages == {"idle", "checkActive", "search", "error", "nextNode", "readIndex",
           "writeIndex", "wrapIndex", "getActive", "checkHealth"}

TypeOK ==
    /\ up \in [Nodes -> BOOLEAN]
    /\ activeIndex \in Int
    /\ stage \in Stages
    /\ nodesChecked \in 0 .. NodesLength + 1
    /\ client \in Int
    /\ index \in Int
    /\ waiting \in 0 .. MaxLoops
    /\ restoring \in 0 .. MaxLoops
    /\ foundDown \in SUBSET Int
    /\ disturbed \in BOOLEAN
    /\ gaveUp \in BOOLEAN
    /\ failures \in 0 .. MaxFailures

\* activeIndex indexes clients (manager.go:32) and the config's nodes
\* (rewards.go:38, nodes.go:46) without a check, while several goroutines
\* write it in pieces: it never leaves the slice.
IndexInRange == activeIndex \in Nodes

\* A client other than the primary is in use only while some goroutine will
\* bring the primary back, until a search has given up.
PrimaryWillBeRestored ==
    activeIndex # 0 => stage # "idle" \/ waiting + restoring > 0 \/ gaveUp

\* "no healthy nodes" (manager.go:68) is only reported when every node was
\* found down during the search, unless a reset fell into the search.
GivesUpOnlyWhenAllDown ==
    stage = "error" => foundDown = Nodes \/ disturbed

\* Once the primary stays up the manager is back on it and stays there,
\* unless some search has given up.
ReturnsToPrimary ==
    <>[](up[0]) => <>[](activeIndex = 0) \/ <>gaveUp

=============================================================================
