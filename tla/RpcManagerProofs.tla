-------------------------- MODULE RpcManagerProofs --------------------------
(***************************************************************************)
(* Theorems about the failover, for any number of nodes and any number of  *)
(* goroutines restoring the primary.                                       *)
(***************************************************************************)
EXTENDS PoolFailover, TLAPS

-----------------------------------------------------------------------------
(* The index.  A write of index + 1 follows a comparison with the last     *)
(* index; a reset to zero in between only makes the sum smaller, provided  *)
(* there are two nodes, and the comparison has shown that.                 *)

IndexInv ==
    /\ TypeOK
    /\ nodesChecked > NodesLength => stage \in {"error", "idle"}
    /\ waiting + restoring <= MaxLoops
    /\ stage # "idle" => waiting + restoring < MaxLoops
    /\ IndexInRange
    /\ client \in Nodes
    /\ foundDown \subseteq Nodes
    /\ stage = "readIndex" => activeIndex + 1 \in Nodes
    /\ stage = "writeIndex" => index + 1 \in Nodes /\ index \in Nodes

LEMMA NodesRange == 0 \in Nodes /\ \A n : n \in Nodes <=> n \in Int /\ 0 <= n /\ n < NodesLength
BY NodesAssumption DEF Nodes

LEMMA IndexInit == Init => IndexInv
<1> SUFFICES ASSUME Init
             PROVE  IndexInv
  OBVIOUS
<1> USE NodesAssumption, NodesRange DEF Init
<1>1. up \in [Nodes -> BOOLEAN] /\ disturbed \in BOOLEAN /\ gaveUp \in BOOLEAN
  BY ONLY Init DEF Init
<1>2. /\ nodesChecked \in 0 .. NodesLength + 1
      /\ waiting \in 0 .. MaxLoops /\ restoring \in 0 .. MaxLoops
      /\ failures \in 0 .. MaxFailures
      /\ activeIndex \in Int /\ client \in Int /\ index \in Int
  OBVIOUS
<1>3. TypeOK
  BY <1>1, <1>2 DEF TypeOK, Stages
<1> QED
  BY <1>3 DEF IndexInv, IndexInRange

LEMMA IndexStep == IndexInv /\ [Next]_vars => IndexInv'
<1> SUFFICES ASSUME IndexInv, [Next]_vars
             PROVE  IndexInv'
  OBVIOUS
<1> USE NodesAssumption, NodesRange
    DEF IndexInv, TypeOK, IndexInRange, Stages, vars, call, loops, history
<1>1. CASE CheckAndRecoverRPCs
  <2>1. disturbed' \in BOOLEAN /\ gaveUp' \in BOOLEAN /\ up' \in [Nodes -> BOOLEAN]
    BY ONLY IndexInv, <1>1 DEF IndexInv, TypeOK, CheckAndRecoverRPCs
  <2> QED
    BY <1>1, <2>1 DEF CheckAndRecoverRPCs
<1>2. CASE CheckActive
  BY <1>2 DEF CheckActive
<1>3. CASE NextCheck
  BY <1>3 DEF NextCheck, MoreNodes
<1>4. CASE NoHealthyNode \/ ReturnError
  <2>1. disturbed' \in BOOLEAN /\ gaveUp' \in BOOLEAN /\ up' \in [Nodes -> BOOLEAN]
    BY ONLY IndexInv, <1>4 DEF IndexInv, TypeOK, NoHealthyNode, ReturnError, vars,
                               history
  <2>2. CASE NoHealthyNode
    <3>1. nodesChecked' \in 0 .. NodesLength + 1
      BY <2>2 DEF NoHealthyNode
    <3> QED
      BY <2>1, <2>2, <3>1 DEF NoHealthyNode
  <2>3. CASE ReturnError
    BY <2>1, <2>3 DEF ReturnError
  <2> QED
    BY <1>4, <2>2, <2>3
<1>5. CASE CompareIndex
  BY <1>5 DEF CompareIndex, HasNext
<1>6. CASE ReadIndex
  BY <1>6 DEF ReadIndex
<1>7. CASE WriteIndex
  BY <1>7 DEF WriteIndex
<1>8. CASE GetActiveClient
  BY <1>8 DEF GetActiveClient
<1>9. CASE NotHealthy
  BY <1>9 DEF NotHealthy
<1>10. CASE NowHealthy
  BY <1>10 DEF NowHealthy, Launch
<1>11. CASE CheckPrimary
  BY <1>11 DEF CheckPrimary
<1>12. CASE RestorePrimary
  BY <1>12 DEF RestorePrimary
<1>13. ASSUME NEW n \in Nodes, GoDown(n) \/ ComeBack(n)
       PROVE  IndexInv'
  <2>1. up' \in [Nodes -> BOOLEAN]
    BY ONLY IndexInv, <1>13 DEF IndexInv, TypeOK, GoDown, ComeBack
  <2>2. failures' \in 0 .. MaxFailures
    BY <1>13 DEF GoDown, ComeBack
  <2>3. UNCHANGED <<activeIndex, call, loops, foundDown, disturbed, gaveUp>>
    BY <1>13 DEF GoDown, ComeBack
  <2> QED
    BY <2>1, <2>2, <2>3
<1>14. CASE UNCHANGED vars
  BY <1>14
<1> QED
  BY <1>1, <1>2, <1>3, <1>4, <1>5, <1>6, <1>7, <1>8, <1>9, <1>10, <1>11, <1>12,
     <1>13, <1>14 DEF Next, Caller

(* clients[activeIndex] (manager.go:32) and the like never index out of    *)
(* the slice, although nextNode and RestorePrimary race.                   *)
THEOREM IndexStaysInRange == Spec => []IndexInRange
<1>1. IndexInv => IndexInRange
  BY DEF IndexInv
<1> QED
  BY <1>1, IndexInit, IndexStep, PTL DEF Spec

(* The variables of the manager and its goroutines keep their ranges.      *)
THEOREM TypeCorrect == Spec => []TypeOK
<1>1. IndexInv => TypeOK
  BY DEF IndexInv
<1> QED
  BY <1>1, IndexInit, IndexStep, PTL DEF Spec

-----------------------------------------------------------------------------
(* Going back to the primary.  Only a search moves the index off zero; it  *)
(* ends with a new goroutine or gives up.                                  *)

RestoreInv ==
    stage \in {"idle", "checkActive"} /\ activeIndex # 0
        => waiting + restoring > 0 \/ gaveUp

ErrorInv == stage = "error" => gaveUp

LEMMA RestoreInit == Init => RestoreInv /\ ErrorInv
BY DEF Init, RestoreInv, ErrorInv

LEMMA RestoreStep ==
    IndexInv /\ RestoreInv /\ ErrorInv /\ [Next]_vars => RestoreInv' /\ ErrorInv'
<1> SUFFICES ASSUME TypeOK, RestoreInv, ErrorInv, [Next]_vars
             PROVE  RestoreInv' /\ ErrorInv'
  BY DEF IndexInv
<1> USE DEF RestoreInv, ErrorInv, TypeOK, vars, call, loops, history
<1>1. CASE CheckAndRecoverRPCs \/ CheckActive
  BY <1>1 DEF CheckAndRecoverRPCs, CheckActive
<1>2. CASE NextCheck \/ NoHealthyNode \/ ReturnError
  BY <1>2 DEF NextCheck, NoHealthyNode, ReturnError
<1>3. CASE CompareIndex \/ ReadIndex \/ WriteIndex \/ GetActiveClient \/ NotHealthy
  BY <1>3 DEF CompareIndex, ReadIndex, WriteIndex, GetActiveClient, NotHealthy
<1>4. CASE NowHealthy
  BY <1>4 DEF NowHealthy, Launch
<1>5. CASE CheckPrimary
  BY <1>5 DEF CheckPrimary
<1>6. CASE RestorePrimary
  BY <1>6 DEF RestorePrimary
<1>7. ASSUME NEW n \in Nodes, GoDown(n) \/ ComeBack(n)
      PROVE  RestoreInv' /\ ErrorInv'
  BY <1>7 DEF GoDown, ComeBack
<1>8. CASE UNCHANGED vars
  BY <1>8
<1> QED
  BY <1>1, <1>2, <1>3, <1>4, <1>5, <1>6, <1>7, <1>8 DEF Next, Caller

(* "Launch loop to eventually get us back to the primary node": between    *)
(* calls the index is off the primary only while such a loop exists, or    *)
(* after a search that gave up.                                            *)
THEOREM LoopWhileOffPrimary == Spec => []PrimaryWillBeRestored
<1>1. RestoreInv => PrimaryWillBeRestored
  BY DEF RestoreInv, PrimaryWillBeRestored
<1> QED
  BY <1>1, IndexInit, IndexStep, RestoreInit, RestoreStep, PTL DEF Spec

-----------------------------------------------------------------------------
(* The search.  Undisturbed, it goes round the slice: the nodes it found   *)
(* down are those fewer than nodesChecked steps behind the index.          *)

StepsBehind(n) ==
    IF n <= activeIndex THEN activeIndex - n ELSE activeIndex - n + NodesLength

Searched(low, high) == {n \in Nodes : low <= StepsBehind(n) /\ StepsBehind(n) < high}

SearchInv ==
    disturbed \/
    /\ stage = "checkActive" => foundDown = {} /\ nodesChecked = 0
    /\ stage = "search" => foundDown = Searched(0, nodesChecked)
    /\ stage \in {"nextNode", "readIndex", "writeIndex", "wrapIndex"}
         => nodesChecked > 0 /\ foundDown = Searched(0, nodesChecked - 1)
    /\ stage = "readIndex" => activeIndex < NodesLength - 1
    /\ stage = "writeIndex" => index = activeIndex
    /\ stage = "wrapIndex" => activeIndex = NodesLength - 1
    /\ stage \in {"getActive", "checkHealth"}
         => nodesChecked > 0 /\ foundDown = Searched(1, nodesChecked)
    /\ stage = "checkHealth" => client = activeIndex
    /\ stage = "error" => foundDown = Nodes

LEMMA SearchInit == Init => SearchInv
BY DEF Init, SearchInv

LEMMA SearchStep == IndexInv /\ IndexInv' /\ SearchInv /\ [Next]_vars => SearchInv'
<1> SUFFICES ASSUME IndexInv, IndexInv', SearchInv, [Next]_vars
             PROVE  SearchInv'
  OBVIOUS
<1> USE NodesAssumption
    DEF SearchInv, IndexInv, TypeOK, IndexInRange, Stages, vars, call, loops, history
<1>0. ASSUME UNCHANGED activeIndex
      PROVE  \A l, h : Searched(l, h)' = Searched(l, h)
  BY <1>0 DEF Searched, StepsBehind
<1>1. CASE CheckAndRecoverRPCs
  BY <1>1 DEF CheckAndRecoverRPCs
<1>2. CASE CheckActive
  <2>1. Searched(0, 0) = {}
    BY DEF Searched, StepsBehind, Nodes
  <2> QED
    BY <1>0, <1>2, <2>1 DEF CheckActive
<1>3. CASE NextCheck
  BY <1>0, <1>3 DEF NextCheck
<1>4. CASE NoHealthyNode
  <2>1. Searched(0, NodesLength) = Nodes
    BY SMTT(30) DEF Searched, StepsBehind, Nodes
  <2>2. stage = "search" => nodesChecked <= NodesLength
    OBVIOUS
  <2> QED
    BY <1>4, <2>1, <2>2 DEF NoHealthyNode, MoreNodes
<1>5. CASE ReturnError \/ NowHealthy
  BY <1>5 DEF ReturnError, NowHealthy
<1>6. CASE CompareIndex
  BY <1>0, <1>6 DEF CompareIndex, HasNext, Nodes
<1>7. CASE ReadIndex
  BY <1>0, <1>7 DEF ReadIndex
<1>8. CASE WriteIndex
  <2>1. CASE disturbed
    BY <1>8, <2>1 DEF WriteIndex
  <2>2. ASSUME ~disturbed
        PROVE  Searched(1, nodesChecked)' = Searched(0, nodesChecked - 1)
    <3>1. nodesChecked' = nodesChecked /\ nodesChecked \in Nat
      BY <1>8 DEF WriteIndex
    <3>2. ASSUME NEW n \in Nodes
          PROVE  1 <= StepsBehind(n)' /\ StepsBehind(n)' < nodesChecked
                   <=> 0 <= StepsBehind(n) /\ StepsBehind(n) < nodesChecked - 1
      <4>1. CASE stage = "writeIndex" /\ activeIndex' = index + 1
        BY <1>8, <2>2, <3>1, <4>1 DEF WriteIndex, StepsBehind, Nodes
      <4>2. CASE stage = "wrapIndex" /\ activeIndex' = 0
        BY <1>8, <2>2, <3>1, <4>2 DEF WriteIndex, StepsBehind, Nodes
      <4> QED
        BY <1>8, <4>1, <4>2 DEF WriteIndex
    <3> QED
      BY <3>1, <3>2 DEF Searched
  <2> QED
    BY <1>8, <2>1, <2>2 DEF WriteIndex
<1>9. CASE GetActiveClient
  BY <1>0, <1>9 DEF GetActiveClient
<1>10. CASE NotHealthy
  <2>1. CASE disturbed
    BY <1>10, <2>1 DEF NotHealthy
  <2>2. CASE ~disturbed
    <3>1. nodesChecked > 0 /\ nodesChecked \in Nat /\ client = activeIndex
      BY <1>10, <2>2 DEF NotHealthy
    <3>2. ASSUME NEW n \in Nodes
          PROVE  0 <= StepsBehind(n) /\ StepsBehind(n) < nodesChecked
                   <=> \/ 1 <= StepsBehind(n) /\ StepsBehind(n) < nodesChecked
                       \/ n = activeIndex
      BY <3>1, <3>2, NodesRange DEF StepsBehind
    <3>3. activeIndex \in Nodes
      OBVIOUS
    <3>4. Searched(1, nodesChecked) \cup {activeIndex} = Searched(0, nodesChecked)
      BY ONLY <3>2, <3>3 DEF Searched
    <3> QED
      BY <1>0, <1>10, <2>2, <3>1, <3>4 DEF NotHealthy
  <2> QED
    BY <2>1, <2>2
<1>11. CASE CheckPrimary
  BY <1>0, <1>11 DEF CheckPrimary
<1>12. CASE RestorePrimary
  BY <1>12 DEF RestorePrimary
<1>13. ASSUME NEW n \in Nodes, GoDown(n) \/ ComeBack(n)
       PROVE  SearchInv'
  BY <1>0, <1>13 DEF GoDown, ComeBack
<1>14. CASE UNCHANGED vars
  BY <1>0, <1>14
<1> QED
  BY <1>1, <1>2, <1>3, <1>4, <1>5, <1>6, <1>7, <1>8, <1>9, <1>10, <1>11, <1>12,
     <1>13, <1>14 DEF Next, Caller

(* "no healthy nodes": a search that no reset has disturbed has asked every *)
(* node, and each was down when asked.                                      *)
THEOREM GivesUpAfterAll == Spec => []GivesUpOnlyWhenAllDown
<1>1. SearchInv => GivesUpOnlyWhenAllDown
  BY DEF SearchInv, GivesUpOnlyWhenAllDown
<1> QED
  BY <1>1, IndexInit, IndexStep, SearchInit, SearchStep, PTL DEF Spec

-----------------------------------------------------------------------------
(* The listener of the pool.  The manager is driven by the fetches of work *)
(* alone, one at a time, and stays the manager of RpcManager.              *)

\* A call is in progress exactly while a fetch that failed waits for it.
OneCallAtATime == stage # "idle" <=> fetch = "recover"

\* What holds of the manager holds of the pool that uses it: every step of the
\* pool is one of the manager's or leaves the manager alone.
THEOREM PoolUsesManager == PoolSpec => Spec
<1>1. PoolInit => Init
  BY DEF PoolInit
<1>2. [PoolNext]_poolVars => [Next]_vars
  <2> SUFFICES ASSUME [PoolNext]_poolVars
               PROVE  [Next]_vars
    OBVIOUS
  <2>1. CASE Receive \/ FirstFetch \/ Retry
    <3>1. UNCHANGED vars
      BY <2>1 DEF Receive, FirstFetch, Retry
    <3> QED
      BY <3>1
  <2>2. CASE FirstFetchFails
    BY <2>2 DEF FirstFetchFails, Next
  <2>3. CASE Recover
    BY <2>3 DEF Recover, Next
  <2>4. CASE Others
    BY <2>4 DEF Others, Next
  <2>5. CASE UNCHANGED poolVars
    BY <2>5 DEF poolVars
  <2> QED
    BY <2>1, <2>2, <2>3, <2>4, <2>5 DEF PoolNext
<1> QED
  BY <1>1, <1>2, PTL DEF PoolSpec, Spec

LEMMA OneCallStep == OneCallAtATime /\ [PoolNext]_poolVars => OneCallAtATime'
<1> SUFFICES ASSUME OneCallAtATime, [PoolNext]_poolVars
             PROVE  OneCallAtATime'
  OBVIOUS
<1>1. CASE Receive \/ FirstFetch \/ Retry
  <2>1. stage' = stage
    BY <1>1 DEF Receive, FirstFetch, Retry, vars, call
  <2> QED
    BY <1>1, <2>1 DEF Receive, FirstFetch, Retry, OneCallAtATime
<1>2. CASE FirstFetchFails
  BY <1>2 DEF FirstFetchFails, CheckAndRecoverRPCs, OneCallAtATime
<1>3. CASE Recover
  <2>1. stage' # "idle" => fetch' = "recover"
    BY <1>3 DEF Recover
  <2>2. stage' = "idle" => fetch' \in {"wait", "retry"}
    BY <1>3 DEF Recover
  <2> QED
    BY <2>1, <2>2 DEF OneCallAtATime
<1>4. CASE Others
  <2>1. stage' = stage /\ fetch' = fetch
    BY <1>4 DEF Others, CheckPrimary, RestorePrimary, GoDown, ComeBack, call
  <2> QED
    BY <2>1 DEF OneCallAtATime
<1>5. CASE UNCHANGED poolVars
  BY <1>5 DEF poolVars, vars, call, OneCallAtATime
<1> QED
  BY <1>1, <1>2, <1>3, <1>4, <1>5 DEF PoolNext

\* CheckAndRecoverRPCs never runs twice at once for a chain, which is what
\* RpcManager assumes of its caller: the listener (pool/work.go) waits for it.
THEOREM CallsAreSequential == PoolSpec => []OneCallAtATime
<1>1. PoolInit => OneCallAtATime
  BY DEF PoolInit, Init, OneCallAtATime
<1> QED
  BY <1>1, OneCallStep, PTL DEF PoolSpec

\* The index of the clients is in range in the pool as well.
THEOREM IndexStaysInRangeInPool == PoolSpec => []IndexInRange
BY PoolUsesManager, IndexStaysInRange, PTL

=============================================================================
