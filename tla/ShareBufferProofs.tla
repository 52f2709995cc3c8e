------------------------- MODULE ShareBufferProofs -------------------------
(***************************************************************************)
(* Theorems about the share buffer: types, no share counted twice, and the *)
(* refinement of ShareLog.                                                 *)
(***************************************************************************)
EXTENDS ShareBuffer, TLAPS

LEMMA TypeInit == Init => TypeOK
BY BoundsAssumption DEF Init, TypeOK

LEMMA TypeStep == TypeOK /\ [Next]_vars => TypeOK'
<1> SUFFICES ASSUME TypeOK, [Next]_vars
             PROVE  TypeOK'
  OBVIOUS
<1> USE BoundsAssumption DEF TypeOK, vars, flusher, history
<1>1. ASSUME NEW s \in Shares, AppendShare(s)
      PROVE  TypeOK'
  BY <1>1 DEF AppendShare
<1>2. CASE TakeBuffer
  BY <1>2 DEF TakeBuffer, LeaveNil
<1>3. CASE InsertBatch
  BY <1>3 DEF InsertBatch, Insert
<1>4. CASE InsertBatchFails
  BY <1>4 DEF InsertBatchFails, Insert
<1>5. CASE Requeue
  BY <1>5 DEF Requeue, PutBack
<1>6. CASE Crash
  BY <1>6 DEF Crash
<1>7. CASE UNCHANGED vars
  BY <1>7
<1> QED
  BY <1>1, <1>2, <1>3, <1>4, <1>5, <1>6, <1>7 DEF Next, Flusher

(* The flusher and its clients keep the variables in their ranges. *)
THEOREM TypeCorrect == Spec => []TypeOK
BY TypeInit, TypeStep, PTL DEF Spec

-----------------------------------------------------------------------------
(* A share in memory is in one place, and has no row that an insert did    *)
(* not report as failed.                                                   *)

InMemory == buffer \cup sharesToWrite

BufferInv ==
    /\ buffer \cap sharesToWrite = {}
    /\ stage = "sleep" => sharesToWrite = {}
    /\ InMemory \subseteq handled
    /\ \A s \in InMemory : rows[s] <= doubtful
    /\ \A s \in Shares \ handled : rows[s] = 0
    /\ CountedOnce

LEMMA BufferInit == Init => BufferInv
BY DEF Init, BufferInv, InMemory, CountedOnce

LEMMA BufferStep == TypeOK /\ BufferInv /\ [Next]_vars => BufferInv'
<1> SUFFICES ASSUME TypeOK, BufferInv, [Next]_vars
             PROVE  BufferInv'
  OBVIOUS
<1> USE DEF TypeOK, BufferInv, InMemory, CountedOnce, vars, flusher, history
<1>1. ASSUME NEW s \in Shares, AppendShare(s)
      PROVE  BufferInv'
  BY <1>1 DEF AppendShare
<1>2. CASE TakeBuffer
  BY <1>2 DEF TakeBuffer, LeaveNil
<1>3. CASE InsertBatch
  BY <1>3 DEF InsertBatch, Insert
<1>4. CASE InsertBatchFails
  <2>1. CASE UNCHANGED <<rows, doubtful>>
    BY <1>4, <2>1 DEF InsertBatchFails
  <2>2. CASE Insert(sharesToWrite) /\ doubtful' = doubtful + 1
    BY <1>4, <2>2 DEF InsertBatchFails, Insert
  <2> QED
    BY <1>4, <2>1, <2>2 DEF InsertBatchFails
<1>5. CASE Requeue
  BY <1>5 DEF Requeue, PutBack
<1>6. CASE Crash
  BY <1>6 DEF Crash
<1>7. CASE UNCHANGED vars
  BY <1>7
<1> QED
  BY <1>1, <1>2, <1>3, <1>4, <1>5, <1>6, <1>7 DEF Next, Flusher

(* A share earns its miner one row, and one more for each insert that     *)
(* failed after its commit, in spite of the appends that overlap a flush.  *)
THEOREM NoShareCountedTwice == Spec => []CountedOnce
<1>1. BufferInv => CountedOnce
  BY DEF BufferInv
<1> QED
  BY <1>1, TypeInit, TypeStep, BufferInit, BufferStep, PTL DEF Spec

-----------------------------------------------------------------------------
(* Refinement. *)

LEMMA LogInit == Init => Log!Init
BY DEF Init, Log!Init, fate

LEMMA LogStep ==
    TypeOK /\ TypeOK' /\ BufferInv /\ [Next]_vars => [Log!Next]_(Log!vars)
<1> SUFFICES ASSUME TypeOK, TypeOK', BufferInv, [Next]_vars
             PROVE  [Log!Next]_(Log!vars)
  OBVIOUS
<1> USE DEF TypeOK, BufferInv, InMemory, fate, vars, flusher, history, Log!vars
<1>1. ASSUME NEW s \in Shares, AppendShare(s)
      PROVE  Log!Accept(s)
  BY <1>1 DEF AppendShare, Log!Accept, Log!Become
<1>2. CASE TakeBuffer
  BY <1>2 DEF TakeBuffer, LeaveNil
<1>3. ASSUME Insert(sharesToWrite), UNCHANGED <<buffer, handled, crashes>>,
             sharesToWrite' \subseteq sharesToWrite
      PROVE  \E S \in SUBSET Shares : Log!Store(S)
  <2> DEFINE S == {s \in sharesToWrite : rows[s] = 0}
  <2>1. S \subseteq Log!Accepted
    BY DEF Log!Accepted
  <2>2. ASSUME NEW s \in Shares
        PROVE  fate'[s] = IF s \in S THEN "stored" ELSE fate[s]
    <3>1. CASE s \in sharesToWrite
      BY <1>3, <2>2, <3>1 DEF Insert
    <3>2. CASE s \notin sharesToWrite
      BY <1>3, <2>2, <3>2 DEF Insert
    <3> QED
      BY <3>1, <3>2
  <2>3. Log!Become(S, "stored")
    BY <2>2 DEF Log!Become
  <2>4. S \in SUBSET Shares /\ UNCHANGED crashes
    BY <1>3
  <2> HIDE DEF S
  <2> QED
    BY <2>1, <2>3, <2>4 DEF Log!Store
<1>4. CASE InsertBatch
  BY <1>3, <1>4 DEF InsertBatch, Log!Next
<1>5. CASE InsertBatchFails
  BY <1>3, <1>5 DEF InsertBatchFails, Log!Next
<1>6. CASE Requeue
  BY <1>6 DEF Requeue, PutBack
<1>7. CASE Crash
  BY <1>7 DEF Crash, Log!Next, Log!Crash, Log!Become, Log!Accepted
<1>8. CASE UNCHANGED vars
  BY <1>8
<1> QED
  BY <1>1, <1>2, <1>4, <1>5, <1>6, <1>7, <1>8 DEF Next, Flusher, Log!Next

(* The buffer, its flusher and its table implement the log: a share that   *)
(* was accepted is stored or, in a crash, lost, and nothing else happens   *)
(* to it.                                                                  *)
THEOREM BufferImplementsLog == Spec => ImplementsLog
BY TypeInit, TypeStep, BufferInit, BufferStep, LogInit, LogStep, PTL
   DEF Spec, ImplementsLog, Log!Spec

=============================================================================
