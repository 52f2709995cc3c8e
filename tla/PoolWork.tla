------------------------------ MODULE PoolWork ------------------------------
(***************************************************************************)
(* Work and found blocks (pool/work.go, server.go, nodes.go, share.go).    *)
(*                                                                         *)
(* The listener goroutine answers every block notification by fetching a   *)
(* template and the aux blocks and writing them to the pool's templates,   *)
(* the aux blocks first, without a lock.  The goroutine of each client     *)
(* copies the template, judges a submission by it, submits what it solves  *)
(* to the daemons and records what they accept; for an aux block it reads  *)
(* the templates once more.  Nothing recovers from a panic, of the         *)
(* listener or of a client: it ends the process, with what the handlers of *)
(* all clients were doing.                                                 *)
(*                                                                         *)
(* A daemon is known by the tip of its chain.  It accepts a block that     *)
(* builds on the tip, which moves the tip.                                 *)
(***************************************************************************)
EXTENDS Integers, Sequences, FiniteSets, Functions

CONSTANTS
    Clients,        \* goroutines of connected miners
    AuxCount,       \* chains of BlockChainOrder after the primary
    ChainIDs,       \* chain ids that aux daemons may report
    Variants,       \* aux blocks a daemon may create on one tip
    MaxOthers,      \* bound on blocks found by others
    MaxSubmissions, \* bound on different submissions
    MaxFaults       \* bound on failed calls, bad templates, lost notifications

Trees == INSTANCE MerkleTrees

\* createMergedMiningCoinbase would panic at more aux chains than its slots.
ASSUME PoolWorkAssumption ==
    /\ {AuxCount, MaxOthers, MaxSubmissions, MaxFaults} \subseteq Nat
    /\ AuxCount <= Trees!CoinbaseTreeSize
    /\ ChainIDs \subseteq Nat
    /\ Variants # {}
    /\ IsFiniteSet(Clients)

Primary == 0
Aux == 1 .. AuxCount
Chains == {Primary} \cup Aux

Nil == <<>>         \* a nil slice

\* A template with 252 transactions makes a block of 253, a number that
\* varUint cannot encode.  If hashes are not hexadecimal, GenerateWork has no
\* block for the template, or createMergedMiningCoinbase no root for the aux
\* blocks beside it.
Forms == {"plain", "uncountable", "unreadable"}

VARIABLES
    chainID,        \* of each aux chain
    tip,            \* of each chain, at its daemon
    accepted,       \* blocks of the pool that the daemons accepted
    notices,        \* chains with a notification on its way
    jobs,           \* the blocks generated so far; a job is an index
    templates,      \* pool.templates: a job and the aux blocks beside it
    fetch,          \* the listener: stage, attempt, template and aux blocks
    handler,        \* each client's goroutine
    blocks,         \* the blocks table
    up,             \* the process has not panicked
    \* history
    sent,           \* the different submissions so far
    auxFailed,      \* some createauxblock has failed
    missed,         \* the last notification was lost or its refresh gave up
    unsaved,        \* accepted blocks whose record a failure or a panic prevented
    faults

daemons == <<tip, accepted, notices>>
pool == <<jobs, templates, fetch>>
history == <<auxFailed, missed, unsaved>>
vars == <<chainID, daemons, pool, handler, blocks, up, sent, history, faults>>

Idle == [stage |-> "wait", attempt |-> 0, form |-> "plain", tip |-> 0, aux |-> Nil]
AuxOn(tips) ==
    {[i \in Aux |-> [tip |-> tips[i], variant |-> v[i]]] : v \in [Aux -> Variants]}

NoWork == [id |-> 0, job |-> 0, meets |-> {}]
Reading == [stage |-> "read", sub |-> NoWork, chain |-> 0, aux |-> Nil,
            overlap |-> FALSE]

\* Start has created the first work; clients connect after that.
Init ==
    /\ chainID \in [Aux -> ChainIDs]
    /\ tip = [c \in Chains |-> 0]
    /\ accepted = {}
    /\ notices = {}
    /\ \E aux \in AuxOn(tip) \cup {Nil}, form \in Forms \ {"unreadable"} :
          /\ jobs = <<[form |-> form, tip |-> 0, aux |-> aux]>>
          /\ templates = [job |-> 1, aux |-> aux]
          /\ auxFailed = (aux = Nil)
    /\ fetch = Idle
    /\ handler = [k \in Clients |-> Reading]
    /\ blocks = <<>>
    /\ up = TRUE
    /\ sent = {}
    /\ missed = FALSE
    /\ unsaved = 0
    /\ faults = 0

Fault == up /\ faults < MaxFaults /\ faults' = faults + 1

-----------------------------------------------------------------------------
(* The chains. *)

\* The chain has a new block; ZeroMQ may drop the notification.
Announce(c) ==
    /\ tip' = [tip EXCEPT ![c] = @ + 1]
    /\ notices' = notices \cup {c}

Others == FoldFunction(+, 0, tip) - Cardinality(accepted)

Grow(c) ==
    /\ up
    /\ Others < MaxOthers
    /\ Announce(c)
    /\ UNCHANGED <<chainID, accepted, pool, handler, blocks, up, sent, history, faults>>

LoseNotice(c) ==
    /\ c \in notices
    /\ notices' = notices \ {c}
    /\ missed' = TRUE
    /\ Fault
    /\ UNCHANGED <<chainID, tip, accepted, pool, handler, blocks, up, sent,
                   auxFailed, unsaved>>

-----------------------------------------------------------------------------
(* The listener: listenForBlockNotifications and
   fetchRpcBlockTemplatesAndCacheWork *)

\* A panic, of any goroutine: the records that the handlers were about to
\* insert are lost with them.
EndProcess ==
    /\ up /\ up' = FALSE
    /\ unsaved' = unsaved + Cardinality({k \in Clients : handler[k].stage = "record"})
    /\ handler' = [k \in Clients |-> Reading]
    /\ UNCHANGED <<chainID, daemons, pool, blocks, sent, auxFailed, missed, faults>>

ListenerStep == up /\ UNCHANGED <<chainID, tip, accepted, blocks, up, sent>>

ReceiveNotice(c) ==
    /\ fetch.stage = "wait"
    /\ c \in notices
    /\ notices' = notices \ {c}
    /\ fetch' = [Idle EXCEPT !.stage = "primary", !.attempt = 1]
    /\ missed' = FALSE
    /\ ListenerStep
    /\ UNCHANGED <<jobs, templates, handler, auxFailed, unsaved, faults>>

\* fetchAllBlockTemplatesFromRPC: the template ...
GetBlockTemplate ==
    /\ fetch.stage = "primary"
    /\ \E form \in Forms :
          /\ fetch' = [fetch EXCEPT !.stage = "aux", !.form = form,
                                    !.tip = tip[Primary]]
          /\ IF form = "plain" THEN UNCHANGED faults ELSE Fault
    /\ ListenerStep
    /\ UNCHANGED <<notices, jobs, templates, handler, history>>

\* ... then the aux chains one by one ...
NextAuxMutant == Len(fetch.aux) + 2
NextAux == Len(fetch.aux) + 1

CreateAuxBlock ==
    /\ fetch.stage = "aux" /\ NextAux \in Aux
    /\ \E v \in Variants :
          fetch' = [fetch EXCEPT
              !.aux = Append(@, [tip |-> tip[NextAux], variant |-> v])]
    /\ ListenerStep
    /\ UNCHANGED <<notices, jobs, templates, handler, history, faults>>

\* ... and if one of them fails there are no aux blocks, and no error.
CreateAuxBlockFails ==
    /\ fetch.stage = "aux" /\ NextAux \in Aux
    /\ fetch' = [fetch EXCEPT !.stage = "write", !.aux = Nil]
    /\ auxFailed' = TRUE
    /\ Fault
    /\ ListenerStep
    /\ UNCHANGED <<notices, jobs, templates, handler, missed, unsaved>>

\* The first error, an unreadable aux block included, calls
\* CheckAndRecoverRPCs and tries again; its own failure, like a second
\* error, leaves the templates as they are.
FetchFails ==
    /\ \/ fetch.stage = "primary"
       \/ fetch.stage = "aux" /\ NextAux \in Aux
    /\ \/ /\ fetch.attempt = 1
          /\ fetch' = [Idle EXCEPT !.stage = "primary", !.attempt = 2]
          /\ UNCHANGED missed
       \/ fetch' = Idle /\ missed' = TRUE
    /\ Fault
    /\ ListenerStep
    /\ UNCHANGED <<notices, jobs, templates, handler, auxFailed, unsaved>>

\* p.templates.AuxBlocks = auxblocks
WriteAux ==
    /\ \/ fetch.stage = "aux" /\ NextAux \notin Aux
       \/ fetch.stage = "write"
    /\ templates' = [templates EXCEPT !.aux = fetch.aux]
    /\ fetch' = [fetch EXCEPT !.stage = "generate"]
    /\ handler' = [k \in Clients |->
          [handler[k] EXCEPT !.overlap = (@ \/ handler[k].stage # "read")]]
    /\ ListenerStep
    /\ UNCHANGED <<notices, jobs, history, faults>>

\* GenerateWork, and the work cache from which clients are notified
GeneratedMutant ==
    [form |-> fetch.form, tip |-> fetch.tip, aux |-> jobs[templates.job].aux]
Generated == [form |-> fetch.form, tip |-> fetch.tip, aux |-> fetch.aux]

GenerateWork ==
    /\ fetch.stage = "generate"
    /\ fetch.form # "unreadable"
    /\ jobs' = Append(jobs, Generated)
    /\ fetch' = [fetch EXCEPT !.stage = "assign"]
    /\ ListenerStep
    /\ UNCHANGED <<notices, templates, handler, history, faults>>

\* Its error is logged, and the block that it did not return dereferenced;
\* buildMerkleRoot takes the only hash of an empty level.
GenerateWorkFails ==
    /\ fetch.stage = "generate"
    /\ fetch.form = "unreadable"
    /\ EndProcess

\* p.templates.BitcoinBlock = *block, the end of it
AssignBlockMutant ==
    /\ fetch.stage = "assign"
    /\ fetch' = Idle
    /\ ListenerStep
    /\ UNCHANGED <<notices, jobs, templates, handler, history, faults>>
AssignBlock ==
    /\ fetch.stage = "assign"
    /\ templates' = [templates EXCEPT !.job = Len(jobs)]
    /\ fetch' = Idle
    /\ ListenerStep
    /\ UNCHANGED <<notices, jobs, handler, history, faults>>

-----------------------------------------------------------------------------
(* The client's goroutine: recieveWorkFromClient *)

ClientStep == up /\ UNCHANGED <<chainID, pool, up, missed, auxFailed>>

Goto(k, stage) == handler' = [handler EXCEPT ![k].stage = stage]
Return(k) == handler' = [handler EXCEPT ![k] = Reading]

\* Solutions: the hash meets the targets of some chains.  A miner works on any
\* job it was ever given, and may send a solution again.
Submissions ==
    sent \cup
    IF Cardinality(sent) = MaxSubmissions THEN {}
    ELSE [id : {Cardinality(sent) + 1}, job : DOMAIN jobs,
          meets : SUBSET Chains \ {{}}]

\* GetPrimary copies the block field by field: while the listener assigns it
\* the copy may be the new one, or a mixture, which stands for no job.
Mixture == 0
Copies ==
    {templates.job} \cup
    IF fetch.stage = "assign" THEN {Len(jobs), Mixture} ELSE {}

\* validateAndWeighShare: the targets that the hash of the header meets.  The
\* header of another job than the miner's hashes to nothing of use.
Met(sub, copy) ==
    IF copy # sub.job THEN {}
    ELSE sub.meets \cap ({Primary} \cup DOMAIN jobs[copy].aux)

\* A share without candidates ends here, credited (see ShareBuffer) if it
\* meets the pool's target and refused if it does not.
ReceiveWork(k) ==
    /\ handler[k].stage = "read"
    /\ \E sub \in Submissions, copy \in Copies :
          LET candidates == Met(sub, copy)
          IN  /\ candidates # {}
              /\ sent' = sent \cup {sub}
              /\ handler' = [handler EXCEPT ![k] =
                   [stage |-> IF Primary \in candidates THEN "submit" ELSE "next",
                    sub |-> sub,
                    chain |-> IF Primary \in candidates THEN Primary ELSE 1,
                    aux |-> Nil,
                    overlap |-> fetch.stage \in {"generate", "assign"}]]
    /\ ClientStep
    /\ UNCHANGED <<daemons, blocks, unsaved, faults>>

\* The aux block of a chain, with its chain beside it
BlockOf(c, aux) == [chain |-> c, tip |-> aux[c].tip, variant |-> aux[c].variant]

\* The block that a submission to this chain is about, and the tip it builds on
Work(k) == jobs[handler[k].sub.job]
Mined(k) ==
    IF handler[k].chain = Primary
    THEN [chain |-> Primary, tip |-> Work(k).tip, variant |-> handler[k].sub.id]
    ELSE BlockOf(handler[k].chain, Work(k).aux)
OnTip(k) == Mined(k).tip = tip[handler[k].chain]

\* submitBlockToChain serialises the block and submitAuxBlock makes its proof,
\* over all aux blocks of the job, before they call the daemon.
MakesAuxPow ==
    Trees!Fits(Trees!BranchTreeSize, [i \in Aux |-> [chainID |-> chainID[i]]])
Serializes(k) ==
    IF handler[k].chain = Primary THEN Work(k).form # "uncountable" ELSE MakesAuxPow
Submitting(k) == handler[k].stage = "submit" /\ Serializes(k)

Accepted(k) ==
    /\ Submitting(k)
    /\ OnTip(k)
    /\ Announce(handler[k].chain)
    /\ accepted' = accepted \cup {Mined(k)}

\* After the primary the aux chains, each in its turn
NextChainMutant(k) ==
    handler' = [handler EXCEPT ![k].stage = "next", ![k].chain = @ + 2]
NextChain(k) ==
    handler' = [handler EXCEPT ![k].stage = "next", ![k].chain = @ + 1]

\* The error of the primary daemon ends the submission, the aux candidates
\* with it; that of an aux daemon is only logged.
AfterError(k) ==
    IF handler[k].chain = Primary THEN Return(k) ELSE NextChain(k)

Submit(k) ==
    /\ Accepted(k)
    /\ Goto(k, "record")
    /\ ClientStep
    /\ UNCHANGED <<blocks, sent, unsaved, faults>>

SubmitRejectedMutant(k) ==
    /\ Submitting(k)
    /\ ~OnTip(k)
    /\ Goto(k, "record")
    /\ ClientStep
    /\ UNCHANGED <<daemons, blocks, sent, unsaved, faults>>
SubmitRejected(k) ==
    /\ Submitting(k)
    /\ ~OnTip(k)
    /\ AfterError(k)
    /\ ClientStep
    /\ UNCHANGED <<daemons, blocks, sent, unsaved, faults>>

\* The call fails, or the reply of a daemon that accepted is lost.
SubmitFails(k) ==
    /\ Submitting(k)
    /\ \/ Accepted(k) /\ unsaved' = unsaved + 1
       \/ UNCHANGED <<daemons, unsaved>>
    /\ AfterError(k)
    /\ Fault
    /\ ClientStep
    /\ UNCHANGED <<blocks, sent>>

SubmitPanics(k) ==
    /\ handler[k].stage = "submit"
    /\ ~Serializes(k)
    /\ EndProcess

\* The row of an aux block is filled in from what GetAuxN had returned.
Row(k) ==
    [block |-> Mined(k),
     hash |-> IF handler[k].chain = Primary THEN Mined(k) ELSE handler[k].aux,
     overlap |-> handler[k].overlap]

InsertBlockMutant(k) ==
    /\ handler[k].stage = "record"
    /\ blocks' = IF handler[k].chain = Primary THEN Append(blocks, Row(k)) ELSE blocks
    /\ NextChain(k)
    /\ ClientStep
    /\ UNCHANGED <<daemons, sent, unsaved, faults>>
InsertBlock(k) ==
    /\ handler[k].stage = "record"
    /\ blocks' = Append(blocks, Row(k))
    /\ NextChain(k)
    /\ ClientStep
    /\ UNCHANGED <<daemons, sent, unsaved, faults>>

\* The error is only logged.
InsertFails(k) ==
    /\ handler[k].stage = "record"
    /\ unsaved' = unsaved + 1
    /\ NextChain(k)
    /\ Fault
    /\ ClientStep
    /\ UNCHANGED <<daemons, blocks, sent>>

\* p.templates.GetAuxN(i), whether or not the chain is a candidate
HasAux(k) ==
    /\ handler[k].chain \in DOMAIN templates.aux
    /\ handler[k].chain \in DOMAIN Work(k).aux

ReadAux(k) ==
    /\ handler[k].stage = "next"
    /\ handler[k].chain \in Aux
    /\ HasAux(k)
    /\ IF handler[k].chain \in handler[k].sub.meets
       THEN handler' = [handler EXCEPT
              ![k].stage = "submit",
              ![k].aux = BlockOf(handler[k].chain, templates.aux)]
       ELSE NextChain(k)
    /\ ClientStep
    /\ UNCHANGED <<daemons, blocks, sent, unsaved, faults>>

\* The index is out of range, in the templates or in the candidates, which
\* are as many as the aux blocks of the copied template.
ReadAuxPanics(k) ==
    /\ handler[k].stage = "next"
    /\ handler[k].chain \in Aux
    /\ ~HasAux(k)
    /\ EndProcess

Reply(k) ==
    /\ handler[k].stage = "next"
    /\ handler[k].chain \notin Aux
    /\ Return(k)
    /\ ClientStep
    /\ UNCHANGED <<daemons, blocks, sent, unsaved, faults>>

-----------------------------------------------------------------------------
Listener ==
    \/ \E c \in Chains : ReceiveNotice(c)
    \/ GetBlockTemplate
    \/ CreateAuxBlock
    \/ WriteAux
    \/ GenerateWork
    \/ GenerateWorkFails
    \/ AssignBlock

Next ==
    \/ \E c \in Chains : Grow(c)
    \/ \E c \in Chains : LoseNotice(c)
    \/ \E c \in Chains : ReceiveNotice(c)
    \/ GetBlockTemplate
    \/ CreateAuxBlock
    \/ CreateAuxBlockFails
    \/ FetchFails
    \/ WriteAux
    \/ GenerateWork
    \/ GenerateWorkFails
    \/ AssignBlock
    \/ \E k \in Clients : ReceiveWork(k)
    \/ \E k \in Clients : Submit(k)
    \/ \E k \in Clients : SubmitRejected(k)
    \/ \E k \in Clients : SubmitFails(k)
    \/ \E k \in Clients : SubmitPanics(k)
    \/ \E k \in Clients : InsertBlock(k)
    \/ \E k \in Clients : InsertFails(k)
    \/ \E k \in Clients : ReadAux(k)
    \/ \E k \in Clients : ReadAuxPanics(k)
    \/ \E k \in Clients : Reply(k)

\* The scheduler runs the listener, and every call of it returns.
Spec == Init /\ [][Next]_vars /\ WF_vars(Listener)

-----------------------------------------------------------------------------
(* Properties *)

AuxBlock == [tip : Nat, variant : Variants]
Stages == {"wait", "primary", "aux", "write", "generate", "assign"}

\* The slices the handlers and the listener index have the length that the
\* code relies on: no aux blocks or one for each chain, and a template of a
\* job that was generated (work.go:107-126).
TypeOK ==
    /\ tip \in [Chains -> Nat]
    /\ notices \subseteq Chains
    /\ chainID \in [Aux -> ChainIDs]
    /\ fetch.stage \in Stages /\ fetch.attempt \in 0 .. 2 /\ fetch.form \in Forms
    /\ fetch.aux = Nil \/ Range(fetch.aux) \subseteq AuxBlock
    /\ \A j \in DOMAIN jobs :
          /\ jobs[j].form \in Forms \ {"unreadable"}
          /\ jobs[j].aux = Nil \/ jobs[j].aux \in [Aux -> AuxBlock]
    /\ templates.job \in DOMAIN jobs
    /\ templates.aux = Nil \/ templates.aux \in [Aux -> AuxBlock]
    /\ \A k \in Clients : handler[k].chain \in 0 .. AuxCount + 1
    /\ faults \in 0 .. MaxFaults

Recorded == {blocks[i].block : i \in DOMAIN blocks}
Ledger == INSTANCE FoundLedger WITH
    accepted <- accepted,
    rows <- [b \in accepted \cup Recorded |->
                Cardinality({i \in DOMAIN blocks : blocks[i].block = b})]

\* Rows of the blocks table stand one to one for blocks that were accepted,
\* whatever the listener, other clients and the daemons do between the
\* submission and the insert (work.go:223-290).
ImplementsLedger == Ledger!Spec

\* The hash under which a block is recorded, by which it is looked up when it
\* matures, is the hash that was submitted, unless the templates were
\* refreshed while the share was handled (work.go:261, 275).
HashIsAccepted ==
    \A i \in DOMAIN blocks :
        blocks[i].hash # blocks[i].block =>
            blocks[i].overlap /\ blocks[i].block.chain # Primary

\* The accepted blocks that are not recorded and that no handler is about to
\* record are as many as the replies that were lost, the inserts that failed
\* and the records that a panic, of another client or of the listener,
\* prevented: nothing else loses a block, and none of them is ever recorded
\* after all (work.go:228, 247, 264, 281).
InHand == {Mined(k) : k \in {k \in Clients : handler[k].stage = "record"}}
AcceptedIsRecorded == Cardinality(accepted \ (Recorded \cup InHand)) = unsaved

\* The process ends only if, since the start, a createauxblock has failed
\* (server.go:96, work.go:261-262), a chain has no slot in the tree of the
\* proof (auxMerkelBranch.go:18, 58), a block had 253 transactions
\* (encoding.go:19, 34), or the hashes of a template or of an aux block could
\* not be read (work.go:67, 121-126).
PanicsHaveACause ==
    ~up => \/ auxFailed
           \/ ~MakesAuxPow
           \/ fetch.form = "unreadable"
           \/ \E j \in DOMAIN jobs : jobs[j].form = "uncountable"

\* When the chains stand still the templates end up on their tips, unless
\* the last notification was lost, or its refresh gave up (server.go:82-104).
OnTips ==
    /\ jobs[templates.job].tip = tip[Primary]
    /\ jobs[templates.job].aux = templates.aux
    /\ \A c \in DOMAIN templates.aux : templates.aux[c].tip = tip[c]
WorkFollowsChains == <>[](OnTips \/ missed \/ ~up)

=============================================================================
