--------------------------- MODULE PoolWorkProofs ---------------------------
(***************************************************************************)
(* Proofs about PoolWork, for any number of clients, aux chains, blocks    *)
(* found by others, submissions and faults.                                *)
(***************************************************************************)
EXTENDS PoolWork, FiniteSetTheorems, SequenceTheorems, TLAPS

-----------------------------------------------------------------------------
(* Types.  The work a handler is about was generated, and a chain whose    *)
(* block it submits or records is one that this work has a block for.      *)

AuxSlices == {Nil} \cup [Aux -> AuxBlock]
Jobs == [form : Forms \ {"unreadable"}, tip : Nat, aux : AuxSlices]
Solutions == [id : Nat, job : Nat, meets : SUBSET Chains]
Mineds == [chain : Chains, tip : Nat, variant : Nat \cup Variants]
Rows == [block : Mineds, hash : Mineds \cup {Nil}, overlap : BOOLEAN]
Fetches == [stage : Stages, attempt : 0 .. 2, form : Forms, tip : Nat,
            aux : Seq(AuxBlock)]
Handlers == [stage : {"read", "submit", "record", "next"}, sub : Solutions,
             chain : 0 .. AuxCount + 1, aux : Mineds \cup {Nil}, overlap : BOOLEAN]

FetchType ==
    /\ fetch \in Fetches
    /\ Len(fetch.aux) <= AuxCount
    /\ fetch.stage \in {"write", "generate", "assign"} => fetch.aux \in AuxSlices

HandlerType ==
    \A k \in Clients :
        /\ handler[k].stage # "read" => handler[k].sub.job \in DOMAIN jobs
        /\ handler[k].stage \in {"submit", "record"} =>
              /\ handler[k].chain \in Chains
              /\ handler[k].chain # Primary => handler[k].chain \in DOMAIN Work(k).aux

TypeInv ==
    /\ chainID \in [Aux -> ChainIDs]
    /\ tip \in [Chains -> Nat]
    /\ notices \subseteq Chains
    /\ jobs \in Seq(Jobs)
    /\ templates \in [job : DOMAIN jobs, aux : AuxSlices]
    /\ FetchType
    /\ handler \in [Clients -> Handlers]
    /\ HandlerType
    /\ blocks \in Seq(Rows)
    /\ IsFiniteSet(sent)
    /\ \A s \in sent : s \in Solutions /\ s.job \in DOMAIN jobs
    /\ unsaved \in Nat
    /\ faults \in 0 .. MaxFaults

LEMMA Bounds == AuxCount \in Nat /\ MaxFaults \in Nat
BY PoolWorkAssumption

LEMMA SliceOfAll ==
    ASSUME NEW s \in Seq(AuxBlock), Len(s) = AuxCount
    PROVE  s \in AuxSlices
BY Bounds DEF AuxSlices, Aux

LEMMA MinedType ==
    ASSUME TypeInv, NEW k \in Clients, handler[k].sub.job \in DOMAIN jobs,
           handler[k].chain \in Chains,
           handler[k].chain # Primary => handler[k].chain \in DOMAIN Work(k).aux
    PROVE  Mined(k) \in Mineds /\ Mined(k).chain = handler[k].chain
<1>1. handler[k] \in Handlers /\ Work(k) \in Jobs
  BY DEF TypeInv, Work
<1>2. handler[k].sub.id \in Nat
  BY <1>1 DEF Handlers, Solutions
<1>3. CASE handler[k].chain = Primary
  BY <1>1, <1>2, <1>3 DEF Mined, Mineds, Jobs
<1>4. CASE handler[k].chain # Primary
  <2>1. Work(k).aux[handler[k].chain] \in AuxBlock
    <3>1. Work(k).aux \in AuxSlices
      BY <1>1 DEF Jobs
    <3>2. Work(k).aux # Nil
      BY <1>4 DEF Nil
    <3> QED
      BY <1>4, <3>1, <3>2 DEF AuxSlices
  <2>2. Mined(k) = [chain |-> handler[k].chain, tip |-> Work(k).aux[handler[k].chain].tip,
                    variant |-> Work(k).aux[handler[k].chain].variant]
    BY <1>4, <2>1 DEF Mined, BlockOf
  <2> QED
    BY <2>1, <2>2 DEF Mineds, AuxBlock
<1> QED
  BY <1>3, <1>4

LEMMA TypeInit == Init => TypeInv
<1> SUFFICES ASSUME Init
             PROVE  TypeInv
  OBVIOUS
<1>1. PICK aux \in AuxOn(tip) \cup {Nil}, form \in Forms \ {"unreadable"} :
         /\ jobs = <<[form |-> form, tip |-> 0, aux |-> aux]>>
         /\ templates = [job |-> 1, aux |-> aux]
         /\ auxFailed = (aux = Nil)
  BY DEF Init
<1>2. tip \in [Chains -> Nat]
  BY DEF Init
<1>3. aux \in AuxSlices
  BY <1>1, <1>2 DEF AuxOn, AuxSlices, AuxBlock, Chains
<1>4. jobs \in Seq(Jobs) /\ templates \in [job : DOMAIN jobs, aux : AuxSlices]
  BY <1>1, <1>3 DEF Jobs
<1>5. FetchType
  BY Bounds DEF Init, Idle, FetchType, Fetches, Stages, Forms, Nil
<1>6. handler \in [Clients -> Handlers] /\ HandlerType
  BY Bounds DEF Init, Reading, NoWork, Handlers, Solutions, HandlerType
<1>7. blocks \in Seq(Rows) /\ IsFiniteSet(sent) /\ sent = {}
  BY FS_EmptySet DEF Init
<1>8. faults \in 0 .. MaxFaults /\ unsaved \in Nat /\ notices \subseteq Chains
      /\ chainID \in [Aux -> ChainIDs]
  BY Bounds DEF Init
<1> QED
  BY <1>2, <1>4, <1>5, <1>6, <1>7, <1>8 DEF TypeInv

\* A handler that goes on, to a chain and with an aux block of the right types.
LEMMA HandlerGoesOn ==
    ASSUME TypeInv, UNCHANGED jobs, NEW k \in Clients,
           NEW h \in Handlers, handler' = [handler EXCEPT ![k] = h],
           h.stage # "read" => h.sub.job \in DOMAIN jobs,
           h.stage \in {"submit", "record"} =>
              /\ h.chain \in Chains
              /\ h.chain # Primary => h.chain \in DOMAIN jobs[h.sub.job].aux
    PROVE  handler' \in [Clients -> Handlers] /\ HandlerType'
<1>1. handler \in [Clients -> Handlers]
  BY DEF TypeInv
<1>2. handler' \in [Clients -> Handlers] /\ handler'[k] = h
      /\ \A j \in Clients : j # k => handler'[j] = handler[j]
  BY <1>1
<1>3. ASSUME NEW j \in Clients
      PROVE  /\ handler'[j].stage # "read" => handler'[j].sub.job \in DOMAIN jobs'
             /\ handler'[j].stage \in {"submit", "record"} =>
                   /\ handler'[j].chain \in Chains
                   /\ handler'[j].chain # Primary => handler'[j].chain \in DOMAIN Work(j)'.aux
  BY <1>2 DEF TypeInv, HandlerType, Work
<1> QED
  BY <1>2, <1>3 DEF HandlerType

LEMMA HandlersKept ==
    ASSUME TypeInv, UNCHANGED <<jobs, handler>>
    PROVE  handler' \in [Clients -> Handlers] /\ HandlerType'
BY DEF TypeInv, HandlerType, Work

\* What the steps of a handler make of it.
LEMMA HandlerSteps ==
    ASSUME TypeInv, NEW k \in Clients
    PROVE  /\ handler[k] \in Handlers
           /\ Reading \in Handlers
           /\ handler[k].chain \in Chains =>
                 [handler[k] EXCEPT !.stage = "next", !.chain = @ + 1] \in Handlers
           /\ \A s \in {"read", "submit", "record", "next"} :
                 [handler[k] EXCEPT !.stage = s] \in Handlers
<1>1. handler[k] \in Handlers
  BY DEF TypeInv
<1>2. Reading \in Handlers
  BY Bounds DEF Reading, NoWork, Handlers, Solutions
<1>3. handler[k].chain \in Chains => handler[k].chain + 1 \in 0 .. AuxCount + 1
  BY Bounds DEF Chains, Aux, Primary
<1>4. handler[k].chain \in Chains =>
         [handler[k] EXCEPT !.stage = "next", !.chain = @ + 1] \in Handlers
  BY <1>1, <1>3 DEF Handlers
<1>5. \A s \in {"read", "submit", "record", "next"} :
         [handler[k] EXCEPT !.stage = s] \in Handlers
  BY <1>1 DEF Handlers
<1> QED
  BY <1>1, <1>2, <1>4, <1>5

LEMMA NextChainTypes ==
    ASSUME TypeInv, UNCHANGED jobs, NEW k \in Clients, NextChain(k),
           handler[k].stage # "read", handler[k].chain \in Chains
    PROVE  handler' \in [Clients -> Handlers] /\ HandlerType'
<1> DEFINE h == [handler[k] EXCEPT !.stage = "next", !.chain = @ + 1]
<1>1. h \in Handlers /\ h.stage = "next" /\ h.sub = handler[k].sub
  BY HandlerSteps DEF Handlers
<1>2. handler \in [Clients -> Handlers]
  BY DEF TypeInv
<1>3. handler' = [handler EXCEPT ![k] = h]
  BY <1>2 DEF NextChain
<1>4. h.sub.job \in DOMAIN jobs
  BY <1>1 DEF TypeInv, HandlerType
<1> HIDE DEF h
<1> QED
  BY <1>1, <1>3, <1>4, HandlerGoesOn

LEMMA GotoTypes ==
    ASSUME TypeInv, UNCHANGED jobs, NEW k \in Clients,
           NEW s \in {"submit", "record", "next"}, Goto(k, s),
           handler[k].stage # "read",
           s \in {"submit", "record"} =>
              /\ handler[k].chain \in Chains
              /\ handler[k].chain # Primary => handler[k].chain \in DOMAIN Work(k).aux
    PROVE  handler' \in [Clients -> Handlers] /\ HandlerType'
<1> DEFINE h == [handler[k] EXCEPT !.stage = s]
<1>1. h \in Handlers /\ h.stage = s /\ h.sub = handler[k].sub /\ h.chain = handler[k].chain
  BY HandlerSteps DEF Handlers
<1>2. handler' = [handler EXCEPT ![k] = h]
  BY DEF TypeInv, Goto
<1>3. h.sub.job \in DOMAIN jobs
  BY <1>1 DEF TypeInv, HandlerType
<1> HIDE DEF h
<1> QED
  BY <1>1, <1>2, <1>3, HandlerGoesOn DEF Work

LEMMA ReturnTypes ==
    ASSUME TypeInv, UNCHANGED jobs, NEW k \in Clients, Return(k)
    PROVE  handler' \in [Clients -> Handlers] /\ HandlerType'
<1>1. Reading \in Handlers /\ Reading.stage = "read"
  BY HandlerSteps DEF Reading
<1> QED
  BY <1>1, HandlerGoesOn DEF Return

\* Announcing a block keeps the types of the daemons.
LEMMA AnnounceTypes ==
    ASSUME TypeInv, NEW c \in Chains, Announce(c)
    PROVE  tip' \in [Chains -> Nat] /\ notices' \subseteq Chains
BY DEF TypeInv, Announce

\* The listener writes nothing but the templates, jobs and its locals.
LEMMA ListenerTypes ==
    ASSUME TypeInv, ListenerStep, UNCHANGED <<jobs, handler, unsaved>>,
           notices' \subseteq Chains, FetchType',
           templates' \in [job : DOMAIN jobs, aux : AuxSlices],
           faults' \in 0 .. MaxFaults
    PROVE  TypeInv'
<1>1. handler' \in [Clients -> Handlers] /\ HandlerType'
  BY HandlersKept
<1> QED
  BY <1>1 DEF TypeInv, ListenerStep

LEMMA FetchIsTyped ==
    ASSUME TypeInv
    PROVE  /\ fetch \in Fetches /\ fetch.aux \in Seq(AuxBlock) /\ Len(fetch.aux) \in Nat
           /\ Len(fetch.aux) <= AuxCount /\ fetch.tip \in Nat
           /\ Idle \in Fetches /\ Idle.aux = Nil /\ Len(Nil) = 0
           /\ Nil \in Seq(AuxBlock) /\ Nil \in AuxSlices
<1>1. fetch \in Fetches /\ Len(fetch.aux) <= AuxCount
  BY DEF TypeInv, FetchType
<1>2. Idle \in Fetches
  BY DEF Idle, Fetches, Stages, Forms, Nil
<1> QED
  BY <1>1, <1>2 DEF Fetches, Idle, Nil, AuxSlices

\* The steps that end the process, all in the same way
Panics == GenerateWorkFails \/ \E k \in Clients : SubmitPanics(k) \/ ReadAuxPanics(k)

LEMMA PanicsEnd == Panics => EndProcess
BY DEF Panics, GenerateWorkFails, SubmitPanics, ReadAuxPanics

LEMMA ChainIDStays == [Next]_vars => UNCHANGED chainID
<1> SUFFICES ASSUME [Next]_vars
             PROVE  UNCHANGED chainID
  OBVIOUS
<1>1. CASE \E c \in Chains : Grow(c) \/ LoseNotice(c) \/ ReceiveNotice(c)
  BY <1>1 DEF Grow, LoseNotice, ReceiveNotice, ListenerStep
<1>2. CASE GetBlockTemplate \/ CreateAuxBlock \/ CreateAuxBlockFails \/ FetchFails
           \/ WriteAux \/ GenerateWork \/ AssignBlock
  BY <1>2 DEF GetBlockTemplate, CreateAuxBlock, CreateAuxBlockFails, FetchFails,
              WriteAux, GenerateWork, AssignBlock, ListenerStep
<1>3. CASE \E k \in Clients :
              \/ ReceiveWork(k) \/ Submit(k) \/ SubmitRejected(k) \/ SubmitFails(k)
              \/ InsertBlock(k) \/ InsertFails(k) \/ ReadAux(k) \/ Reply(k)
  BY <1>3
     DEF ReceiveWork, Submit, SubmitRejected, SubmitFails, InsertBlock, InsertFails,
         ReadAux, Reply, ClientStep
<1>4. CASE Panics
  BY <1>4, PanicsEnd DEF EndProcess
<1>5. CASE UNCHANGED vars
  BY <1>5 DEF vars
<1> QED
  BY <1>1, <1>2, <1>3, <1>4, <1>5 DEF Next, Panics

LEMMA FetchStepTypes ==
    ASSUME TypeInv, [Next]_vars
    PROVE  FetchType'
<1>1. /\ fetch \in Fetches /\ fetch.aux \in Seq(AuxBlock) /\ Len(fetch.aux) \in Nat
      /\ Len(fetch.aux) <= AuxCount /\ fetch.tip \in Nat
      /\ Idle \in Fetches /\ Idle.aux = Nil /\ Len(Nil) = 0
      /\ Nil \in Seq(AuxBlock) /\ Nil \in AuxSlices
  BY FetchIsTyped
<1> USE Bounds
<1>2. ASSUME fetch' = Idle
      PROVE  FetchType'
  BY <1>1, <1>2 DEF FetchType, Idle
<1>3. ASSUME NEW c \in Chains, ReceiveNotice(c)
      PROVE  FetchType'
  <2>1. fetch' = [stage |-> "primary", attempt |-> 1, form |-> "plain", tip |-> 0,
                   aux |-> Nil]
    BY <1>3 DEF ReceiveNotice, Idle
  <2>2. fetch' \in Fetches /\ fetch'.stage = "primary" /\ fetch'.aux = Nil
    BY <1>1, <2>1 DEF Fetches, Stages, Forms
  <2> QED
    BY <1>1, <2>2 DEF FetchType
<1>4. CASE GetBlockTemplate
  <2>1. tip[Primary] \in Nat
    BY DEF TypeInv, Chains
  <2>2. PICK form \in Forms :
           fetch' = [fetch EXCEPT !.stage = "aux", !.form = form, !.tip = tip[Primary]]
    BY <1>4 DEF GetBlockTemplate
  <2>3. fetch' \in Fetches /\ fetch'.stage = "aux" /\ fetch'.aux = fetch.aux
    BY <1>1, <2>1, <2>2 DEF Fetches, Stages
  <2> QED
    BY <1>1, <2>3 DEF FetchType
<1>5. CASE CreateAuxBlock
  <2>1. PICK v \in Variants :
           fetch' = [fetch EXCEPT !.aux = Append(@, [tip |-> tip[NextAux], variant |-> v])]
    BY <1>5 DEF CreateAuxBlock
  <2>2. tip[NextAux] \in Nat /\ Len(fetch.aux) + 1 <= AuxCount
    BY <1>1, <1>5 DEF TypeInv, CreateAuxBlock, NextAux, Aux, Chains
  <2>3. [tip |-> tip[NextAux], variant |-> v] \in AuxBlock
    BY <2>2 DEF AuxBlock
  <2> DEFINE s == Append(fetch.aux, [tip |-> tip[NextAux], variant |-> v])
  <2>4. s \in Seq(AuxBlock) /\ Len(s) = Len(fetch.aux) + 1
    BY <1>1, <2>3
  <2>5. fetch' = [fetch EXCEPT !.aux = s] /\ fetch.stage = "aux"
    BY <1>5, <2>1 DEF CreateAuxBlock
  <2> HIDE DEF s
  <2> QED
    BY <1>1, <2>2, <2>4, <2>5 DEF FetchType, Fetches
<1>6. CASE CreateAuxBlockFails
  <2>1. fetch' = [fetch EXCEPT !.stage = "write", !.aux = Nil]
    BY <1>6 DEF CreateAuxBlockFails
  <2>2. fetch' \in Fetches /\ fetch'.stage = "write" /\ fetch'.aux = Nil
    BY <1>1, <2>1 DEF Fetches, Stages
  <2> QED
    BY <1>1, <2>2 DEF FetchType
<1>7. CASE FetchFails
  <2>1. \/ fetch' = Idle
        \/ fetch' = [stage |-> "primary", attempt |-> 2, form |-> "plain", tip |-> 0,
                      aux |-> Nil]
    BY <1>7 DEF FetchFails, Idle
  <2>2. CASE fetch' = [stage |-> "primary", attempt |-> 2, form |-> "plain", tip |-> 0,
                      aux |-> Nil]
    <3>1. fetch' \in Fetches /\ fetch'.stage = "primary" /\ fetch'.aux = Nil
      BY <1>1, <2>2 DEF Fetches, Stages, Forms
    <3> QED
      BY <1>1, <3>1 DEF FetchType
  <2> QED
    BY <1>2, <2>1, <2>2
<1>8. CASE WriteAux
  <2>1. fetch.aux \in AuxSlices
    <3>1. CASE fetch.stage = "write"
      BY <3>1 DEF TypeInv, FetchType
    <3>2. CASE fetch.stage = "aux" /\ NextAux \notin Aux
      <4>1. Len(fetch.aux) = AuxCount
        BY <1>1, <3>2 DEF NextAux, Aux
      <4> QED
        BY <1>1, <4>1, SliceOfAll
    <3> QED
      BY <1>8, <3>1, <3>2 DEF WriteAux
  <2>2. fetch' = [fetch EXCEPT !.stage = "generate"]
    BY <1>8 DEF WriteAux
  <2> QED
    BY <1>1, <2>1, <2>2 DEF FetchType, Fetches, Stages
<1>9. CASE GenerateWork
  <2>1. fetch.aux \in AuxSlices /\ fetch' = [fetch EXCEPT !.stage = "assign"]
    BY <1>9 DEF TypeInv, FetchType, GenerateWork
  <2> QED
    BY <1>1, <2>1 DEF FetchType, Fetches, Stages
<1>10. CASE AssignBlock
  BY <1>2, <1>10 DEF AssignBlock
<1>11. ASSUME UNCHANGED fetch
       PROVE  FetchType'
  BY <1>11 DEF TypeInv, FetchType
<1>12. ASSUME NEW c \in Chains, Grow(c) \/ LoseNotice(c)
       PROVE  FetchType'
  BY <1>11, <1>12 DEF Grow, LoseNotice, pool
<1>13. ASSUME NEW k \in Clients,
              \/ ReceiveWork(k) \/ Submit(k) \/ SubmitRejected(k) \/ SubmitFails(k)
              \/ InsertBlock(k) \/ InsertFails(k) \/ ReadAux(k) \/ Reply(k)
       PROVE  FetchType'
  BY <1>11, <1>13
     DEF ReceiveWork, Submit, SubmitRejected, SubmitFails, InsertBlock, InsertFails,
         ReadAux, Reply, ClientStep, pool
<1>14. CASE UNCHANGED vars
  BY <1>11, <1>14 DEF vars, pool
<1>15. CASE Panics
  BY <1>11, <1>15, PanicsEnd DEF EndProcess, pool
<1> QED
  BY <1>3, <1>4, <1>5, <1>6, <1>7, <1>8, <1>9, <1>10, <1>12, <1>13, <1>14, <1>15
     DEF Next, Panics

\* A new job leaves the others where they are.
LEMMA GenerateTypes ==
    ASSUME TypeInv, GenerateWork, FetchType'
    PROVE  TypeInv'
<1>1. /\ jobs' = Append(jobs, [form |-> fetch.form, tip |-> fetch.tip, aux |-> fetch.aux])
      /\ fetch.stage = "generate" /\ fetch.form # "unreadable"
      /\ UNCHANGED <<chainID, tip, accepted, blocks, up, sent, notices, templates, handler,
                     history, faults>>
  BY DEF GenerateWork, Generated, ListenerStep
<1>2. [form |-> fetch.form, tip |-> fetch.tip, aux |-> fetch.aux] \in Jobs
  BY <1>1, FetchIsTyped DEF TypeInv, FetchType, Jobs, Fetches
<1>3. /\ jobs' \in Seq(Jobs) /\ DOMAIN jobs \subseteq DOMAIN jobs'
      /\ \A j \in DOMAIN jobs : jobs'[j] = jobs[j]
  BY <1>1, <1>2 DEF TypeInv
<1>4. HandlerType'
  BY <1>1, <1>3 DEF TypeInv, HandlerType, Work
<1>5. templates' \in [job : DOMAIN jobs', aux : AuxSlices]
  BY <1>1, <1>3 DEF TypeInv
<1> QED
  BY <1>1, <1>3, <1>4, <1>5 DEF TypeInv, history

LEMMA ReceiveTypes ==
    ASSUME TypeInv, NEW k \in Clients, ReceiveWork(k)
    PROVE  /\ handler' \in [Clients -> Handlers] /\ HandlerType'
           /\ IsFiniteSet(sent') /\ \A s \in sent' : s \in Solutions /\ s.job \in DOMAIN jobs
<1>1. PICK sub \in Submissions, copy \in Copies :
         /\ Met(sub, copy) # {}
         /\ sent' = sent \cup {sub}
         /\ handler' = [handler EXCEPT ![k] =
               [stage |-> IF Primary \in Met(sub, copy) THEN "submit" ELSE "next",
                sub |-> sub,
                chain |-> IF Primary \in Met(sub, copy) THEN Primary ELSE 1,
                aux |-> Nil,
                overlap |-> fetch.stage \in {"generate", "assign"}]]
  BY DEF ReceiveWork
<1>2. UNCHANGED jobs
  BY DEF ReceiveWork, ClientStep, pool
<1>3. sub \in Solutions /\ sub.job \in DOMAIN jobs
  <2>1. CASE sub \in sent
    BY <2>1 DEF TypeInv
  <2>2. CASE sub \notin sent
    <3>1. sub \in [id : {Cardinality(sent) + 1}, job : DOMAIN jobs, meets : SUBSET Chains \ {{}}]
      BY <2>2 DEF Submissions
    <3>2. Cardinality(sent) \in Nat /\ DOMAIN jobs \subseteq Nat
      BY FS_CardinalityType DEF TypeInv
    <3> QED
      BY <3>1, <3>2 DEF Solutions
  <2> QED
    BY <2>1, <2>2
<1>4. IsFiniteSet(sent')
  BY <1>1, FS_AddElement DEF TypeInv
<1> DEFINE h == [stage |-> IF Primary \in Met(sub, copy) THEN "submit" ELSE "next",
                 sub |-> sub,
                 chain |-> IF Primary \in Met(sub, copy) THEN Primary ELSE 1,
                 aux |-> Nil,
                 overlap |-> fetch.stage \in {"generate", "assign"}]
<1>5. h \in Handlers
  BY <1>3, Bounds DEF Handlers, Primary
<1>6. /\ h.sub = sub /\ h.stage \in {"submit", "next"}
      /\ h.stage = "submit" => h.chain = Primary
  OBVIOUS
<1>7. handler' = [handler EXCEPT ![k] = h]
  BY <1>1
<1> HIDE DEF h
<1>8. handler' \in [Clients -> Handlers] /\ HandlerType'
  BY <1>2, <1>3, <1>5, <1>6, <1>7, HandlerGoesOn DEF Chains, Primary
<1> QED
  BY <1>1, <1>3, <1>4, <1>8 DEF TypeInv

LEMMA RowTypes ==
    ASSUME TypeInv, NEW k \in Clients, handler[k].stage = "record"
    PROVE  Row(k) \in Rows /\ Append(blocks, Row(k)) \in Seq(Rows)
<1>1. Mined(k) \in Mineds
  BY MinedType DEF TypeInv, HandlerType
<1>2. handler[k] \in Handlers
  BY HandlerSteps
<1>3. Row(k) \in Rows
  BY <1>1, <1>2 DEF Row, Rows, Handlers
<1> QED
  BY <1>3 DEF TypeInv

LEMMA ReadAuxTypes ==
    ASSUME TypeInv, NEW k \in Clients, ReadAux(k)
    PROVE  handler' \in [Clients -> Handlers] /\ HandlerType'
<1>1. /\ handler[k].stage = "next" /\ handler[k].chain \in Aux /\ HasAux(k)
      /\ UNCHANGED jobs
  BY DEF ReadAux, ClientStep, pool
<1>2. CASE handler[k].chain \notin handler[k].sub.meets
  <2>1. NextChain(k)
    BY <1>2 DEF ReadAux
  <2> QED
    BY <1>1, <2>1, NextChainTypes DEF Chains
<1>3. CASE handler[k].chain \in handler[k].sub.meets
  <2> DEFINE a == BlockOf(handler[k].chain, templates.aux)
             h == [handler[k] EXCEPT !.stage = "submit", !.aux = a]
  <2>1. handler' = [handler EXCEPT ![k] = h]
    BY <1>3 DEF ReadAux, TypeInv
  <2>2. templates.aux[handler[k].chain] \in AuxBlock
    <3>1. templates.aux \in AuxSlices /\ templates.aux # Nil
      BY <1>1 DEF TypeInv, HasAux, Nil
    <3> QED
      BY <1>1, <3>1 DEF AuxSlices
  <2>3. a \in Mineds
    BY <1>1, <2>2 DEF BlockOf, Mineds, AuxBlock, Chains
  <2>4. handler[k] \in Handlers /\ handler[k].sub.job \in DOMAIN jobs
    BY <1>1, HandlerSteps DEF TypeInv, HandlerType
  <2> HIDE DEF a
  <2>5. h \in Handlers /\ h.stage = "submit" /\ h.sub = handler[k].sub
        /\ h.chain = handler[k].chain
    BY <2>3, <2>4 DEF Handlers
  <2>6. h.chain \in Chains /\ h.chain \in DOMAIN jobs[h.sub.job].aux
    BY <1>1, <2>5 DEF HasAux, Work, Chains
  <2> HIDE DEF h
  <2> QED
    BY <1>1, <2>1, <2>4, <2>5, <2>6, HandlerGoesOn
<1> QED
  BY <1>2, <1>3

LEMMA TypeStep == TypeInv /\ [Next]_vars => TypeInv'
<1> SUFFICES ASSUME TypeInv, [Next]_vars
             PROVE  TypeInv'
  OBVIOUS
<1>1. FetchType' /\ chainID' \in [Aux -> ChainIDs]
  BY FetchStepTypes, ChainIDStays DEF TypeInv
<1> USE DEF vars, daemons, pool, history
<1>2. Fault => faults' \in 0 .. MaxFaults
  BY Bounds DEF Fault, TypeInv
<1>3. ASSUME NEW c \in Chains, Grow(c) \/ LoseNotice(c)
      PROVE  TypeInv'
  <2>1. tip' \in [Chains -> Nat] /\ notices' \subseteq Chains
    BY <1>3, AnnounceTypes DEF Grow, LoseNotice, TypeInv
  <2>2. handler' \in [Clients -> Handlers] /\ HandlerType'
    BY <1>3, HandlersKept DEF Grow, LoseNotice
  <2>3. faults' \in 0 .. MaxFaults
    BY <1>2, <1>3 DEF Grow, LoseNotice, TypeInv
  <2> QED
    BY <1>1, <1>3, <2>1, <2>2, <2>3 DEF Grow, LoseNotice, TypeInv
<1>4. ASSUME NEW c \in Chains, ReceiveNotice(c)
      PROVE  TypeInv'
  BY <1>1, <1>4, ListenerTypes DEF ReceiveNotice, TypeInv
<1>5. CASE GetBlockTemplate \/ CreateAuxBlock
  BY <1>1, <1>2, <1>5, ListenerTypes DEF GetBlockTemplate, CreateAuxBlock, TypeInv
<1>6. CASE CreateAuxBlockFails \/ FetchFails
  BY <1>1, <1>2, <1>6, ListenerTypes DEF CreateAuxBlockFails, FetchFails, TypeInv
<1>7. CASE WriteAux
  <2>1. handler' \in [Clients -> Handlers] /\ HandlerType'
    <3>1. handler \in [Clients -> Handlers]
      BY DEF TypeInv
    <3>2. ASSUME NEW k \in Clients
          PROVE  /\ handler'[k] \in Handlers /\ handler'[k].stage = handler[k].stage
                 /\ handler'[k].sub = handler[k].sub /\ handler'[k].chain = handler[k].chain
      BY <1>7, <3>1 DEF WriteAux, Handlers
    <3>3. handler' \in [Clients -> Handlers]
      BY <1>7, <3>2 DEF WriteAux
    <3>4. UNCHANGED jobs
      BY <1>7 DEF WriteAux
    <3>5. HandlerType'
      BY <3>2, <3>4 DEF TypeInv, HandlerType, Work
    <3> QED
      BY <3>3, <3>5
  <2>2. fetch'.aux \in AuxSlices /\ fetch'.aux = fetch.aux
    BY <1>1, <1>7, FetchIsTyped DEF WriteAux, FetchType, Fetches
  <2>3. templates' \in [job : DOMAIN jobs, aux : AuxSlices]
    BY <1>7, <2>2 DEF WriteAux, TypeInv
  <2> QED
    BY <1>1, <1>7, <2>1, <2>3 DEF WriteAux, ListenerStep, TypeInv
<1>8. CASE GenerateWork
  BY <1>1, <1>8, GenerateTypes
<1>9. CASE AssignBlock
  <2>1. Len(jobs) \in DOMAIN jobs
    BY DEF TypeInv
  <2>2. templates' \in [job : DOMAIN jobs, aux : AuxSlices]
    BY <1>9, <2>1 DEF AssignBlock, TypeInv
  <2> QED
    BY <1>1, <1>9, <2>2, ListenerTypes DEF AssignBlock, TypeInv
<1>10. ASSUME NEW k \in Clients, ReceiveWork(k)
       PROVE  TypeInv'
  BY <1>1, <1>10, ReceiveTypes DEF ReceiveWork, ClientStep, TypeInv
<1>11. ASSUME NEW k \in Clients, AfterError(k), handler[k].stage = "submit", UNCHANGED jobs
       PROVE  handler' \in [Clients -> Handlers] /\ HandlerType'
  BY <1>11, ReturnTypes, NextChainTypes DEF AfterError, TypeInv, HandlerType
<1>12. ASSUME NEW k \in Clients, handler[k].stage = "submit", Announce(handler[k].chain)
       PROVE  tip' \in [Chains -> Nat] /\ notices' \subseteq Chains
  BY <1>12, AnnounceTypes DEF TypeInv, HandlerType
<1>13. ASSUME NEW k \in Clients, Submit(k)
       PROVE  TypeInv'
  <2>1. /\ handler[k].stage = "submit" /\ Goto(k, "record") /\ Announce(handler[k].chain)
        /\ UNCHANGED <<pool, blocks, sent, unsaved, faults>>
    BY <1>13 DEF Submit, Accepted, Submitting, ClientStep
  <2>2. handler' \in [Clients -> Handlers] /\ HandlerType'
    BY <2>1, GotoTypes DEF TypeInv, HandlerType
  <2> QED
    BY <1>1, <1>12, <2>1, <2>2 DEF TypeInv
<1>14. ASSUME NEW k \in Clients, SubmitRejected(k)
       PROVE  TypeInv'
  BY <1>1, <1>11, <1>14 DEF SubmitRejected, Submitting, ClientStep, TypeInv
<1>15. ASSUME NEW k \in Clients, SubmitFails(k)
       PROVE  TypeInv'
  <2>1. /\ handler[k].stage = "submit" /\ AfterError(k) /\ Fault
        /\ UNCHANGED <<pool, blocks, sent>> /\ unsaved' \in {unsaved, unsaved + 1}
        /\ Announce(handler[k].chain) \/ UNCHANGED <<tip, notices>>
    BY <1>15 DEF SubmitFails, Accepted, Submitting, ClientStep
  <2>2. tip' \in [Chains -> Nat] /\ notices' \subseteq Chains
    BY <1>12, <2>1 DEF TypeInv
  <2>3. handler' \in [Clients -> Handlers] /\ HandlerType'
    BY <1>11, <2>1
  <2> QED
    BY <1>1, <1>2, <2>1, <2>2, <2>3 DEF TypeInv
<1>16. ASSUME NEW k \in Clients, InsertBlock(k) \/ InsertFails(k)
       PROVE  TypeInv'
  <2>1. /\ handler[k].stage = "record" /\ NextChain(k)
        /\ UNCHANGED <<pool, tip, notices, sent>>
        /\ blocks' = Append(blocks, Row(k)) \/ blocks' = blocks
        /\ unsaved' \in {unsaved, unsaved + 1} /\ faults' \in 0 .. MaxFaults
    BY <1>2, <1>16 DEF InsertBlock, InsertFails, ClientStep, TypeInv
  <2>2. handler' \in [Clients -> Handlers] /\ HandlerType'
    BY <2>1, NextChainTypes DEF TypeInv, HandlerType
  <2>3. blocks' \in Seq(Rows)
    BY <2>1, RowTypes DEF TypeInv
  <2> QED
    BY <1>1, <2>1, <2>2, <2>3 DEF TypeInv
<1>17. ASSUME NEW k \in Clients, ReadAux(k)
       PROVE  TypeInv'
  BY <1>1, <1>17, ReadAuxTypes DEF ReadAux, ClientStep, TypeInv
<1>18. CASE Panics
  <2>1. /\ UNCHANGED <<tip, notices, jobs, templates, blocks, sent, faults>>
        /\ handler' = [k \in Clients |-> Reading]
        /\ unsaved' = unsaved + Cardinality({k \in Clients : handler[k].stage = "record"})
    BY <1>18, PanicsEnd DEF EndProcess
  <2>2. handler' \in [Clients -> Handlers] /\ HandlerType'
    <3>1. Reading \in Handlers
      BY Bounds DEF Reading, NoWork, Handlers, Solutions
    <3>2. \A k \in Clients : handler'[k].stage = "read"
      BY <2>1 DEF Reading
    <3> QED
      BY <2>1, <3>1, <3>2 DEF HandlerType
  <2>3. Cardinality({k \in Clients : handler[k].stage = "record"}) \in Nat
    BY PoolWorkAssumption, FS_Subset, FS_CardinalityType
  <2>4. unsaved' \in Nat
    BY <2>1, <2>3 DEF TypeInv
  <2> QED
    BY <1>1, <2>1, <2>2, <2>4 DEF TypeInv
<1>19. ASSUME NEW k \in Clients, Reply(k)
       PROVE  TypeInv'
  BY <1>1, <1>19, ReturnTypes DEF Reply, ClientStep, TypeInv
<1>20. CASE UNCHANGED vars
  BY <1>1, <1>20, HandlersKept DEF TypeInv
<1> QED
  BY <1>3, <1>4, <1>5, <1>6, <1>7, <1>8, <1>9, <1>10, <1>13, <1>14, <1>15, <1>16, <1>17,
     <1>18, <1>19, <1>20 DEF Next, Panics

LEMMA TypeInvTypes == TypeInv => TypeOK
<1> SUFFICES ASSUME TypeInv
             PROVE  TypeOK
  OBVIOUS
<1>1. /\ fetch.stage \in Stages /\ fetch.attempt \in 0 .. 2 /\ fetch.form \in Forms
      /\ fetch.aux \in Seq(AuxBlock)
  BY FetchIsTyped DEF Fetches
<1>2. Range(fetch.aux) \subseteq AuxBlock
  BY <1>1 DEF Range
<1>3. \A j \in DOMAIN jobs : jobs[j] \in Jobs
  BY DEF TypeInv
<1>4. \A k \in Clients : handler[k].chain \in 0 .. AuxCount + 1
  BY HandlerSteps DEF Handlers
<1> QED
  BY <1>1, <1>2, <1>3, <1>4 DEF TypeOK, TypeInv, Jobs, AuxSlices

(* Whatever the listener and the clients do in between, the slices that    *)
(* they index are empty or have an entry for every aux chain.              *)
THEOREM TypeCorrect == Spec => []TypeOK
BY TypeInit, TypeStep, TypeInvTypes, PTL DEF Spec

-----------------------------------------------------------------------------
(* What every step leaves alone: the jobs there are, the history of failed *)
(* createauxblocks.                                                        *)

LEMMA JobsStay ==
    ASSUME TypeInv, [Next]_vars
    PROVE  \/ UNCHANGED jobs
           \/ /\ GenerateWork
              /\ jobs' = Append(jobs, Generated)
              /\ \A j \in DOMAIN jobs : j \in DOMAIN jobs' /\ jobs'[j] = jobs[j]
<1>1. CASE GenerateWork
  BY <1>1 DEF GenerateWork, TypeInv
<1> USE DEF vars, daemons, pool, history
<1>2. CASE \E c \in Chains : Grow(c) \/ LoseNotice(c) \/ ReceiveNotice(c)
  BY <1>2 DEF Grow, LoseNotice, ReceiveNotice
<1>3. CASE GetBlockTemplate \/ CreateAuxBlock \/ CreateAuxBlockFails \/ FetchFails
           \/ WriteAux \/ AssignBlock
  BY <1>3 DEF GetBlockTemplate, CreateAuxBlock, CreateAuxBlockFails, FetchFails,
              WriteAux, AssignBlock
<1>4. CASE \E k \in Clients :
              \/ ReceiveWork(k) \/ Submit(k) \/ SubmitRejected(k) \/ SubmitFails(k)
              \/ InsertBlock(k) \/ InsertFails(k) \/ ReadAux(k) \/ Reply(k)
  BY <1>4
     DEF ReceiveWork, Submit, SubmitRejected, SubmitFails, InsertBlock, InsertFails,
         ReadAux, Reply, ClientStep
<1>5. CASE UNCHANGED vars
  BY <1>5
<1>6. CASE Panics
  BY <1>6, PanicsEnd DEF EndProcess
<1> QED
  BY <1>1, <1>2, <1>3, <1>4, <1>5, <1>6 DEF Next, Panics

LEMMA FailedFetch ==
    ASSUME FetchFails
    PROVE  fetch'.stage \in {"wait", "primary"}
           /\ fetch.stage \notin {"write", "generate", "assign"}
<1>1. \/ fetch' = Idle
      \/ fetch' = [stage |-> "primary", attempt |-> 2, form |-> "plain", tip |-> 0,
                      aux |-> Nil]
  BY DEF FetchFails, Idle
<1>2. fetch.stage = "primary" \/ fetch.stage = "aux"
  BY DEF FetchFails
<1> QED
  BY <1>1, <1>2 DEF Idle

LEMMA WorkStays ==
    ASSUME TypeInv, [Next]_vars, NEW k \in Clients, handler[k].stage # "read"
    PROVE  jobs'[handler[k].sub.job] = jobs[handler[k].sub.job]
BY JobsStay DEF TypeInv, HandlerType

\* A handler that goes on with the same chain of the same submission
LEMMA MinedStays ==
    ASSUME TypeInv, [Next]_vars, NEW k \in Clients, handler[k].stage # "read",
           handler'[k].sub = handler[k].sub
    PROVE  /\ Work(k)' = Work(k)
           /\ handler'[k].chain = handler[k].chain => Mined(k)' = Mined(k)
<1>1. Work(k)' = Work(k)
  BY WorkStays DEF Work
<1> QED
  BY <1>1 DEF Mined

-----------------------------------------------------------------------------
(* Panics.  As long as every createauxblock has succeeded all work has a   *)
(* block for each aux chain, and so have the templates: the indices of a   *)
(* submission are in range.                                                *)

AuxThere ==
    ~auxFailed =>
       /\ \A j \in DOMAIN jobs : DOMAIN jobs[j].aux = Aux
       /\ DOMAIN templates.aux = Aux
       /\ fetch.stage \in {"write", "generate", "assign"} => DOMAIN fetch.aux = Aux

LEMMA AuxInit == Init => AuxThere
<1> SUFFICES ASSUME Init
             PROVE  AuxThere
  OBVIOUS
<1>1. PICK aux \in AuxOn(tip) \cup {Nil}, form \in Forms \ {"unreadable"} :
         /\ jobs = <<[form |-> form, tip |-> 0, aux |-> aux]>>
         /\ templates = [job |-> 1, aux |-> aux]
         /\ auxFailed = (aux = Nil)
  BY DEF Init
<1>2. ~auxFailed => DOMAIN aux = Aux
  BY <1>1 DEF AuxOn
<1> QED
  BY <1>1, <1>2 DEF Init, AuxThere, Idle

LEMMA AuxStep == TypeInv /\ AuxThere /\ [Next]_vars => AuxThere'
<1> SUFFICES ASSUME TypeInv, AuxThere, [Next]_vars
             PROVE  AuxThere'
  OBVIOUS
<1> USE DEF vars, daemons, pool, history
<1>f. fetch \in Fetches /\ Len(fetch.aux) \in Nat /\ Len(fetch.aux) <= AuxCount
      /\ fetch.aux \in Seq(AuxBlock)
  BY FetchIsTyped
<1>1. CASE \E c \in Chains : Grow(c) \/ LoseNotice(c)
  BY <1>1 DEF Grow, LoseNotice, AuxThere
<1>2. CASE \E c \in Chains : ReceiveNotice(c)
  BY <1>2 DEF ReceiveNotice, ListenerStep, AuxThere, Idle
<1>3. CASE GetBlockTemplate \/ CreateAuxBlock
  <2>1. fetch'.stage = "aux" /\ UNCHANGED <<jobs, templates, up, auxFailed>>
    <3>1. CASE GetBlockTemplate
      <4>1. PICK form \in Forms :
               fetch' = [fetch EXCEPT !.stage = "aux", !.form = form, !.tip = tip[Primary]]
        BY <3>1 DEF GetBlockTemplate
      <4> QED
        BY <1>f, <3>1, <4>1 DEF GetBlockTemplate, ListenerStep, Fetches
    <3>2. CASE CreateAuxBlock
      BY <1>f, <3>2 DEF CreateAuxBlock, ListenerStep, Fetches
    <3> QED
      BY <1>3, <3>1, <3>2
  <2> QED
    BY <2>1 DEF AuxThere
<1>4. CASE CreateAuxBlockFails
  BY <1>4 DEF CreateAuxBlockFails, AuxThere
<1>5. CASE FetchFails
  <2>1. fetch'.stage \in {"wait", "primary"}
    BY <1>5, FailedFetch
  <2>2. UNCHANGED <<jobs, templates, up, auxFailed>>
    BY <1>5 DEF FetchFails, ListenerStep
  <2> QED
    BY <2>1, <2>2 DEF AuxThere
<1>6. CASE WriteAux
  <2>1. fetch' = [fetch EXCEPT !.stage = "generate"] /\ UNCHANGED <<jobs, up, auxFailed>>
        /\ templates' = [templates EXCEPT !.aux = fetch.aux]
    BY <1>6 DEF WriteAux, ListenerStep
  <2>2. ~auxFailed => DOMAIN fetch.aux = Aux
    <3>1. CASE fetch.stage = "write"
      BY <3>1 DEF AuxThere
    <3>2. CASE fetch.stage = "aux" /\ NextAux \notin Aux
      <4>1. Len(fetch.aux) = AuxCount
        BY <1>f, <3>2, Bounds DEF NextAux, Aux
      <4> QED
        BY <1>f, <4>1 DEF Aux
    <3> QED
      BY <1>6, <3>1, <3>2 DEF WriteAux
  <2>3. fetch'.aux = fetch.aux /\ templates'.aux = fetch.aux
    BY <1>f, <2>1 DEF Fetches, TypeInv
  <2> QED
    BY <2>1, <2>2, <2>3 DEF AuxThere
<1>7. CASE GenerateWork
  <2>1. fetch.stage = "generate" /\ fetch'.aux = fetch.aux
        /\ jobs' = Append(jobs, [form |-> fetch.form, tip |-> fetch.tip, aux |-> fetch.aux])
        /\ UNCHANGED <<templates, up, auxFailed>>
    BY <1>7, <1>f DEF GenerateWork, Generated, ListenerStep, Fetches
  <2>2. \A j \in DOMAIN jobs' : \/ j \in DOMAIN jobs /\ jobs'[j] = jobs[j]
                                \/ jobs'[j].aux = fetch.aux
    BY <2>1 DEF TypeInv
  <2> QED
    BY <2>1, <2>2 DEF AuxThere
<1>8. CASE AssignBlock
  <2>1. templates'.aux = templates.aux /\ fetch'.stage = "wait" /\ UNCHANGED <<jobs, up, auxFailed>>
    BY <1>8 DEF AssignBlock, ListenerStep, Idle, TypeInv
  <2> QED
    BY <2>1 DEF AuxThere
<1>9. CASE \E k \in Clients :
              \/ ReceiveWork(k) \/ Submit(k) \/ SubmitRejected(k) \/ SubmitFails(k)
              \/ InsertBlock(k) \/ InsertFails(k) \/ ReadAux(k) \/ Reply(k)
  BY <1>9
     DEF ReceiveWork, Submit, SubmitRejected, SubmitFails, InsertBlock, InsertFails,
         ReadAux, Reply, ClientStep, AuxThere
<1>10. CASE Panics
  BY <1>10, PanicsEnd DEF EndProcess, AuxThere
<1>11. CASE UNCHANGED vars
  BY <1>11 DEF AuxThere
<1> QED
  BY <1>1, <1>2, <1>3, <1>4, <1>5, <1>6, <1>7, <1>8, <1>9, <1>10, <1>11 DEF Next, Panics

LEMMA StaysUp ==
    ASSUME [Next]_vars
    PROVE  Panics \/ up' \/ UNCHANGED vars
<1>1. CASE \E c \in Chains : Grow(c) \/ LoseNotice(c) \/ ReceiveNotice(c)
  BY <1>1 DEF Grow, LoseNotice, Fault, ReceiveNotice, ListenerStep
<1>2. CASE GetBlockTemplate \/ CreateAuxBlock \/ CreateAuxBlockFails \/ FetchFails
           \/ WriteAux \/ GenerateWork \/ AssignBlock
  <2>1. up /\ up' = up
    BY <1>2 DEF GetBlockTemplate, CreateAuxBlock, CreateAuxBlockFails, FetchFails,
                WriteAux, GenerateWork, AssignBlock, ListenerStep
  <2> QED
    BY <2>1
<1>3. CASE \E k \in Clients :
              \/ ReceiveWork(k) \/ Submit(k) \/ SubmitRejected(k) \/ SubmitFails(k)
              \/ InsertBlock(k) \/ InsertFails(k) \/ ReadAux(k) \/ Reply(k)
  BY <1>3
     DEF ReceiveWork, Submit, SubmitRejected, SubmitFails, InsertBlock, InsertFails,
         ReadAux, Reply, ClientStep
<1> QED
  BY <1>1, <1>2, <1>3 DEF Next, Panics

LEMMA CauseInit == Init => PanicsHaveACause
BY DEF Init, PanicsHaveACause

LEMMA CauseStep ==
    TypeInv /\ AuxThere /\ PanicsHaveACause /\ [Next]_vars => PanicsHaveACause'
<1> SUFFICES ASSUME TypeInv, AuxThere, PanicsHaveACause, [Next]_vars
             PROVE  PanicsHaveACause'
  OBVIOUS
<1>1. CASE up'
  BY <1>1 DEF PanicsHaveACause
<1>2. MakesAuxPow' <=> MakesAuxPow
  BY ChainIDStays DEF MakesAuxPow
<1>3. CASE UNCHANGED vars
  BY <1>2, <1>3 DEF PanicsHaveACause, vars, pool, history
<1>4. CASE Panics
  <2>1. UNCHANGED <<auxFailed, fetch, jobs>>
    BY <1>4, PanicsEnd DEF EndProcess, pool
  <2>2. CASE GenerateWorkFails
    BY <2>1, <2>2 DEF GenerateWorkFails, PanicsHaveACause
  <2>3. ASSUME NEW k \in Clients, SubmitPanics(k)
        PROVE  PanicsHaveACause'
    <3>1. handler[k].stage = "submit" /\ ~Serializes(k) /\ handler[k].sub.job \in DOMAIN jobs
      BY <2>3 DEF SubmitPanics, TypeInv, HandlerType
    <3>2. ~MakesAuxPow \/ jobs[handler[k].sub.job].form = "uncountable"
      BY <3>1 DEF Serializes, Work
    <3> QED
      BY <1>2, <2>1, <3>1, <3>2 DEF PanicsHaveACause
  <2>4. ASSUME NEW k \in Clients, ReadAuxPanics(k)
        PROVE  PanicsHaveACause'
    <3>1. handler[k].chain \in Aux /\ ~HasAux(k) /\ handler[k].sub.job \in DOMAIN jobs
      BY <2>4 DEF ReadAuxPanics, TypeInv, HandlerType
    <3>2. auxFailed
      BY <3>1 DEF AuxThere, HasAux, Work
    <3> QED
      BY <2>1, <3>2 DEF PanicsHaveACause
  <2> QED
    BY <1>4, <2>2, <2>3, <2>4 DEF Panics
<1> QED
  BY <1>1, <1>3, <1>4, StaysUp

(* The process ends only after a createauxblock has failed (server.go:96), *)
(* with an aux chain that has no slot in the tree of the proof             *)
(* (auxMerkelBranch.go:58), with a template of 252 transactions            *)
(* (encoding.go:19, 34) or with one that GenerateWork cannot read          *)
(* (work.go:126): in particular the two indices of a submission            *)
(* (work.go:261-262) are in range as long as the aux daemons have answered. *)
THEOREM PanicsHaveCauses == Spec => []PanicsHaveACause
BY TypeInit, TypeStep, AuxInit, AuxStep, CauseInit, CauseStep, PTL DEF Spec

-----------------------------------------------------------------------------
(* Hashes.  The aux blocks of the templates are those of the job beside    *)
(* them, except while the listener is between the two writes; a handler    *)
(* that no write has overlapped sees the aux blocks of its own work.       *)

TemplatesAgree ==
    /\ fetch.stage \notin {"generate", "assign"} => templates.aux = jobs[templates.job].aux
    /\ fetch.stage = "generate" => fetch.aux = templates.aux
    /\ fetch.stage = "assign" => jobs[Len(jobs)].aux = templates.aux

HandlerAgrees(k) ==
    ~handler[k].overlap =>
        /\ handler[k].stage # "read" => templates.aux = Work(k).aux
        /\ handler[k].stage \in {"submit", "record"} /\ handler[k].chain # Primary
              => handler[k].aux = Mined(k)

HashInv ==
    /\ TemplatesAgree
    /\ \A k \in Clients : HandlerAgrees(k)
    /\ HashIsAccepted

LEMMA HashInit == Init => HashInv
BY DEF Init, HashInv, TemplatesAgree, HandlerAgrees, HashIsAccepted, Idle, Reading

LEMMA TemplatesStep == TypeInv /\ TemplatesAgree /\ [Next]_vars => TemplatesAgree'
<1> SUFFICES ASSUME TypeInv, TemplatesAgree, [Next]_vars
             PROVE  TemplatesAgree'
  OBVIOUS
<1> USE DEF vars, daemons, pool, history
<1>f. fetch \in Fetches
  BY FetchIsTyped
<1>1. CASE UNCHANGED <<fetch, templates, jobs>>
  BY <1>1 DEF TemplatesAgree
<1>2. CASE /\ fetch.stage \notin {"generate", "assign"}
           /\ fetch'.stage \notin {"generate", "assign"}
           /\ UNCHANGED <<templates, jobs>>
  BY <1>2 DEF TemplatesAgree
<1>3. CASE \E c \in Chains : ReceiveNotice(c)
  BY <1>2, <1>3 DEF ReceiveNotice, Idle
<1>4. CASE GetBlockTemplate \/ CreateAuxBlock \/ CreateAuxBlockFails
  <2>1. fetch.stage \in {"primary", "aux"} /\ fetch'.stage \in {"aux", "write"}
    <3>1. CASE GetBlockTemplate
      <4>1. PICK form \in Forms :
               fetch' = [fetch EXCEPT !.stage = "aux", !.form = form, !.tip = tip[Primary]]
        BY <3>1 DEF GetBlockTemplate
      <4> QED
        BY <1>f, <3>1, <4>1 DEF GetBlockTemplate, Fetches
    <3>2. CASE CreateAuxBlock \/ CreateAuxBlockFails
      BY <1>f, <3>2 DEF CreateAuxBlock, CreateAuxBlockFails, Fetches
    <3> QED
      BY <1>4, <3>1, <3>2
  <2> QED
    BY <1>2, <1>4, <2>1 DEF GetBlockTemplate, CreateAuxBlock, CreateAuxBlockFails
<1>5. CASE FetchFails
  BY <1>2, <1>5, FailedFetch DEF FetchFails
<1>6. CASE WriteAux
  <2>1. fetch'.aux = fetch.aux /\ fetch'.stage = "generate" /\ templates'.aux = fetch.aux
    BY <1>6, <1>f DEF WriteAux, Fetches, TypeInv
  <2> QED
    BY <2>1 DEF TemplatesAgree
<1>7. CASE GenerateWork
  <2>1. fetch.stage = "generate" /\ fetch'.stage = "assign" /\ UNCHANGED templates
        /\ jobs' = Append(jobs, [form |-> fetch.form, tip |-> fetch.tip, aux |-> fetch.aux])
    BY <1>7, <1>f DEF GenerateWork, Generated, Fetches
  <2>2. jobs'[Len(jobs')].aux = fetch.aux
    BY <2>1 DEF TypeInv
  <2> QED
    BY <2>1, <2>2 DEF TemplatesAgree
<1>8. CASE AssignBlock
  <2>1. fetch.stage = "assign" /\ fetch'.stage = "wait" /\ UNCHANGED jobs
        /\ templates'.aux = templates.aux /\ templates'.job = Len(jobs)
    BY <1>8 DEF AssignBlock, Idle, TypeInv
  <2> QED
    BY <2>1 DEF TemplatesAgree
<1>9. CASE \E c \in Chains : Grow(c) \/ LoseNotice(c)
  BY <1>1, <1>9 DEF Grow, LoseNotice
<1>10. CASE \E k \in Clients :
              \/ ReceiveWork(k) \/ Submit(k) \/ SubmitRejected(k) \/ SubmitFails(k)
              \/ InsertBlock(k) \/ InsertFails(k) \/ ReadAux(k) \/ Reply(k)
  BY <1>1, <1>10
     DEF ReceiveWork, Submit, SubmitRejected, SubmitFails, InsertBlock, InsertFails,
         ReadAux, Reply, ClientStep
<1>11. CASE UNCHANGED vars
  BY <1>1, <1>11
<1>12. CASE Panics
  BY <1>1, <1>12, PanicsEnd DEF EndProcess
<1> QED
  BY <1>3, <1>4, <1>5, <1>6, <1>7, <1>8, <1>9, <1>10, <1>11, <1>12 DEF Next, Panics

LEMMA AgreesStays ==
    ASSUME TypeInv, [Next]_vars, NEW k \in Clients, HandlerAgrees(k),
           templates'.aux = templates.aux, handler'[k] = handler[k]
    PROVE  HandlerAgrees(k)'
<1>1. CASE handler[k].stage = "read"
  BY <1>1 DEF HandlerAgrees
<1>2. CASE handler[k].stage # "read"
  BY <1>2, MinedStays DEF HandlerAgrees
<1> QED
  BY <1>1, <1>2

\* A handler that is done with a chain, or reports that it was accepted
LEMMA AgreesMoves ==
    ASSUME TypeInv, [Next]_vars, NEW k \in Clients, HandlerAgrees(k),
           templates'.aux = templates.aux, handler[k].stage # "read",
           \/ NextChain(k) \/ Return(k)
           \/ handler[k].stage = "submit" /\ Goto(k, "record")
    PROVE  HandlerAgrees(k)'
<1>1. handler \in [Clients -> Handlers] /\ handler[k] \in Handlers
  BY DEF TypeInv
<1>2. CASE Return(k)
  BY <1>1, <1>2 DEF Return, Reading, HandlerAgrees
<1>3. CASE NextChain(k)
  <2>1. handler'[k].stage = "next" /\ handler'[k].sub = handler[k].sub
        /\ handler'[k].overlap = handler[k].overlap
    BY <1>1, <1>3 DEF NextChain, Handlers
  <2> QED
    BY <2>1, MinedStays DEF HandlerAgrees
<1>4. CASE handler[k].stage = "submit" /\ Goto(k, "record")
  <2>1. handler'[k].stage = "record" /\ handler'[k].sub = handler[k].sub
        /\ handler'[k].overlap = handler[k].overlap /\ handler'[k].chain = handler[k].chain
        /\ handler'[k].aux = handler[k].aux
    BY <1>1, <1>4 DEF Goto, Handlers
  <2> QED
    BY <1>4, <2>1, MinedStays DEF HandlerAgrees
<1> QED
  BY <1>2, <1>3, <1>4

LEMMA AgreesReceive ==
    ASSUME TypeInv, [Next]_vars, TemplatesAgree, NEW k \in Clients, ReceiveWork(k)
    PROVE  HandlerAgrees(k)'
<1>1. PICK sub \in Submissions, copy \in Copies :
         /\ Met(sub, copy) # {}
         /\ handler' = [handler EXCEPT ![k] =
               [stage |-> IF Primary \in Met(sub, copy) THEN "submit" ELSE "next",
                sub |-> sub,
                chain |-> IF Primary \in Met(sub, copy) THEN Primary ELSE 1,
                aux |-> Nil,
                overlap |-> fetch.stage \in {"generate", "assign"}]]
  BY DEF ReceiveWork
<1>2. handler \in [Clients -> Handlers]
  BY DEF TypeInv
<1>3. /\ handler'[k].sub = sub
      /\ handler'[k].overlap = (fetch.stage \in {"generate", "assign"})
      /\ handler'[k].stage = "submit" => handler'[k].chain = Primary
      /\ handler'[k].stage \in {"submit", "next"}
  BY <1>1, <1>2
<1>4. UNCHANGED <<jobs, templates>>
  BY DEF ReceiveWork, ClientStep, pool
<1>5. copy = sub.job
  BY <1>1 DEF Met
<1>6. fetch.stage \notin {"generate", "assign"} =>
         copy = templates.job /\ templates.aux = jobs[templates.job].aux
  BY DEF Copies, TemplatesAgree
<1>7. ~handler'[k].overlap => templates'.aux = Work(k)'.aux
  BY <1>3, <1>4, <1>5, <1>6 DEF Work
<1> QED
  BY <1>3, <1>7 DEF HandlerAgrees

LEMMA AgreesRead ==
    ASSUME TypeInv, [Next]_vars, NEW k \in Clients, HandlerAgrees(k), ReadAux(k)
    PROVE  HandlerAgrees(k)'
<1>1. /\ handler[k].stage = "next" /\ handler[k].chain \in Aux /\ HasAux(k)
      /\ UNCHANGED <<jobs, templates>>
  BY DEF ReadAux, ClientStep, pool
<1>2. CASE handler[k].chain \notin handler[k].sub.meets
  <2>1. NextChain(k)
    BY <1>2 DEF ReadAux
  <2> QED
    BY <1>1, <2>1, AgreesMoves
<1>3. CASE handler[k].chain \in handler[k].sub.meets
  <2> DEFINE a == BlockOf(handler[k].chain, templates.aux)
  <2>1. handler' = [handler EXCEPT ![k].stage = "submit", ![k].aux = a]
    BY <1>3 DEF ReadAux
  <2> HIDE DEF a
  <2>2. handler \in [Clients -> Handlers] /\ handler[k] \in Handlers
    BY DEF TypeInv
  <2>3. /\ handler'[k].stage = "submit" /\ handler'[k].sub = handler[k].sub
        /\ handler'[k].chain = handler[k].chain /\ handler'[k].aux = a
        /\ handler'[k].overlap = handler[k].overlap
    BY <2>1, <2>2 DEF Handlers
  <2>4. Work(k)' = Work(k) /\ Mined(k)' = Mined(k)
    BY <1>1, <2>3, MinedStays
  <2>5. ~handler[k].overlap => templates.aux = Work(k).aux
    BY <1>1 DEF HandlerAgrees
  <2>6. handler[k].chain # Primary
    BY <1>1, Bounds DEF Aux, Primary
  <2>7. ~handler[k].overlap => a = Mined(k)
    BY <2>5, <2>6 DEF a, Mined
  <2> QED
    BY <1>1, <2>3, <2>4, <2>5, <2>7 DEF HandlerAgrees
<1> QED
  BY <1>2, <1>3

\* Only the client's own steps move its handler, and only the listener
\* writes the templates.
LEMMA OthersStay ==
    ASSUME TypeInv, NEW k \in Clients,
           \/ ReceiveWork(k) \/ Submit(k) \/ SubmitRejected(k) \/ SubmitFails(k)
           \/ InsertBlock(k) \/ InsertFails(k) \/ ReadAux(k) \/ Reply(k)
    PROVE  /\ UNCHANGED <<templates, jobs, fetch>>
           /\ \A j \in Clients : j # k => handler'[j] = handler[j]
<1>1. handler \in [Clients -> Handlers]
  BY DEF TypeInv
<1>2. NextChain(k) \/ Return(k) \/ Goto(k, "record")
         => \A j \in Clients : j # k => handler'[j] = handler[j]
  BY <1>1 DEF NextChain, Return, Goto
<1>3. CASE ReceiveWork(k)
  BY <1>1, <1>3 DEF ReceiveWork, ClientStep, pool
<1>4. CASE ReadAux(k)
  BY <1>1, <1>2, <1>4 DEF ReadAux, ClientStep, pool
<1>5. CASE Submit(k) \/ SubmitRejected(k) \/ SubmitFails(k)
  BY <1>2, <1>5 DEF Submit, SubmitRejected, SubmitFails, AfterError, ClientStep, pool
<1>6. CASE InsertBlock(k) \/ InsertFails(k) \/ Reply(k)
  BY <1>2, <1>6 DEF InsertBlock, InsertFails, Reply, ClientStep, pool
<1> QED
  BY <1>3, <1>4, <1>5, <1>6

LEMMA HandlersAgreeStep ==
    TypeInv /\ HashInv /\ [Next]_vars => \A k \in Clients : HandlerAgrees(k)'
<1> SUFFICES ASSUME TypeInv, HashInv, [Next]_vars, NEW k \in Clients
             PROVE  HandlerAgrees(k)'
  OBVIOUS
<1>1. HandlerAgrees(k) /\ TemplatesAgree
  BY DEF HashInv
<1>2. CASE templates'.aux = templates.aux /\ handler'[k] = handler[k]
  BY <1>1, <1>2, AgreesStays
<1> USE DEF vars, daemons, pool, history
<1>3. CASE \E c \in Chains : Grow(c) \/ LoseNotice(c) \/ ReceiveNotice(c)
  BY <1>2, <1>3 DEF Grow, LoseNotice, ReceiveNotice
<1>4. CASE GetBlockTemplate \/ CreateAuxBlock \/ CreateAuxBlockFails \/ FetchFails
           \/ GenerateWork
  BY <1>2, <1>4 DEF GetBlockTemplate, CreateAuxBlock, CreateAuxBlockFails, FetchFails,
                    GenerateWork
<1>5. CASE AssignBlock
  BY <1>2, <1>5 DEF AssignBlock, TypeInv
<1>6. CASE WriteAux
  <2>1. handler[k] \in Handlers
    BY DEF TypeInv
  <2>2. handler'[k] = [handler[k] EXCEPT !.overlap = (@ \/ handler[k].stage # "read")]
    BY <1>6 DEF WriteAux
  <2>3. handler'[k].stage # "read" => handler'[k].overlap
    BY <2>1, <2>2 DEF Handlers
  <2> QED
    BY <2>3 DEF HandlerAgrees
<1>7. ASSUME NEW l \in Clients, l # k,
             \/ ReceiveWork(l) \/ Submit(l) \/ SubmitRejected(l) \/ SubmitFails(l)
             \/ InsertBlock(l) \/ InsertFails(l) \/ ReadAux(l) \/ Reply(l)
      PROVE  HandlerAgrees(k)'
  BY <1>2, <1>7, OthersStay
<1>8. CASE ReceiveWork(k)
  BY <1>1, <1>8, AgreesReceive
<1>9. CASE ReadAux(k)
  BY <1>1, <1>9, AgreesRead
<1>10. CASE Submit(k) \/ SubmitRejected(k) \/ SubmitFails(k) \/ InsertBlock(k)
            \/ InsertFails(k) \/ Reply(k)
  <2>1. handler[k].stage # "read" /\ templates' = templates
    BY <1>10 DEF Submit, Accepted, Submitting, SubmitRejected, SubmitFails, InsertBlock, InsertFails,
                 Reply, ClientStep
  <2>2. \/ NextChain(k) \/ Return(k)
        \/ handler[k].stage = "submit" /\ Goto(k, "record")
    BY <1>10 DEF Submit, Accepted, Submitting, SubmitRejected, SubmitFails, InsertBlock, InsertFails,
                 Reply, AfterError
  <2> QED
    BY <1>1, <2>1, <2>2, AgreesMoves
<1>11. CASE Panics
  <2>1. handler'[k].stage = "read"
    BY <1>11, PanicsEnd DEF EndProcess, Reading
  <2> QED
    BY <2>1 DEF HandlerAgrees
<1>12. CASE UNCHANGED vars
  BY <1>2, <1>12
<1> QED
  BY <1>3, <1>4, <1>5, <1>6, <1>7, <1>8, <1>9, <1>10, <1>11, <1>12 DEF Next, Panics

LEMMA RowsStep ==
    ASSUME TypeInv, HashInv, [Next]_vars
    PROVE  HashIsAccepted'
<1> USE DEF vars, daemons, pool, history
<1>1. ASSUME UNCHANGED blocks
      PROVE  HashIsAccepted'
  BY <1>1 DEF HashInv, HashIsAccepted
<1>2. ASSUME NEW k \in Clients, InsertBlock(k)
      PROVE  HashIsAccepted'
  <2>1. handler[k].stage = "record" /\ blocks' = Append(blocks, Row(k))
    BY <1>2 DEF InsertBlock
  <2>2. Mined(k).chain = handler[k].chain
    BY <2>1, MinedType DEF TypeInv, HandlerType
  <2>3. Row(k).hash # Row(k).block => Row(k).overlap /\ Row(k).block.chain # Primary
    <3>1. HandlerAgrees(k) /\ handler[k] \in Handlers
      BY DEF HashInv, TypeInv
    <3>2. handler[k].overlap \in BOOLEAN
      BY <3>1 DEF Handlers
    <3> QED
      BY <2>1, <2>2, <3>1, <3>2 DEF Row, HandlerAgrees
  <2>4. Row(k) \in Rows /\ blocks \in Seq(Rows)
    BY <2>1, RowTypes DEF TypeInv
  <2>5. \A i \in DOMAIN blocks' :
           \/ i \in DOMAIN blocks /\ blocks'[i] = blocks[i]
           \/ blocks'[i] = Row(k)
    BY <2>1, <2>4
  <2> QED
    BY <2>3, <2>5 DEF HashInv, HashIsAccepted
<1>3. CASE \E c \in Chains : Grow(c) \/ LoseNotice(c) \/ ReceiveNotice(c)
  BY <1>1, <1>3 DEF Grow, LoseNotice, ReceiveNotice, ListenerStep
<1>4. CASE GetBlockTemplate \/ CreateAuxBlock \/ CreateAuxBlockFails \/ FetchFails
           \/ WriteAux \/ GenerateWork \/ AssignBlock
  BY <1>1, <1>4 DEF GetBlockTemplate, CreateAuxBlock, CreateAuxBlockFails, FetchFails,
                    WriteAux, GenerateWork, AssignBlock, ListenerStep
<1>5. CASE \E k \in Clients :
              \/ ReceiveWork(k) \/ Submit(k) \/ SubmitRejected(k) \/ SubmitFails(k)
              \/ InsertFails(k) \/ ReadAux(k) \/ Reply(k)
  BY <1>1, <1>5
     DEF ReceiveWork, Submit, SubmitRejected, SubmitFails, InsertFails, ReadAux, Reply
<1>6. CASE UNCHANGED vars
  BY <1>1, <1>6
<1>7. CASE Panics
  BY <1>1, <1>7, PanicsEnd DEF EndProcess
<1> QED
  BY <1>2, <1>3, <1>4, <1>5, <1>6, <1>7 DEF Next, Panics

LEMMA HashStep == TypeInv /\ HashInv /\ [Next]_vars => HashInv'
BY TemplatesStep, HandlersAgreeStep, RowsStep DEF HashInv

(* An aux block is recorded under another hash than the submitted one only *)
(* if the templates were refreshed while its share was handled; a primary  *)
(* block never is (work.go:261, 275).                                      *)
THEOREM HashesAreSubmitted == Spec => []HashIsAccepted
<1>1. HashInv => HashIsAccepted
  BY DEF HashInv
<1> QED
  BY <1>1, TypeInit, TypeStep, HashInit, HashStep, PTL DEF Spec

-----------------------------------------------------------------------------
(* Found blocks.  Of all steps only these matter to them: a daemon takes   *)
(* the block of a handler, which then is about to record it unless the     *)
(* reply is lost; a handler is done with recording, successfully or not;   *)
(* and the process ends, with the records that handlers were about to      *)
(* make.                                                                   *)

Holds(k) == handler[k].stage = "record"

SameRecord(k) ==
    /\ handler'[k].stage = "record" <=> handler[k].stage = "record"
    /\ handler[k].stage = "record" => Mined(k)' = Mined(k)

Quiet ==
    /\ UNCHANGED <<accepted, blocks, unsaved>>
    /\ \A c \in Chains : tip[c] <= tip'[c]
    /\ \A k \in Clients : SameRecord(k)

Taken(k) ==
    /\ handler[k].stage = "submit"
    /\ Mined(k).tip = tip[Mined(k).chain]
    /\ accepted' = accepted \cup {Mined(k)}
    /\ tip' = [tip EXCEPT ![Mined(k).chain] = @ + 1]
    /\ UNCHANGED blocks
    /\ \/ handler'[k].stage = "record" /\ Mined(k)' = Mined(k) /\ UNCHANGED unsaved
       \/ handler'[k].stage # "record" /\ unsaved' = unsaved + 1
    /\ \A j \in Clients \ {k} : SameRecord(j)

Handled(k) ==
    /\ handler[k].stage = "record" /\ handler'[k].stage # "record"
    /\ UNCHANGED <<accepted, tip>>
    /\ \/ blocks' = Append(blocks, Row(k)) /\ UNCHANGED unsaved
       \/ UNCHANGED blocks /\ unsaved' = unsaved + 1
    /\ \A j \in Clients \ {k} : SameRecord(j)

Ended ==
    /\ UNCHANGED <<accepted, blocks, tip>>
    /\ unsaved' = unsaved + Cardinality({k \in Clients : Holds(k)})
    /\ \A k \in Clients : handler'[k].stage # "record"

LEMMA SameIfKept ==
    ASSUME TypeInv, [Next]_vars, NEW k \in Clients,
           /\ handler'[k].stage = handler[k].stage
           /\ handler'[k].sub = handler[k].sub
           /\ handler'[k].chain = handler[k].chain
    PROVE  SameRecord(k)
BY MinedStays DEF SameRecord

\* The stage a handler goes to
LEMMA StageAfter ==
    ASSUME TypeInv, NEW k \in Clients
    PROVE  /\ NextChain(k) => handler'[k].stage = "next"
           /\ Return(k) => handler'[k].stage = "read"
           /\ AfterError(k) => handler'[k].stage \in {"next", "read"}
           /\ Goto(k, "record") =>
                 /\ handler'[k].stage = "record"
                 /\ handler'[k].sub = handler[k].sub
                 /\ handler'[k].chain = handler[k].chain
<1>1. handler \in [Clients -> Handlers] /\ handler[k] \in Handlers
  BY DEF TypeInv
<1>2. NextChain(k) => handler'[k].stage = "next"
  BY <1>1 DEF NextChain, Handlers
<1>3. Return(k) => handler'[k].stage = "read"
  BY <1>1 DEF Return, Reading
<1>4. Goto(k, "record") =>
         /\ handler'[k].stage = "record"
         /\ handler'[k].sub = handler[k].sub
         /\ handler'[k].chain = handler[k].chain
  BY <1>1 DEF Goto, Handlers
<1> QED
  BY <1>2, <1>3, <1>4 DEF AfterError

LEMMA AcceptTakes ==
    ASSUME TypeInv, NEW k \in Clients, Accepted(k)
    PROVE  /\ handler[k].stage = "submit"
           /\ Mined(k).tip = tip[Mined(k).chain]
           /\ accepted' = accepted \cup {Mined(k)}
           /\ tip' = [tip EXCEPT ![Mined(k).chain] = @ + 1]
<1>1. handler[k].stage = "submit"
  BY DEF Accepted, Submitting
<1>2. Mined(k).chain = handler[k].chain
  BY <1>1, MinedType DEF TypeInv, HandlerType
<1> QED
  BY <1>1, <1>2 DEF Accepted, OnTip, Announce

LEMMA StepKinds ==
    ASSUME TypeInv, [Next]_vars
    PROVE  Quiet \/ Ended \/ \E k \in Clients : Taken(k) \/ Handled(k)
<1> USE DEF vars, daemons, pool, history
<1>n. tip \in [Chains -> Nat]
  BY DEF TypeInv
<1>1. ASSUME UNCHANGED <<accepted, blocks, unsaved>>, UNCHANGED handler,
             \A c \in Chains : tip[c] <= tip'[c]
      PROVE  Quiet
  BY <1>1, SameIfKept DEF Quiet
<1>2. ASSUME UNCHANGED <<accepted, blocks, unsaved, tip>>, UNCHANGED handler
      PROVE  Quiet
  BY <1>n, <1>1, <1>2
<1>3. ASSUME NEW c \in Chains, Grow(c)
      PROVE  Quiet
  <2>1. \A d \in Chains : tip[d] <= tip'[d]
    BY <1>3, <1>n DEF Grow, Announce
  <2> QED
    BY <1>1, <1>3, <2>1 DEF Grow
<1>4. CASE \E c \in Chains : LoseNotice(c) \/ ReceiveNotice(c)
  BY <1>2, <1>4 DEF LoseNotice, ReceiveNotice, ListenerStep
<1>5. CASE GetBlockTemplate \/ CreateAuxBlock \/ CreateAuxBlockFails \/ FetchFails
           \/ GenerateWork \/ AssignBlock
  BY <1>2, <1>5 DEF GetBlockTemplate, CreateAuxBlock, CreateAuxBlockFails, FetchFails,
                    GenerateWork, AssignBlock, ListenerStep
<1>6. CASE WriteAux
  <2>1. ASSUME NEW k \in Clients
        PROVE  SameRecord(k)
    <3>1. handler[k] \in Handlers
      BY DEF TypeInv
    <3>2. handler'[k] = [handler[k] EXCEPT !.overlap = (@ \/ handler[k].stage # "read")]
      BY <1>6 DEF WriteAux
    <3>3. /\ handler'[k].stage = handler[k].stage /\ handler'[k].sub = handler[k].sub
          /\ handler'[k].chain = handler[k].chain
      BY <3>1, <3>2 DEF Handlers
    <3> QED
      BY <3>3, SameIfKept
  <2>2. UNCHANGED <<accepted, blocks, unsaved, tip>>
    BY <1>6 DEF WriteAux, ListenerStep
  <2> QED
    BY <1>n, <2>1, <2>2 DEF Quiet
<1>7. ASSUME NEW k \in Clients,
             \/ ReceiveWork(k) \/ Submit(k) \/ SubmitRejected(k) \/ SubmitFails(k)
             \/ InsertBlock(k) \/ InsertFails(k) \/ ReadAux(k) \/ Reply(k)
      PROVE  \A j \in Clients \ {k} : SameRecord(j)
  BY <1>7, OthersStay, SameIfKept
<1>8. ASSUME NEW k \in Clients,
             ReceiveWork(k) \/ ReadAux(k) \/ SubmitRejected(k) \/ Reply(k)
      PROVE  Quiet
  <2>1. UNCHANGED <<accepted, blocks, unsaved, tip>>
    BY <1>8 DEF ReceiveWork, ReadAux, SubmitRejected, Reply
  <2>2. handler[k].stage # "record" /\ handler'[k].stage # "record"
    <3>1. handler \in [Clients -> Handlers] /\ handler[k] \in Handlers
      BY DEF TypeInv
    <3>2. CASE ReceiveWork(k)
      BY <3>1, <3>2 DEF ReceiveWork
    <3>3. CASE ReadAux(k)
      <4>1. handler'[k].stage \in {"submit", "next"}
        BY <3>1, <3>3, StageAfter DEF ReadAux, Handlers
      <4> QED
        BY <3>3, <4>1 DEF ReadAux
    <3>4. CASE SubmitRejected(k) \/ Reply(k)
      BY <3>4, StageAfter DEF SubmitRejected, Submitting, Reply
    <3> QED
      BY <1>8, <3>2, <3>3, <3>4
  <2>3. \A j \in Clients \ {k} : SameRecord(j)
    BY <1>7, <1>8
  <2>4. SameRecord(k)
    BY <2>2 DEF SameRecord
  <2> QED
    BY <1>n, <2>1, <2>3, <2>4 DEF Quiet
<1>9. ASSUME NEW k \in Clients, Submit(k)
      PROVE  Taken(k)
  <2>1. Accepted(k) /\ Goto(k, "record") /\ UNCHANGED <<blocks, unsaved>>
    BY <1>9 DEF Submit
  <2>2. handler'[k].stage = "record" /\ Mined(k)' = Mined(k)
    BY <2>1, StageAfter, MinedStays DEF Accepted, Submitting
  <2>3. \A j \in Clients \ {k} : SameRecord(j)
    BY <1>7, <1>9
  <2> QED
    BY <2>1, <2>2, <2>3, AcceptTakes DEF Taken
<1>10. ASSUME NEW k \in Clients, SubmitFails(k)
       PROVE  Quiet \/ Taken(k)
  <2>1. handler[k].stage = "submit" /\ handler'[k].stage # "record" /\ UNCHANGED blocks
    BY <1>10, StageAfter DEF SubmitFails, Submitting
  <2>2. \A j \in Clients \ {k} : SameRecord(j)
    BY <1>7, <1>10
  <2>3. CASE Accepted(k) /\ unsaved' = unsaved + 1
    BY <2>1, <2>2, <2>3, AcceptTakes DEF Taken
  <2>4. CASE UNCHANGED <<daemons, unsaved>>
    <3>1. SameRecord(k)
      BY <2>1 DEF SameRecord
    <3> QED
      BY <1>n, <2>1, <2>2, <2>4, <3>1 DEF Quiet
  <2> QED
    BY <1>10, <2>3, <2>4 DEF SubmitFails
<1>11. ASSUME NEW k \in Clients, InsertBlock(k) \/ InsertFails(k)
       PROVE  Handled(k)
  <2>1. /\ handler[k].stage = "record" /\ handler'[k].stage # "record"
        /\ UNCHANGED <<accepted, tip>>
    BY <1>11, StageAfter DEF InsertBlock, InsertFails
  <2>2. \/ blocks' = Append(blocks, Row(k)) /\ UNCHANGED unsaved
        \/ UNCHANGED blocks /\ unsaved' = unsaved + 1
    BY <1>11 DEF InsertBlock, InsertFails
  <2>3. \A j \in Clients \ {k} : SameRecord(j)
    BY <1>7, <1>11
  <2> QED
    BY <2>1, <2>2, <2>3 DEF Handled
<1>12. CASE Panics
  <2>1. EndProcess
    BY <1>12, PanicsEnd
  <2>2. \A k \in Clients : handler'[k].stage # "record"
    BY <2>1 DEF EndProcess, Reading
  <2> QED
    BY <2>1, <2>2 DEF EndProcess, Ended, Holds
<1>13. CASE UNCHANGED vars
  BY <1>2, <1>13
<1> QED
  BY <1>3, <1>4, <1>5, <1>6, <1>8, <1>9, <1>10, <1>11, <1>12, <1>13 DEF Next, Panics

-----------------------------------------------------------------------------
(* The ledger.  A block that its chain has taken builds below the tip, so  *)
(* it is not taken again: the handlers that are about to record and the    *)
(* rows stand for different blocks.                                        *)

RecordInv ==
    /\ accepted \subseteq Mineds
    /\ \A b \in accepted : b.tip < tip[b.chain]
    /\ Recorded \subseteq accepted
    /\ \A i, j \in DOMAIN blocks : blocks[i].block = blocks[j].block => i = j
    /\ \A k \in Clients : Holds(k) => Mined(k) \in accepted \ Recorded
    /\ \A k, l \in Clients : Holds(k) /\ Holds(l) /\ Mined(k) = Mined(l) => k = l

LEMMA RecordInit == Init => RecordInv
BY DEF Init, RecordInv, Recorded, Holds, Reading

\* The block of a handler that its chain takes is not one that it had taken.
LEMMA TakenIsNew ==
    ASSUME TypeInv, RecordInv, NEW k \in Clients, Taken(k)
    PROVE  Mined(k) \in Mineds /\ Mined(k) \notin accepted
<1>1. Mined(k) \in Mineds
  BY MinedType DEF TypeInv, HandlerType, Taken
<1>2. Mined(k).chain \in Chains /\ Mined(k).tip \in Nat
  BY <1>1 DEF Mineds
<1> QED
  BY <1>1, <1>2 DEF RecordInv, Taken

LEMMA RecordStep == TypeInv /\ RecordInv /\ [Next]_vars => RecordInv'
<1> SUFFICES ASSUME TypeInv, RecordInv, [Next]_vars
             PROVE  RecordInv'
  OBVIOUS
<1>1. tip \in [Chains -> Nat] /\ tip' \in [Chains -> Nat]
  BY TypeStep DEF TypeInv
<1>2. \A b \in Mineds : b.chain \in Chains /\ b.tip \in Nat
  BY DEF Mineds
<1>3. CASE Quiet
  <2>1. UNCHANGED <<accepted, blocks>> /\ Recorded' = Recorded
    BY <1>3 DEF Quiet, Recorded
  <2>2. \A k \in Clients : Holds(k)' <=> Holds(k)
    BY <1>3 DEF Quiet, SameRecord, Holds
  <2>3. \A k \in Clients : Holds(k) => Mined(k)' = Mined(k)
    BY <1>3 DEF Quiet, SameRecord, Holds
  <2>4. \A b \in accepted : b.tip < tip'[b.chain]
    <3>1. \A c \in Chains : tip[c] <= tip'[c]
      BY <1>3 DEF Quiet
    <3>2. ASSUME NEW b \in accepted
          PROVE  b.tip < tip'[b.chain]
      <4>1. b.chain \in Chains /\ b.tip \in Nat /\ b.tip < tip[b.chain]
        BY <1>2 DEF RecordInv
      <4>2. tip[b.chain] \in Nat /\ tip'[b.chain] \in Nat /\ tip[b.chain] <= tip'[b.chain]
        BY <1>1, <3>1, <4>1
      <4> QED
        BY <4>1, <4>2
    <3> QED
      BY <3>2
  <2> QED
    BY <2>1, <2>2, <2>3, <2>4 DEF RecordInv
<1>4. ASSUME NEW k \in Clients, Taken(k)
      PROVE  RecordInv'
  <2> DEFINE m == Mined(k)
  <2>1. /\ handler[k].stage = "submit" /\ m.tip = tip[m.chain]
        /\ accepted' = accepted \cup {m} /\ UNCHANGED blocks
        /\ tip' = [tip EXCEPT ![m.chain] = @ + 1]
        /\ handler'[k].stage = "record" => Mined(k)' = m
    BY <1>4 DEF Taken
  <2>2. m \in Mineds
    BY <1>4, TakenIsNew
  <2>3. m \notin accepted
    BY <1>4, TakenIsNew
  <2>4. Recorded' = Recorded
    BY <2>1 DEF Recorded
  <2>5. \A b \in accepted' : b.tip < tip'[b.chain]
    <3>1. ASSUME NEW b \in accepted'
          PROVE  b.tip < tip'[b.chain]
      <4>1. b \in Mineds /\ b.chain \in Chains /\ b.tip \in Nat /\ m.chain \in Chains
        BY <1>2, <2>1, <2>2 DEF RecordInv
      <4>2. b.tip <= tip[b.chain] /\ (b.chain # m.chain => b.tip < tip[b.chain])
        <5>1. CASE b = m
          BY <1>1, <2>1, <4>1, <5>1
        <5>2. CASE b \in accepted
          BY <1>1, <4>1, <5>2 DEF RecordInv
        <5> QED
          BY <2>1, <5>1, <5>2
      <4>3. tip'[b.chain] = IF b.chain = m.chain THEN tip[b.chain] + 1 ELSE tip[b.chain]
        BY <1>1, <2>1, <4>1
      <4>4. tip[b.chain] \in Nat
        BY <1>1, <4>1
      <4> HIDE DEF m
      <4> QED
        BY <4>1, <4>2, <4>3, <4>4
    <3> QED
      BY <3>1
  <2>6. \A j \in Clients \ {k} :
           (Holds(j)' <=> Holds(j)) /\ (Holds(j) => Mined(j)' = Mined(j))
    BY <1>4 DEF Taken, SameRecord, Holds
  <2>7. Holds(k)' => Mined(k)' = m
    BY <2>1 DEF Holds
  <2>8. \A j \in Clients \ {k} : Holds(j)' => Mined(j)' \in accepted \ Recorded
    BY <2>6 DEF RecordInv
  <2> HIDE DEF m
  <2>9. \A j \in Clients : Holds(j)' => Mined(j)' \in accepted' \ Recorded'
    BY <2>1, <2>3, <2>4, <2>7, <2>8 DEF RecordInv
  <2>10. \A i, j \in Clients : Holds(i)' /\ Holds(j)' /\ Mined(i)' = Mined(j)' => i = j
    BY <2>3, <2>6, <2>7, <2>8 DEF RecordInv
  <2> QED
    BY <2>1, <2>2, <2>4, <2>5, <2>9, <2>10 DEF RecordInv
<1>5. ASSUME NEW k \in Clients, Handled(k)
      PROVE  RecordInv'
  <2>1. /\ Holds(k) /\ ~Holds(k)' /\ UNCHANGED <<accepted, tip>>
        /\ blocks' = Append(blocks, Row(k)) \/ UNCHANGED blocks
    BY <1>5 DEF Handled, Holds
  <2>2. Mined(k) \in accepted \ Recorded
    BY <2>1 DEF RecordInv
  <2>3. \A j \in Clients \ {k} :
           (Holds(j)' <=> Holds(j)) /\ (Holds(j) => Mined(j)' = Mined(j))
    BY <1>5 DEF Handled, SameRecord, Holds
  <2>4. \A i, j \in Clients : Holds(i)' /\ Holds(j)' /\ Mined(i)' = Mined(j)' => i = j
    BY <2>1, <2>3 DEF RecordInv
  <2>5. Row(k).block = Mined(k) /\ blocks \in Seq(Rows) /\ Row(k) \in Rows
    BY <2>1, RowTypes DEF Row, Holds, TypeInv
  <2>6. Recorded' \subseteq Recorded \cup {Mined(k)}
    <3>1. \A i \in DOMAIN blocks' :
             \/ i \in DOMAIN blocks /\ blocks'[i] = blocks[i]
             \/ blocks'[i] = Row(k)
      BY <2>1, <2>5
    <3> QED
      BY <2>5, <3>1 DEF Recorded
  <2>7. \A j \in Clients : Holds(j)' => Mined(j)' \in accepted' \ Recorded'
    BY <2>1, <2>3, <2>6 DEF RecordInv
  <2>8. \A i, j \in DOMAIN blocks' : blocks'[i].block = blocks'[j].block => i = j
    <3>1. CASE UNCHANGED blocks
      BY <3>1 DEF RecordInv
    <3>2. CASE blocks' = Append(blocks, Row(k))
      <4>1. /\ DOMAIN blocks' = DOMAIN blocks \cup {Len(blocks) + 1}
            /\ blocks'[Len(blocks) + 1] = Row(k)
            /\ \A i \in DOMAIN blocks : blocks'[i] = blocks[i]
        BY <2>5, <3>2
      <4>2. \A i \in DOMAIN blocks : blocks[i].block # Mined(k)
        BY <2>2 DEF Recorded
      <4> QED
        BY <2>5, <4>1, <4>2 DEF RecordInv
    <3> QED
      BY <2>1, <3>1, <3>2
  <2> QED
    BY <2>1, <2>2, <2>4, <2>6, <2>7, <2>8 DEF RecordInv
<1>6. CASE Ended
  <2>1. UNCHANGED <<accepted, blocks, tip>> /\ Recorded' = Recorded
    BY <1>6 DEF Ended, Recorded
  <2>2. \A k \in Clients : ~Holds(k)'
    BY <1>6 DEF Ended, Holds
  <2> QED
    BY <2>1, <2>2 DEF RecordInv
<1> QED
  BY <1>3, <1>4, <1>5, <1>6, StepKinds

\* The number of rows that stand for an accepted block
RowsOf(b) == Cardinality({i \in DOMAIN blocks : blocks[i].block = b})

LEMMA RowsCounted ==
    RecordInv => \A b \in accepted : RowsOf(b) = IF b \in Recorded THEN 1 ELSE 0
<1> SUFFICES ASSUME RecordInv, NEW b \in accepted
             PROVE  RowsOf(b) = IF b \in Recorded THEN 1 ELSE 0
  OBVIOUS
<1>1. CASE b \in Recorded
  <2>1. PICK i \in DOMAIN blocks : blocks[i].block = b
    BY <1>1 DEF Recorded
  <2>2. {j \in DOMAIN blocks : blocks[j].block = b} = {i}
    BY <2>1 DEF RecordInv
  <2> QED
    BY <1>1, <2>2, FS_Singleton DEF RowsOf
<1>2. CASE b \notin Recorded
  <2>1. {j \in DOMAIN blocks : blocks[j].block = b} = {}
    BY <1>2 DEF Recorded
  <2> QED
    BY <1>2, <2>1, FS_EmptySet DEF RowsOf
<1> QED
  BY <1>1, <1>2

LedgerRows == [b \in accepted |-> IF b \in Recorded THEN 1 ELSE 0]

LedgerSeesRows ==
    [b \in accepted \cup Recorded |->
        Cardinality({i \in DOMAIN blocks : blocks[i].block = b})] = LedgerRows

LEMMA LedgerView == RecordInv => LedgerSeesRows
<1> SUFFICES ASSUME RecordInv
             PROVE  [b \in accepted \cup Recorded |-> RowsOf(b)] = LedgerRows
  BY DEF RowsOf, LedgerSeesRows
<1>1. accepted \cup Recorded = accepted
  BY DEF RecordInv
<1> QED
  BY <1>1, RowsCounted DEF LedgerRows

LEMMA LedgerViewNext == RecordInv' => LedgerSeesRows'
BY LedgerView, PTL

LEMMA LedgerInit == Init => Ledger!Init
BY DEF Init, Ledger!Init, Recorded

LEMMA LedgerStep ==
    TypeInv /\ RecordInv /\ RecordInv' /\ [Next]_vars => [Ledger!Next]_(Ledger!vars)
<1> SUFFICES ASSUME TypeInv, RecordInv, RecordInv', [Next]_vars
             PROVE  [Ledger!Next]_(Ledger!vars)
  OBVIOUS
<1>1. [b \in accepted \cup Recorded |->
          Cardinality({i \in DOMAIN blocks : blocks[i].block = b})] = LedgerRows
  BY LedgerView DEF LedgerSeesRows
<1>2. [b \in accepted \cup Recorded |->
          Cardinality({i \in DOMAIN blocks : blocks[i].block = b})]' = LedgerRows'
  BY LedgerViewNext DEF LedgerSeesRows
<1>3. ASSUME UNCHANGED <<accepted, blocks>>
      PROVE  UNCHANGED Ledger!vars
  BY <1>3 DEF Ledger!vars, Recorded
<1>4. CASE Quiet \/ Ended
  BY <1>3, <1>4 DEF Quiet, Ended
<1>5. ASSUME NEW k \in Clients, Taken(k)
      PROVE  \E b \in accepted' : Ledger!Accept(b)
  <2>1. accepted' = accepted \cup {Mined(k)} /\ UNCHANGED blocks /\ Recorded' = Recorded
        /\ Mined(k).tip = tip[Mined(k).chain] /\ handler[k].stage = "submit"
    BY <1>5 DEF Taken, Recorded
  <2>2. Mined(k) \notin accepted
    BY <1>5, TakenIsNew
  <2>3. LedgerRows' = [a \in accepted' |-> IF a = Mined(k) THEN 0 ELSE LedgerRows[a]]
    BY <2>1, <2>2 DEF LedgerRows, RecordInv
  <2> QED
    BY <1>1, <1>2, <2>1, <2>2, <2>3 DEF Ledger!Accept
<1>6. ASSUME NEW k \in Clients, Handled(k), blocks' = Append(blocks, Row(k))
      PROVE  \E b \in accepted : Ledger!Record(b)
  <2>1. UNCHANGED accepted /\ Holds(k)
    BY <1>6 DEF Handled, Holds
  <2>2. Mined(k) \in accepted \ Recorded
    BY <2>1 DEF RecordInv
  <2>3. Row(k).block = Mined(k) /\ blocks \in Seq(Rows) /\ Row(k) \in Rows
    BY <2>1, RowTypes DEF Row, Holds, TypeInv
  <2>4. /\ DOMAIN blocks' = DOMAIN blocks \cup {Len(blocks) + 1}
        /\ blocks'[Len(blocks) + 1] = Row(k)
        /\ \A i \in DOMAIN blocks : blocks'[i] = blocks[i]
    BY <1>6, <2>3
  <2>5. Recorded' = Recorded \cup {Mined(k)}
    BY <2>3, <2>4 DEF Recorded
  <2>6. LedgerRows[Mined(k)] = 0 /\ LedgerRows' = [LedgerRows EXCEPT ![Mined(k)] = 1]
    BY <2>1, <2>2, <2>5 DEF LedgerRows
  <2> QED
    BY <1>1, <1>2, <2>1, <2>2, <2>6 DEF Ledger!Record
<1>7. ASSUME NEW k \in Clients, Handled(k), UNCHANGED blocks
      PROVE  UNCHANGED Ledger!vars
  BY <1>3, <1>7 DEF Handled
<1> QED
  BY <1>4, <1>5, <1>6, <1>7, StepKinds DEF Ledger!Next, Handled

(* Whatever the listener, other clients and the daemons do between the     *)
(* submission and the insert, and whatever fails, a row of the blocks      *)
(* table stands for a block that its chain has accepted, and for one that  *)
(* has no other row (work.go:223-290).                                     *)
THEOREM LedgerImplemented == Spec => ImplementsLedger
BY TypeInit, TypeStep, RecordInit, RecordStep, LedgerInit, LedgerStep, PTL
   DEF Spec, ImplementsLedger, Ledger!Spec

-----------------------------------------------------------------------------
(* Lost blocks.  Each step adds as many to them as it adds to unsaved.     *)

Lost == accepted \ (Recorded \cup InHand)

LostInv ==
    /\ IsFiniteSet(accepted)
    /\ Cardinality(Lost) = unsaved

LEMMA LostInit == Init => LostInv
<1> SUFFICES ASSUME Init
             PROVE  LostInv
  OBVIOUS
<1>1. accepted = {} /\ Lost = {} /\ unsaved = 0
  BY DEF Init, Lost
<1> QED
  BY <1>1, FS_EmptySet DEF LostInv

Holders == {k \in Clients : Holds(k)}

LEMMA InHandIsHeld == InHand = {Mined(k) : k \in Holders}
BY DEF InHand, Holders, Holds

LEMMA InHandIsHeldNext == InHand' = {Mined(k)' : k \in Holders'}
BY DEF InHand, Holders, Holds

\* Different handlers hold different blocks.
LEMMA HeldAreCounted ==
    ASSUME RecordInv
    PROVE  IsFiniteSet(InHand) /\ Cardinality(InHand) = Cardinality(Holders)
<1> DEFINE f == [k \in Holders |-> Mined(k)]
<1>1. IsFiniteSet(Holders)
  BY PoolWorkAssumption, FS_Subset DEF Holders
<1>2. f \in Surjection(Holders, InHand)
  BY InHandIsHeld DEF Surjection
<1>3. f \in Injection(Holders, InHand)
  BY InHandIsHeld DEF Injection, IsInjective, RecordInv, Holders
<1> HIDE DEF f
<1> QED
  BY <1>1, <1>2, <1>3, FS_Surjection

\* A step keeps the lost blocks, or loses one more.
LEMMA LostKept ==
    ASSUME LostInv, IsFiniteSet(accepted'), Lost' = Lost, UNCHANGED unsaved
    PROVE  LostInv'
BY DEF LostInv

LEMMA LostOne ==
    ASSUME LostInv, IsFiniteSet(accepted'), NEW m, m \notin Lost,
           Lost' = Lost \cup {m}, unsaved' = unsaved + 1
    PROVE  LostInv'
<1>1. IsFiniteSet(Lost)
  BY FS_Subset DEF LostInv, Lost
<1>2. Cardinality(Lost \cup {m}) = Cardinality(Lost) + 1
  BY <1>1, FS_AddElement
<1> QED
  BY <1>2 DEF LostInv

LEMMA LostStep == TypeInv /\ RecordInv /\ LostInv /\ [Next]_vars => LostInv'
<1> SUFFICES ASSUME TypeInv, RecordInv, LostInv, [Next]_vars
             PROVE  LostInv'
  OBVIOUS
<1>1. IsFiniteSet(Lost) /\ IsFiniteSet(accepted)
  BY FS_Subset DEF LostInv, Lost
<1>2. InHand \subseteq accepted \ Recorded
  BY InHandIsHeld DEF RecordInv, Holders
<1>3. CASE Quiet
  <2>1. InHand' = InHand
    BY <1>3, InHandIsHeld, InHandIsHeldNext DEF Quiet, SameRecord, Holders, Holds
  <2>2. Lost' = Lost /\ UNCHANGED <<accepted, unsaved>>
    BY <1>3, <2>1 DEF Quiet, Lost, Recorded
  <2> QED
    BY <1>1, <2>2, LostKept
<1>4. ASSUME NEW k \in Clients, Taken(k)
      PROVE  LostInv'
  <2>1. accepted' = accepted \cup {Mined(k)} /\ ~Holds(k) /\ Recorded' = Recorded
    BY <1>4 DEF Taken, Recorded, Holds
  <2>2. Mined(k) \notin accepted
    BY <1>4, TakenIsNew
  <2>3. \A j \in Clients \ {k} :
           (Holds(j)' <=> Holds(j)) /\ (Holds(j) => Mined(j)' = Mined(j))
    BY <1>4 DEF Taken, SameRecord, Holds
  <2>4. IsFiniteSet(accepted')
    BY <1>1, <2>1, FS_AddElement
  <2>5. CASE Holds(k)' /\ Mined(k)' = Mined(k) /\ UNCHANGED unsaved
    <3>1. InHand' = InHand \cup {Mined(k)}
      <4>1. Holders' = Holders \cup {k}
        BY <2>1, <2>3, <2>5 DEF Holders
      <4> QED
        BY <2>1, <2>3, <2>5, <4>1, InHandIsHeld, InHandIsHeldNext DEF Holders
    <3>2. Lost' = Lost
      BY <2>1, <2>2, <3>1 DEF Lost
    <3> QED
      BY <2>4, <2>5, <3>2, LostKept
  <2>6. CASE ~Holds(k)' /\ unsaved' = unsaved + 1
    <3>1. InHand' = InHand
      <4>1. Holders' = Holders
        BY <2>1, <2>3, <2>6 DEF Holders
      <4> QED
        BY <2>1, <2>3, <2>6, <4>1, InHandIsHeld, InHandIsHeldNext DEF Holders
    <3>2. Lost' = Lost \cup {Mined(k)} /\ Mined(k) \notin Lost
      BY <1>2, <2>1, <2>2, <3>1 DEF Lost, RecordInv
    <3> QED
      BY <2>4, <2>6, <3>2, LostOne
  <2> QED
    BY <1>4, <2>5, <2>6 DEF Taken, Holds
<1>5. ASSUME NEW k \in Clients, Handled(k)
      PROVE  LostInv'
  <2>1. UNCHANGED accepted /\ Holds(k) /\ ~Holds(k)'
    BY <1>5 DEF Handled, Holds
  <2>2. \A j \in Clients \ {k} :
           (Holds(j)' <=> Holds(j)) /\ (Holds(j) => Mined(j)' = Mined(j))
    BY <1>5 DEF Handled, SameRecord, Holds
  <2>3. Mined(k) \in InHand
    BY <2>1, InHandIsHeld DEF Holders
  <2>4. InHand' = InHand \ {Mined(k)}
    <3>1. Holders' = Holders \ {k}
      BY <2>1, <2>2 DEF Holders
    <3>2. \A j \in Holders \ {k} : Mined(j)' = Mined(j) /\ Mined(j) # Mined(k)
      BY <2>1, <2>2 DEF Holders, RecordInv
    <3> QED
      BY <3>1, <3>2, InHandIsHeld, InHandIsHeldNext
  <2>5. CASE blocks' = Append(blocks, Row(k)) /\ UNCHANGED unsaved
    <3>1. Row(k).block = Mined(k) /\ blocks \in Seq(Rows) /\ Row(k) \in Rows
      BY <2>1, RowTypes DEF Row, Holds, TypeInv
    <3>2. /\ DOMAIN blocks' = DOMAIN blocks \cup {Len(blocks) + 1}
          /\ blocks'[Len(blocks) + 1] = Row(k)
          /\ \A i \in DOMAIN blocks : blocks'[i] = blocks[i]
      BY <2>5, <3>1
    <3>3. Recorded' = Recorded \cup {Mined(k)}
      BY <3>1, <3>2 DEF Recorded
    <3>4. Lost' = Lost
      BY <2>1, <2>3, <2>4, <3>3 DEF Lost
    <3> QED
      BY <1>1, <2>1, <2>5, <3>4, LostKept
  <2>6. CASE UNCHANGED blocks /\ unsaved' = unsaved + 1
    <3>1. Recorded' = Recorded
      BY <2>6 DEF Recorded
    <3>2. Lost' = Lost \cup {Mined(k)} /\ Mined(k) \notin Lost
      BY <1>2, <2>1, <2>3, <2>4, <3>1 DEF Lost
    <3> QED
      BY <1>1, <2>1, <2>6, <3>2, LostOne
  <2> QED
    BY <1>5, <2>5, <2>6 DEF Handled
<1>6. CASE Ended
  <2>1. UNCHANGED accepted /\ Recorded' = Recorded
        /\ unsaved' = unsaved + Cardinality(Holders)
    BY <1>6 DEF Ended, Recorded, Holders
  <2>2. InHand' = {}
    <3>1. Holders' = {}
      BY <1>6 DEF Ended, Holders, Holds
    <3> QED
      BY <3>1, InHandIsHeldNext
  <2>3. Lost' = Lost \cup InHand /\ Lost \cap InHand = {}
    BY <1>2, <2>1, <2>2 DEF Lost
  <2>4. Cardinality(Lost \cup InHand) = Cardinality(Lost) + Cardinality(InHand)
    <3>1. /\ IsFiniteSet(InHand) /\ Cardinality({}) = 0
          /\ Cardinality(Lost) \in Nat /\ Cardinality(InHand) \in Nat
      BY <1>1, HeldAreCounted, FS_EmptySet, FS_CardinalityType
    <3>2. Cardinality(Lost \cup InHand)
             = Cardinality(Lost) + Cardinality(InHand) - Cardinality(Lost \cap InHand)
      BY <1>1, <3>1, FS_Union
    <3> QED
      BY <2>3, <3>1, <3>2
  <2> QED
    BY <1>1, <2>1, <2>3, <2>4, HeldAreCounted DEF LostInv
<1> QED
  BY <1>3, <1>4, <1>5, <1>6, StepKinds

(* The accepted blocks that are not recorded and that no handler is about  *)
(* to record are as many as the lost replies, the failed inserts and the   *)
(* records that a panic prevented, whoever panicked: no other order of     *)
(* events loses one (work.go:228, 247, 264, 281).                          *)
THEOREM BlocksAreRecorded == Spec => []AcceptedIsRecorded
<1>1. LostInv => AcceptedIsRecorded
  BY DEF LostInv, Lost, AcceptedIsRecorded
<1> QED
  BY <1>1, TypeInit, TypeStep, RecordInit, RecordStep, LostInit, LostStep, PTL DEF Spec

=============================================================================
