------------------------- MODULE ShareWindowProofs -------------------------
(***************************************************************************)
(* Proofs about ShareWindow, for any finite number of miners and any       *)
(* scores, window, page size, times and bounds.                            *)
(***************************************************************************)
EXTENDS ShareWindow, SumTheorems

-----------------------------------------------------------------------------
(* Times.  A finite set of shares that is not empty has a newest and an    *)
(* oldest time.                                                            *)

LEMMA Bounds ==
    /\ MaxShares \in Nat /\ MaxFaults \in Nat /\ IsFiniteSet(Miners)
    /\ NWindow \in Nat /\ NWindow > 0 /\ PageSize \in Nat /\ PageSize > 0
    /\ Times \subseteq Nat /\ \A t \in Times : t > 0
    /\ Scores \subseteq Nat
BY ShareWindowAssumption

LEMMA ShareType ==
    ASSUME NEW s \in Share
    PROVE  /\ s.id \in Nat /\ s.miner \in Miners /\ s.score \in Nat
           /\ s.created \in Times /\ s.created \in Nat /\ s.created > 0
<1>1. s.id \in 1 .. MaxShares /\ s.miner \in Miners /\ s.score \in Scores /\ s.created \in Times
  BY DEF Share
<1>2. s.id \in Nat
  BY <1>1, Bounds
<1> QED
  BY <1>1, <1>2, Bounds

LEMMA Extremes ==
    ASSUME NEW S \in SUBSET Share, IsFiniteSet(S), S # {}
    PROVE  /\ \E t \in {s.created : s \in S} : \A s \in S : s.created <= t
           /\ \E t \in {s.created : s \in S} : \A s \in S : s.created >= t
<1> DEFINE Newest(A, t) == t \in A /\ \A s \in A : s.created <= t.created
           Oldest(A, t) == t \in A /\ \A s \in A : s.created >= t.created
           Holds(A) == (\E t \in A : Newest(A, t)) /\ (\E t \in A : Oldest(A, t))
           Bad == {A \in SUBSET S : A # {} /\ ~Holds(A)}
<1>1. Bad = {}
  <2> SUFFICES ASSUME Bad # {}
               PROVE  FALSE
    OBVIOUS
  <2>1. PICK A \in Bad : \A B \in Bad : B \subseteq A => B = A
    <3>1. Bad \in SUBSET SUBSET S
      OBVIOUS
    <3> HIDE DEF Bad
    <3> QED
      BY <3>1, Smallest
  <2>2. A \in SUBSET S /\ A # {} /\ ~Holds(A)
    OBVIOUS
  <2>3. PICK x \in A : TRUE
    BY <2>2
  <2>4. A \ {x} \in SUBSET S /\ A \ {x} # A /\ A \ {x} \subseteq A
    BY <2>2, <2>3
  <2>5. A \ {x} \notin Bad
    BY <2>1, <2>4
  <2>6. A \ {x} = {} \/ Holds(A \ {x})
    BY <2>4, <2>5
  <2>7. \A s \in A : s.created \in Nat
    BY <2>2, ShareType
  <2>8. CASE A \ {x} = {}
    <3>1. A = {x}
      BY <2>3, <2>8
    <3> QED
      BY <2>2, <2>7, <3>1
  <2>9. CASE Holds(A \ {x})
    <3>1. PICK n, o \in A \ {x} : Newest(A \ {x}, n) /\ Oldest(A \ {x}, o)
      BY <2>9
    <3>2. Newest(A, IF x.created <= n.created THEN n ELSE x)
      BY <2>3, <2>7, <3>1
    <3>3. Oldest(A, IF x.created >= o.created THEN o ELSE x)
      BY <2>3, <2>7, <3>1
    <3> QED
      BY <2>2, <2>3, <3>1, <3>2, <3>3
  <2> QED
    BY <2>6, <2>8, <2>9
<1>2. Holds(S)
  BY <1>1
<1> QED
  BY <1>2

LEMMA NewestIsNewest ==
    ASSUME NEW S \in SUBSET Share, IsFiniteSet(S), S # {}
    PROVE  /\ NewestIn(S) \in Times
           /\ \E s \in S : s.created = NewestIn(S)
           /\ \A s \in S : s.created <= NewestIn(S)
<1>1. \E t \in {s.created : s \in S} : \A s \in S : s.created <= t
  BY Extremes
<1>2. NewestIn(S) \in {s.created : s \in S} /\ \A s \in S : s.created <= NewestIn(S)
  BY <1>1 DEF NewestIn
<1> QED
  BY <1>2, ShareType

LEMMA LastIsOldest ==
    ASSUME NEW S \in SUBSET Share, IsFiniteSet(S), S # {}
    PROVE  /\ LastOf(S) \in Times
           /\ \E s \in S : s.created = LastOf(S)
           /\ \A s \in S : s.created >= LastOf(S)
<1>1. \E t \in {s.created : s \in S} : \A s \in S : s.created >= t
  BY Extremes
<1>2. LastOf(S) \in {s.created : s \in S} /\ \A s \in S : s.created >= LastOf(S)
  BY <1>1 DEF LastOf
<1> QED
  BY <1>2, ShareType

-----------------------------------------------------------------------------
(* Credits.                                                                *)

LEMMA CreditedType ==
    ASSUME NEW s \in Share
    PROVE  Credited(s) \in Nat /\ (Credited(s) = s.score \/ Credited(s) = NWindow)
BY Bounds, ShareType DEF Credited, accumulatedScore

LEMMA ByType ==
    ASSUME NEW S \in SUBSET Share, IsFiniteSet(S), NEW m
    PROVE  By(m, S) \in SUBSET Share /\ IsFiniteSet(By(m, S)) /\ By(m, S) \subseteq S
<1>1. By(m, S) \subseteq S
  BY DEF By
<1> QED
  BY <1>1, FS_Subset

CreditTo(m, S) == SumFunctionOnSet([s \in By(m, S) |-> Credited(s)], By(m, S))

LEMMA WithType ==
    ASSUME parts \in [Miners -> Nat], NEW S \in SUBSET Share, IsFiniteSet(S)
    PROVE  /\ With(S) \in [Miners -> Nat]
           /\ \A m \in Miners : With(S)[m] = parts[m] + CreditTo(m, S)
           /\ \A m \in Miners : CreditTo(m, S) \in Nat
<1>1. With(S) = [m \in Miners |-> parts[m] + CreditTo(m, S)]
  BY DEF With, CreditTo, By
<1>2. ASSUME NEW m \in Miners
      PROVE  CreditTo(m, S) \in Nat
  <2>1. By(m, S) \in SUBSET Share /\ IsFiniteSet(By(m, S))
    BY ByType
  <2> DEFINE f == [s \in By(m, S) |-> Credited(s)]
  <2>2. \A s \in By(m, S) : f[s] \in Nat
    BY <2>1, CreditedType
  <2> HIDE DEF f
  <2>3. SumFunctionOnSet(f, By(m, S)) \in Nat
    BY <2>1, <2>2, SumNat
  <2> QED
    BY <2>3 DEF f, CreditTo
<1>3. \A m \in Miners : parts[m] + CreditTo(m, S) \in Nat
  BY <1>2
<1> QED
  BY <1>1, <1>2, <1>3

\* An element of a sum is no more than the sum.
LEMMA SumHolds ==
    ASSUME NEW S, IsFiniteSet(S), NEW f, \A x \in S : f[x] \in Nat, NEW x \in S
    PROVE  SumFunctionOnSet(f, S) >= f[x] /\ SumFunctionOnSet(f, S) \in Nat
<1>1. SumFunctionOnSet(f, S) = f[x] + SumFunctionOnSet(f, S \ {x})
  BY SumRemove
<1>2. IsFiniteSet(S \ {x})
  BY FS_RemoveElement
<1>3. SumFunctionOnSet(f, S \ {x}) \in Nat
  BY <1>2, SumNat
<1> QED
  BY <1>1, <1>3, SumNat

\* When something of the reward remains no share was cut off at the window.
LEMMA NothingCut ==
    ASSUME parts \in [Miners -> Nat], NEW S \in SUBSET Share, IsFiniteSet(S),
           ~Exhausts(S), NEW s \in S
    PROVE  Credited(s) = s.score
<1> SUFFICES ASSUME Credited(s) # s.score
             PROVE  FALSE
  OBVIOUS
<1>1. s \in Share /\ s.miner \in Miners /\ s.score \in Nat
  BY ShareType
<1>2. scheme = "PPLNS" /\ Credited(s) = NWindow
  BY <1>1, CreditedType DEF Credited
<1> DEFINE m == s.miner
           f == [x \in By(m, S) |-> Credited(x)]
<1>3. CreditTo(m, S) >= NWindow
  <2>1. By(m, S) \in SUBSET Share /\ IsFiniteSet(By(m, S)) /\ s \in By(m, S)
    BY ByType DEF By
  <2>2. \A x \in By(m, S) : f[x] \in Nat
    BY <2>1, CreditedType
  <2>3. f[s] = NWindow
    BY <1>2, <2>1
  <2> HIDE DEF f
  <2>4. SumFunctionOnSet(f, By(m, S)) >= NWindow
    BY <2>1, <2>2, <2>3, SumHolds
  <2> QED
    BY <2>4 DEF f, CreditTo
<1> HIDE DEF f
<1>4. With(S) \in [Miners -> Nat] /\ With(S)[m] = parts[m] + CreditTo(m, S)
      /\ CreditTo(m, S) \in Nat /\ parts[m] \in Nat
  BY <1>1, WithType
<1>5. With(S)[m] >= NWindow
  BY <1>3, <1>4, Bounds
<1>6. Total(With(S)) >= With(S)[m] /\ Total(With(S)) \in Nat /\ With(S)[m] \in Nat
  BY <1>1, <1>4, SumHolds, Bounds DEF Total
<1>7. Total(With(S)) >= NWindow
  BY <1>5, <1>6, Bounds
<1> QED
  BY <1>2, <1>7 DEF Exhausts

LEMMA SumByUnion ==
    ASSUME NEW S \in SUBSET Share, IsFiniteSet(S), NEW T \in SUBSET Share, IsFiniteSet(T),
           S \cap T = {}, NEW m
    PROVE  Sum(By(m, S \cup T)) = Sum(By(m, S)) + Sum(By(m, T))
<1> DEFINE A == By(m, S)
           B == By(m, T)
           f == [s \in A \cup B |-> s.score]
<1>1. /\ A \in SUBSET Share /\ B \in SUBSET Share
      /\ IsFiniteSet(A) /\ IsFiniteSet(B) /\ A \cap B = {}
  BY ByType
<1>2. By(m, S \cup T) = A \cup B
  BY DEF By
<1>3. \A s \in A \cup B : s.score \in Nat
  BY <1>1, ShareType
<1> HIDE DEF A, B
<1>4. SumFunctionOnSet(f, A \cup B) = SumFunctionOnSet(f, A) + SumFunctionOnSet(f, B)
  <2>1. \A s \in A \cup B : f[s] \in Int
    BY <1>3
  <2> HIDE DEF f
  <2> QED
    BY <1>1, <2>1, SumDisjoint
<1>5. SumFunctionOnSet(f, A) = Sum(A)
  <2> DEFINE g == [s \in A |-> s.score]
  <2>1. \A s \in A : g[s] \in Int /\ f[s] = g[s]
    BY <1>3
  <2> HIDE DEF f, g
  <2>2. SumFunctionOnSet(f, A) = SumFunctionOnSet(g, A)
    BY <1>1, <2>1, SumSame
  <2> QED
    BY <2>2 DEF g, Sum
<1>6. SumFunctionOnSet(f, B) = Sum(B)
  <2> DEFINE g == [s \in B |-> s.score]
  <2>1. \A s \in B : g[s] \in Int /\ f[s] = g[s]
    BY <1>3
  <2> HIDE DEF f, g
  <2>2. SumFunctionOnSet(f, B) = SumFunctionOnSet(g, B)
    BY <1>1, <2>1, SumSame
  <2> QED
    BY <2>2 DEF g, Sum
<1>7. Sum(A \cup B) = SumFunctionOnSet(f, A \cup B)
  BY DEF f, Sum
<1> QED
  BY <1>2, <1>4, <1>5, <1>6, <1>7 DEF A, B

LEMMA CreditIsSum ==
    ASSUME parts \in [Miners -> Nat], NEW S \in SUBSET Share, IsFiniteSet(S),
           ~Exhausts(S), NEW m \in Miners
    PROVE  CreditTo(m, S) = Sum(By(m, S))
<1> DEFINE A == By(m, S)
           f == [s \in A |-> Credited(s)]
           g == [s \in A |-> s.score]
<1>1. A \in SUBSET Share /\ IsFiniteSet(A) /\ A \subseteq S
  BY ByType
<1>2. \A s \in A : g[s] \in Int /\ f[s] = g[s]
  BY <1>1, NothingCut, ShareType
<1> HIDE DEF A, f, g
<1>3. SumFunctionOnSet(f, A) = SumFunctionOnSet(g, A)
  BY <1>1, <1>2, SumSame
<1> QED
  BY <1>3 DEF A, f, g, CreditTo, Sum

LEMMA SumOfNone == \A m : Sum(By(m, {})) = 0
<1>1. \A m : By(m, {}) = {}
  BY DEF By
<1> QED
  BY <1>1, SumEmpty DEF Sum

-----------------------------------------------------------------------------
(* Types.                                                                  *)

Finite ==
    /\ IsFiniteSet(shares) /\ IsFiniteSet(seen)
    /\ \A b \in Blocks : IsFiniteSet(counted[b])

TypeInv == TypeOK /\ Finite

\* What a query may return
LEMMA PageFacts ==
    ASSUME TypeInv, NEW P \in Pages
    PROVE  /\ P \subseteq Matching /\ P \subseteq shares /\ P \in SUBSET Share
           /\ IsFiniteSet(P) /\ Cardinality(P) \in Nat /\ Cardinality(P) <= PageSize
           /\ \A p \in P, s \in Matching \ P : s.created <= p.created
           /\ Cardinality(P) < PageSize => P = Matching
           /\ ~(Cardinality(P) < PageSize) => P # {}
<1>1. /\ P \in NewestOf(Matching)
      /\ \/ Cardinality(P) = PageSize
         \/ P = Matching /\ Cardinality(P) < PageSize
  BY DEF Pages
<1>2. P \subseteq Matching /\ Matching \subseteq shares
  BY <1>1 DEF NewestOf, Matching
<1>3. P \in SUBSET Share /\ IsFiniteSet(P)
  BY <1>2, FS_Subset DEF TypeInv, TypeOK, Finite
<1>4. Cardinality(P) \in Nat
  BY <1>3, FS_CardinalityType
<1>5. \A p \in P, s \in Matching \ P : s.created <= p.created
  BY <1>1 DEF NewestOf
<1>6. PageSize > 0 /\ PageSize \in Nat
  BY Bounds
<1>7. P = {} => Cardinality(P) = 0
  BY FS_EmptySet
<1> QED
  BY <1>1, <1>2, <1>3, <1>4, <1>5, <1>6, <1>7

LEMMA TypeInit == Init => TypeInv
<1> SUFFICES ASSUME Init
             PROVE  TypeInv
  OBVIOUS
<1>1. TypeOK
  BY Bounds DEF Init, TypeOK, NoParts, NoTime
<1>2. Finite
  BY FS_EmptySet DEF Init, Finite
<1> QED
  BY <1>1, <1>2 DEF TypeInv

LEMMA CutoffType ==
    ASSUME TypeInv, NEW P \in Pages
    PROVE  CutoffAfter(P) \in Times \cup {NoTime}
           /\ (~(Cardinality(P) < PageSize) => LastOf(P) \in Times)
<1>1. P \in SUBSET Share /\ IsFiniteSet(P) /\ (~(Cardinality(P) < PageSize) => P # {})
  BY PageFacts
<1>2. P # {} => NewestIn(P) \in Times /\ LastOf(P) \in Times
  BY <1>1, NewestIsNewest, LastIsOldest
<1> QED
  BY <1>1, <1>2 DEF CutoffAfter, TypeInv, TypeOK

LEMMA TypeStep == TypeInv /\ [Next]_vars => TypeInv'
<1> SUFFICES ASSUME TypeInv, [Next]_vars
             PROVE  TypeInv'
  OBVIOUS
<1> USE DEF vars, locals, cursor, ledger
<1>0. TypeOK /\ Finite
  BY DEF TypeInv
<1>1. CASE InsertShare
  <2>1. PICK m \in Miners, w \in Scores, t \in Times :
           shares' = shares \cup {[id |-> inserted + 1, miner |-> m, score |-> w, created |-> t]}
    BY <1>1 DEF InsertShare
  <2>2. inserted < MaxShares /\ inserted' = inserted + 1 /\ inserted \in 0 .. MaxShares
    BY <1>0, <1>1 DEF InsertShare, TypeOK
  <2>3. inserted + 1 \in 1 .. MaxShares /\ inserted' \in 0 .. MaxShares
    BY <2>2, Bounds
  <2>4. [id |-> inserted + 1, miner |-> m, score |-> w, created |-> t] \in Share
    BY <2>3 DEF Share
  <2>5. IsFiniteSet(shares')
    BY <1>0, <2>1, FS_AddElement DEF Finite
  <2> QED
    BY <1>0, <1>1, <2>1, <2>3, <2>4, <2>5 DEF InsertShare, TypeInv, TypeOK, Finite
<1>2. ASSUME NEW b \in Blocks, FindBlock(b)
      PROVE  TypeInv'
  BY <1>0, <1>2 DEF FindBlock, TypeInv, TypeOK, Finite
<1>3. ASSUME NEW b \in Blocks, StartReward(b)
      PROVE  TypeInv'
  <2>1. created[b] \in Times
    BY <1>0, <1>3 DEF StartReward, TypeOK
  <2>2. window' \in [Blocks -> SUBSET Share]
    BY <1>0, <1>3 DEF StartReward, TypeOK
  <2>3. parts' \in [Miners -> Nat] /\ IsFiniteSet(seen') /\ seen' = {}
    BY <1>3, FS_EmptySet DEF StartReward, NoParts
  <2>4. before' \in Times /\ inclusive' \in BOOLEAN /\ stage' = "page" /\ block' \in Blocks
        /\ before' # NoTime
    BY <1>3, <2>1, Bounds DEF StartReward, NoTime
  <2> QED
    BY <1>0, <1>3, <2>2, <2>3, <2>4 DEF StartReward, TypeInv, TypeOK, Finite
<1>4. CASE ReadPage
  <2>1. PICK P \in Pages :
           /\ ~Exhausts(P) /\ inclusive' = FALSE /\ parts' = With(P)
           /\ cutoffTime' = CutoffAfter(P) /\ seen' = seen \cup P /\ NextPage(P)
    BY <1>4 DEF ReadPage
  <2>2. P \in SUBSET Share /\ IsFiniteSet(P)
    BY PageFacts
  <2>3. parts' \in [Miners -> Nat]
    BY <1>0, <2>1, <2>2, WithType DEF TypeOK
  <2>4. cutoffTime' \in Times \cup {NoTime}
    BY <2>1, CutoffType
  <2>5. IsFiniteSet(seen') /\ seen' \subseteq Share
    BY <1>0, <2>1, <2>2, FS_Union DEF TypeOK, Finite
  <2>6. /\ before' \in Times \cup {NoTime} /\ (stage' = "page" => before' # NoTime)
        /\ stage' \in {"page", "award"}
    <3>1. CASE Cardinality(P) < PageSize
      BY <1>0, <2>1, <3>1 DEF NextPage, TypeOK
    <3>2. CASE ~(Cardinality(P) < PageSize)
      <4>1. before' = LastOf(P) /\ UNCHANGED stage /\ LastOf(P) \in Times
        BY <2>1, <3>2, CutoffType DEF NextPage
      <4> QED
        BY <1>4, <4>1, Bounds DEF ReadPage, NoTime
    <3> QED
      BY <3>1, <3>2
  <2> QED
    BY <1>0, <1>4, <2>1, <2>3, <2>4, <2>5, <2>6 DEF ReadPage, TypeInv, TypeOK, Finite
<1>5. CASE PPLNSOverflow
  <2>p. PICK P \in Pages : \E S \in NewestOf(P) : parts' = With(S) /\ seen' = seen \cup S
    BY <1>5 DEF PPLNSOverflow
  <2>1. PICK S \in NewestOf(P) : parts' = With(S) /\ seen' = seen \cup S
    BY <2>p
  <2>2. S \in SUBSET Share /\ IsFiniteSet(S)
    BY PageFacts, FS_Subset DEF NewestOf
  <2>3. parts' \in [Miners -> Nat]
    BY <1>0, <2>1, <2>2, WithType DEF TypeOK
  <2>4. IsFiniteSet(seen') /\ seen' \subseteq Share
    BY <1>0, <2>1, <2>2, FS_Union DEF TypeOK, Finite
  <2> QED
    BY <1>0, <1>5, <2>3, <2>4 DEF PPLNSOverflow, Decide, TypeInv, TypeOK, Finite
<1>6. CASE PROPOverflow
  BY <1>0, <1>6 DEF PROPOverflow, Decide, TypeInv, TypeOK, Finite
<1>7. CASE Award
  BY <1>0, <1>7 DEF Award, TypeInv, TypeOK, Finite
<1>8. CASE DeleteSharesBefore
  <2>1. /\ shares' \subseteq shares /\ deletions' \subseteq deletions \cup shares
        /\ UNCHANGED <<scheme, locals, ledger, inserted, faults>> /\ stage' = "sleep"
    BY <1>8 DEF DeleteSharesBefore, SharesFrom
  <2>2. IsFiniteSet(shares')
    BY <1>0, <2>1, FS_Subset DEF Finite
  <2> QED
    BY <1>0, <2>1, <2>2 DEF TypeInv, TypeOK, Finite
<1>9. ASSUME Fault
      PROVE  faults' \in 0 .. MaxFaults
  BY <1>0, <1>9, Bounds DEF Fault, TypeOK
<1>10. CASE PageFails
  BY <1>0, <1>9, <1>10 DEF PageFails, Decide, Fault, TypeInv, TypeOK, Finite
<1>11. CASE AwardFails
  <2>1. PICK M \in SUBSET Miners :
           /\ awards' = [awards EXCEPT ![block] = [m \in Miners |-> IF m \in M THEN parts[m] ELSE 0]]
           /\ counted' = [counted EXCEPT ![block] = {s \in seen : s.miner \in M}]
    BY <1>11 DEF AwardFails
  <2>2. [m \in Miners |-> IF m \in M THEN parts[m] ELSE 0] \in [Miners -> Nat]
    BY <1>0 DEF TypeOK
  <2>3. awards' \in [Blocks -> [Miners -> Nat]]
    BY <1>0, <2>1, <2>2 DEF TypeOK
  <2>4. {s \in seen : s.miner \in M} \subseteq seen
    OBVIOUS
  <2>5. IsFiniteSet({s \in seen : s.miner \in M})
    BY <1>0, <2>4, FS_Subset DEF Finite
  <2>6. counted' \in [Blocks -> SUBSET Share] /\ \A b \in Blocks : IsFiniteSet(counted'[b])
    BY <1>0, <2>1, <2>4, <2>5 DEF TypeOK, Finite
  <2> QED
    BY <1>0, <1>9, <1>11, <2>3, <2>6 DEF AwardFails, Fault, TypeInv, TypeOK, Finite
<1>12. CASE DeleteFails
  BY <1>0, <1>9, <1>12 DEF DeleteFails, Fault, TypeInv, TypeOK, Finite
<1>13. CASE UNCHANGED vars
  BY <1>0, <1>13 DEF TypeInv, TypeOK, Finite
<1> QED
  BY <1>1, <1>2, <1>3, <1>4, <1>5, <1>6, <1>7, <1>8, <1>10, <1>11, <1>12, <1>13
     DEF Next, Reward, Environment

(* The pages, the window and the sums are sets of shares and amounts, for  *)
(* any number of pages, and every query has a time to ask for              *)
(* (prop.go:24-56, share.go:62-95).                                        *)
THEOREM TypeCorrect == Spec => []TypeOK
<1>1. TypeInv => TypeOK
  BY DEF TypeInv
<1> QED
  BY <1>1, TypeInit, TypeStep, PTL DEF Spec

-----------------------------------------------------------------------------
(* Reading.  While the shares of a block are read: what has been seen is   *)
(* there, none of it is newer than the block, and it is exactly what the   *)
(* parts are for; and what has not been seen of the window is still ahead  *)
(* of the cursor, or the end of a page cut it off from others of its time. *)

Ahead(s) == s.created < before \/ (inclusive /\ s.created = before)

CutoffIs(S) ==
    IF scheme = "PROP" /\ S # {} THEN cutoffTime = NewestIn(S) ELSE cutoffTime = NoTime

SeenInv ==
    stage \in {"page", "award"} =>
        /\ outcome[block] = "pending" /\ created[block] # NoTime
        /\ seen \subseteq shares /\ window[block] \subseteq shares
        /\ \A s \in seen : s.created <= created[block]
        /\ \A m \in Miners : parts[m] = Sum(By(m, seen))
        /\ CutoffIs(seen)

CursorInv ==
    stage = "page" =>
        /\ before <= created[block]
        /\ inclusive => seen = {}
        /\ ~inclusive => \A s \in seen : before <= s.created
        /\ \A s \in window[block] \ seen : Ahead(s) \/ TiesWithOne(s, seen)

AllReadInv ==
    stage = "award" => \A s \in window[block] \ seen : TiesWithOne(s, seen)

PaidInv ==
    \A b \in Blocks : outcome[b] = "paid" =>
        /\ created[b] # NoTime
        /\ \A m \in Miners : awards[b][m] = Sum(By(m, counted[b]))
        /\ \A s \in counted[b] : s.created <= created[b]
        /\ \A s \in window[b] \ counted[b] : TiesWithOne(s, counted[b])

DeletingInv ==
    stage = "delete" =>
        outcome[block] = "paid" /\ seen = counted[block] /\ CutoffIs(seen)

ReadInv == SeenInv /\ CursorInv /\ AllReadInv /\ PaidInv /\ DeletingInv

LEMMA NewestIsUnique ==
    ASSUME NEW S \in SUBSET Share, IsFiniteSet(S), NEW s \in S,
           \A x \in S : x.created <= s.created
    PROVE  NewestIn(S) = s.created
<1>1. /\ \E x \in S : x.created = NewestIn(S)
      /\ \A x \in S : x.created <= NewestIn(S)
  BY NewestIsNewest
<1>2. \A x \in S : x.created \in Nat
  BY ShareType
<1> QED
  BY <1>1, <1>2

\* The cutoff follows the newest share of what has been seen.
LEMMA CutoffFollows ==
    ASSUME TypeInv, NEW P \in Pages, CutoffIs(seen), UNCHANGED scheme,
           cutoffTime' = CutoffAfter(P), seen' = seen \cup P
    PROVE  CutoffIs(seen)'
<1>1. P \in SUBSET Share /\ IsFiniteSet(P)
  BY PageFacts
<1>2. seen \in SUBSET Share /\ IsFiniteSet(seen)
  BY DEF TypeInv, TypeOK, Finite
<1>3. seen' \in SUBSET Share /\ IsFiniteSet(seen')
  BY <1>1, <1>2, FS_Union
<1>4. CASE scheme # "PROP" \/ P = {}
  BY <1>4 DEF CutoffIs, CutoffAfter
<1>5. CASE scheme = "PROP" /\ P # {}
  <2>1. PICK p \in P : p.created = NewestIn(P) /\ \A x \in P : x.created <= p.created
    BY <1>1, <1>5, NewestIsNewest
  <2>2. p.created \in Nat /\ p.created > 0 /\ \A x \in seen : x.created \in Nat
    BY <1>1, <1>2, ShareType
  <2>3. CASE seen = {}
    <3>1. seen' = P /\ cutoffTime = NoTime
      BY <2>3 DEF CutoffIs
    <3>2. cutoffTime' = NewestIn(P)
      BY <1>5, <2>1, <2>2, <3>1 DEF CutoffAfter, NoTime
    <3> QED
      BY <1>5, <3>1, <3>2 DEF CutoffIs
  <2>4. CASE seen # {}
    <3>1. PICK q \in seen : q.created = NewestIn(seen) /\ \A x \in seen : x.created <= q.created
      BY <1>2, <2>4, NewestIsNewest
    <3>2. cutoffTime = q.created
      BY <1>5, <2>4, <3>1 DEF CutoffIs
    <3>3. CASE q.created < p.created
      <4>1. \A x \in seen' : x.created <= p.created
        BY <2>1, <2>2, <3>1, <3>3
      <4>2. NewestIn(seen') = p.created
        BY <1>3, <4>1, NewestIsUnique
      <4>3. cutoffTime' = p.created
        BY <1>5, <2>1, <3>2, <3>3 DEF CutoffAfter
      <4> QED
        BY <2>4, <1>5, <4>2, <4>3 DEF CutoffIs
    <3>4. CASE ~(q.created < p.created)
      <4>0. \A x \in P : x.created \in Nat
        BY <1>1, ShareType
      <4>1. \A x \in seen' : x.created <= q.created
        BY <2>1, <2>2, <3>1, <3>4, <4>0
      <4>2. NewestIn(seen') = q.created
        BY <1>3, <4>1, NewestIsUnique
      <4>3. cutoffTime' = q.created
        BY <1>5, <2>1, <3>2, <3>4 DEF CutoffAfter
      <4> QED
        BY <2>4, <1>5, <4>2, <4>3 DEF CutoffIs
    <3> QED
      BY <3>3, <3>4
  <2> QED
    BY <2>3, <2>4
<1> QED
  BY <1>4, <1>5

LEMMA ReadInit == Init => ReadInv
BY DEF Init, ReadInv, SeenInv, CursorInv, AllReadInv, PaidInv, DeletingInv

\* One page more
LEMMA PageStep ==
    ASSUME TypeInv, ReadInv, ReadPage
    PROVE  SeenInv' /\ CursorInv' /\ AllReadInv'
<1>1. PICK P \in Pages :
         /\ ~Exhausts(P) /\ inclusive' = FALSE /\ parts' = With(P)
         /\ cutoffTime' = CutoffAfter(P) /\ seen' = seen \cup P /\ NextPage(P)
  BY DEF ReadPage
<1>2. stage = "page" /\ UNCHANGED <<scheme, shares, block, created, outcome, window>>
  BY DEF ReadPage, ledger
<1>3. SeenInv /\ CursorInv
  BY DEF ReadInv
<1>4. /\ P \subseteq Matching /\ P \subseteq shares /\ P \in SUBSET Share
      /\ IsFiniteSet(P) /\ Cardinality(P) \in Nat /\ Cardinality(P) <= PageSize
      /\ \A p \in P, s \in Matching \ P : s.created <= p.created
      /\ Cardinality(P) < PageSize => P = Matching
      /\ ~(Cardinality(P) < PageSize) => P # {}
  BY PageFacts
<1>5. /\ seen \in SUBSET Share /\ IsFiniteSet(seen) /\ parts \in [Miners -> Nat]
      /\ shares \subseteq Share /\ before \in Nat /\ created[block] \in Nat
      /\ inclusive \in BOOLEAN
  <2>1. Times \cup {NoTime} \subseteq Nat
    BY Bounds DEF NoTime
  <2>2. before \in Times \cup {NoTime} /\ created[block] \in Times \cup {NoTime}
    BY DEF TypeInv, TypeOK
  <2>3. before \in Nat /\ created[block] \in Nat
    BY <2>1, <2>2
  <2> QED
    BY <2>3 DEF TypeInv, TypeOK, Finite
<1>6. Matching = {s \in shares : Ahead(s)}
  BY DEF Matching, Ahead
<1>7. \A s \in shares : s.created \in Nat
  BY <1>5, ShareType
<1>8. seen \subseteq shares /\ window[block] \subseteq shares
  BY <1>2, <1>3 DEF SeenInv
<1>9. before <= created[block]
  BY <1>2, <1>3 DEF CursorInv
<1>10. \A p \in P : p.created <= before
  BY <1>4, <1>5, <1>6, <1>7 DEF Ahead
<1>11. P \cap seen = {}
  <2>1. CASE inclusive
    BY <1>2, <1>3, <2>1 DEF CursorInv
  <2>2. CASE ~inclusive
    <3>1. \A s \in seen : before <= s.created
      BY <1>2, <1>3, <2>2 DEF CursorInv
    <3>2. \A p \in P : p.created < before
      BY <1>4, <1>6, <2>2 DEF Ahead
    <3> QED
      BY <1>5, <1>7, <1>8, <3>1, <3>2
  <2> QED
    BY <2>1, <2>2
<1>12. SeenInv'
  <2>1. outcome'[block'] = "pending" /\ created'[block'] # NoTime
    BY <1>2, <1>3 DEF SeenInv
  <2>2. seen' \subseteq shares' /\ window'[block'] \subseteq shares'
    BY <1>1, <1>2, <1>4, <1>8
  <2>3. \A s \in seen' : s.created <= created'[block']
    <3>1. \A s \in seen : s.created <= created[block]
      BY <1>2, <1>3 DEF SeenInv
    <3>2. \A s \in P : s.created <= created[block]
      BY <1>4, <1>5, <1>7, <1>9, <1>10
    <3> QED
      BY <1>1, <1>2, <3>1, <3>2
  <2>4. \A m \in Miners : parts'[m] = Sum(By(m, seen'))
    <3>1. ASSUME NEW m \in Miners
          PROVE  parts'[m] = Sum(By(m, seen'))
      <4>1. parts'[m] = parts[m] + CreditTo(m, P)
        BY <1>1, <1>4, <1>5, WithType
      <4>2. CreditTo(m, P) = Sum(By(m, P))
        BY <1>1, <1>4, <1>5, CreditIsSum
      <4>3. parts[m] = Sum(By(m, seen))
        BY <1>2, <1>3 DEF SeenInv
      <4>4. Sum(By(m, seen \cup P)) = Sum(By(m, seen)) + Sum(By(m, P))
        BY <1>4, <1>5, <1>11, SumByUnion
      <4> QED
        BY <1>1, <4>1, <4>2, <4>3, <4>4
    <3> QED
      BY <3>1
  <2>5. CutoffIs(seen)'
    BY <1>1, <1>2, <1>3, CutoffFollows DEF SeenInv
  <2>6. \A m \in Miners : (parts[m] = Sum(By(m, seen)))'
    BY <2>4 DEF Sum, By
  <2> QED
    BY <2>1, <2>2, <2>3, <2>5, <2>6 DEF SeenInv
<1>13. \A s \in window[block] \ seen : Ahead(s) \/ TiesWithOne(s, seen)
  BY <1>2, <1>3 DEF CursorInv
<1>14. \A s : TiesWithOne(s, seen) => TiesWithOne(s, seen')
  BY <1>1 DEF TiesWithOne
<1>15. CASE Cardinality(P) < PageSize
  <2>1. P = Matching /\ stage' = "award"
    BY <1>1, <1>4, <1>15 DEF NextPage
  <2>2. \A s \in window[block] \ seen' : TiesWithOne(s, seen')
    BY <1>1, <1>6, <1>8, <1>13, <1>14, <2>1
  <2>3. AllReadInv'
    BY <1>2, <2>2 DEF AllReadInv, TiesWithOne
  <2> QED
    BY <1>12, <2>1, <2>3 DEF CursorInv
<1>16. CASE ~(Cardinality(P) < PageSize)
  <2>1. before' = LastOf(P) /\ stage' = "page" /\ P # {} /\ ~inclusive'
    BY <1>1, <1>2, <1>4, <1>16 DEF NextPage
  <2>2. PICK p \in P : p.created = before' /\ \A s \in P : s.created >= before'
    BY <1>4, <2>1, LastIsOldest
  <2>3. before' \in Nat /\ before' <= before
    BY <1>4, <1>7, <1>10, <2>2
  <2>4. before' <= created'[block']
    BY <1>2, <1>5, <1>9, <2>3
  <2>5. \A s \in seen' : before' <= s.created
    <3>1. ASSUME NEW s \in seen
          PROVE  before' <= s.created
      <4>1. before <= s.created
        BY <1>2, <1>3, <1>5 DEF CursorInv
      <4> QED
        BY <1>5, <1>7, <1>8, <2>3, <4>1
    <3> QED
      BY <1>1, <1>4, <1>7, <2>2, <2>3, <3>1
  <2>6. \A s \in window[block] \ seen' : s.created < before' \/ TiesWithOne(s, seen')
    <3>1. ASSUME NEW s \in window[block] \ seen', ~TiesWithOne(s, seen')
          PROVE  s.created < before'
      <4>1. s \in shares /\ s \notin P /\ s \in window[block] \ seen /\ ~TiesWithOne(s, seen)
        BY <1>1, <1>8, <1>14, <3>1
      <4>2. s \in Matching \ P
        BY <1>6, <1>13, <4>1
      <4>3. s.created <= p.created
        BY <1>4, <4>2
      <4>4. s.created # p.created
        BY <1>1, <3>1, <4>1 DEF TiesWithOne
      <4> QED
        BY <1>7, <2>2, <2>3, <4>1, <4>3, <4>4
    <3> QED
      BY <3>1
  <2>7. CursorInv'
    BY <1>2, <2>1, <2>4, <2>5, <2>6 DEF CursorInv, Ahead, TiesWithOne
  <2> QED
    BY <1>12, <2>1, <2>7 DEF AllReadInv
<1> QED
  BY <1>15, <1>16

PaidAt(b) ==
    outcome[b] = "paid" =>
        /\ created[b] # NoTime
        /\ \A m \in Miners : awards[b][m] = Sum(By(m, counted[b]))
        /\ \A s \in counted[b] : s.created <= created[b]
        /\ \A s \in window[b] \ counted[b] : TiesWithOne(s, counted[b])

LEMMA PaidKept ==
    ASSUME NEW b, PaidAt(b),
           outcome'[b] = "paid" =>
              /\ outcome[b] = "paid" /\ awards'[b] = awards[b] /\ counted'[b] = counted[b]
              /\ window'[b] = window[b]
              /\ created[b] # NoTime => created'[b] = created[b]
    PROVE  PaidAt(b)'
BY DEF PaidAt, Sum, By, TiesWithOne

\* When a block is shared out what has been read becomes what it is paid for.
LEMMA AwardPays ==
    ASSUME TypeInv, ReadInv, Award
    PROVE  PaidAt(block)' /\ DeletingInv'
<1>1. /\ stage = "award" /\ stage' = "delete" /\ UNCHANGED <<block, created, window, seen>>
      /\ outcome' = [outcome EXCEPT ![block] = "paid"]
      /\ awards' = [awards EXCEPT ![block] = parts]
      /\ counted' = [counted EXCEPT ![block] = seen]
      /\ UNCHANGED <<scheme, cutoffTime>>
  BY DEF Award, locals
<1>2. outcome'[block] = "paid" /\ awards'[block] = parts /\ counted'[block] = seen
  BY <1>1 DEF TypeInv, TypeOK
<1>3. /\ created[block] # NoTime
      /\ \A m \in Miners : parts[m] = Sum(By(m, seen))
      /\ \A s \in seen : s.created <= created[block]
      /\ \A s \in window[block] \ seen : TiesWithOne(s, seen)
      /\ CutoffIs(seen)
  BY <1>1 DEF ReadInv, SeenInv, AllReadInv
<1>4. PaidAt(block)'
  BY <1>1, <1>2, <1>3 DEF PaidAt, Sum, By, TiesWithOne
<1>5. DeletingInv'
  BY <1>1, <1>2, <1>3 DEF DeletingInv, CutoffIs
<1> QED
  BY <1>4, <1>5

LEMMA ReadStep == TypeInv /\ ReadInv /\ [Next]_vars => ReadInv'
<1> SUFFICES ASSUME TypeInv, ReadInv, [Next]_vars
             PROVE  ReadInv'
  OBVIOUS
<1> USE DEF vars, locals, cursor, ledger
<1>0. /\ SeenInv /\ CursorInv /\ AllReadInv /\ DeletingInv
      /\ \A b \in Blocks : PaidAt(b)
      /\ outcome \in [Blocks -> {"pending", "paid", "refused", "failed"}]
      /\ created \in [Blocks -> Times \cup {NoTime}] /\ block \in Blocks
      /\ window \in [Blocks -> SUBSET Share] /\ awards \in [Blocks -> [Miners -> Nat]]
      /\ counted \in [Blocks -> SUBSET Share]
      /\ shares \subseteq Share /\ IsFiniteSet(shares)
  BY DEF ReadInv, PaidInv, PaidAt, TypeInv, TypeOK, Finite
<1>1. ASSUME \A b \in Blocks : PaidAt(b)'
      PROVE  PaidInv'
  BY <1>1 DEF PaidAt, PaidInv
<1>2. ASSUME UNCHANGED <<outcome, awards, counted, window>>,
             \A b \in Blocks : created[b] # NoTime => created'[b] = created[b]
      PROVE  PaidInv'
  <2>1. \A b \in Blocks : PaidAt(b)'
    BY <1>0, <1>2, PaidKept
  <2> QED
    BY <1>1, <2>1
<1>3. ASSUME stage' = "sleep"
      PROVE  SeenInv' /\ CursorInv' /\ AllReadInv' /\ DeletingInv'
  BY <1>3 DEF SeenInv, CursorInv, AllReadInv, DeletingInv
<1>4. ASSUME UNCHANGED <<scheme, stage, locals, ledger>>, shares \subseteq shares'
      PROVE  ReadInv'
  <2>1. PaidInv'
    BY <1>2, <1>4
  <2>2. SeenInv'
    BY <1>0, <1>4 DEF SeenInv, CutoffIs, Sum, By
  <2>3. CursorInv' /\ AllReadInv' /\ DeletingInv'
    BY <1>0, <1>4 DEF CursorInv, AllReadInv, DeletingInv, CutoffIs, Ahead, TiesWithOne
  <2> QED
    BY <2>1, <2>2, <2>3 DEF ReadInv
<1>5. CASE InsertShare
  <2>1. shares \subseteq shares' /\ UNCHANGED <<scheme, stage, locals, ledger>>
    BY <1>5 DEF InsertShare
  <2> QED
    BY <1>4, <2>1
<1>6. ASSUME NEW b \in Blocks, FindBlock(b)
      PROVE  ReadInv'
  <2>1. \A c \in Blocks : created[c] # NoTime => created'[c] = created[c]
    BY <1>0, <1>6 DEF FindBlock
  <2>2. UNCHANGED <<scheme, shares, stage, locals, outcome, awards, counted, window>>
    BY <1>6 DEF FindBlock
  <2>3. PaidInv'
    BY <1>2, <2>1, <2>2
  <2>4. stage \in {"page", "award"} => created'[block] = created[block]
    BY <1>0, <2>1 DEF SeenInv
  <2>5. SeenInv'
    BY <1>0, <2>2, <2>4 DEF SeenInv, CutoffIs, Sum, By
  <2>6. CursorInv' /\ AllReadInv' /\ DeletingInv'
    BY <1>0, <2>2, <2>4 DEF CursorInv, AllReadInv, DeletingInv, CutoffIs, Ahead, TiesWithOne
  <2> QED
    BY <2>3, <2>5, <2>6 DEF ReadInv
<1>7. ASSUME NEW b \in Blocks, StartReward(b)
      PROVE  ReadInv'
  <2>1. /\ created[b] # NoTime /\ outcome[b] = "pending"
        /\ stage' = "page" /\ block' = b /\ before' = created[b] /\ inclusive' = TRUE
        /\ parts' = NoParts /\ cutoffTime' = NoTime /\ seen' = {}
        /\ window' = [window EXCEPT ![b] = {s \in shares : s.created <= created[b]}]
        /\ UNCHANGED <<scheme, shares, created, outcome, awards, counted>>
    BY <1>7 DEF StartReward
  <2>2. window'[b] = {s \in shares : s.created <= created[b]}
        /\ \A c \in Blocks : c # b => window'[c] = window[c]
    BY <1>0, <2>1
  <2>3. PaidInv'
    <3>1. \A c \in Blocks : PaidAt(c)'
      BY <1>0, <2>1, <2>2, PaidKept
    <3> QED
      BY <1>1, <3>1
  <2>4. created[b] \in Nat /\ \A s \in shares : s.created \in Nat
    <3>1. Times \cup {NoTime} \subseteq Nat
      BY Bounds DEF NoTime
    <3>2. created[b] \in Times \cup {NoTime}
      BY <1>0
    <3> QED
      BY <1>0, <3>1, <3>2, ShareType
  <2>5. SeenInv'
    <3>1. \A m \in Miners : parts'[m] = Sum(By(m, seen'))
      BY <2>1, SumOfNone DEF NoParts
    <3>2. \A m \in Miners : (parts[m] = Sum(By(m, seen)))'
      BY <3>1 DEF Sum, By
    <3>3. CutoffIs(seen)'
      BY <2>1 DEF CutoffIs
    <3> QED
      BY <2>1, <2>2, <3>2, <3>3 DEF SeenInv
  <2>6. CursorInv'
    BY <2>1, <2>2, <2>4 DEF CursorInv, Ahead
  <2>7. AllReadInv' /\ DeletingInv'
    BY <2>1 DEF AllReadInv, DeletingInv
  <2> QED
    BY <2>3, <2>5, <2>6, <2>7 DEF ReadInv
<1>8. CASE ReadPage
  <2>1. SeenInv' /\ CursorInv' /\ AllReadInv'
    BY <1>8, PageStep
  <2>2. PaidInv'
    BY <1>2, <1>8 DEF ReadPage
  <2>3. stage' # "delete"
    BY <1>8 DEF ReadPage, NextPage
  <2> QED
    BY <2>1, <2>2, <2>3 DEF ReadInv, DeletingInv
\* The outcome of a block that is not paid
<1>9. ASSUME NEW how, how # "paid", outcome' = [outcome EXCEPT ![block] = how],
             UNCHANGED <<created, window>>, stage' = "sleep",
             \A b \in Blocks : b # block =>
                awards'[b] = awards[b] /\ counted'[b] = counted[b]
      PROVE  ReadInv'
  <2>1. \A b \in Blocks : outcome'[b] = "paid" => b # block /\ outcome[b] = "paid"
    BY <1>0, <1>9
  <2>2. \A b \in Blocks : PaidAt(b)'
    BY <1>0, <1>9, <2>1, PaidKept
  <2> QED
    BY <1>1, <1>3, <1>9, <2>2 DEF ReadInv
<1>10. CASE PPLNSOverflow \/ PROPOverflow \/ PageFails
  <2>1. \/ Decide(block, "refused") /\ stage' = "sleep"
        \/ Decide(block, "failed") /\ stage' = "sleep"
    BY <1>10 DEF PPLNSOverflow, PROPOverflow, PageFails, Fault
  <2> QED
    BY <1>9, <2>1 DEF Decide
<1>11. CASE Award
  <2>1. PaidAt(block)' /\ DeletingInv'
    BY <1>11, AwardPays
  <2>2. \A b \in Blocks : b # block =>
           /\ outcome'[b] = outcome[b] /\ awards'[b] = awards[b]
           /\ counted'[b] = counted[b] /\ window'[b] = window[b] /\ created'[b] = created[b]
    BY <1>0, <1>11 DEF Award
  <2>3. \A b \in Blocks : b # block => PaidAt(b)'
    BY <1>0, <2>2, PaidKept
  <2>4. PaidInv'
    <3>1. block' = block
      BY <1>11 DEF Award
    <3>2. \A b \in Blocks : PaidAt(b)'
      BY <2>1, <2>3, <3>1 DEF PaidAt, Sum, By, TiesWithOne
    <3> QED
      BY <1>1, <3>2
  <2>5. SeenInv' /\ CursorInv' /\ AllReadInv'
    BY <1>11 DEF Award, SeenInv, CursorInv, AllReadInv
  <2> QED
    BY <2>1, <2>4, <2>5 DEF ReadInv
<1>12. CASE DeleteSharesBefore \/ DeleteFails
  <2>1. UNCHANGED ledger /\ stage' = "sleep"
    BY <1>12 DEF DeleteSharesBefore, DeleteFails, Fault
  <2> QED
    BY <1>2, <1>3, <2>1 DEF ReadInv
<1>13. CASE AwardFails
  <2>1. /\ outcome' = [outcome EXCEPT ![block] = "failed"]
        /\ UNCHANGED <<created, window>> /\ stage' = "sleep"
    BY <1>13 DEF AwardFails, Fault
  <2>2. \A b \in Blocks : b # block =>
           awards'[b] = awards[b] /\ counted'[b] = counted[b]
    BY <1>0, <1>13 DEF AwardFails
  <2> QED
    BY <1>9, <2>1, <2>2
<1>14. CASE UNCHANGED vars
  BY <1>4, <1>14
<1> QED
  BY <1>5, <1>6, <1>7, <1>8, <1>10, <1>11, <1>12, <1>13, <1>14
     DEF Next, Reward, Environment

-----------------------------------------------------------------------------
(* The reward.  PPLNS checks that some of the reward remains before it     *)
(* goes on to the next share, so the parts it awards leave something.      *)

Rewarding == stage \in {"page", "award", "delete"}
RewardInv ==
    scheme = "PPLNS" =>
        /\ Rewarding => Total(parts) < NWindow
        /\ \A b \in Blocks : Total(awards[b]) < NWindow

LEMMA NothingTotal == Total(NoParts) < NWindow
<1>1. Total(NoParts) = 0
  BY Bounds, SumZero DEF Total, NoParts
<1> QED
  BY <1>1, Bounds

\* Awarding some of the miners awards no more than awarding all of them.
LEMMA SomeOfTotal ==
    ASSUME parts \in [Miners -> Nat], NEW M, NEW p,
           p = [m \in Miners |-> IF m \in M THEN parts[m] ELSE 0]
    PROVE  Total(p) <= Total(parts) /\ Total(p) \in Nat /\ Total(parts) \in Nat
<1>1. \A m \in Miners : p[m] \in Nat /\ parts[m] \in Nat /\ p[m] <= parts[m]
  OBVIOUS
<1>2. \A m \in Miners : p[m] \in Int /\ parts[m] \in Int /\ p[m] <= parts[m]
  BY <1>1
<1> HIDE DEF Total
<1>3. SumFunctionOnSet(p, Miners) <= SumFunctionOnSet(parts, Miners)
  BY <1>2, Bounds, SumLeq
<1>4. SumFunctionOnSet(p, Miners) \in Nat /\ SumFunctionOnSet(parts, Miners) \in Nat
  BY <1>1, Bounds, SumNat
<1> QED
  BY <1>3, <1>4 DEF Total

LEMMA RewardStep == TypeInv /\ RewardInv /\ [Next]_vars => RewardInv'
<1> SUFFICES ASSUME TypeInv, RewardInv, [Next]_vars, scheme' = "PPLNS"
             PROVE  /\ Rewarding' => Total(parts') < NWindow
                    /\ \A b \in Blocks : Total(awards'[b]) < NWindow
  BY DEF RewardInv, Total
<1>0. scheme = "PPLNS"
  BY DEF Next, Reward, Environment, InsertShare, FindBlock, StartReward, ReadPage,
         PPLNSOverflow, PROPOverflow, Award, DeleteSharesBefore, PageFails, AwardFails,
         DeleteFails, Fault, vars
<1>1. /\ Rewarding => Total(parts) < NWindow
      /\ \A b \in Blocks : Total(awards[b]) < NWindow
  BY <1>0 DEF RewardInv
<1>2. /\ awards \in [Blocks -> [Miners -> Nat]] /\ parts \in [Miners -> Nat]
      /\ block \in Blocks
  BY DEF TypeInv, TypeOK
<1>3. CASE Environment \/ UNCHANGED vars
  <2>1. UNCHANGED <<stage, parts, awards>>
    BY <1>3 DEF Environment, InsertShare, FindBlock, vars, locals, ledger
  <2> QED
    BY <1>1, <2>1 DEF Rewarding
<1>4. ASSUME NEW b \in Blocks, StartReward(b)
      PROVE  /\ Rewarding' => Total(parts') < NWindow
             /\ \A c \in Blocks : Total(awards'[c]) < NWindow
  BY <1>1, <1>4, NothingTotal DEF StartReward
<1>5. CASE ReadPage
  <2>1. stage = "page" /\ UNCHANGED awards
    BY <1>5 DEF ReadPage, ledger
  <2>2. PICK P \in Pages : ~Exhausts(P) /\ parts' = With(P)
    BY <1>5 DEF ReadPage
  <2>3. Total(With(P)) < NWindow
    <3>1. IsFiniteSet(P) /\ P \in SUBSET Share
      BY PageFacts
    <3>2. Total(With(P)) \in Nat
      BY <1>2, <3>1, WithType, Bounds, SumNat DEF Total
    <3>3. ~(Total(With(P)) >= NWindow)
      BY <1>0, <2>2 DEF Exhausts
    <3> QED
      BY <3>2, <3>3, Bounds
  <2> QED
    BY <1>1, <2>1, <2>2, <2>3
<1>6. CASE PPLNSOverflow \/ PROPOverflow \/ PageFails \/ DeleteFails \/ DeleteSharesBefore
  <2>1. stage' = "sleep" /\ UNCHANGED awards
    BY <1>6 DEF PPLNSOverflow, PROPOverflow, PageFails, DeleteFails, DeleteSharesBefore,
                Fault, Decide, ledger
  <2> QED
    BY <1>1, <2>1 DEF Rewarding
<1>7. CASE Award
  <2>1. stage = "award" /\ parts' = parts /\ awards' = [awards EXCEPT ![block] = parts]
    BY <1>7 DEF Award, locals
  <2> QED
    BY <1>1, <1>2, <2>1 DEF Rewarding
<1>8. CASE AwardFails
  <2>1. stage = "award" /\ stage' = "sleep"
    BY <1>8 DEF AwardFails, Fault
  <2>2. PICK M \in SUBSET {m \in Miners : parts[m] > 0} :
           awards' = [awards EXCEPT ![block] =
                         [m \in Miners |-> IF m \in M THEN parts[m] ELSE 0]]
    BY <1>8 DEF AwardFails
  <2> DEFINE p == [m \in Miners |-> IF m \in M THEN parts[m] ELSE 0]
  <2>3. Total(p) <= Total(parts) /\ Total(p) \in Nat /\ Total(parts) \in Nat
    BY <1>2, SomeOfTotal
  <2>4. Total(p) < NWindow
    BY <1>1, <2>1, <2>3, Bounds DEF Rewarding
  <2>5. awards' = [awards EXCEPT ![block] = p]
    BY <2>2
  <2> HIDE DEF p
  <2> QED
    BY <1>1, <1>2, <2>1, <2>4, <2>5 DEF Rewarding
<1> QED
  BY <1>3, <1>4, <1>5, <1>6, <1>7, <1>8 DEF Next, Reward

\* The awards of a PPLNS block stay below its whole reward (pplns.go:59-60,
\* "we awarded more than we have"), for any shares, pages and failures.
THEOREM PPLNSLeavesSome == Spec => []RewardNotExhausted
<1>1. Init => RewardInv
  BY NothingTotal DEF Init, RewardInv, Rewarding
<1>2. RewardInv => RewardNotExhausted
  BY DEF RewardInv, RewardNotExhausted
<1> QED
  BY <1>1, <1>2, TypeInit, TypeStep, RewardStep, PTL DEF Spec

(* Whatever the page size and whatever shares come in between the pages:   *)
(* a block that was shared out pays every miner for the shares its pages   *)
(* have shown, none twice and none newer than the block; what they have    *)
(* not shown of the shares that were there was cut off by the end of a     *)
(* page from others of the same time (prop.go:24-56, pplns.go:32-71); and  *)
(* PPLNS leaves some of the reward.                                        *)
THEOREM AwardsCorrect == Spec => []AwardsFollowWork
<1>1. ReadInv /\ RewardNotExhausted => AwardsFollowWork
  BY DEF ReadInv, PaidInv, AwardsFollowWork
<1> QED
  BY <1>1, PPLNSLeavesSome, TypeInit, TypeStep, ReadInit, ReadStep, PTL DEF Spec

-----------------------------------------------------------------------------
(* Deletions.  What a block was paid for stays as it is.                   *)

LEMMA PaidStays ==
    ASSUME TypeInv, ReadInv, [Next]_vars, NEW b \in Blocks, outcome[b] = "paid"
    PROVE  /\ outcome'[b] = "paid" /\ created'[b] = created[b]
           /\ window'[b] = window[b] /\ counted'[b] = counted[b]
<1> USE DEF vars, locals, cursor, ledger
<1>0. /\ outcome \in [Blocks -> {"pending", "paid", "refused", "failed"}]
      /\ created \in [Blocks -> Times \cup {NoTime}] /\ block \in Blocks
      /\ window \in [Blocks -> SUBSET Share] /\ counted \in [Blocks -> SUBSET Share]
      /\ created[b] # NoTime
      /\ stage \in {"page", "award"} => b # block
  BY DEF TypeInv, TypeOK, ReadInv, PaidInv, SeenInv
<1>1. CASE InsertShare \/ ReadPage \/ DeleteSharesBefore \/ DeleteFails
  BY <1>1 DEF InsertShare, ReadPage, DeleteSharesBefore, DeleteFails
<1>2. CASE \E c \in Blocks : FindBlock(c)
  BY <1>0, <1>2 DEF FindBlock
<1>3. CASE \E c \in Blocks : StartReward(c)
  BY <1>0, <1>3 DEF StartReward
<1>4. CASE PPLNSOverflow \/ PROPOverflow \/ PageFails
  <2>1. stage \in {"page", "award"} /\ \E how : Decide(block, how)
    BY <1>4 DEF PPLNSOverflow, PROPOverflow, PageFails
  <2> QED
    BY <1>0, <2>1 DEF Decide
<1>5. CASE Award
  BY <1>0, <1>5 DEF Award
<1>6. CASE AwardFails
  <2>1. /\ stage = "award" /\ UNCHANGED <<created, window>>
        /\ outcome' = [outcome EXCEPT ![block] = "failed"]
        /\ \E S : counted' = [counted EXCEPT ![block] = S]
    BY <1>6 DEF AwardFails
  <2> QED
    BY <1>0, <2>1
<1>7. CASE UNCHANGED vars
  BY <1>7
<1> QED
  BY <1>1, <1>2, <1>3, <1>4, <1>5, <1>6, <1>7 DEF Next, Reward, Environment

DeletedFor(s, b) ==
    /\ outcome[b] = "paid" /\ s.created <= created[b]
    /\ s \in window[b] => s \in counted[b] \/ TiesWithOne(s, counted[b])

\* What a deletion takes is older than what the block was paid for.
LEMMA DeletedIsOld ==
    ASSUME TypeInv, ReadInv, DeleteSharesBefore, NEW s \in shares \ SharesFrom(cutoffTime)
    PROVE  DeletedFor(s, block)
<1>1. /\ stage = "delete" /\ s \in shares /\ ~(s.created >= cutoffTime)
  BY DEF DeleteSharesBefore, SharesFrom
<1>2. outcome[block] = "paid" /\ seen = counted[block] /\ CutoffIs(seen) /\ block \in Blocks
  BY <1>1 DEF ReadInv, DeletingInv, TypeInv, TypeOK
<1>3. s.created \in Nat /\ s.created > 0
  BY <1>1, ShareType DEF TypeInv, TypeOK
<1>4. seen \in SUBSET Share /\ IsFiniteSet(seen)
  BY DEF TypeInv, TypeOK, Finite
<1>5. scheme = "PROP" /\ seen # {} /\ cutoffTime = NewestIn(seen)
  BY <1>1, <1>2, <1>3 DEF CutoffIs, NoTime
<1>6. PICK t \in seen : t.created = cutoffTime
  BY <1>4, <1>5, NewestIsNewest
<1>7. /\ \A x \in counted[block] : x.created <= created[block]
      /\ \A x \in window[block] \ counted[block] : TiesWithOne(x, counted[block])
  BY <1>2 DEF ReadInv, PaidInv
<1>8. t.created \in Nat /\ t.created <= created[block]
  BY <1>2, <1>4, <1>6, <1>7, ShareType
<1>9. created[block] \in Nat
  <2>1. created[block] \in Times \cup {NoTime}
    BY <1>2 DEF TypeInv, TypeOK
  <2>2. Times \cup {NoTime} \subseteq Nat
    BY Bounds DEF NoTime
  <2> QED
    BY <2>1, <2>2
<1>10. s.created <= created[block]
  BY <1>1, <1>3, <1>6, <1>8, <1>9
<1> QED
  BY <1>2, <1>7, <1>10 DEF DeletedFor

LEMMA DeletedStep ==
    TypeInv /\ ReadInv /\ DeletedWasCounted /\ [Next]_vars => DeletedWasCounted'
<1> SUFFICES ASSUME TypeInv, ReadInv, DeletedWasCounted, [Next]_vars
             PROVE  DeletedWasCounted'
  OBVIOUS
<1>1. \A s \in deletions : \E b \in Blocks : DeletedFor(s, b)
  BY DEF DeletedWasCounted, DeletedFor
<1>2. ASSUME NEW s, NEW b \in Blocks, DeletedFor(s, b)
      PROVE  DeletedFor(s, b)'
  BY <1>2, PaidStays DEF DeletedFor, TiesWithOne
<1>3. ASSUME NEW s \in deletions'
      PROVE  \E b \in Blocks : DeletedFor(s, b)
  <2>1. CASE s \in deletions
    BY <1>1, <2>1
  <2>2. CASE s \notin deletions
    <3>1. DeleteSharesBefore
      BY <2>2, <1>3
         DEF Next, Reward, Environment, vars, InsertShare, FindBlock, StartReward, ReadPage,
             PPLNSOverflow, PROPOverflow, Award, PageFails, AwardFails, DeleteFails, Fault
    <3>2. s \in shares \ SharesFrom(cutoffTime)
      BY <1>3, <2>2, <3>1 DEF DeleteSharesBefore
    <3>3. block \in Blocks
      BY DEF TypeInv, TypeOK
    <3> QED
      BY <3>1, <3>2, <3>3, DeletedIsOld
  <2> QED
    BY <2>1, <2>2
<1>4. \A s \in deletions' : \E b \in Blocks : DeletedFor(s, b)'
  BY <1>2, <1>3
<1> QED
  BY <1>4 DEF DeletedWasCounted, DeletedFor, TiesWithOne

(* The deletion that follows a block takes no share that some block was    *)
(* not shared out over, except those that came in while that block was     *)
(* rewarded and those that the end of a page had cut off                   *)
(* (manager.go:29-46, share.go:160-170).                                   *)
THEOREM DeletionsFollowAwards == Spec => []DeletedWasCounted
<1>1. Init => DeletedWasCounted
  BY DEF Init, DeletedWasCounted
<1> QED
  BY <1>1, TypeInit, TypeStep, ReadInit, ReadStep, DeletedStep, PTL DEF Spec

-----------------------------------------------------------------------------
(* Shares do not come back, and what is left of those a block was paid for *)
(* after its deletion is as old as the cutoff.                             *)

IdsInv ==
    /\ \A s \in shares : s.id <= inserted
    /\ \A s \in seen : s.id <= inserted
    /\ \A b \in Blocks : \A s \in counted[b] : s.id <= inserted

LeftInv ==
    \A b \in Blocks : outcome[b] = "paid" /\ (stage = "delete" => block # b) =>
        \A s \in counted[b] \cap shares : s.created = NewestIn(counted[b])

OnceInv ==
    /\ IdsInv
    /\ scheme = "PROP" /\ faults = 0 => LeftInv
    /\ PaidOnce

LEMMA IdsInit == Init => IdsInv
BY DEF Init, IdsInv

LEMMA IdsStep == TypeInv /\ IdsInv /\ [Next]_vars => IdsInv'
<1> SUFFICES ASSUME TypeInv, IdsInv, [Next]_vars
             PROVE  IdsInv'
  OBVIOUS
<1> USE DEF vars, locals, cursor, ledger
<1>0. /\ inserted \in Nat /\ counted \in [Blocks -> SUBSET Share] /\ seen \subseteq Share
      /\ shares \subseteq Share /\ block \in Blocks
  BY Bounds DEF TypeInv, TypeOK
<1>1. CASE InsertShare
  <2>1. PICK m \in Miners, w \in Scores, t \in Times :
           shares' = shares \cup {[id |-> inserted + 1, miner |-> m, score |-> w, created |-> t]}
    BY <1>1 DEF InsertShare
  <2>2. inserted' = inserted + 1 /\ UNCHANGED <<seen, counted>>
    BY <1>1 DEF InsertShare
  <2>3. \A s \in Share : s.id \in Nat
    BY ShareType
  <2>4. \A s \in Share : s.id <= inserted => s.id <= inserted + 1
    BY <1>0, <2>3
  <2>5. \A s \in shares' : s.id <= inserted'
    BY <1>0, <2>1, <2>2, <2>4 DEF IdsInv
  <2>6. \A s \in seen : s.id <= inserted'
    BY <1>0, <2>2, <2>4 DEF IdsInv
  <2>7. \A b \in Blocks : \A s \in counted[b] : s.id <= inserted'
    BY <1>0, <2>2, <2>4 DEF IdsInv
  <2> QED
    BY <2>2, <2>5, <2>6, <2>7 DEF IdsInv
<1>2. ASSUME UNCHANGED inserted, shares' \subseteq shares,
             seen' \subseteq seen \cup shares,
             \A b \in Blocks : counted'[b] \subseteq counted[b] \cup seen
      PROVE  IdsInv'
  BY <1>2 DEF IdsInv
<1>3. CASE \E b \in Blocks : FindBlock(b) \/ StartReward(b)
  BY <1>2, <1>3 DEF FindBlock, StartReward
<1>4. CASE ReadPage
  <2>1. PICK P \in Pages : seen' = seen \cup P
    BY <1>4 DEF ReadPage
  <2>2. P \subseteq shares
    BY PageFacts
  <2> QED
    BY <1>2, <1>4, <2>1, <2>2 DEF ReadPage
<1>5. CASE PPLNSOverflow
  <2>1. PICK P \in Pages : \E S \in NewestOf(P) : seen' = seen \cup S
    BY <1>5 DEF PPLNSOverflow
  <2>2. P \subseteq shares
    BY PageFacts
  <2>3. seen' \subseteq seen \cup shares
    BY <2>1, <2>2 DEF NewestOf
  <2> QED
    BY <1>2, <1>5, <2>3 DEF PPLNSOverflow, Decide
<1>6. CASE PROPOverflow \/ PageFails \/ DeleteFails
  BY <1>2, <1>6 DEF PROPOverflow, PageFails, DeleteFails, Decide, Fault
<1>7. CASE Award
  BY <1>0, <1>2, <1>7 DEF Award
<1>8. CASE AwardFails
  <2>1. \A b \in Blocks : counted'[b] \subseteq counted[b] \cup seen
    BY <1>0, <1>8 DEF AwardFails
  <2> QED
    BY <1>2, <1>8, <2>1 DEF AwardFails, Fault
<1>9. CASE DeleteSharesBefore
  BY <1>2, <1>9 DEF DeleteSharesBefore, SharesFrom
<1>10. CASE UNCHANGED vars
  BY <1>2, <1>10
<1> QED
  BY <1>1, <1>3, <1>4, <1>5, <1>6, <1>7, <1>8, <1>9, <1>10 DEF Next, Reward, Environment

\* Steps that neither share out a block nor delete
LEMMA OnceKept ==
    ASSUME scheme = "PROP" /\ faults = 0 => LeftInv, PaidOnce,
           UNCHANGED <<scheme, faults>>,
           \A b \in Blocks : outcome'[b] = "paid" =>
              outcome[b] = "paid" /\ counted'[b] = counted[b]
              /\ counted[b] \cap shares' \subseteq shares,
           \/ UNCHANGED <<stage, block>>
           \/ stage # "delete" /\ stage' # "delete"
    PROVE  (scheme' = "PROP" /\ faults' = 0 => LeftInv') /\ PaidOnce'
<1>1. PaidOnce'
  BY DEF PaidOnce
<1>2. ASSUME scheme' = "PROP", faults' = 0
      PROVE  LeftInv'
  BY <1>2 DEF LeftInv
<1> QED
  BY <1>1, <1>2

LEMMA OnceStep == TypeInv /\ ReadInv /\ OnceInv /\ [Next]_vars => OnceInv'
<1> SUFFICES ASSUME TypeInv, ReadInv, OnceInv, [Next]_vars
             PROVE  OnceInv'
  OBVIOUS
<1> USE DEF vars, locals, cursor, ledger
<1>0. /\ IdsInv /\ IdsInv'
      /\ scheme = "PROP" /\ faults = 0 => LeftInv
      /\ PaidOnce
  BY IdsStep DEF OnceInv
<1>t. /\ outcome \in [Blocks -> {"pending", "paid", "refused", "failed"}]
      /\ counted \in [Blocks -> SUBSET Share] /\ block \in Blocks
      /\ seen \in SUBSET Share /\ IsFiniteSet(seen) /\ inserted \in Nat /\ faults \in Nat
      /\ \A b \in Blocks : counted[b] \in SUBSET Share /\ IsFiniteSet(counted[b])
  BY Bounds DEF TypeInv, TypeOK, Finite
<1>1. ASSUME (scheme' = "PROP" /\ faults' = 0 => LeftInv') /\ PaidOnce'
      PROVE  OnceInv'
  BY <1>0, <1>1 DEF OnceInv
<1>2. CASE InsertShare
  <2>1. PICK m \in Miners, w \in Scores, t \in Times :
           shares' = shares \cup {[id |-> inserted + 1, miner |-> m, score |-> w, created |-> t]}
    BY <1>2 DEF InsertShare
  <2>2. \A b \in Blocks : [id |-> inserted + 1, miner |-> m, score |-> w, created |-> t] \notin counted[b]
    <3>1. ~(inserted + 1 <= inserted)
      BY <1>t
    <3> QED
      BY <1>0, <3>1 DEF IdsInv
  <2>3. \A b \in Blocks : counted[b] \cap shares' \subseteq shares
    BY <2>1, <2>2
  <2>4. UNCHANGED <<scheme, faults, outcome, counted, stage, block>>
    BY <1>2 DEF InsertShare
  <2> QED
    BY <1>0, <1>1, <2>3, <2>4, OnceKept
<1>3. CASE \E b \in Blocks : FindBlock(b) \/ StartReward(b)
  <2>1. /\ UNCHANGED <<scheme, faults, outcome, counted, shares>>
        /\ \/ UNCHANGED <<stage, block>>
           \/ stage # "delete" /\ stage' # "delete"
    BY <1>3 DEF FindBlock, StartReward
  <2> QED
    BY <1>0, <1>1, <2>1, OnceKept
<1>4. CASE ReadPage
  <2>1. /\ UNCHANGED <<scheme, faults, outcome, counted, shares>>
        /\ stage # "delete" /\ stage' # "delete"
    BY <1>4 DEF ReadPage, NextPage
  <2> QED
    BY <1>0, <1>1, <2>1, OnceKept
<1>5. CASE PPLNSOverflow \/ PROPOverflow
  <2>1. /\ UNCHANGED <<scheme, faults, counted, shares>>
        /\ stage # "delete" /\ stage' # "delete"
        /\ outcome' = [outcome EXCEPT ![block] = "refused"]
    BY <1>5 DEF PPLNSOverflow, PROPOverflow, Decide
  <2>2. \A b \in Blocks : outcome'[b] = "paid" => outcome[b] = "paid"
    BY <1>t, <2>1
  <2> QED
    BY <1>0, <1>1, <2>1, <2>2, OnceKept
<1>6. CASE Award
  <2>1. /\ stage = "award" /\ stage' = "delete"
        /\ UNCHANGED <<scheme, faults, shares, block, seen>>
        /\ outcome' = [outcome EXCEPT ![block] = "paid"]
        /\ counted' = [counted EXCEPT ![block] = seen]
    BY <1>6 DEF Award
  <2>2. /\ counted'[block] = seen /\ seen \subseteq shares
        /\ \A b \in Blocks : b # block =>
              counted'[b] = counted[b] /\ (outcome'[b] = "paid" <=> outcome[b] = "paid")
    BY <1>t, <2>1 DEF ReadInv, SeenInv
  <2>3. ASSUME scheme' = "PROP", faults' = 0
        PROVE  LeftInv'
    BY <1>0, <2>1, <2>2, <2>3 DEF LeftInv
  <2>4. PaidOnce'
    <3> SUFFICES ASSUME NEW b \in Blocks, NEW c \in Blocks, b # c,
                        outcome'[b] = "paid", outcome'[c] = "paid",
                        scheme' = "PROP", faults' = 0,
                        NEW s \in counted'[b] \cap counted'[c]
                 PROVE  s.created \in {NewestIn(counted'[b]), NewestIn(counted'[c])}
      BY DEF PaidOnce
    <3>1. LeftInv
      BY <1>0, <2>1
    <3>2. CASE b = block
      <4>1. c # block /\ outcome[c] = "paid" /\ counted'[c] = counted[c] /\ s \in shares
        BY <2>2, <3>2
      <4> QED
        BY <2>1, <3>1, <4>1 DEF LeftInv
    <3>3. CASE c = block
      <4>1. b # block /\ outcome[b] = "paid" /\ counted'[b] = counted[b] /\ s \in shares
        BY <2>2, <3>3
      <4> QED
        BY <2>1, <3>1, <4>1 DEF LeftInv
    <3>4. CASE b # block /\ c # block
      BY <1>0, <2>1, <2>2, <3>4 DEF PaidOnce
    <3> QED
      BY <3>2, <3>3, <3>4
  <2> QED
    BY <1>1, <2>3, <2>4
<1>7. CASE DeleteSharesBefore
  <2>1. /\ stage = "delete" /\ stage' = "sleep" /\ shares' = SharesFrom(cutoffTime)
        /\ UNCHANGED <<scheme, faults, outcome, counted, block>>
    BY <1>7 DEF DeleteSharesBefore
  <2>2. outcome[block] = "paid" /\ seen = counted[block] /\ CutoffIs(seen)
    BY <2>1 DEF ReadInv, DeletingInv
  <2>3. PaidOnce'
    BY <1>0, <2>1 DEF PaidOnce
  <2>4. ASSUME scheme' = "PROP", faults' = 0
        PROVE  LeftInv'
    <3> SUFFICES ASSUME NEW b \in Blocks, outcome[b] = "paid",
                        NEW s \in counted[b], s \in shares'
                 PROVE  s.created = NewestIn(counted[b])
      BY <2>1 DEF LeftInv
    <3>1. s \in shares /\ s.created >= cutoffTime
      BY <2>1 DEF SharesFrom
    <3>2. CASE b # block
      BY <1>0, <2>1, <2>4, <3>1, <3>2 DEF LeftInv
    <3>3. CASE b = block
      <4>1. seen # {} /\ cutoffTime = NewestIn(seen) /\ s \in seen
        BY <2>1, <2>2, <2>4, <3>3 DEF CutoffIs
      <4>2. NewestIn(seen) \in Times /\ s.created <= NewestIn(seen)
        BY <1>t, <4>1, NewestIsNewest
      <4>3. s.created \in Nat /\ NewestIn(seen) \in Nat
        BY <1>t, <4>1, <4>2, ShareType, Bounds
      <4> QED
        BY <2>2, <3>1, <3>3, <4>1, <4>2, <4>3
    <3> QED
      BY <3>2, <3>3
  <2> QED
    BY <1>1, <2>3, <2>4
<1>8. CASE PageFails \/ AwardFails \/ DeleteFails
  <2>1. faults' = faults + 1
    BY <1>8 DEF PageFails, AwardFails, DeleteFails, Fault
  <2>2. faults' # 0
    BY <1>t, <2>1
  <2> QED
    BY <1>1, <2>2 DEF PaidOnce
<1>9. CASE UNCHANGED vars
  BY <1>0, <1>1, <1>9, OnceKept
<1> QED
  BY <1>2, <1>3, <1>4, <1>5, <1>6, <1>7, <1>8, <1>9 DEF Next, Reward, Environment

(* While deletions succeed PROP pays a share for two blocks only when it   *)
(* is as old as the newest that one of them counted, whatever order the    *)
(* blocks of the chains are rewarded in (prop.go:45, share.go:160-170).    *)
THEOREM SharesPaidOnce == Spec => []PaidOnce
<1>1. Init => OnceInv
  BY IdsInit DEF Init, OnceInv, LeftInv, PaidOnce
<1>2. OnceInv => PaidOnce
  BY DEF OnceInv
<1> QED
  BY <1>1, <1>2, TypeInit, TypeStep, ReadInit, ReadStep, OnceStep, PTL DEF Spec

=============================================================================
