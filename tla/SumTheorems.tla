---------------------------- MODULE SumTheorems ----------------------------
(***************************************************************************)
(* Sums of integer functions over finite sets: SumFunctionOnSet of the     *)
(* community module Functions, with which the ledgers of this project are  *)
(* added up.                                                               *)
(*                                                                         *)
(* Induction is by the smallest counterexample among the subsets of a      *)
(* finite set, since the provers cannot instantiate an induction principle *)
(* that has a predicate for a parameter.                                   *)
(***************************************************************************)
EXTENDS Integers, Functions, FiniteSetTheorems, WellFoundedInduction, TLAPS

LEMMA Smallest ==
    ASSUME NEW S, IsFiniteSet(S), NEW T \in SUBSET SUBSET S, T # {}
    PROVE  \E A \in T : \A B \in T : B \subseteq A => B = A
<1> DEFINE R == StrictSubsetOrdering(S)
<1>1. IsWellFoundedOn(R, SUBSET S)
  BY FS_StrictSubsetOrderingWellFounded, FS_FiniteSubsetsOfFinite
<1>2. \A x, y \in SUBSET S : x \subseteq y /\ x # y => <<x, y>> \in R
  BY DEF StrictSubsetOrdering
<1> HIDE DEF R
<1>3. \E x \in T : \A y \in T : ~ (<<y, x>> \in R)
  BY <1>1, WFMin
<1>4. \A A, B \in T : A \in SUBSET S /\ B \in SUBSET S
  OBVIOUS
<1> QED
  BY <1>2, <1>3, <1>4, Zenon

(* The fold draws elements in the order of this choice. *)
Drawn(s) == CHOOSE x \in s : TRUE

Step(f, g, s) ==
    IF s = {} THEN 0 ELSE f[Drawn(s)] + g[s \ {Drawn(s)}]

Sums(f, S, g) == g = [s \in SUBSET S |-> Step(f, g, s)]

LEMMA SumIsChosen ==
    ASSUME NEW f, NEW S
    PROVE  SumFunctionOnSet(f, S) = (CHOOSE g : Sums(f, S, g))[S]
BY DEF SumFunctionOnSet, FoldFunctionOnSet, MapThenFoldSet, Sums, Step, Drawn

LEMMA DrawnIsElement ==
    ASSUME NEW s, s # {}
    PROVE  Drawn(s) \in s
BY DEF Drawn

\* Two functions that sum f agree wherever both are defined.
LEMMA SumsAgree ==
    ASSUME NEW f, NEW S, IsFiniteSet(S), NEW T \in SUBSET S,
           NEW g, NEW h, Sums(f, S, g), Sums(f, T, h)
    PROVE  \A s \in SUBSET T : g[s] = h[s]
<1> DEFINE Bad == {s \in SUBSET T : g[s] # h[s]}
<1> SUFFICES ASSUME Bad # {}
             PROVE  FALSE
  OBVIOUS
<1>1. IsFiniteSet(T)
  BY FS_Subset
<1>2. PICK A \in Bad : \A B \in Bad : B \subseteq A => B = A
  <2>1. Bad \in SUBSET SUBSET T
    OBVIOUS
  <2> HIDE DEF Bad
  <2> QED
    BY <1>1, <2>1, Smallest
<1>3. g[A] = Step(f, g, A) /\ h[A] = Step(f, h, A)
  BY DEF Sums
<1>4. A # {}
  BY <1>3 DEF Step
<1> DEFINE B == A \ {Drawn(A)}
<1>5. B \in SUBSET T /\ B \subseteq A /\ B # A
  BY <1>4, DrawnIsElement
<1>6. g[B] = h[B]
  BY <1>2, <1>5
<1> QED
  BY <1>2, <1>3, <1>4, <1>6 DEF Step

LEMMA SumsExist ==
    ASSUME NEW f, NEW S, IsFiniteSet(S)
    PROVE  \E g : Sums(f, S, g)
<1> DEFINE Bad == {s \in SUBSET S : ~ \E g : Sums(f, s, g)}
<1> SUFFICES ASSUME Bad # {}
             PROVE  FALSE
  OBVIOUS
<1>1. PICK A \in Bad : \A B \in Bad : B \subseteq A => B = A
  <2>1. Bad \in SUBSET SUBSET S
    OBVIOUS
  <2> HIDE DEF Bad
  <2> QED
    BY <2>1, Smallest
<1>2. IsFiniteSet(A) /\ \A s \in SUBSET A : IsFiniteSet(s)
  BY FS_Subset
<1> DEFINE H(s) == CHOOSE g : Sums(f, s, g)
           V == [s \in SUBSET A |-> H(s)[s]]
           g == [s \in SUBSET A |-> Step(f, V, s)]
<1>3. \A s \in SUBSET A : s # A => Sums(f, s, H(s))
  BY <1>1
<1>4. ASSUME NEW s \in SUBSET A, s # A
      PROVE  V[s] = Step(f, V, s)
  <2>1. V[s] = H(s)[s] /\ Sums(f, s, H(s))
    BY <1>3, <1>4
  <2>2. H(s)[s] = Step(f, H(s), s)
    <3> HIDE DEF H
    <3> QED BY <2>1 DEF Sums
  <2>3. CASE s = {}
    BY <2>1, <2>2, <2>3 DEF Step
  <2>4. CASE s # {}
    <3> DEFINE t == s \ {Drawn(s)}
    <3>1. t \in SUBSET s /\ t \in SUBSET A /\ t # A
      BY <1>4, <2>4, DrawnIsElement
    <3>2. Sums(f, t, H(t)) /\ V[t] = H(t)[t] /\ IsFiniteSet(s)
      BY <1>2, <1>3, <3>1
    <3> HIDE DEF H
    <3>3. H(s)[t] = H(t)[t]
      BY <2>1, <3>1, <3>2, SumsAgree
    <3> QED
      BY <2>1, <2>2, <2>4, <3>2, <3>3 DEF Step
  <2> QED
    BY <2>3, <2>4
<1>5. ASSUME NEW s \in SUBSET A
      PROVE  g[s] = Step(f, g, s)
  <2>1. CASE s = {}
    BY <2>1 DEF Step
  <2>2. CASE s # {}
    <3> DEFINE t == s \ {Drawn(s)}
    <3>1. t \in SUBSET A /\ t # A
      BY <2>2, DrawnIsElement
    <3>2. g[t] = Step(f, V, t) /\ V[t] = Step(f, V, t) /\ g[s] = Step(f, V, s)
      BY <1>4, <3>1
    <3> HIDE DEF g, V
    <3> QED
      BY <2>2, <3>2 DEF Step
  <2> QED
    BY <2>1, <2>2
<1>6. g = [s \in SUBSET A |-> Step(f, g, s)]
  <2>1. g = [s \in SUBSET A |-> g[s]]
    OBVIOUS
  <2> HIDE DEF g
  <2> QED
    BY <1>5, <2>1
<1> HIDE DEF g
<1>7. Sums(f, A, g)
  BY <1>6 DEF Sums
<1> QED
  BY <1>1, <1>7

-----------------------------------------------------------------------------
(* What a sum is *)

LEMMA SumIsSums ==
    ASSUME NEW f, NEW S, IsFiniteSet(S)
    PROVE  \E g : Sums(f, S, g) /\ SumFunctionOnSet(f, S) = g[S]
<1> DEFINE g == CHOOSE h : Sums(f, S, h)
<1>1. Sums(f, S, g)
  BY SumsExist
<1>2. SumFunctionOnSet(f, S) = g[S]
  BY SumIsChosen
<1> HIDE DEF g
<1> QED
  BY <1>1, <1>2

LEMMA SumEmpty ==
    ASSUME NEW f
    PROVE  SumFunctionOnSet(f, {}) = 0
<1>1. PICK g : Sums(f, {}, g) /\ SumFunctionOnSet(f, {}) = g[{}]
  BY FS_EmptySet, SumIsSums
<1> QED
  BY <1>1 DEF Sums, Step

LEMMA SumDraw ==
    ASSUME NEW f, NEW S, IsFiniteSet(S), S # {}
    PROVE  /\ Drawn(S) \in S
           /\ IsFiniteSet(S \ {Drawn(S)})
           /\ SumFunctionOnSet(f, S)
                = f[Drawn(S)] + SumFunctionOnSet(f, S \ {Drawn(S)})
<1> DEFINE T == S \ {Drawn(S)}
<1>1. Drawn(S) \in S /\ IsFiniteSet(T) /\ T \in SUBSET S
  BY DrawnIsElement, FS_RemoveElement
<1>2. PICK g : Sums(f, S, g) /\ SumFunctionOnSet(f, S) = g[S]
  BY SumIsSums
<1>3. PICK h : Sums(f, T, h) /\ SumFunctionOnSet(f, T) = h[T]
  BY <1>1, SumIsSums
<1>4. g[T] = h[T]
  BY <1>1, <1>2, <1>3, SumsAgree
<1>5. g[S] = Step(f, g, S)
  BY <1>2 DEF Sums
<1> QED
  BY <1>1, <1>2, <1>3, <1>4, <1>5 DEF Step

LEMMA SumInt ==
    ASSUME NEW S, IsFiniteSet(S), NEW f, \A x \in S : f[x] \in Int
    PROVE  SumFunctionOnSet(f, S) \in Int
<1> DEFINE Bad == {T \in SUBSET S : SumFunctionOnSet(f, T) \notin Int}
<1> SUFFICES ASSUME Bad # {}
             PROVE  FALSE
  OBVIOUS
<1>1. PICK A \in Bad : \A B \in Bad : B \subseteq A => B = A
  <2>1. Bad \in SUBSET SUBSET S
    OBVIOUS
  <2> HIDE DEF Bad
  <2> QED
    BY <2>1, Smallest
<1>2. A # {} /\ A \in SUBSET S /\ IsFiniteSet(A)
  <2>1. SumFunctionOnSet(f, {}) \in Int
    BY SumEmpty
  <2> QED
    BY <1>1, <2>1, FS_Subset
<1> DEFINE B == A \ {Drawn(A)}
<1>3. /\ Drawn(A) \in A
      /\ SumFunctionOnSet(f, A) = f[Drawn(A)] + SumFunctionOnSet(f, B)
  BY <1>2, SumDraw
<1>4. SumFunctionOnSet(f, B) \in Int
  BY <1>1, <1>3
<1> QED
  BY <1>3, <1>4

(* The order does not matter: any element may be taken out first. *)
LEMMA SumRemove ==
    ASSUME NEW S, IsFiniteSet(S), NEW f, \A x \in S : f[x] \in Int, NEW x \in S
    PROVE  SumFunctionOnSet(f, S) = f[x] + SumFunctionOnSet(f, S \ {x})
<1> DEFINE Holds(T) ==
               \A y \in T : SumFunctionOnSet(f, T) = f[y] + SumFunctionOnSet(f, T \ {y})
           Bad == {T \in SUBSET S : ~Holds(T)}
<1> SUFFICES ASSUME Bad # {}
             PROVE  FALSE
  OBVIOUS
<1>1. PICK A \in Bad : \A B \in Bad : B \subseteq A => B = A
  <2>1. Bad \in SUBSET SUBSET S
    OBVIOUS
  <2> HIDE DEF Bad
  <2> QED
    BY <2>1, Smallest
<1>2. \A T \in SUBSET S : IsFiniteSet(T) /\ SumFunctionOnSet(f, T) \in Int
  BY FS_Subset, SumInt
<1>3. PICK y \in A : SumFunctionOnSet(f, A) # f[y] + SumFunctionOnSet(f, A \ {y})
  BY <1>1
<1> DEFINE d == Drawn(A)
<1>4. /\ d \in A
      /\ SumFunctionOnSet(f, A) = f[d] + SumFunctionOnSet(f, A \ {d})
  BY <1>1, <1>2, <1>3, SumDraw
<1> HIDE DEF d
<1> DEFINE B == A \ {d}
           C == A \ {y}
           D == A \ {d, y}
<1>5. d # y
  BY <1>3, <1>4
<1>6. /\ B \in SUBSET S /\ B \subseteq A /\ B # A /\ y \in B /\ B \ {y} = D
      /\ C \in SUBSET S /\ C \subseteq A /\ C # A /\ d \in C /\ C \ {d} = D
      /\ D \in SUBSET S
  BY <1>1, <1>3, <1>4, <1>5
<1>7. Holds(B) /\ Holds(C)
  BY <1>1, <1>6
<1>8. /\ SumFunctionOnSet(f, B) = f[y] + SumFunctionOnSet(f, D)
      /\ SumFunctionOnSet(f, C) = f[d] + SumFunctionOnSet(f, D)
  BY <1>6, <1>7
<1>9. SumFunctionOnSet(f, D) \in Int /\ f[y] \in Int /\ f[d] \in Int
  BY <1>1, <1>2, <1>3, <1>4, <1>6
<1> HIDE DEF B, C, D
<1>10. SumFunctionOnSet(f, A) = f[y] + SumFunctionOnSet(f, C)
  BY <1>4, <1>8, <1>9 DEF B
<1> QED
  BY <1>3, <1>10 DEF C

-----------------------------------------------------------------------------
(* What is added up *)

\* Pointwise: each of these is the smallest counterexample once more.
LEMMA SumPlus ==
    ASSUME NEW S, IsFiniteSet(S), NEW f, NEW g, NEW h,
           \A x \in S : f[x] \in Int /\ g[x] \in Int /\ h[x] = f[x] + g[x]
    PROVE  SumFunctionOnSet(h, S) = SumFunctionOnSet(f, S) + SumFunctionOnSet(g, S)
<1> DEFINE Holds(T) ==
               SumFunctionOnSet(h, T) = SumFunctionOnSet(f, T) + SumFunctionOnSet(g, T)
           Bad == {T \in SUBSET S : ~Holds(T)}
<1> SUFFICES ASSUME Bad # {}
             PROVE  FALSE
  OBVIOUS
<1>1. PICK A \in Bad : \A B \in Bad : B \subseteq A => B = A
  <2>1. Bad \in SUBSET SUBSET S
    OBVIOUS
  <2> HIDE DEF Bad
  <2> QED
    BY <2>1, Smallest
<1>2. A # {} /\ A \in SUBSET S /\ IsFiniteSet(A)
  <2>1. Holds({})
    BY SumEmpty
  <2> HIDE DEF Holds
  <2> QED
    BY <1>1, <2>1, FS_Subset
<1>3. PICK x \in A : TRUE
  BY <1>2
<1> DEFINE B == A \ {x}
<1>4. B \in SUBSET S /\ B # A /\ B \subseteq A /\ IsFiniteSet(B)
  BY <1>2, <1>3, FS_Subset
<1>5. Holds(B)
  BY <1>1, <1>4
<1>6. /\ SumFunctionOnSet(f, A) = f[x] + SumFunctionOnSet(f, B)
      /\ SumFunctionOnSet(g, A) = g[x] + SumFunctionOnSet(g, B)
      /\ SumFunctionOnSet(h, A) = h[x] + SumFunctionOnSet(h, B)
  <2>1. \A y \in A : f[y] \in Int /\ g[y] \in Int /\ h[y] \in Int
    BY <1>2
  <2> QED
    BY <1>2, <1>3, <2>1, SumRemove
<1>7. SumFunctionOnSet(f, B) \in Int /\ SumFunctionOnSet(g, B) \in Int
  BY <1>4, SumInt
<1>8. f[x] \in Int /\ g[x] \in Int /\ h[x] = f[x] + g[x]
  BY <1>2, <1>3
<1> HIDE DEF B
<1>9. Holds(A)
  BY <1>5, <1>6, <1>7, <1>8
<1> QED
  BY <1>1, <1>9

LEMMA SumLeq ==
    ASSUME NEW S, IsFiniteSet(S), NEW f, NEW g,
           \A x \in S : f[x] \in Int /\ g[x] \in Int /\ f[x] <= g[x]
    PROVE  SumFunctionOnSet(f, S) <= SumFunctionOnSet(g, S)
<1> DEFINE Holds(T) == SumFunctionOnSet(f, T) <= SumFunctionOnSet(g, T)
           Bad == {T \in SUBSET S : ~Holds(T)}
<1> SUFFICES ASSUME Bad # {}
             PROVE  FALSE
  OBVIOUS
<1>1. PICK A \in Bad : \A B \in Bad : B \subseteq A => B = A
  <2>1. Bad \in SUBSET SUBSET S
    OBVIOUS
  <2> HIDE DEF Bad
  <2> QED
    BY <2>1, Smallest
<1>2. A # {} /\ A \in SUBSET S /\ IsFiniteSet(A)
  <2>1. Holds({})
    BY SumEmpty
  <2> HIDE DEF Holds
  <2> QED
    BY <1>1, <2>1, FS_Subset
<1>3. PICK x \in A : TRUE
  BY <1>2
<1> DEFINE B == A \ {x}
<1>4. B \in SUBSET S /\ B # A /\ B \subseteq A /\ IsFiniteSet(B)
  BY <1>2, <1>3, FS_Subset
<1>5. Holds(B)
  BY <1>1, <1>4
<1>6. /\ SumFunctionOnSet(f, A) = f[x] + SumFunctionOnSet(f, B)
      /\ SumFunctionOnSet(g, A) = g[x] + SumFunctionOnSet(g, B)
  <2>1. \A y \in A : f[y] \in Int /\ g[y] \in Int
    BY <1>2
  <2> QED
    BY <1>2, <1>3, <2>1, SumRemove
<1>7. SumFunctionOnSet(f, B) \in Int /\ SumFunctionOnSet(g, B) \in Int
  BY <1>4, SumInt
<1>8. f[x] \in Int /\ g[x] \in Int /\ f[x] <= g[x]
  BY <1>2, <1>3
<1> HIDE DEF B
<1>9. Holds(A)
  BY <1>5, <1>6, <1>7, <1>8
<1> QED
  BY <1>1, <1>9

LEMMA SumZero ==
    ASSUME NEW S, IsFiniteSet(S), NEW f, \A x \in S : f[x] = 0
    PROVE  SumFunctionOnSet(f, S) = 0
<1> DEFINE s == SumFunctionOnSet(f, S)
<1>1. s = s + s
  BY SumPlus
<1>2. s \in Int
  BY SumInt
<1> HIDE DEF s
<1>3. s = 0
  BY <1>1, <1>2
<1> QED
  BY <1>3 DEF s

LEMMA SumSame ==
    ASSUME NEW S, IsFiniteSet(S), NEW f, NEW g,
           \A x \in S : f[x] \in Int /\ g[x] = f[x]
    PROVE  SumFunctionOnSet(g, S) = SumFunctionOnSet(f, S)
<1>1. /\ SumFunctionOnSet(f, S) <= SumFunctionOnSet(g, S)
      /\ SumFunctionOnSet(g, S) <= SumFunctionOnSet(f, S)
  BY SumLeq
<1>2. SumFunctionOnSet(f, S) \in Int /\ SumFunctionOnSet(g, S) \in Int
  BY SumInt
<1> QED
  BY <1>1, <1>2

LEMMA SumNat ==
    ASSUME NEW S, IsFiniteSet(S), NEW f, \A x \in S : f[x] \in Nat
    PROVE  SumFunctionOnSet(f, S) \in Nat
<1> DEFINE zero == [x \in S |-> 0]
<1>1. SumFunctionOnSet(zero, S) <= SumFunctionOnSet(f, S)
  BY SumLeq
<1>2. SumFunctionOnSet(zero, S) = 0
  BY SumZero
<1>3. SumFunctionOnSet(f, S) \in Int
  BY SumInt
<1> QED
  BY <1>1, <1>2, <1>3

\* One value changes.
LEMMA SumChange ==
    ASSUME NEW S, IsFiniteSet(S), NEW f, NEW g, NEW x \in S,
           \A y \in S : f[y] \in Int /\ g[y] \in Int,
           \A y \in S \ {x} : g[y] = f[y]
    PROVE  SumFunctionOnSet(g, S) = SumFunctionOnSet(f, S) + g[x] - f[x]
<1> DEFINE T == S \ {x}
<1>1. IsFiniteSet(T)
  BY FS_RemoveElement
<1>2. SumFunctionOnSet(g, T) = SumFunctionOnSet(f, T)
  BY <1>1, SumSame
<1>3. /\ SumFunctionOnSet(f, S) = f[x] + SumFunctionOnSet(f, T)
      /\ SumFunctionOnSet(g, S) = g[x] + SumFunctionOnSet(g, T)
  BY SumRemove
<1>4. SumFunctionOnSet(f, T) \in Int
  BY <1>1, SumInt
<1> QED
  BY <1>2, <1>3, <1>4

\* What is zero outside T need not be added.
LEMMA SumOutside ==
    ASSUME NEW S, IsFiniteSet(S), NEW T \in SUBSET S, NEW f,
           \A x \in T : f[x] \in Int, \A x \in S \ T : f[x] = 0
    PROVE  SumFunctionOnSet(f, S) = SumFunctionOnSet(f, T)
<1> DEFINE Holds(U) == SumFunctionOnSet(f, U) = SumFunctionOnSet(f, T)
           Bad == {U \in SUBSET S : T \subseteq U /\ ~Holds(U)}
<1> SUFFICES ASSUME Bad # {}
             PROVE  FALSE
  OBVIOUS
<1>1. PICK A \in Bad : \A B \in Bad : B \subseteq A => B = A
  <2>1. Bad \in SUBSET SUBSET S
    OBVIOUS
  <2> HIDE DEF Bad
  <2> QED
    BY <2>1, Smallest
<1>2. A \in SUBSET S /\ T \subseteq A /\ A # T /\ IsFiniteSet(A)
  BY <1>1, FS_Subset
<1>3. PICK x \in A : x \notin T
  BY <1>2
<1> DEFINE B == A \ {x}
<1>4. B \in SUBSET S /\ B # A /\ B \subseteq A /\ T \subseteq B /\ IsFiniteSet(B)
  BY <1>2, <1>3, FS_Subset
<1>5. Holds(B)
  BY <1>1, <1>4
<1>6. \A y \in A : f[y] \in Int
  BY <1>2
<1>7. SumFunctionOnSet(f, A) = f[x] + SumFunctionOnSet(f, B)
  BY <1>2, <1>3, <1>6, SumRemove
<1>8. SumFunctionOnSet(f, B) \in Int /\ f[x] = 0
  BY <1>2, <1>3, <1>4, <1>6, SumInt
<1> HIDE DEF B
<1>9. Holds(A)
  BY <1>5, <1>7, <1>8
<1> QED
  BY <1>1, <1>9

LEMMA SumDisjoint ==
    ASSUME NEW S, NEW T, IsFiniteSet(S), IsFiniteSet(T), S \cap T = {}, NEW f,
           \A x \in S \cup T : f[x] \in Int
    PROVE  SumFunctionOnSet(f, S \cup T)
             = SumFunctionOnSet(f, S) + SumFunctionOnSet(f, T)
<1> DEFINE U == S \cup T
           g == [x \in U |-> IF x \in S THEN f[x] ELSE 0]
           h == [x \in U |-> IF x \in S THEN 0 ELSE f[x]]
<1>1. IsFiniteSet(U) /\ S \in SUBSET U /\ T \in SUBSET U
  BY FS_Union
<1>2. \A x \in U : g[x] \in Int /\ h[x] \in Int /\ f[x] = g[x] + h[x]
  OBVIOUS
<1>3. /\ \A x \in S : f[x] \in Int /\ g[x] = f[x]
      /\ \A x \in T : f[x] \in Int /\ h[x] = f[x]
      /\ \A x \in U \ S : g[x] = 0
      /\ \A x \in U \ T : h[x] = 0
  OBVIOUS
<1> HIDE DEF g, h, U
<1>4. SumFunctionOnSet(f, U) = SumFunctionOnSet(g, U) + SumFunctionOnSet(h, U)
  BY <1>1, <1>2, SumPlus
<1>5. SumFunctionOnSet(g, U) = SumFunctionOnSet(g, S)
  BY <1>1, <1>3, SumOutside
<1>6. SumFunctionOnSet(h, U) = SumFunctionOnSet(h, T)
  BY <1>1, <1>3, SumOutside
<1>7. SumFunctionOnSet(g, S) = SumFunctionOnSet(f, S)
  BY <1>3, SumSame
<1>8. SumFunctionOnSet(h, T) = SumFunctionOnSet(f, T)
  BY <1>3, SumSame
<1> QED
  BY <1>4, <1>5, <1>6, <1>7, <1>8 DEF U

LEMMA SumSubset ==
    ASSUME NEW S, IsFiniteSet(S), NEW T \in SUBSET S, NEW f, \A x \in S : f[x] \in Nat
    PROVE  SumFunctionOnSet(f, T) <= SumFunctionOnSet(f, S)
<1> DEFINE U == S \ T
<1>1. IsFiniteSet(T) /\ IsFiniteSet(U) /\ T \cap U = {} /\ T \cup U = S
  BY FS_Subset
<1>2. SumFunctionOnSet(f, T) \in Nat /\ SumFunctionOnSet(f, U) \in Nat
  BY <1>1, SumNat
<1> HIDE DEF U
<1>3. \A x \in T \cup U : f[x] \in Int
  BY <1>1
<1>4. SumFunctionOnSet(f, T \cup U) = SumFunctionOnSet(f, T) + SumFunctionOnSet(f, U)
  BY <1>1, <1>3, SumDisjoint
<1>5. SumFunctionOnSet(f, S) = SumFunctionOnSet(f, T) + SumFunctionOnSet(f, U)
  BY <1>1, <1>4, Zenon
<1> QED
  BY <1>2, <1>5

\* Renaming the indices
LEMMA SumRename ==
    ASSUME NEW S, NEW T, IsFiniteSet(S), IsFiniteSet(T), NEW h \in [S -> T],
           \A x, y \in S : h[x] = h[y] => x = y,
           NEW f, NEW g, \A x \in S : f[h[x]] \in Int /\ g[x] = f[h[x]]
    PROVE  SumFunctionOnSet(g, S) = SumFunctionOnSet(f, {h[x] : x \in S})
<1> DEFINE Image(U) == {h[x] : x \in U}
           Holds(U) == SumFunctionOnSet(g, U) = SumFunctionOnSet(f, Image(U))
           Bad == {U \in SUBSET S : ~Holds(U)}
<1> SUFFICES ASSUME Bad # {}
             PROVE  FALSE
  OBVIOUS
<1>1. PICK A \in Bad : \A B \in Bad : B \subseteq A => B = A
  <2>1. Bad \in SUBSET SUBSET S
    OBVIOUS
  <2> HIDE DEF Bad
  <2> QED
    BY <2>1, Smallest
<1>2. A # {} /\ A \in SUBSET S /\ IsFiniteSet(A)
  <2>1. Image({}) = {}
    OBVIOUS
  <2>2. Holds({})
    BY <2>1, SumEmpty
  <2> HIDE DEF Holds
  <2> QED
    BY <1>1, <2>2, FS_Subset
<1>3. PICK x \in A : TRUE
  BY <1>2
<1> DEFINE B == A \ {x}
<1>4. B \in SUBSET S /\ B # A /\ B \subseteq A /\ IsFiniteSet(B)
  BY <1>2, <1>3, FS_Subset
<1>5. Holds(B)
  BY <1>1, <1>4
<1>6. /\ Image(A) \in SUBSET T /\ IsFiniteSet(Image(A))
      /\ h[x] \in Image(A)
      /\ \A y \in Image(A) : f[y] \in Int
  <2>1. Image(A) \in SUBSET T
    BY <1>2
  <2> QED
    BY <1>2, <1>3, <2>1, FS_Subset
<1>7. Image(B) = Image(A) \ {h[x]}
  BY <1>2, <1>3
<1>8. \A y \in A : g[y] \in Int
  BY <1>2
<1>9. SumFunctionOnSet(g, A) = g[x] + SumFunctionOnSet(g, B)
  BY <1>2, <1>3, <1>8, SumRemove
<1> HIDE DEF Image
<1>10. SumFunctionOnSet(f, Image(A)) = f[h[x]] + SumFunctionOnSet(f, Image(A) \ {h[x]})
  BY <1>6, SumRemove
<1>11. g[x] = f[h[x]]
  BY <1>2, <1>3
<1> HIDE DEF B
<1>12. Holds(A)
  BY <1>5, <1>7, <1>9, <1>10, <1>11
<1> QED
  BY <1>1, <1>12

\* A sum by groups: the groups share out the set.
LEMMA SumGrouped ==
    ASSUME NEW S, IsFiniteSet(S), NEW f, \A x \in S : f[x] \in Int,
           NEW T, IsFiniteSet(T), NEW group \in [T -> SUBSET S],
           \A x \in S : \E t \in T : x \in group[t],
           \A t, u \in T : t # u => group[t] \cap group[u] = {},
           NEW g, \A t \in T : g[t] = SumFunctionOnSet(f, group[t])
    PROVE  SumFunctionOnSet(g, T) = SumFunctionOnSet(f, S)
<1> DEFINE All(U) == {x \in S : \E t \in U : x \in group[t]}
           Holds(U) == SumFunctionOnSet(g, U) = SumFunctionOnSet(f, All(U))
           Bad == {U \in SUBSET T : ~Holds(U)}
<1>0. All(T) = S
  OBVIOUS
<1> SUFFICES ASSUME Bad # {}
             PROVE  FALSE
  <2>1. Bad = {} => Holds(T)
    OBVIOUS
  <2> HIDE DEF Bad, All
  <2> QED
    BY <1>0, <2>1
<1>1. PICK A \in Bad : \A B \in Bad : B \subseteq A => B = A
  <2>1. Bad \in SUBSET SUBSET T
    OBVIOUS
  <2> HIDE DEF Bad
  <2> QED
    BY <2>1, Smallest
<1>2. A # {} /\ A \in SUBSET T /\ IsFiniteSet(A)
  <2>1. All({}) = {}
    OBVIOUS
  <2>2. Holds({})
    BY <2>1, SumEmpty
  <2> HIDE DEF Holds
  <2> QED
    BY <1>1, <2>2, FS_Subset
<1>3. PICK t \in A : TRUE
  BY <1>2
<1> DEFINE B == A \ {t}
<1>4. B \in SUBSET T /\ B # A /\ B \subseteq A /\ IsFiniteSet(B)
  BY <1>2, <1>3, FS_Subset
<1>5. Holds(B)
  BY <1>1, <1>4
<1>6. \A u \in T : g[u] \in Int /\ IsFiniteSet(group[u]) /\ group[u] \in SUBSET S
  <2>1. ASSUME NEW u \in T
        PROVE  g[u] \in Int /\ IsFiniteSet(group[u]) /\ group[u] \in SUBSET S
    <3>1. group[u] \in SUBSET S /\ IsFiniteSet(group[u])
      BY FS_Subset
    <3> QED
      BY <3>1, SumInt
  <2> QED
    BY <2>1
<1>7. SumFunctionOnSet(g, A) = g[t] + SumFunctionOnSet(g, B)
  BY <1>2, <1>3, <1>6, SumRemove
<1>8. /\ All(A) = group[t] \cup All(B) /\ group[t] \cap All(B) = {}
      /\ All(B) \in SUBSET S /\ t \in T
  BY <1>2, <1>3
<1> HIDE DEF All
<1>9. IsFiniteSet(All(B))
  BY <1>8, FS_Subset
<1>10. \A x \in group[t] \cup All(B) : f[x] \in Int
  BY <1>6, <1>8
<1>11. SumFunctionOnSet(f, All(A)) = SumFunctionOnSet(f, group[t]) + SumFunctionOnSet(f, All(B))
  <2>1. IsFiniteSet(group[t]) /\ group[t] \cap All(B) = {}
    BY <1>6, <1>8
  <2> HIDE DEF B
  <2>2. SumFunctionOnSet(f, group[t] \cup All(B))
          = SumFunctionOnSet(f, group[t]) + SumFunctionOnSet(f, All(B))
    BY <1>9, <1>10, <2>1, SumDisjoint
  <2> QED
    BY <1>8, <2>2
<1>12. g[t] = SumFunctionOnSet(f, group[t])
  BY <1>8
<1> HIDE DEF B
<1>13. Holds(A)
  BY <1>5, <1>7, <1>11, <1>12
<1> QED
  BY <1>1, <1>13

-----------------------------------------------------------------------------
(* Induction over indices: a set of numbers has a least one.               *)

LEMMA LeastIndex ==
    ASSUME NEW n \in Nat, NEW T \in SUBSET (0 .. n), T # {}
    PROVE  \E m \in T : \A k \in T : m <= k
<1> DEFINE Upto(m) == 0 .. m
           Segments == {Upto(m) : m \in T}
<1>1. PICK A \in Segments : \A B \in Segments : B \subseteq A => B = A
  <2> DEFINE S == 0 .. n
  <2>1. Segments \in SUBSET SUBSET S /\ Segments # {}
    <3>1. \A m \in T : Upto(m) \in SUBSET (0 .. n)
      OBVIOUS
    <3>2. PICK m \in T : TRUE
      OBVIOUS
    <3> HIDE DEF Upto
    <3> QED
      BY <3>1, <3>2
  <2>2. IsFiniteSet(S)
    BY FS_Interval
  <2> HIDE DEF Segments, S
  <2> QED
    BY <2>1, <2>2, Smallest
<1>2. PICK m \in T : A = 0 .. m
  OBVIOUS
<1>3. ASSUME NEW k \in T, k < m
      PROVE  FALSE
  <2>1. 0 .. k \in Segments /\ 0 .. k \subseteq A
    BY <1>2, <1>3
  <2>2. 0 .. k = 0 .. m
    BY <1>1, <1>2, <2>1
  <2>3. m \in 0 .. k
    BY <2>2
  <2> QED
    BY <1>3, <2>3
<1> QED
  BY <1>2, <1>3

-----------------------------------------------------------------------------
(* A finite set of integers that is not empty has a greatest and a least   *)
(* element.                                                                *)

LEMMA FiniteExtremes ==
    ASSUME NEW S, IsFiniteSet(S), S # {}, \A x \in S : x \in Int
    PROVE  (\E x \in S : \A y \in S : x >= y) /\ (\E x \in S : \A y \in S : x <= y)
<1>0. \A T \in SUBSET SUBSET S : T # {} => \E A \in T : \A B \in T : B \subseteq A => B = A
  BY Smallest
<1> DEFINE Holds(A) == (\E x \in A : \A y \in A : x >= y) /\ (\E x \in A : \A y \in A : x <= y)
           Bad == {A \in SUBSET S : A # {} /\ ~Holds(A)}
<1>1. Bad = {}
  <2> SUFFICES ASSUME Bad # {}
               PROVE  FALSE
    OBVIOUS
  <2>1. PICK A \in Bad : \A B \in Bad : B \subseteq A => B = A
    <3>1. Bad \in SUBSET SUBSET S
      OBVIOUS
    <3> HIDE DEF Bad
    <3> QED
      BY <1>0, <3>1
  <2>2. (\A x \in A : x \in Int) /\ A \in SUBSET S /\ A # {} /\ ~Holds(A)
    OBVIOUS
  <2>3. PICK z \in A : TRUE
    BY <2>2
  <2>4. A \ {z} = {} \/ Holds(A \ {z})
    <3>1. A \ {z} \in SUBSET S /\ A \ {z} # A /\ A \ {z} \subseteq A
      BY <2>2, <2>3
    <3> QED
      BY <2>1, <3>1
  <2>5. CASE A \ {z} = {}
    BY <2>2, <2>3, <2>5
  <2>6. CASE Holds(A \ {z})
    <3>1. PICK n, o \in A \ {z} : \A y \in A \ {z} : n >= y /\ o <= y
      BY <2>6
    <3>2. \A y \in A : (IF z >= n THEN z ELSE n) >= y
      BY <2>2, <2>3, <3>1
    <3>3. \A y \in A : (IF z <= o THEN z ELSE o) <= y
      BY <2>2, <2>3, <3>1
    <3> QED
      BY <2>2, <2>3, <3>1, <3>2, <3>3
  <2> QED
    BY <2>4, <2>5, <2>6
<1> QED
  BY <1>1

=============================================================================
