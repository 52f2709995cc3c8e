------------------------------ MODULE ShareLog ------------------------------
(***************************************************************************)
(* What the pool promises of an accepted share: it reaches the shares      *)
(* table, and only a crash can lose it on the way.  ShareBuffer implements *)
(* this.                                                                   *)
(***************************************************************************)
EXTENDS Integers

CONSTANT Shares

VARIABLES
    fate,       \* of each share: "none", "accepted", "stored" or "lost"
    crashes     \* crashes of the process so far

vars == <<fate, crashes>>

Accepted == {s \in Shares : fate[s] = "accepted"}

Become(S, f) == fate' = [s \in Shares |-> IF s \in S THEN f ELSE fate[s]]

Init ==
    /\ fate = [s \in Shares |-> "none"]
    /\ crashes = 0

Accept(s) ==
    /\ fate[s] = "none"
    /\ Become({s}, "accepted")
    /\ UNCHANGED crashes

Store(S) ==
    /\ S \subseteq Accepted
    /\ Become(S, "stored")
    /\ UNCHANGED crashes

\* What is not stored yet is gone, all of it.
Crash ==
    /\ Become(Accepted, "lost")
    /\ crashes' = crashes + 1

Next ==
    \/ \E s \in Shares : Accept(s)
    \/ \E S \in SUBSET Shares : Store(S)
    \/ Crash

Spec == Init /\ [][Next]_vars

=============================================================================
