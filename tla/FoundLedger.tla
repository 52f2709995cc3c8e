---------------------------- MODULE FoundLedger ----------------------------
(***************************************************************************)
(* What the pool promises of the blocks it finds: a row of the blocks      *)
(* table stands for one block that its chain has accepted.  PoolWork       *)
(* implements this.                                                        *)
(***************************************************************************)
EXTENDS Naturals

VARIABLES
    accepted,   \* the pool's blocks that their chains have accepted
    rows        \* the number of rows for each of them

vars == <<accepted, rows>>

Init ==
    /\ accepted = {}
    /\ rows = [b \in {} |-> 0]

\* A chain takes a block, for which there is no row yet.
Accept(b) ==
    /\ b \notin accepted
    /\ accepted' = accepted \cup {b}
    /\ rows' = [a \in accepted' |-> IF a = b THEN 0 ELSE rows[a]]

Record(b) ==
    /\ rows[b] = 0
    /\ rows' = [rows EXCEPT ![b] = 1]
    /\ UNCHANGED accepted

\* The block is known by what was submitted: any new value will do.
Next ==
    \/ \E b \in accepted' : Accept(b)
    \/ \E b \in accepted : Record(b)

Spec == Init /\ [][Next]_vars

=============================================================================
