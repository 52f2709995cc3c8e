--------------------------- MODULE ShareWeighing ---------------------------
(***************************************************************************)
(* What a share is worth (pool/share.go, bitcoin/target.go).  Hashes and   *)
(* targets are numbers up to HighestTarget; a difficulty is a rational     *)
(* <<n, d>>.                                                               *)
(***************************************************************************)
EXTENDS Integers, Sequences

HighestTarget == 65535

shareInvalid == 0
shareValid == 1
shareCandidate == 2

TargetFromDifficulty(difficulty) == (HighestTarget * difficulty[2]) \div difficulty[1]
ToDifficulty(target) == <<HighestTarget, target>>

Candidate(sum, targets) == {i \in DOMAIN targets : sum <= targets[i]}

\* The targets are the primary's and those of the aux chains.
Status(sum, targets, poolTarget) ==
    IF Candidate(sum, targets) # {} THEN shareCandidate
    ELSE IF sum <= poolTarget THEN shareValid ELSE shareInvalid

ValidateAndWeighShare(sum, targets, poolDifficulty) ==
    LET poolTarget == TargetFromDifficulty(poolDifficulty)
    IN  [status |-> Status(sum, targets, poolTarget),
         candidate |-> Candidate(sum, targets),
         difficulty |-> ToDifficulty(poolTarget)]

=============================================================================
