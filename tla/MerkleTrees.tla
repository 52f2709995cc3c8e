---------------------------- MODULE MerkleTrees ----------------------------
(***************************************************************************)
(* The Merkle trees of the transactions and of the aux chains              *)
(* (bitcoin/merkle.go, auxMerkelBranch.go, auxpow.go, pool/work.go).       *)
(*                                                                         *)
(* Hashes are free: a leaf is a 1-tuple, and the hash of two hashes is the *)
(* pair of them.                                                           *)
(***************************************************************************)
EXTENDS Integers, Sequences, SequencesExt, FiniteSets

Leaf(x) == <<x>>
Join(one, two) == <<one, two>>

\* The hashes two by two
Joined(level) ==
    [i \in 1 .. Len(level) \div 2 |-> Join(level[2 * i - 1], level[2 * i])]

\* The last of an odd number goes with itself.
Paired(level) ==
    Joined(IF Len(level) % 2 = 1 THEN Append(level, Last(level)) ELSE level)

\* A level, the level that Up makes of it, and so on
Levels(Up(_), level) ==
    LET levels[k \in 0 .. Len(level)] == IF k = 0 THEN level ELSE Up(levels[k - 1])
    IN  levels

\* The loops end at the first level that is no longer than length.
LoopEnd(levels, length) ==
    CHOOSE k \in DOMAIN levels :
        Len(levels[k]) <= length /\ \A j \in 0 .. k - 1 : Len(levels[j]) > length

-----------------------------------------------------------------------------
(* The transactions *)

\* templateMerkleBranchSteps: the first hash of a level is the sibling of the
\* coinbase's branch; the others are joined into the next level.
Others(level) == Paired(Tail(level))
TemplateMerkleBranchSteps(transactionIDs) ==
    LET levels == Levels(Others, transactionIDs)
    IN  [k \in 1 .. LoopEnd(levels, 0) |-> Head(levels[k - 1])]

MakeHeaderMerkleRoot(coinbase, merkleBranchSteps) ==
    LET root[k \in 0 .. Len(merkleBranchSteps)] ==
            IF k = 0 THEN coinbase ELSE Join(root[k - 1], merkleBranchSteps[k])
    IN  root[Len(merkleBranchSteps)]

\* The levels of the tree over some leaves, and its root, as the chain
\* computes it
TreeLevels(leaves) == Levels(Paired, leaves)
MerkleRoot(leaves) ==
    LET levels == TreeLevels(leaves)
    IN  levels[LoopEnd(levels, 1)][1]

-----------------------------------------------------------------------------
(* The aux chains: a sequence of records [chainID, hash] *)

\* The linear congruence of getExpectedIndex, whose lower bits do not depend
\* on the upper ones.
GetExpectedIndex(chainID) == ((((12345 % 16) + chainID) * 13) + 12345) % 16

\* BuildMerkleLeaf.  The slots are numbered from 0; a chain takes the slot
\* from another one before it, and an index beyond the slots panics: that of
\* a chain, or the number of its aux block, which is looked at first.
Fits(merkleSize, auxblocks) ==
    /\ Len(auxblocks) <= merkleSize
    /\ \A i \in DOMAIN auxblocks : GetExpectedIndex(auxblocks[i].chainID) < merkleSize

Zeros == Leaf(0)
BuildMerkleLeaf(merkleSize, auxblocks) ==
    LET takers(slot) ==
          {i \in DOMAIN auxblocks : GetExpectedIndex(auxblocks[i].chainID) = slot}
    IN  [k \in 1 .. merkleSize |->
            IF takers(k - 1) = {} THEN Zeros
            ELSE auxblocks[CHOOSE i \in takers(k - 1) :
                             \A j \in takers(k - 1) : j <= i].hash]

\* buildMerkleRoot of pool/work.go
BuildMerkleRoot(merkleSize, auxblocks) == MerkleRoot(BuildMerkleLeaf(merkleSize, auxblocks))

\* buildMerkleBranchesAndMask: the slot whose hash is the n-th chain's, or the
\* first slot and no mask when there is none.
SearchedIndex(merkleSize, auxblocks, n) ==
    LET slots == BuildMerkleLeaf(merkleSize, auxblocks)
        found == {k \in DOMAIN slots : slots[k] = auxblocks[n].hash}
    IN  IF found = {} THEN 0 ELSE (CHOOSE k \in found : \A l \in found : l <= k) - 1

Shifted(index, k) == index \div 2 ^ k
SiblingMutant(index) == IF index % 2 = 0 THEN index + 1 ELSE index
Sibling(index) == IF index % 2 = 0 THEN index + 1 ELSE index - 1

MerkleBranch(merkleSize, auxblocks, n) ==
    LET levels == TreeLevels(BuildMerkleLeaf(merkleSize, auxblocks))
        index == SearchedIndex(merkleSize, auxblocks, n)
    IN  [k \in 1 .. LoopEnd(levels, 1) |->
            levels[k - 1][Sibling(Shifted(index, k - 1)) + 1]]

\* "0%d000000" is the index in little-endian bytes for one digit; with two it
\* is no hexadecimal number of bytes.
NoMask == -1
MerkleMask(merkleSize, auxblocks, n) ==
    LET index == SearchedIndex(merkleSize, auxblocks, n)
    IN  IF /\ BuildMerkleLeaf(merkleSize, auxblocks)[index + 1] = auxblocks[n].hash
           /\ index <= 9
        THEN index ELSE NoMask

\* The sizes that createMergedMiningCoinbase puts in the coinbase and that
\* makeAuxChainMerkleBranch puts in the proof.
CoinbaseTreeSize == 16
BranchTreeSize == 8

\* What the aux daemon does with a proof: it folds the branch, left or right
\* by the bits of the mask, and compares with the root in the coinbase.
Folded(hash, branch, mask) ==
    LET acc[k \in 0 .. Len(branch)] ==
            IF k = 0 THEN hash
            ELSE IF Shifted(mask, k - 1) % 2 = 1 THEN Join(branch[k], acc[k - 1])
            ELSE Join(acc[k - 1], branch[k])
    IN  acc[Len(branch)]
Verifies(rootSize, branchSize, auxblocks, n) ==
    LET branch == MerkleBranch(branchSize, auxblocks, n)
        mask == MerkleMask(branchSize, auxblocks, n)
    IN  /\ mask # NoMask
        /\ 2 ^ Len(branch) = rootSize
        /\ mask = GetExpectedIndex(auxblocks[n].chainID)
        /\ Folded(auxblocks[n].hash, branch, mask) = BuildMerkleRoot(rootSize, auxblocks)

=============================================================================
