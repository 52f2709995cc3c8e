--------------------------- MODULE BlockAssembly ---------------------------
(***************************************************************************)
(* From a block template to the work of a miner, and from a submission to  *)
(* a block (bitcoin/generator.go, coinbase.go, encoding.go, header.go,     *)
(* submission.go, transaction.go).                                         *)
(*                                                                         *)
(* Byte strings are sequences of numbers.  Bytes that never vary are left  *)
(* out at both ends of the coinbase; the transactions are leaves of the    *)
(* Merkle tree.  A conversion that panics has the value Panics.            *)
(***************************************************************************)
EXTENDS MerkleTrees

Panics == <<-1>>

Zero(n) == [i \in 1 .. n |-> 0]

-----------------------------------------------------------------------------
(* encoding.go *)

\* of a value of at most 31 bits
LittleEndian(value, n) ==
    [i \in 1 .. n |-> IF i > 4 THEN 0 ELSE (value \div 256 ^ (i - 1)) % 256]

VarUint(value) ==
    CASE value <= 252 -> <<value>>
      [] value > 253 /\ value <= 65535 -> <<253>> \o LittleEndian(value, 2)
      [] value > 65535 -> <<254>> \o LittleEndian(value, 4)
      [] OTHER -> Panics

BytesWithLengthHeader(bytes) == <<Len(bytes) % 256>> \o bytes

\* reverse, reverseHexBytes
ReverseBytes(bytes) == Reverse(bytes)

\* reverseHex4Bytes reverses the order of the words, not the bytes of a word.
ReverseHex4BytesMutant(bytes) == Reverse(bytes)
ReverseHex4Bytes(bytes) ==
    LET words == Len(bytes) \div 4
    IN  [i \in 1 .. Len(bytes) |->
            bytes[4 * (words - 1 - ((i - 1) \div 4)) + ((i - 1) % 4) + 1]]

-----------------------------------------------------------------------------
(* coinbase.go, transaction.go *)

EncodeNumber(n) ==
    LET l == 1 + Cardinality({k \in 0 .. 2 : n \div 256 ^ k > 127})
    IN  IF n \in 1 .. 16 THEN <<80 + n>> ELSE <<l>> \o LittleEndian(n, l)

CoinbaseInitial(template, arbitraryByteLength) ==
    LET heightBytes == EncodeNumber(template.height)
        declared == VarUint(arbitraryByteLength + Len(heightBytes))
    IN  IF declared = Panics THEN Panics ELSE declared \o heightBytes

TransactionOut(amount, pubScriptKey) ==
    LittleEndian(amount, 8) \o VarUint(Len(pubScriptKey)) \o pubScriptKey

\* The whole reward goes to three outputs: the hash of the pool's key script,
\* the script itself, and two bytes AAAA.
Witness == Zero(38)
PubKeyHashScript == Zero(25)
TestScript == <<170, 170>>
OutputsCount(template) == IF template.witness THEN 4 ELSE 3
Outputs(template) ==
    (IF template.witness THEN TransactionOut(0, Witness) ELSE <<>>) \o
    TransactionOut(template.value, PubKeyHashScript) \o
    TransactionOut(template.value, template.poolScript) \o
    TransactionOut(template.value, TestScript)

CoinbaseFinal(template) ==
    Zero(4) \o VarUint(OutputsCount(template)) \o Outputs(template) \o Zero(4)

-----------------------------------------------------------------------------
(* generator.go, header.go, submission.go *)

Extranonce1Length == 4
Extranonce2Length == 4
ReservedLength == 8

\* GenerateWork
Generated(template) ==
    LET arbitrary == BytesWithLengthHeader(template.arbitrary)
    IN  [coinbaseInitial |-> CoinbaseInitial(template, Len(arbitrary) + ReservedLength),
         coinbaseFinal |-> arbitrary \o CoinbaseFinal(template),
         merkleSteps |-> TemplateMerkleBranchSteps(template.transactions)]

Work(template) ==
    LET block == Generated(template)
    IN  <<"job", ReverseHex4Bytes(template.prevBlockHash), block.coinbaseInitial,
          block.coinbaseFinal, block.merkleSteps,
          ReverseBytes(LittleEndian(template.version, 4)), template.bits,
          ReverseBytes(LittleEndian(template.curTime, 4))>>

\* Submissions: worker, job, extranonce2, nonceTime, nonce
Extranonce2Slot == 3
NonceTimeSlot == 4
NonceSlot == 5

CoinbaseDigest(coinbase) == Leaf(coinbase)
MadeCoinbase(template, extranonce) ==
    LET block == Generated(template)
    IN  block.coinbaseInitial \o extranonce \o block.coinbaseFinal

\* blockHeader
BlockHeader(version, previousBlockHash, merkleRoot, nonceTime, bits, nonce) ==
    <<LittleEndian(version, 4), ReverseBytes(previousBlockHash), merkleRoot,
      ReverseBytes(nonceTime), ReverseBytes(bits), ReverseBytes(nonce)>>

MakeHeader(template, extranonce, nonce, nonceTime) ==
    BlockHeader(template.version, template.prevBlockHash,
        MakeHeaderMerkleRoot(CoinbaseDigest(MadeCoinbase(template, extranonce)),
                             Generated(template).merkleSteps),
        nonceTime, template.bits, nonce)

\* What recieveWorkFromClient passes on from a share
HeaderOfShare(template, extranonce1, share) ==
    MakeHeader(template, extranonce1 \o share[Extranonce2Slot],
               share[NonceSlot], share[NonceTimeSlot])

\* createSubmissionHex and Submit: the count, the coinbase and the
\* transactions; the MimbleWimble block follows a byte 1.
Submission(template, extranonce) ==
    [count |-> VarUint(Len(template.transactions) + 1),
     transactions |-> <<MadeCoinbase(template, extranonce)>> \o template.transactions,
     mimbleWimble |-> IF template.mimbleWimble = <<>> THEN <<>>
                      ELSE <<1>> \o template.mimbleWimble]

-----------------------------------------------------------------------------
(* What miners and daemons do with them *)

\* A stratum miner joins the steps to the hash of its coinbase one by one, and
\* reverses the bytes of every word, and of the numbers.
SwapWords(bytes) == [i \in DOMAIN bytes |-> bytes[4 * ((i - 1) \div 4) + 4 - ((i - 1) % 4)]]
MinerHeader(work, extranonce1, share) ==
    LET coinbase == work[3] \o (extranonce1 \o share[3]) \o work[4]
    IN  <<ReverseBytes(work[6]), SwapWords(work[2]),
          MakeHeaderMerkleRoot(Leaf(coinbase), work[5]),
          ReverseBytes(share[4]), ReverseBytes(work[7]), ReverseBytes(share[5])>>

\* Reading back a number of up to four bytes, and how many bytes it took
Value(bytes) ==
    LET digit(i) == IF i <= Len(bytes) THEN bytes[i] * 256 ^ (i - 1) ELSE 0
    IN  digit(1) + digit(2) + digit(3) + digit(4)
Width(bytes) == IF bytes[1] < 253 THEN 1 ELSE IF bytes[1] = 253 THEN 3 ELSE 5
ReadVarUint(bytes) ==
    IF bytes[1] < 253 THEN bytes[1] ELSE Value(SubSeq(bytes, 2, Width(bytes)))
ReadHeight(bytes) ==
    IF bytes[1] \in 81 .. 96 THEN bytes[1] - 80 ELSE Value(SubSeq(bytes, 2, bytes[1] + 1))

From(bytes, n) == SubSeq(bytes, n, Len(bytes))

\* The rest of the coinbase after one more output
AfterOutput(bytes) == From(bytes, 9 + Width(From(bytes, 9)) + ReadVarUint(From(bytes, 9)))
AfterOutputs(bytes, n) ==
    LET rest[k \in 0 .. n] == IF k = 0 THEN bytes ELSE AfterOutput(rest[k - 1])
    IN  rest[n]

\* The coinbase is read to its last byte: script, sequence, outputs, lock time.
CoinbaseParses(coinbase, height) ==
    LET script == SubSeq(coinbase, Width(coinbase) + 1,
                         Width(coinbase) + ReadVarUint(coinbase))
        outputs == From(coinbase, Width(coinbase) + ReadVarUint(coinbase) + 5)
    IN  /\ ReadHeight(script) = height
        /\ Len(AfterOutputs(From(outputs, Width(outputs) + 1), ReadVarUint(outputs))) = 4

=============================================================================
