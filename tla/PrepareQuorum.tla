--------------------------- MODULE PrepareQuorum ---------------------------
(***************************************************************************)
(* The signature arithmetic of a block: how many PREPARE signatures a     *)
(* quorum needs, how the leader compacts the signatures of the signers     *)
(* behind a positional bitmap, how a validator reads the two fields back,  *)
(* and how degraded mode trims them (pkg/consensus prepare.go, commit.go,  *)
(* degraded.go).                                                           *)
(*                                                                         *)
(* A bitmap is the set of its set positions, counted from 1.  A signature  *)
(* is the pair of its signer and the hash it covers: Dilithium is assumed  *)
(* unforgeable and a hash is its own preimage.                             *)
(***************************************************************************)
EXTENDS Naturals, Sequences, FiniteSets

\* ceil(2N/3) in integer arithmetic.
quorumRequired(n) == (2 * n + 2) \div 3

SignDilithium(signer, hash) == [signer |-> signer, hash |-> hash]

VerifyDilithium(signer, hash, sig) == sig = SignDilithium(signer, hash)

\* ComputeBlockHash covers the chain so far and the block's own contents.  It
\* leaves out the signatures, the bitmap and the metadata, so a candidate and
\* the final block made from it have one hash.
ComputeBlockHash(b) ==
    Append(b.prev, [index |-> b.index, proposer |-> b.proposer,
                    anchored |-> b.anchored, root |-> b.root])

\* The positions, in the local order of e.peers, of the peers that signed.
PrepareBitmap(peers, signers) == {i \in DOMAIN peers : peers[i] \in signers}

countBitsBefore(bitmap, i) == Cardinality({j \in bitmap : j < i})

\* Mutant: the payload in descending order of the set bits.
CompactSigsDescending(peers, bitmap, hash) ==
    [k \in 1..Cardinality(bitmap) |->
        SignDilithium(peers[CHOOSE i \in bitmap :
                                countBitsBefore(bitmap, i) = Cardinality(bitmap) - k], hash)]

\* The payload: the signature of the k-th set bit is the k-th element.
CompactSigs(peers, bitmap, hash) ==
    [k \in 1..Cardinality(bitmap) |->
        SignDilithium(peers[CHOOSE i \in bitmap : countBitsBefore(bitmap, i) = k - 1], hash)]

\* Position i of the bitmap carries a signature by the i-th peer of the reader.
SigVerifies(b, peers, i) ==
    LET sigIndex == countBitsBefore(b.bitmap, i)
    IN  /\ sigIndex < Len(b.sigs)
        /\ VerifyDilithium(peers[i], ComputeBlockHash(b), b.sigs[sigIndex + 1])

\* A block that carries the degraded label is accepted with one signature.
RequiredIn(b, peers) == IF b.degraded THEN 1 ELSE quorumRequired(Len(peers))

\* One bad signature refuses the block, whatever the others say.
verifyPrepareQuorum(b, peers) ==
    LET claimed == b.bitmap \cap DOMAIN peers
    IN  /\ \A i \in claimed : SigVerifies(b, peers, i)
        /\ Cardinality(claimed) >= RequiredIn(b, peers)

\* The positions whose signature verifies, for the trimming of degraded mode.
ValidPositions(b, peers) == {i \in b.bitmap \cap DOMAIN peers : SigVerifies(b, peers, i)}

\* Degraded mode keeps the first valid signature, rewrites the bitmap to
\* describe it, and labels the block.
TrimToOne(b, peers) ==
    LET i == CHOOSE i \in ValidPositions(b, peers) :
                 \A j \in ValidPositions(b, peers) : i <= j
    IN  [b EXCEPT !.bitmap = {i},
                  !.sigs = <<b.sigs[countBitsBefore(b.bitmap, i) + 1]>>,
                  !.degraded = TRUE]

=============================================================================
