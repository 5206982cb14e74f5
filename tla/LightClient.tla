---------------------------- MODULE LightClient ----------------------------
(***************************************************************************)
(* A light client walking a chain: Service.VerifyBlock against a trust     *)
(* anchor, and the key resolution behind it (pkg/lightclient/service.go,   *)
(* config.go).  The full nodes are one chain that grows by the blocks      *)
(* RunCycle makes; what the client is shown is any of these blocks, a      *)
(* damaged copy of one, or a candidate of the same height that too few     *)
(* validators signed.                                                      *)
(*                                                                         *)
(* A key is the pair of the validator and the name of the key: a           *)
(* signature is attributed by the key that verifies it.  A rotation body   *)
(* names the key its SignatureOld was made with; the hash and the          *)
(* signature of the new key (rule 2) depend on the body alone, and bodies  *)
(* that fail them are left out.  uint64 cycles wrap at Wrap.               *)
(***************************************************************************)
EXTENDS PrepareQuorum, KeyHistory, SequencesExt

CONSTANTS
    Node,                 \* the validators
    Order,                \* the order of e.peers on each node
    ClientOrder,          \* the order of the validators in the trust anchor
    SignerSets,           \* who may have signed a block
    Proposers,            \* who may have proposed one
    Body,                 \* KeyRotationEntry values: submitter, signedBy,
                          \*   newKey, effective, expiry
    Offered,              \* the bodies that full nodes may be asked to record
    KeyRotationLeadTime,  \* Config.KeyRotationLeadTime
    MinKeyOverlap,        \* Config.MinKeyOverlap
    DegradedThreshold,    \* below it one signature finalises a block
    MaxBlocks,            \* bound on the length of the chain
    Wrap                  \* a uint64 cycle counts modulo this

\* What the constants must satisfy.
LightAssumption ==
    /\ IsFiniteSet(Node)
    /\ Order \in [Node -> Seq(Node)]
    /\ Offered \subseteq Body
    /\ {KeyRotationLeadTime, MinKeyOverlap, DegradedThreshold, MaxBlocks} \subseteq Nat
    /\ Wrap \in Nat \ {0}

None == [none |-> TRUE]

VARIABLES
    chain,      \* the blocks of the full nodes
    recorded,   \* the rotations the full nodes have recorded, in order
    accepted,   \* the blocks the client has verified, its anchor the last one
    crashed     \* VerifyBlock indexed outside the trusted set

vars == <<chain, recorded, accepted, crashed>>

Init ==
    /\ chain = <<>>
    /\ recorded = <<>>
    /\ accepted = <<>>
    /\ crashed = FALSE

-----------------------------------------------------------------------------
\* The key history of a validator, from a list of the rotations of all.
HistoryOf(v, list) == SelectSeq(list, LAMBDA b : b.submitter = v)

cycleKeysOf(v, list, cycle) ==
    {<<v, k>> : k \in GetActivePublicKey(HistoryOf(v, list), cycle)}

\* Rule 4, in uint64 arithmetic.
LongEnough(b) == b.expiry >= (b.effective + MinKeyOverlap) % Wrap

\* Validate, on the full nodes.
Validate(list, cycle, b) ==
    LET history == HistoryOf(b.submitter, list)
    IN  /\ b.signedBy \in GetActivePublicKey(history, authorisingCycle(b))
        /\ b.effective >= cycle + KeyRotationLeadTime
        /\ LongEnough(b)
        /\ StrictlyNewer(history, b)

RegisteredKeys(order) == [i \in DOMAIN order |-> <<order[i], RegisteredKey>>]

requiredQuorum(n) == IF n < DegradedThreshold THEN 1 ELSE quorumRequired(n)

\* What the proposer p makes of the signatures of the signers: engines sign
\* with the registered key, and bitmap and payload follow p's order of e.peers.
Sealed(p, signers, index, prev, anchored) ==
    LET order == Order[p]
        bare == [version |-> 2, index |-> index, prev |-> prev, root |-> index,
                 proposer |-> p, anchored |-> anchored, validators |-> order,
                 degraded |-> FALSE]
        hash == ComputeBlockHash(bare)
        bitmap == PrepareBitmap(order, signers)
        block == bare @@ [hash |-> hash, bitmap |-> bitmap,
                          sigs |-> CompactSigs(RegisteredKeys(order), bitmap, hash),
                          commit |-> SignDilithium(<<p, RegisteredKey>>, hash)]
    IN  IF Cardinality(Node) < DegradedThreshold
        THEN TrimToOne(block, RegisteredKeys(order)) ELSE block

PrevHash(blocks) == IF blocks = <<>> THEN <<>> ELSE Last(blocks).hash

\* RunCycle on the full nodes, seen from outside: a block whose signers reach
\* the quorum under the keys of its height, anchoring at most one rotation.
\* A small network enters degraded mode with its first block.
\* The attempt counter that the lead time is measured with is at least the height.
RunCycle(p, signers, rotation) ==
    LET cycle == Len(chain)
    IN  /\ cycle < MaxBlocks
        /\ p \in signers
        /\ \A v \in signers : <<v, RegisteredKey>> \in cycleKeysOf(v, recorded, cycle)
        /\ Cardinality(signers) >= IF cycle = 0 THEN quorumRequired(Cardinality(Node))
                                   ELSE requiredQuorum(Cardinality(Node))
        /\ rotation \in {None} \cup {b \in Offered : Validate(recorded, cycle, b)}
        /\ chain' = Append(chain, Sealed(p, signers, cycle, PrevHash(chain), rotation))
        /\ recorded' = IF rotation = None THEN recorded ELSE Append(recorded, rotation)
        /\ UNCHANGED <<accepted, crashed>>

-----------------------------------------------------------------------------
\* admitRotation: rules 1 and 4, and rule 5 in RecordRotation.  The cycle
\* before the effective one is computed without a test for zero.
admitRotation(list, b) ==
    LET history == HistoryOf(b.submitter, list)
    IN  /\ b.signedBy \in GetActivePublicKey(history, (b.effective + Wrap - 1) % Wrap)
        /\ LongEnough(b)
        /\ StrictlyNewer(history, b)

\* newKeyResolver admits the rotations of the anchor in order and passes over
\* the ones it refuses.
newKeyResolver(rotations) ==
    FoldLeft(LAMBDA list, b : IF admitRotation(list, b) THEN Append(list, b) ELSE list,
             <<>>, rotations)

checkValidatorSet(declared, trusted) ==
    Len(declared) = Len(trusted) /\ Range(trusted) \subseteq Range(declared)

\* The k-th set bit of the bitmap.
signerAt(bitmap, k) == CHOOSE i \in bitmap : countBitsBefore(bitmap, i) = k - 1

\* Mutant: the block's own label decides the quorum.
RequiredByLabel(b) == IF b.degraded THEN 1 ELSE quorumRequired(Len(ClientOrder))

requiredOf(b) == requiredQuorum(Len(ClientOrder))

\* anchor.Rotations: the rotations of the blocks already verified.
learned ==
    SelectSeq([i \in DOMAIN accepted |-> accepted[i].anchored], LAMBDA r : r # None)

VerifiedBy(v, b, sig) ==
    \E pk \in cycleKeysOf(v, newKeyResolver(learned), b.index) :
        VerifyDilithium(pk, b.hash, sig)

\* The outcome of the signature loop: it ends at the first payload entry that
\* has no validator, or whose validator did not make it.
CheckSignatures(b) ==
    LET outside(k) == signerAt(b.bitmap, k) > Len(ClientOrder)
        bad(k) == outside(k) \/ ~VerifiedBy(ClientOrder[signerAt(b.bitmap, k)], b, b.sigs[k])
        failing == {k \in DOMAIN b.sigs : bad(k)}
        first == CHOOSE k \in failing : \A j \in failing : k <= j
    IN  IF failing = {} THEN "ok"
        ELSE IF outside(first) THEN "panic" ELSE "ErrBadSignature"

\* A nil anchor hash accepts only the first block; otherwise the block must be
\* the next one and name the hash of the anchor.
ChainsOn(b) ==
    IF accepted = <<>> THEN b.index = 0
    ELSE b.index = Last(accepted).index + 1 /\ b.prev = Last(accepted).hash

HashMatches(b) == ComputeBlockHash(b) = b.hash

\* The checks of VerifyBlock, the first that fails deciding.
VerifyBlock(b) ==
    IF b.version # 2 THEN "ErrUnsupportedVersion"
    ELSE IF ~ChainsOn(b) THEN "ErrChainBreak"
    ELSE IF ~checkValidatorSet(b.validators, ClientOrder) THEN "ErrValidatorSetMismatch"
    ELSE IF ~HashMatches(b) THEN "ErrBlockHashMismatch"
    ELSE IF b.proposer \notin Range(ClientOrder) THEN "ErrUnknownProposer"
    ELSE IF Cardinality(b.bitmap) # Len(b.sigs) THEN "ErrBitmapMismatch"
    ELSE IF Len(ClientOrder) < DegradedThreshold /\ ~b.degraded THEN "ErrDegradedNotAnnounced"
    ELSE IF Cardinality(b.bitmap) < requiredOf(b) THEN "ErrQuorumNotMet"
    ELSE IF CheckSignatures(b) # "ok" THEN CheckSignatures(b)
    ELSE IF ~VerifiedBy(b.proposer, b, b.commit) THEN "ErrBadSignature"
    ELSE "ok"

-----------------------------------------------------------------------------
OtherBatch == [none |-> FALSE]

Rehashed(b) == [b EXCEPT !.hash = ComputeBlockHash(b)]

\* Copies of a block with one field wrong, or with a signature left out.
Damaged(b) ==
    LET top == CHOOSE i \in b.bitmap : \A j \in b.bitmap : j <= i
        other == [b EXCEPT !.anchored = OtherBatch]
    IN  {[b EXCEPT !.version = 1],
         [b EXCEPT !.index = @ + 1],
         Rehashed([b EXCEPT !.prev = <<>>]),
         other, Rehashed(other),
         [b EXCEPT !.validators = Front(@)],
         [b EXCEPT !.validators = Append(Front(@), Head(@))],
         [b EXCEPT !.bitmap = @ \ {top}],
         [b EXCEPT !.bitmap = @ \ {top}, !.sigs = Front(@), !.degraded = TRUE],
         [b EXCEPT !.bitmap = (@ \ {top}) \cup {Len(Order[b.proposer]) + 1}],
         [b EXCEPT !.sigs = Reverse(@)],
         [b EXCEPT !.commit = b.sigs[1]],
         [b EXCEPT !.degraded = FALSE]}

\* Validators whose registered key the network accepts in a cycle.
Counted(signers, cycle) ==
    {v \in signers : <<v, RegisteredKey>> \in cycleKeysOf(v, recorded, cycle)}

\* Candidates of the client's next height that missed the quorum, and the same
\* with the last signature repeated under as many bits as a quorum has.
Candidates ==
    LET cycle == Len(accepted)
        short == {<<p, S>> \in Proposers \X (SUBSET Node \ {{}}) :
                      Cardinality(Counted(S, cycle)) < requiredQuorum(Cardinality(Node))}
        made == {Sealed(x[1], x[2], cycle, PrevHash(accepted), OtherBatch) : x \in short}
        quorum == 1..quorumRequired(Cardinality(Node))
    IN  made \cup {[b EXCEPT !.bitmap = quorum, !.sigs = [i \in quorum |-> Last(b.sigs)]] : b \in made}

Presented ==
    Range(chain) \cup UNION {Damaged(chain[i]) : i \in DOMAIN chain} \cup Candidates

\* The client moves its anchor to a block that verifies.
Follow(b) ==
    /\ ~crashed
    /\ VerifyBlock(b) = "ok"
    /\ accepted' = Append(accepted, b)
    /\ UNCHANGED <<chain, recorded, crashed>>

\* A payload entry whose bit is past the trusted set.
FallOver(b) ==
    /\ ~crashed
    /\ VerifyBlock(b) = "panic"
    /\ crashed' = TRUE
    /\ UNCHANGED <<chain, recorded, accepted>>

Next ==
    \/ \E p \in Proposers, S \in SignerSets, r \in Offered \cup {None} : RunCycle(p, S, r)
    \/ \E b \in Presented : Follow(b) \/ FallOver(b)

Spec == Init /\ [][Next]_vars

-----------------------------------------------------------------------------
\* The type of the state: indices count the blocks of both chains, and the
\* client's rotations are bodies (TrustAnchor).
LcTypeOK ==
    /\ \A i \in DOMAIN chain : chain[i].index = i - 1 /\ HashMatches(chain[i])
    /\ \A i \in DOMAIN accepted : accepted[i].index = i - 1
    /\ Range(recorded) \subseteq Offered
    /\ crashed \in BOOLEAN

\* What the client has accepted is a prefix of the chain, whatever damaged copies
\* and candidates it was shown (VerifyBlock: linkage, hash, quorum, signatures).
AcceptedOnChain ==
    /\ Len(accepted) <= Len(chain)
    /\ \A i \in DOMAIN accepted : ComputeBlockHash(accepted[i]) = chain[i].hash

\* Behind every block the client accepted, a quorum of validators signed it with
\* keys that the full nodes hold authoritative at its height: no label, bitmap or
\* repeated signature makes up for one (VerifyBlock 296-359).
QuorumBehind ==
    \A i \in DOMAIN accepted :
        Cardinality({v \in Node : \E k \in DOMAIN accepted[i].sigs :
                         \E pk \in cycleKeysOf(v, recorded, accepted[i].index) :
                             VerifyDilithium(pk, accepted[i].hash, accepted[i].sigs[k])})
            >= requiredQuorum(Cardinality(Node))

\* The next block of the chain verifies for a client that has come this far: a
\* block the network finalised is never refused (VerifyBlock against RunCycle).
GenuineAccepted ==
    Len(accepted) < Len(chain) => VerifyBlock(chain[Len(accepted) + 1]) = "ok"

\* At the height it verifies next, the client resolves the keys of every
\* validator as the full nodes do, although it starts from the rotations of the
\* blocks it has seen and applies no lead time (keyResolver against
\* KeyRotationValidator).
KeysAgree ==
    \A v \in Node : cycleKeysOf(v, newKeyResolver(learned), Len(accepted))
                        = cycleKeysOf(v, recorded, Len(accepted))

\* admitRotation decides like rules 1, 4 and 5 of Validate on every body, an
\* effective cycle of zero and one near the end of uint64 included.
AdmissionAgrees ==
    LET list == newKeyResolver(learned)
    IN  \A b \in Body :
            LET history == HistoryOf(b.submitter, list)
            IN  admitRotation(list, b)
                    <=> /\ b.signedBy \in GetActivePublicKey(history, authorisingCycle(b))
                        /\ LongEnough(b)
                        /\ StrictlyNewer(history, b)

\* Verification never reaches outside the trusted validator set: "Bits beyond the
\* validator set name no one ... the caller bounds the result" (service.go:552).
BitsBounded == ~crashed

=============================================================================
