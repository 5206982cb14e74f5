---------------------------- MODULE KeyRotation ----------------------------
(***************************************************************************)
(* Validator key rotation: the rotation entries of                         *)
(* pkg/chain/key_rotation.go, the five rules and the key history of        *)
(* pkg/validation/key_rotation.go, and their use by the engine             *)
(* (pkg/consensus key_rotation.go, and engine.go RunCycle).                *)
(*                                                                         *)
(* Two clocks matter.  The lead time of a rotation is measured against     *)
(* e.state.Cycle, which counts attempts, aborted and skipped ones          *)
(* included; signatures are verified with the keys of a block height.      *)
(*                                                                         *)
(* Data: an entry is its body, which is what its hash commits to.  A       *)
(* signature is the key that made it.  Entries that are not rotations are  *)
(* left out: a cycle with no rotation pending may be empty or not.  Of the *)
(* consensus of one cycle only what keys decide is kept: whose signatures  *)
(* count, and which entries the block anchors.                             *)
(***************************************************************************)
EXTENDS PrepareQuorum, KeyHistory, Functions

CONSTANTS
    Node,                 \* the validators, each running one engine
    Body,                 \* KeyRotationEntry values: submitter, signedBy,
                          \*   newKey, effective, expiry
    KeyRotationLeadTime,  \* Config.KeyRotationLeadTime
    MinKeyOverlap,        \* Config.MinKeyOverlap
    MinValidators,        \* Config.MinValidators
    MaxBlocks,            \* bound: no cycle starts on a chain this long
    MaxIdle,              \* bound on the attempts of a node that make no block
    MaxSubmissions,       \* bound on the rotations clients submit
    MaxRestarts           \* bound on restarts

ASSUME RotationAssumption ==
    /\ IsFiniteSet(Node)
    /\ KeyRotationLeadTime \in Nat \ {0}
    /\ MinKeyOverlap \in Nat
    /\ MinValidators \in Nat
    /\ {MaxBlocks, MaxIdle, MaxSubmissions, MaxRestarts} \subseteq Nat
    /\ \A b \in Body : /\ b.submitter \in Node
                       /\ b.effective \in Nat
                       /\ b.expiry \in Nat

None == [none |-> TRUE]

VARIABLES
    pc,              \* "idle", or where RunCycle stands while it holds e.mu
    clock,           \* e.state.Cycle
    height,          \* len(e.blocks)
    anchored,        \* the rotations anchored in e.blocks
    degraded,        \* e.degraded.inDegraded
    currentCycle,    \* keyRotationValidator.currentCycle
    rotations,       \* keyRotationValidator.rotations, per validator
    keyRotationBodies, \* e.keyRotationBodies
    submitting,      \* the SubmitKeyRotation call in flight, and its stage
    pending,         \* e.pending
    pendingEntries,  \* e.pendingEntries
    todo,            \* the entries RunCycle has still to admit
    pool,            \* the entries on the bus
    proofs,          \* who has published a VRF proof for each cycle
    proposals,       \* the candidate of each cycle: its entries
    sigs,            \* who has published a PREPARE signature for it
    finals,          \* B_final of each cycle: entries and signers
    leader,          \* who wins the election of each cycle
    submissions,     \* how many rotations were submitted
    restarts         \* how many restarts happened

engine == <<clock, height, anchored, degraded, currentCycle, rotations,
            keyRotationBodies, pending, pendingEntries>>
bus == <<pool, proofs, proposals, sigs, finals>>
bounds == <<submissions, restarts>>
vars == <<pc, engine, submitting, todo, bus, leader, bounds>>

Cycles == 0..(MaxBlocks - 1)

Init ==
    /\ pc = [n \in Node |-> "idle"]
    /\ clock = [n \in Node |-> 0]
    /\ height = [n \in Node |-> 0]
    /\ anchored = [n \in Node |-> {}]
    /\ degraded = [n \in Node |-> FALSE]
    /\ currentCycle = [n \in Node |-> 0]
    /\ rotations = [n \in Node |-> [v \in Node |-> <<>>]]
    /\ keyRotationBodies = [n \in Node |-> {}]
    /\ submitting = [n \in Node |-> None]
    /\ pending = [n \in Node |-> <<>>]
    /\ pendingEntries = [n \in Node |-> <<>>]
    /\ todo = [n \in Node |-> <<>>]
    /\ pool = <<>>
    /\ proofs = [c \in Cycles |-> {}]
    /\ proposals = [c \in Cycles |-> None]
    /\ sigs = [c \in Cycles |-> {}]
    /\ finals = [c \in Cycles |-> None]
    /\ leader \in [Cycles -> Node]
    /\ submissions = 0
    /\ restarts = 0

-----------------------------------------------------------------------------
\* Mutant: the lead time is one cycle short.
ValidateShortLead(history, cycle, b) ==
    /\ b.signedBy \in GetActivePublicKey(history, authorisingCycle(b))
    /\ b.effective + 1 >= cycle + KeyRotationLeadTime
    /\ b.expiry >= b.effective + MinKeyOverlap
    /\ StrictlyNewer(history, b)

\* Validate: rule 1, and rules 3 to 5.  Rule 2, the label and the hash are
\* properties of the body alone, and bodies that fail them never get further.
Validate(history, cycle, b) ==
    /\ b.signedBy \in GetActivePublicKey(history, authorisingCycle(b))
    /\ b.effective >= cycle + KeyRotationLeadTime
    /\ b.expiry >= b.effective + MinKeyOverlap
    /\ StrictlyNewer(history, b)

\* RecordRotation inserts at the position sort.Search gives, which rule 5 makes
\* the end.
RecordRotation(n, b) ==
    rotations' = [rotations EXCEPT ![n][b.submitter] = Append(@, b)]

\* verifySignatureWithOverlap.  An engine signs with e.node.UID.SecretKey, which
\* nothing replaces, so the signature of v is one by its registered key.
SignatureVerifies(n, v, cycle) ==
    RegisteredKey \in GetActivePublicKey(rotations[n][v], cycle)

-----------------------------------------------------------------------------
\* SubmitKeyRotation takes e.mu to copy the cycle into the validator, lets it
\* go to run Validate, takes it again to store the body and, in Enqueue, once
\* more.
SyncForSubmit(n, b) ==
    /\ pc[n] = "idle"
    /\ submitting[n] = None
    /\ submissions < MaxSubmissions
    /\ submissions' = submissions + 1
    /\ currentCycle' = [currentCycle EXCEPT ![n] = clock[n]]
    /\ submitting' = [submitting EXCEPT ![n] = [body |-> b, stage |-> "validate"]]
    /\ UNCHANGED <<pc, clock, height, anchored, degraded, rotations, keyRotationBodies,
                   pending, pendingEntries, todo, bus, leader, restarts>>

\* RotateKey signs with the node's own key and submits.
RotateKey(n, b) == b.submitter = n /\ b.signedBy = RegisteredKey /\ SyncForSubmit(n, b)

\* A body signed elsewhere, with any key and for any validator.
SubmitKeyRotation(n, b) == SyncForSubmit(n, b)

AtStage(n, stage) == submitting[n] # None /\ submitting[n].stage = stage

ValidateSubmission(n) ==
    /\ AtStage(n, "validate")
    /\ LET b == submitting[n].body
       IN  submitting' = [submitting EXCEPT ![n] =
               IF Validate(rotations[n][b.submitter], currentCycle[n], b)
               THEN [body |-> b, stage |-> "store"] ELSE None]
    /\ UNCHANGED <<pc, engine, todo, bus, leader, bounds>>

StoreBody(n) ==
    /\ pc[n] = "idle"
    /\ AtStage(n, "store")
    /\ keyRotationBodies' = [keyRotationBodies EXCEPT ![n] = @ \cup {submitting[n].body}]
    /\ submitting' = [submitting EXCEPT ![n].stage = "enqueue"]
    /\ UNCHANGED <<pc, clock, height, anchored, degraded, currentCycle, rotations, pending,
                   pendingEntries, todo, bus, leader, bounds>>

\* Enqueue, which a full queue or the rate limiter makes refuse.
EnqueueSubmission(n) ==
    /\ pc[n] = "idle"
    /\ AtStage(n, "enqueue")
    /\ \/ /\ pending' = [pending EXCEPT ![n] = Append(@, submitting[n].body)]
          /\ pool' = Append(pool, submitting[n].body)
       \/ UNCHANGED <<pending, pool>>
    /\ submitting' = [submitting EXCEPT ![n] = None]
    /\ UNCHANGED <<pc, clock, height, anchored, degraded, currentCycle, rotations,
                   keyRotationBodies, pendingEntries, todo, proofs, proposals, sigs, finals,
                   leader, bounds>>

\* A peer's body arrives out of band, at any time e.mu is free, or never.
RecordRotationBody(n, b) ==
    /\ pc[n] = "idle"
    /\ \E m \in Node : b \in keyRotationBodies[m]
    /\ b \notin keyRotationBodies[n]
    /\ keyRotationBodies' = [keyRotationBodies EXCEPT ![n] = @ \cup {b}]
    /\ UNCHANGED <<pc, clock, height, anchored, degraded, currentCycle, rotations, submitting,
                   pending, pendingEntries, todo, bus, leader, bounds>>

-----------------------------------------------------------------------------
MayIdle(n) == clock[n] < height[n] + MaxIdle

\* The elements of s at the given positions, in their order.
At(s, positions) ==
    [k \in 1..Cardinality(positions) |->
        s[CHOOSE i \in positions : countBitsBefore(positions, i) = k - 1]]

\* What is left of a queue or of the pool when a block has anchored some entries.
Without(s, gone) == At(s, {i \in DOMAIN s : s[i] \notin gone})

\* ingestGossipedEntriesLocked: what this node does not hold yet, once.
Ingested(n) ==
    LET held == Range(pendingEntries[n]) \cup Range(pending[n])
    IN  pendingEntries[n] \o At(pool, {i \in DOMAIN pool : /\ pool[i] \notin held
                                                          /\ \A j \in 1..(i - 1) : pool[j] # pool[i]})

\* RunCycle with nothing pending.
SkipCycle(n) ==
    /\ pc[n] = "idle"
    /\ height[n] < MaxBlocks
    /\ MayIdle(n)
    /\ Ingested(n) \o pending[n] = <<>>
    /\ currentCycle' = [currentCycle EXCEPT ![n] = clock[n]]
    /\ clock' = [clock EXCEPT ![n] = @ + 1]
    /\ UNCHANGED <<pc, height, anchored, degraded, rotations, keyRotationBodies, submitting,
                   pending, pendingEntries, todo, bus, leader, bounds>>

AfterAdmitting(entries) == IF entries = <<>> THEN "vrf" ELSE "admit"

\* Mutant: the validator keeps the cycle of the last synchronisation.
StartCycleNoSync(n) ==
    /\ pc[n] = "idle"
    /\ height[n] < MaxBlocks
    /\ pendingEntries' = [pendingEntries EXCEPT ![n] = Ingested(n)]
    /\ todo' = [todo EXCEPT ![n] = Ingested(n) \o pending[n]]
    /\ pc' = [pc EXCEPT ![n] = AfterAdmitting(Ingested(n) \o pending[n])]
    /\ UNCHANGED <<clock, height, anchored, degraded, currentCycle, rotations,
                   keyRotationBodies, submitting, pending, bus, leader, bounds>>

\* RunCycle up to processKeyRotationEntriesLocked.
StartCycle(n) ==
    /\ pc[n] = "idle"
    /\ height[n] < MaxBlocks
    /\ pendingEntries' = [pendingEntries EXCEPT ![n] = Ingested(n)]
    /\ currentCycle' = [currentCycle EXCEPT ![n] = clock[n]]
    /\ todo' = [todo EXCEPT ![n] = Ingested(n) \o pending[n]]
    /\ pc' = [pc EXCEPT ![n] = AfterAdmitting(Ingested(n) \o pending[n])]
    /\ UNCHANGED <<clock, height, anchored, degraded, rotations, keyRotationBodies, submitting,
                   pending, bus, leader, bounds>>

\* processKeyRotationEntriesLocked, one entry: ValidateAndRecord, if the body is
\* known.  The entries are those pending, not those a block anchors.
AdmitEntry(n) ==
    /\ pc[n] = "admit"
    /\ LET b == Head(todo[n])
       IN  IF b \in keyRotationBodies[n]
              /\ Validate(rotations[n][b.submitter], currentCycle[n], b)
           THEN RecordRotation(n, b)
           ELSE UNCHANGED rotations
    /\ todo' = [todo EXCEPT ![n] = Tail(@)]
    /\ pc' = [pc EXCEPT ![n] = AfterAdmitting(Tail(todo[n]))]
    /\ UNCHANGED <<clock, height, anchored, degraded, currentCycle, keyRotationBodies, submitting,
                   pending, pendingEntries, bus, leader, bounds>>

-----------------------------------------------------------------------------
requiredQuorum(n) == IF degraded[n] THEN 1 ELSE quorumRequired(Cardinality(Node))

\* No node elects a proposer before it has the proof of every peer.
PublishVRFProof(n) ==
    /\ pc[n] = "vrf"
    /\ pc' = [pc EXCEPT ![n] = "consensus"]
    /\ proofs' = [proofs EXCEPT ![height[n]] = @ \cup {n}]
    /\ UNCHANGED <<engine, submitting, todo, pool, proposals, sigs, finals, leader, bounds>>

\* The leader proposes the pool and signs; the first candidate of a cycle stays.
Propose(n) ==
    LET c == height[n]
    IN  /\ pc[n] = "consensus"
        /\ leader[c] = n
        /\ proofs[c] = Node
        /\ proposals[c] = None
        /\ proposals' = [proposals EXCEPT ![c] = [anchored |-> Range(pool)]]
        /\ sigs' = [sigs EXCEPT ![c] = @ \cup {n}]
        /\ UNCHANGED <<pc, engine, submitting, todo, pool, proofs, finals, leader, bounds>>

\* A validator signs the candidate if the proposer's signature verifies.
SignProposal(n) ==
    LET c == height[n]
    IN  /\ pc[n] = "consensus"
        /\ leader[c] # n
        /\ proposals[c] # None
        /\ n \notin sigs[c]
        /\ SignatureVerifies(n, leader[c], c)
        /\ sigs' = [sigs EXCEPT ![c] = @ \cup {n}]
        /\ UNCHANGED <<pc, engine, submitting, todo, pool, proofs, proposals, finals, leader,
                       bounds>>

validPrepareSigs(n) == {v \in sigs[height[n]] : SignatureVerifies(n, v, height[n])}

\* The end of RunCycle on the success path.  state.Apply counts one cycle.
CommitBlock(n, f) ==
    /\ height' = [height EXCEPT ![n] = @ + 1]
    /\ anchored' = [anchored EXCEPT ![n] = @ \cup f.anchored]
    /\ degraded' = [degraded EXCEPT ![n] = @ \/ Cardinality(Node) < MinValidators]
    /\ clock' = [clock EXCEPT ![n] = @ + 1]
    /\ pendingEntries' = [pendingEntries EXCEPT ![n] = Without(@, f.anchored)]
    /\ pending' = [pending EXCEPT ![n] = <<>>]
    /\ pool' = Without(pool, f.anchored)
    /\ pc' = [pc EXCEPT ![n] = "idle"]

\* The leader finalises with the signatures it could verify, and commits.
Finalise(n) ==
    LET c == height[n]
        f == [anchored |-> proposals[c].anchored, signers |-> validPrepareSigs(n)]
    IN  /\ pc[n] = "consensus"
        /\ leader[c] = n
        /\ proposals[c] # None
        /\ Cardinality(validPrepareSigs(n)) >= requiredQuorum(n)
        /\ finals' = [finals EXCEPT ![c] = f]
        /\ CommitBlock(n, f)
        /\ UNCHANGED <<currentCycle, rotations, keyRotationBodies, submitting, todo,
                       proofs, proposals, sigs, leader, bounds>>

\* A validator commits B_final if every signature in it verifies; that they are
\* enough for the quorum B_final names is what the leader checked.
CommitFinal(n) ==
    LET c == height[n]
    IN  /\ pc[n] = "consensus"
        /\ leader[c] # n
        /\ Cardinality(validPrepareSigs(n)) >= requiredQuorum(n)
        /\ finals[c] # None
        /\ \A v \in finals[c].signers \cup {leader[c]} : SignatureVerifies(n, v, c)
        /\ CommitBlock(n, finals[c])
        /\ UNCHANGED <<currentCycle, rotations, keyRotationBodies, submitting, todo,
                       proofs, proposals, sigs, finals, leader, bounds>>

\* Any error of the cycle: everything pending is kept.
AbortCycle(n) ==
    /\ pc[n] = "consensus"
    /\ MayIdle(n)
    /\ pendingEntries' = [pendingEntries EXCEPT ![n] = @ \o pending[n]]
    /\ clock' = [clock EXCEPT ![n] = @ + 1]
    /\ pc' = [pc EXCEPT ![n] = "idle"]
    /\ UNCHANGED <<height, anchored, degraded, currentCycle, rotations, keyRotationBodies,
                   submitting, pending, todo, bus, leader, bounds>>

\* Stop, and a new engine on the same storage.  The state, the blocks and
\* e.pending are loaded; the key history, the bodies, pendingEntries and the
\* degraded flag are not saved.
Restart(n) ==
    /\ restarts < MaxRestarts
    /\ restarts' = restarts + 1
    /\ pc' = [pc EXCEPT ![n] = "idle"]
    /\ rotations' = [rotations EXCEPT ![n] = [v \in Node |-> <<>>]]
    /\ keyRotationBodies' = [keyRotationBodies EXCEPT ![n] = {}]
    /\ currentCycle' = [currentCycle EXCEPT ![n] = 0]
    /\ degraded' = [degraded EXCEPT ![n] = FALSE]
    /\ pendingEntries' = [pendingEntries EXCEPT ![n] = <<>>]
    /\ submitting' = [submitting EXCEPT ![n] = None]
    /\ todo' = [todo EXCEPT ![n] = <<>>]
    /\ UNCHANGED <<clock, height, anchored, pending, bus, leader, submissions>>

Next ==
    \E n \in Node :
        \/ \E b \in Body : RotateKey(n, b)
        \/ \E b \in Body : SubmitKeyRotation(n, b)
        \/ \E b \in Body : RecordRotationBody(n, b)
        \/ ValidateSubmission(n)
        \/ StoreBody(n)
        \/ EnqueueSubmission(n)
        \/ SkipCycle(n)
        \/ StartCycle(n)
        \/ AdmitEntry(n)
        \/ PublishVRFProof(n)
        \/ Propose(n)
        \/ SignProposal(n)
        \/ Finalise(n)
        \/ CommitFinal(n)
        \/ AbortCycle(n)
        \/ Restart(n)

Spec == Init /\ [][Next]_vars

-----------------------------------------------------------------------------
Stage == {"idle", "admit", "vrf", "consensus"}

TypeOK ==
    /\ pc \in [Node -> Stage]
    /\ clock \in [Node -> Nat]
    /\ height \in [Node -> 0..MaxBlocks]
    /\ anchored \in [Node -> SUBSET Body]
    /\ degraded \in [Node -> BOOLEAN]
    /\ currentCycle \in [Node -> Nat]
    /\ rotations \in [Node -> [Node -> Seq(Body)]]
    /\ keyRotationBodies \in [Node -> SUBSET Body]
    /\ submitting \in [Node -> {None} \cup [body : Body, stage : {"validate", "store", "enqueue"}]]
    /\ pending \in [Node -> Seq(Body)]
    /\ pendingEntries \in [Node -> Seq(Body)]
    /\ todo \in [Node -> Seq(Body)]
    /\ pool \in Seq(Body)
    /\ leader \in [Cycles -> Node]
    /\ submissions \in 0..MaxSubmissions
    /\ restarts \in 0..MaxRestarts

\* The key history of a validator is a chain of authorisations: in the order of
\* their effective cycles, each rotation was signed by a key that the history,
\* as it stands now, has in force just before the rotation takes effect.  No
\* rotation recorded later takes that authority away.
HistoryAuthorised ==
    \A n, v \in Node :
        LET history == rotations[n][v]
        IN  \A i \in DOMAIN history :
                /\ history[i].signedBy \in GetActivePublicKey(history, authorisingCycle(history[i]))
                /\ \A j \in 1..(i - 1) : history[j].effective < history[i].effective

\* A step that extends a key history changes nothing about the keys of the
\* heights the node has reached, nor of the next ones within the lead time: the
\* attempt counter the lead time is measured on is never behind the chain.
KeysSettled ==
    [][\A n, v \in Node :
          Len(rotations'[n][v]) >= Len(rotations[n][v]) =>
              \A h \in 0..(height[n] + KeyRotationLeadTime - 1) :
                  GetActivePublicKey(rotations'[n][v], h)
                      = GetActivePublicKey(rotations[n][v], h)]_vars

\* The rotations of a history whose windows do not overlap hand the key over as
\* the comment of GetActivePublicKey tables it: one key before the window, both
\* inside, the incoming one after it, so two heights in a row share a key.
WindowsDisjoint(history) ==
    \A i \in DOMAIN history : i > 1 => history[i - 1].expiry < history[i].effective

HandOver ==
    \A n, v \in Node :
        LET history == rotations[n][v]
        IN  WindowsDisjoint(history) =>
                \A i \in DOMAIN history :
                    LET b == history[i]
                        next == IF i = Len(history) THEN b.expiry + 2
                                ELSE history[i + 1].effective
                    IN  /\ \A h \in b.effective..b.expiry :
                               GetActivePublicKey(history, h) = {KeyAfter(history, i - 1), b.newKey}
                        /\ \A h \in (b.expiry + 1)..(next - 1) :
                               GetActivePublicKey(history, h) = {b.newKey}

\* A rotation that is in force at a node's height is anchored in that node's
\* chain: the node records it before any block holds it, but the lead time is
\* longer than the block takes.
InForceIsAnchored ==
    \A n, v \in Node :
        \A i \in DOMAIN rotations[n][v] :
            rotations[n][v][i].effective <= height[n] =>
                rotations[n][v][i] \in anchored[n]

\* The keys a node verifies with are those the documentation tables for the rotations
\* of its history, and a rotation that is in force at its height is anchored in its
\* chain: the lead time is longer than the block takes (GetActivePublicKey,
\* processKeyRotationEntriesLocked).
KeysInForce ==
    /\ TypeOK
    /\ HandOver
    /\ InForceIsAnchored

\* "only anchored rotations are authoritative" (key_rotation_test.go): outside a
\* cycle, what the key history holds is in a block of the node's chain.
OnlyAnchoredRecorded ==
    \A n, v \in Node :
        pc[n] = "idle" =>
            \A i \in DOMAIN rotations[n][v] :
                rotations[n][v][i] \in anchored[n]

\* "all nodes derive the same active key for a given cycle": two nodes at work on
\* the same block verify its signatures with the same keys.
SameActiveKeys ==
    \A n, m, v \in Node :
        height[n] = height[m] =>
            GetActivePublicKey(rotations[n][v], height[n])
                = GetActivePublicKey(rotations[m][v], height[m])

\* "During [EffectiveCycle, ExpiryCycle] both the outgoing and the incoming key
\* are accepted": of every recorded rotation, the incoming key is accepted
\* throughout its window.
OverlapHonoured ==
    \A n, v \in Node :
        LET history == rotations[n][v]
        IN  \A i \in DOMAIN history :
                \A h \in history[i].effective..history[i].expiry :
                    history[i].newKey \in GetActivePublicKey(history, h)

Fairness ==
    \A n \in Node : /\ WF_vars(ValidateSubmission(n))
                    /\ WF_vars(StoreBody(n))
                    /\ WF_vars(EnqueueSubmission(n))
                    /\ WF_vars(StartCycle(n))
                    /\ WF_vars(AdmitEntry(n))
                    /\ WF_vars(PublishVRFProof(n))
                    /\ WF_vars(Propose(n))
                    /\ WF_vars(SignProposal(n))
                    /\ WF_vars(Finalise(n))
                    /\ WF_vars(CommitFinal(n))

FairSpec == Spec /\ Fairness

\* "A validator can rotate its Dilithium3 signing key and VRF key without stopping
\* the network" (README.md): every chain reaches the bound of the model.
NetworkKeepsGoing == \A n \in Node : <>(height[n] = MaxBlocks)

=============================================================================
