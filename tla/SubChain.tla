----------------------------- MODULE SubChain -----------------------------
(***************************************************************************)
(* The sub-chains of a node (pkg/consensus/subchain.go) over its engine:   *)
(* Register, Submit, Anchor and Prove, called concurrently.  Anchor holds  *)
(* the manager's lock only up to its call of Enqueue; Prove holds it for   *)
(* the sub-chain's half and then reads the engine three times.             *)
(*                                                                         *)
(* A state root is the set of hashes in its tree.  An anchor hash is the   *)
(* pair it is computed from.  A proof is the root it was taken under, and  *)
(* a block of the parent chain is the state root it carries.  Heights,     *)
(* times and names are left out.                                           *)
(***************************************************************************)
EXTENDS Naturals, Sequences, FiniteSets, Functions

CONSTANTS
    Chain,             \* sub-chain identifiers
    Entry,
    Other,             \* entries other clients submit to the parent chain
    Caller,
    MaxTotalPending,   \* the limit of the engine's queue
    MaxRestarts        \* bound: restarts of the node

ASSUME SubChainAssumption ==
    /\ IsFiniteSet(Chain) /\ IsFiniteSet(Entry) /\ IsFiniteSet(Other)
    /\ Chain \cap Other = {}
    /\ MaxTotalPending \in Nat \ {0} /\ MaxRestarts \in Nat

VARIABLES
    chains,            \* m.chains: pending, st and anchors of each sub-chain
    calls,             \* where each caller is
    queue,             \* e.pending
    committed,         \* e.st: what the parent chain has anchored
    anchored,          \* e.anchored: the block of each anchored hash
    submitted,         \* history: what Submit accepted, per sub-chain
    refused,           \* history: an anchor was refused by Enqueue
    restarts

subVars == <<chains, calls, queue, committed, anchored, submitted, refused, restarts>>

managerVars == <<chains, submitted>>

parentVars == <<queue, committed, anchored>>

AnchorHash(id, root) == <<id, root>>

ParentHash == (Chain \X SUBSET Entry) \cup (Other \X {{}})

Idle == [op |-> "idle"]

SubInit ==
    /\ chains = [id \in {} |-> Idle]
    /\ calls = [c \in Caller |-> Idle]
    /\ queue = <<>>
    /\ committed = {}
    /\ anchored = [h \in {} |-> {}]
    /\ submitted = [id \in Chain |-> {}]
    /\ refused = FALSE
    /\ restarts = 0

---------------------------------------------------------------------------
(* The parent chain. *)

\* One cycle commits what is queued; a cycle with nothing queued is skipped.
RunCycle ==
    /\ queue # <<>>
    /\ committed' = committed \cup Range(queue)
    /\ anchored' = [h \in Range(queue) \cup DOMAIN anchored |->
                      IF h \in Range(queue) THEN committed' ELSE anchored[h]]
    /\ queue' = <<>>
    /\ UNCHANGED <<managerVars, calls, refused, restarts>>

Accepts == Len(queue) < MaxTotalPending

\* Another client's entry.
EnqueueOther(o) ==
    /\ Accepts
    /\ <<o, {}>> \notin committed \cup Range(queue)
    /\ queue' = Append(queue, <<o, {}>>)
    /\ UNCHANGED <<managerVars, calls, committed, anchored, refused, restarts>>

---------------------------------------------------------------------------
(* The manager. *)

Register(id) ==
    /\ id \notin DOMAIN chains
    /\ chains' = [i \in DOMAIN chains \cup {id} |->
                    IF i = id THEN [pending |-> {}, st |-> {}, anchors |-> {}] ELSE chains[i]]
    /\ UNCHANGED <<submitted, calls, parentVars, refused, restarts>>

Submit(id, e) ==
    /\ id \in DOMAIN chains
    /\ e \notin submitted[id]
    /\ chains' = [chains EXCEPT ![id].pending = @ \cup {e}]
    /\ submitted' = [submitted EXCEPT ![id] = @ \cup {e}]
    /\ UNCHANGED <<calls, parentVars, refused, restarts>>

\* Anchor, under the lock: the pending entries go into the tree, the root is
\* recorded, and its hash is what the caller will enqueue.
StaleRoot(sc) == sc.st

AnchoredRoot(sc) == sc.st \cup sc.pending

Anchor(c, id) ==
    /\ calls[c] = Idle
    /\ id \in DOMAIN chains
    /\ LET sc   == chains[id]
           root == AnchoredRoot(sc)
       IN  /\ chains' = [chains EXCEPT ![id] =
                           [pending |-> {}, st |-> sc.st \cup sc.pending,
                            anchors |-> sc.anchors \cup {root}]]
           /\ calls' = [calls EXCEPT ![c] = [op |-> "enqueue", hash |-> AnchorHash(id, root)]]
    /\ UNCHANGED <<submitted, parentVars, refused, restarts>>

\* Anchor, after the lock: what Enqueue refuses is logged and forgotten.
EnqueueAnchor(c) ==
    /\ calls[c].op = "enqueue"
    /\ IF Accepts
       THEN queue' = Append(queue, calls[c].hash) /\ UNCHANGED refused
       ELSE refused' = TRUE /\ UNCHANGED queue
    /\ calls' = [calls EXCEPT ![c] = Idle]
    /\ UNCHANGED <<managerVars, committed, anchored, restarts>>

ProveAnyLeaf(c, id, e) ==
    /\ calls[c] = Idle
    /\ id \in DOMAIN chains
    /\ chains[id].st # {} /\ chains[id].anchors # {}
    /\ calls' = [calls EXCEPT ![c] = [op |-> "parentProof", id |-> id, entry |-> e,
                                      subRoot |-> chains[id].st]]
    /\ UNCHANGED <<managerVars, parentVars, refused, restarts>>

\* Prove, under the lock: the entry's path in the sub-chain's present tree.
ProveEntry(c, id, e) ==
    /\ calls[c] = Idle
    /\ id \in DOMAIN chains
    /\ e \in chains[id].st /\ chains[id].anchors # {}
    /\ calls' = [calls EXCEPT ![c] = [op |-> "parentProof", id |-> id, entry |-> e,
                                      subRoot |-> chains[id].st]]
    /\ UNCHANGED <<managerVars, parentVars, refused, restarts>>

HashOf(call) == AnchorHash(call.id, call.subRoot)

\* ProveSMT, GetStateRoot and LookupHash, each under the engine's lock.
ProveParent(c) ==
    /\ calls[c].op = "parentProof"
    /\ calls' = [calls EXCEPT ![c] =
                   IF HashOf(calls[c]) \in committed
                   THEN [op |-> "parentRoot", id |-> calls[c].id, entry |-> calls[c].entry,
                         subRoot |-> calls[c].subRoot, parentProof |-> committed]
                   ELSE Idle]
    /\ UNCHANGED <<managerVars, parentVars, refused, restarts>>

ReadParentRoot(c) ==
    /\ calls[c].op = "parentRoot"
    /\ calls' = [calls EXCEPT ![c] =
                   [op |-> "lookup", id |-> calls[c].id, entry |-> calls[c].entry,
                    subRoot |-> calls[c].subRoot, parentProof |-> calls[c].parentProof,
                    parentRoot |-> committed]]
    /\ UNCHANGED <<managerVars, parentVars, refused, restarts>>

LookupAnchor(c) ==
    /\ calls[c].op = "lookup"
    /\ calls' = [calls EXCEPT ![c] =
                   IF HashOf(calls[c]) \in DOMAIN anchored
                   THEN [op |-> "proved", id |-> calls[c].id, entry |-> calls[c].entry,
                         subRoot |-> calls[c].subRoot, parentProof |-> calls[c].parentProof,
                         parentRoot |-> calls[c].parentRoot,
                         anchorBlock |-> anchored[HashOf(calls[c])]]
                   ELSE Idle]
    /\ UNCHANGED <<managerVars, parentVars, refused, restarts>>

\* VerifyCrossChain: both halves, each under its root.
VerifyCrossChain(proof, parentRoot) ==
    /\ proof.entry \in proof.subRoot
    /\ HashOf(proof) \in parentRoot /\ proof.parentProof = parentRoot

\* The caller takes the proof.
TakeProof(c) ==
    /\ calls[c].op = "proved"
    /\ calls' = [calls EXCEPT ![c] = Idle]
    /\ UNCHANGED <<managerVars, parentVars, refused, restarts>>

\* A restart: the engine's state is loaded from storage, the manager starts empty.
Restart ==
    /\ restarts < MaxRestarts
    /\ chains' = [id \in {} |-> Idle]
    /\ calls' = [c \in Caller |-> Idle]
    /\ restarts' = restarts + 1
    /\ UNCHANGED <<submitted, parentVars, refused>>

SubNext ==
    \/ RunCycle \/ Restart
    \/ \E o \in Other : EnqueueOther(o)
    \/ \E id \in Chain : Register(id)
    \/ \E id \in Chain, e \in Entry : Submit(id, e)
    \/ \E c \in Caller :
         \/ \E id \in Chain : Anchor(c, id)
         \/ \E id \in Chain, e \in Entry : ProveEntry(c, id, e)
         \/ EnqueueAnchor(c) \/ ProveParent(c) \/ ReadParentRoot(c) \/ LookupAnchor(c)
         \/ TakeProof(c)

SubSpec == SubInit /\ [][SubNext]_subVars

---------------------------------------------------------------------------
(* Properties. *)

\* The manager's and the engine's state keep their shapes.
SubTypeOK ==
    /\ DOMAIN chains \subseteq Chain
    /\ \A id \in DOMAIN chains :
         /\ chains[id].pending \subseteq Entry /\ chains[id].st \subseteq Entry
         /\ chains[id].anchors \subseteq SUBSET Entry
    /\ queue \in Seq(ParentHash) /\ Len(queue) <= MaxTotalPending
    /\ committed \subseteq ParentHash
    /\ DOMAIN anchored = committed

(* A proof that Prove returns speaks of a checkpoint that was made: the entry  *)
(* was submitted to the sub-chain and is under the root of the proof, that     *)
(* root was recorded by Anchor, and the block the proof names, and the root    *)
(* its second half fits, both hold the hash of that very checkpoint.           *)
ProofOfCheckpoint ==
    \A c \in Caller : calls[c].op = "proved" =>
        /\ calls[c].entry \in calls[c].subRoot \cap submitted[calls[c].id]
        /\ calls[c].subRoot \in chains[calls[c].id].anchors
        /\ HashOf(calls[c]) \in calls[c].parentProof \cap calls[c].anchorBlock
        /\ calls[c].parentProof \subseteq calls[c].parentRoot

(* The checkpoints of one sub-chain form a line: every recorded root contains  *)
(* the earlier ones, the tree is the last of them, and what the parent chain   *)
(* commits for a sub-chain the manager knows is one of its recorded roots.  In *)
(* which order the parent chain commits them is not said: two calls of Anchor  *)
(* may reach Enqueue the other way round.                                      *)
CheckpointsInLine ==
    \A id \in DOMAIN chains :
        LET anchors == chains[id].anchors IN
        /\ \A r1, r2 \in anchors : r1 \subseteq r2 \/ r2 \subseteq r1
        /\ anchors # {} => chains[id].st \in anchors /\ UNION anchors = chains[id].st
        /\ restarts = 0 => \A r \in SUBSET Entry :
                             AnchorHash(id, r) \in committed \cup Range(queue) => r \in anchors

(* The documentation of SubChainManager: anchoring enqueues the checkpoint     *)
(* into the parent chain.                                                      *)
AnchorEnqueued == ~refused

(* TestCrossChainProof: VerifyCrossChain accepts, under the parent root, the   *)
(* proof that Prove returned.                                                  *)
CrossProofVerifies ==
    \A c \in Caller : calls[c].op = "proved" => VerifyCrossChain(calls[c], calls[c].parentRoot)

(* The documentation of persistence: the node's state is saved and loaded, so  *)
(* a sub-chain whose checkpoints the parent chain holds is known to the node.  *)
SubChainsSurvive ==
    \A h \in committed : h[1] \in Chain => h[1] \in DOMAIN chains

=============================================================================
