------------------------------ MODULE MCLedger ------------------------------
(***************************************************************************)
(* What is kept and what is checked against it: the bolt file, the sparse  *)
(* Merkle tree, the light client's chain, the mandates, the registry of    *)
(* identities and the VRF.  The parts share no variable, so that           *)
(* interleaving them adds nothing: a behaviour picks one part, runs it and *)
(* leaves the others in their initial state.                               *)
(***************************************************************************)
EXTENDS Registry, Storage, Mandates, VRF, TLC

CONSTANTS
    Parts,                           \* the parts a configuration is about
    v1, v2, v3, v4, k0, k1, k2,      \* LightClient: validators, keys
    m1, m2, auth                     \* Mandates: policies, an authority

VARIABLES
    part,                            \* the part that runs
    root, store, saved, content, snapContent, inserts, rollbacks, \* SparseMerkleTree
    chain, recorded, accepted, crashed                              \* LightClient

tree == <<root, store, saved, content, snapContent, inserts, rollbacks>>
client == <<chain, recorded, accepted, crashed>>
ledgerVars ==
    <<part, registryVars, storageVars, tree, client, mandVars, vrfVars>>

-----------------------------------------------------------------------------
\* Orderly stops, with writes that fail; Storage itself is the engine that only crashes.
Stopping == INSTANCE Storage WITH
    MaxAborts <- 0, MaxCrashes <- 1, MaxStops <- 1, MaxFails <- 2

\* Keys of the tree's own length: neighbours at every depth, and one far away.
Tree == INSTANCE SparseMerkleTree WITH
    snapshot <- saved, Key <- {<<0, 0, 0>>, <<1, 0, 0>>, <<0, 0, 1>>, <<0, 1, 1>>},
    Value <- {1, 2}, Depth <- 3, MaxInserts <- 4, MaxRollbacks <- 1

-----------------------------------------------------------------------------
Rotation(old, new, effective, expiry) ==
    [submitter |-> v1, effective |-> effective, expiry |-> expiry,
     newKey |-> new, signedBy |-> old]

\* A rotation and one chained to it.
Chained == {Rotation(k0, k1, 1, 2), Rotation(k1, k2, 3, 4)}

\* One signed with the key before the last; one effective at once, and one whose
\* overlap wraps.
Odd == {Rotation(k0, k2, 3, 4), Rotation(k0, k2, 0, 1), Rotation(k0, k2, 31, 0)}

\* Four validators of which v1 may rotate its key.
Light == INSTANCE LightClient WITH
    RegisteredKey <- k0, Node <- {v1, v2, v3, v4},
    ClientOrder <- <<v1, v2, v3, v4>>, Order <- [n \in {v1, v2, v3, v4} |-> <<v1, v2, v3, v4>>],
    SignerSets <- {{v1, v2, v3}, {v2, v3, v4}}, Proposers <- {v1, v2},
    Body <- Chained \cup Odd, Offered <- Chained, KeyRotationLeadTime <- 1, MinKeyOverlap <- 1,
    DegradedThreshold <- 4, MaxBlocks <- 4, Wrap <- 32

\* Three validators, which is a degraded chain.
Degraded == INSTANCE LightClient WITH
    RegisteredKey <- k0, Node <- {v1, v2, v3},
    ClientOrder <- <<v1, v2, v3>>, Order <- [n \in {v1, v2, v3} |-> <<v1, v2, v3>>],
    SignerSets <- {{v1, v2}, {v2, v3}, {v2}, {v3}}, Proposers <- {v2, v3},
    Body <- {}, Offered <- {}, KeyRotationLeadTime <- 1, MinKeyOverlap <- 1,
    DegradedThreshold <- 4, MaxBlocks <- 3, Wrap <- 32

-----------------------------------------------------------------------------
EventRule(class, required) == [class |-> class, required |-> required]

\* Two versions of one mandate.  The second has a blanket rule, which also governs
\* the entry that anchors it.
TwoVersions ==
    m1 :> [authority |-> auth, from |-> 1, until |-> 3, supersedes |-> NoPolicy, version |-> 1,
           rules |-> {EventRule("event", {"Approver"})}]
    @@ m2 :> [authority |-> auth, from |-> 2, until |-> 0, supersedes |-> m1, version |-> 2,
              rules |-> {EventRule("", {"Signature"})}]

MandateBody(policy, contents, signed) == [id |-> policy, policy |-> contents, signed |-> signed]

\* Both mandates, one under the identifier of the other, and one that is not signed.
MandateBodies ==
    {MandateBody(m1, m1, TRUE), MandateBody(m2, m2, TRUE),
     MandateBody(m1, m2, TRUE), MandateBody(m2, m2, FALSE)}

ClaimOf(hash, ref, at, fields) ==
    [hash |-> hash, label |-> "event", ref |-> ref, at |-> at, fields |-> fields]

\* In the period of a mandate, after it, without a required field, and on no mandate.
Claims ==
    {ClaimOf("a", m1, 1, {"Approver"}), ClaimOf("b", m1, 4, {"Approver"}),
     ClaimOf("c", m2, 2, {"Approver"}), ClaimOf("d", NoPolicy, 1, {})}

\* What the parts assume of their constants.
ASSUME
    /\ StorageAssumption /\ Stopping!StorageAssumption /\ Tree!TreeAssumption
    /\ Light!LightAssumption /\ Degraded!LightAssumption
    /\ MandatesAssumption /\ OrderAssumption

-----------------------------------------------------------------------------
\* A part that does not run keeps one of its initial states.
Init ==
    /\ part \in Parts
    /\ RegistryInit
    /\ StorageInit
    /\ Tree!TreeInit
    /\ Light!Init
    /\ MandInit /\ (part # "mandates" => keys = [n \in Node |-> {}])
    /\ VRFInit /\ (part # "vrf" => sk = 1)

\* One definition per part: what runs, and what stands still.
Identities ==
    /\ part = "registry" /\ RegistryNext
    /\ UNCHANGED <<part, storageVars, tree, client, mandVars, vrfVars>>

Persistence ==
    /\ \/ part = "crashing" /\ StorageNext
       \/ part = "stopping" /\ Stopping!StorageNext
    /\ UNCHANGED <<part, registryVars, tree, client, mandVars, vrfVars>>

StateTree ==
    /\ part = "tree" /\ Tree!TreeNext
    /\ UNCHANGED <<part, registryVars, storageVars, client, mandVars, vrfVars>>

Verification ==
    /\ \/ part = "light" /\ Light!Next
       \/ part = "degraded" /\ Degraded!Next
    /\ UNCHANGED <<part, registryVars, storageVars, tree, mandVars, vrfVars>>

Policies ==
    /\ part = "mandates" /\ MandNext
    /\ UNCHANGED <<part, registryVars, storageVars, tree, client, vrfVars>>

Election ==
    /\ part = "vrf" /\ VRFNext
    /\ UNCHANGED <<part, registryVars, storageVars, tree, client, mandVars>>

Next ==
    \/ Identities
    \/ Persistence
    \/ StateTree
    \/ Verification
    \/ Policies
    \/ Election

Spec == Init /\ [][Next]_ledgerVars

\* The inputs of the VRF are alike, and no other part has one.
Symmetry == Permutations(Alpha)

-----------------------------------------------------------------------------
\* The root depends on the contents alone, on no order of insertion and no cycle that
\* was rolled back; every key in the tree has a proof that verifies and no other key
\* has one; and a proof shows nothing of another key or value (insertAt,
\* splitAndInsert, Clone, Prove, Verify).
TreeExact ==
    /\ Tree!TreeTypeOK
    /\ Tree!RootIsContent
    /\ Tree!ProofsExact
    /\ Tree!ProofsBind

-----------------------------------------------------------------------------
\* What a light client accepts is a prefix of the chain, with a quorum behind every
\* block under keys authoritative at its height, whatever damaged copies and candidates
\* it is shown; a block the network finalised is never refused by a client that has
\* come this far, degraded chains included; and the client admits rotations and
\* resolves keys as the full nodes do (VerifyBlock, admitRotation, keyResolver).
AcceptedExactly ==
    /\ Light!LcTypeOK
    /\ Light!AcceptedOnChain
    /\ part = "light" => Light!QuorumBehind /\ Light!KeysAgree /\ Light!AdmissionAgrees
    /\ IF part = "degraded" THEN Degraded!GenuineAccepted ELSE Light!GenuineAccepted

=============================================================================
