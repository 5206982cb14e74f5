------------------------------ MODULE Mandates ------------------------------
(***************************************************************************)
(* Mandates on a few nodes (pkg/consensus/mandates.go, pkg/validation      *)
(* mandate_*.go, pkg/chain mandate types): how a mandate body becomes      *)
(* enforceable, what it demands of an entry that refers to it, and which   *)
(* mandates a node says are in force.                                      *)
(*                                                                         *)
(* A mandate's contents are a member of Policy; the identifier is a        *)
(* collision-free hash of them, so it is the policy itself.  A body is     *)
(* [id, policy, signed]: the stored identifier, the contents, and whether  *)
(* the signature is the authority's.  Bodies are not gossiped: a peer gets *)
(* one out of band, at any time or never.  Entries are gossiped, and the   *)
(* blocks are the same on every node (module Consensus).                   *)
(***************************************************************************)
EXTENDS Naturals, Sequences, FiniteSets, Functions

CONSTANTS
    Node,
    Policy,
    Terms,             \* [Policy -> [authority, from, until, supersedes, version, rules]]
    Body,              \* the bodies nodes are handed
    Claim,             \* the other entries that are submitted
    Time,
    NoPolicy,
    MaxTotalPending,
    MaxAnchored,       \* bound: blocks
    MaxRestarts        \* bound: restarts

\* What the constants must satisfy.
MandatesAssumption ==
    /\ IsFiniteSet(Node) /\ IsFiniteSet(Policy) /\ NoPolicy \notin Policy
    /\ \A p \in Policy :
        /\ Terms[p].from \in Nat /\ Terms[p].until \in Nat /\ Terms[p].version \in Nat
        /\ Terms[p].supersedes \in Policy \cup {NoPolicy}
    /\ Body \subseteq [id : Policy, policy : Policy, signed : BOOLEAN]
    /\ \A e \in Claim : e.at \in Nat
    /\ {MaxTotalPending, MaxAnchored, MaxRestarts} \subseteq Nat

VARIABLES
    keys,              \* the authorities whose key a node can look up
    resolver,          \* mandateResolver.mandates: identifier -> body
    bodies,            \* mandateBodies: identifier -> body
    calls,             \* the identifier of the SubmitMandate a node is in the middle of
    answers,           \* history: the outcome of SubmitMandate, per identifier
    pending,           \* the entries a node has queued or heard of
    blocks,            \* the entries of each block
    restarts

mandVars == <<keys, resolver, bodies, calls, answers, pending, blocks, restarts>>

Authority == {Terms[p].authority : p \in Policy}

Anchored == UNION Range(blocks)

NoBodies == [p \in {} |-> NoPolicy]

\* initMandatesLocked: a fresh engine knows no mandate.
MandInit ==
    /\ keys \in [Node -> SUBSET Authority]
    /\ resolver = [n \in Node |-> NoBodies]
    /\ bodies = [n \in Node |-> NoBodies]
    /\ calls = [n \in Node |-> NoPolicy]
    /\ answers = [n \in Node |-> NoBodies]
    /\ pending = [n \in Node |-> {}]
    /\ blocks = <<>>
    /\ restarts = 0

Set(f, k, v) == [x \in DOMAIN f \cup {k} |-> IF x = k THEN v ELSE f[x]]

-----------------------------------------------------------------------------
\* The identifier commits to the contents (MandateID, VerifyHash).
MandateID(b) == b.policy

VerifyHash(b) == b.id = MandateID(b)

IsActiveAt(p, t) ==
    /\ Terms[p].from <= t
    /\ Terms[p].until = 0 \/ t <= Terms[p].until

\* Mutant: the stored identifier is trusted.
AuthorityUnhashed(n, b) ==
    /\ Terms[b.policy].authority \in keys[n]
    /\ b.signed

\* The identifier, the signature, and a key to verify it with.
ValidateMandateAuthority(n, b) ==
    /\ VerifyHash(b)
    /\ Terms[b.policy].authority \in keys[n]
    /\ b.signed

\* The resolver's Put files a body under the identifier that it computes.
PutBody(n, b) == Set(resolver[n], MandateID(b), [b EXCEPT !.id = MandateID(b)])

\* The fields an entry may lack; an unknown field name counts as present.
entryHasField(e, f) ==
    /\ f \in {"Approver", "Reference", "Signature"} => f \in e.fields
    /\ f = "MandateRef" => e.ref # NoPolicy
    /\ f = "Label" => e.label # ""

\* A rule without an event class governs every entry.
entryMatchesRule(e, rule) == rule.class = "" \/ e.label = rule.class

validateRule(rule, e) == \A f \in rule.required : entryHasField(e, f)

\* An entry that refers to no mandate claims nothing.
ValidateEntry(n, e) ==
    e.ref # NoPolicy =>
        /\ e.ref \in DOMAIN resolver[n]
        /\ IsActiveAt(resolver[n][e.ref].policy, e.at)
        /\ \A rule \in Terms[resolver[n][e.ref].policy].rules :
               entryMatchesRule(e, rule) => validateRule(rule, e)

-----------------------------------------------------------------------------
\* A node's network state learns the key of an authority.
LearnKey(n, a) ==
    /\ a \notin keys[n]
    /\ keys' = [keys EXCEPT ![n] = @ \cup {a}]
    /\ UNCHANGED <<resolver, bodies, calls, answers, pending, blocks, restarts>>

\* SubmitMandate up to the point where it lets go of e.mu.  A body that is not
\* authentic is refused and changes nothing.
SubmitMandate(n, b) ==
    /\ calls[n] = NoPolicy
    /\ ValidateMandateAuthority(n, b)
    /\ resolver' = [resolver EXCEPT ![n] = PutBody(n, b)]
    /\ bodies' = [bodies EXCEPT ![n] = Set(@, b.id, b)]
    /\ calls' = [calls EXCEPT ![n] = b.id]
    /\ UNCHANGED <<keys, answers, pending, blocks, restarts>>

\* The entry that anchors a mandate refers to the mandate itself.
MandateEntry(p) ==
    [hash |-> p, label |-> "mandate", ref |-> p, at |-> Terms[p].from, fields |-> {}]

Accepts(n, e) == ValidateEntry(n, e) /\ Cardinality(pending[n]) < MaxTotalPending

Queue(e) == [m \in Node |-> pending[m] \cup {e}]

\* The Enqueue at the end of SubmitMandate: its error is the caller's answer.
EnqueueMandate(n) ==
    /\ calls[n] # NoPolicy
    /\ LET p == calls[n]
           ok == Accepts(n, MandateEntry(p))
       IN /\ pending' = IF ok THEN Queue(MandateEntry(p)) ELSE pending
          /\ answers' = [answers EXCEPT ![n] = Set(@, p, IF ok THEN "ok" ELSE "rejected")]
    /\ calls' = [calls EXCEPT ![n] = NoPolicy]
    /\ UNCHANGED <<keys, resolver, bodies, blocks, restarts>>

RecordMandateBody(n, b) ==
    /\ ValidateMandateAuthority(n, b)
    /\ bodies' = [bodies EXCEPT ![n] = Set(@, b.id, b)]
    /\ resolver' = [resolver EXCEPT ![n] = PutBody(n, b)]
    /\ UNCHANGED <<keys, calls, answers, pending, blocks, restarts>>

\* Enqueue of an entry by a client, published to the peers, which take it
\* without looking at mandates.
EnqueueEntry(n, e) ==
    /\ Accepts(n, e)
    /\ pending' = Queue(e)
    /\ UNCHANGED <<keys, resolver, bodies, calls, answers, blocks, restarts>>

\* The mandates of the batch whose body is known and still authentic.
processMandateEntries(n) ==
    LET known == {e.hash : e \in {x \in pending[n] :
                     /\ x.label = "mandate"
                     /\ x.hash \in DOMAIN bodies[n]
                     /\ ValidateMandateAuthority(n, bodies[n][x.hash])}}
    IN [p \in DOMAIN resolver[n] \cup known |->
            IF p \in known THEN bodies[n][p] ELSE resolver[n][p]]

\* A cycle admits the mandates of its batch, and then may or may not commit.
RunCycle(n) ==
    /\ pending[n] # {}
    /\ resolver' = [resolver EXCEPT ![n] = processMandateEntries(n)]
    /\ \/ UNCHANGED <<pending, blocks>>
       \/ /\ Len(blocks) < MaxAnchored
          /\ blocks' = Append(blocks, pending[n])
          /\ pending' = [m \in Node |-> pending[m] \ pending[n]]
    /\ UNCHANGED <<keys, bodies, calls, answers, restarts>>

\* Mandates are not stored: a restarted node has to be handed them again.
Restart(n) ==
    /\ restarts < MaxRestarts
    /\ restarts' = restarts + 1
    /\ resolver' = [resolver EXCEPT ![n] = NoBodies]
    /\ bodies' = [bodies EXCEPT ![n] = NoBodies]
    /\ calls' = [calls EXCEPT ![n] = NoPolicy]
    /\ answers' = [answers EXCEPT ![n] = NoBodies]
    /\ UNCHANGED <<keys, pending, blocks>>

MandNext ==
    \E n \in Node :
        \/ \E a \in Authority : LearnKey(n, a)
        \/ \E b \in Body : SubmitMandate(n, b) \/ RecordMandateBody(n, b)
        \/ EnqueueMandate(n)
        \/ \E e \in Claim : EnqueueEntry(n, e)
        \/ RunCycle(n)
        \/ Restart(n)

MandSpec == MandInit /\ [][MandNext]_mandVars

-----------------------------------------------------------------------------
\* GetActiveMandates: of the mandates known, those in their period that no known
\* mandate supersedes.
GetActiveMandates(n, t) ==
    LET superseded == {Terms[p].supersedes : p \in DOMAIN resolver[n]}
    IN {p \in DOMAIN resolver[n] \ superseded : IsActiveAt(p, t)}

\* GetLatestVersion looks at the root and at what directly follows it.  Here the
\* previous version of a mandate is the one that it supersedes.
GetLatestVersion(n, root) ==
    LET related == {p \in DOMAIN resolver[n] : p = root \/ Terms[p].supersedes = root}
    IN {p \in related : \A q \in related : Terms[q].version <= Terms[p].version}

\* The maps are keyed by mandates and hold bodies (mandates.go, resolver).
MandTypeOK ==
    /\ keys \in [Node -> SUBSET Authority]
    /\ \A n \in Node :
        /\ DOMAIN resolver[n] \subseteq Policy /\ DOMAIN bodies[n] \subseteq Policy
        /\ Range(bodies[n]) \subseteq Body
        /\ calls[n] \in Policy \cup {NoPolicy}
        /\ Range(answers[n]) \subseteq {"ok", "rejected"}
    /\ restarts \in 0 .. MaxRestarts

\* A body that can be fetched is enforced and the other way round, under the
\* identifier of its own contents ("a silent failure here would leave the body
\* retained in mandateBodies while absent from the resolver").
BodiesEnforced ==
    \A n \in Node :
        /\ resolver[n] = bodies[n]
        /\ \A p \in DOMAIN resolver[n] : resolver[n][p].policy = p

\* An anchored entry that refers to a mandate keeps the mandate's terms, on
\* whatever node it was checked and whether or not anyone still holds the body
\* (Enqueue, ValidateEntryAgainstMandates; ingestion does not check).
ClaimsKept ==
    \A e \in Anchored : e.ref # NoPolicy =>
        /\ e.at >= Terms[e.ref].from
        /\ Terms[e.ref].until # 0 => e.at <= Terms[e.ref].until
        /\ \A rule \in Terms[e.ref].rules :
            rule.class \in {"", e.label} =>
                rule.required \cap {"Approver", "Reference", "Signature"} \subseteq e.fields

\* A body that can be fetched is enforced and the other way round, and an anchored
\* entry keeps the terms of the mandate it refers to (SubmitMandate,
\* RecordMandateBody, ValidateEntryAgainstMandates).
MandatesKept ==
    /\ MandTypeOK
    /\ BodiesEnforced
    /\ ClaimsKept

\* "a mandate learned this cycle starts governing submissions from the next one":
\* a node accepts a claim on a mandate only once the mandate is in a block.
GovernsOnceAnchored ==
    \A n \in Node : \A e \in pending[n] :
        (e.ref # NoPolicy /\ e.label # "mandate") =>
            \E a \in Anchored : a.label = "mandate" /\ a.hash = e.ref

\* What the server answers with "mandate rejected" is not in force.
RejectedNotEnforced ==
    \A n \in Node : \A p \in DOMAIN answers[n] :
        answers[n][p] = "rejected" => p \notin DOMAIN resolver[n]

\* "which mandates were in force at time T": a mandate that is replaced is in
\* force until its replacement is.
InForceUntilReplaced ==
    \A n \in Node : \A p \in DOMAIN resolver[n] : \A t \in Time :
        (/\ IsActiveAt(p, t)
         /\ \A q \in DOMAIN resolver[n] : Terms[q].supersedes = p => t < Terms[q].from)
        => p \in GetActiveMandates(n, t)

\* Everything that p replaces, however many versions back.
Replaces(p, q) ==
    \/ Terms[p].supersedes = q
    \/ Terms[p].supersedes # NoPolicy /\ Terms[Terms[p].supersedes].supersedes = q

\* "Only the latest version of each lineage is returned", up to three versions.
LatestOnly ==
    \A n \in Node : \A t \in Time : \A p, q \in GetActiveMandates(n, t) : ~Replaces(p, q)

\* "the highest-versioned mandate in the lineage identified by root".
LatestIsHighest ==
    \A n \in Node : \A root, p \in DOMAIN resolver[n] :
        Replaces(p, root) =>
            \A l \in GetLatestVersion(n, root) : Terms[l].version >= Terms[p].version

=============================================================================
