----------------------------- MODULE NodeProofs -----------------------------
(***************************************************************************)
(* Two parts of a node.                                                    *)
(*                                                                         *)
(* Mandates, for any nodes, policies, entries and number of restarts: what *)
(* a node enforces is what the mandate's authority signed.                 *)
(*                                                                         *)
(* The VRF, for every group of prime order and every set of inputs: what   *)
(* Prove makes, Verify accepts, in one encoding and with one output.       *)
(***************************************************************************)
EXTENDS Mandates, VRF, WellFoundedInduction, FiniteSetTheorems, TLAPS

\* A leaf that names no prover is left to Zenon; the ones that need SMT name it.
USE ZenonT(30)

Entry == Claim \cup {MandateEntry(p) : p \in Policy}

\* The terms of the mandate an entry refers to.
Kept(e) ==
    e.ref # NoPolicy =>
        /\ e.at >= Terms[e.ref].from
        /\ Terms[e.ref].until # 0 => e.at <= Terms[e.ref].until
        /\ \A rule \in Terms[e.ref].rules :
            rule.class \in {"", e.label} =>
                rule.required \cap {"Approver", "Reference", "Signature"} \subseteq e.fields

\* The maps from some of K to V.
Maps(K, V) == UNION {[P -> V] : P \in SUBSET K}

\* Every body is filed under the identifier of its contents, for fetching and for
\* enforcement alike.
BodiesFiled ==
    /\ keys \in [Node -> SUBSET Authority]
    /\ bodies \in [Node -> Maps(Policy, Body)]
    /\ resolver = bodies
    /\ \A n \in Node : \A p \in DOMAIN bodies[n] : bodies[n][p].policy = p

CallsTyped ==
    /\ calls \in [Node -> Policy \cup {NoPolicy}]
    /\ answers \in [Node -> Maps(Policy, {"ok", "rejected"})]
    /\ restarts \in 0 .. MaxRestarts

\* Whatever waits or is anchored was checked against its mandate.
EntriesKept ==
    /\ pending \in [Node -> SUBSET Entry] /\ blocks \in Seq(SUBSET Entry)
    /\ \A n \in Node : \A e \in pending[n] : Kept(e)
    /\ \A i \in 1 .. Len(blocks) : \A e \in blocks[i] : Kept(e)

MandInv == BodiesFiled /\ CallsTyped /\ EntriesKept

\* Adding a key to a map.
LEMMA SetFacts ==
    ASSUME NEW K, NEW V, NEW f \in Maps(K, V), NEW k \in K, NEW v \in V
    PROVE  /\ Set(f, k, v) \in Maps(K, V)
           /\ DOMAIN Set(f, k, v) = DOMAIN f \cup {k}
           /\ Set(f, k, v)[k] = v /\ \A x \in DOMAIN f \ {k} : Set(f, k, v)[x] = f[x]
<1>1. PICK P \in SUBSET K : f \in [P -> V]
  BY DEF Maps
<1> DEFINE g == [x \in P \cup {k} |-> IF x = k THEN v ELSE f[x]]
<1>2. g \in [P \cup {k} -> V] /\ P \cup {k} \in SUBSET K
  BY <1>1
<1>3. Set(f, k, v) = g /\ DOMAIN f = P
  BY <1>1 DEF Set
<1> QED
  BY <1>2, <1>3 DEF Maps

\* No map at all is a map.
LEMMA EmptyMap ==
    ASSUME NEW K, NEW V
    PROVE  NoBodies \in Maps(K, V) /\ DOMAIN NoBodies = {}
<1>1. NoBodies \in [{} -> V] /\ {} \in SUBSET K
  BY DEF NoBodies
<1> QED
  BY <1>1 DEF Maps

\* An entry that a node accepts keeps its mandate's terms.
LEMMA AcceptedKept ==
    ASSUME MandatesAssumption, BodiesFiled, NEW n \in Node, NEW e, e.at \in Nat, ValidateEntry(n, e)
    PROVE  Kept(e)
<1> SUFFICES ASSUME e.ref # NoPolicy
             PROVE  /\ e.at >= Terms[e.ref].from
                    /\ Terms[e.ref].until # 0 => e.at <= Terms[e.ref].until
                    /\ \A rule \in Terms[e.ref].rules :
                        rule.class \in {"", e.label} =>
                            rule.required \cap {"Approver", "Reference", "Signature"} \subseteq e.fields
  BY DEF Kept
<1>1. e.ref \in Policy /\ resolver[n][e.ref].policy = e.ref
  BY SMTT(30) DEF BodiesFiled, ValidateEntry, Maps
<1>2. IsActiveAt(e.ref, e.at)
  BY <1>1 DEF ValidateEntry
<1>3. \A rule \in Terms[e.ref].rules : entryMatchesRule(e, rule) => validateRule(rule, e)
  BY <1>1 DEF ValidateEntry
<1>4. Terms[e.ref].from \in Nat
  BY <1>1 DEF MandatesAssumption
<1>5. e.at >= Terms[e.ref].from
  BY <1>2, <1>4 DEF IsActiveAt
<1>6. Terms[e.ref].until # 0 => e.at <= Terms[e.ref].until
  BY <1>2 DEF IsActiveAt
<1>7. ASSUME NEW rule \in Terms[e.ref].rules, rule.class \in {"", e.label}
      PROVE  rule.required \cap {"Approver", "Reference", "Signature"} \subseteq e.fields
  <2>1. entryMatchesRule(e, rule)
    BY <1>7 DEF entryMatchesRule
  <2>2. \A f \in rule.required : entryHasField(e, f)
    BY <1>3, <2>1 DEF validateRule
  <2> QED
    BY <2>2 DEF entryHasField
<1> QED
  BY <1>5, <1>6, <1>7

\* A body that is filed is filed under its own contents, in both maps alike.
LEMMA FileKeeps ==
    ASSUME MandatesAssumption, BodiesFiled, NEW n \in Node, NEW b \in Body,
           ValidateMandateAuthority(n, b), keys' = keys,
           resolver' = [resolver EXCEPT ![n] = PutBody(n, b)],
           bodies' = [bodies EXCEPT ![n] = Set(bodies[n], b.id, b)]
    PROVE  BodiesFiled' /\ b.id \in Policy
<1>1. b.policy \in Policy /\ b.id = b.policy /\ [b EXCEPT !.id = b.policy] = b
  BY DEF MandatesAssumption, ValidateMandateAuthority, VerifyHash, MandateID
<1>2. PutBody(n, b) = Set(bodies[n], b.id, b)
  BY <1>1 DEF PutBody, MandateID, BodiesFiled
<1> DEFINE f == Set(bodies[n], b.id, b)
<1>3. bodies \in [Node -> Maps(Policy, Body)] /\ \A m \in Node : \A p \in DOMAIN bodies[m] : bodies[m][p].policy = p
  BY DEF BodiesFiled
<1>4. /\ f \in Maps(Policy, Body) /\ DOMAIN f = DOMAIN bodies[n] \cup {b.id}
      /\ f[b.id] = b /\ \A x \in DOMAIN bodies[n] \ {b.id} : f[x] = bodies[n][x]
  <2>1. bodies[n] \in Maps(Policy, Body)
    BY <1>3
  <2>2. b.id \in Policy
    BY <1>1
  <2> QED
    <3> DEFINE m == bodies[n]
               i == b.id
    <3>1. m \in Maps(Policy, Body) /\ i \in Policy /\ b \in Body
      BY <2>1, <2>2
    <3> HIDE DEF m, i
    <3>2. /\ Set(m, i, b) \in Maps(Policy, Body) /\ DOMAIN Set(m, i, b) = DOMAIN m \cup {i}
          /\ Set(m, i, b)[i] = b /\ \A x \in DOMAIN m \ {i} : Set(m, i, b)[x] = m[x]
      BY <3>1, SetFacts, SMTT(30)
    <3> QED
      BY <3>2 DEF m, i
<1> HIDE DEF f
<1>5. \A p \in DOMAIN f : f[p].policy = p
  BY <1>1, <1>3, <1>4
<1>6. resolver' = [bodies EXCEPT ![n] = f] /\ bodies' = [bodies EXCEPT ![n] = f]
  BY <1>2 DEF BodiesFiled, f
<1>7. bodies' \in [Node -> Maps(Policy, Body)] /\ \A m \in Node : \A p \in DOMAIN bodies'[m] : bodies'[m][p].policy = p
  BY <1>3, <1>4, <1>5, <1>6, SMTT(30)
<1> QED
  BY <1>1, <1>6, <1>7 DEF BodiesFiled

\* What is queued was checked.
LEMMA QueueKeeps ==
    ASSUME EntriesKept, NEW e \in Entry, Kept(e), pending' = Queue(e), blocks' = blocks
    PROVE  EntriesKept'
  BY DEF EntriesKept, Queue, Kept

\* Every step of a node keeps the invariant.
LEMMA MandNextKeeps ==
    ASSUME MandatesAssumption, MandInv, MandNext
    PROVE  MandInv'
<1>0. BodiesFiled /\ CallsTyped /\ EntriesKept /\ NoPolicy \notin Policy /\ MaxRestarts \in Nat
  BY DEF MandInv, MandatesAssumption
<1>1. ASSUME NEW n \in Node, NEW a \in Authority, LearnKey(n, a)
      PROVE  MandInv'
  <2>1. keys' \in [Node -> SUBSET Authority] /\ UNCHANGED <<resolver, bodies>>
    BY <1>0, <1>1 DEF LearnKey, BodiesFiled
  <2> QED
    BY <1>0, <1>1, <2>1 DEF LearnKey, MandInv, BodiesFiled, CallsTyped, EntriesKept, Kept
<1>2. ASSUME NEW n \in Node, NEW b \in Body, SubmitMandate(n, b)
      PROVE  MandInv'
  <2>1. BodiesFiled' /\ b.id \in Policy
    BY <1>0, <1>2, FileKeeps DEF SubmitMandate
  <2>2. CallsTyped'
    BY <1>0, <1>2, <2>1 DEF SubmitMandate, CallsTyped
  <2> QED
    BY <1>0, <1>2, <2>1, <2>2 DEF SubmitMandate, MandInv, EntriesKept, Kept
<1>3. ASSUME NEW n \in Node, NEW b \in Body, RecordMandateBody(n, b)
      PROVE  MandInv'
  <2>1. BodiesFiled'
    BY <1>0, <1>3, FileKeeps DEF RecordMandateBody
  <2> QED
    BY <1>0, <1>3, <2>1 DEF RecordMandateBody, MandInv, CallsTyped, EntriesKept, Kept
<1>4. ASSUME NEW n \in Node, EnqueueMandate(n)
      PROVE  MandInv'
  <2> DEFINE p == calls[n]
             ok == Accepts(n, MandateEntry(p))
             answer == IF ok THEN "ok" ELSE "rejected"
  <2>1. /\ p \in Policy
        /\ pending' = IF ok THEN Queue(MandateEntry(p)) ELSE pending
        /\ answers' = [answers EXCEPT ![n] = Set(answers[n], p, answer)]
        /\ calls' = [calls EXCEPT ![n] = NoPolicy]
        /\ UNCHANGED <<keys, resolver, bodies, blocks, restarts>>
    BY <1>0, <1>4 DEF EnqueueMandate, CallsTyped
  <2>2. MandateEntry(p) \in Entry /\ MandateEntry(p).at \in Nat
    BY <2>1 DEF Entry, MandateEntry, MandatesAssumption
  <2>3. ok => Kept(MandateEntry(p))
    BY <1>0, <2>2, AcceptedKept DEF Accepts
  <2>4. EntriesKept'
    <3>1. CASE ok
      BY <1>0, <2>1, <2>2, <2>3, <3>1, QueueKeeps
    <3>2. CASE ~ok
      BY <1>0, <2>1, <3>2 DEF EntriesKept, Kept
    <3> QED
      BY <3>1, <3>2
  <2>5. answers' \in [Node -> Maps(Policy, {"ok", "rejected"})]
    <3> DEFINE m == answers[n]
    <3>1. m \in Maps(Policy, {"ok", "rejected"}) /\ answer \in {"ok", "rejected"}
      BY <1>0 DEF CallsTyped
    <3> HIDE DEF m, p, answer
    <3>2. Set(m, p, answer) \in Maps(Policy, {"ok", "rejected"})
      BY <2>1, <3>1, SetFacts
    <3> QED
      BY <1>0, <2>1, <3>2 DEF CallsTyped, m
  <2>6. CallsTyped'
    BY <1>0, <2>1, <2>5 DEF CallsTyped
  <2> QED
    BY <1>0, <2>1, <2>4, <2>6 DEF MandInv, BodiesFiled
<1>5. ASSUME NEW n \in Node, NEW e \in Claim, EnqueueEntry(n, e)
      PROVE  MandInv'
  <2>1. e \in Entry /\ e.at \in Nat
    BY DEF Entry, MandatesAssumption
  <2>2. Kept(e)
    BY <1>0, <1>5, <2>1, AcceptedKept DEF EnqueueEntry, Accepts
  <2>3. EntriesKept'
    BY <1>0, <1>5, <2>1, <2>2, QueueKeeps DEF EnqueueEntry
  <2> QED
    BY <1>0, <1>5, <2>3 DEF EnqueueEntry, MandInv, BodiesFiled, CallsTyped
<1>6. ASSUME NEW n \in Node, RunCycle(n)
      PROVE  MandInv'
  <2>1. processMandateEntries(n) = resolver[n]
    <3>1. PICK P \in SUBSET Policy : bodies[n] \in [P -> Body]
      BY <1>0, SMTT(30) DEF BodiesFiled, Maps
    <3> DEFINE known == {e.hash : e \in {x \in pending[n] :
                           /\ x.label = "mandate"
                           /\ x.hash \in DOMAIN bodies[n]
                           /\ ValidateMandateAuthority(n, bodies[n][x.hash])}}
    <3>2. known \subseteq DOMAIN bodies[n]
      OBVIOUS
    <3>3. processMandateEntries(n) = [p \in DOMAIN resolver[n] \cup known |->
                                        IF p \in known THEN bodies[n][p] ELSE resolver[n][p]]
      BY DEF processMandateEntries
    <3> HIDE DEF known
    <3>4. resolver[n] = bodies[n]
      BY <1>0 DEF BodiesFiled
    <3> QED
      BY <3>1, <3>2, <3>3, <3>4
  <2>2. UNCHANGED <<keys, resolver, bodies, calls, answers, restarts>>
    <3>1. resolver' = [resolver EXCEPT ![n] = resolver[n]] /\ UNCHANGED <<keys, bodies, calls, answers, restarts>>
      BY <1>6, <2>1 DEF RunCycle
    <3>2. resolver \in [Node -> Maps(Policy, Body)]
      BY <1>0 DEF BodiesFiled
    <3> QED
      BY <3>1, <3>2
  <2>3. EntriesKept'
    <3>1. CASE UNCHANGED <<pending, blocks>>
      BY <1>0, <3>1 DEF EntriesKept, Kept
    <3>2. CASE /\ blocks' = Append(blocks, pending[n])
               /\ pending' = [m \in Node |-> pending[m] \ pending[n]]
      <4>1. pending' \in [Node -> SUBSET Entry] /\ \A m \in Node : \A e \in pending'[m] : Kept(e)
        BY <1>0, <3>2 DEF EntriesKept
      <4>2. /\ blocks \in Seq(SUBSET Entry) /\ pending[n] \in SUBSET Entry
            /\ \A e \in pending[n] : Kept(e)
            /\ \A i \in 1 .. Len(blocks) : \A e \in blocks[i] : Kept(e)
        BY <1>0 DEF EntriesKept
      <4>3. blocks' \in Seq(SUBSET Entry)
            /\ \A i \in 1 .. Len(blocks') : blocks'[i] = pending[n] \/ (i \in 1 .. Len(blocks) /\ blocks'[i] = blocks[i])
        BY <3>2, <4>2, SMTT(30)
      <4> QED
        BY <4>1, <4>2, <4>3 DEF EntriesKept, Kept
    <3> QED
      BY <1>6, <3>1, <3>2 DEF RunCycle
  <2> QED
    BY <1>0, <2>2, <2>3 DEF MandInv, BodiesFiled, CallsTyped
<1>7. ASSUME NEW n \in Node, Restart(n)
      PROVE  MandInv'
  <2>1. NoBodies \in Maps(Policy, Body) /\ NoBodies \in Maps(Policy, {"ok", "rejected"}) /\ DOMAIN NoBodies = {}
    BY EmptyMap
  <2>2. BodiesFiled'
    BY <1>0, <1>7, <2>1 DEF Restart, BodiesFiled
  <2>3. CallsTyped'
    BY <1>0, <1>7, <2>1, SMTT(30) DEF Restart, CallsTyped
  <2> QED
    BY <1>0, <1>7, <2>2, <2>3 DEF Restart, MandInv, EntriesKept, Kept
<1> QED
  BY <1>1, <1>2, <1>3, <1>4, <1>5, <1>6, <1>7 DEF MandNext

\* For any nodes, policies, bodies and entries, through restarts and bodies that never
\* reach a node: the bodies a node can hand out and those it enforces are the same, each
\* under the identifier of its own contents, and every anchored entry keeps the terms of
\* the mandate it refers to, although only the node that accepted it checked it
\* (SubmitMandate, RecordMandateBody, processMandateEntries, Enqueue).
THEOREM MandatesKeptHolds ==
    ASSUME MandatesAssumption
    PROVE  MandSpec => []MandatesKept
<1>1. MandInit => MandInv
  <2> SUFFICES ASSUME MandInit PROVE MandInv
    OBVIOUS
  <2>1. NoBodies \in Maps(Policy, Body) /\ NoBodies \in Maps(Policy, {"ok", "rejected"}) /\ DOMAIN NoBodies = {}
    BY EmptyMap
  <2>2. BodiesFiled
    BY <2>1 DEF MandInit, BodiesFiled
  <2>3. CallsTyped
    BY <2>1, SMTT(30) DEF MandInit, CallsTyped, MandatesAssumption
  <2>4. EntriesKept
    BY SMTT(30) DEF MandInit, EntriesKept
  <2> QED
    BY <2>2, <2>3, <2>4 DEF MandInv
<1>2. MandInv /\ [MandNext]_mandVars => MandInv'
  <2>1. MandInv /\ UNCHANGED mandVars => MandInv'
    BY DEF mandVars, MandInv, BodiesFiled, CallsTyped, EntriesKept, Kept
  <2> QED
    BY <2>1, MandNextKeeps
<1>3. MandInv => MandatesKept
  <2> SUFFICES ASSUME MandInv PROVE MandatesKept
    OBVIOUS
  <2>1. BodiesFiled /\ CallsTyped /\ EntriesKept
    BY DEF MandInv
  <2>2. MandTypeOK
    <3> SUFFICES ASSUME NEW n \in Node
                 PROVE  /\ DOMAIN resolver[n] \subseteq Policy /\ DOMAIN bodies[n] \subseteq Policy
                        /\ Range(bodies[n]) \subseteq Body
                        /\ calls[n] \in Policy \cup {NoPolicy}
                        /\ Range(answers[n]) \subseteq {"ok", "rejected"}
      BY <2>1 DEF MandTypeOK, BodiesFiled, CallsTyped
    <3>1. PICK P \in SUBSET Policy : bodies[n] \in [P -> Body]
      BY <2>1, SMTT(30) DEF BodiesFiled, Maps
    <3>2. PICK Q \in SUBSET Policy : answers[n] \in [Q -> {"ok", "rejected"}]
      BY <2>1, SMTT(30) DEF CallsTyped, Maps
    <3>3. resolver[n] = bodies[n] /\ calls[n] \in Policy \cup {NoPolicy}
      BY <2>1 DEF BodiesFiled, CallsTyped
    <3> QED
      BY <3>1, <3>2, <3>3 DEF Range
  <2>3. BodiesEnforced
    BY <2>1 DEF BodiesEnforced, BodiesFiled
  <2>4. ClaimsKept
    <3> SUFFICES ASSUME NEW e \in Anchored PROVE Kept(e)
      BY DEF ClaimsKept, Kept
    <3>1. PICK i \in 1 .. Len(blocks) : e \in blocks[i]
      <4>1. blocks \in Seq(SUBSET Entry) /\ e \in UNION {blocks[i] : i \in DOMAIN blocks}
        BY <2>1 DEF EntriesKept, Anchored, Range
      <4> QED
        BY <4>1, SMTT(30)
    <3> QED
      BY <2>1, <3>1 DEF EntriesKept
  <2> QED
    BY <2>2, <2>3, <2>4 DEF MandatesKept
<1> QED
  BY <1>1, <1>2, <1>3, PTL DEF MandSpec

-----------------------------------------------------------------------------
\* Division with remainder.
LEMMA Remainder ==
    ASSUME NEW a \in Int, NEW l \in Nat, l > 0
    PROVE  /\ a % l \in 0 .. l - 1
           /\ \E q \in Int : a = q * l + (a % l)
<1>1. a % l \in 0 .. l - 1 /\ a = (a \div l) * l + (a % l) /\ a \div l \in Int
  BY SMTT(30)
<1> QED
  BY <1>1

\* The remainder is the only number below the divisor that differs by a multiple.
LEMMA RemainderUnique ==
    ASSUME NEW a \in Int, NEW l \in Nat, l > 0, NEW r \in 0 .. l - 1, NEW q \in Int, a = q * l + r
    PROVE  a % l = r
<1>1. PICK p \in Int : a = p * l + (a % l)
  BY Remainder
<1>2. a % l \in 0 .. l - 1
  BY Remainder
<1> DEFINE t == a % l
<1>3. t \in 0 .. l - 1 /\ p * l + t = q * l + r
  BY <1>1, <1>2
<1> SUFFICES t = r
  OBVIOUS
<1> HIDE DEF t
<1>4. CASE p > q
  <2>1. (p - q) * l >= l
    BY <1>4, SMTT(30)
  <2>2. (p - q) * l = r - t
    BY <1>3, SMTT(30)
  <2> QED
    BY <1>3, <2>1, <2>2, SMTT(30)
<1>5. CASE p < q
  <2>1. (q - p) * l >= l
    BY <1>5, SMTT(30)
  <2>2. (q - p) * l = t - r
    BY <1>3, SMTT(30)
  <2> QED
    BY <1>3, <2>1, <2>2, SMTT(30)
<1> QED
  BY <1>3, <1>4, <1>5, SMTT(30)

\* A nonempty set of naturals has a least member.
LEMMA LeastNatural ==
    ASSUME NEW S, S \subseteq Nat, S # {}
    PROVE  \E m \in S : \A n \in S : m <= n
<1>1. PICK m \in S : \A n \in S : <<n, m>> \notin OpToRel(<, Nat)
  BY NatLessThanWellFounded, WFMin
<1>2. \A n \in S : ~(n < m)
  BY <1>1 DEF OpToRel
<1> QED
  BY <1>2, SMTT(30)

\* Euclid: the group order is prime, so a multiple of it that is a product has a factor
\* that is one.  The least d > 0 for which d * b is a multiple divides the order.
LEMMA PrimeFactor ==
    ASSUME OrderAssumption, NEW a \in 1 .. L - 1, NEW b \in Int, NEW k \in Int, a * b = k * L
    PROVE  \E q \in Int : b = q * L
<1> DEFINE S == {d \in 1 .. L - 1 : \E q \in Int : d * b = q * L}
<1>0. L \in Nat /\ L > 1
  BY DEF OrderAssumption
<1>1. a \in S /\ S \subseteq Nat
  BY <1>0, SMTT(30)
<1>2. PICK d \in S : \A n \in S : d <= n
  BY <1>1, LeastNatural
<1>3. PICK q \in Int : d * b = q * L
  OBVIOUS
<1>4. d \in Nat /\ d > 0 /\ d < L
  BY <1>0, SMTT(30)
<1>5. PICK t \in Int : L = t * d + (L % d)
  BY <1>0, <1>4, Remainder, SMTT(30)
<1>6. L % d \in 0 .. d - 1
  BY <1>0, <1>4, Remainder, SMTT(30)
<1>7. L % d = 0
  <2> DEFINE r == L % d
  <2>1. r \in 0 .. d - 1 /\ L = t * d + r
    BY <1>5, <1>6
  <2> SUFFICES r = 0
    OBVIOUS
  <2> HIDE DEF r
  <2>2. r * b = (L - t * d) * b
    BY <2>1, <1>0, <1>4, SMTT(30)
  <2>3. (L - t * d) * b = L * b - t * (d * b)
    BY <1>0, <1>4, SMTT(30)
  <2>4. r * b = (b - t * q) * L
    <3>1. r * b = L * b - t * (q * L)
      BY <1>3, <2>2, <2>3
    <3>2. L * b - t * (q * L) = (b - t * q) * L
      BY <1>0, SMTT(30)
    <3> QED
      BY <3>1, <3>2
  <2>5. r > 0 => r \in S
    <3>1. b - t * q \in Int
      BY SMTT(30)
    <3>2. r > 0 => r \in 1 .. L - 1
      BY <1>0, <1>4, <2>1, SMTT(30)
    <3> QED
      BY <2>4, <3>1, <3>2
  <2> QED
    BY <1>2, <1>4, <2>1, <2>5, SMTT(30)
<1>8. d = 1
  BY <1>0, <1>4, <1>7, SMTT(30) DEF OrderAssumption
<1> QED
  BY <1>3, <1>8, SMTT(30)

\* Numbers with one remainder differ by a multiple of the order.
LEMMA SameRemainder ==
    ASSUME OrderAssumption, NEW a \in Int, NEW b \in Int, a % L = b % L
    PROVE  \E q \in Int : a - b = q * L
<1>0. L \in Nat /\ L > 0
  BY SMTT(30) DEF OrderAssumption
<1>1. PICK p \in Int : a = p * L + (a % L)
  BY <1>0, Remainder
<1>2. PICK q \in Int : b = q * L + (b % L)
  BY <1>0, Remainder
<1>3. a % L \in Int
  BY <1>0, Remainder, SMTT(30)
<1>4. p - q \in Int /\ a - b = (p - q) * L
  <2> DEFINE r == a % L
  <2>1. r \in Int /\ a = p * L + r /\ b = q * L + r
    BY <1>1, <1>2, <1>3
  <2> HIDE DEF r
  <2> QED
    BY <1>0, <2>1, SMTT(30)
<1> QED
  BY <1>4

\* Two challenges that can both be completed for one pair of commitments force Gamma.
LEMMA TwoChallenges ==
    ASSUME OrderAssumption, NEW y \in Int, NEW h \in Int, NEW gamma \in Scalar,
           NEW c \in Scalar, NEW d \in Scalar, NEW s \in Scalar, NEW t \in Scalar, d < c,
           CommitU(y, c, s) = CommitU(y, d, t),
           CommitV(h, gamma, c, s) = CommitV(h, gamma, d, t)
    PROVE  gamma = (y * h) % L
<1>0. L \in Nat /\ L > 1
  BY DEF OrderAssumption
<1>1. {gamma, c, d, s, t} \subseteq Int /\ c - d \in 1 .. L - 1 /\ gamma \in 0 .. L - 1
  BY <1>0, SMTT(30) DEF Scalar
<1>2. PICK p \in Int : (s - c * y) - (t - d * y) = p * L
  <2>1. s - c * y \in Int /\ t - d * y \in Int
    BY <1>1, SMTT(30)
  <2>2. (s - c * y) % L = (t - d * y) % L
    BY DEF CommitU
  <2> QED
    BY <2>1, <2>2, SameRemainder
<1>3. PICK q \in Int : (s * h - c * gamma) - (t * h - d * gamma) = q * L
  <2>1. s * h - c * gamma \in Int /\ t * h - d * gamma \in Int
    BY <1>1, SMTT(30)
  <2>2. (s * h - c * gamma) % L = (t * h - d * gamma) % L
    BY DEF CommitV
  <2> QED
    BY <2>1, <2>2, SameRemainder
<1>4. (c - d) * (y * h - gamma) = (q - p * h) * L
  <2>1. (c - d) * (y * h - gamma)
            = ((s * h - c * gamma) - (t * h - d * gamma)) - ((s - c * y) - (t - d * y)) * h
    BY <1>1, SMTT(30)
  <2>2. (c - d) * (y * h - gamma) = q * L - (p * L) * h
    BY <1>2, <1>3, <2>1
  <2> QED
    BY <1>0, <2>2, SMTT(30)
<1>5. PICK m \in Int : y * h - gamma = m * L
  <2> DEFINE a == c - d
             b == y * h - gamma
             k == q - p * h
  <2>1. a \in 1 .. L - 1 /\ b \in Int /\ k \in Int /\ a * b = k * L
    BY <1>1, <1>4, SMTT(30)
  <2> HIDE DEF a, b, k
  <2>2. \E m \in Int : b = m * L
    BY <2>1, PrimeFactor
  <2> QED
    BY <2>2 DEF b
<1>6. y * h \in Int /\ y * h = m * L + gamma
  BY <1>0, <1>1, <1>5, SMTT(30)
<1> QED
  BY <1>0, <1>1, <1>6, RemainderUnique, SMTT(30)

\* So at most one challenge can be completed for any other Gamma.
LEMMA UniqueOutputHolds ==
    ASSUME OrderAssumption, VRFTypeOK
    PROVE  UniqueOutput
<1> SUFFICES ASSUME NEW a \in Alpha, NEW gamma \in Scalar \ {0, (sk * curve[a]) % L},
                    NEW u \in Scalar, NEW v \in Scalar
             PROVE  Cardinality({c \in Scalar : \E s \in Scalar :
                        /\ CommitU(PublicKey(sk), c, s) = u
                        /\ CommitV(curve[a], gamma, c, s) = v}) <= 1
  BY DEF UniqueOutput
<1> DEFINE C == {c \in Scalar : \E s \in Scalar :
                    /\ CommitU(PublicKey(sk), c, s) = u
                    /\ CommitV(curve[a], gamma, c, s) = v}
<1>1. sk \in Int /\ curve[a] \in Int /\ PublicKey(sk) = sk
  BY SMTT(30) DEF VRFTypeOK, Scalar, Unasked, PublicKey, OrderAssumption
<1>2. \A c, d \in C : c = d
  <2> SUFFICES ASSUME NEW c \in C, NEW d \in C, d < c
               PROVE  FALSE
    BY SMTT(30) DEF Scalar, OrderAssumption
  <2>1. PICK s \in Scalar : CommitU(sk, c, s) = u /\ CommitV(curve[a], gamma, c, s) = v
    BY <1>1
  <2>2. PICK t \in Scalar : CommitU(sk, d, t) = u /\ CommitV(curve[a], gamma, d, t) = v
    BY <1>1
  <2>3. gamma = (sk * curve[a]) % L
    <3>1. c \in Scalar /\ d \in Scalar /\ gamma \in Scalar
      OBVIOUS
    <3>2. /\ CommitU(sk, c, s) = CommitU(sk, d, t)
          /\ CommitV(curve[a], gamma, c, s) = CommitV(curve[a], gamma, d, t)
      BY <2>1, <2>2
    <3> HIDE DEF C
    <3> QED
      BY <1>1, <3>1, <3>2, TwoChallenges
  <2> QED
    BY <2>3
<1>3. C = {} \/ \E c \in C : C = {c}
  BY <1>2
<1>4. Cardinality(C) = 0 \/ Cardinality(C) = 1
  BY <1>3, FS_EmptySet, FS_Singleton
<1> QED
  BY <1>4, SMTT(30)

-----------------------------------------------------------------------------
\* Numbers, tables of numbers, and an oracle that answers a query once.
VRFTypes ==
    /\ sk \in Scalar
    /\ curve \in [Alpha -> Scalar \cup {Unasked}] /\ nonce \in [Alpha -> Scalar \cup {Unasked}]
    /\ \A e \in oracle : e.c \in Scalar
    /\ \A e1, e2 \in oracle : e1.q = e2.q => e1.c = e2.c

\* A proof that was made is the one Prove computes from the tables, and its query was
\* asked.
MadeOf(h, k) ==
    /\ {h, k, proof.gamma, proof.c, proof.s} \subseteq Scalar
    /\ 0 \notin {h, k, sk, proof.gamma, (k * h) % L}
    /\ proof.gamma = (sk * h) % L /\ proof.s = Response(k, proof.c, sk)
    /\ [q |-> Query(PublicKey(sk), h, proof.gamma, k, (k * h) % L), c |-> proof.c] \in oracle

ProofMade == Proved => proof.alpha \in Alpha /\ MadeOf(curve[proof.alpha], nonce[proof.alpha])

\* What was received is an encoding of the proof.
WireOfProof ==
    wire # Enc =>
        /\ Proved
        /\ \E part \in {"none", "gamma", "c", "s"} :
              wire = [gamma |-> Encode(proof.gamma, part = "gamma"),
                      c |-> Encode(proof.c, part = "c"), s |-> Encode(proof.s, part = "s")]

VerdictLast == verdict # NoVerdict => wire # Enc

VRFInv ==
    /\ VRFTypes /\ ProofMade /\ WireOfProof /\ VerdictLast
    /\ ProofAccepted /\ KeyBinding /\ OneEncoding

\* Before Prove is called there is no proof to speak of.
LEMMA VRFInitially ==
    ASSUME OrderAssumption, VRFInit
    PROVE  VRFInv
<1>1. sk \in Scalar
  BY Remainder, SMTT(30) DEF VRFInit, KeyFromSeed, OrderAssumption, Scalar
<1>2. ~Proved /\ ~verdict.ok /\ wire = Enc /\ verdict = NoVerdict
  BY DEF VRFInit, Proved, NoProof, NoVerdict
<1>3. VRFTypes
  BY <1>1 DEF VRFInit, VRFTypes
<1> QED
  BY <1>2, <1>3 DEF VRFInv, ProofMade, WireOfProof, VerdictLast, ProofAccepted, KeyBinding, OneEncoding

\* The oracle answers a query it has answered before as before.
LEMMA OracleKeeps ==
    ASSUME VRFTypes, NEW q, NEW c \in Challenge(q), Asked(q, c)
    PROVE  /\ \A e \in oracle' : e.c \in Scalar
           /\ \A e1, e2 \in oracle' : e1.q = e2.q => e1.c = e2.c
           /\ oracle \subseteq oracle' /\ [q |-> q, c |-> c] \in oracle'
<1>1. oracle' = oracle \cup {[q |-> q, c |-> c]}
  BY DEF Asked
<1>2. c \in Scalar /\ \A e \in oracle : e.q = q => e.c = c
  BY DEF Challenge, VRFTypes
<1> QED
  BY <1>1, <1>2, SMTT(30) DEF VRFTypes

\* A table that is asked keeps the values it has.
LEMMA TableKeeps ==
    ASSUME NEW f \in [Alpha -> Scalar \cup {Unasked}], NEW a \in Alpha, NEW h \in Hashed(f, a)
    PROVE  /\ h \in Scalar
           /\ [f EXCEPT ![a] = h] \in [Alpha -> Scalar \cup {Unasked}]
           /\ \A x \in Alpha : f[x] # Unasked => [f EXCEPT ![a] = h][x] = f[x]
  BY DEF Hashed

\* Prove makes its proof from the tables it has just filled (Prove).
LEMMA ProveKeeps ==
    ASSUME OrderAssumption, VRFInv, NEW a \in Alpha, Prove(a)
    PROVE  VRFInv'
<1>0. proof = NoProof /\ ~Proved /\ wire = Enc /\ verdict = NoVerdict /\ ~verdict.ok
  BY SMTT(30) DEF Prove, VRFInv, WireOfProof, VerdictLast, Proved, NoProof, NoVerdict
<1>1. UNCHANGED <<sk, wire, verdict>>
  BY DEF Prove
<1>2. VRFTypes
  BY DEF VRFInv
<1>3. PICK h \in Hashed(curve, a), k \in Hashed(nonce, a) :
         LET gamma == (sk * h) % L
             u == k
             v == (k * h) % L
             q == Query(PublicKey(sk), h, gamma, u, v)
         IN /\ curve' = [curve EXCEPT ![a] = h]
            /\ nonce' = [nonce EXCEPT ![a] = k]
            /\ IF \E p \in {h, PublicKey(sk), gamma, u, v} : isIdentity(p)
               THEN /\ proof' = [NoProof EXCEPT !.alpha = a]
                    /\ UNCHANGED oracle
               ELSE \E c \in Challenge(q) :
                      /\ Asked(q, c)
                      /\ proof' = [alpha |-> a, gamma |-> gamma, c |-> c,
                                   s |-> Response(k, c, sk)]
  BY DEF Prove
<1> DEFINE gamma == (sk * h) % L
           v == (k * h) % L
           q == Query(PublicKey(sk), h, gamma, k, v)
<1>4. h \in Scalar /\ k \in Scalar
      /\ curve' \in [Alpha -> Scalar \cup {Unasked}] /\ nonce' \in [Alpha -> Scalar \cup {Unasked}]
      /\ curve'[a] = h /\ nonce'[a] = k
  BY <1>2, <1>3, TableKeeps DEF VRFTypes
<1>5. CASE \E p \in {h, PublicKey(sk), gamma, k, v} : isIdentity(p)
  <2>1. proof' = [NoProof EXCEPT !.alpha = a] /\ oracle' = oracle
    BY <1>3, <1>5
  <2>2. ~Proved'
    BY <2>1 DEF Proved, NoProof
  <2>3. VRFTypes'
    BY <1>1, <1>2, <1>4, <2>1 DEF VRFTypes, Scalar
  <2> QED
    BY <1>0, <1>1, <2>2, <2>3
    DEF VRFInv, ProofMade, WireOfProof, VerdictLast, ProofAccepted, KeyBinding, OneEncoding
<1>6. CASE ~\E p \in {h, PublicKey(sk), gamma, k, v} : isIdentity(p)
  <2>1. PICK c \in Challenge(q) :
            Asked(q, c) /\ proof' = [alpha |-> a, gamma |-> gamma, c |-> c, s |-> Response(k, c, sk)]
    BY <1>3, <1>6
  <2> HIDE DEF q
  <2>2. /\ \A e \in oracle' : e.c \in Scalar
        /\ \A e1, e2 \in oracle' : e1.q = e2.q => e1.c = e2.c
        /\ [q |-> q, c |-> c] \in oracle'
    BY <1>2, <2>1, OracleKeeps
  <2>3. VRFTypes'
    BY <1>1, <1>2, <1>4, <2>2 DEF VRFTypes, Scalar
  <2>4. c \in Scalar /\ gamma \in Scalar /\ Response(k, c, sk) \in Scalar
    <3>1. c \in Scalar
      BY <2>2
    <3> QED
      BY <1>2, <1>4, <3>1, Remainder, SMTT(30) DEF VRFTypes, Scalar, Response, OrderAssumption
  <2>5. 0 \notin {h, k, sk, gamma, v}
    BY <1>6 DEF isIdentity, PublicKey
  <2> HIDE DEF gamma, v
  <2>6. ProofMade'
    BY <1>1, <1>4, <2>1, <2>2, <2>4, <2>5 DEF ProofMade, MadeOf, q, gamma, v, PublicKey, Query
  <2> QED
    BY <1>0, <1>1, <2>3, <2>6
    DEF VRFInv, WireOfProof, VerdictLast, ProofAccepted, KeyBinding, OneEncoding
<1> QED
  BY <1>5, <1>6

\* A receiver is handed the numbers of the proof (MarshalVRFProof, UnmarshalVRFProof).
LEMMA ReceiveKeeps ==
    ASSUME OrderAssumption, VRFInv, Receive
    PROVE  VRFInv'
<1>1. Proved /\ wire = Enc /\ UNCHANGED <<sk, curve, nonce, oracle, proof, verdict>>
  BY DEF Receive
<1>2. verdict = NoVerdict /\ ~verdict.ok
  BY <1>1, SMTT(30) DEF VRFInv, VerdictLast, NoVerdict
<1>3. VRFTypes' /\ ProofMade'
  BY <1>1 DEF VRFInv, VRFTypes, ProofMade, MadeOf, Proved
<1>4. WireOfProof'
  BY <1>1 DEF Receive, WireOfProof, Proved
<1> QED
  BY <1>1, <1>2, <1>3, <1>4 DEF VRFInv, VerdictLast, ProofAccepted, KeyBinding, OneEncoding

\* The commitments Verify recomputes from an honest proof are the ones Prove made.
LEMMA CommitmentsAgree ==
    ASSUME OrderAssumption, NEW x \in Scalar, NEW h \in Scalar, NEW k \in Scalar, NEW c \in Scalar
    PROVE  /\ CommitU(x, c, Response(k, c, x)) = k
           /\ CommitV(h, (x * h) % L, c, Response(k, c, x)) = (k * h) % L
<1>0. L \in Nat /\ L > 1 /\ {x, h, k, c} \subseteq Int /\ k \in 0 .. L - 1
  BY SMTT(30) DEF OrderAssumption, Scalar
<1>t. k + c * x \in Int /\ x * h \in Int /\ k * h \in Int /\ L > 0
  BY <1>0, SMTT(30)
<1> DEFINE s == Response(k, c, x)
           gamma == (x * h) % L
           w == (k * h) % L
<1>1. PICK p \in Int : k + c * x = p * L + s
  BY <1>0, <1>t, Remainder DEF Response
<1>2. PICK q \in Int : x * h = q * L + gamma
  BY <1>0, <1>t, Remainder
<1>3. PICK r \in Int : k * h = r * L + w
  BY <1>0, <1>t, Remainder
<1>4. s \in Int /\ gamma \in Int /\ w \in 0 .. L - 1
  <2>1. s \in 0 .. L - 1 /\ gamma \in 0 .. L - 1 /\ w \in 0 .. L - 1
    BY <1>0, <1>t, Remainder DEF Response
  <2> QED
    BY <1>0, <2>1, SMTT(30)
<1> HIDE DEF s, gamma, w
<1>5. s - c * x \in Int /\ s - c * x = (-p) * L + k
  BY <1>0, <1>1, <1>4, SMTT(30)
<1>6. s * h - c * gamma \in Int /\ s * h - c * gamma = (c * q + r - p * h) * L + w
  <2>1. s = k + c * x - p * L /\ gamma = x * h - q * L
    BY <1>0, <1>1, <1>2, <1>4, SMTT(30)
  <2>2. s * h - c * gamma = (k + c * x - p * L) * h - c * (x * h - q * L)
    BY <2>1
  <2>3. (k + c * x - p * L) * h - c * (x * h - q * L) = k * h + (c * q - p * h) * L
    BY <1>0, SMTT(30)
  <2>4. k * h + (c * q - p * h) * L = (c * q + r - p * h) * L + w
    BY <1>0, <1>3, <1>4, SMTT(30)
  <2> QED
    BY <1>0, <1>4, <2>2, <2>3, <2>4, SMTT(30)
<1>7. (s - c * x) % L = k
  <2>1. -p \in Int
    BY SMTT(30)
  <2> QED
    BY <1>0, <1>t, <1>5, <2>1, RemainderUnique
<1>8. (s * h - c * gamma) % L = w
  <2>1. c * q + r - p * h \in Int
    BY <1>0, SMTT(30)
  <2> QED
    BY <1>0, <1>4, <1>6, <2>1, RemainderUnique, SMTT(30)
<1> QED
  BY <1>7, <1>8 DEF s, gamma, w, CommitU, CommitV

\* Verify accepts the honest proof and nothing it should refuse (Verify).
LEMMA VerifyKeeps ==
    ASSUME OrderAssumption, VRFInv, NEW y \in Scalar, NEW a \in Alpha, Verify(y, a)
    PROVE  VRFInv'
<1>0. wire # Enc /\ UNCHANGED <<sk, nonce, proof, wire>>
  BY DEF Verify
<1>1. VRFTypes /\ Proved /\ proof.alpha \in Alpha /\ MadeOf(curve[proof.alpha], nonce[proof.alpha])
  BY <1>0 DEF VRFInv, WireOfProof, ProofMade
<1>2. PICK h \in Hashed(curve, a) :
         LET c == wire.c % L
             s == wire.s % L
             u == CommitU(y, c, s)
             v == CommitV(h, wire.gamma, c, s)
             q == Query(y, h, wire.gamma, u, v)
             wellFormed == /\ Strict(wire.c) /\ Strict(wire.s) /\ PointDecodes(wire.gamma)
                           /\ \A p \in {y, wire.gamma, h, u, v} : ~isIdentity(p)
         IN /\ curve' = [curve EXCEPT ![a] = h]
            /\ IF wellFormed
               THEN \E expectedC \in Challenge(q) :
                      /\ Asked(q, expectedC)
                      /\ verdict' = [pk |-> y, alpha |-> a, ok |-> c = expectedC,
                                     gamma |-> wire.gamma]
               ELSE /\ verdict' = [pk |-> y, alpha |-> a, ok |-> FALSE, gamma |-> Unasked]
                    /\ UNCHANGED oracle
  BY DEF Verify
<1> DEFINE g == curve[proof.alpha]
           k == nonce[proof.alpha]
           c == wire.c % L
           s == wire.s % L
           u == CommitU(y, c, s)
           v == CommitV(h, wire.gamma, c, s)
           q == Query(y, h, wire.gamma, u, v)
           wellFormed == /\ Strict(wire.c) /\ Strict(wire.s) /\ PointDecodes(wire.gamma)
                         /\ \A p \in {y, wire.gamma, h, u, v} : ~isIdentity(p)
\* The tables keep what the proof was made of.
<1>3. /\ h \in Scalar /\ curve' \in [Alpha -> Scalar \cup {Unasked}] /\ curve'[a] = h
      /\ curve'[proof.alpha] = g /\ g # Unasked /\ (a = proof.alpha => h = g)
  <2>1. g # Unasked
    BY <1>1, SMTT(30) DEF MadeOf, Scalar, Unasked
  <2>2. curve \in [Alpha -> Scalar \cup {Unasked}]
    BY <1>1 DEF VRFTypes
  <2>3. curve' = [curve EXCEPT ![a] = h]
    BY <1>2
  <2> QED
    BY <1>1, <2>1, <2>2, <2>3, TableKeeps, SMTT(30)
\* What the numbers decode to; only the canonical encoding is well formed.
<1>4. Strict(wire.c) /\ Strict(wire.s) /\ PointDecodes(wire.gamma) => Honest
  <2>1. PICK part \in {"none", "gamma", "c", "s"} :
            wire = [gamma |-> Encode(proof.gamma, part = "gamma"),
                    c |-> Encode(proof.c, part = "c"), s |-> Encode(proof.s, part = "s")]
    BY <1>0 DEF VRFInv, WireOfProof
  <2>2. {proof.gamma, proof.c, proof.s} \subseteq Nat /\ L \in Nat
    BY <1>1, SMTT(30) DEF MadeOf, Scalar, OrderAssumption
  <2> QED
    BY <2>1, <2>2, SMTT(30) DEF Strict, PointDecodes, Honest, Encode
<1>5. Honest => c = proof.c /\ s = proof.s /\ wire.gamma = proof.gamma
  BY <1>1, SMTT(30) DEF Honest, MadeOf, Scalar, OrderAssumption
<1>6. VerdictLast' /\ WireOfProof'
  BY <1>0 DEF VRFInv, VerdictLast, WireOfProof, Proved
<1> HIDE DEF c, s, u, v, q
<1>7. CASE wellFormed
  <2>1. PICK expectedC \in Challenge(q) :
            /\ Asked(q, expectedC)
            /\ verdict' = [pk |-> y, alpha |-> a, ok |-> c = expectedC, gamma |-> wire.gamma]
    BY <1>2, <1>7 DEF c, s, u, v, q
  <2>2. /\ \A e \in oracle' : e.c \in Scalar
        /\ \A e1, e2 \in oracle' : e1.q = e2.q => e1.c = e2.c
        /\ oracle \subseteq oracle' /\ [q |-> q, c |-> expectedC] \in oracle'
    BY <1>1, <2>1, OracleKeeps
  <2>3. VRFTypes'
    BY <1>0, <1>1, <1>3, <2>2 DEF VRFTypes, Scalar
  <2>4. ProofMade'
    BY <1>0, <1>1, <1>3, <2>2 DEF ProofMade, MadeOf, Proved
  <2>5. Honest /\ Honest'
    BY <1>0, <1>4, <1>7 DEF Honest
  <2>6. OneEncoding'
    BY <2>5, SMTT(30) DEF OneEncoding
  <2> DEFINE p == [q |-> Query(PublicKey(sk), g, proof.gamma, k, (k * g) % L), c |-> proof.c]
  <2>7. p \in oracle'
    BY <1>1, <2>2 DEF MadeOf
  <2>8. KeyBinding'
    <3> SUFFICES ASSUME verdict'.ok, \A e1, e2 \in oracle' : e1.c = e2.c => e1.q = e2.q
                 PROVE  verdict'.pk = PublicKey(sk') /\ curve'[verdict'.alpha] = curve'[proof'.alpha]
      BY DEF KeyBinding, PublicKey
    <3>1. expectedC = proof.c /\ verdict'.pk = y /\ verdict'.alpha = a
      BY <1>5, <2>1, <2>5
    <3>2. q = p.q
      BY <2>2, <2>7, <3>1
    <3>3. y = PublicKey(sk) /\ h = g
      BY <3>2 DEF q, Query
    <3> QED
      BY <1>0, <1>3, <3>1, <3>3 DEF PublicKey
  <2>9. ProofAccepted'
    <3> SUFFICES ASSUME y = sk, a = proof.alpha
                 PROVE  c = expectedC /\ wire.gamma = (sk * g) % L
      BY <1>0, <1>3, <2>1 DEF ProofAccepted, PublicKey
    <3>1. h = g /\ g \in Scalar /\ k \in Scalar /\ proof.c \in Scalar /\ sk \in Scalar
      BY <1>1, <1>3 DEF MadeOf, VRFTypes
    <3>2. u = k /\ v = (k * g) % L
      <4>1. proof.s = Response(k, proof.c, sk) /\ proof.gamma = (sk * g) % L
        BY <1>1 DEF MadeOf
      <4> HIDE DEF g, k
      <4>2. /\ CommitU(sk, proof.c, Response(k, proof.c, sk)) = k
            /\ CommitV(g, (sk * g) % L, proof.c, Response(k, proof.c, sk)) = (k * g) % L
        BY <3>1, CommitmentsAgree
      <4> QED
        BY <1>5, <2>5, <3>1, <4>1, <4>2 DEF u, v
    <3>3. q = p.q
      BY <1>5, <2>5, <3>1, <3>2 DEF q, PublicKey
    <3>4. expectedC = proof.c
      BY <2>2, <2>7, <3>3
    <3> QED
      BY <1>1, <1>5, <2>5, <3>4 DEF MadeOf
  <2> QED
    BY <1>6, <2>3, <2>4, <2>6, <2>8, <2>9 DEF VRFInv
<1>8. CASE ~wellFormed
  <2>1. /\ verdict' = [pk |-> y, alpha |-> a, ok |-> FALSE, gamma |-> Unasked]
        /\ oracle' = oracle
    BY <1>2, <1>8 DEF c, s, u, v, q
  <2>2. VRFTypes'
    BY <1>0, <1>1, <1>3, <2>1 DEF VRFTypes, Scalar
  <2>3. ProofMade'
    BY <1>0, <1>1, <1>3, <2>1 DEF ProofMade, MadeOf, Proved
  <2>4. OneEncoding' /\ KeyBinding'
    BY <2>1, SMTT(30) DEF OneEncoding, KeyBinding
  <2>5. ProofAccepted'
    <3> SUFFICES ASSUME y = sk, a = proof.alpha, Honest
                 PROVE  wellFormed
      BY <1>0, <1>8, <2>1 DEF ProofAccepted, PublicKey, Honest
    <3>1. h = g /\ g \in Scalar /\ k \in Scalar /\ proof.c \in Scalar /\ sk \in Scalar
      BY <1>1, <1>3 DEF MadeOf, VRFTypes
    <3>2. u = k /\ v = (k * g) % L
      <4>1. proof.s = Response(k, proof.c, sk) /\ proof.gamma = (sk * g) % L
        BY <1>1 DEF MadeOf
      <4> HIDE DEF g, k
      <4>2. /\ CommitU(sk, proof.c, Response(k, proof.c, sk)) = k
            /\ CommitV(g, (sk * g) % L, proof.c, Response(k, proof.c, sk)) = (k * g) % L
        BY <3>1, CommitmentsAgree
      <4> QED
        BY <1>5, <3>1, <4>1, <4>2 DEF u, v
    <3>3. Strict(wire.c) /\ Strict(wire.s) /\ PointDecodes(wire.gamma)
      BY <1>1, SMTT(30) DEF Honest, MadeOf, Scalar, Strict, PointDecodes, OrderAssumption
    <3> QED
      BY <1>1, <1>5, <3>1, <3>2, <3>3 DEF MadeOf, isIdentity
  <2> QED
    BY <1>6, <2>2, <2>3, <2>4, <2>5 DEF VRFInv
<1> QED
  BY <1>7, <1>8

\* For every prime order and all inputs: a proof made by Prove is accepted by Verify and
\* yields the prover's output, one made under another key is rejected but where
\* hash_to_scalar collides, only the canonical encoding is accepted, and for any other
\* output at most one answer of hash_to_scalar can be completed to a proof (Prove, Verify).
THEOREM VRFSoundHolds ==
    ASSUME OrderAssumption
    PROVE  VRFSpec => []VRFSound
<1>1. VRFInit => VRFInv
  BY VRFInitially
<1>2. VRFInv /\ [VRFNext]_vrfVars => VRFInv'
  <2>1. VRFInv /\ VRFNext => VRFInv'
    BY ProveKeeps, ReceiveKeeps, VerifyKeeps DEF VRFNext
  <2>2. VRFInv /\ UNCHANGED vrfVars => VRFInv'
    BY DEF vrfVars, VRFInv, VRFTypes, ProofMade, MadeOf, WireOfProof, VerdictLast, ProofAccepted,
              KeyBinding, OneEncoding, Proved, Honest
  <2> QED
    BY <2>1, <2>2, SMTT(30)
<1>3. VRFInv => VRFSound
  <2> SUFFICES ASSUME VRFInv PROVE VRFSound
    OBVIOUS
  <2>1. VRFTypeOK
    BY DEF VRFInv, VRFTypes, VRFTypeOK, ProofMade, MadeOf
  <2> QED
    BY <2>1, UniqueOutputHolds DEF VRFSound, VRFInv
<1> QED
  BY <1>1, <1>2, <1>3, PTL DEF VRFSpec

=============================================================================
