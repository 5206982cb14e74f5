---------------------------- MODULE ServiceProofs ----------------------------
(***************************************************************************)
(* Four parts around the engine.                                           *)
(*                                                                         *)
(* Sub-chains, for any sub-chains, entries, callers and queue limit, and   *)
(* any number of restarts: a sub-chain's checkpoints form a line, and a    *)
(* proof that Prove returns speaks of one of them.                         *)
(*                                                                         *)
(* The anchor publisher of a node with a storage, for any configurations,  *)
(* backends and bounds: every published file is the block of the chain at  *)
(* its index, and none is ever replaced by another block.                  *)
(*                                                                         *)
(* The degraded mode, for every threshold, grace period and sequence of    *)
(* calls: the mode that CheckDegradedTransition keeps with one flag and    *)
(* one counter is the one the whole history of calls defines.              *)
(*                                                                         *)
(* The key registry, for any identifiers, keys and readers, with a bucket  *)
(* or without: a registered identifier is found, and its key survives      *)
(* restarts.                                                               *)
(***************************************************************************)
EXTENDS SubChain, AnchorPublisher, DegradedMode, Registry, TLAPS

\* A leaf that names no prover is left to Zenon; the ones that need SMT name it.
USE ZenonT(30)

ChainT == [pending : SUBSET Entry, st : SUBSET Entry, anchors : SUBSET (SUBSET Entry)]

\* A recorded checkpoint of a sub-chain that the manager knows.
Recorded(id, r) == id \in DOMAIN chains /\ r \in chains[id].anchors

\* What a call in progress holds, at each of its stops.
EnqueueCall(r) ==
    \E id \in Chain, root \in SUBSET Entry :
        r = [op |-> "enqueue", hash |-> <<id, root>>] /\ Recorded(id, root)

\* An entry of a recorded checkpoint.
Covers(id, e, root) == id \in Chain /\ root \in SUBSET Entry /\ Recorded(id, root) /\ e \in root

\* A tree of the parent chain, by now or earlier, that holds the checkpoint.
Holds(tree, id, root) == tree \subseteq committed /\ <<id, root>> \in tree

ProofCall(r) == r.op = "parentProof" /\ Covers(r.id, r.entry, r.subRoot)

RootCall(r) ==
    /\ r.op = "parentRoot" /\ Covers(r.id, r.entry, r.subRoot)
    /\ Holds(r.parentProof, r.id, r.subRoot)

LookupCall(r) ==
    /\ r.op = "lookup" /\ Covers(r.id, r.entry, r.subRoot)
    /\ Holds(r.parentProof, r.id, r.subRoot) /\ r.parentProof \subseteq r.parentRoot

ProvedCall(r) ==
    /\ r.op = "proved" /\ Covers(r.id, r.entry, r.subRoot)
    /\ Holds(r.parentProof, r.id, r.subRoot) /\ r.parentProof \subseteq r.parentRoot
    /\ Holds(r.anchorBlock, r.id, r.subRoot)

CallOK(r) ==
    \/ r = Idle \/ EnqueueCall(r)
    \/ ProofCall(r) \/ RootCall(r) \/ LookupCall(r) \/ ProvedCall(r)

\* The tree of a sub-chain holds only what was submitted and contains every
\* checkpoint; the last one is the tree itself.
ChainOK(id) ==
    /\ chains[id].st \cup chains[id].pending \subseteq submitted[id]
    /\ \A r \in chains[id].anchors : r \subseteq chains[id].st
    /\ \A r1, r2 \in chains[id].anchors : r1 \subseteq r2 \/ r2 \subseteq r1
    /\ chains[id].anchors # {} => chains[id].st \in chains[id].anchors

ShapeInv ==
    /\ DOMAIN chains \subseteq Chain /\ chains \in [DOMAIN chains -> ChainT]
    /\ submitted \in [Chain -> SUBSET Entry]
    /\ calls = [c \in Caller |-> calls[c]]
    /\ queue \in Seq(ParentHash)
    /\ committed \subseteq ParentHash
    /\ restarts \in Nat

ParentInv ==
    /\ DOMAIN anchored = committed /\ anchored = [h \in committed |-> anchored[h]]
    /\ \A h \in committed : h \in anchored[h] /\ anchored[h] \subseteq committed
    /\ restarts = 0 => \A id \in Chain, r \in SUBSET Entry :
                          <<id, r>> \in committed \cup Range(queue) => Recorded(id, r)

SInv ==
    /\ ShapeInv
    /\ \A id \in DOMAIN chains : ChainOK(id)
    /\ \A c \in Caller : CallOK(calls[c])
    /\ ParentInv

\* A node that starts has no sub-chain, no call and an empty parent chain.
LEMMA InitSInv == ASSUME SubInit PROVE SInv
<1>1. ShapeInv
  BY SMTT(30) DEF ShapeInv, SubInit, ParentHash
<1>2. DOMAIN chains = {}
  BY DEF SubInit
<1>3. \A c \in Caller : CallOK(calls[c])
  BY DEF SubInit, CallOK
<1>4. Range(queue) = {}
  BY SMTT(30) DEF SubInit, Range
<1>5. ParentInv
  BY <1>4 DEF ParentInv, SubInit
<1> QED BY <1>1, <1>2, <1>3, <1>5 DEF SInv

\* Calls keep what they hold when no recorded checkpoint is lost and the parent
\* chain only grows.
LEMMA CallKept ==
    ASSUME NEW r, CallOK(r), committed \subseteq committed',
           \A id \in Chain, root \in SUBSET Entry : Recorded(id, root) => Recorded(id, root)'
    PROVE CallOK(r)'
<1>1. \A id, e, root : Covers(id, e, root) => Covers(id, e, root)'
  BY DEF Covers
<1>2. \A id, root, tree : Holds(tree, id, root) => Holds(tree, id, root)'
  BY DEF Holds
<1>3. EnqueueCall(r) => EnqueueCall(r)'
  BY DEF EnqueueCall
<1> QED
  BY <1>1, <1>2, <1>3 DEF CallOK, ProofCall, RootCall, LookupCall, ProvedCall

\* The record a call holds after a step, by name.
LEMMA CallIs ==
    ASSUME NEW x \in Caller, NEW v, v = calls'[x], CallOK(v)'
    PROVE CallOK(calls[x])'
<1>1. EnqueueCall(v)' => EnqueueCall(calls[x])'
  BY DEF EnqueueCall
<1>2. ProofCall(v)' => ProofCall(calls[x])'
  BY DEF ProofCall
<1>3. RootCall(v)' => RootCall(calls[x])'
  BY DEF RootCall
<1>4. LookupCall(v)' => LookupCall(calls[x])'
  BY DEF LookupCall
<1>5. ProvedCall(v)' => ProvedCall(calls[x])'
  BY DEF ProvedCall
<1> QED BY <1>1, <1>2, <1>3, <1>4, <1>5 DEF CallOK

\* Which stop a call is at can be told from its record.
LEMMA CallKinds ==
    ASSUME NEW r, CallOK(r)
    PROVE /\ r.op = "enqueue" => EnqueueCall(r)
          /\ r.op = "parentProof" => ProofCall(r)
          /\ r.op = "parentRoot" => RootCall(r)
          /\ r.op = "lookup" => LookupCall(r)
          /\ r.op = "proved" => ProvedCall(r)
<1>1. r = Idle => r.op = "idle"
  BY SMTT(30) DEF Idle
<1>2. EnqueueCall(r) => r.op = "enqueue"
  BY SMTT(30) DEF EnqueueCall
<1>3. ProofCall(r) => r.op = "parentProof"
  BY DEF ProofCall
<1>4. RootCall(r) => r.op = "parentRoot"
  BY DEF RootCall
<1>5. LookupCall(r) => r.op = "lookup"
  BY DEF LookupCall
<1>6. ProvedCall(r) => r.op = "proved"
  BY DEF ProvedCall
<1> QED BY <1>1, <1>2, <1>3, <1>4, <1>5, <1>6 DEF CallOK

\* A step of one call that leaves the manager and the parent chain alone.
LEMMA CallMoves ==
    ASSUME SInv, NEW c \in Caller, NEW r, CallOK(r),
           calls' = [calls EXCEPT ![c] = r],
           UNCHANGED <<managerVars, parentVars, restarts>>
    PROVE SInv'
<1>0. UNCHANGED <<chains, submitted, queue, committed, anchored, restarts>>
  BY DEF managerVars, parentVars
<1>1. calls' = [x \in Caller |-> IF x = c THEN r ELSE calls[x]]
  BY DEF SInv, ShapeInv
<1>2. ASSUME NEW x \in Caller PROVE CallOK(calls[x])'
  <2>1. PICK v : v = calls'[x]
    OBVIOUS
  <2>2. CallOK(v)
    BY <1>1, <2>1 DEF SInv
  <2>3. \A id, root : Recorded(id, root) => Recorded(id, root)'
    BY <1>0 DEF Recorded
  <2>4. CallOK(v)'
    BY <1>0, <2>2, <2>3, CallKept
  <2> QED BY <2>1, <2>4, CallIs
<1>3. ShapeInv'
  BY <1>0, <1>1 DEF SInv, ShapeInv
<1>4. \A id \in DOMAIN chains' : ChainOK(id)'
  BY <1>0 DEF SInv, ChainOK
<1>5. ParentInv'
  BY <1>0 DEF SInv, ParentInv, Recorded
<1> QED BY <1>2, <1>3, <1>4, <1>5 DEF SInv

\* The steps of Prove, and the caller taking its result.
LEMMA ProveStep ==
    ASSUME SInv, NEW c \in Caller,
           \/ \E id \in Chain, e \in Entry : ProveEntry(c, id, e)
           \/ ProveParent(c) \/ ReadParentRoot(c) \/ LookupAnchor(c) \/ TakeProof(c)
    PROVE SInv'
<1>0. CallOK(calls[c]) /\ ShapeInv /\ ParentInv /\ committed \subseteq ParentHash
  BY DEF SInv, ShapeInv
<1>1. CallOK(Idle)
  BY DEF CallOK
<1>2. ASSUME NEW id \in Chain, NEW e \in Entry, ProveEntry(c, id, e) PROVE SInv'
  <2> DEFINE root == chains[id].st
             r == [op |-> "parentProof", id |-> id, entry |-> e, subRoot |-> root]
  <2>1. id \in DOMAIN chains /\ e \in root /\ chains[id].anchors # {}
    BY <1>2 DEF ProveEntry
  <2>2. root \in SUBSET Entry /\ Covers(id, e, root)
    BY <1>0, <2>1 DEF SInv, ShapeInv, ChainT, ChainOK, Covers, Recorded
  <2>3. CallOK(r)
    BY <2>2 DEF CallOK, ProofCall
  <2>4. calls' = [calls EXCEPT ![c] = r] /\ UNCHANGED <<managerVars, parentVars, restarts>>
    BY <1>2 DEF ProveEntry
  <2> HIDE DEF r
  <2> QED BY <2>3, <2>4, CallMoves
<1>3. CASE ProveParent(c)
  <2> DEFINE old == calls[c]
             r == [op |-> "parentRoot", id |-> old.id, entry |-> old.entry,
                   subRoot |-> old.subRoot, parentProof |-> committed]
             h == <<old.id, old.subRoot>>
  <2>1. ProofCall(old)
    BY <1>0, <1>3, CallKinds DEF ProveParent
  <2>2. /\ calls' = [calls EXCEPT ![c] = IF h \in committed THEN r ELSE Idle]
        /\ UNCHANGED <<managerVars, parentVars, restarts>>
    BY <1>3 DEF ProveParent, HashOf, AnchorHash
  <2>3. h \in committed => CallOK(r)
    BY <2>1 DEF CallOK, ProofCall, RootCall, Holds
  <2> HIDE DEF r, h
  <2> QED BY <1>1, <2>2, <2>3, CallMoves
<1>4. CASE ReadParentRoot(c)
  <2> DEFINE old == calls[c]
             r == [op |-> "lookup", id |-> old.id, entry |-> old.entry,
                   subRoot |-> old.subRoot, parentProof |-> old.parentProof,
                   parentRoot |-> committed]
  <2>1. RootCall(old)
    BY <1>0, <1>4, CallKinds DEF ReadParentRoot
  <2>2. calls' = [calls EXCEPT ![c] = r] /\ UNCHANGED <<managerVars, parentVars, restarts>>
    BY <1>4, ZenonT(60) DEF ReadParentRoot
  <2>3. CallOK(r)
    BY <2>1 DEF CallOK, RootCall, LookupCall, Holds
  <2> HIDE DEF r
  <2> QED BY <2>2, <2>3, CallMoves
<1>5. CASE LookupAnchor(c)
  <2> DEFINE old == calls[c]
             h == <<old.id, old.subRoot>>
             r == [op |-> "proved", id |-> old.id, entry |-> old.entry,
                   subRoot |-> old.subRoot, parentProof |-> old.parentProof,
                   parentRoot |-> old.parentRoot, anchorBlock |-> anchored[h]]
  <2>1. LookupCall(old)
    BY <1>0, <1>5, CallKinds DEF LookupAnchor
  <2>2. /\ calls' = [calls EXCEPT ![c] = IF h \in DOMAIN anchored THEN r ELSE Idle]
        /\ UNCHANGED <<managerVars, parentVars, restarts>>
    BY <1>5 DEF LookupAnchor, HashOf, AnchorHash
  <2>3. ASSUME h \in DOMAIN anchored PROVE CallOK(r)
    <3>1. Holds(anchored[h], old.id, old.subRoot)
      BY <1>0, <2>3, ZenonT(60) DEF ParentInv, Holds
    <3>2. ProvedCall(r)
      BY <2>1, <3>1 DEF LookupCall, ProvedCall
    <3> QED BY <3>2 DEF CallOK
  <2> HIDE DEF r, h
  <2> QED BY <1>1, <2>2, <2>3, CallMoves, ZenonT(60)
<1>6. CASE TakeProof(c)
  BY <1>1, <1>6, CallMoves DEF TakeProof
<1> QED BY <1>2, <1>3, <1>4, <1>5, <1>6

\* A step that moves at most one call, to a good place, and loses no checkpoint.
LEMMA CallsKept ==
    ASSUME SInv, committed \subseteq committed',
           \A id \in Chain, root \in SUBSET Entry : Recorded(id, root) => Recorded(id, root)',
           NEW x \in Caller, calls'[x] = calls[x]
    PROVE CallOK(calls[x])'
<1>1. PICK v : v = calls[x]
  OBVIOUS
<1>2. CallOK(v)
  BY <1>1 DEF SInv
<1>3. CallOK(v)'
  BY <1>2, CallKept
<1> QED BY <1>1, <1>3, CallIs

\* Register, Submit and Anchor leave the parent chain alone.
LEMMA ManagerStep ==
    ASSUME SInv,
           \/ \E id \in Chain : Register(id)
           \/ \E id \in Chain, e \in Entry : Submit(id, e)
           \/ \E c \in Caller, id \in Chain : Anchor(c, id)
    PROVE SInv'
<1>0. ShapeInv /\ ParentInv /\ \A id \in DOMAIN chains : ChainOK(id)
  BY DEF SInv
<1>1. ASSUME NEW id \in Chain, Register(id) PROVE SInv'
  <2> DEFINE fresh == [pending |-> {}, st |-> {}, anchors |-> {}]
  <2>1. /\ id \notin DOMAIN chains
        /\ chains' = [i \in DOMAIN chains \cup {id} |-> IF i = id THEN fresh ELSE chains[i]]
        /\ UNCHANGED <<submitted, calls, queue, committed, anchored, restarts>>
    BY <1>1 DEF Register, parentVars
  <2>2. fresh \in ChainT /\ fresh.pending = {} /\ fresh.st = {} /\ fresh.anchors = {}
    BY DEF ChainT
  <2> HIDE DEF fresh
  <2>3. ShapeInv'
    BY <1>0, <2>1, <2>2 DEF ShapeInv
  <2>4. \A i, r : Recorded(i, r) => Recorded(i, r)'
    BY <2>1 DEF Recorded
  <2>5. ASSUME NEW i \in DOMAIN chains' PROVE ChainOK(i)'
    BY <1>0, <2>1, <2>2 DEF ChainOK
  <2>6. \A x \in Caller : CallOK(calls[x])'
    BY <2>1, <2>4, CallsKept
  <2>7. ParentInv'
    BY <1>0, <2>1, <2>4, ZenonT(60) DEF ParentInv
  <2> QED BY <2>3, <2>5, <2>6, <2>7 DEF SInv
<1>2. ASSUME NEW id \in Chain, NEW e \in Entry, Submit(id, e) PROVE SInv'
  <2> DEFINE pend == chains[id].pending \cup {e}
             new == [chains[id] EXCEPT !.pending = pend]
  <2>1. /\ id \in DOMAIN chains
        /\ chains' = [chains EXCEPT ![id] = new]
        /\ submitted' = [submitted EXCEPT ![id] = submitted[id] \cup {e}]
        /\ UNCHANGED <<calls, queue, committed, anchored, restarts>>
    BY <1>2 DEF Submit, parentVars
  <2>2. chains[id] \in ChainT /\ pend \in SUBSET Entry
    BY <1>0, <2>1 DEF ShapeInv, ChainT
  <2>3. /\ new \in ChainT /\ new.pending = pend
        /\ new.st = chains[id].st /\ new.anchors = chains[id].anchors
    <3> HIDE DEF pend
    <3> QED BY <2>2 DEF ChainT
  <2> HIDE DEF new
  <2>4. /\ DOMAIN chains' = DOMAIN chains
        /\ \A i \in DOMAIN chains : chains'[i] = IF i = id THEN new ELSE chains[i]
    BY <1>0, <2>1 DEF ShapeInv
  <2>5. submitted' \in [Chain -> SUBSET Entry]
        /\ \A i \in Chain : submitted'[i] = IF i = id THEN submitted[i] \cup {e} ELSE submitted[i]
    BY <1>0, <2>1 DEF ShapeInv
  <2>6. ShapeInv'
    BY <1>0, <2>1, <2>3, <2>4, <2>5 DEF ShapeInv
  <2>7. \A i, r : Recorded(i, r) <=> Recorded(i, r)'
    BY <2>3, <2>4 DEF Recorded
  <2>8. ASSUME NEW i \in DOMAIN chains' PROVE ChainOK(i)'
    <3>1. i \in DOMAIN chains /\ i \in Chain /\ ChainOK(i)
      BY <1>0, <2>4 DEF ShapeInv
    <3>2. CASE i # id
      BY <2>4, <2>5, <3>1, <3>2 DEF ChainOK
    <3>3. CASE i = id
      BY <2>3, <2>4, <2>5, <3>1, <3>3, SMTT(30) DEF ChainOK
    <3> QED BY <3>2, <3>3
  <2>9. \A x \in Caller : CallOK(calls[x])'
    BY <2>1, <2>7, CallsKept
  <2>10. ParentInv'
    BY <1>0, <2>1, <2>7 DEF ParentInv
  <2> QED BY <2>6, <2>8, <2>9, <2>10 DEF SInv
<1>3. ASSUME NEW c \in Caller, NEW id \in Chain, Anchor(c, id) PROVE SInv'
  <2> DEFINE sc == chains[id]
  <2>0. PICK root : root = sc.st \cup sc.pending
    OBVIOUS
  <2> DEFINE new == [pending |-> {}, st |-> root, anchors |-> sc.anchors \cup {root}]
             r == [op |-> "enqueue", hash |-> <<id, root>>]
  <2>1. /\ id \in DOMAIN chains
        /\ chains' = [chains EXCEPT ![id] = new]
        /\ calls' = [calls EXCEPT ![c] = r]
        /\ UNCHANGED <<submitted, queue, committed, anchored, restarts>>
    BY <1>3, <2>0 DEF Anchor, AnchoredRoot, AnchorHash, parentVars
  <2>2. sc \in ChainT /\ root \in SUBSET Entry
    BY <1>0, <2>0, <2>1 DEF ShapeInv, ChainT
  <2>3. /\ new \in ChainT /\ new.pending = {} /\ new.st = root
        /\ new.anchors = sc.anchors \cup {root}
    BY <2>2 DEF ChainT
  <2>4. /\ DOMAIN chains' = DOMAIN chains
        /\ \A i \in DOMAIN chains : chains'[i] = IF i = id THEN new ELSE chains[i]
    <3> HIDE DEF new
    <3> QED BY <1>0, <2>1 DEF ShapeInv
  <2>5. calls' = [x \in Caller |-> IF x = c THEN r ELSE calls[x]]
    <3> HIDE DEF r
    <3> QED BY <1>0, <2>1 DEF ShapeInv
  <2>6. ShapeInv'
    <3>1. calls' = [x \in Caller |-> calls'[x]]
      <4> HIDE DEF r
      <4> QED BY <2>5
    <3>2. chains' \in [DOMAIN chains' -> ChainT] /\ DOMAIN chains' \subseteq Chain
      <4> HIDE DEF new
      <4> QED BY <1>0, <2>1, <2>3, <2>4 DEF ShapeInv
    <3> QED BY <1>0, <2>1, <3>1, <3>2 DEF ShapeInv
  <2>7. /\ \A i, q : Recorded(i, q) => Recorded(i, q)'
        /\ Recorded(id, root)'
    <3> HIDE DEF new
    <3> QED BY <2>1, <2>3, <2>4 DEF Recorded
  <2>8. ASSUME NEW i \in DOMAIN chains' PROVE ChainOK(i)'
    <3>1. i \in DOMAIN chains /\ ChainOK(i)
      BY <1>0, <2>4
    <3>2. CASE i # id
      BY <2>1, <2>4, <3>1, <3>2 DEF ChainOK
    <3>3. CASE i = id
      <4>1. \A q \in sc.anchors : q \subseteq root
        BY <2>0, <3>1, <3>3 DEF ChainOK
      <4>2. /\ chains'[i].pending = {} /\ chains'[i].st = root
            /\ chains'[i].anchors = sc.anchors \cup {root}
        BY <2>3, <2>4, <3>1, <3>3
      <4>3. root \subseteq submitted[i]
        BY <2>0, <3>1, <3>3 DEF ChainOK
      <4>4. \A r1, r2 \in sc.anchors : r1 \subseteq r2 \/ r2 \subseteq r1
        BY <3>1, <3>3 DEF ChainOK
      <4> HIDE DEF new, sc
      <4> QED BY <2>1, <4>1, <4>2, <4>3, <4>4, SMTT(30) DEF ChainOK
    <3> QED BY <3>2, <3>3
  <2>9. ASSUME NEW x \in Caller PROVE CallOK(calls[x])'
    <3>1. CASE x # c
      <4>1. calls'[x] = calls[x]
        BY <2>5, <3>1
      <4> QED BY <2>1, <2>7, <4>1, CallsKept
    <3>2. CASE x = c
      <4>1. EnqueueCall(calls[x])'
        <5>1. calls'[x] = [op |-> "enqueue", hash |-> <<id, root>>]
          BY <2>5, <3>2
        <5>2. root \in SUBSET Entry
          BY <2>2
        <5> QED BY <2>7, <5>1, <5>2 DEF EnqueueCall
      <4> QED BY <4>1 DEF CallOK
    <3> QED BY <3>1, <3>2
  <2>10. ParentInv'
    BY <1>0, <2>1, <2>7 DEF ParentInv
  <2> QED BY <2>6, <2>8, <2>9, <2>10 DEF SInv
<1> QED BY <1>1, <1>2, <1>3

\* What a queue holds after one more entry.
LEMMA RangeAppend ==
    ASSUME NEW S, NEW q \in Seq(S), NEW h \in S
    PROVE Append(q, h) \in Seq(S) /\ Range(Append(q, h)) = Range(q) \cup {h}
<1>1. Append(q, h) \in Seq(S) /\ DOMAIN Append(q, h) = 1 .. Len(q) + 1
  BY SMTT(30)
<1>2. DOMAIN q = 1 .. Len(q) /\ Len(q) \in Nat
  BY SMTT(30)
<1>3. Append(q, h)[Len(q) + 1] = h /\ \A k \in 1 .. Len(q) : Append(q, h)[k] = q[k]
  BY SMTT(30)
<1>4. \A k \in 1 .. Len(q) + 1 : k \in 1 .. Len(q) \/ k = Len(q) + 1
  BY <1>2, SMTT(30)
<1>5. Len(q) + 1 \in 1 .. Len(q) + 1 /\ 1 .. Len(q) \subseteq 1 .. Len(q) + 1
  BY <1>2, SMTT(30)
<1> HIDE DEF Range
<1>6. Range(Append(q, h)) \subseteq Range(q) \cup {h}
  BY <1>1, <1>2, <1>3, <1>4 DEF Range
<1>7. Range(q) \cup {h} \subseteq Range(Append(q, h))
  BY <1>1, <1>2, <1>3, <1>5 DEF Range
<1> QED BY <1>1, <1>6, <1>7

\* EnqueueAnchor and the entries of other clients change the queue.
LEMMA QueueStep ==
    ASSUME SInv,
           \/ \E o \in Other : EnqueueOther(o)
           \/ \E c \in Caller : EnqueueAnchor(c)
    PROVE SInv'
<1> USE SubChainAssumption
<1>0. ShapeInv /\ ParentInv /\ \A id \in DOMAIN chains : ChainOK(id)
  BY DEF SInv
<1>1. ASSUME NEW h \in ParentHash, queue' = Append(queue, h),
             UNCHANGED <<chains, submitted, committed, anchored, restarts>>,
             calls' = [x \in Caller |-> calls'[x]],
             \A id \in Chain, r \in SUBSET Entry : h = <<id, r>> => Recorded(id, r),
             \A x \in Caller : CallOK(calls[x])'
      PROVE SInv'
  <2>1. queue' \in Seq(ParentHash) /\ Range(queue') = Range(queue) \cup {h}
    BY <1>0, <1>1, RangeAppend, SMTT(30) DEF ShapeInv
  <2>2. ShapeInv'
    BY <1>0, <1>1, <2>1 DEF ShapeInv
  <2>3. \A id, r : Recorded(id, r) <=> Recorded(id, r)'
    BY <1>1 DEF Recorded
  <2>4. ParentInv'
    <3>1. ASSUME restarts' = 0, NEW id \in Chain, NEW r \in SUBSET Entry,
                 <<id, r>> \in committed' \cup Range(queue')
          PROVE Recorded(id, r)'
      BY <1>0, <1>1, <2>1, <2>3, <3>1 DEF ParentInv
    <3> QED BY <1>0, <1>1, <3>1 DEF ParentInv
  <2>5. \A id \in DOMAIN chains' : ChainOK(id)'
    BY <1>0, <1>1 DEF ChainOK
  <2> QED BY <1>1, <2>2, <2>4, <2>5 DEF SInv
<1>2. ASSUME NEW o \in Other, EnqueueOther(o) PROVE SInv'
  <2>1. /\ queue' = Append(queue, <<o, {}>>) /\ calls' = calls
        /\ UNCHANGED <<chains, submitted, committed, anchored, restarts>>
    BY <1>2 DEF EnqueueOther, managerVars
  <2>2. <<o, {}>> \in ParentHash /\ o \notin Chain
    BY DEF ParentHash
  <2>3. \A id, r : Recorded(id, r) => Recorded(id, r)'
    BY <2>1 DEF Recorded
  <2>4. \A x \in Caller : CallOK(calls[x])'
    BY <2>1, <2>3, CallsKept
  <2>5. calls' = [x \in Caller |-> calls'[x]]
    BY <1>0, <2>1 DEF ShapeInv
  <2> QED BY <1>1, <2>1, <2>2, <2>4, <2>5
<1>3. ASSUME NEW c \in Caller, EnqueueAnchor(c) PROVE SInv'
  <2>1. /\ calls[c].op = "enqueue" /\ calls' = [calls EXCEPT ![c] = Idle]
        /\ UNCHANGED <<chains, submitted, committed, anchored, restarts>>
    BY <1>3 DEF EnqueueAnchor, managerVars
  <2>2. EnqueueCall(calls[c])
    BY <2>1, CallKinds DEF SInv
  <2>3. PICK id \in Chain, root \in SUBSET Entry :
           calls[c] = [op |-> "enqueue", hash |-> <<id, root>>] /\ Recorded(id, root)
    BY <2>2 DEF EnqueueCall
  <2>4. CASE queue' = queue
    <3>1. CallOK(Idle)
      BY DEF CallOK
    <3> QED BY <2>1, <2>4, <3>1, CallMoves, ZenonT(60) DEF managerVars, parentVars
  <2>5. CASE queue' = Append(queue, <<id, root>>)
    <3>1. calls' = [x \in Caller |-> IF x = c THEN Idle ELSE calls[x]]
      BY <1>0, <2>1, ZenonT(60) DEF ShapeInv
    <3>2. \A i, r : Recorded(i, r) => Recorded(i, r)'
      BY <2>1 DEF Recorded
    <3>3. ASSUME NEW x \in Caller PROVE CallOK(calls[x])'
      <4>1. CASE x = c
        BY <3>1, <4>1 DEF CallOK
      <4>2. CASE x # c
        <5>1. calls'[x] = calls[x]
          BY <3>1, <4>2
        <5> QED BY <2>1, <3>2, <5>1, CallsKept
      <4> QED BY <4>1, <4>2
    <3>4. <<id, root>> \in ParentHash
      BY DEF ParentHash
    <3>5. \A i \in Chain, r \in SUBSET Entry : <<id, root>> = <<i, r>> => Recorded(i, r)
      BY <2>3
    <3>6. calls' = [x \in Caller |-> calls'[x]]
      BY <3>1
    <3> QED BY <1>1, <2>1, <2>5, <3>3, <3>4, <3>5, <3>6
  <2> QED BY <1>3, <2>3, <2>4, <2>5, SMTT(30) DEF EnqueueAnchor
<1> QED BY <1>2, <1>3

\* A cycle moves the queue into the parent chain.
LEMMA CycleStep == ASSUME SInv, RunCycle PROVE SInv'
<1>0. ShapeInv /\ ParentInv /\ \A id \in DOMAIN chains : ChainOK(id)
  BY DEF SInv
<1>1. /\ committed' = committed \cup Range(queue) /\ queue' = <<>>
      /\ anchored' = [h \in Range(queue) \cup DOMAIN anchored |->
                        IF h \in Range(queue) THEN committed' ELSE anchored[h]]
      /\ UNCHANGED <<chains, submitted, calls, restarts>>
  BY DEF RunCycle, managerVars
<1>2. Range(queue) \subseteq ParentHash
  BY <1>0, SMTT(30) DEF ShapeInv, Range
<1>3. Range(queue') = {}
  BY <1>1, SMTT(30) DEF Range
<1>4. \A id, r : Recorded(id, r) <=> Recorded(id, r)'
  BY <1>1 DEF Recorded
<1>5. ShapeInv'
  BY <1>0, <1>1, <1>2, SMTT(30) DEF ShapeInv
<1>6. \A x \in Caller : CallOK(calls[x])'
  BY <1>1, <1>4, CallsKept, ZenonT(60)
<1>7. \A id \in DOMAIN chains' : ChainOK(id)'
  BY <1>0, <1>1 DEF ChainOK
<1>8. ParentInv'
  <2>1. DOMAIN anchored' = committed' /\ anchored' = [h \in committed' |-> anchored'[h]]
    BY <1>0, <1>1 DEF ParentInv
  <2>2. ASSUME NEW h \in committed' PROVE h \in anchored'[h] /\ anchored'[h] \subseteq committed'
    BY <1>0, <1>1 DEF ParentInv
  <2>3. ASSUME restarts' = 0, NEW id \in Chain, NEW r \in SUBSET Entry,
               <<id, r>> \in committed' \cup Range(queue')
        PROVE Recorded(id, r)'
    BY <1>0, <1>1, <1>3, <1>4, <2>3 DEF ParentInv
  <2> QED BY <2>1, <2>2, <2>3 DEF ParentInv
<1> QED BY <1>5, <1>6, <1>7, <1>8 DEF SInv

\* A restart empties the manager and ends its calls.
LEMMA RestartStep == ASSUME SInv, Restart PROVE SInv'
<1>1. /\ chains' = [id \in {} |-> Idle] /\ calls' = [c \in Caller |-> Idle]
      /\ restarts' = restarts + 1
      /\ UNCHANGED <<submitted, queue, committed, anchored>>
  BY DEF Restart, parentVars
<1>2. ShapeInv'
  BY <1>1, SMTT(30) DEF SInv, ShapeInv
<1>3. \A c \in Caller : CallOK(calls[c])'
  BY <1>1 DEF CallOK
<1>4. restarts' # 0
  BY <1>1, SMTT(30) DEF SInv, ShapeInv
<1>5. ParentInv'
  BY <1>1, <1>4 DEF SInv, ParentInv
<1> QED BY <1>1, <1>2, <1>3, <1>5 DEF SInv

\* The inductive step: every operation of the manager and of the parent chain.
LEMMA StepSInv == ASSUME SInv, [SubNext]_subVars PROVE SInv'
<1>1. CASE UNCHANGED subVars
  <2>1. UNCHANGED <<chains, calls, queue, committed, anchored, submitted, restarts>>
    BY <1>1 DEF subVars
  <2>2. \A id, r : Recorded(id, r) <=> Recorded(id, r)'
    BY <2>1 DEF Recorded
  <2>3. \A x \in Caller : CallOK(calls[x])'
    BY <2>1, <2>2, CallsKept
  <2>4. ShapeInv' /\ \A id \in DOMAIN chains' : ChainOK(id)'
    BY <2>1 DEF SInv, ShapeInv, ChainOK
  <2>5. ParentInv'
    BY <2>1, <2>2 DEF SInv, ParentInv
  <2> QED BY <2>3, <2>4, <2>5 DEF SInv
<1>2. CASE SubNext
  BY <1>2, ProveStep, ManagerStep, QueueStep, CycleStep, RestartStep DEF SubNext
<1> QED BY <1>1, <1>2

\* A proof that Prove returns, in four steps under two locks and with anchors,
\* cycles and submissions in between, is of an entry that was submitted, under a
\* root that Anchor recorded and the parent chain holds.
THEOREM ProofsOfCheckpoints == SubSpec => []ProofOfCheckpoint
<1>1. SubInit => SInv
  BY InitSInv
<1>2. SInv /\ [SubNext]_subVars => SInv'
  BY StepSInv
<1>3. ASSUME SInv PROVE ProofOfCheckpoint
  <2> SUFFICES ASSUME NEW c \in Caller, calls[c].op = "proved"
               PROVE /\ calls[c].entry \in calls[c].subRoot \cap submitted[calls[c].id]
                     /\ calls[c].subRoot \in chains[calls[c].id].anchors
                     /\ HashOf(calls[c]) \in calls[c].parentProof \cap calls[c].anchorBlock
                     /\ calls[c].parentProof \subseteq calls[c].parentRoot
    BY DEF ProofOfCheckpoint
  <2>1. ProvedCall(calls[c])
    BY <1>3, CallKinds DEF SInv
  <2> DEFINE id == calls[c].id
             root == calls[c].subRoot
  <2>2. id \in DOMAIN chains /\ root \in chains[id].anchors /\ calls[c].entry \in root
    BY <2>1, ZenonT(60) DEF ProvedCall, Covers, Recorded
  <2>3. root \subseteq submitted[id]
    BY <1>3, <2>2 DEF SInv, ChainOK
  <2> QED BY <2>1, <2>2, <2>3, ZenonT(60) DEF ProvedCall, Holds, HashOf, AnchorHash
<1> QED
  BY <1>1, <1>2, <1>3, PTL DEF SubSpec

\* The recorded checkpoints of a sub-chain are ordered by inclusion and end in
\* its tree, and until a restart the parent chain holds no other root of it.
THEOREM CheckpointsStayInLine == SubSpec => []CheckpointsInLine
<1>1. SubInit => SInv
  BY InitSInv
<1>2. SInv /\ [SubNext]_subVars => SInv'
  BY StepSInv
<1>3. ASSUME SInv PROVE CheckpointsInLine
  <2> SUFFICES ASSUME NEW id \in DOMAIN chains
               PROVE LET anchors == chains[id].anchors IN
                     /\ \A r1, r2 \in anchors : r1 \subseteq r2 \/ r2 \subseteq r1
                     /\ anchors # {} => chains[id].st \in anchors /\ UNION anchors = chains[id].st
                     /\ restarts = 0 => \A r \in SUBSET Entry :
                          AnchorHash(id, r) \in committed \cup Range(queue) => r \in anchors
    BY DEF CheckpointsInLine
  <2>1. ChainOK(id) /\ id \in Chain
    BY <1>3 DEF SInv, ShapeInv
  <2>2. chains[id].anchors # {} => UNION chains[id].anchors = chains[id].st
    BY <2>1 DEF ChainOK
  <2>3. restarts = 0 => \A r \in SUBSET Entry :
           <<id, r>> \in committed \cup Range(queue) => r \in chains[id].anchors
    BY <1>3, <2>1 DEF SInv, ParentInv, Recorded
  <2> QED BY <2>1, <2>2, <2>3 DEF ChainOK, AnchorHash
<1> QED
  BY <1>1, <1>2, <1>3, PTL DEF SubSpec

-----------------------------------------------------------------------------
BlockT == [made : Int, ext : {{}}]

URI == [scheme : {"file", "ipfs"}, index : Nat, content : BlockT]

At == {"off", "write", "rename", "done", "failed", "hung"}

JobT == [index : Nat, block : BlockT, at : [Backend -> At], anchors : SUBSET URI]

TypeInv ==
    /\ publishers \subseteq Backend
    /\ blocks \in Seq(BlockT) /\ stored \in Seq(BlockT)
    /\ made \in Nat
    /\ tmp \in [1 .. MaxBlocks -> BlockT] /\ files \in [1 .. MaxBlocks -> BlockT]
    /\ job \in JobT

\* The block being published is in the chain, and a temporary file about to be
\* renamed holds it.
JobInv ==
    /\ job # NoJob => /\ job.index \in 1 .. MaxBlocks
                      /\ job.index <= Len(blocks)
                      /\ job.block = blocks[job.index]
    /\ job.at["fs"] = "rename" => tmp[job.index] = job.block

PInv == TypeInv /\ stored = blocks /\ JobInv /\ FilesMatchChain

\* A crash at any step loses nothing that was published, because the chain in
\* the storage is the chain in memory whenever a Publish is in progress.
LEMMA InitPInv == ASSUME PublisherInit PROVE PInv
<1> USE PublisherAssumption
<1>1. NoFile \in BlockT /\ Partial \in BlockT
  BY SMTT(30) DEF NoFile, Partial, BlockT
<1>2. NoJob \in JobT /\ NoJob.at["fs"] = "off"
  BY <1>1 DEF NoJob, JobT, At, Backend, NoFile
<1>3. TypeInv
  BY <1>1, <1>2, SMTT(30) DEF TypeInv, PublisherInit, NewAnchorPublisher, Backend
<1> QED
  BY <1>2, <1>3 DEF PInv, PublisherInit, JobInv, FilesMatchChain

\* A goroutine that moves a backend on changes neither the block nor its index,
\* and no other backend's place.
LEMMA GoesKeeps ==
    ASSUME TypeInv, NEW b \in Backend, NEW to \in At, Goes(b, to)
    PROVE /\ job' \in JobT
          /\ job'.index = job.index /\ job'.block = job.block
          /\ job'.at[b] = to
          /\ \A x \in Backend : x # b => job'.at[x] = job.at[x]
          /\ job.at[b] # "off" => job # NoJob
<1>1. job' = [job EXCEPT !.at = [job.at EXCEPT ![b] = to]]
  BY DEF Goes
<1>2. job.at \in [Backend -> At]
  BY DEF TypeInv, JobT
<1>3. [job.at EXCEPT ![b] = to] \in [Backend -> At]
  BY <1>2
<1>4. job' \in JobT /\ job'.index = job.index /\ job'.block = job.block
      /\ job'.at = [job.at EXCEPT ![b] = to]
  BY <1>1, <1>3, ZenonT(60) DEF TypeInv, JobT
<1>5. NoJob.at[b] = "off"
  BY DEF NoJob
<1> QED
  BY <1>2, <1>4, <1>5

\* Nor does one that returns an anchor.
LEMMA ReturnsKeeps ==
    ASSUME TypeInv, NEW b \in Backend, NEW uri \in URI, Returns(b, uri)
    PROVE /\ job' \in JobT
          /\ job'.index = job.index /\ job'.block = job.block
          /\ job'.at[b] = "done"
          /\ \A x \in Backend : x # b => job'.at[x] = job.at[x]
          /\ job.at[b] # "off" => job # NoJob
<1> DEFINE at2 == [job.at EXCEPT ![b] = "done"]
           an2 == job.anchors \cup {uri}
<1>1. job' = [[job EXCEPT !.at = at2] EXCEPT !.anchors = an2]
  BY DEF Returns, TypeInv, JobT
<1>2. job.at \in [Backend -> At] /\ job.anchors \in SUBSET URI
  BY DEF TypeInv, JobT
<1>3. at2 \in [Backend -> At] /\ an2 \in SUBSET URI
  BY <1>2 DEF At
<1>4. job' \in JobT /\ job'.index = job.index /\ job'.block = job.block /\ job'.at = at2
  <2> HIDE DEF at2, an2
  <2> QED BY <1>1, <1>3 DEF TypeInv, JobT
<1>5. NoJob.at[b] = "off"
  BY DEF NoJob
<1> QED
  BY <1>2, <1>4, <1>5

\* The inductive step: each action of the engine, of the goroutines of Publish
\* and of a crash keeps the chain, the files and the block in progress in step.
LEMMA StepPInv ==
    ASSUME WithStorage, PInv, [PublisherNext]_vars
    PROVE PInv'
<1> USE PublisherAssumption
<1>0. TypeInv /\ stored = blocks /\ JobInv /\ FilesMatchChain
  BY DEF PInv
<1>1. NoFile \in BlockT /\ Partial \in BlockT
  BY SMTT(30) DEF NoFile, Partial, BlockT
<1>2. NoJob \in JobT /\ NoJob.at["fs"] = "off"
  BY <1>1 DEF NoJob, JobT, At, Backend, NoFile
<1>3. "fs" \in Backend /\ "ipfs" \in Backend
  BY DEF Backend
<1>4. job.at["fs"] \in At /\ job.block \in BlockT /\ job.index \in Nat
  BY <1>0, <1>3 DEF TypeInv, JobT
<1>5. CASE Commit
  <2> DEFINE block == [made |-> made + 1, ext |-> {}]
             at2 == [b \in Backend |-> IF b \in publishers THEN "write" ELSE "off"]
             new == [index |-> Len(blocks'), block |-> block, anchors |-> {}, at |-> at2]
  <2>1. blocks' = Append(blocks, block) /\ stored' = blocks'
    BY <1>5 DEF Commit, Saved
  <2>2. block \in BlockT /\ made' \in Nat
    BY <1>0, <1>5, SMTT(30) DEF Commit, BlockT, TypeInv
  <2>3. /\ blocks' \in Seq(BlockT)
        /\ Len(blocks') = Len(blocks) + 1 /\ Len(blocks) \in Nat
        /\ blocks'[Len(blocks')] = block
        /\ \A i \in 1 .. Len(blocks) : blocks'[i] = blocks[i]
        /\ Len(blocks') \in 1 .. MaxBlocks
    <3> HIDE DEF block
    <3> QED BY <1>0, <1>5, <2>1, <2>2, SMTT(30) DEF Commit, TypeInv
  <2>4. at2 \in [Backend -> At] /\ at2["fs"] # "rename"
    BY <1>3, ZenonT(60) DEF At
  <2>5. job' = NoJob \/ job' = new
    BY <1>5 DEF Commit
  <2>6. job' \in JobT /\ job'.at["fs"] # "rename"
        /\ (job' # NoJob => job'.index = Len(blocks') /\ job'.block = block)
    <3> HIDE DEF block, at2
    <3>1. new \in JobT /\ new.at = at2 /\ new.index = Len(blocks') /\ new.block = block
      BY <2>2, <2>3, <2>4, SMTT(30) DEF JobT
    <3> QED BY <1>2, <2>4, <2>5, <3>1, ZenonT(60)
  <2>7. TypeInv'
    BY <1>0, <1>5, <2>1, <2>2, <2>3, <2>6, ZenonT(60) DEF TypeInv, Commit
  <2>8. JobInv'
    BY <2>3, <2>6, SMTT(30) DEF JobInv
  <2>9. FilesMatchChain'
    BY <1>0, <1>5, <2>3, SMTT(30) DEF FilesMatchChain, Commit
  <2> QED BY <2>1, <2>7, <2>8, <2>9 DEF PInv
<1>6. CASE FsWrite
  <2>1. PICK to \in {"rename", "failed"} :
           /\ Goes("fs", to)
           /\ tmp' = [tmp EXCEPT ![job.index] = IF to = "rename" THEN job.block ELSE Partial]
    BY <1>6 DEF FsWrite
  <2>2. /\ job' \in JobT /\ job'.index = job.index /\ job'.block = job.block
        /\ job'.at["fs"] = to /\ job # NoJob
    BY <1>0, <1>3, <1>6, <2>1, GoesKeeps, SMTT(30) DEF At, FsWrite
  <2>3. job.index \in 1 .. MaxBlocks
    BY <1>0, <2>2 DEF JobInv
  <2>4. tmp' \in [1 .. MaxBlocks -> BlockT] /\ (to = "rename" => tmp'[job.index] = job.block)
    BY <1>0, <1>1, <1>4, <2>1, <2>3, ZenonT(60) DEF TypeInv
  <2>5. TypeInv' /\ JobInv'
    BY <1>0, <1>6, <2>2, <2>4 DEF TypeInv, JobInv, FsWrite
  <2> QED BY <1>0, <1>6, <2>5 DEF PInv, FilesMatchChain, FsWrite
<1>7. CASE FsRename
  <2>0. job.at["fs"] = "rename" /\ job # NoJob
    BY <1>2, <1>7 DEF FsRename
  <2>1. /\ job.index \in 1 .. MaxBlocks /\ job.index <= Len(blocks)
        /\ tmp[job.index] = blocks[job.index] /\ tmp[job.index] \in BlockT
    BY <1>0, <1>4, <2>0, ZenonT(60) DEF JobInv
  <2>2. CASE Goes("fs", "failed") /\ UNCHANGED <<files, tmp>>
    <3>1. /\ job' \in JobT /\ job'.index = job.index /\ job'.block = job.block
          /\ job'.at["fs"] = "failed"
      BY <1>0, <1>3, <2>2, GoesKeeps DEF At
    <3>2. TypeInv' /\ JobInv'
      BY <1>0, <1>7, <2>0, <2>2, <3>1, ZenonT(60) DEF TypeInv, JobInv, FsRename
    <3> QED BY <1>0, <1>7, <2>2, <3>2 DEF PInv, FilesMatchChain, FsRename
  <2>3. CASE /\ files' = [files EXCEPT ![job.index] = tmp[job.index]]
             /\ tmp' = [tmp EXCEPT ![job.index] = NoFile]
             /\ Returns("fs", [scheme |-> "file", index |-> job.index, content |-> NoFile])
    <3>1. [scheme |-> "file", index |-> job.index, content |-> NoFile] \in URI
      BY <1>1, <1>4, ZenonT(60) DEF URI
    <3>2. /\ job' \in JobT /\ job'.index = job.index /\ job'.block = job.block
          /\ job'.at["fs"] = "done"
      BY <1>0, <1>3, <2>3, <3>1, ReturnsKeeps, ZenonT(60)
    <3>3. TypeInv' /\ JobInv'
      BY <1>0, <1>1, <1>7, <2>0, <2>1, <2>3, <3>2 DEF TypeInv, JobInv, FsRename
    <3>4. FilesMatchChain'
      BY <1>0, <1>7, <2>1, <2>3, ZenonT(60) DEF TypeInv, FilesMatchChain, FsRename
    <3> QED BY <1>0, <1>7, <3>3, <3>4 DEF PInv, FsRename
  <2> QED BY <1>7, <2>2, <2>3, ZenonT(60) DEF FsRename
<1>8. CASE IpfsPublish
  <2> DEFINE uri == [scheme |-> "ipfs", index |-> job.index, content |-> job.block]
  <2>1. uri \in URI /\ Returns("ipfs", uri) /\ job.at["ipfs"] # "off"
    BY <1>4, <1>8, ZenonT(60) DEF URI, IpfsPublish, ComputeAnchorCID
  <2>2. /\ job' \in JobT /\ job'.index = job.index /\ job'.block = job.block
        /\ job'.at["fs"] = job.at["fs"] /\ job # NoJob
    <3> HIDE DEF uri
    <3> QED BY <1>0, <1>3, <2>1, ReturnsKeeps, ZenonT(60)
  <2>3. TypeInv' /\ JobInv'
    BY <1>0, <1>8, <2>2, ZenonT(60) DEF TypeInv, JobInv, IpfsPublish
  <2> QED BY <1>0, <1>8, <2>3, ZenonT(60) DEF PInv, FilesMatchChain, IpfsPublish
<1>9. CASE PublishReturns
  <2>1. job' = NoJob /\ blocks' = blocks /\ UNCHANGED <<publishers, stored, made, tmp, files>>
    BY <1>9, ZenonT(60) DEF PublishReturns, AnchorsOnLocal
  <2>2. TypeInv' /\ JobInv'
    BY <1>0, <1>2, <2>1 DEF TypeInv, JobInv
  <2> QED BY <1>0, <2>1, <2>2, ZenonT(60) DEF PInv, FilesMatchChain
<1>10. CASE Close
  BY <1>0, <1>10, ZenonT(60) DEF PInv, TypeInv, JobInv, FilesMatchChain, Close
<1>11. CASE Crash
  <2>1. job' = NoJob /\ blocks' = blocks /\ UNCHANGED <<publishers, stored, made, files>>
    BY <1>0, <1>11, ZenonT(60) DEF Crash
  <2>2. tmp' \in [1 .. MaxBlocks -> BlockT]
    BY <1>0, <1>1, <1>11 DEF Crash, TypeInv
  <2>3. TypeInv' /\ JobInv'
    BY <1>0, <1>2, <2>1, <2>2 DEF TypeInv, JobInv
  <2> QED BY <1>0, <2>1, <2>3, ZenonT(60) DEF PInv, FilesMatchChain
<1>12. CASE \E b \in Backend : Hang(b)
  <2>1. PICK b \in Backend : Hang(b)
    BY <1>12
  <2>2. /\ job' \in JobT /\ job'.index = job.index /\ job'.block = job.block
        /\ (job'.at["fs"] = "rename" => job.at["fs"] = "rename") /\ job # NoJob
    BY <1>0, <1>3, <2>1, GoesKeeps, ZenonT(60) DEF At, Hang
  <2>3. TypeInv' /\ JobInv'
    BY <1>0, <2>1, <2>2, ZenonT(60) DEF TypeInv, JobInv, Hang
  <2> QED BY <1>0, <2>1, <2>3 DEF PInv, FilesMatchChain, Hang
<1>13. CASE UNCHANGED vars
  BY <1>0, <1>13 DEF PInv, TypeInv, JobInv, FilesMatchChain, vars
<1> QED
  BY <1>5, <1>6, <1>7, <1>8, <1>9, <1>10, <1>11, <1>12, <1>13 DEF PublisherNext, PublishStep

\* A node with a storage: whatever crashes happen between the commit of a block
\* and its publication, every block_<i>.cbor is whole and is the chain's block
\* at its index.
THEOREM FilesAlwaysMatchChain ==
    ASSUME WithStorage PROVE PublisherSpec => []FilesMatchChain
<1>1. PublisherInit => PInv
  BY InitPInv
<1>2. PInv /\ [PublisherNext]_vars => PInv'
  BY StepPInv
<1>3. PInv => FilesMatchChain
  BY DEF PInv
<1> QED
  BY <1>1, <1>2, <1>3, PTL DEF PublisherSpec

\* With a storage no published file is ever replaced by another block: the only
\* step that writes one, the rename, writes the block the chain has there.
THEOREM PublishedStaysPublished ==
    ASSUME WithStorage PROVE PublisherSpec => PublishedImmutable
<1> DEFINE Kept == \A i \in 1 .. MaxBlocks : files[i] # NoFile => files'[i] = files[i]
<1>1. PublisherInit => PInv
  BY InitPInv
<1>2. PInv /\ [PublisherNext]_vars => PInv'
  BY StepPInv
<1>3. ASSUME PInv, [PublisherNext]_vars PROVE [Kept]_vars
  <2>1. CASE files' = files
    BY <2>1
  <2>2. CASE files' # files
    <3>1. FsRename
      BY <1>3, <2>2, ZenonT(60) DEF PublisherNext, PublishStep, Commit, FsWrite, IpfsPublish,
                       PublishReturns, Close, Crash, Hang, vars
    <3>2. files' = [files EXCEPT ![job.index] = tmp[job.index]] /\ job # NoJob
      BY <2>2, <3>1, SMTT(30) DEF FsRename, NoJob, Backend
    <3>3. tmp[job.index] = blocks[job.index] /\ job.index \in 1 .. MaxBlocks
      BY <1>3, <3>1, <3>2 DEF PInv, JobInv, FsRename
    <3> QED
      BY <1>3, <3>2, <3>3 DEF PInv, TypeInv, FilesMatchChain
  <2> QED BY <2>1, <2>2
<1> QED
  BY <1>1, <1>2, <1>3, PTL DEF PublisherSpec, PublishedImmutable

-----------------------------------------------------------------------------
CallT == [n : Int, quorum : BOOLEAN]

\* The counter is the length of the run of normal calls the history ends with,
\* and in degraded mode that run is preceded by a call that is not normal.
CounterInv ==
    /\ history \in Seq(CallT)
    /\ consecutiveNormal <= Len(history)
    /\ \A k \in Len(history) - consecutiveNormal + 1 .. Len(history) : Normal(history[k])
    /\ inDegraded => /\ consecutiveNormal < Len(history)
                     /\ ~Normal(history[Len(history) - consecutiveNormal])

DInv == DegTypeOK /\ CounterInv /\ ModeFollowsCalls

\* NewDegradedMode: no call yet, normal mode.
LEMMA InitDInv == ASSUME DegInit PROVE DInv
<1>1. DOMAIN history = {} /\ Len(history) = 0 /\ history \in Seq(CallT)
  BY SMTT(30) DEF DegInit
<1>2. DegTypeOK
  <2>1. 0 \in 0 .. GraceCycles - 1
    BY DegradedAssumption, SMTT(30)
  <2> QED BY <2>1 DEF DegInit, DegTypeOK
<1>3. CounterInv
  BY <1>1, SMTT(30) DEF DegInit, CounterInv
<1>4. ModeFollowsCalls
  BY <1>1 DEF DegInit, ModeFollowsCalls
<1> QED
  BY <1>2, <1>3, <1>4 DEF DInv

\* A call appends itself to the history and changes nothing before.
LEMMA AppendKeeps ==
    ASSUME CounterInv, NEW c \in CallT, history' = Append(history, c)
    PROVE /\ history' \in Seq(CallT)
          /\ Len(history) \in Nat /\ Len(history') = Len(history) + 1
          /\ DOMAIN history = 1 .. Len(history) /\ DOMAIN history' = 1 .. Len(history')
          /\ history'[Len(history')] = c
          /\ \A i \in 1 .. Len(history) : history'[i] = history[i] /\ history[i] \in CallT
  BY SMTT(30) DEF CounterInv

\* The inductive step, one case for each branch of CheckDegradedTransition.
LEMMA StepDInv ==
    ASSUME DInv, [DegNext]_degVars
    PROVE DInv'
<1> USE DegradedAssumption
<1>1. CASE UNCHANGED degVars
  BY <1>1 DEF DInv, DegTypeOK, CounterInv, ModeFollowsCalls, degVars, Low, Normal
<1>2. CASE DegNext
  <2>0. DegTypeOK /\ CounterInv /\ ModeFollowsCalls
    BY DEF DInv
  <2>1. PICK n \in Counts, q \in BOOLEAN : CheckDegradedTransition(n, q)
    BY <1>2 DEF DegNext
  <2> DEFINE c == [n |-> n, quorum |-> q]
             L == Len(history)
             Since(s, i) == /\ Low(s[i])
                            /\ \A j \in i + 1 .. Len(s) - GraceCycles + 1 :
                                   \E k \in j .. j + GraceCycles - 1 : ~Normal(s[k])
  <2>2. n \in Int /\ c \in CallT /\ history' = Append(history, c) /\ c.n = n /\ c.quorum = q
    BY <2>1 DEF CheckDegradedTransition, CallT
  <2>3. /\ history' \in Seq(CallT) /\ L \in Nat /\ Len(history') = L + 1
        /\ DOMAIN history = 1 .. L /\ DOMAIN history' = 1 .. L + 1
        /\ history'[L + 1] = c
        /\ \A i \in 1 .. L : history'[i] = history[i] /\ history[i] \in CallT
    <3> HIDE DEF c
    <3> QED BY <2>0, <2>2, AppendKeeps
  <2>4. /\ (Low(history'[L + 1]) <=> n < MinValidators)
        /\ (Normal(history'[L + 1]) <=> n >= MinValidators /\ q)
        /\ \A i \in 1 .. L : /\ (Low(history'[i]) <=> Low(history[i]))
                             /\ (Normal(history'[i]) <=> Normal(history[i]))
        /\ \A i \in 1 .. L + 1 : Low(history'[i]) => ~Normal(history'[i])
    <3> HIDE DEF c
    <3> QED BY <2>2, <2>3, SMTT(30) DEF Low, Normal
  <2>5. nonNegative(n) < MinValidators <=> n < MinValidators
    BY <2>2, SMTT(30) DEF nonNegative
  <2>6. nonNegative(n) \in Int
    BY <2>2, SMTT(30) DEF nonNegative
  <2> HIDE DEF c
  <2>11. (\E i \in 1 .. L + 1 : Since(history', i)) /\ inDegraded' => ModeFollowsCalls'
    BY <2>3 DEF ModeFollowsCalls
  <2>7. CASE Enter(n)
    <3>1. inDegraded' /\ consecutiveNormal' = 0 /\ n < MinValidators
      BY <2>5, <2>7, ZenonT(60) DEF Enter
    <3>2. Since(history', L + 1)
      BY <2>3, <2>4, <3>1, SMTT(30)
    <3>3. ModeFollowsCalls'
      BY <2>3, <3>1, <3>2, SMTT(30) DEF ModeFollowsCalls
    <3>4. CounterInv'
      BY <2>3, <2>4, <3>1, SMTT(30) DEF CounterInv
    <3> QED BY <3>1, <3>3, <3>4, SMTT(30) DEF DInv, DegTypeOK
  <2>8. CASE Stay(n)
    <3>1. ~inDegraded /\ ~inDegraded' /\ consecutiveNormal' = 0 /\ ~(n < MinValidators)
          /\ consecutiveNormal = 0
      BY <2>0, <2>2, <2>5, <2>6, <2>8, SMTT(30) DEF Stay, DegTypeOK
    <3>2. ASSUME NEW i \in 1 .. L + 1, Since(history', i) PROVE FALSE
      <4>1. i \in 1 .. L /\ Low(history[i])
        BY <2>3, <2>4, <3>1, <3>2, SMTT(30)
      <4>2. PICK j \in i + 1 .. L - GraceCycles + 1 :
               \A k \in j .. j + GraceCycles - 1 : Normal(history[k])
        BY <2>0, <2>3, <3>1, <4>1 DEF ModeFollowsCalls
      <4>3. PICK k \in j .. j + GraceCycles - 1 : ~Normal(history'[k])
        <5>1. j \in i + 1 .. Len(history') - GraceCycles + 1
          BY <2>3, <4>2, SMTT(30)
        <5> QED BY <3>2, <5>1
      <4> QED BY <2>3, <2>4, <4>1, <4>2, <4>3, SMTT(30)
    <3>3. ModeFollowsCalls'
      BY <2>3, <3>1, <3>2, ZenonT(60) DEF ModeFollowsCalls
    <3>4. CounterInv'
      BY <2>3, <3>1, SMTT(30) DEF CounterInv
    <3> QED BY <2>0, <2>8, <3>1, <3>3, <3>4 DEF DInv, DegTypeOK, Stay
  <2>9. CASE CountNormal(n, q)
    <3>1. inDegraded /\ n >= MinValidators /\ q /\ Normal(history'[L + 1])
      BY <2>2, <2>4, <2>5, <2>6, <2>9, SMTT(30) DEF CountNormal
    <3>2. consecutiveNormal \in Nat /\ consecutiveNormal < L
          /\ ~Normal(history[L - consecutiveNormal])
      BY <2>0, <3>1, SMTT(30) DEF CounterInv, DegTypeOK
    <3>3. \A k \in L - consecutiveNormal + 1 .. L + 1 : Normal(history'[k])
      <4>1. ASSUME NEW k \in L - consecutiveNormal + 1 .. L PROVE Normal(history'[k])
        <5>1. k \in 1 .. L
          BY <2>3, <3>2, SMTT(30)
        <5>2. Normal(history[k])
          BY <2>0 DEF CounterInv
        <5> QED BY <2>4, <5>1, <5>2
      <4>2. ASSUME NEW k \in L - consecutiveNormal + 1 .. L + 1,
                   k \notin L - consecutiveNormal + 1 .. L
            PROVE k = L + 1
        BY <2>3, <3>2, <4>2, SMTT(30)
      <4> QED BY <3>1, <4>1, <4>2
    <3>4. CASE consecutiveNormal + 1 >= GraceCycles
      <4>1. inDegraded' = FALSE /\ consecutiveNormal' = 0 /\ consecutiveNormal = GraceCycles - 1
        BY <2>0, <2>9, <3>4, SMTT(30) DEF CountNormal, DegTypeOK
      <4>2. ASSUME NEW i \in 1 .. L + 1, Since(history', i) PROVE FALSE
        <5>1. i <= L - consecutiveNormal
          BY <2>3, <2>4, <3>2, <3>3, <4>2, SMTT(30)
        <5>2. L + 2 - GraceCycles \in i + 1 .. Len(history') - GraceCycles + 1
          BY <2>3, <4>1, <5>1, SMTT(30)
        <5>3. PICK k \in L + 2 - GraceCycles .. L + 2 - GraceCycles + GraceCycles - 1 :
                 ~Normal(history'[k])
          BY <4>2, <5>2
        <5> QED BY <2>3, <3>3, <4>1, <5>3, SMTT(30)
      <4>3. ModeFollowsCalls'
        BY <2>3, <4>1, <4>2 DEF ModeFollowsCalls
      <4>4. CounterInv'
        BY <2>3, <4>1, SMTT(30) DEF CounterInv
      <4>5. 0 \in 0 .. GraceCycles - 1
        BY SMTT(30)
      <4>6. DegTypeOK'
        BY <4>1, <4>5 DEF DegTypeOK
      <4> QED BY <4>3, <4>4, <4>6 DEF DInv
    <3>5. CASE ~(consecutiveNormal + 1 >= GraceCycles)
      <4>1. inDegraded' /\ consecutiveNormal' = consecutiveNormal + 1
        BY <2>9, <3>1, <3>5 DEF CountNormal
      <4>2. PICK i \in 1 .. L : Since(history, i)
        BY <2>0, <2>3, <3>1 DEF ModeFollowsCalls
      <4>3. ASSUME NEW j \in i + 1 .. Len(history') - GraceCycles + 1
            PROVE \E k \in j .. j + GraceCycles - 1 : ~Normal(history'[k])
        <5>1. CASE j = L + 2 - GraceCycles
          <6>1. L - consecutiveNormal \in j .. j + GraceCycles - 1
            BY <2>3, <3>2, <3>5, <5>1, SMTT(30)
          <6>2. ~Normal(history'[L - consecutiveNormal])
            BY <2>3, <2>4, <3>2, SMTT(30)
          <6> QED BY <6>1, <6>2
        <5>2. CASE j # L + 2 - GraceCycles
          <6>1. j \in i + 1 .. L - GraceCycles + 1
            BY <2>3, <5>2, SMTT(30)
          <6>2. PICK k \in j .. j + GraceCycles - 1 : ~Normal(history[k])
            BY <4>2, <6>1
          <6>3. k \in 1 .. L
            BY <2>3, <4>2, <6>1, <6>2, SMTT(30)
          <6> QED BY <2>4, <6>2, <6>3
        <5> QED BY <5>1, <5>2
      <4>4. Since(history', i)
        BY <2>4, <4>2, <4>3
      <4>5. ModeFollowsCalls'
        <5>1. i \in 1 .. L + 1
          BY <2>3, <4>2, SMTT(30)
        <5> QED BY <2>11, <4>1, <4>4, <5>1, ZenonT(60)
      <4>6. ~Normal(history'[L - consecutiveNormal])
        BY <2>3, <2>4, <3>2, SMTT(30)
      <4>7. CounterInv'
        <5>1. /\ consecutiveNormal' < Len(history')
              /\ Len(history') - consecutiveNormal' = L - consecutiveNormal
              /\ Len(history') = L + 1
          BY <2>3, <3>2, <4>1, SMTT(30)
        <5> QED BY <2>3, <3>2, <3>3, <4>1, <4>6, <5>1, SMTT(30) DEF CounterInv
      <4> QED BY <2>0, <3>2, <3>5, <4>1, <4>5, <4>7, SMTT(30) DEF DInv, DegTypeOK
    <3> QED BY <3>4, <3>5, ZenonT(60)
  <2>10. CASE Interrupt(n, q)
    <3>1. inDegraded /\ inDegraded' /\ consecutiveNormal' = 0 /\ ~Normal(history'[L + 1])
      BY <2>2, <2>4, <2>5, <2>6, <2>10, SMTT(30) DEF Interrupt
    <3>2. PICK i \in 1 .. L : Since(history, i)
      BY <2>0, <2>3, <3>1 DEF ModeFollowsCalls
    <3>3. ASSUME NEW j \in i + 1 .. Len(history') - GraceCycles + 1
          PROVE \E k \in j .. j + GraceCycles - 1 : ~Normal(history'[k])
      <4>1. CASE j = L + 2 - GraceCycles
        <5>1. L + 1 \in j .. j + GraceCycles - 1
          BY <2>3, <4>1, SMTT(30)
        <5> QED BY <3>1, <5>1
      <4>2. CASE j # L + 2 - GraceCycles
        <5>1. j \in i + 1 .. L - GraceCycles + 1
          BY <2>3, <4>2, SMTT(30)
        <5>2. PICK k \in j .. j + GraceCycles - 1 : ~Normal(history[k])
          BY <3>2, <5>1
        <5>3. k \in 1 .. L
          BY <2>3, <3>2, <5>1, <5>2, SMTT(30)
        <5> QED BY <2>4, <5>2, <5>3
      <4> QED BY <4>1, <4>2
    <3>4. Since(history', i)
      BY <2>4, <3>2, <3>3
    <3>5. ModeFollowsCalls'
      <4>1. i \in 1 .. L + 1
        BY <2>3, <3>2, SMTT(30)
      <4> QED BY <2>11, <3>1, <3>4, <4>1
    <3>6. CounterInv'
      BY <2>3, <3>1, SMTT(30) DEF CounterInv
    <3> QED BY <2>0, <2>10, <3>1, <3>5, <3>6, SMTT(30) DEF DInv, DegTypeOK, Interrupt
  <2> QED BY <2>1, <2>7, <2>8, <2>9, <2>10 DEF CheckDegradedTransition
<1> QED BY <1>1, <1>2

\* Whatever is called how often, the mode is degraded exactly when the number of
\* validators was too low at some call and no GraceCycles normal calls in a row
\* have followed it (CheckDegradedTransition).
THEOREM ModeAlwaysFollowsCalls == DegSpec => []ModeFollowsCalls
<1>1. DegInit => DInv
  BY InitDInv
<1>2. DInv /\ [DegNext]_degVars => DInv'
  BY StepDInv
<1>3. DInv => ModeFollowsCalls
  BY DEF DInv
<1> QED
  BY <1>1, <1>2, <1>3, PTL DEF DegSpec

-----------------------------------------------------------------------------
K == Key \cup {Absent, Garbage}

Pc == {"idle", "view", "fill", "found", "exists", "all"}

EntryT == [key : K, alias : BOOLEAN]

LookupT == [pc : Pc, id : Id \cup {Absent}, key : K, seen : SUBSET K, all : SUBSET K]

RegistryTypes ==
    /\ cache \in [Id -> EntryT]
    /\ db \in [Id -> Key \cup {Absent}]
    /\ acked \in [Id -> Key \cup {Absent}]
    /\ tried \in [Id -> SUBSET K]
    /\ call \in [Reader -> LookupT]
    /\ writer # NoWriter => writer.id \in Id /\ writer.key \in Key /\ WithDB

\* Without a bucket the map is all there is.
CacheHolds == ~WithDB => \A i \in Id : acked[i] # Absent => cache[i].key # Absent

\* A reader that has yet to look into the bucket will find what had been
\* registered when it started; one about to fill the map has found it.
LookupOK(r) ==
    /\ r.pc \in {"view", "fill"} => r.id \in Id
    /\ r.pc = "view" /\ db[r.id] = Absent => Absent \in r.seen
    /\ r.pc = "fill" => r.key # Absent
    /\ r.pc \in {"found", "exists"} /\ r.key = Absent => Absent \in r.seen

LookupsOK == \A p \in Reader : LookupOK(call[p])

RInv == RegistryTypes /\ RegisteredDurable /\ CacheHolds /\ LookupsOK

\* A caller with no call in progress.
LEMMA IdleOK == NoCall \in LookupT /\ LookupOK(NoCall)
  BY DEF NoCall, LookupT, LookupOK, K, Pc

\* NewRegistry: nothing registered.
LEMMA InitRInv == ASSUME RegistryInit PROVE RInv
<1>1. NoEntry \in EntryT
  BY ZenonT(60) DEF NoEntry, EntryT, K
<1>2. RegistryTypes
  BY <1>1, IdleOK DEF RegistryTypes, RegistryInit
<1>3. LookupsOK
  BY IdleOK, ZenonT(60) DEF LookupsOK, RegistryInit
<1> QED
  BY <1>2, <1>3 DEF RInv, RegisteredDurable, CacheHolds, RegistryInit

\* A step that sets one reader's record to a good one and leaves the map, the
\* bucket and the Register in progress alone.
LEMMA AnswerKeeps ==
    ASSUME RInv, NEW p \in Reader, NEW r \in LookupT, LookupOK(r),
           Answer(p, r), UNCHANGED <<cache, db, writer, acked, tried>>
    PROVE RInv'
<1>1. call' \in [Reader -> LookupT] /\ \A x \in Reader : call'[x] = IF x = p THEN r ELSE call[x]
  BY DEF Answer, RInv, RegistryTypes
<1>2. RegistryTypes'
  BY <1>1 DEF RInv, RegistryTypes
<1>3. \A x \in Reader : LookupOK(call'[x])
  BY <1>1, ZenonT(60) DEF RInv, LookupsOK
<1>4. LookupsOK'
  BY <1>3 DEF LookupsOK, LookupOK
<1> QED
  BY <1>2, <1>4 DEF RInv, RegisteredDurable, CacheHolds

\* What a call starts with.
LEMMA BeginIs ==
    ASSUME RInv, NEW i \in Id
    PROVE /\ Begin(i) \in LookupT
          /\ Begin(i).id = i /\ acked[i] \in Begin(i).seen
<1>1. {acked[i]} \cup tried[i] \in SUBSET K
  BY DEF RInv, RegistryTypes, K
<1> DEFINE sn == {acked[i]} \cup tried[i]
<1>2. Begin(i) = [[NoCall EXCEPT !.id = i] EXCEPT !.seen = sn]
  BY DEF Begin, NoCall
<1> HIDE DEF sn
<1>3. Begin(i) \in LookupT /\ Begin(i).id = i /\ Begin(i).seen = sn
  BY <1>1, <1>2, IdleOK DEF LookupT, sn
<1> QED
  BY <1>3 DEF sn

\* Setting the place of a record.
LEMMA SetPc ==
    ASSUME NEW r \in LookupT, NEW pc \in Pc
    PROVE LET r2 == [r EXCEPT !.pc = pc]
          IN r2 \in LookupT /\ r2.pc = pc /\ r2.key = r.key /\ r2.id = r.id /\ r2.seen = r.seen
  BY DEF LookupT

\* An identifier that the map and the bucket do not hold was not registered.
LEMMA UnknownNotAcked ==
    ASSUME RInv, NEW i \in Id, cache[i].key = Absent, db[i] = Absent \/ ~WithDB
    PROVE acked[i] = Absent
  BY RegistryAssumption DEF RInv, RegisteredDurable, CacheHolds

\* The steps of the readers.
LEMMA ReaderStep ==
    ASSUME RInv, NEW p \in Reader,
           \/ LookupView(p) \/ LookupFill(p) \/ GetAll(p) \/ Return(p)
           \/ \E i \in Id : LookupCache(p, i) \/ Exists(p, i)
    PROVE RInv'
<1> USE RegistryAssumption
<1>0. call[p] \in LookupT /\ LookupOK(call[p]) /\ RegistryTypes
  BY DEF RInv, RegistryTypes, LookupsOK
<1>1. CASE LookupView(p)
  <2> DEFINE k == db[call[p].id]
             pc == IF k = Absent THEN "found" ELSE "fill"
  <2>1. call[p].pc = "view" /\ call[p].id \in Id
    BY <1>0, <1>1 DEF LookupView, LookupOK
  <2>2. k \in K /\ pc \in Pc
    BY <1>0, <2>1 DEF RegistryTypes, K, Pc
  <2>3. Answer(p, [call[p] EXCEPT !.pc = pc, !.key = k])
    BY <1>1 DEF LookupView
  <2> DEFINE r == [call[p] EXCEPT !.pc = pc, !.key = k]
  <2>4. r \in LookupT /\ r.pc = pc /\ r.key = k /\ r.id = call[p].id /\ r.seen = call[p].seen
    <3> HIDE DEF k, pc
    <3> QED BY <1>0, <2>2 DEF LookupT
  <2>5. LookupOK(r)
    <3> HIDE DEF r
    <3> QED BY <1>0, <2>1, <2>4 DEF LookupOK
  <2> QED
    <3> HIDE DEF r
    <3>1. Answer(p, r)
      BY <2>3 DEF r
    <3> QED BY <1>1, <2>4, <2>5, <3>1, AnswerKeeps DEF LookupView
<1>2. CASE LookupFill(p)
  <2> DEFINE e == [key |-> call[p].key, alias |-> TRUE]
             r == [call[p] EXCEPT !.pc = "found"]
  <2>1. call[p].pc = "fill" /\ call[p].id \in Id /\ call[p].key # Absent
    BY <1>0, <1>2, ZenonT(60) DEF LookupFill, LookupOK
  <2>2. e \in EntryT /\ e.key # Absent
    BY <1>0, <2>1, ZenonT(60) DEF EntryT, LookupT
  <2>3. /\ r \in LookupT /\ r.pc = "found" /\ r.key = call[p].key
        /\ r.id = call[p].id /\ r.seen = call[p].seen
    BY <1>0, SetPc, ZenonT(60) DEF Pc
  <2>4. LookupOK(r)
    <3> HIDE DEF r
    <3> QED BY <2>1, <2>3, ZenonT(60) DEF LookupOK
  <2>5. cache' = [cache EXCEPT ![call[p].id] = e] /\ call' = [call EXCEPT ![p] = r]
    BY <1>2 DEF LookupFill, Answer
  <2> HIDE DEF e, r
  <2>6. cache' \in [Id -> EntryT]
        /\ \A i \in Id : cache[i].key # Absent => cache'[i].key # Absent
    BY <1>0, <2>1, <2>2, <2>5, ZenonT(60) DEF RegistryTypes
  <2>7. call' \in [Reader -> LookupT]
        /\ \A x \in Reader : call'[x] = r \/ call'[x] = call[x]
    BY <1>0, <2>3, <2>5 DEF RegistryTypes
  <2>8. RegistryTypes'
    BY <1>0, <1>2, <2>6, <2>7 DEF RegistryTypes, LookupFill
  <2>9. LookupsOK'
    <3>1. \A x \in Reader : LookupOK(call'[x])
      BY <2>4, <2>7 DEF RInv, LookupsOK
    <3> QED BY <1>2, <3>1 DEF LookupsOK, LookupOK, LookupFill
  <2>10. CacheHolds'
    BY <1>2, <2>6 DEF RInv, CacheHolds, LookupFill
  <2> QED BY <1>2, <2>8, <2>9, <2>10 DEF RInv, RegisteredDurable, LookupFill
<1>3. CASE GetAll(p)
  <2> DEFINE sn == {acked[i] : i \in Id}
             r == [NoCall EXCEPT !.pc = "all", !.seen = sn, !.all = AllKeys]
  <2>1. sn \in SUBSET K /\ AllKeys \in SUBSET K
    BY <1>0, SMTT(30) DEF RegistryTypes, K, AllKeys, EntryT
  <2>2. r \in LookupT /\ r.pc = "all"
    <3> HIDE DEF sn
    <3> QED BY <2>1, ZenonT(60) DEF LookupT, Pc, K, NoCall
  <2>3. LookupOK(r)
    <3> HIDE DEF r
    <3> QED BY <2>2 DEF LookupOK
  <2>4. Answer(p, r)
    BY <1>3, ZenonT(60) DEF GetAll
  <2> HIDE DEF r
  <2> QED BY <1>3, <2>2, <2>3, <2>4, AnswerKeeps, ZenonT(60) DEF GetAll
<1>4. CASE Return(p)
  BY <1>4, IdleOK, AnswerKeeps, ZenonT(60) DEF Return
<1>5. ASSUME NEW i \in Id, LookupCache(p, i) PROVE RInv'
  <2>1. Begin(i) \in LookupT /\ Begin(i).id = i /\ acked[i] \in Begin(i).seen
    BY BeginIs
  <2>2. cache[i].key \in K
    BY <1>0, ZenonT(60) DEF RegistryTypes, EntryT
  <2>3. CASE cache[i].key # Absent \/ ~WithDB
    <3> DEFINE r == [Begin(i) EXCEPT !.pc = "found", !.key = cache[i].key]
    <3>1. r \in LookupT /\ r.pc = "found" /\ r.key = cache[i].key /\ r.seen = Begin(i).seen
      BY <2>1, <2>2, ZenonT(60) DEF LookupT, Pc
    <3>2. Answer(p, r)
      BY <1>5, <2>3, ZenonT(60) DEF LookupCache
    <3> HIDE DEF r
    <3>3. LookupOK(r)
      BY <2>1, <2>3, <3>1, UnknownNotAcked, ZenonT(60) DEF LookupOK
    <3> QED BY <1>5, <3>1, <3>2, <3>3, AnswerKeeps DEF LookupCache
  <2>4. CASE ~(cache[i].key # Absent \/ ~WithDB)
    <3> DEFINE r == [Begin(i) EXCEPT !.pc = "view"]
    <3>1. r \in LookupT /\ r.pc = "view" /\ r.id = i /\ r.seen = Begin(i).seen
      BY <2>1, SetPc, ZenonT(60) DEF Pc
    <3>2. Answer(p, r)
      BY <1>5, <2>4 DEF LookupCache
    <3> HIDE DEF r
    <3>3. LookupOK(r)
      BY <2>1, <2>4, <3>1, UnknownNotAcked, ZenonT(60) DEF LookupOK
    <3> QED BY <1>5, <3>1, <3>2, <3>3, AnswerKeeps DEF LookupCache
  <2> QED BY <2>3, <2>4, ZenonT(60)
<1>6. ASSUME NEW i \in Id, Exists(p, i) PROVE RInv'
  <2> DEFINE k == IF cache[i].key # Absent THEN cache[i].key ELSE db[i]
             r == [Begin(i) EXCEPT !.pc = "exists", !.key = k]
  <2>1. Begin(i) \in LookupT /\ Begin(i).id = i /\ acked[i] \in Begin(i).seen
    BY BeginIs
  <2>2. k \in K
    BY <1>0, ZenonT(60) DEF RegistryTypes, EntryT, K
  <2>3. Answer(p, r)
    BY <1>6, ZenonT(60) DEF Exists
  <2>4. k = Absent => acked[i] = Absent
    BY UnknownNotAcked
  <2> HIDE DEF k
  <2>5. r \in LookupT /\ r.pc = "exists" /\ r.key = k /\ r.seen = Begin(i).seen
    BY <2>1, <2>2, ZenonT(60) DEF LookupT, Pc
  <2> HIDE DEF r
  <2>6. LookupOK(r)
    BY <2>1, <2>4, <2>5, ZenonT(60) DEF LookupOK
  <2> QED BY <1>6, <2>3, <2>5, <2>6, AnswerKeeps, ZenonT(60) DEF Exists
<1> QED BY <1>1, <1>2, <1>3, <1>4, <1>5, <1>6

\* The step in which Register checks the size and writes the map.
LEMMA RegisterCacheStep ==
    ASSUME RInv, NEW i \in Id, NEW k \in Key \cup {BadKey}, RegisterCache(i, k)
    PROVE RInv'
<1> USE RegistryAssumption
<1>0. RegistryTypes /\ RegisteredDurable /\ CacheHolds /\ LookupsOK
  BY ZenonT(60) DEF RInv
<1>1. CASE ~SizeOK(k)
  BY <1>0, <1>1, ZenonT(60) DEF RegisterCache, RInv, RegistryTypes, RegisteredDurable, CacheHolds, LookupsOK, LookupOK
<1>2. CASE SizeOK(k)
  <2>1. k \in Key /\ k \in K /\ k # Absent
    BY <1>2 DEF SizeOK, K
  <2>2. /\ cache' \in [Id -> EntryT]
        /\ \A x \in Id : cache'[x].key = IF x = i THEN k ELSE cache[x].key
    <3>1. [key |-> k, alias |-> FALSE] \in EntryT
      BY <2>1, ZenonT(60) DEF EntryT
    <3>2. cache' = [cache EXCEPT ![i] = [key |-> k, alias |-> FALSE]]
      BY <1>2 DEF RegisterCache, Cached
    <3> QED BY <1>0, <3>1, <3>2 DEF RegistryTypes
  <2>3. /\ call' \in [Reader -> LookupT]
        /\ \A p \in Reader : /\ call'[p].pc = call[p].pc /\ call'[p].id = call[p].id
                             /\ call'[p].key = call[p].key
                             /\ call[p].seen \subseteq call'[p].seen
    <3>1. ASSUME NEW p \in Reader
          PROVE LET sn == call[p].seen \cup {k}
                    r == [call[p] EXCEPT !.seen = sn]
                IN /\ r \in LookupT /\ r.pc = call[p].pc /\ r.id = call[p].id
                   /\ r.key = call[p].key /\ call[p].seen \subseteq r.seen
      <4> DEFINE sn == call[p].seen \cup {k}
      <4>1. call[p] \in LookupT /\ sn \in SUBSET K
        BY <1>0, <2>1, ZenonT(60) DEF RegistryTypes, LookupT
      <4>2. call[p].seen \subseteq sn
        BY ZenonT(60)
      <4> HIDE DEF sn
      <4>3. LET r == [call[p] EXCEPT !.seen = sn]
            IN /\ r \in LookupT /\ r.pc = call[p].pc /\ r.id = call[p].id
               /\ r.key = call[p].key /\ r.seen = sn
        BY <4>1 DEF LookupT
      <4> QED BY <4>2, <4>3, ZenonT(60) DEF sn
    <3>2. call' = [p \in Reader |-> IF call[p].id = i
                                    THEN [call[p] EXCEPT !.seen = call[p].seen \cup {k}]
                                    ELSE call[p]]
      BY <1>2 DEF RegisterCache, Seen
    <3> QED BY <1>0, <3>1, <3>2 DEF RegistryTypes
  <2>4. UNCHANGED db
    BY ZenonT(60) DEF RegisterCache
  <2>5. LookupsOK'
    <3> SUFFICES ASSUME NEW p \in Reader PROVE LookupOK(call[p])'
      BY DEF LookupsOK
    <3>1. LookupOK(call[p])
      BY <1>0, ZenonT(60) DEF LookupsOK
    <3> QED BY <2>3, <2>4, <3>1, ZenonT(60) DEF LookupOK
  <2>6. CASE WithDB
    <3>1. /\ writer' = [id |-> i, key |-> k] /\ acked' = acked
          /\ tried' = [tried EXCEPT ![i] = @ \cup {k}]
      BY <1>2, <2>6, ZenonT(60) DEF RegisterCache
    <3>2. RegistryTypes'
      BY <1>0, <2>1, <2>2, <2>3, <2>4, <2>6, <3>1, ZenonT(60) DEF RegistryTypes
    <3> QED BY <1>0, <2>4, <2>5, <2>6, <3>1, <3>2, ZenonT(60) DEF RInv, RegisteredDurable, CacheHolds
  <2>7. CASE ~WithDB
    <3>1. writer' = writer /\ tried' = tried /\ acked' = [acked EXCEPT ![i] = k]
      BY <1>2, <2>7 DEF RegisterCache
    <3>2. RegistryTypes'
      BY <1>0, <2>1, <2>2, <2>3, <2>4, <3>1, ZenonT(60) DEF RegistryTypes
    <3>3. CacheHolds'
      BY <1>0, <2>1, <2>2, <3>1, ZenonT(60) DEF CacheHolds, RegistryTypes
    <3> QED BY <2>5, <2>7, <3>2, <3>3, ZenonT(60) DEF RInv, RegisteredDurable
  <2> QED BY <2>6, <2>7
<1> QED BY <1>1, <1>2

\* The step in which Register writes the bucket, or fails to.
LEMMA RegisterDBStep == ASSUME RInv, RegisterDB PROVE RInv'
<1> USE RegistryAssumption
<1>0. RegistryTypes /\ RegisteredDurable /\ CacheHolds /\ LookupsOK
  BY DEF RInv
<1>1. writer.id \in Id /\ writer.key \in Key /\ WithDB /\ writer' = NoWriter
  BY <1>0 DEF RegisterDB, Unlocked, RegistryTypes
<1>2. CASE UNCHANGED <<db, acked, tried, cache, call>>
  BY <1>0, <1>1, <1>2, ZenonT(60) DEF RInv, RegistryTypes, RegisteredDurable, CacheHolds, LookupsOK, LookupOK
<1>3. ASSUME NEW bad \in BOOLEAN, Rewritten(bad),
             db' = Put(writer.id, writer.key),
             acked' = [acked EXCEPT ![writer.id] = writer.key],
             tried' = [tried EXCEPT ![writer.id] = {}]
      PROVE RInv'
  <2>1. /\ db' \in [Id -> Key \cup {Absent}] /\ acked' \in [Id -> Key \cup {Absent}]
        /\ tried' \in [Id -> SUBSET K]
        /\ \A i \in Id : /\ db'[i] = Absent => db[i] = Absent
                         /\ acked'[i] # Absent => db'[i] = acked'[i]
    BY <1>0, <1>1, <1>3 DEF RegistryTypes, Put, RegisteredDurable
  <2>2. cache' \in [Id -> EntryT]
    <3>1. ASSUME NEW i \in Id PROVE [cache[i] EXCEPT !.key = Garbage] \in EntryT
      <4>1. cache[i] \in EntryT /\ Garbage \in K
        BY <1>0 DEF RegistryTypes, K
      <4> QED BY <4>1, SMTT(30) DEF EntryT
    <3> QED BY <1>0, <1>3, <3>1 DEF Rewritten, RegistryTypes
  <2>3. ASSUME NEW p \in Reader PROVE LookupOK(call[p])' /\ call'[p] \in LookupT
    <3>1. call[p] \in LookupT /\ LookupOK(call[p])
      BY <1>0, ZenonT(60) DEF RegistryTypes, LookupsOK
    <3>2. CASE call'[p] = call[p]
      BY <2>1, <3>1, <3>2 DEF LookupOK
    <3>3. CASE call'[p] # call[p]
      <4>1. call[p].pc = "fill" /\ call'[p] = [call[p] EXCEPT !.key = Garbage]
        BY <1>3, <3>3 DEF Rewritten
      <4>2. /\ call'[p] \in LookupT /\ call'[p].pc = "fill" /\ call'[p].id = call[p].id
            /\ call'[p].key = Garbage
        BY <3>1, <4>1 DEF LookupT, K
      <4> QED BY <3>1, <4>1, <4>2 DEF LookupOK
    <3> QED BY <3>2, <3>3
  <2>4. call' \in [Reader -> LookupT]
    BY <1>3, <2>3, ZenonT(60) DEF Rewritten
  <2>5. RegistryTypes'
    BY <1>1, <2>1, <2>2, <2>4 DEF RegistryTypes
  <2>6. LookupsOK'
    BY <2>3 DEF LookupsOK
  <2> QED BY <1>1, <2>1, <2>5, <2>6, ZenonT(60) DEF RInv, RegisteredDurable, CacheHolds
<1> QED BY <1>2, <1>3 DEF RegisterDB

\* A restart empties the map and leaves the bucket.
LEMMA ReopenStep == ASSUME RInv, Reopen PROVE RInv'
<1>1. NoEntry \in EntryT
  BY DEF NoEntry, EntryT, K
<1>2. RegistryTypes'
  BY <1>1, IdleOK DEF RInv, RegistryTypes, Reopen
<1>3. LookupsOK'
  BY IdleOK DEF LookupsOK, LookupOK, Reopen, NoCall
<1> QED
  BY <1>2, <1>3 DEF RInv, Reopen, RegisteredDurable, CacheHolds

\* The inductive step: both halves of Register, the readers and a restart.
LEMMA StepRInv == ASSUME RInv, [RegistryNext]_registryVars PROVE RInv'
<1>1. CASE UNCHANGED registryVars
  BY <1>1 DEF registryVars, RInv, RegistryTypes, RegisteredDurable, CacheHolds, LookupsOK, LookupOK
<1>2. CASE RegistryNext
  BY <1>2, RegisterCacheStep, RegisterDBStep, ReopenStep, ReaderStep, ZenonT(60) DEF RegistryNext
<1> QED BY <1>1, <1>2

\* What Register registered is found by every later Lookup and Exists, and with a
\* bucket it stays there through restarts and failed writes: for any identities and
\* number of concurrent callers.
THEOREM RegistryKeepsHolds == RegistrySpec => []RegistryKeeps
<1>1. RegistryInit => RInv
  BY InitRInv
<1>2. RInv /\ [RegistryNext]_registryVars => RInv'
  BY StepRInv
<1>3. RInv => RegistryKeeps
  <2> SUFFICES ASSUME RInv PROVE RegistryKeeps
    OBVIOUS
  <2>1. RegistryTypeOK
    <3>1. \A p \in Reader : call[p].pc \in Pc
      BY DEF RInv, RegistryTypes, LookupT
    <3> QED BY <3>1 DEF RegistryTypeOK, RInv, RegistryTypes, EntryT, K, Pc
  <2>2. FoundAfterRegister /\ RegisteredDurable
    BY DEF RInv, LookupsOK, LookupOK, FoundAfterRegister, Answered
  <2> QED BY <2>1, <2>2 DEF RegistryKeeps
<1> QED
  BY <1>1, <1>2, <1>3, PTL DEF RegistrySpec

=============================================================================
