-------------------------- MODULE SparseMerkleTree --------------------------
(***************************************************************************)
(* The tree behind the state root (pkg/smt), as the engine uses it: entries*)
(* are inserted while a candidate is built, a clone taken at the start of  *)
(* the cycle replaces the tree when the cycle fails, proofs are read off   *)
(* it, and it is saved and loaded as JSON.                                 *)
(*                                                                         *)
(* A key is a sequence of bits, the first one the one path() reads at      *)
(* depth 0; the root is at depth Depth - 1.  A hash is free of collisions, *)
(* so it is the node that it is the hash of.                               *)
(***************************************************************************)
EXTENDS Integers, Sequences, FiniteSets, SequencesExt, Functions

CONSTANTS
    Key,
    Value,
    Depth,
    MaxInserts,        \* bound: insertions of a behaviour
    MaxRollbacks       \* bound: failed cycles

\* What the constants must satisfy.
TreeAssumption ==
    /\ Depth \in Nat \ {0} /\ {MaxInserts, MaxRollbacks} \subseteq Nat
    /\ \A k \in Key : k \in Seq({0, 1}) /\ Len(k) <= Depth

VARIABLES
    root,              \* t.root
    store,             \* the hashes t.store has a node for
    snapshot,          \* root and store of the clone
    content,           \* history: what was inserted, per key
    snapContent,       \* history: the same, at the time of the clone
    inserts, rollbacks

treeVars == <<root, store, snapshot, content, snapContent, inserts, rollbacks>>

zero == [kind |-> "zero"]

parentHash(l, r) == [kind |-> "node", left |-> l, right |-> r]

leafHash(k, v) == [kind |-> "leaf", key |-> k, value |-> v]

\* The placeholders of empty subtrees.
zeroes[d \in 0 .. Depth - 1] ==
    IF d = 0 THEN zero ELSE parentHash(zeroes[d - 1], zeroes[d - 1])

\* The bit of a key at a depth; a key that is too short has a zero there.
path(k, d) == IF d < Len(k) THEN k[d + 1] ELSE 0

Empty == [k \in {} |-> zero]

TreeInit ==
    /\ root = zero /\ store = {}
    /\ snapshot = [root |-> zero, store |-> {}]
    /\ content = Empty /\ snapContent = Empty
    /\ inserts = 0 /\ rollbacks = 0

-----------------------------------------------------------------------------
\* Mutant: the placeholder beside a shared prefix has no depth.
SplitPlain(k1, h1, k2, h2) ==
    LET split[d \in -1 .. Depth - 1] ==
            IF d < 0 THEN h2
            ELSE IF path(k1, d) = path(k2, d)
                 THEN IF path(k1, d) = 0 THEN parentHash(split[d - 1], zero)
                      ELSE parentHash(zero, split[d - 1])
                 ELSE IF path(k1, d) = 0 THEN parentHash(h1, h2) ELSE parentHash(h2, h1)
    IN split

\* splitAndInsert: two leaves below a common prefix.  Keys with the same path
\* come to the bottom, where the second one stays.
splitAndInsert(k1, h1, k2, h2) ==
    LET split[d \in -1 .. Depth - 1] ==
            IF d < 0 THEN h2
            ELSE IF path(k1, d) = path(k2, d)
                 THEN IF path(k1, d) = 0 THEN parentHash(split[d - 1], zeroes[d])
                      ELSE parentHash(zeroes[d], split[d - 1])
                 ELSE IF path(k1, d) = 0 THEN parentHash(h1, h2) ELSE parentHash(h2, h1)
    IN split

\* What insertAt returns for a subtree whose root has no child to descend to.
AtBottom(current, k, v, d) ==
    IF current \notin store \/ current.key = k THEN leafHash(k, v)
    ELSE IF d < 0 THEN current
    ELSE splitAndInsert(current.key, current, k, leafHash(k, v))[d]

RECURSIVE insertAt(_, _, _, _)
insertAt(current, k, v, d) ==
    IF current \in store /\ current.kind = "node"
    THEN IF path(k, d) = 0
         THEN parentHash(insertAt(current.left, k, v, d - 1), current.right)
         ELSE parentHash(current.left, insertAt(current.right, k, v, d - 1))
    ELSE AtBottom(current, k, v, d)

\* The nodes of a subtree that are not placeholders.
RECURSIVE Nodes(_)
Nodes(h) ==
    IF h.kind = "leaf" THEN {h}
    ELSE IF h.kind = "zero" \/ h \in Range(zeroes) THEN {}
    ELSE {h} \cup Nodes(h.left) \cup Nodes(h.right)

Insert(k, v) ==
    /\ inserts < MaxInserts
    /\ inserts' = inserts + 1
    /\ root' = insertAt(root, k, v, Depth - 1)
    /\ store' = store \cup Nodes(root') \cup {leafHash(k, v)}
    /\ content' = [x \in DOMAIN content \cup {k} |-> IF x = k THEN v ELSE content[x]]
    /\ UNCHANGED <<snapshot, snapContent, rollbacks>>

\* The clone RunCycle takes.
Clone ==
    /\ snapshot' = [root |-> root, store |-> store]
    /\ snapContent' = content
    /\ UNCHANGED <<root, store, content, inserts, rollbacks>>

\* A cycle that fails puts the clone in the tree's place.
Rollback ==
    /\ rollbacks < MaxRollbacks
    /\ rollbacks' = rollbacks + 1
    /\ root' = snapshot.root /\ store' = snapshot.store
    /\ content' = snapContent
    /\ UNCHANGED <<snapshot, snapContent, inserts>>

\* MarshalJSON writes the root, the depth, the placeholders and one member per
\* node, named by the hexadecimal form of its hash.
MarshalJSON == [root |-> root, store |-> {[name |-> h, node |-> h] : h \in store}]

\* UnmarshalJSON, after which the tree is a new one and nothing else refers to it.
Reload ==
    /\ root' = MarshalJSON.root
    /\ store' = {e.name : e \in MarshalJSON.store}
    /\ snapshot' = [root |-> root', store |-> store']
    /\ snapContent' = content
    /\ UNCHANGED <<content, inserts, rollbacks>>

TreeNext ==
    \/ \E k \in Key, v \in Value : Insert(k, v)
    \/ Clone
    \/ Rollback
    \/ Reload

TreeSpec == TreeInit /\ [][TreeNext]_treeVars

-----------------------------------------------------------------------------
\* The walk that Get and Prove share: the node that ends it, the depth it has
\* come to, and the siblings, lowest first.
RECURSIVE Walk(_, _, _, _)
Walk(current, k, d, siblings) ==
    IF current \in store /\ current.kind = "node" /\ d >= 0
    THEN IF path(k, d) = 0
         THEN Walk(current.left, k, d - 1, <<current.right>> \o siblings)
         ELSE Walk(current.right, k, d - 1, <<current.left>> \o siblings)
    ELSE [end |-> current, depth |-> d, proof |-> siblings]

IsLeafOf(h, k) == h \in store /\ h.kind = "leaf" /\ h.key = k

\* Get gives up below depth 0.
Found(k) ==
    LET w == Walk(root, k, Depth - 1, <<>>) IN w.depth >= 0 /\ IsLeafOf(w.end, k)

Get(k) == Walk(root, k, Depth - 1, <<>>).end.value

\* Prove looks at what it has come to below depth 0 as well.
Proved(k) == IsLeafOf(Walk(root, k, Depth - 1, <<>>).end, k)

Prove(k) == Walk(root, k, Depth - 1, <<>>).proof

\* Verify folds the siblings from the lowest up.
Verify(k, v, r, proof) ==
    LET base == Depth - 1 - Len(proof)
        fold[i \in 0 .. Len(proof)] ==
            IF i = 0 THEN leafHash(k, v)
            ELSE IF path(k, base + i) = 0 THEN parentHash(fold[i - 1], proof[i])
                 ELSE parentHash(proof[i], fold[i - 1])
    IN Len(proof) <= Depth /\ fold[Len(proof)] = r

-----------------------------------------------------------------------------
\* The root is a node that is there, or nothing was ever inserted.
TreeTypeOK ==
    /\ root \in store \/ (root = zero /\ content = Empty)
    /\ DOMAIN content \subseteq Key /\ Range(content) \subseteq Value
    /\ inserts \in 0 .. MaxInserts /\ rollbacks \in 0 .. MaxRollbacks

\* The tree of some contents, by recursion on the depth and not on insertions: a
\* leaf where one key is left, a placeholder of that depth where none is.
RECURSIVE TreeOf(_, _)
TreeOf(ks, d) ==
    IF Cardinality(ks) = 1
    THEN LET k == CHOOSE x \in ks : TRUE IN leafHash(k, content[k])
    ELSE IF ks = {} THEN zeroes[d + 1]
    ELSE parentHash(TreeOf({k \in ks : path(k, d) = 0}, d - 1),
                    TreeOf({k \in ks : path(k, d) = 1}, d - 1))

\* The root depends on the contents alone: on no order of insertion, no value
\* that was overwritten and no cycle that was rolled back.  Nodes that committed
\* the same blocks along different ways have the same root (insertAt,
\* splitAndInsert, Clone; engine.go RunCycle).
RootIsContent == DOMAIN content # {} => root = TreeOf(DOMAIN content, Depth - 1)

\* Every key that is in the tree has a proof that verifies, and no other key has
\* one (Prove, Verify).
ProofsExact ==
    \A k \in Key :
        /\ Proved(k) <=> k \in DOMAIN content
        /\ Proved(k) => Verify(k, content[k], root, Prove(k))

\* A proof made for one key shows nothing of another, nor of another value
\* (Verify).
ProofsBind ==
    \A k \in DOMAIN content : \A x \in Key, v \in Value :
        Verify(x, v, root, Prove(k)) => x = k /\ v = content[k]

\* "Retrieval must still distinguish them": what was inserted is found.
Retrievable == \A k \in DOMAIN content : Found(k) /\ Get(k) = content[k]

\* "Short keys must not collide": the tree keeps every key.
KeysDoNotCollide == \A k \in DOMAIN content : Proved(k)

=============================================================================
