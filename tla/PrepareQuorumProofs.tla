------------------------ MODULE PrepareQuorumProofs ------------------------
(***************************************************************************)
(* The signature arithmetic, for every bitmap and every peer order: the    *)
(* bitmap and the compacted payload of a block describe the same signers.  *)
(* The fact behind it: counting the set bits before a position numbers the *)
(* set bits 0, 1, 2, ... without gaps or repetitions.                      *)
(***************************************************************************)
EXTENDS PrepareQuorum, FiniteSetTheorems, TLAPS

\* A leaf that names no prover is tried with SMT, then with Zenon.
USE SMTT(30), ZenonT(30)

\* A function on 1..n is a sequence of length n.
LEMMA FunctionIsSeq ==
    ASSUME NEW n \in Nat, NEW T, NEW f \in [1..n -> T]
    PROVE  f \in Seq(T) /\ Len(f) = n
  OBVIOUS

\* A bitmap over n positions is a finite set of naturals.
LEMMA BitmapFinite ==
    ASSUME NEW n \in Nat, NEW bitmap \in SUBSET (1..n)
    PROVE  bitmap \subseteq Nat /\ IsFiniteSet(bitmap) /\ Cardinality(bitmap) \in Nat
  <1>1. IsFiniteSet(1..n)
    BY FS_Interval
  <1>2. IsFiniteSet(bitmap)
    BY <1>1, FS_Subset, Zenon
  <1>3. Cardinality(bitmap) \in Nat
    BY <1>2, FS_CardinalityType
  <1>4. bitmap \subseteq Nat
    OBVIOUS
  <1> QED
    BY <1>2, <1>3, <1>4

\* Fewer bits are set before a set bit than in the whole bitmap (commit.go
\* countBitsBefore).
LEMMA CountBelow ==
    ASSUME NEW bitmap, bitmap \subseteq Nat, IsFiniteSet(bitmap), NEW i \in bitmap
    PROVE  countBitsBefore(bitmap, i) \in 0..(Cardinality(bitmap) - 1)
  <1> DEFINE before == {j \in bitmap : j < i}
  <1>1. before \in SUBSET bitmap /\ before # bitmap
    OBVIOUS
  <1>2. /\ IsFiniteSet(before)
        /\ Cardinality(before) <= Cardinality(bitmap)
        /\ Cardinality(bitmap) # Cardinality(before)
    BY <1>1, FS_Subset
  <1>3. Cardinality(before) \in Nat /\ Cardinality(bitmap) \in Nat
    BY <1>2, FS_CardinalityType
  <1>4. countBitsBefore(bitmap, i) = Cardinality(before)
    BY DEF countBitsBefore
  <1> HIDE DEF before
  <1> QED
    BY <1>2, <1>3, <1>4

\* A later set bit has more set bits before it.
LEMMA CountIncreases ==
    ASSUME NEW bitmap, bitmap \subseteq Nat, IsFiniteSet(bitmap),
           NEW i \in bitmap, NEW k \in bitmap, i < k
    PROVE  countBitsBefore(bitmap, i) < countBitsBefore(bitmap, k)
  <1> DEFINE low == {j \in bitmap : j < i}
             high == {j \in bitmap : j < k}
  <1>1. low \in SUBSET high /\ low # high
    <2>1. i \in high /\ i \notin low
      OBVIOUS
    <2>2. \A j \in low : j \in high
      OBVIOUS
    <2> QED
      BY <2>1, <2>2, Zenon
  <1>2. IsFiniteSet(high)
    <2>1. high \in SUBSET bitmap
      OBVIOUS
    <2> QED
      BY <2>1, FS_Subset
  <1>3. /\ IsFiniteSet(low)
        /\ Cardinality(low) <= Cardinality(high)
        /\ Cardinality(high) # Cardinality(low)
    BY <1>1, <1>2, FS_Subset
  <1>4. Cardinality(low) \in Nat /\ Cardinality(high) \in Nat
    BY <1>2, <1>3, FS_CardinalityType
  <1>5. countBitsBefore(bitmap, i) = Cardinality(low) /\ countBitsBefore(bitmap, k) = Cardinality(high)
    BY DEF countBitsBefore
  <1> HIDE DEF low, high
  <1> QED
    BY <1>3, <1>4, <1>5

\* Two set bits never share a place in the payload.
LEMMA CountInjective ==
    ASSUME NEW bitmap, bitmap \subseteq Nat, IsFiniteSet(bitmap),
           NEW i \in bitmap, NEW k \in bitmap,
           countBitsBefore(bitmap, i) = countBitsBefore(bitmap, k)
    PROVE  i = k
  <1>1. Cardinality(bitmap) \in Nat /\ countBitsBefore(bitmap, i) \in 0..(Cardinality(bitmap) - 1)
    BY CountBelow, FS_CardinalityType, Zenon
  <1>2. ASSUME i < k PROVE FALSE
    <2>1. countBitsBefore(bitmap, i) < countBitsBefore(bitmap, k)
      BY <1>2, CountIncreases, Zenon
    <2> QED
      BY <1>1, <2>1
  <1>3. ASSUME k < i PROVE FALSE
    <2>1. countBitsBefore(bitmap, k) < countBitsBefore(bitmap, i)
      BY <1>3, CountIncreases, Zenon
    <2> QED
      BY <1>1, <2>1
  <1> QED
    BY <1>2, <1>3

\* Every place in the payload belongs to some set bit.
LEMMA CountOnto ==
    ASSUME NEW bitmap, bitmap \subseteq Nat, IsFiniteSet(bitmap),
           NEW k \in 1..Cardinality(bitmap)
    PROVE  \E i \in bitmap : countBitsBefore(bitmap, i) = k - 1
  <1> DEFINE ranks == 0..(Cardinality(bitmap) - 1)
             rank == [i \in bitmap |-> countBitsBefore(bitmap, i)]
  <1>1. rank \in [bitmap -> ranks]
    BY CountBelow, Zenon
  <1>2. \A i, j \in bitmap : rank[i] = rank[j] => i = j
    BY CountInjective, Zenon
  <1>3. rank \in Injection(bitmap, ranks)
    BY <1>1, <1>2 DEF Injection, IsInjective
  <1>4. Cardinality(bitmap) \in Nat
    BY FS_CardinalityType
  <1>5. IsFiniteSet(ranks) /\ Cardinality(ranks) = Cardinality(bitmap)
    <2>1. 0 \in Int /\ Cardinality(bitmap) - 1 \in Int
      BY <1>4
    <2>2. /\ IsFiniteSet(ranks)
          /\ Cardinality(ranks) = IF 0 > Cardinality(bitmap) - 1 THEN 0
                                  ELSE (Cardinality(bitmap) - 1) - 0 + 1
      BY <2>1, FS_Interval
    <2> HIDE DEF ranks
    <2> QED
      BY <1>4, <2>2
  <1>6. rank \in Surjection(bitmap, ranks)
    BY <1>3, <1>5, FS_Injection
  <1>7. k - 1 \in ranks
    BY <1>4
  <1>8. \E i \in bitmap : rank[i] = k - 1
    BY <1>6, <1>7, Zenon DEF Surjection
  <1> QED
    BY <1>8

\* A sequence over a set is one over every larger set.
LEMMA SeqWidens ==
    ASSUME NEW S, NEW T, S \subseteq T, NEW s \in Seq(S)
    PROVE  s \in Seq(T)
  OBVIOUS

\* A nonempty set of positions has a least one: the one no bit comes before.
LEMMA LeastPosition ==
    ASSUME NEW k \in Nat, NEW V, V \subseteq 1..k, V # {}
    PROVE  (CHOOSE i \in V : \A j \in V : i <= j) \in V
  <1>1. V \subseteq Nat /\ IsFiniteSet(V) /\ Cardinality(V) \in Nat
    BY BitmapFinite, Zenon
  <1>2. 1 \in 1..Cardinality(V)
    BY <1>1, FS_EmptySet
  <1>3. PICK i \in V : countBitsBefore(V, i) = 1 - 1
    BY <1>1, <1>2, CountOnto, Zenon
  <1>4. IsFiniteSet({j \in V : j < i}) /\ Cardinality({j \in V : j < i}) = 0
    BY <1>1, <1>3, FS_Subset DEF countBitsBefore
  <1>5. {j \in V : j < i} = {}
    BY <1>4, FS_EmptySet
  <1>6. \A j \in V : i <= j
    BY <1>1, <1>5
  <1> QED
    BY <1>6, Zenon

\* The payload has one signature per set bit, each by the peer of a set bit.
LEMMA CompactLength ==
    ASSUME NEW bitmap, bitmap \subseteq Nat, IsFiniteSet(bitmap), NEW peers, NEW hash
    PROVE  /\ CompactSigs(peers, bitmap, hash) \in Seq({SignDilithium(peers[i], hash) : i \in bitmap})
           /\ Len(CompactSigs(peers, bitmap, hash)) = Cardinality(bitmap)
  <1> DEFINE at(k) == CHOOSE i \in bitmap : countBitsBefore(bitmap, i) = k - 1
             payload == CompactSigs(peers, bitmap, hash)
             signed == {SignDilithium(peers[i], hash) : i \in bitmap}
  <1>1. Cardinality(bitmap) \in Nat
    BY FS_CardinalityType
  <1>2. \A k \in 1..Cardinality(bitmap) : at(k) \in bitmap
    BY CountOnto, Zenon
  <1>3. payload = [k \in 1..Cardinality(bitmap) |-> SignDilithium(peers[at(k)], hash)]
    BY DEF CompactSigs
  <1>4. payload \in [1..Cardinality(bitmap) -> signed]
    BY <1>2, <1>3, Zenon
  <1> HIDE DEF payload, signed
  <1> QED
    BY <1>1, <1>4, FunctionIsSeq DEF payload, signed

\* The payload the leader compacts holds, at the place countBitsBefore gives
\* for a set bit, the signature of that bit's peer (commit.go 48-59 against 157-163).
THEOREM CompactThenRead ==
    ASSUME NEW bitmap, bitmap \subseteq Nat, IsFiniteSet(bitmap), NEW i \in bitmap,
           NEW peers, NEW hash
    PROVE  CompactSigs(peers, bitmap, hash)[countBitsBefore(bitmap, i) + 1]
              = SignDilithium(peers[i], hash)
  <1> DEFINE at(k) == CHOOSE j \in bitmap : countBitsBefore(bitmap, j) = k - 1
             place == countBitsBefore(bitmap, i) + 1
  <1>1. Cardinality(bitmap) \in Nat /\ countBitsBefore(bitmap, i) \in 0..(Cardinality(bitmap) - 1)
    BY FS_CardinalityType, CountBelow, Zenon
  <1>2. place \in 1..Cardinality(bitmap) /\ place - 1 = countBitsBefore(bitmap, i)
    BY <1>1
  <1>3. at(place) \in bitmap /\ countBitsBefore(bitmap, at(place)) = countBitsBefore(bitmap, i)
    BY <1>2
  <1>4. at(place) = i
    BY <1>3, CountInjective
  <1>5. CompactSigs(peers, bitmap, hash)
          = [k \in 1..Cardinality(bitmap) |-> SignDilithium(peers[at(k)], hash)]
    BY DEF CompactSigs
  <1> QED
    BY <1>2, <1>4, <1>5

\* quorumRequired is a positive count for every nonempty validator set.
LEMMA QuorumPositive ==
    ASSUME NEW n \in Nat \ {0}
    PROVE  quorumRequired(n) \in Nat \ {0} /\ quorumRequired(n) <= n
  BY DEF quorumRequired

\* A block whose payload was compacted in a validator's own peer order passes
\* that validator's verifyPrepareQuorum exactly when enough bits are set.
THEOREM SameOrderVerifies ==
    ASSUME NEW Validator, NEW peers \in Seq(Validator), NEW b,
           b.bitmap \in SUBSET (DOMAIN peers),
           b.sigs = CompactSigs(peers, b.bitmap, ComputeBlockHash(b))
    PROVE  /\ \A i \in b.bitmap : SigVerifies(b, peers, i)
           /\ verifyPrepareQuorum(b, peers) <=> Cardinality(b.bitmap) >= RequiredIn(b, peers)
  <1>1. Len(peers) \in Nat /\ b.bitmap \in SUBSET (1..Len(peers)) /\ b.bitmap \cap DOMAIN peers = b.bitmap
    OBVIOUS
  <1>2. b.bitmap \subseteq Nat /\ IsFiniteSet(b.bitmap) /\ Cardinality(b.bitmap) \in Nat
    BY <1>1, BitmapFinite, Zenon
  <1>3. Len(b.sigs) = Cardinality(b.bitmap)
    BY <1>2, CompactLength, Zenon
  <1>4. ASSUME NEW i \in b.bitmap
        PROVE  SigVerifies(b, peers, i)
    <2>1. countBitsBefore(b.bitmap, i) \in 0..(Cardinality(b.bitmap) - 1)
      BY <1>2, CountBelow
    <2>2. countBitsBefore(b.bitmap, i) < Len(b.sigs)
      BY <1>2, <1>3, <2>1
    <2>3. b.sigs[countBitsBefore(b.bitmap, i) + 1] = SignDilithium(peers[i], ComputeBlockHash(b))
      BY <1>2, CompactThenRead
    <2> QED
      BY <2>2, <2>3 DEF SigVerifies, VerifyDilithium
  <1> QED
    BY <1>1, <1>4, Zenon DEF verifyPrepareQuorum

\* Two quorums of one validator set share at least a third of it, so they share
\* a correct validator when fewer than a third are faulty (prepare.go quorumRequired).
THEOREM QuorumsShareAThird ==
    ASSUME NEW V, IsFiniteSet(V), NEW S \in SUBSET V, NEW T \in SUBSET V,
           Cardinality(S) >= quorumRequired(Cardinality(V)),
           Cardinality(T) >= quorumRequired(Cardinality(V))
    PROVE  3 * Cardinality(S \cap T) >= Cardinality(V)
  <1>1. IsFiniteSet(S) /\ IsFiniteSet(T) /\ S \cup T \in SUBSET V
    BY FS_Subset
  <1>2. Cardinality(S \cup T) = Cardinality(S) + Cardinality(T) - Cardinality(S \cap T)
    BY <1>1, FS_Union
  <1>3. Cardinality(S \cup T) <= Cardinality(V)
    BY <1>1, FS_Subset
  <1>4. IsFiniteSet(S \cap T) /\ IsFiniteSet(S \cup T)
    BY <1>1, FS_Intersection, FS_Union
  <1>5. /\ Cardinality(V) \in Nat /\ Cardinality(S) \in Nat /\ Cardinality(T) \in Nat
        /\ Cardinality(S \cap T) \in Nat /\ Cardinality(S \cup T) \in Nat
    BY <1>1, <1>4, FS_CardinalityType
  <1> QED
    BY <1>2, <1>3, <1>5 DEF quorumRequired

=============================================================================
