---------------------------- MODULE StorageProofs ----------------------------
(***************************************************************************)
(* The engine's storage, for any entries and any number of cycles, aborts, *)
(* stops, failed writes and crashes: what a new process loads is           *)
(* consistent.  The inductive invariant has five parts, each proved with   *)
(* the help of the ones before it:                                         *)
(*   StoreTypes  the types;                                                *)
(*   ShapeInv    the database holds blocks of the chain, one for a key,    *)
(*               and a loop over the blocks writes a prefix of the chain;  *)
(*   OrderInv    the keys on disk have no gap;                             *)
(*   PersistInv  what the cycle's loop has passed is on disk;              *)
(*   CrashInv    the tree, the proofs and the clock are on disk before a   *)
(*               block that needs them.                                    *)
(***************************************************************************)
EXTENDS Storage, PrepareQuorumProofs

\* A leaf that names no prover is left to Zenon; the ones that need SMT name it.
USE ZenonT(30)

\* What loadPersisted puts together again after a crash: the types of the engine's
\* memory, of the buckets and of a call of persist.
AnchorT == [entry : Entry, index : Nat]

MemT == [cycle : Nat, pending : SUBSET Entry, st : SUBSET Entry, anchored : SUBSET AnchorT,
         blocks : Seq(BlockType)]

DiskT == [cycle : Nat, pending : SUBSET Entry, st : SUBSET Entry, anchored : SUBSET AnchorT,
          blocks : SUBSET BlockType]

Buckets == {"off", "state", "pending", "smt", "anchored", "blocks", "done"}

SaverT == [at : Buckets, anchors : SUBSET AnchorT, next : Nat, blocks : Seq(BlockType),
           failed : BOOLEAN]

StoreTypes ==
    /\ mem \in MemT
    /\ disk \in DiskT /\ IsFiniteSet(disk.blocks)
    /\ snapshot \in [st : SUBSET Entry, batch : SUBSET Entry]
    /\ phase \in {"idle", "prepared", "persist"}
    /\ stopping \in BOOLEAN
    /\ saver \in [Saver -> SaverT]
    /\ used \in [aborts : Nat, crashes : Nat, stops : Nat, fails : Nat]

\* A loop over the blocks has one left to write, unless there are none.
InLoop(p) == p.at = "blocks" => /\ p.next >= 1
                                /\ p.blocks # <<>> => p.next <= Len(p.blocks)

\* Some proof of the entry is among the anchors.
Proved(e, anchors) == \E a \in anchors : a.entry = e

\* Every entry that has a proof in the first set has one in the second.
Covered(first, second) == \A e \in Entry : Proved(e, first) => Proved(e, second)

\* A step of the loop over the proofs from p to q that leaves d in the database: an entry
\* that has a proof on disk keeps one, and the loop ends when every proof it was to
\* write is there.
ProofsKept(p, q, d) ==
    /\ Covered(disk.anchored, d.anchored)
    /\ \/ q.at = "anchored" /\ Covered(disk.anchored \cup p.anchors, d.anchored \cup q.anchors)
       \/ q.at = "blocks" /\ Covered(disk.anchored \cup p.anchors, d.anchored)

\* One transaction of persist, in a call that stands at p: it leaves d in the database,
\* and the call goes on at q.
Moves(p, q, d) ==
    \/ p.at = "state" /\ d = SaveState /\ q = Enter(p, "pending")
    \/ p.at = "pending" /\ d = SavePending /\ q = Enter(p, "smt")
    \/ p.at = "smt" /\ d = SaveSMT /\ q = Enter(p, "anchored")
    \/ p.at = "anchored" /\ p.anchors = {} /\ d = disk /\ q = Enter(p, "blocks")
    \/ /\ p.at = "anchored"
       /\ \E w \in p.anchors : d = SaveAnchored(w)
       /\ LET left == {w \in p.anchors : w \notin d.anchored}
          IN  q = IF left # {} THEN [p EXCEPT !.anchors = left] ELSE Enter(p, "blocks")
    \/ p.at = "blocks" /\ p.blocks = <<>> /\ d = disk /\ q = Enter(p, "done")
    \/ /\ p.at = "blocks" /\ p.blocks # <<>> /\ d = SaveBlock(p.blocks[p.next])
       /\ q = IF p.next < Len(p.blocks) THEN [p EXCEPT !.next = @ + 1] ELSE Enter(p, "done")

\* The order of the buckets.
LEMMA BucketOrder ==
    /\ NextBucket("state") = "pending" /\ NextBucket("pending") = "smt"
    /\ NextBucket("smt") = "anchored" /\ NextBucket("anchored") = "blocks"
    /\ NextBucket("blocks") = "done"
BY DEF NextBucket

\* A write that succeeds or fails is such a transaction.
LEMMA WriteMoves ==
    ASSUME StoreTypes, NEW s \in Saver, Write(s) \/ WriteFails(s)
    PROVE  \E q, d : /\ Moves(saver[s], q, d)
                     /\ \/ /\ disk' = d /\ saver' = [saver EXCEPT ![s] = q] /\ UNCHANGED used
                        \/ /\ UNCHANGED disk /\ used' = [used EXCEPT !.fails = @ + 1]
                           /\ saver' = [saver EXCEPT ![s] = [q EXCEPT !.failed = TRUE]]
                     /\ UNCHANGED <<mem, snapshot, phase, stopping>>
<1> DEFINE p == saver[s]
<1>0. p \in SaverT /\ p.at \in Buckets \ {"off", "done"}
  BY DEF StoreTypes, SaverT, Write, WriteFails, Saving
<1>1. CASE NothingToWrite(p)
  <2>1. /\ saver' = [saver EXCEPT ![s] = Enter(p, NextBucket(p.at))]
        /\ UNCHANGED <<disk, mem, snapshot, phase, stopping, used>>
    BY <1>1 DEF Write, WriteFails
  <2>2. Moves(p, Enter(p, NextBucket(p.at)), disk)
    BY <1>1, BucketOrder DEF NothingToWrite, Moves
  <2> QED
    BY <2>1, <2>2
<1>2. ASSUME ~NothingToWrite(p), NEW d \in Writes(p)
      PROVE  Moves(p, AfterWrite(p, d), d)
  <2>1. CASE p.at = "state"
    BY <1>2, <2>1, BucketOrder DEF Writes, AfterWrite, Moves
  <2>2. CASE p.at = "pending"
    BY <1>2, <2>2, BucketOrder DEF Writes, AfterWrite, Moves
  <2>3. CASE p.at = "smt"
    BY <1>2, <2>3, BucketOrder DEF Writes, AfterWrite, Moves
  <2>4. CASE p.at = "anchored"
    <3>1. \E w \in p.anchors : d = SaveAnchored(w)
      BY <1>2, <2>4 DEF Writes
    <3>2. AfterWrite(p, d) = LET left == {w \in p.anchors : w \notin d.anchored}
                             IN  IF left # {} THEN [p EXCEPT !.anchors = left] ELSE Enter(p, "blocks")
      BY <2>4, BucketOrder DEF AfterWrite
    <3> QED
      BY <2>4, <3>1, <3>2 DEF Moves
  <2>5. CASE p.at = "blocks"
    <3>1. d = SaveBlock(p.blocks[p.next]) /\ p.blocks # <<>>
      BY <1>2, <2>5 DEF Writes, NothingToWrite
    <3>2. AfterWrite(p, d) = IF p.next < Len(p.blocks) THEN [p EXCEPT !.next = @ + 1] ELSE Enter(p, "done")
      BY <2>5, BucketOrder DEF AfterWrite
    <3> QED
      BY <2>5, <3>1, <3>2 DEF Moves
  <2> QED
    BY <1>0, <2>1, <2>2, <2>3, <2>4, <2>5 DEF Buckets
<1>3. CASE ~NothingToWrite(p) /\ Write(s)
  <2>1. PICK d \in Writes(p) : disk' = d /\ saver' = [saver EXCEPT ![s] = AfterWrite(p, d)]
    BY <1>3 DEF Write
  <2>2. UNCHANGED <<mem, snapshot, phase, stopping, used>>
    BY <1>3 DEF Write
  <2> QED
    BY <1>2, <1>3, <2>1, <2>2
<1>4. CASE WriteFails(s)
  <2>1. PICK d \in Writes(p) : saver' = [saver EXCEPT ![s] = [AfterWrite(p, d) EXCEPT !.failed = TRUE]]
    BY <1>4 DEF WriteFails
  <2>2. /\ ~NothingToWrite(p) /\ used' = [used EXCEPT !.fails = @ + 1]
        /\ UNCHANGED <<mem, snapshot, disk, phase, stopping>>
    BY <1>4 DEF WriteFails
  <2> QED
    BY <1>2, <2>1, <2>2
<1> QED
  BY <1>1, <1>3, <1>4

\* What persist takes with it into the next bucket.
LEMMA EnterFields ==
    ASSUME StoreTypes, NEW p \in SaverT, NEW b \in Buckets
    PROVE  /\ Enter(p, b) \in SaverT
           /\ Enter(p, b).at = b /\ Enter(p, b).next = p.next /\ Enter(p, b).failed = p.failed
           /\ Enter(p, b).anchors = IF b = "anchored" THEN mem.anchored ELSE p.anchors
           /\ Enter(p, b).blocks = IF b = "blocks" THEN mem.blocks ELSE p.blocks
BY DEF Enter, SaverT, StoreTypes, MemT

\* A write of the state, the pending entries or the tree.
LEMMA EarlyMove ==
    ASSUME StoreTypes, NEW p \in SaverT, NEW q, NEW d, Moves(p, q, d),
           p.at \notin {"anchored", "blocks"}
    PROVE  /\ q \in SaverT /\ d \in DiskT /\ q.failed = p.failed /\ q.next = p.next
           /\ \/ p.at = "state" /\ q.at = "pending" /\ d.cycle = mem.cycle /\ d.st = disk.st
              \/ p.at = "pending" /\ q.at = "smt" /\ d.cycle = disk.cycle /\ d.st = disk.st
              \/ /\ p.at = "smt" /\ q.at = "anchored" /\ d.cycle = disk.cycle /\ d.st = mem.st
                 /\ q.anchors = mem.anchored
           /\ d.anchored = disk.anchored /\ d.blocks = disk.blocks
<1>1. \/ p.at = "state" /\ d = SaveState /\ q = Enter(p, "pending")
      \/ p.at = "pending" /\ d = SavePending /\ q = Enter(p, "smt")
      \/ p.at = "smt" /\ d = SaveSMT /\ q = Enter(p, "anchored")
  BY DEF Moves
<1>2. "pending" \in Buckets /\ "smt" \in Buckets /\ "anchored" \in Buckets
  BY DEF Buckets
<1>3. /\ SaveState \in DiskT /\ SaveState.cycle = mem.cycle /\ SaveState.st = disk.st
      /\ SaveState.anchored = disk.anchored /\ SaveState.blocks = disk.blocks
  BY DEF SaveState, StoreTypes, MemT, DiskT
<1>4. /\ SavePending \in DiskT /\ SavePending.cycle = disk.cycle /\ SavePending.st = disk.st
      /\ SavePending.anchored = disk.anchored /\ SavePending.blocks = disk.blocks
  BY DEF SavePending, StoreTypes, MemT, DiskT
<1>5. /\ SaveSMT \in DiskT /\ SaveSMT.cycle = disk.cycle /\ SaveSMT.st = mem.st
      /\ SaveSMT.anchored = disk.anchored /\ SaveSMT.blocks = disk.blocks
  BY DEF SaveSMT, StoreTypes, MemT, DiskT
<1>6. /\ q \in SaverT /\ q.failed = p.failed /\ q.next = p.next
      /\ p.at = "state" => q.at = "pending"
      /\ p.at = "pending" => q.at = "smt"
      /\ p.at = "smt" => q.at = "anchored" /\ q.anchors = mem.anchored
  <2>1. CASE p.at = "state"
    BY <1>1, <1>2, <2>1, EnterFields, SMTT(30)
  <2>2. CASE p.at = "pending"
    BY <1>1, <1>2, <2>2, EnterFields, SMTT(30)
  <2>3. CASE p.at = "smt"
    BY <1>1, <1>2, <2>3, EnterFields, SMTT(30)
  <2> QED
    BY <1>1, <2>1, <2>2, <2>3
<1> QED
  BY <1>1, <1>3, <1>4, <1>5, <1>6

\* A step of the loop over the proofs.
LEMMA AnchorMove ==
    ASSUME StoreTypes, NEW p \in SaverT, NEW q, NEW d, Moves(p, q, d), p.at = "anchored"
    PROVE  /\ q \in SaverT /\ d \in DiskT /\ q.failed = p.failed /\ q.next = p.next
           /\ d.cycle = disk.cycle /\ d.st = disk.st /\ d.blocks = disk.blocks
           /\ q.at = "anchored" \/ (q.at = "blocks" /\ q.blocks = mem.blocks)
           /\ ProofsKept(p, q, d)
<1>0. "blocks" \in Buckets /\ p.anchors \in SUBSET AnchorT /\ disk \in DiskT
  BY DEF Buckets, SaverT, StoreTypes
<1>1. CASE p.anchors = {} /\ d = disk /\ q = Enter(p, "blocks")
  <2>1. disk.anchored \cup p.anchors = disk.anchored
    BY <1>1
  <2>2. Covered(disk.anchored, disk.anchored)
    BY DEF Covered
  <2> QED
    BY <1>0, <1>1, <2>1, <2>2, EnterFields DEF ProofsKept
<1>2. CASE /\ \E w \in p.anchors : d = SaveAnchored(w)
           /\ LET left == {w \in p.anchors : w \notin d.anchored}
              IN  q = IF left # {} THEN [p EXCEPT !.anchors = left] ELSE Enter(p, "blocks")
  <2>1. PICK w \in p.anchors : d = SaveAnchored(w)
    BY <1>2
  <2> DEFINE left == {x \in p.anchors : x \notin d.anchored}
  <2>2. /\ d \in DiskT /\ d.cycle = disk.cycle /\ d.st = disk.st /\ d.blocks = disk.blocks
        /\ d.anchored = {a \in disk.anchored : a.entry # w.entry} \cup {w}
    BY <1>0, <2>1 DEF SaveAnchored, DiskT
  <2>3. Covered(disk.anchored, d.anchored)
    BY <2>2 DEF Covered, Proved
  <2>4. Covered(p.anchors, d.anchored \cup left)
    BY DEF Covered, Proved
  <2>5. Covered(disk.anchored \cup p.anchors, d.anchored \cup left)
    BY <2>3, <2>4 DEF Covered, Proved
  <2>6. left \in SUBSET AnchorT
    BY <1>0
  <2>7. q = IF left # {} THEN [p EXCEPT !.anchors = left] ELSE Enter(p, "blocks")
    BY <1>2
  <2> HIDE DEF left
  <2>8. CASE left # {}
    <3>1. q \in SaverT /\ q.at = "anchored" /\ q.anchors = left /\ q.failed = p.failed /\ q.next = p.next
      BY <2>6, <2>7, <2>8 DEF SaverT
    <3> QED
      BY <2>2, <2>3, <2>5, <3>1 DEF ProofsKept
  <2>9. CASE left = {}
    <3>1. /\ q \in SaverT /\ q.at = "blocks" /\ q.blocks = mem.blocks
          /\ q.failed = p.failed /\ q.next = p.next
      BY <1>0, <2>7, <2>9, EnterFields
    <3>2. d.anchored \cup left = d.anchored
      BY <2>9
    <3> QED
      BY <2>2, <2>3, <2>5, <3>1, <3>2 DEF ProofsKept
  <2> QED
    BY <2>8, <2>9
<1> QED
  BY <1>1, <1>2 DEF Moves

\* A step of the loop over the blocks.
LEMMA BlockMove ==
    ASSUME StoreTypes, NEW p \in SaverT, InLoop(p), NEW q, NEW d, Moves(p, q, d), p.at = "blocks"
    PROVE  /\ q \in SaverT /\ d \in DiskT /\ IsFiniteSet(d.blocks)
           /\ q.failed = p.failed /\ q.blocks = p.blocks
           /\ d.cycle = disk.cycle /\ d.st = disk.st /\ d.anchored = disk.anchored
           /\ \/ q.at = "blocks" /\ p.next < Len(p.blocks) /\ q.next = p.next + 1
              \/ q.at = "done" /\ p.next >= Len(p.blocks)
           /\ \/ p.blocks = <<>> /\ d.blocks = disk.blocks
              \/ /\ p.next \in 1..Len(p.blocks) /\ p.next \in DOMAIN p.blocks
                 /\ p.blocks[p.next] \in BlockType
                 /\ d.blocks = {x \in disk.blocks : x.index # p.blocks[p.next].index}
                                   \cup {p.blocks[p.next]}
<1>0. "done" \in Buckets /\ disk \in DiskT /\ IsFiniteSet(disk.blocks) /\ p.next \in Nat /\ p.blocks \in Seq(BlockType)
      /\ p.next >= 1
  BY DEF Buckets, SaverT, StoreTypes, InLoop
<1>1. CASE p.blocks = <<>> /\ d = disk /\ q = Enter(p, "done")
  BY <1>0, <1>1, EnterFields, SMTT(30)
<1>2. CASE /\ p.blocks # <<>> /\ d = SaveBlock(p.blocks[p.next])
           /\ q = IF p.next < Len(p.blocks) THEN [p EXCEPT !.next = @ + 1] ELSE Enter(p, "done")
  <2> DEFINE b == p.blocks[p.next]
             kept == {x \in disk.blocks : x.index # b.index}
  <2>1. p.next \in 1..Len(p.blocks) /\ p.next \in DOMAIN p.blocks /\ b \in BlockType
    BY <1>0, <1>2, SMTT(30) DEF InLoop
  <2>2. kept \in SUBSET disk.blocks
    OBVIOUS
  <2>3. IsFiniteSet(kept \cup {b})
    BY <1>0, <2>2, FS_Subset, FS_AddElement
  <2>4. d = [disk EXCEPT !.blocks = kept \cup {b}]
    BY <1>2 DEF SaveBlock
  <2> HIDE DEF b, kept
  <2>5. disk.blocks \in SUBSET BlockType
    BY <1>0 DEF DiskT
  <2>6. kept \cup {b} \in SUBSET BlockType
    BY <2>1, <2>2, <2>5
  <2>7. /\ d \in DiskT /\ d.blocks = kept \cup {b}
        /\ d.cycle = disk.cycle /\ d.st = disk.st /\ d.anchored = disk.anchored
    BY <1>0, <2>4, <2>6 DEF DiskT
  <2>8. /\ q \in SaverT /\ q.failed = p.failed /\ q.blocks = p.blocks
        /\ \/ q.at = "blocks" /\ p.next < Len(p.blocks) /\ q.next = p.next + 1
           \/ q.at = "done" /\ p.next >= Len(p.blocks)
    <3>1. CASE p.next < Len(p.blocks)
      BY <1>0, <1>2, <3>1, SMTT(30) DEF SaverT
    <3>2. CASE ~(p.next < Len(p.blocks))
      <4>1. q = Enter(p, "done") /\ p.next >= Len(p.blocks)
        BY <1>0, <1>2, <3>2, SMTT(30)
      <4> QED
        BY <1>0, <4>1, EnterFields
    <3> QED
      BY <3>1, <3>2
  <2> QED
    BY <2>1, <2>3, <2>7, <2>8 DEF b, kept
<1> QED
  BY <1>1, <1>2 DEF Moves

\* The call of persist after its transaction, which may have failed.
LEMMA PersistStep ==
    ASSUME StoreTypes, \A t \in Saver : InLoop(saver[t]), NEW s \in Saver, Write(s) \/ WriteFails(s)
    PROVE  \E q, d, r :
               /\ Moves(saver[s], q, d)
               /\ q \in SaverT /\ d \in DiskT /\ IsFiniteSet(d.blocks)
               /\ r \in SaverT /\ r.at = q.at /\ r.anchors = q.anchors /\ r.next = q.next
               /\ r.blocks = q.blocks
               /\ saver' = [saver EXCEPT ![s] = r]
               /\ \/ disk' = d /\ r.failed = saver[s].failed /\ UNCHANGED used
                  \/ UNCHANGED disk /\ r.failed /\ used' = [used EXCEPT !.fails = @ + 1]
               /\ UNCHANGED <<mem, snapshot, phase, stopping>>
<1>1. PICK q, d : /\ Moves(saver[s], q, d)
                  /\ \/ /\ disk' = d /\ saver' = [saver EXCEPT ![s] = q] /\ UNCHANGED used
                     \/ /\ UNCHANGED disk /\ used' = [used EXCEPT !.fails = @ + 1]
                        /\ saver' = [saver EXCEPT ![s] = [q EXCEPT !.failed = TRUE]]
                  /\ UNCHANGED <<mem, snapshot, phase, stopping>>
  BY WriteMoves
<1>2. saver[s] \in SaverT /\ IsFiniteSet(disk.blocks)
  BY DEF StoreTypes
<1>3. q \in SaverT /\ d \in DiskT /\ IsFiniteSet(d.blocks) /\ q.failed = saver[s].failed
  <2>1. CASE saver[s].at = "anchored"
    <3>1. q \in SaverT /\ d \in DiskT /\ d.blocks = disk.blocks /\ q.failed = saver[s].failed
      BY <1>1, <1>2, <2>1, AnchorMove, SMTT(30)
    <3> QED
      BY <1>2, <3>1
  <2>2. CASE saver[s].at = "blocks"
    BY <1>1, <1>2, <2>2, BlockMove, SMTT(30)
  <2>3. CASE saver[s].at \notin {"anchored", "blocks"}
    BY <1>1, <1>2, <2>3, EarlyMove
  <2> QED
    BY <2>1, <2>2, <2>3
<1>4. CASE disk' = d /\ saver' = [saver EXCEPT ![s] = q] /\ UNCHANGED used
  BY <1>1, <1>3, <1>4
<1>5. CASE /\ UNCHANGED disk /\ used' = [used EXCEPT !.fails = @ + 1]
           /\ saver' = [saver EXCEPT ![s] = [q EXCEPT !.failed = TRUE]]
  <2> DEFINE r == [q EXCEPT !.failed = TRUE]
  <2>1. /\ r \in SaverT /\ r.at = q.at /\ r.anchors = q.anchors /\ r.next = q.next
        /\ r.blocks = q.blocks /\ r.failed
    BY <1>3 DEF SaverT
  <2>2. saver' = [saver EXCEPT ![s] = r]
    BY <1>5
  <2> HIDE DEF r
  <2> QED
    BY <1>1, <1>3, <1>5, <2>1, <2>2
<1> QED
  BY <1>1, <1>4, <1>5

-----------------------------------------------------------------------------
Keys == {b.index : b \in disk.blocks}

Chain == {mem.blocks[i] : i \in DOMAIN mem.blocks}

\* What a loop over the blocks writes is the beginning of the chain.
Loop(p) ==
    /\ p.at \notin {"blocks", "done"} => p.next = 1
    /\ p.at = "blocks" =>
           /\ Len(p.blocks) <= Len(mem.blocks)
           /\ \A i \in 1..Len(p.blocks) : p.blocks[i] = mem.blocks[i]

\* A key has one block, and the database holds blocks of the chain only.
ShapeInv ==
    /\ phase # "persist" => saver["cycle"] = Off
    /\ used.stops = 0 => saver["stop"] = Off
    /\ \A a, b \in disk.blocks : a.index = b.index => a = b
    /\ disk.blocks \subseteq Chain
    /\ \A s \in Saver : InLoop(saver[s]) /\ Loop(saver[s])
    /\ saver["cycle"].at = "blocks" => saver["cycle"].blocks = mem.blocks

\* LoadBlocks finds every block of the database, once and in the order of the keys.
LEMMA LoadFacts ==
    ASSUME disk \in DiskT, IsFiniteSet(disk.blocks),
           \A a, b \in disk.blocks : a.index = b.index => a = b
    PROVE  /\ LoadBlocks \in Seq(BlockType)
           /\ {LoadBlocks[k] : k \in DOMAIN LoadBlocks} = disk.blocks
           /\ \A d \in Nat : Keys = 0..(d - 1) =>
                  /\ Len(LoadBlocks) = d
                  /\ \A k \in 1..d : LoadBlocks[k].index = k - 1
<1>1. disk.blocks \in SUBSET BlockType /\ \A b \in disk.blocks : b \in BlockType /\ b.index \in Nat
  BY DEF DiskT, BlockType
<1>2. Keys \subseteq Nat /\ IsFiniteSet(Keys)
  <2>1. Keys \subseteq Nat
    BY <1>1 DEF Keys
  <2>2. IsFiniteSet({b.index : b \in disk.blocks})
    <3> DEFINE f == [b \in disk.blocks |-> b.index]
    <3>1. f \in [disk.blocks -> Nat] /\ {b.index : b \in disk.blocks} = {f[b] : b \in disk.blocks}
      BY <1>1
    <3>2. f \in Surjection(disk.blocks, {b.index : b \in disk.blocks})
      BY DEF Surjection
    <3> QED
      BY <3>2, FS_Surjection
  <2> QED
    BY <2>1, <2>2 DEF Keys
<1>3. Cardinality(Keys) \in Nat
  BY <1>2, FS_CardinalityType
<1> DEFINE at(k) == CHOOSE b \in disk.blocks : countBitsBefore(Keys, b.index) = k - 1
           loaded == LoadBlocks
<1>4. loaded = [k \in 1..Cardinality(Keys) |-> at(k)]
  BY DEF LoadBlocks, Keys, countBitsBefore
<1>5. ASSUME NEW k \in 1..Cardinality(Keys)
      PROVE  at(k) \in disk.blocks /\ countBitsBefore(Keys, at(k).index) = k - 1
  <2>1. PICK i \in Keys : countBitsBefore(Keys, i) = k - 1
    BY <1>2, CountOnto
  <2>2. \E b \in disk.blocks : countBitsBefore(Keys, b.index) = k - 1
    BY <2>1 DEF Keys
  <2> QED
    BY <2>2
<1>6. ASSUME NEW b \in disk.blocks
      PROVE  \E k \in 1..Cardinality(Keys) : at(k) = b
  <2> DEFINE k == countBitsBefore(Keys, b.index) + 1
  <2>1. b.index \in Keys
    BY DEF Keys
  <2>2. k \in 1..Cardinality(Keys) /\ k - 1 = countBitsBefore(Keys, b.index)
    <3>1. countBitsBefore(Keys, b.index) \in 0..(Cardinality(Keys) - 1)
      BY <1>2, <2>1, CountBelow
    <3> QED
      BY <1>3, <3>1, SMTT(30)
  <2> HIDE DEF k
  <2>3. at(k) \in disk.blocks /\ countBitsBefore(Keys, at(k).index) = countBitsBefore(Keys, b.index)
    BY <1>5, <2>2
  <2>4. at(k).index \in Keys
    BY <2>3 DEF Keys
  <2>5. at(k).index = b.index
    BY <1>2, <2>1, <2>3, <2>4, CountInjective
  <2> QED
    BY <2>2, <2>3, <2>5
<1> HIDE DEF at, loaded
<1>7. loaded \in [1..Cardinality(Keys) -> BlockType]
  BY <1>1, <1>4, <1>5
<1>8. loaded \in Seq(BlockType) /\ Len(loaded) = Cardinality(Keys)
  BY <1>3, <1>7, FunctionIsSeq
<1>9. DOMAIN loaded = 1..Cardinality(Keys) /\ \A k \in DOMAIN loaded : loaded[k] = at(k)
  BY <1>4
<1>10. {loaded[k] : k \in DOMAIN loaded} = disk.blocks
  BY <1>5, <1>6, <1>9, SMTT(30)
<1>11. ASSUME NEW d \in Nat, Keys = 0..(d - 1)
       PROVE  Len(loaded) = d /\ \A k \in 1..d : loaded[k].index = k - 1
  <2>1. Cardinality(Keys) = d
    BY <1>11, FS_Interval, SMTT(30)
  <2>2. ASSUME NEW i \in 0..(d - 1)
        PROVE  countBitsBefore(Keys, i) = i
    <3>1. {j \in Keys : j < i} = 0..(i - 1)
      BY <1>11, SMTT(30)
    <3>2. Cardinality(0..(i - 1)) = i
      BY FS_Interval, SMTT(30)
    <3> QED
      BY <3>1, <3>2 DEF countBitsBefore
  <2>3. ASSUME NEW k \in 1..d
        PROVE  loaded[k].index = k - 1
    <3>1. loaded[k] \in disk.blocks /\ countBitsBefore(Keys, loaded[k].index) = k - 1
      BY <1>5, <1>9, <2>1, ZenonT(60)
    <3>2. loaded[k].index \in 0..(d - 1)
      BY <1>11, <3>1 DEF Keys
    <3> QED
      BY <2>2, <3>1, <3>2
  <2> QED
    BY <1>8, <2>1, <2>3
<1> QED
  BY <1>8, <1>10, <1>11 DEF loaded

-----------------------------------------------------------------------------
\* The steps of a cycle before its block: the chain and the database stay.
LEMMA EarlySteps ==
    ASSUME StoreTypes,
           \/ \E e \in Entry : Enqueue(e)
           \/ \E batch \in SUBSET Entry : Prepare(batch)
           \/ AbortCycle
           \/ UNCHANGED storageVars
    PROVE  /\ StoreTypes'
           /\ mem'.blocks = mem.blocks /\ mem'.anchored = mem.anchored
           /\ mem'.cycle >= mem.cycle
           /\ UNCHANGED <<disk, saver>>
           /\ used'.stops = used.stops /\ used'.fails = used.fails
           /\ phase' = phase \/ (phase # "persist" /\ phase' # "persist")
<1>1. CASE UNCHANGED storageVars
  BY <1>1, SMTT(30) DEF StoreTypes, MemT, storageVars
<1>2. CASE \E e \in Entry : Enqueue(e)
  <2>1. PICK e \in Entry : Enqueue(e)
    BY <1>2
  <2>2. /\ mem' \in MemT /\ mem'.blocks = mem.blocks /\ mem'.anchored = mem.anchored
        /\ mem'.cycle = mem.cycle /\ mem.cycle \in Nat
    BY <2>1, ZenonT(60) DEF Enqueue, StoreTypes, MemT
  <2>3. UNCHANGED <<snapshot, disk, phase, stopping, saver, used>>
    BY <2>1 DEF Enqueue
  <2> QED
    BY <2>2, <2>3, SMTT(30) DEF StoreTypes
<1>3. CASE \E batch \in SUBSET Entry : Prepare(batch)
  <2>1. PICK batch \in SUBSET Entry : Prepare(batch)
    BY <1>3
  <2>2. /\ mem' \in MemT /\ mem'.blocks = mem.blocks /\ mem'.anchored = mem.anchored
        /\ mem'.cycle = mem.cycle /\ mem.cycle \in Nat
    BY <2>1 DEF Prepare, StoreTypes, MemT
  <2>3. /\ snapshot' \in [st : SUBSET Entry, batch : SUBSET Entry]
        /\ phase = "idle" /\ phase' = "prepared" /\ UNCHANGED <<disk, stopping, saver, used>>
    BY <2>1 DEF Prepare, StoreTypes, MemT
  <2> QED
    BY <2>2, <2>3, SMTT(30) DEF StoreTypes
<1>4. CASE AbortCycle
  <2>1. /\ mem' \in MemT /\ mem'.blocks = mem.blocks /\ mem'.anchored = mem.anchored
        /\ mem'.cycle = mem.cycle + 1 /\ mem.cycle \in Nat
    <3>1. mem \in MemT /\ mem.cycle \in Nat /\ snapshot.st \in SUBSET Entry
      BY DEF StoreTypes, MemT
    <3>2. mem' = [mem EXCEPT !.st = snapshot.st, !.cycle = mem.cycle + 1]
      BY <1>4 DEF AbortCycle
    <3>3. mem' = [cycle |-> mem.cycle + 1, pending |-> mem.pending, st |-> snapshot.st,
                  anchored |-> mem.anchored, blocks |-> mem.blocks]
      BY <3>1, <3>2 DEF MemT
    <3> QED
      BY <3>1, <3>3, SMTT(30) DEF MemT
  <2>2. /\ phase = "prepared" /\ phase' = "idle" /\ UNCHANGED <<snapshot, disk, stopping, saver>>
        /\ used' \in [aborts : Nat, crashes : Nat, stops : Nat, fails : Nat]
        /\ used'.stops = used.stops /\ used'.fails = used.fails
    BY <1>4, SMTT(30) DEF AbortCycle, StoreTypes
  <2> QED
    BY <2>1, <2>2, SMTT(30) DEF StoreTypes
<1> QED
  BY <1>1, <1>2, <1>3, <1>4

\* A call of persist before it starts and at its first bucket.
LEMMA StartFields ==
    /\ Off \in SaverT /\ Off.at = "off" /\ Off.next = 1 /\ ~Off.failed
    /\ [Off EXCEPT !.at = "state"] \in SaverT
    /\ [Off EXCEPT !.at = "state"].at = "state" /\ [Off EXCEPT !.at = "state"].next = 1
<1>1. <<>> \in Seq(BlockType) /\ {} \in SUBSET AnchorT /\ "off" \in Buckets /\ "state" \in Buckets
  BY SMTT(30) DEF Buckets
<1>2. Off \in SaverT /\ Off.at = "off" /\ Off.next = 1 /\ ~Off.failed
  BY <1>1 DEF Off, SaverT
<1> QED
  BY <1>1, <1>2 DEF SaverT

\* What a committed cycle adds to the engine's memory.
LEMMA CommitFields ==
    ASSUME StoreTypes, CommitCycle
    PROVE  /\ StoreTypes'
           /\ phase = "prepared" /\ phase' = "persist"
           /\ UNCHANGED <<snapshot, disk, used>>
           /\ saver'["cycle"].at = "state" /\ saver'["cycle"].next = 1
           /\ saver'["stop"] = saver["stop"]
           /\ mem'.cycle = mem.cycle + 1 /\ mem'.st = mem.st
           /\ mem'.anchored = {a \in mem.anchored : a.entry \notin snapshot.batch}
                  \cup {[entry |-> e, index |-> Len(mem.blocks)] : e \in snapshot.batch}
           /\ Len(mem'.blocks) = Len(mem.blocks) + 1
           /\ \A i \in 1..Len(mem.blocks) : mem'.blocks[i] = mem.blocks[i]
           /\ mem'.blocks[Len(mem.blocks) + 1].index = Len(mem.blocks)
           /\ mem'.blocks[Len(mem.blocks) + 1].batch = snapshot.batch
<1> DEFINE b == [index |-> Len(mem.blocks), batch |-> snapshot.batch]
           kept == {a \in mem.anchored : a.entry \notin snapshot.batch}
                       \cup {[entry |-> e, index |-> Len(mem.blocks)] : e \in snapshot.batch}
<1>1. /\ mem \in MemT /\ mem.blocks \in Seq(BlockType) /\ Len(mem.blocks) \in Nat
      /\ mem.anchored \in SUBSET AnchorT /\ mem.cycle \in Nat /\ snapshot.batch \in SUBSET Entry
  BY SMTT(30) DEF StoreTypes, MemT
<1>2. b \in BlockType /\ b.index = Len(mem.blocks) /\ b.batch = snapshot.batch
  BY <1>1 DEF BlockType
<1>3. kept \in SUBSET AnchorT
  BY <1>1, SMTT(30) DEF AnchorT
<1> HIDE DEF b, kept
<1>4. mem' = [mem EXCEPT !.cycle = mem.cycle + 1, !.pending = {}, !.blocks = Append(mem.blocks, b),
                         !.anchored = kept]
  BY DEF CommitCycle, b, kept
<1>5. /\ Append(mem.blocks, b) \in Seq(BlockType)
      /\ Len(Append(mem.blocks, b)) = Len(mem.blocks) + 1
      /\ \A i \in 1..Len(mem.blocks) : Append(mem.blocks, b)[i] = mem.blocks[i]
      /\ Append(mem.blocks, b)[Len(mem.blocks) + 1] = b
  BY <1>1, <1>2, SMTT(30)
<1>6. /\ mem' \in MemT /\ mem'.cycle = mem.cycle + 1 /\ mem'.st = mem.st
      /\ mem'.anchored = kept /\ mem'.blocks = Append(mem.blocks, b)
  <2>1. mem' = [cycle |-> mem.cycle + 1, pending |-> {}, st |-> mem.st, anchored |-> kept,
                blocks |-> Append(mem.blocks, b)]
    BY <1>1, <1>4 DEF MemT
  <2> QED
    BY <1>1, <1>3, <1>5, <2>1, SMTT(30) DEF MemT
<1>7. /\ saver' \in [Saver -> SaverT]
      /\ saver'["cycle"].at = "state" /\ saver'["cycle"].next = 1
      /\ saver'["stop"] = saver["stop"]
  <2>1. saver' = [saver EXCEPT !["cycle"] = [Off EXCEPT !.at = "state"]] /\ saver \in [Saver -> SaverT]
    BY DEF CommitCycle, StartPersist, StoreTypes
  <2>2. /\ [Off EXCEPT !.at = "state"] \in SaverT
        /\ [Off EXCEPT !.at = "state"].at = "state" /\ [Off EXCEPT !.at = "state"].next = 1
    BY StartFields
  <2> QED
    BY <2>1, <2>2 DEF Saver
<1>8. phase = "prepared" /\ phase' = "persist" /\ UNCHANGED <<snapshot, disk, stopping, used>>
  BY DEF CommitCycle
<1>9. StoreTypes'
  BY <1>6, <1>7, <1>8 DEF StoreTypes
<1> QED
  BY <1>2, <1>5, <1>6, <1>7, <1>8, <1>9 DEF kept

\* Stop starts a persist of its own, and RunCycle ends after its own.
LEMMA OtherPersists ==
    ASSUME StoreTypes
    PROVE  /\ Stop => /\ StoreTypes'
                      /\ UNCHANGED <<mem, snapshot, disk, phase>>
                      /\ used'.stops > 0 /\ used'.fails = used.fails
                      /\ saver'["cycle"] = saver["cycle"]
                      /\ saver'["stop"].at = "state" /\ saver'["stop"].next = 1
           /\ EndCycle => /\ StoreTypes'
                          /\ UNCHANGED <<mem, snapshot, disk, used>>
                          /\ phase = "persist" /\ phase' = "idle"
                          /\ saver["cycle"].at = "done"
                          /\ saver'["cycle"] = Off /\ saver'["stop"] = saver["stop"]
<1>1. saver \in [Saver -> SaverT]
  BY DEF StoreTypes
<1>2. /\ [Off EXCEPT !.at = "state"] \in SaverT /\ Off \in SaverT
      /\ [Off EXCEPT !.at = "state"].at = "state" /\ [Off EXCEPT !.at = "state"].next = 1
  BY StartFields
<1>3. ASSUME Stop
      PROVE  /\ StoreTypes'
             /\ UNCHANGED <<mem, snapshot, disk, phase>>
             /\ used'.stops > 0 /\ used'.fails = used.fails
             /\ saver'["cycle"] = saver["cycle"]
             /\ saver'["stop"].at = "state" /\ saver'["stop"].next = 1
  <2>1. saver' = [saver EXCEPT !["stop"] = [Off EXCEPT !.at = "state"]]
    BY <1>3 DEF Stop, StartPersist
  <2>2. /\ saver' \in [Saver -> SaverT] /\ saver'["cycle"] = saver["cycle"]
        /\ saver'["stop"].at = "state" /\ saver'["stop"].next = 1
    BY <1>1, <1>2, <2>1 DEF Saver
  <2>3. /\ used' \in [aborts : Nat, crashes : Nat, stops : Nat, fails : Nat]
        /\ used'.stops > 0 /\ used'.fails = used.fails
    BY <1>3, SMTT(30) DEF Stop, StoreTypes
  <2>4. UNCHANGED <<mem, snapshot, disk, phase>> /\ stopping' \in BOOLEAN
    BY <1>3 DEF Stop
  <2> QED
    BY <2>2, <2>3, <2>4 DEF StoreTypes
<1>4. ASSUME EndCycle
      PROVE  /\ StoreTypes'
             /\ UNCHANGED <<mem, snapshot, disk, used>>
             /\ phase = "persist" /\ phase' = "idle"
             /\ saver["cycle"].at = "done"
             /\ saver'["cycle"] = Off /\ saver'["stop"] = saver["stop"]
  <2>1. saver' = [saver EXCEPT !["cycle"] = Off]
    BY <1>4 DEF EndCycle
  <2>2. saver' \in [Saver -> SaverT] /\ saver'["cycle"] = Off /\ saver'["stop"] = saver["stop"]
    BY <1>1, <1>2, <2>1 DEF Saver
  <2>3. /\ UNCHANGED <<mem, snapshot, disk, stopping, used>> /\ saver["cycle"].at = "done"
        /\ phase = "persist" /\ phase' = "idle"
    BY <1>4 DEF EndCycle
  <2> QED
    BY <2>2, <2>3 DEF StoreTypes
<1> QED
  BY <1>3, <1>4

\* The engine that a new process puts together from the database.
LEMMA LoadStep ==
    ASSUME StoreTypes, \A a, b \in disk.blocks : a.index = b.index => a = b, Exit \/ Crash
    PROVE  /\ StoreTypes'
           /\ mem'.st = disk.st /\ mem'.anchored = disk.anchored /\ mem'.cycle = disk.cycle
           /\ mem'.blocks = LoadBlocks
           /\ UNCHANGED disk
           /\ phase' = "idle" /\ saver' = [s \in Saver |-> Off]
           /\ used'.stops = used.stops /\ used'.fails = used.fails
<1>1. /\ loadPersisted /\ used' \in [aborts : Nat, crashes : Nat, stops : Nat, fails : Nat]
      /\ used'.stops = used.stops /\ used'.fails = used.fails
  BY SMTT(30) DEF Exit, Crash, StoreTypes
<1>2. LoadBlocks \in Seq(BlockType)
  BY LoadFacts DEF StoreTypes
<1>3. /\ mem' \in MemT /\ mem'.st = disk.st /\ mem'.anchored = disk.anchored
      /\ mem'.cycle = disk.cycle /\ mem'.blocks = LoadBlocks
  BY <1>1, <1>2
     DEF loadPersisted, LoadState, LoadPending, LoadSMT, LoadAnchored, StoreTypes, MemT, DiskT
<1>4. /\ snapshot' \in [st : SUBSET Entry, batch : SUBSET Entry] /\ phase' = "idle"
      /\ stopping' \in BOOLEAN /\ UNCHANGED disk /\ saver' = [s \in Saver |-> Off]
  BY <1>1 DEF loadPersisted
<1>5. saver' \in [Saver -> SaverT]
  BY <1>4, StartFields
<1> QED
  BY <1>1, <1>3, <1>4, <1>5 DEF StoreTypes

\* Where a transaction leaves the call of persist that made it, and the blocks on disk.
LEMMA LoopStep ==
    ASSUME StoreTypes, ShapeInv, NEW s \in Saver, NEW q, NEW d, NEW r,
           Moves(saver[s], q, d), r.at = q.at, r.next = q.next, r.blocks = q.blocks
    PROVE  /\ InLoop(r) /\ Loop(r)
           /\ saver[s].at \notin {"off", "done"} /\ r.at \notin {"off", "state"}
           /\ saver[s].at = "blocks" =>
                  /\ \/ r.at = "blocks" /\ r.next = saver[s].next + 1
                     \/ r.at = "done" /\ saver[s].next >= Len(saver[s].blocks)
                  /\ r.blocks = saver[s].blocks
           /\ saver[s].at # "blocks" /\ r.at = "blocks" => r.next = 1 /\ r.blocks = mem.blocks
           /\ saver[s].at # "blocks" => r.at # "done"
           /\ \/ d.blocks = disk.blocks /\ (saver[s].at = "blocks" => saver[s].blocks = <<>>)
              \/ /\ saver[s].at = "blocks"
                 /\ saver[s].next \in 1..Len(saver[s].blocks)
                 /\ saver[s].next \in 1..Len(mem.blocks)
                 /\ d.blocks = {x \in disk.blocks : x.index # mem.blocks[saver[s].next].index}
                                   \cup {mem.blocks[saver[s].next]}
<1> DEFINE p == saver[s]
<1>1. p \in SaverT /\ p.next \in Nat /\ p.blocks \in Seq(BlockType) /\ mem.blocks \in Seq(BlockType)
  BY DEF StoreTypes, SaverT, MemT
<1>2. InLoop(p) /\ Loop(p)
  BY DEF ShapeInv
<1> HIDE DEF p
<1>3. Moves(p, q, d)
  BY DEF p
<1>4. CASE p.at = "anchored"
  <2>1. /\ q \in SaverT /\ q.next = p.next /\ d.blocks = disk.blocks
        /\ q.at = "anchored" \/ (q.at = "blocks" /\ q.blocks = mem.blocks)
    BY <1>1, <1>3, <1>4, AnchorMove, SMTT(30)
  <2>2. p.next = 1
    BY <1>2, <1>4 DEF Loop
  <2>3. InLoop(r) /\ Loop(r)
    BY <1>1, <2>1, <2>2, SMTT(30) DEF InLoop, Loop
  <2> QED
    BY <1>4, <2>1, <2>2, <2>3 DEF p
<1>5. CASE p.at = "blocks"
  <2>1. /\ q \in SaverT /\ q.blocks = p.blocks
        /\ \/ q.at = "blocks" /\ p.next < Len(p.blocks) /\ q.next = p.next + 1
           \/ q.at = "done" /\ p.next >= Len(p.blocks)
        /\ \/ p.blocks = <<>> /\ d.blocks = disk.blocks
           \/ /\ p.next \in 1..Len(p.blocks)
              /\ d.blocks = {x \in disk.blocks : x.index # p.blocks[p.next].index}
                                \cup {p.blocks[p.next]}
    BY <1>1, <1>2, <1>3, <1>5, BlockMove, SMTT(30)
  <2>2. /\ Len(p.blocks) <= Len(mem.blocks) /\ p.next >= 1
        /\ \A i \in 1..Len(p.blocks) : p.blocks[i] = mem.blocks[i]
    BY <1>2, <1>5 DEF InLoop, Loop
  <2>3. InLoop(r) /\ Loop(r)
    BY <1>1, <2>1, <2>2, SMTT(30) DEF InLoop, Loop
  <2>4. ASSUME p.next \in 1..Len(p.blocks)
        PROVE  p.next \in 1..Len(mem.blocks) /\ p.blocks[p.next] = mem.blocks[p.next]
    BY <1>1, <2>2, <2>4, SMTT(30)
  <2>5. \/ q.at = "blocks" /\ p.next < Len(p.blocks) /\ q.next = p.next + 1
        \/ q.at = "done" /\ p.next >= Len(p.blocks)
    BY <2>1
  <2>6. \/ d.blocks = disk.blocks /\ p.blocks = <<>>
        \/ /\ p.next \in 1..Len(p.blocks) /\ p.next \in 1..Len(mem.blocks)
           /\ d.blocks = {x \in disk.blocks : x.index # mem.blocks[p.next].index}
                             \cup {mem.blocks[p.next]}
    BY <2>1, <2>4
  <2> QED
    BY <1>5, <2>1, <2>3, <2>5, <2>6 DEF p
<1>6. CASE p.at \notin {"anchored", "blocks"}
  <2>1. /\ q.next = p.next /\ d.blocks = disk.blocks
        /\ p.at \in {"state", "pending", "smt"} /\ q.at \in {"pending", "smt", "anchored"}
    BY <1>1, <1>3, <1>6, EarlyMove, SMTT(30)
  <2>2. p.next = 1
    BY <1>2, <2>1 DEF Loop
  <2>3. InLoop(r) /\ Loop(r)
    BY <2>1, <2>2 DEF InLoop, Loop
  <2> QED
    BY <1>6, <2>1, <2>3 DEF p
<1> QED
  BY <1>4, <1>5, <1>6

\* A fresh node has an empty chain and an empty database.
LEMMA ShapeInit ==
    StorageInit => StoreTypes /\ ShapeInv
<1> SUFFICES ASSUME StorageInit PROVE StoreTypes /\ ShapeInv
  OBVIOUS
<1>1. /\ mem = Empty /\ snapshot = [st |-> {}, batch |-> {}] /\ phase = "idle"
      /\ disk = [Empty EXCEPT !.blocks = {}] /\ stopping = FALSE
      /\ saver = [s \in Saver |-> Off]
      /\ used = [aborts |-> 0, crashes |-> 0, stops |-> 0, fails |-> 0]
  BY DEF StorageInit
<1>2. <<>> \in Seq(BlockType) /\ {} \in SUBSET AnchorT /\ {} \in SUBSET Entry
  BY SMTT(30)
<1>3. mem \in MemT /\ mem.blocks = <<>>
  BY <1>1, <1>2 DEF Empty, MemT
<1>4. disk \in DiskT /\ disk.blocks = {}
  BY <1>1, <1>2 DEF Empty, DiskT
<1>5. IsFiniteSet(disk.blocks)
  BY <1>4, FS_EmptySet
<1>6. saver \in [Saver -> SaverT] /\ \A s \in Saver : saver[s] = Off
  BY <1>1, StartFields
<1>7. StoreTypes
  BY <1>1, <1>3, <1>4, <1>5, <1>6 DEF StoreTypes
<1>8. InLoop(Off) /\ Loop(Off)
  BY StartFields DEF InLoop, Loop
<1>9. "cycle" \in Saver /\ "stop" \in Saver
  BY DEF Saver
<1> QED
  BY <1>4, <1>6, <1>7, <1>8, <1>9, StartFields DEF ShapeInv

\* A transaction of persist keeps the shape.
LEMMA ShapeWrite ==
    ASSUME StoreTypes, ShapeInv, NEW s \in Saver, Write(s) \/ WriteFails(s)
    PROVE  StoreTypes' /\ ShapeInv'
<1>0. \A t \in Saver : InLoop(saver[t]) /\ Loop(saver[t])
  BY DEF ShapeInv
<1>1. PICK q, d, r :
               /\ Moves(saver[s], q, d)
               /\ q \in SaverT /\ d \in DiskT /\ IsFiniteSet(d.blocks)
               /\ r \in SaverT /\ r.at = q.at /\ r.anchors = q.anchors /\ r.next = q.next
               /\ r.blocks = q.blocks
               /\ saver' = [saver EXCEPT ![s] = r]
               /\ \/ disk' = d /\ r.failed = saver[s].failed /\ UNCHANGED used
                  \/ UNCHANGED disk /\ r.failed /\ used' = [used EXCEPT !.fails = @ + 1]
               /\ UNCHANGED <<mem, snapshot, phase, stopping>>
  BY <1>0, PersistStep
<1>2. saver \in [Saver -> SaverT] /\ disk \in DiskT /\ IsFiniteSet(disk.blocks)
  BY DEF StoreTypes
<1>3. /\ saver' \in [Saver -> SaverT] /\ saver'[s] = r
      /\ \A t \in Saver \ {s} : saver'[t] = saver[t]
  BY <1>1, <1>2
<1>4. used' \in [aborts : Nat, crashes : Nat, stops : Nat, fails : Nat] /\ used'.stops = used.stops
  BY <1>1, SMTT(30) DEF StoreTypes
<1>5. disk' \in DiskT /\ IsFiniteSet(disk'.blocks) /\ (disk' = d \/ disk' = disk)
  BY <1>1, <1>2
<1>6. StoreTypes'
  BY <1>1, <1>3, <1>4, <1>5 DEF StoreTypes
<1>7. /\ InLoop(r) /\ Loop(r)
      /\ saver[s].at \notin {"off", "done"}
      /\ saver[s].at = "blocks" => r.blocks = saver[s].blocks
      /\ saver[s].at # "blocks" /\ r.at = "blocks" => r.blocks = mem.blocks
      /\ \/ d.blocks = disk.blocks
         \/ /\ saver[s].next \in 1..Len(mem.blocks)
            /\ d.blocks = {x \in disk.blocks : x.index # mem.blocks[saver[s].next].index}
                              \cup {mem.blocks[saver[s].next]}
  BY <1>1, LoopStep, SMTT(30)
<1>8. saver[s] # Off
  BY <1>7, StartFields
<1>9. phase' # "persist" => saver'["cycle"] = Off
  BY <1>1, <1>3, <1>8 DEF ShapeInv, Saver
<1>10. used'.stops = 0 => saver'["stop"] = Off
  BY <1>3, <1>4, <1>8 DEF ShapeInv, Saver
<1>11. /\ \A a, b \in disk'.blocks : a.index = b.index => a = b
       /\ disk'.blocks \subseteq Chain
  <2>1. /\ \A a, b \in disk.blocks : a.index = b.index => a = b
        /\ disk.blocks \subseteq Chain
    BY DEF ShapeInv
  <2>2. CASE disk'.blocks = disk.blocks
    BY <2>1, <2>2
  <2>3. CASE /\ saver[s].next \in 1..Len(mem.blocks)
             /\ disk'.blocks = {x \in disk.blocks : x.index # mem.blocks[saver[s].next].index}
                                   \cup {mem.blocks[saver[s].next]}
    <3> DEFINE b == mem.blocks[saver[s].next]
    <3>1. b \in Chain
      BY <2>3, SMTT(30) DEF Chain, StoreTypes, MemT
    <3> HIDE DEF b
    <3>2. disk'.blocks = {x \in disk.blocks : x.index # b.index} \cup {b}
      BY <2>3 DEF b
    <3> QED
      BY <2>1, <3>1, <3>2
  <2> QED
    BY <1>5, <1>7, <2>2, <2>3
<1>12. Chain' = Chain /\ mem' = mem
  BY <1>1, SMTT(30) DEF Chain
<1>13. \A t \in Saver : InLoop(saver[t])' /\ Loop(saver[t])'
  BY <1>0, <1>3, <1>7, <1>12, SMTT(30) DEF InLoop, Loop
<1>14. saver'["cycle"].at = "blocks" => saver'["cycle"].blocks = mem.blocks
  BY <1>3, <1>7 DEF ShapeInv, Saver
<1> QED
  BY <1>6, <1>9, <1>10, <1>11, <1>12, <1>13, <1>14 DEF ShapeInv

\* Every step keeps it.
LEMMA ShapeNext ==
    ASSUME StoreTypes, ShapeInv, [StorageNext]_storageVars
    PROVE  StoreTypes' /\ ShapeInv'
<1>0. "cycle" \in Saver /\ "stop" \in Saver /\ \A s \in Saver : s = "cycle" \/ s = "stop"
  BY DEF Saver
<1>1. /\ \A s \in Saver : InLoop(saver[s]) /\ Loop(saver[s])
      /\ \A a, b \in disk.blocks : a.index = b.index => a = b
      /\ disk.blocks \subseteq Chain
      /\ phase # "persist" => saver["cycle"] = Off
      /\ used.stops = 0 => saver["stop"] = Off
      /\ saver["cycle"].at = "blocks" => saver["cycle"].blocks = mem.blocks
  BY DEF ShapeInv
<1>2. CASE \/ \E e \in Entry : Enqueue(e)
           \/ \E batch \in SUBSET Entry : Prepare(batch)
           \/ AbortCycle
           \/ UNCHANGED storageVars
  <2>1. /\ StoreTypes' /\ mem'.blocks = mem.blocks /\ UNCHANGED <<disk, saver>>
        /\ used'.stops = used.stops
        /\ phase' = phase \/ (phase # "persist" /\ phase' # "persist")
    BY <1>2, EarlySteps
  <2>2. Chain' = Chain /\ \A s \in Saver : Loop(saver[s])'
    BY <1>1, <2>1, SMTT(30) DEF Chain, Loop
  <2> QED
    BY <1>1, <2>1, <2>2 DEF ShapeInv
<1>3. CASE CommitCycle
  <2>1. /\ StoreTypes' /\ phase = "prepared" /\ phase' = "persist" /\ UNCHANGED <<disk, used>>
        /\ saver'["cycle"].at = "state" /\ saver'["cycle"].next = 1
        /\ saver'["stop"] = saver["stop"]
        /\ Len(mem'.blocks) = Len(mem.blocks) + 1
        /\ \A i \in 1..Len(mem.blocks) : mem'.blocks[i] = mem.blocks[i]
    BY <1>3, CommitFields
  <2>2. mem.blocks \in Seq(BlockType) /\ mem'.blocks \in Seq(BlockType)
    BY <2>1 DEF StoreTypes, MemT
  <2>3. Chain \subseteq Chain'
    BY <2>1, <2>2, SMTT(30) DEF Chain
  <2>4. InLoop(saver["cycle"])' /\ Loop(saver["cycle"])'
    BY <2>1 DEF InLoop, Loop
  <2>5. Loop(saver["stop"])'
    <3>1. Loop(saver["stop"]) /\ saver["stop"] \in SaverT
      BY <1>0, <1>1 DEF StoreTypes
    <3>2. saver["stop"].blocks \in Seq(BlockType)
      BY <3>1 DEF SaverT
    <3>3. Len(saver["stop"].blocks) \in Nat /\ Len(mem.blocks) \in Nat
      BY <2>2, <3>2, SMTT(30)
    <3>4. Len(saver["stop"].blocks) <= Len(mem.blocks) =>
            /\ Len(saver["stop"].blocks) <= Len(mem'.blocks)
            /\ \A i \in 1..Len(saver["stop"].blocks) : i \in 1..Len(mem.blocks)
      BY <2>1, <3>3, SMTT(30)
    <3> QED
      BY <2>1, <3>1, <3>4 DEF Loop
  <2>6. \A s \in Saver : InLoop(saver[s])' /\ Loop(saver[s])'
    BY <1>0, <1>1, <2>1, <2>4, <2>5
  <2> QED
    BY <1>1, <2>1, <2>3, <2>6 DEF ShapeInv
<1>4. CASE \E s \in Saver : Write(s) \/ WriteFails(s)
  BY <1>4, ShapeWrite
<1>5. CASE Stop
  <2>1. /\ StoreTypes' /\ UNCHANGED <<mem, disk, phase>> /\ used'.stops > 0
        /\ saver'["cycle"] = saver["cycle"]
        /\ saver'["stop"].at = "state" /\ saver'["stop"].next = 1
    BY <1>5, OtherPersists
  <2>2. Chain' = Chain /\ \A p : Loop(p) => Loop(p)'
    BY <2>1 DEF Chain, Loop
  <2>3. InLoop(saver["stop"])' /\ Loop(saver["stop"])'
    BY <2>1 DEF InLoop, Loop
  <2>4. InLoop(saver["cycle"])' /\ Loop(saver["cycle"])'
    BY <1>0, <1>1, <2>1 DEF InLoop, Loop
  <2>5. \A s \in Saver : InLoop(saver[s])' /\ Loop(saver[s])'
    BY <1>0, <2>3, <2>4
  <2> QED
    BY <1>1, <2>1, <2>2, <2>5, SMTT(30) DEF ShapeInv
<1>6. CASE EndCycle
  <2>1. /\ StoreTypes' /\ UNCHANGED <<mem, disk, used>>
        /\ saver'["cycle"] = Off /\ saver'["stop"] = saver["stop"]
    BY <1>6, OtherPersists
  <2>2. Chain' = Chain
    BY <2>1 DEF Chain
  <2>3. InLoop(saver["cycle"])' /\ Loop(saver["cycle"])'
    BY <2>1, StartFields DEF InLoop, Loop
  <2>4. InLoop(saver["stop"])' /\ Loop(saver["stop"])'
    BY <1>0, <1>1, <2>1, SMTT(30) DEF InLoop, Loop
  <2>5. \A s \in Saver : InLoop(saver[s])' /\ Loop(saver[s])'
    BY <1>0, <2>3, <2>4
  <2> QED
    BY <1>1, <2>1, <2>2, <2>5, StartFields DEF ShapeInv
<1>7. CASE Exit \/ Crash
  <2>1. /\ StoreTypes' /\ mem'.blocks = LoadBlocks /\ UNCHANGED disk
        /\ saver' = [s \in Saver |-> Off]
    BY <1>1, <1>7, LoadStep
  <2>2. {LoadBlocks[k] : k \in DOMAIN LoadBlocks} = disk.blocks
    BY <1>1, LoadFacts DEF StoreTypes
  <2>3. Chain' = disk.blocks
    BY <2>1, <2>2 DEF Chain
  <2>4. \A s \in Saver : saver'[s] = Off
    BY <2>1
  <2>5. \A s \in Saver : InLoop(saver[s])' /\ Loop(saver[s])'
    BY <2>4, StartFields, ZenonT(60) DEF InLoop, Loop
  <2> QED
    BY <1>0, <1>1, <2>1, <2>3, <2>4, <2>5, StartFields DEF ShapeInv
<1> QED
  BY <1>2, <1>3, <1>4, <1>5, <1>6, <1>7 DEF StorageNext

-----------------------------------------------------------------------------
\* The first d blocks of the chain are on disk and no other, and no loop over the blocks
\* is past the one that is missing.  Unless a write failed that is at most the last one,
\* and none between two calls of persist.
Stored(d) ==
    /\ Keys = 0..(d - 1)
    /\ \A s \in Saver : saver[s].at = "blocks" => saver[s].next <= d + 1
    /\ used.fails = 0 => /\ d + 1 >= Len(mem.blocks)
                         /\ (phase # "persist" \/ saver["cycle"].at = "done") => d = Len(mem.blocks)

OrderInv == used.fails <= 1 => InOrder /\ \E d \in 0..Len(mem.blocks) : Stored(d)

\* A transaction of persist keeps the order.
LEMMA OrderWrite ==
    ASSUME StoreTypes, ShapeInv, OrderInv, NEW s \in Saver, Write(s) \/ WriteFails(s)
    PROVE  OrderInv'
<1> SUFFICES ASSUME used'.fails <= 1
             PROVE  InOrder' /\ \E d \in 0..Len(mem'.blocks) : Stored(d)'
  BY DEF OrderInv
<1>0. \A t \in Saver : InLoop(saver[t])
  BY DEF ShapeInv
<1>1. PICK q, d, r :
               /\ Moves(saver[s], q, d)
               /\ q \in SaverT /\ d \in DiskT /\ IsFiniteSet(d.blocks)
               /\ r \in SaverT /\ r.at = q.at /\ r.anchors = q.anchors /\ r.next = q.next
               /\ r.blocks = q.blocks
               /\ saver' = [saver EXCEPT ![s] = r]
               /\ \/ disk' = d /\ r.failed = saver[s].failed /\ UNCHANGED used
                  \/ UNCHANGED disk /\ r.failed /\ used' = [used EXCEPT !.fails = @ + 1]
               /\ UNCHANGED <<mem, snapshot, phase, stopping>>
  BY <1>0, PersistStep
<1>2. /\ saver \in [Saver -> SaverT] /\ saver[s].next \in Nat /\ r.next \in Nat
      /\ mem.blocks \in Seq(BlockType) /\ Len(mem.blocks) \in Nat /\ used.fails \in Nat
      /\ DOMAIN mem.blocks = 1..Len(mem.blocks)
  BY <1>1, SMTT(30) DEF StoreTypes, SaverT, MemT
<1>3. saver'[s] = r /\ \A t \in Saver \ {s} : saver'[t] = saver[t]
  BY <1>1, <1>2
<1>4. \/ disk' = d /\ used'.fails = used.fails
      \/ UNCHANGED disk /\ used'.fails = used.fails + 1
  BY <1>1 DEF StoreTypes
<1>5. used.fails <= 1 /\ (used'.fails = 0 => used.fails = 0)
  BY <1>2, <1>4, SMTT(30)
<1>6. InOrder /\ \E n \in 0..Len(mem.blocks) : Stored(n)
  BY <1>5 DEF OrderInv
<1>7. PICK n \in 0..Len(mem.blocks) : Stored(n)
  BY <1>6
<1>8. /\ Keys = 0..(n - 1)
      /\ \A t \in Saver : saver[t].at = "blocks" => saver[t].next <= n + 1
      /\ used.fails = 0 => n + 1 >= Len(mem.blocks)
      /\ used.fails = 0 /\ (phase # "persist" \/ saver["cycle"].at = "done") => n = Len(mem.blocks)
  BY <1>7 DEF Stored
<1>9. mem' = mem /\ phase' = phase /\ InOrder' /\ \A i \in 1..Len(mem.blocks) : mem.blocks[i].index = i - 1
  BY <1>1, <1>2, <1>6 DEF InOrder
<1>10. /\ saver[s].at \notin {"off", "done"}
       /\ saver[s].at = "blocks" =>
              /\ \/ r.at = "blocks" /\ r.next = saver[s].next + 1
                 \/ r.at = "done" /\ saver[s].next >= Len(saver[s].blocks)
              /\ r.blocks = saver[s].blocks
       /\ saver[s].at # "blocks" /\ r.at = "blocks" => r.next = 1
       /\ saver[s].at # "blocks" => r.at # "done"
       /\ \/ d.blocks = disk.blocks /\ (saver[s].at = "blocks" => saver[s].blocks = <<>>)
          \/ /\ saver[s].at = "blocks"
             /\ saver[s].next \in 1..Len(saver[s].blocks)
             /\ saver[s].next \in 1..Len(mem.blocks)
             /\ d.blocks = {x \in disk.blocks : x.index # mem.blocks[saver[s].next].index}
                               \cup {mem.blocks[saver[s].next]}
  BY <1>1, LoopStep, SMTT(30)
<1>11. InLoop(r) /\ Loop(r)
  BY <1>1, LoopStep
<1>12. saver["cycle"].at = "blocks" => saver["cycle"].blocks = mem.blocks
  BY DEF ShapeInv
\* The cycle's own persist is not idle, so RunCycle stands at it.
<1>13. s = "cycle" => phase = "persist"
  BY <1>10, StartFields DEF ShapeInv
<1>14. CASE disk'.blocks = disk.blocks /\ used'.fails = used.fails
            /\ (saver[s].at = "blocks" => saver[s].blocks = <<>>)
  <2>1. Keys' = 0..(n - 1)
    BY <1>8, <1>14 DEF Keys
  <2>2. \A t \in Saver : saver'[t].at = "blocks" => saver'[t].next <= n + 1
    <3>1. ASSUME r.at = "blocks" PROVE r.next <= n + 1
      <4>1. CASE saver[s].at # "blocks"
        BY <1>7, <1>10, <3>1, <4>1, SMTT(30)
      <4>2. CASE saver[s].at = "blocks"
        <5>1. saver[s].next < Len(saver[s].blocks)
          BY <1>0, <1>1, <1>2, <3>1, <4>2, BlockMove
        <5>2. saver[s].blocks = <<>>
          BY <1>14, <4>2
        <5> QED
          BY <1>2, <5>1, <5>2, SMTT(30)
      <4> QED
        BY <4>1, <4>2
    <3> QED
      BY <1>3, <1>8, <3>1
  <2>3. used'.fails = 0 => /\ n + 1 >= Len(mem'.blocks)
                           /\ (phase' # "persist" \/ saver'["cycle"].at = "done") => n = Len(mem'.blocks)
    <3>1. CASE s = "cycle"
      <4>1. r.at = "done" => saver[s].at = "blocks" /\ mem.blocks = <<>>
        BY <1>10, <1>12, <1>14, <3>1
      <4> QED
        BY <1>3, <1>5, <1>7, <1>8, <1>9, <1>13, <3>1, <4>1, SMTT(30)
    <3>2. CASE s # "cycle"
      BY <1>3, <1>5, <1>8, <1>9, <3>2 DEF Saver
    <3> QED
      BY <3>1, <3>2
  <2> QED
    BY <1>7, <1>9, <2>1, <2>2, <2>3 DEF Stored
<1>15. CASE /\ disk'.blocks = d.blocks /\ used'.fails = used.fails
            /\ saver[s].at = "blocks"
            /\ saver[s].next \in 1..Len(saver[s].blocks)
            /\ saver[s].next \in 1..Len(mem.blocks)
            /\ d.blocks = {x \in disk.blocks : x.index # mem.blocks[saver[s].next].index}
                              \cup {mem.blocks[saver[s].next]}
  <2> DEFINE k == saver[s].next
  <2>1. PICK b : b = mem.blocks[k]
    OBVIOUS
  <2>2. b.index = k - 1 /\ k <= n + 1 /\ k \in 1..Len(mem.blocks) /\ k \in Nat
    BY <1>2, <1>8, <1>9, <1>15, <2>1, ZenonT(60)
  <2>3. disk'.blocks = {x \in disk.blocks : x.index # b.index} \cup {b}
    BY <1>15, <2>1
  <2>4. Keys' = Keys \cup {k - 1}
    <3>1. Keys' = Keys \cup {b.index}
      <4>1. Keys' = {x.index : x \in {y \in disk.blocks : y.index # b.index} \cup {b}}
        BY <2>3 DEF Keys
      <4> QED
        BY <4>1 DEF Keys
    <3> QED
      BY <2>2, <3>1
  <2>5. PICK m \in 0..Len(mem.blocks) : /\ Keys' = 0..(m - 1) /\ m >= n /\ k <= m
    <3>1. CASE k <= n
      <4>1. Keys' = 0..(n - 1)
        BY <1>7, <1>8, <2>2, <2>4, <3>1, SMTT(30)
      <4> QED
        BY <1>7, <2>2, <3>1, <4>1, SMTT(30)
    <3>2. CASE k = n + 1
      <4>1. Keys' = 0..((n + 1) - 1)
        BY <1>7, <1>8, <2>2, <2>4, <3>2, SMTT(30)
      <4>2. n + 1 \in 0..Len(mem.blocks)
        BY <1>2, <1>7, <2>2, <3>2, SMTT(30)
      <4> QED
        BY <1>7, <2>2, <3>2, <4>1, <4>2, SMTT(30)
    <3> QED
      BY <1>7, <2>2, <3>1, <3>2, SMTT(30)
  <2>6. \A t \in Saver : saver'[t].at = "blocks" => saver'[t].next <= m + 1
    <3>1. r.at = "blocks" => r.next <= m + 1
      BY <1>10, <1>15, <2>2, <2>5, SMTT(30)
    <3>2. ASSUME NEW t \in Saver \ {s}, saver[t].at = "blocks" PROVE saver[t].next <= m + 1
      <4>1. saver[t].next \in Nat
        BY <1>2 DEF SaverT
      <4> QED
        BY <1>7, <1>8, <2>5, <3>2, <4>1, SMTT(30)
    <3> QED
      BY <1>3, <3>1, <3>2, ZenonT(60)
  <2>7. used'.fails = 0 => /\ m + 1 >= Len(mem'.blocks)
                           /\ (phase' # "persist" \/ saver'["cycle"].at = "done") => m = Len(mem'.blocks)
    <3>1. CASE s = "cycle"
      <4>1. r.at = "done" => k >= Len(mem.blocks)
        BY <1>10, <1>12, <1>15, <3>1, ZenonT(60)
      <4> QED
        BY <1>2, <1>3, <1>5, <1>7, <1>8, <1>9, <1>13, <2>2, <2>5, <3>1, <4>1, SMTT(30)
    <3>2. CASE s # "cycle"
      BY <1>2, <1>3, <1>5, <1>7, <1>8, <1>9, <2>5, <3>2, SMTT(30) DEF Saver
    <3> QED
      BY <3>1, <3>2, ZenonT(60)
  <2> QED
    BY <1>9, <2>5, <2>6, <2>7 DEF Stored
\* The only write that fails: all but the last block are there, and it may be skipped.
<1>16. CASE UNCHANGED disk /\ used'.fails = used.fails + 1
  <2>1. used.fails = 0 /\ used'.fails # 0 /\ n + 1 >= Len(mem.blocks)
    BY <1>2, <1>8, <1>16, SMTT(30)
  <2>2. Keys' = 0..(n - 1)
    BY <1>8, <1>16 DEF Keys
  <2>3. r.at = "blocks" => r.next <= n + 1
    <3> SUFFICES ASSUME r.at = "blocks" PROVE r.next <= n + 1
      OBVIOUS
    <3>1. CASE saver[s].at # "blocks"
      BY <1>7, <1>10, <3>1, SMTT(30)
    <3>2. CASE saver[s].at = "blocks"
      <4>1. r.blocks = saver[s].blocks /\ r.next = saver[s].next + 1
        BY <1>10, <3>2
      <4>2. saver[s].next < Len(saver[s].blocks)
        BY <1>0, <1>1, <1>2, <3>2, BlockMove, ZenonT(60)
      <4>3. Len(saver[s].blocks) <= Len(mem.blocks)
        BY <3>2 DEF ShapeInv, Loop
      <4>4. Len(saver[s].blocks) \in Nat
        BY <1>2, SMTT(30) DEF SaverT
      <4> QED
        BY <1>2, <1>7, <2>1, <4>1, <4>2, <4>3, <4>4, SMTT(30)
    <3> QED
      BY <3>1, <3>2
  <2>4. \A t \in Saver : saver'[t].at = "blocks" => saver'[t].next <= n + 1
    BY <1>3, <1>8, <2>3
  <2> QED
    BY <1>7, <1>9, <2>1, <2>2, <2>4 DEF Stored
<1> QED
  BY <1>4, <1>10, <1>14, <1>15, <1>16

\* An empty database has no gap.
LEMMA OrderInit ==
    StorageInit => OrderInv
<1> SUFFICES ASSUME StorageInit PROVE OrderInv
  OBVIOUS
<1>1. /\ mem = Empty /\ disk = [Empty EXCEPT !.blocks = {}] /\ saver = [s \in Saver |-> Off]
  BY DEF StorageInit
<1>2. mem.blocks = <<>> /\ disk.blocks = {} /\ \A s \in Saver : saver[s].at = "off"
  BY <1>1, StartFields DEF Empty
<1>3. InOrder /\ Len(mem.blocks) = 0
  BY <1>2, SMTT(30) DEF InOrder
<1>4. Keys = 0..(0 - 1)
  BY <1>2, SMTT(30) DEF Keys
<1>5. Stored(0)
  BY <1>2, <1>3, <1>4, SMTT(30) DEF Stored
<1> QED
  BY <1>3, <1>5, SMTT(30) DEF OrderInv

\* Every step keeps it.
LEMMA OrderNext ==
    ASSUME StoreTypes, ShapeInv, OrderInv, [StorageNext]_storageVars
    PROVE  OrderInv'
<1>0. "cycle" \in Saver /\ "stop" \in Saver /\ \A s \in Saver : s = "cycle" \/ s = "stop"
  BY DEF Saver
<1>1. CASE \E s \in Saver : Write(s) \/ WriteFails(s)
  BY <1>1, OrderWrite
<1> SUFFICES ASSUME ~ \E s \in Saver : Write(s) \/ WriteFails(s), used'.fails <= 1
             PROVE  InOrder' /\ \E d \in 0..Len(mem'.blocks) : Stored(d)'
  BY <1>1 DEF OrderInv
<1>2. /\ mem.blocks \in Seq(BlockType) /\ Len(mem.blocks) \in Nat
      /\ DOMAIN mem.blocks = 1..Len(mem.blocks)
  BY SMTT(30) DEF StoreTypes, MemT
<1>3. ASSUME used'.fails = used.fails
      PROVE  InOrder /\ \E d \in 0..Len(mem.blocks) : Stored(d)
  BY <1>3 DEF OrderInv
<1>4. CASE \/ \E e \in Entry : Enqueue(e)
           \/ \E batch \in SUBSET Entry : Prepare(batch)
           \/ AbortCycle
           \/ UNCHANGED storageVars
  <2>1. /\ mem'.blocks = mem.blocks /\ UNCHANGED <<disk, saver>>
        /\ used'.fails = used.fails
        /\ phase' = phase \/ (phase # "persist" /\ phase' # "persist")
    BY <1>4, EarlySteps
  <2>2. InOrder' /\ Keys' = Keys
    BY <1>3, <2>1 DEF InOrder, Keys
  <2> QED
    BY <1>3, <2>1, <2>2 DEF Stored
<1>5. CASE CommitCycle
  <2>1. /\ phase = "prepared" /\ phase' = "persist" /\ UNCHANGED <<disk, used>>
        /\ saver'["cycle"].at = "state" /\ saver'["stop"] = saver["stop"]
        /\ Len(mem'.blocks) = Len(mem.blocks) + 1
        /\ \A i \in 1..Len(mem.blocks) : mem'.blocks[i] = mem.blocks[i]
        /\ mem'.blocks[Len(mem.blocks) + 1].index = Len(mem.blocks)
        /\ StoreTypes'
    BY <1>5, CommitFields
  <2>2. DOMAIN mem'.blocks = 1..(Len(mem.blocks) + 1)
    BY <2>1, SMTT(30) DEF StoreTypes, MemT
  <2>3. InOrder'
    <3>1. ASSUME NEW i \in 1..(Len(mem.blocks) + 1) PROVE mem'.blocks[i].index = i - 1
      <4>1. CASE i \in 1..Len(mem.blocks)
        BY <1>2, <1>3, <2>1, <4>1, ZenonT(60) DEF InOrder
      <4>2. CASE i = Len(mem.blocks) + 1
        BY <1>2, <2>1, <4>2, SMTT(30)
      <4> QED
        BY <1>2, <4>1, <4>2, SMTT(30)
    <3> QED
      BY <2>2, <3>1 DEF InOrder
  <2>4. PICK d \in 0..Len(mem.blocks) : Stored(d)
    BY <1>3, <2>1
  <2>5. Stored(d)'
    BY <1>0, <1>2, <2>1, <2>4, SMTT(30) DEF Stored, Keys
  <2>6. d \in 0..Len(mem'.blocks)
    BY <1>2, <2>1, <2>4, SMTT(30)
  <2> QED
    BY <2>3, <2>5, <2>6
<1>6. CASE Stop
  <2>1. /\ UNCHANGED <<mem, disk, phase>> /\ used'.fails = used.fails
        /\ saver'["cycle"] = saver["cycle"] /\ saver'["stop"].at = "state"
    BY <1>6, OtherPersists
  <2>2. InOrder' /\ Keys' = Keys
    BY <1>3, <2>1 DEF InOrder, Keys
  <2>3. PICK d \in 0..Len(mem.blocks) : Stored(d)
    BY <1>3, <2>1
  <2>4. Stored(d)'
    BY <1>0, <2>1, <2>2, <2>3 DEF Stored
  <2> QED
    BY <2>1, <2>2, <2>3, <2>4
<1>7. CASE EndCycle
  <2>1. /\ UNCHANGED <<mem, disk, used>> /\ saver["cycle"].at = "done"
        /\ saver'["cycle"].at = "off" /\ saver'["stop"] = saver["stop"]
    BY <1>7, OtherPersists, StartFields
  <2>2. InOrder' /\ Keys' = Keys
    BY <1>3, <2>1 DEF InOrder, Keys
  <2>3. PICK d \in 0..Len(mem.blocks) : Stored(d)
    BY <1>3, <2>1
  <2>4. Stored(d)'
    BY <1>0, <2>1, <2>2, <2>3 DEF Stored
  <2> QED
    BY <2>1, <2>2, <2>3, <2>4
<1>8. CASE Exit \/ Crash
  <2>1. \A a, b \in disk.blocks : a.index = b.index => a = b
    BY DEF ShapeInv
  <2>2. /\ mem'.blocks = LoadBlocks /\ UNCHANGED disk /\ saver' = [s \in Saver |-> Off]
        /\ used'.fails = used.fails
    BY <1>8, <2>1, LoadStep
  <2>3. PICK d \in 0..Len(mem.blocks) : Stored(d)
    BY <1>3, <2>2
  <2>4. Keys = 0..(d - 1) /\ d \in Nat
    BY <1>2, <2>3, SMTT(30) DEF Stored
  <2>5. /\ LoadBlocks \in Seq(BlockType) /\ Len(LoadBlocks) = d
        /\ \A k \in 1..d : LoadBlocks[k].index = k - 1
    BY <2>1, <2>4, LoadFacts DEF StoreTypes
  <2>6. InOrder'
    BY <2>2, <2>4, <2>5, SMTT(30) DEF InOrder
  <2>7. \A s \in Saver : saver'[s].at = "off"
    BY <2>2, StartFields
  <2>8. Stored(d)'
    BY <2>2, <2>4, <2>5, <2>7, SMTT(30) DEF Stored, Keys
  <2> QED
    BY <2>2, <2>4, <2>5, <2>6, <2>8, SMTT(30)
<1> QED
  BY <1>4, <1>5, <1>6, <1>7, <1>8 DEF StorageNext

-----------------------------------------------------------------------------
\* The blocks that the cycle's loop has passed are on disk, unless a write of it failed.
PersistInv ==
    ~saver["cycle"].failed /\ InOrder =>
        /\ saver["cycle"].at = "blocks" =>
               \A i \in 1..Len(mem.blocks) : i < saver["cycle"].next => mem.blocks[i] \in disk.blocks
        /\ saver["cycle"].at = "done" => Chain \subseteq disk.blocks

\* A transaction of either persist keeps them there.
LEMMA PersistWrite ==
    ASSUME StoreTypes, ShapeInv, PersistInv, NEW s \in Saver, Write(s) \/ WriteFails(s)
    PROVE  PersistInv'
<1>0. \A t \in Saver : InLoop(saver[t])
  BY DEF ShapeInv
<1>1. PICK q, d, r :
               /\ Moves(saver[s], q, d)
               /\ q \in SaverT /\ d \in DiskT /\ IsFiniteSet(d.blocks)
               /\ r \in SaverT /\ r.at = q.at /\ r.anchors = q.anchors /\ r.next = q.next
               /\ r.blocks = q.blocks
               /\ saver' = [saver EXCEPT ![s] = r]
               /\ \/ disk' = d /\ r.failed = saver[s].failed /\ UNCHANGED used
                  \/ UNCHANGED disk /\ r.failed /\ used' = [used EXCEPT !.fails = @ + 1]
               /\ UNCHANGED <<mem, snapshot, phase, stopping>>
  BY <1>0, PersistStep
<1>2. /\ saver \in [Saver -> SaverT] /\ saver[s].next \in Nat
      /\ mem.blocks \in Seq(BlockType) /\ Len(mem.blocks) \in Nat
      /\ DOMAIN mem.blocks = 1..Len(mem.blocks)
  BY <1>1, SMTT(30) DEF StoreTypes, SaverT, MemT
<1>3. saver'[s] = r /\ \A t \in Saver \ {s} : saver'[t] = saver[t]
  BY <1>1, <1>2
<1>4. mem' = mem /\ (InOrder' <=> InOrder) /\ Chain' = Chain
  BY <1>1 DEF InOrder, Chain
<1>5. /\ saver[s].at = "blocks" =>
             \/ r.at = "blocks" /\ r.next = saver[s].next + 1
             \/ r.at = "done" /\ saver[s].next >= Len(saver[s].blocks)
      /\ saver[s].at # "blocks" /\ r.at = "blocks" => r.next = 1
      /\ saver[s].at # "blocks" => r.at # "done"
      /\ \/ d.blocks = disk.blocks /\ (saver[s].at = "blocks" => saver[s].blocks = <<>>)
         \/ /\ saver[s].at = "blocks"
            /\ saver[s].next \in 1..Len(mem.blocks)
            /\ d.blocks = {x \in disk.blocks : x.index # mem.blocks[saver[s].next].index}
                              \cup {mem.blocks[saver[s].next]}
  BY <1>1, LoopStep, SMTT(30)
<1> SUFFICES ASSUME ~saver'["cycle"].failed, InOrder
             PROVE  /\ saver'["cycle"].at = "blocks" =>
                           \A i \in 1..Len(mem.blocks) :
                               i < saver'["cycle"].next => mem.blocks[i] \in disk'.blocks
                    /\ saver'["cycle"].at = "done" => Chain \subseteq disk'.blocks
  BY <1>4 DEF PersistInv
<1>6. \A i \in 1..Len(mem.blocks) : mem.blocks[i] \in disk.blocks => mem.blocks[i] \in disk'.blocks
  <2>1. CASE disk'.blocks = disk.blocks
    BY <2>1
  <2>2. CASE /\ saver[s].next \in 1..Len(mem.blocks)
             /\ disk'.blocks = {x \in disk.blocks : x.index # mem.blocks[saver[s].next].index}
                                   \cup {mem.blocks[saver[s].next]}
    <3>1. SUFFICES ASSUME NEW i \in 1..Len(mem.blocks), mem.blocks[i] \in disk.blocks
                   PROVE  mem.blocks[i] \in disk'.blocks
      OBVIOUS
    <3>2. mem.blocks[i].index = i - 1
      BY <1>2 DEF InOrder
    <3>3. mem.blocks[saver[s].next].index = saver[s].next - 1
      BY <1>2, <2>2 DEF InOrder
    <3>4. CASE i = saver[s].next
      BY <2>2, <3>4
    <3>5. CASE i # saver[s].next
      <4>1. mem.blocks[i].index # mem.blocks[saver[s].next].index
        BY <1>2, <3>2, <3>3, <3>5, SMTT(30)
      <4> QED
        BY <2>2, <3>1, <4>1
    <3> QED
      BY <3>4, <3>5
  <2> QED
    BY <1>1, <1>5, <2>1, <2>2
<1>7. CASE s # "cycle"
  <2>1. saver'["cycle"] = saver["cycle"]
    BY <1>3, <1>7 DEF Saver
  <2>2. /\ saver["cycle"].at = "blocks" =>
               \A i \in 1..Len(mem.blocks) : i < saver["cycle"].next => mem.blocks[i] \in disk.blocks
        /\ saver["cycle"].at = "done" => Chain \subseteq disk.blocks
    BY <2>1 DEF PersistInv
  <2> QED
    BY <1>2, <1>6, <2>1, <2>2 DEF Chain
<1>8. CASE s = "cycle"
  <2>1. saver'["cycle"] = r /\ ~r.failed /\ disk' = d /\ ~saver["cycle"].failed
    BY <1>1, <1>3, <1>8
  <2>2. /\ saver["cycle"].at = "blocks" =>
               \A i \in 1..Len(mem.blocks) : i < saver["cycle"].next => mem.blocks[i] \in disk.blocks
        /\ saver["cycle"].at = "blocks" => saver["cycle"].blocks = mem.blocks
    BY <2>1 DEF PersistInv, ShapeInv
  <2>3. CASE saver["cycle"].at # "blocks"
    BY <1>5, <1>8, <2>1, <2>3, SMTT(30)
  <2>4. CASE saver["cycle"].at = "blocks"
    <3>1. \A i \in 1..Len(mem.blocks) : i < saver["cycle"].next + 1 => mem.blocks[i] \in disk'.blocks
      <4>1. SUFFICES ASSUME NEW i \in 1..Len(mem.blocks), i < saver["cycle"].next + 1
                     PROVE  mem.blocks[i] \in disk'.blocks
        OBVIOUS
      <4>2. CASE i < saver["cycle"].next
        BY <1>6, <2>2, <2>4, <4>2
      <4>3. CASE i = saver["cycle"].next
        BY <1>2, <1>5, <1>8, <2>1, <2>2, <2>4, <4>3, SMTT(30)
      <4> QED
        BY <1>2, <1>8, <4>1, <4>2, <4>3, SMTT(30)
    <3>2. CASE r.at = "blocks"
      BY <1>5, <1>8, <2>1, <2>4, <3>1, <3>2, ZenonT(60)
    <3>3. CASE r.at = "done"
      <4>1. saver["cycle"].next >= Len(mem.blocks)
        BY <1>5, <1>8, <2>2, <2>4, <3>3
      <4>2. \A i \in 1..Len(mem.blocks) : mem.blocks[i] \in disk'.blocks
        BY <1>2, <1>8, <3>1, <4>1, SMTT(30)
      <4> QED
        BY <1>2, <2>1, <3>3, <4>2 DEF Chain
    <3> QED
      BY <1>5, <1>8, <2>1, <2>4, <3>2, <3>3, ZenonT(60)
  <2> QED
    BY <2>3, <2>4
<1> QED
  BY <1>7, <1>8

\* persist passes a block only once it is written (persist, SaveBlock).
LEMMA PersistNext ==
    ASSUME StoreTypes, ShapeInv, PersistInv, [StorageNext]_storageVars
    PROVE  PersistInv'
<1>0. "cycle" \in Saver /\ "stop" \in Saver
  BY DEF Saver
<1>1. CASE \E s \in Saver : Write(s) \/ WriteFails(s)
  BY <1>1, PersistWrite
<1>2. CASE \/ \E e \in Entry : Enqueue(e)
           \/ \E batch \in SUBSET Entry : Prepare(batch)
           \/ AbortCycle
           \/ UNCHANGED storageVars
  <2>1. mem'.blocks = mem.blocks /\ UNCHANGED <<disk, saver>>
    BY <1>2, EarlySteps
  <2> QED
    BY <2>1 DEF PersistInv, InOrder, Chain
<1>3. CASE CommitCycle
  <2>1. saver'["cycle"].at = "state"
    BY <1>3, CommitFields
  <2> QED
    BY <2>1 DEF PersistInv
<1>4. CASE Stop
  <2>1. UNCHANGED <<mem, disk>> /\ saver'["cycle"] = saver["cycle"]
    BY <1>4, OtherPersists
  <2> QED
    BY <2>1 DEF PersistInv, InOrder, Chain
<1>5. CASE EndCycle \/ Exit \/ Crash
  <2>1. saver'["cycle"].at = "off"
    BY <1>0, <1>5, OtherPersists, StartFields DEF Exit, Crash, loadPersisted
  <2> QED
    BY <2>1 DEF PersistInv
<1> QED
  BY <1>1, <1>2, <1>3, <1>4, <1>5 DEF StorageNext

-----------------------------------------------------------------------------
\* The tree, the proofs and the clock in memory cover the chain in memory; while a batch
\* is prepared, so does the tree that an abort would restore.
MemoryCovers ==
    /\ Batches(mem.blocks) \subseteq mem.st
    /\ \A e \in Batches(mem.blocks) : Proved(e, mem.anchored)
    /\ mem.cycle >= Len(mem.blocks)
    /\ phase = "prepared" => Batches(mem.blocks) \subseteq snapshot.st /\ snapshot.batch \subseteq mem.st

\* What a crash would leave of the tree, the proofs and the clock covers the blocks that
\* it would leave.
DiskCovers ==
    \A b \in disk.blocks : /\ b.batch \subseteq disk.st
                           /\ b.index < disk.cycle
                           /\ \A e \in b.batch : Proved(e, disk.anchored)

\* What persist has written by the time it comes to the blocks covers the whole chain.
Ahead(p) ==
    /\ p.at \notin {"off", "state"} => disk.cycle >= Len(mem.blocks)
    /\ p.at \in {"anchored", "blocks", "done"} => Batches(mem.blocks) \subseteq disk.st
    /\ p.at = "anchored" => \A e \in Batches(mem.blocks) : Proved(e, disk.anchored \cup p.anchors)
    /\ p.at \in {"blocks", "done"} => \A e \in Batches(mem.blocks) : Proved(e, disk.anchored)

CrashInv == used.stops = 0 /\ used.fails = 0 => MemoryCovers /\ DiskCovers /\ Ahead(saver["cycle"])

\* An entry is in the chain when some block of it carries the entry.
LEMMA InBatches ==
    ASSUME NEW bs, NEW e
    PROVE  e \in Batches(bs) <=> \E i \in DOMAIN bs : e \in bs[i].batch
BY DEF Batches

\* A transaction of the cycle's persist writes a block only after what covers it.
LEMMA CrashWrite ==
    ASSUME StoreTypes, ShapeInv, OrderInv, CrashInv, NEW s \in Saver, Write(s) \/ WriteFails(s)
    PROVE  CrashInv'
<1> SUFFICES ASSUME used'.stops = 0, used'.fails = 0
             PROVE  MemoryCovers' /\ DiskCovers' /\ Ahead(saver["cycle"])'
  BY DEF CrashInv
<1>0. \A t \in Saver : InLoop(saver[t])
  BY DEF ShapeInv
<1>1. PICK q, d, r :
               /\ Moves(saver[s], q, d)
               /\ q \in SaverT /\ d \in DiskT /\ IsFiniteSet(d.blocks)
               /\ r \in SaverT /\ r.at = q.at /\ r.anchors = q.anchors /\ r.next = q.next
               /\ r.blocks = q.blocks
               /\ saver' = [saver EXCEPT ![s] = r]
               /\ \/ disk' = d /\ r.failed = saver[s].failed /\ UNCHANGED used
                  \/ UNCHANGED disk /\ r.failed /\ used' = [used EXCEPT !.fails = @ + 1]
               /\ UNCHANGED <<mem, snapshot, phase, stopping>>
  BY <1>0, PersistStep
<1>2. disk' = d /\ UNCHANGED used
  BY <1>1, SMTT(30) DEF StoreTypes
<1>3. used.stops = 0 /\ used.fails = 0 /\ MemoryCovers /\ DiskCovers /\ Ahead(saver["cycle"])
  BY <1>2 DEF CrashInv
<1>4. saver[s].at \notin {"off", "done"}
  BY <1>1, LoopStep
<1>5. s = "cycle"
  BY <1>3, <1>4, StartFields DEF ShapeInv, Saver
<1>6. /\ saver \in [Saver -> SaverT] /\ saver'["cycle"] = r /\ saver["cycle"] \in SaverT
      /\ mem.blocks \in Seq(BlockType) /\ DOMAIN mem.blocks = 1..Len(mem.blocks)
      /\ Len(mem.blocks) \in Nat /\ disk.cycle \in Nat /\ mem.cycle \in Nat
  BY <1>1, <1>5, SMTT(30) DEF StoreTypes, MemT, DiskT
<1>7. InOrder
  BY <1>3, SMTT(30) DEF OrderInv
<1>8. mem' = mem /\ snapshot' = snapshot /\ phase' = phase
  BY <1>1
<1>9. MemoryCovers'
  BY <1>3, <1>8 DEF MemoryCovers
<1>10. Batches(mem.blocks)' = Batches(mem.blocks) /\ Batches(mem.blocks) \subseteq Entry
  <2>1. \A i \in DOMAIN mem.blocks : mem.blocks[i].batch \subseteq Entry
    <3>1. \A i \in DOMAIN mem.blocks : mem.blocks[i] \in BlockType
      BY <1>6, SMTT(30)
    <3> QED
      BY <3>1 DEF BlockType
  <2> QED
    BY <1>8, <2>1 DEF Batches
<1>11. /\ Batches(mem.blocks) \subseteq mem.st /\ mem.cycle >= Len(mem.blocks)
       /\ \A e \in Batches(mem.blocks) : Proved(e, mem.anchored)
  BY <1>3 DEF MemoryCovers
<1>12. \A i \in DOMAIN mem.blocks : /\ mem.blocks[i].batch \subseteq Batches(mem.blocks)
                                    /\ mem.blocks[i].index < Len(mem.blocks)
  BY <1>6, <1>7, SMTT(30) DEF Batches, InOrder
<1>13. \A b \in disk.blocks : b.batch \subseteq Batches(mem.blocks) /\ b.index < Len(mem.blocks)
                              /\ b.index \in Nat
  <2>1. \A b \in disk.blocks : \E i \in DOMAIN mem.blocks : b = mem.blocks[i]
    BY DEF ShapeInv, Chain
  <2>2. \A b \in disk.blocks : b.index \in Nat
    BY DEF StoreTypes, DiskT, BlockType
  <2> QED
    BY <1>12, <2>1, <2>2
<1>14. Moves(saver["cycle"], q, d)
  BY <1>1, <1>5
<1>15. CASE saver["cycle"].at \notin {"anchored", "blocks"}
  <2>1. /\ \/ saver["cycle"].at = "state" /\ q.at = "pending" /\ d.cycle = mem.cycle /\ d.st = disk.st
           \/ saver["cycle"].at = "pending" /\ q.at = "smt" /\ d.cycle = disk.cycle /\ d.st = disk.st
           \/ /\ saver["cycle"].at = "smt" /\ q.at = "anchored" /\ d.cycle = disk.cycle /\ d.st = mem.st
              /\ q.anchors = mem.anchored
        /\ d.anchored = disk.anchored /\ d.blocks = disk.blocks
    BY <1>6, <1>14, <1>15, EarlyMove
  <2>2. Ahead(r)'
    <3>1. \A e \in Batches(mem.blocks) : Proved(e, d.anchored \cup mem.anchored)
      BY <1>11 DEF Proved
    <3> QED
      BY <1>1, <1>2, <1>3, <1>8, <1>10, <1>11, <2>1, <3>1, ZenonT(60) DEF Ahead
  <2>3. DiskCovers'
    <3>1. \A b \in disk.blocks : b.batch \subseteq disk.st /\ b.index < disk.cycle
      BY <1>3, ZenonT(60) DEF DiskCovers
    <3>2. d.st = disk.st \/ d.st = mem.st
      BY <2>1, ZenonT(60)
    <3>3. d.cycle = disk.cycle \/ d.cycle = mem.cycle
      BY <2>1, ZenonT(60)
    <3>4. \A b \in disk.blocks : b.batch \subseteq mem.st
      BY <1>11, <1>13, ZenonT(60)
    <3>5. \A b \in disk.blocks : b.index < mem.cycle
      BY <1>6, <1>11, <1>13, SMTT(30)
    <3>6. \A b \in disk.blocks : b.batch \subseteq d.st /\ b.index < d.cycle
      BY <3>1, <3>2, <3>3, <3>4, <3>5, ZenonT(60)
    <3> QED
      BY <1>2, <1>3, <2>1, <3>6, ZenonT(60) DEF DiskCovers
  <2> QED
    BY <1>6, <1>9, <2>2, <2>3, ZenonT(60)
<1>16. CASE saver["cycle"].at = "anchored"
  <2>1. /\ d.cycle = disk.cycle /\ d.st = disk.st /\ d.blocks = disk.blocks
        /\ q.at = "anchored" \/ q.at = "blocks"
        /\ ProofsKept(saver["cycle"], q, d)
    BY <1>6, <1>14, <1>16, AnchorMove, SMTT(30)
  <2>2. /\ Covered(disk.anchored, d.anchored)
        /\ q.at = "anchored" => Covered(disk.anchored \cup saver["cycle"].anchors, d.anchored \cup r.anchors)
        /\ q.at = "blocks" => Covered(disk.anchored \cup saver["cycle"].anchors, d.anchored)
    BY <1>1, <2>1 DEF ProofsKept
  <2>3. /\ disk.cycle >= Len(mem.blocks) /\ Batches(mem.blocks) \subseteq disk.st
        /\ \A e \in Batches(mem.blocks) : Proved(e, disk.anchored \cup saver["cycle"].anchors)
    BY <1>3, <1>16 DEF Ahead
  <2>4. Ahead(r)'
    <3>1. q.at = "anchored" => \A e \in Batches(mem.blocks) : Proved(e, d.anchored \cup r.anchors)
      BY <1>10, <2>2, <2>3 DEF Covered
    <3>2. q.at = "blocks" => \A e \in Batches(mem.blocks) : Proved(e, d.anchored)
      BY <1>10, <2>2, <2>3 DEF Covered
    <3> QED
      BY <1>1, <1>2, <1>8, <1>10, <2>1, <2>3, <3>1, <3>2 DEF Ahead
  <2>5. DiskCovers'
    <3>1. \A b \in disk.blocks : \A e \in b.batch : e \in Entry /\ Proved(e, disk.anchored)
      BY <1>3, <1>10, <1>13 DEF DiskCovers
    <3>2. \A b \in disk.blocks : \A e \in b.batch : Proved(e, d.anchored)
      BY <2>2, <3>1, ZenonT(60) DEF Covered
    <3> QED
      BY <1>2, <1>3, <2>1, <3>2 DEF DiskCovers
  <2> QED
    BY <1>6, <1>9, <2>4, <2>5
<1>17. CASE saver["cycle"].at = "blocks"
  <2>1. /\ d.cycle = disk.cycle /\ d.st = disk.st /\ d.anchored = disk.anchored
        /\ q.at = "blocks" \/ q.at = "done"
    BY <1>0, <1>5, <1>6, <1>14, <1>17, BlockMove, SMTT(30)
  <2>2. /\ disk.cycle >= Len(mem.blocks) /\ Batches(mem.blocks) \subseteq disk.st
        /\ \A e \in Batches(mem.blocks) : Proved(e, disk.anchored)
    BY <1>3, <1>17 DEF Ahead
  <2>3. Ahead(r)'
    BY <1>1, <1>2, <1>8, <1>10, <2>1, <2>2, ZenonT(60) DEF Ahead
  <2>4. \/ d.blocks = disk.blocks
        \/ /\ saver[s].next \in 1..Len(mem.blocks)
           /\ d.blocks = {x \in disk.blocks : x.index # mem.blocks[saver[s].next].index}
                             \cup {mem.blocks[saver[s].next]}
    BY <1>1, LoopStep, SMTT(30)
  <2>5. \A b \in d.blocks : b \in disk.blocks \/ \E i \in DOMAIN mem.blocks : b = mem.blocks[i]
    BY <1>6, <2>4
  <2>6. \A b \in d.blocks : b \in disk.blocks
            \/ (b.batch \subseteq Batches(mem.blocks) /\ b.index < Len(mem.blocks) /\ b.index \in Nat)
    <3>1. \A i \in DOMAIN mem.blocks : mem.blocks[i].index \in Nat
      BY <1>6, <1>7, SMTT(30) DEF InOrder
    <3> QED
      BY <1>12, <2>5, <3>1
  <2>7. \A b \in d.blocks : /\ b.batch \subseteq disk.st /\ b.index < disk.cycle
                            /\ \A e \in b.batch : Proved(e, disk.anchored)
    BY <1>3, <1>6, <2>2, <2>6, SMTT(30) DEF DiskCovers
  <2>8. DiskCovers'
    BY <1>2, <2>1, <2>7 DEF DiskCovers
  <2> QED
    BY <1>6, <1>9, <2>3, <2>8
<1> QED
  BY <1>15, <1>16, <1>17

\* A database without blocks needs nothing else on disk.
LEMMA CrashInit ==
    StorageInit => CrashInv
<1> SUFFICES ASSUME StorageInit PROVE CrashInv
  OBVIOUS
<1>1. mem.blocks = <<>> /\ mem.cycle = 0 /\ disk.blocks = {} /\ phase = "idle"
  BY DEF StorageInit, Empty
<1>2. saver["cycle"].at = "off"
  BY StartFields DEF StorageInit, Saver
<1>3. Batches(mem.blocks) = {}
  BY <1>1, SMTT(30) DEF Batches
<1> QED
  BY <1>1, <1>2, <1>3, SMTT(30) DEF CrashInv, MemoryCovers, DiskCovers, Ahead

\* Every step keeps it.
LEMMA CrashNext ==
    ASSUME StoreTypes, ShapeInv, OrderInv, CrashInv, [StorageNext]_storageVars
    PROVE  CrashInv'
<1>0. "cycle" \in Saver /\ "stop" \in Saver
  BY DEF Saver
<1>1. CASE \E s \in Saver : Write(s) \/ WriteFails(s)
  BY <1>1, CrashWrite
<1> SUFFICES ASSUME ~ \E s \in Saver : Write(s) \/ WriteFails(s), used'.stops = 0, used'.fails = 0
             PROVE  MemoryCovers' /\ DiskCovers' /\ Ahead(saver["cycle"])'
  BY <1>1 DEF CrashInv
<1>2. ASSUME used'.stops = used.stops, used'.fails = used.fails
      PROVE  used.fails = 0 /\ MemoryCovers /\ DiskCovers /\ Ahead(saver["cycle"])
  BY <1>2 DEF CrashInv
<1>3. /\ mem.blocks \in Seq(BlockType) /\ Len(mem.blocks) \in Nat
      /\ DOMAIN mem.blocks = 1..Len(mem.blocks) /\ mem.cycle \in Nat /\ disk.cycle \in Nat
      /\ snapshot.batch \subseteq Entry
  BY SMTT(30) DEF StoreTypes, MemT, DiskT
<1>4. CASE \/ \E e \in Entry : Enqueue(e)
           \/ \E batch \in SUBSET Entry : Prepare(batch)
           \/ AbortCycle
           \/ UNCHANGED storageVars
  <2>1. /\ mem'.blocks = mem.blocks /\ mem'.anchored = mem.anchored /\ mem'.cycle >= mem.cycle
        /\ UNCHANGED <<disk, saver>> /\ used'.stops = used.stops /\ used'.fails = used.fails
        /\ StoreTypes'
    BY <1>4, EarlySteps
  <2>2. mem'.cycle \in Nat
    BY <2>1 DEF StoreTypes, MemT
  <2>3. MemoryCovers /\ DiskCovers /\ Ahead(saver["cycle"])
    BY <1>2, <2>1
  <2>4. DiskCovers' /\ Ahead(saver["cycle"])'
    BY <2>1, <2>3, ZenonT(60) DEF DiskCovers, Ahead
  <2>5. mem'.cycle >= Len(mem.blocks)
    BY <1>3, <2>1, <2>2, <2>3, SMTT(30) DEF MemoryCovers
  <2>6. /\ Batches(mem.blocks) \subseteq mem'.st
        /\ phase' = "prepared" => Batches(mem.blocks) \subseteq snapshot'.st /\ snapshot'.batch \subseteq mem'.st
    <3>1. /\ Batches(mem.blocks) \subseteq mem.st
          /\ phase = "prepared" => Batches(mem.blocks) \subseteq snapshot.st /\ snapshot.batch \subseteq mem.st
      BY <2>3 DEF MemoryCovers
    <3>2. CASE UNCHANGED storageVars
      BY <3>1, <3>2 DEF storageVars
    <3>3. ASSUME NEW e \in Entry, Enqueue(e)
          PROVE  mem'.st = mem.st /\ phase' = "idle"
      BY <3>3 DEF Enqueue, StoreTypes, MemT
    <3>4. ASSUME NEW batch \in SUBSET Entry, Prepare(batch)
          PROVE  mem'.st = mem.st \cup batch /\ snapshot'.st = mem.st /\ snapshot'.batch = batch
      BY <3>4 DEF Prepare, StoreTypes, MemT
    <3>5. ASSUME AbortCycle
          PROVE  phase = "prepared" /\ mem'.st = snapshot.st /\ phase' = "idle"
      BY <3>5 DEF AbortCycle, StoreTypes, MemT
    <3> QED
      BY <1>4, <3>1, <3>2, <3>3, <3>4, <3>5, ZenonT(60)
  <2>7. MemoryCovers'
    BY <2>1, <2>3, <2>5, <2>6, ZenonT(60) DEF MemoryCovers
  <2> QED
    BY <2>4, <2>7
<1>5. CASE CommitCycle
  <2>1. /\ phase = "prepared" /\ phase' = "persist" /\ UNCHANGED <<disk, used>>
        /\ saver'["cycle"].at = "state"
        /\ mem'.cycle = mem.cycle + 1 /\ mem'.st = mem.st
        /\ mem'.anchored = {a \in mem.anchored : a.entry \notin snapshot.batch}
               \cup {[entry |-> e, index |-> Len(mem.blocks)] : e \in snapshot.batch}
        /\ Len(mem'.blocks) = Len(mem.blocks) + 1
        /\ \A i \in 1..Len(mem.blocks) : mem'.blocks[i] = mem.blocks[i]
        /\ mem'.blocks[Len(mem.blocks) + 1].batch = snapshot.batch
        /\ StoreTypes'
    BY <1>5, CommitFields
  <2>2. MemoryCovers /\ DiskCovers
    BY <1>2, <2>1, ZenonT(60)
  <2>3. DiskCovers' /\ Ahead(saver["cycle"])'
    BY <2>1, <2>2, ZenonT(60) DEF DiskCovers, Ahead
  <2>4. DOMAIN mem'.blocks = 1..(Len(mem.blocks) + 1)
    BY <2>1, SMTT(30) DEF StoreTypes, MemT
  <2>5. ASSUME NEW e \in Batches(mem.blocks)'
        PROVE  e \in Batches(mem.blocks) \cup snapshot.batch
    <3>1. PICK i \in 1..(Len(mem.blocks) + 1) : e \in mem'.blocks[i].batch
      BY <2>4, <2>5, ZenonT(60) DEF Batches
    <3>2. CASE i = Len(mem.blocks) + 1
      BY <2>1, <3>1, <3>2
    <3>3. CASE i \in 1..Len(mem.blocks)
      BY <1>3, <2>1, <3>1, <3>3 DEF Batches
    <3> QED
      BY <1>3, <3>2, <3>3, SMTT(30)
  <2>6. /\ Batches(mem.blocks) \subseteq mem.st /\ snapshot.batch \subseteq mem.st
        /\ \A e \in Batches(mem.blocks) : Proved(e, mem.anchored)
        /\ mem.cycle >= Len(mem.blocks)
    BY <2>1, <2>2 DEF MemoryCovers
  <2>7. ASSUME NEW e \in Batches(mem.blocks)'
        PROVE  Proved(e, mem'.anchored)
    <3>1. CASE e \in snapshot.batch
      <4>1. [entry |-> e, index |-> Len(mem.blocks)] \in mem'.anchored
        BY <2>1, <3>1
      <4> QED
        BY <4>1 DEF Proved
    <3>2. CASE e \notin snapshot.batch
      <4>1. PICK a \in mem.anchored : a.entry = e
        BY <2>5, <2>6, <2>7, <3>2, ZenonT(60) DEF Proved
      <4>2. a \in mem'.anchored
        BY <2>1, <3>2, <4>1, ZenonT(60)
      <4> QED
        BY <4>1, <4>2 DEF Proved
    <3> QED
      BY <3>1, <3>2
  <2>8. mem'.cycle >= Len(mem'.blocks)
    BY <1>3, <2>1, <2>6, SMTT(30)
  <2>9. MemoryCovers'
    BY <2>1, <2>5, <2>6, <2>7, <2>8 DEF MemoryCovers
  <2> QED
    BY <2>3, <2>9
<1>6. CASE Stop
  <2>1. used'.stops > 0
    BY <1>6, OtherPersists, ZenonT(60)
  <2> QED
    BY <2>1, SMTT(30)
<1>7. CASE EndCycle
  <2>1. /\ UNCHANGED <<mem, snapshot, disk, used>> /\ phase' = "idle"
        /\ saver'["cycle"].at = "off"
    BY <1>7, OtherPersists, StartFields
  <2>2. MemoryCovers /\ DiskCovers
    BY <1>2, <2>1
  <2> QED
    BY <2>1, <2>2 DEF MemoryCovers, DiskCovers, Ahead
<1>8. CASE Exit \/ Crash
  <2>1. \A a, b \in disk.blocks : a.index = b.index => a = b
    BY DEF ShapeInv
  <2>2. /\ mem'.st = disk.st /\ mem'.anchored = disk.anchored /\ mem'.cycle = disk.cycle
        /\ mem'.blocks = LoadBlocks /\ UNCHANGED disk /\ phase' = "idle"
        /\ saver' = [s \in Saver |-> Off]
        /\ used'.stops = used.stops /\ used'.fails = used.fails
    BY <1>8, <2>1, LoadStep
  <2>3. used.fails = 0 /\ DiskCovers
    BY <1>2, <2>2
  <2>4. PICK d \in 0..Len(mem.blocks) : Stored(d)
    BY <2>3, SMTT(30) DEF OrderInv
  <2>5. Keys = 0..(d - 1) /\ d \in Nat
    BY <1>3, <2>4, SMTT(30) DEF Stored
  <2>6. /\ Len(LoadBlocks) = d
        /\ {LoadBlocks[k] : k \in DOMAIN LoadBlocks} = disk.blocks
    BY <2>1, <2>5, LoadFacts DEF StoreTypes
  <2>7. disk.cycle >= d
    <3>1. CASE d = 0
      BY <1>3, <3>1, SMTT(30)
    <3>2. CASE d # 0
      <4>1. d - 1 \in Keys
        BY <2>5, <3>2, SMTT(30)
      <4>2. d - 1 < disk.cycle
        BY <2>3, <4>1 DEF Keys, DiskCovers
      <4> QED
        BY <1>3, <2>5, <4>2, SMTT(30)
    <3> QED
      BY <3>1, <3>2
  <2>8. ASSUME NEW e \in Batches(LoadBlocks)
        PROVE  e \in disk.st /\ Proved(e, disk.anchored)
    <3>1. PICK k \in DOMAIN LoadBlocks : e \in LoadBlocks[k].batch
      BY <2>8, InBatches
    <3>2. LoadBlocks[k] \in disk.blocks
      BY <2>6
    <3> QED
      BY <2>3, <3>1, <3>2 DEF DiskCovers
  <2>9. Batches(mem.blocks)' = Batches(LoadBlocks)
    BY <2>2 DEF Batches
  <2>10. MemoryCovers'
    BY <2>2, <2>6, <2>7, <2>8, <2>9 DEF MemoryCovers
  <2>11. saver'["cycle"].at = "off"
    BY <1>0, <2>2, StartFields, ZenonT(60)
  <2>12. DiskCovers' /\ Ahead(saver["cycle"])'
    BY <2>2, <2>3, <2>11 DEF DiskCovers, Ahead
  <2> QED
    BY <2>10, <2>12
<1> QED
  BY <1>4, <1>5, <1>6, <1>7, <1>8 DEF StorageNext

-----------------------------------------------------------------------------
StoreInv == StoreTypes /\ ShapeInv /\ OrderInv /\ PersistInv /\ CrashInv

\* The database and the engine's memory stay in step through every cycle, stop, failed
\* write and crash: the inductive invariant (persist, loadPersisted).
THEOREM StoreCorrect == StorageSpec => []StoreInv
<1>1. StorageInit => StoreInv
  <2> SUFFICES ASSUME StorageInit PROVE StoreInv
    OBVIOUS
  <2>1. saver["cycle"].at = "off"
    BY StartFields DEF StorageInit, Saver
  <2> QED
    BY <2>1, ShapeInit, OrderInit, CrashInit DEF StoreInv, PersistInv
<1>2. StoreInv /\ [StorageNext]_storageVars => StoreInv'
  BY ShapeNext, OrderNext, PersistNext, CrashNext DEF StoreInv
<1> QED
  BY <1>1, <1>2, PTL DEF StorageSpec

\* For every number of entries, cycles, aborts, crashes, stops and failed writes: what a
\* crash leaves on disk, and so what the next process loads, has its tree, its proofs and
\* its clock up to its last block; the chain that is loaded has no gap although one write
\* failed; and a persist without a failure leaves the whole chain (persist, loadPersisted).
THEOREM LoadedConsistentHolds == StorageSpec => []LoadedConsistent
<1>1. StoreInv => LoadedConsistent
  <2> SUFFICES ASSUME StoreInv PROVE LoadedConsistent
    OBVIOUS
  <2>1. StoreTypes /\ ShapeInv /\ OrderInv /\ PersistInv /\ CrashInv
    BY DEF StoreInv
  <2>2. StorageTypeOK
    BY <2>1 DEF StoreTypes, StorageTypeOK, MemT, DiskT, AnchorT
  <2>3. used.stops = 0 /\ used.fails = 0 => TreeCoversLoaded /\ ProofsCoverLoaded /\ ClockNotBehind
    <3> SUFFICES ASSUME used.stops = 0, used.fails = 0
                 PROVE  TreeCoversLoaded /\ ProofsCoverLoaded /\ ClockNotBehind
      OBVIOUS
    <3>1. MemoryCovers
      BY <2>1 DEF CrashInv
    <3>2. \A i \in DOMAIN mem.blocks : \A e \in mem.blocks[i].batch : e \in Batches(mem.blocks)
      BY InBatches
    <3>3. ProofsCoverLoaded
      BY <3>1, <3>2 DEF MemoryCovers, Proved, ProofsCoverLoaded
    <3> QED
      BY <3>1, <3>3 DEF MemoryCovers, TreeCoversLoaded, ClockNotBehind
  <2>4. LoadedInOrder
    BY <2>1 DEF OrderInv, LoadedInOrder
  <2>5. PersistRepairs
    BY <2>1 DEF PersistInv, ShapeInv, PersistRepairs, Chain
  <2> QED
    BY <2>2, <2>3, <2>4, <2>5 DEF LoadedConsistent
<1> QED
  BY <1>1, StoreCorrect, PTL

=============================================================================
