------------------------------ MODULE Storage ------------------------------
(***************************************************************************)
(* One engine and its bolt database (pkg/consensus engine.go, pkg/storage  *)
(* bolt.go).  persist writes the state, the pending entries, the tree, the *)
(* anchor proofs and the blocks, one transaction each, and ignores their   *)
(* errors.  It runs at the end of a successful cycle, under the engine's   *)
(* lock, and in Stop, without it.  The process may crash between any two   *)
(* writes; a new process loads what is there.                              *)
(*                                                                         *)
(* An entry is its hash and a block the batch it carries with its index.   *)
(* What a cycle commits is decided by the network: here any batch.         *)
(***************************************************************************)
EXTENDS Naturals, Sequences, FiniteSets

CONSTANTS
    Entry,
    MaxBlocks,       \* bound: the chain's length
    MaxAborts,       \* bound: aborted cycles
    MaxCrashes,      \* bound: crashes
    MaxStops,        \* bound: orderly stops
    MaxFails         \* bound: writes that fail

\* What the constants must satisfy.
StorageAssumption ==
    /\ IsFiniteSet(Entry)
    /\ {MaxBlocks, MaxAborts, MaxCrashes, MaxStops, MaxFails} \subseteq Nat

VARIABLES
    mem,             \* the engine: cycle, pending, st, anchored, blocks
    snapshot,        \* stateSnapshot of the cycle that runs, and its batch
    disk,            \* the buckets: what loadPersisted would read
    phase,           \* where RunCycle is: "idle", "prepared", "persist"
    stopping,        \* Stop was called and has not returned
    saver,           \* the two calls of persist, in RunCycle and in Stop
    used             \* how much of each bound is used up

storageVars == <<mem, snapshot, disk, phase, stopping, saver, used>>

Saver == {"cycle", "stop"}

\* A call of persist: the bucket it writes next, what is left to write in it,
\* and whether one of its writes has failed.
Off == [at |-> "off", anchors |-> {}, next |-> 1, blocks |-> <<>>, failed |-> FALSE]

Batches(bs) == UNION {bs[i].batch : i \in DOMAIN bs}

Empty == [cycle |-> 0, pending |-> {}, st |-> {}, anchored |-> {}, blocks |-> <<>>]

StorageInit ==
    /\ mem = Empty
    /\ snapshot = [st |-> {}, batch |-> {}]
    /\ disk = [Empty EXCEPT !.blocks = {}]
    /\ phase = "idle"
    /\ stopping = FALSE
    /\ saver = [s \in Saver |-> Off]
    /\ used = [aborts |-> 0, crashes |-> 0, stops |-> 0, fails |-> 0]

\* Enqueue waits for e.mu and refuses once the engine is stopped.
Enqueue(e) ==
    /\ phase = "idle"
    /\ ~stopping
    /\ e \notin mem.pending \cup Batches(mem.blocks)
    /\ mem' = [mem EXCEPT !.pending = @ \cup {e}]
    /\ UNCHANGED <<snapshot, disk, phase, stopping, saver, used>>

\* PREPARE inserts the batch of the proposal into the tree.
Prepare(batch) ==
    /\ phase = "idle"
    /\ batch # {}
    /\ batch \cap Batches(mem.blocks) = {}
    /\ Len(mem.blocks) < MaxBlocks
    /\ snapshot' = [st |-> mem.st, batch |-> batch]
    /\ mem' = [mem EXCEPT !.st = @ \cup batch]
    /\ phase' = "prepared"
    /\ UNCHANGED <<disk, stopping, saver, used>>

\* Any failure after that restores the tree; the clock moves on.
AbortCycle ==
    /\ phase = "prepared"
    /\ used.aborts < MaxAborts
    /\ used' = [used EXCEPT !.aborts = @ + 1]
    /\ mem' = [mem EXCEPT !.st = snapshot.st, !.cycle = @ + 1]
    /\ phase' = "idle"
    /\ UNCHANGED <<snapshot, disk, stopping, saver>>

StartPersist(s) == [saver EXCEPT ![s] = [Off EXCEPT !.at = "state"]]

\* The block of the batch that was prepared; persist follows.
CommitCycle ==
    /\ phase = "prepared"
    /\ mem' = [mem EXCEPT !.cycle = @ + 1,
                          !.pending = {},
                          !.blocks = Append(@, [index |-> Len(@), batch |-> snapshot.batch]),
                          !.anchored = {a \in @ : a.entry \notin snapshot.batch}
                              \cup {[entry |-> e, index |-> Len(mem.blocks)] : e \in snapshot.batch}]
    /\ phase' = "persist"
    /\ saver' = StartPersist("cycle")
    /\ UNCHANGED <<snapshot, disk, stopping, used>>

\* Stop marks the engine stopped and cancels its context, then persists while a
\* cycle may still be running.
Stop ==
    /\ ~stopping
    /\ used.stops < MaxStops
    /\ used' = [used EXCEPT !.stops = @ + 1]
    /\ stopping' = TRUE
    /\ saver' = StartPersist("stop")
    /\ UNCHANGED <<mem, snapshot, disk, phase>>

-----------------------------------------------------------------------------
\* Mutant: the blocks are written before the tree and the proofs.
BucketBlocksFirst(b) ==
    CASE b = "state" -> "pending" [] b = "pending" -> "blocks" [] b = "blocks" -> "smt"
      [] b = "smt" -> "anchored" [] b = "anchored" -> "done"

\* The order in which persist visits the buckets.
NextBucket(b) ==
    CASE b = "state" -> "pending" [] b = "pending" -> "smt" [] b = "smt" -> "anchored"
      [] b = "anchored" -> "blocks" [] b = "blocks" -> "done"

\* A loop over e.anchored or e.blocks starts with what they hold by then.
Enter(p, b) ==
    [p EXCEPT !.at = b, !.anchors = IF b = "anchored" THEN mem.anchored ELSE @,
              !.blocks = IF b = "blocks" THEN mem.blocks ELSE @]

\* The database after one write.
SaveState == [disk EXCEPT !.cycle = mem.cycle]

SavePending == [disk EXCEPT !.pending = mem.pending]

SaveSMT == [disk EXCEPT !.st = mem.st]

SaveAnchored(w) == [disk EXCEPT !.anchored = {a \in @ : a.entry # w.entry} \cup {w}]

SaveBlock(b) == [disk EXCEPT !.blocks = {q \in @ : q.index # b.index} \cup {b}]

\* What may be written next.  The proofs come in the order of a Go map: any.
Writes(p) ==
    CASE p.at = "state" -> {SaveState}
      [] p.at = "pending" -> {SavePending}
      [] p.at = "smt" -> {SaveSMT}
      [] p.at = "anchored" -> {SaveAnchored(w) : w \in p.anchors}
      [] p.at = "blocks" -> {SaveBlock(p.blocks[p.next])}

\* Where persist stands once the write gave d: the loops go on while something
\* is left, and an empty loop is passed over.
AfterWrite(p, d) ==
    CASE p.at = "anchored" ->
             LET left == {w \in p.anchors : w \notin d.anchored}
             IN  IF left # {} THEN [p EXCEPT !.anchors = left] ELSE Enter(p, NextBucket(p.at))
      [] p.at = "blocks" ->
             IF p.next < Len(p.blocks) THEN [p EXCEPT !.next = @ + 1]
             ELSE Enter(p, NextBucket(p.at))
      [] OTHER -> Enter(p, NextBucket(p.at))

\* A bucket that persist has nothing to write into.
NothingToWrite(p) ==
    \/ p.at = "anchored" /\ p.anchors = {}
    \/ p.at = "blocks" /\ p.blocks = <<>>

Saving(s) == saver[s].at \notin {"off", "done"}

\* One bolt transaction.
Write(s) ==
    /\ Saving(s)
    /\ IF NothingToWrite(saver[s])
       THEN /\ saver' = [saver EXCEPT ![s] = Enter(@, NextBucket(@.at))]
            /\ UNCHANGED disk
       ELSE \E d \in Writes(saver[s]) :
                /\ disk' = d
                /\ saver' = [saver EXCEPT ![s] = AfterWrite(@, d)]
    /\ UNCHANGED <<mem, snapshot, phase, stopping, used>>

\* A transaction that fails is dropped, and persist goes on.
WriteFails(s) ==
    /\ Saving(s)
    /\ ~NothingToWrite(saver[s])
    /\ used.fails < MaxFails
    /\ used' = [used EXCEPT !.fails = @ + 1]
    /\ \E d \in Writes(saver[s]) :
           saver' = [saver EXCEPT ![s] = [AfterWrite(@, d) EXCEPT !.failed = TRUE]]
    /\ UNCHANGED <<mem, snapshot, disk, phase, stopping>>

\* RunCycle returns after its persist.
EndCycle ==
    /\ phase = "persist"
    /\ saver["cycle"].at = "done"
    /\ phase' = "idle"
    /\ saver' = [saver EXCEPT !["cycle"] = Off]
    /\ UNCHANGED <<mem, snapshot, disk, stopping, used>>

LoadState == disk.cycle

LoadPending == disk.pending

LoadSMT == disk.st

LoadAnchored == disk.anchored

\* LoadBlocks walks the bucket in key order: the k-th block it meets has k - 1 keys
\* below its own.
LoadBlocks ==
    LET keys == {b.index : b \in disk.blocks}
    IN  [k \in 1..Cardinality(keys) |->
            CHOOSE b \in disk.blocks : Cardinality({i \in keys : i < b.index}) = k - 1]

\* A new engine on the database; whatever was in memory is gone.
loadPersisted ==
    /\ mem' = [cycle |-> LoadState, pending |-> LoadPending, st |-> LoadSMT,
               anchored |-> LoadAnchored, blocks |-> LoadBlocks]
    /\ snapshot' = [st |-> {}, batch |-> {}]
    /\ phase' = "idle"
    /\ stopping' = FALSE
    /\ saver' = [s \in Saver |-> Off]
    /\ UNCHANGED disk

\* The process ends once Stop has returned, also in the middle of a cycle.
Exit ==
    /\ stopping
    /\ saver["stop"].at = "done"
    /\ loadPersisted
    /\ UNCHANGED used

Crash ==
    /\ used.crashes < MaxCrashes
    /\ used' = [used EXCEPT !.crashes = @ + 1]
    /\ loadPersisted

StorageNext ==
    \/ \E e \in Entry : Enqueue(e)
    \/ \E batch \in SUBSET Entry : Prepare(batch)
    \/ CommitCycle
    \/ AbortCycle
    \/ \E s \in Saver : Write(s) \/ WriteFails(s)
    \/ EndCycle
    \/ Stop
    \/ Exit
    \/ Crash

StorageSpec == StorageInit /\ [][StorageNext]_storageVars

-----------------------------------------------------------------------------
BlockType == [index : Nat, batch : SUBSET Entry]

\* The types of the engine's memory and of the buckets (bolt.go, engine.go).
StorageTypeOK ==
    /\ mem.cycle \in Nat /\ disk.cycle \in Nat
    /\ mem.pending \cup mem.st \cup disk.pending \cup disk.st \subseteq Entry
    /\ mem.anchored \cup disk.anchored \subseteq [entry : Entry, index : Nat]
    /\ mem.blocks \in Seq(BlockType)
    /\ disk.blocks \subseteq BlockType
    /\ phase \in {"idle", "prepared", "persist"}

InOrder == \A i \in DOMAIN mem.blocks : mem.blocks[i].index = i - 1

\* A chain that is loaded has no gap and no block out of place, wherever a crash
\* or an exit cut the writes and although one write failed: every persist rewrites
\* the blocks from the first one on (persist, LoadBlocks).  Two failures may hit
\* the same block twice and leave a gap below a later one.
LoadedInOrder == used.fails <= 1 => InOrder

\* Wherever a crash cut persist, the tree that is loaded holds the entries of
\* every block that is loaded, so each of them can still be proved.
TreeCoversLoaded ==
    Batches(mem.blocks) \subseteq mem.st

\* ... and a client that asks for an entry of a loaded block gets its proof.
ProofsCoverLoaded ==
    \A i \in DOMAIN mem.blocks : \A e \in mem.blocks[i].batch :
        \E a \in mem.anchored : a.entry = e

\* The clock that key rotation reads never falls behind the chain in a restart:
\* it has counted at least every block (SaveState before SaveBlock).
ClockNotBehind == mem.cycle >= Len(mem.blocks)

\* A persist of which no write failed leaves the whole chain on disk, also when
\* an earlier one lost a block (the loop over e.blocks), if memory has no gap.
PersistRepairs ==
    (saver["cycle"].at = "done" /\ ~saver["cycle"].failed /\ InOrder)
        => disk.blocks = {mem.blocks[i] : i \in DOMAIN mem.blocks}

\* Wherever a crash cut persist, the tree that is loaded holds the entries of every
\* block that is loaded, their proofs are there, and the clock that key rotation reads
\* is not behind the chain.  Where writes fail or a stop runs into a cycle the chain
\* that is loaded has no gap, and a persist of which no write failed leaves all of it
\* on disk (persist, loadPersisted, LoadBlocks).
LoadedConsistent ==
    /\ StorageTypeOK
    /\ used.stops = 0 /\ used.fails = 0 =>
           TreeCoversLoaded /\ ProofsCoverLoaded /\ ClockNotBehind
    /\ LoadedInOrder
    /\ PersistRepairs

\* "Enables crash recovery without state loss": between cycles the tree is the
\* tree of the chain, also in a process that has just loaded both.
RecoveredRootBacked ==
    phase = "idle" => mem.st = Batches(mem.blocks)

=============================================================================
