--------------------------- MODULE AnchorPublisher ---------------------------
(***************************************************************************)
(* Publication of committed blocks: pkg/anchor/anchor.go and its caller at *)
(* the end of Engine.RunCycle.                                             *)
(*                                                                         *)
(* The engine appends a copy of the block, persists the chain, and then    *)
(* calls Publish with its own block, under the engine's lock.  Publish runs *)
(* one goroutine per backend and waits for all of them.  The filesystem    *)
(* backend writes a temporary file and renames it; the IPFS backend only   *)
(* computes a content identifier, modelled by the content itself.  The     *)
(* process may crash between any two steps.                                *)
(***************************************************************************)
EXTENDS Integers, Sequences, FiniteSets

CONSTANTS Configs,      \* publisher configurations
          WithStorage,  \* whether the engine has a storage
          CanHang,      \* whether a backend may fail to return
          MaxBlocks,    \* bound: length of the chain
          MaxMade       \* bound: blocks made over all lives of the node

ASSUME PublisherAssumption ==
    /\ WithStorage \in BOOLEAN /\ CanHang \in BOOLEAN
    /\ MaxBlocks \in Nat /\ MaxMade \in Nat

Backend == {"fs", "ipfs"}

VARIABLES config,    \* AnchorPublisherConfig
          publishers, \* the backends in use
          blocks,    \* the engine's chain
          stored,    \* the chain in the storage
          made,      \* number of blocks made so far
          tmp, files, \* block_<i>.cbor.tmp and block_<i>.cbor
          job,       \* the Publish in progress
          last,      \* what the last Publish returned
          closed

vars == <<config, publishers, blocks, stored, made, tmp, files, job, last, closed>>

NoFile == [made |-> 0, ext |-> {}]

Partial == [made |-> -1, ext |-> {}]

NoJob == [index |-> 0, block |-> NoFile, at |-> [b \in Backend |-> "off"], anchors |-> {}]

NoResult == [index |-> 0, block |-> NoFile, ok |-> FALSE, anchors |-> {}]

\* The backends NewAnchorPublisher sets up; none when it returns an error.
\* IPFS is optional: an unsupported hash function only leaves it out.
NewAnchorPublisher(cfg, mkdirOK) ==
    IF cfg.path /\ ~mkdirOK THEN {}
    ELSE (IF cfg.path THEN {"fs"} ELSE {})
         \cup (IF cfg.ipfs /\ cfg.hashSupported THEN {"ipfs"} ELSE {})

PublisherInit ==
    /\ config \in Configs
    /\ \E mkdirOK \in BOOLEAN : publishers = NewAnchorPublisher(config, mkdirOK)
    /\ blocks = <<>> /\ stored = <<>> /\ made = 0
    /\ tmp = [i \in 1 .. MaxBlocks |-> NoFile]
    /\ files = [i \in 1 .. MaxBlocks |-> NoFile]
    /\ job = NoJob /\ last = NoResult
    /\ closed = FALSE

Publishing == job # NoJob

\* The chain is saved only once the block is out.
SavedLater(chain) == stored

Saved(chain) == IF WithStorage THEN chain ELSE stored

\* The end of RunCycle: append, persist, and call Publish, which returns an
\* error at once when it is closed.
Commit ==
    /\ ~Publishing
    /\ Len(blocks) < MaxBlocks /\ made < MaxMade
    /\ made' = made + 1
    /\ LET block == [made |-> made + 1, ext |-> {}]
       IN /\ blocks' = Append(blocks, block)
          /\ stored' = Saved(blocks')
          /\ job' = IF publishers = {} \/ closed THEN NoJob
                    ELSE [index |-> Len(blocks'), block |-> block, anchors |-> {},
                          at |-> [b \in Backend |-> IF b \in publishers THEN "write" ELSE "off"]]
    /\ UNCHANGED <<config, publishers, tmp, files, last, closed>>

Goes(b, to) == job' = [job EXCEPT !.at[b] = to]

Returns(b, uri) ==
    job' = [job EXCEPT !.at[b] = "done", !.anchors = @ \cup {uri}]

\* os.WriteFile of the temporary file, which may fail half way.
FsWrite ==
    /\ job.at["fs"] = "write"
    /\ \/ tmp' = [tmp EXCEPT ![job.index] = job.block] /\ Goes("fs", "rename")
       \/ tmp' = [tmp EXCEPT ![job.index] = Partial] /\ Goes("fs", "failed")
    /\ UNCHANGED <<config, publishers, blocks, stored, made, files, last, closed>>

FsRename ==
    /\ job.at["fs"] = "rename"
    /\ \/ /\ files' = [files EXCEPT ![job.index] = tmp[job.index]]
          /\ tmp' = [tmp EXCEPT ![job.index] = NoFile]
          /\ Returns("fs", [scheme |-> "file", index |-> job.index, content |-> NoFile])
       \/ Goes("fs", "failed") /\ UNCHANGED <<files, tmp>>
    /\ UNCHANGED <<config, publishers, blocks, stored, made, last, closed>>

\* ComputeAnchorCID: the content identifier covers the whole encoded block,
\* its external anchors included.
ComputeAnchorCID(block) == block

IpfsPublish ==
    /\ job.at["ipfs"] = "write"
    /\ Returns("ipfs", [scheme |-> "ipfs", index |-> job.index,
                        content |-> ComputeAnchorCID(job.block)])
    /\ UNCHANGED <<config, publishers, blocks, stored, made, tmp, files, last, closed>>

\* A backend that never returns: neither looks at the context it is given.
Hang(b) ==
    /\ CanHang
    /\ job.at[b] = "write"
    /\ Goes(b, "hung")
    /\ UNCHANGED <<config, publishers, blocks, stored, made, tmp, files, last, closed>>

successCount(j) == Cardinality(j.anchors)

\* The anchors go onto the engine's own block only; the copy in the chain has
\* been appended and saved before.
AnchorsInChain(ok) ==
    IF ok THEN [blocks EXCEPT ![job.index].ext = job.anchors] ELSE blocks

AnchorsOnLocal(ok) == blocks

\* wg.Wait, the redundancy check, and what the engine does with the result.
PublishReturns ==
    /\ Publishing
    /\ \A b \in Backend : job.at[b] \in {"off", "done", "failed"}
    /\ LET ok == successCount(job) >= config.minRedundancy
       IN /\ last' = [index |-> job.index, block |-> job.block, ok |-> ok,
                      anchors |-> job.anchors]
          /\ blocks' = AnchorsOnLocal(ok)
    /\ job' = NoJob
    /\ UNCHANGED <<config, publishers, stored, made, tmp, files, closed>>

\* Close takes the write lock, so it waits for a Publish in progress.
Close ==
    /\ publishers # {}
    /\ ~Publishing /\ ~closed
    /\ closed' = TRUE
    /\ UNCHANGED <<config, publishers, blocks, stored, made, tmp, files, job, last>>

\* The process dies, perhaps in the middle of a write, and starts again.
Crash ==
    /\ tmp' = IF job.at["fs"] = "write" THEN [tmp EXCEPT ![job.index] = Partial] ELSE tmp
    /\ blocks' = IF WithStorage THEN stored ELSE <<>>
    /\ job' = NoJob /\ last' = NoResult
    /\ closed' = FALSE
    /\ UNCHANGED <<config, publishers, stored, made, files>>

PublishStep == FsWrite \/ FsRename \/ IpfsPublish \/ PublishReturns

PublisherNext ==
    \/ Commit \/ PublishStep \/ Close \/ Crash
    \/ \E b \in Backend : Hang(b)

PublisherSpec == PublisherInit /\ [][PublisherNext]_vars

\* The goroutines of Publish and the engine waiting for them run.
PublisherFairSpec ==
    /\ PublisherSpec
    /\ WF_vars(FsWrite) /\ WF_vars(FsRename) /\ WF_vars(IpfsPublish)
    /\ WF_vars(PublishReturns)

-----------------------------------------------------------------------------
PublisherTypeOK ==
    /\ publishers \subseteq Backend
    /\ \A i \in 1 .. Len(blocks) : blocks[i].made \in 1 .. made
    /\ \A i \in 1 .. MaxBlocks : files[i].made \in 0 .. made /\ tmp[i].made \in -1 .. made
    /\ Publishing => job.index = Len(blocks)

\* Every published file is, whole, the block at its index of the chain, also
\* after a crash at any step: the chain is saved before the block is published,
\* and the file appears by a rename.
FilesMatchChain ==
    \A i \in 1 .. MaxBlocks :
        files[i] # NoFile => i <= Len(blocks) /\ files[i] = blocks[i]

\* A Publish that returned no error returned at least MinRedundancy anchors,
\* each from a backend of its own, and a file it names holds the block.
AnchorsHold ==
    last.ok => /\ Cardinality({a.scheme : a \in last.anchors}) >= config.minRedundancy
               /\ \A a \in last.anchors : a.scheme = "file" => files[a.index] = last.block

\* VerifyAnchorCID accepts the block a node serves for every identifier that
\* publishing it returned: nothing the identifier covers changes afterwards.
CIDVerifies ==
    \A a \in last.anchors :
        a.scheme = "ipfs" => ComputeAnchorCID(blocks[a.index]) = a.content

\* A file that third parties verify against is never replaced by another
\* block: the chain it publishes is the "immutable chain" of README.md.
PublishedImmutable ==
    [][\A i \in 1 .. MaxBlocks : files[i] # NoFile => files'[i] = files[i]]_vars

\* Publishing, which holds up the next cycle, ends with a result whatever the
\* backends answer.  SPEC-MUST-DO-CANDIDATES.md: "Publishing SHALL complete
\* within 10s. Failed publishes SHALL be logged but SHALL NOT block consensus."
PublishEnds == Publishing ~> ~Publishing

\* specs/gleipnir-gaps-v2.1/gleipnir_compliance_report.md: "ExternalAnchors
\* field populated in blocks".
ExternalAnchorsStored ==
    last.ok => blocks[last.index].ext = last.anchors
=============================================================================
