----------------------------- MODULE MCServices -----------------------------
(***************************************************************************)
(* What a node offers: sub-chains, the anchor publisher, the submission    *)
(* queue, the degraded-mode switch, the REST and gRPC servers, reads and   *)
(* streams, compliance reports and the daemon that starts and stops them.  *)
(* Each part has the engine state it needs as its own, so that             *)
(* interleaving them adds nothing: a behaviour picks one part, runs it and *)
(* leaves the others in their initial state.  Parts names the ones a       *)
(* configuration is about.                                                 *)
(***************************************************************************)
EXTENDS SubChain, AnchorPublisher, DegradedMode, TLC

CONSTANTS
    Parts,
    zero, h1, h2, s1, s2,        \* hashes and submitters
    node, known, other,          \* identities of REST callers
    c0, c1, c2, k1,              \* callers of the servers, a key of the tree
    self, p1, p2                 \* identities of the daemon's validators

VARIABLES
    part,                        \* the part that runs
    now, limiter, pending, retained, pool, chain, waits, halted, accepted, used, \* Submission
    requests, windows, apiQueue, pooled, apiAnchored, stopped, admitted,         \* ApiServers
    spec, dir, allowSimulated, main, peers, up, loop, keys, rest, handler, signalled, call, \* Daemon
    chainBlocks, request, reply, stream,                                         \* NodeReads
    mandate, window, queried, pc, rule, bucketStart, expected, report            \* Compliance

submission == <<now, limiter, pending, retained, pool, chain, waits, halted, accepted, used>>
api == <<requests, windows, apiQueue, pooled, apiAnchored, stopped, admitted>>
daemon == <<spec, dir, allowSimulated, main, peers, up, loop, keys, rest, handler, signalled, call>>
reads == <<chainBlocks, request, reply, stream>>
compliance == <<mandate, window, queried, pc, rule, bucketStart, expected, report>>
serviceVars == <<part, subVars, vars, degVars, submission, api, daemon, reads, compliance>>

-----------------------------------------------------------------------------
\* Every combination of backends and redundancies up to two.
AllConfigs ==
    [path : BOOLEAN, ipfs : BOOLEAN, hashSupported : BOOLEAN, minRedundancy : 0..2]

\* A count from a failed conversion, too few validators, just enough.
AllCounts == {-1, 1, 2}

\* Two submitters with windows of two ticks; two hashes through queue and pool.
Limited == INSTANCE Submission WITH
    stopped <- halted, Hash <- {zero, h1}, BadHash <- {zero}, Submitter <- {s1, s2},
    Limits <- {1, 2}, WindowDur <- 2, MaxTotalPending <- 2, MaxTracked <- 2, MaxTime <- 2,
    MaxAborts <- 0, MaxBlocks <- 1, MaxResets <- 1

Queue == INSTANCE Submission WITH
    stopped <- halted, Hash <- {h1, h2}, BadHash <- {}, Submitter <- {s1},
    Limits <- {2}, WindowDur <- 2, MaxTotalPending <- 2, MaxTracked <- 2, MaxTime <- 0,
    MaxAborts <- 2, MaxBlocks <- 1, MaxResets <- 0

\* Identities that one check after the other refuses; one caller at a limit of two;
\* one caller whose earlier entry fills the queue, for liveness.
Checks == INSTANCE ApiServers WITH
    calls <- requests, queue <- apiQueue, anchored <- apiAnchored,
    Caller <- {c1, c2}, Hash <- {zero, h1}, ZeroHash <- zero, Root <- {node, known, other},
    Keys <- {node, known}, AllowedRoots <- {node}, Registered <- {node}, Skews <- {-2, 1},
    MaxSkew <- 1, MaxReq <- 1, WindowDur <- 1, WaitMax <- 1, MaxTotalPending <- 1

Windowed == INSTANCE ApiServers WITH
    calls <- requests, queue <- apiQueue, anchored <- apiAnchored,
    Caller <- {c0}, Hash <- {zero, h1}, ZeroHash <- zero, Root <- {node},
    Keys <- {node}, AllowedRoots <- {node}, Registered <- {node}, Skews <- {0},
    MaxSkew <- 1, MaxReq <- 2, WindowDur <- 2, WaitMax <- 2, MaxTotalPending <- 1

Answers == INSTANCE ApiServers WITH
    calls <- requests, queue <- apiQueue, anchored <- apiAnchored,
    Caller <- {c0}, Hash <- {zero, h1}, ZeroHash <- zero, Root <- {node},
    Keys <- {node}, AllowedRoots <- {node}, Registered <- {node}, Skews <- {0},
    MaxSkew <- 1, MaxReq <- 1, WindowDur <- 1, WaitMax <- 2, MaxTotalPending <- 1

\* Every peer list of up to two entries against some key directories.
Identities == {self, p1, p2}

PeerEntries == [addr : {"a0", "a1", "a2"}, file : {"bare", "missing", "garbage"} \cup Identities]

PeerLists ==
    {[given |-> FALSE, entries |-> <<>>]}
        \cup [given : {TRUE}, entries : UNION {[1..n -> PeerEntries] : n \in 0..2}]

KeyDirs ==
    [readable : {FALSE}, files : {{}}]
        \cup [readable : {TRUE},
              files : {{}, {"garbage"}, {"garbage", self}, {p1}, {p2}, {p1, p2}}]

Started == INSTANCE Daemon WITH
    Self <- self, Peer <- {p1, p2}, SelfAddr <- "a0", Simulated <- {p2},
    Specs <- PeerLists, Dirs <- KeyDirs, Client <- {}

\* A node alone and one with a peer, with clients in calls.
Stopped == INSTANCE Daemon WITH
    Self <- self, Peer <- {p1, p2}, SelfAddr <- "a0", Simulated <- {self},
    Specs <- [given : {TRUE}, entries : {<<[addr |-> "a1", file |-> p1]>>}]
                 \cup [given : {FALSE}, entries : {<<>>}],
    Dirs <- [readable : {TRUE}, files : {{}}], Client <- {c1, c2}

\* Chains of up to five blocks, with indices of three bits.
Streams == INSTANCE NodeReads WITH
    blocks <- chainBlocks, call <- request, Key <- {k1}, IndexWidth <- 3,
    MaxStream <- 3, Buffer <- 1, MaxBlocks <- 5

-----------------------------------------------------------------------------
MandateRule(class, mandatory, required, deferral) ==
    [class |-> class, mandatory |-> mandatory, required |-> required, deferral |-> deferral]

Claim(label, at, fields) == [label |-> label, at |-> at, fields |-> fields]

ClaimBlocks ==
    {<<>>, <<Claim("a", 3, {"f"}), Claim("b", 5, {})>>,
     <<Claim("a", 5, {}), Claim("a", 4, {"f"}), Claim("a", 6, {"f"})>>}

\* Deferrals of zero, one and three seconds, and beyond what an int64 can hold.
Report == INSTANCE Compliance WITH
    chain <- queried, MaxInt <- 15, Second <- 2, MaxCount <- 3, MaxBuckets <- 6,
    Mandate <- {<<MandateRule("a", TRUE, {"f"}, d), MandateRule("", m, {}, 3)>> :
                   d \in {0, 1, 3, 15}, m \in BOOLEAN},
    Window <- [start : {0, 1, 3}, end : {1, 6, 8}, startCycle : 0..1, endCycle : 0..1],
    Chain <- {<<>>} \cup {<<b, c>> : b, c \in ClaimBlocks}

\* What the parts assume of their constants.
ASSUME
    /\ Limited!SubmissionAssumption /\ Queue!SubmissionAssumption
    /\ Checks!ApiAssumption /\ Windowed!ApiAssumption /\ Answers!ApiAssumption
    /\ Started!DaemonAssumption /\ Stopped!DaemonAssumption
    /\ Streams!ReadsAssumption /\ Report!ComplianceAssumption

-----------------------------------------------------------------------------
\* A part that does not run keeps one of its initial states.
Init ==
    /\ part \in Parts
    /\ SubInit
    /\ part # "publisher" => /\ config = CHOOSE cfg \in Configs : TRUE
                             /\ publishers = NewAnchorPublisher(config, FALSE)
    /\ PublisherInit
    /\ DegInit
    /\ IF part = "limits" THEN Limited!SubInit ELSE Queue!SubInit
    /\ IF part = "checks" THEN Checks!ApiInit
       ELSE IF part = "window" THEN Windowed!ApiInit ELSE Answers!ApiInit
    /\ part \notin {"start", "stop"} =>
           spec = [given |-> FALSE, entries |-> <<>>] /\ allowSimulated = FALSE
    /\ IF part = "start" THEN Started!DaemonInit ELSE Stopped!DaemonInit
    /\ Streams!ReadsInit
    /\ part # "compliance" =>
           /\ mandate = <<MandateRule("a", TRUE, {"f"}, 0), MandateRule("", TRUE, {}, 3)>>
           /\ window = [start |-> 0, end |-> 1, startCycle |-> 0, endCycle |-> 0]
           /\ queried = <<>>
    /\ Report!CompInit

\* One definition per part: what runs, and what stands still.
SubChains ==
    /\ part = "subchain" /\ SubNext
    /\ UNCHANGED <<part, vars, degVars, submission, api, daemon, reads, compliance>>

Publication ==
    /\ part = "publisher" /\ PublisherNext
    /\ UNCHANGED <<part, subVars, degVars, submission, api, daemon, reads, compliance>>

Switching ==
    /\ part = "degraded" /\ DegNext
    /\ UNCHANGED <<part, subVars, vars, submission, api, daemon, reads, compliance>>

Submitting ==
    /\ \/ part = "limits" /\ Limited!SubNext
       \/ part = "queue" /\ Queue!SubNext
    /\ UNCHANGED <<part, subVars, vars, degVars, api, daemon, reads, compliance>>

Serving ==
    /\ \/ part = "checks" /\ Checks!ApiNext
       \/ part = "window" /\ Windowed!ApiNext
       \/ part = "answers" /\ Answers!ApiNext
    /\ UNCHANGED <<part, subVars, vars, degVars, submission, daemon, reads, compliance>>

Running ==
    /\ \/ part = "start" /\ Started!DaemonNext
       \/ part = "stop" /\ Stopped!DaemonNext
    /\ UNCHANGED <<part, subVars, vars, degVars, submission, api, reads, compliance>>

Reading ==
    /\ part = "streams" /\ Streams!StreamNext
    /\ UNCHANGED <<part, subVars, vars, degVars, submission, api, daemon, compliance>>

Reporting ==
    /\ part = "compliance" /\ Report!CompNext
    /\ UNCHANGED <<part, subVars, vars, degVars, submission, api, daemon, reads>>

Next ==
    \/ SubChains
    \/ Publication
    \/ Switching
    \/ Submitting
    \/ Serving
    \/ Running
    \/ Reading
    \/ Reporting

Spec == Init /\ [][Next]_serviceVars

\* The entries of sub-chains are alike, and so are two callers.
Symmetry == Permutations(Entry) \cup Permutations({c1, c2})

\* The fairness of each part, as its module states it.
FairServices ==
    /\ Spec
    /\ WF_vars(part = "publisher" /\ FsWrite) /\ WF_vars(part = "publisher" /\ FsRename)
    /\ WF_vars(part = "publisher" /\ IpfsPublish)
    /\ WF_vars(part = "publisher" /\ PublishReturns)
    /\ \A h \in {h1, h2} : WF_submission(part = "queue" /\ Queue!Poll(h))
    /\ WF_api(part = "answers" /\ Answers!Tick)
    /\ WF_api(part = "answers" /\ Answers!RestStep(c0))
    /\ WF_api(part = "answers" /\ Answers!WaitStep(c0))
    /\ WF_daemon(part = "stop" /\ Stopped!MainStep) /\ WF_daemon(part = "stop" /\ Stopped!Notify)
    /\ WF_daemon(part = "stop" /\ Stopped!GracefulStop)
    /\ WF_daemon(part = "stop" /\ Stopped!CycleEnds) /\ SF_daemon(part = "stop" /\ Stopped!StopEngine)
    /\ \A c \in {c1, c2} : /\ WF_daemon(part = "stop" /\ Stopped!Finish(c, "rpc"))
                           /\ WF_daemon(part = "stop" /\ Stopped!Finish(c, "http"))
    /\ WF_reads(part = "streams" /\ (Streams!Open \/ Streams!GetNext \/ Streams!Send))
    /\ WF_reads(part = "streams" /\ Streams!Receive)
    /\ WF_compliance(part = "compliance" /\ Report!CompNext)

-----------------------------------------------------------------------------
\* What is let in, charged and answered agree.  However the window slides, no submitter
\* gets more than its limit in, and a refusal costs nothing; what a request is answered
\* by either API is what it did to the engine; and of an identity whose REST requests
\* follow one another no more than the limit pass (Allow, Enqueue, Submit, handleSubmit,
\* SubmitHash, perRootLimiter).
AdmissionExact ==
    /\ IF part = "limits" THEN Limited!SubTypeOK ELSE Queue!SubTypeOK
    /\ part = "limits" => Limited!WindowLimited /\ Limited!RefusalsCostNothing
    /\ part = "checks" => Checks!ApiTypeOK /\ Checks!AnswerMatchesEffect
    /\ part = "window" => Windowed!WindowLimited

\* A Publish that returned no error returned enough anchors of different backends, a
\* file one names holds the block and an identifier verifies it; and publishing, which
\* holds up the next cycle, ends where the backends return (Publish, VerifyAnchorCID).
PublisherServes ==
    /\ [](AnchorsHold /\ CIDVerifies)
    /\ PublishEnds

\* A call that waits for an anchored entry is answered unless its context is done first,
\* also on an engine that was stopped, and every REST request is answered; meanwhile an
\* entry that is held is copied by an abort only (WaitForAnchor, handleSubmit, the early
\* returns of RunCycle).
CallsAnswered ==
    /\ Queue!OnlyAbortsCopy
    /\ Queue!WaitersAnswered
    /\ Answers!RestAnswered

\* A daemon that takes calls runs with the peer list its flags name and no simulated
\* identity it was not allowed; no gRPC call is cut off by the engine stopping under it,
\* and after a signal the process ends, cycles running on meanwhile, unless a client
\* keeps it in a wait for an anchor (parsePeers, loadKeysDir, main, Engine.Stop).
DaemonRuns ==
    /\ [](part = "start" =>
             Started!DaemonTypeOK /\ Started!RunsAsConfigured /\ Started!OnlyProductionKeys)
    /\ [](part = "stop" => Stopped!DaemonTypeOK /\ Stopped!CallsKeepEngine)
    /\ part = "stop" => Stopped!EndsUnlessAwaited

\* A stream carries consecutive blocks from the index asked for, near the largest index
\* too, every one that was there when it was opened unless it is cancelled or reaches
\* MaxStream, and it ends, its caller reading on or gone (StreamBlocks).
StreamsWhole ==
    /\ [](part = "streams" =>
             Streams!ReadsTypeOK /\ Streams!StreamBounded /\ Streams!StreamWhole)
    /\ part = "streams" => Streams!StreamEnds

\* Where no addition overflows a compliance query is answered, its buckets leave no time
\* out, do not overlap and are no longer than the deferral, and the report has one
\* expectation for each and a gap where no complete entry falls into it (expectedEvents,
\* CheckComplianceMandate).
ReportExact ==
    /\ []Report!CompTypeOK
    /\ [](part = "compliance" => Report!TiledInRange /\ Report!ReportExact)
    /\ part = "compliance" => Report!AnsweredInRange

=============================================================================
