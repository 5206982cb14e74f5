---------------------------- MODULE Submission ----------------------------
(***************************************************************************)
(* The entry points of one engine (pkg/consensus engine.go, api.go,        *)
(* ratelimit.go): Enqueue and Submit with their limits, WaitForAnchor, and *)
(* what a cycle does to the queues.  Every operation holds e.mu, RunCycle  *)
(* for the whole cycle, so each is one step.  Which batch a cycle commits  *)
(* is the network's decision: here any batch of submitted hashes.          *)
(*                                                                         *)
(* An entry is its hash.  Time is counted in ticks; a window is WindowDur  *)
(* of them.                                                                *)
(***************************************************************************)
EXTENDS Naturals, Sequences, FiniteSets, SequencesExt, FiniteSetsExt

CONSTANTS
    Hash,
    Submitter,
    BadHash,           \* hashes that validateEntry refuses: the zero hash
    Limits,            \* the values MaxPendingPerSubmitter is set to
    WindowDur,
    MaxTotalPending,
    MaxTracked,        \* the number of submitters the documentation allows
    MaxTime,           \* bound: ticks
    MaxAborts,         \* bound: aborted cycles
    MaxBlocks,         \* bound: committed cycles
    MaxResets          \* bound: calls of SetAPILimits

\* What the constants must satisfy.
SubmissionAssumption ==
    /\ IsFiniteSet(Hash) /\ IsFiniteSet(Submitter)
    /\ Limits \subseteq Nat \ {0}
    /\ WindowDur \in Nat \ {0}
    /\ {MaxTotalPending, MaxTracked, MaxTime, MaxAborts, MaxBlocks, MaxResets} \subseteq Nat

VARIABLES
    now,
    limiter,           \* maxPerWindow and the window of each tracked submitter
    pending,           \* e.pending
    retained,          \* e.pendingEntries
    pool,              \* the entries on the bus
    chain,             \* the batch of each block, in order
    waits,             \* what became of a call of WaitForAnchor per hash
    stopped,
    accepted,          \* history: [by, at] of what the present limiter let in
    used               \* how much of each bound is used up

subVars == <<now, limiter, pending, retained, pool, chain, waits, stopped, accepted, used>>

queueVars == <<pending, retained, pool, chain>>

Anchored == UNION Range(chain)

\* NewSubmitterLimiter: nothing tracked.
NewSubmitterLimiter(max) == [max |-> max, windows |-> [s \in {} |-> <<>>]]

SubInit ==
    /\ now = WindowDur
    /\ limiter \in {NewSubmitterLimiter(m) : m \in Limits}
    /\ pending = <<>>
    /\ retained = <<>>
    /\ pool = {}
    /\ chain = <<>>
    /\ waits = [h \in Hash |-> "none"]
    /\ stopped = FALSE
    /\ accepted = <<>>
    /\ used = [aborts |-> 0, resets |-> 0]

Tick ==
    /\ now < WindowDur + MaxTime
    /\ now' = now + 1
    /\ UNCHANGED <<limiter, queueVars, waits, stopped, accepted, used>>

-----------------------------------------------------------------------------
\* The times of a submitter's window that are after the cutoff.
Valid(s) ==
    IF s \in DOMAIN limiter.windows
    THEN SelectSeq(limiter.windows[s], LAMBDA t : t > now - WindowDur)
    ELSE <<>>

Allows(s) == Len(Valid(s)) < limiter.max

\* What Allow leaves behind: a window for the submitter, without the times that
\* are past, and with the present one if the call is allowed.
Allow(s) ==
    [limiter EXCEPT !.windows =
        [t \in DOMAIN @ \cup {s} |->
            IF t # s THEN @[t] ELSE IF Allows(s) THEN Append(Valid(s), now) ELSE Valid(s)]]

\* A submission that is refused: the engine is stopped, the entry is not valid,
\* the queue is full, or the limiter says no.  Only the last one is recorded.
Refused(h, s) ==
    \/ /\ \/ h \in BadHash
          \/ stopped
          \/ Len(pending) >= MaxTotalPending
       /\ UNCHANGED limiter
    \/ /\ h \notin BadHash /\ ~stopped /\ Len(pending) < MaxTotalPending
       /\ ~Allows(s)
       /\ limiter' = Allow(s)

Refuse(h, s) ==
    /\ Refused(h, s)
    /\ UNCHANGED <<now, queueVars, waits, stopped, accepted, used>>

\* The checks and effects that Enqueue and Submit share.
Accept(h, s) ==
    /\ h \notin BadHash
    /\ ~stopped
    /\ Len(pending) < MaxTotalPending
    /\ Allows(s)
    /\ limiter' = Allow(s)
    /\ pending' = Append(pending, h)
    /\ accepted' = Append(accepted, [by |-> s, at |-> now])
    /\ UNCHANGED <<now, retained, chain, waits, stopped, used>>

\* Enqueue publishes the entry, Submit does not.
Enqueue(h, s) == Accept(h, s) /\ pool' = pool \cup {h}

Submit(h, s) == Accept(h, s) /\ UNCHANGED pool

\* Limits take effect with a new limiter, which has forgotten every window.
SetAPILimits(max) ==
    /\ used.resets < MaxResets
    /\ used' = [used EXCEPT !.resets = @ + 1]
    /\ limiter' = NewSubmitterLimiter(max)
    /\ accepted' = <<>>
    /\ UNCHANGED <<now, queueVars, waits, stopped>>

Stop ==
    /\ ~stopped
    /\ stopped' = TRUE
    /\ UNCHANGED <<now, limiter, queueVars, waits, accepted, used>>

\* A peer publishes an entry of its own.
PeerPublish(h) ==
    /\ h \notin pool \cup BadHash
    /\ pool' = pool \cup {h}
    /\ UNCHANGED <<now, limiter, pending, retained, chain, waits, stopped, accepted, used>>

-----------------------------------------------------------------------------
\* The retained entries once the pool is ingested: those known are left out.
Ingested == retained \o SetToSeq(pool \ (Range(retained) \cup Range(pending)))

\* What an aborted cycle retains.  e.pending stays as it is.
AllPending == Ingested \o pending

\* Any failure of the cycle.  A cycle with nothing pending changes no queue.
AbortCycle ==
    /\ AllPending # <<>>
    /\ used.aborts < MaxAborts
    /\ used' = [used EXCEPT !.aborts = @ + 1]
    /\ retained' = AllPending
    /\ UNCHANGED <<now, limiter, pending, pool, chain, waits, stopped, accepted>>

CommitCycle(batch) ==
    /\ AllPending # <<>>
    /\ batch # {} /\ batch \subseteq Range(AllPending)
    /\ Len(chain) < MaxBlocks
    /\ retained' = SelectSeq(Ingested, LAMBDA h : h \notin batch)
    /\ pending' = <<>>
    /\ chain' = Append(chain, batch)
    /\ pool' = pool \ batch
    /\ UNCHANGED <<now, limiter, waits, stopped, accepted, used>>

\* WaitForAnchor polls the anchored map on every tick of its ticker until the
\* caller's context is done.
WaitForAnchor(h) ==
    /\ waits[h] = "none"
    /\ waits' = [waits EXCEPT ![h] = "waiting"]
    /\ UNCHANGED <<now, limiter, queueVars, stopped, accepted, used>>

\* Mutant: the map is looked at only while the engine runs.
PollRunning(h) ==
    /\ waits[h] = "waiting"
    /\ ~stopped
    /\ h \in Anchored
    /\ waits' = [waits EXCEPT ![h] = "proof"]
    /\ UNCHANGED <<now, limiter, queueVars, stopped, accepted, used>>

Poll(h) ==
    /\ waits[h] = "waiting"
    /\ h \in Anchored
    /\ waits' = [waits EXCEPT ![h] = "proof"]
    /\ UNCHANGED <<now, limiter, queueVars, stopped, accepted, used>>

ContextDone(h) ==
    /\ waits[h] = "waiting"
    /\ waits' = [waits EXCEPT ![h] = "cancelled"]
    /\ UNCHANGED <<now, limiter, queueVars, stopped, accepted, used>>

SubNext ==
    \/ Tick
    \/ \E h \in Hash, s \in Submitter : Enqueue(h, s) \/ Submit(h, s) \/ Refuse(h, s)
    \/ \E m \in Limits : SetAPILimits(m)
    \/ Stop
    \/ \E h \in Hash : PeerPublish(h)
    \/ AbortCycle
    \/ \E batch \in SUBSET Hash : CommitCycle(batch)
    \/ \E h \in Hash : WaitForAnchor(h) \/ Poll(h) \/ ContextDone(h)

SubSpec == SubInit /\ [][SubNext]_subVars

\* The ticker of a waiting call keeps ticking, and e.mu is not held for ever.
SubFairSpec == SubSpec /\ \A h \in Hash : WF_subVars(Poll(h))

-----------------------------------------------------------------------------
\* The types of the queues and of the limiter (engine.go, ratelimit.go).
SubTypeOK ==
    /\ now \in WindowDur .. WindowDur + MaxTime
    /\ limiter.max \in Limits
    /\ DOMAIN limiter.windows \subseteq Submitter
    /\ \A s \in DOMAIN limiter.windows : limiter.windows[s] \in Seq(Nat)
    /\ pending \in Seq(Hash \ BadHash) /\ retained \in Seq(Hash \ BadHash)
    /\ pool \subseteq Hash \ BadHash
    /\ chain \in Seq(SUBSET Hash)
    /\ waits \in [Hash -> {"none", "waiting", "proof", "cancelled"}]

Count(s, from, to) ==
    Cardinality({i \in DOMAIN accepted :
        accepted[i].by = s /\ from < accepted[i].at /\ accepted[i].at <= to})

\* However the window slides, no submitter gets more than maxPerWindow entries
\* in within WindowDur, counted since the limits were set (Allow).
WindowLimited ==
    \A s \in Submitter : \A t \in WindowDur .. now :
        Count(s, t - WindowDur, t) <= limiter.max

\* A submitter is charged for what was accepted and for nothing else: a refusal,
\* by the queue or by the limiter, never makes a later one more likely (the order
\* of the checks in Enqueue and Submit, the early return of Allow).
RefusalsCostNothing ==
    \A s \in DOMAIN limiter.windows : Len(Valid(s)) = Count(s, now - WindowDur, now)

Copies(h) == Cardinality({i \in DOMAIN retained : retained[i] = h})

Submissions(h) == Cardinality({i \in DOMAIN pending : pending[i] = h})

\* An abort retains e.pending and leaves it in place, so the next abort retains
\* it again.  Nothing else adds a copy of an entry that is held already, and an
\* abort adds no more than what is pending (RunCycle, every early return, and
\* ingestGossipedEntriesLocked).
OnlyAbortsCopy ==
    [][\A h \in Hash :
        (Copies(h) > 0 /\ Copies(h)' > Copies(h)) =>
            /\ used'.aborts = used.aborts + 1
            /\ Copies(h)' = Copies(h) + Submissions(h)]_subVars

\* A call that waits for an entry that is anchored is answered, unless its
\* context is done first, also on an engine that was stopped (WaitForAnchor).
WaitersAnswered ==
    \A h \in Hash : (waits[h] = "waiting" /\ h \in Anchored) ~> (waits[h] # "waiting")

\* "LRU eviction (max 10k tracked submitters); no unbounded map growth".
TrackedBounded == Cardinality(DOMAIN limiter.windows) <= MaxTracked

\* "Resubmit same hash after anchoring -> should be rejected": no hash is
\* anchored by two blocks.
AnchoredOnce ==
    \A i, j \in DOMAIN chain : i # j => chain[i] \cap chain[j] = {}

=============================================================================
