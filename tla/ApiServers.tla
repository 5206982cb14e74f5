---------------------------- MODULE ApiServers ----------------------------
(***************************************************************************)
(* The submission side of a node's two APIs, REST (pkg/rest/server.go) and *)
(* gRPC (pkg/server/server.go with client/client.go), over its engine.     *)
(* Handlers run concurrently, one goroutine per request.  A REST request   *)
(* passes authentication, the limiter per identity, validation, Enqueue    *)
(* and a wait for its anchor; over gRPC submission and wait are two calls. *)
(*                                                                         *)
(* Time is relative: the limiter's entries and the waits have ages, which  *)
(* a tick advances.  An entry is its hash; credentials are what the checks *)
(* of a request can tell apart.                                            *)
(***************************************************************************)
EXTENDS Integers, Sequences, FiniteSets, SequencesExt

CONSTANTS
    Caller,
    Hash,
    ZeroHash,          \* the hash that validation refuses
    Root,              \* identities
    Keys,              \* s.keys: identities the REST server can verify
    AllowedRoots,      \* s.allowedRoots: the whitelist, empty if there is none
    Registered,        \* identities of the gRPC server's registry
    Skews,             \* request timestamps relative to the node's clock
    MaxSkew,           \* maxTimestampSkew
    MaxReq,            \* requests per window and identity
    WindowDur,
    WaitMax,           \* the time REST waits for an anchor
    MaxTotalPending

\* What the constants must satisfy.
ApiAssumption ==
    /\ ZeroHash \in Hash /\ Skews \subseteq Int
    /\ Keys \cup AllowedRoots \cup Registered \subseteq Root
    /\ {MaxSkew, MaxReq, WindowDur, WaitMax, MaxTotalPending} \subseteq Nat \ {0}

VARIABLES
    calls,             \* what each caller's request is at
    windows,           \* rl.windows: the ages of the entries of each identity
    queue,             \* e.pending
    pooled,            \* entries the gossip pool alone still holds
    anchored,          \* the keys of e.anchored
    stopped,           \* e.stopped
    admitted           \* history: ages of what the limiter let through, up to one too many

apiVars == <<calls, windows, queue, pooled, anchored, stopped, admitted>>

engineVars == <<queue, pooled, anchored, stopped>>

Idle == [at |-> "idle"]

ApiInit ==
    /\ calls = [c \in Caller |-> Idle]
    /\ windows = [r \in Root |-> <<>>]
    /\ queue = <<>>
    /\ pooled = {}
    /\ anchored = {}
    /\ stopped = FALSE
    /\ admitted = [r \in Root |-> <<>>]

\* The answer to a request that is over; queued says what it did to the engine.
Answered(kind, h, code, queued) ==
    [at |-> "answered", kind |-> kind, hash |-> h, code |-> code, queued |-> queued]

---------------------------------------------------------------------------
(* The engine. *)

\* Enqueue's checks in order, and the error of each.
Enqueue(h) ==
    IF stopped THEN "ErrEngineStopped"
    ELSE IF h = ZeroHash THEN "ErrInvalidHash"
    ELSE IF Len(queue) >= MaxTotalPending THEN "ErrRateLimited"
    ELSE "nil"

\* FromError: only the errors of validateEntry are wrapped with a code.
FromError(err) == IF err = "ErrInvalidHash" THEN "INVALID_HASH" ELSE ""

EnqueueCode(h) == IF Enqueue(h) = "nil" THEN "ok" ELSE FromError(Enqueue(h))

Held == Range(queue) \cup pooled

\* Mutant: what the block leaves out is cleared with the rest.
CommitDropping ==
    /\ Held # {}
    /\ \E block \in SUBSET Held : anchored' = anchored \cup block
    /\ queue' = <<>>
    /\ pooled' = {}
    /\ UNCHANGED <<calls, windows, stopped, admitted>>

\* A block of the network carries any of the entries.  e.pending is cleared whole, and
\* what the block left out stays in the pool.  RunCycle does not look at stopped.
Commit ==
    /\ Held # {}
    /\ \E block \in SUBSET Held :
          /\ anchored' = anchored \cup block
          /\ pooled' = Held \ block
    /\ queue' = <<>>
    /\ UNCHANGED <<calls, windows, stopped, admitted>>

Stop ==
    /\ ~stopped
    /\ stopped' = TRUE
    /\ UNCHANGED <<calls, windows, queue, pooled, anchored, admitted>>

---------------------------------------------------------------------------
(* REST. *)

\* authenticate: the checks in order, and the code withAuth answers for each.
authenticate(cr) ==
    IF ~cr.headers THEN "INVALID_SIGNATURE"
    ELSE IF cr.skew > MaxSkew \/ -cr.skew > MaxSkew THEN "STALE_TIMESTAMP"
    ELSE IF cr.root \notin Keys THEN "UNKNOWN_ROOT"
    ELSE IF AllowedRoots # {} /\ cr.root \notin AllowedRoots THEN "UNKNOWN_ROOT"
    ELSE IF ~cr.signed THEN "INVALID_SIGNATURE"
    ELSE "ok"

Credentials == [headers : BOOLEAN, skew : Skews, root : Root, signed : BOOLEAN]

\* A request arrives and is authenticated; Allow then takes the window under the
\* limiter's lock, and reads what is valid in it after the lock is released.
Valid(ages) == SelectSeq(ages, LAMBDA a : a <= WindowDur)

RestRequest(c, kind, h, cr) ==
    /\ calls[c] = Idle
    /\ calls' = [calls EXCEPT ![c] =
                   IF authenticate(cr) = "ok"
                   THEN [at |-> "allow", kind |-> kind, hash |-> h, root |-> cr.root,
                         valid |-> Valid(windows[cr.root])]
                   ELSE Answered(kind, h, authenticate(cr), FALSE)]
    /\ UNCHANGED <<windows, engineVars, admitted>>

\* Allow writes back what it read,
StoreWindow(c) ==
    /\ calls[c].at = "allow"
    /\ windows' = [windows EXCEPT ![calls[c].root] = calls[c].valid]
    /\ calls' = [calls EXCEPT ![c].at = "count"]
    /\ UNCHANGED <<engineVars, admitted>>

\* and admits the request if the window it then finds has room.
RoomInWindow(ages) == Len(ages) < MaxReq

CountRequest(c) ==
    /\ calls[c].at = "count"
    /\ LET r == calls[c].root IN
         IF RoomInWindow(windows[r])
         THEN /\ windows' = [windows EXCEPT ![r] = Append(@, 0)]
              /\ admitted' = [admitted EXCEPT ![r] = IF Len(@) > MaxReq THEN @ ELSE Append(@, 0)]
              /\ calls' = [calls EXCEPT ![c].at = "handle"]
         ELSE /\ calls' = [calls EXCEPT ![c] =
                             Answered(calls[c].kind, calls[c].hash, "RATE_LIMITED", FALSE)]
              /\ UNCHANGED <<windows, admitted>>
    /\ UNCHANGED engineVars

\* handleSubmit up to the wait.  Codes of validation pass through; any other
\* refusal of Enqueue is an internal error.
RestCode(code) == IF code = "" THEN "INTERNAL_ERROR" ELSE code

WaitForEver == -1

RestDeadline == WaitMax

handleSubmit(c) ==
    /\ calls[c].at = "handle" /\ calls[c].kind = "submit"
    /\ LET h == calls[c].hash IN
         IF EnqueueCode(h) = "ok"
         THEN /\ queue' = Append(queue, h)
              /\ calls' = [calls EXCEPT ![c] = [at |-> "waiting", kind |-> "submit", hash |-> h,
                                                left |-> RestDeadline]]
         ELSE /\ calls' = [calls EXCEPT ![c] = Answered("submit", h, RestCode(EnqueueCode(h)), FALSE)]
              /\ UNCHANGED queue
    /\ UNCHANGED <<windows, pooled, anchored, stopped, admitted>>

handleVerify(c) ==
    /\ calls[c].at = "handle" /\ calls[c].kind = "verify"
    /\ calls' = [calls EXCEPT ![c] = Answered("verify", calls[c].hash,
                   IF calls[c].hash \in anchored THEN "proof" ELSE "NOT_FOUND", FALSE)]
    /\ UNCHANGED <<windows, engineVars, admitted>>

---------------------------------------------------------------------------
(* gRPC. *)

\* authenticateSubmit: the registry, then the signature.
authenticateSubmit(root, signature) ==
    IF root \notin Registered THEN "SUBMITTER_MISMATCH"
    ELSE IF signature # "good" THEN "INVALID_SIGNATURE"
    ELSE "ok"

\* SubmitHash, and Submit of the client, which returns the code in its ticket.
SubmitHash(c, root, signature, h) ==
    /\ calls[c] = Idle
    /\ LET auth == authenticateSubmit(root, signature)
           code == IF auth = "ok" THEN EnqueueCode(h) ELSE auth
       IN  /\ queue' = IF code = "ok" THEN Append(queue, h) ELSE queue
           /\ calls' = [calls EXCEPT ![c] =
                          Answered("SubmitHash", h, IF code = "ok" THEN "pending" ELSE code,
                                   code = "ok")]
    /\ UNCHANGED <<windows, pooled, anchored, stopped, admitted>>

\* WaitForAnchor: bounded by the caller's context alone.
WaitForAnchor(c, h) ==
    /\ calls[c] = Idle
    /\ calls' = [calls EXCEPT ![c] = [at |-> "waiting", kind |-> "WaitForAnchor", hash |-> h,
                                      left |-> WaitForEver]]
    /\ UNCHANGED <<windows, engineVars, admitted>>

---------------------------------------------------------------------------
(* Waiting. *)

\* The poll finds the proof; or the context is done.  When both are ready the
\* select may take either.
FindProof(c) ==
    /\ calls[c].at = "waiting" /\ calls[c].hash \in anchored
    /\ calls' = [calls EXCEPT ![c] = Answered(calls[c].kind, calls[c].hash, "proof",
                                              calls[c].kind = "submit")]
    /\ UNCHANGED <<windows, engineVars, admitted>>

TimeOut(c) ==
    /\ calls[c].at = "waiting" /\ calls[c].left = 0
    /\ calls' = [calls EXCEPT ![c] = Answered(calls[c].kind, calls[c].hash, "QUEUE_FULL",
                                              calls[c].kind = "submit")]
    /\ UNCHANGED <<windows, engineVars, admitted>>

\* The caller reads the answer, and is free for the next request.
Done(c) ==
    /\ calls[c].at = "answered"
    /\ calls' = [calls EXCEPT ![c] = Idle]
    /\ UNCHANGED <<windows, engineVars, admitted>>

\* One unit of time: every age grows, up to one past what the window looks at.
Older(ages) == [i \in DOMAIN ages |-> IF ages[i] <= WindowDur THEN ages[i] + 1 ELSE ages[i]]

Tick ==
    /\ windows' = [r \in Root |-> Older(windows[r])]
    /\ admitted' = [r \in Root |-> Valid(Older(admitted[r]))]
    /\ calls' = [c \in Caller |->
                   IF calls[c].at = "waiting" /\ calls[c].left > 0
                   THEN [calls[c] EXCEPT !.left = @ - 1]
                   ELSE IF calls[c].at = "allow"
                   THEN [calls[c] EXCEPT !.valid = Older(@)]
                   ELSE calls[c]]
    /\ UNCHANGED engineVars

RestStep(c) == StoreWindow(c) \/ CountRequest(c) \/ handleSubmit(c) \/ handleVerify(c)

WaitStep(c) == FindProof(c) \/ TimeOut(c)

ApiNext ==
    \/ Commit \/ Stop \/ Tick
    \/ \E c \in Caller, h \in Hash :
         \/ \E kind \in {"submit", "verify"}, cr \in Credentials : RestRequest(c, kind, h, cr)
         \/ \E r \in Root, signature \in {"none", "bad", "good"} : SubmitHash(c, r, signature, h)
         \/ WaitForAnchor(c, h)
    \/ \E c \in Caller : RestStep(c) \/ WaitStep(c) \/ Done(c)

ApiSpec == ApiInit /\ [][ApiNext]_apiVars

\* Handlers run and time passes.  Nothing is assumed of the network.
FairSpec ==
    /\ ApiSpec
    /\ WF_apiVars(Tick)
    /\ \A c \in Caller : WF_apiVars(RestStep(c)) /\ WF_apiVars(WaitStep(c))

---------------------------------------------------------------------------
(* Properties. *)

\* The answers that say the entry was taken.  The end of a wait says neither.
Taken == {"pending", "proof"}

TimedOut == "QUEUE_FULL"

\* Requests, windows and the queue keep their shapes and bounds.
ApiTypeOK ==
    /\ queue \in Seq(Hash \ {ZeroHash}) /\ Len(queue) <= MaxTotalPending
    /\ anchored \cup pooled \subseteq Hash \ {ZeroHash}
    /\ \A c \in Caller : calls[c].at \in {"idle", "allow", "count", "handle", "waiting", "answered"}
    /\ \A r \in Root : \A i \in DOMAIN windows[r] : windows[r][i] \in 0..WindowDur + 1

(* What a submission is answered and what it did agree, whichever API it came  *)
(* by: one said to be taken was, one refused left nothing in the engine, and   *)
(* what was taken stays queued or in the pool until it is anchored, blocks that *)
(* leave it out and timed out waits between; a proof is of an anchored hash.   *)
AnswerMatchesEffect ==
    \A c \in Caller : calls[c].at = "answered" =>
        /\ calls[c].kind \in {"submit", "SubmitHash"} =>
             /\ calls[c].code \in Taken => calls[c].queued
             /\ calls[c].code \notin Taken \cup {TimedOut} => ~calls[c].queued
        /\ calls[c].queued => calls[c].hash \in Held \cup anchored
        /\ calls[c].code = "proof" => calls[c].hash \in anchored

(* Every REST request is answered: a submission waits for its anchor no longer *)
(* than its deadline, the engine stopped or not.                               *)
RestAnswered ==
    \A c \in Caller : calls[c].at = "allow" ~> calls[c].at = "answered"

(* The flag --rest-rate-limit: at most MaxReq requests of one identity are let *)
(* through in any window.                                                      *)
WindowLimited == \A r \in Root : Len(admitted[r]) <= MaxReq

(* The code QUEUE_FULL and the status "error" of the answer to a REST submission, *)
(* read as what they say: the entry was not taken, and may be sent again.      *)
ErrorMeansRefused ==
    \A c \in Caller : calls[c].at = "answered" /\ calls[c].code = TimedOut => ~calls[c].queued

(* The integration guide's table of error codes: a submission refused because  *)
(* there are too many is answered RATE_LIMITED.                                *)
RateLimitReported ==
    \A c \in Caller :
        calls[c].at = "answered" /\ calls[c].kind = "SubmitHash" /\ ~calls[c].queued /\ ~stopped
            => calls[c].code \in {"INVALID_SIGNATURE", "SUBMITTER_MISMATCH", "INVALID_HASH",
                                  "RATE_LIMITED"}

(* The integration guide: WaitForAnchor blocks up to its timeout, and returns. *)
WaitEnds == \A c \in Caller : calls[c].at = "waiting" ~> calls[c].at # "waiting"

=============================================================================
