------------------------------- MODULE Daemon -------------------------------
(***************************************************************************)
(* The node process, cmd/provenanced/main.go: what it is configured with,  *)
(* the order in which it brings its parts up, and how it comes down.       *)
(*                                                                         *)
(* main runs sequentially up to Serve and, after GracefulStop, through its *)
(* deferred calls in reverse order; log.Fatalf ends the process without    *)
(* them.  The REST listener, the signal handler and the engine's cycleLoop *)
(* are goroutines of their own.  grpc.Server and http.Server are external, modelled by what main   *)
(* relies on: GracefulStop refuses new calls and waits for the ones in     *)
(* flight, Serve returns after it, and fails if it was stopped before;     *)
(* Shutdown refuses new requests and waits for the ones in flight for the  *)
(* five seconds of its context.                                            *)
(***************************************************************************)
EXTENDS Integers, Sequences

CONSTANTS Self,       \* this node's identity
          Peer,       \* other identities
          SelfAddr,   \* this node's address, its node ID
          Simulated,  \* the identities derived for tests
          Specs,      \* values of --peers: whether one is given, and its entries
          Dirs,       \* contents of --rest-keys-dir
          Client      \* callers of the two servers

Identity == {Self} \cup Peer

\* What the constants must satisfy.
DaemonAssumption == Self \notin Peer /\ Simulated \subseteq Identity

VARIABLES spec, dir, allowSimulated,   \* the flags
          main,      \* where main is
          peers,     \* the engine's peer list; empty for a single node
          up,        \* the parts that are not stopped: bus, engine, grpc
          loop,      \* cycleLoop: off, waiting in its select, in a cycle, returned
          keys,      \* identities the REST server admits
          rest,      \* the REST goroutine: off, serving, shut
          handler,   \* the signal handler: off, waiting, stopping, done
          signalled, \* a signal was sent
          call       \* each client's call in flight

vars == <<spec, dir, allowSimulated, main, peers, up, loop, keys, rest, handler,
          signalled, call>>

flags == <<spec, dir, allowSimulated>>

Ended == {"exited", "fatal", "killed"}

-----------------------------------------------------------------------------
(* Configuration.                                                          *)

\* No "=", an unreadable file or not a UID; an address seen before; self.
Bad(s, i) ==
    \/ s.entries[i].file \notin Identity
    \/ s.entries[i].addr = SelfAddr
    \/ \E j \in 1 .. i - 1 : s.entries[j].addr = s.entries[i].addr
    \/ s.entries[i].file = Self

SelfPeer == [id |-> Self, addr |-> SelfAddr]

\* A list that leaves self to the caller.
PeersOnly(s) == [i \in 1 .. Len(s.entries) |->
                   [id |-> s.entries[i].file, addr |-> s.entries[i].addr]]

WithSelf(s) == <<SelfPeer>> \o PeersOnly(s)

\* parsePeers: an error for any bad entry and for a list with no entry.
ParseFails(s) == s.entries = <<>> \/ \E i \in DOMAIN s.entries : Bad(s, i)

parsePeers(s) == WithSelf(s)

MayServe(u, allow) == allow \/ u \notin Simulated

\* Only regular, readable files that hold a UID are looked at; the flag is the
\* one in effect after all the options.
loadKeysDir(d, allow) == {u \in d.files \cap Identity : MayServe(u, allow)}

-----------------------------------------------------------------------------
DaemonInit ==
    /\ spec \in Specs /\ dir \in Dirs /\ allowSimulated \in BOOLEAN
    /\ main = "start"
    /\ peers = <<>> /\ up = {} /\ loop = "off" /\ keys = {}
    /\ rest = "off" /\ handler = "off" /\ signalled = FALSE
    /\ call = [c \in Client |-> "none"]

Goto(l) == main' = l

\* The flags and the UID file; log.Fatalf on what is missing or malformed.
ReadIdentity ==
    /\ main = "start"
    /\ Goto("peers") \/ Goto("fatal")
    /\ UNCHANGED <<flags, loop, peers, up, keys, rest, handler, signalled, call>>

\* --peers, and the gossip bus that goes with it, which may fail to start.
JoinNetwork ==
    /\ main = "peers"
    /\ \/ /\ ~spec.given
          /\ Goto("server")
          /\ UNCHANGED <<peers, up>>
       \/ /\ spec.given /\ ~ParseFails(spec)
          /\ peers' = parsePeers(spec)
          /\ up' = up \cup {"bus"}
          /\ Goto("server")
       \/ /\ spec.given
          /\ Goto("fatal")
          /\ UNCHANGED <<peers, up>>
    /\ UNCHANGED <<flags, loop, keys, rest, handler, signalled, call>>

\* server.NewServer: the identity, and peers if and only if there is a bus.
\* The engine is started.
NewServer ==
    /\ main = "server"
    /\ IF MayServe(Self, allowSimulated) /\ (peers = <<>>) = ("bus" \notin up)
       THEN up' = up \cup {"engine"} /\ loop' = "waiting" /\ Goto("rest")
       ELSE Goto("fatal") /\ UNCHANGED <<up, loop>>
    /\ UNCHANGED <<flags, peers, keys, rest, handler, signalled, call>>

\* rest.NewServer: an unreadable directory is fatal, a bad file is not.
NewRest ==
    /\ main = "rest"
    /\ IF dir.readable /\ MayServe(Self, allowSimulated)
       THEN keys' = {Self} \cup loadKeysDir(dir, allowSimulated) /\ Goto("listen")
       ELSE Goto("fatal") /\ UNCHANGED keys
    /\ UNCHANGED <<flags, loop, peers, up, rest, handler, signalled, call>>

\* net.Listen, then the goroutines.
Listen ==
    /\ main = "listen"
    /\ Goto("serve") \/ Goto("fatal")
    /\ UNCHANGED <<flags, loop, peers, up, keys, rest, handler, signalled, call>>

\* Serve starts, or returns ErrServerStopped and is fatal.
Serve ==
    /\ main = "serve"
    /\ IF handler = "off" \/ handler = "waiting"
       THEN up' = up \cup {"grpc"} /\ Goto("serving")
       ELSE Goto("fatal") /\ UNCHANGED up
    /\ UNCHANGED <<flags, loop, peers, keys, rest, handler, signalled, call>>

\* The REST goroutine sets httpServer and serves, whenever it gets to run.
RestServe ==
    /\ main \in {"serve", "serving", "stopRest", "stopEngine", "stopBus", "return"}
    /\ rest = "off"
    /\ rest' = "serving"
    /\ UNCHANGED <<flags, loop, main, peers, up, keys, handler, signalled, call>>

\* The signal goroutine calls signal.Notify.
Notify ==
    /\ main \in {"serve", "serving"}
    /\ handler = "off"
    /\ handler' = "waiting"
    /\ UNCHANGED <<flags, loop, main, peers, up, keys, rest, signalled, call>>

\* SIGINT or SIGTERM: before Notify it ends the process.
Signal ==
    /\ main \notin Ended /\ ~signalled
    /\ signalled' = TRUE
    /\ IF handler = "off" THEN Goto("killed") ELSE UNCHANGED main
    /\ UNCHANGED <<flags, loop, peers, up, keys, rest, handler, call>>

GracefulStop ==
    /\ handler = "waiting" /\ signalled
    /\ main \notin Ended
    /\ handler' = "stopping"
    /\ UNCHANGED <<flags, loop, main, peers, up, keys, rest, signalled, call>>

InGrpc(c) == call[c] \in {"rpc", "await"}

\* Serve returns when GracefulStop has seen the last call end.
ServeReturns ==
    /\ main = "serving" /\ handler = "stopping"
    /\ \A c \in Client : ~InGrpc(c)
    /\ handler' = "done"
    /\ up' = up \ {"grpc"}
    /\ Goto("stopRest")
    /\ UNCHANGED <<flags, loop, peers, keys, rest, signalled, call>>

\* restSrv.Stop: nothing when the REST goroutine has not set httpServer yet;
\* otherwise Shutdown, which returns when the requests are done or after its
\* timeout with requests still in flight.
StopRest ==
    /\ main = "stopRest"
    /\ rest' = IF rest = "off" THEN "off" ELSE "shut"
    /\ Goto("stopEngine")
    /\ UNCHANGED <<flags, loop, peers, up, keys, handler, signalled, call>>

\* Engine.Stop waits for e.mu, which a cycle holds, sets stopped and cancels the
\* context.  It does not wait for cycleLoop.
StopEngine ==
    /\ main = "stopEngine"
    /\ loop # "cycle"
    /\ up' = up \ {"engine"}
    /\ Goto("stopBus")
    /\ UNCHANGED <<flags, loop, peers, keys, rest, handler, signalled, call>>

CloseBus ==
    /\ main = "stopBus"
    /\ up' = up \ {"bus"}
    /\ Goto("return")
    /\ UNCHANGED <<flags, loop, peers, keys, rest, handler, signalled, call>>

\* main returns, and with it every goroutine ends.
Exit ==
    /\ main = "return"
    /\ Goto("exited")
    /\ UNCHANGED <<flags, loop, peers, up, keys, rest, handler, signalled, call>>

-----------------------------------------------------------------------------
(* cycleLoop.                                                              *)

LoopTo(l) ==
    /\ main \notin Ended
    /\ loop' = l
    /\ UNCHANGED <<flags, main, peers, up, keys, rest, handler, signalled, call>>

\* The select takes a tick, also one that is ready when the context is done:
\* RunCycle does not look at stopped.
TakeTick == loop = "waiting" /\ LoopTo("cycle")

CycleEnds == loop = "cycle" /\ LoopTo("waiting")

\* The select takes the cancelled context.
LoopReturns == loop = "waiting" /\ main \in {"stopBus", "return"} /\ LoopTo("returned")

-----------------------------------------------------------------------------
(* Callers.  A gRPC call either returns by itself or, as WaitForAnchor does, *)
(* waits for something that may never happen.                              *)

\* No call is taken once GracefulStop or Shutdown has begun.
Accepts(kind) ==
    CASE kind \in {"rpc", "await"} -> "grpc" \in up /\ handler \in {"off", "waiting"}
      [] kind = "http" -> rest = "serving" /\ main \notin Ended

Begin(c, kind) ==
    /\ call[c] = "none"
    /\ Accepts(kind)
    /\ call' = [call EXCEPT ![c] = kind]
    /\ UNCHANGED <<flags, loop, main, peers, up, keys, rest, handler, signalled>>

Finish(c, kind) ==
    /\ call[c] = kind
    /\ main \notin Ended
    /\ call' = [call EXCEPT ![c] = "none"]
    /\ UNCHANGED <<flags, loop, main, peers, up, keys, rest, handler, signalled>>

MainStep ==
    \/ ReadIdentity \/ JoinNetwork \/ NewServer \/ NewRest \/ Listen \/ Serve
    \/ ServeReturns \/ StopRest \/ StopEngine \/ CloseBus \/ Exit

DaemonNext ==
    \/ MainStep \/ RestServe \/ Notify \/ Signal \/ GracefulStop
    \/ TakeTick \/ CycleEnds \/ LoopReturns
    \/ \E c \in Client, kind \in {"rpc", "await", "http"} : Begin(c, kind) \/ Finish(c, kind)

DaemonSpec == DaemonInit /\ [][DaemonNext]_vars

\* The goroutines run, cycles and the calls that return by themselves end, and a
\* sync.Mutex does not let Stop starve behind one cycle after the other.
DaemonFairSpec ==
    /\ DaemonSpec
    /\ WF_vars(MainStep) /\ WF_vars(Notify) /\ WF_vars(GracefulStop)
    /\ WF_vars(CycleEnds) /\ SF_vars(StopEngine)
    /\ \A c \in Client : WF_vars(Finish(c, "rpc")) /\ WF_vars(Finish(c, "http"))

-----------------------------------------------------------------------------
DaemonTypeOK ==
    /\ main \in Ended \cup {"start", "peers", "server", "rest", "listen", "serve",
                            "serving", "stopRest", "stopEngine", "stopBus", "return"}
    /\ loop \in {"off", "waiting", "cycle", "returned"}
    /\ up \subseteq {"bus", "engine", "grpc"} /\ keys \subseteq Identity
    /\ \A i \in DOMAIN peers : peers[i].id \in Identity

\* A node that takes calls runs with the peer list its flags name: self exactly
\* once and first, no address twice, a bus if and only if there are others, and no
\* single node by accident.  That other identities differ is not said: PeersDistinct.
RunsAsConfigured ==
    "grpc" \in up =>
        /\ spec.given = (peers # <<>>) /\ spec.given = ("bus" \in up)
        /\ spec.given =>
              /\ Len(peers) = Len(spec.entries) + 1 /\ Len(peers) >= 2
              /\ {i \in DOMAIN peers : peers[i].id = Self} = {1}
              /\ \A i, j \in DOMAIN peers : peers[i].addr = peers[j].addr => i = j

\* No simulated identity admits REST requests unless the flag allows it,
\* whatever the keys directory holds and in whatever order the options came.
OnlyProductionKeys == allowSimulated \/ keys \cap Simulated = {}

\* A gRPC call is never cut off by the engine being stopped under it: Serve
\* returns only after the calls, and the engine is stopped after Serve.
CallsKeepEngine ==
    \A c \in Client : InGrpc(c) /\ main \notin Ended => "engine" \in up

\* After a signal the process ends, unless a client keeps it in a call that
\* waits for something that does not happen: GracefulStop has no deadline.
EndsUnlessAwaited ==
    signalled ~> (main \in Ended \/ \E c \in DOMAIN call : call[c] = "await")

\* The order of the deferred calls of main, the engine before the bus: no cycle runs on
\* a closed bus, which it would if Stop waited for cycleLoop.
NoCycleOnClosedBus == loop = "cycle" /\ peers # <<>> /\ main \notin Ended => "bus" \in up

\* The comment on parsePeers: "Each entry's uid file must decode to a distinct
\* validator identity."
PeersDistinct ==
    \A i, j \in DOMAIN peers : peers[i].id = peers[j].id => i = j
=============================================================================
