------------------------------ MODULE PeerMesh ------------------------------
(***************************************************************************)
(* How a node finds and keeps its libp2p peers (pkg/transport/p2p          *)
(* gossip.go): the bootstrap dials of NewGossipBus, mDNS announcements and *)
(* the redial loop, while nodes start late and connections drop.           *)
(*                                                                         *)
(* A dial runs in a goroutine of its own; it succeeds if the peer listens  *)
(* when it is attempted.  A round of the redial loop dials the peers that  *)
(* were known and not connected when it looked, and waits for all of them. *)
(***************************************************************************)
EXTENDS Naturals, FiniteSets

CONSTANTS
    Host,
    Bootstrap,       \* Bootstrap[n]: the peers n is configured with
    MaxDrops         \* bound: connections that drop

\* What the constants must satisfy.
MeshAssumption ==
    /\ IsFiniteSet(Host)
    /\ \A n \in Host : Bootstrap[n] \subseteq Host
    /\ MaxDrops \in Nat

VARIABLES
    started,         \* the nodes whose NewGossipBus has reached its dials
    link,            \* live connections, as sets of two nodes
    knownAddrs,      \* b.knownAddrs, as the set of its keys
    connected,       \* b.connected
    dialing,         \* the dials of the redial round that runs
    inRound,         \* redialLoop is in a round
    drops

meshVars == <<started, link, knownAddrs, connected, dialing, inRound, drops>>

Linked(n, p) == {n, p} \in link

MeshInit ==
    /\ started = {}
    /\ link = {}
    /\ knownAddrs = [n \in Host |-> {}]
    /\ connected = [n \in Host |-> {}]
    /\ dialing = [n \in Host |-> {}]
    /\ inRound = [n \in Host |-> FALSE]
    /\ drops = 0

rememberPeer(n, ps) == knownAddrs' = [knownAddrs EXCEPT ![n] = @ \cup (ps \ {n})]

\* host.Connect reaches a peer that listens, or fails; connecting to a peer that
\* is connected already is a success without effect.
Reached(n, ps) == {p \in ps \ {n} : p \in started}

\* What libp2p calls on a connection change is netNotify.Connected and
\* Disconnected, and both are empty.
NotifyConnection == UNCHANGED connected

\* The host listens, then the bootstrap peers are dialled one after the other.
NewGossipBus(n) ==
    /\ n \notin started
    /\ started' = started \cup {n}
    /\ link' = link \cup {{n, p} : p \in Reached(n, Bootstrap[n])}
    /\ rememberPeer(n, Bootstrap[n])
    /\ NotifyConnection
    /\ UNCHANGED <<dialing, inRound, drops>>

\* An mDNS announcement of p, which may be gone again when it is dialled.
HandlePeerFound(n, p) ==
    /\ {n, p} \subseteq started
    /\ n # p
    /\ rememberPeer(n, {p})
    /\ \/ p \notin connected[n] /\ link' = link \cup {{n, p}}
       \/ UNCHANGED link
    /\ NotifyConnection
    /\ UNCHANGED <<started, dialing, inRound, drops>>

\* Mutant: the loop dials the configured peers only.
RedialBootstrap(n) ==
    /\ n \in started
    /\ ~inRound[n]
    /\ dialing' = [dialing EXCEPT ![n] = {p \in Bootstrap[n] \ {n} : ~Linked(n, p)}]
    /\ inRound' = [inRound EXCEPT ![n] = dialing'[n] # {}]
    /\ UNCHANGED <<started, link, knownAddrs, connected, drops>>

\* A tick of redialLoop: the candidates are read afresh.
RedialTick(n) ==
    /\ n \in started
    /\ ~inRound[n]
    /\ dialing' = [dialing EXCEPT ![n] = {p \in knownAddrs[n] : ~Linked(n, p)}]
    /\ inRound' = [inRound EXCEPT ![n] = dialing'[n] # {}]
    /\ UNCHANGED <<started, link, knownAddrs, connected, drops>>

\* One dial of the round ends; the round ends with its last dial.
DialDone(n, p) ==
    /\ p \in dialing[n]
    /\ dialing' = [dialing EXCEPT ![n] = @ \ {p}]
    /\ inRound' = [inRound EXCEPT ![n] = dialing'[n] # {}]
    /\ link' = link \cup {{n, q} : q \in Reached(n, {p})}
    /\ rememberPeer(n, {p})
    /\ NotifyConnection
    /\ UNCHANGED <<started, drops>>

\* A connection drops, for both ends.
Drop(c) ==
    /\ drops < MaxDrops
    /\ c \in link
    /\ link' = link \ {c}
    /\ drops' = drops + 1
    /\ NotifyConnection
    /\ UNCHANGED <<started, knownAddrs, dialing, inRound>>

MeshNext ==
    \/ \E n \in Host : NewGossipBus(n) \/ RedialTick(n)
    \/ \E n, p \in Host : HandlePeerFound(n, p) \/ DialDone(n, p)
    \/ \E c \in link : Drop(c)

MeshSpec == MeshInit /\ [][MeshNext]_meshVars

\* Nodes start, the ticker ticks, and host.Connect returns within dialTimeout.
\* mDNS owes nothing: an announcement may never come.
MeshFairSpec ==
    /\ MeshSpec
    /\ \A n \in Host : WF_meshVars(NewGossipBus(n)) /\ WF_meshVars(RedialTick(n))
    /\ \A n, p \in Host : WF_meshVars(DialDone(n, p))

-----------------------------------------------------------------------------
\* The types of the mesh state (gossip.go GossipBus).
MeshTypeOK ==
    /\ started \subseteq Host
    /\ link \subseteq {{n, p} : n, p \in Host}
    /\ knownAddrs \in [Host -> SUBSET Host]
    /\ connected \in [Host -> SUBSET Host]
    /\ dialing \in [Host -> SUBSET Host]
    /\ inRound \in [Host -> BOOLEAN]
    /\ drops \in 0..MaxDrops

\* A node never counts or dials itself, and a round dials known peers only, so
\* no dial is attempted without an address (HandlePeerFound, rememberPeer,
\* the snapshot of redialLoop taken while announcements keep arriving).
DialsKnownPeers ==
    \A n \in Host : n \notin knownAddrs[n] /\ dialing[n] \subseteq knownAddrs[n]

\* A peer that was ever configured or announced is connected again after every
\* late start, failed dial and drop: "every known peer is re-dialled until each
\* node has connected to each other" (redialLoop, gossip.go 268).
EventuallyMeshed ==
    \A n, p \in Host : (p \in knownAddrs[n]) ~> [](p \in knownAddrs[n] /\ Linked(n, p))

\* "netNotify keeps `connected` honest about the live connection set": once
\* connections stop changing, the map agrees with them (gossip.go 74).
ConnectedSettles ==
    \A n \in Host : <>[](connected[n] = {p \in Host \ {n} : Linked(n, p)})

=============================================================================
