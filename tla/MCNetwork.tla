----------------------------- MODULE MCNetwork -----------------------------
(***************************************************************************)
(* What happens between the nodes: cycles over libp2p, where frames arrive *)
(* and where they are lost and nodes restart, the mesh, a secured          *)
(* connection and the pacing of the cycles.  These parts share no          *)
(* variable, so that interleaving them adds nothing: a behaviour picks one *)
(* part, runs it and leaves the others in their initial state.  Parts      *)
(* names the ones a configuration is about.                                *)
(***************************************************************************)
EXTENDS P2PConsensus

CONSTANTS
    Parts,               \* the parts a configuration is about
    n1, n2, n3, e1, e2, e3

VARIABLES
    part,                \* the part that runs
    \* P2PConsensus again, for the part with faults
    pc2, blocks2, st2, snap2, pending2, pendingEntries2, batch2, prepareSigs2,
    anchored2, inDegraded2, status2, leader2, accepted2,
    gossip2, net2, rechecked2, lost2, restarts2,
    started, link, knownAddrs, connected, dialing, inRound, drops,   \* PeerMesh
    connPc, id, peer, secret, key, stream, sent, received, broken,     \* SecureConn
    interval, rttEWMA, rttSamples, cycleDuration, cycleTimeout, calm  \* CyclePacing

faultyVars ==
    <<pc2, blocks2, st2, snap2, pending2, pendingEntries2, batch2, prepareSigs2,
      anchored2, inDegraded2, status2, leader2, accepted2,
      gossip2, net2, rechecked2, lost2, restarts2>>
mesh == <<started, link, knownAddrs, connected, dialing, inRound, drops>>
conn == <<connPc, id, peer, secret, key, stream, sent, received, broken>>
pace == <<interval, rttEWMA, rttSamples, cycleDuration, cycleTimeout, calm>>
vars == <<part, p2pConsensusVars, faultyVars, mesh, conn, pace>>

-----------------------------------------------------------------------------
\* Two validators that list their peers in one order.
SameOrder == [n \in Node |-> <<n1, n2>>]

\* One frame is lost and one node restarts.
Faulty == INSTANCE P2PConsensus WITH
    pc <- pc2, blocks <- blocks2, st <- st2, snap <- snap2, pending <- pending2,
    pendingEntries <- pendingEntries2, batch <- batch2, prepareSigs <- prepareSigs2,
    anchored <- anchored2, inDegraded <- inDegraded2, status <- status2, leader <- leader2,
    accepted <- accepted2, gossip <- gossip2, net <- net2, rechecked <- rechecked2,
    lost <- lost2, restarts <- restarts2, Entry <- {e3}, MaxLost <- 1, MaxRestarts <- 1

\* One node is configured with an address list that names a peer and the node
\* itself; the third node is only announced by mDNS.
Mesh == INSTANCE PeerMesh WITH
    Host <- {n1, n2, n3}, MaxDrops <- 1,
    Bootstrap <- [n \in {n1, n2, n3} |-> IF n = n1 THEN {n1, n2} ELSE {}]

\* Identifiers of every length up to the two characters of the field, a
\* one-byte nonce, a two-byte tag and payloads around the limit of three.
IdStrings == {<<>>, <<1>>, <<1, 2>>, <<2, 1>>}
OneId == {[dialer |-> <<2, 1>>, listener |-> <<1>>]}

Handshake == INSTANCE SecureConn WITH
    pc <- connPc, Ids <- [{"dialer", "listener"} -> IdStrings], IdWidth <- 2, NonceSize <- 1,
    TagSize <- 2, MaxPayload <- 3, LenMod <- 8, Payloads <- {0, 1}, MaxMsgs <- 1

Framed == INSTANCE SecureConn WITH
    pc <- connPc, Ids <- OneId, IdWidth <- 2, NonceSize <- 1,
    TagSize <- 2, MaxPayload <- 3, LenMod <- 8, Payloads <- {1, 3, 5}, MaxMsgs <- 2

\* Intervals of a quarter of a second, of 3 seconds, and at and above the default cap,
\* in quarters of a second.
Pace == INSTANCE CyclePacing WITH
    Intervals <- {1, 12, 40, 48}, DefaultMax <- 40, FirstTimeout <- 40, Waits <- 4

\* What the parts assume of their constants.
ASSUME
    /\ P2PAssumption /\ Faulty!P2PAssumption
    /\ Mesh!MeshAssumption /\ Handshake!SecureConnAssumption /\ Framed!SecureConnAssumption
    /\ Pace!PacingAssumption

-----------------------------------------------------------------------------
\* A part that does not run keeps one of its initial states.
Init ==
    /\ part \in Parts
    /\ P2PInit /\ (part # "libp2p" => leader = [c \in Cycles |-> n1])
    /\ Faulty!P2PInit /\ (part # "faulty" => leader2 = [c \in Cycles |-> n1])
    /\ Mesh!MeshInit
    /\ IF part = "handshake" THEN Handshake!ConnInit ELSE Framed!ConnInit
    /\ Pace!PaceInit /\ (part # "pace" => interval = 12)

\* One definition per part: what runs, and what stands still.
OverLibp2p ==
    /\ part = "libp2p" /\ P2PNext
    /\ UNCHANGED <<part, faultyVars, mesh, conn, pace>>

WithFaults ==
    /\ part = "faulty" /\ Faulty!P2PNext
    /\ UNCHANGED <<part, p2pConsensusVars, mesh, conn, pace>>

Meshing ==
    /\ part = "mesh" /\ Mesh!MeshNext
    /\ UNCHANGED <<part, p2pConsensusVars, faultyVars, conn, pace>>

Connection ==
    /\ \/ part = "handshake" /\ Handshake!ConnNext
       \/ part = "frames" /\ Framed!ConnNext
    /\ UNCHANGED <<part, p2pConsensusVars, faultyVars, mesh, pace>>

Pacing ==
    /\ part = "pace" /\ Pace!PaceNext
    /\ UNCHANGED <<part, p2pConsensusVars, faultyVars, mesh, conn>>

Next ==
    \/ OverLibp2p
    \/ WithFaults
    \/ Meshing
    \/ Connection
    \/ Pacing

Spec == Init /\ [][Next]_vars

\* What the parts' own fair specifications assume, of the part that runs.
FairSpec ==
    /\ Spec
    /\ \A n \in Node : WF_p2pConsensusVars(part = "libp2p" /\ Step(n))
    /\ \A n, p \in Node, proto \in Protocols :
           WF_p2pConsensusVars(part = "libp2p" /\ Receive(n, p, proto))
    /\ \A n \in {n1, n2, n3} : /\ WF_mesh(part = "mesh" /\ Mesh!NewGossipBus(n))
                       /\ WF_mesh(part = "mesh" /\ Mesh!RedialTick(n))
    /\ \A n, p \in {n1, n2, n3} : WF_mesh(part = "mesh" /\ Mesh!DialDone(n, p))
    /\ \A e \in Handshake!End : WF_conn(part = "handshake" /\ Handshake!ConnStep(e))
    /\ WF_pace(part = "pace" /\ Pace!cycleLoop)

-----------------------------------------------------------------------------
\* An entry that has got to every node outlives a lost frame and a restart of the node that
\* accepted it, of the leader or of any other, at any step (RemoveEntries, PublishFinal).
EntriesSurviveFault == part = "faulty" => Faulty!EntriesSurvive

\* "every known peer is re-dialled until each node has connected to each other", after
\* every late start, failed dial and drop; and no node ever dials itself or a peer it
\* does not know (redialLoop, HandlePeerFound, rememberPeer).
EventuallyMeshed ==
    /\ [](Mesh!MeshTypeOK /\ Mesh!DialsKnownPeers)
    /\ Mesh!EventuallyMeshed

\* kemHandshake leaves no two ends waiting for each other and gives both one key and
\* the identifiers they were started with; a message WriteMessage accepted is read
\* unless an end's connection ends, whole, in order and once (ReadMessage).
ConnectionsWork ==
    /\ [](part = "handshake" => Handshake!ConnTypeOK /\ Handshake!KeysAgree)
    /\ [](part = "frames" => Framed!ConnTypeOK /\ Framed!DeliveredInOrder)
    /\ part = "handshake" => Handshake!HandshakeEnds
    /\ part = "handshake" => Handshake!MessageArrives

\* Longer waits make longer cycles and longer cycles longer waits, beginning with a budget
\* that has nothing to do with the interval.  The excess of the first cycle wears off even
\* if every wait times out, and once cycles are quick nothing is left of a slow period
\* but the rounding (updateCycleDuration).
PacingRecovers ==
    /\ []Pace!PaceTypeOK
    /\ Pace!FirstBudgetForgotten
    /\ Pace!SlownessForgotten

=============================================================================
