----------------------------- MODULE MemoryBus -----------------------------
(***************************************************************************)
(* The in-memory gossip bus that all engines of one process share          *)
(* (pkg/consensus gossip.go).  Every operation takes the bus mutex, so     *)
(* each is one atomic step.                                                *)
(***************************************************************************)
EXTENDS Naturals

VARIABLES
    pool,        \* b.entries: published and not yet anchored, by hash
    proofs,      \* b.vrfProofs
    proposals,   \* b.proposals, one block per index
    sigs,        \* b.sigs
    finals       \* b.finals, one block per index

busVars == <<pool, proofs, proposals, sigs, finals>>

BusInit ==
    /\ pool = {}
    /\ proofs = {}
    /\ proposals = {}
    /\ sigs = {}
    /\ finals = {}

Publish(e) == pool' = pool \cup {e} /\ UNCHANGED <<proofs, proposals, sigs, finals>>

\* Mutant: nothing is removed.
RemoveNothing(gone) == UNCHANGED busVars

\* Mutant: the pool is emptied.
RemoveAll(gone) == pool' = {} /\ UNCHANGED <<proofs, proposals, sigs, finals>>

RemoveEntries(gone) == pool' = pool \ gone /\ UNCHANGED <<proofs, proposals, sigs, finals>>

\* First write wins, by signer and cycle.
BusPublishVRFProof(p) ==
    /\ proofs' = IF \E q \in proofs : q.cycle = p.cycle /\ q.signer = p.signer
                 THEN proofs ELSE proofs \cup {p}
    /\ UNCHANGED <<pool, proposals, sigs, finals>>

\* First write wins, by index: a proposer cannot replace its proposal.
BusPropose(b) ==
    /\ proposals' = IF \E q \in proposals : q.index = b.index
                    THEN proposals ELSE proposals \cup {b}
    /\ UNCHANGED <<pool, proofs, sigs, finals>>

\* First write wins, by signer and cycle.
BusPublishSig(s) ==
    /\ sigs' = IF \E q \in sigs : q.cycle = s.cycle /\ q.signer = s.signer
               THEN sigs ELSE sigs \cup {s}
    /\ UNCHANGED <<pool, proofs, proposals, finals>>

\* The last write wins.
BusPublishFinal(f) ==
    /\ finals' = {g \in finals : g.index # f.index} \cup {f}
    /\ UNCHANGED <<pool, proofs, proposals, sigs>>

Proposed(c) == {b \in proposals : b.index = c}

\* Mutant: the newest final block, whatever its index.
FinalNewest(c) == {f \in finals : \A g \in finals : g.index <= f.index}

Final(c) == {f \in finals : f.index = c}

=============================================================================
