---------------------------- MODULE MCConsensus ----------------------------
(***************************************************************************)
(* Three validators that list their peers in one order, as many as         *)
(* MinValidators asks for or fewer.  Settings names the settings that a    *)
(* configuration is about; a behaviour picks one of them.  Leaders names   *)
(* the outcomes of the elections.                                          *)
(***************************************************************************)
EXTENDS Consensus, TLC

CONSTANTS Settings, Leaders, n1, n2, n3, e1, e2

VARIABLE setting

CommonOrder == [n \in Node |-> <<n1, n2, n3>>]

\* Every block is a degraded one, and the second is agreed under a quorum of one.
Few == INSTANCE Consensus WITH MinValidators <- 4, MaxTimeouts <- 0

\* Every outcome, and every outcome up to renaming: the first leader is n1, and it
\* leads again or another one does.
AllLeaders == [Cycles -> Node]
LeadersRenamed == {f \in AllLeaders : f[0] = n1 /\ f[1] # n3}

MCInit == Init /\ setting \in Settings /\ leader \in Leaders

Enough == setting = "enough" /\ Next /\ UNCHANGED setting

BelowMinimum == setting = "few" /\ Few!Next /\ UNCHANGED setting

MCSpec == MCInit /\ [][Enough \/ BelowMinimum]_<<vars, setting>>

\* The fairness of Consensus.
MCFairSpec == MCSpec /\ \A n \in Node : WF_vars(setting = "enough" /\ Step(n))

GossipedSymmetry == Permutations(Gossiped)

=============================================================================
