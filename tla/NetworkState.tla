--------------------------- MODULE NetworkState ---------------------------
(***************************************************************************)
(* What every validator keeps of its peers (pkg/state, Apply): a Status    *)
(* that decays without a heartbeat and decides whose proposals are looked  *)
(* at.  A cycle is one step here: the leader's peers judge it by its       *)
(* Status, and those that commit apply the transition.                     *)
(*                                                                         *)
(* Status is counted in steps of DecayRate.  Apply also refuses a network  *)
(* whose lambda1 is too small; the eigenvalue is computed by a numerical   *)
(* library and only its outcome on the full mesh that the engine registers *)
(* is kept: the number of nodes below DenseLimit, 0 from there on.         *)
(***************************************************************************)
EXTENDS Integers, FiniteSets, FiniteSetsExt

CONSTANTS
    Validator,
    StatusSteps,       \* missed heartbeats until Status is 0 (1.0 / DecayRate)
    DenseLimit,        \* Laplacians of this size and more are iterated (20)
    MaxCycles          \* bound: attempts

VARIABLES
    cycle,             \* e.state.Cycle
    height,            \* the blocks this node has
    status             \* e.state.Nodes[m].Status

netVars == <<cycle, height, status>>

N == Cardinality(Validator)

NetInit ==
    /\ cycle = [n \in Validator |-> 0]
    /\ height = [n \in Validator |-> 0]
    /\ status = [n \in Validator |-> [m \in Validator |-> StatusSteps]]

-----------------------------------------------------------------------------
\* lambda1 < MinLambda1, of two nodes and more.
Fragmented == N >= 2 /\ N >= DenseLimit

\* The engine passes its own heartbeat to Apply and no other.
StatusNext(n) ==
    [m \in Validator |-> IF m = n THEN StatusSteps ELSE Max({status[n][m] - 1, 0})]

quorumRequired == (2 * N + 2) \div 3

\* Those at the leader's height that take it for active go on with its proposal.
Voters(l) == {n \in Validator : height[n] = height[l] /\ status[n][l] > 0}

\* One attempt of everybody, with leader l.  With a quorum of voters the block is
\* certified, and any of them may still time out before it has the final block.
\* Whoever does not get through Apply keeps its state, but for the cycle.
Attempt(l, reached) ==
    /\ \A n \in Validator : cycle[n] < MaxCycles
    /\ Cardinality(Voters(l)) < quorumRequired => reached = {}
    /\ LET committers == IF Fragmented THEN {} ELSE reached
       IN  /\ status' = [n \in Validator |-> IF n \in committers THEN StatusNext(n) ELSE status[n]]
           /\ height' = [n \in Validator |-> IF n \in committers THEN height[n] + 1 ELSE height[n]]
    /\ cycle' = [n \in Validator |-> cycle[n] + 1]

NetNext == \E l \in Validator : \E reached \in SUBSET Voters(l) : Attempt(l, reached)

NetSpec == NetInit /\ [][NetNext]_netVars

-----------------------------------------------------------------------------
\* "Each validator gossips its heartbeat": one that has taken part in every block
\* is active for its peers.
ParticipantsStayActive ==
    \A n, m \in Validator : (height[m] >= height[n]) => status[n][m] > 0

=============================================================================
