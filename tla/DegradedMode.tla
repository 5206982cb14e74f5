--------------------------- MODULE DegradedMode ---------------------------
(***************************************************************************)
(* DegradedMode of pkg/consensus/degraded.go: below MinValidators one      *)
(* signature suffices; leaving the mode takes GraceCycles normal cycles in *)
(* a row.  A call reports the validators of the cycle and whether the      *)
(* normal quorum was reached.                                              *)
(***************************************************************************)
EXTENDS Integers, Sequences

CONSTANTS
    MinValidators,
    GraceCycles,
    Counts,            \* the numbers of validators a call may report
    MaxCalls           \* bound: calls

ASSUME DegradedAssumption ==
    /\ MinValidators \in Nat \ {0} /\ GraceCycles \in Nat \ {0}
    /\ Counts \subseteq Int /\ MaxCalls \in Nat

VARIABLES
    inDegraded,
    consecutiveNormal,
    history            \* the arguments of the calls, in order

degVars == <<inDegraded, consecutiveNormal, history>>

\* NewDegradedMode
DegInit == inDegraded = FALSE /\ consecutiveNormal = 0 /\ history = <<>>

nonNegative(n) == IF n < 0 THEN 0 ELSE n

Enter(n) ==
    /\ ~inDegraded
    /\ nonNegative(n) < MinValidators
    /\ inDegraded' = TRUE
    /\ consecutiveNormal' = 0

Stay(n) ==
    /\ ~inDegraded
    /\ nonNegative(n) >= MinValidators
    /\ UNCHANGED <<inDegraded, consecutiveNormal>>

CountNormal(n, quorumReached) ==
    /\ inDegraded
    /\ nonNegative(n) >= MinValidators /\ quorumReached
    /\ IF consecutiveNormal + 1 >= GraceCycles
       THEN inDegraded' = FALSE /\ consecutiveNormal' = 0
       ELSE consecutiveNormal' = consecutiveNormal + 1 /\ UNCHANGED inDegraded

\* Mutant: an interruption does not start the count again.
InterruptKeeps(n, quorumReached) ==
    /\ inDegraded
    /\ nonNegative(n) < MinValidators \/ ~quorumReached
    /\ UNCHANGED <<inDegraded, consecutiveNormal>>

Interrupt(n, quorumReached) ==
    /\ inDegraded
    /\ nonNegative(n) < MinValidators \/ ~quorumReached
    /\ consecutiveNormal' = 0
    /\ UNCHANGED inDegraded

CheckDegradedTransition(n, quorumReached) ==
    /\ Len(history) < MaxCalls
    /\ \/ Enter(n)
       \/ Stay(n)
       \/ CountNormal(n, quorumReached)
       \/ Interrupt(n, quorumReached)
    /\ history' = Append(history, [n |-> n, quorum |-> quorumReached])

DegNext == \E n \in Counts, q \in BOOLEAN : CheckDegradedTransition(n, q)

DegSpec == DegInit /\ [][DegNext]_degVars

-----------------------------------------------------------------------------
Low(c) == c.n < MinValidators

Normal(c) == ~Low(c) /\ c.quorum

\* The types, and a count that never reaches the grace period (degraded.go).
DegTypeOK ==
    /\ inDegraded \in BOOLEAN
    /\ consecutiveNormal \in 0..GraceCycles - 1
    /\ ~inDegraded => consecutiveNormal = 0

\* The mode is what the calls so far say: degraded if the number of validators
\* was too low at some call and since then no GraceCycles calls in a row were
\* normal (CheckDegradedTransition).
ModeFollowsCalls ==
    inDegraded <=>
        \E i \in DOMAIN history :
            /\ Low(history[i])
            /\ \A j \in i + 1 .. Len(history) - GraceCycles + 1 :
                   \E k \in j .. j + GraceCycles - 1 : ~Normal(history[k])

=============================================================================
