--------------------------- MODULE MCKeyRotation ---------------------------
(***************************************************************************)
(* Two validators, of which n1 rotates.  The cycles and windows of the     *)
(* rotations are the defaults of 10 scaled down to 2 and less.  A          *)
(* behaviour of the suite either submits up to two rotations or restarts a *)
(* node once: both at a time is beyond what can be enumerated.             *)
(***************************************************************************)
EXTENDS KeyRotation

CONSTANTS n1, n2, k0, k1, k2

MCNode == {n1, n2}

Rotation(old, new, effective, expiry) ==
    [submitter |-> n1, effective |-> effective, expiry |-> expiry,
     newKey |-> new, signedBy |-> old]

\* A first rotation, one chained to it, and one whose window overlaps the first.
MCBody == {Rotation(k0, k1, 2, 3), Rotation(k1, k2, 4, 5), Rotation(k0, k2, 3, 4)}

\* The first two of them.
MCChainBody == {Rotation(k0, k1, 2, 3), Rotation(k1, k2, 4, 5)}

\* Rotations whose windows are a single cycle.
MCShortBody == {Rotation(k0, k1, 1, 1), Rotation(k0, k1, 2, 2)}

-----------------------------------------------------------------------------
VARIABLE part        \* which of the two the behaviour is about

Chained == INSTANCE KeyRotation WITH Body <- MCChainBody, MaxRestarts <- 0

Restarted == INSTANCE KeyRotation WITH MaxSubmissions <- 1

SuiteInit ==
    /\ part \in {"chained", "restarted"}
    /\ IF part = "chained" THEN Chained!Init ELSE Restarted!Init

SuiteNext ==
    /\ \/ part = "chained" /\ Chained!Next
       \/ part = "restarted" /\ Restarted!Next
    /\ UNCHANGED part

SuiteSpec == SuiteInit /\ [][SuiteNext]_<<part, vars>>

\* The fair specification that the documented claim about stalls is checked on.
StallSpec ==
    /\ part = "fair" /\ Init
    /\ [][Next /\ UNCHANGED part]_<<part, vars>>
    /\ Fairness

=============================================================================
