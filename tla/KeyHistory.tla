---------------------------- MODULE KeyHistory -----------------------------
(***************************************************************************)
(* The key history of a validator: which Dilithium3 keys are authoritative *)
(* in a cycle, given the rotations recorded for it                         *)
(* (pkg/validation/key_rotation.go).  The engine and the light client read *)
(* histories through the same code.                                        *)
(*                                                                         *)
(* A history is the sequence of the recorded rotations, ascending in their *)
(* effective cycle.                                                        *)
(***************************************************************************)
EXTENDS Naturals, Sequences, FiniteSets

CONSTANT RegisteredKey   \* Dilithium3PK of every validator, before any rotation

\* The key in force once the first i rotations of a history have closed.
KeyAfter(history, i) == IF i = 0 THEN RegisteredKey ELSE history[i].newKey

InOverlap(b, cycle) == b.effective <= cycle /\ cycle <= b.expiry

\* GetActivePublicKey walks the history in order.  It stops at the first
\* rotation that is not in force yet, and returns at the first whose window is
\* open, with the key before it and its own.
GetActivePublicKey(history, cycle) ==
    LET effective == {i \in DOMAIN history :
                          \A j \in 1..i : history[j].effective <= cycle}
        open == {i \in effective : InOverlap(history[i], cycle)}
        first == {i \in open : \A j \in open : i <= j}
    IN  IF open = {} THEN {KeyAfter(history, Cardinality(effective))}
        ELSE {KeyAfter(history, i - 1) : i \in first} \cup {history[i].newKey : i \in first}

authorisingCycle(b) == IF b.effective = 0 THEN 0 ELSE b.effective - 1

\* Mutant: rule 5 is dropped.
AnyOrder(history, b) == TRUE

\* Rule 5, which Validate and RecordRotation both enforce.
StrictlyNewer(history, b) ==
    history = <<>> \/ b.effective > history[Len(history)].effective

=============================================================================
