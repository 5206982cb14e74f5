------------------------------ MODULE BatchLog ------------------------------
(***************************************************************************)
(* What the consensus engine promises its clients, with no bus, election   *)
(* or signature in sight: one log of batches, each a nonempty set of       *)
(* entries that somebody handed in and that no earlier batch holds, which  *)
(* every node learns in order.  The log grows in lockstep: a batch is      *)
(* decided only when every node has learned the batch before it.           *)
(***************************************************************************)
EXTENDS Naturals, Sequences

CONSTANTS Node, Entry

VARIABLES
    submitted,   \* entries handed in
    log,         \* the batches decided
    learned      \* learned[n]: the batches node n has committed

logVars == <<submitted, log, learned>>

Decided == UNION {log[i] : i \in DOMAIN log}

LogInit ==
    /\ submitted = {}
    /\ log = <<>>
    /\ learned = [n \in Node |-> <<>>]

HandIn(e) ==
    /\ e \notin submitted
    /\ submitted' = submitted \cup {e}
    /\ UNCHANGED <<log, learned>>

Decide(batch) ==
    /\ batch # {}
    /\ batch \subseteq submitted \ Decided
    /\ \A n \in Node : learned[n] = log
    /\ log' = Append(log, batch)
    /\ UNCHANGED <<submitted, learned>>

Learn(n) ==
    /\ Len(learned[n]) < Len(log)
    /\ learned' = [learned EXCEPT ![n] = Append(@, log[Len(@) + 1])]
    /\ UNCHANGED <<submitted, log>>

LogNext ==
    \/ \E e \in Entry : HandIn(e)
    \/ \E batch \in SUBSET Entry : Decide(batch)
    \/ \E n \in Node : Learn(n)

LogSpec == LogInit /\ [][LogNext]_logVars

=============================================================================
