----------------------------- MODULE Compliance -----------------------------
(***************************************************************************)
(* One compliance query (pkg/validation/compliance_checker.go, reached     *)
(* through Engine.CheckCompliance and the server's CheckCompliance): the   *)
(* window is validated, the entries of its cycles are gathered, every      *)
(* mandatory rule cuts the window into expectations, and each expectation  *)
(* is met, or is a gap.                                                    *)
(*                                                                         *)
(* Timestamps are integers of the range -MaxInt-1 .. MaxInt and wrap as    *)
(* int64 does; Second is the number of time units in a second.  A block's  *)
(* index is one less than its place in the chain.                          *)
(***************************************************************************)
EXTENDS Integers, Sequences, FiniteSets, SequencesExt, FiniteSetsExt

CONSTANTS
    MaxInt,            \* the largest timestamp
    Second,
    MaxCount,          \* the largest count the answer can hold
    Mandate,           \* mandates: sequences of [class, mandatory, required, deferral]
    Window,            \* [start, end, startCycle, endCycle]
    Chain,             \* sequences of blocks, a block a sequence of [label, at, fields]
    MaxBuckets         \* bound: expectations of one rule, beyond what any window needs

\* What the constants must satisfy.
ComplianceAssumption ==
    /\ {MaxInt, Second, MaxCount, MaxBuckets} \subseteq Nat \ {0}
    /\ \A w \in Window : {w.start, w.end} \subseteq -MaxInt - 1 .. MaxInt

VARIABLES
    mandate, window, chain,
    pc,                \* "validate", "cut", "judge", "answered" or "refused"
    rule,              \* the rule being worked on
    bucketStart,
    expected,          \* the expectations of the rule so far
    report             \* [total, anchored, gaps]

compVars == <<mandate, window, chain, pc, rule, bucketStart, expected, report>>

queryVars == <<mandate, window, chain>>

CompInit ==
    /\ mandate \in Mandate /\ window \in Window /\ chain \in Chain
    /\ pc = "validate"
    /\ rule = 1
    /\ bucketStart = 0
    /\ expected = <<>>
    /\ report = [total |-> 0, anchored |-> 0, gaps |-> <<>>]

\* int64 addition and multiplication.
Wrap(x) == ((x + MaxInt + 1) % (2 * (MaxInt + 1))) - (MaxInt + 1)

-----------------------------------------------------------------------------
\* ComplianceWindow.Validate
ValidWindow ==
    /\ window.start > 0 /\ window.end > 0
    /\ window.start <= window.end
    /\ window.startCycle <= window.endCycle

Validate ==
    /\ pc = "validate"
    /\ pc' = IF ValidWindow THEN "cut" ELSE "refused"
    /\ bucketStart' = window.start
    /\ UNCHANGED <<queryVars, rule, expected, report>>

\* EntriesInWindow: the entries of the blocks of the cycles, both ends included;
\* an end of zero is the end of the chain.
EntriesInWindow ==
    FlattenSeq(SubSeq(chain, window.startCycle + 1,
        IF window.endCycle = 0 THEN Len(chain) ELSE Min({Len(chain), window.endCycle + 1})))

\* The length of a bucket, or zero for one expectation that is the whole window.
Step(r) ==
    IF r.deferral > MaxInt \div Second THEN 0
    ELSE LET s == Wrap(r.deferral * Second) IN IF s <= 0 THEN 0 ELSE s

Interval(a, b) == [start |-> a, end |-> b]

\* One turn of the loop of expectedEvents.
Bucket(r) ==
    /\ bucketStart < window.end
    /\ expected' = Append(expected,
           Interval(bucketStart, Min({window.end, Wrap(bucketStart + Step(r))})))
    /\ bucketStart' = Wrap(bucketStart + Step(r))

\* expectedEvents: a rule that is only recommended expects nothing.
Cut ==
    /\ pc = "cut" /\ rule <= Len(mandate)
    /\ Len(expected) < MaxBuckets
    /\ LET r == mandate[rule]
       IN \/ /\ r.mandatory /\ Step(r) > 0
             /\ Bucket(r)
             /\ pc' = pc
          \/ /\ r.mandatory /\ Step(r) > 0 /\ bucketStart >= window.end
             /\ pc' = "judge"
             /\ UNCHANGED <<bucketStart, expected>>
          \/ /\ ~(r.mandatory /\ Step(r) > 0)
             /\ expected' = IF r.mandatory THEN <<Interval(window.start, window.end)>> ELSE <<>>
             /\ pc' = "judge"
             /\ UNCHANGED bucketStart
    /\ UNCHANGED <<queryVars, rule, report>>

-----------------------------------------------------------------------------
entryMatchesRule(e, r) == r.class \in {"", e.label}

missingFields(e, r) == r.required \ e.fields

\* Mutant: the end of an expectation belongs to it.
MatchingClosed(r, exp) ==
    SelectSeq(EntriesInWindow,
        LAMBDA e : entryMatchesRule(e, r) /\ exp.start <= e.at /\ e.at <= exp.end)

\* The entries of the rule's class in an expectation, whose end is excluded.
Matching(r, exp) ==
    SelectSeq(EntriesInWindow,
        LAMBDA e : entryMatchesRule(e, r) /\ exp.start <= e.at /\ e.at < exp.end)

Met(r, exp) == \E i \in DOMAIN Matching(r, exp) : missingFields(Matching(r, exp)[i], r) = {}

\* The gap an unmet expectation leaves: the first entry that is there but not
\* complete is the one reported.
Gap(r, exp) ==
    [rule |-> rule, start |-> exp.start, end |-> exp.end,
     missing |-> IF Matching(r, exp) = <<>> THEN {} ELSE missingFields(Matching(r, exp)[1], r),
     status |-> IF Matching(r, exp) = <<>> THEN "missing" ELSE "missing_fields"]

\* The part of CheckComplianceMandate that goes through one rule's expectations.
JudgeRule ==
    LET r == mandate[rule]
        unmet == SelectSeq(expected, LAMBDA exp : ~Met(r, exp))
    IN [total |-> report.total + Len(expected),
        anchored |-> report.anchored + Len(expected) - Len(unmet),
        gaps |-> report.gaps \o [i \in DOMAIN unmet |-> Gap(r, unmet[i])]]

Judge ==
    /\ pc = "judge"
    /\ report' = JudgeRule
    /\ rule' = rule + 1
    /\ bucketStart' = window.start
    /\ expected' = <<>>
    /\ pc' = "cut"
    /\ UNCHANGED queryVars

clampUint32(n) == Min({n, MaxCount})

\* complianceReportToProto narrows the counts.
Answer ==
    /\ pc = "cut" /\ rule > Len(mandate)
    /\ pc' = "answered"
    /\ report' = [report EXCEPT !.total = clampUint32(@), !.anchored = clampUint32(@)]
    /\ UNCHANGED <<queryVars, rule, bucketStart, expected>>

CompNext == Validate \/ Cut \/ Judge \/ Answer

CompSpec == CompInit /\ [][CompNext]_compVars

\* One goroutine runs the query to its end.
CompFairSpec == CompSpec /\ WF_compVars(CompNext)

-----------------------------------------------------------------------------
\* The range of the counters and bounds (compliance_checker.go).
CompTypeOK ==
    /\ pc \in {"validate", "cut", "judge", "answered", "refused"}
    /\ rule \in 1 .. Len(mandate) + 1
    /\ bucketStart \in -MaxInt - 1 .. MaxInt
    /\ report.anchored <= report.total
    /\ pc # "answered" => report.total = report.anchored + Len(report.gaps)

\* No addition of the loop leaves the range of the timestamps.
InRange == \A i \in DOMAIN mandate : window.end <= MaxInt - Step(mandate[i])

\* The buckets so far are consecutive, and end with the window once the rule is cut.
Tiled ==
    (pc \in {"cut", "judge"} /\ rule <= Len(mandate) /\ Step(mandate[rule]) > 0) =>
        LET last == Len(expected)
        IN /\ \A i \in 1 .. last :
                /\ expected[i].start = (IF i = 1 THEN window.start ELSE expected[i - 1].end)
                /\ expected[i].start < expected[i].end
                /\ expected[i].end - expected[i].start <= Step(mandate[rule])
           /\ (pc = "judge" /\ mandate[rule].mandatory) =>
                IF last = 0 THEN window.start = window.end ELSE expected[last].end = window.end

\* expectedEvents cuts the window into buckets that leave no time out, do not
\* overlap and are no longer than the deferral, where no addition overflows.
TiledInRange == InRange => Tiled

\* The times at which a bucket of rule r begins, by arithmetic alone.
Starts(r) ==
    IF ~r.mandatory THEN {}
    ELSE IF Step(r) = 0 THEN {window.start}
    ELSE {t \in window.start .. window.end - 1 : (t - window.start) % Step(r) = 0}

Ends(r, t) == IF Step(r) = 0 THEN window.end ELSE Min({window.end, t + Step(r)})

\* An entry that counts: anchored in the cycles asked for, of the class, complete.
Satisfies(r, e) ==
    /\ \E i \in DOMAIN chain :
        /\ i - 1 >= window.startCycle /\ (window.endCycle > 0 => i - 1 <= window.endCycle)
        /\ e \in Range(chain[i])
    /\ r.class \in {"", e.label} /\ r.required \subseteq e.fields

Entries == UNION {Range(chain[i]) : i \in DOMAIN chain}

Unmet(r) ==
    {t \in Starts(r) : ~\E e \in Entries : Satisfies(r, e) /\ t <= e.at /\ e.at < Ends(r, t)}

\* The report is that of the definition: one expectation per deferral, one gap
\* for each that no complete entry of the cycles asked for falls into, and the
\* counts narrowed to their field without wrapping (CheckComplianceMandate,
\* EntriesInWindow, findMatchingEntry, clampUint32).
ReportExact ==
    (pc = "answered" /\ InRange) =>
        LET rules == DOMAIN mandate
            total == FoldSet(LAMBDA i, n : n + Cardinality(Starts(mandate[i])), 0, rules)
            gaps == {[rule |-> report.gaps[i].rule, start |-> report.gaps[i].start] :
                        i \in DOMAIN report.gaps}
        IN /\ report.total = Min({MaxCount, total})
           /\ report.anchored = Min({MaxCount, total - Len(report.gaps)})
           /\ gaps = {[rule |-> i, start |-> t] : i \in rules, t \in window.start .. window.end}
                       \cap UNION {{[rule |-> i, start |-> t] : t \in Unmet(mandate[i])} : i \in rules}

\* A query comes to an answer, where no addition overflows.
AnsweredInRange == InRange ~> pc \in {"answered", "refused"}

\* "expectedEvents partitions the window", whatever the window.
WindowPartitioned == Tiled

\* "A zero bound is treated as ... to the end": a query from some cycle on is
\* not refused.
OpenEndAccepted ==
    (window.endCycle = 0 /\ 0 < window.start /\ window.start <= window.end) => pc # "refused"

=============================================================================
