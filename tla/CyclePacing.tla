---------------------------- MODULE CyclePacing ----------------------------
(***************************************************************************)
(* The pace of cycleLoop (pkg/consensus/engine.go): after every cycle the  *)
(* next one is set to BaseInterval + EWMA(RTT) * SafetyFactor, within      *)
(* BaseInterval and MaxCycleDuration.  The time of the whole cycle counts  *)
(* as RTT.  The duration is then also the budget of the waits inside the   *)
(* next cycle, a quarter for each: a slow cycle makes the following waits  *)
(* longer.  The first cycle has a budget of its own, whatever the interval.*)
(*                                                                         *)
(* Durations are whole units; the float arithmetic truncates.              *)
(***************************************************************************)
EXTENDS Naturals

CONSTANTS
    Intervals,           \* the arguments NewEngine is called with
    DefaultMax,          \* DefaultConfig.MaxCycleDuration
    FirstTimeout,        \* the cycleTimeout of a new engine
    Waits                \* waits of one cycle: proofs, proposal, signatures, final block

\* What the constants must satisfy.
PacingAssumption ==
    /\ Intervals \subseteq Nat \ {0}
    /\ {DefaultMax, FirstTimeout, Waits} \subseteq Nat \ {0}

VARIABLES
    interval,            \* cfg.BaseInterval, fixed when the engine is made
    rttEWMA,
    rttSamples,          \* 0, or 1 for any positive number
    cycleDuration,
    cycleTimeout,
    calm                 \* from here on no wait times out

paceVars == <<interval, rttEWMA, rttSamples, cycleDuration, cycleTimeout, calm>>

BaseInterval == interval

\* newEngine keeps the cap above the base.
MaxCycleDuration ==
    IF interval < DefaultMax THEN interval * 4 ELSE DefaultMax

PaceInit ==
    /\ interval \in Intervals
    /\ rttEWMA = 0
    /\ rttSamples = 0
    /\ cycleDuration = interval
    /\ cycleTimeout = FirstTimeout
    /\ calm = FALSE

\* Mutant: the new sample and the average change places.
EWMASwapped(rtt) == IF rttSamples = 0 THEN rtt ELSE rttEWMA + rtt \div 10

\* alpha = 0.3
EWMA(rtt) == IF rttSamples = 0 THEN rtt ELSE (3 * rtt + 7 * rttEWMA) \div 10

Clamp(d) == LET c == IF d > MaxCycleDuration THEN MaxCycleDuration ELSE d
            IN  IF c < BaseInterval THEN BaseInterval ELSE c

\* SafetyFactor = 1.5
updateCycleDuration(rtt) ==
    /\ rttEWMA' = EWMA(rtt)
    /\ rttSamples' = 1
    /\ cycleDuration' = Clamp(BaseInterval + (3 * EWMA(rtt)) \div 2)
    /\ cycleTimeout' = cycleDuration'

\* The waits of a cycle one after the other, each a quarter of the budget.
proposalWaits == (Waits * cycleTimeout) \div 4

\* How long RunCycle may take: a unit of work, and all of its waits unless it is calm.
CycleTimes == 0 .. 1 + (IF calm THEN 0 ELSE proposalWaits)

\* One turn of cycleLoop.
cycleLoop ==
    /\ \E rtt \in CycleTimes : updateCycleDuration(rtt)
    /\ UNCHANGED <<interval, calm>>

\* The slow period is over.
CalmDown ==
    /\ ~calm
    /\ calm' = TRUE
    /\ UNCHANGED <<interval, rttEWMA, rttSamples, cycleDuration, cycleTimeout>>

PaceNext == cycleLoop \/ CalmDown

\* The loop goes on until its context is done.
PaceSpec ==
    /\ PaceInit /\ [][PaceNext]_paceVars
    /\ WF_paceVars(cycleLoop)

-----------------------------------------------------------------------------
\* The types of the fields (engine.go).
PaceTypeOK ==
    /\ interval \in Intervals
    /\ {rttEWMA, cycleDuration, cycleTimeout} \subseteq Nat
    /\ rttSamples \in 0..1
    /\ calm \in BOOLEAN

\* The longest slot of this engine.
Top == IF MaxCycleDuration > BaseInterval THEN MaxCycleDuration ELSE BaseInterval

\* However slow the network stays, the average comes down to what the waits of the
\* longest slot can take: the budget of the first cycle, which may be many times the
\* interval, is not kept alive by cycles and waits that lengthen each other
\* (updateCycleDuration, proposalWait).
FirstBudgetForgotten == <>[](rttEWMA <= 1 + (Waits * Top) \div 4)

\* "Keep the hard cap above the base, or updateCycleDuration would ... ignore the
\* base entirely": a node runs at the interval it was constructed with, once the
\* cycles are quick, and a slow period leaves nothing behind but the rounding.
SlownessForgotten ==
    calm ~> [](cycleDuration \in BaseInterval .. BaseInterval + 1)

\* "Result SHALL be capped at MaxCycleDuration (default: 10s)"
\* (SPEC-MUST-DO-CANDIDATES.md 173): an interval below the default has a cap of four
\* times the interval instead.
DefaultCapHeld == BaseInterval <= DefaultMax => cycleDuration <= DefaultMax

\* "the wait can never exceed the time available before the next cycle" (prepare.go 350):
\* the first cycle waits for a quarter of FirstTimeout at any interval.
WaitWithinSlot == cycleTimeout \div 4 <= cycleDuration

=============================================================================
