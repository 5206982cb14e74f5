------------------------- MODULE KeyRotationProofs -------------------------
(***************************************************************************)
(* For every set of validators, every set of rotation bodies, every lead   *)
(* time and overlap: a key history is a chain of authorisations, the keys  *)
(* of the heights a node has reached are settled, and they change hands as *)
(* the comment of GetActivePublicKey says.  These rest on one fact about   *)
(* that function: a rotation appended to a history changes nothing before  *)
(* its effective cycle.                                                    *)
(*                                                                         *)
(* With a lead time of two attempts or more, what is in force is anchored: *)
(*   ChainInv     a chain anchors what the candidates of its heights do;   *)
(*   RotationInv  what is queued is in the pool, in the candidate or in    *)
(*                the chain, and a recorded rotation is anchored or in     *)
(*                time to be.                                              *)
(***************************************************************************)
EXTENDS KeyRotation, PrepareQuorumProofs

\* A leaf that names no prover is left to Zenon; the ones that need SMT name it.
USE ZenonT(30)

\* The positions GetActivePublicKey walks over.
Effective(history, cycle) ==
    {i \in DOMAIN history : \A j \in 1..i : history[j].effective <= cycle}

Open(history, cycle) == {i \in Effective(history, cycle) : InOverlap(history[i], cycle)}

\* Append leaves the positions it finds alone.
LEMMA AppendKeeps ==
    ASSUME NEW history \in Seq(Body), NEW b \in Body
    PROVE  /\ Append(history, b) \in Seq(Body)
           /\ Len(Append(history, b)) = Len(history) + 1
           /\ DOMAIN Append(history, b) = 1..(Len(history) + 1)
           /\ DOMAIN history = 1..Len(history)
           /\ \A i \in 1..Len(history) : Append(history, b)[i] = history[i]
           /\ Append(history, b)[Len(history) + 1] = b
BY SMTT(30)

\* The fields of a rotation body are the ones RotationAssumption describes.
LEMMA BodyFields ==
    ASSUME NEW b \in Body
    PROVE  b.submitter \in Node /\ b.effective \in Nat /\ b.expiry \in Nat
BY RotationAssumption

\* GetActivePublicKey looks at the same rotations before and after a rotation is
\* appended, for every cycle before its effective cycle.
LEMMA AppendEffective ==
    ASSUME NEW history \in Seq(Body), NEW b \in Body,
           NEW cycle \in Nat, cycle < b.effective
    PROVE  /\ Effective(Append(history, b), cycle) = Effective(history, cycle)
           /\ Open(Append(history, b), cycle) = Open(history, cycle)
<1> DEFINE longer == Append(history, b)
<1>1. DOMAIN longer = 1..(Len(history) + 1) /\ DOMAIN history = 1..Len(history)
  BY AppendKeeps
<1>2. \A i \in 1..Len(history) : longer[i] = history[i]
  BY AppendKeeps
<1>3. longer[Len(history) + 1] = b
  BY AppendKeeps
<1>4. Len(history) \in Nat /\ b.effective \in Nat
  BY BodyFields, SMTT(30)
<1> HIDE DEF longer
<1>5. Effective(longer, cycle) \subseteq Effective(history, cycle)
  <2> SUFFICES ASSUME NEW i \in Effective(longer, cycle)
               PROVE  i \in Effective(history, cycle)
    OBVIOUS
  <2>1. i \in 1..(Len(history) + 1) /\ \A j \in 1..i : longer[j].effective <= cycle
    BY <1>1 DEF Effective
  <2>2. i # Len(history) + 1
    BY <2>1, <1>3, <1>4, SMTT(30)
  <2>3. i \in 1..Len(history)
    BY <2>1, <2>2, <1>4, SMTT(30)
  <2>4. \A j \in 1..i : j \in 1..Len(history)
    BY <2>3, <1>4, SMTT(30)
  <2> QED
    BY <2>1, <2>3, <2>4, <1>1, <1>2 DEF Effective
<1>6. Effective(history, cycle) \subseteq Effective(longer, cycle)
  <2> SUFFICES ASSUME NEW i \in Effective(history, cycle)
               PROVE  i \in Effective(longer, cycle)
    OBVIOUS
  <2>1. i \in 1..Len(history) /\ \A j \in 1..i : history[j].effective <= cycle
    BY <1>1 DEF Effective
  <2>2. \A j \in 1..i : j \in 1..Len(history)
    BY <2>1, <1>4, SMTT(30)
  <2>3. i \in 1..(Len(history) + 1)
    BY <2>1, <1>4, SMTT(30)
  <2> QED
    BY <2>1, <2>2, <2>3, <1>1, <1>2 DEF Effective
<1>7. Effective(longer, cycle) = Effective(history, cycle)
  BY <1>5, <1>6
<1>8. \A i \in Effective(history, cycle) : longer[i] = history[i]
  BY <1>1, <1>2 DEF Effective
<1>9. Open(longer, cycle) = Open(history, cycle)
  BY <1>7, <1>8 DEF Open
<1> QED
  BY <1>7, <1>9 DEF longer

\* The number of rotations in force is a position of the history, or zero.
LEMMA EffectiveCount ==
    ASSUME NEW history \in Seq(Body), NEW cycle \in Nat
    PROVE  Cardinality(Effective(history, cycle)) \in 0..Len(history)
<1>1. DOMAIN history = 1..Len(history) /\ Len(history) \in Nat
  BY SMTT(30)
<1>2. Effective(history, cycle) \subseteq 1..Len(history)
  BY <1>1 DEF Effective
<1>3. IsFiniteSet(1..Len(history)) /\ Cardinality(1..Len(history)) = Len(history)
  <2>1. 1 \in Int /\ Len(history) \in Int
    BY <1>1, SMTT(30)
  <2> QED
    BY <2>1, <1>1, FS_Interval, SMTT(30)
<1>4. /\ IsFiniteSet(Effective(history, cycle))
      /\ Cardinality(Effective(history, cycle)) <= Len(history)
  BY <1>2, <1>3, FS_Subset
<1>5. Cardinality(Effective(history, cycle)) \in Nat
  BY <1>4, FS_CardinalityType
<1> QED
  BY <1>1, <1>4, <1>5, SMTT(30)


\* The open window GetActivePublicKey stops at, if there is one.
First(history, cycle) ==
    {i \in Open(history, cycle) : \A j \in Open(history, cycle) : i <= j}

\* GetActivePublicKey, in terms of the sets it computes.
LEMMA ActiveByCases ==
    ASSUME NEW history, NEW cycle
    PROVE  GetActivePublicKey(history, cycle) =
               IF Open(history, cycle) = {}
               THEN {KeyAfter(history, Cardinality(Effective(history, cycle)))}
               ELSE {KeyAfter(history, i - 1) : i \in First(history, cycle)}
                        \cup {history[i].newKey : i \in First(history, cycle)}
BY DEF GetActivePublicKey, Effective, Open, First

\* A rotation appended to a history leaves the active keys of every cycle before
\* its effective cycle as they were.
LEMMA AppendKeepsKeys ==
    ASSUME NEW history \in Seq(Body), NEW b \in Body,
           NEW cycle \in Nat, cycle < b.effective
    PROVE  GetActivePublicKey(Append(history, b), cycle) = GetActivePublicKey(history, cycle)
<1> DEFINE longer == Append(history, b)
<1>1. Effective(longer, cycle) = Effective(history, cycle)
  BY AppendEffective
<1>2. Open(longer, cycle) = Open(history, cycle)
  BY AppendEffective
<1>3. First(longer, cycle) = First(history, cycle)
  BY <1>2 DEF First
<1>4. Len(history) \in Nat /\ DOMAIN history = 1..Len(history)
  BY SMTT(30)
<1>5. \A i \in 1..Len(history) : longer[i] = history[i]
  BY AppendKeeps
<1>6. \A i \in 0..Len(history) : KeyAfter(longer, i) = KeyAfter(history, i)
  <2> SUFFICES ASSUME NEW i \in 0..Len(history)
               PROVE  KeyAfter(longer, i) = KeyAfter(history, i)
    OBVIOUS
  <2>1. CASE i = 0
    BY <2>1 DEF KeyAfter
  <2>2. CASE i # 0
    <3>1. i \in 1..Len(history)
      BY <2>2, <1>4, SMTT(30)
    <3> QED
      BY <3>1, <1>5, <2>2 DEF KeyAfter
  <2> QED
    BY <2>1, <2>2
<1>7. \A i \in First(history, cycle) :
          /\ i \in 1..Len(history)
          /\ i - 1 \in 0..Len(history)
  BY <1>4, SMTT(30) DEF First, Open, Effective
<1> HIDE DEF longer
<1>8. CASE Open(history, cycle) = {}
  <2>1. KeyAfter(longer, Cardinality(Effective(longer, cycle)))
            = KeyAfter(history, Cardinality(Effective(history, cycle)))
    BY <1>1, <1>6, EffectiveCount
  <2> QED
    BY <2>1, <1>2, <1>8, ActiveByCases DEF longer
<1>9. CASE Open(history, cycle) # {}
  <2>1. {KeyAfter(longer, i - 1) : i \in First(longer, cycle)}
            = {KeyAfter(history, i - 1) : i \in First(history, cycle)}
    BY <1>3, <1>6, <1>7
  <2>2. {longer[i].newKey : i \in First(longer, cycle)}
            = {history[i].newKey : i \in First(history, cycle)}
    BY <1>3, <1>5, <1>7
  <2> QED
    BY <2>1, <2>2, <1>2, <1>9, ActiveByCases DEF longer
<1> QED
  BY <1>8, <1>9

-----------------------------------------------------------------------------
\* What the two theorems need to know of the types.
KeyTypes ==
    /\ pc \in [Node -> Stage]
    /\ clock \in [Node -> Nat]
    /\ height \in [Node -> Nat]
    /\ currentCycle \in [Node -> Nat]
    /\ rotations \in [Node -> [Node -> Seq(Body)]]
    /\ keyRotationBodies \in [Node -> SUBSET Body]
    /\ submitting \in [Node -> {None} \cup [body : Body, stage : {"validate", "store", "enqueue"}]]

\* The attempt counter is never behind the chain, and while rotations are being
\* admitted the validator's copy of it is current.
ClocksInStep ==
    \A n \in Node : /\ clock[n] >= height[n]
                    /\ pc[n] = "admit" => currentCycle[n] = clock[n]

\* The rotations of a history are in strictly ascending order, and each was signed
\* by a key in force just before it.
Authorised(history) ==
    \A i \in DOMAIN history :
        /\ history[i].signedBy \in GetActivePublicKey(history, authorisingCycle(history[i]))
        /\ \A j \in 1..(i - 1) : history[j].effective < history[i].effective

\* The two keep each other inductive: the order makes the signatures stable.
KeyInv == KeyTypes /\ ClocksInStep /\ \A n, v \in Node : Authorised(rotations[n][v])


\* A validated rotation extends a chain of authorisations to a longer one.
LEMMA AppendAuthorised ==
    ASSUME NEW history \in Seq(Body), NEW b \in Body, NEW cycle \in Nat,
           Authorised(history), Validate(history, cycle, b)
    PROVE  Authorised(Append(history, b))
<1> DEFINE longer == Append(history, b)
<1>1. /\ DOMAIN longer = 1..(Len(history) + 1)
      /\ DOMAIN history = 1..Len(history)
      /\ Len(history) \in Nat
  BY AppendKeeps, SMTT(30)
<1>2. \A i \in 1..Len(history) : longer[i] = history[i] /\ history[i] \in Body
  BY AppendKeeps, SMTT(30)
<1>3. longer[Len(history) + 1] = b
  BY AppendKeeps
<1>4. \A i \in 1..Len(history) : history[i].effective \in Nat
  BY <1>2, BodyFields
<1>5. b.effective \in Nat
  BY BodyFields
<1>6. \A i \in 1..Len(history) : history[i].effective < b.effective
  <2> SUFFICES ASSUME NEW i \in 1..Len(history)
               PROVE  history[i].effective < b.effective
    OBVIOUS
  <2>1. Len(history) \in 1..Len(history) /\ history # <<>>
    BY <1>1, SMTT(30)
  <2>2. b.effective > history[Len(history)].effective
    BY <2>1 DEF Validate, StrictlyNewer
  <2>3. CASE i = Len(history)
    BY <2>2, <2>3, <1>4, <1>5
  <2>4. CASE i # Len(history)
    <3>1. i \in 1..(Len(history) - 1)
      <4>1. Len(history) \in Nat
        BY <1>1
      <4> QED
        BY <2>4, <4>1, SMTT(30)
    <3>2. history[i].effective < history[Len(history)].effective
      BY <3>1, <2>1, <1>1 DEF Authorised
    <3> QED
      BY <3>2, <2>1, <2>2, <1>4, <1>5, SMTT(30)
  <2> QED
    BY <2>3, <2>4
<1>7. \A i \in 1..Len(history) :
          authorisingCycle(history[i]) \in Nat /\ authorisingCycle(history[i]) < b.effective
  BY <1>4, <1>5, <1>6, SMTT(30) DEF authorisingCycle
<1>8. authorisingCycle(b) \in Nat /\ authorisingCycle(b) < b.effective
  <2>1. b.effective > 0
    BY <1>5, RotationAssumption, SMTT(30) DEF Validate
  <2> QED
    BY <2>1, <1>5, SMTT(30) DEF authorisingCycle
<1> SUFFICES ASSUME NEW i \in 1..(Len(history) + 1)
             PROVE  /\ longer[i].signedBy \in GetActivePublicKey(longer, authorisingCycle(longer[i]))
                    /\ \A j \in 1..(i - 1) : longer[j].effective < longer[i].effective
  BY <1>1 DEF Authorised
<1>10. CASE i \in 1..Len(history)
  <2>1. GetActivePublicKey(longer, authorisingCycle(history[i]))
            = GetActivePublicKey(history, authorisingCycle(history[i]))
    BY <1>10, <1>7, AppendKeepsKeys
  <2>2. /\ history[i].signedBy \in GetActivePublicKey(history, authorisingCycle(history[i]))
        /\ \A j \in 1..(i - 1) : history[j].effective < history[i].effective
    BY <1>10, <1>1 DEF Authorised
  <2>3. \A j \in 1..(i - 1) : j \in 1..Len(history)
    BY <1>10, <1>1, SMTT(30)
  <2>4. longer[i] = history[i]
    BY <1>10, <1>2
  <2>5. \A j \in 1..(i - 1) : longer[j] = history[j]
    BY <2>3, <1>2
  <2> HIDE DEF longer
  <2> QED
    BY <2>1, <2>2, <2>4, <2>5
<1>11. CASE i = Len(history) + 1
  <2>1. longer[i] = b
    BY <1>11, <1>3
  <2>2. b.signedBy \in GetActivePublicKey(history, authorisingCycle(b))
    BY DEF Validate
  <2>3. GetActivePublicKey(longer, authorisingCycle(b)) = GetActivePublicKey(history, authorisingCycle(b))
    BY <1>8, AppendKeepsKeys
  <2>4. \A j \in 1..(i - 1) : longer[j] = history[j] /\ j \in 1..Len(history)
    BY <1>11, <1>1, <1>2, SMTT(30)
  <2> QED
    BY <2>1, <2>2, <2>3, <2>4, <1>6
<1> QED
  BY <1>10, <1>11, <1>1, SMTT(30)


-----------------------------------------------------------------------------
\* The initial histories are empty and the clocks at zero.
LEMMA InitKeyInv == Init => KeyInv
<1> SUFFICES ASSUME Init PROVE KeyInv
  OBVIOUS
<1>1. KeyTypes
  BY SMTT(30) DEF Init, KeyTypes, Stage
<1>2. ClocksInStep
  BY SMTT(30) DEF Init, ClocksInStep
<1>3. \A n, v \in Node : rotations[n][v] = <<>>
  BY DEF Init
<1>4. Authorised(<<>>)
  BY SMTT(30) DEF Authorised
<1> QED
  BY <1>1, <1>2, <1>3, <1>4 DEF KeyInv

\* What a commit does to the clocks and the keys.
LEMMA CommitEffect ==
    ASSUME NEW n \in Node, Finalise(n) \/ CommitFinal(n)
    PROVE  /\ height' = [height EXCEPT ![n] = @ + 1]
           /\ clock' = [clock EXCEPT ![n] = @ + 1]
           /\ pc' = [pc EXCEPT ![n] = "idle"]
           /\ UNCHANGED <<currentCycle, rotations, keyRotationBodies, submitting>>
<1>1. CASE Finalise(n)
  BY <1>1 DEF Finalise, CommitBlock
<1>2. CASE CommitFinal(n)
  BY <1>2 DEF CommitFinal, CommitBlock
<1> QED
  BY <1>1, <1>2

\* Every step keeps the types; the one that extends a history takes the rotation
\* from the known bodies.
LEMMA NextKeyTypes ==
    ASSUME KeyTypes, [Next]_vars
    PROVE  KeyTypes'
<1> USE DEF KeyTypes, Stage
<1>1. ASSUME NEW n \in Node, NEW b \in Body, SyncForSubmit(n, b)
      PROVE  KeyTypes'
  BY <1>1 DEF SyncForSubmit
<1>2. ASSUME NEW n \in Node, NEW b \in Body, RecordRotationBody(n, b)
      PROVE  KeyTypes'
  BY <1>2 DEF RecordRotationBody
<1>3. ASSUME NEW n \in Node, ValidateSubmission(n)
      PROVE  KeyTypes'
  BY <1>3 DEF ValidateSubmission, AtStage, engine, None
<1>4. ASSUME NEW n \in Node, StoreBody(n)
       PROVE  KeyTypes'
  <2>1. submitting[n] \in [body : Body, stage : {"validate", "store", "enqueue"}]
    BY <1>4 DEF StoreBody, AtStage
  <2>2. [submitting[n] EXCEPT !.stage = "enqueue"]
            \in [body : Body, stage : {"validate", "store", "enqueue"}]
    BY <2>1
  <2>3. submitting' = [submitting EXCEPT ![n] = [submitting[n] EXCEPT !.stage = "enqueue"]]
    BY <1>4 DEF StoreBody
  <2>4. submitting' \in
            [Node -> {None} \cup [body : Body, stage : {"validate", "store", "enqueue"}]]
    BY <2>2, <2>3
  <2>5. keyRotationBodies' \in [Node -> SUBSET Body]
    BY <2>1, <1>4 DEF StoreBody
  <2> QED
    BY <2>4, <2>5, <1>4 DEF StoreBody
<1>5. ASSUME NEW n \in Node, EnqueueSubmission(n)
      PROVE  KeyTypes'
  BY <1>5 DEF EnqueueSubmission, None
<1>6. ASSUME NEW n \in Node, SkipCycle(n)
      PROVE  KeyTypes'
  BY <1>6, SMTT(30) DEF SkipCycle
<1>7. ASSUME NEW n \in Node, StartCycle(n)
      PROVE  KeyTypes'
  BY <1>7 DEF StartCycle, AfterAdmitting
<1>8. ASSUME NEW n \in Node, AdmitEntry(n)
      PROVE  KeyTypes'
  <2> DEFINE b == Head(todo[n])
  <2>1. CASE rotations' = rotations
    BY <2>1, <1>8, ZenonT(60) DEF AdmitEntry, AfterAdmitting
  <2>2. CASE b \in keyRotationBodies[n] /\ RecordRotation(n, b)
    <3>1. b \in Body /\ b.submitter \in Node
      BY <2>2, BodyFields
    <3> HIDE DEF b
    <3>2. rotations' \in [Node -> [Node -> Seq(Body)]]
      BY <2>2, <3>1, SMTT(30) DEF RecordRotation
    <3> QED
      BY <3>2, <1>8, ZenonT(60) DEF AdmitEntry, AfterAdmitting
  <2> QED
    BY <2>1, <2>2, <1>8 DEF AdmitEntry
<1>9. ASSUME NEW n \in Node, PublishVRFProof(n)
      PROVE  KeyTypes'
  BY <1>9 DEF PublishVRFProof, engine
<1>10. ASSUME NEW n \in Node, Propose(n) \/ SignProposal(n)
      PROVE  KeyTypes'
  BY <1>10 DEF Propose, SignProposal, engine
<1>11. ASSUME NEW n \in Node, Finalise(n) \/ CommitFinal(n)
       PROVE  KeyTypes'
  <2>1. /\ height' = [height EXCEPT ![n] = @ + 1]
        /\ clock' = [clock EXCEPT ![n] = @ + 1]
        /\ pc' = [pc EXCEPT ![n] = "idle"]
        /\ UNCHANGED <<currentCycle, rotations, keyRotationBodies, submitting>>
    BY <1>11, CommitEffect
  <2> QED
    BY <2>1, SMTT(30)
<1>12. ASSUME NEW n \in Node, AbortCycle(n)
       PROVE  KeyTypes'
  BY <1>12, SMTT(30) DEF AbortCycle
<1>13. ASSUME NEW n \in Node, Restart(n)
       PROVE  KeyTypes'
  BY <1>13, SMTT(30) DEF Restart
<1>14. CASE UNCHANGED vars
  BY <1>14 DEF vars, engine
<1> QED
  BY <1>1, <1>2, <1>3, <1>4, <1>5, <1>6, <1>7, <1>8, <1>9, <1>10, <1>11, <1>12, <1>13,
     <1>14
  DEF Next, RotateKey, SubmitKeyRotation


\* A step leaves a key history alone, forgets it, or appends one rotation that the
\* validator, at the cycle it was last given, has just accepted.
LEMMA HistoryStep ==
    ASSUME KeyTypes, [Next]_vars, NEW m \in Node, NEW v \in Node
    PROVE  \/ rotations'[m][v] = rotations[m][v]
           \/ rotations'[m][v] = <<>>
           \/ /\ pc[m] = "admit"
              /\ \E b \in Body :
                     /\ b = Head(todo[m])
                     /\ Validate(rotations[m][v], currentCycle[m], b)
                     /\ rotations'[m][v] = Append(rotations[m][v], b)
<1> DEFINE Goal == \/ rotations'[m][v] = rotations[m][v]
                   \/ rotations'[m][v] = <<>>
                   \/ /\ pc[m] = "admit"
                      /\ \E b \in Body :
                             /\ b = Head(todo[m])
                             /\ Validate(rotations[m][v], currentCycle[m], b)
                             /\ rotations'[m][v] = Append(rotations[m][v], b)
<1> SUFFICES Goal
  OBVIOUS
<1>1. CASE UNCHANGED rotations
  BY <1>1
<1>2. ASSUME NEW n \in Node, Restart(n)
      PROVE  Goal
  <2>1. rotations' = [rotations EXCEPT ![n] = [w \in Node |-> <<>>]]
    BY <1>2 DEF Restart
  <2> QED
    BY <2>1 DEF KeyTypes
<1>3. ASSUME NEW n \in Node, AdmitEntry(n)
      PROVE  Goal
  <2> DEFINE b == Head(todo[n])
  <2>1. CASE b \in keyRotationBodies[n]
             /\ Validate(rotations[n][b.submitter], currentCycle[n], b)
    <3>1. b \in Body /\ b.submitter \in Node
      BY <2>1, BodyFields, ZenonT(60) DEF KeyTypes
    <3>2. rotations' = [rotations EXCEPT ![n][b.submitter] = Append(@, b)] /\ pc[n] = "admit"
      BY <2>1, <1>3 DEF AdmitEntry, RecordRotation
    <3> HIDE DEF b
    <3>3. CASE m = n /\ v = b.submitter
      <4>1. rotations'[m][v] = Append(rotations[m][v], b)
        BY <3>1, <3>2, <3>3, ZenonT(60) DEF KeyTypes
      <4> QED
        BY <4>1, <3>1, <3>2, <3>3, <2>1, ZenonT(60) DEF b
    <3>4. CASE ~(m = n /\ v = b.submitter)
      <4>1. rotations'[m][v] = rotations[m][v]
        BY <3>1, <3>2, <3>4 DEF KeyTypes
      <4> QED
        BY <4>1
    <3> QED
      BY <3>3, <3>4
  <2>2. CASE ~(b \in keyRotationBodies[n]
               /\ Validate(rotations[n][b.submitter], currentCycle[n], b))
    BY <2>2, <1>3, <1>1, ZenonT(60) DEF AdmitEntry
  <2> QED
    BY <2>1, <2>2
<1>4. ASSUME NEW n \in Node, NEW b \in Body, SyncForSubmit(n, b) \/ RecordRotationBody(n, b)
      PROVE  UNCHANGED rotations
  BY <1>4 DEF SyncForSubmit, RecordRotationBody
<1>5. ASSUME NEW n \in Node, \/ ValidateSubmission(n) \/ StoreBody(n) \/ EnqueueSubmission(n)
                             \/ SkipCycle(n) \/ StartCycle(n) \/ PublishVRFProof(n)
                             \/ Propose(n) \/ SignProposal(n) \/ AbortCycle(n)
      PROVE  UNCHANGED rotations
  BY <1>5 DEF ValidateSubmission, StoreBody, EnqueueSubmission, SkipCycle, StartCycle, PublishVRFProof,
              Propose, SignProposal, AbortCycle, engine
<1>6. ASSUME NEW n \in Node, Finalise(n) \/ CommitFinal(n)
      PROVE  UNCHANGED rotations
  BY <1>6, CommitEffect
<1>7. CASE UNCHANGED vars
  BY <1>7, <1>1 DEF vars, engine
<1> HIDE DEF Goal
<1>8. CASE \E n \in Node : Restart(n) \/ AdmitEntry(n)
  BY <1>8, <1>2, <1>3
<1>9. CASE Next /\ ~\E n \in Node : Restart(n) \/ AdmitEntry(n)
  <2>1. UNCHANGED rotations
    BY <1>9, <1>4, <1>5, <1>6, ZenonT(60) DEF Next, RotateKey, SubmitKeyRotation
  <2> QED
    BY <2>1, <1>1
<1> QED
  BY <1>7, <1>8, <1>9, ZenonT(60)

\* Every step keeps the attempt counter at or above the height: an attempt that
\* appends a block counts too.  RunCycle copies the counter before it admits.
LEMMA NextClocks ==
    ASSUME KeyTypes, ClocksInStep, [Next]_vars
    PROVE  ClocksInStep'
<1> USE DEF KeyTypes, ClocksInStep
<1>1. ASSUME NEW n \in Node, NEW b \in Body, SyncForSubmit(n, b)
      PROVE  ClocksInStep'
  BY <1>1 DEF SyncForSubmit
<1>2. ASSUME NEW n \in Node, NEW b \in Body, RecordRotationBody(n, b)
      PROVE  ClocksInStep'
  BY <1>2 DEF RecordRotationBody
<1>3. ASSUME NEW n \in Node, ValidateSubmission(n) \/ Propose(n) \/ SignProposal(n)
      PROVE  ClocksInStep'
  BY <1>3 DEF ValidateSubmission, Propose, SignProposal, engine
<1>4. ASSUME NEW n \in Node, StoreBody(n) \/ EnqueueSubmission(n)
      PROVE  ClocksInStep'
  BY <1>4 DEF StoreBody, EnqueueSubmission
<1>5. ASSUME NEW n \in Node, SkipCycle(n)
      PROVE  ClocksInStep'
  BY <1>5, SMTT(30) DEF SkipCycle
<1>6. ASSUME NEW n \in Node, StartCycle(n)
      PROVE  ClocksInStep'
  BY <1>6 DEF StartCycle
<1>7. ASSUME NEW n \in Node, AdmitEntry(n)
      PROVE  ClocksInStep'
  BY <1>7 DEF AdmitEntry
<1>8. ASSUME NEW n \in Node, PublishVRFProof(n)
      PROVE  ClocksInStep'
  BY <1>8 DEF PublishVRFProof, engine
<1>9. ASSUME NEW n \in Node, Finalise(n) \/ CommitFinal(n)
      PROVE  ClocksInStep'
  <2>1. /\ height' = [height EXCEPT ![n] = @ + 1]
        /\ clock' = [clock EXCEPT ![n] = @ + 1]
        /\ pc' = [pc EXCEPT ![n] = "idle"]
        /\ UNCHANGED currentCycle
    BY <1>9, CommitEffect
  <2> QED
    BY <2>1, SMTT(30)
<1>10. ASSUME NEW n \in Node, AbortCycle(n)
       PROVE  ClocksInStep'
  BY <1>10, SMTT(30) DEF AbortCycle
<1>11. ASSUME NEW n \in Node, Restart(n)
       PROVE  ClocksInStep'
  BY <1>11 DEF Restart
<1>12. CASE UNCHANGED vars
  BY <1>12 DEF vars, engine
<1> QED
  BY <1>1, <1>2, <1>3, <1>4, <1>5, <1>6, <1>7, <1>8, <1>9, <1>10, <1>11, <1>12
  DEF Next, RotateKey, SubmitKeyRotation


\* The whole is an inductive invariant.
LEMMA NextKeyInv == KeyInv /\ [Next]_vars => KeyInv'
<1> SUFFICES ASSUME KeyInv, [Next]_vars
             PROVE  KeyInv'
  OBVIOUS
<1>1. KeyTypes /\ ClocksInStep /\ \A m, v \in Node : Authorised(rotations[m][v])
  BY DEF KeyInv
<1>2. KeyTypes'
  BY <1>1, NextKeyTypes
<1>3. ClocksInStep'
  BY <1>1, NextClocks
<1>4. ASSUME NEW m \in Node, NEW v \in Node
      PROVE  Authorised(rotations'[m][v])
  <2>1. CASE rotations'[m][v] = rotations[m][v]
    BY <2>1, <1>1
  <2>2. CASE rotations'[m][v] = <<>>
    BY <2>2, SMTT(30) DEF Authorised
  <2>3. CASE \E b \in Body : /\ Validate(rotations[m][v], currentCycle[m], b)
                             /\ rotations'[m][v] = Append(rotations[m][v], b)
    <3>1. PICK b \in Body : /\ Validate(rotations[m][v], currentCycle[m], b)
                            /\ rotations'[m][v] = Append(rotations[m][v], b)
      BY <2>3
    <3>2. rotations[m][v] \in Seq(Body) /\ currentCycle[m] \in Nat
      BY <1>1, SMTT(30) DEF KeyTypes
    <3>3. Authorised(Append(rotations[m][v], b))
      BY <3>1, <3>2, <1>1, AppendAuthorised
    <3> QED
      BY <3>1, <3>3
  <2> QED
    BY <2>1, <2>2, <2>3, <1>1, HistoryStep
<1> QED
  BY <1>2, <1>3, <1>4 DEF KeyInv

\* The invariant holds in every reachable state.
LEMMA KeyInvariant == Spec => []KeyInv
<1>1. KeyInv /\ UNCHANGED vars => KeyInv'
  BY NextKeyInv
<1> QED
  BY InitKeyInv, NextKeyInv, PTL DEF Spec

\* Every key history is, in the order of the effective cycles, a chain of
\* authorisations: what Validate checked when a rotation was admitted still holds
\* of the history as it stands, whatever RecordRotation appended since.
THEOREM HistoriesAuthorised == Spec => []HistoryAuthorised
<1>1. KeyInv => HistoryAuthorised
  BY DEF KeyInv, HistoryAuthorised, Authorised
<1> QED
  BY <1>1, KeyInvariant, PTL

\* One step of KeysSettled: a rotation the validator admits takes effect at least
\* the lead time after the height the node has reached.
LEMMA KeysSettledStep ==
    ASSUME KeyInv, [Next]_vars, NEW m \in Node, NEW v \in Node,
           Len(rotations'[m][v]) >= Len(rotations[m][v]),
           NEW h \in 0..(height[m] + KeyRotationLeadTime - 1)
    PROVE  GetActivePublicKey(rotations'[m][v], h) = GetActivePublicKey(rotations[m][v], h)
<1>1. KeyTypes /\ ClocksInStep
  BY DEF KeyInv
<1>2. rotations[m][v] \in Seq(Body) /\ height[m] \in Nat /\ clock[m] \in Nat
  BY <1>1, SMTT(30) DEF KeyTypes
<1>3. CASE rotations'[m][v] = rotations[m][v]
  BY <1>3
<1>4. CASE rotations'[m][v] = <<>>
  <2>1. Len(rotations[m][v]) = 0
    BY <1>4, <1>2, SMTT(30)
  <2>2. rotations[m][v] = <<>>
    BY <2>1, <1>2, SMTT(30)
  <2> QED
    BY <2>2, <1>4
<1>5. CASE /\ pc[m] = "admit"
           /\ \E b \in Body : /\ Validate(rotations[m][v], currentCycle[m], b)
                              /\ rotations'[m][v] = Append(rotations[m][v], b)
  <2>1. PICK b \in Body : /\ Validate(rotations[m][v], currentCycle[m], b)
                          /\ rotations'[m][v] = Append(rotations[m][v], b)
    BY <1>5
  <2>2. currentCycle[m] = clock[m] /\ clock[m] >= height[m]
    BY <1>1, <1>5 DEF ClocksInStep
  <2>3. b.effective >= currentCycle[m] + KeyRotationLeadTime
    BY <2>1 DEF Validate
  <2>4. b.effective \in Nat /\ KeyRotationLeadTime \in Nat
    BY BodyFields, RotationAssumption
  <2>5. h \in Nat /\ h < b.effective
    BY <2>2, <2>3, <2>4, <1>2, SMTT(30)
  <2> QED
    BY <2>1, <2>5, <1>2, AppendKeepsKeys
<1> QED
  BY <1>1, <1>3, <1>4, <1>5, HistoryStep

\* A node that extends a key history changes nothing about the keys with which it
\* verifies the block it works on, the blocks before it, or the next ones within
\* the lead time: rule 3 is measured on the attempt counter, which RunCycle copies
\* into the validator first and which is never behind the chain.
THEOREM KeysStaySettled == Spec => KeysSettled
<1> DEFINE Settled ==
        \A n, v \in Node :
            Len(rotations'[n][v]) >= Len(rotations[n][v]) =>
                \A h \in 0..(height[n] + KeyRotationLeadTime - 1) :
                    GetActivePublicKey(rotations'[n][v], h) = GetActivePublicKey(rotations[n][v], h)
<1>1. KeyInv /\ [Next]_vars => Settled
  BY KeysSettledStep
<1>2. KeyInv /\ [Next]_vars => [Settled]_vars
  BY <1>1
<1> QED
  BY <1>2, KeyInvariant, PTL DEF Spec, KeysSettled

-----------------------------------------------------------------------------
\* Rule 4 leaves no rotation with an empty window.
Windowed(history) == \A i \in DOMAIN history : history[i].effective <= history[i].expiry

\* Every recorded rotation has passed rule 4.
LEMMA WindowedHolds == Spec => [](\A n, v \in Node : Windowed(rotations[n][v]))
<1> DEFINE Inv == \A n, v \in Node : Windowed(rotations[n][v])
<1>1. Init => Inv
  BY SMTT(30) DEF Init, Windowed
<1>2. KeyInv /\ Inv /\ [Next]_vars => Inv'
  <2> SUFFICES ASSUME KeyTypes, Inv, [Next]_vars, NEW m \in Node, NEW v \in Node
               PROVE  Windowed(rotations'[m][v])
    BY DEF KeyInv
  <2> DEFINE history == rotations[m][v]
  <2>1. history \in Seq(Body) /\ Windowed(history)
    BY SMTT(30) DEF KeyTypes
  <2>2. CASE rotations'[m][v] = <<>>
    BY <2>2, SMTT(30) DEF Windowed
  <2>3. ASSUME NEW b \in Body, Validate(history, currentCycle[m], b),
               rotations'[m][v] = Append(history, b)
        PROVE  Windowed(rotations'[m][v])
    <3>1. b.effective <= b.expiry
      BY <2>3, BodyFields, RotationAssumption, SMTT(30) DEF Validate
    <3>2. /\ DOMAIN Append(history, b) = 1..(Len(history) + 1) /\ DOMAIN history = 1..Len(history)
          /\ \A i \in 1..Len(history) : Append(history, b)[i] = history[i]
          /\ Append(history, b)[Len(history) + 1] = b /\ Len(history) \in Nat
      BY <2>1, AppendKeeps, SMTT(30)
    <3> SUFFICES ASSUME NEW i \in 1..(Len(history) + 1)
                 PROVE  Append(history, b)[i].effective <= Append(history, b)[i].expiry
      BY <2>3, <3>2, ZenonT(60) DEF Windowed
    <3>3. CASE i \in 1..Len(history)
      BY <2>1, <3>2, <3>3 DEF Windowed
    <3>4. CASE i = Len(history) + 1
      BY <3>1, <3>2, <3>4
    <3> QED
      BY <3>2, <3>3, <3>4, SMTT(30)
  <2> QED
    BY <2>1, <2>2, <2>3, HistoryStep
<1> QED
  BY <1>1, <1>2, KeyInvariant, PTL DEF Spec

\* In a history in order whose windows do not overlap, the rotations that are in force
\* from one effective cycle up to the next are the ones up to it, and the windows before
\* its own are closed.
LEMMA InForce ==
    ASSUME NEW history \in Seq(Body), Authorised(history), Windowed(history),
           WindowsDisjoint(history), NEW i \in DOMAIN history, NEW h \in Nat,
           history[i].effective <= h, i < Len(history) => h < history[i + 1].effective
    PROVE  /\ Effective(history, h) = 1..i
           /\ \A j \in 1..(i - 1) : ~InOverlap(history[j], h)
<1>1. i \in Nat /\ i >= 1 /\ i <= Len(history) /\ Len(history) \in Nat /\ DOMAIN history = 1..Len(history)
  BY SMTT(30)
<1>2. \A j \in 1..Len(history) : /\ history[j].effective \in Nat /\ history[j].expiry \in Nat
                                 /\ history[j].effective <= history[j].expiry
  BY <1>1, BodyFields, SMTT(30) DEF Windowed
<1>3. \A j, k \in 1..Len(history) : j < k => history[j].effective < history[k].effective
  BY <1>1, SMTT(30) DEF Authorised
<1>4. \A j \in 1..i : history[j].effective <= h
  <2> SUFFICES ASSUME NEW j \in 1..i
               PROVE  history[j].effective <= h
    OBVIOUS
  <2>1. j \in 1..Len(history) /\ i \in 1..Len(history)
    BY <1>1, SMTT(30)
  <2>2. CASE j = i
    BY <2>2
  <2>3. CASE j < i
    <3>1. history[j].effective < history[i].effective
      BY <1>3, <2>1, <2>3
    <3> QED
      BY <1>2, <2>1, <3>1, SMTT(30)
  <2> QED
    BY <1>1, <2>2, <2>3, SMTT(30)
<1>5. \A k \in 1..Len(history) : (\A j \in 1..k : history[j].effective <= h) => k <= i
  <2> SUFFICES ASSUME NEW k \in 1..Len(history), k > i, \A j \in 1..k : history[j].effective <= h
               PROVE  FALSE
    BY <1>1, SMTT(30)
  <2>1. i + 1 \in 1..k /\ i + 1 \in 1..Len(history) /\ i < Len(history)
    BY <1>1, SMTT(30)
  <2> QED
    BY <1>2, <2>1, SMTT(30)
<1>6. Effective(history, h) = 1..i
  <2>1. \A k \in 1..i : k \in 1..Len(history) /\ \A j \in 1..k : j \in 1..i
    BY <1>1, SMTT(30)
  <2>2. 1..i \subseteq Effective(history, h)
    BY <1>1, <1>4, <2>1 DEF Effective
  <2>3. \A k \in Effective(history, h) : k \in 1..i
    BY <1>1, <1>5, SMTT(30) DEF Effective
  <2> QED
    BY <2>2, <2>3
<1>7. ASSUME NEW j \in 1..(i - 1)
      PROVE  ~InOverlap(history[j], h)
  <2>1. j \in 1..Len(history) /\ j + 1 \in 1..i /\ j + 1 \in 1..Len(history) /\ j + 1 > 1
        /\ (j + 1) - 1 = j
    BY <1>1, SMTT(30)
  <2>2. history[j].expiry < history[j + 1].effective
    BY <1>1, <2>1 DEF WindowsDisjoint
  <2>3. history[j + 1].effective <= h
    BY <1>4, <2>1
  <2> QED
    BY <1>2, <2>1, <2>2, <2>3, SMTT(30) DEF InOverlap
<1> QED
  BY <1>6, <1>7

\* GetActivePublicKey hands a key over as its comment tables it: the outgoing and the
\* incoming key inside a window, the incoming one alone after it.
LEMMA HandsOver ==
    ASSUME NEW history \in Seq(Body), Authorised(history), Windowed(history),
           WindowsDisjoint(history), NEW i \in DOMAIN history, NEW h \in Nat,
           history[i].effective <= h, i < Len(history) => h < history[i + 1].effective
    PROVE  /\ h <= history[i].expiry =>
                GetActivePublicKey(history, h) = {KeyAfter(history, i - 1), history[i].newKey}
           /\ h > history[i].expiry =>
                GetActivePublicKey(history, h) = {history[i].newKey}
<1>1. i \in Nat /\ i >= 1 /\ DOMAIN history = 1..Len(history) /\ history[i].expiry \in Nat
  BY BodyFields, SMTT(30)
<1>2. Effective(history, h) = 1..i /\ \A j \in 1..(i - 1) : ~InOverlap(history[j], h)
  BY InForce
<1>3. \A j \in Open(history, h) : j = i
  <2> SUFFICES ASSUME NEW j \in 1..i, InOverlap(history[j], h)
               PROVE  j = i
    BY <1>2 DEF Open
  <2>1. j \in 1..(i - 1) \/ j = i
    BY <1>1, SMTT(30)
  <2> QED
    BY <1>2, <2>1
<1>4. CASE h <= history[i].expiry
  <2>1. i \in Open(history, h)
    BY <1>1, <1>2, <1>4, SMTT(30) DEF Open, InOverlap
  <2>2. First(history, h) = {i} /\ Open(history, h) # {}
    BY <1>1, <1>3, <2>1, SMTT(30) DEF First
  <2> QED
    BY <1>1, <1>4, <2>2, ActiveByCases, SMTT(30)
<1>5. CASE h > history[i].expiry
  <2>1. Open(history, h) = {}
    BY <1>1, <1>3, <1>5, SMTT(30) DEF Open, InOverlap
  <2>2. Cardinality(1..i) = i
    BY <1>1, FS_Interval, SMTT(30)
  <2>3. KeyAfter(history, i) = history[i].newKey
    BY <1>1, SMTT(30) DEF KeyAfter
  <2> QED
    BY <1>1, <1>2, <1>5, <2>1, <2>2, <2>3, ActiveByCases, SMTT(30)
<1> QED
  BY <1>1, <1>4, <1>5

\* The keys a node verifies with change hands as the comment of GetActivePublicKey
\* tables it, whatever rotations it has recorded, as long as their windows are apart.
THEOREM HandOverHolds == Spec => []HandOver
<1>1. KeyInv /\ (\A n, v \in Node : Windowed(rotations[n][v])) => HandOver
  <2> SUFFICES ASSUME KeyInv, \A n, v \in Node : Windowed(rotations[n][v]),
                      NEW n \in Node, NEW v \in Node, WindowsDisjoint(rotations[n][v]),
                      NEW i \in DOMAIN rotations[n][v]
               PROVE  LET history == rotations[n][v]
                          b == history[i]
                          next == IF i = Len(history) THEN b.expiry + 2
                                  ELSE history[i + 1].effective
                      IN  /\ \A h \in b.effective..b.expiry :
                                 GetActivePublicKey(history, h) = {KeyAfter(history, i - 1), b.newKey}
                          /\ \A h \in (b.expiry + 1)..(next - 1) :
                                 GetActivePublicKey(history, h) = {b.newKey}
    BY DEF HandOver
  <2> DEFINE history == rotations[n][v]
             b == history[i]
             next == IF i = Len(history) THEN b.expiry + 2 ELSE history[i + 1].effective
  <2>1. history \in Seq(Body) /\ Authorised(history) /\ Windowed(history)
    BY SMTT(30) DEF KeyInv, KeyTypes
  <2>2. i \in Nat /\ i >= 1 /\ i <= Len(history) /\ Len(history) \in Nat /\ DOMAIN history = 1..Len(history)
    BY <2>1, SMTT(30)
  <2>3. b.effective \in Nat /\ b.expiry \in Nat /\ b.effective <= b.expiry
    BY <2>1, <2>2, BodyFields, SMTT(30) DEF Windowed
  <2>4. i < Len(history) => /\ history[i + 1].effective \in Nat
                            /\ b.expiry < history[i + 1].effective
    <3> SUFFICES ASSUME i < Len(history)
                 PROVE  history[i + 1].effective \in Nat /\ b.expiry < history[i + 1].effective
      OBVIOUS
    <3>1. i + 1 \in 1..Len(history) /\ i + 1 > 1 /\ (i + 1) - 1 = i
      BY <2>2, SMTT(30)
    <3>2. history[i + 1] \in Body
      BY <2>1, <2>2, <3>1, SMTT(30)
    <3> QED
      BY <2>2, <3>1, <3>2, BodyFields DEF WindowsDisjoint
  <2>5. ASSUME NEW h \in b.effective..b.expiry
        PROVE  GetActivePublicKey(history, h) = {KeyAfter(history, i - 1), b.newKey}
    <3>1. /\ h \in Nat /\ b.effective <= h /\ h <= b.expiry
          /\ i < Len(history) => h < history[i + 1].effective
      BY <2>3, <2>4, SMTT(30)
    <3> QED
      BY <2>1, <3>1, HandsOver, ZenonT(60)
  <2>6. ASSUME NEW h \in (b.expiry + 1)..(next - 1)
        PROVE  GetActivePublicKey(history, h) = {b.newKey}
    <3>1. h \in Nat /\ b.effective <= h /\ h > b.expiry /\ h <= next - 1
      BY <2>3, SMTT(30)
    <3>2. i < Len(history) => h < history[i + 1].effective
      <4> SUFFICES ASSUME i < Len(history)
                   PROVE  h < history[i + 1].effective
        OBVIOUS
      <4>1. next = history[i + 1].effective
        BY <2>2, SMTT(30)
      <4> QED
        BY <2>4, <3>1, <4>1, SMTT(30)
    <3> QED
      BY <2>1, <3>1, <3>2, HandsOver, ZenonT(60)
  <2> QED
    BY <2>5, <2>6
<1> QED
  BY <1>1, KeyInvariant, WindowedHolds, PTL

-----------------------------------------------------------------------------
\* What At keeps of a queue: the elements at the positions, and no other.
LEMMA AtFacts ==
    ASSUME NEW T, NEW s \in Seq(T), NEW positions \in SUBSET (DOMAIN s)
    PROVE  /\ At(s, positions) \in Seq(T)
           /\ Range(At(s, positions)) = {s[i] : i \in positions}
<1> DEFINE at(k) == CHOOSE i \in positions : countBitsBefore(positions, i) = k - 1
           kept == At(s, positions)
<1>1. positions \subseteq Nat /\ IsFiniteSet(positions) /\ Cardinality(positions) \in Nat
  <2>1. Len(s) \in Nat /\ positions \in SUBSET (1..Len(s))
    BY SMTT(30)
  <2> QED
    BY <2>1, BitmapFinite
<1>2. ASSUME NEW k \in 1..Cardinality(positions)
      PROVE  at(k) \in positions /\ countBitsBefore(positions, at(k)) = k - 1
  <2>1. \E i \in positions : countBitsBefore(positions, i) = k - 1
    BY <1>1, CountOnto
  <2> QED
    BY <2>1
<1>3. ASSUME NEW i \in positions
      PROVE  \E k \in 1..Cardinality(positions) : at(k) = i
  <2> DEFINE k == countBitsBefore(positions, i) + 1
  <2>1. k \in 1..Cardinality(positions) /\ k - 1 = countBitsBefore(positions, i)
    BY <1>1, CountBelow, SMTT(30)
  <2> HIDE DEF k
  <2>2. at(k) \in positions /\ countBitsBefore(positions, at(k)) = countBitsBefore(positions, i)
    BY <1>2, <2>1
  <2>3. at(k) = i
    BY <1>1, <2>2, CountInjective
  <2> QED
    BY <2>1, <2>3
<1>4. kept = [k \in 1..Cardinality(positions) |-> s[at(k)]]
  BY DEF At
<1> HIDE DEF at, kept
<1>5. \A i \in positions : s[i] \in T
  BY SMTT(30)
<1>6. kept \in [1..Cardinality(positions) -> T]
  BY <1>2, <1>4, <1>5
<1>7. DOMAIN kept = 1..Cardinality(positions) /\ \A k \in DOMAIN kept : kept[k] = s[at(k)]
  BY <1>4
<1>8. Range(kept) = {s[i] : i \in positions}
  BY <1>2, <1>3, <1>7, SMTT(30) DEF Range
<1> QED
  BY <1>1, <1>6, <1>8, FunctionIsSeq DEF kept

\* What is left of a queue or of the pool after a commit.
LEMMA WithoutFacts ==
    ASSUME NEW T, NEW s \in Seq(T), NEW gone
    PROVE  Without(s, gone) \in Seq(T) /\ Range(Without(s, gone)) = Range(s) \ gone
<1> DEFINE P == {i \in DOMAIN s : s[i] \notin gone}
<1>1. P \in SUBSET (DOMAIN s) /\ Without(s, gone) = At(s, P)
  BY DEF Without
<1>2. {s[i] : i \in P} = Range(s) \ gone
  BY DEF Range
<1> HIDE DEF P
<1> QED
  BY <1>1, <1>2, AtFacts

\* The elements of two queues put together.
LEMMA RangeConcat ==
    ASSUME NEW T, NEW s \in Seq(T), NEW t \in Seq(T)
    PROVE  Range(s \o t) = Range(s) \cup Range(t)
<1>1. /\ DOMAIN (s \o t) = 1..(Len(s) + Len(t)) /\ DOMAIN s = 1..Len(s) /\ DOMAIN t = 1..Len(t)
      /\ Len(s) \in Nat /\ Len(t) \in Nat
  BY SMTT(30)
<1>2. /\ \A i \in 1..Len(s) : i \in DOMAIN (s \o t) /\ (s \o t)[i] = s[i]
      /\ \A i \in 1..Len(t) : Len(s) + i \in DOMAIN (s \o t) /\ (s \o t)[Len(s) + i] = t[i]
  BY <1>1, SMTT(30)
<1>3. \A i \in DOMAIN (s \o t) : i \in 1..Len(s) \/ \E j \in 1..Len(t) : i = Len(s) + j
  <2> SUFFICES ASSUME NEW i \in 1..(Len(s) + Len(t)), i \notin 1..Len(s)
               PROVE  \E j \in 1..Len(t) : i = Len(s) + j
    BY <1>1
  <2>1. i - Len(s) \in 1..Len(t) /\ i = Len(s) + (i - Len(s))
    BY <1>1, SMTT(30)
  <2> QED
    BY <2>1, ZenonT(60)
<1>4. Range(s \o t) \subseteq Range(s) \cup Range(t)
  BY <1>1, <1>2, <1>3, SMTT(30) DEF Range
<1>5. Range(s) \cup Range(t) \subseteq Range(s \o t)
  BY <1>1, <1>2 DEF Range
<1> QED
  BY <1>4, <1>5

\* The elements of a queue that grows or shrinks at one end.
LEMMA RangeFacts ==
    ASSUME NEW T, NEW s \in Seq(T), NEW e \in T
    PROVE  /\ Range(Append(s, e)) = Range(s) \cup {e}
           /\ Range(<<>>) = {}
           /\ s # <<>> => Head(s) \in Range(s) /\ Range(Tail(s)) \subseteq Range(s)
<1>1. Range(Append(s, e)) = Range(s) \cup {e}
  <2>1. /\ DOMAIN Append(s, e) = 1..(Len(s) + 1) /\ DOMAIN s = 1..Len(s) /\ Len(s) \in Nat
        /\ \A i \in 1..Len(s) : Append(s, e)[i] = s[i]
        /\ Append(s, e)[Len(s) + 1] = e
    BY SMTT(30)
  <2>2. \A i \in 1..(Len(s) + 1) : i \in 1..Len(s) \/ i = Len(s) + 1
    BY <2>1, SMTT(30)
  <2>3. Len(s) + 1 \in 1..(Len(s) + 1) /\ 1..Len(s) \subseteq 1..(Len(s) + 1)
    BY <2>1, SMTT(30)
  <2> QED
    BY <2>1, <2>2, <2>3 DEF Range
<1>2. Range(<<>>) = {}
  BY SMTT(30) DEF Range
<1>3. ASSUME s # <<>>
      PROVE  Head(s) \in Range(s) /\ Range(Tail(s)) \subseteq Range(s)
  <2>1. Len(s) \in Nat \ {0} /\ DOMAIN s = 1..Len(s)
    BY <1>3, SMTT(30)
  <2>2. Head(s) = s[1] /\ 1 \in DOMAIN s
    BY <1>3, <2>1, SMTT(30)
  <2>3. /\ DOMAIN Tail(s) = 1..(Len(s) - 1)
        /\ \A i \in 1..(Len(s) - 1) : Tail(s)[i] = s[i + 1] /\ i + 1 \in DOMAIN s
    BY <1>3, <2>1, SMTT(30)
  <2> QED
    BY <2>2, <2>3, SMTT(30) DEF Range
<1> QED
  BY <1>1, <1>2, <1>3

\* RunCycle ingests what is in the pool, and adds it to what it kept.
LEMMA IngestedFacts ==
    ASSUME pendingEntries \in [Node -> Seq(Body)], pool \in Seq(Body), NEW n \in Node
    PROVE  /\ Ingested(n) \in Seq(Body)
           /\ Range(Ingested(n)) \subseteq Range(pendingEntries[n]) \cup Range(pool)
<1> DEFINE held == Range(pendingEntries[n]) \cup Range(pending[n])
           P == {i \in DOMAIN pool : pool[i] \notin held /\ \A j \in 1..(i - 1) : pool[j] # pool[i]}
<1>1. Ingested(n) = pendingEntries[n] \o At(pool, P)
  BY DEF Ingested
<1>2. P \in SUBSET (DOMAIN pool)
  OBVIOUS
<1> HIDE DEF P
<1>3. At(pool, P) \in Seq(Body) /\ Range(At(pool, P)) = {pool[i] : i \in P}
  BY <1>2, AtFacts
<1>4. {pool[i] : i \in P} \subseteq Range(pool)
  BY <1>2 DEF Range
<1>5. pendingEntries[n] \in Seq(Body)
  OBVIOUS
<1>6. Ingested(n) \in Seq(Body)
  BY <1>1, <1>3, <1>5, SMTT(30)
<1>7. Range(Ingested(n)) = Range(pendingEntries[n]) \cup Range(At(pool, P))
  BY <1>1, <1>3, <1>5, RangeConcat, SMTT(30)
<1> QED
  BY <1>3, <1>4, <1>6, <1>7

-----------------------------------------------------------------------------
\* The rest of the types, the stages of RunCycle included: a cycle is under way only
\* below the bound, and one that admits entries has entries to admit.
QueueTypes ==
    /\ anchored \in [Node -> SUBSET Body]
    /\ degraded \in [Node -> BOOLEAN]
    /\ pending \in [Node -> Seq(Body)]
    /\ pendingEntries \in [Node -> Seq(Body)]
    /\ todo \in [Node -> Seq(Body)]
    /\ pool \in Seq(Body)
    /\ leader \in [Cycles -> Node]
    /\ submissions \in 0..MaxSubmissions
    /\ restarts \in 0..MaxRestarts
    /\ proofs \in [Cycles -> SUBSET Node]
    /\ proposals \in [Cycles -> {None} \cup [anchored : SUBSET Body]]
    /\ DOMAIN finals = Cycles
    /\ \A n \in Node : /\ height[n] <= MaxBlocks
                       /\ pc[n] # "idle" => height[n] < MaxBlocks
                       /\ pc[n] = "admit" => todo[n] # <<>>

\* A candidate was proposed only when every node had published its proof for the
\* cycle, which a node does at that height.
Elected ==
    \A c \in Cycles : /\ \A n \in proofs[c] : c <= height[n]
                      /\ proposals[c] # None => proofs[c] = Node

\* B_final anchors what the candidate of its cycle does, and a chain anchors what the
\* candidates of its heights do.
ChainAnchors ==
    /\ \A c \in Cycles : finals[c] # None =>
           proposals[c] # None /\ finals[c].anchored = proposals[c].anchored
    /\ \A n \in Node : \A c \in Cycles : c < height[n] =>
           proposals[c] # None /\ proposals[c].anchored \subseteq anchored[n]

ChainInv == KeyInv /\ QueueTypes /\ Elected /\ ChainAnchors

\* The initial state satisfies it: nothing is queued, proposed or anchored.
LEMMA ChainInit == Init => ChainInv
<1> SUFFICES ASSUME Init
             PROVE  ChainInv
  OBVIOUS
<1>1. KeyInv
  BY InitKeyInv
<1>2. {MaxBlocks, MaxSubmissions, MaxRestarts} \subseteq Nat
  BY RotationAssumption
<1>3. QueueTypes
  BY <1>2, SMTT(30) DEF Init, QueueTypes
<1>4. Elected
  BY DEF Init, Elected
<1>5. \A c \in Cycles : ~(c < 0)
  BY <1>2, SMTT(30) DEF Cycles
<1>6. ChainAnchors
  BY <1>5 DEF Init, ChainAnchors
<1> QED
  BY <1>1, <1>3, <1>4, <1>6 DEF ChainInv

\* What a commit does to a node's chain and queues, and to the pool: the candidate of
\* the node's height is anchored, and what it holds is gone from the pool.
LEMMA CommitStep ==
    ASSUME ChainInv, NEW n \in Node, Finalise(n) \/ CommitFinal(n)
    PROVE  /\ height[n] \in Cycles /\ proposals[height[n]] \in [anchored : SUBSET Body]
           /\ proposals[height[n]] # None
           /\ anchored' = [anchored EXCEPT ![n] = @ \cup proposals[height[n]].anchored]
           /\ degraded' \in [Node -> BOOLEAN]
           /\ pendingEntries' = [pendingEntries EXCEPT ![n] = Without(@, proposals[height[n]].anchored)]
           /\ pending' = [pending EXCEPT ![n] = <<>>]
           /\ pool' = Without(pool, proposals[height[n]].anchored)
           /\ \/ UNCHANGED finals
              \/ \E s : finals' = [finals EXCEPT ![height[n]] =
                                      [anchored |-> proposals[height[n]].anchored, signers |-> s]]
           /\ UNCHANGED <<todo, proofs, proposals, leader, submissions, restarts>>
<1> DEFINE c == height[n]
<1>1. c \in Cycles
  <2>1. pc[n] = "consensus"
    BY ZenonT(60) DEF Finalise, CommitFinal
  <2>2. c \in Nat /\ c < MaxBlocks /\ MaxBlocks \in Nat
    BY <2>1, RotationAssumption, ZenonT(60) DEF ChainInv, KeyInv, KeyTypes, QueueTypes
  <2> QED
    BY <2>2, SMTT(30) DEF Cycles
<1>2. UNCHANGED <<todo, proofs, proposals, leader, submissions, restarts>>
  BY ZenonT(60) DEF Finalise, CommitFinal, bounds
<1>3. \E f : /\ CommitBlock(n, f) /\ f.anchored = proposals[c].anchored /\ proposals[c] # None
             /\ \/ UNCHANGED finals
                \/ \E s : /\ f = [anchored |-> proposals[c].anchored, signers |-> s]
                          /\ finals' = [finals EXCEPT ![c] = f]
  <2>1. CASE Finalise(n)
    BY <2>1, ZenonT(60) DEF Finalise
  <2>2. CASE CommitFinal(n)
    <3>1. CommitBlock(n, finals[c]) /\ finals[c] # None /\ UNCHANGED finals
      BY <2>2, ZenonT(60) DEF CommitFinal
    <3>2. finals[c].anchored = proposals[c].anchored /\ proposals[c] # None
      BY <1>1, <3>1 DEF ChainInv, ChainAnchors
    <3> QED
      BY <3>1, <3>2
  <2> QED
    BY <2>1, <2>2
<1>4. PICK f : /\ CommitBlock(n, f) /\ f.anchored = proposals[c].anchored /\ proposals[c] # None
               /\ \/ UNCHANGED finals
                  \/ \E s : /\ f = [anchored |-> proposals[c].anchored, signers |-> s]
                            /\ finals' = [finals EXCEPT ![c] = f]
  BY <1>3, ZenonT(60)
<1>5. proposals[c] \in [anchored : SUBSET Body]
  BY <1>1, <1>4 DEF ChainInv, QueueTypes
<1>6. degraded' \in [Node -> BOOLEAN]
  BY <1>4 DEF CommitBlock, ChainInv, QueueTypes
<1> QED
  BY <1>1, <1>2, <1>4, <1>5, <1>6, ZenonT(60) DEF CommitBlock

\* Every step keeps the types.
LEMMA NextQueueTypes ==
    ASSUME ChainInv, [Next]_vars
    PROVE  QueueTypes'
<1>0. KeyTypes /\ QueueTypes
  BY DEF ChainInv, KeyInv
<1>1. {MaxBlocks, MaxSubmissions, MaxRestarts} \subseteq Nat
  BY RotationAssumption, ZenonT(60)
<1>q. /\ pending \in [Node -> Seq(Body)] /\ pendingEntries \in [Node -> Seq(Body)]
      /\ todo \in [Node -> Seq(Body)] /\ pool \in Seq(Body)
  BY <1>0, ZenonT(60) DEF QueueTypes
<1> USE DEF KeyTypes, QueueTypes
<1>2. ASSUME NEW n \in Node, NEW b \in Body, SyncForSubmit(n, b)
      PROVE  QueueTypes'
  <2>1. submissions' \in 0..MaxSubmissions
    <3>1. /\ submissions \in 0..MaxSubmissions /\ MaxSubmissions \in Nat
          /\ submissions < MaxSubmissions /\ submissions' = submissions + 1
      BY <1>0, <1>1, <1>2, ZenonT(60) DEF SyncForSubmit
    <3> HIDE DEF KeyTypes, QueueTypes
    <3> QED BY <3>1, SMTT(30)
  <2> QED
    BY <1>0, <1>2, <2>1, ZenonT(60) DEF SyncForSubmit, bus
<1>3. ASSUME NEW n \in Node, NEW b \in Body, RecordRotationBody(n, b)
      PROVE  QueueTypes'
  BY <1>0, <1>3 DEF RecordRotationBody, bus, bounds
<1>4. ASSUME NEW n \in Node, ValidateSubmission(n)
      PROVE  QueueTypes'
  BY <1>0, <1>4, ZenonT(60) DEF ValidateSubmission, engine, bus, bounds
<1>5. ASSUME NEW n \in Node, StoreBody(n)
      PROVE  QueueTypes'
  BY <1>0, <1>5 DEF StoreBody, bus, bounds
<1>6. ASSUME NEW n \in Node, EnqueueSubmission(n)
      PROVE  QueueTypes'
  <2>1. submitting[n].body \in Body
    BY <1>0, <1>6 DEF EnqueueSubmission, AtStage
  <2>2. pending' \in [Node -> Seq(Body)] /\ pool' \in Seq(Body)
    <3>1. Append(pending[n], submitting[n].body) \in Seq(Body) /\ Append(pool, submitting[n].body) \in Seq(Body)
      BY <1>q, <2>1, SMTT(30)
    <3>2. \/ /\ pending' = [pending EXCEPT ![n] = Append(pending[n], submitting[n].body)]
             /\ pool' = Append(pool, submitting[n].body)
          \/ UNCHANGED <<pending, pool>>
      BY <1>6 DEF EnqueueSubmission
    <3>3. pending \in [Node -> Seq(Body)] /\ pool \in Seq(Body)
      BY <1>q
    <3> HIDE DEF KeyTypes, QueueTypes
    <3> QED
      BY <3>1, <3>2, <3>3, ZenonT(60)
  <2> QED
    BY <1>0, <1>6, <2>2, ZenonT(60) DEF EnqueueSubmission, bounds
<1>7. ASSUME NEW n \in Node, SkipCycle(n)
      PROVE  QueueTypes'
  BY <1>0, <1>7, ZenonT(60) DEF SkipCycle, bus, bounds
<1>8. ASSUME NEW n \in Node, StartCycle(n)
      PROVE  QueueTypes'
  <2> DEFINE entries == Ingested(n) \o pending[n]
  <2>1. Ingested(n) \in Seq(Body) /\ entries \in Seq(Body)
    BY <1>q, IngestedFacts, SMTT(30)
  <2>2. /\ pendingEntries' = [pendingEntries EXCEPT ![n] = Ingested(n)]
        /\ todo' = [todo EXCEPT ![n] = entries]
        /\ pc' = [pc EXCEPT ![n] = AfterAdmitting(entries)]
        /\ height[n] < MaxBlocks
        /\ UNCHANGED <<height, anchored, degraded, pending, bus, leader, bounds>>
    BY <1>8 DEF StartCycle
  <2> HIDE DEF entries
  <2>3. AfterAdmitting(entries) = "admit" => entries # <<>>
    BY ZenonT(60) DEF AfterAdmitting
  <2> QED
    BY <1>0, <2>1, <2>2, <2>3, ZenonT(60) DEF bus, bounds
<1>9. ASSUME NEW n \in Node, AdmitEntry(n)
      PROVE  QueueTypes'
  <2> DEFINE entries == Tail(todo[n])
  <2>1. entries \in Seq(Body)
    <3>1. todo[n] # <<>>
      BY <1>0, <1>9, ZenonT(60) DEF AdmitEntry
    <3> QED
      BY <1>q, <3>1, SMTT(30)
  <2>2. /\ pc[n] = "admit"
        /\ todo' = [todo EXCEPT ![n] = entries]
        /\ pc' = [pc EXCEPT ![n] = AfterAdmitting(entries)]
        /\ UNCHANGED <<height, anchored, degraded, pending, pendingEntries, bus, leader, bounds>>
    BY <1>9 DEF AdmitEntry
  <2> HIDE DEF entries
  <2>3. AfterAdmitting(entries) = "admit" => entries # <<>>
    BY DEF AfterAdmitting
  <2> QED
    BY <1>0, <2>1, <2>2, <2>3, ZenonT(60) DEF bus, bounds
<1>10. ASSUME NEW n \in Node, PublishVRFProof(n)
       PROVE  QueueTypes'
  <2>1. height[n] < MaxBlocks /\ height[n] \in Cycles
    BY <1>0, <1>1, <1>10, SMTT(30) DEF PublishVRFProof, Cycles
  <2>2. proofs' \in [Cycles -> SUBSET Node]
    BY <1>0, <1>10, <2>1 DEF PublishVRFProof
  <2> QED
    BY <1>0, <1>10, <2>1, <2>2, ZenonT(60) DEF PublishVRFProof, engine, bounds
<1>11. ASSUME NEW n \in Node, Propose(n)
       PROVE  QueueTypes'
  <2>1. height[n] \in Cycles
    <3>1. pc[n] = "consensus"
      BY <1>11, ZenonT(60) DEF Propose
    <3>2. height[n] \in Nat /\ height[n] < MaxBlocks /\ MaxBlocks \in Nat
      BY <1>0, <1>1, <3>1
    <3> HIDE DEF KeyTypes, QueueTypes
    <3> QED
      BY <3>2, SMTT(30) DEF Cycles
  <2>2. Range(pool) \in SUBSET Body
    BY <1>q, SMTT(30) DEF Range
  <2>3. proposals' \in [Cycles -> {None} \cup [anchored : SUBSET Body]]
    BY <1>0, <1>11, <2>1, <2>2, ZenonT(60) DEF Propose
  <2> QED
    BY <1>0, <1>11, <2>3 DEF Propose, engine, bounds
<1>12. ASSUME NEW n \in Node, SignProposal(n)
       PROVE  QueueTypes'
  BY <1>0, <1>12, ZenonT(60) DEF SignProposal, engine, bounds
<1>13. ASSUME NEW n \in Node, Finalise(n) \/ CommitFinal(n)
       PROVE  QueueTypes'
  <2> DEFINE gone == proposals[height[n]].anchored
  <2>1. gone \in SUBSET Body /\ height[n] \in Cycles /\ height[n] + 1 <= MaxBlocks
    <3>1. height[n] \in Cycles /\ proposals[height[n]] \in [anchored : SUBSET Body]
      BY <1>13, CommitStep, ZenonT(60)
    <3> QED
      BY <1>1, <3>1, SMTT(30) DEF Cycles
  <2>2. /\ anchored' = [anchored EXCEPT ![n] = @ \cup gone]
        /\ degraded' \in [Node -> BOOLEAN]
        /\ pendingEntries' = [pendingEntries EXCEPT ![n] = Without(@, gone)]
        /\ pending' = [pending EXCEPT ![n] = <<>>]
        /\ pool' = Without(pool, gone)
        /\ UNCHANGED <<todo, proofs, proposals, leader, submissions, restarts>>
    BY <1>13, CommitStep, ZenonT(60)
  <2>3. /\ height' = [height EXCEPT ![n] = @ + 1] /\ pc' = [pc EXCEPT ![n] = "idle"]
        /\ DOMAIN finals' = Cycles
    BY <1>0, <1>13, CommitEffect, CommitStep, ZenonT(60)
  <2> HIDE DEF gone
  <2>4. Without(pool, gone) \in Seq(Body) /\ Without(pendingEntries[n], gone) \in Seq(Body)
    BY <1>q, WithoutFacts, ZenonT(60)
  <2>5. pool' \in Seq(Body) /\ pendingEntries' \in [Node -> Seq(Body)] /\ pending' \in [Node -> Seq(Body)]
    BY <1>q, <2>2, <2>4, SMTT(30)
  <2>6. anchored' \in [Node -> SUBSET Body]
    BY <1>0, <2>1, <2>2, ZenonT(60)
  <2>7. \A m \in Node : /\ height'[m] <= MaxBlocks
                        /\ pc'[m] # "idle" => height'[m] < MaxBlocks
                        /\ pc'[m] = "admit" => todo'[m] # <<>>
    BY <1>0, <2>1, <2>2, <2>3
  <2> QED
    BY <1>0, <2>2, <2>3, <2>5, <2>6, <2>7, ZenonT(60)
<1>14. ASSUME NEW n \in Node, AbortCycle(n)
       PROVE  QueueTypes'
  <2>1. pendingEntries[n] \o pending[n] \in Seq(Body)
    BY <1>q, SMTT(30)
  <2> QED
    BY <1>0, <1>14, <2>1, ZenonT(60) DEF AbortCycle, bus, bounds
<1>15. ASSUME NEW n \in Node, Restart(n)
       PROVE  QueueTypes'
  BY <1>0, <1>1, <1>15, SMTT(30) DEF Restart, bus
<1>16. CASE UNCHANGED vars
  BY <1>0, <1>16 DEF vars, engine, bus, bounds
<1> QED
  BY <1>2, <1>3, <1>4, <1>5, <1>6, <1>7, <1>8, <1>9, <1>10, <1>11, <1>12, <1>13, <1>14,
     <1>15, <1>16, ZenonT(60)
  DEF Next, RotateKey, SubmitKeyRotation

\* Only the proof, the candidate and the commit of a cycle touch the chains and what is
\* published of the cycles.
LEMMA OtherSteps ==
    ASSUME ChainInv, [Next]_vars
    PROVE  \/ \E n \in Node : PublishVRFProof(n) \/ Propose(n) \/ Finalise(n) \/ CommitFinal(n)
           \/ /\ UNCHANGED <<height, anchored, proofs, proposals, finals>>
              /\ Range(pool) \subseteq Range(pool')
<1> DEFINE Quiet == UNCHANGED <<height, anchored, proofs, proposals, finals>>
<1>1. ASSUME NEW n \in Node, NEW b \in Body, SyncForSubmit(n, b) \/ RecordRotationBody(n, b)
      PROVE  Quiet /\ UNCHANGED pool
  BY <1>1 DEF SyncForSubmit, RecordRotationBody, bus
<1>2. ASSUME NEW n \in Node, \/ ValidateSubmission(n) \/ StoreBody(n) \/ SkipCycle(n)
                             \/ StartCycle(n) \/ AdmitEntry(n) \/ SignProposal(n)
                             \/ AbortCycle(n) \/ Restart(n)
      PROVE  Quiet /\ UNCHANGED pool
  BY <1>2 DEF ValidateSubmission, StoreBody, SkipCycle, StartCycle, AdmitEntry, SignProposal,
              AbortCycle, Restart, engine, bus
<1>3. ASSUME NEW n \in Node, EnqueueSubmission(n)
      PROVE  Quiet /\ Range(pool) \subseteq Range(pool')
  <2>1. submitting[n].body \in Body /\ pool \in Seq(Body)
    <3>1. submitting[n] # None
      BY <1>3 DEF EnqueueSubmission, AtStage
    <3> QED
      BY <3>1, ZenonT(60) DEF ChainInv, KeyInv, KeyTypes, QueueTypes
  <2>2. Range(Append(pool, submitting[n].body)) = Range(pool) \cup {submitting[n].body}
    BY <2>1, RangeFacts
  <2>3. pool' = Append(pool, submitting[n].body) \/ pool' = pool
    BY <1>3 DEF EnqueueSubmission
  <2> QED
    BY <1>3, <2>2, <2>3, ZenonT(60) DEF EnqueueSubmission
<1>4. CASE UNCHANGED vars
  BY <1>4 DEF vars, engine, bus
<1> HIDE DEF Quiet
<1>5. CASE Next
  <2>1. PICK n \in Node :
            \/ \E b \in Body : SyncForSubmit(n, b) \/ RecordRotationBody(n, b)
            \/ \/ ValidateSubmission(n) \/ StoreBody(n) \/ SkipCycle(n)
               \/ StartCycle(n) \/ AdmitEntry(n) \/ SignProposal(n)
               \/ AbortCycle(n) \/ Restart(n)
            \/ EnqueueSubmission(n)
            \/ PublishVRFProof(n) \/ Propose(n) \/ Finalise(n) \/ CommitFinal(n)
    BY <1>5 DEF Next, RotateKey, SubmitKeyRotation
  <2> QED
    BY <1>1, <1>2, <1>3, <2>1 DEF Quiet
<1> QED
  BY <1>4, <1>5, ZenonT(60) DEF Quiet

\* A node publishes its proof for a cycle at that height, and the candidate waits for
\* all of them.
LEMMA NextElected ==
    ASSUME ChainInv, [Next]_vars
    PROVE  Elected'
<1>0. KeyTypes /\ QueueTypes /\ Elected
  BY ZenonT(60) DEF ChainInv, KeyInv
<1>1. CASE UNCHANGED <<height, anchored, proofs, proposals, finals>>
  BY <1>0, <1>1 DEF Elected
<1>2. ASSUME NEW n \in Node, PublishVRFProof(n)
      PROVE  Elected'
  <2>1. /\ proofs' = [proofs EXCEPT ![height[n]] = @ \cup {n}]
        /\ UNCHANGED <<height, proposals>>
    BY <1>2 DEF PublishVRFProof, engine
  <2>2. proofs \in [Cycles -> SUBSET Node] /\ height \in [Node -> Nat]
    BY <1>0 DEF QueueTypes, KeyTypes
  <2>3. ASSUME NEW c \in Cycles
        PROVE  /\ \A m \in proofs'[c] : c <= height[m]
               /\ proposals[c] # None => proofs'[c] = Node
    BY <1>0, <2>1, <2>2, SMTT(30) DEF Elected
  <2> QED
    BY <2>1, <2>3 DEF Elected
<1>3. ASSUME NEW n \in Node, Propose(n)
      PROVE  Elected'
  <2>1. /\ proposals' = [proposals EXCEPT ![height[n]] = [anchored |-> Range(pool)]]
        /\ proofs[height[n]] = Node
        /\ UNCHANGED <<height, proofs>>
    BY <1>3, ZenonT(60) DEF Propose, engine
  <2>2. DOMAIN proposals = Cycles
    BY <1>0 DEF QueueTypes
  <2>3. ASSUME NEW c \in Cycles, proposals'[c] # None
        PROVE  proofs[c] = Node
    BY <1>0, <2>1, <2>2, <2>3 DEF Elected
  <2> QED
    BY <1>0, <2>1, <2>3, ZenonT(60) DEF Elected
<1>4. ASSUME NEW n \in Node, Finalise(n) \/ CommitFinal(n)
      PROVE  Elected'
  <2>1. height' = [height EXCEPT ![n] = @ + 1] /\ UNCHANGED <<proofs, proposals>>
    BY <1>4, CommitEffect, CommitStep, ZenonT(60)
  <2>2. height \in [Node -> Nat] /\ proofs \in [Cycles -> SUBSET Node] /\ Cycles \subseteq Int
    BY <1>0, SMTT(30) DEF KeyTypes, QueueTypes, Cycles
  <2>3. ASSUME NEW c \in Cycles, NEW m \in proofs[c]
        PROVE  c <= height'[m]
    <3>1. m \in Node /\ c <= height[m] /\ c \in Int /\ height[m] \in Nat
      BY <1>0, <2>2 DEF Elected
    <3> QED
      BY <2>1, <2>2, <3>1, SMTT(30)
  <2> QED
    BY <1>0, <2>1, <2>3 DEF Elected
<1> QED
  BY <1>1, <1>2, <1>3, <1>4, OtherSteps

\* A commit anchors the candidate of the node's height; nothing else moves a chain, and
\* a candidate stays as it was published.
LEMMA NextChainAnchors ==
    ASSUME ChainInv, [Next]_vars
    PROVE  ChainAnchors'
<1>0. KeyTypes /\ QueueTypes /\ ChainAnchors
  BY DEF ChainInv, KeyInv
<1>1. CASE UNCHANGED <<height, anchored, proofs, proposals, finals>>
  BY <1>0, <1>1 DEF ChainAnchors
<1>2. ASSUME NEW n \in Node, PublishVRFProof(n)
      PROVE  ChainAnchors'
  <2>1. UNCHANGED <<height, anchored, proposals, finals>>
    BY <1>2 DEF PublishVRFProof, engine
  <2> QED
    BY <1>0, <2>1 DEF ChainAnchors
<1>3. ASSUME NEW n \in Node, Propose(n)
      PROVE  ChainAnchors'
  <2>1. /\ proposals' = [proposals EXCEPT ![height[n]] = [anchored |-> Range(pool)]]
        /\ proposals[height[n]] = None
        /\ UNCHANGED <<height, anchored, finals>>
    BY <1>3 DEF Propose, engine
  <2>2. DOMAIN proposals = Cycles
    BY <1>0 DEF QueueTypes
  <2>3. \A c \in Cycles : proposals[c] # None => proposals'[c] = proposals[c]
    BY <2>1, <2>2, ZenonT(60)
  <2> QED
    BY <1>0, <2>1, <2>3, ZenonT(60) DEF ChainAnchors
<1>4. ASSUME NEW n \in Node, Finalise(n) \/ CommitFinal(n)
      PROVE  ChainAnchors'
  <2> DEFINE h == height[n]
             gone == proposals[h].anchored
  <2>1. /\ h \in Cycles /\ proposals[h] # None
        /\ anchored' = [anchored EXCEPT ![n] = @ \cup gone]
        /\ \/ UNCHANGED finals
           \/ \E s : finals' = [finals EXCEPT ![h] = [anchored |-> gone, signers |-> s]]
        /\ UNCHANGED proposals
    BY <1>4, CommitStep
  <2>2. height' = [height EXCEPT ![n] = @ + 1]
    BY <1>4, CommitEffect
  <2>3. /\ height \in [Node -> Nat] /\ anchored \in [Node -> SUBSET Body]
        /\ DOMAIN finals = Cycles
    BY <1>0, ZenonT(60) DEF KeyTypes, QueueTypes
  <2>6. Cycles \subseteq Int
    BY SMTT(30) DEF Cycles
  <2>4. ASSUME NEW c \in Cycles, finals'[c] # None
        PROVE  proposals[c] # None /\ finals'[c].anchored = proposals[c].anchored
    <3>1. CASE finals'[c] = finals[c]
      BY <1>0, <2>4, <3>1, ZenonT(60) DEF ChainAnchors
    <3>2. CASE finals'[c] # finals[c]
      <4>1. c = h /\ \E s : finals'[c] = [anchored |-> gone, signers |-> s]
        BY <2>1, <2>3, <3>2, ZenonT(60)
      <4> QED
        BY <2>1, <4>1, SMTT(30)
    <3> QED
      BY <3>1, <3>2
  <2>5. ASSUME NEW m \in Node, NEW c \in Cycles, c < height'[m]
        PROVE  proposals[c] # None /\ proposals[c].anchored \subseteq anchored'[m]
    <3>1. CASE c < height[m]
      BY <1>0, <2>1, <2>3, <3>1, ZenonT(60) DEF ChainAnchors
    <3>2. CASE ~(c < height[m])
      <4>1. m = n /\ c = h
        BY <2>2, <2>3, <2>6, <2>5, <3>2, SMTT(30)
      <4> QED
        BY <2>1, <2>3, <4>1
    <3> QED
      BY <3>1, <3>2, ZenonT(60)
  <2> HIDE DEF h, gone
  <2> QED
    BY <2>1, <2>4, <2>5 DEF ChainAnchors
<1> QED
  BY <1>1, <1>2, <1>3, <1>4, OtherSteps

\* The types, the order of a cycle's messages and the contents of the chains are an
\* inductive invariant.
THEOREM ChainCorrect == Spec => []ChainInv
<1>1. ChainInv /\ [Next]_vars => ChainInv'
  <2> SUFFICES ASSUME ChainInv, [Next]_vars
               PROVE  ChainInv'
    OBVIOUS
  <2>1. KeyInv'
    BY NextKeyInv DEF ChainInv
  <2> QED
    BY <2>1, NextQueueTypes, NextElected, NextChainAnchors DEF ChainInv
<1> QED
  BY <1>1, ChainInit, PTL DEF Spec

-----------------------------------------------------------------------------
\* Where the entries a node has queued are to be found: still in the pool, anchored in
\* its chain, or in the candidate of its height.
InProposal(n, b) ==
    /\ height[n] \in Cycles
    /\ proposals[height[n]] # None
    /\ b \in proposals[height[n]].anchored

NoProposal(n) == height[n] \in Cycles => proposals[height[n]] = None

Queued(n) == Range(pending[n]) \cup Range(pendingEntries[n]) \cup Range(todo[n])

Known(n, b) == b \in anchored[n] \/ InProposal(n, b) \/ b \in Range(pool)

\* A rotation that is not anchored yet takes effect above the node's height, and if the
\* candidate of that height was made without it, above the next one too.
Timely(n, b) ==
    \/ b \in anchored[n]
    \/ /\ b.effective > height[n]
       /\ InProposal(n, b) \/ (b \in Range(pool) /\ (NoProposal(n) \/ b.effective > height[n] + 1))

RotationInv ==
    /\ ChainInv
    /\ \A n \in Node : \A b \in Queued(n) : Known(n, b)
    /\ \A n, v \in Node : \A i \in DOMAIN rotations[n][v] : Timely(n, rotations[n][v][i])

\* What a node knows of a rotation it goes on knowing, and a rotation that is in time
\* stays in time: a candidate takes the whole pool, and what a commit takes out of the
\* pool every other node has in its chain or in the candidate of its height.
LEMMA KnownStays ==
    ASSUME ChainInv, [Next]_vars, NEW m \in Node, NEW b \in Body
    PROVE  (Known(m, b) => Known(m, b)') /\ (Timely(m, b) => Timely(m, b)')
<1>0. /\ height \in [Node -> Nat] /\ anchored \in [Node -> SUBSET Body] /\ pool \in Seq(Body)
      /\ DOMAIN proposals = Cycles /\ b.effective \in Nat
  BY BodyFields, ZenonT(60) DEF ChainInv, KeyInv, KeyTypes, QueueTypes
<1>1. CASE UNCHANGED <<height, anchored, proposals>> /\ Range(pool) \subseteq Range(pool')
  BY <1>1, ZenonT(60) DEF Known, Timely, InProposal, NoProposal
<1>2. ASSUME NEW n \in Node, PublishVRFProof(n)
      PROVE  UNCHANGED <<height, anchored, proposals, pool>>
  BY <1>2, ZenonT(60) DEF PublishVRFProof, engine
<1>3. ASSUME NEW n \in Node, Propose(n)
      PROVE  (Known(m, b) => Known(m, b)') /\ (Timely(m, b) => Timely(m, b)')
  <2>1. /\ proposals' = [proposals EXCEPT ![height[n]] = [anchored |-> Range(pool)]]
        /\ proposals[height[n]] = None
        /\ UNCHANGED <<height, anchored, pool>>
    BY <1>3, ZenonT(60) DEF Propose, engine
  <2>2. [anchored |-> Range(pool)] # None
    BY DEF None
  <2>3. \A c \in Cycles : /\ proposals[c] # None => proposals'[c] = proposals[c]
                          /\ \/ proposals'[c] = proposals[c]
                             \/ proposals'[c] # None /\ proposals'[c].anchored = Range(pool)
    BY <1>0, <2>1, <2>2
  <2> QED
    BY <2>1, <2>3, ZenonT(60) DEF Known, Timely, InProposal, NoProposal
<1>4. ASSUME NEW n \in Node, Finalise(n) \/ CommitFinal(n)
      PROVE  (Known(m, b) => Known(m, b)') /\ (Timely(m, b) => Timely(m, b)')
  <2> DEFINE h == height[n]
             gone == proposals[h].anchored
  <2>1. /\ h \in Cycles /\ proposals[h] # None
        /\ anchored' = [anchored EXCEPT ![n] = @ \cup gone]
        /\ pool' = Without(pool, gone)
        /\ UNCHANGED proposals
    BY <1>4, CommitStep
  <2>2. height' = [height EXCEPT ![n] = @ + 1]
    BY <1>4, CommitEffect
  <2>3. Range(pool') = Range(pool) \ gone
    BY <1>0, <2>1, WithoutFacts
  <2>4. Cycles \subseteq Int
    BY SMTT(30) DEF Cycles
  <2>5. \A c \in Cycles : proposals[c] # None => c <= height[m] /\ c <= height[n]
    BY ZenonT(60) DEF ChainInv, Elected
  <2>6. CASE m = n
    <3>1. /\ height'[m] = h + 1 /\ height[m] = h /\ anchored'[m] = anchored[m] \cup gone
          /\ h \in Nat
      BY <1>0, <2>1, <2>2, <2>6
    <3>2. NoProposal(m)'
      <4>1. h + 1 \in Cycles => proposals[h + 1] = None
        BY <2>5, <2>6, <3>1, SMTT(30)
      <4> QED
        BY <2>1, <3>1, <4>1, ZenonT(60) DEF NoProposal
    <3>3. ~NoProposal(m) /\ (InProposal(m, b) <=> b \in gone)
      BY <2>1, <3>1 DEF NoProposal, InProposal
    <3> HIDE DEF h, gone
    <3> QED
      BY <1>0, <2>3, <3>1, <3>2, <3>3, ZenonT(60) DEF Known, Timely
  <2>7. CASE m # n
    <3>1. height'[m] = height[m] /\ anchored'[m] = anchored[m]
      BY <1>0, <2>1, <2>2, <2>7, ZenonT(60)
    <3>2. (InProposal(m, b)' <=> InProposal(m, b)) /\ (NoProposal(m)' <=> NoProposal(m))
      BY <2>1, <3>1, ZenonT(60) DEF InProposal, NoProposal
    <3>3. ASSUME b \in gone
          PROVE  b \in anchored[m] \/ InProposal(m, b)
      <4>1. CASE h < height[m]
        BY <2>1, <3>3, <4>1 DEF ChainInv, ChainAnchors
      <4>2. CASE h = height[m]
        BY <2>1, <3>3, <4>2 DEF InProposal
      <4> QED
        BY <1>0, <2>1, <2>4, <2>5, <4>1, <4>2, SMTT(30)
    <3> HIDE DEF h, gone
    <3> QED
      BY <2>3, <3>1, <3>2, <3>3, ZenonT(60) DEF Known, Timely
  <2> QED
    BY <2>6, <2>7
<1> QED
  BY <1>1, <1>2, <1>3, <1>4, OtherSteps

\* What a step adds to a node's queues it takes from the pool, or puts into the pool as
\* well.
LEMMA QueuedStep ==
    ASSUME ChainInv, [Next]_vars, NEW m \in Node
    PROVE  Queued(m)' \subseteq Queued(m) \cup Range(pool) \cup Range(pool')
<1>0. /\ pending \in [Node -> Seq(Body)] /\ pendingEntries \in [Node -> Seq(Body)]
      /\ todo \in [Node -> Seq(Body)] /\ pool \in Seq(Body)
      /\ submitting \in [Node -> {None} \cup [body : Body, stage : {"validate", "store", "enqueue"}]]
      /\ \A n \in Node : pc[n] = "admit" => todo[n] # <<>>
  BY DEF ChainInv, KeyInv, KeyTypes, QueueTypes
<1> DEFINE Goal == Queued(m)' \subseteq Queued(m) \cup Range(pool) \cup Range(pool')
           Same == UNCHANGED <<pending, pendingEntries, todo>>
<1>1. CASE Same
  BY <1>1 DEF Queued
<1>2. ASSUME NEW n \in Node, NEW b \in Body, SyncForSubmit(n, b) \/ RecordRotationBody(n, b)
      PROVE  Same
  BY <1>2 DEF SyncForSubmit, RecordRotationBody
<1>3. ASSUME NEW n \in Node, \/ ValidateSubmission(n) \/ StoreBody(n) \/ SkipCycle(n)
                             \/ PublishVRFProof(n) \/ Propose(n) \/ SignProposal(n)
      PROVE  Same
  BY <1>3 DEF ValidateSubmission, StoreBody, SkipCycle, PublishVRFProof, Propose, SignProposal, engine
<1>4. ASSUME NEW n \in Node, EnqueueSubmission(n)
      PROVE  Goal
  <2> DEFINE e == submitting[n].body
  <2>1. e \in Body
    BY <1>0, <1>4 DEF EnqueueSubmission, AtStage
  <2>2. /\ \/ pending' = [pending EXCEPT ![n] = Append(pending[n], e)] /\ pool' = Append(pool, e)
           \/ UNCHANGED pending
        /\ UNCHANGED <<pendingEntries, todo>>
    BY <1>4 DEF EnqueueSubmission
  <2> HIDE DEF e
  <2>3. /\ Range(Append(pending[n], e)) = Range(pending[n]) \cup {e}
        /\ Range(Append(pool, e)) = Range(pool) \cup {e}
    BY <1>0, <2>1, RangeFacts, SMTT(30)
  <2>4. Range(pending'[m]) \subseteq Range(pending[m]) \cup Range(pool')
    BY <1>0, <2>2, <2>3
  <2> QED
    BY <2>2, <2>4 DEF Queued
<1>5. ASSUME NEW n \in Node, StartCycle(n)
      PROVE  Goal
  <2>1. /\ pendingEntries' = [pendingEntries EXCEPT ![n] = Ingested(n)]
        /\ todo' = [todo EXCEPT ![n] = Ingested(n) \o pending[n]]
        /\ UNCHANGED pending
    BY <1>5 DEF StartCycle
  <2>2. /\ Ingested(n) \in Seq(Body)
        /\ Range(Ingested(n)) \subseteq Range(pendingEntries[n]) \cup Range(pool)
    BY <1>0, IngestedFacts
  <2>3. Range(Ingested(n) \o pending[n]) = Range(Ingested(n)) \cup Range(pending[n])
    BY <1>0, <2>2, RangeConcat, SMTT(30)
  <2>4. CASE m = n
    <3>1. pendingEntries'[m] = Ingested(m) /\ todo'[m] = Ingested(m) \o pending[m]
      BY <1>0, <2>1, <2>4
    <3> QED
      BY <2>1, <2>2, <2>3, <2>4, <3>1 DEF Queued
  <2>5. CASE m # n
    BY <1>0, <2>1, <2>5 DEF Queued
  <2> QED
    BY <2>4, <2>5
<1>6. ASSUME NEW n \in Node, AdmitEntry(n)
      PROVE  Goal
  <2>1. /\ todo' = [todo EXCEPT ![n] = Tail(todo[n])] /\ todo[n] # <<>>
        /\ UNCHANGED <<pending, pendingEntries>>
    BY <1>0, <1>6, ZenonT(60) DEF AdmitEntry
  <2>2. Range(Tail(todo[n])) \subseteq Range(todo[n])
    <3>1. Head(todo[n]) \in Body /\ todo[n] \in Seq(Body)
      BY <1>0, <2>1, SMTT(30)
    <3> QED
      BY <2>1, <3>1, RangeFacts
  <2> QED
    BY <1>0, <2>1, <2>2, ZenonT(60) DEF Queued
<1>7. ASSUME NEW n \in Node, Finalise(n) \/ CommitFinal(n)
      PROVE  Goal
  <2> DEFINE gone == proposals[height[n]].anchored
  <2>1. /\ pendingEntries' = [pendingEntries EXCEPT ![n] = Without(pendingEntries[n], gone)]
        /\ pending' = [pending EXCEPT ![n] = <<>>]
        /\ UNCHANGED todo
    BY <1>7, CommitStep
  <2> HIDE DEF gone
  <2>2. Range(Without(pendingEntries[n], gone)) \subseteq Range(pendingEntries[n])
    BY <1>0, WithoutFacts, SMTT(30)
  <2>3. Range(<<>>) = {}
    BY SMTT(30) DEF Range
  <2>4. /\ Range(pendingEntries'[m]) \subseteq Range(pendingEntries[m])
        /\ Range(pending'[m]) \subseteq Range(pending[m])
    BY <1>0, <2>1, <2>2, <2>3
  <2> QED
    BY <2>1, <2>4, ZenonT(60) DEF Queued
<1>8. ASSUME NEW n \in Node, AbortCycle(n)
      PROVE  Goal
  <2>1. /\ pendingEntries' = [pendingEntries EXCEPT ![n] = pendingEntries[n] \o pending[n]]
        /\ UNCHANGED <<pending, todo>>
    BY <1>8 DEF AbortCycle
  <2>2. Range(pendingEntries[n] \o pending[n]) = Range(pendingEntries[n]) \cup Range(pending[n])
    BY <1>0, RangeConcat, SMTT(30)
  <2>3. Range(pendingEntries'[m]) \subseteq Range(pendingEntries[m]) \cup Range(pending[m])
    BY <1>0, <2>1, <2>2
  <2> QED
    BY <2>1, <2>3 DEF Queued
<1>9. ASSUME NEW n \in Node, Restart(n)
      PROVE  Goal
  <2>1. /\ pendingEntries' = [pendingEntries EXCEPT ![n] = <<>>]
        /\ todo' = [todo EXCEPT ![n] = <<>>]
        /\ UNCHANGED pending
    BY <1>9 DEF Restart
  <2>2. Range(<<>>) = {}
    BY SMTT(30) DEF Range
  <2>3. /\ Range(pendingEntries'[m]) \subseteq Range(pendingEntries[m])
        /\ Range(todo'[m]) \subseteq Range(todo[m])
    BY <1>0, <2>1, <2>2
  <2> QED
    BY <2>1, <2>3 DEF Queued
<1>10. CASE UNCHANGED vars
  BY <1>1, <1>10 DEF vars, engine
<1> HIDE DEF Goal, Same
<1>11. CASE Next
  <2>1. PICK n \in Node :
            \/ \E b \in Body : SyncForSubmit(n, b) \/ RecordRotationBody(n, b)
            \/ \/ ValidateSubmission(n) \/ StoreBody(n) \/ SkipCycle(n)
               \/ PublishVRFProof(n) \/ Propose(n) \/ SignProposal(n)
            \/ EnqueueSubmission(n)
            \/ StartCycle(n)
            \/ AdmitEntry(n)
            \/ Finalise(n) \/ CommitFinal(n)
            \/ AbortCycle(n)
            \/ Restart(n)
    BY <1>11 DEF Next, RotateKey, SubmitKeyRotation
  <2>2. Same \/ Goal
    BY <1>2, <1>3, <1>4, <1>5, <1>6, <1>7, <1>8, <1>9, <2>1, ZenonT(60)
  <2> QED
    BY <1>1, <2>2 DEF Goal
<1> QED
  BY <1>10, <1>11 DEF Goal

\* A rotation is recorded while it is queued, so it is known, and takes effect at least
\* KeyRotationLeadTime attempts ahead: with two or more of them it is in time.
LEMMA RotationNext ==
    ASSUME KeyRotationLeadTime >= 2, RotationInv, [Next]_vars
    PROVE  RotationInv'
<1>0. /\ ChainInv
      /\ \A n \in Node : \A b \in Queued(n) : Known(n, b)
      /\ \A n, v \in Node : \A i \in DOMAIN rotations[n][v] : Timely(n, rotations[n][v][i])
  BY ZenonT(60) DEF RotationInv
<1>1. ChainInv'
  <2>1. KeyInv'
    BY <1>0, NextKeyInv DEF ChainInv
  <2> QED
    BY <1>0, <2>1, NextQueueTypes, NextElected, NextChainAnchors DEF ChainInv
<1>2. ASSUME NEW m \in Node, NEW b \in Queued(m)'
      PROVE  Known(m, b)'
  <2>1. b \in Queued(m) \cup Range(pool) \cup Range(pool')
    BY <1>0, QueuedStep
  <2>2. CASE b \in Range(pool')
    BY <2>2 DEF Known
  <2>3. CASE b \in Queued(m) \cup Range(pool)
    <3>0. /\ pending[m] \in Seq(Body) /\ pendingEntries[m] \in Seq(Body)
          /\ todo[m] \in Seq(Body) /\ pool \in Seq(Body)
      BY <1>0, ZenonT(60) DEF ChainInv, QueueTypes
    <3>1. b \in Body
      BY <2>3, <3>0, SMTT(30) DEF Queued, Range
    <3>2. Known(m, b)
      BY <1>0, <2>3, ZenonT(60) DEF Known
    <3> QED
      BY <1>0, <3>1, <3>2, KnownStays, ZenonT(60)
  <2> QED
    BY <2>1, <2>2, <2>3, ZenonT(60)
<1>3. ASSUME NEW m \in Node, NEW v \in Node, NEW i \in DOMAIN rotations'[m][v]
      PROVE  Timely(m, rotations[m][v][i])'
  <2>0. KeyTypes /\ QueueTypes /\ ClocksInStep /\ rotations[m][v] \in Seq(Body)
    BY <1>0, ZenonT(60) DEF ChainInv, KeyInv, KeyTypes
  <2>1. CASE /\ i \in DOMAIN rotations[m][v]
             /\ rotations'[m][v][i] = rotations[m][v][i]
    <3>1. PICK b \in Body : b = rotations[m][v][i] /\ Timely(m, b)
      BY <1>0, <2>0, <2>1, SMTT(30)
    <3>2. Timely(m, b)'
      BY <1>0, <3>1, KnownStays, ZenonT(60)
    <3>3. (rotations[m][v][i])' = b
      BY <2>1, <3>1
    <3> QED
      BY <3>2, <3>3 DEF Timely, InProposal
  <2>2. CASE /\ pc[m] = "admit"
             /\ \E b \in Body : /\ b = Head(todo[m])
                                /\ Validate(rotations[m][v], currentCycle[m], b)
                                /\ rotations'[m][v] = Append(rotations[m][v], b)
    <3>1. PICK b \in Body : /\ b = Head(todo[m])
                            /\ Validate(rotations[m][v], currentCycle[m], b)
                            /\ rotations'[m][v] = Append(rotations[m][v], b)
      BY <2>2, ZenonT(60)
    <3>2. CASE i \in DOMAIN rotations[m][v]
      BY <2>0, <2>1, <3>1, <3>2, AppendKeeps, SMTT(30)
    <3>3. CASE i \notin DOMAIN rotations[m][v]
      <4>1. rotations'[m][v][i] = b
        BY <2>0, <3>1, <3>3, AppendKeeps, SMTT(30)
      <4>2. todo[m] \in Seq(Body) /\ todo[m] # <<>>
        BY <2>0, <2>2, ZenonT(60) DEF QueueTypes
      <4>3. b \in Queued(m)
        BY <3>1, <4>2, RangeFacts DEF Queued
      <4>4. b.effective > height[m] + 1
        <5>1. b.effective >= currentCycle[m] + KeyRotationLeadTime
          BY <3>1, ZenonT(60) DEF Validate
        <5>2. currentCycle[m] = clock[m] /\ clock[m] >= height[m]
          BY <2>0, <2>2, ZenonT(60) DEF ClocksInStep
        <5>3. /\ b.effective \in Nat /\ clock[m] \in Nat /\ height[m] \in Nat
              /\ KeyRotationLeadTime \in Nat
          BY <2>0, BodyFields, RotationAssumption, ZenonT(60) DEF KeyTypes
        <5> QED
          BY <5>1, <5>2, <5>3, SMTT(30)
      <4>5. b.effective > height[m]
        BY <2>0, <4>4, BodyFields, SMTT(30) DEF KeyTypes
      <4>6. Timely(m, b)
        BY <1>0, <4>3, <4>4, <4>5, ZenonT(60) DEF Known, Timely
      <4>7. Timely(m, b)'
        BY <1>0, <4>6, KnownStays, ZenonT(60)
      <4>8. (rotations[m][v][i])' = b
        BY <4>1
      <4> QED
        BY <4>7, <4>8, ZenonT(60) DEF Timely, InProposal
    <3> QED
      BY <3>2, <3>3
  <2>3. CASE rotations'[m][v] = rotations[m][v]
    BY <2>1, <2>3, ZenonT(60)
  <2>4. CASE rotations'[m][v] = <<>>
    BY <2>4, SMTT(30)
  <2> QED
    BY <2>0, <2>2, <2>3, <2>4, HistoryStep
<1> QED
  BY <1>1, <1>2, <1>3 DEF RotationInv

\* A rotation a node has recorded is anchored in its chain or still in time, for every
\* number of validators and every interleaving of submissions, gossip, cycles and
\* restarts, if the lead time is two attempts or more: one for the candidate that was
\* made without the rotation, one for the block that anchors it.  This is the inductive
\* invariant (AdmitEntry, processKeyRotationEntriesLocked).
THEOREM RotationsAnchored ==
    ASSUME KeyRotationLeadTime >= 2
    PROVE  Spec => []RotationInv
<1>1. Init => RotationInv
  <2> SUFFICES ASSUME Init
               PROVE  RotationInv
    OBVIOUS
  <2>1. \A n \in Node : Queued(n) = {}
    BY SMTT(30) DEF Init, Queued, Range
  <2>2. \A n, v \in Node : DOMAIN rotations[n][v] = {}
    BY SMTT(30) DEF Init
  <2> QED
    BY <2>1, <2>2, ChainInit DEF RotationInv
<1>2. RotationInv /\ [Next]_vars => RotationInv'
  BY RotationNext
<1> QED
  BY <1>1, <1>2, PTL DEF Spec

\* The types, the hand-over of keys and the anchoring of what is in force: what the
\* key_rotation run checks of the keys a node verifies with.
THEOREM KeysInForceHolds ==
    ASSUME KeyRotationLeadTime >= 2
    PROVE  Spec => []KeysInForce
<1>1. RotationInv => TypeOK
  <2>1. ASSUME RotationInv
        PROVE  height \in [Node -> 0..MaxBlocks]
    <3>1. height \in [Node -> Nat] /\ \A n \in Node : height[n] <= MaxBlocks
      BY <2>1, ZenonT(60) DEF RotationInv, ChainInv, KeyInv, KeyTypes, QueueTypes
    <3>2. MaxBlocks \in Nat
      BY RotationAssumption, ZenonT(60)
    <3> QED
      BY <3>1, <3>2, SMTT(30)
  <2> QED
    BY <2>1, ZenonT(60) DEF RotationInv, ChainInv, KeyInv, KeyTypes, QueueTypes, TypeOK
<1>2. RotationInv => InForceIsAnchored
  <2> SUFFICES ASSUME RotationInv, NEW n \in Node, NEW v \in Node,
                      NEW i \in DOMAIN rotations[n][v],
                      rotations[n][v][i].effective <= height[n]
               PROVE  rotations[n][v][i] \in anchored[n]
    BY ZenonT(60) DEF InForceIsAnchored
  <2>1. rotations[n][v] \in Seq(Body) /\ height[n] \in Nat
    BY SMTT(30) DEF RotationInv, ChainInv, KeyInv, KeyTypes
  <2>2. rotations[n][v][i].effective \in Nat
    BY <2>1, BodyFields, SMTT(30)
  <2>3. Timely(n, rotations[n][v][i])
    BY DEF RotationInv
  <2> QED
    BY <2>1, <2>2, <2>3, SMTT(30) DEF Timely
<1>3. RotationInv /\ HandOver => KeysInForce
  BY <1>1, <1>2 DEF KeysInForce
<1> QED
  BY <1>3, RotationsAnchored, HandOverHolds, PTL

=============================================================================
