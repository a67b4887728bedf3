--------------------------- MODULE PipelineProofs ----------------------------
(***************************************************************************)
(* Proofs about the background pipeline, for any requests, workers,        *)
(* limits and faults: each alert is raised at most once a day, and only    *)
(* for a cost over its limit; the lists hold the newest entries; the day's *)
(* counters are off by no more than the faults; no exceeded limit is       *)
(* missed; and the verifier's similarity is the edit distance.             *)
(***************************************************************************)
EXTENDS Pipeline, SequenceTheorems, FiniteSetTheorems, WellFoundedInduction, TLAPS

States == Working \cup {"queued", "done", "lost"}

\* The parts of TypeOK.
ControlType == pc \in [Events -> States]
VerdictType == warn \in [Events -> BOOLEAN] /\ odd \in [Events -> 0..4]
CounterType == cost \in [Counters -> Nat] /\ tracesDaily \in Nat /\ warnDaily \in Nat
StoreType   == rows \subseteq Events /\ flags \subseteq Answered
ListType    == lists \in [Lists -> Seq(Events)] /\ pushed \in [Lists -> Seq(Events)]
AlertType   == fired \in [Limits -> BOOLEAN] /\ raised \in [Limits -> Nat]
FaultType   == /\ faults \in 0..MaxFaults
               /\ redisOK \in BOOLEAN /\ writesOK \in BOOLEAN /\ crashed \in BOOLEAN

\* Whoever is about to raise the spike alert alone holds the fired key, and has
\* seen a cost over the threshold.
SpikeInv ==
    /\ \A e \in Events : pc[e] \in {"spikeSet", "spikePush"} => cost["feature"] > Threshold
    /\ \A e \in Events : pc[e] = "spikePush" => fired["spike"] /\ raised["spike"] = 0
    /\ \A e, f \in Events : pc[e] = "spikePush" /\ pc[f] = "spikePush" => e = f

\* An alert that has been raised has its fired key.
FiredInv ==
    \A l \in Limits : raised[l] <= 1 /\ (raised[l] = 1 => fired[l])

\* Only an answered request is flagged, and there is an anomaly to be pushed.
VerdictSteps == {"count", "push", "trim", "flag"}
StepInv ==
    /\ \A e \in Events : pc[e] \in VerdictSteps => e \in Answered
    /\ \A e \in Events : pc[e] = "oddPush" => odd[e] > 0

IInv == TypeOK /\ StepInv /\ SpikeInv /\ FiredInv

LEMMA TypeParts ==
    TypeOK <=> /\ ControlType /\ VerdictType /\ CounterType /\ StoreType
               /\ ListType /\ AlertType /\ FaultType
BY DEF TypeOK, ControlType, VerdictType, CounterType, StoreType, ListType, AlertType,
       FaultType, States

LEMMA TypePartsNext ==
    ASSUME ControlType', VerdictType', CounterType', StoreType', ListType', AlertType', FaultType'
    PROVE  TypeOK'
BY DEF TypeOK, ControlType, VerdictType, CounterType, StoreType, ListType, AlertType,
       FaultType, States

-----------------------------------------------------------------------------
(* Types, part by part.                                                    *)

\* A request moves from one step to another.
LEMMA GoKeepsControl ==
    ASSUME ControlType, NEW e \in Events, NEW from, NEW to \in States, Go(e, from, to)
    PROVE  ControlType' /\ pc[e] = from /\ pc' = [pc EXCEPT ![e] = to]
BY DEF ControlType, Go

\* A command fails, or does not.
LEMMA FaultKeepsType ==
    ASSUME FaultType, NoFault \/ RedisFault
    PROVE  FaultType'
<1>1. faults' \in 0..MaxFaults
    BY PipelineAssumption DEF PipelineAssumption, FaultType, NoFault, RedisFault
<1>2. redisOK' \in BOOLEAN
    BY DEF FaultType, NoFault, RedisFault, hist
<1>3. writesOK' \in BOOLEAN /\ crashed' \in BOOLEAN
    BY DEF FaultType, NoFault, RedisFault, hist
<1> QED BY <1>1, <1>2, <1>3 DEF FaultType

\* An LPUSH keeps the lists sequences of requests.
LEMMA PushKeepsLists ==
    ASSUME ListType, NEW e \in Events, NEW l \in Lists, NEW from, NEW to, Push(e, l, from, to)
    PROVE  ListType'
<1>1. PICK n \in 0..2 :
          /\ lists' = [lists EXCEPT ![l] = [i \in 1..n |-> e] \o @]
          /\ pushed' = [pushed EXCEPT ![l] = [i \in 1..n |-> e] \o @]
    BY DEF Push
<1>2. [i \in 1..n |-> e] \in Seq(Events)
    BY SMT
<1>3. lists[l] \in Seq(Events) /\ pushed[l] \in Seq(Events)
    BY DEF ListType
<1>4. [i \in 1..n |-> e] \o lists[l] \in Seq(Events) /\ [i \in 1..n |-> e] \o pushed[l] \in Seq(Events)
    BY <1>2, <1>3, ConcatProperties
<1> QED BY <1>1, <1>4 DEF ListType

\* An LTRIM keeps the lists sequences of requests.
LEMMA TrimKeepsLists ==
    ASSUME ListType, NEW e \in Events, NEW l \in Lists, NEW from, NEW to, Trim(e, l, from, to)
    PROVE  ListType'
<1> DEFINE s == lists[l]
           n == IF Len(s) < ListCap THEN Len(s) ELSE ListCap
<1>1. s \in Seq(Events) /\ Len(s) \in Nat
    BY DEF ListType
<1>2. n \in 0..Len(s)
    BY <1>1, PipelineAssumption DEF PipelineAssumption
<1>3. \A i \in 1..n : s[i] \in Events
    BY <1>1, <1>2
<1>4. SubSeq(s, 1, n) \in Seq(Events)
  <2>1. 1 \in Int /\ n \in Int
      BY <1>1, <1>2
  <2> HIDE DEF n, s
  <2> QED BY <1>3, <2>1, SubSeqProperties
<1>5. Trimmed(lists[l]) \in Seq(Events)
    BY <1>4 DEF Trimmed
<1> QED BY <1>5 DEF Trim, ListType

-----------------------------------------------------------------------------
(* The alerts.                                                             *)

\* A step that leaves the alerts alone, lets no cost fall, and puts no request
\* before the SETNX or the LPUSH of the spike alert.
LEMMA QuietStep ==
    ASSUME IInv, NEW e \in Events, NEW to \in States \ {"spikeSet", "spikePush"},
           pc' = [pc EXCEPT ![e] = to],
           cost' \in [Counters -> Nat], cost'["feature"] >= cost["feature"],
           UNCHANGED <<fired, raised>>
    PROVE  SpikeInv' /\ FiredInv'
<1> USE DEF IInv
<1>1. ControlType /\ cost["feature"] \in Nat /\ cost'["feature"] \in Nat /\ Threshold \in Nat
    BY TypeParts, PipelineAssumption DEF PipelineAssumption, CounterType, Counters
<1>2. \A f \in Events : pc'[f] \in {"spikeSet", "spikePush"} => pc[f] = pc'[f]
    BY <1>1 DEF ControlType
<1>3. \A f \in Events : pc'[f] \in {"spikeSet", "spikePush"} => cost'["feature"] > Threshold
    BY <1>1, <1>2 DEF SpikeInv
<1>4. SpikeInv'
    BY <1>2, <1>3 DEF SpikeInv
<1>5. FiredInv'
    BY DEF FiredInv
<1> QED BY <1>4, <1>5

\* The same of a step that leaves the costs alone too.
LEMMA IdleStep ==
    ASSUME IInv, NEW e \in Events, NEW to \in States \ {"spikeSet", "spikePush"},
           pc' = [pc EXCEPT ![e] = to],
           UNCHANGED <<cost, fired, raised>>
    PROVE  SpikeInv' /\ FiredInv'
<1>1. cost \in [Counters -> Nat] /\ cost["feature"] \in Nat
    BY TypeParts DEF IInv, CounterType, Counters
<1>2. cost' \in [Counters -> Nat] /\ cost'["feature"] >= cost["feature"]
    BY <1>1
<1> QED BY <1>2, QuietStep

\* A request moves on, and has what its next step needs.
LEMMA StepKeepsSteps ==
    ASSUME IInv, NEW e \in Events, NEW to,
           pc' = [pc EXCEPT ![e] = to],
           to \in VerdictSteps => e \in Answered,
           to = "oddPush" => odd'[e] > 0,
           \A f \in Events \ {e} : odd'[f] = odd[f]
    PROVE  StepInv'
<1>1. ControlType
    BY TypeParts DEF IInv
<1>2. \A f \in Events : pc'[f] = IF f = e THEN to ELSE pc[f]
    BY <1>1 DEF ControlType
<1> QED BY <1>2 DEF IInv, StepInv

\* The initial states satisfy the invariant.
LEMMA InitIInv == Init => IInv
<1> SUFFICES ASSUME Init PROVE IInv
    OBVIOUS
<1>1. ControlType /\ VerdictType /\ CounterType /\ StoreType
    BY PipelineAssumption DEF PipelineAssumption, Init, ControlType, VerdictType, CounterType,
       StoreType, States
<1>2. ListType /\ AlertType
    BY DEF Init, ListType, AlertType
<1>3. FaultType
  <2>1. faults \in 0..MaxFaults
      BY PipelineAssumption DEF PipelineAssumption, Init
  <2> QED BY <2>1 DEF Init, FaultType
<1>4. TypeOK
    BY <1>1, <1>2, <1>3, TypeParts
<1>5. StepInv /\ SpikeInv /\ FiredInv
    BY DEF Init, StepInv, SpikeInv, FiredInv, VerdictSteps
<1> QED BY <1>4, <1>5 DEF IInv

-----------------------------------------------------------------------------
(* The steps of a request.                                                 *)

\* Whatever is said of a request, it is to be warned about or not.
LEMMA WarningsAreBoolean ==
    ASSUME NEW e
    PROVE  Warnings(e) \subseteq BOOLEAN
<1>1. \A level : ShouldWarn(level) \in BOOLEAN
    BY DEF ShouldWarn
<1>2. Flagged \subseteq BOOLEAN /\ Verified \subseteq BOOLEAN
    BY <1>1 DEF Flagged, Verified
<1> QED BY <1>2 DEF Warnings

\* Four things are measured, so that at most four anomalies come of a request.
LEMMA AtMostFourAnomalies ==
    Anomalies \subseteq 0..4
<1>1. IsFiniteSet(Measures) /\ Cardinality(Measures) = 4
  <2>1. IsFiniteSet({"cost"}) /\ Cardinality({"cost"}) = 1
      BY FS_Singleton
  <2>2. /\ IsFiniteSet({"cost"} \cup {"latency"})
        /\ Cardinality({"cost"} \cup {"latency"}) = 2
      BY <2>1, FS_AddElement
  <2>3. /\ IsFiniteSet(({"cost"} \cup {"latency"}) \cup {"quality"})
        /\ Cardinality(({"cost"} \cup {"latency"}) \cup {"quality"}) = 3
      BY <2>2, FS_AddElement
  <2>4. /\ IsFiniteSet((({"cost"} \cup {"latency"}) \cup {"quality"}) \cup {"hallucination"})
        /\ Cardinality((({"cost"} \cup {"latency"}) \cup {"quality"}) \cup {"hallucination"}) = 4
      BY <2>3, FS_AddElement
  <2>5. (({"cost"} \cup {"latency"}) \cup {"quality"}) \cup {"hallucination"} = Measures
      BY DEF Measures
  <2> QED BY <2>4, <2>5
<1>2. ASSUME NEW x, NEW b
      PROVE  Cardinality(Detect(x, b)) \in 0..4
  <2>1. Detect(x, b) \in SUBSET Measures
      BY DEF Detect
  <2>2. IsFiniteSet(Detect(x, b)) /\ Cardinality(Detect(x, b)) <= 4
      BY <1>1, <2>1, FS_Subset
  <2>3. Cardinality(Detect(x, b)) \in Nat
      BY <2>2, FS_CardinalityType
  <2> QED BY <2>2, <2>3
<1> QED BY <1>2 DEF Anomalies

\* Taking it up and judging it.
LEMMA EarlyStep ==
    ASSUME IInv, NEW e \in Events, Take(e) \/ Assess(e)
    PROVE  IInv'
<1> USE TypeParts DEF IInv
<1>1. CASE Take(e)
  <2>1. Go(e, "queued", "user") /\ UNCHANGED <<warn, odd, redis, rows, faults, hist>>
      BY <1>1 DEF Take
  <2>2. ControlType' /\ pc' = [pc EXCEPT ![e] = "user"]
      BY <2>1, GoKeepsControl DEF States, Working
  <2>3. /\ VerdictType' /\ CounterType' /\ StoreType'
        /\ ListType' /\ AlertType' /\ FaultType'
      BY <2>1 DEF VerdictType, CounterType, StoreType, ListType, AlertType, FaultType, redis, hist
  <2>4. SpikeInv' /\ FiredInv'
      BY <2>1, <2>2, IdleStep DEF redis, States, Working
  <2>5. StepInv'
      BY <2>1, <2>2, StepKeepsSteps DEF VerdictSteps
  <2> QED BY <2>2, <2>3, <2>4, <2>5, TypePartsNext
<1>2. CASE Assess(e)
  <2>1. UNCHANGED <<redis, rows, faults, hist>>
      BY <1>2 DEF Assess
  <2>2. PICK to \in States \ {"spikeSet", "spikePush"} : Go(e, "assess", to)
      BY <1>2 DEF Assess, States, Working
  <2>3. ControlType' /\ pc' = [pc EXCEPT ![e] = to]
      BY <2>2, GoKeepsControl
  <2>4. VerdictType'
    <3>1. warn' \in [Events -> BOOLEAN]
        BY <1>2, WarningsAreBoolean DEF Assess, VerdictType
    <3>2. odd' \in [Events -> 0..4]
        BY <1>2, AtMostFourAnomalies DEF Assess, VerdictType
    <3> QED BY <3>1, <3>2 DEF VerdictType
  <2>5. CounterType' /\ StoreType' /\ ListType' /\ AlertType' /\ FaultType'
      BY <2>1 DEF CounterType, StoreType, ListType, AlertType, FaultType, redis, hist
  <2>6. SpikeInv' /\ FiredInv'
      BY <2>1, <2>3, IdleStep DEF redis
  <2>7. /\ to \in VerdictSteps => e \in Answered
        /\ to # "oddPush"
        /\ \A f \in Events \ {e} : odd'[f] = odd[f]
      BY <1>2, <2>2, <2>3 DEF Assess, Go, VerdictSteps, VerdictType, ControlType
  <2>8. StepInv'
      BY <2>3, <2>7, StepKeepsSteps
  <2> QED BY <2>3, <2>4, <2>5, <2>6, <2>8, TypePartsNext
<1> QED BY <1>1, <1>2

\* What an INCR sends is a number, no smaller than what was there.
LEMMA SentGrows ==
    ASSUME NEW n \in Nat, NEW m, Sent(n, m)
    PROVE  m \in Nat /\ m >= n /\ (NoFault \/ RedisFault)
BY DEF Sent

\* Charging a counter.
LEMMA ChargeStep ==
    ASSUME IInv, NEW e \in Events, NEW c \in Counters,
           NEW next \in {"feature", "model", "assess"}, Charge(e, c, next)
    PROVE  IInv'
<1> USE TypeParts DEF IInv
<1> DEFINE key == IF c = "feature" /\ e \notin Featured THEN {} ELSE {c}
<1>1. PICK n \in 0..2 : cost' = [k \in Counters |-> IF k \in key THEN cost[k] + n ELSE cost[k]]
    BY DEF Charge
<1>2. PICK to \in {next, "assess"} : Go(e, c, to)
    BY DEF Charge
<1>3. NoFault \/ RedisFault
    BY DEF Charge
<1>4. UNCHANGED <<warn, odd, rows, tracesDaily, warnDaily, lists, flags, fired, raised, pushed>>
    BY DEF Charge
<1>5. cost' \in [Counters -> Nat] /\ \A k \in Counters : cost'[k] >= cost[k]
    BY <1>1 DEF CounterType
<1>6. to \in States \ {"spikeSet", "spikePush"}
    BY DEF States, Working
<1>7. ControlType' /\ pc' = [pc EXCEPT ![e] = to]
    BY <1>2, <1>6, GoKeepsControl
<1>8. FaultType'
    BY <1>3, FaultKeepsType
<1>9. VerdictType' /\ CounterType' /\ StoreType' /\ ListType' /\ AlertType'
    BY <1>4, <1>5 DEF VerdictType, CounterType, StoreType, ListType, AlertType
<1>10. SpikeInv' /\ FiredInv'
    BY <1>4, <1>5, <1>6, <1>7, QuietStep DEF Counters
<1>11. StepInv'
    BY <1>4, <1>7, StepKeepsSteps DEF VerdictSteps
<1> QED BY <1>7, <1>8, <1>9, <1>10, <1>11, TypePartsNext

\* Counting and flagging, the write of the trace and its count.
LEMMA RecordStep ==
    ASSUME IInv, NEW e \in Events,
           CountWarning(e) \/ SetFlag(e) \/ Write(e) \/ CountTrace(e)
    PROVE  IInv'
<1> USE TypeParts DEF IInv
<1>1. UNCHANGED <<warn, odd, cost, lists, pushed, fired, raised>>
    BY DEF CountWarning, SetFlag, Write, CountTrace, redis
<1>2. VerdictType' /\ ListType' /\ AlertType'
    BY <1>1 DEF VerdictType, ListType, AlertType
<1>3. CounterType' /\ StoreType' /\ FaultType'
  <2>1. CASE CountWarning(e)
    <3>1. Sent(warnDaily, warnDaily') /\ UNCHANGED <<rows, flags, cost, tracesDaily>>
        BY <2>1 DEF CountWarning
    <3>2. warnDaily' \in Nat /\ (NoFault \/ RedisFault)
        BY <3>1, SentGrows DEF CounterType
    <3> QED BY <3>1, <3>2, FaultKeepsType DEF CounterType, StoreType
  <2>2. CASE CountTrace(e)
    <3>1. Sent(tracesDaily, tracesDaily') /\ UNCHANGED <<rows, flags, cost, warnDaily>>
        BY <2>2 DEF CountTrace
    <3>2. tracesDaily' \in Nat /\ (NoFault \/ RedisFault)
        BY <3>1, SentGrows DEF CounterType
    <3> QED BY <3>1, <3>2, FaultKeepsType DEF CounterType, StoreType
  <2>3. CASE SetFlag(e)
    <3>1. pc[e] = "flag" /\ (NoFault \/ RedisFault) /\ flags' \in {flags, flags \cup {e}}
          /\ UNCHANGED <<rows, cost, tracesDaily, warnDaily>>
        BY <2>3 DEF SetFlag, Go
    <3>2. e \in Answered
        BY <3>1 DEF StepInv, VerdictSteps
    <3> QED BY <3>1, <3>2, FaultKeepsType DEF CounterType, StoreType
  <2>4. CASE Write(e)
    <3>1. UNCHANGED <<redis, redisOK, crashed>> /\ rows' \in {rows, rows \cup {e}}
        BY <2>4 DEF Write, NoFault, hist
    <3>2. CounterType' /\ StoreType'
        BY <3>1 DEF redis, CounterType, StoreType
    <3>3. faults' \in 0..MaxFaults
        BY <2>4, PipelineAssumption DEF PipelineAssumption, Write, NoFault, FaultType
    <3>4. writesOK' \in BOOLEAN
        BY <2>4 DEF Write, NoFault, hist, FaultType
    <3> QED BY <3>1, <3>2, <3>3, <3>4 DEF FaultType
  <2> QED BY <2>1, <2>2, <2>3, <2>4
<1>4. PICK from, to \in States \ {"spikeSet", "spikePush"} :
          /\ Go(e, from, to)
          /\ to \in VerdictSteps => e \in Answered
          /\ to = "oddPush" => odd'[e] > 0
  <2>1. CASE CountWarning(e)
    <3>1. Go(e, "count", "push")
        BY <2>1 DEF CountWarning
    <3>2. e \in Answered
        BY <3>1 DEF Go, StepInv, VerdictSteps
    <3> QED BY <3>1, <3>2 DEF States, Working
  <2>2. CASE CountTrace(e)
      BY <2>2 DEF CountTrace, States, Working, VerdictSteps
  <2>3. CASE SetFlag(e)
      BY <2>3 DEF SetFlag, States, Working, VerdictSteps
  <2>4. CASE Write(e)
      BY <2>4 DEF Write, Onward, States, Working, VerdictSteps
  <2> QED BY <2>1, <2>2, <2>3, <2>4
<1>5. ControlType' /\ pc' = [pc EXCEPT ![e] = to]
    BY <1>4, GoKeepsControl
<1>6. SpikeInv' /\ FiredInv'
    BY <1>1, <1>5, IdleStep
<1>7. StepInv'
    BY <1>1, <1>4, <1>5, StepKeepsSteps
<1> QED BY <1>2, <1>3, <1>5, <1>6, <1>7, TypePartsNext

\* The lists.
LEMMA ListStep ==
    ASSUME IInv, NEW e \in Events,
           PushWarning(e) \/ TrimWarnings(e) \/ PushAnomaly(e) \/ TrimAnomalies(e) \/ TrimAlerts(e)
    PROVE  IInv'
<1> USE TypeParts DEF IInv
<1>1. UNCHANGED <<warn, rows, cost, tracesDaily, warnDaily, flags, fired, raised>>
    BY DEF PushWarning, TrimWarnings, PushAnomaly, TrimAnomalies, TrimAlerts, Push, Trim
<1>2. CounterType' /\ StoreType' /\ AlertType'
    BY <1>1 DEF CounterType, StoreType, AlertType
<1>3. NoFault \/ RedisFault
    BY DEF PushWarning, TrimWarnings, PushAnomaly, TrimAnomalies, TrimAlerts, Push, Trim
<1>4. FaultType'
    BY <1>3, FaultKeepsType
<1>5. ListType'
    BY PushKeepsLists, TrimKeepsLists
       DEF PushWarning, TrimWarnings, PushAnomaly, TrimAnomalies, TrimAlerts, Lists
<1>6. /\ odd' \in [Events -> 0..4]
      /\ \A f \in Events \ {e} : odd'[f] = odd[f]
  <2>1. CASE PushAnomaly(e)
    <3>1. pc[e] = "oddPush" /\ odd' = [odd EXCEPT ![e] = @ - 1]
        BY <2>1 DEF PushAnomaly, Push, Go
    <3>2. odd[e] \in 0..4 /\ odd[e] > 0
        BY <3>1 DEF VerdictType, StepInv
    <3>3. odd[e] - 1 \in 0..4
        BY <3>2
    <3> QED BY <3>1, <3>3 DEF VerdictType
  <2>2. CASE UNCHANGED odd
      BY <2>2 DEF VerdictType
  <2> QED BY <2>1, <2>2 DEF PushWarning, TrimWarnings, TrimAnomalies, TrimAlerts, Trim
<1>7. VerdictType'
    BY <1>1, <1>6 DEF VerdictType
<1>8. PICK from, to \in States \ {"spikeSet", "spikePush"} :
          /\ Go(e, from, to)
          /\ to \in VerdictSteps => e \in Answered
          /\ to = "oddPush" => odd'[e] > 0
  <2>1. CASE PushWarning(e) \/ TrimWarnings(e)
    <3>1. Go(e, "push", "trim") \/ Go(e, "trim", "flag")
        BY <2>1 DEF PushWarning, TrimWarnings, Push, Trim
    <3>2. e \in Answered
        BY <3>1 DEF Go, StepInv, VerdictSteps
    <3> QED BY <3>1, <3>2 DEF States, Working
  <2>2. CASE PushAnomaly(e)
      BY <2>2 DEF PushAnomaly, Push, States, Working, VerdictSteps
  <2>3. CASE TrimAnomalies(e)
      BY <2>3 DEF TrimAnomalies, Trim, Onward, States, Working, VerdictSteps
  <2>4. CASE TrimAlerts(e)
      BY <2>4 DEF TrimAlerts, Trim, States, Working, VerdictSteps
  <2> QED BY <2>1, <2>2, <2>3, <2>4
<1>9. ControlType' /\ pc' = [pc EXCEPT ![e] = to]
    BY <1>8, GoKeepsControl
<1>10. SpikeInv' /\ FiredInv'
    BY <1>1, <1>9, IdleStep
<1>11. StepInv'
    BY <1>6, <1>8, <1>9, StepKeepsSteps
<1> QED BY <1>2, <1>4, <1>5, <1>7, <1>9, <1>10, <1>11, TypePartsNext

-----------------------------------------------------------------------------
(* The alerts' own steps.                                                  *)

\* What all of them leave alone.
LEMMA AlertFrame ==
    ASSUME IInv, NEW e \in Events,
           GetFeatureCost(e) \/ GetUserCost(e) \/ SetSpikeFired(e) \/ PushSpike(e) \/ SetBudgetFired(e)
    PROVE  /\ UNCHANGED <<warn, odd, rows, cost, tracesDaily, warnDaily, flags>>
           /\ VerdictType' /\ CounterType' /\ StoreType' /\ ListType' /\ FaultType'
<1> USE TypeParts DEF IInv
<1>1. UNCHANGED <<warn, odd, rows, cost, tracesDaily, warnDaily, flags>> /\ (NoFault \/ RedisFault)
    BY DEF GetFeatureCost, GetUserCost, Check, SetSpikeFired, SetBudgetFired, SetFired, PushSpike,
           Push, redis
<1>2. VerdictType' /\ CounterType' /\ StoreType'
    BY <1>1 DEF VerdictType, CounterType, StoreType
<1>3. FaultType'
    BY <1>1, FaultKeepsType
<1>4. ListType'
  <2>1. CASE PushSpike(e)
      BY <2>1, PushKeepsLists DEF PushSpike, Lists
  <2>2. CASE UNCHANGED <<lists, pushed>>
      BY <2>2 DEF ListType
  <2> QED BY <2>1, <2>2 DEF GetFeatureCost, GetUserCost, Check, SetSpikeFired, SetBudgetFired,
                            SetFired, redis
<1> QED BY <1>1, <1>2, <1>3, <1>4

\* Comparing a cost with its limit.
LEMMA CheckStep ==
    ASSUME IInv, NEW e \in Events, GetFeatureCost(e) \/ GetUserCost(e)
    PROVE  IInv'
<1> USE TypeParts DEF IInv
<1>1. UNCHANGED <<cost, fired, raised, odd>>
    BY DEF GetFeatureCost, GetUserCost, Check, redis
<1>2. PICK from \in States, to \in {"spikeSet", "budgetGet", "budgetSet", "done"} :
          Go(e, from, to) /\ (to = "spikeSet" => cost["feature"] > Threshold)
    BY DEF GetFeatureCost, GetUserCost, Check, States, Working
<1>3. ControlType' /\ pc' = [pc EXCEPT ![e] = to]
    BY <1>2, GoKeepsControl DEF States, Working
<1>4. AlertType'
    BY <1>1 DEF AlertType
<1>5. StepInv'
    BY <1>1, <1>3, StepKeepsSteps DEF VerdictSteps
<1>6. FiredInv'
    BY <1>1 DEF FiredInv
<1>7. SpikeInv'
  <2>1. \A f \in Events : pc'[f] = IF f = e THEN to ELSE pc[f]
      BY <1>3 DEF ControlType
  <2> QED BY <1>1, <1>2, <2>1 DEF SpikeInv
<1> QED BY <1>3, <1>4, <1>5, <1>6, <1>7, AlertFrame, TypePartsNext

\* Claiming the spike alert: whoever goes on has found no fired key, so that
\* nobody else is about to raise the alert and nobody has.
LEMMA ClaimStep ==
    ASSUME IInv, NEW e \in Events, SetSpikeFired(e)
    PROVE  IInv'
<1> USE TypeParts DEF IInv
<1>1. UNCHANGED <<cost, raised, odd>> /\ fired' \in {fired, [fired EXCEPT !["spike"] = TRUE]}
    BY DEF SetSpikeFired, SetFired
<1>2. PICK to \in {"spikePush", "budgetGet"} :
          /\ Go(e, "spikeSet", to)
          /\ to = "spikePush" => ~fired["spike"] /\ fired' = [fired EXCEPT !["spike"] = TRUE]
    BY DEF SetSpikeFired, SetFired
<1>3. ControlType' /\ pc[e] = "spikeSet" /\ pc' = [pc EXCEPT ![e] = to]
    BY <1>2, GoKeepsControl DEF States, Working
<1>4. AlertType'
    BY <1>1 DEF AlertType
<1>5. StepInv'
    BY <1>1, <1>3, StepKeepsSteps DEF VerdictSteps
<1>6. \A l \in Limits : fired[l] => fired'[l]
    BY <1>1 DEF AlertType
<1>7. FiredInv'
    BY <1>1, <1>6 DEF FiredInv
<1>8. \A f \in Events : pc'[f] = IF f = e THEN to ELSE pc[f]
    BY <1>3 DEF ControlType
<1>9. SpikeInv'
  <2>1. CASE to = "budgetGet"
      BY <1>1, <1>6, <1>8, <2>1 DEF SpikeInv, Limits
  <2>2. CASE to = "spikePush"
    <3>1. ~fired["spike"] /\ fired'["spike"]
        BY <1>2, <2>2 DEF AlertType, Limits
    <3>2. raised["spike"] \in Nat /\ raised["spike"] <= 1 /\ raised["spike"] # 1
        BY <3>1 DEF AlertType, FiredInv, Limits
    <3>3. raised["spike"] = 0
        BY <3>2
    <3>4. \A f \in Events : pc[f] # "spikePush"
        BY <3>1 DEF SpikeInv
    <3>5. cost["feature"] > Threshold
        BY <1>3 DEF SpikeInv
    <3> QED BY <1>1, <1>8, <3>1, <3>3, <3>4, <3>5 DEF SpikeInv
  <2> QED BY <2>1, <2>2
<1> QED BY <1>3, <1>4, <1>5, <1>7, <1>9, AlertFrame, TypePartsNext

\* Raising the spike alert.
LEMMA RaiseStep ==
    ASSUME IInv, NEW e \in Events, PushSpike(e)
    PROVE  IInv' /\ raised["spike"] = 0 /\ raised'["spike"] = 1 /\ cost["feature"] > Threshold
<1> USE TypeParts DEF IInv
<1>1. /\ UNCHANGED <<cost, fired, odd>>
      /\ raised' = [raised EXCEPT !["spike"] = @ + 1]
      /\ Go(e, "spikePush", "spikeTrim")
    BY DEF PushSpike, Push
<1>2. ControlType' /\ pc[e] = "spikePush" /\ pc' = [pc EXCEPT ![e] = "spikeTrim"]
    BY <1>1, GoKeepsControl DEF States, Working
<1>3. fired["spike"] /\ raised["spike"] = 0 /\ cost["feature"] > Threshold
    BY <1>2 DEF SpikeInv
<1>4. AlertType' /\ raised'["spike"] = 1 /\ raised'["budget"] = raised["budget"]
    BY <1>1, <1>3 DEF AlertType, Limits
<1>5. FiredInv'
    BY <1>1, <1>3, <1>4 DEF FiredInv, Limits
<1>6. SpikeInv'
  <2>1. \A f \in Events : pc'[f] = IF f = e THEN "spikeTrim" ELSE pc[f]
      BY <1>2 DEF ControlType
  <2>2. \A f \in Events : pc'[f] # "spikePush"
      BY <1>2, <2>1 DEF SpikeInv
  <2> QED BY <1>1, <2>1, <2>2 DEF SpikeInv
<1>7. StepInv'
    BY <1>1, <1>2, StepKeepsSteps DEF VerdictSteps
<1> QED BY <1>2, <1>3, <1>4, <1>5, <1>6, <1>7, AlertFrame, TypePartsNext

\* Claiming and raising the budget alert.
LEMMA BudgetStep ==
    ASSUME IInv, NEW e \in Events, SetBudgetFired(e)
    PROVE  IInv' /\ raised'["spike"] = raised["spike"]
<1> USE TypeParts DEF IInv
<1>1. /\ UNCHANGED <<cost, odd>> /\ Go(e, "budgetSet", "done")
      /\ fired' \in {fired, [fired EXCEPT !["budget"] = TRUE]}
      /\ raised' \in {raised, [raised EXCEPT !["budget"] = @ + 1]}
      /\ raised' # raised => fired'["budget"] /\ ~fired["budget"]
  <2>1. UNCHANGED <<cost, odd>> /\ Go(e, "budgetSet", "done")
      BY DEF SetBudgetFired, SetFired
  <2>2. fired' \in {fired, [fired EXCEPT !["budget"] = TRUE]}
      BY DEF SetBudgetFired, SetFired
  <2>3. IF fired'["budget"] /\ ~fired["budget"] /\ faults' = faults
        THEN raised' = [raised EXCEPT !["budget"] = @ + 1]
        ELSE raised' = [raised EXCEPT !["budget"] = @]
      BY DEF SetBudgetFired
  <2>4. [raised EXCEPT !["budget"] = @] = raised
      BY DEF AlertType
  <2>5. /\ raised' \in {raised, [raised EXCEPT !["budget"] = @ + 1]}
        /\ raised' # raised => fired'["budget"] /\ ~fired["budget"]
      BY <2>3, <2>4
  <2> QED BY <2>1, <2>2, <2>5
<1>2. ControlType' /\ pc' = [pc EXCEPT ![e] = "done"]
    BY <1>1, GoKeepsControl DEF States, Working
<1>3. fired'["spike"] = fired["spike"] /\ raised'["spike"] = raised["spike"]
    BY <1>1 DEF AlertType, Limits
<1>4. AlertType'
  <2>1. fired' \in [Limits -> BOOLEAN]
      BY <1>1 DEF AlertType
  <2>2. raised' \in [Limits -> Nat]
      BY <1>1 DEF AlertType, Limits
  <2> QED BY <2>1, <2>2 DEF AlertType
<1>5. FiredInv'
  <2>1. CASE raised' = raised
    <3>1. \A l \in Limits : fired[l] => fired'[l]
        BY <1>1 DEF AlertType
    <3> QED BY <2>1, <3>1 DEF FiredInv
  <2>2. CASE raised' # raised
    <3>1. fired'["budget"] /\ raised["budget"] \in Nat /\ raised["budget"] <= 1 /\ raised["budget"] # 1
        BY <1>1, <2>2 DEF AlertType, FiredInv, Limits
    <3>2. raised'["budget"] = 1
        BY <1>1, <2>2, <3>1 DEF AlertType, Limits
    <3> QED BY <1>3, <3>1, <3>2 DEF FiredInv, Limits
  <2> QED BY <2>1, <2>2
<1>6. SpikeInv'
  <2>1. \A f \in Events : pc'[f] = IF f = e THEN "done" ELSE pc[f]
      BY <1>2 DEF ControlType
  <2> QED BY <1>1, <1>3, <2>1 DEF SpikeInv
<1>7. StepInv'
    BY <1>1, <1>2, StepKeepsSteps DEF VerdictSteps
<1> QED BY <1>2, <1>3, <1>4, <1>5, <1>6, <1>7, AlertFrame, TypePartsNext

\* A crash.
LEMMA CrashStep ==
    ASSUME IInv, Crash
    PROVE  IInv'
<1> USE TypeParts DEF IInv
<1>1. UNCHANGED <<warn, odd, redis, rows, redisOK, writesOK>>
    BY DEF Crash
<1>2. pc' \in [Events -> States] /\ \A f \in Events : pc'[f] \in {pc[f], "lost"}
    BY DEF Crash, ControlType, States
<1>3. FaultType'
  <2>1. faults' \in 0..MaxFaults
      BY PipelineAssumption DEF PipelineAssumption, Crash, FaultType
  <2> QED BY <2>1 DEF Crash, FaultType
<1>4. /\ ControlType' /\ VerdictType' /\ CounterType' /\ StoreType'
      /\ ListType' /\ AlertType'
    BY <1>1, <1>2 DEF ControlType, VerdictType, CounterType, StoreType, ListType, AlertType, redis
<1>5. StepInv' /\ SpikeInv' /\ FiredInv'
    BY <1>1, <1>2 DEF StepInv, SpikeInv, FiredInv, redis, VerdictSteps
<1> QED BY <1>3, <1>4, <1>5, TypePartsNext

-----------------------------------------------------------------------------
(* The theorems.                                                           *)

\* Every step preserves the invariant.
LEMMA NextIInv == IInv /\ [Next]_vars => IInv'
<1> SUFFICES ASSUME IInv, [Next]_vars PROVE IInv'
    OBVIOUS
<1>1. CASE Crash
    BY <1>1, CrashStep
<1>2. ASSUME NEW e \in Events, Process(e) PROVE IInv'
  <2>1. CASE Take(e) \/ Assess(e)
      BY <2>1, EarlyStep
  <2>2. CASE ChargeUser(e) \/ ChargeFeature(e) \/ ChargeModel(e)
      BY <2>2, ChargeStep DEF ChargeUser, ChargeFeature, ChargeModel, Counters
  <2>3. CASE CountWarning(e) \/ SetFlag(e) \/ Write(e) \/ CountTrace(e)
      BY <2>3, RecordStep
  <2>4. CASE PushWarning(e) \/ TrimWarnings(e) \/ PushAnomaly(e) \/ TrimAnomalies(e) \/ TrimAlerts(e)
      BY <2>4, ListStep
  <2>5. CASE GetFeatureCost(e) \/ GetUserCost(e)
      BY <2>5, CheckStep
  <2>6. CASE SetSpikeFired(e) \/ PushSpike(e) \/ SetBudgetFired(e)
      BY <2>6, ClaimStep, RaiseStep, BudgetStep
  <2> QED BY <1>2, <2>1, <2>2, <2>3, <2>4, <2>5, <2>6 DEF Process
<1>3. CASE UNCHANGED vars
  <2>1. /\ ControlType' /\ VerdictType' /\ CounterType' /\ StoreType'
        /\ ListType' /\ AlertType' /\ FaultType'
      BY <1>3, TypeParts DEF IInv, vars, redis, hist, ControlType, VerdictType, CounterType, StoreType,
                             ListType, AlertType, FaultType
  <2>2. StepInv' /\ SpikeInv' /\ FiredInv'
      BY <1>3 DEF IInv, vars, redis, StepInv, SpikeInv, FiredInv, VerdictSteps
  <2> QED BY <2>1, <2>2, TypePartsNext DEF IInv
<1> QED BY <1>1, <1>2, <1>3 DEF Next

\* The strengthened invariant holds in every state, for any set of requests, any
\* number of workers and faults and any limits.
THEOREM Invariance == Spec => []IInv
BY InitIInv, NextIInv, PTL DEF Spec

\* The pipeline is type correct: no counter, list or verdict of processFn ever
\* leaves its type, and only answered requests are flagged.
THEOREM TypeCorrect == Spec => []TypeOK
<1>1. IInv => TypeOK
    BY DEF IInv
<1> QED BY <1>1, Invariance, PTL

\* However many workers see a limit exceeded at once, and whatever commands fail,
\* are repeated or are cut off by a crash, the alert is raised at most once.
THEOREM AlertsAreRaisedOnce == Spec => []OneAlertPerDay
<1>1. IInv => OneAlertPerDay
    BY DEF IInv, FiredInv, OneAlertPerDay
<1> QED BY <1>1, Invariance, PTL

\* The Redis commands of the workers on the feature's counter and on its fired
\* key implement the abstract daily limit: an alert is raised once, and only for
\* a cost over the threshold.
THEOREM PipelineImplementsDailyAlert == Spec => ImplementsDailyAlert
<1>1. Init => D!DInit
    BY DEF Init, D!DInit, Counters, Limits
<1>2. IInv /\ [Next]_vars => [D!DNext]_<<cost["feature"], raised["spike"]>>
  <2> SUFFICES ASSUME IInv, [Next]_vars
               PROVE  [D!DNext]_<<cost["feature"], raised["spike"]>>
      OBVIOUS
  <2>1. CASE UNCHANGED <<cost, raised>>
      BY <2>1
  <2>2. ASSUME NEW e \in Events, NEW c \in Counters, NEW next, Charge(e, c, next)
        PROVE  [D!DNext]_<<cost["feature"], raised["spike"]>>
    <3>1. PICK n \in 0..2 :
              cost' = [k \in Counters |-> IF k \in (IF c = "feature" /\ e \notin Featured THEN {} ELSE {c})
                                          THEN cost[k] + n ELSE cost[k]]
        BY <2>2 DEF Charge
    <3>2. UNCHANGED raised
        BY <2>2 DEF Charge
    <3>3. cost["feature"] \in Nat
        BY TypeParts DEF IInv, CounterType, Counters
    <3>4. cost'["feature"] \in {cost["feature"], cost["feature"] + 1, cost["feature"] + 2}
        BY <3>1, <3>3 DEF Counters
    <3> QED BY <3>2, <3>4 DEF D!DNext, D!Spend
  <2>3. ASSUME NEW e \in Events, PushSpike(e)
        PROVE  [D!DNext]_<<cost["feature"], raised["spike"]>>
    <3>1. UNCHANGED cost
        BY <2>3 DEF PushSpike, Push
    <3> QED BY <2>3, <3>1, RaiseStep DEF D!DNext, D!Raise
  <2>4. ASSUME NEW e \in Events, SetBudgetFired(e)
        PROVE  [D!DNext]_<<cost["feature"], raised["spike"]>>
    <3>1. UNCHANGED cost
        BY <2>4 DEF SetBudgetFired, SetFired
    <3> QED BY <2>4, <3>1, BudgetStep
  <2>5. ASSUME NEW e \in Events, Process(e)
        PROVE  \/ UNCHANGED <<cost, raised>> \/ PushSpike(e) \/ SetBudgetFired(e)
               \/ \E c \in Counters : \E next : Charge(e, c, next)
    <3>1. CASE ChargeUser(e) \/ ChargeFeature(e) \/ ChargeModel(e)
        BY <3>1 DEF ChargeUser, ChargeFeature, ChargeModel, Counters
    <3>2. CASE \/ Take(e) \/ Assess(e) \/ CountWarning(e) \/ SetFlag(e) \/ Write(e) \/ CountTrace(e)
        BY <3>2 DEF Take, Assess, CountWarning, SetFlag, Write, CountTrace, redis
    <3>3. CASE PushWarning(e) \/ TrimWarnings(e) \/ PushAnomaly(e) \/ TrimAnomalies(e) \/ TrimAlerts(e)
        BY <3>3 DEF PushWarning, TrimWarnings, PushAnomaly, TrimAnomalies, TrimAlerts, Push, Trim
    <3>4. CASE GetFeatureCost(e) \/ GetUserCost(e) \/ SetSpikeFired(e)
        BY <3>4 DEF GetFeatureCost, GetUserCost, Check, SetSpikeFired, SetFired, redis
    <3> QED BY <2>5, <3>1, <3>2, <3>3, <3>4 DEF Process
  <2>6. CASE Crash
      BY <2>1, <2>6 DEF Crash, redis
  <2>7. CASE UNCHANGED vars
      BY <2>1, <2>7 DEF vars, redis
  <2>8. CASE \E e \in Events : Process(e)
      BY <2>1, <2>2, <2>3, <2>4, <2>5, <2>8
  <2> QED BY <2>6, <2>7, <2>8 DEF Next
<1> QED BY <1>1, <1>2, Invariance, PTL DEF Spec, ImplementsDailyAlert, D!DSpec

-----------------------------------------------------------------------------
(* The lists.                                                              *)

\* Who has pushed to a list and has not trimmed it yet.
TrimState   == [warnings |-> "trim", anomalies |-> "oddTrim", alerts |-> "spikeTrim"]
Trimming(l) == {e \in Events : pc[e] = TrimState[l]}

\* A list is a prefix of what was pushed to it, and exceeds its cap by no more
\* than what its present writers and the faults so far have left behind.
Prefix(s, p) == Len(s) <= Len(p) /\ \A i \in 1..Len(s) : s[i] = p[i]
ListOK(l) ==
    /\ Prefix(lists[l], pushed[l])
    /\ Len(lists[l]) >= Len(pushed[l]) \/ Len(lists[l]) >= ListCap
    /\ Len(lists[l]) <= ListCap + Cardinality(Trimming(l)) + NumWorkers * faults
ListInv ==
    /\ Cardinality(Busy) <= NumWorkers
    /\ \A l \in Lists : ListOK(l)

\* Working takes no more workers than there are.
LEMMA FiniteEvents ==
    \A S \in SUBSET Events : IsFiniteSet(S) /\ Cardinality(S) \in Nat
BY FS_Subset, FS_CardinalityType, PipelineAssumption DEF PipelineAssumption

LEMMA FewerEvents ==
    \A S \in SUBSET Events : \A R \in SUBSET S : Cardinality(R) <= Cardinality(S)
BY FS_Subset, FiniteEvents

\* One request more, or one less.
LEMMA OneEvent ==
    \A S \in SUBSET Events : \A e \in Events :
        /\ Cardinality(S \cup {e}) = IF e \in S THEN Cardinality(S) ELSE Cardinality(S) + 1
        /\ Cardinality(S \ {e}) = IF e \in S THEN Cardinality(S) - 1 ELSE Cardinality(S)
BY FiniteEvents, FS_AddElement, FS_RemoveElement

\* Where a step of a request comes from and leads to.
LEMMA Moves ==
    ASSUME IInv, NEW e \in Events, Process(e)
    PROVE  /\ Take(e) \/ pc[e] \in Working
           /\ \E to \in States \ {"queued", "lost"} : pc' = [pc EXCEPT ![e] = to]
           /\ faults' \in {faults, faults + 1}
<1>1. CASE Take(e)
    BY <1>1 DEF Take, Go, States, Working
<1>2. CASE \/ ChargeUser(e) \/ ChargeFeature(e) \/ ChargeModel(e)
    BY <1>2 DEF ChargeUser, ChargeFeature, ChargeModel, Charge, Go, NoFault, RedisFault, States, Working
<1>3. CASE Assess(e) \/ CountWarning(e) \/ SetFlag(e) \/ Write(e) \/ CountTrace(e)
    BY <1>3 DEF Assess, CountWarning, SetFlag, Write, Onward, CountTrace, Sent, Go, NoFault, RedisFault,
                States, Working
<1>4. CASE PushWarning(e) \/ TrimWarnings(e) \/ PushAnomaly(e) \/ PushSpike(e) \/ TrimAlerts(e)
    BY <1>4 DEF PushWarning, TrimWarnings, PushAnomaly, PushSpike, TrimAlerts, Push, Trim, Go,
                NoFault, RedisFault, States, Working
<1>5. CASE TrimAnomalies(e)
    BY <1>5 DEF TrimAnomalies, Onward, Trim, Go, NoFault, RedisFault, States, Working
<1>6. CASE GetFeatureCost(e) \/ GetUserCost(e) \/ SetSpikeFired(e) \/ SetBudgetFired(e)
    BY <1>6 DEF GetFeatureCost, GetUserCost, Check, SetSpikeFired, SetBudgetFired, SetFired, Go,
                NoFault, RedisFault, States, Working
<1> QED BY <1>1, <1>2, <1>3, <1>4, <1>5, <1>6 DEF Process

LEMMA WorkersStep ==
    ASSUME IInv, Cardinality(Busy) <= NumWorkers, [Next]_vars
    PROVE  Cardinality(Busy)' <= NumWorkers
<1>1. /\ Busy \in SUBSET Events /\ Busy' \in SUBSET Events /\ ControlType /\ NumWorkers \in Nat
      /\ Cardinality(Busy) \in Nat /\ Cardinality(Busy') \in Nat
  <2>1. Busy \in SUBSET Events /\ Busy' \in SUBSET Events
      BY DEF Busy
  <2> QED BY <2>1, FiniteEvents, TypeParts, PipelineAssumption DEF IInv, PipelineAssumption
<1>2. ASSUME Busy' \in SUBSET Busy
      PROVE  Cardinality(Busy') <= NumWorkers
    BY <1>1, <1>2, FewerEvents
<1>3. CASE Crash
  <2>1. Busy' \in SUBSET Busy
      BY <1>3 DEF Crash, Busy, Working
  <2> QED BY <1>2, <2>1
<1>4. CASE UNCHANGED vars
  <2>1. Busy' \in SUBSET Busy
      BY <1>4 DEF vars, Busy
  <2> QED BY <1>2, <2>1
<1>5. ASSUME NEW e \in Events, Take(e)
      PROVE  Cardinality(Busy') <= NumWorkers
  <2>1. Cardinality(Busy) < NumWorkers /\ Busy' = Busy \cup {e}
      BY <1>1, <1>5 DEF Take, Go, Busy, ControlType, Working
  <2>2. Cardinality(Busy \cup {e}) = IF e \in Busy THEN Cardinality(Busy) ELSE Cardinality(Busy) + 1
      BY <1>1, OneEvent
  <2> QED BY <1>1, <2>1, <2>2
<1>6. ASSUME NEW e \in Events, Process(e), ~Take(e)
      PROVE  Cardinality(Busy') <= NumWorkers
  <2>1. Busy' \in SUBSET Busy
      BY <1>1, <1>6, Moves DEF Busy, ControlType
  <2> QED BY <1>2, <2>1
<1> QED BY <1>3, <1>4, <1>5, <1>6 DEF Next

\* What NumWorkers entries for each fault come to.
LEMMA LeftBehind ==
    ASSUME IInv, faults' \in {faults, faults + 1}
    PROVE  /\ faults \in Nat /\ NumWorkers * faults \in Nat /\ NumWorkers * faults' \in Nat
           /\ NumWorkers * faults' >= NumWorkers * faults
           /\ faults' = faults + 1 => NumWorkers * faults' = NumWorkers * faults + NumWorkers
           /\ NumWorkers \in Nat \ {0} /\ ListCap \in Nat \ {0}
<1>1. faults \in Nat /\ NumWorkers \in Nat \ {0} /\ ListCap \in Nat \ {0}
    BY PipelineAssumption, TypeParts DEF IInv, FaultType, PipelineAssumption
<1>2. /\ NumWorkers * faults \in Nat
      /\ NumWorkers * (faults + 1) = NumWorkers * faults + NumWorkers
    BY <1>1
<1>3. CASE faults' = faults
    BY <1>1, <1>2, <1>3
<1>4. CASE faults' = faults + 1
  <2>1. NumWorkers * faults' = NumWorkers * faults + NumWorkers
      BY <1>2, <1>4
  <2> QED BY <1>1, <1>2, <1>4, <2>1
<1> QED BY <1>3, <1>4

\* A step that leaves a list alone, and puts nobody between its LPUSH and its
\* LTRIM or takes nobody from there.
LEMMA ListUntouched ==
    ASSUME IInv, NEW l \in Lists, ListOK(l), faults' \in {faults, faults + 1},
           lists'[l] = lists[l], pushed'[l] = pushed[l], Trimming(l)' = Trimming(l)
    PROVE  ListOK(l)'
<1>1. Trimming(l) \in SUBSET Events
    BY DEF Trimming
<1>2. Cardinality(Trimming(l)) \in Nat
    BY <1>1, FiniteEvents
<1>3. Len(lists[l]) \in Nat
    BY TypeParts DEF IInv, ListType
<1>4. Prefix(lists'[l], pushed'[l]) /\ (Len(lists'[l]) >= Len(pushed'[l]) \/ Len(lists'[l]) >= ListCap)
    BY DEF ListOK
<1>5. Len(lists'[l]) <= ListCap + Cardinality(Trimming(l)') + NumWorkers * faults'
  <2> DEFINE left == NumWorkers * faults
             leftNext == NumWorkers * faults'
             trimming == Cardinality(Trimming(l))
             n == Len(lists[l])
  <2>1. n \in Nat /\ trimming \in Nat /\ ListCap \in Nat /\ n <= ListCap + trimming + left
      BY <1>2, <1>3, LeftBehind DEF ListOK
  <2>2. left \in Nat /\ leftNext \in Nat /\ leftNext >= left
      BY LeftBehind
  <2>3. Len(lists'[l]) = n /\ Cardinality(Trimming(l)') = trimming
      OBVIOUS
  <2> HIDE DEF left, leftNext, trimming, n
  <2>4. n <= ListCap + trimming + leftNext
      BY <2>1, <2>2
  <2> QED BY <2>3, <2>4 DEF leftNext
<1> QED BY <1>4, <1>5 DEF ListOK

\* What an LPUSH does to a list.
LEMMA ListPushed ==
    ASSUME IInv, NEW l \in Lists, ListOK(l), NEW e \in Events, NEW from,
           from # TrimState[l], Push(e, l, from, TrimState[l])
    PROVE  ListOK(l)'
<1>1. PICK n \in 0..2 :
          /\ lists' = [lists EXCEPT ![l] = [i \in 1..n |-> e] \o @]
          /\ pushed' = [pushed EXCEPT ![l] = [i \in 1..n |-> e] \o @]
          /\ (n = 1 /\ NoFault) \/ RedisFault
    BY DEF Push
<1> DEFINE z == [i \in 1..n |-> e]
<1>2. z \in Seq(Events) /\ Len(z) = n
    BY SMT
<1>3. lists[l] \in Seq(Events) /\ pushed[l] \in Seq(Events) /\ ControlType
    BY TypeParts DEF IInv, ListType
<1>4. lists'[l] = z \o lists[l] /\ pushed'[l] = z \o pushed[l]
    BY <1>1, TypeParts DEF IInv, ListType
<1> HIDE DEF z
<1>5. /\ Len(lists'[l]) = n + Len(lists[l]) /\ Len(pushed'[l]) = n + Len(pushed[l])
      /\ Len(lists[l]) \in Nat /\ Len(pushed[l]) \in Nat
    BY <1>2, <1>3, <1>4, ConcatProperties
<1>6. Prefix(lists'[l], pushed'[l])
  <2>1. Len(lists'[l]) <= Len(pushed'[l])
      BY <1>5 DEF ListOK, Prefix
  <2>2. ASSUME NEW i \in 1..Len(lists'[l])
        PROVE  lists'[l][i] = pushed'[l][i]
    <3>1. /\ lists'[l][i] = IF i <= n THEN z[i] ELSE lists[l][i - n]
          /\ pushed'[l][i] = IF i <= n THEN z[i] ELSE pushed[l][i - n]
      <4>1. i \in 1..(Len(z) + Len(lists[l])) /\ i \in 1..(Len(z) + Len(pushed[l]))
          BY <1>2, <1>5, <2>1
      <4>2. (z \o lists[l])[i] = IF i <= Len(z) THEN z[i] ELSE lists[l][i - Len(z)]
          BY <1>2, <1>3, <4>1, ConcatProperties
      <4>3. (z \o pushed[l])[i] = IF i <= Len(z) THEN z[i] ELSE pushed[l][i - Len(z)]
          BY <1>2, <1>3, <4>1, ConcatProperties
      <4> QED BY <1>2, <1>4, <4>2, <4>3
    <3>2. ~(i <= n) => i - n \in 1..Len(lists[l])
        BY <1>5
    <3> QED BY <3>1, <3>2 DEF ListOK, Prefix
  <2> QED BY <2>1, <2>2 DEF Prefix
<1>7. Cardinality(Trimming(l)') = Cardinality(Trimming(l)) + 1 /\ Cardinality(Trimming(l)) \in Nat
  <2>1. Trimming(l) \in SUBSET Events /\ e \notin Trimming(l) /\ Trimming(l)' = Trimming(l) \cup {e}
      BY <1>3 DEF Push, Go, Trimming, ControlType
  <2> QED BY <2>1, OneEvent, FiniteEvents
<1>8. faults' \in {faults, faults + 1} /\ (n # 1 => faults' = faults + 1)
    BY <1>1 DEF NoFault, RedisFault
<1>9. Len(lists'[l]) <= ListCap + Cardinality(Trimming(l)') + NumWorkers * faults'
  <2>1. Len(lists[l]) <= ListCap + Cardinality(Trimming(l)) + NumWorkers * faults
      BY DEF ListOK
  <2>2. /\ NumWorkers * faults \in Nat /\ NumWorkers * faults' \in Nat
        /\ NumWorkers * faults' >= NumWorkers * faults
        /\ n <= 1 \/ NumWorkers * faults' >= NumWorkers * faults + 1
        /\ ListCap \in Nat
      BY <1>8, LeftBehind
  <2> DEFINE left == NumWorkers * faults
             leftNext == NumWorkers * faults'
             trimming == Cardinality(Trimming(l))
  <2>3. /\ Len(lists'[l]) = n + Len(lists[l]) /\ Len(lists[l]) \in Nat /\ n \in 0..2
        /\ Len(lists[l]) <= ListCap + trimming + left /\ trimming \in Nat /\ ListCap \in Nat
        /\ left \in Nat /\ leftNext \in Nat /\ leftNext >= left /\ (n <= 1 \/ leftNext >= left + 1)
      BY <1>5, <1>7, <2>1, <2>2
  <2> HIDE DEF left, leftNext, trimming
  <2>4. Len(lists'[l]) <= ListCap + (trimming + 1) + leftNext
      BY <2>3
  <2> QED BY <1>7, <2>4 DEF leftNext, trimming
<1>10. Len(lists'[l]) >= Len(pushed'[l]) \/ Len(lists'[l]) >= ListCap
    BY <1>5, LeftBehind, <1>8 DEF ListOK
<1> QED BY <1>6, <1>9, <1>10 DEF ListOK

\* What an LTRIM does to a list.
LEMMA ListTrimmed ==
    ASSUME IInv, NEW l \in Lists, ListOK(l), NEW e \in Events, NEW to \in States,
           to # TrimState[l], Trim(e, l, TrimState[l], to)
    PROVE  ListOK(l)'
<1>1. lists[l] \in Seq(Events) /\ pushed[l] \in Seq(Events) /\ ControlType
    BY TypeParts DEF IInv, ListType
<1>2. Len(lists[l]) \in Nat /\ Len(pushed[l]) \in Nat /\ ListCap \in Nat \ {0}
    BY <1>1, PipelineAssumption DEF PipelineAssumption
<1>3. /\ Cardinality(Trimming(l)') = Cardinality(Trimming(l)) - 1
      /\ Cardinality(Trimming(l)) \in Nat /\ Cardinality(Trimming(l)') \in Nat
  <2>1. Trimming(l) \in SUBSET Events /\ e \in Trimming(l) /\ Trimming(l)' = Trimming(l) \ {e}
      BY <1>1 DEF Trim, Go, Trimming, ControlType
  <2>2. Trimming(l)' \in SUBSET Events
      BY <2>1
  <2> QED BY <2>1, <2>2, OneEvent, FiniteEvents
<1>4. UNCHANGED pushed
    BY DEF Trim
<1>5. CASE lists' = [lists EXCEPT ![l] = Trimmed(@)] /\ NoFault
  <2> DEFINE s == lists[l]
             n == IF Len(s) < ListCap THEN Len(s) ELSE ListCap
  <2>1. n \in 0..Len(s)
      BY <1>2
  <2>2. lists'[l] = SubSeq(s, 1, n)
      BY <1>5, TypeParts DEF Trimmed, IInv, ListType
  <2>3. Len(lists'[l]) = n /\ \A i \in 1..n : lists'[l][i] = s[i]
    <3>1. 1 \in Int /\ n \in Int /\ \A i \in 1..n : s[i] \in Events
        BY <1>1, <2>1
    <3> HIDE DEF n, s
    <3> QED BY <2>1, <2>2, <3>1, SubSeqProperties
  <2>4. Prefix(lists'[l], pushed'[l])
      BY <1>2, <1>4, <2>1, <2>3 DEF ListOK, Prefix
  <2>5. Len(lists'[l]) >= Len(pushed'[l]) \/ Len(lists'[l]) >= ListCap
      BY <1>2, <1>4, <2>3 DEF ListOK
  <2>6. faults' = faults
      BY <1>5 DEF NoFault
  <2>7. Len(lists'[l]) <= ListCap + Cardinality(Trimming(l)') + NumWorkers * faults'
    <3> DEFINE left == NumWorkers * faults'
               trimming == Cardinality(Trimming(l)')
    <3>1. left \in Nat /\ trimming \in Nat
        BY <1>3, <2>6, LeftBehind
    <3>2. n \in Nat /\ n <= ListCap /\ ListCap \in Nat
        BY <1>2
    <3>3. Len(lists'[l]) = n
        BY <2>3
    <3> HIDE DEF left, trimming, n, s
    <3>4. n <= ListCap + trimming + left
        BY <3>1, <3>2
    <3> QED BY <3>3, <3>4 DEF left, trimming
  <2> QED BY <2>4, <2>5, <2>7 DEF ListOK
<1>6. CASE UNCHANGED lists /\ RedisFault
  <2>1. faults' = faults + 1
      BY <1>6 DEF RedisFault
  <2>2. Len(lists[l]) <= ListCap + Cardinality(Trimming(l)') + NumWorkers * faults'
    <3>1. Len(lists[l]) <= ListCap + Cardinality(Trimming(l)) + NumWorkers * faults
        BY DEF ListOK
    <3>2. /\ NumWorkers * faults' = NumWorkers * faults + NumWorkers
          /\ NumWorkers * faults \in Nat /\ NumWorkers \in Nat \ {0}
        BY <2>1, LeftBehind
    <3> DEFINE left == NumWorkers * faults
               leftNext == NumWorkers * faults'
               trimming == Cardinality(Trimming(l))
               trimmingNext == Cardinality(Trimming(l)')
               n == Len(lists[l])
    <3>3. /\ n \in Nat /\ ListCap \in Nat /\ n <= ListCap + trimming + left
          /\ trimming \in Nat /\ trimmingNext = trimming - 1
          /\ left \in Nat /\ leftNext = left + NumWorkers /\ NumWorkers \in Nat /\ NumWorkers > 0
        BY <1>2, <1>3, <3>1, <3>2
    <3> HIDE DEF left, leftNext, trimming, trimmingNext, n
    <3>4. n <= ListCap + trimmingNext + leftNext
        BY <3>3
    <3> QED BY <3>4 DEF leftNext, trimmingNext, n
  <2> QED BY <1>4, <1>6, <2>2 DEF ListOK
<1> QED BY <1>5, <1>6 DEF Trim

\* Whoever neither comes from a list's LTRIM nor goes there changes nothing there.
LEMMA TrimmingKept ==
    ASSUME IInv, NEW e \in Events, NEW to \in States, NEW l \in Lists, pc' = [pc EXCEPT ![e] = to],
           pc[e] # TrimState[l], to # TrimState[l]
    PROVE  Trimming(l)' = Trimming(l)
BY TypeParts DEF IInv, ControlType, Trimming

\* LPUSH and LTRIM of one list leave the others alone.
LEMMA OneListStep ==
    ASSUME IInv, ListInv, NEW e \in Events, NEW l \in Lists, NEW from \in States, NEW to \in States,
           from # to,
           \/ Push(e, l, from, to) /\ to = TrimState[l] /\ \A m \in Lists : from # TrimState[m]
           \/ Trim(e, l, from, to) /\ from = TrimState[l] /\ \A m \in Lists : to # TrimState[m]
    PROVE  \A m \in Lists : ListOK(m)'
<1>1. ListOK(l)'
    BY ListPushed, ListTrimmed DEF ListInv
<1>2. faults' \in {faults, faults + 1}
    BY DEF Push, Trim, NoFault, RedisFault
<1>3. ASSUME NEW m \in Lists, m # l
      PROVE  ListOK(m)'
  <2>1. lists'[m] = lists[m] /\ pushed'[m] = pushed[m]
      BY <1>3, TypeParts DEF Push, Trim, IInv, ListType
  <2>2. from # TrimState[m] /\ to # TrimState[m]
      BY <1>3 DEF TrimState, Lists
  <2>3. pc[e] = from /\ pc' = [pc EXCEPT ![e] = to]
      BY DEF Push, Trim, Go
  <2>4. Trimming(m)' = Trimming(m)
      BY <2>2, <2>3, TrimmingKept
  <2> QED BY <1>2, <2>1, <2>4, ListUntouched DEF ListInv
<1> QED BY <1>1, <1>3

LEMMA ListsStep == IInv /\ ListInv /\ [Next]_vars => ListInv'
<1> SUFFICES ASSUME IInv, ListInv, [Next]_vars PROVE ListInv'
    OBVIOUS
<1> USE DEF IInv
<1>1. Cardinality(Busy)' <= NumWorkers
    BY WorkersStep DEF ListInv
<1>2. CASE UNCHANGED vars
  <2>1. ASSUME NEW l \in Lists
        PROVE  ListOK(l)'
    <3>1. UNCHANGED <<lists, pushed, pc, faults>>
        BY <1>2 DEF vars, redis
    <3>2. Trimming(l)' = Trimming(l)
        BY <3>1 DEF Trimming
    <3> QED BY <3>1, <3>2, ListUntouched DEF ListInv
  <2> QED BY <1>1, <2>1 DEF ListInv
<1>3. CASE Crash
  <2>1. ASSUME NEW l \in Lists
        PROVE  ListOK(l)'
    <3>1. UNCHANGED <<lists, pushed>> /\ faults' = faults + 1
        BY <1>3 DEF Crash, redis
    <3>2. Trimming(l)' \in SUBSET Events /\ Trimming(l) \in SUBSET Busy /\ Busy \in SUBSET Events
        BY DEF Trimming, Busy, TrimState, Lists, Working
    <3>3. Cardinality(Trimming(l)) <= NumWorkers /\ Cardinality(Trimming(l)') \in Nat
      <4>1. Cardinality(Trimming(l)) <= Cardinality(Busy)
          BY <3>2, FewerEvents
      <4>2. Trimming(l) \in SUBSET Events
          BY DEF Trimming
      <4>3. Cardinality(Trimming(l)) \in Nat /\ Cardinality(Busy) \in Nat /\ Cardinality(Trimming(l)') \in Nat
          BY <3>2, <4>2, FiniteEvents
      <4> QED BY <4>1, <4>3, LeftBehind, <3>1 DEF ListInv
    <3>4. Len(lists[l]) <= ListCap + NumWorkers * faults'
      <4>1. Len(lists[l]) <= ListCap + Cardinality(Trimming(l)) + NumWorkers * faults
          BY DEF ListInv, ListOK
      <4>2. Len(lists[l]) \in Nat /\ Cardinality(Trimming(l)) \in Nat
        <5>1. Trimming(l) \in SUBSET Events
            BY DEF Trimming
        <5> QED BY <5>1, FiniteEvents, TypeParts DEF ListType
      <4>3. /\ NumWorkers * faults' = NumWorkers * faults + NumWorkers /\ NumWorkers * faults \in Nat
            /\ NumWorkers \in Nat /\ ListCap \in Nat
          BY <3>1, LeftBehind
      <4>4. Cardinality(Trimming(l)) <= NumWorkers
          BY <3>3
      <4> QED BY <4>1, <4>2, <4>3, <4>4
    <3>5. Len(lists'[l]) <= ListCap + Cardinality(Trimming(l)') + NumWorkers * faults'
      <4>1. Len(lists[l]) \in Nat /\ NumWorkers * faults' \in Nat /\ ListCap \in Nat
          BY <3>1, LeftBehind, TypeParts DEF ListType
      <4> QED BY <3>1, <3>3, <3>4, <4>1
    <3> QED BY <3>1, <3>5 DEF ListInv, ListOK
  <2> QED BY <1>1, <2>1 DEF ListInv
<1>4. ASSUME NEW e \in Events, Process(e)
      PROVE  ListInv'
  <2> DEFINE Trims == {"trim", "oddTrim", "spikeTrim"}
  <2>1. \A l \in Lists : TrimState[l] \in Trims
      BY DEF TrimState, Lists
  <2>2. ASSUME UNCHANGED <<lists, pushed>>, pc[e] \notin Trims, pc'[e] \notin Trims
        PROVE  \A l \in Lists : ListOK(l)'
    <3>1. PICK to \in States : pc' = [pc EXCEPT ![e] = to]
        BY <1>4, Moves
    <3>2. pc'[e] = to
        BY <3>1, TypeParts DEF ControlType
    <3>3. ASSUME NEW l \in Lists
          PROVE  ListOK(l)'
      <4>1. Trimming(l)' = Trimming(l)
          BY <2>1, <2>2, <3>1, <3>2, TrimmingKept
      <4> QED BY <1>4, <2>2, <4>1, Moves, ListUntouched DEF ListInv
    <3> QED BY <3>3
  <2>3. CASE PushWarning(e) \/ TrimWarnings(e)
    <3>1. Push(e, "warnings", "push", "trim") \/ Trim(e, "warnings", "trim", "flag")
        BY <2>3 DEF PushWarning, TrimWarnings
    <3> QED BY <1>1, <3>1, OneListStep DEF ListInv, TrimState, Lists, States, Working
  <2>4. CASE PushAnomaly(e) \/ TrimAnomalies(e)
    <3>1. PICK to \in {"oddPush", "traces", "budgetGet"} :
              Push(e, "anomalies", "oddPush", "oddTrim") \/ Trim(e, "anomalies", "oddTrim", to)
        BY <2>4 DEF PushAnomaly, TrimAnomalies, Onward
    <3> QED BY <1>1, <3>1, OneListStep DEF ListInv, TrimState, Lists, States, Working
  <2>5. CASE PushSpike(e) \/ TrimAlerts(e)
    <3>1. Push(e, "alerts", "spikePush", "spikeTrim") \/ Trim(e, "alerts", "spikeTrim", "budgetGet")
        BY <2>5 DEF PushSpike, TrimAlerts
    <3> QED BY <1>1, <3>1, OneListStep DEF ListInv, TrimState, Lists, States, Working
  <2>6. CASE ChargeUser(e) \/ ChargeFeature(e) \/ ChargeModel(e)
    <3>1. UNCHANGED <<lists, pushed>> /\ pc[e] \notin Trims /\ pc'[e] \notin Trims
        BY <2>6, TypeParts DEF ChargeUser, ChargeFeature, ChargeModel, Charge, Go, ControlType
    <3> QED BY <1>1, <2>2, <3>1 DEF ListInv
  <2>7. CASE Take(e) \/ Assess(e) \/ CountWarning(e) \/ SetFlag(e) \/ Write(e) \/ CountTrace(e)
    <3>1. UNCHANGED <<lists, pushed>> /\ pc[e] \notin Trims /\ pc'[e] \notin Trims
        BY <2>7, TypeParts DEF Take, Assess, CountWarning, SetFlag, Write, Onward, CountTrace, Go,
                               ControlType, redis
    <3> QED BY <1>1, <2>2, <3>1 DEF ListInv
  <2>8. CASE GetFeatureCost(e) \/ GetUserCost(e) \/ SetSpikeFired(e) \/ SetBudgetFired(e)
    <3>1. UNCHANGED <<lists, pushed>> /\ pc[e] \notin Trims /\ pc'[e] \notin Trims
        BY <2>8, TypeParts DEF GetFeatureCost, GetUserCost, Check, SetSpikeFired, SetBudgetFired,
                               SetFired, Go, ControlType, redis
    <3> QED BY <1>1, <2>2, <3>1 DEF ListInv
  <2> QED BY <1>4, <2>3, <2>4, <2>5, <2>6, <2>7, <2>8 DEF Process
<1> QED BY <1>2, <1>3, <1>4 DEF Next

LEMMA ListsInit == Init => ListInv
<1> SUFFICES ASSUME Init PROVE ListInv
    OBVIOUS
<1>1. IInv
    BY InitIInv
<1>2. Busy = {} /\ Cardinality({}) = 0
    BY FS_EmptySet DEF Init, Busy, Working
<1>3. /\ Cardinality(Busy) <= NumWorkers /\ NumWorkers \in Nat /\ ListCap \in Nat
      /\ faults = 0 /\ NumWorkers * faults = 0
    BY <1>2, PipelineAssumption DEF PipelineAssumption, Init
<1>4. ASSUME NEW l \in Lists
      PROVE  ListOK(l)
  <2>1. lists[l] = << >> /\ pushed[l] = << >>
      BY DEF Init
  <2>2. Trimming(l) \in SUBSET Events
      BY DEF Trimming
  <2>3. Cardinality(Trimming(l)) \in Nat
      BY <2>2, FiniteEvents
  <2> QED BY <1>3, <2>1, <2>3 DEF ListOK, Prefix
<1> QED BY <1>3, <1>4 DEF ListInv

\* Whichever workers push and trim at once, and whatever commands fail or are cut
\* off between the two (main.go, risk and anomaly writers), each list holds the
\* newest entries without a gap, as many as its cap, and more by no more than one
\* for each worker and as many for each fault.
THEOREM NewestAreKept == Spec => []NewestKept
<1>1. ASSUME IInv, ListInv
      PROVE  NewestKept
  <2>1. ASSUME NEW l \in Lists
        PROVE  /\ lists[l] = SubSeq(pushed[l], 1, Len(lists[l]))
               /\ Len(lists[l]) >= IF Len(pushed[l]) < ListCap THEN Len(pushed[l]) ELSE ListCap
               /\ Len(lists[l]) <= ListCap + NumWorkers * (1 + faults)
    <3>1. /\ lists[l] \in Seq(Events) /\ pushed[l] \in Seq(Events) /\ faults \in Nat
          /\ Len(lists[l]) \in Nat /\ Len(pushed[l]) \in Nat
          /\ NumWorkers \in Nat \ {0} /\ ListCap \in Nat \ {0}
        BY <1>1, TypeParts, PipelineAssumption DEF IInv, ListType, FaultType, PipelineAssumption
    <3>2. Prefix(lists[l], pushed[l])
        BY <1>1 DEF ListInv, ListOK
    <3>3. lists[l] = SubSeq(pushed[l], 1, Len(lists[l]))
      <4> DEFINE n == Len(lists[l])
                 sub == SubSeq(pushed[l], 1, n)
      <4>1. n \in 0..Len(pushed[l])
          BY <3>1, <3>2 DEF Prefix
      <4>2. sub \in Seq(Events) /\ Len(sub) = n /\ \A i \in 1..n : sub[i] = pushed[l][i]
        <5>1. 1 \in Int /\ n \in Int /\ \A i \in 1..n : pushed[l][i] \in Events
            BY <3>1, <4>1
        <5> HIDE DEF n
        <5> QED BY <3>1, <4>1, <5>1, SubSeqProperties
      <4>3. \A i \in 1..n : sub[i] = lists[l][i]
          BY <3>2, <4>2 DEF Prefix
      <4> HIDE DEF sub
      <4>4. lists[l] = sub
          BY <3>1, <4>2, <4>3, SeqEqual
      <4> QED BY <4>4 DEF sub
    <3>4. Cardinality(Trimming(l)) <= NumWorkers /\ Cardinality(Trimming(l)) \in Nat
      <4>1. Trimming(l) \in SUBSET Busy /\ Busy \in SUBSET Events /\ Trimming(l) \in SUBSET Events
          BY DEF Trimming, Busy, TrimState, Lists, Working
      <4>2. Cardinality(Trimming(l)) <= Cardinality(Busy)
          BY <4>1, FewerEvents
      <4>3. Cardinality(Trimming(l)) \in Nat /\ Cardinality(Busy) \in Nat
          BY <4>1, FiniteEvents
      <4> QED BY <1>1, <3>1, <4>2, <4>3 DEF ListInv
    <3>5. Len(lists[l]) <= ListCap + NumWorkers * (1 + faults)
      <4>1. NumWorkers * (1 + faults) = NumWorkers + NumWorkers * faults /\ NumWorkers * faults \in Nat
          BY <3>1
      <4>2. Len(lists[l]) <= ListCap + Cardinality(Trimming(l)) + NumWorkers * faults
          BY <1>1 DEF ListInv, ListOK
      <4> QED BY <3>1, <3>4, <4>1, <4>2
    <3> QED BY <1>1, <3>1, <3>3, <3>5 DEF ListInv, ListOK
  <2> QED BY <2>1 DEF NewestKept
<1> QED BY Invariance, ListsInit, ListsStep, <1>1, PTL DEF Spec

-----------------------------------------------------------------------------
(* The counters.                                                           *)

\* A counter that counts no request outside most, and all of sure, up to the
\* faults.
Near(n, sure, most) == Cardinality(sure) <= n + faults /\ n <= Cardinality(most) + faults

\* The requests that pay into a cost counter, and those of them that may have.
Uncharged == [user    |-> {"queued", "user"},
              feature |-> {"queued", "user", "feature"},
              model   |-> {"queued", "user", "feature", "model"}]
Payers(c)  == IF c = "feature" THEN Featured ELSE Events
Paid(c)    == {e \in Payers(c) : pc[e] \notin Uncharged[c]}
Alive      == {e \in Events : pc[e] # "lost"}

\* Those that may have been counted in traces:daily and in warnings:daily.
Untraced == {"queued", "user", "feature", "model", "assess", "count", "push", "trim", "flag",
             "write", "oddPush", "oddTrim", "traces"}
Traced   == {e \in rows : pc[e] \notin Untraced}
Uncounted == {"queued", "user", "feature", "model", "assess", "count"}
Counted  == {e \in Events : warn[e] /\ pc[e] \notin Uncounted}

DriftInv ==
    /\ \A e \in Events : pc[e] = "traces" => e \in rows
    /\ \A e \in Events : pc[e] = "count" => warn[e]
    /\ \A c \in Counters : Near(cost[c], Paid(c) \cap Alive, Paid(c))
    /\ Near(tracesDaily, Traced \cap Alive, Traced)
    /\ Near(warnDaily, Counted \cap Alive, Counted)

\* A counter that a step leaves alone, or only brings to more faults.
LEMMA NearKept ==
    ASSUME NEW S \in SUBSET Events, NEW P \in SUBSET Events, NEW SNext \in SUBSET S,
           NEW PNext \in SUBSET Events, P \subseteq PNext, NEW n \in Nat, Near(n, S, P),
           faults \in Nat, faults' \in {faults, faults + 1}
    PROVE  Cardinality(SNext) <= n + faults' /\ n <= Cardinality(PNext) + faults'
<1>1. /\ Cardinality(S) \in Nat /\ Cardinality(P) \in Nat
      /\ Cardinality(SNext) \in Nat /\ Cardinality(PNext) \in Nat
  <2>1. SNext \in SUBSET Events
      OBVIOUS
  <2> QED BY <2>1, FiniteEvents
<1>2. Cardinality(SNext) <= Cardinality(S) /\ Cardinality(P) <= Cardinality(PNext)
  <2>1. P \in SUBSET PNext
      OBVIOUS
  <2> QED BY <2>1, FewerEvents
<1> QED BY <1>1, <1>2 DEF Near

\* A counter that a request is counted in, once or twice or not at all.
LEMMA NearCounted ==
    ASSUME NEW S \in SUBSET Events, NEW P \in SUBSET Events, NEW e \in Events,
           NEW SNext \in SUBSET (S \cup {e}), NEW PNext \in SUBSET Events, P \subseteq PNext,
           NEW n \in Nat, NEW m \in Nat, Near(n, S, P), faults \in Nat,
           \/ m = n + 1 /\ e \in PNext \ P /\ faults' = faults
           \/ m \in {n, n + 1} /\ faults' = faults + 1
           \/ m = n + 2 /\ e \in PNext \ P /\ faults' = faults + 1
    PROVE  Cardinality(SNext) <= m + faults' /\ m <= Cardinality(PNext) + faults'
<1>1. Cardinality(SNext) <= Cardinality(S) + 1
  <2>1. S \cup {e} \in SUBSET Events /\ SNext \in SUBSET Events
      OBVIOUS
  <2>2. Cardinality(SNext) <= Cardinality(S \cup {e})
      BY <2>1, FewerEvents
  <2>3. Cardinality(S \cup {e}) = IF e \in S THEN Cardinality(S) ELSE Cardinality(S) + 1
      BY OneEvent
  <2>4. Cardinality(S) \in Nat /\ Cardinality(SNext) \in Nat /\ Cardinality(S \cup {e}) \in Nat
      BY <2>1, FiniteEvents
  <2> QED BY <2>2, <2>3, <2>4
<1>2. /\ Cardinality(S) \in Nat /\ Cardinality(P) \in Nat
      /\ Cardinality(SNext) \in Nat /\ Cardinality(PNext) \in Nat
  <2>1. SNext \in SUBSET Events
      OBVIOUS
  <2> QED BY <2>1, FiniteEvents
<1>3. Cardinality(P) <= Cardinality(PNext)
  <2>1. P \in SUBSET PNext
      OBVIOUS
  <2> QED BY <2>1, FewerEvents
<1>4. e \in PNext \ P => Cardinality(P) + 1 <= Cardinality(PNext)
  <2> SUFFICES ASSUME e \in PNext \ P PROVE Cardinality(P) + 1 <= Cardinality(PNext)
      OBVIOUS
  <2>1. Cardinality(P \cup {e}) = Cardinality(P) + 1
      BY OneEvent
  <2>2. P \cup {e} \in SUBSET PNext
      OBVIOUS
  <2>3. Cardinality(P \cup {e}) <= Cardinality(PNext)
      BY <2>2, FewerEvents
  <2> QED BY <2>1, <2>3
<1> QED BY <1>1, <1>2, <1>3, <1>4 DEF Near

\* The sets that the counters are compared with consist of requests.
LEMMA SetsOfEvents ==
    ASSUME IInv, IInv'
    PROVE  /\ \A c \in Counters : /\ Paid(c) \in SUBSET Events /\ Paid(c)' \in SUBSET Events
                                  /\ cost[c] \in Nat /\ cost'[c] \in Nat
           /\ Traced \in SUBSET Events /\ Traced' \in SUBSET Events
           /\ Counted \in SUBSET Events /\ Counted' \in SUBSET Events
           /\ tracesDaily \in Nat /\ tracesDaily' \in Nat /\ warnDaily \in Nat /\ warnDaily' \in Nat
           /\ faults \in Nat /\ faults' \in Nat /\ ControlType /\ ControlType'
<1>1. \A c : Paid(c) \in SUBSET Events /\ Paid(c)' \in SUBSET Events
    BY PipelineAssumption DEF PipelineAssumption, Paid, Payers
<1>2. Traced \in SUBSET Events /\ Traced' \in SUBSET Events
    BY TypeParts DEF IInv, TypeOK, Traced
<1>3. Counted \in SUBSET Events /\ Counted' \in SUBSET Events
    BY DEF Counted
<1>4. /\ \A c \in Counters : cost[c] \in Nat /\ cost'[c] \in Nat
      /\ tracesDaily \in Nat /\ tracesDaily' \in Nat /\ warnDaily \in Nat /\ warnDaily' \in Nat
      /\ faults \in Nat /\ faults' \in Nat /\ ControlType /\ ControlType'
    BY PipelineAssumption DEF PipelineAssumption, IInv, TypeOK, ControlType, States
<1> QED BY <1>1, <1>2, <1>3, <1>4

\* Paying: each command charges one counter.
LEMMA CostsStep ==
    ASSUME IInv, IInv', DriftInv, NEW e \in Events, Process(e), NEW c \in Counters
    PROVE  Near(cost[c], Paid(c) \cap Alive, Paid(c))'
<1> DEFINE S == Paid(c) \cap Alive
           P == Paid(c)
<1>1. PICK to \in States \ {"queued", "lost"} : pc' = [pc EXCEPT ![e] = to]
    BY Moves
<1>2. /\ \A f \in Events : pc'[f] = IF f = e THEN to ELSE pc[f]
      /\ pc[e] # "lost" /\ Alive' = Alive
  <2>1. \A f \in Events : pc'[f] = IF f = e THEN to ELSE pc[f]
      BY <1>1, SetsOfEvents DEF ControlType
  <2>2. pc[e] # "lost"
      BY Moves DEF Take, Go, Working
  <2> QED BY <2>1, <2>2 DEF Alive
<1>3. Near(cost[c], S, P) /\ S \in SUBSET Events /\ P \in SUBSET Events /\ P' \in SUBSET Events
      /\ S' \in SUBSET Events
    BY SetsOfEvents DEF DriftInv, Alive
<1>4. ASSUME cost'[c] = cost[c], pc[e] \in Uncharged[c] <=> to \in Uncharged[c]
      PROVE  Near(cost[c], Paid(c) \cap Alive, Paid(c))'
  <2>1. P' = P /\ S' = S
    <3>1. Payers(c)' = Payers(c) /\ Payers(c) \in SUBSET Events
        BY PipelineAssumption DEF PipelineAssumption, Payers
    <3> QED BY <1>2, <1>4, <3>1 DEF Paid
  <2>2. Cardinality(S') <= cost'[c] + faults' /\ cost'[c] <= Cardinality(P') + faults'
    <3>1. S' \in SUBSET S /\ P \subseteq P' /\ cost[c] \in Nat /\ faults \in Nat
        BY <2>1, SetsOfEvents
    <3> HIDE DEF S, P
    <3> QED BY <1>3, <1>4, <3>1, Moves, NearKept
  <2> QED BY <2>2 DEF Near
<1>5. ASSUME NEW d \in Counters, NEW next \in {"feature", "model", "assess"}, Charge(e, d, next),
             \/ d = "user" /\ next = "feature"
             \/ d = "feature" /\ next = "model"
             \/ d = "model" /\ next = "assess"
      PROVE  Near(cost[c], Paid(c) \cap Alive, Paid(c))'
  <2> DEFINE key == IF d = "feature" /\ e \notin Featured THEN {} ELSE {d}
  <2>1. PICK n \in 0..2 :
            /\ cost' = [k \in Counters |-> IF k \in key THEN cost[k] + n ELSE cost[k]]
            /\ \/ n = 1 /\ to = next /\ faults' = faults
               \/ n \in {0, 1} /\ to = "assess" /\ faults' = faults + 1
               \/ n = 2 /\ to = next /\ faults' = faults + 1
    <3>1. \A x : Go(e, d, x) => to = x
        BY <1>2, SetsOfEvents DEF Go, ControlType
    <3> QED BY <1>5, <3>1 DEF Charge, NoFault, RedisFault
  <2>2. pc[e] = d
      BY <1>5 DEF Charge, Go
  <2>3. CASE c = d /\ e \in Payers(c)
    <3>1. e \notin P /\ e \in P' /\ P \subseteq P' /\ S' \in SUBSET (S \cup {e})
      <4>1. d \in Uncharged[d] /\ to \notin Uncharged[d]
          BY <1>5, <2>1 DEF Uncharged
      <4>2. Payers(c)' = Payers(c) /\ Payers(c) \in SUBSET Events
          BY PipelineAssumption DEF PipelineAssumption, Payers
      <4> QED BY <1>2, <2>2, <2>3, <4>1, <4>2 DEF Paid
    <3>2. cost'[c] = cost[c] + n
        BY <2>1, <2>3 DEF Payers
    <3>3. cost[c] \in Nat /\ cost'[c] \in Nat /\ faults \in Nat
        BY SetsOfEvents
    <3>4. \/ cost'[c] = cost[c] + 1 /\ faults' = faults
          \/ cost'[c] \in {cost[c], cost[c] + 1} /\ faults' = faults + 1
          \/ cost'[c] = cost[c] + 2 /\ faults' = faults + 1
        BY <2>1, <3>2, <3>3
    <3>5. Cardinality(S') <= cost'[c] + faults' /\ cost'[c] <= Cardinality(P') + faults'
      <4> HIDE DEF S, P
      <4> QED BY <1>3, <3>1, <3>3, <3>4, NearCounted
    <3> QED BY <3>5 DEF Near
  <2>4. CASE c = d /\ e \notin Payers(c)
    <3>1. cost'[c] = cost[c]
        BY <2>1, <2>4 DEF Payers
    <3>2. P' = P /\ S' = S
      <4>1. Payers(c)' = Payers(c) /\ Payers(c) \in SUBSET Events
          BY PipelineAssumption DEF PipelineAssumption, Payers
      <4> QED BY <1>2, <2>4, <4>1 DEF Paid
    <3>3. Cardinality(S') <= cost'[c] + faults' /\ cost'[c] <= Cardinality(P') + faults'
      <4>1. S' \in SUBSET S /\ P \subseteq P' /\ cost[c] \in Nat /\ faults \in Nat
          BY <3>2, SetsOfEvents
      <4> HIDE DEF S, P
      <4> QED BY <1>3, <3>1, <4>1, Moves, NearKept
    <3> QED BY <3>3 DEF Near
  <2>5. CASE c # d
    <3>1. cost'[c] = cost[c]
        BY <2>1, <2>5
    <3>2. CASE to = next
      <4>1. pc[e] \in Uncharged[c] <=> to \in Uncharged[c]
          BY <1>5, <2>2, <2>5, <3>2 DEF Uncharged, Counters
      <4> QED BY <1>4, <3>1, <4>1
    <3>3. CASE to = "assess" /\ faults' = faults + 1
      <4>1. P \subseteq P' /\ S' \in SUBSET (S \cup {e})
        <5>1. to \notin Uncharged[c]
            BY <3>3 DEF Uncharged, Counters
        <5>2. Payers(c)' = Payers(c) /\ Payers(c) \in SUBSET Events
            BY PipelineAssumption DEF PipelineAssumption, Payers
        <5> QED BY <1>2, <5>1, <5>2 DEF Paid
      <4>2. Cardinality(S') <= cost'[c] + faults' /\ cost'[c] <= Cardinality(P') + faults'
        <5>1. cost[c] \in Nat /\ cost'[c] \in Nat /\ faults \in Nat
            BY SetsOfEvents
        <5> HIDE DEF S, P
        <5> QED BY <1>3, <3>1, <3>3, <4>1, <5>1, NearCounted
      <4> QED BY <4>2 DEF Near
    <3> QED BY <2>1, <3>2, <3>3
  <2> QED BY <2>3, <2>4, <2>5
<1>6. CASE ChargeUser(e) \/ ChargeFeature(e) \/ ChargeModel(e)
    BY <1>5, <1>6 DEF ChargeUser, ChargeFeature, ChargeModel, Counters
<1>7. CASE UNCHANGED cost /\ (pc[e] \in Uncharged[c] <=> to \in Uncharged[c])
    BY <1>4, <1>7
<1>8. CASE Take(e) \/ Assess(e) \/ CountWarning(e) \/ SetFlag(e) \/ Write(e) \/ CountTrace(e)
  <2>1. UNCHANGED cost
      BY <1>8 DEF Take, Assess, CountWarning, SetFlag, Write, CountTrace, redis
  <2>2. pc[e] \in Uncharged[c] <=> pc'[e] \in Uncharged[c]
      BY <1>8, SetsOfEvents DEF Take, Assess, CountWarning, SetFlag, Write, Onward, CountTrace, Go,
                               ControlType, Uncharged, Counters
  <2> QED BY <1>2, <1>7, <2>1, <2>2
<1>9. CASE \/ PushWarning(e) \/ TrimWarnings(e) \/ PushAnomaly(e) \/ TrimAnomalies(e)
           \/ PushSpike(e) \/ TrimAlerts(e)
  <2>1. UNCHANGED cost
      BY <1>9 DEF PushWarning, TrimWarnings, PushAnomaly, TrimAnomalies, PushSpike, TrimAlerts, Push, Trim
  <2>2. pc[e] \in Uncharged[c] <=> pc'[e] \in Uncharged[c]
    <3> DEFINE later == {"push", "trim", "flag", "oddPush", "oddTrim", "traces", "budgetGet",
                         "spikePush", "spikeTrim"}
    <3>1. pc[e] \in later /\ \E x \in later : pc' = [pc EXCEPT ![e] = x]
      <4>1. Onward(e) \in later
          BY DEF Onward
      <4> QED BY <1>9, <4>1 DEF PushWarning, TrimWarnings, PushAnomaly, TrimAnomalies, PushSpike,
                                TrimAlerts, Push, Trim, Go
    <3>2. pc'[e] \in later
        BY <3>1, SetsOfEvents DEF ControlType
    <3> QED BY <3>1, <3>2 DEF Uncharged, Counters
  <2> QED BY <1>2, <1>7, <2>1, <2>2
<1>10. CASE GetFeatureCost(e) \/ GetUserCost(e) \/ SetSpikeFired(e) \/ SetBudgetFired(e)
  <2>1. UNCHANGED cost
      BY <1>10 DEF GetFeatureCost, GetUserCost, Check, SetSpikeFired, SetBudgetFired, SetFired, redis
  <2>2. pc[e] \in Uncharged[c] <=> pc'[e] \in Uncharged[c]
      BY <1>10, SetsOfEvents DEF GetFeatureCost, GetUserCost, Check, SetSpikeFired, SetBudgetFired,
                                SetFired, Go, ControlType, Uncharged, Counters
  <2> QED BY <1>2, <1>7, <2>1, <2>2
<1> QED BY <1>6, <1>8, <1>9, <1>10 DEF Process

\* Counting the traces: only requests with a row are, when they leave "traces".
LEMMA TracesStep ==
    ASSUME IInv, IInv', DriftInv, NEW e \in Events, Process(e)
    PROVE  /\ \A f \in Events : pc'[f] = "traces" => f \in rows'
           /\ Near(tracesDaily, Traced \cap Alive, Traced)'
<1> DEFINE S == Traced \cap Alive
           P == Traced
<1>1. PICK to \in States \ {"queued", "lost"} : pc' = [pc EXCEPT ![e] = to]
    BY Moves
<1>2. /\ \A f \in Events : pc'[f] = IF f = e THEN to ELSE pc[f]
      /\ pc[e] # "lost" /\ Alive' = Alive
  <2>1. \A f \in Events : pc'[f] = IF f = e THEN to ELSE pc[f]
      BY <1>1, SetsOfEvents DEF ControlType
  <2>2. pc[e] # "lost"
      BY Moves DEF Take, Go, Working
  <2> QED BY <2>1, <2>2 DEF Alive
<1>3. /\ Near(tracesDaily, S, P) /\ S \in SUBSET Events /\ P \in SUBSET Events
      /\ P' \in SUBSET Events /\ S' \in SUBSET Events
      /\ rows \in SUBSET Events /\ \A f \in Events : pc[f] = "traces" => f \in rows
    BY SetsOfEvents, TypeParts DEF DriftInv, Alive, IInv, StoreType
<1>4. ASSUME tracesDaily' = tracesDaily, rows' \in {rows, rows \cup {e}}, to = "traces" => e \in rows',
             \/ rows' = rows /\ (pc[e] \in Untraced <=> to \in Untraced)
             \/ pc[e] \in Untraced /\ (e \in rows' => to \in Untraced)
      PROVE  /\ \A f \in Events : pc'[f] = "traces" => f \in rows'
             /\ Near(tracesDaily, Traced \cap Alive, Traced)'
  <2>1. P' = P /\ S' = S
      BY <1>2, <1>3, <1>4 DEF Traced
  <2>2. Cardinality(S') <= tracesDaily' + faults' /\ tracesDaily' <= Cardinality(P') + faults'
    <3>1. S' \in SUBSET S /\ P \subseteq P' /\ tracesDaily \in Nat /\ faults \in Nat
        BY <2>1, SetsOfEvents
    <3> HIDE DEF S, P
    <3> QED BY <1>3, <1>4, <3>1, Moves, NearKept
  <2>3. \A f \in Events : pc'[f] = "traces" => f \in rows'
      BY <1>2, <1>3, <1>4
  <2> QED BY <2>2, <2>3 DEF Near
<1>5. CASE CountTrace(e)
  <2>1. /\ pc[e] = "traces" /\ to \in {"spikeGet", "budgetGet"} /\ rows' = rows
        /\ Sent(tracesDaily, tracesDaily')
      BY <1>2, <1>5, SetsOfEvents DEF CountTrace, Go, ControlType
  <2>2. e \in rows /\ e \notin P /\ e \in P' /\ P \subseteq P' /\ S' \in SUBSET (S \cup {e})
      BY <1>2, <1>3, <2>1 DEF Traced, Untraced
  <2>3. tracesDaily \in Nat /\ tracesDaily' \in Nat /\ faults \in Nat
      BY SetsOfEvents
  <2>4. \/ tracesDaily' = tracesDaily + 1 /\ faults' = faults
        \/ tracesDaily' \in {tracesDaily, tracesDaily + 1} /\ faults' = faults + 1
        \/ tracesDaily' = tracesDaily + 2 /\ faults' = faults + 1
      BY <2>1, <2>3 DEF Sent, NoFault, RedisFault
  <2>5. Cardinality(S') <= tracesDaily' + faults' /\ tracesDaily' <= Cardinality(P') + faults'
    <3> HIDE DEF S, P
    <3> QED BY <1>3, <2>2, <2>3, <2>4, NearCounted
  <2>6. \A f \in Events : pc'[f] = "traces" => f \in rows'
      BY <1>2, <1>3, <2>1
  <2> QED BY <2>5, <2>6 DEF Near
<1>6. CASE Write(e) \/ TrimAnomalies(e)
  <2>1. PICK from \in {"write", "oddTrim"} : Go(e, from, Onward(e))
      BY <1>6 DEF Write, TrimAnomalies, Trim
  <2>2. pc[e] = from /\ to = Onward(e)
      BY <1>2, <2>1, SetsOfEvents DEF Go, ControlType
  <2>3. tracesDaily' = tracesDaily /\ rows' \in {rows, rows \cup {e}}
      BY <1>6 DEF Write, TrimAnomalies, Trim, redis
  <2>4. (e \in rows' => to \in Untraced) /\ (to = "traces" => e \in rows') /\ pc[e] \in Untraced
      BY <2>2 DEF Onward, Untraced
  <2> QED BY <1>4, <2>3, <2>4
<1>7. CASE UNCHANGED <<tracesDaily, rows>> /\ to # "traces" /\ (pc[e] \in Untraced <=> to \in Untraced)
    BY <1>4, <1>7
<1>8. CASE \/ ChargeUser(e) \/ ChargeFeature(e) \/ ChargeModel(e)
  <2>1. UNCHANGED <<tracesDaily, rows>> /\ pc'[e] # "traces" /\ (pc[e] \in Untraced <=> pc'[e] \in Untraced)
      BY <1>8, SetsOfEvents DEF ChargeUser, ChargeFeature, ChargeModel, Charge, Go, ControlType, Untraced
  <2> QED BY <1>2, <1>7, <2>1
<1>9. CASE Take(e) \/ Assess(e) \/ CountWarning(e) \/ SetFlag(e)
  <2>1. UNCHANGED <<tracesDaily, rows>> /\ pc'[e] # "traces" /\ (pc[e] \in Untraced <=> pc'[e] \in Untraced)
      BY <1>9, SetsOfEvents DEF Take, Assess, CountWarning, SetFlag, Go, ControlType, redis, Untraced
  <2> QED BY <1>2, <1>7, <2>1
<1>10. CASE PushWarning(e) \/ TrimWarnings(e) \/ PushAnomaly(e) \/ PushSpike(e) \/ TrimAlerts(e)
  <2>1. UNCHANGED <<tracesDaily, rows>> /\ pc'[e] # "traces" /\ (pc[e] \in Untraced <=> pc'[e] \in Untraced)
      BY <1>10, SetsOfEvents DEF PushWarning, TrimWarnings, PushAnomaly, PushSpike, TrimAlerts, Push, Trim,
                                 Go, ControlType, Untraced
  <2> QED BY <1>2, <1>7, <2>1
<1>11. CASE GetFeatureCost(e) \/ GetUserCost(e) \/ SetSpikeFired(e) \/ SetBudgetFired(e)
  <2>1. UNCHANGED <<tracesDaily, rows>> /\ pc'[e] # "traces" /\ (pc[e] \in Untraced <=> pc'[e] \in Untraced)
      BY <1>11, SetsOfEvents DEF GetFeatureCost, GetUserCost, Check, SetSpikeFired, SetBudgetFired,
                                 SetFired, Go, ControlType, redis, Untraced
  <2> QED BY <1>2, <1>7, <2>1
<1> QED BY <1>5, <1>6, <1>8, <1>9, <1>10, <1>11 DEF Process

\* Counting the warnings: each request is judged once, before it is counted.
LEMMA WarningsStep ==
    ASSUME IInv, IInv', DriftInv, NEW e \in Events, Process(e)
    PROVE  /\ \A f \in Events : pc'[f] = "count" => warn'[f]
           /\ Near(warnDaily, Counted \cap Alive, Counted)'
<1> DEFINE S == Counted \cap Alive
           P == Counted
<1>1. PICK to \in States \ {"queued", "lost"} : pc' = [pc EXCEPT ![e] = to]
    BY Moves
<1>2. /\ \A f \in Events : pc'[f] = IF f = e THEN to ELSE pc[f]
      /\ pc[e] # "lost" /\ Alive' = Alive
  <2>1. \A f \in Events : pc'[f] = IF f = e THEN to ELSE pc[f]
      BY <1>1, SetsOfEvents DEF ControlType
  <2>2. pc[e] # "lost"
      BY Moves DEF Take, Go, Working
  <2> QED BY <2>1, <2>2 DEF Alive
<1>3. /\ Near(warnDaily, S, P) /\ S \in SUBSET Events /\ P \in SUBSET Events
      /\ P' \in SUBSET Events /\ S' \in SUBSET Events
      /\ \A f \in Events : pc[f] = "count" => warn[f]
    BY SetsOfEvents DEF DriftInv, Alive
<1>4. ASSUME warnDaily' = warnDaily, \A f \in Events \ {e} : warn'[f] = warn[f], to = "count" => warn'[e],
             \/ warn'[e] = warn[e] /\ (pc[e] \in Uncounted <=> to \in Uncounted)
             \/ pc[e] \in Uncounted /\ (warn'[e] => to \in Uncounted)
      PROVE  /\ \A f \in Events : pc'[f] = "count" => warn'[f]
             /\ Near(warnDaily, Counted \cap Alive, Counted)'
  <2>1. P' = P /\ S' = S
    <3>1. \A f \in Events : f \in P' <=> f \in P
        BY <1>2, <1>4 DEF Counted
    <3> QED BY <1>2, <1>3, <3>1
  <2>2. Cardinality(S') <= warnDaily' + faults' /\ warnDaily' <= Cardinality(P') + faults'
    <3>1. S' \in SUBSET S /\ P \subseteq P' /\ warnDaily \in Nat /\ faults \in Nat
        BY <2>1, SetsOfEvents
    <3> HIDE DEF S, P
    <3> QED BY <1>3, <1>4, <3>1, Moves, NearKept
  <2>3. \A f \in Events : pc'[f] = "count" => warn'[f]
      BY <1>2, <1>3, <1>4
  <2> QED BY <2>2, <2>3 DEF Near
<1>5. CASE CountWarning(e)
  <2>1. /\ pc[e] = "count" /\ to = "push" /\ warn' = warn /\ Sent(warnDaily, warnDaily')
      BY <1>2, <1>5, SetsOfEvents DEF CountWarning, Go, ControlType
  <2>2. e \notin P /\ e \in P' /\ P \subseteq P' /\ S' \in SUBSET (S \cup {e})
      BY <1>2, <1>3, <2>1 DEF Counted, Uncounted
  <2>3. warnDaily \in Nat /\ warnDaily' \in Nat /\ faults \in Nat
      BY SetsOfEvents
  <2>4. \/ warnDaily' = warnDaily + 1 /\ faults' = faults
        \/ warnDaily' \in {warnDaily, warnDaily + 1} /\ faults' = faults + 1
        \/ warnDaily' = warnDaily + 2 /\ faults' = faults + 1
      BY <2>1, <2>3 DEF Sent, NoFault, RedisFault
  <2>5. Cardinality(S') <= warnDaily' + faults' /\ warnDaily' <= Cardinality(P') + faults'
    <3> HIDE DEF S, P
    <3> QED BY <1>3, <2>2, <2>3, <2>4, NearCounted
  <2>6. \A f \in Events : pc'[f] = "count" => warn'[f]
      BY <1>2, <1>3, <2>1
  <2> QED BY <2>5, <2>6 DEF Near
<1>6. CASE Assess(e)
  <2>1. UNCHANGED warnDaily /\ pc[e] = "assess"
      BY <1>6 DEF Assess, Go, redis
  <2>2. PICK b \in Warnings(e) : warn' = [warn EXCEPT ![e] = b]
      BY <1>6 DEF Assess
  <2>3. warn \in [Events -> BOOLEAN]
      BY TypeParts DEF IInv, VerdictType
  <2>4. warn'[e] = b /\ \A f \in Events \ {e} : warn'[f] = warn[f]
      BY <2>2, <2>3
  <2>5. to = IF e \notin Answered THEN "write" ELSE IF warn'[e] THEN "count" ELSE "flag"
      BY <1>2, <1>6, SetsOfEvents DEF Assess, Go, ControlType
  <2>6. e \notin Answered => ~warn'[e]
      BY <2>2, <2>4 DEF Warnings
  <2>7. (to = "count" => warn'[e]) /\ (warn'[e] => to \in Uncounted) /\ pc[e] \in Uncounted
      BY <2>1, <2>5, <2>6 DEF Uncounted
  <2> QED BY <1>4, <2>1, <2>4, <2>7
<1>7. CASE UNCHANGED <<warnDaily, warn>> /\ to # "count" /\ (pc[e] \in Uncounted <=> to \in Uncounted)
    BY <1>4, <1>7
<1>8. CASE ChargeUser(e) \/ ChargeFeature(e) \/ ChargeModel(e)
  <2>1. UNCHANGED <<warnDaily, warn>> /\ pc'[e] # "count" /\ (pc[e] \in Uncounted <=> pc'[e] \in Uncounted)
      BY <1>8, SetsOfEvents DEF ChargeUser, ChargeFeature, ChargeModel, Charge, Go, ControlType, Uncounted
  <2> QED BY <1>2, <1>7, <2>1
<1>9. CASE Take(e) \/ SetFlag(e) \/ Write(e) \/ CountTrace(e)
  <2>1. UNCHANGED <<warnDaily, warn>> /\ pc'[e] # "count" /\ (pc[e] \in Uncounted <=> pc'[e] \in Uncounted)
      BY <1>9, SetsOfEvents DEF Take, SetFlag, Write, Onward, CountTrace, Go, ControlType, redis, Uncounted
  <2> QED BY <1>2, <1>7, <2>1
<1>10. CASE \/ PushWarning(e) \/ TrimWarnings(e) \/ PushAnomaly(e) \/ TrimAnomalies(e)
            \/ PushSpike(e) \/ TrimAlerts(e)
  <2>1. UNCHANGED <<warnDaily, warn>> /\ pc'[e] # "count" /\ (pc[e] \in Uncounted <=> pc'[e] \in Uncounted)
      BY <1>10, SetsOfEvents DEF PushWarning, TrimWarnings, PushAnomaly, TrimAnomalies, PushSpike,
                                 TrimAlerts, Onward, Push, Trim, Go, ControlType, Uncounted
  <2> QED BY <1>2, <1>7, <2>1
<1>11. CASE GetFeatureCost(e) \/ GetUserCost(e) \/ SetSpikeFired(e) \/ SetBudgetFired(e)
  <2>1. UNCHANGED <<warnDaily, warn>> /\ pc'[e] # "count" /\ (pc[e] \in Uncounted <=> pc'[e] \in Uncounted)
      BY <1>11, SetsOfEvents DEF GetFeatureCost, GetUserCost, Check, SetSpikeFired, SetBudgetFired,
                                 SetFired, Go, ControlType, redis, Uncounted
  <2> QED BY <1>2, <1>7, <2>1
<1> QED BY <1>5, <1>6, <1>8, <1>9, <1>10, <1>11 DEF Process

\* A crash: whoever is lost may have been counted anywhere, or nowhere.
LEMMA DriftCrash ==
    ASSUME IInv, IInv', DriftInv, Crash
    PROVE  DriftInv'
<1>1. /\ UNCHANGED <<warn, cost, tracesDaily, warnDaily, rows>>
      /\ \A f \in Events : pc'[f] \in {pc[f], "lost"}
      /\ faults' \in {faults, faults + 1}
    BY DEF Crash, redis
<1>2. \A f \in Events : (pc'[f] = "traces" => f \in rows') /\ (pc'[f] = "count" => warn'[f])
    BY <1>1 DEF DriftInv
<1>3. ASSUME NEW S \in SUBSET Events, NEW P \in SUBSET Events,
             NEW SNext \in SUBSET S, NEW PNext \in SUBSET Events, P \subseteq PNext,
             NEW n \in Nat, Near(n, S, P)
      PROVE  Cardinality(SNext) <= n + faults' /\ n <= Cardinality(PNext) + faults'
    BY <1>1, <1>3, SetsOfEvents, NearKept
<1>4. ASSUME NEW c \in Counters
      PROVE  Near(cost[c], Paid(c) \cap Alive, Paid(c))'
  <2>1. /\ Paid(c) \cap Alive \in SUBSET Events /\ Paid(c) \in SUBSET Events
        /\ Paid(c)' \in SUBSET Events /\ cost[c] \in Nat /\ cost'[c] = cost[c]
      BY <1>1, SetsOfEvents
  <2>2. (Paid(c) \cap Alive)' \in SUBSET (Paid(c) \cap Alive) /\ Paid(c) \subseteq Paid(c)'
    <3>1. Payers(c)' = Payers(c) /\ Payers(c) \in SUBSET Events /\ "lost" \notin Uncharged[c]
        BY PipelineAssumption DEF PipelineAssumption, Payers, Uncharged, Counters
    <3> QED BY <1>1, <3>1 DEF Paid, Alive
  <2>3. Near(cost[c], Paid(c) \cap Alive, Paid(c))
      BY DEF DriftInv
  <2>4. /\ Cardinality((Paid(c) \cap Alive)') <= cost[c] + faults'
        /\ cost[c] <= Cardinality(Paid(c)') + faults'
      BY <1>3, <2>1, <2>2, <2>3
  <2> QED BY <2>1, <2>4 DEF Near
<1>5. Near(tracesDaily, Traced \cap Alive, Traced)'
  <2>1. /\ Traced \cap Alive \in SUBSET Events /\ Traced \in SUBSET Events
        /\ Traced' \in SUBSET Events /\ tracesDaily \in Nat /\ tracesDaily' = tracesDaily
      BY <1>1, SetsOfEvents
  <2>2. (Traced \cap Alive)' \in SUBSET (Traced \cap Alive) /\ Traced \subseteq Traced'
      BY <1>1, <2>1 DEF Traced, Alive, Untraced
  <2>3. Near(tracesDaily, Traced \cap Alive, Traced)
      BY DEF DriftInv
  <2>4. /\ Cardinality((Traced \cap Alive)') <= tracesDaily + faults'
        /\ tracesDaily <= Cardinality(Traced') + faults'
      BY <1>3, <2>1, <2>2, <2>3
  <2> QED BY <2>1, <2>4 DEF Near
<1>6. Near(warnDaily, Counted \cap Alive, Counted)'
  <2>1. /\ Counted \cap Alive \in SUBSET Events /\ Counted \in SUBSET Events
        /\ Counted' \in SUBSET Events /\ warnDaily \in Nat /\ warnDaily' = warnDaily
      BY <1>1, SetsOfEvents
  <2>2. (Counted \cap Alive)' \in SUBSET (Counted \cap Alive) /\ Counted \subseteq Counted'
      BY <1>1, <2>1 DEF Counted, Alive, Uncounted
  <2>3. Near(warnDaily, Counted \cap Alive, Counted)
      BY DEF DriftInv
  <2>4. /\ Cardinality((Counted \cap Alive)') <= warnDaily + faults'
        /\ warnDaily <= Cardinality(Counted') + faults'
      BY <1>3, <2>1, <2>2, <2>3
  <2> QED BY <2>1, <2>4 DEF Near
<1> QED BY <1>2, <1>4, <1>5, <1>6 DEF DriftInv

LEMMA DriftStep == IInv /\ DriftInv /\ [Next]_vars => DriftInv'
<1> SUFFICES ASSUME IInv, DriftInv, [Next]_vars PROVE DriftInv'
    OBVIOUS
<1>1. IInv'
    BY NextIInv
<1>2. CASE UNCHANGED vars
    BY <1>2 DEF vars, redis, DriftInv, Near, Paid, Payers, Traced, Counted, Alive
<1>3. CASE Crash
    BY <1>1, <1>3, DriftCrash
<1>4. ASSUME NEW e \in Events, Process(e)
      PROVE  DriftInv'
    BY <1>1, <1>4, CostsStep, TracesStep, WarningsStep DEF DriftInv
<1> QED BY <1>2, <1>3, <1>4 DEF Next

LEMMA DriftInit == Init => DriftInv
<1> SUFFICES ASSUME Init PROVE DriftInv
    OBVIOUS
<1>1. Cardinality({}) = 0 /\ faults = 0
    BY FS_EmptySet DEF Init
<1>2. \A c \in Counters : Paid(c) = {} /\ cost[c] = 0
    BY PipelineAssumption DEF PipelineAssumption, Init, Paid, Payers, Uncharged, Counters
<1>3. Traced = {} /\ Counted = {} /\ tracesDaily = 0 /\ warnDaily = 0
    BY DEF Init, Traced, Counted
<1>4. \A S : Near(0, {} \cap S, {})
  <2>1. \A S : {} \cap S = {}
      OBVIOUS
  <2> QED BY <1>1, <2>1 DEF Near
<1>5. \A e \in Events : pc[e] = "queued"
    BY DEF Init
<1> QED BY <1>2, <1>3, <1>4, <1>5 DEF DriftInv

\* A request that has been dealt with is counted once in each of the day's
\* figures (engine.go publishCost, main.go processFn), and one that has not at most
\* once, up to the failed commands and crashes: so the costs by user, feature and
\* model agree, and the counted traces with the rows of ClickHouse.
THEOREM DriftIsBounded == Spec => []DriftBounded
<1>1. ASSUME IInv, DriftInv
      PROVE  DriftBounded
  <2> DEFINE Done == {e \in Events : pc[e] = "done"}
  <2>1. ASSUME NEW S \in SUBSET Events, NEW P \in SUBSET Events, NEW n \in Nat, Near(n, S, P),
               NEW lo \in SUBSET S, NEW hi \in SUBSET Events, P \subseteq hi
        PROVE  Within(n, Cardinality(lo) - faults, Cardinality(hi) + faults)
    <3>1. lo \in SUBSET Events /\ P \in SUBSET hi
        BY <2>1
    <3>2. Cardinality(lo) <= Cardinality(S) /\ Cardinality(P) <= Cardinality(hi)
        BY <2>1, <3>1, FewerEvents
    <3>3. /\ Cardinality(lo) \in Nat /\ Cardinality(S) \in Nat /\ Cardinality(P) \in Nat
          /\ Cardinality(hi) \in Nat /\ faults \in Nat
        BY <1>1, <2>1, <3>1, FiniteEvents, TypeParts DEF IInv, FaultType
    <3> QED BY <2>1, <3>2, <3>3 DEF Near, Within
  <2>2. /\ \A c \in Counters : cost[c] \in Nat
        /\ tracesDaily \in Nat /\ warnDaily \in Nat /\ rows \in SUBSET Events
      BY <1>1, TypeParts DEF IInv, CounterType, StoreType
  <2>3. ASSUME NEW c \in Counters
        PROVE  Within(cost[c], Cardinality(Payers(c) \cap Done) - faults, Cardinality(Payers(c)) + faults)
    <3>1. Payers(c) \in SUBSET Events
        BY PipelineAssumption DEF PipelineAssumption, Payers
    <3>2. Payers(c) \cap Done \in SUBSET (Paid(c) \cap Alive) /\ Paid(c) \subseteq Payers(c)
        BY <3>1 DEF Paid, Alive, Uncharged, Counters
    <3>3. Near(cost[c], Paid(c) \cap Alive, Paid(c)) /\ Paid(c) \cap Alive \in SUBSET Events
          /\ Paid(c) \in SUBSET Events
        BY <1>1, <3>1, <3>2 DEF DriftInv
    <3> HIDE DEF Done
    <3> QED BY <2>1, <2>2, <3>1, <3>2, <3>3
  <2>4. Within(tracesDaily, Cardinality(rows \cap Done) - faults, Cardinality(rows) + faults)
    <3>1. rows \cap Done \in SUBSET (Traced \cap Alive) /\ Traced \subseteq rows
        BY <2>2 DEF Traced, Alive, Untraced
    <3>2. /\ Near(tracesDaily, Traced \cap Alive, Traced)
          /\ Traced \cap Alive \in SUBSET Events /\ Traced \in SUBSET Events
        BY <1>1, <2>2, <3>1 DEF DriftInv
    <3> HIDE DEF Done
    <3> QED BY <2>1, <2>2, <3>1, <3>2
  <2>5. Within(warnDaily, Cardinality({e \in Events : warn[e]} \cap Done) - faults,
               Cardinality({e \in Events : warn[e]}) + faults)
    <3> DEFINE warned == {e \in Events : warn[e]}
    <3>1. warned \cap Done \in SUBSET (Counted \cap Alive) /\ Counted \subseteq warned
        BY DEF Counted, Alive, Uncounted
    <3>2. /\ Near(warnDaily, Counted \cap Alive, Counted) /\ warned \in SUBSET Events
          /\ Counted \cap Alive \in SUBSET Events /\ Counted \in SUBSET Events
        BY <1>1 DEF DriftInv, Counted
    <3> HIDE DEF Done, warned
    <3>3. Within(warnDaily, Cardinality(warned \cap Done) - faults, Cardinality(warned) + faults)
        BY <2>1, <2>2, <3>1, <3>2
    <3> QED BY <3>3 DEF warned
  <2>6. /\ Payers("user") = Events /\ Payers("model") = Events /\ Payers("feature") = Featured
        /\ {"user", "model", "feature"} \subseteq Counters
      BY DEF Payers, Counters
  <2>7. /\ Within(cost["user"], Cardinality(Events \cap Done) - faults, Cardinality(Events) + faults)
        /\ Within(cost["model"], Cardinality(Events \cap Done) - faults, Cardinality(Events) + faults)
        /\ Within(cost["feature"], Cardinality(Featured \cap Done) - faults, Cardinality(Featured) + faults)
    <3> HIDE DEF Done
    <3> QED BY <2>3, <2>6
  <2> QED BY <2>4, <2>5, <2>7 DEF DriftBounded
<1> QED BY Invariance, DriftInit, DriftStep, <1>1, PTL DEF Spec

-----------------------------------------------------------------------------
(* The alerts that are due.                                                *)

\* Who will still compare the user's cost, or the feature's, with its limit.
ToBudget == Working \ {"user"}
ToSpike  == {"model", "assess", "count", "push", "trim", "flag", "write", "oddPush", "oddTrim",
             "traces", "spikeGet", "spikeSet"}

CrossInv ==
    redisOK /\ ~crashed =>
        /\ \A e \in Events : pc[e] # "lost"
        /\ cost["user"] > Budget => fired["budget"] \/ \E e \in Events : pc[e] \in ToBudget
        /\ fired["budget"] => raised["budget"] = 1
        /\ fired["spike"] => raised["spike"] = 1 \/ \E e \in Events : pc[e] = "spikePush"
        /\ writesOK =>
              /\ \A e \in Events : pc[e] \in {"oddPush", "oddTrim"} => e \in rows
              /\ cost["feature"] > Threshold =>
                    fired["spike"] \/ \E e \in Featured : pc[e] \in ToSpike

\* What a step must see to for no limit to be missed: who exceeds a limit will
\* compare it, who compares it fires the alert, and who fires it raises it.
LEMMA CrossKept ==
    ASSUME IInv, CrossInv, redisOK, ~crashed,
           NEW e \in Events, NEW to \in States \ {"lost"}, pc' = [pc EXCEPT ![e] = to],
           fired["budget"] => fired'["budget"],
           cost'["user"] > Budget => cost["user"] > Budget \/ to \in ToBudget,
           pc[e] \in ToBudget => to \in ToBudget \/ fired'["budget"] \/ ~(cost'["user"] > Budget),
           fired'["budget"] => raised'["budget"] = 1,
           fired["spike"] => fired'["spike"],
           fired'["spike"] => fired["spike"] \/ to = "spikePush",
           raised["spike"] = 1 \/ pc[e] = "spikePush" => raised'["spike"] = 1,
           writesOK' => writesOK,
           rows \subseteq rows',
           writesOK /\ writesOK' /\ to \in {"oddPush", "oddTrim"} => e \in rows',
           writesOK /\ writesOK' /\ cost'["feature"] > Threshold =>
               cost["feature"] > Threshold \/ (e \in Featured /\ to \in ToSpike),
           writesOK /\ writesOK' /\ e \in Featured /\ pc[e] \in ToSpike =>
               to \in ToSpike \/ fired'["spike"] \/ ~(cost'["feature"] > Threshold)
    PROVE  CrossInv'
<1>1. \A f \in Events : pc'[f] = IF f = e THEN to ELSE pc[f]
    BY TypeParts DEF IInv, ControlType
<1>2. \A f \in Events : pc'[f] # "lost"
    BY <1>1 DEF CrossInv
<1>3. cost'["user"] > Budget => fired'["budget"] \/ \E f \in Events : pc'[f] \in ToBudget
    BY <1>1 DEF CrossInv
<1>4. fired'["spike"] => raised'["spike"] = 1 \/ \E f \in Events : pc'[f] = "spikePush"
    BY <1>1 DEF CrossInv
<1>5. writesOK' => \A f \in Events : pc'[f] \in {"oddPush", "oddTrim"} => f \in rows'
    BY <1>1 DEF CrossInv
<1>6. writesOK' /\ cost'["feature"] > Threshold =>
          fired'["spike"] \/ \E f \in Featured : pc'[f] \in ToSpike
  <2>1. Featured \in SUBSET Events
      BY PipelineAssumption DEF PipelineAssumption
  <2> QED BY <1>1, <2>1 DEF CrossInv
<1> QED BY <1>2, <1>3, <1>4, <1>5, <1>6 DEF CrossInv

\* The steps that neither charge nor alert.
LEMMA CrossIdle ==
    ASSUME IInv, CrossInv, redisOK, ~crashed,
           NEW e \in Events, NEW to \in States \ {"lost"}, pc' = [pc EXCEPT ![e] = to],
           UNCHANGED <<cost, fired, raised>>, pc[e] # "spikePush",
           pc[e] \in ToBudget => to \in ToBudget,
           writesOK' => writesOK, rows \subseteq rows',
           writesOK /\ writesOK' /\ to \in {"oddPush", "oddTrim"} => e \in rows',
           writesOK /\ writesOK' /\ e \in Featured /\ pc[e] \in ToSpike => to \in ToSpike
    PROVE  CrossInv'
<1>1. fired["budget"] => raised["budget"] = 1
    BY DEF CrossInv
<1> QED BY <1>1, CrossKept

\* A step after which no command has failed has had no failed command.
LEMMA Unharmed ==
    ASSUME NoFault \/ RedisFault, redisOK', ~crashed'
    PROVE  NoFault /\ ~RedisFault /\ writesOK' = writesOK /\ redisOK /\ ~crashed
<1>1. ~RedisFault
    BY DEF RedisFault
<1>2. UNCHANGED hist
    BY <1>1 DEF NoFault
<1>3. redisOK' = redisOK /\ writesOK' = writesOK /\ crashed' = crashed
    BY <1>2 DEF hist
<1> QED BY <1>1, <1>3

\* As long as no command fails, each limit that is exceeded has somebody who has
\* seen to its alert or will.
LEMMA CrossStep == IInv /\ CrossInv /\ [Next]_vars => CrossInv'
<1> SUFFICES ASSUME IInv, CrossInv, [Next]_vars PROVE CrossInv'
    OBVIOUS
<1> USE TypeParts DEF IInv
<1>1. CASE UNCHANGED vars
    BY <1>1 DEF vars, redis, hist, CrossInv
<1>2. CASE Crash
    BY <1>2 DEF Crash, CrossInv
<1>3. ASSUME NEW e \in Events, Process(e), redisOK', ~crashed'
      PROVE  CrossInv'
  <2>1. PICK to \in States \ {"queued", "lost"} : pc' = [pc EXCEPT ![e] = to]
      BY <1>3, Moves
  <2>2. pc'[e] = to /\ \A x : pc' = [pc EXCEPT ![e] = x] => to = x
      BY <2>1 DEF ControlType
  <2>3. CASE ChargeUser(e) \/ ChargeFeature(e) \/ ChargeModel(e)
    <3>1. PICK c \in Counters, next \in {"feature", "model", "assess"} :
              /\ Charge(e, c, next)
              /\ \/ c = "user" /\ next = "feature"
                 \/ c = "feature" /\ next = "model"
                 \/ c = "model" /\ next = "assess"
        BY <2>3 DEF ChargeUser, ChargeFeature, ChargeModel, Counters
    <3> DEFINE key == IF c = "feature" /\ e \notin Featured THEN {} ELSE {c}
    <3>2. /\ cost' = [k \in Counters |-> IF k \in key THEN cost[k] + 1 ELSE cost[k]]
          /\ pc[e] = c /\ to = next /\ UNCHANGED hist
        BY <1>3, <2>2, <3>1 DEF Charge, Go, NoFault, RedisFault
    <3>3. UNCHANGED <<rows, fired, raised>> /\ redisOK /\ ~crashed /\ writesOK' = writesOK
        BY <1>3, <3>1, <3>2 DEF Charge, hist
    <3>4. /\ c # "user" => cost'["user"] = cost["user"]
          /\ (c # "feature" \/ e \notin Featured) => cost'["feature"] = cost["feature"]
        BY <3>2 DEF Counters
    <3>5. fired["budget"] => raised["budget"] = 1
        BY <3>3 DEF CrossInv
    <3> QED BY <2>1, <3>1, <3>2, <3>3, <3>4, <3>5, CrossKept DEF ToBudget, ToSpike, Working
  <2>4. CASE Take(e) \/ Assess(e) \/ CountWarning(e) \/ SetFlag(e) \/ CountTrace(e)
    <3>1. /\ UNCHANGED <<cost, fired, raised, rows, writesOK>> /\ redisOK /\ ~crashed
          /\ pc[e] # "spikePush"
      <4>1. UNCHANGED <<cost, fired, raised, rows>> /\ pc[e] # "spikePush"
          BY <2>4 DEF Take, Assess, CountWarning, SetFlag, CountTrace, Go, redis
      <4>2. NoFault \/ RedisFault
          BY <2>4 DEF Take, Assess, CountWarning, SetFlag, CountTrace, Sent, NoFault
      <4> QED BY <1>3, <4>1, <4>2, Unharmed
    <3>2. /\ to \notin {"oddPush", "oddTrim"}
          /\ pc[e] \in ToBudget => to \in ToBudget
          /\ e \in Featured /\ pc[e] \in ToSpike => to \in ToSpike
        BY <2>2, <2>4 DEF Take, Assess, CountWarning, SetFlag, CountTrace, Go, ToBudget, ToSpike, Working
    <3> QED BY <2>1, <3>1, <3>2, CrossIdle
  <2>5. CASE PushWarning(e) \/ TrimWarnings(e) \/ TrimAlerts(e)
    <3>1. /\ UNCHANGED <<cost, fired, raised, rows, writesOK>> /\ redisOK /\ ~crashed
          /\ pc[e] # "spikePush"
      <4>1. /\ UNCHANGED <<cost, fired, raised, rows>> /\ pc[e] # "spikePush"
            /\ NoFault \/ RedisFault
          BY <2>5 DEF PushWarning, TrimWarnings, TrimAlerts, Push, Trim, Go
      <4> QED BY <1>3, <4>1, Unharmed
    <3>2. /\ to \notin {"oddPush", "oddTrim"}
          /\ pc[e] \in ToBudget => to \in ToBudget
          /\ e \in Featured /\ pc[e] \in ToSpike => to \in ToSpike
        BY <2>2, <2>5 DEF PushWarning, TrimWarnings, TrimAlerts, Push, Trim, Go, ToBudget, ToSpike, Working
    <3> QED BY <2>1, <3>1, <3>2, CrossIdle
  <2>6. CASE Write(e)
    <3>1. /\ UNCHANGED <<cost, fired, raised>> /\ redisOK /\ ~crashed
          /\ pc[e] = "write" /\ to = Onward(e)
      <4>1. redisOK' = redisOK /\ crashed' = crashed
          BY <2>6 DEF Write, NoFault, hist
      <4> QED BY <1>3, <2>2, <2>6, <4>1 DEF Write, Go, redis
    <3>2. (writesOK' => writesOK /\ e \in rows') /\ rows \subseteq rows'
      <4>1. CASE NoFault /\ rows' = rows \cup {e}
        <5>1. writesOK' = writesOK
            BY <4>1 DEF NoFault, hist
        <5> QED BY <4>1, <5>1
      <4>2. CASE writesOK' = FALSE /\ rows' = rows
          BY <4>2
      <4> QED BY <2>6, <4>1, <4>2 DEF Write
    <3>3. to \in ToBudget /\ (e \in rows' => to \in ToSpike)
        BY <3>1 DEF Onward, ToBudget, ToSpike, Working
    <3> QED BY <2>1, <3>1, <3>2, <3>3, CrossIdle
  <2>7. CASE PushAnomaly(e) \/ TrimAnomalies(e)
    <3>1. /\ UNCHANGED <<cost, fired, raised, rows, writesOK>> /\ redisOK /\ ~crashed
          /\ pc[e] \in {"oddPush", "oddTrim"} /\ to \in {"oddTrim", Onward(e)}
      <4>1. /\ UNCHANGED <<cost, fired, raised, rows>> /\ (NoFault \/ RedisFault)
            /\ pc[e] \in {"oddPush", "oddTrim"} /\ to \in {"oddTrim", Onward(e)}
          BY <2>2, <2>7 DEF PushAnomaly, TrimAnomalies, Push, Trim, Go
      <4> QED BY <1>3, <4>1, Unharmed
    <3>2. writesOK => e \in rows'
        BY <3>1 DEF CrossInv
    <3>3. to \in ToBudget /\ (e \in rows' => to \in ToSpike)
        BY <3>1 DEF Onward, ToBudget, ToSpike, Working
    <3> QED BY <2>1, <3>1, <3>2, <3>3, CrossIdle
  <2>8. CASE GetFeatureCost(e) \/ GetUserCost(e)
    <3>1. UNCHANGED <<cost, fired, raised, rows, writesOK>> /\ redisOK /\ ~crashed /\ ~RedisFault
      <4>1. UNCHANGED <<cost, fired, raised, rows>> /\ (NoFault \/ RedisFault)
          BY <2>8 DEF GetFeatureCost, GetUserCost, Check, redis
      <4> QED BY <1>3, <4>1, Unharmed
    <3>2. \/ pc[e] = "spikeGet" /\ to = "spikeSet"
          \/ pc[e] = "spikeGet" /\ to = "budgetGet" /\ ~(cost["feature"] > Threshold)
          \/ pc[e] = "budgetGet" /\ to = "budgetSet"
          \/ pc[e] = "budgetGet" /\ to = "done" /\ ~(cost["user"] > Budget)
      <4>1. /\ cost["feature"] \in Nat /\ cost["user"] \in Nat
            /\ Threshold \in Nat /\ Budget \in Nat
          BY PipelineAssumption DEF PipelineAssumption, CounterType, Counters
      <4> QED BY <2>2, <2>8, <3>1, <4>1 DEF GetFeatureCost, GetUserCost, Check, Go
    <3>3. fired["budget"] => raised["budget"] = 1
        BY <3>1 DEF CrossInv
    <3> QED BY <2>1, <3>1, <3>2, <3>3, CrossKept DEF ToBudget, ToSpike, Working
  <2>9. CASE SetSpikeFired(e)
    <3>1. /\ UNCHANGED <<cost, raised, rows, writesOK>> /\ redisOK /\ ~crashed /\ ~RedisFault
          /\ pc[e] = "spikeSet"
      <4>1. UNCHANGED <<cost, raised, rows>> /\ pc[e] = "spikeSet" /\ (NoFault \/ RedisFault)
          BY <2>9 DEF SetSpikeFired, SetFired, Go
      <4> QED BY <1>3, <4>1, Unharmed
    <3>2. \/ to = "spikePush" /\ fired' = [fired EXCEPT !["spike"] = TRUE]
          \/ to = "budgetGet" /\ fired["spike"] /\ fired' = fired
        BY <2>2, <2>9, <3>1 DEF SetSpikeFired, SetFired, Go
    <3>3. fired'["spike"] /\ fired'["budget"] = fired["budget"]
        BY <3>2 DEF AlertType, Limits
    <3>4. fired["budget"] => raised["budget"] = 1
        BY <3>1 DEF CrossInv
    <3> QED BY <2>1, <3>1, <3>2, <3>3, <3>4, CrossKept DEF ToBudget, ToSpike, Working
  <2>10. CASE PushSpike(e)
    <3>1. /\ UNCHANGED <<cost, fired, rows, writesOK>> /\ redisOK /\ ~crashed
          /\ pc[e] = "spikePush" /\ to = "spikeTrim"
      <4>1. /\ UNCHANGED <<cost, fired, rows>> /\ (NoFault \/ RedisFault)
            /\ pc[e] = "spikePush" /\ to = "spikeTrim"
          BY <2>2, <2>10 DEF PushSpike, Push, Go
      <4> QED BY <1>3, <4>1, Unharmed
    <3>2. raised'["spike"] = 1 /\ raised'["budget"] = raised["budget"]
        BY <2>10, RaiseStep DEF PushSpike, AlertType, Limits
    <3>3. fired["budget"] => raised["budget"] = 1
        BY <3>1 DEF CrossInv
    <3> QED BY <2>1, <3>1, <3>2, <3>3, CrossKept DEF ToBudget, ToSpike, Working
  <2>11. CASE SetBudgetFired(e)
    <3>1. /\ UNCHANGED <<cost, rows, writesOK>> /\ redisOK /\ ~crashed /\ faults' = faults
          /\ ~RedisFault /\ pc[e] = "budgetSet" /\ to = "done"
      <4>1. /\ UNCHANGED <<cost, rows>> /\ (NoFault \/ RedisFault)
            /\ pc[e] = "budgetSet" /\ to = "done"
          BY <2>2, <2>11 DEF SetBudgetFired, SetFired, Go
      <4>2. NoFault => faults' = faults
          BY DEF NoFault
      <4> QED BY <1>3, <4>1, <4>2, Unharmed
    <3>2. \/ ~fired["budget"] /\ fired' = [fired EXCEPT !["budget"] = TRUE]
          \/ fired["budget"] /\ fired' = fired
        BY <2>11, <3>1 DEF SetBudgetFired, SetFired
    <3>3. fired'["budget"] /\ fired'["spike"] = fired["spike"]
        BY <3>2 DEF AlertType, Limits
    <3>4. raised' = [raised EXCEPT !["budget"] = IF fired'["budget"] /\ ~fired["budget"] THEN @ + 1 ELSE @]
        BY <2>11, <3>1 DEF SetBudgetFired
    <3>5. raised'["spike"] = raised["spike"]
        BY <3>4 DEF AlertType, Limits
    <3>6. raised'["budget"] = 1
      <4>1. CASE fired["budget"]
        <5>1. raised["budget"] = 1
            BY <3>1, <4>1 DEF CrossInv
        <5> QED BY <3>4, <4>1, <5>1 DEF AlertType, Limits
      <4>2. CASE ~fired["budget"]
        <5>1. raised["budget"] \in Nat /\ raised["budget"] <= 1 /\ raised["budget"] # 1
            BY <4>2 DEF FiredInv, AlertType, Limits
        <5>2. raised["budget"] = 0
            BY <5>1
        <5> QED BY <3>3, <3>4, <4>2, <5>2 DEF AlertType, Limits
      <4> QED BY <4>1, <4>2
    <3> QED BY <2>1, <3>1, <3>3, <3>5, <3>6, CrossKept DEF ToBudget, ToSpike, Working
  <2> QED BY <1>3, <2>3, <2>4, <2>5, <2>6, <2>7, <2>8, <2>9, <2>10, <2>11 DEF Process
<1> QED BY <1>1, <1>2, <1>3 DEF Next, CrossInv

LEMMA CrossInit == Init => CrossInv
<1> SUFFICES ASSUME Init PROVE CrossInv
    OBVIOUS
<1>1. \A e \in Events : pc[e] = "queued"
    BY DEF Init
<1>2. ~(cost["user"] > Budget) /\ ~(cost["feature"] > Threshold)
    BY PipelineAssumption DEF PipelineAssumption, Init, Counters
<1>3. ~fired["budget"] /\ ~fired["spike"]
    BY DEF Init, Limits
<1> QED BY <1>1, <1>2, <1>3 DEF CrossInv

\* However the workers' commands interleave, a limit that was exceeded has had its
\* alert when nothing is under way any more (engine.go, checkCostSpike and
\* checkBudget), unless Redis has failed or the gateway has crashed; a failed write
\* of a trace costs the check of the feature, never that of the budget.
THEOREM CrossingsAreAlerted == Spec => []CrossingAlerted
<1>1. ASSUME IInv, CrossInv
      PROVE  CrossingAlerted
  <2> SUFFICES ASSUME AtRest, redisOK, ~crashed
               PROVE  /\ cost["user"] > Budget => raised["budget"] = 1
                      /\ writesOK /\ cost["feature"] > Threshold => raised["spike"] = 1
      BY DEF CrossingAlerted
  <2>1. \A e \in Events : pc[e] \notin ToBudget /\ pc[e] \notin ToSpike /\ pc[e] # "spikePush"
      BY DEF AtRest, ToBudget, ToSpike, Working
  <2>2. Featured \in SUBSET Events
      BY PipelineAssumption DEF PipelineAssumption
  <2> QED BY <1>1, <2>1, <2>2 DEF CrossInv
<1> QED BY Invariance, CrossInit, CrossStep, <1>1, PTL DEF Spec

-----------------------------------------------------------------------------
(* The verifier's similarity is the edit distance, for all texts.  The        *)
(* proofs go by induction on numbers, or on the lengths of two texts          *)
(* together: there is no least number at which a claim fails.                 *)

\* Numbers are well founded: a set of them has a least one.
LEMMA LeastNumber ==
    ASSUME NEW T \in SUBSET Nat, T # {}
    PROVE  \E x \in T : \A y \in T : x <= y
<1> DEFINE R == OpToRel(<, Nat)
<1>1. IsWellFoundedOn(R, Nat)
    BY NatLessThanWellFounded
<1>2. \A x, y \in Nat : <<y, x>> \in R <=> y < x
    BY DEF OpToRel
<1> HIDE DEF R
<1>3. \E x \in T : \A y \in T : ~ (<<y, x>> \in R)
    BY <1>1, WFMin
<1>4. PICK x \in T : \A y \in T : ~ (<<y, x>> \in R)
    BY <1>3
<1>5. \A y \in T : x <= y
  <2> SUFFICES ASSUME NEW y \in T PROVE x <= y
      OBVIOUS
  <2>1. x \in Nat /\ y \in Nat /\ ~ (y < x)
      BY <1>2, <1>4
  <2> QED BY <2>1
<1> QED BY <1>5

\* Induction, for a set.
LEMMA NumbersInduction ==
    ASSUME NEW S, 0 \in S, \A n \in Nat : n \in S => n + 1 \in S
    PROVE  Nat \subseteq S
<1> DEFINE T == Nat \ S
<1> SUFFICES ASSUME T # {} PROVE FALSE
    OBVIOUS
<1>1. T \in SUBSET Nat
    OBVIOUS
<1>2. PICK x \in T : \A y \in T : x <= y
  <2> HIDE DEF T
  <2> QED BY <1>1, LeastNumber
<1>3. x # 0 /\ x - 1 \in Nat /\ (x - 1) + 1 = x /\ ~(x <= x - 1)
    BY <1>1
<1>4. x - 1 \in S
    BY <1>2, <1>3
<1> QED BY <1>3, <1>4

LEMMA LengthsAreNumbers == \A s \in Seq(Runes) : Len(s) \in Nat
OBVIOUS

\* Induction on the lengths of two sequences.
LEMMA SequencesInduction ==
    ASSUME NEW S,
           \A a, b \in Seq(Runes) :
              (\A c, e \in Seq(Runes) : Len(c) + Len(e) < Len(a) + Len(b) => <<c, e>> \in S) => <<a, b>> \in S
    PROVE  \A a, b \in Seq(Runes) : <<a, b>> \in S
<1> DEFINE Bad == {n \in Nat : \E a, b \in Seq(Runes) : Len(a) + Len(b) = n /\ <<a, b>> \notin S}
<1> SUFFICES ASSUME NEW a \in Seq(Runes), NEW b \in Seq(Runes), <<a, b>> \notin S PROVE FALSE
    OBVIOUS
<1>1. Bad \in SUBSET Nat /\ Bad # {}
  <2>1. Len(a) + Len(b) \in Nat
      OBVIOUS
  <2> QED BY <2>1
<1>2. PICK n \in Bad : \A m \in Bad : n <= m
  <2> HIDE DEF Bad
  <2> QED BY <1>1, LeastNumber
<1>3. PICK c, e \in Seq(Runes) : Len(c) + Len(e) = n /\ <<c, e>> \notin S
    BY <1>2
<1>4. PICK f, g \in Seq(Runes) : Len(f) + Len(g) < Len(c) + Len(e) /\ <<f, g>> \notin S
    BY <1>3
<1>5. Len(f) \in Nat /\ Len(g) \in Nat /\ n \in Nat
  <2>1. n \in Nat
      BY <1>1
  <2>2. Len(f) \in Nat /\ Len(g) \in Nat
    <3> HIDE DEF Bad
    <3> QED BY LengthsAreNumbers
  <2> QED BY <2>1, <2>2
<1>6. Len(f) + Len(g) \in Nat
    BY <1>5
<1>7. Len(f) + Len(g) \in Bad
    BY <1>4, <1>6
<1>8. n <= Len(f) + Len(g)
    BY <1>2, <1>7
<1>9. Len(f) + Len(g) < n
    BY <1>3, <1>4
<1> QED BY <1>5, <1>6, <1>8, <1>9

\* A function of the numbers up to m is given by its first value and its steps.
StepsOn(S) == [Nat \X S -> S]
Unfolds(f, S, x, G, m) ==
    f \in [0..m -> S] /\ f[0] = x /\ \A n \in 1..m : f[n] = G[<<n - 1, f[n - 1]>>]

LEMMA Recursion ==
    ASSUME NEW S, NEW x \in S, NEW G \in StepsOn(S), NEW m \in Nat
    PROVE  \E f : Unfolds(f, S, x, G, m)
<1> DEFINE T == {k \in Nat : \E f : Unfolds(f, S, x, G, k)}
<1>1. 0 \in T
  <2>1. [i \in 0..0 |-> x] \in [0..0 -> S] /\ [i \in 0..0 |-> x][0] = x /\ 1..0 = {}
      OBVIOUS
  <2> QED BY <2>1 DEF Unfolds
<1>2. ASSUME NEW k \in Nat, k \in T
      PROVE  k + 1 \in T
  <2>1. PICK f : Unfolds(f, S, x, G, k)
      BY <1>2
  <2> DEFINE g == [i \in 0..(k + 1) |-> IF i \in 0..k THEN f[i] ELSE G[<<k, f[k]>>]]
  <2>2. f[k] \in S /\ G[<<k, f[k]>>] \in S
      BY <2>1 DEF Unfolds, StepsOn
  <2>3. g \in [0..(k + 1) -> S]
      BY <2>1, <2>2 DEF Unfolds
  <2>4. g[0] = x /\ (\A n \in 0..k : g[n] = f[n]) /\ g[k + 1] = G[<<k, f[k]>>]
      BY <2>1 DEF Unfolds
  <2> HIDE DEF g
  <2>5. ASSUME NEW n \in 1..(k + 1)
        PROVE  g[n] = G[<<n - 1, g[n - 1]>>]
    <3>1. CASE n \in 1..k
      <4>1. n \in 0..k /\ n - 1 \in 0..k
          BY <3>1
      <4> QED BY <2>1, <2>4, <3>1, <4>1 DEF Unfolds
    <3>2. CASE n = k + 1
      <4>1. n - 1 = k /\ k \in 0..k
          BY <3>2
      <4> QED BY <2>4, <3>2, <4>1
    <3> QED BY <3>1, <3>2
  <2>6. Unfolds(g, S, x, G, k + 1)
      BY <2>3, <2>4, <2>5 DEF Unfolds
  <2>7. k + 1 \in Nat
      OBVIOUS
  <2> QED BY <2>6, <2>7
<1> HIDE DEF T
<1>3. Nat \subseteq T
    BY <1>1, <1>2, NumbersInduction
<1> QED BY <1>3 DEF T

LEMMA LeastOfThree ==
    ASSUME NEW x \in Int, NEW y \in Int, NEW z \in Int
    PROVE  /\ Least(x, y, z) \in {x, y, z}
           /\ Least(x, y, z) <= x /\ Least(x, y, z) <= y /\ Least(x, y, z) <= z
<1>1. \E m \in {x, y, z} : m <= x /\ m <= y /\ m <= z
    OBVIOUS
<1> QED BY <1>1 DEF Least

Rows(b) == [0..Len(b) -> Nat]

\* The rows of levenshteinDist are numbers, each from its neighbours.
LEMMA RowOf ==
    ASSUME NEW i \in Nat, NEW x, NEW b \in Seq(Runes), NEW above \in Rows(b)
    PROVE  /\ NextRow(i, x, b, above) \in Rows(b)
           /\ NextRow(i, x, b, above)[0] = i
           /\ \A j \in 1..Len(b) :
                 NextRow(i, x, b, above)[j]
                     = IF x = b[j] THEN above[j - 1]
                       ELSE 1 + Least(above[j - 1], above[j], NextRow(i, x, b, above)[j - 1])
<1> USE DEF Rows
<1> DEFINE Cell(row, j) == IF j = 0 THEN i
                           ELSE IF x = b[j] THEN above[j - 1]
                           ELSE 1 + Least(above[j - 1], above[j], row[j - 1])
           G == [c \in Nat \X Nat |->
                    IF c[1] + 1 \in 1..Len(b)
                    THEN IF x = b[c[1] + 1] THEN above[c[1]]
                         ELSE 1 + Least(above[c[1]], above[c[1] + 1], c[2])
                    ELSE 0]
           r == NextRow(i, x, b, above)
<1>0. Len(b) \in Nat
    OBVIOUS
<1>1. ASSUME NEW n \in Nat, NEW y \in Nat
      PROVE  /\ G[<<n, y>>] \in Nat
             /\ n + 1 \in 1..Len(b) =>
                   G[<<n, y>>] = IF x = b[n + 1] THEN above[n] ELSE 1 + Least(above[n], above[n + 1], y)
  <2>1. n + 1 \in 1..Len(b) => above[n] \in Nat /\ above[n + 1] \in Nat
      BY <1>0
  <2>2. n + 1 \in 1..Len(b) => Least(above[n], above[n + 1], y) \in Nat
    <3> SUFFICES ASSUME n + 1 \in 1..Len(b) PROVE Least(above[n], above[n + 1], y) \in Nat
        OBVIOUS
    <3>1. above[n] \in Int /\ above[n + 1] \in Int /\ y \in Int
        BY <2>1
    <3>2. Least(above[n], above[n + 1], y) \in {above[n], above[n + 1], y}
        BY <3>1, LeastOfThree
    <3> QED BY <2>1, <3>2
  <2>3. G[<<n, y>>] = IF n + 1 \in 1..Len(b)
                      THEN IF x = b[n + 1] THEN above[n] ELSE 1 + Least(above[n], above[n + 1], y)
                      ELSE 0
      OBVIOUS
  <2> HIDE DEF G
  <2> QED BY <2>1, <2>2, <2>3
<1> HIDE DEF G
<1>2. PICK f \in [0..Len(b) -> Nat] : f[0] = i /\ \A n \in 1..Len(b) : f[n] = G[<<n - 1, f[n - 1]>>]
  <2>1. G \in StepsOn(Nat)
    <3>1. G = [c \in Nat \X Nat |-> G[c]]
        BY DEF G
    <3>2. \A c \in Nat \X Nat : G[c] \in Nat
        BY <1>1
    <3> QED BY <3>1, <3>2 DEF StepsOn
  <2>2. \E f : Unfolds(f, Nat, i, G, Len(b))
      BY <1>0, <2>1, Recursion
  <2> QED BY <2>2 DEF Unfolds
<1>3. \A j \in 0..Len(b) : f[j] = Cell(f, j)
  <2>1. ASSUME NEW j \in 1..Len(b)
        PROVE  f[j] = Cell(f, j)
    <3>1. j - 1 \in Nat /\ (j - 1) + 1 = j /\ j # 0 /\ f[j - 1] \in Nat
      <4>1. j - 1 \in 0..Len(b) /\ j - 1 \in Nat /\ (j - 1) + 1 = j /\ j # 0
          BY <1>0
      <4>2. f \in [0..Len(b) -> Nat]
          BY <1>2
      <4> QED BY <4>1, <4>2
    <3>2. f[j] = G[<<j - 1, f[j - 1]>>]
        BY <1>2
    <3>3. f[j] = IF x = b[j] THEN above[j - 1] ELSE 1 + Least(above[j - 1], above[j], f[j - 1])
        BY <1>1, <3>1, <3>2
    <3> QED BY <3>1, <3>3
  <2>2. f[0] = Cell(f, 0)
      BY <1>2
  <2>3. \A j \in 0..Len(b) : j = 0 \/ j \in 1..Len(b)
      BY <1>0
  <2> HIDE DEF Cell
  <2> QED BY <2>1, <2>2, <2>3
<1>4. f = [j \in 0..Len(b) |-> Cell(f, j)]
    BY <1>3
<1>5. r = CHOOSE g : g = [j \in 0..Len(b) |-> Cell(g, j)]
    BY DEF NextRow
<1>6. r = [j \in 0..Len(b) |-> Cell(r, j)]
    BY <1>4, <1>5
<1>7. ASSUME NEW j \in 0..Len(b) PROVE r[j] = Cell(r, j)
    BY <1>6
<1>8. r[0] = i
    BY <1>0, <1>7
<1>9. r = f
  <2>1. \A j \in 1..Len(b) : r[j - 1] = f[j - 1] => r[j] = f[j]
    <3> SUFFICES ASSUME NEW j \in 1..Len(b), r[j - 1] = f[j - 1] PROVE r[j] = f[j]
        OBVIOUS
    <3>1. j \in 0..Len(b)
        BY <1>0
    <3> QED BY <1>3, <1>7, <3>1
  <2> DEFINE T == {n \in Nat : n \in 0..Len(b) => r[n] = f[n]}
  <2>2. 0 \in T
      BY <1>2, <1>8
  <2>3. ASSUME NEW n \in Nat, n \in T PROVE n + 1 \in T
    <3> SUFFICES ASSUME n + 1 \in 0..Len(b) PROVE r[n + 1] = f[n + 1]
        OBVIOUS
    <3>1. n + 1 \in 1..Len(b) /\ (n + 1) - 1 = n /\ r[n] = f[n]
        BY <1>0, <2>3
    <3> QED BY <2>1, <3>1
  <2> HIDE DEF T
  <2>4. Nat \subseteq T
      BY <2>2, <2>3, NumbersInduction
  <2>5. \A j \in 0..Len(b) : r[j] = f[j]
      BY <1>0, <2>4 DEF T
  <2> HIDE DEF r
  <2> QED BY <1>2, <1>6, <2>5
<1>10. \A j \in 1..Len(b) : r[j] = Cell(r, j) /\ j # 0
  <2>1. \A j \in 1..Len(b) : j \in 0..Len(b) /\ j # 0
      BY <1>0
  <2> QED BY <1>7, <2>1
<1>11. r \in [0..Len(b) -> Nat]
    BY <1>2, <1>9
<1>12. \A j \in 1..Len(b) : r[j] = IF x = b[j] THEN above[j - 1] ELSE 1 + Least(above[j - 1], above[j], r[j - 1])
  <2> HIDE DEF r
  <2> QED BY <1>10
<1> QED BY <1>8, <1>11, <1>12

\* The table of levenshteinDist, cell by cell.
IsTable(d, a, b) ==
    /\ \A i \in 0..Len(a), j \in 0..Len(b) : d[i][j] \in Nat
    /\ \A j \in 0..Len(b) : d[0][j] = j
    /\ \A i \in 0..Len(a) : d[i][0] = i
    /\ \A i \in 1..Len(a), j \in 1..Len(b) :
          d[i][j] = IF a[i] = b[j] THEN d[i - 1][j - 1]
                    ELSE 1 + Least(d[i - 1][j - 1], d[i - 1][j], d[i][j - 1])

LEMMA TableOf ==
    ASSUME NEW a \in Seq(Runes), NEW b \in Seq(Runes)
    PROVE  \E d : IsTable(d, a, b) /\ Distance(a, b) = d[Len(a)][Len(b)]
<1> DEFINE first == [j \in 0..Len(b) |-> j]
           RowAt(t, i) == IF i = 0 THEN first ELSE NextRow(i, a[i], b, t[i - 1])
           G == [c \in Nat \X Rows(b) |->
                    IF c[1] + 1 \in 1..Len(a) THEN NextRow(c[1] + 1, a[c[1] + 1], b, c[2]) ELSE first]
           t == CHOOSE t : t = [i \in 0..Len(a) |-> RowAt(t, i)]
<1>0. Len(a) \in Nat /\ Len(b) \in Nat /\ first \in Rows(b)
    BY DEF Rows
<1>1. ASSUME NEW n \in Nat, NEW y \in Rows(b)
      PROVE  /\ G[<<n, y>>] \in Rows(b)
             /\ n + 1 \in 1..Len(a) => G[<<n, y>>] = NextRow(n + 1, a[n + 1], b, y)
  <2>1. n + 1 \in Nat /\ NextRow(n + 1, a[n + 1], b, y) \in Rows(b)
      BY RowOf
  <2>2. G[<<n, y>>] = IF n + 1 \in 1..Len(a) THEN NextRow(n + 1, a[n + 1], b, y) ELSE first
      OBVIOUS
  <2> HIDE DEF G
  <2> QED BY <1>0, <2>1, <2>2
<1>2. G \in StepsOn(Rows(b))
  <2>1. G = [c \in Nat \X Rows(b) |-> G[c]]
      OBVIOUS
  <2>2. \A c \in Nat \X Rows(b) : G[c] \in Rows(b)
    <3> HIDE DEF G
    <3> QED BY <1>1
  <2> HIDE DEF G
  <2> QED BY <2>1, <2>2 DEF StepsOn
<1>3. PICK f : Unfolds(f, Rows(b), first, G, Len(a))
  <2> HIDE DEF G, first
  <2> QED BY <1>0, <1>2, Recursion
<1> HIDE DEF G
<1>4. f \in [0..Len(a) -> Rows(b)] /\ f[0] = first
    BY <1>3 DEF Unfolds
<1>5. \A i \in 1..Len(a) : i # 0 /\ i - 1 \in 0..Len(a) /\ i \in 0..Len(a)
                           /\ f[i] = NextRow(i, a[i], b, f[i - 1])
  <2> HIDE DEF first
  <2>1. ASSUME NEW i \in 1..Len(a)
        PROVE  i # 0 /\ i - 1 \in 0..Len(a) /\ i \in 0..Len(a) /\ i - 1 \in Nat /\ (i - 1) + 1 = i
      BY <1>0
  <2>2. ASSUME NEW i \in 1..Len(a)
        PROVE  f[i] = NextRow(i, a[i], b, f[i - 1])
    <3>1. f[i - 1] \in Rows(b) /\ f[i] = G[<<i - 1, f[i - 1]>>]
        BY <1>3, <1>4, <2>1 DEF Unfolds
    <3> QED BY <1>1, <2>1, <3>1
  <2> QED BY <2>1, <2>2
<1>6. \A i \in 0..Len(a) : i = 0 \/ i \in 1..Len(a)
    BY <1>0
<1>7. f = [i \in 0..Len(a) |-> RowAt(f, i)]
  <2> HIDE DEF first
  <2>1. \A i \in 0..Len(a) : f[i] = RowAt(f, i)
      BY <1>4, <1>5, <1>6
  <2> HIDE DEF RowAt
  <2> QED BY <1>4, <2>1
<1>8. t = [i \in 0..Len(a) |-> RowAt(t, i)]
  <2> HIDE DEF first, RowAt
  <2> QED BY <1>7
<1>9. Distance(a, b) = t[Len(a)][Len(b)]
    BY DEF Distance
<1>10. \A i \in 0..Len(a) : t[i] = f[i]
  <2> HIDE DEF first, t
  <2> DEFINE T == {n \in Nat : n \in 0..Len(a) => t[n] = f[n]}
  <2>1. 0 \in T
    <3>1. 0 \in 0..Len(a)
        BY <1>0
    <3>2. t[0] = RowAt(t, 0)
      <4> HIDE DEF RowAt
      <4> QED BY <1>8, <3>1
    <3> QED BY <1>4, <3>2
  <2>2. ASSUME NEW n \in Nat, n \in T
        PROVE  n + 1 \in T
    <3> SUFFICES ASSUME n + 1 \in 0..Len(a) PROVE t[n + 1] = f[n + 1]
        OBVIOUS
    <3>1. n + 1 \in 1..Len(a) /\ (n + 1) - 1 = n /\ n + 1 # 0 /\ n \in 0..Len(a)
        BY <1>0
    <3>2. t[n + 1] = RowAt(t, n + 1)
      <4> HIDE DEF RowAt
      <4> QED BY <1>8
    <3>3. t[n] = f[n]
        BY <2>2, <3>1
    <3>4. f[n + 1] = NextRow(n + 1, a[n + 1], b, f[n])
        BY <1>5, <3>1
    <3>5. t[n + 1] = NextRow(n + 1, a[n + 1], b, t[n])
        BY <3>1, <3>2
    <3> QED BY <3>3, <3>4, <3>5
  <2> HIDE DEF T
  <2>3. Nat \subseteq T
      BY <2>1, <2>2, NumbersInduction
  <2> QED BY <1>0, <2>3 DEF T
<1> HIDE DEF t
<1>11. IsTable(f, a, b)
  <2>1. \A i \in 0..Len(a), j \in 0..Len(b) : f[i][j] \in Nat
      BY <1>4 DEF Rows
  <2>2. \A j \in 0..Len(b) : f[0][j] = j
      BY <1>4
  <2>3. ASSUME NEW i \in 1..Len(a)
        PROVE  /\ f[i][0] = i
               /\ \A j \in 1..Len(b) :
                     f[i][j] = IF a[i] = b[j] THEN f[i - 1][j - 1]
                               ELSE 1 + Least(f[i - 1][j - 1], f[i - 1][j], f[i][j - 1])
    <3>1. f[i] = NextRow(i, a[i], b, f[i - 1]) /\ f[i - 1] \in Rows(b) /\ i \in Nat
      <4> HIDE DEF first, RowAt
      <4>1. i \in Nat /\ i - 1 \in 0..Len(a) /\ f[i] = NextRow(i, a[i], b, f[i - 1])
          BY <1>0, <1>5
      <4>2. f[i - 1] \in Rows(b)
          BY <1>4, <4>1
      <4> QED BY <4>1, <4>2
    <3> DEFINE above == f[i - 1]
               r == NextRow(i, a[i], b, above)
    <3>2. /\ r[0] = i
          /\ \A j \in 1..Len(b) : r[j] = IF a[i] = b[j] THEN above[j - 1]
                                         ELSE 1 + Least(above[j - 1], above[j], r[j - 1])
        BY <3>1, RowOf
    <3>3. r = f[i]
        BY <3>1
    <3> HIDE DEF r
    <3> QED BY <3>2, <3>3
  <2>4. f[0][0] = 0
      BY <1>0, <2>2
  <2> QED BY <1>6, <2>1, <2>2, <2>3, <2>4 DEF IsTable
<1> QED BY <1>0, <1>9, <1>10, <1>11

\* What a cell holds depends on what is to its left and above: the table of two
\* texts holds the distances of all their beginnings.
Begins(c, a) == Len(c) <= Len(a) /\ \A i \in 1..Len(c) : c[i] = a[i]

LEMMA TableHolds ==
    ASSUME NEW a \in Seq(Runes), NEW b \in Seq(Runes), NEW c \in Seq(Runes), NEW g \in Seq(Runes),
           NEW d, IsTable(d, a, b), Begins(c, a), Begins(g, b)
    PROVE  Distance(c, g) = d[Len(c)][Len(g)]
<1> DEFINE p == Len(c)
           q == Len(g)
<1>0. PICK e : IsTable(e, c, g) /\ Distance(c, g) = e[p][q]
    BY TableOf
<1> DEFINE T == {i \in Nat : i \in 0..p => \A j \in 0..q : d[i][j] = e[i][j]}
<1>1. /\ Len(a) \in Nat /\ Len(b) \in Nat /\ p \in Nat /\ q \in Nat /\ p <= Len(a) /\ q <= Len(b)
      /\ (\A i \in 1..p : a[i] = c[i]) /\ (\A j \in 1..q : b[j] = g[j])
    BY DEF Begins
<1>2. /\ \A i \in 0..p : i \in 0..Len(a)
      /\ \A j \in 0..q : j \in 0..Len(b)
    BY <1>1
<1>3. 0 \in T
  <2>1. \A j \in 0..q : d[0][j] = j /\ e[0][j] = j
      BY <1>0, <1>2 DEF IsTable
  <2> QED BY <2>1
<1>4. ASSUME NEW n \in Nat, n \in T
      PROVE  n + 1 \in T
  <2> SUFFICES ASSUME n + 1 \in 0..p PROVE \A j \in 0..q : d[n + 1][j] = e[n + 1][j]
      OBVIOUS
  <2>1. /\ n \in 0..p /\ n + 1 \in 1..Len(a) /\ n + 1 \in 1..p /\ (n + 1) - 1 = n
        /\ n + 1 \in 0..Len(a) /\ a[n + 1] = c[n + 1]
      BY <1>1, <1>2
  <2>2. \A j \in 0..q : d[n][j] = e[n][j]
      BY <1>4, <2>1
  <2> DEFINE U == {j \in Nat : j \in 0..q => d[n + 1][j] = e[n + 1][j]}
  <2>3. 0 \in U
    <3>1. d[n + 1][0] = n + 1 /\ e[n + 1][0] = n + 1
        BY <1>0, <2>1 DEF IsTable
    <3> QED BY <3>1
  <2>4. ASSUME NEW m \in Nat, m \in U
        PROVE  m + 1 \in U
    <3> SUFFICES ASSUME m + 1 \in 0..q PROVE d[n + 1][m + 1] = e[n + 1][m + 1]
        OBVIOUS
    <3>1. /\ m \in 0..q /\ m + 1 \in 1..Len(b) /\ m + 1 \in 1..q /\ (m + 1) - 1 = m
          /\ b[m + 1] = g[m + 1]
        BY <1>1, <1>2
    <3>2. d[n + 1][m] = e[n + 1][m]
        BY <2>4, <3>1
    <3>3. d[n][m] = e[n][m] /\ d[n][m + 1] = e[n][m + 1]
        BY <2>2, <3>1
    <3>4. d[n + 1][m + 1] = IF a[n + 1] = b[m + 1] THEN d[n][m]
                            ELSE 1 + Least(d[n][m], d[n][m + 1], d[n + 1][m])
        BY <2>1, <3>1 DEF IsTable
    <3>5. e[n + 1][m + 1] = IF c[n + 1] = g[m + 1] THEN e[n][m]
                            ELSE 1 + Least(e[n][m], e[n][m + 1], e[n + 1][m])
        BY <1>0, <2>1, <3>1 DEF IsTable
    <3> QED BY <2>1, <3>1, <3>2, <3>3, <3>4, <3>5
  <2> HIDE DEF U
  <2>5. Nat \subseteq U
      BY <2>3, <2>4, NumbersInduction
  <2> QED BY <2>5 DEF U
<1> HIDE DEF T
<1>5. Nat \subseteq T
    BY <1>3, <1>4, NumbersInduction
<1>6. p \in 0..p /\ q \in 0..q /\ p \in T
    BY <1>1, <1>5
<1>7. d[p][q] = e[p][q]
    BY <1>6 DEF T
<1> QED BY <1>0, <1>7

\* A sequence is empty, or another one with an element more.
LEMMA LastOfSequence ==
    ASSUME NEW s \in Seq(Runes)
    PROVE  \/ s = <<>>
           \/ \E t \in Seq(Runes), x \in Runes : s = Append(t, x)
<1> SUFFICES ASSUME s # <<>> PROVE \E t \in Seq(Runes), x \in Runes : s = Append(t, x)
    OBVIOUS
<1> DEFINE n == Len(s)
           t == [i \in 1..(n - 1) |-> s[i]]
<1>1. n \in Nat /\ n > 0 /\ \A i \in 1..n : s[i] \in Runes
    OBVIOUS
<1>2. n - 1 \in Nat /\ (n - 1) + 1 = n /\ \A i \in 1..(n - 1) : i \in 1..n
    BY <1>1
<1>3. t \in Seq(Runes) /\ Len(t) = n - 1 /\ \A i \in 1..(n - 1) : t[i] = s[i]
  <2>1. t \in [1..(n - 1) -> Runes]
      BY <1>1, <1>2
  <2>2. t \in Seq(Runes) /\ Len(t) = n - 1
      BY <1>2, <2>1
  <2> QED BY <2>2
<1>4. s = Append(t, s[n])
  <2> HIDE DEF t
  <2> DEFINE u == Append(t, s[n])
  <2>1. /\ u \in Seq(Runes) /\ Len(u) = (n - 1) + 1 /\ u[(n - 1) + 1] = s[n]
        /\ \A i \in 1..(n - 1) : u[i] = t[i]
    <3>1. s[n] \in Runes
        BY <1>1
    <3> QED BY <1>3, <3>1
  <2>2. Len(u) = Len(s) /\ \A i \in 1..Len(s) : u[i] = s[i]
    <3>1. \A i \in 1..n : i \in 1..(n - 1) \/ i = n
        BY <1>1
    <3> QED BY <1>2, <1>3, <2>1, <3>1
  <2> HIDE DEF u
  <2>3. u = s
      BY <2>1, <2>2, SeqEqual
  <2> QED BY <2>3 DEF u
<1>5. s[n] \in Runes
    BY <1>1
<1> QED BY <1>3, <1>4, <1>5

\* What Append makes.
LEMMA Longer ==
    ASSUME NEW s \in Seq(Runes), NEW x \in Runes
    PROVE  /\ Append(s, x) \in Seq(Runes) /\ Append(s, x) # <<>>
           /\ Len(s) \in Nat /\ Len(Append(s, x)) = Len(s) + 1
           /\ \A i \in 1..Len(s) : Append(s, x)[i] = s[i]
           /\ Append(s, x)[Len(s) + 1] = x
OBVIOUS

\* The distance by the last runes of two texts.
LEMMA DistanceOfNone ==
    ASSUME NEW a \in Seq(Runes)
    PROVE  Distance(<<>>, a) = Len(a) /\ Distance(a, <<>>) = Len(a)
<1>1. <<>> \in Seq(Runes) /\ Len(<<>>) = 0 /\ Len(a) \in Nat
    OBVIOUS
<1>2. Len(a) \in 0..Len(a) /\ 0 \in 0..Len(a) /\ 0 \in 0..0
    BY <1>1
<1>3. PICK d : IsTable(d, <<>>, a) /\ Distance(<<>>, a) = d[Len(<<>>)][Len(a)]
    BY <1>1, TableOf
<1>4. PICK e : IsTable(e, a, <<>>) /\ Distance(a, <<>>) = e[Len(a)][Len(<<>>)]
    BY <1>1, TableOf
<1> QED BY <1>1, <1>2, <1>3, <1>4 DEF IsTable

LEMMA DistanceIsNumber ==
    ASSUME NEW a \in Seq(Runes), NEW b \in Seq(Runes)
    PROVE  Distance(a, b) \in Nat
<1>1. PICK d : IsTable(d, a, b) /\ Distance(a, b) = d[Len(a)][Len(b)]
    BY TableOf
<1>2. Len(a) \in 0..Len(a) /\ Len(b) \in 0..Len(b)
    OBVIOUS
<1> QED BY <1>1, <1>2 DEF IsTable

LEMMA DistanceOfLonger ==
    ASSUME NEW a \in Seq(Runes), NEW b \in Seq(Runes), NEW x \in Runes, NEW y \in Runes
    PROVE  Distance(Append(a, x), Append(b, y))
               = IF x = y THEN Distance(a, b)
                 ELSE 1 + Least(Distance(a, b), Distance(a, Append(b, y)), Distance(Append(a, x), b))
<1> DEFINE ax == Append(a, x)
           by == Append(b, y)
           m == Len(a)
           n == Len(b)
<1>1. /\ ax \in Seq(Runes) /\ m \in Nat /\ Len(ax) = m + 1 /\ (\A i \in 1..m : ax[i] = a[i]) /\ ax[m + 1] = x
      /\ by \in Seq(Runes) /\ n \in Nat /\ Len(by) = n + 1 /\ (\A j \in 1..n : by[j] = b[j]) /\ by[n + 1] = y
    BY Longer
<1>2. Begins(a, ax) /\ Begins(b, by) /\ Begins(ax, ax) /\ Begins(by, by)
    BY <1>1 DEF Begins
<1> HIDE DEF ax, by
<1>3. PICK d : IsTable(d, ax, by)
    BY <1>1, TableOf
<1>4. /\ Distance(a, b) = d[m][n] /\ Distance(a, by) = d[m][Len(by)]
      /\ Distance(ax, b) = d[Len(ax)][n] /\ Distance(ax, by) = d[Len(ax)][Len(by)]
    BY <1>1, <1>2, <1>3, TableHolds
<1> HIDE DEF m, n
<1>5. m + 1 \in 1..(m + 1) /\ n + 1 \in 1..(n + 1) /\ (m + 1) - 1 = m /\ (n + 1) - 1 = n
    BY <1>1
<1>6. d[m + 1][n + 1] = IF ax[m + 1] = by[n + 1] THEN d[m][n]
                        ELSE 1 + Least(d[m][n], d[m][n + 1], d[m + 1][n])
  <2>1. \A i \in 1..(m + 1), j \in 1..(n + 1) :
           d[i][j] = IF ax[i] = by[j] THEN d[i - 1][j - 1]
                     ELSE 1 + Least(d[i - 1][j - 1], d[i - 1][j], d[i][j - 1])
      BY <1>1, <1>3 DEF IsTable
  <2> QED BY <1>5, <2>1
<1>7. Distance(ax, by) = IF x = y THEN Distance(a, b)
                         ELSE 1 + Least(Distance(a, b), Distance(a, by), Distance(ax, b))
    BY <1>1, <1>4, <1>6
<1> QED BY <1>7 DEF ax, by

\* The distance is the same from either side.
LEMMA DistanceIsSymmetric ==
    ASSUME NEW a \in Seq(Runes), NEW b \in Seq(Runes)
    PROVE  Distance(a, b) = Distance(b, a)
<1> DEFINE S == {w \in Seq(Runes) \X Seq(Runes) : Distance(w[1], w[2]) = Distance(w[2], w[1])}
<1>1. ASSUME NEW c \in Seq(Runes), NEW g \in Seq(Runes),
             \A u, v \in Seq(Runes) : Len(u) + Len(v) < Len(c) + Len(g) => <<u, v>> \in S
      PROVE  <<c, g>> \in S
  <2> SUFFICES Distance(c, g) = Distance(g, c)
      OBVIOUS
  <2>1. CASE c = <<>> \/ g = <<>>
      BY <2>1, DistanceOfNone
  <2>2. CASE ~(c = <<>> \/ g = <<>>)
    <3>1. PICK c1 \in Seq(Runes), x \in Runes : c = Append(c1, x)
        BY <2>2, LastOfSequence
    <3>2. PICK g1 \in Seq(Runes), y \in Runes : g = Append(g1, y)
        BY <2>2, LastOfSequence
    <3>3. /\ Len(c) = Len(c1) + 1 /\ Len(c1) \in Nat /\ Len(g) = Len(g1) + 1 /\ Len(g1) \in Nat
        BY <3>1, <3>2, Longer
    <3>4. /\ Distance(c1, g1) = Distance(g1, c1)
          /\ Distance(c1, g) = Distance(g, c1)
          /\ Distance(c, g1) = Distance(g1, c)
      <4>1. /\ Len(c1) + Len(g1) < Len(c) + Len(g)
            /\ Len(c1) + Len(g) < Len(c) + Len(g)
            /\ Len(c) + Len(g1) < Len(c) + Len(g)
          BY <3>3
      <4>2. <<c1, g1>> \in S /\ <<c1, g>> \in S /\ <<c, g1>> \in S
          BY <1>1, <4>1
      <4> QED BY <4>2
    <3>5. Least(Distance(c1, g1), Distance(c1, g), Distance(c, g1))
              = Least(Distance(g1, c1), Distance(g1, c), Distance(g, c1))
        BY <3>4 DEF Least
    <3>6. Distance(c, g) = IF x = y THEN Distance(c1, g1)
                           ELSE 1 + Least(Distance(c1, g1), Distance(c1, g), Distance(c, g1))
        BY <3>1, <3>2, DistanceOfLonger
    <3>7. Distance(g, c) = IF y = x THEN Distance(g1, c1)
                           ELSE 1 + Least(Distance(g1, c1), Distance(g1, c), Distance(g, c1))
      <4>1. Distance(Append(g1, y), Append(c1, x))
                = IF y = x THEN Distance(g1, c1)
                  ELSE 1 + Least(Distance(g1, c1), Distance(g1, Append(c1, x)), Distance(Append(g1, y), c1))
          BY DistanceOfLonger
      <4> QED BY <3>1, <3>2, <4>1
    <3>8. 1 + Least(Distance(c1, g1), Distance(c1, g), Distance(c, g1))
              = 1 + Least(Distance(g1, c1), Distance(g1, c), Distance(g, c1))
        BY <3>4, <3>5
    <3> HIDE DEF S
    <3>9. CASE x = y
        BY <3>4, <3>6, <3>7, <3>9
    <3>10. CASE x # y
        BY <3>6, <3>7, <3>8, <3>10
    <3> QED BY <3>9, <3>10
  <2> QED BY <2>1, <2>2
<1>2. <<a, b>> \in S
  <2> HIDE DEF S
  <2> QED BY <1>1, SequencesInduction
<1> QED BY <1>2

\* A rune more at the end makes a difference of at most one.
ByOne(m, n) == m <= n + 1 /\ n <= m + 1

LEMMA OneRuneMore ==
    ASSUME NEW a \in Seq(Runes), NEW b \in Seq(Runes), NEW y \in Runes
    PROVE  /\ ByOne(Distance(a, Append(b, y)), Distance(a, b))
           /\ ByOne(Distance(Append(b, y), a), Distance(b, a))
<1> DEFINE S == {w \in Seq(Runes) \X Seq(Runes) :
                   \A z \in Runes : /\ ByOne(Distance(w[1], Append(w[2], z)), Distance(w[1], w[2]))
                                    /\ ByOne(Distance(Append(w[1], z), w[2]), Distance(w[1], w[2]))}
<1>1. ASSUME NEW c \in Seq(Runes), NEW g \in Seq(Runes), NEW z \in Runes,
             \A u, v \in Seq(Runes) : Len(u) + Len(v) < Len(c) + Len(g) => <<u, v>> \in S
      PROVE  ByOne(Distance(c, Append(g, z)), Distance(c, g))
  <2>1. Distance(c, g) \in Nat /\ Distance(c, Append(g, z)) \in Nat
      BY DistanceIsNumber, Longer
  <2>2. CASE c = <<>>
    <3>1. Distance(c, g) = Len(g) /\ Distance(c, Append(g, z)) = Len(g) + 1 /\ Len(g) \in Nat
        BY <2>2, DistanceOfNone, Longer
    <3> QED BY <3>1 DEF ByOne
  <2>3. CASE c # <<>>
    <3>1. PICK c1 \in Seq(Runes), x \in Runes : c = Append(c1, x)
        BY <2>3, LastOfSequence
    <3> DEFINE gz == Append(g, z)
    <3>2. Len(c) = Len(c1) + 1 /\ Len(c1) \in Nat /\ Len(g) \in Nat /\ gz \in Seq(Runes)
        BY <3>1, Longer
    <3>3. <<c1, g>> \in S
      <4>1. Len(c1) + Len(g) < Len(c) + Len(g)
          BY <3>2
      <4> QED BY <1>1, <4>1
    <3>4. ByOne(Distance(c1, gz), Distance(c1, g)) /\ ByOne(Distance(c, g), Distance(c1, g))
        BY <3>1, <3>3
    <3>5. Distance(c1, g) \in Nat /\ Distance(c1, gz) \in Nat
        BY <3>2, DistanceIsNumber
    <3>6. Distance(c, gz) = IF x = z THEN Distance(c1, g)
                            ELSE 1 + Least(Distance(c1, g), Distance(c1, gz), Distance(c, g))
        BY <3>1, DistanceOfLonger
    <3>7. LET l == Least(Distance(c1, g), Distance(c1, gz), Distance(c, g))
          IN  /\ l \in {Distance(c1, g), Distance(c1, gz), Distance(c, g)}
              /\ l <= Distance(c1, g) /\ l <= Distance(c1, gz) /\ l <= Distance(c, g)
        BY <2>1, <3>5, LeastOfThree
    <3> DEFINE m == Distance(c, gz)  n == Distance(c, g)  p == Distance(c1, g)  q == Distance(c1, gz)
               l == Least(p, q, n)
    <3>8. /\ m \in Nat /\ n \in Nat /\ p \in Nat /\ q \in Nat
          /\ ByOne(q, p) /\ ByOne(n, p) /\ (m = p \/ m = 1 + l)
          /\ l \in {p, q, n} /\ l <= p /\ l <= q /\ l <= n
        BY <2>1, <3>4, <3>5, <3>6, <3>7
    <3> HIDE DEF gz, S, m, n, p, q, l
    <3>9. ByOne(m, n)
        BY <3>8 DEF ByOne
    <3> QED BY <3>9 DEF m, n, gz
  <2> QED BY <2>2, <2>3
<1>2. ASSUME NEW c \in Seq(Runes), NEW g \in Seq(Runes),
             \A u, v \in Seq(Runes) : Len(u) + Len(v) < Len(c) + Len(g) => <<u, v>> \in S
      PROVE  <<c, g>> \in S
  <2>1. \A z \in Runes : ByOne(Distance(c, Append(g, z)), Distance(c, g))
    <3> HIDE DEF S
    <3> QED BY <1>1, <1>2
  <2>2. ASSUME NEW u \in Seq(Runes), NEW v \in Seq(Runes), Len(u) + Len(v) < Len(g) + Len(c)
        PROVE  <<u, v>> \in S
    <3>1. Len(u) + Len(v) < Len(c) + Len(g)
        BY <2>2
    <3> HIDE DEF S
    <3> QED BY <1>2, <3>1
  <2>3. \A z \in Runes : ByOne(Distance(g, Append(c, z)), Distance(g, c))
    <3> HIDE DEF S
    <3> QED BY <1>1, <2>2
  <2>4. \A z \in Runes : ByOne(Distance(Append(c, z), g), Distance(c, g))
    <3> SUFFICES ASSUME NEW z \in Runes PROVE ByOne(Distance(Append(c, z), g), Distance(c, g))
        OBVIOUS
    <3>1. Distance(Append(c, z), g) = Distance(g, Append(c, z)) /\ Distance(c, g) = Distance(g, c)
        BY DistanceIsSymmetric, Longer
    <3> QED BY <2>3, <3>1
  <2> QED BY <2>1, <2>4
<1>3. <<a, b>> \in S
  <2> HIDE DEF S
  <2> QED BY <1>2, SequencesInduction
<1>4. <<b, a>> \in S
  <2> HIDE DEF S
  <2> QED BY <1>2, SequencesInduction
<1> QED BY <1>3, <1>4

\* The distance as the least of three.
Swap(x, y) == IF x = y THEN 0 ELSE 1
LeastOf(n, p, q, r) ==
    n <= p /\ n <= q + 1 /\ n <= r + 1 /\ (n = p \/ n = q + 1 \/ n = r + 1)

LEMMA LastRunes ==
    ASSUME NEW a \in Seq(Runes), NEW b \in Seq(Runes), NEW x \in Runes, NEW y \in Runes,
           NEW ax, NEW by, ax = Append(a, x), by = Append(b, y)
    PROVE  LeastOf(Distance(ax, by), Distance(a, b) + Swap(x, y), Distance(a, by), Distance(ax, b))
<1>1. ax \in Seq(Runes) /\ by \in Seq(Runes)
    BY Longer
<1>2. Distance(ax, by) = IF x = y THEN Distance(a, b)
                         ELSE 1 + Least(Distance(a, b), Distance(a, by), Distance(ax, b))
    BY DistanceOfLonger
<1>3. ByOne(Distance(a, by), Distance(a, b)) /\ ByOne(Distance(ax, b), Distance(a, b))
    BY OneRuneMore
<1>4. Distance(a, b) \in Nat /\ Distance(a, by) \in Nat /\ Distance(ax, b) \in Nat /\ Distance(ax, by) \in Nat
    BY <1>1, DistanceIsNumber
<1>5. LET l == Least(Distance(a, b), Distance(a, by), Distance(ax, b))
      IN  /\ l \in {Distance(a, b), Distance(a, by), Distance(ax, b)}
          /\ l <= Distance(a, b) /\ l <= Distance(a, by) /\ l <= Distance(ax, b)
    BY <1>4, LeastOfThree
<1>6. CASE x = y
    BY <1>2, <1>3, <1>4, <1>6 DEF ByOne, LeastOf, Swap
<1>7. CASE x # y
    BY <1>2, <1>4, <1>5, <1>7 DEF LeastOf, Swap
<1> QED BY <1>6, <1>7

LEMMA SameLast ==
    ASSUME NEW s \in Seq(Runes), NEW t \in Seq(Runes), NEW x \in Runes, NEW y \in Runes
    PROVE  Append(s, x) = Append(t, y) <=> s = t /\ x = y
<1> SUFFICES ASSUME Append(s, x) = Append(t, y) PROVE s = t /\ x = y
    OBVIOUS
<1>1. /\ Len(s) \in Nat /\ Len(Append(s, x)) = Len(s) + 1
      /\ (\A i \in 1..Len(s) : Append(s, x)[i] = s[i]) /\ Append(s, x)[Len(s) + 1] = x
    BY Longer
<1>2. /\ Len(t) \in Nat /\ Len(Append(t, y)) = Len(t) + 1
      /\ (\A i \in 1..Len(t) : Append(t, y)[i] = t[i]) /\ Append(t, y)[Len(t) + 1] = y
    BY Longer
<1>3. Len(s) = Len(t)
    BY <1>1, <1>2
<1>4. x = y /\ \A i \in 1..Len(s) : s[i] = t[i]
    BY <1>1, <1>2, <1>3
<1> QED BY <1>3, <1>4, SeqEqual

LEMMA NoDistance ==
    ASSUME NEW a \in Seq(Runes), NEW b \in Seq(Runes)
    PROVE  Distance(a, b) = 0 <=> a = b
<1> DEFINE S == {w \in Seq(Runes) \X Seq(Runes) : Distance(w[1], w[2]) = 0 <=> w[1] = w[2]}
<1>1. ASSUME NEW c \in Seq(Runes), NEW g \in Seq(Runes),
             \A u, v \in Seq(Runes) : Len(u) + Len(v) < Len(c) + Len(g) => <<u, v>> \in S
      PROVE  <<c, g>> \in S
  <2> SUFFICES Distance(c, g) = 0 <=> c = g
      OBVIOUS
  <2>1. CASE c = <<>> \/ g = <<>>
    <3>1. Distance(<<>>, g) = Len(g) /\ Distance(c, <<>>) = Len(c)
        BY DistanceOfNone
    <3>2. (Len(g) = 0 <=> g = <<>>) /\ (Len(c) = 0 <=> c = <<>>)
        OBVIOUS
    <3> QED BY <2>1, <3>1, <3>2
  <2>2. CASE ~(c = <<>> \/ g = <<>>)
    <3>1. PICK c1 \in Seq(Runes), x \in Runes : c = Append(c1, x)
        BY <2>2, LastOfSequence
    <3>2. PICK g1 \in Seq(Runes), y \in Runes : g = Append(g1, y)
        BY <2>2, LastOfSequence
    <3>3. Len(c) = Len(c1) + 1 /\ Len(c1) \in Nat /\ Len(g) = Len(g1) + 1 /\ Len(g1) \in Nat
        BY <3>1, <3>2, Longer
    <3>4. Distance(c1, g1) = 0 <=> c1 = g1
      <4>1. Len(c1) + Len(g1) < Len(c) + Len(g)
          BY <3>3
      <4>2. <<c1, g1>> \in S
          BY <1>1, <4>1
      <4> QED BY <4>2
    <3>5. c = g <=> c1 = g1 /\ x = y
        BY <3>1, <3>2, SameLast
    <3>6. CASE x = y
        BY <3>1, <3>2, <3>4, <3>5, <3>6, DistanceOfLonger
    <3>7. CASE x # y
      <4>1. Distance(c, g) # 0
        <5>1. Distance(c1, g1) \in Nat /\ Distance(c1, g) \in Nat /\ Distance(c, g1) \in Nat
            BY DistanceIsNumber
        <5>2. LeastOf(Distance(c, g), Distance(c1, g1) + Swap(x, y), Distance(c1, g), Distance(c, g1))
            BY <3>1, <3>2, LastRunes
        <5>3. Swap(x, y) = 1
            BY <3>7 DEF Swap
        <5> DEFINE n == Distance(c, g)  p == Distance(c1, g1)  q == Distance(c1, g)  r == Distance(c, g1)
        <5>4. p \in Nat /\ q \in Nat /\ r \in Nat /\ LeastOf(n, p + 1, q, r)
            BY <5>1, <5>2, <5>3
        <5> HIDE DEF n, p, q, r
        <5>5. n # 0
            BY <5>4 DEF LeastOf
        <5> QED BY <5>5 DEF n
      <4> QED BY <3>5, <3>7, <4>1
    <3> QED BY <3>6, <3>7
  <2> QED BY <2>1, <2>2
<1>2. <<a, b>> \in S
  <2> HIDE DEF S
  <2> QED BY <1>1, SequencesInduction
<1> QED BY <1>2

\* t is s without its i-th rune, or with another in its place.
Removed(t, s, i) ==
    /\ i \in 1..Len(s) /\ Len(s) = Len(t) + 1
    /\ \A j \in 1..Len(t) : t[j] = IF j < i THEN s[j] ELSE s[j + 1]
Replaced(t, s, i) ==
    i \in 1..Len(s) /\ Len(t) = Len(s) /\ \A j \in 1..Len(t) : j # i => t[j] = s[j]

\* Either at the end, or before a last rune that both have.
LEMMA RemovedWhere ==
    ASSUME NEW s \in Seq(Runes), NEW x \in Runes, NEW t \in Seq(Runes), NEW i, Removed(t, Append(s, x), i)
    PROVE  \/ t = s
           \/ \E u \in Seq(Runes) : t = Append(u, x) /\ Removed(u, s, i)
<1> DEFINE sx == Append(s, x)
<1>1. /\ sx \in Seq(Runes) /\ Len(s) \in Nat /\ Len(sx) = Len(s) + 1
      /\ (\A j \in 1..Len(s) : sx[j] = s[j]) /\ sx[Len(s) + 1] = x
    BY Longer
<1>2. Removed(t, sx, i)
    OBVIOUS
<1> HIDE DEF sx
<1>3. Len(t) = Len(s) /\ i \in 1..(Len(s) + 1)
    BY <1>1, <1>2 DEF Removed
<1>4. CASE i = Len(s) + 1
  <2>1. \A j \in 1..Len(t) : t[j] = s[j]
      BY <1>1, <1>2, <1>3, <1>4 DEF Removed
  <2> QED BY <1>3, <2>1, SeqEqual
<1>5. CASE i # Len(s) + 1
  <2>1. i \in 1..Len(s) /\ t # <<>>
      BY <1>1, <1>3, <1>5
  <2>2. PICK u \in Seq(Runes), y \in Runes : t = Append(u, y)
      BY <2>1, LastOfSequence
  <2>3. Len(u) \in Nat /\ Len(t) = Len(u) + 1 /\ (\A j \in 1..Len(u) : t[j] = u[j]) /\ t[Len(u) + 1] = y
      BY <2>2, Longer
  <2>4. y = x
    <3>1. Len(t) \in 1..Len(t) /\ ~(Len(t) < i)
        BY <1>1, <1>3, <2>1
    <3>2. t[Len(t)] = sx[Len(t) + 1]
        BY <1>2, <3>1 DEF Removed
    <3> QED BY <1>1, <1>3, <2>3, <3>2
  <2>5. Removed(u, s, i)
    <3>1. ASSUME NEW j \in 1..Len(u)
          PROVE  u[j] = IF j < i THEN s[j] ELSE s[j + 1]
      <4>1. j \in 1..Len(t) /\ j \in 1..Len(s) /\ j + 1 \in 1..Len(s)
          BY <1>1, <1>3, <2>3
      <4>2. t[j] = IF j < i THEN sx[j] ELSE sx[j + 1]
          BY <1>2, <4>1 DEF Removed
      <4> QED BY <1>1, <2>3, <4>1, <4>2
    <3> QED BY <1>3, <2>1, <2>3, <3>1 DEF Removed
  <2> QED BY <2>2, <2>4, <2>5
<1> QED BY <1>4, <1>5

EndsAlike(t, s, x, i) ==
    \E u \in Seq(Runes), y \in Runes : t = Append(u, y) /\ (u = s \/ (y = x /\ Replaced(u, s, i)))

LEMMA ReplacedWhere ==
    ASSUME NEW s \in Seq(Runes), NEW x \in Runes, NEW t \in Seq(Runes), NEW i, NEW sx, sx = Append(s, x),
           Replaced(t, sx, i)
    PROVE  EndsAlike(t, s, x, i)
<1>1. /\ sx \in Seq(Runes) /\ Len(s) \in Nat /\ Len(sx) = Len(s) + 1
      /\ (\A j \in 1..Len(s) : sx[j] = s[j]) /\ sx[Len(s) + 1] = x
    BY Longer
<1>3. Len(t) = Len(s) + 1 /\ i \in 1..(Len(s) + 1) /\ t # <<>>
    BY <1>1 DEF Replaced
<1>4. PICK u \in Seq(Runes), y \in Runes : t = Append(u, y)
    BY <1>3, LastOfSequence
<1>5. Len(u) \in Nat /\ Len(t) = Len(u) + 1 /\ (\A j \in 1..Len(u) : t[j] = u[j]) /\ t[Len(u) + 1] = y
    BY <1>4, Longer
<1>6. Len(u) = Len(s)
    BY <1>1, <1>3, <1>5
<1>7. \A j \in 1..Len(u) : j # i => u[j] = s[j]
    BY <1>1, <1>3, <1>5, <1>6 DEF Replaced
<1>8. i = Len(s) + 1 => u = s
  <2> SUFFICES ASSUME i = Len(s) + 1 PROVE u = s
      OBVIOUS
  <2>1. \A j \in 1..Len(u) : u[j] = s[j]
      BY <1>1, <1>6, <1>7
  <2> QED BY <1>6, <2>1, SeqEqual
<1>9. i # Len(s) + 1 => y = x /\ Replaced(u, s, i)
  <2> SUFFICES ASSUME i # Len(s) + 1 PROVE y = x /\ Replaced(u, s, i)
      OBVIOUS
  <2>1. i \in 1..Len(s)
      BY <1>1, <1>3
  <2>2. Replaced(u, s, i)
      BY <1>6, <1>7, <2>1 DEF Replaced
  <2>3. y = x
    <3>1. Len(s) + 1 \in 1..Len(t)
        BY <1>1, <1>3
    <3> QED BY <1>1, <1>5, <1>6, <3>1 DEF Replaced
  <2> QED BY <2>2, <2>3
<1>10. u = s \/ (y = x /\ Replaced(u, s, i))
    BY <1>8, <1>9
<1> QED BY <1>4, <1>10 DEF EndsAlike

\* And the other way round.
LEMMA RemovedLonger ==
    ASSUME NEW s \in Seq(Runes), NEW x \in Runes
    PROVE  /\ Removed(s, Append(s, x), Len(s) + 1)
           /\ \A t \in Seq(Runes), i \in Nat : Removed(t, s, i) => Removed(Append(t, x), Append(s, x), i)
<1> DEFINE sx == Append(s, x)
<1>1. /\ sx \in Seq(Runes) /\ Len(s) \in Nat /\ Len(sx) = Len(s) + 1
      /\ (\A j \in 1..Len(s) : sx[j] = s[j]) /\ sx[Len(s) + 1] = x
    BY Longer
<1> HIDE DEF sx
<1>2. Removed(s, sx, Len(s) + 1)
    BY <1>1 DEF Removed
<1>3. ASSUME NEW t \in Seq(Runes), NEW i \in Nat, Removed(t, s, i)
      PROVE  Removed(Append(t, x), sx, i)
  <2> DEFINE tx == Append(t, x)
  <2>1. /\ tx \in Seq(Runes) /\ Len(t) \in Nat /\ Len(tx) = Len(t) + 1
        /\ (\A j \in 1..Len(t) : tx[j] = t[j]) /\ tx[Len(t) + 1] = x
      BY Longer
  <2> HIDE DEF tx
  <2>2. Len(s) = Len(t) + 1 /\ i \in 1..Len(s)
      BY <1>3 DEF Removed
  <2>3. ASSUME NEW j \in 1..Len(tx)
        PROVE  tx[j] = IF j < i THEN sx[j] ELSE sx[j + 1]
    <3>1. CASE j \in 1..Len(t)
      <4>1. t[j] = IF j < i THEN s[j] ELSE s[j + 1]
          BY <1>3, <3>1 DEF Removed
      <4>2. j \in 1..Len(s) /\ j + 1 \in 1..Len(s)
          BY <1>1, <2>1, <2>2, <3>1
      <4> QED BY <1>1, <2>1, <3>1, <4>1, <4>2
    <3>2. CASE j = Len(t) + 1
      <4>1. ~(j < i) /\ j + 1 = Len(s) + 1
          BY <1>1, <2>1, <2>2, <3>2
      <4> QED BY <1>1, <2>1, <3>2, <4>1
    <3> QED BY <2>1, <3>1, <3>2
  <2>4. Len(sx) = Len(tx) + 1 /\ i \in 1..Len(sx)
      BY <1>1, <2>1, <2>2
  <2>5. Removed(tx, sx, i)
      BY <2>3, <2>4 DEF Removed
  <2> QED BY <2>5 DEF tx
<1> QED BY <1>2, <1>3 DEF sx

LEMMA ReplacedLonger ==
    ASSUME NEW s \in Seq(Runes), NEW x \in Runes, NEW y \in Runes
    PROVE  /\ Replaced(Append(s, y), Append(s, x), Len(s) + 1)
           /\ \A t \in Seq(Runes), i \in Nat : Replaced(t, s, i) => Replaced(Append(t, x), Append(s, x), i)
<1> DEFINE sx == Append(s, x)
           sy == Append(s, y)
<1>1. /\ sx \in Seq(Runes) /\ Len(s) \in Nat /\ Len(sx) = Len(s) + 1
      /\ (\A j \in 1..Len(s) : sx[j] = s[j]) /\ sx[Len(s) + 1] = x
    BY Longer
<1>2. Len(sy) = Len(s) + 1 /\ \A j \in 1..Len(s) : sy[j] = s[j]
    BY Longer
<1> HIDE DEF sx, sy
<1>3. Replaced(sy, sx, Len(s) + 1)
    BY <1>1, <1>2 DEF Replaced
<1>4. ASSUME NEW t \in Seq(Runes), NEW i \in Nat, Replaced(t, s, i)
      PROVE  Replaced(Append(t, x), sx, i)
  <2> DEFINE tx == Append(t, x)
  <2>1. /\ tx \in Seq(Runes) /\ Len(t) \in Nat /\ Len(tx) = Len(t) + 1
        /\ (\A j \in 1..Len(t) : tx[j] = t[j]) /\ tx[Len(t) + 1] = x
      BY Longer
  <2> HIDE DEF tx
  <2>2. Len(t) = Len(s) /\ i \in 1..Len(s)
      BY <1>4 DEF Replaced
  <2>3. ASSUME NEW j \in 1..Len(tx), j # i
        PROVE  tx[j] = sx[j]
    <3>1. CASE j = Len(t) + 1
        BY <1>1, <2>1, <2>2, <3>1
    <3>2. CASE j \in 1..Len(t)
      <4>1. t[j] = s[j]
          BY <1>4, <2>3, <3>2 DEF Replaced
      <4>2. j \in 1..Len(s)
          BY <2>2, <3>2
      <4> QED BY <1>1, <2>1, <3>2, <4>1, <4>2
    <3> QED BY <2>1, <2>3, <3>1, <3>2
  <2>4. i \in 1..Len(sx) /\ Len(tx) = Len(sx)
      BY <1>1, <2>1, <2>2
  <2>5. Replaced(tx, sx, i)
      BY <2>3, <2>4 DEF Replaced
  <2> QED BY <2>5 DEF tx
<1> QED BY <1>3, <1>4 DEF sx, sy

OneEdit(t, s) == \E i \in Nat : Removed(t, s, i) \/ Removed(s, t, i) \/ Replaced(t, s, i)

LEMMA RemovedByOne ==
    ASSUME NEW a \in Seq(Runes), NEW s \in Seq(Runes), NEW t \in Seq(Runes), NEW i \in Nat, Removed(t, s, i)
    PROVE  ByOne(Distance(a, s), Distance(a, t))
<1> DEFINE S == {w \in Seq(Runes) \X Seq(Runes) :
                   \A u \in Seq(Runes), j \in Nat :
                      Removed(u, w[2], j) => ByOne(Distance(w[1], w[2]), Distance(w[1], u))}
<1>1. ASSUME NEW c \in Seq(Runes), NEW g \in Seq(Runes),
             \A u, v \in Seq(Runes) : Len(u) + Len(v) < Len(c) + Len(g) => <<u, v>> \in S
      PROVE  <<c, g>> \in S
  <2> SUFFICES ASSUME NEW u \in Seq(Runes), NEW j \in Nat, Removed(u, g, j)
               PROVE  ByOne(Distance(c, g), Distance(c, u))
      OBVIOUS
  <2>0. Len(g) = Len(u) + 1 /\ Len(u) \in Nat /\ g # <<>>
      BY DEF Removed
  <2>1. PICK g1 \in Seq(Runes), x \in Runes : g = Append(g1, x)
      BY <2>0, LastOfSequence
  <2>2. CASE u = g1
    <3>1. ByOne(Distance(c, g), Distance(c, u))
        BY <2>1, <2>2, OneRuneMore
    <3> QED BY <3>1
  <2>3. CASE c = <<>>
    <3>1. Distance(c, g) = Len(g) /\ Distance(c, u) = Len(u)
        BY <2>3, DistanceOfNone
    <3> QED BY <2>0, <3>1 DEF ByOne
  <2>4. CASE u # g1 /\ c # <<>>
    <3>1. PICK c1 \in Seq(Runes), z \in Runes : c = Append(c1, z)
        BY <2>4, LastOfSequence
    <3>2. PICK u1 \in Seq(Runes) : u = Append(u1, x) /\ Removed(u1, g1, j)
        BY <2>1, <2>4, RemovedWhere
    <3>3. /\ Len(c) = Len(c1) + 1 /\ Len(c1) \in Nat /\ Len(g) = Len(g1) + 1 /\ Len(g1) \in Nat
        BY <2>1, <3>1, Longer
    <3>4. <<c1, g1>> \in S /\ <<c1, g>> \in S /\ <<c, g1>> \in S
      <4>1. /\ Len(c1) + Len(g1) < Len(c) + Len(g)
            /\ Len(c1) + Len(g) < Len(c) + Len(g)
            /\ Len(c) + Len(g1) < Len(c) + Len(g)
          BY <3>3
      <4> HIDE DEF S
      <4> QED BY <1>1, <4>1
    <3>5. /\ ByOne(Distance(c1, g1), Distance(c1, u1))
          /\ ByOne(Distance(c1, g), Distance(c1, u))
          /\ ByOne(Distance(c, g1), Distance(c, u1))
        BY <3>2, <3>4
    <3> HIDE DEF S
    <3>6. Swap(z, x) \in {0, 1}
        BY DEF Swap
    <3>7. LeastOf(Distance(c, g), Distance(c1, g1) + Swap(z, x), Distance(c1, g), Distance(c, g1))
        BY <2>1, <3>1, LastRunes
    <3>8. LeastOf(Distance(c, u), Distance(c1, u1) + Swap(z, x), Distance(c1, u), Distance(c, u1))
        BY <3>1, <3>2, LastRunes
    <3>9. /\ Distance(c1, g1) \in Nat /\ Distance(c1, g) \in Nat /\ Distance(c, g1) \in Nat
          /\ Distance(c1, u1) \in Nat /\ Distance(c1, u) \in Nat /\ Distance(c, u1) \in Nat
          /\ Distance(c, g) \in Nat /\ Distance(c, u) \in Nat
        BY DistanceIsNumber
    <3> DEFINE n == Distance(c, g)   p == Distance(c1, g1)   q == Distance(c1, g)   r == Distance(c, g1)
               n1 == Distance(c, u)  p1 == Distance(c1, u1)  q1 == Distance(c1, u)  r1 == Distance(c, u1)
               k == Swap(z, x)
    <3>10. /\ n \in Nat /\ p \in Nat /\ q \in Nat /\ r \in Nat /\ LeastOf(n, p + k, q, r)
           /\ n1 \in Nat /\ p1 \in Nat /\ q1 \in Nat /\ r1 \in Nat /\ LeastOf(n1, p1 + k, q1, r1)
           /\ ByOne(q, q1) /\ ByOne(r, r1) /\ ByOne(p, p1) /\ k \in {0, 1}
        BY <3>5, <3>6, <3>7, <3>8, <3>9
    <3> HIDE DEF n, p, q, r, n1, p1, q1, r1, k
    <3>11. ByOne(n, n1)
        BY <3>10 DEF ByOne, LeastOf
    <3> QED BY <3>11 DEF n, n1
  <2> QED BY <2>2, <2>3, <2>4
<1>2. <<a, s>> \in S
  <2> HIDE DEF S
  <2> QED BY <1>1, SequencesInduction
<1> QED BY <1>2

LEMMA ReplacedByOne ==
    ASSUME NEW a \in Seq(Runes), NEW s \in Seq(Runes), NEW t \in Seq(Runes), NEW i \in Nat, Replaced(t, s, i)
    PROVE  ByOne(Distance(a, s), Distance(a, t))
<1> DEFINE S == {w \in Seq(Runes) \X Seq(Runes) :
                   \A u \in Seq(Runes), j \in Nat :
                      Replaced(u, w[2], j) => ByOne(Distance(w[1], w[2]), Distance(w[1], u))}
<1>1. ASSUME NEW c \in Seq(Runes), NEW g \in Seq(Runes),
             \A u, v \in Seq(Runes) : Len(u) + Len(v) < Len(c) + Len(g) => <<u, v>> \in S
      PROVE  <<c, g>> \in S
  <2> SUFFICES ASSUME NEW u \in Seq(Runes), NEW j \in Nat, Replaced(u, g, j)
               PROVE  ByOne(Distance(c, g), Distance(c, u))
      OBVIOUS
  <2>0. Len(g) = Len(u) /\ Len(u) \in Nat /\ g # <<>>
      BY DEF Replaced
  <2>1. PICK g1 \in Seq(Runes), x \in Runes : g = Append(g1, x)
      BY <2>0, LastOfSequence
  <2>2. PICK u1 \in Seq(Runes), y \in Runes :
            u = Append(u1, y) /\ (u1 = g1 \/ (y = x /\ Replaced(u1, g1, j)))
    <3> HIDE DEF S
    <3>1. EndsAlike(u, g1, x, j)
        BY <2>1, ReplacedWhere
    <3> QED BY <3>1 DEF EndsAlike
  <2>3. CASE c = <<>>
    <3>1. Distance(c, g) = Len(g) /\ Distance(c, u) = Len(u)
        BY <2>3, DistanceOfNone
    <3> QED BY <2>0, <3>1 DEF ByOne
  <2>4. CASE c # <<>>
    <3>1. PICK c1 \in Seq(Runes), z \in Runes : c = Append(c1, z)
        BY <2>4, LastOfSequence
    <3>3. /\ Len(c) = Len(c1) + 1 /\ Len(c1) \in Nat /\ Len(g) = Len(g1) + 1 /\ Len(g1) \in Nat
        BY <2>1, <3>1, Longer
    <3>4. <<c1, g1>> \in S /\ <<c1, g>> \in S /\ <<c, g1>> \in S
      <4>1. /\ Len(c1) + Len(g1) < Len(c) + Len(g)
            /\ Len(c1) + Len(g) < Len(c) + Len(g)
            /\ Len(c) + Len(g1) < Len(c) + Len(g)
          BY <3>3
      <4> HIDE DEF S
      <4> QED BY <1>1, <4>1
    <3>5. Swap(z, x) \in {0, 1} /\ Swap(z, y) \in {0, 1}
        BY DEF Swap
    <3>6. /\ Distance(c1, g1) \in Nat /\ Distance(c1, g) \in Nat /\ Distance(c, g1) \in Nat
          /\ Distance(c1, u1) \in Nat /\ Distance(c1, u) \in Nat /\ Distance(c, u1) \in Nat
          /\ Distance(c, g) \in Nat /\ Distance(c, u) \in Nat
        BY DistanceIsNumber
    <3>7. /\ ByOne(Distance(c1, g), Distance(c1, u))
          /\ ByOne(Distance(c, g1), Distance(c, u1))
          /\ \/ Distance(c1, g1) = Distance(c1, u1)
             \/ Swap(z, x) = Swap(z, y) /\ ByOne(Distance(c1, g1), Distance(c1, u1))
      <4>1. ByOne(Distance(c1, g), Distance(c1, u))
          BY <3>4
      <4>2. CASE u1 = g1
        <5> HIDE DEF S
        <5>1. \A m \in Nat : ByOne(m, m)
            BY DEF ByOne
        <5>2. ByOne(Distance(c, g1), Distance(c, u1))
            BY <3>6, <4>2, <5>1
        <5> QED BY <4>1, <4>2, <5>2
      <4>3. CASE y = x /\ Replaced(u1, g1, j)
        <5>1. ByOne(Distance(c1, g1), Distance(c1, u1)) /\ ByOne(Distance(c, g1), Distance(c, u1))
            BY <3>4, <4>3
        <5> HIDE DEF S
        <5> QED BY <4>1, <4>3, <5>1
      <4> QED BY <2>2, <4>2, <4>3
    <3> HIDE DEF S
    <3>8. LeastOf(Distance(c, g), Distance(c1, g1) + Swap(z, x), Distance(c1, g), Distance(c, g1))
        BY <2>1, <3>1, LastRunes
    <3>9. LeastOf(Distance(c, u), Distance(c1, u1) + Swap(z, y), Distance(c1, u), Distance(c, u1))
        BY <2>2, <3>1, LastRunes
    <3> DEFINE n == Distance(c, g)   p == Distance(c1, g1)   q == Distance(c1, g)   r == Distance(c, g1)
               n1 == Distance(c, u)  p1 == Distance(c1, u1)  q1 == Distance(c1, u)  r1 == Distance(c, u1)
               k == Swap(z, x)       k1 == Swap(z, y)
    <3>10. /\ n \in Nat /\ p \in Nat /\ q \in Nat /\ r \in Nat /\ LeastOf(n, p + k, q, r)
           /\ n1 \in Nat /\ p1 \in Nat /\ q1 \in Nat /\ r1 \in Nat /\ LeastOf(n1, p1 + k1, q1, r1)
           /\ ByOne(q, q1) /\ ByOne(r, r1) /\ (p = p1 \/ (k = k1 /\ ByOne(p, p1)))
           /\ k \in {0, 1} /\ k1 \in {0, 1}
        BY <3>5, <3>6, <3>7, <3>8, <3>9
    <3> HIDE DEF n, p, q, r, n1, p1, q1, r1, k, k1
    <3>11. ByOne(n, n1)
        BY <3>10 DEF ByOne, LeastOf
    <3> QED BY <3>11 DEF n, n1
  <2> QED BY <2>3, <2>4
<1>2. <<a, s>> \in S
  <2> HIDE DEF S
  <2> QED BY <1>1, SequencesInduction
<1> QED BY <1>2

\* An edit makes a difference of at most one.
LEMMA EditByOne ==
    ASSUME NEW a \in Seq(Runes), NEW s \in Seq(Runes), NEW t \in Seq(Runes), OneEdit(t, s)
    PROVE  Distance(a, t) <= Distance(a, s) + 1
<1>1. PICK i \in Nat : Removed(t, s, i) \/ Removed(s, t, i) \/ Replaced(t, s, i)
    BY DEF OneEdit
<1>2. ByOne(Distance(a, s), Distance(a, t)) \/ ByOne(Distance(a, t), Distance(a, s))
    BY <1>1, RemovedByOne, ReplacedByOne
<1> QED BY <1>2 DEF ByOne

\* A text that is longer than another has a rune whose removal brings it nearer.
Shortens(a, b) == \E c \in Seq(Runes), i \in Nat : Removed(c, b, i) /\ Distance(a, c) < Distance(a, b)

LEMMA ShorterNearer ==
    ASSUME NEW a \in Seq(Runes), NEW b \in Seq(Runes), Len(a) < Len(b)
    PROVE  Shortens(a, b)
<1> DEFINE S == {w \in Seq(Runes) \X Seq(Runes) : Len(w[1]) < Len(w[2]) => Shortens(w[1], w[2])}
<1>1. ASSUME NEW c \in Seq(Runes), NEW g \in Seq(Runes),
             \A u, v \in Seq(Runes) : Len(u) + Len(v) < Len(c) + Len(g) => <<u, v>> \in S
      PROVE  <<c, g>> \in S
  <2> SUFFICES ASSUME Len(c) < Len(g) PROVE Shortens(c, g)
      OBVIOUS
  <2>0. g # <<>> /\ Len(c) \in Nat
      OBVIOUS
  <2>1. PICK g1 \in Seq(Runes), y \in Runes : g = Append(g1, y)
      BY <2>0, LastOfSequence
  <2>2. Len(g) = Len(g1) + 1 /\ Len(g1) \in Nat /\ Removed(g1, g, Len(g1) + 1) /\ Len(g1) + 1 \in Nat
    <3>1. Len(g) = Len(g1) + 1 /\ Len(g1) \in Nat
        BY <2>1, Longer
    <3>2. Removed(g1, g, Len(g1) + 1)
        BY <2>1, RemovedLonger
    <3> QED BY <3>1, <3>2
  <2>3. ASSUME Distance(c, g1) < Distance(c, g)
        PROVE  Shortens(c, g)
      BY <2>2, <2>3 DEF Shortens
  <2>4. CASE c = <<>>
    <3>1. Distance(c, g) = Len(g) /\ Distance(c, g1) = Len(g1)
        BY <2>4, DistanceOfNone
    <3>2. Distance(c, g1) < Distance(c, g)
        BY <2>2, <3>1
    <3> QED BY <2>3, <3>2
  <2>5. CASE c # <<>>
    <3>1. PICK c1 \in Seq(Runes), x \in Runes : c = Append(c1, x)
        BY <2>5, LastOfSequence
    <3>2. Len(c) = Len(c1) + 1 /\ Len(c1) \in Nat
        BY <3>1, Longer
    <3>3. Shortens(c1, g1) /\ Shortens(c1, g)
      <4>1. /\ Len(c1) + Len(g1) < Len(c) + Len(g)
            /\ Len(c1) + Len(g) < Len(c) + Len(g)
            /\ Len(c1) < Len(g1) /\ Len(c1) < Len(g)
          BY <2>2, <3>2
      <4>2. <<c1, g1>> \in S /\ <<c1, g>> \in S
        <5> HIDE DEF S
        <5> QED BY <1>1, <4>1
      <4> QED BY <4>1, <4>2
    <3> HIDE DEF S
    <3>4. LeastOf(Distance(c, g), Distance(c1, g1) + Swap(x, y), Distance(c1, g), Distance(c, g1))
        BY <2>1, <3>1, LastRunes
    <3>5. /\ Distance(c1, g1) \in Nat /\ Distance(c1, g) \in Nat /\ Distance(c, g1) \in Nat
          /\ Distance(c, g) \in Nat
        BY DistanceIsNumber
    <3>6. CASE Distance(c, g) = Distance(c1, g1) + Swap(x, y)
      <4>1. PICK h \in Seq(Runes), i \in Nat : Removed(h, g1, i) /\ Distance(c1, h) < Distance(c1, g1)
          BY <3>3 DEF Shortens
      <4> DEFINE hy == Append(h, y)
      <4>2. hy \in Seq(Runes)
          BY Longer
      <4>3. Removed(hy, g, i)
          BY <2>1, <4>1, RemovedLonger
      <4>4. LeastOf(Distance(c, hy), Distance(c1, h) + Swap(x, y), Distance(c1, hy), Distance(c, h))
          BY <3>1, LastRunes
      <4>5. Distance(c, hy) \in Nat /\ Distance(c1, h) \in Nat
          BY <4>2, DistanceIsNumber
      <4> HIDE DEF hy
      <4>6. Distance(c, hy) < Distance(c, g)
        <5>1. Swap(x, y) \in {0, 1}
            BY DEF Swap
        <5> DEFINE n == Distance(c, g)  p == Distance(c1, g1)  m == Distance(c, hy)  q == Distance(c1, h)
                   k == Swap(x, y)
        <5>2. n \in Nat /\ p \in Nat /\ m \in Nat /\ q \in Nat /\ k \in {0, 1} /\ n = p + k /\ q < p
            BY <3>5, <3>6, <4>1, <4>5, <5>1
        <5>3. m <= q + k
            BY <4>4 DEF LeastOf
        <5> HIDE DEF n, p, m, q, k
        <5>4. m < n
            BY <5>2, <5>3
        <5> QED BY <5>4 DEF m, n
      <4> QED BY <4>2, <4>3, <4>6 DEF Shortens
    <3>7. CASE Distance(c, g) = Distance(c1, g) + 1
      <4>1. PICK h \in Seq(Runes), i \in Nat : Removed(h, g, i) /\ Distance(c1, h) < Distance(c1, g)
          BY <3>3 DEF Shortens
      <4>2. ByOne(Distance(c, h), Distance(c1, h))
          BY <3>1, OneRuneMore
      <4>3. Distance(c, h) \in Nat /\ Distance(c1, h) \in Nat
          BY DistanceIsNumber
      <4> DEFINE m == Distance(c, h)  n == Distance(c1, h)  p == Distance(c1, g)  q == Distance(c, g)
      <4>4. m \in Nat /\ n \in Nat /\ p \in Nat /\ q = p + 1 /\ n < p /\ ByOne(m, n)
          BY <3>5, <3>7, <4>1, <4>2, <4>3
      <4> HIDE DEF m, n, p, q
      <4>5. m < q
          BY <4>4 DEF ByOne
      <4> QED BY <4>1, <4>5 DEF Shortens, m, q
    <3>8. CASE Distance(c, g) = Distance(c, g1) + 1
      <4>1. Distance(c, g1) < Distance(c, g)
          BY <3>5, <3>8
      <4> QED BY <2>3, <4>1
    <3>9. \/ Distance(c, g) = Distance(c1, g1) + Swap(x, y)
          \/ Distance(c, g) = Distance(c1, g) + 1
          \/ Distance(c, g) = Distance(c, g1) + 1
        BY <3>4 DEF LeastOf
    <3> QED BY <3>6, <3>7, <3>8, <3>9
  <2> QED BY <2>4, <2>5
<1>2. <<a, b>> \in S
  <2> HIDE DEF S
  <2> QED BY <1>1, SequencesInduction
<1> QED BY <1>2

\* Two texts at a distance: an edit brings one nearer to the other, and makes it no
\* longer than the longer of them.
ComesNearer(a, b) ==
    \E c \in Seq(Runes) :
       /\ Len(c) <= Len(a) \/ Len(c) <= Len(b)
       /\ OneEdit(b, c)
       /\ Distance(a, c) < Distance(a, b)

\* What an edit does, it also does before a rune that both have.
LEMMA EditedLonger ==
    ASSUME NEW s \in Seq(Runes), NEW t \in Seq(Runes), NEW x \in Runes, OneEdit(t, s),
           NEW sx, NEW tx, sx = Append(s, x), tx = Append(t, x)
    PROVE  OneEdit(tx, sx)
<1>1. PICK i \in Nat : Removed(t, s, i) \/ Removed(s, t, i) \/ Replaced(t, s, i)
    BY DEF OneEdit
<1>2. Removed(tx, sx, i) \/ Removed(sx, tx, i) \/ Replaced(tx, sx, i)
    BY <1>1, RemovedLonger, ReplacedLonger
<1> QED BY <1>2 DEF OneEdit

\* And what it does at the end.
LEMMA EditedEnd ==
    ASSUME NEW s \in Seq(Runes), NEW x \in Runes, NEW sx, sx = Append(s, x)
    PROVE  /\ OneEdit(s, sx) /\ OneEdit(sx, s)
           /\ \A y \in Runes : OneEdit(Append(s, y), sx)
<1>1. Len(s) + 1 \in Nat
    OBVIOUS
<1>2. Removed(s, sx, Len(s) + 1)
    BY RemovedLonger
<1>3. \A y \in Runes : Replaced(Append(s, y), sx, Len(s) + 1)
    BY ReplacedLonger
<1> QED BY <1>1, <1>2, <1>3 DEF OneEdit

LEMMA Nearer ==
    ASSUME NEW a \in Seq(Runes), NEW b \in Seq(Runes), a # b
    PROVE  ComesNearer(a, b)
<1> DEFINE S == {w \in Seq(Runes) \X Seq(Runes) : w[1] # w[2] => ComesNearer(w[1], w[2])}
<1>1. ASSUME NEW c \in Seq(Runes), NEW g \in Seq(Runes),
             \A u, v \in Seq(Runes) : Len(u) + Len(v) < Len(c) + Len(g) => <<u, v>> \in S
      PROVE  <<c, g>> \in S
  <2> SUFFICES ASSUME c # g PROVE ComesNearer(c, g)
      OBVIOUS
  <2>0. Len(c) \in Nat /\ Len(g) \in Nat
      OBVIOUS
  <2>1. CASE Len(c) < Len(g)
    <3>1. PICK h \in Seq(Runes), i \in Nat : Removed(h, g, i) /\ Distance(c, h) < Distance(c, g)
        BY <2>1, ShorterNearer DEF Shortens
    <3>2. OneEdit(g, h)
        BY <3>1 DEF OneEdit
    <3>3. Len(h) <= Len(g)
        BY <3>1 DEF Removed
    <3> QED BY <3>1, <3>2, <3>3 DEF ComesNearer
  <2>2. CASE ~(Len(c) < Len(g))
    <3>1. c # <<>>
      <4> SUFFICES ASSUME c = <<>> PROVE FALSE
          OBVIOUS
      <4>1. Len(g) = 0
          BY <2>0, <2>2
      <4> QED BY <4>1
    <3>2. PICK c1 \in Seq(Runes), x \in Runes : c = Append(c1, x)
        BY <3>1, LastOfSequence
    <3>3. Len(c) = Len(c1) + 1 /\ Len(c1) \in Nat
        BY <3>2, Longer
    <3>4. Swap(x, x) = 0
        BY DEF Swap
    <3>5. CASE g = <<>>
      <4>1. <<>> \in Seq(Runes)
          OBVIOUS
      <4> DEFINE h == Append(<<>>, x)
      <4>2. h \in Seq(Runes) /\ Len(h) = 0 + 1
          BY <4>1, Longer
      <4>3. OneEdit(g, h)
          BY <3>5, <4>1, EditedEnd
      <4>4. LeastOf(Distance(c, h), Distance(c1, <<>>) + Swap(x, x), Distance(c1, h), Distance(c, <<>>))
          BY <3>2, <4>1, LastRunes
      <4> HIDE DEF h
      <4>5. Distance(c1, <<>>) = Len(c1) /\ Distance(c, g) = Len(c) /\ Distance(c, h) \in Nat
          BY <3>5, <4>2, DistanceOfNone, DistanceIsNumber
      <4>6. Distance(c, h) <= Len(c1)
          BY <3>3, <3>4, <4>4, <4>5 DEF LeastOf
      <4>7. Distance(c, h) < Distance(c, g)
          BY <3>3, <4>5, <4>6
      <4>8. Len(h) <= Len(c)
          BY <3>3, <4>2
      <4> QED BY <4>2, <4>3, <4>7, <4>8 DEF ComesNearer
    <3>6. CASE g # <<>>
      <4>1. PICK g1 \in Seq(Runes), y \in Runes : g = Append(g1, y)
          BY <3>6, LastOfSequence
      <4>2. Len(g) = Len(g1) + 1 /\ Len(g1) \in Nat
          BY <4>1, Longer
      <4>3. LeastOf(Distance(c, g), Distance(c1, g1) + Swap(x, y), Distance(c1, g), Distance(c, g1))
          BY <3>2, <4>1, LastRunes
      <4>4. /\ Distance(c1, g1) \in Nat /\ Distance(c1, g) \in Nat /\ Distance(c, g1) \in Nat
            /\ Distance(c, g) \in Nat
          BY DistanceIsNumber
      <4>5. CASE x = y
        <5>1. c1 # g1 /\ Distance(c, g) = Distance(c1, g1)
            BY <3>2, <4>1, <4>5, DistanceOfLonger
        <5>2. <<c1, g1>> \in S
          <6>1. Len(c1) + Len(g1) < Len(c) + Len(g)
              BY <3>3, <4>2
          <6> HIDE DEF S
          <6> QED BY <1>1, <6>1
        <5>3. ComesNearer(c1, g1)
            BY <5>1, <5>2
        <5>4. PICK h \in Seq(Runes) : /\ Len(h) <= Len(c1) \/ Len(h) <= Len(g1)
                                      /\ OneEdit(g1, h)
                                      /\ Distance(c1, h) < Distance(c1, g1)
            BY <5>3 DEF ComesNearer
        <5> DEFINE hy == Append(h, y)
        <5>5. hy \in Seq(Runes) /\ Len(hy) = Len(h) + 1 /\ Len(h) \in Nat
            BY Longer
        <5>6. OneEdit(g, hy)
            BY <4>1, <5>4, EditedLonger
        <5>7. Distance(c, hy) = Distance(c1, h)
            BY <3>2, <4>5, DistanceOfLonger
        <5> HIDE DEF hy, S
        <5>8. Distance(c, hy) < Distance(c, g)
            BY <5>1, <5>4, <5>7
        <5>9. Len(hy) <= Len(c) \/ Len(hy) <= Len(g)
            BY <3>3, <4>2, <5>4, <5>5
        <5> QED BY <5>5, <5>6, <5>8, <5>9 DEF ComesNearer
      <4>6. CASE x # y
        <5>1. CASE Distance(c, g) = Distance(c1, g1) + 1
          <6> DEFINE h == Append(g1, x)
          <6>1. h \in Seq(Runes) /\ Len(h) = Len(g)
              BY <4>2, Longer
          <6>2. OneEdit(g, h)
              BY <4>1, EditedEnd
          <6>3. Distance(c, h) = Distance(c1, g1)
              BY <3>2, DistanceOfLonger
          <6> HIDE DEF h
          <6>4. Distance(c, h) < Distance(c, g) /\ Len(h) <= Len(g)
              BY <2>0, <4>4, <5>1, <6>1, <6>3
          <6> QED BY <6>1, <6>2, <6>4 DEF ComesNearer
        <5>2. CASE Distance(c, g) = Distance(c1, g) + 1
          <6>1. CASE Len(g) <= Len(c1)
            <7> DEFINE h == Append(g, x)
            <7>1. h \in Seq(Runes) /\ Len(h) = Len(g) + 1
                BY Longer
            <7>2. OneEdit(g, h)
                BY EditedEnd
            <7>3. Distance(c, h) = Distance(c1, g)
                BY <3>2, DistanceOfLonger
            <7> HIDE DEF h
            <7>4. Distance(c, h) < Distance(c, g) /\ Len(h) <= Len(c)
                BY <2>0, <3>3, <4>4, <5>2, <6>1, <7>1, <7>3
            <7> QED BY <7>1, <7>2, <7>4 DEF ComesNearer
          <6>2. CASE Len(c1) < Len(g)
            <7>1. PICK h \in Seq(Runes), i \in Nat : Removed(h, g, i) /\ Distance(c1, h) < Distance(c1, g)
                BY <6>2, ShorterNearer DEF Shortens
            <7>2. OneEdit(g, h)
                BY <7>1 DEF OneEdit
            <7>3. Len(h) <= Len(g)
                BY <7>1 DEF Removed
            <7>4. ByOne(Distance(c, h), Distance(c1, h))
                BY <3>2, OneRuneMore
            <7>5. Distance(c, h) \in Nat /\ Distance(c1, h) \in Nat
                BY DistanceIsNumber
            <7> DEFINE m == Distance(c, h)  n == Distance(c1, h)  p == Distance(c1, g)  q == Distance(c, g)
            <7>6. m \in Nat /\ n \in Nat /\ p \in Nat /\ q = p + 1 /\ n < p /\ ByOne(m, n)
                BY <4>4, <5>2, <7>1, <7>4, <7>5
            <7> HIDE DEF m, n, p, q
            <7>7. m < q
                BY <7>6 DEF ByOne
            <7> QED BY <7>2, <7>3, <7>7 DEF ComesNearer, m, q
          <6> QED BY <2>0, <3>3, <6>1, <6>2
        <5>3. CASE Distance(c, g) = Distance(c, g1) + 1
          <6>1. OneEdit(g, g1)
              BY <4>1, EditedEnd
          <6>2. Distance(c, g1) < Distance(c, g) /\ Len(g1) <= Len(g)
              BY <4>2, <4>4, <5>3
          <6> QED BY <6>1, <6>2 DEF ComesNearer
        <5>4. Swap(x, y) = 1
            BY <4>6 DEF Swap
        <5>5. \/ Distance(c, g) = Distance(c1, g1) + 1
              \/ Distance(c, g) = Distance(c1, g) + 1
              \/ Distance(c, g) = Distance(c, g1) + 1
            BY <4>3, <5>4 DEF LeastOf
        <5> QED BY <5>1, <5>2, <5>3, <5>5
      <4> QED BY <4>5, <4>6
    <3> QED BY <3>5, <3>6
  <2> QED BY <2>1, <2>2
<1>2. <<a, b>> \in S
  <2> HIDE DEF S
  <2> QED BY <1>1, SequencesInduction
<1> QED BY <1>2

\* What is left of a text without a rune, and what a text is with one more.
Without(s, i) == SubSeq(s, 1, i - 1) \o SubSeq(s, i + 1, Len(s))
With(s, i, r) == SubSeq(s, 1, i) \o <<r>> \o SubSeq(s, i + 1, Len(s))

\* The two parts of a text around a place.
LEMMA FirstPart ==
    ASSUME NEW s \in Seq(Runes), NEW k \in 0..Len(s), NEW u, u = SubSeq(s, 1, k)
    PROVE  u \in Seq(Runes) /\ Len(u) = k /\ \A j \in 1..k : u[j] = s[j]
<1>1. \A j \in 1..k : s[j] \in Runes
    OBVIOUS
<1>2. 1 \in Int /\ k \in Int
    OBVIOUS
<1>3. /\ u \in Seq(Runes) /\ Len(u) = (IF 1 <= k THEN k - 1 + 1 ELSE 0)
      /\ \A j \in 1..(k - 1 + 1) : u[j] = s[1 + j - 1]
    BY <1>1, <1>2, SubSeqProperties
<1> QED BY <1>2, <1>3

LEMMA LastPart ==
    ASSUME NEW s \in Seq(Runes), NEW k \in 0..Len(s), NEW u, u = SubSeq(s, k + 1, Len(s))
    PROVE  u \in Seq(Runes) /\ Len(u) = Len(s) - k /\ \A j \in 1..(Len(s) - k) : u[j] = s[k + j]
<1> DEFINE n == Len(s)
           m == k + 1
<1>1. n \in Nat /\ k \in Nat /\ k <= n /\ m \in Int /\ n \in Int
    OBVIOUS
<1>2. \A j \in m..n : s[j] \in Runes
    OBVIOUS
<1>3. u = SubSeq(s, m, n) /\ m = k + 1 /\ n = Len(s)
    OBVIOUS
<1> HIDE DEF m, n
<1>4. /\ u \in Seq(Runes) /\ Len(u) = (IF m <= n THEN n - m + 1 ELSE 0)
      /\ \A j \in 1..(n - m + 1) : u[j] = s[m + j - 1]
    BY <1>1, <1>2, <1>3, SubSeqProperties
<1>5. Len(u) = n - k
    BY <1>1, <1>3, <1>4
<1>6. ASSUME NEW j \in 1..(n - k) PROVE u[j] = s[k + j]
  <2>1. j \in 1..(n - m + 1) /\ m + j - 1 = k + j
      BY <1>1, <1>3
  <2> QED BY <1>4, <2>1
<1> QED BY <1>3, <1>4, <1>5, <1>6

LEMMA WithoutRemoves ==
    ASSUME NEW s \in Seq(Runes), NEW i \in 1..Len(s)
    PROVE  Without(s, i) \in Seq(Runes) /\ Removed(Without(s, i), s, i)
<1> DEFINE n == Len(s)
           u == SubSeq(s, 1, i - 1)
           v == SubSeq(s, i + 1, n)
           t == Without(s, i)
<1>1. n \in Nat /\ i \in Nat /\ i - 1 \in 0..n /\ i \in 0..n /\ i \in 1..n
    OBVIOUS
<1>2. u \in Seq(Runes) /\ Len(u) = i - 1 /\ \A j \in 1..(i - 1) : u[j] = s[j]
    BY <1>1, FirstPart
<1>3. v \in Seq(Runes) /\ Len(v) = n - i /\ \A j \in 1..(n - i) : v[j] = s[i + j]
    BY <1>1, LastPart
<1>4. t = u \o v
    BY DEF Without
<1> HIDE DEF u, v, t
<1>5. /\ t \in Seq(Runes) /\ Len(t) = Len(u) + Len(v)
      /\ \A j \in 1..(Len(u) + Len(v)) : t[j] = IF j <= Len(u) THEN u[j] ELSE v[j - Len(u)]
    BY <1>2, <1>3, <1>4, ConcatProperties
<1>6. Len(t) = n - 1
    BY <1>1, <1>2, <1>3, <1>5
<1>7. ASSUME NEW j \in 1..Len(t)
      PROVE  t[j] = IF j < i THEN s[j] ELSE s[j + 1]
  <2>1. t[j] = IF j <= i - 1 THEN u[j] ELSE v[j - (i - 1)]
      BY <1>2, <1>5
  <2>2. CASE j < i
    <3>1. j <= i - 1 /\ j \in 1..(i - 1)
        BY <1>1, <1>6, <2>2
    <3> QED BY <1>2, <2>1, <2>2, <3>1
  <2>3. CASE ~(j < i)
    <3>1. ~(j <= i - 1) /\ j - (i - 1) \in 1..(n - i) /\ i + (j - (i - 1)) = j + 1
        BY <1>1, <1>6, <2>3
    <3> QED BY <1>3, <2>1, <2>3, <3>1
  <2> QED BY <2>2, <2>3
<1>8. Removed(t, s, i)
    BY <1>1, <1>6, <1>7 DEF Removed
<1> QED BY <1>5, <1>8 DEF t

LEMMA WithInserts ==
    ASSUME NEW s \in Seq(Runes), NEW i \in 0..Len(s), NEW r \in Runes
    PROVE  With(s, i, r) \in Seq(Runes) /\ Removed(s, With(s, i, r), i + 1) /\ With(s, i, r)[i + 1] = r
<1> DEFINE n == Len(s)
           u == SubSeq(s, 1, i)
           v == SubSeq(s, i + 1, n)
           w == u \o <<r>>
           t == With(s, i, r)
<1>1. n \in Nat /\ i \in Nat /\ i \in 0..n /\ i <= n
    OBVIOUS
<1>2. u \in Seq(Runes) /\ Len(u) = i /\ \A j \in 1..i : u[j] = s[j]
    BY <1>1, FirstPart
<1>3. v \in Seq(Runes) /\ Len(v) = n - i /\ \A j \in 1..(n - i) : v[j] = s[i + j]
    BY <1>1, LastPart
<1>4. t = w \o v
    BY DEF With
<1>5. <<r>> \in Seq(Runes) /\ Len(<<r>>) = 1 /\ <<r>>[1] = r
    OBVIOUS
<1> HIDE DEF u, v, t
<1>6. /\ w \in Seq(Runes) /\ Len(w) = Len(u) + Len(<<r>>)
      /\ \A j \in 1..(Len(u) + Len(<<r>>)) : w[j] = IF j <= Len(u) THEN u[j] ELSE <<r>>[j - Len(u)]
    BY <1>2, <1>5, ConcatProperties
<1> HIDE DEF w
<1>7. Len(w) = i + 1 /\ (\A j \in 1..i : w[j] = s[j]) /\ w[i + 1] = r
  <2>1. Len(w) = i + 1
      BY <1>1, <1>2, <1>5, <1>6
  <2>2. \A j \in 1..i : w[j] = s[j]
    <3>1. \A j \in 1..i : j \in 1..(Len(u) + Len(<<r>>)) /\ j <= Len(u)
        BY <1>1, <1>2, <1>5
    <3> QED BY <1>2, <1>6, <3>1
  <2>3. w[i + 1] = r
    <3>1. i + 1 \in 1..(Len(u) + Len(<<r>>)) /\ ~(i + 1 <= Len(u)) /\ (i + 1) - Len(u) = 1
        BY <1>1, <1>2, <1>5
    <3> QED BY <1>5, <1>6, <3>1
  <2> QED BY <2>1, <2>2, <2>3
<1>8. /\ t \in Seq(Runes) /\ Len(t) = Len(w) + Len(v)
      /\ \A j \in 1..(Len(w) + Len(v)) : t[j] = IF j <= Len(w) THEN w[j] ELSE v[j - Len(w)]
  <2>1. w \in Seq(Runes) /\ v \in Seq(Runes)
      BY <1>3, <1>6
  <2> QED BY <1>4, <2>1, ConcatProperties
<1>9. Len(t) = n + 1
    BY <1>1, <1>3, <1>7, <1>8
<1>10. ASSUME NEW j \in 1..n
       PROVE  s[j] = IF j < i + 1 THEN t[j] ELSE t[j + 1]
  <2>1. CASE j < i + 1
    <3>1. j \in 1..i /\ j <= i + 1 /\ j \in 1..(Len(w) + Len(v))
        BY <1>1, <1>3, <1>7, <2>1
    <3> QED BY <1>7, <1>8, <2>1, <3>1
  <2>2. CASE ~(j < i + 1)
    <3>1. /\ ~(j + 1 <= i + 1) /\ j + 1 \in 1..(Len(w) + Len(v)) /\ (j + 1) - (i + 1) \in 1..(n - i)
          /\ i + ((j + 1) - (i + 1)) = j
        BY <1>1, <1>3, <1>7, <2>2
    <3> QED BY <1>3, <1>7, <1>8, <2>2, <3>1
  <2> QED BY <2>1, <2>2
<1>11. t[i + 1] = r
  <2>1. i + 1 \in 1..(Len(w) + Len(v)) /\ i + 1 <= Len(w)
      BY <1>1, <1>3, <1>7
  <2> QED BY <1>7, <1>8, <2>1
<1>12. Removed(s, t, i + 1)
    BY <1>1, <1>9, <1>10 DEF Removed
<1> QED BY <1>8, <1>11, <1>12 DEF t

\* The edits of the reference definition are those the proofs speak of.
LEMMA EditsAreEdits ==
    ASSUME NEW s \in Seq(Runes), NEW t \in Seq(Runes)
    PROVE  t \in Edited(s) <=> OneEdit(t, s)
<1>0. /\ Len(s) \in Nat /\ (\A i \in 1..Len(s) : s[i] \in Runes)
      /\ Len(t) \in Nat /\ (\A i \in 1..Len(t) : t[i] \in Runes)
    OBVIOUS
<1>1. t \in Edited(s) <=> \/ \E i \in 1..Len(s) : t = Without(s, i)
                          \/ \E i \in 1..Len(s), r \in Runes : t = [s EXCEPT ![i] = r]
                          \/ \E i \in 0..Len(s), r \in Runes : t = With(s, i, r)
  <2> DEFINE R == {Without(s, i) : i \in 1..Len(s)}
             C == {[s EXCEPT ![i] = r] : i \in 1..Len(s), r \in Runes}
             I == {With(s, i, r) : i \in 0..Len(s), r \in Runes}
  <2>1. Edited(s) = R \cup C \cup I
      BY DEF Edited, Without, With
  <2>2. /\ t \in R <=> \E i \in 1..Len(s) : t = Without(s, i)
        /\ t \in C <=> \E i \in 1..Len(s), r \in Runes : t = [s EXCEPT ![i] = r]
        /\ t \in I <=> \E i \in 0..Len(s), r \in Runes : t = With(s, i, r)
      OBVIOUS
  <2> HIDE DEF R, C, I
  <2> QED BY <2>1, <2>2
<1>2. ASSUME NEW i \in 1..Len(s), t = Without(s, i)
      PROVE  OneEdit(t, s)
  <2>1. Removed(t, s, i) /\ i \in Nat
      BY <1>2, WithoutRemoves
  <2> QED BY <2>1 DEF OneEdit
<1>3. ASSUME NEW i \in 1..Len(s), NEW r \in Runes, t = [s EXCEPT ![i] = r]
      PROVE  OneEdit(t, s)
  <2>1. Len(t) = Len(s) /\ \A j \in 1..Len(s) : j # i => t[j] = s[j]
      BY <1>3, ExceptSeq
  <2>2. Replaced(t, s, i) /\ i \in Nat
      BY <2>1 DEF Replaced
  <2> QED BY <2>2 DEF OneEdit
<1>4. ASSUME NEW i \in 0..Len(s), NEW r \in Runes, t = With(s, i, r)
      PROVE  OneEdit(t, s)
  <2>1. Removed(s, t, i + 1) /\ i + 1 \in Nat
      BY <1>4, WithInserts
  <2> QED BY <2>1 DEF OneEdit
<1>5. ASSUME NEW i \in Nat, Removed(t, s, i)
      PROVE  \E k \in 1..Len(s) : t = Without(s, k)
  <2> DEFINE u == Without(s, i)
  <2>1. i \in 1..Len(s)
      BY <1>5 DEF Removed
  <2>2. u \in Seq(Runes) /\ Removed(u, s, i)
      BY <2>1, WithoutRemoves
  <2> HIDE DEF u
  <2>3. Len(t) = Len(u) /\ \A j \in 1..Len(t) : t[j] = u[j]
      BY <1>0, <1>5, <2>2 DEF Removed
  <2>4. t = u
      BY <2>2, <2>3, SeqEqual
  <2> QED BY <2>1, <2>4 DEF u
<1>6. ASSUME NEW i \in Nat, Replaced(t, s, i)
      PROVE  \E k \in 1..Len(s), r \in Runes : t = [s EXCEPT ![k] = r]
  <2>1. i \in 1..Len(s) /\ Len(t) = Len(s) /\ t[i] \in Runes
      BY <1>0, <1>6 DEF Replaced
  <2> DEFINE u == [s EXCEPT ![i] = t[i]]
  <2>2. u \in Seq(Runes) /\ Len(u) = Len(s) /\ \A j \in 1..Len(s) : u[j] = IF j = i THEN t[i] ELSE s[j]
      BY <2>1, ExceptSeq
  <2> HIDE DEF u
  <2>3. \A j \in 1..Len(t) : t[j] = u[j]
      BY <1>6, <2>1, <2>2 DEF Replaced
  <2>4. t = u
      BY <2>1, <2>2, <2>3, SeqEqual
  <2> QED BY <2>1, <2>4 DEF u
<1>7. ASSUME NEW i \in Nat, Removed(s, t, i)
      PROVE  \E k \in 0..Len(s), r \in Runes : t = With(s, k, r)
  <2>1. Len(t) = Len(s) + 1 /\ i \in 1..Len(t) /\ t[i] \in Runes
      BY <1>0, <1>7 DEF Removed
  <2> DEFINE k == i - 1
             u == With(s, k, t[i])
  <2>2. k \in 0..Len(s) /\ k + 1 = i
      BY <1>0, <2>1
  <2> HIDE DEF k
  <2>3. u \in Seq(Runes) /\ Removed(s, u, i) /\ u[i] = t[i]
    <3>1. u \in Seq(Runes) /\ Removed(s, u, k + 1) /\ u[k + 1] = t[i]
        BY <2>1, <2>2, WithInserts
    <3> HIDE DEF u
    <3> QED BY <2>2, <3>1
  <2> HIDE DEF u
  <2>4. Len(u) = Len(t)
      BY <2>1, <2>3 DEF Removed
  <2>5. ASSUME NEW j \in 1..Len(t)
        PROVE  t[j] = u[j]
    <3>1. CASE j < i
      <4>1. j \in 1..Len(s)
          BY <1>0, <2>1, <3>1
      <4> QED BY <1>7, <2>3, <3>1, <4>1 DEF Removed
    <3>2. CASE i < j
      <4>1. j - 1 \in 1..Len(s) /\ ~(j - 1 < i) /\ (j - 1) + 1 = j
          BY <1>0, <2>1, <3>2
      <4> QED BY <1>7, <2>3, <4>1 DEF Removed
    <3>3. CASE j = i
        BY <2>3, <3>3
    <3> QED BY <2>1, <3>1, <3>2, <3>3
  <2>6. t = u
      BY <2>3, <2>4, <2>5, SeqEqual
  <2> QED BY <2>1, <2>2, <2>6 DEF u
<1>8. OneEdit(t, s) <=> \E i \in Nat : Removed(t, s, i) \/ Removed(s, t, i) \/ Replaced(t, s, i)
    BY DEF OneEdit
<1> QED BY <1>1, <1>2, <1>3, <1>4, <1>5, <1>6, <1>7, <1>8

\* A tenth for tenth measure is full just when nothing is missing.
LEMMA WholeTenths ==
    ASSUME NEW l \in Nat, l > 0, NEW d \in Nat
    PROVE  (10 * (l - d)) \div l = 10 <=> d = 0
<1> DEFINE q == (10 * (l - d)) \div l
           r == (10 * (l - d)) % l
<1>1. q \in Int /\ r \in Int /\ 0 <= r /\ r < l /\ 10 * (l - d) = l * q + r
    OBVIOUS
<1>2. q = 10 => d = 0
    BY <1>1
<1>3. d = 0 => q = 10
    BY <1>1
<1> QED BY <1>2, <1>3

LEMMA TextsAre ==
    /\ MaxText \in Nat
    /\ \A b : b \in Texts <=> b \in Seq(Runes) /\ Len(b) <= MaxText
<1>1. MaxText \in Nat
    BY VerdictsAssumption
<1>2. Texts = UNION {[1..m -> Runes] : m \in 0..MaxText}
    BY DEF Texts, BoundedSeq, SeqOf
<1>3. ASSUME NEW b, b \in Texts
      PROVE  b \in Seq(Runes) /\ Len(b) <= MaxText
  <2>1. PICK m \in 0..MaxText : b \in [1..m -> Runes]
      BY <1>2, <1>3
  <2>2. m \in Nat
      BY <1>1
  <2>3. b \in Seq(Runes) /\ Len(b) = m
      BY <2>1, <2>2
  <2> QED BY <1>1, <2>3
<1>4. ASSUME NEW b, b \in Seq(Runes), Len(b) <= MaxText
      PROVE  b \in Texts
  <2>1. b \in [1..Len(b) -> Runes] /\ Len(b) \in 0..MaxText
      BY <1>1, <1>4
  <2> QED BY <1>2, <2>1
<1> QED BY <1>1, <1>3, <1>4

\* What n edits reach is what the table puts at a distance of n at most.
OneMore(T) == T \cup (Texts \cap UNION {Edited(t) : t \in T})

LEMMA ReachableBySteps ==
    ASSUME NEW a \in Texts
    PROVE  /\ Reachable(a)[0] = {a}
           /\ \A n \in 1..MaxText : Reachable(a)[n] = OneMore(Reachable(a)[n - 1])
<1> DEFINE Cell(f, n) == IF n = 0 THEN {a} ELSE OneMore(f[n - 1])
           reach == CHOOSE f : f = [n \in 0..MaxText |-> Cell(f, n)]
           G == [c \in Nat \X SUBSET Texts |-> OneMore(c[2])]
<1>0. MaxText \in Nat
    BY TextsAre
<1>1. \A n \in Nat, T \in SUBSET Texts : G[<<n, T>>] = OneMore(T) /\ OneMore(T) \in SUBSET Texts
    BY DEF OneMore
<1>2. G \in StepsOn(SUBSET Texts)
  <2>1. \A c \in Nat \X SUBSET Texts : OneMore(c[2]) \in SUBSET Texts
      BY DEF OneMore
  <2> QED BY <2>1 DEF StepsOn
<1>3. PICK f : Unfolds(f, SUBSET Texts, {a}, G, MaxText)
  <2> HIDE DEF G
  <2>1. {a} \in SUBSET Texts
      OBVIOUS
  <2> QED BY <1>0, <1>2, <2>1, Recursion
<1> HIDE DEF G
<1>4. \A n \in 0..MaxText : f[n] = Cell(f, n)
  <2> SUFFICES ASSUME NEW n \in 0..MaxText PROVE f[n] = Cell(f, n)
      OBVIOUS
  <2>1. CASE n = 0
      BY <1>3, <2>1 DEF Unfolds
  <2>2. CASE n # 0
    <3>1. n \in 1..MaxText /\ n - 1 \in 0..MaxText /\ n - 1 \in Nat
        BY <1>0, <2>2
    <3>2. f[n - 1] \in SUBSET Texts /\ f[n] = G[<<n - 1, f[n - 1]>>]
        BY <1>3, <3>1 DEF Unfolds
    <3>3. f[n] = OneMore(f[n - 1])
        BY <1>1, <3>1, <3>2
    <3> QED BY <2>2, <3>3
  <2> QED BY <2>1, <2>2
<1>5. f = [n \in 0..MaxText |-> Cell(f, n)]
  <2>1. f = [n \in 0..MaxText |-> f[n]]
      BY <1>3 DEF Unfolds
  <2> HIDE DEF Cell
  <2> QED BY <1>4, <2>1
<1>6. reach = [n \in 0..MaxText |-> Cell(reach, n)]
  <2> HIDE DEF Cell
  <2> QED BY <1>5
<1>7. Reachable(a) = reach
    BY DEF Reachable, OneMore
<1> HIDE DEF reach
<1>8. \A n \in 0..MaxText : reach[n] = Cell(reach, n)
  <2> HIDE DEF Cell
  <2> QED BY <1>6
<1>9. reach[0] = {a}
    BY <1>0, <1>8
<1>10. \A n \in 1..MaxText : reach[n] = OneMore(reach[n - 1])
    BY <1>0, <1>8
<1> QED BY <1>7, <1>9, <1>10

LEMMA ReachedByDistance ==
    ASSUME NEW a \in Texts, NEW n \in 0..MaxText
    PROVE  \A b \in Texts : b \in Reachable(a)[n] <=> Distance(a, b) <= n
<1> DEFINE Right(m) == \A b : b \in Reachable(a)[m] <=> b \in Texts /\ Distance(a, b) <= m
           S == {m \in Nat : m <= MaxText => Right(m)}
<1>0. MaxText \in Nat /\ a \in Seq(Runes) /\ Len(a) <= MaxText
    BY TextsAre
<1>1. 0 \in S
  <2>1. ASSUME NEW b
        PROVE  b \in Reachable(a)[0] <=> b \in Texts /\ Distance(a, b) <= 0
    <3>1. b \in Reachable(a)[0] <=> b = a
        BY ReachableBySteps
    <3>2. b \in Texts => Distance(a, b) \in Nat /\ (Distance(a, b) = 0 <=> a = b)
        BY <1>0, TextsAre, NoDistance, DistanceIsNumber
    <3> QED BY <3>1, <3>2
  <2> QED BY <2>1
<1>2. ASSUME NEW m \in Nat, m \in S
      PROVE  m + 1 \in S
  <2> SUFFICES ASSUME m + 1 <= MaxText, NEW b
               PROVE  b \in Reachable(a)[m + 1] <=> b \in Texts /\ Distance(a, b) <= m + 1
      OBVIOUS
  <2>1. m + 1 \in 1..MaxText /\ (m + 1) - 1 = m /\ m <= MaxText
      BY <1>0
  <2>2. Right(m)
      BY <1>2, <2>1
  <2>3. Reachable(a)[m + 1] = OneMore(Reachable(a)[m])
      BY <2>1, ReachableBySteps
  <2>4. b \in Reachable(a)[m + 1] <=>
            \/ b \in Reachable(a)[m]
            \/ b \in Texts /\ \E t \in Reachable(a)[m] : b \in Edited(t)
      BY <2>3 DEF OneMore
  <2>5. ASSUME b \in Reachable(a)[m]
        PROVE  b \in Texts /\ Distance(a, b) <= m + 1
    <3>1. b \in Texts /\ Distance(a, b) <= m
        BY <2>2, <2>5
    <3>2. Distance(a, b) \in Nat
        BY <1>0, <3>1, TextsAre, DistanceIsNumber
    <3> QED BY <3>1, <3>2
  <2>6. ASSUME NEW t \in Reachable(a)[m], b \in Texts, b \in Edited(t)
        PROVE  Distance(a, b) <= m + 1
    <3>1. t \in Texts /\ Distance(a, t) <= m
        BY <2>2
    <3>2. t \in Seq(Runes) /\ b \in Seq(Runes)
        BY <2>6, <3>1, TextsAre
    <3>3. OneEdit(b, t)
        BY <2>6, <3>2, EditsAreEdits
    <3>4. Distance(a, b) <= Distance(a, t) + 1
        BY <1>0, <3>2, <3>3, EditByOne
    <3>5. Distance(a, b) \in Nat /\ Distance(a, t) \in Nat
        BY <1>0, <3>2, DistanceIsNumber
    <3> QED BY <3>1, <3>4, <3>5
  <2>7. ASSUME b \in Texts, Distance(a, b) <= m + 1, b \notin Reachable(a)[m]
        PROVE  \E t \in Reachable(a)[m] : b \in Edited(t)
    <3>1. b \in Seq(Runes) /\ Len(b) <= MaxText
        BY <2>7, TextsAre
    <3>2. Distance(a, b) \in Nat /\ ~(Distance(a, b) <= m)
        BY <1>0, <2>2, <2>7, <3>1, DistanceIsNumber
    <3>3. a # b
        BY <1>0, <3>2, NoDistance
    <3>4. PICK c \in Seq(Runes) : /\ Len(c) <= Len(a) \/ Len(c) <= Len(b)
                                  /\ OneEdit(b, c)
                                  /\ Distance(a, c) < Distance(a, b)
        BY <1>0, <3>1, <3>3, Nearer DEF ComesNearer
    <3>5. Len(c) <= MaxText
      <4>1. Len(a) \in Nat /\ Len(b) \in Nat /\ Len(c) \in Nat
          BY <1>0, <3>1
      <4> QED BY <1>0, <3>1, <3>4, <4>1
    <3>6. c \in Texts
        BY <3>5, TextsAre
    <3>7. Distance(a, c) \in Nat
        BY <1>0, DistanceIsNumber
    <3>8. Distance(a, c) <= m
        BY <2>7, <3>2, <3>4, <3>7
    <3>9. c \in Reachable(a)[m]
        BY <2>2, <3>6, <3>8
    <3>10. b \in Edited(c)
        BY <3>1, <3>4, EditsAreEdits
    <3> QED BY <3>9, <3>10
  <2> HIDE DEF Right
  <2> QED BY <2>4, <2>5, <2>6, <2>7
<1>3. n \in S
  <2>1. n \in Nat
      BY <1>0
  <2> HIDE DEF S
  <2> QED BY <1>1, <1>2, <2>1, NumbersInduction
<1>4. n <= MaxText
    BY <1>0
<1> QED BY <1>3, <1>4

\* What the verifier looks at of a text is a text.
LEMMA CappedIsText ==
    ASSUME NEW w \in Seq(Runes)
    PROVE  Capped(w) \in Seq(Runes)
<1> DEFINE k == IF Len(w) < RuneCap THEN Len(w) ELSE RuneCap
<1>1. k \in 0..Len(w)
  <2>1. RuneCap \in Nat /\ Len(w) \in Nat
      BY VerdictsAssumption
  <2> QED BY <2>1
<1>2. Capped(w) = SubSeq(w, 1, k)
    BY DEF Capped
<1> HIDE DEF k
<1> QED BY <1>1, <1>2, FirstPart

\* The measure is the same from either side, and full for texts that are the same up
\* to the cap.
LEMMA SimilarityOfTexts ==
    ASSUME NEW a \in Seq(Runes), NEW b \in Seq(Runes)
    PROVE  /\ Similarity(a, b) = Similarity(b, a)
           /\ Similarity(a, b) = 10 <=> Capped(a) = Capped(b)
<1> DEFINE s == Capped(a)
           t == Capped(b)
           l == IF Len(t) > Len(s) THEN Len(t) ELSE Len(s)
           m == IF Len(s) > Len(t) THEN Len(s) ELSE Len(t)
<1>2. s \in Seq(Runes) /\ t \in Seq(Runes)
    BY CappedIsText
<1>3. Similarity(a, b) = IF s = <<>> /\ t = <<>> THEN 10
                         ELSE IF s = <<>> \/ t = <<>> THEN 0
                         ELSE (10 * (l - Distance(s, t))) \div l
    BY DEF Similarity
<1>4. Similarity(b, a) = IF t = <<>> /\ s = <<>> THEN 10
                         ELSE IF t = <<>> \/ s = <<>> THEN 0
                         ELSE (10 * (m - Distance(t, s))) \div m
    BY DEF Similarity
<1> HIDE DEF s, t
<1>5. l = m /\ l \in Nat
  <2>1. Len(s) \in Nat /\ Len(t) \in Nat
      BY <1>2
  <2> QED BY <2>1
<1>6. s # <<>> => l > 0
  <2>1. Len(s) \in Nat /\ Len(t) \in Nat /\ (s # <<>> => Len(s) > 0)
      BY <1>2
  <2> QED BY <2>1
<1> HIDE DEF l, m
<1>7. Distance(s, t) = Distance(t, s) /\ Distance(s, t) \in Nat /\ (Distance(s, t) = 0 <=> s = t)
    BY <1>2, DistanceIsSymmetric, DistanceIsNumber, NoDistance
<1>8. Similarity(a, b) = Similarity(b, a)
    BY <1>3, <1>4, <1>5, <1>7
<1>9. Similarity(a, b) = 10 <=> s = t
  <2>1. CASE s = <<>> \/ t = <<>>
      BY <1>3, <2>1
  <2>2. CASE ~(s = <<>> \/ t = <<>>)
    <3>1. (10 * (l - Distance(s, t))) \div l = 10 <=> Distance(s, t) = 0
        BY <1>5, <1>6, <1>7, <2>2, WholeTenths
    <3> QED BY <1>3, <1>7, <2>2, <3>1
  <2> QED BY <2>1, <2>2
<1> QED BY <1>8, <1>9 DEF s, t

\* The similarity of two answers rests on the least number of edits between them,
\* whatever the texts, whatever their length.
THEOREM SimilarityMeasuresEdits == SimilarityIsEditDistance
<1>1. \A a \in Texts : a \in Seq(Runes)
    BY TextsAre
<1> QED BY <1>1, ReachedByDistance, SimilarityOfTexts DEF SimilarityIsEditDistance

\* No text is farther from another than the longer of them is long.
LEMMA NoFartherThanLong ==
    ASSUME NEW a \in Seq(Runes), NEW b \in Seq(Runes)
    PROVE  Distance(a, b) <= Len(a) \/ Distance(a, b) <= Len(b)
<1> DEFINE S == {w \in Seq(Runes) \X Seq(Runes) :
                   Distance(w[1], w[2]) <= Len(w[1]) \/ Distance(w[1], w[2]) <= Len(w[2])}
<1>1. ASSUME NEW c \in Seq(Runes), NEW g \in Seq(Runes),
             \A u, v \in Seq(Runes) : Len(u) + Len(v) < Len(c) + Len(g) => <<u, v>> \in S
      PROVE  <<c, g>> \in S
  <2> SUFFICES Distance(c, g) <= Len(c) \/ Distance(c, g) <= Len(g)
      OBVIOUS
  <2>0. Len(c) \in Nat /\ Len(g) \in Nat
      BY LengthsAreNumbers
  <2>1. CASE c = <<>> \/ g = <<>>
    <3>1. Distance(c, g) = Len(g) \/ Distance(c, g) = Len(c)
        BY <2>1, DistanceOfNone
    <3> QED BY <2>0, <3>1
  <2>2. CASE ~(c = <<>> \/ g = <<>>)
    <3>1. PICK c1 \in Seq(Runes), x \in Runes : c = Append(c1, x)
        BY <2>2, LastOfSequence
    <3>2. PICK g1 \in Seq(Runes), y \in Runes : g = Append(g1, y)
        BY <2>2, LastOfSequence
    <3>3. Len(c) = Len(c1) + 1 /\ Len(c1) \in Nat /\ Len(g) = Len(g1) + 1 /\ Len(g1) \in Nat
        BY <3>1, <3>2, Longer
    <3>4. Distance(c1, g1) <= Len(c1) \/ Distance(c1, g1) <= Len(g1)
      <4>1. Len(c1) + Len(g1) < Len(c) + Len(g)
          BY <3>3
      <4>2. <<c1, g1>> \in S
          BY <1>1, <4>1
      <4> QED BY <4>2
    <3> HIDE DEF S
    <3>5. LeastOf(Distance(c, g), Distance(c1, g1) + Swap(x, y), Distance(c1, g), Distance(c, g1))
        BY <3>1, <3>2, LastRunes
    <3>6. Distance(c, g) \in Nat /\ Distance(c1, g1) \in Nat /\ Swap(x, y) \in {0, 1}
        BY DistanceIsNumber DEF Swap
    <3> DEFINE n == Distance(c, g)  p == Distance(c1, g1)  k == Swap(x, y)
    <3>7. n \in Nat /\ p \in Nat /\ k \in {0, 1} /\ n <= p + k /\ (p <= Len(c1) \/ p <= Len(g1))
        BY <3>4, <3>5, <3>6 DEF LeastOf
    <3> HIDE DEF n, p, k
    <3>8. n <= Len(c) \/ n <= Len(g)
        BY <3>3, <3>7
    <3> QED BY <3>8 DEF n
  <2> QED BY <2>1, <2>2
<1>2. <<a, b>> \in S
  <2> HIDE DEF S
  <2> QED BY <1>1, SequencesInduction
<1> QED BY <1>2

LEMMA TenthsOf ==
    ASSUME NEW l \in Nat, l > 0, NEW d \in Nat, d <= l
    PROVE  (10 * (l - d)) \div l \in 0..10
<1> DEFINE q == (10 * (l - d)) \div l
           r == (10 * (l - d)) % l
<1>1. q \in Int /\ r \in Int /\ 0 <= r /\ r < l /\ 10 * (l - d) = l * q + r
    OBVIOUS
<1> HIDE DEF q, r
<1>2. ~(q >= 11)
  <2> SUFFICES ASSUME q >= 11 PROVE FALSE
      OBVIOUS
  <2>1. l * q >= l * 11
      BY <1>1
  <2> QED BY <1>1, <2>1
<1>3. ~(q <= -1)
  <2> SUFFICES ASSUME q <= -1 PROVE FALSE
      OBVIOUS
  <2>1. l * q <= l * (-1)
      BY <1>1
  <2> QED BY <1>1, <2>1
<1>4. q \in 0..10
    BY <1>1, <1>2, <1>3
<1> QED BY <1>4 DEF q

\* The ratio that the verifier falls back to is never below nothing nor above full,
\* so that an agreement is a share, whoever measured it (1.0 - dist / maxLen).
THEOREM AgreementsAreShares == Agreements \subseteq 0..10
<1>1. ASSUME NEW a \in Texts, NEW b \in Texts
      PROVE  Similarity(a, b) \in 0..10
  <2> DEFINE s == Capped(a)
             t == Capped(b)
             l == IF Len(t) > Len(s) THEN Len(t) ELSE Len(s)
             d == Distance(s, t)
  <2>1. s \in Seq(Runes) /\ t \in Seq(Runes)
      BY TextsAre, CappedIsText
  <2>2. Similarity(a, b) = IF s = <<>> /\ t = <<>> THEN 10
                           ELSE IF s = <<>> \/ t = <<>> THEN 0
                           ELSE (10 * (l - d)) \div l
      BY DEF Similarity
  <2> HIDE DEF s, t
  <2>3. Len(s) \in Nat /\ Len(t) \in Nat /\ d \in Nat /\ (d <= Len(s) \/ d <= Len(t))
      BY <2>1, LengthsAreNumbers, DistanceIsNumber, NoFartherThanLong
  <2>4. s # <<>> => Len(s) > 0
      BY <2>1
  <2> HIDE DEF d
  <2>5. l \in Nat /\ d <= l /\ (s # <<>> => l > 0)
      BY <2>3, <2>4
  <2> HIDE DEF l
  <2>6. ~(s = <<>> \/ t = <<>>) => (10 * (l - d)) \div l \in 0..10
      BY <2>3, <2>5, TenthsOf
  <2> QED BY <2>2, <2>6
<1>2. Grades \subseteq 0..10
    BY DEF Grades
<1>3. \A x \in Agreements : x \in Grades \/ \E a, b \in Texts : x = Similarity(a, b)
    BY DEF Agreements
<1> QED BY <1>1, <1>2, <1>3

\* Whenever the verifier compares two answers itself (verifier.go, ratioSimilarity),
\* it measures the least number of edits between them.
THEOREM AnswersComparedByEdits == Spec => []ComparedByEdits
<1>1. ComparedByEdits
    BY SimilarityMeasuresEdits DEF ComparedByEdits
<1> QED BY <1>1, PTL
=============================================================================
