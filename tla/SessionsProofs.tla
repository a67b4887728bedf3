---------------------------- MODULE SessionsProofs ----------------------------
(***************************************************************************)
(* Proofs about agent sessions, for any traces, costs, limits, workers,    *)
(* resets and faults: how far the breaker overshoots, which traces can be  *)
(* lost, that none is in two rows, that no key stays for ever, that the    *)
(* counters of a row are those of its traces, that no limit is missed, and *)
(* that a session implements a ledger.                                     *)
(***************************************************************************)
EXTENDS Sessions, FiniteSetTheorems, SequenceTheorems, TLAPS

States == {"new", "queued"} \cup InAddTrace \cup Ended

\* Limited traces that have passed the circuit check and not counted yet, and
\* those that have seen the limit reached and not tripped the circuit yet.
Pre  == {t \in Limited : st[t] \in {"push", "seen", "cost", "steps"}}
Over == {t \in Limited : st[t] \in {"ttlTraces", "ttlMeta", "limit"} /\ seenSteps[t] >= MaxSteps}
\* The traces without a limit that may have been counted.
Free == {t \in Traces \ Limited : st[t] \notin {"new", "queued", "push", "seen", "cost", "steps"}}
\* What resets and faults have added to the overshoot.
Spare == NumWorkers * (resets + faults)
Untripped == circuit = ""

\* Each step over the limit is that of a worker about to trip the circuit; when
\* one of them does, no more follow than are past their check.
StepsInv ==
    /\ Cardinality(Busy) <= NumWorkers
    /\ MaxSteps > 0 /\ Untripped =>
          meta.steps <= (MaxSteps - 1) + Spare + Cardinality(Free) + Cardinality(Over)
    /\ MaxSteps > 0 /\ ~Untripped =>
          meta.steps + Cardinality(Pre) <= (MaxSteps - 1) + NumWorkers + Spare + Cardinality(Free)

\* What CloseSession is about to delete is in its row, or raced with it: what
\* the hash has counted since the HGETALL, and what the list has got since the
\* LRANGE.
LostInv ==
    /\ OnlyRacedTracesLost
    /\ Halfway \subseteq Range(traces) \cup raced
    /\ reaper \in Closing => counted \subseteq snap.counted \cup raced /\ Halfway \subseteq raced
    /\ reaper \in {"write", "delete"} => Range(traces) \subseteq snap.traces \cup raced
    /\ reaper = "delete" => snap.traces \cap snap.counted \subseteq Flushed

\* The rows of a session add up.  Without faults no trace is counted in two of
\* them, none is in the quality of two of them, and the steps of a row are as
\* many as the traces it counts; and as long as no AddTrace has overlapped a
\* CloseSession, a row counts the traces its quality is taken from.
CountedOnce ==
    \A i, j \in 1..Len(rows) : i # j => rows[i].counted \cap rows[j].counted = {}
ListedOnce ==
    \A i, j \in 1..Len(rows) : i # j => rows[i].traces \cap rows[j].traces = {}
OneRowPerTrace == faults = 0 => CountedOnce /\ ListedOnce
StepsAreCounted == \A i \in 1..Len(rows) : rows[i].steps = Cardinality(rows[i].counted)
RowsAgreeWithTraces ==
    (faults = 0 /\ ~overlap) =>
        \A i \in 1..Len(rows) : /\ rows[i].counted = rows[i].traces
                                /\ rows[i].cost = TotalCost(rows[i].traces)
RowsAddUp == OneRowPerTrace /\ (faults = 0 => StepsAreCounted) /\ RowsAgreeWithTraces

\* Without faults a trace is counted once, and read into one row's counters.
Uncounted ==
    {t \in Traces : st[t] \in {"new", "queued", "rejected", "blocked", "push", "seen", "cost", "steps"}}
Tally == counted \cup snap.counted
CountInv ==
    faults = 0 =>
        /\ Uncounted \cap Tally = {}
        /\ \A i \in 1..Len(rows) : Uncounted \cap rows[i].counted = {}
        /\ reaper \notin Closing => snap.counted = {}
        /\ reaper # "delete" => \A i \in 1..Len(rows) : rows[i].counted \cap Tally = {}
        /\ reaper = "delete" => \A i \in 1..(Len(rows) - 1) : rows[i].counted \cap Tally = {}
        /\ CountedOnce
NumbersInv ==
    faults = 0 =>
        /\ meta.steps = Cardinality(counted)
        /\ reaper \in Closing => snap.steps = Cardinality(snap.counted)
        /\ StepsAreCounted

\* Without faults a trace is pushed once, and read into one row's quality.
Unpushed == {t \in Traces : st[t] \in {"new", "queued", "rejected", "blocked", "push"}}
Held == Range(traces) \cup snap.traces
OnceInv ==
    faults = 0 =>
        /\ Unpushed \cap Held = {}
        /\ \A i \in 1..Len(rows) : Unpushed \cap rows[i].traces = {}
        /\ reaper \notin {"write", "delete"} => snap.traces = {}
        /\ reaper # "delete" => \A i \in 1..Len(rows) : rows[i].traces \cap Held = {}
        /\ reaper = "delete" => \A i \in 1..(Len(rows) - 1) : rows[i].traces \cap Held = {}
        /\ ListedOnce

\* Without faults every key has its TTL, and every list its hash, or an AddTrace
\* is under way that will see to it.
OrphanInv ==
    faults = 0 =>
        /\ traces # <<>> => Reapable \/ \E t \in Traces : st[t] = "seen"
        /\ traces # <<>> =>
              ttl["traces"] \/ \E t \in Traces : st[t] \in {"seen", "cost", "steps", "ttlTraces"}
        /\ MetaExists =>
              ttl["meta"] \/ \E t \in Traces : st[t] \in {"cost", "steps", "ttlTraces", "ttlMeta"}

IInv == TypeOK /\ StepsInv /\ LostInv /\ OnceInv /\ CountInv /\ NumbersInv /\ OrphanInv

-----------------------------------------------------------------------------
(* Sequences and sets.                                                     *)

LEMMA Constants ==
    /\ IsFiniteSet(Traces) /\ Limited \subseteq Traces /\ Cost \in [Traces -> Nat]
    /\ MaxSteps \in Nat /\ MaxCost \in Nat /\ NumWorkers \in Nat \ {0}
    /\ MaxResets \in Nat /\ MaxFaults \in Nat
BY SessionsAssumption DEF SessionsAssumption

\* What Append does to a sequence.
LEMMA Appended ==
    ASSUME NEW S, NEW s \in Seq(S), NEW x \in S
    PROVE  /\ Append(s, x) \in Seq(S) /\ Append(s, x) # <<>>
           /\ Len(s) \in Nat /\ Len(Append(s, x)) = Len(s) + 1
           /\ \A i \in 1..Len(s) : Append(s, x)[i] = s[i]
           /\ Append(s, x)[Len(s) + 1] = x
OBVIOUS

LEMMA AppendedRange ==
    ASSUME NEW S, NEW s \in Seq(S), NEW x \in S
    PROVE  Range(Append(s, x)) = Range(s) \cup {x}
<1> SUFFICES ASSUME NEW a, a = Append(s, x) PROVE Range(a) = Range(s) \cup {x}
    OBVIOUS
<1>1. /\ a \in Seq(S) /\ Len(s) \in Nat /\ Len(a) = Len(s) + 1
      /\ \A i \in 1..Len(s) : a[i] = s[i]
      /\ a[Len(s) + 1] = x
    BY Appended
<1>2. Range(a) = {a[i] : i \in 1..Len(a)}
  <2>1. a \in Seq(S)
      BY <1>1
  <2>2. DOMAIN a = 1..Len(a)
      BY <2>1
  <2> QED BY <2>2 DEF Range
<1>4. Range(s) = {s[i] : i \in 1..Len(s)}
    BY RangeEquality
<1>3. 1..Len(a) = 1..Len(s) \cup {Len(s) + 1}
    BY <1>1
<1> QED BY <1>1, <1>2, <1>3, <1>4

LEMMA Fields ==
    ASSUME TypeOK
    PROVE  /\ meta.steps \in Nat /\ meta.cost \in Nat /\ snap.traces \subseteq Traces
           /\ snap.counted \subseteq Traces /\ counted \subseteq Traces
           /\ faults \in 0..MaxFaults /\ resets \in 0..MaxResets
BY DEF TypeOK, Row

LEMMA EmptyRange == Range(<<>>) = {}
BY DEF Range

\* A row more: its traces are flushed, and so are those of the rows before.
LEMMA AppendedRows ==
    ASSUME TypeOK, rows' = Append(rows, snap)
    PROVE  /\ rows' \in Seq(Row)
           /\ Len(rows') = Len(rows) + 1 /\ Len(rows) \in Nat
           /\ \A i \in 1..Len(rows) : rows'[i] = rows[i]
           /\ rows'[Len(rows) + 1] = snap
           /\ Flushed \subseteq Flushed' /\ snap.traces \cap snap.counted \subseteq Flushed'
<1>1. /\ rows' \in Seq(Row)
      /\ Len(rows') = Len(rows) + 1 /\ Len(rows) \in Nat
      /\ \A i \in 1..Len(rows) : rows'[i] = rows[i]
      /\ rows'[Len(rows) + 1] = snap
  <2>1. rows \in Seq(Row) /\ snap \in Row
      BY DEF TypeOK
  <2> QED BY <2>1, Appended
<1>2. Flushed \subseteq Flushed' /\ snap.traces \cap snap.counted \subseteq Flushed'
    BY <1>1 DEF Flushed
<1> QED BY <1>1, <1>2

\* Sets of traces have a size.
LEMMA Sizes ==
    ASSUME NEW S \in SUBSET Traces
    PROVE  IsFiniteSet(S) /\ Cardinality(S) \in Nat
<1>1. IsFiniteSet(S)
    BY Constants, FS_Subset
<1> QED BY <1>1, FS_CardinalityType

LEMMA SubsetSizes ==
    ASSUME NEW S \in SUBSET Traces, NEW T \in SUBSET S
    PROVE  Cardinality(T) <= Cardinality(S)
BY Sizes, FS_Subset

\* A set that loses or gains one trace.
LEMMA OneMore ==
    ASSUME NEW S \in SUBSET Traces, NEW T \in SUBSET Traces, NEW t, T \subseteq S \cup {t}
    PROVE  Cardinality(T) <= Cardinality(S) + 1
<1>1. IsFiniteSet(S) /\ Cardinality(S) \in Nat /\ IsFiniteSet(S \cup {t})
    BY Sizes, FS_AddElement
<1>2. Cardinality(S \cup {t}) <= Cardinality(S) + 1
    BY <1>1, FS_AddElement
<1>3. Cardinality(T) <= Cardinality(S \cup {t}) /\ Cardinality(T) \in Nat
    BY <1>1, Sizes, FS_Subset
<1>4. Cardinality(S \cup {t}) \in Nat
    BY <1>1, FS_CardinalityType
<1> QED BY <1>1, <1>2, <1>3, <1>4

LEMMA Grown ==
    ASSUME NEW S \in SUBSET Traces, NEW T \in SUBSET Traces, NEW t \in T, t \notin S, S \subseteq T
    PROVE  Cardinality(S) + 1 <= Cardinality(T)
<1>1. IsFiniteSet(S) /\ Cardinality(S) \in Nat /\ IsFiniteSet(T) /\ Cardinality(T) \in Nat
    BY Sizes
<1>2. Cardinality(S \cup {t}) = Cardinality(S) + 1 /\ S \cup {t} \in SUBSET T
    BY <1>1, FS_AddElement
<1>3. Cardinality(S \cup {t}) <= Cardinality(T)
    BY <1>1, <1>2, FS_Subset
<1> QED BY <1>1, <1>2, <1>3

-----------------------------------------------------------------------------
(* What an action does to the state of one trace.                          *)

LEMMA Moved ==
    ASSUME TypeOK, NEW t \in Traces, NEW from, NEW to, Move(t, from, to)
    PROVE  /\ st[t] = from /\ st'[t] = to /\ \A u \in Traces \ {t} : st'[u] = st[u]
           /\ (to \in States => st' \in [Traces -> States])
BY DEF Move, TypeOK, States

LEMMA Dropped ==
    ASSUME TypeOK, NEW t \in Traces, DropLocals(t)
    PROVE  /\ seenSteps' \in [Traces -> Nat] /\ seenCost' \in [Traces -> Nat]
           /\ \A u \in Traces \ {t} : seenSteps'[u] = seenSteps[u]
BY DEF DropLocals, TypeOK

LEMMA Faulted ==
    ASSUME TypeOK, Fault
    PROVE  faults' \in 0..MaxFaults /\ faults' = faults + 1 /\ faults' # 0
<1>1. faults \in 0..MaxFaults /\ MaxFaults \in Nat /\ faults < MaxFaults /\ faults' = faults + 1
    BY Constants, Fields DEF Fault
<1> QED BY <1>1

-----------------------------------------------------------------------------
(* Type correctness.                                                       *)

LEMMA TypeInit == Init => TypeOK
<1> SUFFICES ASSUME Init PROVE TypeOK
    OBVIOUS
<1>1. traces \in Seq(Traces) /\ rows \in Seq(Row)
    BY EmptySeq DEF Init
<1>2. NoMeta \in [seen : {"missing", "recent", "idle"}, cost : Nat, steps : Nat] /\ NoSnap \in Row
    BY DEF NoMeta, NoSnap, Row
<1>3. 0 \in 0..MaxFaults /\ 0 \in 0..MaxResets
    BY Constants
<1> QED BY <1>1, <1>2, <1>3 DEF Init, TypeOK

LEMMA TypeTrace ==
    ASSUME TypeOK, NEW t \in Traces, Admit(t) \/ AddTrace(t) \/ PipelineFails(t) \/ Resend(t)
    PROVE  TypeOK'
<1> USE DEF redis, locals, closing, past, hist, States, InAddTrace, InPipeline, Ended
<1>1. CASE Admit(t)
  <2>1. st' \in [Traces -> States]
      BY <1>1, Moved DEF Admit
  <2>2. faults' \in 0..MaxFaults
      BY <1>1, Faulted DEF Admit, TypeOK
  <2> QED BY <1>1, <2>1, <2>2 DEF Admit, TypeOK
<1>2. CASE CheckCircuit(t)
  <2>1. st' \in [Traces -> States]
      BY <1>2, Moved DEF CheckCircuit
  <2>2. faults' \in 0..MaxFaults
      BY <1>2, Faulted DEF CheckCircuit, TypeOK
  <2>3. overlap' \in BOOLEAN
      BY <1>2 DEF CheckCircuit, TypeOK, MarkOverlap
  <2> QED BY <1>2, <2>1, <2>2, <2>3 DEF CheckCircuit, TypeOK
<1>3. CASE Push(t)
  <2>1. st' \in [Traces -> States]
      BY <1>3, Moved DEF Push
  <2>2. traces' \in Seq(Traces)
      BY <1>3, Appended DEF Push, TypeOK
  <2>3. raced' \subseteq Traces
      BY <1>3 DEF Push, TypeOK
  <2> QED BY <1>3, <2>1, <2>2, <2>3 DEF Push, TypeOK, MarkOverlap
<1>4. CASE SetSeen(t)
  <2>1. st' \in [Traces -> States]
      BY <1>4, Moved DEF SetSeen, OnMeta
  <2> QED BY <1>4, <2>1 DEF SetSeen, OnMeta, TypeOK, MarkOverlap
<1>5. CASE AddCost(t)
  <2>1. st' \in [Traces -> States]
      BY <1>5, Moved DEF AddCost, OnMeta
  <2>2. meta.cost + Cost[t] \in Nat
    <3>1. meta.cost \in Nat /\ Cost[t] \in Nat
        BY Constants, Fields
    <3> QED BY <3>1
  <2> QED BY <1>5, <2>1, <2>2 DEF AddCost, OnMeta, TypeOK, MarkOverlap
<1>6. CASE AddStep(t)
  <2>1. st' \in [Traces -> States]
      BY <1>6, Moved DEF AddStep, OnMeta
  <2>2. meta.steps + 1 \in Nat
    <3>1. meta.steps \in Nat
        BY Fields
    <3> QED BY <3>1
  <2>3. counted' \subseteq Traces
      BY <1>6, Fields DEF AddStep
  <2> QED BY <1>6, <2>1, <2>2, <2>3 DEF AddStep, OnMeta, TypeOK, MarkOverlap
<1>7. CASE SetTTL(t)
  <2>1. st' \in [Traces -> States]
      BY <1>7, Moved DEF SetTTL
  <2>2. ttl' \in [{"traces", "meta"} -> BOOLEAN]
      BY <1>7 DEF SetTTL, TypeOK
  <2> QED BY <1>7, <2>1, <2>2 DEF SetTTL, TypeOK, MarkOverlap
<1>8. CASE CheckLimits(t)
  <2>1. /\ st' \in [Traces -> States] /\ faults' \in 0..MaxFaults
        /\ circuit' \in {"", "steps", "cost"}
    <3>1. Move(t, "limit", "tripped") \/ Move(t, "limit", "ok")
        BY <1>8 DEF CheckLimits
    <3>2. st' \in [Traces -> States]
        BY <3>1, Moved
    <3>3. Fault \/ faults' = faults
        BY <1>8 DEF CheckLimits
    <3>4. faults' \in 0..MaxFaults
        BY <3>3, Faulted DEF TypeOK
    <3>5. circuit' \in {"", "steps", "cost"}
        BY <1>8 DEF CheckLimits, TypeOK
    <3> QED BY <3>2, <3>4, <3>5
  <2>2. seenSteps' \in [Traces -> Nat] /\ seenCost' \in [Traces -> Nat]
      BY <1>8, Dropped DEF CheckLimits
  <2>3. UNCHANGED <<traces, meta, ttl, reaper, snap, rows, resets, counted, raced, expired>>
      BY <1>8 DEF CheckLimits
  <2>4. overlap' \in BOOLEAN
      BY <1>8 DEF CheckLimits, TypeOK, MarkOverlap
  <2>5. /\ traces' \in Seq(Traces)
        /\ meta' \in [seen : {"missing", "recent", "idle"}, cost : Nat, steps : Nat]
        /\ ttl' \in [{"traces", "meta"} -> BOOLEAN]
      BY <2>3 DEF TypeOK
  <2>6. /\ reaper' \in {"idle", "readMeta", "readTraces", "write", "delete"}
        /\ snap' \in Row /\ rows' \in Seq(Row)
        /\ resets' \in 0..MaxResets
        /\ counted' \subseteq Traces /\ raced' \subseteq Traces /\ expired' \subseteq Traces
      BY <2>3 DEF TypeOK
  <2> QED BY <2>1, <2>2, <2>4, <2>5, <2>6 DEF TypeOK
<1>9. CASE PipelineFails(t)
  <2>1. /\ st' \in [Traces -> States] /\ faults' \in 0..MaxFaults
        /\ seenSteps' \in [Traces -> Nat] /\ seenCost' \in [Traces -> Nat]
      BY <1>9, Moved, Faulted, Dropped DEF PipelineFails
  <2> QED BY <1>9, <2>1 DEF PipelineFails, TypeOK, MarkOverlap
<1>10. CASE Resend(t)
  <2>1. /\ st' \in [Traces -> States] /\ faults' \in 0..MaxFaults
        /\ seenSteps' \in [Traces -> Nat] /\ seenCost' \in [Traces -> Nat]
      BY <1>10, Moved, Faulted, Dropped DEF Resend
  <2> QED BY <1>10, <2>1 DEF Resend, TypeOK, MarkOverlap
<1> QED BY <1>1, <1>2, <1>3, <1>4, <1>5, <1>6, <1>7, <1>8, <1>9, <1>10 DEF AddTrace

LEMMA TypeRest ==
    ASSUME TypeOK,
           \/ CloseSession \/ CloseFails \/ GoIdle \/ ResetCircuit \/ Crash
           \/ \E k \in {"traces", "meta"} : Expire(k)
    PROVE  TypeOK'
<1> USE DEF redis, locals, closing, past, hist, InAddTrace, InPipeline, Ended
<1>1. CASE BeginClose
    BY <1>1 DEF BeginClose, TypeOK
<1>2. CASE ReadMeta
  <2>1. snap' \in Row
      BY <1>2 DEF ReadMeta, TypeOK, Row
  <2>2. raced' \subseteq Traces
      BY <1>2 DEF ReadMeta, TypeOK, Halfway
  <2> QED BY <1>2, <2>1, <2>2 DEF ReadMeta, TypeOK
<1>3. CASE ReadTraces
  <2>1. Range(traces) \subseteq Traces
      BY RangeOfSeq DEF TypeOK
  <2>2. snap' \in Row
      BY <1>3, <2>1 DEF ReadTraces, TypeOK, Row
  <2> QED BY <1>3, <2>2 DEF ReadTraces, TypeOK
<1>4. CASE WriteRow
  <2>1. rows' \in Seq(Row)
      BY <1>4, AppendedRows DEF WriteRow
  <2> QED BY <1>4, <2>1 DEF WriteRow, TypeOK
<1>5. CASE DeleteKeys
  <2>1. <<>> \in Seq(Traces) /\ NoMeta \in [seen : {"missing", "recent", "idle"}, cost : Nat, steps : Nat]
        /\ NoSnap \in Row
      BY DEF NoMeta, NoSnap, Row
  <2> QED BY <1>5, <2>1 DEF DeleteKeys, TypeOK
<1>6. CASE CloseFails
  <2>1. rows' \in Seq(Row)
      BY <1>6, AppendedRows DEF CloseFails, TypeOK
  <2>2. snap' \in Row /\ faults' \in 0..MaxFaults
      BY <1>6, Faulted DEF CloseFails, NoSnap, Row
  <2> QED BY <1>6, <2>1, <2>2 DEF CloseFails, TypeOK
<1>7. CASE GoIdle
    BY <1>7 DEF GoIdle, TypeOK
<1>8. CASE ResetCircuit
  <2>1. resets' \in 0..MaxResets
    <3>1. resets \in 0..MaxResets /\ MaxResets \in Nat /\ resets < MaxResets /\ resets' = resets + 1
        BY <1>8, Constants, Fields DEF ResetCircuit
    <3> QED BY <3>1
  <2> QED BY <1>8, <2>1 DEF ResetCircuit, TypeOK
<1>9. CASE Crash
  <2>1. snap' \in Row /\ faults' \in 0..MaxFaults
      BY <1>9, Faulted DEF Crash, NoSnap, Row
  <2> QED BY <1>9, <2>1 DEF Crash, TypeOK
<1>10. ASSUME NEW k \in {"traces", "meta"}, Expire(k)
       PROVE  TypeOK'
  <2>1. /\ traces' \in Seq(Traces) /\ expired' \subseteq Traces /\ counted' \subseteq Traces
        /\ meta' \in [seen : {"missing", "recent", "idle"}, cost : Nat, steps : Nat]
    <3>1. /\ traces \in Seq(Traces) /\ <<>> \in Seq(Traces) /\ expired \subseteq Traces /\ counted \subseteq Traces
          /\ meta \in [seen : {"missing", "recent", "idle"}, cost : Nat, steps : Nat]
        BY EmptySeq DEF TypeOK
    <3>2. NoMeta \in [seen : {"missing", "recent", "idle"}, cost : Nat, steps : Nat]
        BY DEF NoMeta
    <3>3. Range(traces) \subseteq Traces
        BY <3>1, RangeOfSeq
    <3> QED BY <1>10, <3>1, <3>2, <3>3 DEF Expire
  <2>2. ttl' \in [{"traces", "meta"} -> BOOLEAN]
      BY <1>10 DEF Expire, TypeOK
  <2> QED BY <1>10, <2>1, <2>2 DEF Expire, TypeOK
<1> QED BY <1>1, <1>2, <1>3, <1>4, <1>5, <1>6, <1>7, <1>8, <1>9, <1>10 DEF CloseSession

LEMMA TypeStep == TypeOK /\ [Next]_vars => TypeOK'
<1> SUFFICES ASSUME TypeOK, [Next]_vars PROVE TypeOK'
    OBVIOUS
<1>1. CASE UNCHANGED vars
    BY <1>1 DEF vars, redis, locals, closing, past, hist, TypeOK
<1>2. CASE Next
    BY <1>2, TypeTrace, TypeRest DEF Next
<1> QED BY <1>1, <1>2

-----------------------------------------------------------------------------
(* No trace is lost but in a race or by a TTL.                             *)

\* An action that buffers, counts and flushes nothing keeps the invariant.
LEMMA LostKept ==
    ASSUME LostInv, Buffered' \subseteq Buffered, Halfway' \subseteq Halfway, UNCHANGED <<traces, counted>>,
           Flushed \subseteq Flushed', raced \subseteq raced', expired \subseteq expired',
           UNCHANGED <<reaper, snap>> \/ reaper' \notin Closing
    PROVE  LostInv'
<1>1. OnlyRacedTracesLost' /\ Halfway' \subseteq Range(traces') \cup raced'
    BY DEF LostInv, OnlyRacedTracesLost
<1>2. reaper' \in Closing => UNCHANGED <<reaper, snap>>
    OBVIOUS
<1>3. /\ reaper' \in Closing => counted' \subseteq snap'.counted \cup raced' /\ Halfway' \subseteq raced'
      /\ reaper' \in {"write", "delete"} => Range(traces') \subseteq snap'.traces \cup raced'
      /\ reaper' = "delete" => snap'.traces \cap snap'.counted \subseteq Flushed'
    BY <1>2 DEF LostInv, Closing
<1> QED BY <1>1, <1>3 DEF LostInv

\* The steps of AddTrace, but for the RPUSH and the HINCRBY of step_count.
LEMMA LostTrace ==
    ASSUME TypeOK, LostInv, NEW t \in Traces, Admit(t) \/ AddTrace(t) \/ PipelineFails(t) \/ Resend(t),
           ~Push(t), ~AddStep(t)
    PROVE  LostInv'
<1> USE DEF redis, locals, closing, past, hist
<1>1. \/ Move(t, "new", "queued") \/ Move(t, "new", "rejected")
      \/ Move(t, "queued", "push") \/ Move(t, "queued", "blocked")
      \/ Move(t, "seen", "cost") \/ Move(t, "cost", "steps")
      \/ Move(t, "ttlTraces", "ttlMeta") \/ Move(t, "ttlMeta", "limit")
      \/ Move(t, "limit", "ok") \/ Move(t, "limit", "tripped")
      \/ Move(t, st[t], "failed") \/ Move(t, st[t], "push")
    BY DEF Admit, AddTrace, PipelineFails, Resend, CheckCircuit, SetSeen, AddCost, SetTTL, CheckLimits, OnMeta
<1>2. /\ \A u \in Traces \ {t} : st'[u] = st[u]
      /\ st'[t] \in {"ttlTraces", "ttlMeta", "limit", "ok", "tripped"}
             => st[t] \in {"ttlTraces", "ttlMeta", "limit", "ok", "tripped"}
      /\ st'[t] \in {"seen", "cost", "steps"} => st[t] \in {"seen", "cost", "steps"}
    BY <1>1, Moved
<1>3. Buffered' \subseteq Buffered /\ Halfway' \subseteq Halfway
    BY <1>2 DEF Buffered, Halfway
<1>4. UNCHANGED <<traces, rows, counted, raced, expired, reaper, snap>>
    BY DEF Admit, AddTrace, PipelineFails, Resend, CheckCircuit, SetSeen, AddCost, SetTTL, CheckLimits, OnMeta
<1>5. Flushed' = Flushed
    BY <1>4 DEF Flushed
<1> QED BY <1>3, <1>4, <1>5, LostKept

LEMMA LostPush ==
    ASSUME TypeOK, LostInv, NEW t \in Traces, Push(t)
    PROVE  LostInv'
<1> USE DEF redis, locals, closing, past, hist
<1>1. Range(traces') = Range(traces) \cup {t}
  <2>1. traces \in Seq(Traces) /\ traces' = Append(traces, t)
      BY DEF Push, TypeOK
  <2> QED BY <2>1, AppendedRange
<1>2. Buffered' \subseteq Buffered /\ Halfway' \subseteq Halfway \cup {t}
  <2>1. st'[t] = "seen" /\ \A u \in Traces \ {t} : st'[u] = st[u]
      BY Moved DEF Push
  <2> QED BY <2>1 DEF Buffered, Halfway
<1>3. /\ raced \subseteq raced' /\ UNCHANGED <<reaper, snap, rows, counted, expired>>
      /\ reaper \in Closing => t \in raced'
    BY DEF Push
<1>4. Flushed' = Flushed
    BY <1>3 DEF Flushed
<1>5. OnlyRacedTracesLost' /\ Halfway' \subseteq Range(traces') \cup raced'
    BY <1>1, <1>2, <1>3, <1>4 DEF LostInv, OnlyRacedTracesLost
<1>6. /\ reaper' \in Closing => counted' \subseteq snap'.counted \cup raced' /\ Halfway' \subseteq raced'
      /\ reaper' \in {"write", "delete"} => Range(traces') \subseteq snap'.traces \cup raced'
      /\ reaper' = "delete" => snap'.traces \cap snap'.counted \subseteq Flushed'
    BY <1>1, <1>2, <1>3, <1>4 DEF LostInv, Closing
<1> QED BY <1>5, <1>6 DEF LostInv

LEMMA LostCount ==
    ASSUME TypeOK, LostInv, NEW t \in Traces, AddStep(t)
    PROVE  LostInv'
<1> USE DEF redis, locals, closing, past, hist
<1>1. st[t] = "steps" /\ st'[t] = "ttlTraces" /\ \A u \in Traces \ {t} : st'[u] = st[u]
    BY Moved DEF AddStep, OnMeta
<1>2. t \in Halfway /\ Halfway' \subseteq Halfway /\ Buffered' \subseteq Buffered \cup {t}
    BY <1>1 DEF Buffered, Halfway
<1>3. UNCHANGED <<traces, reaper, snap, rows, raced, expired>> /\ counted' = counted \cup {t}
    BY DEF AddStep, OnMeta
<1>4. Flushed' = Flushed
    BY <1>3 DEF Flushed
<1>5. t \in Range(traces) \cup raced /\ (reaper \in Closing => t \in raced)
    BY <1>2 DEF LostInv
<1>6. OnlyRacedTracesLost' /\ Halfway' \subseteq Range(traces') \cup raced'
    BY <1>2, <1>3, <1>4, <1>5 DEF LostInv, OnlyRacedTracesLost
<1>7. /\ reaper' \in Closing => counted' \subseteq snap'.counted \cup raced' /\ Halfway' \subseteq raced'
      /\ reaper' \in {"write", "delete"} => Range(traces') \subseteq snap'.traces \cup raced'
      /\ reaper' = "delete" => snap'.traces \cap snap'.counted \subseteq Flushed'
    BY <1>2, <1>3, <1>4, <1>5 DEF LostInv, Closing
<1> QED BY <1>6, <1>7 DEF LostInv

LEMMA LostStep ==
    ASSUME TypeOK, LostInv, [Next]_vars
    PROVE  LostInv'
<1> USE DEF redis, locals, closing, past, hist
<1>1. ASSUME NEW t \in Traces, Admit(t) \/ AddTrace(t) \/ PipelineFails(t) \/ Resend(t)
      PROVE  LostInv'
    BY <1>1, LostTrace, LostPush, LostCount
<1>2. CASE BeginClose \/ GoIdle \/ ResetCircuit \/ UNCHANGED vars
  <2>1. /\ UNCHANGED <<st, traces, counted, rows, raced, expired>>
        /\ UNCHANGED <<reaper, snap>> \/ reaper' \notin Closing
      BY <1>2 DEF BeginClose, GoIdle, ResetCircuit, vars, Closing
  <2>2. Buffered' = Buffered /\ Halfway' = Halfway /\ Flushed' = Flushed
      BY <2>1 DEF Buffered, Halfway, Flushed
  <2> QED BY <2>1, <2>2, LostKept
<1>3. CASE ReadMeta
  <2>1. /\ UNCHANGED <<st, traces, counted, rows, expired>> /\ raced' = raced \cup Halfway
        /\ reaper' = "readTraces" /\ snap'.counted = counted
      BY <1>3 DEF ReadMeta, TypeOK, Row
  <2>2. Buffered' = Buffered /\ Halfway' = Halfway /\ Flushed' = Flushed
      BY <2>1 DEF Buffered, Halfway, Flushed
  <2> QED BY <2>1, <2>2 DEF LostInv, OnlyRacedTracesLost
<1>4. CASE ReadTraces
  <2>1. /\ UNCHANGED <<st, traces, counted, rows, raced, expired>> /\ snap'.traces = Range(traces)
        /\ snap'.counted = snap.counted /\ reaper = "readTraces" /\ reaper' = "write"
      BY <1>4 DEF ReadTraces, TypeOK, Row
  <2>2. Buffered' = Buffered /\ Halfway' = Halfway /\ Flushed' = Flushed
      BY <2>1 DEF Buffered, Halfway, Flushed
  <2> QED BY <2>1, <2>2 DEF LostInv, OnlyRacedTracesLost, Closing
<1>5. CASE WriteRow
  <2>1. Flushed \subseteq Flushed' /\ snap.traces \cap snap.counted \subseteq Flushed'
      BY <1>5, AppendedRows DEF WriteRow
  <2>2. UNCHANGED <<st, traces, counted, snap, raced, expired>> /\ reaper = "write"
      BY <1>5 DEF WriteRow
  <2>3. Buffered' = Buffered /\ Halfway' = Halfway
      BY <2>2 DEF Buffered, Halfway
  <2> QED BY <2>1, <2>2, <2>3 DEF LostInv, OnlyRacedTracesLost, Closing
<1>6. CASE DeleteKeys
  <2>1. Range(traces) \cap counted \subseteq Flushed \cup raced /\ Halfway \subseteq raced
      BY <1>6 DEF DeleteKeys, LostInv, Closing
  <2>2. UNCHANGED <<st, rows, raced, expired>> /\ reaper' = "idle"
      BY <1>6 DEF DeleteKeys
  <2>3. Buffered' = Buffered /\ Halfway' = Halfway /\ Flushed' = Flushed
      BY <2>2 DEF Buffered, Halfway, Flushed
  <2> QED BY <2>1, <2>2, <2>3 DEF LostInv, OnlyRacedTracesLost, Closing
<1>7. CASE CloseFails
  <2>1. Flushed \subseteq Flushed'
      BY <1>7, AppendedRows DEF CloseFails, Flushed
  <2>2. UNCHANGED <<st, traces, counted, raced, expired>> /\ reaper' = "idle"
      BY <1>7 DEF CloseFails
  <2>3. Buffered' = Buffered /\ Halfway' = Halfway
      BY <2>2 DEF Buffered, Halfway
  <2> QED BY <2>1, <2>2, <2>3, LostKept DEF Closing
<1>8. ASSUME NEW k \in {"traces", "meta"}, Expire(k)
      PROVE  LostInv'
  <2>1. UNCHANGED <<st, rows, raced, reaper, snap>> /\ Busy = {}
      BY <1>8 DEF Expire
  <2>2. Buffered' = Buffered /\ Flushed' = Flushed /\ Halfway' = {}
      BY <2>1 DEF Buffered, Flushed, Halfway, Busy, InAddTrace, InPipeline
  <2>3. \/ UNCHANGED counted /\ expired' = expired \cup Range(traces) /\ Range(traces') = {}
        \/ UNCHANGED traces /\ expired' = expired \cup counted /\ counted' = {}
      BY <1>8, EmptyRange DEF Expire
  <2> QED BY <2>1, <2>2, <2>3 DEF LostInv, OnlyRacedTracesLost
<1>9. CASE Crash
  <2>1. Buffered' \subseteq Buffered /\ Halfway' = {}
      BY <1>9 DEF Crash, Buffered, Halfway, InAddTrace, InPipeline, TypeOK
  <2>2. UNCHANGED <<traces, counted, rows, raced, expired>> /\ reaper' = "idle"
      BY <1>9 DEF Crash
  <2>3. Flushed' = Flushed
      BY <2>2 DEF Flushed
  <2> QED BY <2>1, <2>2, <2>3, LostKept DEF Closing
<1> HIDE DEF redis, locals, closing, past, hist
<1> QED BY <1>1, <1>2, <1>3, <1>4, <1>5, <1>6, <1>7, <1>8, <1>9 DEF Next, CloseSession

-----------------------------------------------------------------------------
(* No key stays for ever.                                                  *)

LEMMA OrphanTrace ==
    ASSUME TypeOK, OrphanInv, faults' = 0, faults = 0,
           NEW t \in Traces, Admit(t) \/ AddTrace(t) \/ PipelineFails(t) \/ Resend(t)
    PROVE  OrphanInv'
<1> USE DEF redis, locals, closing, past, hist, OrphanInv, Reapable, MetaExists
<1>0. ~Fault
    BY Faulted
<1>1. CASE Admit(t) \/ CheckCircuit(t) \/ CheckLimits(t)
  <2>1. UNCHANGED <<traces, meta, ttl>>
      BY <1>1 DEF Admit, CheckCircuit, CheckLimits
  <2>2. \/ Move(t, "new", "queued") \/ Move(t, "new", "rejected")
        \/ Move(t, "queued", "push") \/ Move(t, "queued", "blocked")
        \/ Move(t, "limit", "ok") \/ Move(t, "limit", "tripped")
      BY <1>1 DEF Admit, CheckCircuit, CheckLimits
  <2>3. \A u \in Traces : st[u] \in {"seen", "cost", "steps", "ttlTraces", "ttlMeta"} => st'[u] = st[u]
      BY <2>2, Moved
  <2> QED BY <2>1, <2>3
<1>2. CASE Push(t)
  <2>1. UNCHANGED <<meta, ttl>> /\ Move(t, "push", "seen")
      BY <1>2 DEF Push
  <2>2. st'[t] = "seen" /\ \A u \in Traces : st[u] \in {"seen", "cost", "steps", "ttlTraces", "ttlMeta"} => st'[u] = st[u]
      BY <2>1, Moved
  <2> QED BY <2>1, <2>2
<1>3. CASE SetSeen(t)
  <2>1. UNCHANGED <<traces, ttl>> /\ Move(t, "seen", "cost") /\ meta'.seen = "recent"
      BY <1>3 DEF SetSeen, OnMeta, TypeOK
  <2>2. st'[t] = "cost" /\ \A u \in Traces \ {t} : st'[u] = st[u]
      BY <2>1, Moved
  <2> QED BY <2>1, <2>2
<1>4. CASE AddCost(t)
  <2>1. UNCHANGED <<traces, ttl>> /\ Move(t, "cost", "steps") /\ meta'.seen = meta.seen
      BY <1>4 DEF AddCost, OnMeta, TypeOK
  <2>2. st[t] = "cost" /\ st'[t] = "steps" /\ \A u \in Traces \ {t} : st'[u] = st[u]
      BY <2>1, Moved
  <2> QED BY <2>1, <2>2
<1>5. CASE AddStep(t)
  <2>1. UNCHANGED <<traces, ttl>> /\ Move(t, "steps", "ttlTraces") /\ meta'.seen = meta.seen
      BY <1>5 DEF AddStep, OnMeta, TypeOK
  <2>2. st[t] = "steps" /\ st'[t] = "ttlTraces" /\ \A u \in Traces \ {t} : st'[u] = st[u]
      BY <2>1, Moved
  <2> QED BY <2>1, <2>2
<1>6. CASE Move(t, "ttlTraces", "ttlMeta") /\ SetTTL(t)
  <2>1. /\ UNCHANGED <<traces, meta>>
        /\ traces # <<>> => ttl'["traces"]
        /\ ttl["meta"] => ttl'["meta"]
      BY <1>6 DEF SetTTL, TypeOK, Move
  <2>2. st[t] = "ttlTraces" /\ st'[t] = "ttlMeta" /\ \A u \in Traces \ {t} : st'[u] = st[u]
      BY <1>6, Moved
  <2> QED BY <2>1, <2>2
<1>7. CASE Move(t, "ttlMeta", "limit") /\ SetTTL(t)
  <2>1. /\ UNCHANGED <<traces, meta>>
        /\ MetaExists => ttl'["meta"]
        /\ ttl["traces"] => ttl'["traces"]
      BY <1>7 DEF SetTTL, TypeOK, Move
  <2>2. st[t] = "ttlMeta" /\ st'[t] = "limit" /\ \A u \in Traces \ {t} : st'[u] = st[u]
      BY <1>7, Moved
  <2> QED BY <2>1, <2>2
<1> QED BY <1>0, <1>1, <1>2, <1>3, <1>4, <1>5, <1>6, <1>7 DEF AddTrace, SetTTL, PipelineFails, Resend

LEMMA OrphanStep ==
    ASSUME TypeOK, OrphanInv, [Next]_vars
    PROVE  OrphanInv'
<1> USE DEF redis, locals, closing, past, hist
<1> SUFFICES ASSUME faults' = 0 PROVE OrphanInv'
    BY DEF OrphanInv
<1>0. ~Fault
    BY Faulted
<1>1. faults = 0
    BY <1>0 DEF Next, vars, Admit, AddTrace, PipelineFails, Resend, CheckCircuit, Push, SetSeen, AddCost, AddStep, SetTTL,
                CheckLimits, OnMeta, CloseSession, BeginClose, ReadMeta, ReadTraces, WriteRow, DeleteKeys, CloseFails,
                GoIdle, Expire, ResetCircuit, Crash
<1>2. ASSUME NEW t \in Traces, Admit(t) \/ AddTrace(t) \/ PipelineFails(t) \/ Resend(t)
      PROVE  OrphanInv'
    BY <1>1, <1>2, OrphanTrace
<1>3. CASE BeginClose \/ ReadMeta \/ ReadTraces \/ WriteRow \/ ResetCircuit \/ UNCHANGED vars
  <2>1. UNCHANGED <<st, traces, meta, ttl>>
      BY <1>3 DEF BeginClose, ReadMeta, ReadTraces, WriteRow, ResetCircuit, vars
  <2> QED BY <1>1, <2>1 DEF OrphanInv, Reapable, MetaExists
<1>4. CASE DeleteKeys
  <2>1. traces' = <<>> /\ meta' = NoMeta
      BY <1>4 DEF DeleteKeys
  <2> QED BY <2>1 DEF OrphanInv, MetaExists
<1>5. CASE GoIdle
  <2>1. UNCHANGED <<st, traces, ttl>> /\ meta'.seen = "idle" /\ meta.seen = "recent"
      BY <1>5 DEF GoIdle, TypeOK
  <2>2. MetaExists /\ Reapable'
      BY <2>1 DEF MetaExists, Reapable, NoMeta
  <2> QED BY <1>1, <2>1, <2>2 DEF OrphanInv, Reapable
<1>6. ASSUME NEW k \in {"traces", "meta"}, Expire(k)
      PROVE  OrphanInv'
  <2>1. \A t \in Traces : st[t] \notin {"seen", "cost", "steps", "ttlTraces", "ttlMeta"}
      BY <1>6 DEF Expire, Busy, InAddTrace, InPipeline
  <2>2. ~Reapable /\ traces = <<>>
      BY <1>1, <1>6, <2>1 DEF Expire, OrphanInv
  <2>3. traces' = <<>> /\ (k = "meta" => meta' = NoMeta) /\ (k = "traces" => meta' = meta /\ (ttl["meta"] => ttl'["meta"]))
      BY <1>6, <2>2 DEF Expire, TypeOK
  <2> QED BY <1>1, <2>1, <2>3 DEF OrphanInv, MetaExists
<1>7. ~CloseFails /\ ~Crash
    BY <1>0 DEF CloseFails, Crash
<1> QED BY <1>2, <1>3, <1>4, <1>5, <1>6, <1>7 DEF Next, CloseSession

-----------------------------------------------------------------------------
(* Without faults no trace is in two rows.                                 *)

\* An action that neither moves a trace to where it is not pushed yet nor holds
\* or flushes more keeps what is so of pushed, held and flushed traces.
LEMMA OnceKept ==
    ASSUME OnceInv, faults = 0, UNCHANGED rows,
           Unpushed' \subseteq Unpushed, Held' \subseteq Held,
           \/ UNCHANGED <<reaper, snap>>
           \/ /\ reaper \notin {"write", "delete"} /\ reaper' # "delete"
              /\ reaper' \notin {"write", "delete"} => snap'.traces = {}
    PROVE  OnceInv'
<1>1. /\ Unpushed' \cap Held' = {}
      /\ \A i \in 1..Len(rows) : Unpushed' \cap rows[i].traces = {}
      /\ ListedOnce'
    BY DEF OnceInv, ListedOnce
<1>2. reaper' \notin {"write", "delete"} => snap'.traces = {}
    BY DEF OnceInv
<1>3. reaper' # "delete" => \A i \in 1..Len(rows) : rows[i].traces \cap Held' = {}
    BY DEF OnceInv
<1>4. reaper' = "delete" => \A i \in 1..(Len(rows) - 1) : rows[i].traces \cap Held' = {}
    BY DEF OnceInv
<1> QED BY <1>1, <1>2, <1>3, <1>4 DEF OnceInv

LEMMA OnceTrace ==
    ASSUME TypeOK, OnceInv, faults' = 0, faults = 0,
           NEW t \in Traces, Admit(t) \/ AddTrace(t) \/ PipelineFails(t) \/ Resend(t)
    PROVE  OnceInv'
<1> USE DEF redis, locals, closing, past, hist
<1>0. ~Fault
    BY Faulted
<1>1. CASE ~Push(t)
  <2>1. \/ Move(t, "new", "queued") \/ Move(t, "new", "rejected")
        \/ Move(t, "queued", "push") \/ Move(t, "queued", "blocked")
        \/ Move(t, "seen", "cost") \/ Move(t, "cost", "steps") \/ Move(t, "steps", "ttlTraces")
        \/ Move(t, "ttlTraces", "ttlMeta") \/ Move(t, "ttlMeta", "limit")
        \/ Move(t, "limit", "ok") \/ Move(t, "limit", "tripped")
      BY <1>0, <1>1 DEF Admit, AddTrace, PipelineFails, Resend, CheckCircuit, SetSeen, AddCost, AddStep, SetTTL, CheckLimits, OnMeta
  <2>2. Unpushed' \subseteq Unpushed
      BY <2>1, Moved DEF Unpushed
  <2>3. UNCHANGED <<traces, rows, reaper, snap>>
      BY <1>0, <1>1 DEF Admit, AddTrace, PipelineFails, Resend, CheckCircuit, SetSeen, AddCost, AddStep, SetTTL, CheckLimits, OnMeta
  <2>4. Held' = Held
      BY <2>3 DEF Held
  <2> QED BY <2>2, <2>3, <2>4, OnceKept
<1>2. CASE Push(t)
  <2>1. UNCHANGED <<rows, reaper, snap>> /\ Move(t, "push", "seen")
      BY <1>2 DEF Push
  <2>2. t \in Unpushed /\ Unpushed' \subseteq Unpushed \ {t}
      BY <2>1, Moved DEF Unpushed
  <2>3. Held' = Held \cup {t}
    <3>1. traces \in Seq(Traces) /\ traces' = Append(traces, t)
        BY <1>2 DEF Push, TypeOK
    <3>2. Range(traces') = Range(traces) \cup {t}
        BY <3>1, AppendedRange
    <3> QED BY <2>1, <3>2 DEF Held
  <2>4. \A i \in 1..Len(rows) : t \notin rows[i].traces
      BY <2>2 DEF OnceInv
  <2>5. Unpushed' \cap Held' = {} /\ \A i \in 1..Len(rows) : Unpushed' \cap rows[i].traces = {}
      BY <2>2, <2>3 DEF OnceInv
  <2>6. reaper # "delete" => \A i \in 1..Len(rows) : rows[i].traces \cap Held' = {}
      BY <2>3, <2>4 DEF OnceInv
  <2>7. reaper = "delete" => \A i \in 1..(Len(rows) - 1) : rows[i].traces \cap Held' = {}
    <3>1. Len(rows) \in Nat
      <4>1. rows \in Seq(Row)
          BY DEF TypeOK
      <4> QED BY <4>1
    <3>2. \A i \in 1..(Len(rows) - 1) : t \notin rows[i].traces
        BY <2>4, <3>1
    <3> QED BY <2>3, <3>2 DEF OnceInv
  <2> QED BY <2>1, <2>5, <2>6, <2>7 DEF OnceInv, ListedOnce
<1> QED BY <1>1, <1>2

LEMMA OnceStep ==
    ASSUME TypeOK, OnceInv, [Next]_vars
    PROVE  OnceInv'
<1> USE DEF redis, locals, closing, past, hist
<1> SUFFICES ASSUME faults' = 0 PROVE OnceInv'
    BY DEF OnceInv
<1>0. ~Fault
    BY Faulted
<1>1. faults = 0
    BY <1>0 DEF Next, vars, Admit, AddTrace, PipelineFails, Resend, CheckCircuit, Push, SetSeen, AddCost, AddStep, SetTTL,
                CheckLimits, OnMeta, CloseSession, BeginClose, ReadMeta, ReadTraces, WriteRow, DeleteKeys, CloseFails,
                GoIdle, Expire, ResetCircuit, Crash
<1>2. ASSUME NEW t \in Traces, Admit(t) \/ AddTrace(t) \/ PipelineFails(t) \/ Resend(t)
      PROVE  OnceInv'
    BY <1>1, <1>2, OnceTrace
<1>3. CASE BeginClose \/ ReadMeta \/ GoIdle \/ ResetCircuit \/ UNCHANGED vars
  <2>1. UNCHANGED <<st, traces, rows>> /\ snap'.traces = snap.traces
      BY <1>3 DEF BeginClose, ReadMeta, GoIdle, ResetCircuit, vars, TypeOK, Row
  <2>2. Unpushed' = Unpushed /\ Held' = Held
      BY <2>1 DEF Unpushed, Held
  <2>3. \/ UNCHANGED <<reaper, snap>>
        \/ reaper \notin {"write", "delete"} /\ reaper' \notin {"write", "delete"} /\ snap'.traces = {}
      BY <1>1, <1>3, <2>1 DEF BeginClose, ReadMeta, GoIdle, ResetCircuit, vars, OnceInv
  <2> QED BY <1>1, <2>1, <2>2, <2>3, OnceKept
<1>4. CASE ReadTraces
  <2>1. UNCHANGED <<st, traces, rows>> /\ snap'.traces = Range(traces) /\ reaper = "readTraces" /\ reaper' = "write"
      BY <1>4 DEF ReadTraces, TypeOK, Row
  <2>2. Unpushed' = Unpushed /\ Held' \subseteq Held
      BY <2>1 DEF Unpushed, Held
  <2> QED BY <1>1, <2>1, <2>2, OnceKept
<1>5. CASE WriteRow
  <2>1. UNCHANGED <<st, traces, snap>> /\ reaper = "write" /\ reaper' = "delete"
      BY <1>5 DEF WriteRow
  <2>2. Unpushed' = Unpushed /\ Held' = Held /\ snap.traces \subseteq Held
      BY <2>1 DEF Unpushed, Held
  <2>3. /\ Len(rows') = Len(rows) + 1 /\ Len(rows) \in Nat
        /\ \A i \in 1..Len(rows) : rows'[i] = rows[i]
        /\ rows'[Len(rows) + 1] = snap
      BY <1>5, AppendedRows DEF WriteRow
  <2>4. \A i \in 1..Len(rows) : rows'[i].traces \cap Held = {} /\ Unpushed \cap rows'[i].traces = {}
      BY <1>1, <2>1, <2>3 DEF OnceInv
  <2>5. \A i \in 1..Len(rows') : i \in 1..Len(rows) \/ i = Len(rows) + 1
      BY <2>3
  <2>6. \A i \in 1..Len(rows') : Unpushed' \cap rows'[i].traces = {}
      BY <1>1, <2>2, <2>3, <2>4, <2>5 DEF OnceInv
  <2>7. \A i \in 1..(Len(rows') - 1) : rows'[i].traces \cap Held' = {}
      BY <2>2, <2>3, <2>4
  <2>8. ListedOnce'
    <3> SUFFICES ASSUME NEW i \in 1..Len(rows'), NEW j \in 1..Len(rows'), i # j
                 PROVE  rows'[i].traces \cap rows'[j].traces = {}
        BY DEF ListedOnce
    <3>1. CASE i \in 1..Len(rows) /\ j \in 1..Len(rows)
        BY <1>1, <2>3, <3>1 DEF OnceInv, ListedOnce
    <3>2. CASE i = Len(rows) + 1 \/ j = Len(rows) + 1
        BY <2>2, <2>3, <2>4, <2>5, <3>2
    <3> QED BY <2>5, <3>1, <3>2
  <2> QED BY <1>1, <2>1, <2>2, <2>6, <2>7, <2>8 DEF OnceInv
<1>6. CASE DeleteKeys
  <2>1. UNCHANGED <<st, rows>> /\ traces' = <<>> /\ snap'.traces = {} /\ reaper' = "idle"
      BY <1>6 DEF DeleteKeys, NoSnap
  <2>2. Unpushed' = Unpushed /\ Held' = {}
      BY <2>1, EmptyRange DEF Unpushed, Held
  <2> QED BY <1>1, <2>1, <2>2 DEF OnceInv, ListedOnce
<1>7. ASSUME NEW k \in {"traces", "meta"}, Expire(k)
      PROVE  OnceInv'
  <2>1. UNCHANGED <<st, rows, reaper, snap>> /\ (traces' = <<>> \/ traces' = traces)
      BY <1>7 DEF Expire
  <2>2. Unpushed' = Unpushed /\ Held' \subseteq Held
      BY <2>1, EmptyRange DEF Unpushed, Held
  <2> QED BY <1>1, <2>1, <2>2, OnceKept
<1>8. ~CloseFails /\ ~Crash
    BY <1>0 DEF CloseFails, Crash
<1> QED BY <1>2, <1>3, <1>4, <1>5, <1>6, <1>7, <1>8 DEF Next, CloseSession

-----------------------------------------------------------------------------
(* Without faults no trace is counted in two rows.                         *)

\* An action that neither moves a trace back before its count nor counts or
\* flushes more keeps what is so of counted and flushed traces.
LEMMA CountKept ==
    ASSUME CountInv, faults = 0, UNCHANGED rows,
           Uncounted' \subseteq Uncounted, Tally' \subseteq Tally,
           \/ UNCHANGED <<reaper, snap>>
           \/ /\ reaper # "delete" /\ reaper' # "delete"
              /\ reaper' \notin Closing => snap'.counted = {}
    PROVE  CountInv'
<1>1. /\ Uncounted' \cap Tally' = {}
      /\ \A i \in 1..Len(rows) : Uncounted' \cap rows[i].counted = {}
      /\ CountedOnce'
    BY DEF CountInv, CountedOnce
<1>2. reaper' \notin Closing => snap'.counted = {}
    BY DEF CountInv
<1>3. reaper' # "delete" => \A i \in 1..Len(rows) : rows[i].counted \cap Tally' = {}
    BY DEF CountInv
<1>4. reaper' = "delete" => \A i \in 1..(Len(rows) - 1) : rows[i].counted \cap Tally' = {}
    BY DEF CountInv
<1> QED BY <1>1, <1>2, <1>3, <1>4 DEF CountInv

LEMMA CountTrace ==
    ASSUME TypeOK, CountInv, faults' = 0, faults = 0,
           NEW t \in Traces, Admit(t) \/ AddTrace(t) \/ PipelineFails(t) \/ Resend(t)
    PROVE  CountInv'
<1> USE DEF redis, locals, closing, past, hist
<1>0. ~Fault
    BY Faulted
<1>1. CASE ~AddStep(t)
  <2>1. \/ Move(t, "new", "queued") \/ Move(t, "new", "rejected")
        \/ Move(t, "queued", "push") \/ Move(t, "queued", "blocked") \/ Move(t, "push", "seen")
        \/ Move(t, "seen", "cost") \/ Move(t, "cost", "steps")
        \/ Move(t, "ttlTraces", "ttlMeta") \/ Move(t, "ttlMeta", "limit")
        \/ Move(t, "limit", "ok") \/ Move(t, "limit", "tripped")
      BY <1>0, <1>1 DEF Admit, AddTrace, PipelineFails, Resend, CheckCircuit, Push, SetSeen, AddCost, SetTTL, CheckLimits, OnMeta
  <2>2. Uncounted' \subseteq Uncounted
      BY <2>1, Moved DEF Uncounted
  <2>3. UNCHANGED <<counted, rows, reaper, snap>>
      BY <1>0, <1>1 DEF Admit, AddTrace, PipelineFails, Resend, CheckCircuit, Push, SetSeen, AddCost, SetTTL, CheckLimits, OnMeta
  <2>4. Tally' = Tally
      BY <2>3 DEF Tally
  <2> QED BY <2>2, <2>3, <2>4, CountKept
<1>2. CASE AddStep(t)
  <2>1. UNCHANGED <<rows, reaper, snap>> /\ counted' = counted \cup {t} /\ Move(t, "steps", "ttlTraces")
      BY <1>2 DEF AddStep, OnMeta
  <2>2. t \in Uncounted /\ Uncounted' \subseteq Uncounted \ {t}
      BY <2>1, Moved DEF Uncounted
  <2>3. Tally' = Tally \cup {t}
      BY <2>1 DEF Tally
  <2>4. \A i \in 1..Len(rows) : t \notin rows[i].counted
      BY <2>2 DEF CountInv
  <2>5. Uncounted' \cap Tally' = {} /\ \A i \in 1..Len(rows) : Uncounted' \cap rows[i].counted = {}
      BY <2>2, <2>3 DEF CountInv
  <2>6. reaper # "delete" => \A i \in 1..Len(rows) : rows[i].counted \cap Tally' = {}
      BY <2>3, <2>4 DEF CountInv
  <2>7. reaper = "delete" => \A i \in 1..(Len(rows) - 1) : rows[i].counted \cap Tally' = {}
    <3>1. Len(rows) \in Nat
      <4>1. rows \in Seq(Row)
          BY DEF TypeOK
      <4> QED BY <4>1
    <3>2. \A i \in 1..(Len(rows) - 1) : t \notin rows[i].counted
        BY <2>4, <3>1
    <3> QED BY <2>3, <3>2 DEF CountInv
  <2> QED BY <2>1, <2>5, <2>6, <2>7 DEF CountInv, CountedOnce
<1> QED BY <1>1, <1>2

LEMMA CountStep ==
    ASSUME TypeOK, CountInv, [Next]_vars
    PROVE  CountInv'
<1> USE DEF redis, locals, closing, past, hist
<1> SUFFICES ASSUME faults' = 0 PROVE CountInv'
    BY DEF CountInv
<1>0. ~Fault
    BY Faulted
<1>1. faults = 0
    BY <1>0 DEF Next, vars, Admit, AddTrace, PipelineFails, Resend, CheckCircuit, Push, SetSeen, AddCost, AddStep, SetTTL,
                CheckLimits, OnMeta, CloseSession, BeginClose, ReadMeta, ReadTraces, WriteRow, DeleteKeys, CloseFails,
                GoIdle, Expire, ResetCircuit, Crash
<1>2. ASSUME NEW t \in Traces, Admit(t) \/ AddTrace(t) \/ PipelineFails(t) \/ Resend(t)
      PROVE  CountInv'
    BY <1>1, <1>2, CountTrace
<1>3. CASE BeginClose \/ GoIdle \/ ResetCircuit \/ UNCHANGED vars
  <2>1. /\ UNCHANGED <<st, counted, rows, snap>>
        /\ \/ UNCHANGED reaper
           \/ reaper \notin Closing /\ reaper' \notin Closing
      BY <1>3 DEF BeginClose, GoIdle, ResetCircuit, vars, Closing
  <2>2. Uncounted' = Uncounted /\ Tally' = Tally
      BY <2>1 DEF Uncounted, Tally
  <2>3. reaper \notin Closing => snap'.counted = {} /\ reaper # "delete"
      BY <1>1, <2>1 DEF CountInv, Closing
  <2>4. reaper' \notin Closing => reaper' # "delete"
      BY DEF Closing
  <2> QED BY <1>1, <2>1, <2>2, <2>3, <2>4, CountKept
<1>4. CASE ReadMeta \/ ReadTraces
  <2>1. /\ UNCHANGED <<st, counted, rows>> /\ snap'.counted \in {counted, snap.counted}
        /\ reaper # "delete" /\ reaper' \in Closing \ {"delete"}
      BY <1>4 DEF ReadMeta, ReadTraces, TypeOK, Row, Closing
  <2>2. Uncounted' = Uncounted /\ Tally' \subseteq Tally
      BY <2>1 DEF Uncounted, Tally
  <2> QED BY <1>1, <2>1, <2>2, CountKept
<1>5. CASE WriteRow
  <2>1. UNCHANGED <<st, counted, snap>> /\ reaper = "write" /\ reaper' = "delete"
      BY <1>5 DEF WriteRow
  <2>2. Uncounted' = Uncounted /\ Tally' = Tally /\ snap.counted \subseteq Tally
      BY <2>1 DEF Uncounted, Tally
  <2>3. /\ Len(rows') = Len(rows) + 1 /\ Len(rows) \in Nat
        /\ \A i \in 1..Len(rows) : rows'[i] = rows[i]
        /\ rows'[Len(rows) + 1] = snap
      BY <1>5, AppendedRows DEF WriteRow
  <2>4. \A i \in 1..Len(rows) : rows'[i].counted \cap Tally = {} /\ Uncounted \cap rows'[i].counted = {}
      BY <1>1, <2>1, <2>3 DEF CountInv
  <2>5. \A i \in 1..Len(rows') : i \in 1..Len(rows) \/ i = Len(rows) + 1
      BY <2>3
  <2>6. \A i \in 1..Len(rows') : Uncounted' \cap rows'[i].counted = {}
      BY <1>1, <2>2, <2>3, <2>4, <2>5 DEF CountInv
  <2>7. \A i \in 1..(Len(rows') - 1) : rows'[i].counted \cap Tally' = {}
      BY <2>2, <2>3, <2>4
  <2>8. CountedOnce'
    <3> SUFFICES ASSUME NEW i \in 1..Len(rows'), NEW j \in 1..Len(rows'), i # j
                 PROVE  rows'[i].counted \cap rows'[j].counted = {}
        BY DEF CountedOnce
    <3>1. CASE i \in 1..Len(rows) /\ j \in 1..Len(rows)
        BY <1>1, <2>3, <3>1 DEF CountInv, CountedOnce
    <3>2. CASE i = Len(rows) + 1 \/ j = Len(rows) + 1
        BY <2>2, <2>3, <2>4, <2>5, <3>2
    <3> QED BY <2>5, <3>1, <3>2
  <2>9. Uncounted' \cap Tally' = {} /\ reaper' \in Closing
      BY <1>1, <2>1, <2>2 DEF CountInv, Closing
  <2> QED BY <2>1, <2>6, <2>7, <2>8, <2>9 DEF CountInv
<1>6. CASE DeleteKeys
  <2>1. UNCHANGED <<st, rows>> /\ counted' = {} /\ snap'.counted = {} /\ reaper' = "idle"
      BY <1>6 DEF DeleteKeys, NoSnap
  <2>2. Uncounted' = Uncounted /\ Tally' = {}
      BY <2>1 DEF Uncounted, Tally
  <2> QED BY <1>1, <2>1, <2>2 DEF CountInv, CountedOnce
<1>7. ASSUME NEW k \in {"traces", "meta"}, Expire(k)
      PROVE  CountInv'
  <2>1. UNCHANGED <<st, rows, reaper, snap>> /\ (counted' = {} \/ counted' = counted)
      BY <1>7 DEF Expire
  <2>2. Uncounted' = Uncounted /\ Tally' \subseteq Tally
      BY <2>1 DEF Uncounted, Tally
  <2> QED BY <1>1, <2>1, <2>2, CountKept
<1>8. ~CloseFails /\ ~Crash
    BY <1>0 DEF CloseFails, Crash
<1> HIDE DEF redis, locals, closing, past, hist
<1> QED BY <1>2, <1>3, <1>4, <1>5, <1>6, <1>7, <1>8 DEF Next, CloseSession

\* Without faults the steps of the hash, and of each row, are as many as the
\* traces it has counted.
LEMMA NumbersStep ==
    ASSUME TypeOK, CountInv, NumbersInv, [Next]_vars
    PROVE  NumbersInv'
<1> USE DEF redis, locals, closing, past, hist
<1> SUFFICES ASSUME faults' = 0 PROVE NumbersInv'
    BY DEF NumbersInv
<1>0. ~Fault
    BY Faulted
<1>1. faults = 0
    BY <1>0 DEF Next, vars, Admit, AddTrace, PipelineFails, Resend, CheckCircuit, Push, SetSeen, AddCost, AddStep, SetTTL,
                CheckLimits, OnMeta, CloseSession, BeginClose, ReadMeta, ReadTraces, WriteRow, DeleteKeys, CloseFails,
                GoIdle, Expire, ResetCircuit, Crash
\* An action that counts nothing and writes no row.
<1>2. ASSUME UNCHANGED <<counted, rows, snap>>, meta'.steps = meta.steps, reaper' \in Closing => reaper \in Closing
      PROVE  NumbersInv'
    BY <1>1, <1>2 DEF NumbersInv, StepsAreCounted
<1>3. ASSUME NEW t \in Traces, Admit(t) \/ AddTrace(t) \/ PipelineFails(t) \/ Resend(t), ~AddStep(t)
      PROVE  NumbersInv'
  <2>1. UNCHANGED <<counted, rows, snap, reaper>>
      BY <1>0, <1>3 DEF Admit, AddTrace, PipelineFails, Resend, CheckCircuit, Push, SetSeen, AddCost, SetTTL, CheckLimits, OnMeta
  <2>2. meta'.steps = meta.steps
      BY <1>0, <1>3 DEF Admit, AddTrace, PipelineFails, Resend, CheckCircuit, Push, SetSeen, AddCost, SetTTL, CheckLimits,
                        OnMeta, TypeOK
  <2> QED BY <1>2, <2>1, <2>2
<1>4. ASSUME NEW t \in Traces, AddStep(t)
      PROVE  NumbersInv'
  <2>1. /\ Move(t, "steps", "ttlTraces") /\ UNCHANGED <<rows, snap, reaper>> /\ counted' = counted \cup {t}
        /\ meta' = [meta EXCEPT !.steps = @ + 1]
      BY <1>4 DEF AddStep, OnMeta
  <2>2. meta'.steps = meta.steps + 1
      BY <2>1 DEF TypeOK
  <2>3. t \in Uncounted
      BY <2>1, Moved DEF Uncounted
  <2>4. t \notin counted
      BY <1>1, <2>3 DEF CountInv, Tally
  <2>5. IsFiniteSet(counted)
      BY Fields, Sizes
  <2>6. Cardinality(counted \cup {t}) = Cardinality(counted) + 1
      BY <2>4, <2>5, FS_AddElement
  <2>7. meta'.steps = Cardinality(counted')
      BY <1>1, <2>1, <2>2, <2>6 DEF NumbersInv
  <2> QED BY <1>1, <2>1, <2>7 DEF NumbersInv, StepsAreCounted
<1>5. CASE BeginClose \/ GoIdle \/ ResetCircuit \/ UNCHANGED vars
  <2>1. UNCHANGED <<counted, rows, snap>> /\ (reaper' \in Closing => reaper \in Closing)
      BY <1>5 DEF BeginClose, GoIdle, ResetCircuit, vars, Closing
  <2>2. meta'.steps = meta.steps
      BY <1>5 DEF BeginClose, GoIdle, ResetCircuit, vars, TypeOK
  <2> QED BY <1>2, <2>1, <2>2
<1>6. CASE ReadMeta
  <2>1. UNCHANGED <<counted, rows, meta>> /\ snap'.steps = meta.steps /\ snap'.counted = counted
      BY <1>6 DEF ReadMeta, TypeOK, Row
  <2> QED BY <1>1, <2>1 DEF NumbersInv, StepsAreCounted
<1>7. CASE ReadTraces
  <2>1. /\ UNCHANGED <<counted, rows, meta>> /\ snap'.steps = snap.steps /\ snap'.counted = snap.counted
        /\ reaper \in Closing
      BY <1>7 DEF ReadTraces, TypeOK, Row, Closing
  <2> QED BY <1>1, <2>1 DEF NumbersInv, StepsAreCounted
<1>8. CASE WriteRow
  <2>1. UNCHANGED <<counted, meta, snap>> /\ reaper \in Closing
      BY <1>8 DEF WriteRow, Closing
  <2>2. /\ Len(rows') = Len(rows) + 1 /\ Len(rows) \in Nat
        /\ \A i \in 1..Len(rows) : rows'[i] = rows[i]
        /\ rows'[Len(rows) + 1] = snap
      BY <1>8, AppendedRows DEF WriteRow
  <2>3. \A i \in 1..Len(rows') : i \in 1..Len(rows) \/ i = Len(rows) + 1
      BY <2>2
  <2>4. StepsAreCounted'
    <3> SUFFICES ASSUME NEW i \in 1..Len(rows')
                 PROVE  rows'[i].steps = Cardinality(rows'[i].counted)
        BY DEF StepsAreCounted
    <3>1. CASE i \in 1..Len(rows)
        BY <1>1, <2>2, <3>1 DEF NumbersInv, StepsAreCounted
    <3>2. CASE i = Len(rows) + 1
        BY <1>1, <2>1, <2>2, <3>2 DEF NumbersInv
    <3> QED BY <2>3, <3>1, <3>2
  <2> QED BY <1>1, <2>1, <2>4 DEF NumbersInv
<1>9. CASE DeleteKeys \/ Expire("meta")
  <2>1. UNCHANGED rows /\ counted' = {} /\ meta'.steps = 0
      BY <1>9 DEF DeleteKeys, Expire, NoMeta
  <2>2. reaper' \in Closing => reaper \in Closing /\ UNCHANGED snap
      BY <1>9 DEF DeleteKeys, Expire, Closing
  <2>3. Cardinality({}) = 0
      BY FS_EmptySet
  <2> QED BY <1>1, <2>1, <2>2, <2>3 DEF NumbersInv, StepsAreCounted
<1>10. CASE Expire("traces")
  <2>1. UNCHANGED <<counted, rows, snap, meta, reaper>>
      BY <1>10 DEF Expire
  <2> QED BY <1>2, <2>1
<1>11. ~CloseFails /\ ~Crash
    BY <1>0 DEF CloseFails, Crash
<1> HIDE DEF redis, locals, closing, past, hist
<1> QED BY <1>3, <1>4, <1>5, <1>6, <1>7, <1>8, <1>9, <1>10, <1>11 DEF Next, CloseSession

-----------------------------------------------------------------------------
(* How far the breaker overshoots.                                         *)

LEMMA CountTypes ==
    ASSUME TypeOK
    PROVE  /\ Cardinality(Busy) \in Nat /\ Cardinality(Pre) \in Nat
           /\ Cardinality(Over) \in Nat /\ Cardinality(Free) \in Nat
           /\ Spare \in Nat /\ NumWorkers \in Nat /\ NumWorkers >= 1 /\ meta.steps \in Nat
           /\ MaxSteps \in Nat /\ resets \in Nat /\ faults \in Nat
<1>1. Busy \in SUBSET Traces /\ Pre \in SUBSET Traces /\ Over \in SUBSET Traces /\ Free \in SUBSET Traces
    BY Constants DEF Busy, Pre, Over, Free
<1>5. NumWorkers \in Nat /\ NumWorkers >= 1
    BY Constants
<1>2. NumWorkers \in Nat /\ MaxSteps \in Nat /\ meta.steps \in Nat /\ resets \in Nat /\ faults \in Nat
    BY Constants, Fields
<1>3. \A a, b \in Nat : a * b \in Nat
    OBVIOUS
<1>4. Spare \in Nat
    BY <1>2, <1>3 DEF Spare
<1> QED BY <1>1, <1>2, <1>4, <1>5, Sizes

\* A worker is before its count or past it, not both.
LEMMA Workers ==
    ASSUME TypeOK, StepsInv
    PROVE  Cardinality(Pre) + Cardinality(Over) <= NumWorkers
<1>1. Pre \cap Over = {} /\ Pre \cup Over \in SUBSET Busy /\ Busy \in SUBSET Traces
    BY Constants DEF Pre, Over, Busy, InAddTrace, InPipeline
<1>2. Pre \in SUBSET Traces /\ Over \in SUBSET Traces /\ Pre \cup Over \in SUBSET Traces
    BY Constants DEF Pre, Over
<1>3. Cardinality(Pre \cup Over) = Cardinality(Pre) + Cardinality(Over)
  <2>1. IsFiniteSet(Pre) /\ IsFiniteSet(Over)
      BY <1>2, Sizes
  <2>2. Cardinality(Pre \cup Over) = Cardinality(Pre) + Cardinality(Over) - Cardinality(Pre \cap Over)
      BY <2>1, FS_Union
  <2>3. Cardinality(Pre \cap Over) = 0 /\ Cardinality(Pre) \in Nat /\ Cardinality(Over) \in Nat
      BY <1>1, FS_EmptySet, CountTypes
  <2> QED BY <2>2, <2>3
<1>4. Cardinality(Pre \cup Over) <= Cardinality(Busy)
    BY <1>1, SubsetSizes
<1>5. Cardinality(Busy) <= NumWorkers /\ Cardinality(Busy) \in Nat /\ NumWorkers \in Nat
      /\ Cardinality(Pre) \in Nat /\ Cardinality(Over) \in Nat
    BY CountTypes DEF StepsInv
<1> QED BY <1>3, <1>4, <1>5

\* A reset or a fault gives as many steps more as there are workers.
LEMMA SpareGrows ==
    ASSUME TypeOK, TypeOK'
    PROVE  /\ resets' = resets /\ faults' = faults => Spare' = Spare
           /\ resets' = resets + 1 /\ faults' = faults => Spare' = Spare + NumWorkers
           /\ resets' = resets /\ faults' = faults + 1 => Spare' = Spare + NumWorkers
<1>1. resets \in Nat /\ faults \in Nat /\ NumWorkers \in Nat
    BY CountTypes
<1>2. \A n \in Nat, e \in Nat : n * (e + 1) = n * e + n
    OBVIOUS
<1>3. resets + faults \in Nat
    BY <1>1
<1>4. NumWorkers * ((resets + faults) + 1) = Spare + NumWorkers
    BY <1>1, <1>2, <1>3 DEF Spare
<1>5. resets + 1 + faults = (resets + faults) + 1 /\ resets + (faults + 1) = (resets + faults) + 1
    BY <1>1
<1> QED BY <1>4, <1>5 DEF Spare

LEMMA StepsParts ==
    ASSUME StepsInv
    PROVE  /\ Cardinality(Busy) <= NumWorkers
           /\ MaxSteps > 0 /\ Untripped =>
                 meta.steps <= (MaxSteps - 1) + Spare + Cardinality(Free) + Cardinality(Over)
           /\ MaxSteps > 0 /\ ~Untripped =>
                 meta.steps + Cardinality(Pre) <= (MaxSteps - 1) + NumWorkers + Spare + Cardinality(Free)
BY DEF StepsInv

LEMMA CircuitKept == UNCHANGED circuit => (Untripped' <=> Untripped)
BY DEF Untripped

\* An action that counts nothing and lets nobody through.
LEMMA StepsKept ==
    ASSUME TypeOK, TypeOK', StepsInv, UNCHANGED <<resets, faults>>, Untripped' <=> Untripped,
           Busy' \subseteq Busy, Pre' \subseteq Pre, MaxSteps > 0 => Over' = Over, Free \subseteq Free',
           meta'.steps <= meta.steps
    PROVE  StepsInv'
<1>1. /\ Busy \in SUBSET Traces /\ Busy' \in SUBSET Traces /\ Pre \in SUBSET Traces /\ Pre' \in SUBSET Traces
      /\ Free \in SUBSET Traces /\ Free' \in SUBSET Traces
    BY Constants DEF Busy, Pre, Free
<1>2. /\ Cardinality(Busy') <= Cardinality(Busy) /\ Cardinality(Pre') <= Cardinality(Pre)
      /\ Cardinality(Free) <= Cardinality(Free')
    BY <1>1, SubsetSizes
<1>3. /\ Cardinality(Busy') \in Nat /\ Cardinality(Pre') \in Nat /\ Cardinality(Free') \in Nat /\ meta'.steps \in Nat
    BY <1>1, Sizes, Fields DEF TypeOK
<1>4. Spare' = Spare
    BY SpareGrows
<1>5. /\ Cardinality(Busy) \in Nat /\ Cardinality(Pre) \in Nat /\ Cardinality(Over) \in Nat /\ Cardinality(Free) \in Nat
      /\ Spare \in Nat /\ NumWorkers \in Nat /\ meta.steps \in Nat /\ MaxSteps \in Nat
    BY CountTypes
<1>6. Cardinality(Busy') <= NumWorkers
  <2>1. Cardinality(Busy) <= NumWorkers
      BY StepsParts
  <2> QED BY <1>2, <1>3, <1>5, <2>1
<1>7. ASSUME MaxSteps > 0, Untripped'
      PROVE  meta'.steps <= (MaxSteps - 1) + Spare' + Cardinality(Free') + Cardinality(Over')
  <2>1. meta.steps <= (MaxSteps - 1) + Spare + Cardinality(Free) + Cardinality(Over) /\ Over' = Over
      BY <1>7 DEF StepsInv
  <2> QED BY <2>1, <1>2, <1>3, <1>4, <1>5
<1>8. ASSUME MaxSteps > 0, ~Untripped'
      PROVE  meta'.steps + Cardinality(Pre') <= (MaxSteps - 1) + NumWorkers + Spare' + Cardinality(Free')
  <2>1. meta.steps + Cardinality(Pre) <= (MaxSteps - 1) + NumWorkers + Spare + Cardinality(Free)
      BY <1>8 DEF StepsInv
  <2> QED BY <2>1, <1>2, <1>3, <1>4, <1>5
<1> QED BY <1>6, <1>7, <1>8 DEF StepsInv

\* A failed command or a crash: at most all the workers are lost, or one more
\* trace is let through.
LEMMA StepsFault ==
    ASSUME TypeOK, TypeOK', StepsInv, Fault, UNCHANGED resets, Untripped' <=> Untripped,
           Cardinality(Busy') <= NumWorkers, Free \subseteq Free', meta'.steps = meta.steps,
           NEW t, ~Untripped => Pre' \subseteq Pre \cup {t}
    PROVE  StepsInv'
<1>1. /\ Pre \in SUBSET Traces /\ Pre' \in SUBSET Traces /\ Over \in SUBSET Traces /\ Over' \in SUBSET Traces
      /\ Free \in SUBSET Traces /\ Free' \in SUBSET Traces
    BY Constants DEF Pre, Free, Over
<1>2. Cardinality(Free) <= Cardinality(Free') /\ (~Untripped => Cardinality(Pre') <= Cardinality(Pre) + 1)
    BY <1>1, SubsetSizes, OneMore
<1>3. Cardinality(Free') \in Nat /\ Cardinality(Over') \in Nat /\ Cardinality(Pre') \in Nat
    BY <1>1, Sizes
<1>4. Spare' = Spare + NumWorkers
    BY SpareGrows DEF Fault
<1>5. Cardinality(Pre) + Cardinality(Over) <= NumWorkers
    BY Workers
<1>6. /\ Cardinality(Pre) \in Nat /\ Cardinality(Over) \in Nat /\ Cardinality(Free) \in Nat
      /\ Spare \in Nat /\ NumWorkers \in Nat /\ NumWorkers >= 1 /\ meta.steps \in Nat /\ MaxSteps \in Nat
    BY CountTypes
<1>7. ASSUME MaxSteps > 0, Untripped'
      PROVE  meta'.steps <= (MaxSteps - 1) + Spare' + Cardinality(Free') + Cardinality(Over')
  <2>1. meta.steps <= (MaxSteps - 1) + Spare + Cardinality(Free) + Cardinality(Over)
      BY <1>7, StepsParts
  <2>2. Cardinality(Over) <= NumWorkers
      BY <1>5, <1>6
  <2> QED BY <2>1, <2>2, <1>2, <1>3, <1>4, <1>6
<1>8. ASSUME MaxSteps > 0, ~Untripped'
      PROVE  meta'.steps + Cardinality(Pre') <= (MaxSteps - 1) + NumWorkers + Spare' + Cardinality(Free')
  <2>1. meta.steps + Cardinality(Pre) <= (MaxSteps - 1) + NumWorkers + Spare + Cardinality(Free)
      BY <1>8, StepsParts
  <2>2. Cardinality(Pre') <= Cardinality(Pre) + 1
      BY <1>2, <1>8
  <2>3. Cardinality(Pre') <= Cardinality(Pre) + NumWorkers
      BY <2>2, <1>3, <1>6
  <2> QED BY <2>1, <2>2, <2>3, <1>2, <1>3, <1>4, <1>6
<1> QED BY <1>7, <1>8 DEF StepsInv

\* An AddTrace that goes on without counting.
LEMMA StepsOnward ==
    ASSUME TypeOK, TypeOK', StepsInv, UNCHANGED <<resets, faults, seenSteps>>, Untripped' <=> Untripped, meta'.steps = meta.steps,
           NEW t \in Traces,
           \/ Move(t, "new", "queued") \/ Move(t, "new", "rejected") \/ Move(t, "queued", "blocked")
           \/ Move(t, "push", "seen") \/ Move(t, "seen", "cost") \/ Move(t, "cost", "steps")
           \/ Move(t, "ttlTraces", "ttlMeta") \/ Move(t, "ttlMeta", "limit")
    PROVE  StepsInv'
<1>1. \A u \in Traces \ {t} : st'[u] = st[u]
    BY Moved
<1>2. Busy' \subseteq Busy /\ Pre' \subseteq Pre /\ Over' = Over /\ Free \subseteq Free'
    BY <1>1, Moved, Constants DEF Busy, Pre, Over, Free, InAddTrace, InPipeline
<1>3. meta'.steps <= meta.steps
    BY CountTypes
<1> QED BY <1>2, <1>3, StepsKept

LEMMA StepsCount ==
    ASSUME TypeOK, TypeOK', StepsInv, NEW t \in Traces, AddStep(t)
    PROVE  StepsInv'
<1>1. /\ UNCHANGED <<resets, faults>> /\ (Untripped' <=> Untripped) /\ meta'.steps = meta.steps + 1
      /\ st[t] = "steps" /\ st'[t] = "ttlTraces" /\ \A u \in Traces \ {t} : st'[u] = st[u]
      /\ seenSteps'[t] = meta'.steps /\ \A u \in Traces \ {t} : seenSteps'[u] = seenSteps[u]
  <2>1. UNCHANGED <<resets, faults>> /\ meta'.steps = meta.steps + 1
      BY DEF AddStep, OnMeta, TypeOK, redis, locals, closing, past, hist
  <2>2. Untripped' <=> Untripped
      BY CircuitKept DEF AddStep, OnMeta
  <2>3. st[t] = "steps" /\ st'[t] = "ttlTraces" /\ \A u \in Traces \ {t} : st'[u] = st[u]
      BY Moved DEF AddStep, OnMeta
  <2>4. seenSteps'[t] = meta'.steps /\ \A u \in Traces \ {t} : seenSteps'[u] = seenSteps[u]
      BY DEF AddStep, OnMeta, TypeOK, redis, locals, closing, past, hist
  <2> QED BY <2>1, <2>2, <2>3, <2>4
<1>2. Spare' = Spare
    BY <1>1, SpareGrows
<1>3. Busy' = Busy
    BY <1>1 DEF Busy, InAddTrace, InPipeline
<1>4. /\ Pre \in SUBSET Traces /\ Pre' \in SUBSET Traces /\ Over \in SUBSET Traces /\ Over' \in SUBSET Traces
      /\ Free \in SUBSET Traces /\ Free' \in SUBSET Traces
    BY Constants DEF Pre, Free, Over
<1>0. /\ Cardinality(Pre) \in Nat /\ Cardinality(Over) \in Nat /\ Cardinality(Free) \in Nat
      /\ Spare \in Nat /\ NumWorkers \in Nat /\ meta.steps \in Nat /\ MaxSteps \in Nat
    BY CountTypes
<1>5. CASE t \in Limited
  <2>1. t \in Pre /\ t \notin Pre' /\ Pre' \subseteq Pre
      BY <1>1, <1>5, Constants DEF Pre
  <2>5. Free' = Free
      BY <1>1, <1>5, Constants DEF Free
  <2>6. t \notin Over /\ Over \subseteq Over' /\ (t \in Over' <=> meta'.steps >= MaxSteps)
      BY <1>1, <1>5, Constants DEF Over
  <2>2. Cardinality(Pre') + 1 <= Cardinality(Pre) /\ Cardinality(Over) <= Cardinality(Over')
      BY <1>4, <2>1, <2>6, Grown, SubsetSizes
  <2>3. meta'.steps >= MaxSteps => Cardinality(Over) + 1 <= Cardinality(Over')
      BY <1>4, <2>6, Grown
  <2>4. Cardinality(Over') \in Nat /\ Cardinality(Pre') \in Nat
      BY <1>4, Sizes
  <2>7. ASSUME MaxSteps > 0, Untripped'
        PROVE  meta'.steps <= (MaxSteps - 1) + Spare' + Cardinality(Free') + Cardinality(Over')
    <3>1. meta.steps <= (MaxSteps - 1) + Spare + Cardinality(Free) + Cardinality(Over)
        BY <1>1, <2>7, StepsParts
    <3>2. CASE meta'.steps >= MaxSteps
        BY <3>1, <3>2, <1>0, <1>1, <1>2, <2>3, <2>4, <2>5
    <3>3. CASE ~(meta'.steps >= MaxSteps)
        BY <3>3, <1>0, <1>1, <1>2, <2>4, <2>5
    <3> QED BY <3>2, <3>3
  <2>8. ASSUME MaxSteps > 0, ~Untripped'
        PROVE  meta'.steps + Cardinality(Pre') <= (MaxSteps - 1) + NumWorkers + Spare' + Cardinality(Free')
    <3>1. meta.steps + Cardinality(Pre) <= (MaxSteps - 1) + NumWorkers + Spare + Cardinality(Free)
        BY <1>1, <2>8, StepsParts
    <3> QED BY <3>1, <1>0, <1>1, <1>2, <2>2, <2>4, <2>5
  <2>9. Cardinality(Busy') <= NumWorkers
      BY <1>3, StepsParts
  <2> QED BY <2>7, <2>8, <2>9 DEF StepsInv
<1>6. CASE t \notin Limited
  <2>1. Pre' = Pre
      BY <1>1, <1>6, Constants DEF Pre
  <2>3. Over' = Over
      BY <1>1, <1>6, Constants DEF Over
  <2>4. t \in Free' /\ t \notin Free /\ Free \subseteq Free'
      BY <1>1, <1>6 DEF Free
  <2>2. Cardinality(Free) + 1 <= Cardinality(Free') /\ Cardinality(Free') \in Nat
      BY <1>4, <2>4, Grown, Sizes
  <2>7. ASSUME MaxSteps > 0, Untripped'
        PROVE  meta'.steps <= (MaxSteps - 1) + Spare' + Cardinality(Free') + Cardinality(Over')
    <3>1. meta.steps <= (MaxSteps - 1) + Spare + Cardinality(Free) + Cardinality(Over)
        BY <1>1, <2>7, StepsParts
    <3> QED BY <3>1, <1>0, <1>1, <1>2, <2>2, <2>3
  <2>8. ASSUME MaxSteps > 0, ~Untripped'
        PROVE  meta'.steps + Cardinality(Pre') <= (MaxSteps - 1) + NumWorkers + Spare' + Cardinality(Free')
    <3>1. meta.steps + Cardinality(Pre) <= (MaxSteps - 1) + NumWorkers + Spare + Cardinality(Free)
        BY <1>1, <2>8, StepsParts
    <3> QED BY <3>1, <1>0, <1>1, <1>2, <2>1, <2>2
  <2>9. Cardinality(Busy') <= NumWorkers
      BY <1>3, StepsParts
  <2> QED BY <2>7, <2>8, <2>9 DEF StepsInv
<1> QED BY <1>5, <1>6

LEMMA StepsCheck ==
    ASSUME TypeOK, TypeOK', StepsInv, NEW t \in Traces, CheckCircuit(t)
    PROVE  StepsInv'
<1> USE DEF redis, locals, closing, past, hist
<1>1. UNCHANGED <<resets, meta, seenSteps>> /\ (Untripped' <=> Untripped) /\ Cardinality(Busy) < NumWorkers
    BY CircuitKept DEF CheckCircuit
<1>2. CASE Move(t, "queued", "blocked") /\ UNCHANGED faults
    BY <1>1, <1>2, StepsOnward
<1>3. CASE Move(t, "queued", "push")
  <2>1. st[t] = "queued" /\ st'[t] = "push" /\ \A u \in Traces \ {t} : st'[u] = st[u]
      BY <1>3, Moved
  <2>2. Busy' \subseteq Busy \cup {t} /\ Pre' \subseteq Pre \cup {t} /\ Over' = Over /\ Free' = Free
    <3>1. Busy' \subseteq Busy \cup {t}
        BY <2>1 DEF Busy
    <3>2. Pre' \subseteq Pre \cup {t}
        BY <2>1, Constants DEF Pre
    <3>3. Over' = Over
        BY <1>1, <2>1, Constants DEF Over
    <3>4. Free' = Free
        BY <2>1 DEF Free
    <3> QED BY <3>1, <3>2, <3>3, <3>4
  <2>3. Busy \in SUBSET Traces /\ Busy' \in SUBSET Traces
      BY DEF Busy
  <2>4. Cardinality(Busy') <= Cardinality(Busy) + 1 /\ Cardinality(Busy') \in Nat
      BY <2>2, <2>3, OneMore, Sizes
  <2>5. Cardinality(Busy') <= NumWorkers
      BY <1>1, <2>4, CountTypes
  <2>6. CASE ~Untripped /\ Fault
      BY <1>1, <2>2, <2>5, <2>6, StepsFault
  <2>7. CASE Untripped /\ UNCHANGED faults
    <3>1. Spare' = Spare
        BY <1>1, <2>7, SpareGrows
    <3>2. MaxSteps > 0 => meta'.steps <= (MaxSteps - 1) + Spare' + Cardinality(Free') + Cardinality(Over')
      <4>1. MaxSteps > 0 => meta.steps <= (MaxSteps - 1) + Spare + Cardinality(Free) + Cardinality(Over)
          BY <2>7, StepsParts
      <4> QED BY <1>1, <2>2, <3>1, <4>1
    <3>3. Untripped'
        BY <1>1, <2>7
    <3> QED BY <2>5, <3>2, <3>3 DEF StepsInv
  <2>8. (circuit # "" /\ Fault) \/ (circuit = "" /\ UNCHANGED faults)
    <3>1. ~Move(t, "queued", "blocked")
        BY <2>1, Moved
    <3> QED BY <3>1 DEF CheckCircuit
  <2> QED BY <2>6, <2>7, <2>8 DEF Untripped
<1> QED BY <1>2, <1>3 DEF CheckCircuit

LEMMA StepsLimits ==
    ASSUME TypeOK, TypeOK', StepsInv, NEW t \in Traces, CheckLimits(t)
    PROVE  StepsInv'
<1> USE DEF redis, locals, closing, past, hist
<1>1. /\ UNCHANGED resets /\ meta'.steps = meta.steps /\ st[t] = "limit" /\ st'[t] \in {"tripped", "ok"}
      /\ \A u \in Traces \ {t} : st'[u] = st[u] /\ seenSteps'[u] = seenSteps[u]
    BY Moved, Dropped DEF CheckLimits
<1>2. Busy' \subseteq Busy /\ Pre' = Pre /\ Free' = Free /\ Over' = Over \ {t}
    BY <1>1, Constants DEF Busy, Pre, Free, Over, InAddTrace, InPipeline
<1>3. Busy \in SUBSET Traces /\ Busy' \in SUBSET Traces
    BY DEF Busy
<1>4. Cardinality(Busy') <= NumWorkers
  <2>1. Cardinality(Busy') <= Cardinality(Busy) /\ Cardinality(Busy') \in Nat
      BY <1>2, <1>3, SubsetSizes, Sizes
  <2>2. Cardinality(Busy) <= NumWorkers /\ Cardinality(Busy) \in Nat /\ NumWorkers \in Nat
      BY CountTypes DEF StepsInv
  <2> QED BY <2>1, <2>2
<1>5. CASE UNCHANGED faults /\ (Untripped' <=> Untripped) /\ (t \notin Limited \/ ~OverSteps(t))
  <2>1. MaxSteps > 0 => t \notin Over
      BY <1>5 DEF Over, OverSteps
  <2>2. meta'.steps <= meta.steps
      BY <1>1, CountTypes
  <2> QED BY <1>1, <1>2, <1>5, <2>1, <2>2, StepsKept
<1>6. CASE ~Untripped' /\ UNCHANGED faults
  <2>1. Spare' = Spare
      BY <1>1, <1>6, SpareGrows
  <2>2. Cardinality(Pre) + Cardinality(Over) <= NumWorkers
      BY Workers
  <2>3. /\ Cardinality(Pre) \in Nat /\ Cardinality(Over) \in Nat /\ Cardinality(Free) \in Nat
        /\ Spare \in Nat /\ NumWorkers \in Nat /\ meta.steps \in Nat /\ MaxSteps \in Nat
      BY CountTypes
  <2>4. ASSUME MaxSteps > 0
        PROVE  meta'.steps + Cardinality(Pre') <= (MaxSteps - 1) + NumWorkers + Spare' + Cardinality(Free')
    <3>1. CASE Untripped
      <4>1. meta.steps <= (MaxSteps - 1) + Spare + Cardinality(Free) + Cardinality(Over)
          BY <2>4, <3>1, StepsParts
      <4> QED BY <4>1, <1>1, <1>2, <2>1, <2>2, <2>3
    <3>2. CASE ~Untripped
      <4>1. meta.steps + Cardinality(Pre) <= (MaxSteps - 1) + NumWorkers + Spare + Cardinality(Free)
          BY <2>4, <3>2, StepsParts
      <4> QED BY <4>1, <1>1, <1>2, <2>1
    <3> QED BY <3>1, <3>2
  <2>5. ~Untripped' /\ (MaxSteps > 0 => meta'.steps + Cardinality(Pre') <= (MaxSteps - 1) + NumWorkers + Spare' + Cardinality(Free'))
      BY <1>6, <2>4
  <2> QED BY <1>4, <2>5 DEF StepsInv
<1>7. CASE UNCHANGED circuit /\ Fault
  <2>1. (Untripped' <=> Untripped) /\ Pre' \subseteq Pre \cup {t} /\ Free \subseteq Free'
      BY <1>2, <1>7, CircuitKept
  <2> QED BY <1>1, <1>4, <1>7, <2>1, StepsFault
<1>8. \/ circuit' = "cost" /\ UNCHANGED faults
      \/ circuit' = "steps" /\ UNCHANGED faults
      \/ UNCHANGED circuit /\ Fault
      \/ UNCHANGED <<circuit, faults>> /\ (t \notin Limited \/ ~OverSteps(t))
    BY DEF CheckLimits
<1>9. circuit' = "cost" \/ circuit' = "steps" => ~Untripped'
    BY DEF Untripped
<1> QED BY <1>5, <1>6, <1>7, <1>8, <1>9, CircuitKept

\* A pipeline that is sent again: its trace may count, or be counted, twice.
LEMMA StepsResend ==
    ASSUME TypeOK, TypeOK', StepsInv, NEW t \in Traces, Resend(t)
    PROVE  StepsInv'
<1> USE DEF redis, locals, closing, past, hist
<1>1. /\ UNCHANGED <<resets, meta>> /\ (Untripped' <=> Untripped) /\ Fault
      /\ st[t] \in InAddTrace /\ st'[t] = "push" /\ \A u \in Traces \ {t} : st'[u] = st[u] /\ seenSteps'[u] = seenSteps[u]
    BY Moved, Dropped, CircuitKept DEF Resend, InAddTrace
<1>2. Busy' = Busy
    BY <1>1 DEF Busy, InAddTrace, InPipeline
<1>3. /\ Pre \in SUBSET Traces /\ Pre' \in SUBSET Traces /\ Over \in SUBSET Traces /\ Over' \in SUBSET Traces
      /\ Free \in SUBSET Traces /\ Free' \in SUBSET Traces
    BY Constants DEF Pre, Free, Over
<1>4. Over \subseteq Over' \cup {t} /\ Pre' \subseteq Pre \cup {t}
    BY <1>1, Constants DEF Over, Pre
<1>5. Free \subseteq Free' \cup {t}
    BY <1>1 DEF Free
<1>6. /\ Cardinality(Over) <= Cardinality(Over') + 1
      /\ Cardinality(Pre') <= Cardinality(Pre) + 1
      /\ Cardinality(Free) <= Cardinality(Free') + 1
    BY <1>3, <1>4, <1>5, OneMore
<1>7. /\ t \in Limited => Free' = Free
      /\ t \notin Limited => Over' = Over /\ Pre' = Pre
    BY <1>1, Constants DEF Over, Pre, Free
<1>8. /\ Cardinality(Pre) \in Nat /\ Cardinality(Over) \in Nat /\ Cardinality(Free) \in Nat
      /\ Cardinality(Pre') \in Nat /\ Cardinality(Over') \in Nat /\ Cardinality(Free') \in Nat
      /\ Spare \in Nat /\ NumWorkers \in Nat /\ NumWorkers >= 1 /\ meta.steps \in Nat /\ MaxSteps \in Nat
    BY CountTypes, <1>3, Sizes
<1>9. Spare' = Spare + NumWorkers
    BY <1>1, SpareGrows DEF Fault
<1>10. Cardinality(Busy') <= NumWorkers
    BY <1>2, StepsParts
<1>11. /\ Cardinality(Free) + Cardinality(Over) <= Cardinality(Free') + Cardinality(Over') + 1
       /\ Cardinality(Free) + Cardinality(Pre') <= Cardinality(Free') + Cardinality(Pre) + 1
  <2>1. CASE t \in Limited
      BY <2>1, <1>6, <1>7, <1>8
  <2>2. CASE t \notin Limited
      BY <2>2, <1>6, <1>7, <1>8
  <2> QED BY <2>1, <2>2
<1>12. ASSUME MaxSteps > 0, Untripped'
       PROVE  meta'.steps <= (MaxSteps - 1) + Spare' + Cardinality(Free') + Cardinality(Over')
  <2>1. meta.steps <= (MaxSteps - 1) + Spare + Cardinality(Free) + Cardinality(Over)
      BY <1>1, <1>12, StepsParts
  <2>2. meta'.steps = meta.steps
      BY <1>1
  <2> QED BY <2>1, <2>2, <1>8, <1>9, <1>11
<1>13. ASSUME MaxSteps > 0, ~Untripped'
       PROVE  meta'.steps + Cardinality(Pre') <= (MaxSteps - 1) + NumWorkers + Spare' + Cardinality(Free')
  <2>1. meta.steps + Cardinality(Pre) <= (MaxSteps - 1) + NumWorkers + Spare + Cardinality(Free)
      BY <1>1, <1>13, StepsParts
  <2>2. meta'.steps = meta.steps
      BY <1>1
  <2> QED BY <2>1, <2>2, <1>8, <1>9, <1>11
<1> QED BY <1>10, <1>12, <1>13 DEF StepsInv

LEMMA StepsStep ==
    ASSUME TypeOK, TypeOK', StepsInv, [Next]_vars
    PROVE  StepsInv'
<1> USE DEF redis, locals, closing, past, hist
<1>1. ASSUME NEW t \in Traces, Push(t) \/ SetSeen(t) \/ AddCost(t) \/ SetTTL(t)
      PROVE  StepsInv'
  <2>1. UNCHANGED <<resets, faults, seenSteps>> /\ (Untripped' <=> Untripped) /\ meta'.steps = meta.steps
      BY <1>1, CircuitKept DEF Push, SetSeen, AddCost, SetTTL, OnMeta, TypeOK
  <2>2. \/ Move(t, "push", "seen") \/ Move(t, "seen", "cost") \/ Move(t, "cost", "steps")
        \/ Move(t, "ttlTraces", "ttlMeta") \/ Move(t, "ttlMeta", "limit")
      BY <1>1 DEF Push, SetSeen, AddCost, SetTTL, OnMeta
  <2> QED BY <2>1, <2>2, StepsOnward
<1>2. ASSUME NEW t \in Traces, Admit(t)
      PROVE  StepsInv'
  <2>1. UNCHANGED <<resets, seenSteps, meta>> /\ (Untripped' <=> Untripped) /\ (Move(t, "new", "queued") \/ Move(t, "new", "rejected"))
      BY <1>2, CircuitKept DEF Admit
  <2>2. CASE UNCHANGED faults
      BY <2>1, <2>2, StepsOnward
  <2>3. CASE Fault
    <3>1. \A u \in Traces \ {t} : st'[u] = st[u]
        BY <2>1, Moved
    <3>2. Busy' = Busy /\ Pre' = Pre /\ Free \subseteq Free'
        BY <2>1, <3>1, Moved, Constants DEF Busy, Pre, Free, InAddTrace, InPipeline
    <3>3. Cardinality(Busy') <= NumWorkers /\ Pre' \subseteq Pre \cup {t}
        BY <3>2 DEF StepsInv
    <3> QED BY <2>1, <2>3, <3>2, <3>3, StepsFault
  <2> QED BY <1>2, <2>2, <2>3 DEF Admit
<1>3. ASSUME NEW t \in Traces, PipelineFails(t)
      PROVE  StepsInv'
  <2>1. UNCHANGED <<resets, meta>> /\ (Untripped' <=> Untripped) /\ Fault /\ st[t] \in InPipeline /\ st'[t] = "failed"
        /\ \A u \in Traces \ {t} : st'[u] = st[u]
      BY <1>3, Moved, CircuitKept DEF PipelineFails
  <2>2. Busy' \subseteq Busy /\ Pre' \subseteq Pre \cup {t} /\ Free \subseteq Free'
      BY <2>1, Constants DEF Busy, Pre, Free, InAddTrace, InPipeline
  <2>3. Busy \in SUBSET Traces /\ Busy' \in SUBSET Traces
      BY DEF Busy
  <2>4. Cardinality(Busy') <= NumWorkers
    <3>1. Cardinality(Busy') <= Cardinality(Busy) /\ Cardinality(Busy') \in Nat
        BY <2>2, <2>3, SubsetSizes, Sizes
    <3>2. Cardinality(Busy) <= NumWorkers /\ Cardinality(Busy) \in Nat /\ NumWorkers \in Nat
        BY CountTypes DEF StepsInv
    <3> QED BY <3>1, <3>2
  <2> QED BY <2>1, <2>2, <2>4, StepsFault
<1>4. CASE BeginClose \/ ReadMeta \/ ReadTraces \/ WriteRow \/ DeleteKeys \/ GoIdle \/ UNCHANGED vars
  <2>1. UNCHANGED <<st, seenSteps, resets, faults>> /\ (Untripped' <=> Untripped) /\ (meta'.steps = meta.steps \/ meta'.steps = 0)
    <3>1. CASE DeleteKeys
        BY <3>1, CircuitKept DEF DeleteKeys, NoMeta
    <3>2. CASE GoIdle
        BY <3>2, CircuitKept DEF GoIdle, TypeOK
    <3>3. CASE BeginClose \/ ReadMeta \/ ReadTraces \/ WriteRow \/ UNCHANGED vars
        BY <3>3, CircuitKept DEF BeginClose, ReadMeta, ReadTraces, WriteRow, vars
    <3> QED BY <1>4, <3>1, <3>2, <3>3
  <2>2. Busy' = Busy /\ Pre' = Pre /\ Over' = Over /\ Free' = Free
      BY <2>1 DEF Busy, Pre, Over, Free
  <2> QED BY <2>1, <2>2, StepsKept, CountTypes
<1>5. ASSUME NEW k \in {"traces", "meta"}, Expire(k)
      PROVE  StepsInv'
  <2>1. UNCHANGED <<st, seenSteps, resets, faults>> /\ (Untripped' <=> Untripped) /\ (meta'.steps = meta.steps \/ meta'.steps = 0)
      BY <1>5, CircuitKept DEF Expire, NoMeta
  <2>2. Busy' = Busy /\ Pre' = Pre /\ Over' = Over /\ Free' = Free
      BY <2>1 DEF Busy, Pre, Over, Free
  <2> QED BY <2>1, <2>2, StepsKept, CountTypes
<1>6. CASE CloseFails
  <2>1. UNCHANGED <<st, resets, meta>> /\ (Untripped' <=> Untripped) /\ Fault
      BY <1>6, CircuitKept DEF CloseFails
  <2>2. Busy' = Busy /\ Pre' = Pre /\ Free' = Free
      BY <2>1 DEF Busy, Pre, Free
  <2>3. Cardinality(Busy') <= NumWorkers /\ Pre' \subseteq Pre \cup {0}
      BY <2>2 DEF StepsInv
  <2> QED BY <2>1, <2>2, <2>3, StepsFault
<1>7. CASE Crash
  <2>1. UNCHANGED <<resets, meta>> /\ (Untripped' <=> Untripped) /\ Fault
      BY <1>7, CircuitKept DEF Crash
  <2>2. Busy' = {} /\ Pre' = {} /\ Free \subseteq Free'
      BY <1>7, Constants DEF Crash, Busy, Pre, Free, InAddTrace, InPipeline, TypeOK
  <2>3. Cardinality(Busy') <= NumWorkers /\ Pre' \subseteq Pre \cup {0}
      BY <2>2, FS_EmptySet, Constants
  <2> QED BY <2>1, <2>2, <2>3, StepsFault
<1>8. CASE ResetCircuit
  <2>1. /\ UNCHANGED <<st, seenSteps, faults>> /\ meta'.steps = meta.steps /\ resets' = resets + 1
        /\ ~Untripped /\ Untripped'
      BY <1>8 DEF ResetCircuit, Untripped
  <2>2. Busy' = Busy /\ Pre' = Pre /\ Over' = Over /\ Free' = Free
      BY <2>1 DEF Busy, Pre, Over, Free
  <2>3. Spare' = Spare + NumWorkers
      BY <2>1, SpareGrows
  <2>4. /\ Cardinality(Pre) \in Nat /\ Cardinality(Over) \in Nat /\ Cardinality(Free) \in Nat
        /\ Spare \in Nat /\ NumWorkers \in Nat /\ meta.steps \in Nat /\ MaxSteps \in Nat
      BY CountTypes
  <2>5. MaxSteps > 0 => meta'.steps <= (MaxSteps - 1) + Spare' + Cardinality(Free') + Cardinality(Over')
    <3>1. MaxSteps > 0 => meta.steps + Cardinality(Pre) <= (MaxSteps - 1) + NumWorkers + Spare + Cardinality(Free)
        BY <2>1, StepsParts
    <3> QED BY <3>1, <2>1, <2>2, <2>3, <2>4
  <2>6. Cardinality(Busy') <= NumWorkers
      BY <2>2, StepsParts
  <2> QED BY <2>1, <2>5, <2>6 DEF StepsInv
<1> QED BY <1>1, <1>2, <1>3, <1>4, <1>5, <1>6, <1>7, <1>8, StepsCount, StepsCheck, StepsLimits, StepsResend
        DEF Next, AddTrace, CloseSession

-----------------------------------------------------------------------------
(* The theorems.                                                           *)

LEMMA InitInv == Init => IInv
<1> SUFFICES ASSUME Init PROVE IInv
    OBVIOUS
<1>1. TypeOK
    BY TypeInit
<1>2. /\ Busy = {} /\ Buffered = {} /\ Halfway = {} /\ counted = {}
      /\ Range(traces) = {} /\ snap.traces = {} /\ snap.counted = {}
    BY EmptyRange DEF Init, Busy, Buffered, Halfway, InAddTrace, InPipeline, NoSnap
<1>3. StepsInv
  <2>1. meta.steps = 0 /\ Untripped /\ Cardinality(Busy) = 0
      BY <1>2, FS_EmptySet DEF Init, NoMeta, Untripped
  <2>2. MaxSteps > 0 => 0 <= (MaxSteps - 1) + Spare + Cardinality(Free) + Cardinality(Over)
    <3>1. MaxSteps \in Nat /\ Spare \in Nat /\ Cardinality(Free) \in Nat /\ Cardinality(Over) \in Nat
        BY <1>1, CountTypes
    <3> QED BY <3>1
  <2>3. 0 <= NumWorkers
      BY Constants
  <2> QED BY <2>1, <2>2, <2>3 DEF StepsInv
<1>4. LostInv
    BY <1>2 DEF Init, LostInv, OnlyRacedTracesLost, Closing
<1>5. rows = <<>> /\ Len(rows) = 0
    BY DEF Init
<1>6. OnceInv
  <2>1. 1..Len(rows) = {} /\ 1..(Len(rows) - 1) = {}
      BY <1>5
  <2> QED BY <1>2, <2>1 DEF Init, OnceInv, ListedOnce, Held
<1>7. OrphanInv
    BY DEF Init, OrphanInv, MetaExists
<1>8. CountInv /\ NumbersInv
  <2>1. 1..Len(rows) = {} /\ 1..(Len(rows) - 1) = {}
      BY <1>5
  <2>2. CountInv
      BY <1>2, <2>1 DEF Init, CountInv, CountedOnce, Tally
  <2>3. meta.steps = 0 /\ Cardinality({}) = 0
      BY FS_EmptySet DEF Init, NoMeta
  <2>4. NumbersInv
      BY <1>2, <2>1, <2>3 DEF Init, NumbersInv, StepsAreCounted, Closing
  <2> QED BY <2>2, <2>4
<1> QED BY <1>1, <1>3, <1>4, <1>6, <1>7, <1>8 DEF IInv

LEMMA StepInv == IInv /\ [Next]_vars => IInv'
<1> SUFFICES ASSUME IInv, [Next]_vars PROVE IInv'
    OBVIOUS
<1>1. TypeOK /\ StepsInv /\ LostInv /\ OnceInv /\ CountInv /\ NumbersInv /\ OrphanInv
    BY DEF IInv
<1>2. TypeOK'
    BY <1>1, TypeStep
<1>3. StepsInv' /\ LostInv' /\ OnceInv' /\ CountInv' /\ NumbersInv' /\ OrphanInv'
    BY <1>1, <1>2, StepsStep, LostStep, OnceStep, CountStep, NumbersStep, OrphanStep
<1> QED BY <1>2, <1>3 DEF IInv

\* The invariant holds for any traces, costs, limits, workers, resets and faults.
THEOREM Invariance == Spec => []IInv
BY InitInv, StepInv, PTL DEF Spec

\* The keys, counters, rows and control states of a session are type correct.
THEOREM TypeCorrect == Spec => []TypeOK
<1>1. IInv => TypeOK
    BY DEF IInv
<1> QED BY <1>1, Invariance, PTL

\* A session passes its step limit by no more than the workers, once and again
\* after each reset and fault, and the traces without a limit
\* (session.go:123-205).
THEOREM OvershootIsBounded == Spec => []OvershootBounded
<1>1. IInv => OvershootBounded
  <2> SUFFICES ASSUME IInv, MaxSteps > 0
               PROVE  meta.steps <= (MaxSteps - 1) + NumWorkers * (1 + resets + faults)
                                    + Cardinality(Traces \ Limited)
      BY DEF OvershootBounded
  <2>1. TypeOK /\ StepsInv
      BY DEF IInv
  <2>2. /\ Cardinality(Pre) \in Nat /\ Cardinality(Over) \in Nat /\ Cardinality(Free) \in Nat
        /\ Spare \in Nat /\ NumWorkers \in Nat /\ meta.steps \in Nat /\ MaxSteps \in Nat
        /\ resets \in Nat /\ faults \in Nat
      BY <2>1, CountTypes
  <2>3. NumWorkers * (1 + resets + faults) = Spare + NumWorkers
    <3>1. \A n \in Nat, e \in Nat : n * (e + 1) = n * e + n
        OBVIOUS
    <3>2. resets + faults \in Nat /\ 1 + resets + faults = (resets + faults) + 1
        BY <2>2
    <3> QED BY <2>2, <3>1, <3>2 DEF Spare
  <2>4. Cardinality(Free) <= Cardinality(Traces \ Limited) /\ Cardinality(Traces \ Limited) \in Nat
    <3>1. Free \in SUBSET (Traces \ Limited) /\ Traces \ Limited \in SUBSET Traces
        BY DEF Free
    <3> QED BY <3>1, SubsetSizes, Sizes
  <2>5. Cardinality(Pre) + Cardinality(Over) <= NumWorkers
      BY <2>1, Workers
  <2>6. CASE Untripped
    <3>1. meta.steps <= (MaxSteps - 1) + Spare + Cardinality(Free) + Cardinality(Over)
        BY <2>1, <2>6, StepsParts
    <3> QED BY <2>2, <2>3, <2>4, <2>5, <3>1
  <2>7. CASE ~Untripped
    <3>1. meta.steps + Cardinality(Pre) <= (MaxSteps - 1) + NumWorkers + Spare + Cardinality(Free)
        BY <2>1, <2>7, StepsParts
    <3> QED BY <2>2, <2>3, <2>4, <3>1
  <2> QED BY <2>6, <2>7
<1> QED BY <1>1, Invariance, PTL

\* Whatever fails or crashes, a buffered trace is in Redis, in the list and in
\* the counters, or in one row, in its counters and its quality, unless its
\* pipeline was at work between the HGETALL of a close and its DEL, or a key has
\* expired (session.go:306-390).
THEOREM LostInRacesOnly == Spec => []OnlyRacedTracesLost
<1>1. IInv => OnlyRacedTracesLost
    BY DEF IInv, LostInv
<1> QED BY <1>1, Invariance, PTL

\* Without faults no trace is counted in two rows of agent_sessions, nor in the
\* quality of two, however the pipelines interleave with the closes.
THEOREM RowsAreDisjoint == Spec => []OneRowPerTrace
<1>1. IInv => OneRowPerTrace
    BY DEF IInv, OnceInv, CountInv, OneRowPerTrace
<1> QED BY <1>1, Invariance, PTL

\* Without faults no key of a session stays in Redis for ever: at rest each has
\* its TTL, and a list has the hash that the reaper looks for.
THEOREM NothingStays == Spec => []NothingOrphaned
<1>1. IInv => NothingOrphaned
    BY DEF IInv, OrphanInv, NothingOrphaned, Busy, InAddTrace, InPipeline
<1> QED BY <1>1, Invariance, PTL

-----------------------------------------------------------------------------
(* The counters and the rows, as long as no AddTrace overlaps a close.     *)

Calm == faults = 0 /\ ~overlap

\* The buffered traces whose cost has been counted; those whose step has been
\* counted are Entered.
Charged == {t \in Traces : t \in Range(traces) /\ st[t] \notin {"seen", "cost"}}

\* The hash counts the buffer; CloseSession finds nobody at work, reads what is
\* there and deletes what it has read.
Placed ==
    /\ \A t \in Traces : st[t] \in InAddTrace \ {"push"} => t \in Range(traces)
    /\ \A t \in Traces : st[t] \in {"cost", "steps"} => Reapable
    /\ ~Reapable => meta = NoMeta
    /\ reaper # "idle" => Busy = {} /\ Reapable
Tallied ==
    /\ counted = Entered
    /\ meta.steps = Cardinality(Entered)
    /\ meta.cost = TotalCost(Charged)
Snapped ==
    /\ reaper \in Closing => snap.steps = meta.steps /\ snap.cost = meta.cost /\ snap.counted = counted
    /\ reaper \in {"write", "delete"} => snap.traces = Range(traces)
RowsAgree ==
    \A i \in 1..Len(rows) : /\ rows[i].counted = rows[i].traces
                            /\ rows[i].cost = TotalCost(rows[i].traces)
CalmInv == Calm => Placed /\ Tallied /\ Snapped /\ RowsAgree

\* While the circuit is closed, a limit that has been reached has been seen by
\* one who will trip it.
StepSeen(t) == st[t] \in {"ttlTraces", "ttlMeta", "limit"} /\ seenSteps[t] >= MaxSteps
CostSeen(t) == st[t] \in {"steps", "ttlTraces", "ttlMeta", "limit"} /\ seenCost[t] >= MaxCost
TripInv ==
    Calm /\ resets = 0 /\ Untripped =>
        /\ MaxSteps > 0 =>
              Cardinality(Entered \cap Limited) < MaxSteps \/ \E t \in Limited : StepSeen(t)
        /\ MaxCost > 0 =>
              TotalCost(Charged \cap Limited) < MaxCost \/ \E t \in Limited : CostSeen(t)

\* The units of the cost of a set of traces, and how many they are.
Units(S) == UNION {{t} \X (1..Cost[t]) : t \in S}

LEMMA UnitsAreFinite ==
    ASSUME NEW S \in SUBSET Traces
    PROVE  IsFiniteSet(Units(S))
<1> DEFINE f == [t \in S |-> {t} \X (1..Cost[t])]
           Parts == {{t} \X (1..Cost[t]) : t \in S}
<1>1. \A T \in Parts : IsFiniteSet(T)
  <2>1. ASSUME NEW t \in S
        PROVE  IsFiniteSet({t} \X (1..Cost[t]))
    <3>1. IsFiniteSet({t})
        BY FS_Singleton
    <3>2. IsFiniteSet(1..Cost[t])
      <4>1. 1 \in Int /\ Cost[t] \in Int
          BY Constants
      <4> QED BY <4>1, FS_Interval
    <3> QED BY <3>1, <3>2, FS_Product
  <2> QED BY <2>1
<1>2. f \in Surjection(S, Parts)
    BY DEF Surjection
<1>3. IsFiniteSet(S)
    BY Sizes
<1>4. IsFiniteSet(Parts)
  <2> HIDE DEF f, Parts
  <2> QED BY <1>2, <1>3, FS_Surjection
<1>5. IsFiniteSet(UNION Parts)
  <2> HIDE DEF Parts
  <2> QED BY <1>1, <1>4, FS_UNION
<1> QED BY <1>5 DEF Units

LEMMA CostOfNone == TotalCost({}) = 0
<1>1. UNION {{t} \X (1..Cost[t]) : t \in {}} = {}
    OBVIOUS
<1> QED BY <1>1, FS_EmptySet DEF TotalCost

\* A total is a number, and no smaller for more traces.
LEMMA CostOfMore ==
    ASSUME NEW S \in SUBSET Traces, NEW R \in SUBSET S
    PROVE  TotalCost(S) \in Nat /\ TotalCost(R) \in Nat /\ TotalCost(R) <= TotalCost(S)
<1>1. Units(R) \in SUBSET Units(S)
    BY DEF Units
<1>2. IsFiniteSet(Units(S)) /\ IsFiniteSet(Units(R))
  <2>1. R \in SUBSET Traces
      OBVIOUS
  <2> QED BY <2>1, UnitsAreFinite
<1>3. Cardinality(Units(S)) \in Nat /\ Cardinality(Units(R)) \in Nat
    BY <1>2, FS_CardinalityType
<1>4. Cardinality(Units(R)) <= Cardinality(Units(S))
    BY <1>1, <1>2, FS_Subset
<1> QED BY <1>3, <1>4 DEF TotalCost, Units

\* A trace more adds its cost.
LEMMA CostOfOneMore ==
    ASSUME NEW S \in SUBSET Traces, NEW t \in Traces \ S
    PROVE  TotalCost(S \cup {t}) = TotalCost(S) + Cost[t]
<1> DEFINE own == {t} \X (1..Cost[t])
<1>1. Units(S \cup {t}) = Units(S) \cup own
    BY DEF Units
<1>2. Units(S) \cap own = {}
    BY DEF Units
<1>3. IsFiniteSet(own) /\ Cardinality(own) = Cost[t]
  <2>1. IsFiniteSet({t}) /\ Cardinality({t}) = 1
      BY FS_Singleton
  <2>2. IsFiniteSet(1..Cost[t]) /\ Cardinality(1..Cost[t]) = Cost[t]
    <3>1. 1 \in Int /\ Cost[t] \in Int /\ Cost[t] \in Nat
        BY Constants
    <3>2. /\ IsFiniteSet(1..Cost[t])
          /\ Cardinality(1..Cost[t]) = IF 1 > Cost[t] THEN 0 ELSE Cost[t] - 1 + 1
        BY <3>1, FS_Interval
    <3> QED BY <3>1, <3>2
  <2>3. IsFiniteSet(own) /\ Cardinality(own) = Cardinality({t}) * Cardinality(1..Cost[t])
      BY <2>1, <2>2, FS_Product
  <2>4. Cost[t] \in Nat
      BY Constants
  <2> HIDE DEF own
  <2> QED BY <2>1, <2>2, <2>3, <2>4
<1> HIDE DEF own
<1>4. IsFiniteSet(Units(S)) /\ Cardinality(Units(S)) \in Nat
    BY UnitsAreFinite, FS_CardinalityType
<1>5. Cardinality(Units(S) \cup own)
          = Cardinality(Units(S)) + Cardinality(own) - Cardinality(Units(S) \cap own)
    BY <1>3, <1>4, FS_Union
<1>6. Cardinality(Units(S) \cap own) = 0 /\ Cost[t] \in Nat
    BY <1>2, FS_EmptySet, Constants
<1>7. Cardinality(Units(S \cup {t})) = Cardinality(Units(S)) + Cost[t]
  <2>1. Cardinality(Units(S) \cup own) = Cardinality(Units(S)) + Cost[t] - 0
      BY <1>3, <1>5, <1>6
  <2>2. \A a, c \in Nat : a + c - 0 = a + c
      OBVIOUS
  <2>3. Cardinality(Units(S) \cup own) = Cardinality(Units(S)) + Cost[t]
      BY <1>4, <1>6, <2>1, <2>2
  <2> QED BY <1>1, <2>3
<1> QED BY <1>7 DEF TotalCost, Units

\* As long as nothing fails or overlaps, nothing has, and an AddTrace finds no
\* CloseSession at work.
LEMMA CalmBefore ==
    ASSUME TypeOK, [Next]_vars, Calm'
    PROVE  /\ Calm /\ faults' = faults /\ ~Fault
           /\ \A t \in Traces : AddTrace(t) => reaper = "idle"
<1> USE DEF redis, locals, closing, past, hist
<1>0. ~Fault
  <2>1. faults' = 0
      BY DEF Calm
  <2> QED BY <2>1, Faulted
<1>1. faults' = faults
    BY <1>0 DEF Next, vars, Admit, AddTrace, PipelineFails, Resend, CheckCircuit, Push, SetSeen, AddCost, AddStep, SetTTL,
                CheckLimits, OnMeta, CloseSession, BeginClose, ReadMeta, ReadTraces, WriteRow, DeleteKeys, CloseFails,
                GoIdle, Expire, ResetCircuit, Crash
<1>2. MarkOverlap => ~overlap /\ reaper = "idle"
    BY DEF MarkOverlap, Calm
<1>3. \A t \in Traces : AddTrace(t) => MarkOverlap
    BY DEF AddTrace, CheckCircuit, Push, SetSeen, AddCost, AddStep, SetTTL, CheckLimits, OnMeta
<1>4. ~overlap
  <2>1. ASSUME NEW t \in Traces, Admit(t) \/ AddTrace(t) \/ PipelineFails(t) \/ Resend(t)
        PROVE  ~overlap
    <3>1. CASE AddTrace(t)
        BY <1>2, <1>3, <3>1
    <3>2. CASE Admit(t)
      <4>1. overlap' = overlap
          BY <3>2 DEF Admit
      <4> QED BY <4>1 DEF Calm
    <3>3. CASE PipelineFails(t) \/ Resend(t)
        BY <1>0, <3>3 DEF PipelineFails, Resend
    <3> QED BY <2>1, <3>1, <3>2, <3>3
  <2>2. CASE BeginClose
    <3>1. overlap' = (overlap \/ Busy # {})
        BY <2>2 DEF BeginClose
    <3> QED BY <3>1 DEF Calm
  <2>3. CASE \/ ReadMeta \/ ReadTraces \/ WriteRow \/ DeleteKeys \/ GoIdle \/ ResetCircuit
             \/ \E k \in {"traces", "meta"} : Expire(k)
    <3>1. overlap' = overlap
        BY <2>3 DEF ReadMeta, ReadTraces, WriteRow, DeleteKeys, GoIdle, ResetCircuit, Expire
    <3> QED BY <3>1 DEF Calm
  <2>4. CASE UNCHANGED vars
    <3>1. overlap' = overlap
        BY <2>4 DEF vars
    <3> QED BY <3>1 DEF Calm
  <2>5. ~CloseFails /\ ~Crash
      BY <1>0 DEF CloseFails, Crash
  <2> QED BY <2>1, <2>2, <2>3, <2>4, <2>5 DEF Next, CloseSession
<1> QED BY <1>0, <1>1, <1>2, <1>3, <1>4 DEF Calm

\* The counted traces are traces.
LEMMA CountedAreTraces ==
    /\ Charged \in SUBSET Traces /\ Charged' \in SUBSET Traces
    /\ Entered \in SUBSET Traces /\ Entered' \in SUBSET Traces
BY DEF Charged, Entered, Halfway

\* A step of a trace that counts nothing.
LEMMA CalmQuiet ==
    ASSUME TypeOK, Placed, Tallied, Snapped, RowsAgree, NEW t \in Traces, NEW from, NEW to, Move(t, from, to),
           UNCHANGED <<traces, meta, counted, reaper, snap, rows>>,
           to \notin {"push", "seen", "cost", "steps"} \/ (from = "queued" /\ to = "push"),
           from \notin {"push", "seen", "cost", "steps"},
           to \in InAddTrace \ {"push"} => from \in InAddTrace \ {"push"},
           from \in InAddTrace \/ to \in InAddTrace => reaper = "idle"
    PROVE  Placed' /\ Tallied' /\ Snapped' /\ RowsAgree'
<1>1. st[t] = from /\ st'[t] = to /\ \A u \in Traces \ {t} : st'[u] = st[u]
    BY Moved
<1>2. Charged' = Charged /\ Entered' = Entered
    BY <1>1 DEF Charged, Entered, Halfway
<1>3. Placed'
  <2>1. \A u \in Traces : st'[u] \in InAddTrace \ {"push"} => u \in Range(traces')
      BY <1>1 DEF Placed
  <2>2. Reapable' = Reapable
      BY DEF Reapable
  <2>3. \A u \in Traces : st'[u] \in {"cost", "steps"} => Reapable'
      BY <1>1, <2>2 DEF Placed
  <2>4. reaper' # "idle" => Busy' = {} /\ Reapable'
    <3>1. reaper # "idle" => Busy' = Busy
        BY <1>1 DEF Busy
    <3> QED BY <2>2, <3>1 DEF Placed
  <2>5. ~Reapable' => meta' = NoMeta
      BY <2>2 DEF Placed
  <2> QED BY <2>1, <2>3, <2>4, <2>5 DEF Placed
<1>4. Tallied' /\ Snapped' /\ RowsAgree'
    BY <1>2 DEF Tallied, Snapped, RowsAgree
<1> QED BY <1>3, <1>4

\* A step of a trace that writes to its keys.
LEMMA CalmWrite ==
    ASSUME TypeOK, TypeOK', Placed, Tallied, RowsAgree, reaper = "idle", UNCHANGED <<reaper, snap, rows>>,
           NEW t \in Traces, NEW from, NEW to \in InAddTrace \ {"push"}, Move(t, from, to),
           Range(traces') = Range(traces) \cup {t}, Reapable => Reapable',
           to \in {"cost", "steps"} => Reapable', ~Reapable' => meta' = NoMeta, Tallied'
    PROVE  Placed' /\ Tallied' /\ Snapped' /\ RowsAgree'
<1>1. st[t] = from /\ st'[t] = to /\ \A u \in Traces \ {t} : st'[u] = st[u]
    BY Moved
<1>2. \A u \in Traces : st'[u] \in InAddTrace \ {"push"} => u \in Range(traces')
    BY <1>1 DEF Placed
<1>3. \A u \in Traces : st'[u] \in {"cost", "steps"} => Reapable'
    BY <1>1 DEF Placed
<1>4. Placed'
    BY <1>2, <1>3 DEF Placed
<1> QED BY <1>4 DEF Snapped, RowsAgree, Closing

\* The steps of AddTrace that write.
LEMMA CalmTrace ==
    ASSUME TypeOK, TypeOK', OnceInv, faults = 0, Placed, Tallied, Snapped, RowsAgree,
           NEW t \in Traces, reaper = "idle", Push(t) \/ SetSeen(t) \/ AddCost(t) \/ AddStep(t)
    PROVE  Placed' /\ Tallied' /\ Snapped' /\ RowsAgree'
<1> USE DEF locals, closing
<1>1. CASE Push(t)
  <2>1. Move(t, "push", "seen") /\ traces' = Append(traces, t) /\ UNCHANGED <<meta, counted, reaper, snap, rows>>
      BY <1>1 DEF Push
  <2>2. st[t] = "push" /\ st'[t] = "seen" /\ \A u \in Traces \ {t} : st'[u] = st[u]
      BY <2>1, Moved
  <2>3. Range(traces') = Range(traces) \cup {t}
    <3>1. traces \in Seq(Traces)
        BY DEF TypeOK
    <3> QED BY <2>1, <3>1, AppendedRange
  <2>4. t \notin Range(traces)
      BY <2>2 DEF OnceInv, Unpushed, Held
  <2>5. Charged' = Charged /\ Entered' = Entered
      BY <2>2, <2>3, <2>4 DEF Charged, Entered, Halfway
  <2>6. Tallied'
      BY <2>1, <2>5 DEF Tallied
  <2>7. Reapable' = Reapable /\ (~Reapable' => meta' = NoMeta)
      BY <2>1 DEF Reapable, Placed
  <2>8. "seen" \in InAddTrace \ {"push"}
      BY DEF InAddTrace, InPipeline
  <2> QED BY <2>1, <2>3, <2>6, <2>7, <2>8, CalmWrite
<1>2. CASE SetSeen(t)
  <2>1. /\ Move(t, "seen", "cost") /\ meta' = [meta EXCEPT !.seen = "recent"]
        /\ UNCHANGED <<traces, counted, reaper, snap, rows>>
      BY <1>2 DEF SetSeen, OnMeta
  <2>2. st[t] = "seen" /\ st'[t] = "cost" /\ \A u \in Traces \ {t} : st'[u] = st[u]
      BY <2>1, Moved
  <2>3. Charged' = Charged /\ Entered' = Entered
      BY <2>1, <2>2 DEF Charged, Entered, Halfway
  <2>4. meta'.seen = "recent" /\ meta'.cost = meta.cost /\ meta'.steps = meta.steps
      BY <2>1 DEF TypeOK
  <2>5. Tallied' /\ Reapable'
      BY <2>1, <2>3, <2>4 DEF Tallied, Reapable
  <2>6. "cost" \in InAddTrace \ {"push"} /\ "seen" \in InAddTrace \ {"push"}
      BY DEF InAddTrace, InPipeline
  <2>7. Range(traces') = Range(traces) \cup {t}
      BY <2>1, <2>2, <2>6 DEF Placed
  <2> QED BY <2>1, <2>5, <2>6, <2>7, CalmWrite
<1>3. CASE AddCost(t)
  <2>1. /\ Move(t, "cost", "steps") /\ meta' = [meta EXCEPT !.cost = @ + Cost[t]]
        /\ UNCHANGED <<traces, counted, reaper, snap, rows>>
      BY <1>3 DEF AddCost, OnMeta
  <2>2. st[t] = "cost" /\ st'[t] = "steps" /\ \A u \in Traces \ {t} : st'[u] = st[u]
      BY <2>1, Moved
  <2>3. "steps" \in InAddTrace \ {"push"} /\ "cost" \in InAddTrace \ {"push"}
      BY DEF InAddTrace, InPipeline
  <2>4. t \in Range(traces) /\ Reapable
      BY <2>2, <2>3 DEF Placed
  <2>5. Charged' = Charged \cup {t} /\ t \in Traces \ Charged /\ Entered' = Entered
      BY <2>1, <2>2, <2>4 DEF Charged, Entered, Halfway
  <2>6. meta'.seen = meta.seen /\ meta'.cost = meta.cost + Cost[t] /\ meta'.steps = meta.steps
      BY <2>1 DEF TypeOK
  <2>7. TotalCost(Charged') = TotalCost(Charged) + Cost[t]
      BY <2>5, CountedAreTraces, CostOfOneMore
  <2>8. Tallied'
      BY <2>1, <2>5, <2>6, <2>7 DEF Tallied
  <2>9. Reapable'
      BY <2>4, <2>6 DEF Reapable
  <2>10. Range(traces') = Range(traces) \cup {t}
      BY <2>1, <2>4
  <2> QED BY <2>1, <2>3, <2>8, <2>9, <2>10, CalmWrite
<1>4. CASE AddStep(t)
  <2>1. /\ Move(t, "steps", "ttlTraces") /\ meta' = [meta EXCEPT !.steps = @ + 1]
        /\ counted' = counted \cup {t} /\ UNCHANGED <<traces, reaper, snap, rows>>
      BY <1>4 DEF AddStep, OnMeta
  <2>2. st[t] = "steps" /\ st'[t] = "ttlTraces" /\ \A u \in Traces \ {t} : st'[u] = st[u]
      BY <2>1, Moved
  <2>3. "ttlTraces" \in InAddTrace \ {"push"} /\ "steps" \in InAddTrace \ {"push"}
      BY DEF InAddTrace, InPipeline
  <2>4. t \in Range(traces) /\ Reapable
      BY <2>2, <2>3 DEF Placed
  <2>5. Entered' = Entered \cup {t} /\ t \notin Entered /\ Charged' = Charged
      BY <2>1, <2>2, <2>4 DEF Charged, Entered, Halfway
  <2>6. meta'.seen = meta.seen /\ meta'.cost = meta.cost /\ meta'.steps = meta.steps + 1
      BY <2>1 DEF TypeOK
  <2>7. Cardinality(Entered') = Cardinality(Entered) + 1
    <3>1. IsFiniteSet(Entered)
        BY CountedAreTraces, Sizes
    <3> QED BY <2>5, <3>1, FS_AddElement
  <2>8. Tallied'
      BY <2>1, <2>5, <2>6, <2>7 DEF Tallied
  <2>9. Reapable'
      BY <2>4, <2>6 DEF Reapable
  <2>10. Range(traces') = Range(traces) \cup {t}
      BY <2>1, <2>4
  <2> QED BY <2>1, <2>3, <2>8, <2>9, <2>10, CalmWrite
<1> QED BY <1>1, <1>2, <1>3, <1>4

LEMMA CalmStep ==
    ASSUME IInv, CalmInv, [Next]_vars
    PROVE  CalmInv'
<1> USE DEF redis, locals, closing, past, hist
<1> SUFFICES ASSUME Calm' PROVE Placed' /\ Tallied' /\ Snapped' /\ RowsAgree'
    BY DEF CalmInv
<1>1. TypeOK /\ OnceInv /\ OrphanInv
    BY DEF IInv
<1>2. TypeOK'
    BY <1>1, TypeStep
<1>3. Calm /\ faults = 0 /\ ~Fault /\ \A t \in Traces : AddTrace(t) => reaper = "idle"
    BY <1>1, CalmBefore DEF Calm
<1>4. Placed /\ Tallied /\ Snapped /\ RowsAgree
    BY <1>3 DEF CalmInv
<1>5. ASSUME NEW t \in Traces, Admit(t) \/ CheckCircuit(t) \/ SetTTL(t) \/ CheckLimits(t)
      PROVE  Placed' /\ Tallied' /\ Snapped' /\ RowsAgree'
  <2>1. UNCHANGED <<traces, meta, counted, reaper, snap, rows>>
      BY <1>5 DEF Admit, CheckCircuit, SetTTL, CheckLimits
  <2>2. CASE Admit(t)
    <3>1. Move(t, "new", "queued") \/ Move(t, "new", "rejected")
        BY <2>2 DEF Admit
    <3> QED BY <1>1, <1>4, <2>1, <3>1, CalmQuiet DEF InAddTrace, InPipeline
  <2>3. CASE CheckCircuit(t)
    <3>1. reaper = "idle"
        BY <1>3, <2>3 DEF AddTrace
    <3>2. Move(t, "queued", "push") \/ Move(t, "queued", "blocked")
        BY <2>3 DEF CheckCircuit
    <3> QED BY <1>1, <1>4, <2>1, <3>1, <3>2, CalmQuiet DEF InAddTrace, InPipeline
  <2>4. CASE SetTTL(t)
    <3>1. reaper = "idle"
        BY <1>3, <2>4 DEF AddTrace
    <3>2. Move(t, "ttlTraces", "ttlMeta") \/ Move(t, "ttlMeta", "limit")
        BY <2>4 DEF SetTTL
    <3> QED BY <1>1, <1>4, <2>1, <3>1, <3>2, CalmQuiet DEF InAddTrace, InPipeline
  <2>5. CASE CheckLimits(t)
    <3>1. reaper = "idle"
        BY <1>3, <2>5 DEF AddTrace
    <3>2. Move(t, "limit", "tripped") \/ Move(t, "limit", "ok")
        BY <2>5 DEF CheckLimits
    <3> QED BY <1>1, <1>4, <2>1, <3>1, <3>2, CalmQuiet DEF InAddTrace, InPipeline
  <2> QED BY <1>5, <2>2, <2>3, <2>4, <2>5
<1>6. ASSUME NEW t \in Traces, Push(t) \/ SetSeen(t) \/ AddCost(t) \/ AddStep(t)
      PROVE  Placed' /\ Tallied' /\ Snapped' /\ RowsAgree'
  <2>1. reaper = "idle"
      BY <1>3, <1>6 DEF AddTrace
  <2> QED BY <1>1, <1>2, <1>3, <1>4, <1>6, <2>1, CalmTrace
<1>7. ~CloseFails /\ ~Crash /\ \A t \in Traces : ~PipelineFails(t) /\ ~Resend(t)
    BY <1>3 DEF CloseFails, Crash, PipelineFails, Resend
<1>8. CASE \/ BeginClose \/ ReadMeta \/ ReadTraces \/ GoIdle \/ ResetCircuit \/ UNCHANGED vars
           \/ \E k \in {"traces", "meta"} : Expire(k)
  <2>0. UNCHANGED <<st, traces, rows>> /\ (BeginClose \/ ReadMeta \/ ReadTraces \/ GoIdle \/ UNCHANGED <<meta, reaper, snap>>)
        /\ UNCHANGED counted
    <3>1. ASSUME NEW k \in {"traces", "meta"}, Expire(k)
          PROVE  UNCHANGED <<st, traces, rows, meta, reaper, snap, counted>>
      <4>1. Busy = {} /\ ~Reapable /\ UNCHANGED <<st, rows, reaper, snap>>
          BY <1>3, <3>1 DEF Expire
      <4>2. meta = NoMeta
          BY <1>4, <4>1 DEF Placed
      <4>3. traces = <<>>
          BY <1>1, <1>3, <4>1 DEF OrphanInv, Busy, InAddTrace, InPipeline
      <4>4. counted = {}
          BY <1>4, <4>3, EmptyRange DEF Tallied, Entered
      <4> QED BY <3>1, <4>1, <4>2, <4>3, <4>4 DEF Expire
    <3> QED BY <1>8, <3>1 DEF BeginClose, ReadMeta, ReadTraces, GoIdle, ResetCircuit, vars
  <2>1. Charged' = Charged /\ Entered' = Entered /\ Busy' = Busy /\ RowsAgree'
      BY <1>4, <2>0 DEF Charged, Entered, Halfway, Busy, RowsAgree
  <2>2. CASE BeginClose
    <3>1. /\ reaper' = "readMeta" /\ UNCHANGED <<meta, snap>> /\ meta.seen = "idle"
          /\ overlap' = (overlap \/ Busy # {})
        BY <2>2 DEF BeginClose
    <3>2. Busy = {}
        BY <3>1 DEF Calm
    <3>3. Placed'
        BY <1>4, <2>0, <2>1, <3>1, <3>2 DEF Placed, Reapable
    <3>4. Tallied'
        BY <1>4, <2>0, <2>1, <3>1 DEF Tallied
    <3>5. Snapped'
        BY <3>1 DEF Snapped, Closing
    <3> QED BY <2>1, <3>3, <3>4, <3>5
  <2>3. CASE ReadMeta \/ ReadTraces
    <3>1. UNCHANGED meta /\ reaper # "idle" /\ Reapable' = Reapable
        BY <2>3 DEF ReadMeta, ReadTraces, Reapable
    <3>2. Placed' /\ Tallied'
        BY <1>4, <2>0, <2>1, <3>1 DEF Placed, Tallied
    <3>3. Snapped'
      <4>1. CASE ReadMeta
        <5>1. /\ snap'.steps = meta.steps /\ snap'.cost = meta.cost /\ snap'.counted = counted
              /\ reaper' = "readTraces"
            BY <1>1, <4>1 DEF ReadMeta, TypeOK, Row
        <5> QED BY <2>0, <3>1, <5>1 DEF Snapped
      <4>2. CASE ReadTraces
        <5>1. /\ snap'.traces = Range(traces) /\ snap'.steps = snap.steps /\ snap'.cost = snap.cost
              /\ snap'.counted = snap.counted /\ reaper = "readTraces"
            BY <1>1, <4>2 DEF ReadTraces, TypeOK, Row
        <5> QED BY <1>4, <2>0, <3>1, <5>1 DEF Snapped, Closing
      <4> QED BY <2>3, <4>1, <4>2
    <3> QED BY <2>1, <3>2, <3>3
  <2>4. CASE GoIdle
    <3>1. UNCHANGED <<reaper, snap>> /\ meta.seen = "recent" /\ meta' = [meta EXCEPT !.seen = "idle"]
        BY <2>4 DEF GoIdle
    <3>2. meta'.seen = "idle" /\ meta'.steps = meta.steps /\ meta'.cost = meta.cost
        BY <1>1, <3>1 DEF TypeOK
    <3>3. Reapable /\ Reapable'
        BY <3>1, <3>2 DEF Reapable
    <3>4. Placed'
        BY <1>4, <2>0, <2>1, <3>1, <3>3 DEF Placed
    <3>5. Tallied' /\ Snapped'
        BY <1>4, <2>0, <2>1, <3>1, <3>2 DEF Tallied, Snapped
    <3> QED BY <2>1, <3>4, <3>5
  <2>5. CASE UNCHANGED <<meta, reaper, snap>>
    <3>1. Placed'
        BY <1>4, <2>0, <2>1, <2>5 DEF Placed, Reapable
    <3>2. Tallied' /\ Snapped'
        BY <1>4, <2>0, <2>1, <2>5 DEF Tallied, Snapped
    <3> QED BY <2>1, <3>1, <3>2
  <2> QED BY <2>0, <2>2, <2>3, <2>4, <2>5
<1>9. CASE WriteRow
  <2>1. /\ reaper = "write" /\ reaper' = "delete" /\ UNCHANGED <<st, traces, meta, counted, snap>>
        /\ rows' = Append(rows, snap)
      BY <1>9 DEF WriteRow
  <2>2. /\ Busy = {} /\ Reapable /\ snap.steps = meta.steps /\ snap.cost = meta.cost
        /\ snap.counted = counted /\ snap.traces = Range(traces)
      BY <1>4, <2>1 DEF Placed, Snapped, Closing
  <2>3. Charged = Range(traces) /\ Entered = Range(traces)
    <3>1. Range(traces) \subseteq Traces
        BY <1>1, <2>2, Fields
    <3> QED BY <2>2, <3>1 DEF Charged, Entered, Halfway, Busy, InAddTrace, InPipeline
  <2>4. snap.counted = snap.traces /\ snap.cost = TotalCost(snap.traces)
      BY <1>4, <2>2, <2>3 DEF Tallied
  <2>5. /\ Len(rows') = Len(rows) + 1 /\ Len(rows) \in Nat
        /\ \A i \in 1..Len(rows) : rows'[i] = rows[i]
        /\ rows'[Len(rows) + 1] = snap
      BY <1>1, <2>1, AppendedRows
  <2>6. \A i \in 1..Len(rows') : i \in 1..Len(rows) \/ i = Len(rows) + 1
      BY <2>5
  <2>7. RowsAgree'
    <3> SUFFICES ASSUME NEW i \in 1..Len(rows')
                 PROVE  rows'[i].counted = rows'[i].traces /\ rows'[i].cost = TotalCost(rows'[i].traces)
        BY DEF RowsAgree, TotalCost
    <3>1. CASE i \in 1..Len(rows)
        BY <1>4, <2>5, <3>1 DEF RowsAgree
    <3>2. CASE i = Len(rows) + 1
        BY <2>4, <2>5, <3>2
    <3> QED BY <2>6, <3>1, <3>2
  <2>8. Charged' = Charged /\ Entered' = Entered /\ Busy' = Busy /\ Reapable' = Reapable
      BY <2>1 DEF Charged, Entered, Halfway, Busy, Reapable
  <2>9. Placed'
      BY <1>4, <2>1, <2>2, <2>8 DEF Placed
  <2>10. Tallied' /\ Snapped'
      BY <1>4, <2>1, <2>2, <2>8 DEF Tallied, Snapped, Closing
  <2> QED BY <2>7, <2>9, <2>10
<1>10. CASE DeleteKeys
  <2>1. reaper = "delete" /\ reaper' = "idle" /\ traces' = <<>> /\ meta' = NoMeta /\ counted' = {}
        /\ UNCHANGED <<st, rows>>
      BY <1>10 DEF DeleteKeys
  <2>2. Busy = {} /\ Range(traces') = {}
      BY <1>4, <2>1, EmptyRange DEF Placed
  <2>3. Charged' = {} /\ Entered' = {}
      BY <2>2 DEF Charged, Entered, Halfway
  <2>4. Tallied'
    <3>1. Cardinality({}) = 0 /\ TotalCost({}) = 0
        BY FS_EmptySet, CostOfNone
    <3>2. meta'.steps = 0 /\ meta'.cost = 0
        BY <2>1 DEF NoMeta
    <3> QED BY <2>1, <2>3, <3>1, <3>2 DEF Tallied
  <2>5. \A t \in Traces : st'[t] \notin InAddTrace
      BY <2>1, <2>2 DEF Busy
  <2>6. Placed'
      BY <2>1, <2>5 DEF Placed, InAddTrace, InPipeline
  <2> QED BY <1>4, <2>1, <2>4, <2>6 DEF Snapped, RowsAgree, Closing
<1> HIDE DEF redis, locals, closing, past, hist
<1>11. QED
  BY <1>5, <1>6, <1>7, <1>8, <1>9, <1>10 DEF Next, AddTrace, CloseSession

\* Nothing more is counted, and who has seen a limit still has.
LEMMA TripKept ==
    ASSUME NEW S \in SUBSET Traces, NEW S1 \in SUBSET S, NEW C \in SUBSET Traces, NEW C1 \in SUBSET C,
           S = Entered \cap Limited, S1 = Entered' \cap Limited,
           C = Charged \cap Limited, C1 = Charged' \cap Limited,
           TripInv, Calm, resets = 0, Untripped,
           MaxSteps > 0 => \A t \in Limited : StepSeen(t) => StepSeen(t)',
           MaxCost > 0 => \A t \in Limited : CostSeen(t) => CostSeen(t)'
    PROVE  TripInv'
<1>1. Cardinality(S1) <= Cardinality(S) /\ Cardinality(S1) \in Nat /\ Cardinality(S) \in Nat
  <2>1. S1 \in SUBSET Traces
      OBVIOUS
  <2> QED BY <2>1, SubsetSizes, Sizes
<1>2. TotalCost(C1) <= TotalCost(C) /\ TotalCost(C1) \in Nat /\ TotalCost(C) \in Nat
    BY CostOfMore
<1>3. MaxSteps \in Nat /\ MaxCost \in Nat
    BY Constants
<1>4. MaxSteps > 0 => Cardinality(Entered' \cap Limited) < MaxSteps \/ \E t \in Limited : StepSeen(t)'
  <2>1. MaxSteps > 0 => Cardinality(S) < MaxSteps \/ \E t \in Limited : StepSeen(t)
      BY DEF TripInv
  <2> QED BY <1>1, <1>3, <2>1
<1>5. MaxCost > 0 => TotalCost(Charged' \cap Limited) < MaxCost \/ \E t \in Limited : CostSeen(t)'
  <2>1. MaxCost > 0 => TotalCost(C) < MaxCost \/ \E t \in Limited : CostSeen(t)
      BY DEF TripInv
  <2> QED BY <1>2, <1>3, <2>1
<1> QED BY <1>4, <1>5 DEF TripInv, TotalCost

LEMMA TripStep ==
    ASSUME IInv, CalmInv, TripInv, [Next]_vars
    PROVE  TripInv'
<1> USE DEF redis, locals, closing, past, hist
<1> SUFFICES ASSUME Calm', resets' = 0, Untripped' PROVE TripInv'
    BY DEF TripInv
<1>1. TypeOK /\ OnceInv /\ TypeOK'
    BY TypeStep DEF IInv
<1>2. Calm /\ faults = 0 /\ ~Fault
    BY <1>1, CalmBefore DEF Calm
<1>3. Placed /\ Tallied'
    BY <1>2, CalmStep DEF CalmInv
<1>4. resets = 0 /\ Untripped
  <2>1. ~ResetCircuit
    <3>1. resets \in 0..MaxResets /\ MaxResets \in Nat
        BY <1>1, Fields, Constants
    <3>2. resets + 1 # 0
        BY <3>1
    <3> QED BY <3>2 DEF ResetCircuit
  <2>2. resets = 0
      BY <2>1 DEF Next, vars, Admit, AddTrace, PipelineFails, Resend, CheckCircuit, Push, SetSeen, AddCost, AddStep, SetTTL,
                CheckLimits, OnMeta, CloseSession, BeginClose, ReadMeta, ReadTraces, WriteRow, DeleteKeys, CloseFails,
                GoIdle, Expire, ResetCircuit, Crash
  <2>3. circuit' = circuit \/ circuit' \in {"steps", "cost"}
      BY <2>1 DEF Next, vars, Admit, AddTrace, PipelineFails, Resend, CheckCircuit, Push, SetSeen, AddCost, AddStep, SetTTL,
                CheckLimits, OnMeta, CloseSession, BeginClose, ReadMeta, ReadTraces, WriteRow, DeleteKeys, CloseFails,
                GoIdle, Expire, ResetCircuit, Crash
  <2> QED BY <2>2, <2>3 DEF Untripped
<1>5. MaxSteps \in Nat /\ MaxCost \in Nat /\ Limited \subseteq Traces
    BY Constants
<1> DEFINE S == Entered \cap Limited
           C == Charged \cap Limited
<1>6. S \in SUBSET Traces /\ C \in SUBSET Traces
    BY CountedAreTraces
<1>7. ASSUME NEW t \in Traces, Admit(t) \/ CheckCircuit(t) \/ Push(t) \/ SetSeen(t) \/ SetTTL(t) \/ CheckLimits(t)
      PROVE  TripInv'
  <2>1. PICK from, to : Move(t, from, to) /\ \/ from \in {"new", "queued", "push", "seen"}
                                                /\ to \in {"queued", "rejected", "push", "blocked", "seen", "cost"}
                                                /\ UNCHANGED locals
                                             \/ from \in {"ttlTraces", "ttlMeta"} /\ to \in {"ttlMeta", "limit"}
                                                /\ UNCHANGED locals
                                             \/ from = "limit" /\ to \in {"ok", "tripped"} /\ CheckLimits(t)
      BY <1>7 DEF Admit, CheckCircuit, Push, SetSeen, SetTTL, CheckLimits, OnMeta
  <2>2. st[t] = from /\ st'[t] = to /\ \A u \in Traces \ {t} : st'[u] = st[u]
      BY <1>1, <2>1, Moved
  <2>3. Entered' \subseteq Entered /\ Charged' \subseteq Charged
    <3>1. CASE Push(t)
      <4>1. st[t] = "push" /\ st'[t] = "seen"
          BY <1>1, <3>1, Moved DEF Push
      <4>2. Range(traces') = Range(traces) \cup {t}
        <5>1. traces \in Seq(Traces) /\ traces' = Append(traces, t)
            BY <1>1, <3>1 DEF TypeOK, Push
        <5> QED BY <5>1, AppendedRange
      <4> QED BY <2>2, <4>1, <4>2 DEF Entered, Halfway, Charged
    <3>2. CASE ~Push(t)
      <4>1. UNCHANGED traces
          BY <1>7, <3>2 DEF Admit, CheckCircuit, SetSeen, SetTTL, CheckLimits, OnMeta
      <4>2. from # "seen" \/ to = "cost"
        <5>1. \/ Move(t, "seen", "cost")
              \/ \E other \in {"new", "queued", "ttlTraces", "ttlMeta", "limit"} : st[t] = other
            BY <1>7, <3>2 DEF Admit, CheckCircuit, SetSeen, SetTTL, CheckLimits, OnMeta, Move
        <5>2. Move(t, "seen", "cost") => st'[t] = "cost"
            BY <1>1, Moved
        <5> QED BY <2>2, <5>1, <5>2
      <4> QED BY <2>1, <2>2, <4>1, <4>2 DEF Entered, Halfway, Charged
    <3> QED BY <3>1, <3>2
  <2>4. /\ MaxSteps > 0 => \A u \in Limited : StepSeen(u) => StepSeen(u)'
        /\ MaxCost > 0 => \A u \in Limited : CostSeen(u) => CostSeen(u)'
    <3>1. CASE from = "limit" /\ to \in {"ok", "tripped"} /\ CheckLimits(t)
      <4>1. t \notin Limited \/ (~OverSteps(t) /\ ~OverCost(t))
          BY <1>2, <3>1 DEF CheckLimits, Untripped
      <4>2. \A u \in Traces \ {t} : seenSteps'[u] = seenSteps[u] /\ seenCost'[u] = seenCost[u]
          BY <1>1, <3>1 DEF CheckLimits, DropLocals, TypeOK
      <4>3. /\ MaxSteps > 0 => \A u \in Limited : StepSeen(u) => u # t
            /\ MaxCost > 0 => \A u \in Limited : CostSeen(u) => u # t
          BY <4>1 DEF StepSeen, CostSeen, OverSteps, OverCost
      <4> QED BY <1>5, <2>2, <4>2, <4>3 DEF StepSeen, CostSeen
    <3>2. CASE from \in {"new", "queued", "push", "seen", "ttlTraces", "ttlMeta"} /\ UNCHANGED locals
      <4>1. \A u \in Limited : StepSeen(u) => StepSeen(u)'
          BY <1>5, <2>1, <2>2, <3>2 DEF StepSeen
      <4>2. \A u \in Limited : CostSeen(u) => CostSeen(u)'
          BY <1>5, <2>1, <2>2, <3>2 DEF CostSeen
      <4> QED BY <4>1, <4>2
    <3> QED BY <2>1, <3>1, <3>2
  <2>5. Entered' \cap Limited \in SUBSET S /\ Charged' \cap Limited \in SUBSET C
      BY <2>3
  <2> QED BY <1>2, <1>4, <1>6, <2>4, <2>5, TripKept
<1>8. ASSUME NEW t \in Traces, AddCost(t)
      PROVE  TripInv'
  <2>1. /\ Move(t, "cost", "steps") /\ meta' = [meta EXCEPT !.cost = @ + Cost[t]] /\ UNCHANGED <<traces, seenSteps>>
        /\ seenCost' = [seenCost EXCEPT ![t] = meta.cost + Cost[t]]
      BY <1>8 DEF AddCost, OnMeta
  <2>2. st[t] = "cost" /\ st'[t] = "steps" /\ \A u \in Traces \ {t} : st'[u] = st[u]
      BY <1>1, <2>1, Moved
  <2>3. seenCost'[t] = meta'.cost /\ \A u \in Traces \ {t} : seenCost'[u] = seenCost[u]
      BY <1>1, <2>1 DEF TypeOK
  <2>4. \A u \in Limited : StepSeen(u) => StepSeen(u)'
      BY <1>5, <2>1, <2>2 DEF StepSeen
  <2>5. \A u \in Limited : CostSeen(u) => CostSeen(u)'
      BY <1>5, <2>2, <2>3 DEF CostSeen
  <2>6. Entered' = Entered /\ Charged' \subseteq Charged \cup {t}
      BY <2>1, <2>2 DEF Entered, Halfway, Charged
  <2>7. CASE t \notin Limited
    <3>1. Entered' \cap Limited \in SUBSET S /\ Charged' \cap Limited \in SUBSET C
        BY <2>6, <2>7
    <3> QED BY <1>2, <1>4, <1>6, <2>4, <2>5, <3>1, TripKept
  <2>8. CASE t \in Limited
    <3>1. TotalCost(Charged' \cap Limited) \in Nat /\ TotalCost(Charged' \cap Limited) <= TotalCost(Charged')
          /\ TotalCost(Charged') \in Nat
      <4>1. Charged' \in SUBSET Traces /\ Charged' \cap Limited \in SUBSET Charged'
          BY CountedAreTraces
      <4> QED BY <4>1, CostOfMore
    <3>2. seenCost'[t] = TotalCost(Charged')
        BY <1>3, <2>3 DEF Tallied, TotalCost
    <3>3. TotalCost(Charged' \cap Limited) < MaxCost \/ seenCost'[t] >= MaxCost
        BY <1>5, <3>1, <3>2
    <3>4. TotalCost(Charged' \cap Limited) < MaxCost \/ \E u \in Limited : CostSeen(u)'
        BY <2>2, <2>8, <3>3 DEF CostSeen
    <3>5. MaxSteps > 0 => Cardinality(Entered' \cap Limited) < MaxSteps \/ \E u \in Limited : StepSeen(u)'
        BY <1>2, <1>4, <2>4, <2>6 DEF TripInv
    <3> QED BY <3>4, <3>5 DEF TripInv, TotalCost
  <2> QED BY <2>7, <2>8
<1>9. ASSUME NEW t \in Traces, AddStep(t)
      PROVE  TripInv'
  <2>1. /\ Move(t, "steps", "ttlTraces") /\ meta' = [meta EXCEPT !.steps = @ + 1] /\ UNCHANGED <<traces, seenCost>>
        /\ seenSteps' = [seenSteps EXCEPT ![t] = meta.steps + 1]
      BY <1>9 DEF AddStep, OnMeta
  <2>2. st[t] = "steps" /\ st'[t] = "ttlTraces" /\ \A u \in Traces \ {t} : st'[u] = st[u]
      BY <1>1, <2>1, Moved
  <2>3. seenSteps'[t] = meta'.steps /\ \A u \in Traces \ {t} : seenSteps'[u] = seenSteps[u]
      BY <1>1, <2>1 DEF TypeOK
  <2>4. \A u \in Limited : StepSeen(u) => StepSeen(u)'
      BY <1>5, <2>2, <2>3 DEF StepSeen
  <2>5. \A u \in Limited : CostSeen(u) => CostSeen(u)'
      BY <1>5, <2>1, <2>2 DEF CostSeen
  <2>6. Charged' = Charged /\ Entered' \subseteq Entered \cup {t}
      BY <2>1, <2>2 DEF Entered, Halfway, Charged
  <2>7. CASE t \notin Limited
    <3>1. Entered' \cap Limited \in SUBSET S /\ Charged' \cap Limited \in SUBSET C
        BY <2>6, <2>7
    <3> QED BY <1>2, <1>4, <1>6, <2>4, <2>5, <3>1, TripKept
  <2>8. CASE t \in Limited
    <3>1. Cardinality(Entered' \cap Limited) \in Nat /\ Cardinality(Entered' \cap Limited) <= Cardinality(Entered')
          /\ Cardinality(Entered') \in Nat
      <4>1. Entered' \in SUBSET Traces /\ Entered' \cap Limited \in SUBSET Entered' /\ Entered' \cap Limited \in SUBSET Traces
          BY CountedAreTraces
      <4> QED BY <4>1, SubsetSizes, Sizes
    <3>2. seenSteps'[t] = Cardinality(Entered')
        BY <1>3, <2>3 DEF Tallied
    <3>3. Cardinality(Entered' \cap Limited) < MaxSteps \/ seenSteps'[t] >= MaxSteps
        BY <1>5, <3>1, <3>2
    <3>4. Cardinality(Entered' \cap Limited) < MaxSteps \/ \E u \in Limited : StepSeen(u)'
        BY <2>2, <2>8, <3>3 DEF StepSeen
    <3>5. MaxCost > 0 => TotalCost(Charged' \cap Limited) < MaxCost \/ \E u \in Limited : CostSeen(u)'
        BY <1>2, <1>4, <2>5, <2>6 DEF TripInv
    <3> QED BY <3>4, <3>5 DEF TripInv, TotalCost
  <2> QED BY <2>7, <2>8
<1>10. CASE \/ CloseSession \/ GoIdle \/ ResetCircuit \/ UNCHANGED vars
            \/ \E k \in {"traces", "meta"} : Expire(k)
  <2>1. UNCHANGED <<st, seenSteps, seenCost>> /\ (traces' = traces \/ traces' = <<>>)
      BY <1>10 DEF CloseSession, BeginClose, ReadMeta, ReadTraces, WriteRow, DeleteKeys, GoIdle, ResetCircuit, Expire, vars
  <2>2. Entered' \subseteq Entered /\ Charged' \subseteq Charged
      BY <2>1, EmptyRange DEF Entered, Halfway, Charged
  <2>3. \A u \in Limited : (StepSeen(u) => StepSeen(u)') /\ (CostSeen(u) => CostSeen(u)')
      BY <2>1 DEF StepSeen, CostSeen
  <2>4. Entered' \cap Limited \in SUBSET S /\ Charged' \cap Limited \in SUBSET C
      BY <2>2
  <2> QED BY <1>2, <1>4, <1>6, <2>3, <2>4, TripKept
<1>11. ~CloseFails /\ ~Crash /\ \A t \in Traces : ~PipelineFails(t) /\ ~Resend(t)
    BY <1>2 DEF CloseFails, Crash, PipelineFails, Resend
<1> HIDE DEF redis, locals, closing, past, hist
<1> QED BY <1>7, <1>8, <1>9, <1>10, <1>11 DEF Next, AddTrace

LEMMA CountsInit ==
    ASSUME Init
    PROVE  CalmInv /\ TripInv
<1>1. Busy = {} /\ Range(traces) = {} /\ Charged = {} /\ Entered = {} /\ rows = <<>>
    BY EmptyRange DEF Init, Busy, InAddTrace, InPipeline, Charged, Entered, Halfway
<1>2. Placed /\ Snapped /\ RowsAgree
  <2>1. Placed
      BY <1>1 DEF Init, Placed, InAddTrace, InPipeline
  <2>2. 1..Len(rows) = {}
      BY <1>1
  <2> QED BY <2>1, <2>2 DEF Init, Snapped, RowsAgree, Closing
<1>3. Cardinality({}) = 0 /\ TotalCost({}) = 0 /\ {} \cap Limited = {}
    BY FS_EmptySet, CostOfNone
<1>4. Tallied
    BY <1>1, <1>3 DEF Init, Tallied, NoMeta
<1>5. TripInv
  <2>1. MaxSteps \in Nat /\ MaxCost \in Nat
      BY Constants
  <2>2. (MaxSteps > 0 => 0 < MaxSteps) /\ (MaxCost > 0 => 0 < MaxCost)
      BY <2>1
  <2>3. Entered \cap Limited = {} /\ Charged \cap Limited = {}
      BY <1>1
  <2> QED BY <1>3, <2>2, <2>3 DEF TripInv
<1> QED BY <1>2, <1>4, <1>5 DEF CalmInv

\* As long as nothing fails and no AddTrace overlaps a close, the counters are
\* those of the buffer, and a limit that is reached is about to trip the circuit.
THEOREM CountersAreTheBuffers == Spec => [](CalmInv /\ TripInv)
BY Invariance, CountsInit, CalmStep, TripStep, PTL DEF Spec

\* Without faults no trace is in two rows and a row's steps are as many as the
\* traces it counts; unless an AddTrace overlapped a close, those are the ones
\* of its quality, and its cost is theirs (session.go:306-390).
THEOREM RowsAlwaysAddUp == Spec => []RowsAddUp
<1>1. IInv /\ CalmInv => RowsAddUp
  <2>1. IInv => OneRowPerTrace /\ (faults = 0 => StepsAreCounted)
      BY DEF IInv, OnceInv, CountInv, NumbersInv, OneRowPerTrace
  <2>2. CalmInv => RowsAgreeWithTraces
      BY DEF CalmInv, Calm, RowsAgree, RowsAgreeWithTraces
  <2> QED BY <2>1, <2>2 DEF RowsAddUp
<1> QED BY <1>1, Invariance, CountersAreTheBuffers, PTL

\* However many workers count at a time, one of them sees the limit and trips
\* the circuit: a session at rest whose circuit is closed is under both limits
\* (session.go:151-205).
THEOREM LimitsAreNeverMissed == Spec => []LimitNeverMissed
<1>1. IInv /\ CalmInv /\ TripInv => LimitNeverMissed
  <2> SUFFICES ASSUME IInv, CalmInv, TripInv, Busy = {}, circuit = "", resets = 0, faults = 0, ~overlap
               PROVE  /\ MaxSteps > 0 => Cardinality(Range(traces) \cap Limited) < MaxSteps
                      /\ MaxCost > 0 => TotalCost(Range(traces) \cap Limited) < MaxCost
      BY DEF LimitNeverMissed
  <2>1. Calm /\ Untripped
      BY DEF Calm, Untripped
  <2>2. Range(traces) \cap Limited \subseteq Traces
      BY Constants
  <2>3. Entered \cap Limited = Range(traces) \cap Limited /\ Charged \cap Limited = Range(traces) \cap Limited
      BY <2>2 DEF Entered, Halfway, Charged, Busy, InAddTrace, InPipeline
  <2>4. \A t \in Limited : ~StepSeen(t) /\ ~CostSeen(t)
      BY Constants DEF StepSeen, CostSeen, Busy, InAddTrace, InPipeline
  <2> QED BY <2>1, <2>3, <2>4 DEF TripInv
<1> QED BY <1>1, Invariance, CountersAreTheBuffers, PTL

-----------------------------------------------------------------------------
(* The ledger.                                                             *)

\* The reaper sees no hash without a list.
FilledInv == Calm /\ Reapable => traces # <<>>

LEMMA FilledStep ==
    ASSUME IInv, CalmInv, FilledInv, [Next]_vars
    PROVE  FilledInv'
<1> USE DEF redis, locals, closing, past, hist
<1> SUFFICES ASSUME Calm', Reapable' PROVE traces' # <<>>
    BY DEF FilledInv
<1>1. TypeOK /\ Calm /\ ~Fault
    BY CalmBefore DEF IInv
<1>2. Placed /\ (Reapable => traces # <<>>)
    BY <1>1 DEF CalmInv, FilledInv
<1>3. ASSUME NEW t \in Traces, Admit(t) \/ CheckCircuit(t) \/ AddCost(t) \/ AddStep(t) \/ SetTTL(t) \/ CheckLimits(t)
      PROVE  traces' # <<>>
  <2>1. traces' = traces /\ meta'.seen = meta.seen
      BY <1>1, <1>3 DEF Admit, CheckCircuit, AddCost, AddStep, SetTTL, CheckLimits, OnMeta, TypeOK
  <2> QED BY <1>2, <2>1 DEF Reapable
<1>4. ASSUME NEW t \in Traces, Push(t)
      PROVE  traces' # <<>>
  <2>1. traces \in Seq(Traces) /\ traces' = Append(traces, t)
      BY <1>1, <1>4 DEF Push, TypeOK
  <2> QED BY <2>1, Appended
<1>5. ASSUME NEW t \in Traces, SetSeen(t)
      PROVE  traces' # <<>>
  <2>1. st[t] = "seen" /\ traces' = traces
      BY <1>5 DEF SetSeen, OnMeta, Move
  <2>2. t \in Range(traces)
      BY <1>2, <2>1 DEF Placed, InAddTrace, InPipeline
  <2> QED BY <2>1, <2>2, EmptyRange
<1>6. CASE BeginClose \/ ReadMeta \/ ReadTraces \/ WriteRow \/ GoIdle \/ ResetCircuit \/ UNCHANGED vars
  <2>1. traces' = traces /\ (Reapable' => Reapable)
      BY <1>6 DEF BeginClose, ReadMeta, ReadTraces, WriteRow, GoIdle, ResetCircuit, vars, Reapable
  <2> QED BY <1>2, <2>1
<1>7. ~DeleteKeys
  <2>1. DeleteKeys => ~Reapable'
      BY DEF DeleteKeys, Reapable, NoMeta
  <2> QED BY <2>1
<1>8. ASSUME NEW k \in {"traces", "meta"}
      PROVE  ~Expire(k)
  <2>1. Expire(k) => ~Reapable
      BY <1>1, Fields DEF Expire, Calm
  <2>2. Expire(k) => meta' = meta \/ meta' = NoMeta
      BY DEF Expire
  <2> QED BY <2>1, <2>2 DEF Reapable, NoMeta
<1>9. ~CloseFails /\ ~Crash /\ \A t \in Traces : ~PipelineFails(t) /\ ~Resend(t)
    BY <1>1 DEF CloseFails, Crash, PipelineFails, Resend
<1> HIDE DEF redis, locals, closing, past, hist
<1> QED BY <1>3, <1>4, <1>5, <1>6, <1>7, <1>8, <1>9 DEF Next, AddTrace, CloseSession

\* A step writes a row or none, and without faults none with a trace of another.
LEMMA RowsGrow ==
    ASSUME IInv, [Next]_vars
    PROVE  /\ rows' = rows \/ rows' = Append(rows, snap)
           /\ L!Grows
           /\ faults' = 0 =>
                 \/ rows' = rows
                 \/ LET row == rows'[Len(rows')]
                    IN  /\ row.traces \cap L!Closed = {} /\ row.counted \cap L!CountedIn = {}
                        /\ row.steps = Cardinality(row.counted)
<1> USE DEF redis, locals, closing, past, hist
<1>1. rows' = rows \/ (rows' = Append(rows, snap) /\ (WriteRow \/ CloseFails))
    BY DEF Next, vars, Admit, AddTrace, PipelineFails, Resend, CheckCircuit, Push, SetSeen, AddCost, AddStep, SetTTL,
           CheckLimits, OnMeta, CloseSession, BeginClose, ReadMeta, ReadTraces, WriteRow, DeleteKeys, CloseFails,
           GoIdle, Expire, ResetCircuit, Crash
<1>2. TypeOK
    BY DEF IInv
<1>3. L!Grows
    BY <1>1, <1>2, AppendedRows DEF L!Grows
<1>4. ASSUME faults' = 0, rows' # rows
      PROVE  /\ rows'[Len(rows')].traces \cap L!Closed = {} /\ rows'[Len(rows')].counted \cap L!CountedIn = {}
             /\ rows'[Len(rows')].steps = Cardinality(rows'[Len(rows')].counted)
  <2>1. WriteRow /\ rows' = Append(rows, snap)
    <3>1. ~CloseFails
        BY <1>2, <1>4, Faulted DEF CloseFails
    <3> QED BY <1>1, <1>4, <3>1
  <2>2. faults = 0 /\ reaper = "write"
      BY <1>4, <2>1 DEF WriteRow
  <2>3. \A i \in 1..Len(rows) : rows[i].traces \cap Held = {}
      BY <2>2 DEF IInv, OnceInv
  <2>4. rows'[Len(rows')] = snap
      BY <1>2, <2>1, AppendedRows
  <2>5. rows'[Len(rows')].traces \cap L!Closed = {}
      BY <2>3, <2>4 DEF L!Closed, Held
  <2>6. \A i \in 1..Len(rows) : rows[i].counted \cap Tally = {}
      BY <2>2 DEF IInv, CountInv
  <2>7. rows'[Len(rows')].counted \cap L!CountedIn = {}
      BY <2>4, <2>6 DEF L!CountedIn, Tally
  <2>8. snap.steps = Cardinality(snap.counted)
      BY <2>2 DEF IInv, NumbersInv, Closing
  <2> QED BY <2>4, <2>5, <2>7, <2>8
<1> QED BY <1>1, <1>3, <1>4

\* While it is calm, a step enters a trace, closes the session or shows nothing.
LEMMA CalmLedger ==
    ASSUME IInv, CalmInv, FilledInv, [Next]_vars, Calm'
    PROVE  L!LNext \/ UNCHANGED <<Open, rows, Weather>>
<1> USE DEF redis, locals, closing, past, hist
<1>1. TypeOK /\ Calm /\ ~Fault /\ \A t \in Traces : AddTrace(t) => reaper = "idle"
    BY CalmBefore DEF IInv
<1>2. Weather = "calm" /\ Weather' = "calm"
    BY <1>1 DEF Calm, Weather
<1>3. Placed /\ Tallied /\ Snapped /\ OnceInv /\ CountInv /\ OrphanInv /\ faults = 0
    BY <1>1 DEF CalmInv, IInv, Calm
<1>4. ASSUME NEW t \in Traces, Admit(t) \/ CheckCircuit(t) \/ SetSeen(t) \/ AddCost(t) \/ SetTTL(t) \/ CheckLimits(t)
      PROVE  UNCHANGED <<Open, rows, Weather>>
  <2>1. PICK from, to : Move(t, from, to) /\ \/ from \in {"seen", "cost"} /\ to \in {"cost", "steps"}
                                             \/ /\ from \in {"new", "queued", "ttlTraces", "ttlMeta", "limit"}
                                                /\ to \notin {"seen", "cost", "steps"}
    <3>1. \/ Move(t, "new", "queued") \/ Move(t, "new", "rejected")
          \/ Move(t, "queued", "push") \/ Move(t, "queued", "blocked")
          \/ Move(t, "seen", "cost") \/ Move(t, "cost", "steps")
          \/ Move(t, "ttlTraces", "ttlMeta") \/ Move(t, "ttlMeta", "limit")
          \/ Move(t, "limit", "tripped") \/ Move(t, "limit", "ok")
        BY <1>4 DEF Admit, CheckCircuit, SetSeen, AddCost, SetTTL, CheckLimits, OnMeta
    <3> QED BY <3>1
  <2>2. UNCHANGED <<traces, reaper, rows>>
      BY <1>4 DEF Admit, CheckCircuit, SetSeen, AddCost, SetTTL, CheckLimits, OnMeta
  <2>3. st[t] = from /\ st'[t] = to /\ \A u \in Traces \ {t} : st'[u] = st[u]
      BY <1>1, <2>1, Moved
  <2>4. Entered' = Entered
      BY <2>1, <2>2, <2>3 DEF Entered, Halfway
  <2> QED BY <1>2, <2>2, <2>4 DEF Open
<1>5. ASSUME NEW t \in Traces, Push(t)
      PROVE  UNCHANGED <<Open, rows, Weather>>
  <2>1. Move(t, "push", "seen") /\ traces' = Append(traces, t) /\ UNCHANGED <<reaper, rows>>
      BY <1>5 DEF Push
  <2>2. st[t] = "push" /\ st'[t] = "seen" /\ \A u \in Traces \ {t} : st'[u] = st[u]
      BY <1>1, <2>1, Moved
  <2>3. Range(traces') = Range(traces) \cup {t}
    <3>1. traces \in Seq(Traces)
        BY <1>1 DEF TypeOK
    <3> QED BY <2>1, <3>1, AppendedRange
  <2>4. t \notin Range(traces)
      BY <1>3, <2>2 DEF OnceInv, Unpushed, Held
  <2>5. Entered' = Entered
      BY <2>2, <2>3, <2>4 DEF Entered, Halfway
  <2> QED BY <1>2, <2>1, <2>5 DEF Open
<1>6. ASSUME NEW t \in Traces, AddStep(t)
      PROVE  L!Enter(t)
  <2>1. Move(t, "steps", "ttlTraces") /\ UNCHANGED <<traces, reaper, rows>> /\ reaper = "idle"
      BY <1>1, <1>6 DEF AddStep, OnMeta, AddTrace
  <2>2. st[t] = "steps" /\ st'[t] = "ttlTraces" /\ \A u \in Traces \ {t} : st'[u] = st[u]
      BY <1>1, <2>1, Moved
  <2>3. t \in Range(traces)
      BY <1>3, <2>2 DEF Placed, InAddTrace, InPipeline
  <2>4. Entered' = Entered \cup {t} /\ t \notin Entered
      BY <2>1, <2>2, <2>3 DEF Entered, Halfway
  <2>5. t \notin L!Closed
      BY <1>3, <2>1, <2>3 DEF OnceInv, Held, L!Closed
  <2>6. Open = Entered /\ Open' = Entered'
      BY <2>1 DEF Open
  <2>7. t \notin L!CountedIn
      BY <1>3, <2>2 DEF CountInv, Uncounted, L!CountedIn
  <2> QED BY <1>2, <2>1, <2>4, <2>5, <2>6, <2>7 DEF L!Enter
<1>7. CASE BeginClose \/ ReadMeta \/ ReadTraces \/ GoIdle \/ ResetCircuit \/ UNCHANGED vars
  <2>1. UNCHANGED <<st, traces, rows>> /\ (reaper = "delete" <=> reaper' = "delete")
      BY <1>7 DEF BeginClose, ReadMeta, ReadTraces, GoIdle, ResetCircuit, vars
  <2>2. Entered' = Entered
      BY <2>1 DEF Entered, Halfway
  <2> QED BY <1>2, <2>1, <2>2 DEF Open
<1>8. ASSUME NEW k \in {"traces", "meta"}, Expire(k)
      PROVE  UNCHANGED <<Open, rows, Weather>>
  <2>1. Busy = {} /\ ~Reapable /\ UNCHANGED <<st, reaper, rows>> /\ traces' \in {traces, <<>>}
      BY <1>3, <1>8 DEF Expire
  <2>2. traces = <<>>
      BY <1>3, <2>1 DEF OrphanInv, Busy, InAddTrace, InPipeline
  <2>3. Entered' = Entered
      BY <2>1, <2>2 DEF Entered, Halfway
  <2> QED BY <1>2, <2>1, <2>3 DEF Open
<1>9. CASE WriteRow
  <2>1. reaper = "write" /\ reaper' = "delete" /\ rows' = Append(rows, snap)
      BY <1>9 DEF WriteRow
  <2>2. Busy = {} /\ Reapable
      BY <1>3, <2>1 DEF Placed
  <2>3. Range(traces) \subseteq Traces /\ traces \in Seq(Traces)
      BY <1>1, RangeOfSeq DEF TypeOK
  <2>4. Entered = Range(traces) /\ Charged = Range(traces)
      BY <2>2, <2>3 DEF Entered, Halfway, Charged, Busy, InAddTrace, InPipeline
  <2>5. /\ snap.steps = Cardinality(Entered) /\ snap.cost = TotalCost(Entered)
        /\ snap.counted = Entered /\ snap.traces = Entered
    <3>1. /\ snap.steps = meta.steps /\ snap.cost = meta.cost
          /\ snap.counted = counted /\ snap.traces = Range(traces)
        BY <1>3, <2>1 DEF Snapped, Closing
    <3>2. meta.steps = Cardinality(Entered) /\ meta.cost = TotalCost(Charged) /\ counted = Entered
        BY <1>3 DEF Tallied
    <3> QED BY <2>4, <3>1, <3>2
  <2>6. snap = [steps |-> Cardinality(Entered), cost |-> TotalCost(Entered), counted |-> Entered, traces |-> Entered]
    <3>1. snap = [steps |-> snap.steps, cost |-> snap.cost, counted |-> snap.counted, traces |-> snap.traces]
        BY <1>1 DEF TypeOK, Row
    <3> QED BY <2>5, <3>1
  <2>7. Entered # {}
    <3>1. traces # <<>>
        BY <1>1, <2>2 DEF FilledInv
    <3>2. Len(traces) \in Nat /\ Len(traces) # 0
        BY <2>3, <3>1
    <3>3. Len(traces) \in 1..Len(traces)
        BY <3>2
    <3>4. Range(traces) = {traces[i] : i \in 1..Len(traces)}
        BY <2>3, RangeEquality
    <3> QED BY <2>4, <3>3, <3>4
  <2>8. Entered \cap L!Closed = {} /\ Entered \cap L!CountedIn = {}
    <3>1. Entered \cap L!Closed = {}
        BY <1>3, <2>1, <2>4 DEF OnceInv, Held, L!Closed
    <3>2. Entered = counted
        BY <1>3 DEF Tallied
    <3>3. \A i \in 1..Len(rows) : rows[i].counted \cap counted = {}
        BY <1>3, <2>1 DEF CountInv, Tally
    <3>4. Entered \cap L!CountedIn = {}
        BY <3>2, <3>3 DEF L!CountedIn
    <3> QED BY <3>1, <3>4
  <2>9. Open = Entered /\ Open' = {}
      BY <2>1 DEF Open
  <2>10. Open # {} /\ Open \cap (L!Closed \cup L!CountedIn) = {}
      BY <2>7, <2>8, <2>9
  <2>11. rows' = Append(rows, [steps |-> Cardinality(Open), cost |-> TotalCost(Open),
                               counted |-> Open, traces |-> Open])
      BY <2>1, <2>6, <2>9
  <2>12. L!Close
    <3> HIDE DEF redis, locals, closing, past, hist
    <3> QED BY <1>2, <2>9, <2>10, <2>11 DEF L!Close, L!Cardinality, Cardinality, TotalCost
  <2> QED BY <2>12 DEF L!LNext
<1>10. CASE DeleteKeys
  <2>1. reaper = "delete" /\ traces' = <<>> /\ UNCHANGED rows
      BY <1>10 DEF DeleteKeys
  <2>2. Open = {} /\ Open' = {}
      BY <2>1, EmptyRange DEF Open, Entered, Halfway
  <2> QED BY <1>2, <2>1, <2>2
<1>11. ~CloseFails /\ ~Crash /\ \A t \in Traces : ~PipelineFails(t) /\ ~Resend(t)
    BY <1>1 DEF CloseFails, Crash, PipelineFails, Resend
<1>12. (\E t \in Traces : L!Enter(t)) => L!LNext
    BY DEF L!LNext
<1> HIDE DEF redis, locals, closing, past, hist
<1> QED BY <1>4, <1>5, <1>6, <1>7, <1>8, <1>9, <1>10, <1>11, <1>12 DEF Next, AddTrace, CloseSession

LEMMA LedgerStep ==
    ASSUME IInv, CalmInv, FilledInv, [Next]_vars
    PROVE  L!LNext \/ UNCHANGED <<Open, rows, Weather>>
<1>1. CASE Calm'
    BY <1>1, CalmLedger
<1>2. TypeOK /\ TypeOK' /\ faults \in Nat /\ faults' \in Nat
  <2>1. TypeOK /\ TypeOK'
      BY TypeStep DEF IInv
  <2>2. faults \in 0..MaxFaults /\ faults' \in 0..MaxFaults
      BY <2>1 DEF TypeOK
  <2> QED BY <2>1, <2>2
<1>3. CASE faults' > 0
  <2>1. Weather' = "faulty"
      BY <1>3 DEF Weather
  <2>2. L!Fail
      BY <2>1, RowsGrow DEF L!Fail
  <2> QED BY <2>2 DEF L!LNext
<1>4. CASE ~Calm' /\ ~(faults' > 0)
  <2>1. faults' = 0
      BY <1>2, <1>4
  <2>2. Weather' = "crowded"
      BY <1>4, <2>1 DEF Weather, Calm
  <2>3. faults = 0
    <3>1. faults' = faults \/ Fault
        BY DEF Next, vars, Admit, AddTrace, PipelineFails, Resend, CheckCircuit, Push, SetSeen, AddCost, AddStep, SetTTL,
               CheckLimits, OnMeta, CloseSession, BeginClose, ReadMeta, ReadTraces, WriteRow, DeleteKeys, CloseFails,
               GoIdle, Expire, ResetCircuit, Crash, redis, locals, closing, past, hist
    <3> QED BY <1>2, <2>1, <3>1, Faulted
  <2>4. Weather # "faulty"
      BY <2>3 DEF Weather
  <2>5. L!Grows
      BY RowsGrow
  <2>6. \/ rows' = rows
        \/ LET row == rows'[Len(rows')]
           IN  /\ row.traces \cap L!Closed = {} /\ row.counted \cap L!CountedIn = {}
               /\ row.steps = Cardinality(row.counted)
      BY <2>1, RowsGrow
  <2>7. L!Crowd
      BY <2>2, <2>4, <2>5, <2>6 DEF L!Crowd, L!Cardinality, Cardinality
  <2> QED BY <2>7 DEF L!LNext
<1> QED BY <1>1, <1>3, <1>4

LEMMA LedgerInit ==
    ASSUME Init
    PROVE  L!LInit /\ FilledInv
<1>1. Open = {}
    BY EmptyRange DEF Init, Open, Entered, Halfway
<1>2. Weather = "calm"
  <2>1. ~(faults > 0)
    <3>1. faults = 0
        BY DEF Init
    <3> QED BY <3>1
  <2>2. ~overlap
      BY DEF Init
  <2> QED BY <2>1, <2>2 DEF Weather
<1>3. FilledInv
    BY DEF Init, FilledInv, Reapable, NoMeta
<1> QED BY <1>1, <1>2, <1>3 DEF Init, L!LInit

\* A session is a ledger: a trace is entered once, and a close makes one row of
\* all that has been entered, with its count and its cost (session.go:151-390).
THEOREM SessionsImplementLedger == Spec => ImplementsLedger
<1>1. Init => L!LInit /\ FilledInv
    BY LedgerInit
<1>2. IInv /\ CalmInv /\ FilledInv /\ [Next]_vars => FilledInv' /\ [L!LNext]_<<Open, rows, Weather>>
    BY FilledStep, LedgerStep
<1> QED BY <1>1, <1>2, Invariance, CountersAreTheBuffers, PTL DEF Spec, ImplementsLedger, L!LSpec
=============================================================================
